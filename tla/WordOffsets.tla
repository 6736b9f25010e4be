---------------------------- MODULE WordOffsets ----------------------------
(***************************************************************************)
(* Where a word of a text is: the tokenizers of the dictionaries, of the   *)
(* gazetteer, of the CRF tagger and of the plugin, which trim the runs of  *)
(* word characters and give each word its offsets; the slices taken of the *)
(* text at these offsets; and the features the tagger reads off a word.    *)
(*                                                                         *)
(* A text is a sequence of characters of different sizes.  The strings of  *)
(* Rust are cut by bytes and a cut inside a character is a panic; those of *)
(* JavaScript by code units, one to each character here.  The dictionaries *)
(* look at the text in lower case and cut the text as it was written.      *)
(***************************************************************************)
EXTENDS Integers, Sequences, FiniteSets, SequencesExt, Selection

CONSTANTS
    KnownWords,   \* words of the dictionaries, in lower case
    KnownNames,   \* words of the gazetteer
    MaxLetters    \* bound: characters of a text

(* A small letter and its capital, a digit, a hyphen, a blank, e acute, the*)
(* Turkish dotted capital I, whose lower case is an i and a combining dot  *)
(* that is no word character, and the Kelvin sign, whose is a plain k.     *)
TextChars == {"a", "A", "1", "-", " ", "e", "I", "K"}
Lowered == {"a", "1", "-", " ", "e", "i", ".", "k"}
ByteSize == [c \in TextChars \cup Lowered |->
             CASE c \in {"e", "I", "."} -> 2 [] c = "K" -> 3 [] OTHER -> 1]
LoweredChar == [c \in TextChars |->
             CASE c = "A" -> <<"a">> [] c = "K" -> <<"k">> [] c = "I" -> <<"i", ".">>
               [] OTHER -> <<c>>]
Alphanumeric == {"a", "A", "1", "e", "I", "K", "i", "k"}
Ascii        == {"a", "A", "1", "-", " ", "i", "k"}
Capitals        == {"A", "I", "K"}
Small        == {"a", "e", "i", "k"}

(* A word of a dictionary has no other characters than a word of a text;   *)
(* an apostrophe is treated as a hyphen is.                                *)
ASSUME WordAssumption ==
    /\ \A w \in KnownWords : w \in Seq(Lowered) /\ ToSet(w) \subseteq Alphanumeric \cup {"-"}
    /\ \A w \in KnownNames : w \in Seq(TextChars) /\ ToSet(w) \subseteq Alphanumeric \cup {"-"}
    /\ MaxLetters \in Nat

VARIABLES
    written,   \* the text
    reader,    \* who reads it, then "read" or, after a panic, "aborted"
    by,        \* who read it
    reported,  \* words looked up with success, their offsets and their slices
    features   \* per token what the tagger reads off it

wordVars == <<written, reader, by, reported, features>>

Readers == {"keyword", "persuasion", "gazetteer", "tagger", "plugin"}

WordTypeOK ==
    /\ written \in Seq(TextChars) /\ Len(written) <= MaxLetters
    /\ reader \in Readers \cup {"read", "aborted"} /\ by \in Readers \cup {"none"}
    /\ \A r \in reported : r.from < r.to /\ r.word # <<>>
    /\ \A i \in DOMAIN features : features[i] # {}

-----------------------------------------------------------------------------
SizeOf(s) ==
    LET size[n \in 0..Len(s)] == IF n = 0 THEN 0 ELSE size[n - 1] + ByteSize[s[n]]
    IN  size[Len(s)]
ToLower(s) == FlattenSeq([i \in DOMAIN s |-> LoweredChar[s[i]]])

\* Mutant: the offset of the run, not of what trimming leaves of it.
UntrimmedAt(s, i, j) ==
    LET inner == {k \in i..j : s[k] # "-"}
    IN  [word |-> SubSeq(s, Min(inner), Max(inner)), first |-> i, skipped |-> 0]

(* A run s[i..j] without the hyphens at its ends, and how many went before.*)
TrimmedAt(s, i, j) ==
    LET inner == {k \in i..j : s[k] # "-"}
    IN  [word |-> SubSeq(s, Min(inner), Max(inner)), first |-> i, skipped |-> Min(inner) - i]

(* The runs of word characters that are not all hyphens, one after another.*)
Runs(s, chars) ==
    LET In(k) == k \in DOMAIN s /\ s[k] \in chars \cup {"-"}
    IN  {r \in (DOMAIN s) \X (DOMAIN s) :
           /\ r[1] <= r[2] /\ ~In(r[1] - 1) /\ ~In(r[2] + 1)
           /\ \A k \in r[1]..r[2] : In(k)
           /\ \E k \in r[1]..r[2] : s[k] # "-"}

TokensOf(s, chars) ==
    LET runs   == Runs(s, chars)
        begins == Those([k \in DOMAIN s |-> k], {r[1] : r \in runs})
        End(k) == CHOOSE j \in DOMAIN s : <<k, j>> \in runs
    IN  [i \in DOMAIN begins |-> TrimmedAt(s, begins[i], End(begins[i]))]

\* Hyphens are one byte and one unit wide.
InBytes(s, ts) ==
    LET Begin(t) == SizeOf(SubSeq(s, 1, t.first - 1)) + t.skipped
    IN  [i \in DOMAIN ts |-> [word |-> ts[i].word, from |-> Begin(ts[i]),
                              to |-> Begin(ts[i]) + SizeOf(ts[i].word)]]
InUtf16(ts) ==
    LET Begin(t) == t.first - 1 + t.skipped
    IN  [i \in DOMAIN ts |-> [word |-> ts[i].word, from |-> Begin(ts[i]),
                              to |-> Begin(ts[i]) + Len(ts[i].word)]]

Tokenize(lower)          == InBytes(lower, TokensOf(lower, Alphanumeric))
TokenizePhrases(lower)   == InBytes(lower, TokensOf(lower, Alphanumeric))
TokenizeCaseSensitive(s) == InBytes(s, TokensOf(s, Alphanumeric))
TokenizeJs(lower)        == InUtf16(TokensOf(lower, Ascii \cap Alphanumeric))
TokenizeForCrf(s) ==
    LET tokens == InBytes(s, TokensOf(s, Alphanumeric))
    IN  [i \in DOMAIN tokens |-> [word |-> tokens[i].word, lower |-> ToLower(tokens[i].word)]]

-----------------------------------------------------------------------------
(* text[b..e]: offsets that are not at the edge of a character, or behind  *)
(* the end, are a panic, which aborts the process.                         *)
Edge(s, b)      == \E k \in 0..Len(s) : SizeOf(SubSeq(s, 1, k)) = b
EdgeAt(s, b)    == CHOOSE k \in 0..Len(s) : SizeOf(SubSeq(s, 1, k)) = b
Sliceable(t)    == Edge(written, t.from) /\ Edge(written, t.to)
Slice(t)        == SubSeq(written, EdgeAt(written, t.from) + 1, EdgeAt(written, t.to))
Report(t, raw)  == [word |-> t.word, from |-> t.from, to |-> t.to, raw |-> raw]

Unread(who) == reader = who /\ by' = who
Known(tokens, words) == {t \in ToSet(tokens) : t.word \in words}

(* Rust: every known word is cut out of the text, or the process aborts.   *)
Cut(found) ==
    /\ IF \A t \in found : Sliceable(t)
       THEN reader' = "read" /\ reported' = {Report(t, Slice(t)) : t \in found}
       ELSE reader' = "aborted" /\ UNCHANGED reported
    /\ UNCHANGED <<written, features>>

ScanKeywordText    == Unread("keyword") /\ Cut(Known(Tokenize(ToLower(written)), KnownWords))
ScanPersuasionText == Unread("persuasion") /\ Cut(Known(TokenizePhrases(ToLower(written)), KnownWords))
ScanNameText       == Unread("gazetteer") /\ Cut(Known(TokenizeCaseSensitive(written), KnownNames))

(* scanDictionary of the plugin: slice stops at the end of the text.       *)
ScanDictionaryJs ==
    /\ Unread("plugin")
    /\ reported' = {Report(t, SubSeq(written, t.from + 1, Min({t.to, Len(written)}))) :
                      t \in Known(TokenizeJs(ToLower(written)), KnownWords)}
    /\ reader' = "read"
    /\ UNCHANGED <<written, features>>

-----------------------------------------------------------------------------
(* extract_features.  The parts of a word are cut by bytes, too.           *)
ClassOf(c)   == IF c \in Capitals THEN "X" ELSE IF c \in Small THEN "x" ELSE IF c = "1" THEN "d" ELSE c
WordShape(w) ==
    FoldLeft(LAMBDA s, c : IF s # <<>> /\ Last(s) = ClassOf(c) THEN s ELSE Append(s, ClassOf(c)),
             <<>>, w)

AffixesCut(w) ==
    \A n \in 1..3 : n <= SizeOf(w) => Edge(w, n) /\ Edge(w, SizeOf(w) - n)
Prefix(w, n) == SubSeq(w, 1, EdgeAt(w, n))
Suffix(w, n) == SubSeq(w, EdgeAt(w, SizeOf(w) - n) + 1, Len(w))
LengthClass(n) == IF n <= 2 THEN "short" ELSE IF n <= 5 THEN "medium"
                  ELSE IF n <= 10 THEN "long" ELSE "vlong"
Is(w, chars) == ToSet(w) \subseteq chars

FeaturesOf(ts, i) ==
    LET t == ts[i]  w == t.lower  sizes == {n \in 1..3 : n <= SizeOf(w)} IN
    {<<"word", w>>, <<"shape", WordShape(t.word)>>, <<"len", LengthClass(SizeOf(w))>>}
    \cup {<<"p", Prefix(w, n)>> : n \in sizes} \cup {<<"s", Suffix(w, n)>> : n \in sizes}
    \cup (IF Is(t.word, Capitals) THEN {<<"isupper">>} ELSE {})
    \cup (IF Head(t.word) \in Capitals /\ Is(Tail(t.word), Small) THEN {<<"istitle">>} ELSE {})
    \cup (IF Is(t.word, {"1"}) THEN {<<"isdigit">>} ELSE {})
    \cup (IF Is(t.word, Capitals \cup Small) THEN {<<"isalpha">>} ELSE {})
    \cup (IF w \in KnownWords THEN {<<"gaz", "term">>} ELSE {})
    \cup (IF {w, t.word} \cap KnownNames # {} THEN {<<"gaz", "person">>} ELSE {})
    \cup (IF i = 1 THEN {<<"BOS">>}
          ELSE {<<"-1:word", ts[i - 1].lower>>, <<"-1:shape", WordShape(ts[i - 1].word)>>})
    \cup (IF i = Len(ts) THEN {<<"EOS">>}
          ELSE {<<"+1:word", ts[i + 1].lower>>, <<"+1:shape", WordShape(ts[i + 1].word)>>})

ExtractFeatures ==
    /\ Unread("tagger")
    /\ LET tokens == TokenizeForCrf(written)
       IN  IF \A i \in DOMAIN tokens : AffixesCut(tokens[i].lower)
           THEN /\ reader' = "read"
                /\ features' = [i \in DOMAIN tokens |-> FeaturesOf(tokens, i)]
           ELSE reader' = "aborted" /\ UNCHANGED features
    /\ UNCHANGED <<written, reported>>

-----------------------------------------------------------------------------
WordInit ==
    /\ written \in BoundedSeq(TextChars, MaxLetters)
    /\ reader \in Readers /\ by = "none"
    /\ reported = {} /\ features = <<>>

WordNext ==
    \/ ScanKeywordText \/ ScanPersuasionText \/ ScanNameText
    \/ ScanDictionaryJs \/ ExtractFeatures

WordSpec == WordInit /\ [][WordNext]_wordVars
-----------------------------------------------------------------------------
(* What a reader reports is in the text where it says: in whatever text    *)
(* for the gazetteer, in one whose lower case is no longer or shorter for  *)
(* the dictionaries.  These abort the process over no other text but one   *)
(* that is; the tagger, which cuts the first and the last bytes of a word, *)
(* over none in ASCII (of other texts nothing is claimed, wherever in a    *)
(* word the wide characters stand).                                        *)
Steady(s) == \A i \in DOMAIN s : SizeOf(LoweredChar[s[i]]) = ByteSize[s[i]]
SteadyJs(s) == \A i \in DOMAIN s : Len(LoweredChar[s[i]]) = 1
SlicesReadAsWords ==
    \A r \in reported :
      /\ by = "gazetteer" => r.raw = r.word
      /\ by \in {"keyword", "persuasion"} /\ Steady(written) => ToLower(r.raw) = r.word
      /\ by = "plugin" /\ SteadyJs(written) => ToLower(r.raw) = r.word
AbortsAreWide ==
    reader = "aborted" =>
      \/ by \in {"keyword", "persuasion"} /\ ~Steady(written)
      \/ by = "tagger" /\ ~Is(ToLower(written), Ascii)

(* A known word that nothing but hyphens parts from the next blanks is     *)
(* reported from its first to its last character.                          *)
LoneWordsAreFound ==
    LET Blank(k) == k \notin DOMAIN written \/ written[k] = " "
        Hyphens(i, j) == \A k \in i..j : written[k] = "-"
        Lone == {p \in (DOMAIN written) \X (DOMAIN written) :
                   /\ p[1] <= p[2] /\ written[p[1]] # "-" /\ written[p[2]] # "-"
                   /\ \E k \in 0..p[1] - 1 : Blank(k) /\ Hyphens(k + 1, p[1] - 1)
                   /\ \E k \in p[2] + 1..Len(written) + 1 : Blank(k) /\ Hyphens(p[2] + 1, k - 1)}
        At(p) == SubSeq(written, p[1], p[2])
        Bounds(p) == <<SizeOf(SubSeq(written, 1, p[1] - 1)), SizeOf(SubSeq(written, 1, p[2]))>>
        Found(p) == \E r \in reported : <<r.from, r.to>> = Bounds(p)
    IN  reader = "read" =>
          \A p \in Lone :
            /\ by = "gazetteer" /\ At(p) \in KnownNames => Found(p)
            /\ by \in {"keyword", "persuasion"} /\ Steady(written)
               /\ ToLower(At(p)) \in KnownWords => Found(p)
            /\ by = "plugin" /\ Is(written, Ascii) /\ ToLower(At(p)) \in KnownWords => Found(p)

OffsetsAddressText == SlicesReadAsWords /\ AbortsAreWide /\ LoneWordsAreFound
=============================================================================

----------------------------- MODULE NerTokens -----------------------------
(***************************************************************************)
(* One pass of the NER scanner over one text: the model directory is       *)
(* loaded, the words of the text are cut into pieces of the vocabulary     *)
(* (wordpiece.rs), the model gives every piece a label and a confidence,   *)
(* and the labels of first pieces are made entities of words               *)
(* (ner_scanner.rs).  Where the words are in the text is in NerText.       *)
(***************************************************************************)
EXTENDS FiniteSets, SequencesExt, Selection

CONSTANTS
    ModelDirs,     \* what may be in the model directory
    Passages,      \* texts: sequences of words, each a sequence of letters
    MaxLength,     \* max_length of a model's input (512)
    LabelCount,    \* how many labels the model itself gives
    Sureness,      \* percentages of confidence
    NerThreshold   \* confidence_threshold in percent

\* A capital, its small letter, and another.
WordLetters == {"A", "a", "b"}

(* A directory: the model files there and those too large, the vocabulary  *)
(* (or its fault), and the label map (or its fault): labels in order, or a *)
(* name for each of some numbers.                                          *)
ASSUME DirAssumption ==
    /\ \A d \in ModelDirs :
         /\ d.files \subseteq {"int8", "plain"} /\ d.large \subseteq d.files
         /\ d.vocab \in {"ok", "missing", "unmarked"}
         /\ d.map \in {"none", "broken", "labels", "id2label", "other"}
         /\ d.names \in Seq({"O", "B", "I", "other"} \X STRING)
         /\ d.begins \cup d.continues \subseteq Seq(WordLetters)
    /\ Passages \subseteq Seq(Seq(WordLetters) \ {<<>>}) /\ Sureness \subseteq Nat
    /\ MaxLength \in Nat /\ MaxLength >= 3
    /\ LabelCount \in Nat \ {0} /\ NerThreshold \in 0..100

VARIABLES
    modelDir,   \* what is loaded from
    labelMap,   \* label_map: per label a tag and a type, or none
    wordsRead,  \* the words of the text
    pieces,     \* the pieces the model is given: the word and the letters of each
    judged,     \* per piece the label and the confidence of the model
    persons,    \* the entities: type, first and last word
    passStep    \* "load", "tokenize", "infer", "decode", "done" or "refused"

tokenVars == <<modelDir, labelMap, wordsRead, pieces, judged, persons, passStep>>

NerTypes == {"PER", "LOC", "ORG", "HEALTH", "CHILD"}
PieceTags == {"O", "B", "I"}
LabelIds == 0..LabelCount - 1

TokenTypeOK ==
    /\ modelDir \in ModelDirs
    /\ labelMap \in Seq([tag : PieceTags, type : NerTypes \cup {"none"}])
    /\ Len(pieces) <= MaxLength - 2
    /\ \A i \in DOMAIN pieces : pieces[i].word \in DOMAIN wordsRead
    /\ judged \in Seq(LabelIds \X Sureness)
    /\ \A e \in persons : e.from <= e.to /\ e.type \in NerTypes
    /\ passStep \in {"load", "tokenize", "infer", "decode", "done", "refused"}

-----------------------------------------------------------------------------
(* NerScanner::load.                                                       *)

(* Names of types without one of ours, as MISC, are labels of no type;     *)
(* names that begin with neither B- nor I- are no labels at all.           *)
EntityToPiiType(name) == IF name \in NerTypes THEN name ELSE "none"
ParseLabelName(n) ==
    IF n[1] \in {"B", "I"} THEN [tag |-> n[1], type |-> EntityToPiiType(n[2])]
    ELSE [tag |-> "O", type |-> "none"]

DefaultLabelMap ==
    LET types == <<"PER", "LOC", "ORG", "HEALTH", "CHILD">>
    IN  [i \in 1..11 |->
           IF i = 1 THEN [tag |-> "O", type |-> "none"]
           ELSE [tag |-> IF i % 2 = 0 THEN "B" ELSE "I", type |-> types[i \div 2]]]

(* A map by numbers may leave some out: they are no labels.                *)
BuildLabelMap(d) ==
    IF d.map \in {"labels", "id2label"} THEN [i \in DOMAIN d.names |-> ParseLabelName(d.names[i])]
    ELSE DefaultLabelMap

(* The quantized model goes before the plain one, even when it is the one  *)
(* too large.                                                              *)
ModelFile(d) == IF "int8" \in d.files THEN "int8" ELSE "plain"
Loadable(d) ==
    /\ d.files # {} /\ ModelFile(d) \notin d.large
    /\ d.vocab = "ok" /\ d.map # "broken"

LoadModelDir ==
    /\ passStep = "load"
    /\ \/ /\ Loadable(modelDir)
          /\ labelMap' = BuildLabelMap(modelDir)
          /\ passStep' = "tokenize"
       \/ /\ passStep' = "refused"     \* or ONNX Runtime will not have it
          /\ UNCHANGED labelMap
    /\ UNCHANGED <<modelDir, wordsRead, pieces, judged, persons>>

-----------------------------------------------------------------------------
(* WordPieceTokenizer.  A piece that begins a word and one that continues  *)
(* it are different entries of the vocabulary.                             *)

\* A word of several letters that begins with a capital.
Cased(d) == \E w \in d.begins : Len(w) > 1 /\ w[1] = "A"
Lowercase(w) == [i \in DOMAIN w |-> IF w[i] = "A" THEN "a" ELSE w[i]]

InVocabulary(d, start, letters) ==
    letters \in IF start = 1 THEN d.begins ELSE d.continues

(* The longest piece that fits, again and again; where none does, the      *)
(* unknown piece stands for one letter.  A cut is where the next piece     *)
(* begins, and the pieces before it.                                       *)
Fitting(d, w, b) == {e \in b..Len(w) : InVocabulary(d, b, SubSeq(w, b, e))}
NextCut(d, w, c) ==
    LET fits == Fitting(d, w, c.at)
    IN  IF c.at > Len(w) THEN c
        ELSE IF fits = {} THEN [at |-> c.at + 1, out |-> Append(c.out, <<"UNK">>)]
        ELSE [at |-> Max(fits) + 1, out |-> Append(c.out, SubSeq(w, c.at, Max(fits)))]
WordpieceSegment(d, w) ==
    LET cut[n \in 0..Len(w)] ==
          IF n = 0 THEN [at |-> 1, out |-> <<>>] ELSE NextCut(d, w, cut[n - 1])
    IN  cut[Len(w)].out

PiecesOf(d, w) == WordpieceSegment(d, IF Cased(d) THEN w ELSE Lowercase(w))

LabelledPieces(k) ==
    LET ps == PiecesOf(modelDir, wordsRead[k])
    IN  [i \in DOMAIN ps |-> [word |-> k, piece |-> ps[i]]]
AllPieces == FlattenSeq([k \in DOMAIN wordsRead |-> LabelledPieces(k)])

(* Between [CLS] and [SEP] there is room for MaxLength - 2; the rest, and  *)
(* the padding, the model does not see.                                    *)
TokenizePassage ==
    /\ passStep = "tokenize"
    /\ pieces' = SubSeq(AllPieces, 1, Min({Len(AllPieces), MaxLength - 2}))
    /\ passStep' = "infer"
    /\ UNCHANGED <<modelDir, labelMap, wordsRead, judged, persons>>

-----------------------------------------------------------------------------
(* scan_text_single_pass: external, any label for a piece; that of the     *)
(* largest logit, its share of the softmax.                                *)
JudgePiece ==
    /\ passStep = "infer"
    /\ IF Len(judged) = Len(pieces) THEN passStep' = "decode" /\ UNCHANGED judged
       ELSE /\ \E l \in LabelIds, c \in Sureness : judged' = Append(judged, <<l, c>>)
            /\ UNCHANGED passStep
    /\ UNCHANGED <<modelDir, labelMap, wordsRead, pieces, persons>>

SinglePassFails ==
    /\ passStep = "infer"
    /\ passStep' = "refused"
    /\ UNCHANGED <<modelDir, labelMap, wordsRead, pieces, judged, persons>>

\* A number behind the end of the map is no label.
InfoOf(l) == IF l + 1 \in DOMAIN labelMap THEN labelMap[l + 1] ELSE [tag |-> "O", type |-> "none"]

\* Mutant: every piece has a say, not the first of its word alone.
EveryPiece(i) == TRUE

FirstPiece(i) == IF i = 1 THEN TRUE ELSE pieces[i - 1].word # pieces[i].word

\* An entity that is open is a sequence of one, or empty.
Starting(i, info) ==
    IF info.type = "none" THEN <<>>
    ELSE <<[type |-> info.type, from |-> pieces[i].word, to |-> pieces[i].word,
            total |-> judged[i][2], count |-> 1]>>
Going(open, i) ==
    <<[open[1] EXCEPT !.to = pieces[i].word, !.total = @ + judged[i][2], !.count = @ + 1]>>

\* decode_bio_tags, one piece.
DecodePiece(acc, i) ==
    LET info   == InfoOf(judged[i][1])
        goesOn == info.tag = "I" /\ acc.open # <<>> /\ acc.open[1].type = info.type
    IN  IF ~FirstPiece(i) THEN acc
        ELSE IF goesOn THEN [acc EXCEPT !.open = Going(@, i)]
        ELSE [out |-> acc.out \o acc.open,
              open |-> IF info.tag = "O" THEN <<>> ELSE Starting(i, info)]

Decoded ==
    LET acc[i \in 0..Len(pieces)] ==
          IF i = 0 THEN [out |-> <<>>, open |-> <<>>] ELSE DecodePiece(acc[i - 1], i)
    IN  acc[Len(pieces)]

\* Entities whose mean confidence reaches the threshold.
DecodeTags ==
    /\ passStep = "decode"
    /\ LET sure == {e \in ToSet(Decoded.out \o Decoded.open) : e.total >= NerThreshold * e.count}
       IN  persons' = {[type |-> e.type, from |-> e.from, to |-> e.to] : e \in sure}
    /\ passStep' = "done"
    /\ UNCHANGED <<modelDir, labelMap, wordsRead, pieces, judged>>

TokenInit ==
    /\ modelDir \in ModelDirs /\ wordsRead \in Passages
    /\ labelMap = <<>> /\ pieces = <<>> /\ judged = <<>> /\ persons = {}
    /\ passStep = "load"

TokenNext ==
    LoadModelDir \/ TokenizePassage \/ JudgePiece \/ SinglePassFails \/ DecodeTags

TokenSpec == TokenInit /\ [][TokenNext]_tokenVars
-----------------------------------------------------------------------------
(* The words the model saw at least the beginning of, and the label of each*)
Visible  == {pieces[i].word : i \in DOMAIN pieces}
HeadOf(k) == CHOOSE i \in DOMAIN pieces : pieces[i].word = k
                                          /\ \A j \in DOMAIN pieces : pieces[j].word = k => i <= j
TypeOf(k) == InfoOf(judged[HeadOf(k)][1]).type
Joined(k) ==
    /\ {k - 1, k} \subseteq Visible
    /\ TypeOf(k) # "none" /\ TypeOf(k) = TypeOf(k - 1)
    /\ InfoOf(judged[HeadOf(k)][1]).tag = "I"

(* The confidence in the first k words, summed.                           *)
Trust[k \in 0..Len(wordsRead)] ==
    IF k = 0 THEN 0 ELSE Trust[k - 1] + (IF k \in Visible THEN judged[HeadOf(k)][2] ELSE 0)

(* Two neighbouring words are in one entity if they are of one type and the*)
(* second does not begin another; of the stretches joined this way those   *)
(* are reported whose words are sure on average, and nothing else is: no   *)
(* word of no type, none beyond the window of the model, and a word is in  *)
(* one entity at the most however many pieces it is cut into.              *)
Stretches == {s \in Visible \X Visible :
                 /\ s[1] <= s[2] /\ TypeOf(s[1]) # "none"
                 /\ ~Joined(s[1]) /\ ~Joined(s[2] + 1)
                 /\ \A k \in s[1] + 1..s[2] : Joined(k)}
LabelledWordsAreReported ==
    passStep = "done" =>
      LET Sure(s) == Trust[s[2]] - Trust[s[1] - 1] >= NerThreshold * (s[2] - s[1] + 1)
      IN  persons = {[type |-> TypeOf(s[1]), from |-> s[1], to |-> s[2]]
                       : s \in {t \in Stretches : Sure(t)}}

(* Where in a word of these pieces each ends, and the next begins.         *)
BeginsOf(ps) ==
    LET at[i \in 0..Len(ps)] == IF i = 0 THEN 1 ELSE at[i - 1] + Len(ps[i].piece)
    IN  at

(* The pieces of a word the model sees whole spell it, in the letters of   *)
(* the vocabulary, and no two pieces in a row would be one piece.          *)
PiecesSpell ==
    passStep = "infer" =>
      \A k \in Visible :
        LET ps == Those(pieces, {p \in Range(pieces) : p.word = k})
            w  == IF Cased(modelDir) THEN wordsRead[k] ELSE Lowercase(wordsRead[k])
        IN  \A i \in DOMAIN ps :
              LET b == BeginsOf(ps)[i - 1]
                  e == BeginsOf(ps)[i]
              IN  /\ ps[i].piece # <<"UNK">> => ps[i].piece = SubSeq(w, b, e - 1)
                  /\ \A f \in e..Len(w) : ~InVocabulary(modelDir, b, SubSeq(w, b, f))
                  /\ k + 1 \in Visible /\ i = Len(ps) => e = Len(w) + 1

TokensAreReported == LabelledWordsAreReported /\ PiecesSpell
=============================================================================

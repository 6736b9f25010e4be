---------------------------- MODULE BodyMasking ----------------------------
(***************************************************************************)
(* One body through the masking pipeline and back: process_request_body of *)
(* body.rs (image pass, URL fetch, voice pass, text pass, replacement by   *)
(* JSON path), the TokenGenerator of hash_token.rs, the voice pass of      *)
(* voice_pipeline.rs and decrypt_response of mapping.rs on the answer.     *)
(*                                                                         *)
(* A string of the body is a sequence of cells; a cell is a run of bytes:  *)
(* a word, a value the scanner finds, or what stands for a value.  A key   *)
(* of the JSON is a sequence of atoms, the pieces between its dots and     *)
(* brackets; an ordinary key has one atom.                                 *)
(***************************************************************************)
EXTENDS Selection, FiniteSets, SequencesExt

CONSTANTS
    Fields,       \* the string fields of the body, each the sequence of its keys
    FieldCells,   \* the longest string of each field, in cells
    Values,       \* the PII values the scanner finds
    Kind,         \* per value: what its type and the FPE engine make of it
    Numeric,      \* the values of phone, SSN, card and IBAN types
    FailModes,    \* the settings of proxy.fail_mode to consider
    Attachments,  \* the sets of attachments a body may have
    Hashes,       \* the base36 strings of compute_hash
    Letters,      \* the letters of resolve_collision, in order
    AnswerItems   \* bound: pieces of the answer that is restored

Kinds == {"encrypts",  \* FF1 encrypts it
          "small",     \* FpeError::DomainTooSmall
          "fails",     \* any other FpeError
          "token"}     \* not FPE-eligible: a person, a place, a keyword

Media == {"inline", "remote", "audio"}  \* base64 image, image URL, audio block

ASSUME MaskingAssumption ==
    /\ Fields \in Seq(Seq(Seq(STRING)))
    /\ FieldCells \in [DOMAIN Fields -> Nat]
    /\ Kind \in [Values -> Kinds]
    /\ Numeric \subseteq {v \in Values : Kind[v] = "encrypts"}
    /\ FailModes \subseteq {"open", "closed"}
    /\ Attachments \subseteq SUBSET Media
    /\ Letters \in Seq(STRING)
    /\ AnswerItems \in Nat

VARIABLES
    phase,        \* the pass that runs next
    fail_mode,    \* proxy.fail_mode
    doc,          \* the strings of the body as it came
    json,         \* the strings of the parsed JSON, changed in place
    media,        \* the attachments of the JSON: "none", "original", "cleaned"
    matches,      \* the matches of scan_json not yet processed
    seen,         \* TokenGenerator: value -> token
    mappings,     \* RequestMappings.by_ciphertext: ciphertext -> value
    replacements, \* the FpeResults, in order
    unprotected,  \* fpe_unprotected_count
    sent,         \* the body returned: "nothing" yet, "body" (the clone), "json"
    answer,       \* the pieces of the provider's answer
    restored,     \* decrypt_response: result
    exact,        \* ciphertexts its exact pass has not reached
    fuzzy         \* its unmatched_numeric

request  == <<fail_mode, doc>>
masking  == <<matches, seen, mappings, replacements, unprotected>>
response == <<answer, restored, exact, fuzzy>>
vars == <<phase, request, json, media, masking, sent, response>>

-----------------------------------------------------------------------------
(* Cells.  A ciphertext depends on the value, the key and the JSON path    *)
(* (the tweak); those of one request are taken as distinct.                *)
Word            == <<"word", "w">>
Val(v)          == <<"value", v>>
Cipher(path, v) == <<"cipher", path, v>>
Reformatted(c)  == <<"reformatted", c>>
Redaction       == << <<"redacted", "type">>, <<"redacted", "end">> >>

Clear   == {Val(v) : v \in Values}
Cells   == {Word} \cup Clear

(* The path scan_json writes for a field, and the keys parse_json_path     *)
(* reads from it: one key for every atom.                                  *)
Path(i)     == FlattenSeq(Fields[i])
Keys(path)  == [n \in DOMAIN path |-> <<path[n]>>]

(* What a body must have for the two to agree: the keys read from the path *)
(* of a field are those of this field and of no other.  A key with a dot   *)
(* in it breaks this (run masking_dotted).                                 *)
PathsLeadBack == \A i, j \in DOMAIN Fields : Keys(Path(i)) = Fields[j] <=> i = j

MatchesIn(i) ==
    LET at == Those([k \in DOMAIN json[i] |-> k], {k \in DOMAIN json[i] : json[i][k] \in Clear})
    IN  [n \in DOMAIN at |->
            [path |-> Path(i), at |-> at[n], value |-> json[i][at[n]][2]]]
Matches == FlattenSeq([i \in DOMAIN Fields |-> MatchesIn(i)])

(* Token generation: hash, then suffixes, then a longer hash.              *)
Used == {seen[v] : v \in DOMAIN seen}
Candidates(h) ==
    << << <<"hash", h>> >> >> \o
    [n \in DOMAIN Letters |-> << <<"hash", h>>, <<"suffix", Letters[n]>> >>]
Fresh(h) == {n \in DOMAIN Candidates(h) : Candidates(h)[n] \notin Used}
LongToken(h, v) == << <<"hash", h>>, <<"long", v>> >>
NewToken(h, v) ==
    IF Fresh(h) = {} THEN LongToken(h, v)
    ELSE Candidates(h)[CHOOSE n \in Fresh(h) : \A m \in Fresh(h) : n <= m]
Tokens(v) == IF v \in DOMAIN seen THEN {seen[v]}
             ELSE {NewToken(h, v) : h \in Hashes}

(* Replacement by offset within one string, the last match first.          *)
(* Mutant: the first match first.                                          *)
Splice(s, r) == IF r.at > Len(s) THEN s
                ELSE SubSeq(s, 1, r.at - 1) \o r.encrypted
                     \o SubSeq(s, r.at + 1, Len(s))
BeforeForward(r1, r2) == r1.at < r2.at
Before(r1, r2) == r1.at > r2.at
Addressed(i) == Those(replacements, {r \in ToSet(replacements) : Keys(r.path) = Fields[i]})
Replaced(i) ==
    LET found == Addressed(i)
        order == CHOOSE p \in Bijection(DOMAIN found, DOMAIN found) : \A m, n \in DOMAIN found :
                   m < n => ~Before(found[p[n]], found[p[m]])
        spliced[n \in 0..Len(found)] ==
          IF n = 0 THEN json[i] ELSE Splice(spliced[n - 1], found[order[n]])
    IN  spliced[Len(found)]

(* str::contains and str::replace.                                         *)
OccursAt(c, s, i) == /\ i + Len(c) - 1 <= Len(s)
                     /\ SubSeq(s, i, i + Len(c) - 1) = c
Occurs(c, s) == \E i \in DOMAIN s : OccursAt(c, s, i)
Replace(s, c, by) ==
    LET from[i \in 1..(Len(s) + 1)] ==
            IF i > Len(s) THEN <<>>
            ELSE IF OccursAt(c, s, i) THEN by \o from[i + Len(c)]
            ELSE <<s[i]>> \o from[i + 1]
    IN  from[1]

\* Mutant: shorter ciphertexts first.
Shortest(cs) == {c \in cs : \A d \in cs : Len(c) <= Len(d)}
Longest(cs) == {c \in cs : \A d \in cs : Len(d) <= Len(c)}
IsNumeric(c) == mappings[c] \in Numeric
Anew(c) == <<Reformatted(c[1])>>

-----------------------------------------------------------------------------
Strings(n) == UNION {[1..k -> Cells] : k \in 0..n}

Init ==
    /\ phase = "images"
    /\ fail_mode \in FailModes
    /\ doc \in {d \in [DOMAIN Fields -> UNION {Strings(FieldCells[i]) : i \in DOMAIN Fields}] :
                    \A i \in DOMAIN Fields : Len(d[i]) <= FieldCells[i]}
    /\ json = doc
    /\ \E attached \in Attachments :
          media = [m \in Media |-> IF m \in attached THEN "original" ELSE "none"]
    /\ matches = <<>>
    /\ seen = <<>>
    /\ mappings = <<>>
    /\ replacements = <<>>
    /\ unprotected = 0
    /\ sent = "nothing"
    /\ answer = <<>>
    /\ restored = <<>>
    /\ exact = {}
    /\ fuzzy = {}

(* A pass over one attachment: cleaned, or left as it is because nothing   *)
(* was found, or because decoding, fetching or inference failed.           *)
Pass(m, from, to) ==
    /\ phase = from
    /\ phase' = to
    /\ \/ UNCHANGED media
       \/ /\ media[m] = "original"
          /\ media' = [media EXCEPT ![m] = "cleaned"]
    /\ UNCHANGED <<request, json, masking, sent, response>>

WalkImages == Pass("inline", "images", "fetch")
FetchImages == Pass("remote", "fetch", "voice")
ScanVoice == Pass("audio", "voice", "text")

ImageStats    == media["inline"] = "cleaned" \/ media["remote"] = "cleaned"
VoiceModified == media["audio"] = "cleaned"

\* Mutant: the voice pass is not asked whether it changed the JSON.
ScanTextImagesOnly ==
    /\ phase = "text"
    /\ matches' = Matches
    /\ IF Matches = <<>>
       THEN /\ sent' = IF ImageStats THEN "json" ELSE "body"
            /\ phase' = "sent"
       ELSE /\ phase' = "encrypt"
            /\ UNCHANGED sent
    /\ UNCHANGED <<request, json, media, seen, mappings, replacements,
                   unprotected, response>>

(* scan_json, and the early returns when it finds nothing.                 *)
ScanText ==
    /\ phase = "text"
    /\ matches' = Matches
    /\ IF Matches = <<>>
       THEN /\ sent' = IF ImageStats \/ VoiceModified THEN "json" ELSE "body"
            /\ phase' = "sent"
       ELSE /\ phase' = "encrypt"
            /\ UNCHANGED sent
    /\ UNCHANGED <<request, json, media, seen, mappings, replacements,
                   unprotected, response>>

With(map, k, v) == [x \in DOMAIN map \cup {k} |-> IF x = k THEN v ELSE map[x]]

(* The loop over the matches: m is the next one and is replaced by c.      *)
Substitute(m, c) == replacements' =
    Append(replacements, [path |-> m.path, at |-> m.at, value |-> m.value,
                          encrypted |-> c])
Record(m, c) == mappings' = With(mappings, c, m.value)
ForMatch(m) ==
    /\ phase = "encrypt"
    /\ matches # <<>>
    /\ m = Head(matches)
    /\ matches' = Tail(matches)
    /\ UNCHANGED <<phase, request, json, media, sent, response>>

Encrypt == \E m \in Range(matches) :
    LET c == <<Cipher(m.path, m.value)>> IN
    /\ ForMatch(m)
    /\ Kind[m.value] = "encrypts"
    /\ Record(m, c)
    /\ Substitute(m, c)
    /\ UNCHANGED <<seen, unprotected>>

Redact == \E m \in Range(matches) :
    /\ ForMatch(m)
    /\ Kind[m.value] \in {"small", "fails"}
    /\ fail_mode = "closed"
    /\ unprotected' = unprotected + 1
    /\ Substitute(m, Redaction)
    /\ UNCHANGED <<seen, mappings>>

\* Mutant: the count is taken back for every token.
TokenizeTakeBack == \E m \in Range(matches) : \E c \in Tokens(m.value) :
    /\ ForMatch(m)
    /\ \/ Kind[m.value] = "token"
       \/ Kind[m.value] = "small" /\ fail_mode = "open"
    /\ seen' = With(seen, m.value, c)
    /\ Record(m, c)
    /\ Substitute(m, c)
    /\ unprotected' = unprotected - 1

(* Not FPE-eligible, or too small for FF1 in open mode; the latter counts  *)
(* as unprotected for a moment only.                                       *)
Tokenize == \E m \in Range(matches) : \E c \in Tokens(m.value) :
    /\ ForMatch(m)
    /\ \/ Kind[m.value] = "token"
       \/ Kind[m.value] = "small" /\ fail_mode = "open"
    /\ seen' = With(seen, m.value, c)
    /\ Record(m, c)
    /\ Substitute(m, c)
    /\ UNCHANGED unprotected

LeaveClear == \E m \in Range(matches) :
    /\ ForMatch(m)
    /\ Kind[m.value] = "fails"
    /\ fail_mode = "open"
    /\ unprotected' = unprotected + 1
    /\ UNCHANGED <<seen, mappings, replacements>>

(* apply_replacements_to_json; without a replacement only image_stats      *)
(* decide whether the changed JSON or the body as it came is returned.     *)
Apply ==
    /\ phase = "encrypt"
    /\ matches = <<>>
    /\ phase' = "sent"
    /\ IF replacements = <<>>
       THEN /\ sent' = IF ImageStats THEN "json" ELSE "body"
            /\ UNCHANGED json
       ELSE /\ sent' = "json"
            /\ json' = [i \in DOMAIN Fields |-> Replaced(i)]
    /\ UNCHANGED <<request, media, masking, response>>

-----------------------------------------------------------------------------
(* The provider answers with words and with what stands for a value in the *)
(* body it was sent, the numeric ones also with other separators.          *)
Pieces ==
    {[of |-> 0, anew |-> FALSE]}
    \cup [of : DOMAIN replacements, anew : {FALSE}]
    \cup [of : {n \in DOMAIN replacements : replacements[n].value \in Numeric},
          anew : {TRUE}]
Said(p) == IF p.of = 0 THEN <<Word>>
           ELSE IF p.anew THEN Anew(replacements[p.of].encrypted)
           ELSE replacements[p.of].encrypted

Answer ==
    /\ phase = "sent"
    /\ DOMAIN mappings # {}
    /\ \E k \in 1..AnswerItems : answer' \in [1..k -> Pieces]
    /\ restored' = FlattenSeq([n \in DOMAIN answer' |-> Said(answer'[n])])
    /\ exact' = DOMAIN mappings
    /\ fuzzy' = {}
    /\ phase' = "restore"
    /\ UNCHANGED <<request, json, media, masking, sent>>

(* Phase 1, longest first; ties in the order of the HashMap.               *)
RestoreExact ==
    /\ phase = "restore"
    /\ \E c \in Longest(exact) :
          /\ exact' = exact \ {c}
          /\ \/ /\ Occurs(c, restored)
                /\ restored' = Replace(restored, c, <<Val(mappings[c])>>)
                /\ UNCHANGED fuzzy
             \/ /\ ~ Occurs(c, restored)
                /\ fuzzy' = IF IsNumeric(c) THEN fuzzy \cup {c} ELSE fuzzy
                /\ UNCHANGED restored
    /\ UNCHANGED <<phase, request, json, media, masking, sent, answer>>

(* Phase 2: the fuzzy pattern of what phase 1 did not find.                *)
RestoreFuzzy ==
    /\ phase = "restore"
    /\ exact = {}
    /\ \E c \in Longest(fuzzy) :
          /\ fuzzy' = fuzzy \ {c}
          /\ restored' = Replace(restored, Anew(c), <<Val(mappings[c])>>)
    /\ UNCHANGED <<phase, request, json, media, masking, sent, answer, exact>>

Next ==
    \/ WalkImages \/ FetchImages \/ ScanVoice \/ ScanText
    \/ Encrypt \/ Redact \/ Tokenize \/ LeaveClear \/ Apply
    \/ Answer \/ RestoreExact \/ RestoreFuzzy

Spec == Init /\ [][Next]_vars

-----------------------------------------------------------------------------
(* What the provider is sent.                                              *)
Returned == phase \in {"sent", "restore"}
SentText == IF sent = "json" THEN json ELSE doc
SentMedia(m) == IF media[m] = "none" THEN "none"
                ELSE IF sent = "json" THEN media[m] ELSE "original"
InClear(i) == Those(SentText[i], Clear)

(* Types: fpe_unprotected is a u64 that is counted up before it is taken   *)
(* back, and a ciphertext always stands for one of the values.             *)
TypeOK ==
    /\ phase \in {"images", "fetch", "voice", "text", "encrypt", "sent",
                  "restore"}
    /\ fail_mode \in FailModes
    /\ DOMAIN json = DOMAIN Fields
    /\ media \in [Media -> {"none", "original", "cleaned"}]
    /\ DOMAIN seen \subseteq Values
    /\ Range(mappings) \subseteq Values
    /\ unprotected \in Nat
    /\ sent \in {"nothing", "body", "json"}
    /\ exact \subseteq DOMAIN mappings
    /\ fuzzy \subseteq DOMAIN mappings

(* In closed mode no value the scanner found is sent in clear, whatever    *)
(* the engine makes of it and wherever it stands.                          *)
ClosedHidesAll ==
    Returned /\ fail_mode = "closed" => \A i \in DOMAIN Fields : InClear(i) = <<>>

(* In open mode fpe_unprotected_count, which becomes the response header   *)
(* and the metric, is the number of values sent in clear.                  *)
ClearIsCounted ==
    Returned /\ fail_mode = "open" =>
        unprotected = Len(FlattenSeq([i \in DOMAIN Fields |-> InClear(i)]))

(* Replacing matches by offset leaves the text around them as it was.      *)
OnlyMatchesChange ==
    Returned => \A i \in DOMAIN Fields :
        Those(SentText[i], {Word}) = Those(doc[i], {Word})

(* Together: what reaches the provider is the body with its values masked, *)
(* or in clear and counted, and nothing else changed.                      *)
MaskedOrCounted == ClosedHidesAll /\ ClearIsCounted /\ OnlyMatchesChange

(* An attachment that a pass has cleaned is never sent as it came: images  *)
(* in either mode, audio in closed mode.                                   *)
CleanedIsSent ==
    Returned => \A m \in Media :
        media[m] = "cleaned" /\ (m = "audio" => fail_mode = "closed") =>
            SentMedia(m) = "cleaned"

(* decrypt_response gives every token, ciphertext and reformatted number   *)
(* its own value back, in its place; a redaction is final, and a number    *)
(* the answer also quotes exactly is not looked for in another form.       *)
QuotedExactly(c) == \E n \in DOMAIN answer :
    /\ answer[n].of # 0
    /\ ~ answer[n].anew
    /\ replacements[answer[n].of].encrypted = c
Meant(p) ==
    IF p.of = 0 THEN <<Word>>
    ELSE LET r == replacements[p.of]
         IN  IF r.encrypted = Redaction THEN Redaction
             ELSE IF p.anew /\ QuotedExactly(r.encrypted) THEN Anew(r.encrypted)
             ELSE <<Val(r.value)>>
RoundTrip ==
    phase = "restore" /\ exact = {} /\ fuzzy = {} =>
        restored = FlattenSeq([n \in DOMAIN answer |-> Meant(answer[n])])

(* docs/architecture/l0-core.md of the voice pass: audio blocks in which   *)
(* keywords are detected are stripped.                                     *)
StrippedStaysStripped ==
    Returned /\ media["audio"] = "cleaned" => SentMedia("audio") = "cleaned"
=============================================================================

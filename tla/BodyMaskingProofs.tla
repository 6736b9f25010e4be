-------------------------- MODULE BodyMaskingProofs --------------------------
(***************************************************************************)
(* What is sent of a body, for every body, every kind of value and both    *)
(* fail modes.                                                             *)
(*                                                                         *)
(* CleanedIsSent.  The return of process_request_body that forgets the     *)
(* voice pass is the one for a body without replacements; in closed mode   *)
(* it is never taken (MatchedIsReplaced), as each match leaves one.        *)
(*                                                                         *)
(* MaskedOrCounted.  The matches done and those to come are the matches of *)
(* the body; those done have left a result or, kept in clear, are counted  *)
(* (EncryptOK).  When none is left, the results of a string, replaced from *)
(* its last match to its first, keep its words and leave of its values the *)
(* kept ones (SpliceAll).                                                  *)
(*                                                                         *)
(* RoundTrip.  What is recorded for a value is recorded for no other       *)
(* (RecordsOK).  So each piece of the answer has one form at every step of *)
(* restoring it (Shown), and a replacement changes the pieces of one form  *)
(* and no part of another (ReplacePieces), because the longest ciphertext  *)
(* goes first: the one replaced is the beginning of no other (Whole).      *)
(***************************************************************************)
EXTENDS BodyMasking, DataLemmas

(* The attachments, and where the body came from, at every phase.          *)
MediaTyped == media \in [Media -> {"none", "original", "cleaned"}]

(* The results are a sequence.                                             *)
ResultsTyped == \E S : replacements \in Seq(S)

(* While matches are dealt with in closed mode, one of them is still to    *)
(* come or has left a replacement.                                         *)
MatchedIsReplaced ==
    phase = "encrypt" /\ fail_mode = "closed" =>
        matches # <<>> \/ replacements # <<>>

CInv ==
    /\ MediaTyped
    /\ ResultsTyped
    /\ MatchedIsReplaced
    /\ CleanedIsSent

LEMMA AppendNonEmpty ==
    ASSUME NEW S, NEW s \in Seq(S), NEW x
    PROVE  /\ Append(s, x) # <<>>
           /\ \E T : Append(s, x) \in Seq(T)
<1> DEFINE T == S \cup {x}
<1>1. s \in Seq(T)
    <2>1. Len(s) \in Nat /\ s \in [1..Len(s) -> T]
        OBVIOUS
    <2> QED BY <2>1
<1>2. Append(s, x) \in Seq(T) /\ Len(Append(s, x)) = Len(s) + 1
    BY <1>1
<1>3. Append(s, x) # <<>>
    BY <1>2, <1>1
<1> QED BY <1>2, <1>3

LEMMA InitCInv == Init => CInv
<1> SUFFICES ASSUME Init PROVE CInv
    OBVIOUS
<1>1. MediaTyped
    <2>1. PICK attached \in Attachments :
            media = [m \in Media |-> IF m \in attached THEN "original" ELSE "none"]
        BY DEF Init
    <2> QED BY <2>1 DEF MediaTyped
<1>2. ResultsTyped
    <2>1. replacements \in Seq({})
        BY DEF Init
    <2> QED BY <2>1 DEF ResultsTyped
<1>3. MatchedIsReplaced /\ CleanedIsSent
    BY DEF Init, MatchedIsReplaced, CleanedIsSent, Returned
<1> QED BY <1>1, <1>2, <1>3 DEF CInv

(* A pass changes one attachment, and nothing is returned before the last. *)
LEMMA PassKeeps ==
    ASSUME CInv, NEW m, NEW from, NEW to \in {"fetch", "voice", "text"},
           Pass(m, from, to)
    PROVE  CInv'
<1>1. MediaTyped'
    BY DEF CInv, MediaTyped, Pass
<1>2. ResultsTyped'
    BY DEF CInv, ResultsTyped, Pass, masking
<1>3. MatchedIsReplaced' /\ CleanedIsSent'
    BY DEF Pass, MatchedIsReplaced, CleanedIsSent, Returned
<1> QED BY <1>1, <1>2, <1>3 DEF CInv

LEMMA ScanTextKeeps == ASSUME CInv, ScanText PROVE CInv'
<1>1. MediaTyped' /\ ResultsTyped'
    BY DEF CInv, MediaTyped, ResultsTyped, ScanText
<1>2. MatchedIsReplaced'
    BY DEF ScanText, MatchedIsReplaced
<1>3. CleanedIsSent'
    <2>1. CASE phase' = "sent"
        <3>1. sent' = IF ImageStats \/ VoiceModified THEN "json" ELSE "body"
            BY <2>1 DEF ScanText
        <3>2. media' = media
            BY DEF ScanText
        <3> SUFFICES ASSUME NEW m \in Media, media'[m] = "cleaned"
                     PROVE  SentMedia(m)' = "cleaned"
            BY DEF CleanedIsSent
        <3>3. sent' = "json"
            BY <3>1, <3>2 DEF ImageStats, VoiceModified, Media
        <3> QED BY <3>3 DEF SentMedia
    <2>2. CASE phase' = "encrypt"
        BY <2>2 DEF CleanedIsSent, Returned
    <2> QED BY <2>1, <2>2 DEF ScanText
<1> QED BY <1>1, <1>2, <1>3 DEF CInv

(* A match that leaves a replacement.                                      *)
LEMMA SubstituteKeeps ==
    ASSUME CInv, NEW m, NEW c, ForMatch(m), Substitute(m, c)
    PROVE  CInv'
<1>1. /\ replacements' # <<>>
      /\ ResultsTyped'
    <2>1. PICK S : replacements \in Seq(S)
        BY DEF CInv, ResultsTyped
    <2> QED BY <2>1, AppendNonEmpty DEF Substitute, ResultsTyped
<1>2. MediaTyped'
    BY DEF CInv, MediaTyped, ForMatch
<1>3. MatchedIsReplaced'
    BY <1>1 DEF MatchedIsReplaced
<1>4. CleanedIsSent'
    BY DEF ForMatch, CleanedIsSent, Returned
<1> QED BY <1>1, <1>2, <1>3, <1>4 DEF CInv

LEMMA LeaveClearKeeps == ASSUME CInv, LeaveClear PROVE CInv'
<1>1. PICK m \in Range(matches) :
        /\ ForMatch(m)
        /\ fail_mode = "open"
        /\ UNCHANGED replacements
    BY DEF LeaveClear
<1>2. MediaTyped' /\ ResultsTyped'
    BY <1>1 DEF CInv, MediaTyped, ResultsTyped, ForMatch
<1>3. MatchedIsReplaced' /\ CleanedIsSent'
    BY <1>1 DEF ForMatch, request, MatchedIsReplaced, CleanedIsSent, Returned
<1> QED BY <1>2, <1>3 DEF CInv

(* The return that forgets the voice pass needs a body without             *)
(* replacements, which closed mode does not have.                          *)
LEMMA ApplyKeeps == ASSUME CInv, Apply PROVE CInv'
<1>1. MediaTyped' /\ ResultsTyped' /\ MatchedIsReplaced'
    BY DEF CInv, MediaTyped, ResultsTyped, MatchedIsReplaced, Apply, masking
<1>2. CleanedIsSent'
    <2>1. media' = media /\ fail_mode' = fail_mode
        BY DEF Apply, request
    <2> SUFFICES ASSUME NEW m \in Media, media[m] = "cleaned",
                        m = "audio" => fail_mode = "closed"
                 PROVE  SentMedia(m)' = "cleaned"
        BY <2>1 DEF CleanedIsSent
    <2>2. CASE replacements # <<>>
        <3>1. sent' = "json"
            BY <2>2 DEF Apply
        <3> QED BY <3>1, <2>1 DEF SentMedia
    <2>3. CASE replacements = <<>>
        <3>1. fail_mode # "closed"
            BY <2>3 DEF Apply, CInv, MatchedIsReplaced
        <3>2. ImageStats
            BY <3>1 DEF ImageStats, Media
        <3>3. sent' = "json"
            BY <2>3, <3>2 DEF Apply
        <3> QED BY <3>3, <2>1 DEF SentMedia
    <2> QED BY <2>2, <2>3
<1> QED BY <1>1, <1>2 DEF CInv

(* Restoring the answer leaves the request alone.                          *)
LEMMA ResponseKeeps ==
    ASSUME CInv, UNCHANGED <<request, media, masking, sent>>,
           phase \in {"sent", "restore"}, phase' = "restore"
    PROVE  CInv'
BY DEF CInv, MediaTyped, ResultsTyped, MatchedIsReplaced, CleanedIsSent,
       Returned, SentMedia, request, masking

LEMMA StepKeepsCInv == CInv /\ [Next]_vars => CInv'
<1> SUFFICES ASSUME CInv, [Next]_vars PROVE CInv'
    OBVIOUS
<1>1. CASE WalkImages
    BY <1>1, PassKeeps DEF WalkImages
<1>2. CASE FetchImages
    BY <1>2, PassKeeps DEF FetchImages
<1>3. CASE ScanVoice
    BY <1>3, PassKeeps DEF ScanVoice
<1>4. CASE ScanText
    BY <1>4, ScanTextKeeps
<1>5. CASE Encrypt
    <2>1. PICK m \in Range(matches) :
            ForMatch(m) /\ Substitute(m, <<Cipher(m.path, m.value)>>)
        BY <1>5 DEF Encrypt
    <2> QED BY <2>1, SubstituteKeeps
<1>6. CASE Redact
    BY <1>6, SubstituteKeeps DEF Redact
<1>7. CASE Tokenize
    BY <1>7, SubstituteKeeps DEF Tokenize
<1>8. CASE LeaveClear
    BY <1>8, LeaveClearKeeps
<1>9. CASE Apply
    BY <1>9, ApplyKeeps
<1>10. CASE Answer
    BY <1>10, ResponseKeeps DEF Answer
<1>11. CASE RestoreExact
    BY <1>11, ResponseKeeps DEF RestoreExact
<1>12. CASE RestoreFuzzy
    BY <1>12, ResponseKeeps DEF RestoreFuzzy
<1>13. CASE UNCHANGED vars
    BY <1>13 DEF vars, CInv, MediaTyped, ResultsTyped, MatchedIsReplaced,
                 CleanedIsSent, Returned, SentMedia, request, masking
<1> QED BY <1>1, <1>2, <1>3, <1>4, <1>5, <1>6, <1>7, <1>8, <1>9, <1>10,
           <1>11, <1>12, <1>13 DEF Next

(* For every body and whatever the engine, the models and the provider do: *)
(* an attachment that was cleaned is never sent as it came, images in      *)
(* either mode and audio in closed mode.                                   *)
THEOREM CleanedStaysCleaned == Spec => []CleanedIsSent
<1>1. CInv => CleanedIsSent
    BY DEF CInv
<1> QED BY InitCInv, StepKeepsCInv, <1>1, PTL DEF Spec

-----------------------------------------------------------------------------
(* What a match or a result tells: field, place and value.                 *)
Paths == {Path(i) : i \in DOMAIN Fields}
Marks ==
    {<<"cipher", p, v>> : p \in Paths, v \in Values}
    \cup {<<"hash", h>> : h \in Hashes}
    \cup {<<"suffix", Letters[n]>> : n \in DOMAIN Letters}
    \cup {<<"long", v>> : v \in Values}
    \cup {<<"redacted", "type">>, <<"redacted", "end">>}
Universe  == Cells \cup Marks
MatchRec  == [path : Paths, at : Nat \ {0}, value : Values]
ResultRec == [path : Paths, at : Nat \ {0}, value : Values, encrypted : Seq(Marks)]

(* The values left in clear, their cells and their matches.                *)
KeptValues == {v \in Values : Kind[v] = "fails" /\ fail_mode = "open"}
KeptCells  == {Val(v) : v \in KeptValues}
Kept       == {m \in MatchRec : m.value \in KeptValues}
Masked     == {m \in MatchRec : m.value \notin KeptValues}
Hidden(s)  == {k \in 1..Len(s) : s[k] \in Clear \ KeptCells}

(* Nothing that stands for a value is a word or a value.                   *)
LEMMA MarksAreApart ==
    /\ Marks \cap Clear = {} /\ Marks \cap {Word} = {} /\ Clear \cap {Word} = {}
    /\ KeptCells \subseteq Clear /\ Clear \subseteq Universe /\ Marks \subseteq Universe
    /\ Cells \subseteq Universe /\ Word \in Cells
<1>1. \A x \in Marks : x[1] \in {"cipher", "hash", "suffix", "long", "redacted"}
    BY DEF Marks
<1>2. \A x \in Clear : x[1] = "value"
    BY DEF Clear, Val
<1>3. Word[1] = "word"
    BY DEF Word
<1>4. Marks \cap Clear = {} /\ Marks \cap {Word} = {} /\ Clear \cap {Word} = {}
    BY <1>1, <1>2, <1>3
<1>5. KeptCells \subseteq Clear
    BY DEF KeptCells, Clear, KeptValues
<1> QED BY <1>4, <1>5 DEF Universe, Cells

(* What is behind a place in a prefix.                                     *)
LEMMA PartOfPrefix ==
    ASSUME NEW X, NEW s \in Seq(X), NEW a \in Nat, NEW b \in Nat, 1 <= a, a <= b + 1, b <= Len(s)
    PROVE  SubSeq(SubSeq(s, 1, b), a, b) = SubSeq(s, a, b)
<1> DEFINE p == SubSeq(s, 1, b)
           q == SubSeq(p, a, b)
           r == SubSeq(s, a, b)
<1>1. p \in Seq(X) /\ Len(p) = b /\ \A i \in 1..b : p[i] = s[i]
    OBVIOUS
<1>2. r \in Seq(X) /\ Len(r) = b + 1 - a /\ \A i \in 1..b + 1 - a : r[i] = s[a + i - 1]
    BY PartElements
<1> HIDE DEF p, r
<1>3. q \in Seq(X) /\ Len(q) = b + 1 - a /\ \A i \in 1..b + 1 - a : q[i] = p[a + i - 1]
    <2>1. b <= Len(p) /\ p \in Seq(X)
        BY <1>1
    <2> QED BY <2>1, PartElements
<1> HIDE DEF q
<1>4. \A i \in 1..Len(q) : q[i] = r[i]
    <2> TAKE i \in 1..Len(q)
    <2>1. i \in 1..b + 1 - a /\ a + i - 1 \in 1..b
        BY <1>3
    <2> QED BY <1>1, <1>2, <1>3, <2>1
<1>5. q = r
    BY <1>2, <1>3, <1>4, SameSequence
<1> QED BY <1>5 DEF p, q, r

(* A match replaced in what its successors made of the string: the part    *)
(* before it stays, and behind it stands what is there already.            *)
LEMMA SpliceBefore ==
    ASSUME NEW s \in Seq(Cells), NEW b \in 1..Len(s) + 1, NEW t \in Seq(Universe),
           NEW r \in ResultRec, r.at < b
    PROVE  LET mid == SubSeq(s, r.at + 1, b - 1) IN
           /\ mid \in Seq(Universe) /\ r.encrypted \in Seq(Universe)
           /\ Splice(SubSeq(s, 1, b - 1) \o t, r)
                = SubSeq(s, 1, r.at - 1) \o (r.encrypted \o (mid \o t))
<1> DEFINE p == SubSeq(s, 1, b - 1)
           w == p \o t
           e == r.encrypted
           a == r.at
           head == SubSeq(s, 1, a - 1)
           mid  == SubSeq(s, a + 1, b - 1)
<1>1. a \in Nat \ {0} /\ e \in Seq(Marks) /\ s \in Seq(Universe) /\ Len(s) \in Nat /\ b \in Nat
    BY MarksAreApart DEF ResultRec
<1>2. e \in Seq(Universe)
    BY <1>1, MarksAreApart
<1>3. p \in Seq(Universe) /\ Len(p) = b - 1
    <2>1. b - 1 \in Nat /\ 1 <= b - 1 + 1 /\ b - 1 <= Len(s) /\ b - 1 + 1 - 1 = b - 1
        BY <1>1
    <2>2. p \in Seq(Universe) /\ Len(p) = b - 1 + 1 - 1
        BY <1>1, <2>1, PartElements
    <2> QED BY <2>1, <2>2
<1>4. head \in Seq(Universe) /\ SubSeq(p, 1, a - 1) = head
    <2>1. a - 1 \in Nat /\ a - 1 <= b - 1 /\ b - 1 <= Len(s)
        BY <1>1
    <2>2. head \in Seq(Universe)
        BY <1>1, <2>1, PartElements
    <2>3. SubSeq(p, 1, a - 1) = head
        BY <1>1, <2>1
    <2> QED BY <2>2, <2>3
<1>5. mid \in Seq(Universe) /\ SubSeq(p, a + 1, Len(p)) = mid
    <2>1. a + 1 \in Nat /\ 1 <= a + 1 /\ a + 1 <= b - 1 + 1 /\ b - 1 \in Nat /\ b - 1 <= Len(s)
        BY <1>1
    <2>2. mid \in Seq(Universe)
        BY <1>1, <2>1, PartElements
    <2>3. SubSeq(p, a + 1, b - 1) = mid
        <3> DEFINE c == b - 1
                   d == a + 1
        <3>1. c \in Nat /\ d \in Nat /\ 1 <= d /\ d <= c + 1 /\ c <= Len(s)
            BY <1>1, <2>1
        <3> HIDE DEF c, d
        <3>2. SubSeq(SubSeq(s, 1, c), d, c) = SubSeq(s, d, c)
            BY <1>1, <3>1, PartOfPrefix
        <3> QED BY <3>2 DEF c, d
    <2> HIDE DEF p, mid
    <2> QED BY <1>3, <2>2, <2>3
<1> HIDE DEF p, head, mid
<1>6. /\ Len(w) = Len(p) + Len(t) /\ w \in Seq(Universe) /\ Len(t) \in Nat
    BY <1>3, ConcatElements
<1>7. SubSeq(w, 1, a - 1) = head
    <2>1. a - 1 \in 0..Len(p)
        BY <1>1, <1>3
    <2> DEFINE m == a - 1
    <2> HIDE DEF m
    <2>2. SubSeq(p \o t, 1, m) = SubSeq(p, 1, m)
        BY <1>3, <2>1, CutConcat DEF m
    <2> QED BY <1>4, <2>2 DEF m
<1>8. SubSeq(w, a + 1, Len(w)) = mid \o t
    <2>1. a \in 0..Len(p)
        BY <1>1, <1>3
    <2>2. SubSeq(p \o t, a + 1, Len(p \o t)) = SubSeq(p, a + 1, Len(p)) \o t
        <3> HIDE DEF a
        <3> QED BY <1>3, <2>1, CutConcat
    <2> QED BY <1>5, <2>2
<1>9. Splice(w, r) = head \o e \o SubSeq(w, a + 1, Len(w))
    <2>1. ~(r.at > Len(w))
        BY <1>1, <1>3, <1>6
    <2> HIDE DEF w
    <2> QED BY <1>7, <2>1 DEF Splice
<1>10. (head \o e) \o (mid \o t) = head \o (e \o (mid \o t))
    <2>1. mid \o t \in Seq(Universe)
        BY <1>5, ConcatElements
    <2> DEFINE mt == mid \o t
    <2> HIDE DEF mt, e
    <2>2. mt \in Seq(Universe)
        BY <2>1 DEF mt
    <2>3. (head \o e) \o mt = head \o (e \o mt)
        <3>1. \A q, r1, z \in Seq(Universe) : (q \o r1) \o z = q \o (r1 \o z)
            BY ConcatAssociates, SMTT(30)
        <3>2. head \in Seq(Universe) /\ e \in Seq(Universe)
            BY <1>2, <1>4
        <3> QED BY <2>2, <3>1, <3>2, SMTT(30)
    <2> QED BY <2>3 DEF mt
<1> HIDE DEF w
<1>11. Splice(w, r) = head \o (e \o (mid \o t))
    BY <1>8, <1>9, <1>10
<1> QED BY <1>2, <1>5, <1>11 DEF w, p, head, mid

(* What is selected is of the set.                                         *)
LEMMA ThoseType ==
    ASSUME NEW X, NEW t \in Seq(X), NEW Z
    PROVE  Those(t, Z) \in Seq(Z)
<1>1. Those(t, Z) \in Seq(X \cap Z)
    BY ThoseElements
<1> QED BY <1>1

(* What is made of the string from i on has the words of it and, of its    *)
(* values, those left in clear.                                            *)
Fits(s, u, i) ==
    /\ u \in Seq(Universe)
    /\ Those(u, Clear) = Those(SubSeq(s, i, Len(s)), KeptCells)
    /\ Those(u, {Word}) = Those(SubSeq(s, i, Len(s)), {Word})

(* A part in which nothing is hidden may stay.                             *)
LEMMA MoreFits ==
    ASSUME NEW s \in Seq(Cells), NEW b \in 1..Len(s) + 1, NEW a \in 1..b,
           NEW u \in Seq(Universe), Fits(s, u, b), \A k \in a..b - 1 : k \notin Hidden(s)
    PROVE  Fits(s, SubSeq(s, a, b - 1) \o u, a)
<1> DEFINE N == Len(s)
           mid == SubSeq(s, a, b - 1)
           rest == SubSeq(s, b, N)
<1>1. /\ s \in Seq(Universe) /\ N \in Nat /\ a \in Nat /\ b \in Nat /\ 1 <= a /\ a <= b /\ b <= N + 1
      /\ b - 1 \in Nat /\ b - 1 <= N /\ a <= (b - 1) + 1 /\ (b - 1) + 1 = b
    BY MarksAreApart
<1>2. mid \in Seq(Universe) /\ \A x \in ToSet(mid) : \E k \in a..b - 1 : x = s[k]
    BY <1>1, PartElements
<1>3. rest \in Seq(Universe)
    <2>1. 1 <= b /\ b <= N + 1
        BY <1>1
    <2> HIDE DEF N
    <2> QED BY <1>1, <2>1, PartElements DEF N
<1>4. mid \o rest = SubSeq(s, a, N)
    <2> DEFINE m == b - 1
    <2>1. m \in Nat /\ a <= m + 1 /\ m <= N /\ m + 1 = b /\ N <= Len(s)
        BY <1>1
    <2> HIDE DEF m, N
    <2>2. SubSeq(s, a, m) \o SubSeq(s, m + 1, N) = SubSeq(s, a, N)
        BY <1>1, <2>1, PartsJoin
    <2> QED BY <2>1, <2>2 DEF m
<1>5. Those(mid, Clear) = Those(mid, KeptCells)
    <2>1. ASSUME NEW x \in ToSet(mid) PROVE x \in Clear <=> x \in KeptCells
        <3>1. PICK k \in a..b - 1 : x = s[k]
            BY <1>2
        <3>2. k \in 1..N /\ k \notin Hidden(s)
            BY <1>1
        <3> QED BY <3>1, <3>2, MarksAreApart DEF Hidden
    <2> HIDE DEF mid
    <2> QED BY <1>2, <2>1, ThoseOfSame
<1> HIDE DEF mid, rest
<1>6. \A Z : /\ Those(mid \o u, Z) = Those(mid, Z) \o Those(u, Z)
            /\ Those(mid \o rest, Z) = Those(mid, Z) \o Those(rest, Z)
    <2> TAKE Z
    <2>1. Those(mid \o u, Z) = Those(mid, Z) \o Those(u, Z)
        BY <1>2, ThoseOfConcat
    <2>2. Those(mid \o rest, Z) = Those(mid, Z) \o Those(rest, Z)
        BY <1>2, <1>3, ThoseOfConcat, SMTT(30)
    <2> QED BY <2>1, <2>2
<1>7. mid \o u \in Seq(Universe)
    BY <1>2, ConcatElements
<1>8. Those(u, Clear) = Those(rest, KeptCells) /\ Those(u, {Word}) = Those(rest, {Word})
    BY DEF Fits, rest
<1>9. Fits(s, mid \o u, a)
    BY <1>4, <1>5, <1>6, <1>7, <1>8 DEF Fits
<1> QED BY <1>9 DEF mid

(* A value that is hidden makes room for what stands for it.               *)
LEMMA MarkFits ==
    ASSUME NEW s \in Seq(Cells), NEW a \in Hidden(s), NEW e \in Seq(Marks),
           NEW u \in Seq(Universe), Fits(s, u, a + 1)
    PROVE  Fits(s, e \o u, a)
<1> DEFINE N == Len(s)
           rest == SubSeq(s, a + 1, N)
           one == <<s[a]>>
<1>1. /\ s \in Seq(Universe) /\ N \in Nat /\ a \in 1..N /\ a \in Nat /\ s[a] \in Clear \ KeptCells
      /\ e \in Seq(Universe) /\ s[a] # Word /\ s[a] \in Universe
    BY MarksAreApart DEF Hidden
<1>2. rest \in Seq(Universe)
    <2>1. a + 1 \in Nat /\ 1 <= a + 1 /\ a + 1 <= N + 1 /\ N <= N
        BY <1>1
    <2> HIDE DEF N
    <2> QED BY <1>1, <2>1, PartElements DEF N
<1>3. one \o rest = SubSeq(s, a, N)
    <2>1. SubSeq(s, a, a) = one
        BY <1>1, PartOfOne
    <2>2. SubSeq(s, a, a) \o SubSeq(s, a + 1, N) = SubSeq(s, a, N)
        <3>1. 1 <= a /\ a <= a + 1 /\ a <= N /\ N <= N
            BY <1>1
        <3> HIDE DEF N
        <3> QED BY <1>1, <3>1, PartsJoin DEF N
    <2> QED BY <2>1, <2>2
<1>4. one \in Seq(Universe) /\ ToSet(one) = {s[a]}
    <2>1. one \in Seq(Universe)
        BY <1>1
    <2>2. DOMAIN one = {1} /\ one[1] = s[a]
        OBVIOUS
    <2> QED BY <2>1, <2>2 DEF ToSet
<1>5. Those(e, Clear) = <<>> /\ Those(e, {Word}) = <<>>
    <2>1. ToSet(e) \subseteq Marks
        BY ToSetElements
    <2>2. ToSet(e) \cap Clear = {} /\ ToSet(e) \cap {Word} = {}
        BY <2>1, MarksAreApart
    <2> QED BY <1>1, <2>2, ThoseOfOthers
<1> HIDE DEF one
<1>6. Those(one, KeptCells) = <<>> /\ Those(one, {Word}) = <<>>
    <2>1. ToSet(one) \cap KeptCells = {} /\ ToSet(one) \cap {Word} = {}
        BY <1>1, <1>4
    <2> QED BY <1>4, <2>1, ThoseOfOthers
<1> HIDE DEF rest
<1>7. \A Z : /\ Those(e \o u, Z) = Those(e, Z) \o Those(u, Z)
            /\ Those(one \o rest, Z) = Those(one, Z) \o Those(rest, Z)
    <2> TAKE Z
    <2>1. Those(e \o u, Z) = Those(e, Z) \o Those(u, Z)
        BY <1>1, ThoseOfConcat, SMTT(30)
    <2>2. Those(one \o rest, Z) = Those(one, Z) \o Those(rest, Z)
        BY <1>2, <1>4, ThoseOfConcat
    <2> QED BY <2>1, <2>2
<1>8. Those(u, Clear) = Those(rest, KeptCells) /\ Those(u, {Word}) = Those(rest, {Word})
    BY DEF Fits, rest
<1>9. e \o u \in Seq(Universe)
    BY <1>1, ConcatElements
<1>10. /\ Those(e \o u, Clear) = Those(SubSeq(s, a, N), KeptCells)
       /\ Those(e \o u, {Word}) = Those(SubSeq(s, a, N), {Word})
    <2>1. \A q \in Seq(Clear) \cup Seq({Word}) : <<>> \o q = q
        OBVIOUS
    <2>2. Those(u, Clear) \in Seq(Clear) /\ Those(u, {Word}) \in Seq({Word})
        BY ThoseType
    <2>3. /\ Those(e \o u, Clear) = Those(u, Clear)
          /\ Those(e \o u, {Word}) = Those(u, {Word})
        BY <1>5, <1>7, <2>1, <2>2
    <2>4. /\ Those(one \o rest, KeptCells) = Those(u, Clear)
          /\ Those(one \o rest, {Word}) = Those(u, {Word})
        BY <1>6, <1>7, <1>8, <2>1, <2>2
    <2> QED BY <1>3, <2>3, <2>4
<1> QED BY <1>9, <1>10 DEF Fits

(* The matches of a string replaced from the last to the first: its words  *)
(* stay, and of its values those that are kept.                            *)
LEMMA SpliceAll ==
    ASSUME NEW s \in Seq(Cells), NEW t \in Seq(ResultRec), NEW f,
           \A m, n \in 1..Len(t) : m < n => t[n].at < t[m].at,
           Hidden(s) = {t[n].at : n \in 1..Len(t)},
           f[0] = s, \A n \in 1..Len(t) : f[n] = Splice(f[n - 1], t[n])
    PROVE  Fits(s, f[Len(t)], 1)
<1> DEFINE N == Len(t)
           L == Len(s)
           b == [n \in 0..N |-> IF n = 0 THEN L + 1 ELSE t[n].at]
           Done(n) == \E u \in Seq(Universe) :
                         Fits(s, u, b[n]) /\ f[n] = SubSeq(s, 1, b[n] - 1) \o u
           S == {n \in 0..N : Done(n)}
<1>1. N \in Nat /\ L \in Nat /\ s \in Seq(Universe) /\ \A n \in 1..N : t[n] \in ResultRec
    BY MarksAreApart
<1>2. /\ b[0] = L + 1
      /\ \A n \in 1..N : b[n] = t[n].at /\ b[n] \in Hidden(s) /\ b[n] \in 1..L
      /\ \A n \in 0..N : b[n] \in 1..L + 1 /\ b[n] \in Int
    <2>1. 0 \in 0..N /\ \A n \in 1..N : n \in 0..N /\ n # 0
        BY <1>1
    <2>2. \A n \in 1..N : t[n].at \in Hidden(s)
        OBVIOUS
    <2>3. \A k \in Hidden(s) : k \in 1..L
        BY DEF Hidden
    <2>4. b[0] = L + 1 /\ \A n \in 1..N : b[n] = t[n].at
        BY <2>1
    <2> HIDE DEF b, L, N
    <2>5. \A n \in 1..N : b[n] \in Hidden(s) /\ b[n] \in 1..L
        BY <2>2, <2>3, <2>4
    <2>6. \A n \in 0..N : b[n] \in 1..L + 1 /\ b[n] \in Int
        <3> TAKE n \in 0..N
        <3>1. n = 0 \/ n \in 1..N
            BY <1>1
        <3>2. \A k \in 1..L : k \in 1..L + 1 /\ k \in Int
            BY <1>1
        <3>3. L + 1 \in 1..L + 1 /\ L + 1 \in Int
            BY <1>1
        <3> QED BY <2>4, <2>5, <3>1, <3>2, <3>3
    <2> QED BY <2>4, <2>5, <2>6
<1>3. \A n \in 0..N - 1 : b[n + 1] < b[n]
    <2> TAKE n \in 0..N - 1
    <2>1. n + 1 \in 1..N /\ n \in 0..N
        BY <1>1
    <2>2. CASE n = 0
        <3>1. b[n + 1] \in 1..L /\ b[n] = L + 1
            BY <1>2, <2>1, <2>2
        <3> HIDE DEF b, L
        <3> QED BY <1>1, <3>1
    <2>3. CASE n # 0
        <3>1. n \in 1..N /\ n < n + 1
            BY <2>1, <2>3
        <3>2. t[n + 1].at < t[n].at
            BY <2>1, <3>1
        <3> HIDE DEF b, N
        <3> QED BY <1>2, <2>1, <3>1, <3>2
    <2> QED BY <2>2, <2>3
<1>4. \A k \in Hidden(s) : \E m \in 1..N : k = b[m]
    BY <1>2
<1>5. \A m, n \in 1..N : m < n => b[n] < b[m]
    BY <1>2
<1> HIDE DEF b
<1>6. ASSUME NEW n \in 0..N - 1, NEW k \in b[n + 1] + 1..b[n] - 1 PROVE k \notin Hidden(s)
    <2> SUFFICES ASSUME k \in Hidden(s) PROVE FALSE
        OBVIOUS
    <2>1. n + 1 \in 1..N /\ n \in 0..N /\ n \in Int /\ b[n + 1] \in Int /\ b[n] \in Int
        BY <1>1, <1>2
    <2>2. PICK m \in 1..N : k = b[m]
        BY <1>4
    <2>3. CASE m > n + 1
        BY <1>5, <2>1, <2>2, <2>3
    <2>4. CASE m = n + 1
        BY <2>1, <2>2, <2>4
    <2>5. CASE m = n
        BY <2>1, <2>2, <2>5
    <2>6. CASE m < n
        <3>1. n \in 1..N
            BY <2>1, <2>6
        <3>2. b[n] < b[m]
            BY <1>5, <2>6, <3>1
        <3> QED BY <2>1, <2>2, <3>2
    <2> QED BY <2>1, <2>3, <2>4, <2>5, <2>6
<1>7. 0 \in S
    <2>1. SubSeq(s, 1, L) = s /\ SubSeq(s, L + 1, L) = <<>> /\ s \o <<>> = s /\ <<>> \in Seq(Universe)
        BY <1>1
    <2>2. \A Z : Those(<<>>, Z) = <<>>
        BY ThoseOfNone
    <2>3. (L + 1) - 1 = L
        BY <1>1
    <2>4. Fits(s, <<>>, b[0])
        BY <1>2, <2>1, <2>2 DEF Fits
    <2>5. f[0] = SubSeq(s, 1, b[0] - 1) \o <<>>
        BY <1>2, <2>1, <2>3
    <2>6. 0 \in 0..N
        BY <1>1
    <2> QED BY <2>1, <2>4, <2>5, <2>6
<1>8. ASSUME NEW n \in 0..N - 1, n \in S PROVE n + 1 \in S
    <2>1. PICK u \in Seq(Universe) : Fits(s, u, b[n]) /\ f[n] = SubSeq(s, 1, b[n] - 1) \o u
        BY <1>8
    <2>0. /\ n + 1 \in 1..N /\ n \in 0..N /\ (n + 1) - 1 = n /\ n + 1 \in 0..N
        BY <1>1
    <2> DEFINE r == t[n + 1]
               e == r.encrypted
               mid == SubSeq(s, r.at + 1, b[n] - 1)
    <2>2. /\ r \in ResultRec /\ b[n + 1] = r.at /\ r.at < b[n] /\ b[n] \in 1..L + 1 /\ r.at \in Hidden(s)
          /\ r.at \in 1..L
        <3> HIDE DEF N, L
        <3> QED BY <1>1, <1>2, <1>3, <2>0
    <2>3. f[n + 1] = Splice(SubSeq(s, 1, b[n] - 1) \o u, r)
        BY <2>0, <2>1
    <2> HIDE DEF r
    <2>4. /\ mid \in Seq(Universe) /\ e \in Seq(Universe)
          /\ f[n + 1] = SubSeq(s, 1, r.at - 1) \o (e \o (mid \o u))
        BY <2>2, <2>3, SpliceBefore
    <2>5. e \in Seq(Marks)
        BY <2>2 DEF ResultRec
    <2>6. Fits(s, mid \o u, r.at + 1)
        <3> DEFINE a == r.at + 1
                   c == b[n]
        <3>1. a \in 1..c /\ c \in 1..L + 1
            <4> HIDE DEF L
            <4> QED BY <1>1, <2>2, SMTT(30)
        <3>2. \A k \in a..c - 1 : k \notin Hidden(s)
            BY <1>6, <2>2 DEF r
        <3>3. Fits(s, u, c)
            BY <2>1
        <3> HIDE DEF a, c
        <3>4. Fits(s, SubSeq(s, a, c - 1) \o u, a)
            BY <3>1, <3>2, <3>3, MoreFits
        <3> QED BY <3>4 DEF a, c
    <2> DEFINE w == mid \o u
    <2>7. w \in Seq(Universe) /\ e \o w \in Seq(Universe)
        <3>1. w \in Seq(Universe)
            BY <2>6 DEF Fits
        <3> HIDE DEF w, e
        <3> QED BY <2>4, <3>1, ConcatElements
    <2> HIDE DEF mid, e
    <2>8. Fits(s, e \o w, r.at)
        <3> HIDE DEF w
        <3>1. Fits(s, w, r.at + 1)
            BY <2>6 DEF w
        <3> QED BY <2>2, <2>5, <2>7, <3>1, MarkFits
    <2>9. Fits(s, e \o w, b[n + 1]) /\ f[n + 1] = SubSeq(s, 1, b[n + 1] - 1) \o (e \o w)
        BY <2>2, <2>4, <2>8
    <2> HIDE DEF w
    <2> QED BY <2>0, <2>7, <2>9
<1>9. N \in S
    <2>1. 0..N \subseteq S
        <3>1. 0 \in Int /\ N \in Int
            BY <1>1
        <3> HIDE DEF S, N
        <3> QED BY <1>7, <1>8, <3>1, IntervalInduction
    <2>2. N \in 0..N
        BY <1>1
    <2> QED BY <2>1, <2>2
<1>10. PICK u \in Seq(Universe) : Fits(s, u, b[N]) /\ f[N] = SubSeq(s, 1, b[N] - 1) \o u
    BY <1>9
<1>11. \A k \in 1..b[N] - 1 : k \notin Hidden(s)
    <2>0. b[N] \in Int /\ \A m \in 1..N : b[m] \in Int
        <3>1. N \in 0..N /\ \A m \in 1..N : m \in 0..N
            BY <1>1
        <3> QED BY <1>2, <3>1
    <2> SUFFICES ASSUME NEW k \in 1..b[N] - 1, k \in Hidden(s) PROVE FALSE
        OBVIOUS
    <2>1. PICK m \in 1..N : k = b[m]
        BY <1>4
    <2>2. N \in 1..N /\ m \in Int /\ N \in Int /\ m <= N
        BY <1>1
    <2>3. m < N => b[N] < b[m]
        BY <1>5, <2>2
    <2>4. b[m] < b[N]
        BY <2>0, <2>1
    <2> HIDE DEF N
    <2> QED BY <2>0, <2>2, <2>3, <2>4
<1>12. Fits(s, SubSeq(s, 1, b[N] - 1) \o u, 1)
    <2> DEFINE c == b[N]
    <2>1. c \in 1..L + 1 /\ 1 \in 1..c
        BY <1>1, <1>2
    <2> HIDE DEF c
    <2>2. Fits(s, u, c) /\ \A k \in 1..c - 1 : k \notin Hidden(s)
        BY <1>10, <1>11 DEF c
    <2>3. Fits(s, SubSeq(s, 1, c - 1) \o u, 1)
        BY <2>1, <2>2, MoreFits
    <2> QED BY <2>3 DEF c
<1> QED BY <1>10, <1>12

(* A splice makes a string of a string.                                    *)
LEMMA SpliceType ==
    ASSUME NEW x \in Seq(Universe), NEW r \in ResultRec
    PROVE  Splice(x, r) \in Seq(Universe)
<1>1. CASE r.at > Len(x)
    BY <1>1 DEF Splice
<1>2. CASE ~(r.at > Len(x))
    <2> DEFINE a == r.at
               e == r.encrypted
               p == SubSeq(x, 1, a - 1)
               q == SubSeq(x, a + 1, Len(x))
    <2>1. a \in Nat \ {0} /\ e \in Seq(Universe) /\ Len(x) \in Nat /\ a <= Len(x)
        BY <1>2, MarksAreApart DEF ResultRec
    <2>2. p \in Seq(Universe) /\ q \in Seq(Universe)
        BY <2>1
    <2>3. Splice(x, r) = p \o e \o q
        BY <1>2 DEF Splice
    <2> HIDE DEF p, e, q
    <2> QED BY <2>1, <2>2, <2>3
<1> QED BY <1>1, <1>2

(* Replaced(i) replaces from the last match to the first.                  *)
LEMMA ReplacedFits ==
    ASSUME NEW i \in DOMAIN Fields, json[i] \in Seq(Cells), Addressed(i) \in Seq(ResultRec),
           \A m, n \in 1..Len(Addressed(i)) : m < n => Addressed(i)[m].at < Addressed(i)[n].at,
           Hidden(json[i]) = {Addressed(i)[n].at : n \in 1..Len(Addressed(i))}
    PROVE  Fits(json[i], Replaced(i), 1)
<1> DEFINE s == json[i]
           found == Addressed(i)
           N == Len(found)
           Down(p) == \A m, n \in DOMAIN found : m < n => ~Before(found[p[n]], found[p[m]])
           order == CHOOSE p \in Bijection(DOMAIN found, DOMAIN found) :
                       \A m, n \in DOMAIN found : m < n => ~Before(found[p[n]], found[p[m]])
           F(g) == [n \in 0..N |-> IF n = 0 THEN json[i] ELSE Splice(g[n - 1], found[order[n]])]
           f == CHOOSE g : g = F(g)
           t == [n \in 1..N |-> found[order[n]]]
           step == [p \in (0 + 1..N) \X Seq(Universe) |-> Splice(p[2], t[p[1]])]
<1>1. /\ N \in Nat /\ DOMAIN found = 1..N /\ s \in Seq(Universe)
      /\ \A n \in 1..N : found[n] \in ResultRec /\ found[n].at \in Int
    <2>1. s \in Seq(Universe)
        BY MarksAreApart
    <2>2. found \in Seq(ResultRec)
        OBVIOUS
    <2> HIDE DEF found
    <2>3. N \in Nat /\ DOMAIN found = 1..N /\ \A n \in 1..N : found[n] \in ResultRec
        BY <2>2
    <2>4. \A r \in ResultRec : r.at \in Int
        BY DEF ResultRec
    <2> QED BY <2>1, <2>3, <2>4
<1>2. Replaced(i) = f[N]
    BY DEF Replaced
<1> HIDE DEF found
<1>3. order \in Bijection(DOMAIN found, DOMAIN found) /\ Down(order)
    <2> DEFINE back == [n \in 1..N |-> N + 1 - n]
    <2>1. \A n \in 1..N : N + 1 - n \in 1..N /\ N + 1 - (N + 1 - n) = n
        BY <1>1
    <2>2. \A m, n \in 1..N : /\ N + 1 - m = N + 1 - n => m = n
                            /\ m < n => N + 1 - n < N + 1 - m
        BY <1>1
    <2>3. back \in Bijection(DOMAIN found, DOMAIN found)
        <3>1. back \in [1..N -> 1..N] /\ \A n \in 1..N : back[n] = N + 1 - n
            BY <2>1
        <3>2. \A k \in 1..N : \E n \in 1..N : back[n] = k
            <4> TAKE k \in 1..N
            <4> WITNESS N + 1 - k \in 1..N
            <4> QED BY <2>1, <3>1
        <3>3. IsInjective(back)
            BY <2>2, <3>1 DEF IsInjective
        <3> HIDE DEF back, N
        <3> QED BY <1>1, <3>1, <3>2, <3>3 DEF Bijection, Injection, Surjection
    <2>4. Down(back)
        <3> SUFFICES ASSUME NEW m \in 1..N, NEW n \in 1..N, m < n
                     PROVE  ~(found[back[n]].at > found[back[m]].at)
            BY <1>1 DEF Before
        <3>1. back[m] \in 1..N /\ back[n] \in 1..N /\ back[n] < back[m]
            BY <2>1, <2>2
        <3> HIDE DEF back
        <3>2. found[back[n]].at < found[back[m]].at
            BY <3>1 DEF found
        <3> QED BY <1>1, <3>1, <3>2
    <2>5. \E p \in Bijection(DOMAIN found, DOMAIN found) : Down(p)
        <3> HIDE DEF back, Down
        <3> QED BY <2>3, <2>4
    <2> QED BY <2>5
<1> HIDE DEF order
<1>4. /\ \A n \in 1..N : order[n] \in 1..N
      /\ \A k \in 1..N : \E n \in 1..N : order[n] = k
      /\ \A m, n \in 1..N : order[m] = order[n] => m = n
    <2>1. order \in Bijection(1..N, 1..N)
        BY <1>1, <1>3
    <2> HIDE DEF N
    <2> QED BY <2>1 DEF Bijection, Injection, Surjection, IsInjective
<1>5. t \in Seq(ResultRec) /\ Len(t) = N /\ \A n \in 1..N : t[n] = found[order[n]]
    <2>1. \A n \in 1..N : found[order[n]] \in ResultRec
        BY <1>1, <1>4
    <2> HIDE DEF N
    <2> QED BY <1>1, <2>1
<1>6. \A m, n \in 1..N : m < n => t[n].at < t[m].at
    <2> SUFFICES ASSUME NEW m \in 1..N, NEW n \in 1..N, m < n PROVE t[n].at < t[m].at
        OBVIOUS
    <2>1. ~(found[order[n]].at > found[order[m]].at)
        BY <1>1, <1>3 DEF Before
    <2>2. order[n] # order[m] /\ order[n] \in 1..N /\ order[m] \in 1..N
        BY <1>1, <1>4
    <2> DEFINE a == order[n]
               b == order[m]
    <2> HIDE DEF a, b
    <2>3. a \in 1..N /\ b \in 1..N /\ a # b /\ ~(found[a].at > found[b].at)
        BY <2>1, <2>2 DEF a, b
    <2>4. a < b => found[a].at < found[b].at
        BY <2>3 DEF found
    <2>5. b < a => found[b].at < found[a].at
        BY <2>3 DEF found
    <2>6. found[a].at < found[b].at
        BY <1>1, <2>3, <2>4, <2>5
    <2> QED BY <1>5, <2>6 DEF a, b
<1>7. Hidden(s) = {t[n].at : n \in 1..N}
    <2>1. Hidden(s) = {found[n].at : n \in 1..N}
        BY DEF found
    <2>2. {found[n].at : n \in 1..N} = {t[n].at : n \in 1..N}
        <3>1. ASSUME NEW k \in 1..N PROVE \E n \in 1..N : found[k].at = t[n].at
            <4>1. PICK n \in 1..N : order[n] = k
                BY <1>4
            <4>2. t[n] = found[k]
                BY <1>5, <4>1
            <4> QED BY <4>2
        <3>2. ASSUME NEW n \in 1..N PROVE \E k \in 1..N : t[n].at = found[k].at
            <4>1. order[n] \in 1..N /\ t[n] = found[order[n]]
                BY <1>4, <1>5
            <4> HIDE DEF t
            <4> QED BY <4>1
        <3> DEFINE P == {found[n].at : n \in 1..N}
                   Q == {t[n].at : n \in 1..N}
        <3>3. P \subseteq Q
            <4> HIDE DEF t, N
            <4> QED BY <3>1
        <3>4. Q \subseteq P
            <4> HIDE DEF t, N
            <4> QED BY <3>2
        <3> QED BY <3>3, <3>4
    <2> QED BY <2>1, <2>2
<1>8. step \in [(0 + 1..N) \X Seq(Universe) -> Seq(Universe)]
    <2>1. ASSUME NEW p \in (0 + 1..N) \X Seq(Universe) PROVE Splice(p[2], t[p[1]]) \in Seq(Universe)
        <3>1. p[1] \in 1..N /\ p[2] \in Seq(Universe)
            OBVIOUS
        <3>2. t[p[1]] \in ResultRec
            <4> HIDE DEF N
            <4> QED BY <1>1, <1>4, <1>5, <3>1
        <3> HIDE DEF t
        <3> QED BY <3>1, <3>2, SpliceType
    <2> HIDE DEF t, N
    <2> QED BY <2>1
<1>9. PICK g \in [0..N -> Seq(Universe)] : Recursion(g, 0, N, s, step)
    <2>1. 0 \in Int /\ N \in Int /\ 0 <= N
        BY <1>1
    <2> HIDE DEF N, step, F, f, s
    <2> QED BY <1>1, <1>8, <2>1, RecursionExists
<1>10. g = F(g)
    <2>1. ASSUME NEW n \in 0..N PROVE g[n] = F(g)[n]
        <3>1. CASE n = 0
            BY <1>9, <3>1 DEF Recursion
        <3>2. CASE n # 0
            <4>1. n \in 0 + 1..N /\ n - 1 \in 0..N
                BY <1>1, <3>2
            <4>2. g[n] = step[<<n, g[n - 1]>>] /\ <<n, g[n - 1]>> \in (0 + 1..N) \X Seq(Universe)
                <5> HIDE DEF step, N, F, s
                <5> QED BY <1>9, <4>1 DEF Recursion
            <4>3. step[<<n, g[n - 1]>>] = Splice(g[n - 1], t[n])
                <5> HIDE DEF t, N
                <5> QED BY <4>2
            <4>4. t[n] = found[order[n]]
                BY <4>1
            <4> HIDE DEF step, t
            <4> QED BY <3>2, <4>2, <4>3, <4>4
        <3> QED BY <3>1, <3>2
    <2> HIDE DEF step, N, s
    <2> QED BY <1>9, <2>1
<1>11. f = F(f)
    <2> HIDE DEF F
    <2> QED BY <1>10
<1>12. f[0] = s /\ \A n \in 1..N : f[n] = Splice(f[n - 1], t[n])
    <2>1. 0 \in 0..N /\ \A n \in 1..N : n \in 0..N /\ n # 0
        BY <1>1
    <2> HIDE DEF f, N, t
    <2> QED BY <1>5, <1>11, <2>1
<1>13. Fits(s, f[Len(t)], 1)
    <2> HIDE DEF f, t, N, s
    <2>1. s \in Seq(Cells)
        BY DEF s
    <2> QED BY <1>5, <1>6, <1>7, <1>12, <2>1, SpliceAll
<1>14. f[Len(t)] = Replaced(i)
    BY <1>2, <1>5
<1> QED BY <1>13, <1>14

-----------------------------------------------------------------------------
ClearAt(i)    == {k \in 1..Len(json[i]) : json[i][k] \in Clear}
MatchOf(i, k) == [path |-> Path(i), at |-> k, value |-> json[i][k][2]]
Later  == {p \in MatchRec \X MatchRec : p[1].path = p[2].path => p[1].at < p[2].at}
LaterR == {p \in ResultRec \X ResultRec : p[1].path = p[2].path => p[1].at < p[2].at}

(* A value found is the value of its cell, hidden if it is not kept.       *)
LEMMA MatchIs ==
    ASSUME NEW i \in DOMAIN Fields, json[i] \in Seq(Cells), NEW k \in ClearAt(i)
    PROVE  /\ MatchOf(i, k) \in MatchRec
           /\ MatchOf(i, k) \in Kept <=> json[i][k] \in KeptCells
           /\ MatchOf(i, k) \in Masked <=> k \in Hidden(json[i])
<1> DEFINE s == json[i]
           m == MatchOf(i, k)
<1>1. k \in 1..Len(s) /\ s[k] \in Clear /\ k \in Nat \ {0}
    BY DEF ClearAt
<1>2. PICK v \in Values : s[k] = <<"value", v>>
    BY <1>1 DEF Clear, Val
<1>3. m = [path |-> Path(i), at |-> k, value |-> v]
    BY <1>2 DEF MatchOf
<1>4. m \in MatchRec /\ m.value = v
    <2>1. Path(i) \in Paths
        BY DEF Paths
    <2> QED BY <1>1, <1>3, <2>1 DEF MatchRec
<1>5. s[k] \in KeptCells <=> v \in KeptValues
    BY <1>2 DEF KeptCells, Val
<1> HIDE DEF m
<1>6. m \in Kept <=> v \in KeptValues
    BY <1>4 DEF Kept
<1>7. m \in Masked <=> v \notin KeptValues
    BY <1>4 DEF Masked
<1>8. k \in Hidden(s) <=> s[k] \notin KeptCells
    BY <1>1 DEF Hidden
<1> QED BY <1>4, <1>5, <1>6, <1>7, <1>8 DEF m

(* As many are selected as there are whose image is.                       *)
LEMMA ImageCount ==
    ASSUME NEW X, NEW s \in Seq(X), NEW Z, NEW g \in [X -> Z], NEW S, NEW T,
           T \subseteq X, \A x \in X : x \in T <=> g[x] \in S
    PROVE  Len(Those(Image(s, g), S)) = Len(Those(s, T))
<1>1. T = {x \in X : g[x] \in S}
    OBVIOUS
<1>2. Len(Those(Image(s, g), S)) = Len(Those(s, {x \in X : g[x] \in S}))
    BY ThoseOfImage
<1> QED BY <1>1, <1>2

(* As many matches are kept as there are places of kept ones.              *)
LEMMA KeptCount ==
    ASSUME NEW X, NEW s \in Seq(X), NEW g \in [X -> MatchRec]
    PROVE  Len(Those(Image(s, g), Kept)) = Len(Those(s, {x \in X : g[x] \in Kept}))
<1> DEFINE T == {x \in X : g[x] \in Kept}
<1>1. T \subseteq X /\ \A x \in X : x \in T <=> g[x] \in Kept
    OBVIOUS
<1> HIDE DEF T
<1>2. Len(Those(Image(s, g), Kept)) = Len(Those(s, T))
    BY <1>1, ImageCount
<1> QED BY <1>2 DEF T

(* The matches of one string: one for each of its values, in their order.  *)
LEMMA MatchesInAre ==
    ASSUME NEW i \in DOMAIN Fields, json[i] \in Seq(Cells)
    PROVE  /\ MatchesIn(i) \in Seq(MatchRec)
           /\ ToSet(MatchesIn(i)) = {MatchOf(i, k) : k \in ClearAt(i)}
           /\ Ordered(MatchesIn(i), Later)
           /\ Len(Those(MatchesIn(i), Kept)) = Len(Those(json[i], KeptCells))
<1> DEFINE s   == json[i]
           L   == Len(s)
           C   == ClearAt(i)
           ids == [k \in 1..L |-> k]
           at  == Those(ids, C)
           g   == [k \in C |-> MatchOf(i, k)]
<1>1. L \in Nat /\ DOMAIN s = 1..L /\ s \in [1..L -> Cells] /\ C \subseteq 1..L
    BY DEF ClearAt
<1>2. /\ ids \in Seq(1..L) /\ Len(ids) = L /\ \A k \in 1..L : ids[k] = k
    BY <1>1
<1>3. ToSet(ids) = 1..L
    <2>1. \A k \in 1..L : k \in ToSet(ids)
        BY <1>2, ToSetElements
    <2>2. ToSet(ids) \subseteq 1..L
        BY <1>2, ToSetElements
    <2> QED BY <2>1, <2>2
<1>4. Ordered(ids, Rising)
    <2> SUFFICES ASSUME NEW m \in 1..L, NEW n \in 1..L, m < n PROVE <<ids[m], ids[n]>> \in Rising
        BY <1>2 DEF Ordered
    <2> QED BY <1>2 DEF Rising
<1> HIDE DEF ids
<1>5. at \in Seq(C) /\ ToSet(at) = C /\ Ordered(at, Rising)
    <2>1. at \in Seq((1..L) \cap C) /\ ToSet(at) = ToSet(ids) \cap C
        BY <1>2, ThoseElements
    <2>2. Ordered(at, Rising)
        BY <1>2, <1>4, ThoseOrdered
    <2>3. (1..L) \cap C = C
        BY <1>1
    <2> QED BY <1>3, <2>1, <2>2, <2>3
<1>6. MatchesIn(i) = [n \in DOMAIN at |-> MatchOf(i, at[n])]
    <2>1. ids = [k \in DOMAIN s |-> k]
        BY <1>1 DEF ids
    <2>2. C = {k \in DOMAIN s : s[k] \in Clear}
        BY <1>1 DEF ClearAt
    <2>3. at = Those([k \in DOMAIN s |-> k], {k \in DOMAIN s : s[k] \in Clear})
        BY <2>1, <2>2
    <2> QED BY <2>3 DEF MatchesIn, MatchOf
<1> HIDE DEF at
<1>7. g \in [C -> MatchRec]
    BY MatchIs
<1>8. MatchesIn(i) = Image(at, g)
    <2>1. DOMAIN at = 1..Len(at) /\ \A n \in 1..Len(at) : at[n] \in C
        BY <1>5
    <2>2. \A n \in 1..Len(at) : g[at[n]] = MatchOf(i, at[n])
        BY <2>1
    <2> HIDE DEF g, C
    <2> QED BY <1>6, <2>1, <2>2 DEF Image
<1>9. /\ Image(at, g) \in Seq(MatchRec)
      /\ Len(Those(Image(at, g), Kept)) = Len(Those(at, {k \in C : g[k] \in Kept}))
    <2> HIDE DEF g, C
    <2>1. at \in Seq(C) /\ g \in [C -> MatchRec]
        BY <1>5, <1>7
    <2>3. Image(at, g) \in Seq(MatchRec)
        BY <2>1, ThoseOfImage
    <2>4. Len(Those(Image(at, g), Kept)) = Len(Those(at, {x \in C : g[x] \in Kept}))
        <3> QED BY <2>1, KeptCount
    <2> QED BY <2>3, <2>4
<1>10. ToSet(Image(at, g)) = {MatchOf(i, k) : k \in C}
    <2>1. DOMAIN Image(at, g) = 1..Len(at) /\ \A n \in 1..Len(at) : Image(at, g)[n] = g[at[n]]
        BY DEF Image
    <2>2. ToSet(at) = {at[n] : n \in 1..Len(at)}
        BY <1>5 DEF ToSet
    <2>3. ToSet(Image(at, g)) = {g[at[n]] : n \in 1..Len(at)}
        <3> HIDE DEF g
        <3> QED BY <2>1 DEF ToSet
    <2>4. {g[at[n]] : n \in 1..Len(at)} = {g[k] : k \in C}
        <3> HIDE DEF g, C
        <3> QED BY <1>5, <2>2
    <2>5. {g[k] : k \in C} = {MatchOf(i, k) : k \in C}
        OBVIOUS
    <2> QED BY <2>3, <2>4, <2>5
<1>11. Ordered(Image(at, g), Later)
    <2>1. Len(Image(at, g)) = Len(at) /\ \A n \in 1..Len(at) : Image(at, g)[n] = g[at[n]] /\ at[n] \in C
        <3> HIDE DEF g, C
        <3> QED BY <1>5 DEF Image
    <2> SUFFICES ASSUME NEW m \in 1..Len(at), NEW n \in 1..Len(at), m < n
                 PROVE  <<g[at[m]], g[at[n]]>> \in Later
        <3> HIDE DEF g, C
        <3> QED BY <2>1 DEF Ordered
    <2>2. at[m] < at[n]
        BY <1>5 DEF Ordered, Rising
    <2>3. g[at[m]] \in MatchRec /\ g[at[n]] \in MatchRec /\ g[at[m]].at = at[m] /\ g[at[n]].at = at[n]
        BY <1>7, <2>1 DEF MatchOf
    <2> HIDE DEF g
    <2> QED BY <2>2, <2>3 DEF Later
<1>12. Len(Those(at, {k \in C : g[k] \in Kept})) = Len(Those(s, KeptCells))
    <2> DEFINE T == {k \in 1..L : s[k] \in KeptCells}
    <2>1. Those(at, T) = Those(ids, C \cap T)
        <3> HIDE DEF T, C, L
        <3> QED BY <1>2, ThoseOfThose DEF at
    <2>2. {k \in C : g[k] \in Kept} = {k \in C : s[k] \in KeptCells}
        <3>1. \A k \in C : g[k] \in Kept <=> s[k] \in KeptCells
            BY MatchIs
        <3> HIDE DEF g
        <3> QED BY <3>1
    <2>3. {k \in C : s[k] \in KeptCells} = T
        <3>1. \A k \in 1..L : s[k] \in KeptCells => k \in C
            BY MarksAreApart DEF ClearAt
        <3> HIDE DEF C
        <3> QED BY <1>1, <3>1
    <2>4. C \cap T = T
        BY <2>3
    <2>5. s = Image(ids, s)
        <3> HIDE DEF L
        <3> QED BY <1>1, <1>2 DEF Image
    <2>6. Len(Those(Image(ids, s), KeptCells)) = Len(Those(ids, T))
        <3> DEFINE X == 1..L
        <3>1. ids \in Seq(X) /\ s \in [X -> Cells] /\ T = {x \in X : s[x] \in KeptCells}
            BY <1>1, <1>2
        <3> HIDE DEF X, T, s, L
        <3> QED BY <3>1, ThoseOfImage
    <2> HIDE DEF T, g, C
    <2> QED BY <2>1, <2>2, <2>3, <2>4, <2>5, <2>6
<1> QED BY <1>8, <1>9, <1>10, <1>11, <1>12

(* The matches of the body, field by field.                                *)
LEMMA MatchesAre ==
    ASSUME PathsLeadBack, \A i \in DOMAIN Fields : json[i] \in Seq(Cells)
    PROVE  /\ Matches \in Seq(MatchRec)
           /\ ToSet(Matches) = UNION {ToSet(MatchesIn(i)) : i \in DOMAIN Fields}
           /\ Ordered(Matches, Later)
           /\ Len(Those(Matches, Kept)) =
                Len(FlattenSeq([i \in DOMAIN Fields |-> Those(json[i], KeptCells)]))
<1> DEFINE N  == Len(Fields)
           ss == [i \in DOMAIN Fields |-> MatchesIn(i)]
           tt == [i \in DOMAIN Fields |-> Those(json[i], KeptCells)]
           uu == [i \in 1..Len(ss) |-> Those(ss[i], Kept)]
<1>1. N \in Nat /\ DOMAIN Fields = 1..N
    BY MaskingAssumption
<1>2. \A i \in 1..N : /\ MatchesIn(i) \in Seq(MatchRec) /\ Ordered(MatchesIn(i), Later)
                      /\ ToSet(MatchesIn(i)) = {MatchOf(i, k) : k \in ClearAt(i)}
                      /\ Len(Those(MatchesIn(i), Kept)) = Len(Those(json[i], KeptCells))
    BY <1>1, MatchesInAre
<1>3. ss \in Seq(Seq(MatchRec)) /\ Len(ss) = N /\ \A i \in 1..N : ss[i] = MatchesIn(i)
    <2>1. \A i \in 1..N : MatchesIn(i) \in Seq(MatchRec)
        BY <1>2
    <2>2. ss = [i \in 1..N |-> MatchesIn(i)]
        BY <1>1
    <2> DEFINE Y == Seq(MatchRec)
    <2>3. \A i \in 1..N : MatchesIn(i) \in Y
        BY <2>1
    <2> HIDE DEF Y, N, ss
    <2>4. ss \in Seq(Y) /\ Len(ss) = N /\ \A i \in 1..N : ss[i] = MatchesIn(i)
        BY <1>1, <2>2, <2>3
    <2> QED BY <2>4 DEF Y
<1>4. Matches = FlattenSeq(ss)
    BY DEF Matches
<1> HIDE DEF ss
<1>5. FlattenSeq(ss) \in Seq(MatchRec) /\ ToSet(FlattenSeq(ss)) = UNION {ToSet(ss[i]) : i \in 1..Len(ss)}
    BY <1>3, FlattenElements
<1>6. UNION {ToSet(ss[i]) : i \in 1..Len(ss)} = UNION {ToSet(MatchesIn(i)) : i \in DOMAIN Fields}
    <2>1. {ToSet(ss[i]) : i \in 1..Len(ss)} = {ToSet(MatchesIn(i)) : i \in DOMAIN Fields}
        <3> HIDE DEF N
        <3> QED BY <1>1, <1>3
    <2> QED BY <2>1
<1>7. Ordered(FlattenSeq(ss), Later)
    <2>1. \A i \in 1..Len(ss) : Ordered(ss[i], Later)
        BY <1>2, <1>3
    <2>2. ASSUME NEW i \in 1..N, NEW j \in 1..N, i < j,
                 NEW x \in ToSet(ss[i]), NEW y \in ToSet(ss[j])
          PROVE  <<x, y>> \in Later
        <3>1. x.path = Path(i) /\ y.path = Path(j)
            <4>1. x \in {MatchOf(i, k) : k \in ClearAt(i)} /\ y \in {MatchOf(j, k) : k \in ClearAt(j)}
                BY <1>2, <1>3, <2>2
            <4> QED BY <4>1 DEF MatchOf
        <3>2. x \in MatchRec /\ y \in MatchRec
            BY <1>2, <1>3, <2>2, ToSetElements
        <3>3. Path(i) # Path(j)
            <4>1. i \in DOMAIN Fields /\ j \in DOMAIN Fields /\ i # j
                BY <1>1, <2>2
            <4>2. Keys(Path(j)) = Fields[j] /\ Keys(Path(i)) # Fields[j]
                BY <4>1 DEF PathsLeadBack
            <4> QED BY <4>2
        <3> QED BY <3>1, <3>2, <3>3 DEF Later
    <2>3. \A i, j \in 1..Len(ss) : i < j =>
              \A x \in ToSet(ss[i]), y \in ToSet(ss[j]) : <<x, y>> \in Later
        BY <1>3, <2>2
    <2> QED BY <1>3, <2>1, <2>3, FlattenOrdered
<1>8. Len(Those(FlattenSeq(ss), Kept)) = Len(FlattenSeq(tt))
    <2>1. Those(FlattenSeq(ss), Kept) = FlattenSeq(uu)
        BY <1>3, ThoseOfFlatten
    <2> DEFINE Y == Seq(MatchRec)
               W == Seq(KeptCells)
    <2>2. \A i \in 1..N : Those(MatchesIn(i), Kept) \in Y
        <3> TAKE i \in 1..N
        <3>1. MatchesIn(i) \in Seq(MatchRec)
            BY <1>2
        <3>2. Those(MatchesIn(i), Kept) \in Seq(Kept)
            BY <3>1, ThoseType
        <3>3. Kept \subseteq MatchRec
            BY DEF Kept
        <3> QED BY <3>2, <3>3
    <2>3. \A i \in 1..N : Those(json[i], KeptCells) \in W
        BY <1>1, ThoseType
    <2>4. uu \in Seq(Seq(MatchRec)) /\ Len(uu) = N /\ \A i \in 1..N : uu[i] = Those(MatchesIn(i), Kept)
        <3>1. uu = [i \in 1..N |-> Those(ss[i], Kept)] /\ \A i \in 1..N : Those(ss[i], Kept) \in Y
            BY <1>3, <2>2
        <3> HIDE DEF Y, N, uu
        <3>2. uu \in Seq(Y) /\ Len(uu) = N /\ \A i \in 1..N : uu[i] = Those(ss[i], Kept)
            BY <1>1, <3>1
        <3> QED BY <1>3, <3>2 DEF Y
    <2>5. tt \in Seq(Seq(KeptCells)) /\ Len(tt) = N /\ \A i \in 1..N : tt[i] = Those(json[i], KeptCells)
        <3>1. tt = [i \in 1..N |-> Those(json[i], KeptCells)]
            BY <1>1
        <3> HIDE DEF W, N, tt
        <3>2. tt \in Seq(W) /\ Len(tt) = N /\ \A i \in 1..N : tt[i] = Those(json[i], KeptCells)
            BY <1>1, <2>3, <3>1
        <3> QED BY <3>2 DEF W
    <2> HIDE DEF uu, tt, N
    <2>6. \A i \in 1..Len(uu) : Len(uu[i]) = Len(tt[i])
        BY <1>2, <2>4, <2>5
    <2>7. Len(FlattenSeq(uu)) = Len(FlattenSeq(tt))
        BY <2>4, <2>5, <2>6, FlattenLength
    <2> QED BY <2>1, <2>7
<1> HIDE DEF tt
<1>9. /\ Matches \in Seq(MatchRec)
      /\ ToSet(Matches) = UNION {ToSet(MatchesIn(i)) : i \in DOMAIN Fields}
      /\ Ordered(Matches, Later) /\ Len(Those(Matches, Kept)) = Len(FlattenSeq(tt))
    BY <1>4, <1>5, <1>6, <1>7, <1>8
<1> QED BY <1>9 DEF tt

(* What a result was made of.                                              *)
SourceOf(r) == [path |-> r.path, at |-> r.at, value |-> r.value]
Sources(rs) == [n \in 1..Len(rs) |-> SourceOf(rs[n])]

(* When the matches not kept have left results, in their order, those of a *)
(* string replace what is hidden in it.                                    *)
LEMMA AllReplaced ==
    ASSUME PathsLeadBack, \A j \in DOMAIN Fields : json[j] \in Seq(Cells),
           replacements \in Seq(ResultRec), Sources(replacements) = Those(Matches, Masked),
           NEW i \in DOMAIN Fields
    PROVE  Fits(json[i], Replaced(i), 1)
<1> DEFINE A == {r \in ToSet(replacements) : Keys(r.path) = Fields[i]}
           found == Addressed(i)
           N == Len(replacements)
           src == Sources(replacements)
<1>1. N \in Nat /\ \A n \in 1..N : replacements[n] \in ResultRec /\ SourceOf(replacements[n]) \in MatchRec
    <2>1. \A r \in ResultRec : SourceOf(r) \in MatchRec
        BY DEF ResultRec, MatchRec, SourceOf
    <2>2. N \in Nat /\ \A n \in 1..N : replacements[n] \in ResultRec
        BY ElementsOf
    <2> QED BY <2>1, <2>2
<1>2. /\ src \in Seq(MatchRec) /\ Len(src) = N /\ \A n \in 1..N : src[n] = SourceOf(replacements[n])
    BY <1>1 DEF Sources
<1>3. /\ Matches \in Seq(MatchRec)
      /\ ToSet(Matches) = UNION {ToSet(MatchesIn(j)) : j \in DOMAIN Fields}
      /\ Ordered(Matches, Later)
    BY MatchesAre
<1>4. ToSet(src) = ToSet(Matches) \cap Masked /\ Ordered(src, Later)
    <2>1. ToSet(Those(Matches, Masked)) = ToSet(Matches) \cap Masked
        BY <1>3, ThoseElements
    <2>2. Ordered(Those(Matches, Masked), Later)
        BY <1>3, ThoseOrdered
    <2> QED BY <2>1, <2>2
<1> HIDE DEF src
<1>5. \A j \in DOMAIN Fields : ToSet(MatchesIn(j)) = {MatchOf(j, k) : k \in ClearAt(j)}
    BY MatchesInAre
<1>6. ASSUME NEW r \in A PROVE r.path = Path(i) /\ r.at \in Hidden(json[i])
    <2>1. PICK n \in 1..N : r = replacements[n]
        BY ToSetElements
    <2>2. SourceOf(r) \in ToSet(src)
        BY <1>2, <2>1, ToSetElements
    <2>3. SourceOf(r) \in Masked /\ \E j \in DOMAIN Fields : SourceOf(r) \in ToSet(MatchesIn(j))
        BY <1>3, <1>4, <2>2
    <2>4. PICK j \in DOMAIN Fields : SourceOf(r) \in {MatchOf(j, k) : k \in ClearAt(j)}
        BY <1>5, <2>3
    <2>5. PICK k \in ClearAt(j) : SourceOf(r) = MatchOf(j, k)
        BY <2>4
    <2>6. r.path = Path(j) /\ r.at = k
        BY <2>5 DEF SourceOf, MatchOf
    <2>7. j = i
        <3>1. Keys(Path(j)) = Fields[i]
            BY <2>6
        <3> QED BY <3>1 DEF PathsLeadBack
    <2>8. k \in Hidden(json[i])
        BY <2>3, <2>5, <2>7, MatchIs
    <2> QED BY <2>6, <2>7, <2>8
<1>7. found = Those(replacements, A)
    BY DEF Addressed
<1> HIDE DEF A, found
<1>8. found \in Seq(ResultRec \cap A) /\ ToSet(found) = ToSet(replacements) \cap A
    BY <1>7, ThoseElements
<1>9. found \in Seq(ResultRec) /\ \A n \in 1..Len(found) : found[n] \in A /\ found[n] \in ResultRec
    BY <1>8
<1>10. \A m, n \in 1..Len(found) : m < n => found[m].at < found[n].at
    <2>1. Ordered(replacements, LaterR)
        <3> SUFFICES ASSUME NEW m \in 1..N, NEW n \in 1..N, m < n
                     PROVE  <<replacements[m], replacements[n]>> \in LaterR
            BY DEF Ordered
        <3>1. <<src[m], src[n]>> \in Later
            BY <1>2, <1>4 DEF Ordered
        <3>2. <<SourceOf(replacements[m]), SourceOf(replacements[n])>> \in Later
            BY <1>2, <3>1
        <3> QED BY <1>1, <3>2 DEF Later, LaterR, SourceOf
    <2>2. Ordered(found, LaterR)
        BY <1>7, <2>1, ThoseOrdered
    <2> SUFFICES ASSUME NEW m \in 1..Len(found), NEW n \in 1..Len(found), m < n
                 PROVE  found[m].at < found[n].at
        OBVIOUS
    <2>3. found[m].path = found[n].path
        BY <1>6, <1>9
    <2>4. <<found[m], found[n]>> \in LaterR
        BY <2>2 DEF Ordered
    <2> QED BY <2>3, <2>4 DEF LaterR
<1>11. Hidden(json[i]) = {found[n].at : n \in 1..Len(found)}
    <2>1. ASSUME NEW n \in 1..Len(found) PROVE found[n].at \in Hidden(json[i])
        BY <1>6, <1>9
    <2>2. ASSUME NEW k \in Hidden(json[i]) PROVE \E n \in 1..Len(found) : k = found[n].at
        <3>1. k \in ClearAt(i)
            BY DEF Hidden, ClearAt
        <3>2. MatchOf(i, k) \in Masked /\ MatchOf(i, k) \in ToSet(MatchesIn(i))
            BY <1>5, <3>1, MatchIs
        <3>3. MatchOf(i, k) \in ToSet(src)
            BY <1>3, <1>4, <3>2
        <3>4. PICK n \in 1..N : MatchOf(i, k) = SourceOf(replacements[n])
            BY <1>2, <3>3, ToSetElements
        <3> DEFINE r == replacements[n]
        <3>5. r.path = Path(i) /\ r.at = k
            BY <3>4 DEF SourceOf, MatchOf
        <3>6. r \in ToSet(replacements)
            BY ToSetElements
        <3>7. r \in A
            BY <3>5, <3>6 DEF A, PathsLeadBack
        <3>8. r \in ToSet(found)
            BY <1>8, <3>6, <3>7
        <3>9. PICK m \in 1..Len(found) : r = found[m]
            BY <1>9, <3>8, ToSetElements
        <3> QED BY <3>5, <3>9
    <2> QED BY <2>1, <2>2
<1>12. json[i] \in Seq(Cells)
    OBVIOUS
<1> QED BY <1>9, <1>10, <1>11, <1>12, ReplacedFits DEF found

-----------------------------------------------------------------------------
(* What the passes leave as it came, and what the results are.             *)
BodyOK ==
    /\ doc \in [DOMAIN Fields -> Seq(Cells)]
    /\ ~Returned => json = doc
    /\ replacements \in Seq(ResultRec)
    /\ phase \in {"images", "fetch", "voice", "text"} => replacements = <<>> /\ unprotected = 0

(* While matches are dealt with, those done have left a result or, when    *)
(* they are kept, are counted.                                             *)
EncryptOK ==
    phase = "encrypt" =>
      /\ matches \in Seq(MatchRec)
      /\ \E done \in Seq(MatchRec) :
           /\ done \o matches = Matches
           /\ Sources(replacements) = Those(done, Masked)
           /\ (fail_mode = "open" => unprotected = Len(Those(done, Kept)))

(* Tokens are made of cells that are neither words nor values.             *)
SeenOK == \A v \in DOMAIN seen : seen[v] \in Seq(Marks)

MInv == TypeOK /\ SeenOK /\ BodyOK /\ EncryptOK /\ MaskedOrCounted

(* A string with nothing to hide may stay.                                 *)
LEMMA NothingHidden ==
    ASSUME NEW s \in Seq(Cells), Hidden(s) = {}
    PROVE  Fits(s, s, 1)
<1> DEFINE b == Len(s) + 1
           u == << >>
<1>1. b \in 1..Len(s) + 1 /\ 1 \in 1..b /\ b - 1 = Len(s) /\ Len(s) \in Nat
    OBVIOUS
<1>2. u \in Seq(Universe) /\ SubSeq(s, b, Len(s)) = <<>> /\ SubSeq(s, 1, b - 1) = s /\ s \o u = s
    BY <1>1
<1>3. Fits(s, u, b)
    BY <1>2, ThoseOfNone DEF Fits
<1> HIDE DEF b, u
<1>4. Fits(s, SubSeq(s, 1, b - 1) \o u, 1)
    BY <1>1, <1>2, <1>3, MoreFits
<1> QED BY <1>2, <1>4

(* When nothing is to be masked, each string of the body may stay.         *)
LEMMA NoneMasked ==
    ASSUME PathsLeadBack, \A j \in DOMAIN Fields : json[j] \in Seq(Cells),
           Those(Matches, Masked) = <<>>, NEW i \in DOMAIN Fields
    PROVE  Fits(json[i], json[i], 1)
<1>1. /\ Matches \in Seq(MatchRec)
      /\ ToSet(Matches) = UNION {ToSet(MatchesIn(j)) : j \in DOMAIN Fields}
    BY MatchesAre
<1>2. ToSet(Matches) \cap Masked = {}
    <2>1. ToSet(Those(Matches, Masked)) = ToSet(Matches) \cap Masked
        BY <1>1, ThoseElements
    <2>2. ToSet(<<>>) = {}
        BY DEF ToSet
    <2> QED BY <2>1, <2>2
<1>3. ASSUME NEW k \in Hidden(json[i]) PROVE FALSE
    <2>1. k \in ClearAt(i)
        BY DEF Hidden, ClearAt
    <2>2. MatchOf(i, k) \in ToSet(MatchesIn(i))
        BY <2>1, MatchesInAre
    <2>3. MatchOf(i, k) \in Masked
        BY <2>1, MatchIs
    <2> QED BY <1>1, <1>2, <2>2, <2>3
<1>4. Hidden(json[i]) = {}
    BY <1>3
<1> QED BY <1>4, NothingHidden

(* Strings that have the words, and the values kept, of those that came    *)
(* may be sent, when the values kept are counted.                          *)
LEMMA FitsIsEnough ==
    ASSUME PathsLeadBack, fail_mode \in {"open", "closed"}, json = doc,
           doc \in [DOMAIN Fields -> Seq(Cells)],
           UNCHANGED <<fail_mode, doc, unprotected>>,
           \A i \in DOMAIN Fields : Fits(json[i], SentText'[i], 1),
           fail_mode = "open" => unprotected = Len(Those(Matches, Kept))
    PROVE  MaskedOrCounted'
<1> DEFINE text == SentText'
<1>1. \A i \in DOMAIN Fields : json[i] \in Seq(Cells)
    OBVIOUS
<1>2. ASSUME NEW i \in DOMAIN Fields
      PROVE  /\ Those(text[i], Clear) = Those(json[i], KeptCells)
             /\ Those(text[i], {Word}) = Those(json[i], {Word})
    <2>1. SubSeq(json[i], 1, Len(json[i])) = json[i]
        BY <1>1
    <2> HIDE DEF text
    <2>2. Fits(json[i], text[i], 1)
        BY DEF text
    <2> QED BY <2>1, <2>2 DEF Fits
<1> HIDE DEF text
<1>3. ClosedHidesAll'
    <2> SUFFICES ASSUME fail_mode = "closed", NEW i \in DOMAIN Fields
                 PROVE  Those(text[i], Clear) = <<>>
        BY DEF ClosedHidesAll, InClear, text
    <2>1. KeptCells = {}
        BY DEF KeptCells, KeptValues
    <2>2. Those(json[i], {}) \in Seq({})
        BY <1>1, ThoseType
    <2>3. \A q \in Seq({}) : q = <<>>
        OBVIOUS
    <2> QED BY <1>2, <2>1, <2>2, <2>3
<1>4. ClearIsCounted'
    <2> SUFFICES ASSUME fail_mode = "open"
                 PROVE  unprotected = Len(FlattenSeq([i \in DOMAIN Fields |-> Those(text[i], Clear)]))
        BY DEF ClearIsCounted, InClear, text
    <2>1. [i \in DOMAIN Fields |-> Those(text[i], Clear)] = [i \in DOMAIN Fields |-> Those(json[i], KeptCells)]
        BY <1>2
    <2>2. Len(Those(Matches, Kept)) = Len(FlattenSeq([i \in DOMAIN Fields |-> Those(json[i], KeptCells)]))
        BY <1>1, MatchesAre
    <2> QED BY <2>1, <2>2
<1>5. OnlyMatchesChange'
    <2> SUFFICES ASSUME NEW i \in DOMAIN Fields
                 PROVE  Those(text[i], {Word}) = Those(doc[i], {Word})
        BY DEF OnlyMatchesChange, text
    <2> QED BY <1>2
<1> QED BY <1>3, <1>4, <1>5 DEF MaskedOrCounted

(* Every token is made of marks.                                           *)
LEMMA TokensAreMarks ==
    ASSUME SeenOK, NEW v \in Values, NEW c \in Tokens(v)
    PROVE  c \in Seq(Marks)
<1>1. CASE v \in DOMAIN seen
    BY <1>1 DEF Tokens, SeenOK
<1>2. CASE v \notin DOMAIN seen
    <2>1. PICK h \in Hashes : c = NewToken(h, v)
        BY <1>2 DEF Tokens
    <2>2. <<"hash", h>> \in Marks /\ <<"long", v>> \in Marks
          /\ \A n \in DOMAIN Letters : <<"suffix", Letters[n]>> \in Marks
        BY DEF Marks
    <2>3. LongToken(h, v) \in Seq(Marks)
        BY <2>2 DEF LongToken
    <2> DEFINE p == << << <<"hash", h>> >> >>
               q == [n \in DOMAIN Letters |-> << <<"hash", h>>, <<"suffix", Letters[n]>> >>]
               Y == Seq(Marks)
               N == Len(Candidates(h))
    <2>4. p \in Seq(Y) /\ q \in Seq(Y)
        <3>1. << <<"hash", h>> >> \in Y
            BY <2>2
        <3>2. \A n \in DOMAIN Letters : << <<"hash", h>>, <<"suffix", Letters[n]>> >> \in Y
            BY <2>2
        <3>3. DOMAIN Letters = 1..Len(Letters) /\ Len(Letters) \in Nat
            BY MaskingAssumption
        <3> HIDE DEF Y
        <3> QED BY <3>1, <3>2, <3>3
    <2> HIDE DEF p, q, Y
    <2>5. Candidates(h) = p \o q
        BY DEF Candidates, p, q
    <2>6. Candidates(h) \in Seq(Y)
        BY <2>4, <2>5, ConcatElements
    <2>7. N \in Nat /\ DOMAIN Candidates(h) = 1..N /\ \A n \in 1..N : Candidates(h)[n] \in Y
        BY <2>6
    <2>8. CASE Fresh(h) = {}
        BY <2>1, <2>3, <2>8 DEF NewToken
    <2>9. CASE Fresh(h) # {}
        <3>1. Fresh(h) \in SUBSET (1..N)
            BY <2>7 DEF Fresh
        <3>2. \E n \in Fresh(h) : \A m \in Fresh(h) : n <= m
            <4> HIDE DEF N
            <4> QED BY <2>7, <2>9, <3>1, LeastExists
        <3>3. (CHOOSE n \in Fresh(h) : \A m \in Fresh(h) : n <= m) \in Fresh(h)
            BY <3>2
        <3>4. \E n \in 1..N : c = Candidates(h)[n]
            BY <2>1, <2>9, <3>1, <3>3 DEF NewToken
        <3> QED BY <2>7, <3>4 DEF Y
    <2> QED BY <2>8, <2>9
<1> QED BY <1>1, <1>2

(* The bodies that arrive are strings of words and values.                 *)
LEMMA MInitInv == Init => MInv
<1> SUFFICES ASSUME Init PROVE MInv
    OBVIOUS
<1>1. doc \in [DOMAIN Fields -> Seq(Cells)]
    <2>1. doc \in [DOMAIN Fields -> UNION {Strings(FieldCells[i]) : i \in DOMAIN Fields}]
        BY DEF Init
    <2>2. \A n : Strings(n) \subseteq Seq(Cells)
        BY DEF Strings
    <2>3. \A i \in DOMAIN Fields : doc[i] \in Seq(Cells)
        BY <2>1, <2>2
    <2> QED BY <2>1, <2>3
<1>2. /\ phase = "images" /\ fail_mode \in FailModes /\ json = doc /\ matches = <<>> /\ seen = <<>>
      /\ mappings = <<>> /\ replacements = <<>> /\ unprotected = 0 /\ sent = "nothing"
      /\ exact = {} /\ fuzzy = {}
    BY DEF Init
<1>3. media \in [Media -> {"none", "original", "cleaned"}]
    BY DEF Init
<1>4. TypeOK
    BY <1>1, <1>2, <1>3 DEF TypeOK, Range
<1>5. SeenOK /\ BodyOK /\ EncryptOK
    BY <1>1, <1>2 DEF SeenOK, BodyOK, EncryptOK, Returned
<1>6. MaskedOrCounted
    BY <1>2 DEF MaskedOrCounted, ClosedHidesAll, ClearIsCounted, OnlyMatchesChange, Returned
<1> QED BY <1>4, <1>5, <1>6 DEF MInv

(* Nothing is returned while phase' is one of the passes.                  *)
LEMMA NotYetReturned ==
    ASSUME phase' \notin {"sent", "restore"}
    PROVE  MaskedOrCounted'
BY DEF MaskedOrCounted, ClosedHidesAll, ClearIsCounted, OnlyMatchesChange, Returned

(* A pass over the attachments leaves the strings alone.                   *)
LEMMA MPassKeeps ==
    ASSUME MInv, NEW m, NEW from \in {"images", "fetch", "voice"}, NEW to \in {"fetch", "voice", "text"},
           Pass(m, from, to)
    PROVE  MInv'
<1>1. /\ phase = from /\ phase' = to
      /\ UNCHANGED <<fail_mode, doc, json, matches, seen, mappings, replacements, unprotected, sent,
                     exact, fuzzy>>
    BY DEF Pass, request, masking, response
<1>2. media' \in [Media -> {"none", "original", "cleaned"}]
    BY DEF Pass, MInv, TypeOK
<1>3. TypeOK'
    BY <1>1, <1>2 DEF MInv, TypeOK
<1>4. SeenOK' /\ BodyOK' /\ EncryptOK'
    BY <1>1 DEF MInv, SeenOK, BodyOK, EncryptOK, Returned
<1>5. MaskedOrCounted'
    BY <1>1, NotYetReturned
<1> QED BY <1>3, <1>4, <1>5 DEF MInv

(* The matches found are all there is to hide; without one the body is     *)
(* sent as it is.                                                          *)
LEMMA MScanTextKeeps == ASSUME PathsLeadBack, MInv, ScanText PROVE MInv'
<1>1. /\ phase = "text" /\ matches' = Matches
      /\ UNCHANGED <<fail_mode, doc, json, media, seen, mappings, replacements, unprotected, exact, fuzzy>>
    BY DEF ScanText, request, response
<1>2. /\ json = doc /\ doc \in [DOMAIN Fields -> Seq(Cells)] /\ replacements = <<>> /\ unprotected = 0
    BY <1>1 DEF MInv, BodyOK, Returned
<1>3. Matches \in Seq(MatchRec)
    BY <1>2, MatchesAre
<1>4. /\ Sources(replacements) = <<>> /\ <<>> \in Seq(MatchRec)
      /\ Those(<<>>, Masked) = <<>> /\ Those(<<>>, Kept) = <<>>
    BY <1>2, ThoseOfNone DEF Sources
<1>5. CASE Matches = <<>>
    <2>1. phase' = "sent" /\ sent' \in {"json", "body"}
        BY <1>5 DEF ScanText
    <2>2. TypeOK'
        BY <1>1, <2>1 DEF MInv, TypeOK
    <2>3. SeenOK' /\ BodyOK' /\ EncryptOK'
        BY <1>1, <1>2, <2>1 DEF MInv, SeenOK, BodyOK, EncryptOK, Returned
    <2>4. SentText' = json
        BY <1>1, <1>2 DEF SentText
    <2>5. \A i \in DOMAIN Fields : Fits(json[i], SentText'[i], 1)
        BY <1>2, <1>4, <1>5, <2>4, NoneMasked
    <2>6. fail_mode \in {"open", "closed"}
        BY MaskingAssumption DEF MInv, TypeOK
    <2>7. unprotected = Len(Those(Matches, Kept))
        BY <1>2, <1>4, <1>5
    <2>8. MaskedOrCounted'
        BY <1>1, <1>2, <2>5, <2>6, <2>7, FitsIsEnough
    <2> QED BY <2>2, <2>3, <2>8 DEF MInv
<1>6. CASE Matches # <<>>
    <2>1. phase' = "encrypt" /\ sent' = sent
        BY <1>6 DEF ScanText
    <2>2. TypeOK'
        BY <1>1, <2>1 DEF MInv, TypeOK
    <2>3. SeenOK' /\ BodyOK'
        BY <1>1, <1>2, <2>1 DEF MInv, SeenOK, BodyOK, Returned
    <2>4. Matches' = Matches
        BY <1>1 DEF Matches, MatchesIn
    <2>5. Masked' = Masked /\ Kept' = Kept /\ Sources(replacements)' = Sources(replacements)
        BY <1>1 DEF Masked, Kept, KeptValues, Sources
    <2>6. /\ <<>> \o matches' = Matches /\ unprotected' = Len(Those(<<>>, Kept))
        BY <1>1, <1>2, <1>3, <1>4
    <2>7. EncryptOK'
        BY <1>1, <1>3, <1>4, <2>4, <2>5, <2>6 DEF EncryptOK
    <2>8. MaskedOrCounted'
        BY <2>1, NotYetReturned
    <2> QED BY <2>2, <2>3, <2>7, <2>8 DEF MInv
<1> QED BY <1>5, <1>6

(* The next match is done: it leaves a result, or it is kept and counted.  *)
LEMMA ForMatchKeeps ==
    ASSUME MInv, NEW m, ForMatch(m),
           \/ /\ m \in Masked
              /\ \E c \in Seq(Marks) : Substitute(m, c)
              /\ fail_mode = "open" => unprotected' = unprotected
           \/ /\ m \in Kept
              /\ UNCHANGED replacements
              /\ unprotected' = unprotected + 1
    PROVE  BodyOK' /\ EncryptOK' /\ MaskedOrCounted'
<1>1. /\ phase = "encrypt" /\ phase' = "encrypt" /\ matches # <<>> /\ m = Head(matches)
      /\ matches' = Tail(matches) /\ UNCHANGED <<fail_mode, doc, json>>
    BY DEF ForMatch, request
<1>2. matches \in Seq(MatchRec) /\ replacements \in Seq(ResultRec)
    BY <1>1 DEF MInv, EncryptOK, BodyOK
<1>3. PICK done \in Seq(MatchRec) :
        /\ done \o matches = Matches
        /\ Sources(replacements) = Those(done, Masked)
        /\ (fail_mode = "open" => unprotected = Len(Those(done, Kept)))
    BY <1>1 DEF MInv, EncryptOK
<1> DEFINE more == Append(done, m)
<1>4. m \in MatchRec /\ matches' \in Seq(MatchRec) /\ more \in Seq(MatchRec) /\ more \o matches' = Matches
    <2>1. /\ Head(matches) \in MatchRec /\ Tail(matches) \in Seq(MatchRec)
          /\ Append(done, Head(matches)) \in Seq(MatchRec)
          /\ Append(done, Head(matches)) \o Tail(matches) = done \o matches
        BY <1>1, <1>2, NextIsDone
    <2>2. m = Head(matches) /\ matches' = Tail(matches)
        BY <1>1
    <2> QED BY <1>3, <2>1, <2>2
<1>5. Matches' = Matches /\ Masked' = Masked /\ Kept' = Kept
    BY <1>1 DEF Matches, MatchesIn, Masked, Kept, KeptValues
<1>6. m \in Masked <=> m \notin Kept
    BY <1>4 DEF Masked, Kept
<1>7. /\ Those(more, Masked) = IF m \in Masked THEN Append(Those(done, Masked), m) ELSE Those(done, Masked)
      /\ Those(more, Kept) = IF m \in Kept THEN Append(Those(done, Kept), m) ELSE Those(done, Kept)
    BY <1>4, ThoseOfAppend
<1> HIDE DEF more
<1>8. MaskedOrCounted'
    BY <1>1, NotYetReturned
<1>9. CASE m \in Masked
    <2>1. PICK c \in Seq(Marks) : Substitute(m, c)
        BY <1>6, <1>9
    <2> DEFINE r == [path |-> m.path, at |-> m.at, value |-> m.value, encrypted |-> c]
               N == Len(replacements)
    <2>2. replacements' = Append(replacements, r)
        BY <2>1 DEF Substitute
    <2>3. r \in ResultRec /\ SourceOf(r) = m
        BY <1>4 DEF ResultRec, MatchRec, SourceOf
    <2> HIDE DEF r
    <2>4. replacements' \in Seq(ResultRec)
        BY <1>2, <2>2, <2>3
    <2>5. Sources(replacements') = Append(Sources(replacements), m)
        <3>1. /\ N \in Nat /\ Len(replacements') = N + 1 /\ replacements'[N + 1] = r
              /\ \A n \in 1..N : replacements'[n] = replacements[n] /\ n \in 1..N + 1 /\ n # N + 1
            BY <1>2, <2>2, <2>3
        <3> DEFINE old == Sources(replacements)
                   new == Sources(replacements')
                   app == Append(old, m)
        <3>2. \A n \in 1..N : SourceOf(replacements[n]) \in MatchRec
            <4>1. \A x \in ResultRec : SourceOf(x) \in MatchRec
                BY DEF ResultRec, MatchRec, SourceOf
            <4> QED BY <1>2, <4>1
        <3>3. old \in Seq(MatchRec) /\ Len(old) = N /\ \A n \in 1..N : old[n] = SourceOf(replacements[n])
            BY <3>1, <3>2 DEF Sources
        <3>4. /\ \A n \in 1..N : SourceOf(replacements'[n]) = old[n]
              /\ SourceOf(replacements'[N + 1]) = m
            BY <2>3, <3>1, <3>3
        <3>5. \A n \in 1..N + 1 : n \in 1..N \/ n = N + 1
            BY <3>1
        <3>6. new \in Seq(MatchRec) /\ Len(new) = N + 1
              /\ \A n \in 1..N + 1 : new[n] = SourceOf(replacements'[n])
            <4>1. new = [n \in 1..N + 1 |-> SourceOf(replacements'[n])]
                BY <3>1 DEF Sources
            <4>2. \A n \in 1..N + 1 : SourceOf(replacements'[n]) \in MatchRec
                BY <1>4, <3>2, <3>3, <3>4, <3>5
            <4> HIDE DEF new, N
            <4> QED BY <3>1, <4>1, <4>2
        <3> HIDE DEF old, new, N
        <3>7. app \in Seq(MatchRec) /\ Len(app) = N + 1 /\ app[N + 1] = m
              /\ \A n \in 1..N : app[n] = old[n]
            BY <1>4, <3>1, <3>3
        <3> HIDE DEF app
        <3>8. \A n \in 1..Len(new) : new[n] = app[n]
            BY <3>1, <3>4, <3>5, <3>6, <3>7
        <3>9. new = app
            BY <3>6, <3>7, <3>8, SameSequence
        <3> QED BY <3>9 DEF new, app, old
    <2>6. (fail_mode = "open" => unprotected' = unprotected) /\ m \notin Kept
        BY <1>6, <1>9
    <2>7. Those(more, Masked) = Append(Sources(replacements), m) /\ Those(more, Kept) = Those(done, Kept)
        BY <1>3, <1>7, <1>9, <2>6
    <2>8. BodyOK'
        BY <1>1, <2>4 DEF MInv, BodyOK, Returned
    <2>9. EncryptOK'
        BY <1>1, <1>3, <1>4, <1>5, <2>5, <2>6, <2>7 DEF EncryptOK
    <2> QED BY <1>8, <2>8, <2>9
<1>10. CASE m \in Kept
    <2>1. UNCHANGED replacements /\ unprotected' = unprotected + 1
        BY <1>6, <1>10
    <2>2. Those(more, Masked) = Those(done, Masked) /\ Those(more, Kept) = Append(Those(done, Kept), m)
        BY <1>6, <1>7, <1>10
    <2>3. Those(done, Kept) \in Seq(Kept)
        BY ThoseType
    <2>4. Len(Append(Those(done, Kept), m)) = Len(Those(done, Kept)) + 1
        <3> DEFINE q == Those(done, Kept)
        <3> HIDE DEF q
        <3>1. q \in Seq(Kept)
            BY <2>3 DEF q
        <3>2. Len(Append(q, m)) = Len(q) + 1
            BY <1>10, <3>1
        <3> QED BY <3>2 DEF q
    <2>5. Sources(replacements') = Those(more, Masked)
        BY <1>3, <2>1, <2>2
    <2>6. fail_mode = "open" => unprotected' = Len(Those(more, Kept))
        BY <1>3, <2>1, <2>2, <2>4
    <2>7. BodyOK'
        BY <1>1, <2>1 DEF MInv, BodyOK, Returned
    <2>8. EncryptOK'
        BY <1>1, <1>4, <1>5, <2>5, <2>6 DEF EncryptOK
    <2> QED BY <1>8, <2>7, <2>8
<1> QED BY <1>4, <1>6, <1>9, <1>10

(* The step that deals with a match, whatever becomes of it.               *)
LEMMA MatchStepKeeps ==
    ASSUME MInv, Encrypt \/ Redact \/ Tokenize \/ LeaveClear
    PROVE  MInv'
<1>1. PICK m \in Range(matches) :
        /\ ForMatch(m)
        /\ \/ LET c == <<Cipher(m.path, m.value)>> IN
              /\ Kind[m.value] = "encrypts" /\ Record(m, c) /\ Substitute(m, c)
              /\ UNCHANGED <<seen, unprotected>>
           \/ /\ Kind[m.value] \in {"small", "fails"} /\ fail_mode = "closed"
              /\ unprotected' = unprotected + 1 /\ Substitute(m, Redaction)
              /\ UNCHANGED <<seen, mappings>>
           \/ \E c \in Tokens(m.value) :
              /\ Kind[m.value] = "token" \/ (Kind[m.value] = "small" /\ fail_mode = "open")
              /\ seen' = With(seen, m.value, c)
              /\ Record(m, c) /\ Substitute(m, c) /\ UNCHANGED unprotected
           \/ /\ Kind[m.value] = "fails" /\ fail_mode = "open"
              /\ unprotected' = unprotected + 1 /\ UNCHANGED <<seen, mappings, replacements>>
    BY DEF Encrypt, Redact, Tokenize, LeaveClear
<1>2. /\ phase = "encrypt" /\ phase' = "encrypt" /\ matches # <<>> /\ m = Head(matches)
      /\ UNCHANGED <<fail_mode, media, sent, exact, fuzzy>> /\ DOMAIN json' = DOMAIN json
    BY <1>1 DEF ForMatch, request, response
<1>3. m \in MatchRec /\ m.value \in Values /\ m.path \in Paths
    <2>1. matches \in Seq(MatchRec)
        BY <1>2 DEF MInv, EncryptOK
    <2>2. m \in MatchRec
        BY <1>2, <2>1
    <2> QED BY <2>2 DEF MatchRec
<1>4. /\ m \in Masked <=> ~(Kind[m.value] = "fails" /\ fail_mode = "open")
      /\ m \in Kept <=> Kind[m.value] = "fails" /\ fail_mode = "open"
    BY <1>3 DEF Masked, Kept, KeptValues
<1>5. unprotected \in Nat /\ Range(mappings) \subseteq Values /\ DOMAIN seen \subseteq Values
    BY DEF MInv, TypeOK
<1>6. \A c : Record(m, c) => Range(mappings') \subseteq Values /\ DOMAIN mappings \subseteq DOMAIN mappings'
    <2> SUFFICES ASSUME NEW c, Record(m, c)
                 PROVE  Range(mappings') \subseteq Values /\ DOMAIN mappings \subseteq DOMAIN mappings'
        OBVIOUS
    <2>1. mappings' = [x \in DOMAIN mappings \cup {c} |-> IF x = c THEN m.value ELSE mappings[x]]
        BY DEF Record, With
    <2> QED BY <1>3, <1>5, <2>1 DEF Range
<1>7. CASE /\ Kind[m.value] = "encrypts" /\ Record(m, <<Cipher(m.path, m.value)>>)
           /\ Substitute(m, <<Cipher(m.path, m.value)>>) /\ UNCHANGED <<seen, unprotected>>
    <2> DEFINE c == <<Cipher(m.path, m.value)>>
    <2>1. c \in Seq(Marks)
        <3>1. Cipher(m.path, m.value) \in Marks
            BY <1>3 DEF Marks, Cipher
        <3> QED BY <3>1
    <2> HIDE DEF c
    <2>2. Substitute(m, c) /\ Record(m, c)
        BY <1>7 DEF c
    <2>3. BodyOK' /\ EncryptOK' /\ MaskedOrCounted'
        BY <1>1, <1>4, <1>7, <2>1, <2>2, ForMatchKeeps
    <2>4. TypeOK' /\ SeenOK'
        BY <1>2, <1>6, <1>7, <2>2 DEF MInv, TypeOK, SeenOK
    <2> QED BY <2>3, <2>4 DEF MInv
<1>8. CASE /\ Kind[m.value] \in {"small", "fails"} /\ fail_mode = "closed"
           /\ unprotected' = unprotected + 1 /\ Substitute(m, Redaction)
           /\ UNCHANGED <<seen, mappings>>
    <2>1. Redaction \in Seq(Marks)
        BY DEF Redaction, Marks
    <2>2. BodyOK' /\ EncryptOK' /\ MaskedOrCounted'
        BY <1>1, <1>4, <1>8, <2>1, ForMatchKeeps
    <2>3. TypeOK' /\ SeenOK'
        BY <1>2, <1>5, <1>8 DEF MInv, TypeOK, SeenOK
    <2> QED BY <2>2, <2>3 DEF MInv
<1>9. ASSUME NEW c \in Tokens(m.value),
             Kind[m.value] = "token" \/ (Kind[m.value] = "small" /\ fail_mode = "open"),
             seen' = With(seen, m.value, c), Record(m, c), Substitute(m, c), UNCHANGED unprotected
      PROVE  MInv'
    <2>1. c \in Seq(Marks)
        BY <1>3, TokensAreMarks DEF MInv
    <2>2. BodyOK' /\ EncryptOK' /\ MaskedOrCounted'
        BY <1>1, <1>4, <1>9, <2>1, ForMatchKeeps
    <2>3. seen' = [x \in DOMAIN seen \cup {m.value} |-> IF x = m.value THEN c ELSE seen[x]]
        BY <1>9 DEF With
    <2>4. DOMAIN seen' \subseteq Values /\ SeenOK'
        BY <1>3, <1>5, <2>1, <2>3 DEF MInv, SeenOK
    <2>5. TypeOK'
        BY <1>2, <1>6, <1>9, <2>4 DEF MInv, TypeOK
    <2> QED BY <2>2, <2>4, <2>5 DEF MInv
<1>10. CASE /\ Kind[m.value] = "fails" /\ fail_mode = "open"
            /\ unprotected' = unprotected + 1 /\ UNCHANGED <<seen, mappings, replacements>>
    <2>1. BodyOK' /\ EncryptOK' /\ MaskedOrCounted'
        BY <1>1, <1>4, <1>10, ForMatchKeeps
    <2>2. TypeOK' /\ SeenOK'
        BY <1>2, <1>5, <1>10 DEF MInv, TypeOK, SeenOK
    <2> QED BY <2>1, <2>2 DEF MInv
<1> QED BY <1>1, <1>7, <1>8, <1>9, <1>10

(* When no match is left, the results replace all that is hidden.          *)
LEMMA MApplyKeeps == ASSUME PathsLeadBack, MInv, Apply PROVE MInv'
<1>1. /\ phase = "encrypt" /\ matches = <<>> /\ phase' = "sent" /\ sent' \in {"json", "body"}
      /\ UNCHANGED <<fail_mode, doc, media, seen, mappings, replacements, unprotected, exact, fuzzy>>
      /\ replacements = <<>> => json' = json
      /\ replacements # <<>> => sent' = "json" /\ json' = [i \in DOMAIN Fields |-> Replaced(i)]
    BY DEF Apply, request, masking, response
<1>2. json = doc /\ doc \in [DOMAIN Fields -> Seq(Cells)] /\ replacements \in Seq(ResultRec)
    BY <1>1 DEF MInv, BodyOK, Returned
<1>3. PICK done \in Seq(MatchRec) :
        /\ done \o matches = Matches
        /\ Sources(replacements) = Those(done, Masked)
        /\ (fail_mode = "open" => unprotected = Len(Those(done, Kept)))
    BY <1>1 DEF MInv, EncryptOK
<1>4. done = Matches
    BY <1>1, <1>3
<1>5. \A i \in DOMAIN Fields : json[i] \in Seq(Cells)
    BY <1>2
<1>6. \A i \in DOMAIN Fields : Fits(json[i], SentText'[i], 1)
    <2>1. CASE replacements = <<>>
        <3>1. Those(Matches, Masked) = <<>>
            BY <1>3, <1>4, <2>1 DEF Sources
        <3>2. SentText' = json
            BY <1>1, <1>2, <2>1 DEF SentText
        <3> QED BY <1>5, <3>1, <3>2, NoneMasked
    <2>2. CASE replacements # <<>>
        <3>1. SentText' = [i \in DOMAIN Fields |-> Replaced(i)]
            BY <1>1, <2>2 DEF SentText
        <3>2. \A i \in DOMAIN Fields : Fits(json[i], Replaced(i), 1)
            BY <1>2, <1>3, <1>4, <1>5, AllReplaced
        <3>3. \A i \in DOMAIN Fields : SentText'[i] = Replaced(i)
            BY <3>1
        <3> QED BY <3>2, <3>3
    <2> QED BY <2>1, <2>2
<1>7. fail_mode \in {"open", "closed"}
    BY MaskingAssumption DEF MInv, TypeOK
<1>8. MaskedOrCounted'
    BY <1>1, <1>2, <1>3, <1>4, <1>6, <1>7, FitsIsEnough
<1>9. TypeOK' /\ SeenOK'
    BY <1>1 DEF MInv, TypeOK, SeenOK
<1>10. BodyOK' /\ EncryptOK'
    BY <1>1, <1>2 DEF BodyOK, EncryptOK, Returned
<1> QED BY <1>8, <1>9, <1>10 DEF MInv

(* The answer changes nothing of what was sent.                            *)
LEMMA AnswerKeeps ==
    ASSUME MInv, Answer \/ RestoreExact \/ RestoreFuzzy
    PROVE  MInv'
<1>1. /\ phase \in {"sent", "restore"} /\ phase' = "restore"
      /\ UNCHANGED <<fail_mode, doc, json, media, seen, mappings, replacements, unprotected, sent>>
    BY DEF Answer, RestoreExact, RestoreFuzzy, request, masking
<1>2. exact' \subseteq DOMAIN mappings /\ fuzzy' \subseteq DOMAIN mappings
    <2>1. exact \subseteq DOMAIN mappings /\ fuzzy \subseteq DOMAIN mappings
        BY DEF MInv, TypeOK
    <2>2. CASE Answer
        BY <2>2 DEF Answer
    <2>3. CASE RestoreExact
        <3>1. PICK c \in Longest(exact) : exact' = exact \ {c} /\ fuzzy' \in {fuzzy, fuzzy \cup {c}}
            BY <2>3 DEF RestoreExact
        <3>2. c \in exact
            BY DEF Longest
        <3> QED BY <2>1, <3>1, <3>2
    <2>4. CASE RestoreFuzzy
        BY <2>1, <2>4 DEF RestoreFuzzy
    <2> QED BY <2>2, <2>3, <2>4
<1>3. TypeOK' /\ SeenOK'
    BY <1>1, <1>2 DEF MInv, TypeOK, SeenOK
<1>4. BodyOK' /\ EncryptOK'
    BY <1>1 DEF MInv, BodyOK, EncryptOK, Returned
<1>5. SentText' = SentText
    BY <1>1 DEF SentText
<1>6. MaskedOrCounted'
    BY <1>1, <1>5 DEF MInv, MaskedOrCounted, ClosedHidesAll, ClearIsCounted, OnlyMatchesChange, InClear,
                      Returned
<1> QED BY <1>3, <1>4, <1>6 DEF MInv

(* Every step keeps the invariant.                                         *)
LEMMA MStepInv == PathsLeadBack => (MInv /\ [Next]_vars => MInv')
<1> SUFFICES ASSUME PathsLeadBack, MInv, [Next]_vars PROVE MInv'
    OBVIOUS
<1>1. CASE WalkImages
    BY <1>1, MPassKeeps DEF WalkImages
<1>2. CASE FetchImages
    BY <1>2, MPassKeeps DEF FetchImages
<1>3. CASE ScanVoice
    BY <1>3, MPassKeeps DEF ScanVoice
<1>4. CASE ScanText
    BY <1>4, MScanTextKeeps
<1>5. CASE Encrypt \/ Redact \/ Tokenize \/ LeaveClear
    BY <1>5, MatchStepKeeps
<1>6. CASE Apply
    BY <1>6, MApplyKeeps
<1>7. CASE Answer \/ RestoreExact \/ RestoreFuzzy
    BY <1>7, AnswerKeeps
<1>8. CASE UNCHANGED vars
    <2>1. UNCHANGED <<phase, fail_mode, doc, json, media, matches, seen, mappings, replacements,
                      unprotected, sent, exact, fuzzy>>
        BY <1>8 DEF vars, request, masking, response
    <2>2. TypeOK' /\ SeenOK' /\ BodyOK'
        BY <2>1 DEF MInv, TypeOK, SeenOK, BodyOK, Returned
    <2>3. /\ Matches' = Matches /\ Masked' = Masked /\ Kept' = Kept
          /\ Sources(replacements)' = Sources(replacements) /\ SentText' = SentText
        BY <2>1 DEF Matches, MatchesIn, Masked, Kept, KeptValues, Sources, SentText
    <2>4. EncryptOK'
        BY <2>1, <2>3 DEF MInv, EncryptOK
    <2>5. MaskedOrCounted'
        BY <2>1, <2>3 DEF MInv, MaskedOrCounted, ClosedHidesAll, ClearIsCounted, OnlyMatchesChange, InClear,
                          Returned
    <2> QED BY <2>2, <2>4, <2>5 DEF MInv
<1> QED BY <1>1, <1>2, <1>3, <1>4, <1>5, <1>6, <1>7, <1>8 DEF Next

(* For every body, every kind of value and both fail modes, when the paths *)
(* of the body lead back to its fields: in closed mode no value found is   *)
(* sent in clear, in open mode those sent in clear are the ones counted,   *)
(* and the text around the values is what came.                            *)
THEOREM ValuesAreMasked == ASSUME PathsLeadBack PROVE Spec => []MaskedOrCounted
<1>1. MInv /\ [Next]_vars => MInv'
    BY MStepInv
<1>2. MInv => MaskedOrCounted
    BY DEF MInv
<1> QED BY MInitInv, <1>1, <1>2, PTL DEF Spec

(* The types of the state at every step, of the count of values left in    *)
(* clear among them: it is never taken back below zero.                    *)
THEOREM MaskingTypeCorrect == ASSUME PathsLeadBack PROVE Spec => []TypeOK
<1>1. MInv /\ [Next]_vars => MInv'
    BY MStepInv
<1>2. MInv => TypeOK
    BY DEF MInv
<1> QED BY MInitInv, <1>1, <1>2, PTL DEF Spec

-----------------------------------------------------------------------------
(* Replacing a ciphertext or token in a text.                              *)

LEMMA ElementOf == ASSUME NEW X, NEW s \in Seq(X), NEW i \in 1..Len(s) PROVE s[i] \in X
OBVIOUS

(* A sequence with a first element put before it.                          *)
PutBefore(x, s) == /\ Len(<<x>> \o s) = 1 + Len(s)
                   /\ \A j \in 1..1 + Len(s) : (<<x>> \o s)[j] = IF j = 1 THEN x ELSE s[j - 1]

LEMMA PutBeforeElements == ASSUME NEW X, NEW x \in X, NEW s \in Seq(X) PROVE PutBefore(x, s)
BY DEF PutBefore

LEMMA SecondOfTwo == ASSUME NEW k \in {1, 2}, NEW i \in 2..k PROVE k = 2 /\ i = 2
OBVIOUS

(* Where a string occurs, cell by cell.                                    *)
Agrees(c, s, i) == /\ i + Len(c) - 1 <= Len(s)
                   /\ \A j \in 1..Len(c) : s[i + j - 1] = c[j]

LEMMA OccursElements ==
    ASSUME NEW X, NEW s \in Seq(X), NEW c \in Seq(X), c # <<>>, NEW i \in 1..Len(s)
    PROVE  OccursAt(c, s, i) <=> Agrees(c, s, i)
<1>1. Len(c) \in Nat /\ Len(c) > 0 /\ Len(s) \in Nat
    OBVIOUS
<1> SUFFICES ASSUME i + Len(c) - 1 <= Len(s)
             PROVE  SubSeq(s, i, i + Len(c) - 1) = c
                      <=> \A j \in 1..Len(c) : s[i + j - 1] = c[j]
    BY DEF OccursAt, Agrees
<1> DEFINE b == i + Len(c) - 1
           p == SubSeq(s, i, b)
<1>2. b \in Nat /\ 1 <= i /\ i <= b + 1 /\ b <= Len(s) /\ i \in Nat /\ b + 1 - i = Len(c)
    BY <1>1
<1>3. p \in Seq(X) /\ Len(p) = b + 1 - i /\ \A j \in 1..b + 1 - i : p[j] = s[i + j - 1]
    <2> HIDE DEF b
    <2> QED BY <1>2, PartElements
<1> HIDE DEF p, b
<1>4. Len(p) = Len(c) /\ \A j \in 1..Len(c) : p[j] = s[i + j - 1]
    BY <1>2, <1>3
<1>5. p = c <=> \A j \in 1..Len(c) : p[j] = c[j]
    BY <1>3, <1>4, SameSequence
<1> QED BY <1>4, <1>5 DEF p, b

(* f has, at each place of s, the rest of s with c replaced.               *)
RestAt(f, s, c, by, i) ==
    IF i > Len(s) THEN <<>>
    ELSE IF OccursAt(c, s, i) THEN by \o f[i + Len(c)]
    ELSE <<s[i]>> \o f[i + 1]

Rests(f, X, s, c, by) ==
    /\ f \in [1..Len(s) + 1 -> Seq(X)]
    /\ Replace(s, c, by) = f[1]
    /\ f[Len(s) + 1] = <<>>
    /\ \A i \in 1..Len(s) : OccursAt(c, s, i) => f[i] = by \o f[i + Len(c)]
    /\ \A i \in 1..Len(s) : ~OccursAt(c, s, i) => f[i] = <<s[i]>> \o f[i + 1]

LEMMA ReplaceByRecursion ==
    ASSUME NEW X, NEW s \in Seq(X), NEW c \in Seq(X), c # <<>>, NEW by \in Seq(X)
    PROVE  \E f : Rests(f, X, s, c, by)
<1> DEFINE N == Len(s) + 1
           Good(f, m) == \A i \in m..N : f[i] = RestAt(f, s, c, by, i)
           S == {m \in 1..N : \E f \in [m..N -> Seq(X)] : Good(f, m)}
<1>1. Len(s) \in Nat /\ Len(c) \in Nat /\ Len(c) > 0 /\ N \in Nat /\ N >= 1
    OBVIOUS
<1>2. N \in S
    <2> DEFINE f == [i \in N..N |-> <<>>]
    <2>1. f \in [N..N -> Seq(X)]
        OBVIOUS
    <2>2. ASSUME NEW i \in N..N PROVE f[i] = RestAt(f, s, c, by, i)
        <3>1. i = N /\ i > Len(s)
            BY <1>1
        <3>2. f[i] = <<>>
            BY <1>1
        <3> QED BY <3>1, <3>2 DEF RestAt
    <2> HIDE DEF f
    <2> QED BY <2>1, <2>2, <1>1
<1>3. ASSUME NEW n \in 2..N, n \in S PROVE n - 1 \in S
    <2>1. PICK g \in [n..N -> Seq(X)] : Good(g, n)
        BY <1>3
    <2> DEFINE m == n - 1
               x == RestAt(g, s, c, by, m)
               f == [i \in m..N |-> IF i = m THEN x ELSE g[i]]
    <2>2. m \in 1..N /\ m \in 1..Len(s) /\ n \in n..N /\ m + 1 = n /\ N \in n..N
        BY <1>1
    <2>3. OccursAt(c, s, m) => m + Len(c) \in n..N
        BY <1>1, <2>2 DEF OccursAt
    <2>4. x \in Seq(X)
        <3>1. CASE OccursAt(c, s, m)
            <4>1. g[m + Len(c)] \in Seq(X)
                BY <3>1, <2>3
            <4>2. x = by \o g[m + Len(c)]
                BY <3>1, <2>2, <1>1 DEF RestAt
            <4> HIDE DEF x
            <4> QED BY <4>1, <4>2, ConcatElements
        <3>2. CASE ~OccursAt(c, s, m)
            <4>0. g[m + 1] \in Seq(X)
                BY <2>2
            <4>0a. s[m] \in X
                <5> HIDE DEF m
                <5> QED BY <2>2, ElementOf
            <4>1. <<s[m]>> \in Seq(X)
                BY <4>0a
            <4>2. x = <<s[m]>> \o g[m + 1]
                BY <3>2, <2>2, <1>1 DEF RestAt
            <4> HIDE DEF x
            <4> QED BY <4>0, <4>1, <4>2, ConcatElements
        <3> QED BY <3>1, <3>2
    <2> HIDE DEF x
    <2>5. f \in [m..N -> Seq(X)]
        BY <2>4, <2>2
    <2>6. ASSUME NEW i \in m..N PROVE f[i] = RestAt(f, s, c, by, i)
        <3>1. CASE i = m
            <4>1. f[i] = RestAt(g, s, c, by, m)
                BY <3>1 DEF x
            <4>2. f[m + 1] = g[m + 1]
                BY <2>2, <1>1
            <4>3. OccursAt(c, s, m) => f[m + Len(c)] = g[m + Len(c)]
                BY <2>2, <2>3, <1>1
            <4> HIDE DEF f
            <4> QED BY <3>1, <4>1, <4>2, <4>3 DEF RestAt
        <3>2. CASE i # m
            <4>1. i \in n..N
                BY <3>2, <2>2, <1>1
            <4>2. f[i] = RestAt(g, s, c, by, i)
                BY <4>1, <3>2, <2>1
            <4>3. i <= Len(s) => f[i + 1] = g[i + 1]
                BY <4>1, <2>2, <1>1
            <4>4. i <= Len(s) /\ OccursAt(c, s, i) => f[i + Len(c)] = g[i + Len(c)]
                <5>1. i <= Len(s) /\ OccursAt(c, s, i) => i + Len(c) \in n..N /\ i + Len(c) # m
                    BY <4>1, <1>1, <2>2 DEF OccursAt
                <5> QED BY <5>1, <2>2, <1>1
            <4> HIDE DEF f
            <4> QED BY <4>1, <4>2, <4>3, <4>4, <1>1 DEF RestAt
        <3> QED BY <3>1, <3>2
    <2> HIDE DEF f
    <2>7. Good(f, m)
        BY <2>6
    <2> HIDE DEF Good
    <2> QED BY <2>2, <2>5, <2>7
<1>4. 1..N \subseteq S
    <2> HIDE DEF S
    <2>1. 1 \in Int /\ N \in Int /\ 1 <= N
        BY <1>1
    <2>2. \A n \in 1 + 1..N : n \in S => n - 1 \in S
        BY <1>3
    <2> QED BY <2>1, <2>2, <1>2, DownwardInduction
<1>5. PICK f \in [1..N -> Seq(X)] : Good(f, 1)
    <2>1. 1 \in 1..N
        BY <1>1
    <2> HIDE DEF Good
    <2> QED BY <1>4, <2>1
<1> DEFINE Whole(g) == g = [i \in 1..Len(s) + 1 |->
                              IF i > Len(s) THEN <<>>
                              ELSE IF OccursAt(c, s, i) THEN by \o g[i + Len(c)]
                              ELSE <<s[i]>> \o g[i + 1]]
           from == CHOOSE g : Whole(g)
<1>6. Whole(f)
    BY <1>5 DEF RestAt
<1>7. Whole(from)
    <2> HIDE DEF Whole
    <2> QED BY <1>6
<1>8. Replace(s, c, by) = from[1]
    BY DEF Replace
<1>9. \A i \in 1..N : from[i] = RestAt(from, s, c, by, i)
    <2> HIDE DEF from
    <2> QED BY <1>7 DEF RestAt
<1>10. DOMAIN from = 1..N /\ from = [i \in 1..N |-> from[i]]
    <2> HIDE DEF from
    <2> QED BY <1>7
<1> HIDE DEF from, Whole
<1>9a. from[N] = <<>>
    <2>1. N \in 1..N /\ N > Len(s)
        BY <1>1
    <2>2. from[N] = RestAt(from, s, c, by, N)
        BY <2>1, <1>9
    <2> QED BY <2>1, <2>2 DEF RestAt
<1>9b. ASSUME NEW i \in 1..Len(s)
       PROVE  /\ OccursAt(c, s, i) => from[i] = by \o from[i + Len(c)]
              /\ ~OccursAt(c, s, i) => from[i] = <<s[i]>> \o from[i + 1]
    <2>1. i \in 1..N /\ ~(i > Len(s))
        BY <1>1
    <2>2. from[i] = RestAt(from, s, c, by, i)
        BY <2>1, <1>9
    <2> QED BY <2>1, <2>2 DEF RestAt
<1>11. \A i \in 1..N : from[i] \in Seq(X)
    <2> DEFINE T == {m \in 1..N : \A i \in m..N : from[i] \in Seq(X)}
    <2>1. N \in T
        <3>1. N \in 1..N /\ \A i \in N..N : i = N
            BY <1>1
        <3>2. from[N] \in Seq(X)
            BY <1>9a
        <3> HIDE DEF N
        <3> QED BY <3>1, <3>2
    <2>2. ASSUME NEW n \in 2..N, n \in T PROVE n - 1 \in T
        <3> DEFINE m == n - 1
        <3>0. \A i \in n..N : from[i] \in Seq(X)
            BY <2>2
        <3> HIDE DEF T
        <3>1. m \in 1..N /\ m \in 1..Len(s) /\ m + 1 \in n..N
            BY <1>1
        <3>2. OccursAt(c, s, m) => m + Len(c) \in n..N
            BY <1>1, <3>1 DEF OccursAt
        <3>3. from[m] \in Seq(X)
            <4> HIDE DEF m
            <4>1. CASE OccursAt(c, s, m)
                <5>1. from[m] = by \o from[m + Len(c)]
                    BY <4>1, <3>1, <1>9b
                <5>2. from[m + Len(c)] \in Seq(X)
                    BY <4>1, <3>0, <3>2
                <5> QED BY <5>1, <5>2, ConcatElements
            <4>2. CASE ~OccursAt(c, s, m)
                <5>1. from[m] = <<s[m]>> \o from[m + 1]
                    BY <4>2, <3>1, <1>9b
                <5>2. from[m + 1] \in Seq(X) /\ s[m] \in X
                    BY <3>0, <3>1
                <5>3. <<s[m]>> \in Seq(X)
                    BY <5>2
                <5> QED BY <5>1, <5>2, <5>3, ConcatElements
            <4> QED BY <4>1, <4>2
        <3>4. \A i \in m..N : i = m \/ i \in n..N
            BY <1>1
        <3> HIDE DEF m
        <3>5. \A i \in m..N : from[i] \in Seq(X)
            BY <3>0, <3>3, <3>4
        <3> QED BY <3>1, <3>5 DEF m, T
    <2>3. 1..N \subseteq T
        <3> HIDE DEF T
        <3>1. 1 \in Int /\ N \in Int /\ 1 <= N
            BY <1>1
        <3>2. \A n \in 1 + 1..N : n \in T => n - 1 \in T
            BY <2>2
        <3> QED BY <3>1, <3>2, <2>1, DownwardInduction
    <2>4. 1 \in T
        BY <2>3, <1>1
    <2> QED BY <2>4
<1>12. from \in [1..N -> Seq(X)]
    BY <1>10, <1>11
<1>13. Rests(from, X, s, c, by)
    BY <1>8, <1>9a, <1>9b, <1>12 DEF Rests
<1> QED BY <1>13

(* Where c begins, nothing before it is in the way: a place that only lets *)
(* the beginning of c start at it.                                         *)
Clears(c, t) == t # <<>> => \A j \in 2..Len(c) : c[j] # t[1]

LEMMA ReplaceConcat ==
    ASSUME NEW X, NEW s \in Seq(X), NEW t \in Seq(X), NEW c \in Seq(X), c # <<>>,
           NEW by \in Seq(X),
           Clears(c, t)
    PROVE  /\ Replace(s \o t, c, by) = Replace(s, c, by) \o Replace(t, c, by)
           /\ Occurs(c, s \o t) <=> Occurs(c, s) \/ Occurs(c, t)
<1>a. ASSUME NEW u \in Seq(X), NEW v \in Seq(X) PROVE (by \o u) \o v = by \o (u \o v)
    BY SMTT(30)
<1>b. ASSUME NEW x \in X, NEW u \in Seq(X), NEW v \in Seq(X)
      PROVE  (<<x>> \o u) \o v = <<x>> \o (u \o v)
    OBVIOUS
<1> DEFINE w == s \o t
           N == Len(s)
           M == Len(t)
<1>1. /\ w \in Seq(X) /\ Len(w) = N + M /\ N \in Nat /\ M \in Nat
      /\ \A i \in 1..N : w[i] = s[i]
      /\ \A i \in 1..M : w[N + i] = t[i]
    BY ConcatElements
<1> HIDE DEF w, N, M
<1>2. Len(s) = N /\ Len(t) = M
    BY DEF N, M
<1>3. Len(c) \in Nat /\ Len(c) > 0
    OBVIOUS
<1>4. ASSUME NEW i \in 1..M PROVE OccursAt(c, w, N + i) <=> OccursAt(c, t, i)
    <2>1. N + i \in 1..Len(w) /\ i \in 1..Len(t)
        BY <1>1, <1>2
    <2>2. OccursAt(c, t, i) <=> Agrees(c, t, i)
        BY <2>1, OccursElements
    <2>3. OccursAt(c, w, N + i) <=> Agrees(c, w, N + i)
        BY <2>1, <1>1, OccursElements
    <2>4. N + i + Len(c) - 1 <= Len(w) <=> i + Len(c) - 1 <= Len(t)
        BY <1>1, <1>2, <1>3
    <2>5. ASSUME i + Len(c) - 1 <= Len(t), NEW j \in 1..Len(c)
          PROVE  w[N + i + j - 1] = t[i + j - 1]
        <3>1. i + j - 1 \in 1..M /\ N + i + j - 1 = N + (i + j - 1)
            BY <2>5, <1>1, <1>2, <1>3
        <3> QED BY <3>1, <1>1
    <2>6. Agrees(c, w, N + i) <=> Agrees(c, t, i)
        BY <2>4, <2>5 DEF Agrees
    <2> QED BY <2>2, <2>3, <2>6
<1>5. ASSUME NEW i \in 1..N PROVE OccursAt(c, w, i) <=> OccursAt(c, s, i)
    <2>1. i \in 1..Len(w) /\ i \in 1..Len(s)
        BY <1>1, <1>2
    <2>2. OccursAt(c, s, i) <=> Agrees(c, s, i)
        BY <2>1, OccursElements
    <2>3. OccursAt(c, w, i) <=> Agrees(c, w, i)
        BY <2>1, <1>1, OccursElements
    <2>4. CASE i + Len(c) - 1 <= N
        <3>1. i + Len(c) - 1 <= Len(w) /\ i + Len(c) - 1 <= Len(s)
            BY <2>4, <1>1, <1>2, <1>3
        <3>2. ASSUME NEW j \in 1..Len(c) PROVE w[i + j - 1] = s[i + j - 1]
            <4>1. i + j - 1 \in 1..N
                BY <2>4, <1>1, <1>3
            <4> QED BY <4>1, <1>1
        <3>3. Agrees(c, w, i) <=> Agrees(c, s, i)
            BY <3>1, <3>2 DEF Agrees
        <3> QED BY <2>2, <2>3, <3>3
    <2>5. CASE ~(i + Len(c) - 1 <= N)
        <3>1. ~Agrees(c, s, i)
            BY <2>5, <1>2 DEF Agrees
        <3>2. ASSUME Agrees(c, w, i) PROVE FALSE
            <4>1. i + Len(c) - 1 <= N + M /\ \A j \in 1..Len(c) : w[i + j - 1] = c[j]
                BY <3>2, <1>1 DEF Agrees
            <4> DEFINE j == N + 2 - i
            <4>2. j \in 2..Len(c) /\ i + j - 1 = N + 1 /\ j \in 1..Len(c) /\ 1 \in 1..M
                BY <2>5, <4>1, <1>1, <1>3
            <4> HIDE DEF j
            <4>3. w[N + 1] = t[1] /\ t # <<>>
                BY <4>2, <1>1, <1>2
            <4>4. w[N + 1] = c[j]
                BY <4>1, <4>2
            <4> QED BY <4>2, <4>3, <4>4 DEF Clears
        <3> QED BY <2>2, <2>3, <3>1, <3>2
    <2> QED BY <2>4, <2>5
<1>6. Occurs(c, w) <=> Occurs(c, s) \/ Occurs(c, t)
    <2>1. DOMAIN w = 1..N + M /\ DOMAIN s = 1..N /\ DOMAIN t = 1..M
        BY <1>1, <1>2
    <2>2. \A i \in 1..N + M : i \in 1..N \/ (i - N \in 1..M /\ i = N + (i - N))
        BY <1>1
    <2>3. \A i \in 1..N : i \in 1..N + M
        BY <1>1
    <2>4. \A i \in 1..M : N + i \in 1..N + M
        BY <1>1
    <2>5. ASSUME Occurs(c, w) PROVE Occurs(c, s) \/ Occurs(c, t)
        <3>1. PICK i \in 1..N + M : OccursAt(c, w, i)
            BY <2>5, <2>1 DEF Occurs
        <3>2. CASE i \in 1..N
            BY <3>1, <3>2, <1>5, <2>1 DEF Occurs
        <3>3. CASE i - N \in 1..M /\ i = N + (i - N)
            BY <3>1, <3>3, <1>4, <2>1 DEF Occurs
        <3> QED BY <2>2, <3>2, <3>3
    <2>6. Occurs(c, s) => Occurs(c, w)
        BY <1>5, <2>1, <2>3 DEF Occurs
    <2>7. Occurs(c, t) => Occurs(c, w)
        BY <1>4, <2>1, <2>4 DEF Occurs
    <2> QED BY <2>5, <2>6, <2>7
<1>7. PICK f : Rests(f, X, w, c, by)
    BY <1>1, ReplaceByRecursion
<1>8. PICK g : Rests(g, X, s, c, by)
    BY ReplaceByRecursion
<1>9. PICK h : Rests(h, X, t, c, by)
    BY ReplaceByRecursion
<1>f. /\ f \in [1..N + M + 1 -> Seq(X)] /\ Replace(w, c, by) = f[1] /\ f[N + M + 1] = <<>>
      /\ \A i \in 1..N + M : OccursAt(c, w, i) => f[i] = by \o f[i + Len(c)]
      /\ \A i \in 1..N + M : ~OccursAt(c, w, i) => f[i] = <<w[i]>> \o f[i + 1]
    BY <1>1, <1>7 DEF Rests
<1>g. /\ g \in [1..N + 1 -> Seq(X)] /\ Replace(s, c, by) = g[1] /\ g[N + 1] = <<>>
      /\ \A i \in 1..N : OccursAt(c, s, i) => g[i] = by \o g[i + Len(c)]
      /\ \A i \in 1..N : ~OccursAt(c, s, i) => g[i] = <<s[i]>> \o g[i + 1]
    BY <1>2, <1>8 DEF Rests
<1>h. /\ h \in [1..M + 1 -> Seq(X)] /\ Replace(t, c, by) = h[1] /\ h[M + 1] = <<>>
      /\ \A i \in 1..M : OccursAt(c, t, i) => h[i] = by \o h[i + Len(c)]
      /\ \A i \in 1..M : ~OccursAt(c, t, i) => h[i] = <<t[i]>> \o h[i + 1]
    BY <1>2, <1>9 DEF Rests
<1>10. \A k \in 1..M + 1 : f[N + k] = h[k]
    <2> DEFINE T == {j \in 1..M + 1 : \A k \in j..M + 1 : f[N + k] = h[k]}
               b == M + 1
    <2>1. b \in T
        <3>1. b \in 1..M + 1 /\ N + b = N + M + 1 /\ \A k \in b..M + 1 : k = b
            BY <1>1
        <3>2. f[N + b] = h[b]
            BY <3>1, <1>f, <1>h
        <3> QED BY <3>1, <3>2
    <2>2. ASSUME NEW n \in 2..b, n \in T PROVE n - 1 \in T
        <3> DEFINE m == n - 1
        <3>0. \A k \in n..M + 1 : f[N + k] = h[k]
            BY <2>2
        <3> HIDE DEF T
        <3>1. /\ m \in 1..M /\ m \in 1..M + 1 /\ m + 1 \in n..M + 1 /\ N + m \in 1..N + M
              /\ N + m + 1 = N + (m + 1) /\ N + m + Len(c) = N + (m + Len(c))
              /\ \A k \in m..M + 1 : k = m \/ k \in n..M + 1
            BY <1>1, <1>3
        <3>2. OccursAt(c, t, m) => m + Len(c) \in n..M + 1
            BY <1>1, <1>2, <1>3 DEF OccursAt
        <3> HIDE DEF m
        <3>3. OccursAt(c, w, N + m) <=> OccursAt(c, t, m)
            BY <3>1, <1>4
        <3>4. f[N + m] = h[m]
            <4>1. CASE OccursAt(c, t, m)
                <5>1. f[N + m] = by \o f[N + m + Len(c)]
                    BY <4>1, <3>1, <3>3, <1>f
                <5>2. h[m] = by \o h[m + Len(c)]
                    BY <4>1, <3>1, <1>h
                <5>3. f[N + (m + Len(c))] = h[m + Len(c)]
                    BY <4>1, <3>0, <3>2
                <5> QED BY <5>1, <5>2, <5>3, <3>1
            <4>2. CASE ~OccursAt(c, t, m)
                <5>1. f[N + m] = <<w[N + m]>> \o f[N + m + 1]
                    BY <4>2, <3>1, <3>3, <1>f
                <5>2. h[m] = <<t[m]>> \o h[m + 1]
                    BY <4>2, <3>1, <1>h
                <5>3. f[N + (m + 1)] = h[m + 1]
                    BY <3>0, <3>1
                <5>4. w[N + m] = t[m]
                    BY <3>1, <1>1
                <5> QED BY <5>1, <5>2, <5>3, <5>4, <3>1
            <4> QED BY <4>1, <4>2
        <3>5. \A k \in m..M + 1 : f[N + k] = h[k]
            BY <3>0, <3>1, <3>4
        <3> QED BY <3>1, <3>5 DEF m, T
    <2>3. 1 \in Int /\ b \in Int /\ 1 <= b /\ 1 \in 1..b
        BY <1>1
    <2>4. \A n \in 1 + 1..b : n \in T => n - 1 \in T
        <3> HIDE DEF T, b
        <3> QED BY <2>2
    <2> HIDE DEF b
    <2>5. 1..b \subseteq T
        <3> HIDE DEF T
        <3> QED BY <2>1, <2>3, <2>4, DownwardInduction
    <2>6. 1 \in T
        BY <2>3, <2>5
    <2> QED BY <2>6
<1>11. \A k \in 1..N + 1 : f[k] = g[k] \o h[1]
    <2> DEFINE T == {j \in 1..N + 1 : \A k \in j..N + 1 : f[k] = g[k] \o h[1]}
               b == N + 1
    <2>0. h[1] \in Seq(X) /\ 1 \in 1..M + 1
        <3>1. 1 \in 1..M + 1
            BY <1>1
        <3> QED BY <3>1, <1>h
    <2>1. b \in T
        <3>1. b \in 1..N + 1 /\ \A k \in b..N + 1 : k = b
            BY <1>1
        <3>2. f[b] = h[1]
            BY <2>0, <1>10
        <3>3. g[b] \o h[1] = h[1]
            BY <2>0, <1>g
        <3> QED BY <3>1, <3>2, <3>3
    <2>2. ASSUME NEW n \in 2..b, n \in T PROVE n - 1 \in T
        <3> DEFINE m == n - 1
        <3>0. \A k \in n..N + 1 : f[k] = g[k] \o h[1]
            BY <2>2
        <3> HIDE DEF T
        <3>1. /\ m \in 1..N /\ m \in 1..N + 1 /\ m + 1 \in n..N + 1 /\ m + 1 \in 1..N + 1
              /\ m \in 1..N + M
              /\ \A k \in m..N + 1 : k = m \/ k \in n..N + 1
            BY <1>1
        <3>2. OccursAt(c, s, m) => m + Len(c) \in n..N + 1 /\ m + Len(c) \in 1..N + 1
            BY <1>1, <1>2, <1>3 DEF OccursAt
        <3> HIDE DEF m
        <3>3. OccursAt(c, w, m) <=> OccursAt(c, s, m)
            BY <3>1, <1>5
        <3>4. f[m] = g[m] \o h[1]
            <4>1. CASE OccursAt(c, s, m)
                <5>1. f[m] = by \o f[m + Len(c)]
                    BY <4>1, <3>1, <3>3, <1>f
                <5>2. g[m] = by \o g[m + Len(c)] /\ g[m + Len(c)] \in Seq(X)
                    BY <4>1, <3>1, <3>2, <1>g
                <5>3. f[m + Len(c)] = g[m + Len(c)] \o h[1]
                    BY <4>1, <3>0, <3>2
                <5> DEFINE r == g[m + Len(c)]
                           z == h[1]
                <5>4. r \in Seq(X) /\ z \in Seq(X)
                    BY <5>2, <2>0
                <5> HIDE DEF r, z
                <5>5. (by \o r) \o z = by \o (r \o z)
                    BY <5>4, <1>a
                <5> QED BY <5>1, <5>2, <5>3, <5>5 DEF r, z
            <4>2. CASE ~OccursAt(c, s, m)
                <5>1. f[m] = <<w[m]>> \o f[m + 1]
                    BY <4>2, <3>1, <3>3, <1>f
                <5>2. g[m] = <<s[m]>> \o g[m + 1]
                    BY <4>2, <3>1, <1>g
                <5>3. f[m + 1] = g[m + 1] \o h[1]
                    BY <3>0, <3>1
                <5>4. w[m] = s[m] /\ s[m] \in X
                    BY <3>1, <1>1, <1>2
                <5> DEFINE r == g[m + 1]
                           x == s[m]
                           z == h[1]
                <5>5. r \in Seq(X) /\ z \in Seq(X)
                    BY <3>1, <2>0, <1>g
                <5>6. x \in X
                    BY <5>4
                <5> HIDE DEF r, x, z
                <5>7. (<<x>> \o r) \o z = <<x>> \o (r \o z)
                    BY <5>5, <5>6, <1>b
                <5> QED BY <5>1, <5>2, <5>3, <5>4, <5>7 DEF r, x, z
            <4> QED BY <4>1, <4>2
        <3>5. \A k \in m..N + 1 : f[k] = g[k] \o h[1]
            BY <3>0, <3>1, <3>4
        <3> QED BY <3>1, <3>5 DEF m, T
    <2>3. 1 \in Int /\ b \in Int /\ 1 <= b /\ 1 \in 1..b
        BY <1>1
    <2>4. \A n \in 1 + 1..b : n \in T => n - 1 \in T
        <3> HIDE DEF T, b
        <3> QED BY <2>2
    <2> HIDE DEF b
    <2>5. 1..b \subseteq T
        <3> HIDE DEF T
        <3> QED BY <2>1, <2>3, <2>4, DownwardInduction
    <2>6. 1 \in T
        BY <2>3, <2>5
    <2> QED BY <2>6
<1>12. f[1] = g[1] \o h[1]
    <2>1. 1 \in 1..N + 1
        BY <1>1
    <2> QED BY <2>1, <1>11
<1> QED BY <1>6, <1>f, <1>g, <1>h, <1>12 DEF w

(* A piece of a text in which c is found only as a whole piece: it has the *)
(* beginning of c at most where it begins, and then nothing behind c.      *)
Whole(X, c) ==
    {p \in Seq(X) : /\ p # <<>>
                    /\ \A i \in 2..Len(p) : p[i] # c[1]
                    /\ \A j \in 2..Len(c) : c[j] # p[1]
                    /\ p[1] = c[1] => Len(p) <= Len(c)}

LEMMA ReplaceInPiece ==
    ASSUME NEW X, NEW c \in Seq(X), c # <<>>, NEW by \in Seq(X), NEW p \in Whole(X, c)
    PROVE  /\ Replace(p, c, by) = IF p = c THEN by ELSE p
           /\ Occurs(c, p) <=> p = c
<1> DEFINE N == Len(p)
<1>1. p \in Seq(X) /\ N \in Nat /\ N > 0 /\ DOMAIN p = 1..N /\ Len(c) \in Nat /\ Len(c) > 0
    BY DEF Whole
<1>2. ASSUME NEW i \in 1..N PROVE OccursAt(c, p, i) <=> i = 1 /\ p = c
    <2>1. OccursAt(c, p, i) <=> Agrees(c, p, i)
        BY <1>1, OccursElements
    <2>2. ASSUME Agrees(c, p, i) PROVE i = 1 /\ p = c
        <3>0. i + Len(c) - 1 <= N /\ \A j \in 1..Len(c) : p[i + j - 1] = c[j]
            BY <2>2 DEF Agrees
        <3>1. 1 \in 1..Len(c) /\ i + 1 - 1 = i
            BY <1>1
        <3>2. p[i] = c[1]
            BY <3>0, <3>1
        <3>3. i = 1
            <4>1. i = 1 \/ i \in 2..Len(p)
                BY <1>1
            <4> QED BY <4>1, <3>2 DEF Whole
        <3>4. Len(c) = N
            <4>1. Len(p) <= Len(c)
                BY <3>2, <3>3 DEF Whole
            <4> QED BY <3>0, <3>3, <4>1, <1>1
        <3>5. \A j \in 1..Len(p) : p[j] = c[j]
            <4> TAKE j \in 1..Len(p)
            <4>1. j \in 1..Len(c) /\ i + j - 1 = j
                BY <3>3, <3>4, <1>1
            <4> QED BY <4>1, <3>0
        <3>6. p = c
            BY <3>4, <3>5, <1>1, SameSequence
        <3> QED BY <3>3, <3>6
    <2>3. ASSUME i = 1, p = c PROVE Agrees(c, p, i)
        <3>1. i + Len(c) - 1 <= Len(p)
            BY <2>3, <1>1
        <3>2. ASSUME NEW j \in 1..Len(c) PROVE p[i + j - 1] = c[j]
            <4>1. i + j - 1 = j
                BY <2>3, <1>1
            <4> QED BY <4>1, <2>3
        <3> QED BY <3>1, <3>2 DEF Agrees
    <2> QED BY <2>1, <2>2, <2>3
<1>3. Occurs(c, p) <=> p = c
    <2>1. 1 \in 1..N
        BY <1>1
    <2> QED BY <2>1, <1>1, <1>2 DEF Occurs
<1>0. PICK f : Rests(f, X, p, c, by)
    BY <1>1, ReplaceByRecursion
<1>4. /\ f \in [1..N + 1 -> Seq(X)] /\ Replace(p, c, by) = f[1] /\ f[N + 1] = <<>>
      /\ \A i \in 1..N : OccursAt(c, p, i) => f[i] = by \o f[i + Len(c)]
      /\ \A i \in 1..N : ~OccursAt(c, p, i) => f[i] = <<p[i]>> \o f[i + 1]
    BY <1>0 DEF Rests
<1>6. CASE p = c
    <2>1. 1 \in 1..N /\ OccursAt(c, p, 1)
        BY <1>1, <1>2, <1>6
    <2>2. f[1] = by \o f[1 + Len(c)]
        BY <2>1, <1>4
    <2>3. 1 + Len(c) = N + 1
        BY <1>1, <1>6
    <2>4. f[1] = by \o <<>>
        BY <2>2, <2>3, <1>4
    <2> QED BY <2>4, <1>3, <1>4, <1>6
<1>7. CASE p # c
    <2> DEFINE T == {i \in 1..N + 1 : /\ Len(f[i]) = N + 1 - i
                                      /\ \A j \in 1..N + 1 - i : f[i][j] = p[i + j - 1]}
               b == N + 1
    <2>1. b \in T
        BY <1>1, <1>4
    <2>2. ASSUME NEW n \in 2..b, n \in T PROVE n - 1 \in T
        <3> DEFINE m == n - 1
        <3>0. Len(f[n]) = N + 1 - n /\ \A j \in 1..N + 1 - n : f[n][j] = p[n + j - 1]
            BY <2>2
        <3> HIDE DEF T
        <3>1. m \in 1..N /\ m \in 1..N + 1 /\ m + 1 = n /\ n \in 1..N + 1
            BY <1>1
        <3> HIDE DEF m
        <3>2. f[m] = <<p[m]>> \o f[n]
            <4>1. ~OccursAt(c, p, m)
                BY <3>1, <1>2, <1>7
            <4> QED BY <4>1, <3>1, <1>4
        <3> DEFINE x == p[m]
                   z == f[n]
        <3>3. x \in X
            BY <3>1, <1>1, ElementOf
        <3>4. z \in Seq(X)
            BY <3>1, <1>4
        <3> HIDE DEF x, z
        <3>5. PutBefore(x, z)
            BY <3>3, <3>4, PutBeforeElements
        <3>6. /\ Len(f[m]) = 1 + Len(z)
              /\ \A j \in 1..1 + Len(z) : f[m][j] = IF j = 1 THEN x ELSE z[j - 1]
            <4>1. f[m] = <<x>> \o z
                BY <3>2 DEF x, z
            <4> QED BY <3>5, <4>1 DEF PutBefore
        <3>0a. Len(z) = N + 1 - n /\ \A j \in 1..N + 1 - n : z[j] = p[n + j - 1]
            BY <3>0 DEF z
        <3>7. ASSUME NEW j \in 1..N + 1 - m PROVE f[m][j] = p[m + j - 1]
            <4>1. j \in 1..1 + Len(z)
                BY <3>1, <3>0a, <1>1
            <4>2. CASE j = 1
                <5>1. m + j - 1 = m
                    BY <4>2, <3>1
                <5> QED BY <4>1, <4>2, <5>1, <3>6 DEF x
            <4>3. CASE j # 1
                <5>1. j - 1 \in 1..N + 1 - n /\ n + (j - 1) - 1 = m + j - 1
                    BY <4>3, <3>1, <1>1
                <5>2. f[m][j] = z[j - 1]
                    BY <4>1, <4>3, <3>6
                <5>3. z[j - 1] = p[n + (j - 1) - 1]
                    BY <5>1, <3>0a
                <5> QED BY <5>1, <5>2, <5>3
            <4> QED BY <4>2, <4>3
        <3>8. Len(f[m]) = N + 1 - m
            <4>1. Len(f[m]) = 1 + (N + 1 - n)
                BY <3>0a, <3>6
            <4> QED BY <4>1, <3>1, <1>1
        <3> QED BY <3>1, <3>7, <3>8 DEF m, T
    <2>3. 1 \in Int /\ b \in Int /\ 1 <= b /\ 1 \in 1..b
        BY <1>1
    <2>4. \A n \in 1 + 1..b : n \in T => n - 1 \in T
        <3> HIDE DEF T, b
        <3> QED BY <2>2
    <2> HIDE DEF b
    <2>5. 1..b \subseteq T
        <3> HIDE DEF T
        <3> QED BY <2>1, <2>3, <2>4, DownwardInduction
    <2>6. 1 \in T
        BY <2>3, <2>5
    <2>7. Len(f[1]) = Len(p) /\ \A j \in 1..Len(f[1]) : f[1][j] = p[j]
        <3>1. N + 1 - 1 = N /\ \A j \in 1..N : 1 + j - 1 = j
            BY <1>1
        <3> QED BY <2>6, <3>1
    <2>8. f[1] \in Seq(X)
        <3>1. 1 \in 1..N + 1
            BY <1>1
        <3> QED BY <3>1, <1>4
    <2>9. f[1] = p
        BY <2>7, <2>8, <1>1, SameSequence
    <2> QED BY <2>9, <1>3, <1>4, <1>7
<1> QED BY <1>6, <1>7

(* Replacing c in a text made of such pieces replaces the pieces c.        *)
LEMMA ReplacePieces ==
    ASSUME NEW X, NEW c \in Seq(X), c # <<>>, NEW by \in Seq(X), NEW ps \in Seq(Whole(X, c))
    PROVE  /\ Replace(FlattenSeq(ps), c, by)
                = FlattenSeq([n \in 1..Len(ps) |-> IF ps[n] = c THEN by ELSE ps[n]])
           /\ Occurs(c, FlattenSeq(ps)) <=> \E n \in 1..Len(ps) : ps[n] = c
<1> DEFINE W == Whole(X, c)
           put(p) == IF p = c THEN by ELSE p
           Put(r) == [n \in 1..Len(r) |-> put(r[n])]
           T == {r \in Seq(W) : /\ Replace(FlattenSeq(r), c, by) = FlattenSeq(Put(r))
                                /\ Occurs(c, FlattenSeq(r)) <=> \E n \in 1..Len(r) : r[n] = c}
<1>1. W \subseteq Seq(X)
    BY DEF Whole
<1>2. <<>> \in T
    <2>1. Put(<<>>) = <<>>
        OBVIOUS
    <2>2. <<>> \in Seq(X) /\ Len(<<>>) = 0 /\ <<>> \in Seq(W)
        OBVIOUS
    <2>3. Replace(<<>>, c, by) = <<>>
        <3>1. PICK f : Rests(f, X, <<>>, c, by)
            BY <2>2, ReplaceByRecursion
        <3>2. Len(<<>>) + 1 = 1
            BY <2>2
        <3> QED BY <3>1, <3>2 DEF Rests
    <2>4. ~Occurs(c, <<>>)
        BY DEF Occurs
    <2>5. ~\E n \in 1..Len(<<>>) : <<>>[n] = c
        BY <2>2
    <2> HIDE DEF Put, W
    <2> QED BY <2>1, <2>2, <2>3, <2>4, <2>5, FlattenOfNone
<1>3. ASSUME NEW r \in Seq(W), r \in T, NEW x \in W PROVE Append(r, x) \in T
    <2> DEFINE q == Append(r, x)
    <2>1. /\ q \in Seq(W) /\ Len(r) \in Nat /\ Len(q) = Len(r) + 1 /\ q[Len(r) + 1] = x
          /\ \A n \in 1..Len(r) : q[n] = r[n] /\ n \in 1..Len(q)
        OBVIOUS
    <2>2. r \in Seq(Seq(X)) /\ x \in Seq(X)
        BY <1>1
    <2>3. FlattenSeq(q) = FlattenSeq(r) \o x
        BY <2>2, FlattenOfAppend
    <2>4. \A n \in 1..Len(r) : put(r[n]) \in Seq(X)
        BY <1>1
    <2>5. Put(r) \in Seq(Seq(X)) /\ put(x) \in Seq(X)
        BY <1>1, <2>1, <2>4
    <2>6. Put(q) = Append(Put(r), put(x))
        <3>1. Len(Put(r)) = Len(r)
            BY <2>1
        <3> HIDE DEF q
        <3>2. \A n \in 1..Len(r) + 1 : n \in 1..Len(r) \/ n = Len(r) + 1
            BY <2>1
        <3> QED BY <2>1, <2>5, <3>1, <3>2
    <2>7. FlattenSeq(Put(q)) = FlattenSeq(Put(r)) \o put(x)
        <3> HIDE DEF Put, put
        <3> QED BY <2>5, <2>6, FlattenOfAppend
    <2>8. FlattenSeq(r) \in Seq(X)
        BY <2>2, FlattenElements
    <2>9. Clears(c, x)
        BY DEF Whole, Clears
    <2>10. /\ Replace(FlattenSeq(r) \o x, c, by) = Replace(FlattenSeq(r), c, by) \o Replace(x, c, by)
           /\ Occurs(c, FlattenSeq(r) \o x) <=> Occurs(c, FlattenSeq(r)) \/ Occurs(c, x)
        BY <2>2, <2>8, <2>9, ReplaceConcat
    <2>11. Replace(x, c, by) = put(x) /\ (Occurs(c, x) <=> x = c)
        BY ReplaceInPiece
    <2>12. (\E n \in 1..Len(q) : q[n] = c) <=> (\E n \in 1..Len(r) : r[n] = c) \/ x = c
        <3> HIDE DEF q
        <3>1. \A n \in 1..Len(q) : n \in 1..Len(r) \/ n = Len(r) + 1
            BY <2>1
        <3>2. Len(r) + 1 \in 1..Len(q)
            BY <2>1
        <3> QED BY <2>1, <3>1, <3>2
    <2> HIDE DEF q, W, Put, put
    <2>13. Replace(FlattenSeq(q), c, by) = FlattenSeq(Put(q))
        BY <1>3, <2>3, <2>7, <2>10, <2>11
    <2>14. Occurs(c, FlattenSeq(q)) <=> \E n \in 1..Len(q) : q[n] = c
        BY <1>3, <2>3, <2>10, <2>11, <2>12
    <2> QED BY <2>1, <2>13, <2>14 DEF q
<1>4. Seq(W) \subseteq T
    <2> HIDE DEF T, W
    <2> QED BY <1>2, <1>3, SeqInduction
<1> QED BY <1>4

-----------------------------------------------------------------------------
(* What is restored.                                                       *)

(* The tokens of a value: a hash, with a letter, or with the value.        *)
IsToken(c, v) ==
    \E h : \/ c = << <<"hash", h>> >>
           \/ \E l : c = << <<"hash", h>>, <<"suffix", l>> >>
           \/ c = LongToken(h, v)

IsCipher(c, v) == \E p : c = <<Cipher(p, v)>>

(* The tokens of different values are different.                           *)
TokensApart ==
    \A v \in DOMAIN seen :
        /\ IsToken(seen[v], v)
        /\ \A w \in DOMAIN seen : seen[v] = seen[w] => v = w

(* What is recorded for a value stands for this value only.                *)
MappingsApart ==
    \A c \in DOMAIN mappings :
        \/ IsCipher(c, mappings[c])
        \/ /\ mappings[c] \in DOMAIN seen \ Numeric
           /\ c = seen[mappings[c]]

(* A result is a redaction, or is recorded.                                *)
ResultsRecorded ==
    \A n \in DOMAIN replacements :
        LET r == replacements[n] IN
        \/ r.encrypted = Redaction /\ r.value \notin Numeric
        \/ r.encrypted \in DOMAIN mappings /\ mappings[r.encrypted] = r.value

RecordsOK == ResultsTyped /\ TokensApart /\ MappingsApart /\ ResultsRecorded

(* What a piece of the answer has become.                                  *)
Quoted == {replacements[answer[n].of].encrypted :
              n \in {i \in DOMAIN answer : answer[i].of # 0 /\ ~answer[i].anew}}
Pending == Quoted \cup exact \cup fuzzy
Shown(p) ==
    IF p.of = 0 THEN <<Word>>
    ELSE LET r == replacements[p.of]
             c == r.encrypted
         IN  IF c = Redaction THEN Redaction
             ELSE IF p.anew /\ c \in Pending THEN Anew(c)
             ELSE IF ~p.anew /\ c \in exact THEN c
             ELSE <<Val(r.value)>>

RestoreOK ==
    phase = "restore" =>
        /\ answer \in Seq(Pieces)
        /\ restored = FlattenSeq([n \in 1..Len(answer) |-> Shown(answer[n])])
        /\ exact \subseteq DOMAIN mappings
        /\ \A c \in fuzzy : /\ c \in DOMAIN mappings /\ IsNumeric(c)
                            /\ c \notin exact /\ c \notin Quoted

RInv == RecordsOK /\ RestoreOK

-----------------------------------------------------------------------------
LEMMA CipherTells ==
    ASSUME NEW c, NEW v, IsCipher(c, v)
    PROVE  /\ Len(c) = 1 /\ c = <<c[1]>> /\ c[1][1] = "cipher" /\ c[1][3] = v
BY DEF IsCipher, Cipher

LEMMA TokenTells ==
    ASSUME NEW c, NEW v, IsToken(c, v)
    PROVE  /\ c[1][1] = "hash"
           /\ \/ Len(c) = 1 /\ c = <<c[1]>>
              \/ Len(c) = 2 /\ c = <<c[1], c[2]>> /\ c[2][1] \in {"suffix", "long"}
<1>1. PICK h : \/ c = << <<"hash", h>> >>
               \/ \E l : c = << <<"hash", h>>, <<"suffix", l>> >>
               \/ c = << <<"hash", h>>, <<"long", v>> >>
    BY DEF IsToken, LongToken
<1>2. CASE c = << <<"hash", h>> >>
    BY <1>2
<1>3. CASE \E l : c = << <<"hash", h>>, <<"suffix", l>> >>
    BY <1>3
<1>4. CASE c = << <<"hash", h>>, <<"long", v>> >>
    BY <1>4
<1> QED BY <1>1, <1>2, <1>3, <1>4

(* A new token is a token of its value, and of no other.                   *)
LEMMA NewTokenIsApart ==
    ASSUME TokensApart, NEW v, v \notin DOMAIN seen, NEW h
    PROVE  /\ IsToken(NewToken(h, v), v)
           /\ \A w \in DOMAIN seen : seen[w] # NewToken(h, v)
<1> DEFINE N == Len(Candidates(h))
<1>1. /\ N \in Nat /\ DOMAIN Candidates(h) = 1..N
      /\ \A n \in 1..N : IsToken(Candidates(h)[n], v)
    <2> DEFINE p == << << <<"hash", h>> >> >>
               q == [n \in DOMAIN Letters |-> << <<"hash", h>>, <<"suffix", Letters[n]>> >>]
               Y == {c \in {<< <<"hash", h>> >>} \cup
                           {<< <<"hash", h>>, <<"suffix", Letters[n]>> >> : n \in DOMAIN Letters} :
                       TRUE}
    <2>1. p \in Seq(Y) /\ q \in Seq(Y)
        <3>1. << <<"hash", h>> >> \in Y
            OBVIOUS
        <3>2. \A n \in DOMAIN Letters : << <<"hash", h>>, <<"suffix", Letters[n]>> >> \in Y
            OBVIOUS
        <3>3. DOMAIN Letters = 1..Len(Letters) /\ Len(Letters) \in Nat
            BY MaskingAssumption
        <3> HIDE DEF Y
        <3> QED BY <3>1, <3>2, <3>3
    <2>2. \A c \in Y : IsToken(c, v)
        BY DEF IsToken
    <2> HIDE DEF p, q, Y
    <2>3. Candidates(h) \in Seq(Y)
        <3>1. Candidates(h) = p \o q
            BY DEF Candidates, p, q
        <3> QED BY <2>1, <3>1, ConcatElements
    <2> QED BY <2>2, <2>3
<1>2. CASE Fresh(h) = {}
    <2>1. NewToken(h, v) = LongToken(h, v)
        BY <1>2 DEF NewToken
    <2>2. IsToken(NewToken(h, v), v)
        BY <2>1 DEF IsToken
    <2>3. ASSUME NEW w \in DOMAIN seen, seen[w] = LongToken(h, v) PROVE FALSE
        <3>1. PICK g : \/ seen[w] = << <<"hash", g>> >>
                       \/ \E l : seen[w] = << <<"hash", g>>, <<"suffix", l>> >>
                       \/ seen[w] = << <<"hash", g>>, <<"long", w>> >>
            BY DEF TokensApart, IsToken, LongToken
        <3> DEFINE t == LongToken(h, v)
        <3>2. Len(t) = 2 /\ t[2][1] = "long" /\ t[2][2] = v
            BY DEF LongToken
        <3> HIDE DEF t
        <3>3. CASE t = << <<"hash", g>> >>
            BY <3>2, <3>3
        <3>4. CASE \E l : t = << <<"hash", g>>, <<"suffix", l>> >>
            BY <3>2, <3>4
        <3>5. CASE t = << <<"hash", g>>, <<"long", w>> >>
            <4>1. v = w
                BY <3>2, <3>5
            <4> QED BY <4>1
        <3> QED BY <2>3, <3>1, <3>3, <3>4, <3>5 DEF t
    <2> QED BY <2>1, <2>2, <2>3
<1>3. CASE Fresh(h) # {}
    <2>1. Fresh(h) \in SUBSET (1..N)
        BY <1>1 DEF Fresh
    <2>2. \E n \in Fresh(h) : \A m \in Fresh(h) : n <= m
        <3> HIDE DEF N
        <3> QED BY <1>1, <1>3, <2>1, LeastExists
    <2> DEFINE n == CHOOSE n \in Fresh(h) : \A m \in Fresh(h) : n <= m
    <2>3. n \in Fresh(h)
        BY <2>2
    <2> HIDE DEF n
    <2>4. NewToken(h, v) = Candidates(h)[n]
        BY <1>3 DEF NewToken, n
    <2>5. IsToken(NewToken(h, v), v)
        BY <1>1, <2>1, <2>3, <2>4
    <2>6. \A w \in DOMAIN seen : seen[w] # NewToken(h, v)
        BY <2>3, <2>4 DEF Fresh, Used
    <2> QED BY <2>5, <2>6
<1> QED BY <1>2, <1>3

(* A ciphertext or token that is recorded already is recorded for the same *)
(* value, so recording one again changes nothing that is recorded.         *)
LEMMA RecordKeeps ==
    ASSUME RecordsOK, NEW m, NEW c, Record(m, c), Substitute(m, c),
           \/ IsCipher(c, m.value) /\ UNCHANGED seen
           \/ /\ m.value \notin Numeric
              /\ seen' = With(seen, m.value, c)
              /\ \/ m.value \in DOMAIN seen /\ c = seen[m.value]
                 \/ /\ m.value \notin DOMAIN seen /\ IsToken(c, m.value)
                    /\ \A w \in DOMAIN seen : seen[w] # c
    PROVE  RecordsOK'
<1> DEFINE v == m.value
<1>1. DOMAIN mappings' = DOMAIN mappings \cup {c} /\ mappings'[c] = v
      /\ \A d \in DOMAIN mappings : d # c => mappings'[d] = mappings[d]
    BY DEF Record, With
<1>2. /\ DOMAIN seen \subseteq DOMAIN seen'
      /\ \A w \in DOMAIN seen : seen'[w] = seen[w]
      /\ \A w \in DOMAIN seen' : w \in DOMAIN seen \/ (w = v /\ seen'[w] = c)
    BY DEF With
<1>3. c \in DOMAIN mappings => mappings[c] = v
    <2> SUFFICES ASSUME c \in DOMAIN mappings PROVE mappings[c] = v
        OBVIOUS
    <2> DEFINE u == mappings[c]
    <2>1. IsCipher(c, u) \/ (u \in DOMAIN seen /\ c = seen[u] /\ IsToken(c, u))
        BY DEF RecordsOK, MappingsApart, TokensApart
    <2>2. IsCipher(c, v) \/ (v \in DOMAIN seen /\ c = seen[v] /\ IsToken(c, v))
          \/ (IsToken(c, v) /\ \A w \in DOMAIN seen : seen[w] # c)
        BY DEF RecordsOK, TokensApart
    <2> HIDE DEF u, v
    <2>3. CASE IsCipher(c, u)
        <3>1. c[1][1] = "cipher" /\ c[1][3] = u
            BY <2>3, CipherTells
        <3>2. ~IsToken(c, v)
            BY <3>1, TokenTells
        <3>3. c[1][3] = v
            BY <2>2, <3>2, CipherTells
        <3> QED BY <3>1, <3>3 DEF u
    <2>4. CASE u \in DOMAIN seen /\ c = seen[u] /\ IsToken(c, u)
        <3>1. ~IsCipher(c, v)
            BY <2>4, CipherTells, TokenTells
        <3>2. v \in DOMAIN seen /\ c = seen[v]
            BY <2>2, <2>4, <3>1
        <3>3. u = v
            BY <2>4, <3>2 DEF RecordsOK, TokensApart
        <3> QED BY <3>3 DEF u
    <2> QED BY <2>1, <2>3, <2>4
<1>4. \A d \in DOMAIN mappings : mappings'[d] = mappings[d]
    BY <1>1, <1>3
<1>5. ResultsTyped'
    <2>1. PICK S : replacements \in Seq(S)
        BY DEF RecordsOK, ResultsTyped
    <2> QED BY <2>1, AppendNonEmpty DEF Substitute, ResultsTyped
<1>6. TokensApart'
    <2> SUFFICES ASSUME NEW x \in DOMAIN seen'
                 PROVE  /\ IsToken(seen'[x], x)
                        /\ \A w \in DOMAIN seen' : seen'[x] = seen'[w] => x = w
        BY DEF TokensApart
    <2>1. CASE UNCHANGED seen
        BY <2>1 DEF RecordsOK, TokensApart
    <2>2. CASE v \in DOMAIN seen /\ c = seen[v]
        <3>1. DOMAIN seen' \subseteq DOMAIN seen
            BY <1>2, <2>2
        <3> QED BY <1>2, <3>1 DEF RecordsOK, TokensApart
    <2>3. CASE v \notin DOMAIN seen /\ IsToken(c, v) /\ \A w \in DOMAIN seen : seen[w] # c
        <3>1. IsToken(seen'[x], x)
            BY <1>2, <2>3 DEF RecordsOK, TokensApart
        <3>2. \A w \in DOMAIN seen' : seen'[x] = seen'[w] => x = w
            BY <1>2, <2>3 DEF RecordsOK, TokensApart
        <3> QED BY <3>1, <3>2
    <2> QED BY <2>1, <2>2, <2>3
<1>7. MappingsApart'
    <2> SUFFICES ASSUME NEW d \in DOMAIN mappings'
                 PROVE  \/ IsCipher(d, mappings'[d])
                        \/ /\ mappings'[d] \in DOMAIN seen' \ Numeric
                           /\ d = seen'[mappings'[d]]
        BY DEF MappingsApart
    <2>1. CASE d \in DOMAIN mappings
        <3>1. mappings'[d] = mappings[d]
            BY <2>1, <1>4
        <3> QED BY <2>1, <3>1, <1>2 DEF RecordsOK, MappingsApart
    <2>2. CASE d = c
        <3>1. mappings'[d] = v
            BY <2>2, <1>1
        <3>2. CASE IsCipher(c, v)
            BY <2>2, <3>1, <3>2
        <3>3. CASE v \notin Numeric /\ seen' = With(seen, v, c)
            <4>1. v \in DOMAIN seen' /\ seen'[v] = c
                BY <3>3 DEF With
            <4> QED BY <2>2, <3>1, <3>3, <4>1
        <3> QED BY <3>2, <3>3
    <2> QED BY <2>1, <2>2, <1>1
<1>8. ResultsRecorded'
    <2>1. PICK S : replacements \in Seq(S)
        BY DEF RecordsOK, ResultsTyped
    <2> DEFINE r == [path |-> m.path, at |-> m.at, value |-> v, encrypted |-> c]
               N == Len(replacements)
    <2>2. /\ N \in Nat /\ DOMAIN replacements = 1..N
          /\ DOMAIN replacements' = 1..N + 1
          /\ \A n \in 1..N : replacements'[n] = replacements[n]
          /\ replacements'[N + 1] = r
        BY <2>1 DEF Substitute
    <2> SUFFICES ASSUME NEW n \in 1..N + 1
                 PROVE  LET s == replacements'[n] IN
                        \/ s.encrypted = Redaction /\ s.value \notin Numeric
                        \/ s.encrypted \in DOMAIN mappings' /\ mappings'[s.encrypted] = s.value
        BY <2>2 DEF ResultsRecorded
    <2>3. CASE n \in 1..N
        <3>1. replacements'[n] = replacements[n] /\ n \in DOMAIN replacements
            BY <2>2, <2>3
        <3>2. LET s == replacements[n] IN
              \/ s.encrypted = Redaction /\ s.value \notin Numeric
              \/ s.encrypted \in DOMAIN mappings /\ mappings[s.encrypted] = s.value
            BY <3>1 DEF RecordsOK, ResultsRecorded
        <3> QED BY <3>1, <3>2, <1>1, <1>4
    <2>4. CASE n = N + 1
        <3>1. replacements'[n].encrypted = c /\ replacements'[n].value = v
            BY <2>2, <2>4
        <3> QED BY <3>1, <1>1
    <2> QED BY <2>2, <2>3, <2>4
<1> QED BY <1>5, <1>6, <1>7, <1>8 DEF RecordsOK

(* A redaction and a value left in clear leave the records alone.          *)
LEMMA RedactKeepsRecords ==
    ASSUME RecordsOK, NEW m, m.value \notin Numeric, Substitute(m, Redaction),
           UNCHANGED <<seen, mappings>>
    PROVE  RecordsOK'
<1>1. ResultsTyped'
    <2>1. PICK S : replacements \in Seq(S)
        BY DEF RecordsOK, ResultsTyped
    <2> QED BY <2>1, AppendNonEmpty DEF Substitute, ResultsTyped
<1>2. TokensApart' /\ MappingsApart'
    BY DEF RecordsOK, TokensApart, MappingsApart
<1>3. ResultsRecorded'
    <2>1. PICK S : replacements \in Seq(S)
        BY DEF RecordsOK, ResultsTyped
    <2> DEFINE r == [path |-> m.path, at |-> m.at, value |-> m.value, encrypted |-> Redaction]
               N == Len(replacements)
    <2>2. /\ N \in Nat /\ DOMAIN replacements = 1..N
          /\ DOMAIN replacements' = 1..N + 1
          /\ \A n \in 1..N : replacements'[n] = replacements[n]
          /\ replacements'[N + 1] = r
        BY <2>1 DEF Substitute
    <2> SUFFICES ASSUME NEW n \in 1..N + 1
                 PROVE  LET s == replacements'[n] IN
                        \/ s.encrypted = Redaction /\ s.value \notin Numeric
                        \/ s.encrypted \in DOMAIN mappings' /\ mappings'[s.encrypted] = s.value
        BY <2>2 DEF ResultsRecorded
    <2>3. CASE n \in 1..N
        <3>1. replacements'[n] = replacements[n] /\ n \in DOMAIN replacements
            BY <2>2, <2>3
        <3> QED BY <3>1 DEF RecordsOK, ResultsRecorded
    <2>4. CASE n = N + 1
        <3>1. replacements'[n].encrypted = Redaction /\ replacements'[n].value = m.value
            BY <2>2, <2>4
        <3> QED BY <3>1
    <2> QED BY <2>2, <2>3, <2>4
<1> QED BY <1>1, <1>2, <1>3 DEF RecordsOK

LEMMA SameRecords == ASSUME RecordsOK, UNCHANGED <<seen, mappings, replacements>> PROVE RecordsOK'
BY DEF RecordsOK, ResultsTyped, TokensApart, MappingsApart, ResultsRecorded

(* The pieces of the answer, and what they stand for.                      *)
LEMMA PieceIs ==
    ASSUME RecordsOK, NEW p \in Pieces
    PROVE  \/ p.of = 0 /\ p.anew = FALSE
           \/ /\ p.of # 0 /\ p.of \in DOMAIN replacements
              /\ \/ replacements[p.of].encrypted = Redaction /\ ~p.anew
                 \/ /\ replacements[p.of].encrypted \in DOMAIN mappings
                    /\ replacements[p.of].value = mappings[replacements[p.of].encrypted]
                    /\ p.anew => replacements[p.of].value \in Numeric
              /\ p.anew \in BOOLEAN
<1>1. PICK S : replacements \in Seq(S)
    BY DEF RecordsOK, ResultsTyped
<1>2. 0 \notin DOMAIN replacements
    BY <1>1
<1>3. CASE p \in {[of |-> 0, anew |-> FALSE]}
    BY <1>3
<1>4. CASE p \in [of : DOMAIN replacements, anew : {FALSE}]
    BY <1>2, <1>4 DEF RecordsOK, ResultsRecorded
<1>5. CASE p \in [of : {n \in DOMAIN replacements : replacements[n].value \in Numeric},
                  anew : {TRUE}]
    BY <1>2, <1>5 DEF RecordsOK, ResultsRecorded
<1> QED BY <1>3, <1>4, <1>5 DEF Pieces

(* What is recorded for a number is a ciphertext.                          *)
LEMMA CodeIs ==
    ASSUME RecordsOK, NEW c \in DOMAIN mappings
    PROVE  /\ \/ IsCipher(c, mappings[c])
              \/ mappings[c] \notin Numeric /\ IsToken(c, mappings[c])
           /\ \/ Len(c) = 1 /\ c = <<c[1]>>
              \/ Len(c) = 2 /\ c = <<c[1], c[2]>> /\ c[2][1] \in {"suffix", "long"}
           /\ c[1][1] \in {"cipher", "hash"}
           /\ c # Redaction /\ Redaction[1][1] = "redacted"
<1>1. IsCipher(c, mappings[c]) \/ (mappings[c] \notin Numeric /\ IsToken(c, mappings[c]))
    BY DEF RecordsOK, MappingsApart, TokensApart
<1>2. c[1][1] \in {"cipher", "hash"}
    BY <1>1, CipherTells, TokenTells
<1>3. \/ Len(c) = 1 /\ c = <<c[1]>>
      \/ Len(c) = 2 /\ c = <<c[1], c[2]>> /\ c[2][1] \in {"suffix", "long"}
    BY <1>1, CipherTells, TokenTells
<1>4. Redaction[1][1] = "redacted"
    BY DEF Redaction
<1> QED BY <1>1, <1>2, <1>3, <1>4

(* The cells of a restored text.                                           *)
Alphabet ==
    {Word} \cup {Redaction[1], Redaction[2]}
    \cup {c[i] : c \in DOMAIN mappings, i \in {1, 2}}
    \cup {Reformatted(c[1]) : c \in DOMAIN mappings}
    \cup {Val(mappings[c]) : c \in DOMAIN mappings}

(* The forms a piece may have.                                             *)
LEMMA ShownIs ==
    ASSUME RecordsOK, exact \subseteq DOMAIN mappings, NEW p \in Pieces
    PROVE  \/ Shown(p) = <<Word>>
           \/ Shown(p) = Redaction
           \/ \E c \in DOMAIN mappings : Shown(p) = Anew(c)
           \/ \E c \in DOMAIN mappings : Shown(p) = <<Val(mappings[c])>>
           \/ Shown(p) \in exact
<1> DEFINE c == replacements[p.of].encrypted
<1>1. CASE p.of = 0
    BY <1>1 DEF Shown
<1>2. CASE p.of # 0 /\ c = Redaction
    BY <1>2 DEF Shown
<1>3. CASE p.of # 0 /\ c # Redaction
    <2>1. c \in DOMAIN mappings /\ replacements[p.of].value = mappings[c]
        BY <1>3, PieceIs
    <2> QED BY <1>3, <2>1 DEF Shown
<1> QED BY <1>1, <1>2, <1>3

(* A ciphertext that no longer one is pending beside, and a reformatted    *)
(* number, are found only where they are whole pieces.                     *)
LEMMA ShownIsWhole ==
    ASSUME RecordsOK, exact \subseteq DOMAIN mappings, NEW p \in Pieces, NEW c \in DOMAIN mappings
    PROVE  /\ Shown(p) \in Seq(Alphabet) /\ c \in Seq(Alphabet) /\ Anew(c) \in Seq(Alphabet)
           /\ <<Val(mappings[c])>> \in Seq(Alphabet)
           /\ c # <<>> /\ Anew(c) # <<>>
           /\ c \in Longest(exact) => Shown(p) \in Whole(Alphabet, c)
           /\ Shown(p) \in Whole(Alphabet, Anew(c))
<1> DEFINE s == Shown(p)
           X == Alphabet
<1>1. ASSUME NEW d \in DOMAIN mappings
      PROVE  /\ d \in Seq(X) /\ Anew(d) \in Seq(X) /\ <<Val(mappings[d])>> \in Seq(X)
             /\ Len(Anew(d)) = 1 /\ Anew(d)[1][1] = "reformatted"
    <2>1. d[1] \in X /\ d[2] \in X /\ Reformatted(d[1]) \in X /\ Val(mappings[d]) \in X
        BY DEF Alphabet
    <2>2. d = <<d[1]>> \/ d = <<d[1], d[2]>>
        BY CodeIs
    <2> HIDE DEF X
    <2>3. <<d[1]>> \in Seq(X) /\ <<d[1], d[2]>> \in Seq(X)
        BY <2>1
    <2>4. Anew(d) = <<Reformatted(d[1])>> /\ Reformatted(d[1])[1] = "reformatted"
        BY DEF Anew, Reformatted
    <2> QED BY <2>1, <2>2, <2>3, <2>4
<1>2. Word \in X /\ Redaction[1] \in X /\ Redaction[2] \in X
      /\ Redaction = <<Redaction[1], Redaction[2]>> /\ Len(Redaction) = 2
      /\ Redaction[1][1] = "redacted" /\ Redaction[2][1] = "redacted" /\ Word[1] = "word"
    BY DEF Alphabet, Redaction, Word
<1>3. /\ Len(s) \in {1, 2} /\ s \in Seq(X)
      /\ s[1][1] \in {"word", "redacted", "reformatted", "value", "cipher", "hash"}
      /\ s[1][1] = "reformatted" => Len(s) = 1
      /\ s[1][1] \in {"cipher", "hash"} => s \in exact
      /\ Len(s) = 2 => s[2][1] \in {"redacted", "suffix", "long"}
    <2>1. CASE s = <<Word>>
        <3> HIDE DEF X, s
        <3> QED BY <1>2, <2>1
    <2>2. CASE s = Redaction
        <3>1. Redaction \in Seq(X)
            <4>1. <<Redaction[1], Redaction[2]>> \in Seq(X)
                <5> HIDE DEF X
                <5> QED BY <1>2
            <4> QED BY <4>1, <1>2
        <3> HIDE DEF X, s
        <3> QED BY <1>2, <2>2, <3>1
    <2>3. CASE \E d \in DOMAIN mappings : s = Anew(d)
        <3> HIDE DEF X, s
        <3> QED BY <1>1, <2>3
    <2>4. CASE \E d \in DOMAIN mappings : s = <<Val(mappings[d])>>
        <3>1. PICK d \in DOMAIN mappings : s = <<Val(mappings[d])>>
            BY <2>4
        <3>2. Val(mappings[d])[1] = "value"
            BY DEF Val
        <3> HIDE DEF X, s
        <3> QED BY <1>1, <3>1, <3>2
    <2>5. CASE s \in exact
        <3> HIDE DEF X, s
        <3>1. s \in DOMAIN mappings
            BY <2>5
        <3> QED BY <1>1, <2>5, <3>1, CodeIs
    <2> QED BY <2>1, <2>2, <2>3, <2>4, <2>5, ShownIs
<1> HIDE DEF s, X
<1>4. /\ Len(c) \in {1, 2} /\ c[1][1] \in {"cipher", "hash"}
      /\ Len(c) = 2 => c[2][1] \in {"suffix", "long"}
    BY CodeIs
<1>5. c # <<>> /\ Anew(c) # <<>> /\ s # <<>>
    BY <1>1, <1>3, <1>4
<1>6. ASSUME NEW i \in 2..Len(s) PROVE Len(s) = 2 /\ i = 2
    <2> DEFINE k == Len(s)
    <2>1. k \in {1, 2} /\ i \in 2..k
        BY <1>3
    <2> HIDE DEF k
    <2>2. k = 2 /\ i = 2
        BY <2>1, SecondOfTwo
    <2> QED BY <2>2 DEF k
<1>7. ASSUME NEW j \in 2..Len(c) PROVE Len(c) = 2 /\ j = 2
    <2> DEFINE k == Len(c)
    <2>1. k \in {1, 2} /\ j \in 2..k
        BY <1>4
    <2> HIDE DEF k
    <2>2. k = 2 /\ j = 2
        BY <2>1, SecondOfTwo
    <2> QED BY <2>2 DEF k
<1>8. ASSUME c \in Longest(exact) PROVE s \in Whole(X, c)
    <2>1. \A i \in 2..Len(s) : s[i] # c[1]
        BY <1>3, <1>4, <1>6
    <2>2. \A j \in 2..Len(c) : c[j] # s[1]
        BY <1>3, <1>4, <1>7
    <2>3. s[1] = c[1] => Len(s) <= Len(c)
        BY <1>3, <1>4, <1>8 DEF Longest
    <2> QED BY <2>1, <2>2, <2>3, <1>3, <1>5 DEF Whole
<1>9. s \in Whole(X, Anew(c))
    <2>1. \A i \in 2..Len(s) : s[i] # Anew(c)[1]
        BY <1>1, <1>3, <1>6
    <2>2. \A j \in 2..Len(Anew(c)) : Anew(c)[j] # s[1]
        BY <1>1
    <2>3. s[1] = Anew(c)[1] => Len(s) <= Len(Anew(c))
        BY <1>1, <1>3
    <2> QED BY <2>1, <2>2, <2>3, <1>3, <1>5 DEF Whole
<1> QED BY <1>1, <1>3, <1>5, <1>8, <1>9 DEF s, X

(* The effect of one replacement on the pieces.                            *)
LEMMA RestorePieces ==
    ASSUME RecordsOK, exact \subseteq DOMAIN mappings, answer \in Seq(Pieces),
           restored = FlattenSeq([n \in 1..Len(answer) |-> Shown(answer[n])]),
           NEW c \in DOMAIN mappings, NEW d,
           (d = c /\ c \in Longest(exact)) \/ d = Anew(c)
    PROVE  LET by == <<Val(mappings[c])>> IN
           /\ Replace(restored, d, by)
                = FlattenSeq([n \in 1..Len(answer) |->
                                 IF Shown(answer[n]) = d THEN by ELSE Shown(answer[n])])
           /\ Occurs(d, restored) <=> \E n \in 1..Len(answer) : Shown(answer[n]) = d
<1> DEFINE N == Len(answer)
           ps == [n \in 1..N |-> Shown(answer[n])]
           by == <<Val(mappings[c])>>
           X == Alphabet
<1>1. N \in Nat /\ \A n \in 1..N : answer[n] \in Pieces
    OBVIOUS
<1>2. d \in Seq(X) /\ d # <<>> /\ by \in Seq(X) /\ \A p \in Pieces : Shown(p) \in Whole(X, d)
    <2>1. \A p \in Pieces : Shown(p) \in Whole(X, d)
        BY ShownIsWhole
    <2>2. [of |-> 0, anew |-> FALSE] \in Pieces
        BY DEF Pieces
    <2> QED BY <2>1, <2>2, ShownIsWhole
<1>3. ps \in Seq(Whole(X, d)) /\ Len(ps) = N /\ \A n \in 1..N : ps[n] = Shown(answer[n])
    BY <1>1, <1>2
<1> HIDE DEF ps, X, by, N
<1>4. /\ Replace(FlattenSeq(ps), d, by)
           = FlattenSeq([n \in 1..Len(ps) |-> IF ps[n] = d THEN by ELSE ps[n]])
      /\ Occurs(d, FlattenSeq(ps)) <=> \E n \in 1..Len(ps) : ps[n] = d
    BY <1>2, <1>3, ReplacePieces
<1>5. [n \in 1..Len(ps) |-> IF ps[n] = d THEN by ELSE ps[n]]
        = [n \in 1..N |-> IF Shown(answer[n]) = d THEN by ELSE Shown(answer[n])]
    BY <1>3
<1>6. restored = FlattenSeq(ps)
    BY DEF ps, N
<1>7. (\E n \in 1..Len(ps) : ps[n] = d) <=> \E n \in 1..N : Shown(answer[n]) = d
    BY <1>3
<1> QED BY <1>4, <1>5, <1>6, <1>7 DEF N, by

-----------------------------------------------------------------------------
LEMMA RInit == Init => RInv
<1> SUFFICES ASSUME Init PROVE RInv
    OBVIOUS
<1>1. replacements = <<>> /\ seen = <<>> /\ mappings = <<>> /\ phase = "images"
    BY DEF Init
<1>2. ResultsTyped
    <2>1. replacements \in Seq({})
        BY <1>1
    <2> QED BY <2>1 DEF ResultsTyped
<1>3. DOMAIN seen = {} /\ DOMAIN mappings = {} /\ DOMAIN replacements = {}
    BY <1>1
<1> QED BY <1>1, <1>2, <1>3 DEF RInv, RecordsOK, TokensApart, MappingsApart, ResultsRecorded, RestoreOK

(* The loop over the matches.                                              *)
LEMMA RecordStepsKeep ==
    ASSUME RecordsOK, Encrypt \/ Redact \/ Tokenize \/ LeaveClear
    PROVE  RecordsOK' /\ phase' = "encrypt"
<1>1. CASE Encrypt
    <2>1. PICK m \in Range(matches) :
            /\ ForMatch(m)
            /\ Record(m, <<Cipher(m.path, m.value)>>)
            /\ Substitute(m, <<Cipher(m.path, m.value)>>)
            /\ UNCHANGED seen
        BY <1>1 DEF Encrypt
    <2>2. IsCipher(<<Cipher(m.path, m.value)>>, m.value)
        BY DEF IsCipher
    <2>3. phase' = "encrypt"
        BY <2>1 DEF ForMatch
    <2> QED BY <2>1, <2>2, <2>3, RecordKeeps
<1>2. CASE Redact
    <2>1. PICK m \in Range(matches) :
            /\ ForMatch(m)
            /\ Kind[m.value] \in {"small", "fails"}
            /\ Substitute(m, Redaction)
            /\ UNCHANGED <<seen, mappings>>
        BY <1>2 DEF Redact
    <2>2. m.value \notin Numeric
        BY <2>1, MaskingAssumption
    <2>3. phase' = "encrypt"
        BY <2>1 DEF ForMatch
    <2> QED BY <2>1, <2>2, <2>3, RedactKeepsRecords
<1>3. CASE Tokenize
    <2>0. PICK m \in Range(matches) :
            \E c \in Tokens(m.value) :
                /\ ForMatch(m)
                /\ Kind[m.value] = "token" \/ Kind[m.value] = "small"
                /\ seen' = With(seen, m.value, c)
                /\ Record(m, c)
                /\ Substitute(m, c)
        BY <1>3 DEF Tokenize
    <2>1. PICK c \in Tokens(m.value) :
            /\ ForMatch(m)
            /\ Kind[m.value] = "token" \/ Kind[m.value] = "small"
            /\ seen' = With(seen, m.value, c)
            /\ Record(m, c)
            /\ Substitute(m, c)
        BY <2>0
    <2>2. m.value \notin Numeric
        BY <2>1, MaskingAssumption
    <2>3. phase' = "encrypt"
        BY <2>1 DEF ForMatch
    <2>4. \/ m.value \in DOMAIN seen /\ c = seen[m.value]
          \/ m.value \notin DOMAIN seen /\ \E h \in Hashes : c = NewToken(h, m.value)
        BY <2>1 DEF Tokens
    <2>5. \/ m.value \in DOMAIN seen /\ c = seen[m.value]
          \/ /\ m.value \notin DOMAIN seen /\ IsToken(c, m.value)
             /\ \A w \in DOMAIN seen : seen[w] # c
        BY <2>4, NewTokenIsApart DEF RecordsOK
    <2> QED BY <2>1, <2>2, <2>3, <2>5, RecordKeeps
<1>4. CASE LeaveClear
    <2>1. UNCHANGED <<seen, mappings, replacements>> /\ phase' = "encrypt"
        BY <1>4 DEF LeaveClear, ForMatch
    <2> QED BY <2>1, SameRecords
<1> QED BY <1>1, <1>2, <1>3, <1>4

(* The answer quotes what it was sent.                                     *)
LEMMA AnswerRestores == ASSUME RInv, Answer PROVE RInv'
<1>1. /\ UNCHANGED <<seen, mappings, replacements>>
      /\ exact' = DOMAIN mappings /\ fuzzy' = {}
      /\ restored' = FlattenSeq([n \in DOMAIN answer' |-> Said(answer'[n])])
      /\ \E k \in 1..AnswerItems : answer' \in [1..k -> Pieces]
    BY DEF Answer, masking
<1>2. RecordsOK'
    BY <1>1, SameRecords DEF RInv
<1>3. PICK k \in 1..AnswerItems : answer' \in [1..k -> Pieces]
    BY <1>1
<1>4. k \in Nat /\ answer' \in Seq(Pieces) /\ Len(answer') = k /\ DOMAIN answer' = 1..k
    BY <1>3, MaskingAssumption
<1>5. Pieces' = Pieces
    BY <1>1 DEF Pieces
<1>6. ASSUME NEW n \in 1..k PROVE Said(answer'[n]) = Shown(answer[n])'
    <2> DEFINE p == answer'[n]
               c == replacements[p.of].encrypted
    <2>1. p \in Pieces
        BY <1>3
    <2>2. CASE p.of = 0
        BY <2>2 DEF Said, Shown
    <2>3. CASE p.of # 0
        <3>1. replacements' = replacements
            BY <1>1
        <3>2. c = Redaction => ~p.anew
            BY <2>1, <2>3, PieceIs, CodeIs DEF RInv
        <3>3. c # Redaction => c \in exact' /\ c \in Pending'
            BY <2>1, <2>3, <1>1, PieceIs DEF RInv, Pending
        <3> QED BY <2>3, <3>1, <3>2, <3>3 DEF Said, Shown
    <2> QED BY <2>2, <2>3
<1>7. [n \in DOMAIN answer' |-> Said(answer'[n])] = [n \in 1..Len(answer') |-> Shown(answer[n])']
    BY <1>4, <1>6
<1>8. RestoreOK'
    BY <1>1, <1>4, <1>5, <1>7 DEF RestoreOK
<1> QED BY <1>2, <1>8 DEF RInv

(* The exact pass: c is replaced wherever it is quoted.                    *)
LEMMA ExactRestores == ASSUME RInv, RestoreExact PROVE RInv'
<1>1. PICK c \in Longest(exact) :
        /\ exact' = exact \ {c}
        /\ \/ /\ Occurs(c, restored)
              /\ restored' = Replace(restored, c, <<Val(mappings[c])>>)
              /\ fuzzy' = fuzzy
           \/ /\ ~ Occurs(c, restored)
              /\ fuzzy' = IF IsNumeric(c) THEN fuzzy \cup {c} ELSE fuzzy
              /\ restored' = restored
    BY DEF RestoreExact
<1>2. phase = "restore" /\ UNCHANGED <<seen, mappings, replacements, answer>>
    BY DEF RestoreExact, masking
<1>3. RecordsOK /\ RecordsOK'
    BY <1>2, SameRecords DEF RInv
<1>4. /\ answer \in Seq(Pieces) /\ exact \subseteq DOMAIN mappings
      /\ restored = FlattenSeq([n \in 1..Len(answer) |-> Shown(answer[n])])
      /\ \A f \in fuzzy : f \in DOMAIN mappings /\ IsNumeric(f) /\ f \notin exact /\ f \notin Quoted
    BY <1>2 DEF RInv, RestoreOK
<1>5. c \in exact /\ c \in DOMAIN mappings
    BY <1>4 DEF Longest
<1> DEFINE by == <<Val(mappings[c])>>
           N == Len(answer)
<1>6. /\ Replace(restored, c, by)
           = FlattenSeq([n \in 1..N |-> IF Shown(answer[n]) = c THEN by ELSE Shown(answer[n])])
      /\ Occurs(c, restored) <=> \E n \in 1..N : Shown(answer[n]) = c
    BY <1>3, <1>4, <1>5, RestorePieces
<1>7. Quoted' = Quoted
    BY <1>2 DEF Quoted
<1>8. c[1][1] \in {"cipher", "hash"} /\ c # Redaction
      /\ c # <<Word>> /\ by # c /\ \A v : <<Val(v)>> # c /\ \A d : Anew(d) # c
    <2>1. c[1][1] \in {"cipher", "hash"} /\ c # Redaction
        BY <1>3, <1>5, CodeIs
    <2>2. <<Word>>[1][1] = "word" /\ \A v : <<Val(v)>>[1][1] = "value"
        BY DEF Word, Val
    <2>3. \A d : Anew(d)[1][1] = "reformatted"
        BY DEF Anew, Reformatted
    <2>4. c # <<Word>>
        BY <2>1, <2>2
    <2>5. \A v : <<Val(v)>> # c
        BY <2>1, <2>2
    <2>6. \A d : Anew(d) # c
        BY <2>1, <2>3
    <2> QED BY <2>1, <2>4, <2>5, <2>6
<1>9. \A n \in 1..N : /\ answer[n] \in Pieces /\ n \in DOMAIN answer
                      /\ LET p == answer[n] IN
                         p.of = 0 \/ replacements[p.of].encrypted = Redaction
                         \/ (/\ replacements[p.of].encrypted \in DOMAIN mappings
                             /\ replacements[p.of].value = mappings[replacements[p.of].encrypted]
                             /\ p.anew => replacements[p.of].value \in Numeric)
    <2> TAKE n \in 1..N
    <2> DEFINE p == answer[n]
    <2>1. p \in Pieces /\ n \in DOMAIN answer
        BY <1>4
    <2> HIDE DEF p
    <2>2. p.of = 0 \/ replacements[p.of].encrypted = Redaction
          \/ (/\ replacements[p.of].encrypted \in DOMAIN mappings
              /\ replacements[p.of].value = mappings[replacements[p.of].encrypted]
              /\ p.anew => replacements[p.of].value \in Numeric)
        BY <2>1, <1>3, PieceIs
    <2> QED BY <2>1, <2>2 DEF p
<1>10. \A n \in 1..N : Shown(answer[n]) = c <=>
           answer[n].of # 0 /\ ~answer[n].anew /\ replacements[answer[n].of].encrypted = c
    <2> TAKE n \in 1..N
    <2> DEFINE p == answer[n]
               d == replacements[p.of].encrypted
    <2>1. CASE p.of = 0
        BY <2>1, <1>8 DEF Shown
    <2>2. CASE p.of # 0 /\ d = Redaction
        BY <2>2, <1>8 DEF Shown
    <2>3. CASE p.of # 0 /\ d # Redaction /\ p.anew
        BY <2>3, <1>8 DEF Shown
    <2>4. CASE p.of # 0 /\ d # Redaction /\ ~p.anew
        <3>1. Shown(p) = IF d \in exact THEN d ELSE <<Val(replacements[p.of].value)>>
            BY <2>4 DEF Shown
        <3> QED BY <2>4, <3>1, <1>5, <1>8
    <2> QED BY <2>1, <2>2, <2>3, <2>4
<1>11. c \in Quoted <=> Occurs(c, restored)
    <2>1. DOMAIN answer = 1..N
        BY <1>4
    <2> QED BY <2>1, <1>6, <1>10 DEF Quoted
<1>12. \A n \in 1..N : Shown(answer[n])' = IF Shown(answer[n]) = c THEN by ELSE Shown(answer[n])
    <2> TAKE n \in 1..N
    <2> DEFINE p == answer[n]
               d == replacements[p.of].encrypted
    <2>1. answer'[n] = p /\ replacements' = replacements
        BY <1>2
    <2>2. CASE p.of = 0
        BY <2>1, <2>2, <1>8 DEF Shown
    <2>3. CASE p.of # 0 /\ d = Redaction
        BY <2>1, <2>3, <1>8 DEF Shown
    <2>4. CASE p.of # 0 /\ d # Redaction /\ p.anew
        <3>1. Shown(p) = IF d \in Pending THEN Anew(d)
                         ELSE <<Val(replacements[p.of].value)>>
            BY <2>4 DEF Shown
        <3>2. Shown(answer[n])' = IF d \in Pending' THEN Anew(d)
                                  ELSE <<Val(replacements[p.of].value)>>
            BY <2>1, <2>4 DEF Shown
        <3>3. Shown(p) # c
            BY <3>1, <1>8
        <3>4. d \in DOMAIN mappings /\ mappings[d] \in Numeric
            BY <2>4, <1>9
        <3>5. d \in Pending' <=> d \in Pending
            <4>1. CASE d # c
                BY <4>1, <1>1, <1>7 DEF Pending
            <4>2. CASE d = c /\ Occurs(c, restored)
                BY <4>2, <1>7, <1>11 DEF Pending
            <4>3. CASE d = c /\ ~Occurs(c, restored)
                <5>1. c \in fuzzy'
                    BY <1>1, <3>4, <4>3 DEF IsNumeric
                <5> QED BY <4>3, <5>1, <1>5 DEF Pending
            <4> QED BY <4>1, <4>2, <4>3
        <3> QED BY <3>1, <3>2, <3>3, <3>5
    <2>5. CASE p.of # 0 /\ d # Redaction /\ ~p.anew
        <3>1. Shown(p) = IF d \in exact THEN d ELSE <<Val(replacements[p.of].value)>>
            BY <2>5 DEF Shown
        <3>2. Shown(answer[n])' = IF d \in exact' THEN d ELSE <<Val(replacements[p.of].value)>>
            BY <2>1, <2>5 DEF Shown
        <3>3. replacements[p.of].value = mappings[d]
            BY <2>5, <1>9
        <3> QED BY <3>1, <3>2, <3>3, <1>1, <1>5, <1>8
    <2> QED BY <2>2, <2>3, <2>4, <2>5
<1>13. restored' = FlattenSeq([n \in 1..N |-> Shown(answer[n])'])
    <2>1. [n \in 1..N |-> Shown(answer[n])']
            = [n \in 1..N |-> IF Shown(answer[n]) = c THEN by ELSE Shown(answer[n])]
        BY <1>12
    <2>2. CASE Occurs(c, restored)
        BY <2>1, <2>2, <1>1, <1>6
    <2>3. CASE ~Occurs(c, restored)
        <3>1. [n \in 1..N |-> IF Shown(answer[n]) = c THEN by ELSE Shown(answer[n])]
                = [n \in 1..N |-> Shown(answer[n])]
            BY <2>3, <1>6
        <3> QED BY <2>1, <2>3, <3>1, <1>1, <1>4
    <2> QED BY <2>2, <2>3
<1>14. \A f \in fuzzy' : /\ f \in DOMAIN mappings' /\ IsNumeric(f)'
                         /\ f \notin exact' /\ f \notin Quoted'
    <2> TAKE f \in fuzzy'
    <2>1. CASE f \in fuzzy
        BY <2>1, <1>1, <1>2, <1>4, <1>7 DEF IsNumeric
    <2>2. CASE f \notin fuzzy
        <3>1. f = c /\ IsNumeric(c) /\ ~Occurs(c, restored)
            BY <2>2, <1>1
        <3> QED BY <3>1, <1>1, <1>2, <1>5, <1>7, <1>11 DEF IsNumeric
    <2> QED BY <2>1, <2>2
<1>15. RestoreOK'
    <2>1. Pieces' = Pieces
        BY <1>2 DEF Pieces
    <2>2. answer' \in Seq(Pieces)' /\ exact' \subseteq DOMAIN mappings'
        BY <2>1, <1>1, <1>2, <1>4
    <2>3. restored' = FlattenSeq([n \in 1..Len(answer) |-> Shown(answer[n])])'
        BY <1>2, <1>13
    <2> QED BY <2>2, <2>3, <1>14 DEF RestoreOK
<1> QED BY <1>3, <1>15 DEF RInv

(* The fuzzy pass: c is replaced wherever it stands in another form.       *)
LEMMA FuzzyRestores == ASSUME RInv, RestoreFuzzy PROVE RInv'
<1>1. PICK c \in fuzzy :
        /\ fuzzy' = fuzzy \ {c}
        /\ restored' = Replace(restored, Anew(c), <<Val(mappings[c])>>)
    BY DEF RestoreFuzzy, Longest
<1>2. /\ phase = "restore" /\ exact = {}
      /\ UNCHANGED <<seen, mappings, replacements, answer, exact>>
    BY DEF RestoreFuzzy, masking
<1>3. RecordsOK /\ RecordsOK'
    BY <1>2, SameRecords DEF RInv
<1>4. /\ answer \in Seq(Pieces) /\ exact \subseteq DOMAIN mappings
      /\ restored = FlattenSeq([n \in 1..Len(answer) |-> Shown(answer[n])])
      /\ \A f \in fuzzy : f \in DOMAIN mappings /\ IsNumeric(f) /\ f \notin exact /\ f \notin Quoted
    BY <1>2 DEF RInv, RestoreOK
<1>5. c \in DOMAIN mappings /\ IsNumeric(c) /\ c \notin Quoted
    BY <1>1, <1>4
<1> DEFINE by == <<Val(mappings[c])>>
           N == Len(answer)
           e == Anew(c)
<1>6. Replace(restored, e, by)
        = FlattenSeq([n \in 1..N |-> IF Shown(answer[n]) = e THEN by ELSE Shown(answer[n])])
    BY <1>3, <1>4, <1>5, RestorePieces
<1>7. Quoted' = Quoted
    BY <1>2 DEF Quoted
<1>8. e[1][1] = "reformatted" /\ e[1][2] = c[1] /\ e # <<Word>> /\ e # Redaction
      /\ \A v : <<Val(v)>> # e
    <2>1. e[1][1] = "reformatted" /\ e[1][2] = c[1]
        BY DEF Anew, Reformatted
    <2>2. <<Word>>[1][1] = "word" /\ \A v : <<Val(v)>>[1][1] = "value"
        BY DEF Word, Val
    <2>3. Redaction[1][1] = "redacted"
        BY DEF Redaction
    <2> HIDE DEF e
    <2>4. e # <<Word>>
        BY <2>1, <2>2
    <2>5. \A v : <<Val(v)>> # e
        BY <2>1, <2>2
    <2> QED BY <2>1, <2>3, <2>4, <2>5
<1>9. ASSUME NEW d \in DOMAIN mappings, mappings[d] \in Numeric, Anew(d) = e
      PROVE  d = c
    <2>1. Anew(d)[1][2] = d[1]
        BY DEF Anew, Reformatted
    <2>2. d[1] = c[1]
        BY <2>1, <1>8, <1>9
    <2>3. IsCipher(d, mappings[d]) /\ IsCipher(c, mappings[c])
        BY <1>3, <1>5, <1>9, CodeIs DEF IsNumeric
    <2>4. d = <<d[1]>> /\ c = <<c[1]>>
        BY <2>3, CipherTells
    <2> QED BY <2>2, <2>4
<1> HIDE DEF e
<1>10. \A n \in 1..N : Shown(answer[n])' = IF Shown(answer[n]) = e THEN by ELSE Shown(answer[n])
    <2> TAKE n \in 1..N
    <2> DEFINE p == answer[n]
               d == replacements[p.of].encrypted
    <2>1. answer'[n] = p /\ replacements' = replacements /\ p \in Pieces
        BY <1>2, <1>4
    <2>2. CASE p.of = 0
        BY <2>1, <2>2, <1>8 DEF Shown
    <2>3. CASE p.of # 0 /\ d = Redaction
        BY <2>1, <2>3, <1>8 DEF Shown
    <2>4. CASE p.of # 0 /\ d # Redaction /\ p.anew
        <3>1. Shown(p) = IF d \in Pending THEN Anew(d)
                         ELSE <<Val(replacements[p.of].value)>>
            BY <2>4 DEF Shown
        <3>2. Shown(answer[n])' = IF d \in Pending' THEN Anew(d)
                                  ELSE <<Val(replacements[p.of].value)>>
            BY <2>1, <2>4 DEF Shown
        <3>3. d \in DOMAIN mappings /\ mappings[d] \in Numeric /\ replacements[p.of].value = mappings[d]
            BY <2>1, <2>4, <1>3, PieceIs
        <3>4. CASE d = c
            <4>1. Shown(p) = e
                BY <3>1, <3>4, <1>1 DEF Pending, e
            <4>2. d \notin Pending'
                BY <3>4, <1>1, <1>2, <1>5, <1>7 DEF Pending
            <4> QED BY <3>2, <3>3, <3>4, <4>1, <4>2
        <3>5. CASE d # c
            <4>1. Anew(d) # e
                BY <3>3, <3>5, <1>9
            <4>2. Shown(p) # e
                BY <3>1, <4>1, <1>8
            <4>3. d \in Pending' <=> d \in Pending
                BY <3>5, <1>1, <1>2, <1>7 DEF Pending
            <4> QED BY <3>1, <3>2, <4>2, <4>3
        <3> QED BY <3>4, <3>5
    <2>5. CASE p.of # 0 /\ d # Redaction /\ ~p.anew
        <3>1. Shown(p) = <<Val(replacements[p.of].value)>>
            BY <2>5, <1>2 DEF Shown
        <3>2. Shown(answer[n])' = <<Val(replacements[p.of].value)>>
            BY <2>1, <2>5, <1>2 DEF Shown
        <3> QED BY <3>1, <3>2, <1>8
    <2> QED BY <2>2, <2>3, <2>4, <2>5
<1>11. restored' = FlattenSeq([n \in 1..N |-> Shown(answer[n])'])
    <2>1. [n \in 1..N |-> Shown(answer[n])']
            = [n \in 1..N |-> IF Shown(answer[n]) = e THEN by ELSE Shown(answer[n])]
        BY <1>10
    <2> QED BY <2>1, <1>1, <1>6 DEF e
<1>12. RestoreOK'
    <2>1. Pieces' = Pieces
        BY <1>2 DEF Pieces
    <2>2. answer' \in Seq(Pieces)' /\ exact' \subseteq DOMAIN mappings'
        BY <2>1, <1>2, <1>4
    <2>3. restored' = FlattenSeq([n \in 1..Len(answer) |-> Shown(answer[n])])'
        BY <1>2, <1>11
    <2>4. \A f \in fuzzy' : /\ f \in DOMAIN mappings' /\ IsNumeric(f)'
                            /\ f \notin exact' /\ f \notin Quoted'
        BY <1>1, <1>2, <1>4, <1>7 DEF IsNumeric
    <2> QED BY <2>2, <2>3, <2>4 DEF RestoreOK
<1> QED BY <1>3, <1>12 DEF RInv

LEMMA StepRestores == RInv /\ [Next]_vars => RInv'
<1> SUFFICES ASSUME RInv, [Next]_vars PROVE RInv'
    OBVIOUS
<1>1. CASE Answer
    BY <1>1, AnswerRestores
<1>2. CASE RestoreExact
    BY <1>2, ExactRestores
<1>3. CASE RestoreFuzzy
    BY <1>3, FuzzyRestores
<1>4. CASE Encrypt \/ Redact \/ Tokenize \/ LeaveClear
    <2>1. RecordsOK' /\ phase' = "encrypt"
        BY <1>4, RecordStepsKeep DEF RInv
    <2> QED BY <2>1 DEF RInv, RestoreOK
<1>5. CASE WalkImages \/ FetchImages \/ ScanVoice
    <2>1. phase' \in {"fetch", "voice", "text"} /\ UNCHANGED <<seen, mappings, replacements>>
        BY <1>5 DEF WalkImages, FetchImages, ScanVoice, Pass, masking
    <2> QED BY <2>1, SameRecords DEF RInv, RestoreOK
<1>6. CASE ScanText
    <2>1. phase' \in {"sent", "encrypt"} /\ UNCHANGED <<seen, mappings, replacements>>
        BY <1>6 DEF ScanText
    <2> QED BY <2>1, SameRecords DEF RInv, RestoreOK
<1>7. CASE Apply
    <2>1. phase' = "sent" /\ UNCHANGED <<seen, mappings, replacements>>
        BY <1>7 DEF Apply, masking
    <2> QED BY <2>1, SameRecords DEF RInv, RestoreOK
<1>8. CASE UNCHANGED vars
    <2>1. UNCHANGED <<seen, mappings, replacements>>
        BY <1>8 DEF vars, masking
    <2>2. RestoreOK'
        <3>1. UNCHANGED <<phase, mappings, replacements, answer, restored, exact, fuzzy>>
            BY <1>8 DEF vars, masking, response
        <3> QED BY <3>1 DEF RInv, RestoreOK, Pieces, Shown, Pending, Quoted, IsNumeric
    <2> QED BY <2>1, <2>2, SameRecords DEF RInv
<1> QED BY <1>1, <1>2, <1>3, <1>4, <1>5, <1>6, <1>7, <1>8 DEF Next

(* When nothing is pending, each piece is what it was meant to be.         *)
LEMMA RestoredIsMeant == RInv => RoundTrip
<1> SUFFICES ASSUME RInv, phase = "restore", exact = {}, fuzzy = {}
             PROVE  restored = FlattenSeq([n \in DOMAIN answer |-> Meant(answer[n])])
    BY DEF RoundTrip
<1>1. /\ answer \in Seq(Pieces)
      /\ restored = FlattenSeq([n \in 1..Len(answer) |-> Shown(answer[n])])
    BY DEF RInv, RestoreOK
<1>2. ASSUME NEW p PROVE Shown(p) = Meant(p)
    <2>1. \A c : QuotedExactly(c) <=> c \in Pending
        BY DEF QuotedExactly, Quoted, Pending
    <2> QED BY <2>1 DEF Shown, Meant
<1>3. DOMAIN answer = 1..Len(answer)
    BY <1>1
<1> QED BY <1>1, <1>2, <1>3

(* Whatever the engine makes of the values, however the tokens collide and *)
(* in whatever order ties are replaced: the provider's answer comes back   *)
(* with every ciphertext and token, and every number also in another form, *)
(* replaced by its own value, and with everything else as it was.          *)
THEOREM AnswersAreRestored == Spec => []RoundTrip
BY RInit, StepRestores, RestoredIsMeant, PTL DEF Spec
=============================================================================

------------------------------ MODULE NerText ------------------------------
(***************************************************************************)
(* NerScanner::scan_text of ner_scanner.rs on one text: split_into_chunks  *)
(* cuts it at whitespace into overlapping chunks that fit the model,       *)
(* decode_bio_tags joins the words the model labelled into entities, and   *)
(* what overlaps between chunks is deduplicated.                           *)
(*                                                                         *)
(* A text is a sequence of bytes: whitespace, a letter, or the two bytes   *)
(* of a wider letter, which no cut may separate.  The model is external: a *)
(* set of entities it would label in the text, and in every chunk labels   *)
(* the words, and cut words, of theirs it can see.                         *)
(***************************************************************************)
EXTENDS Integers, Sequences, SequencesExt, Selection

CONSTANTS
    MaxChunk,     \* MAX_CHUNK_BYTES (800)
    Overlap,      \* CHUNK_OVERLAP_BYTES (150)
    MaxBytes,     \* bound: bytes of a text
    MaxChunks     \* bound: chunks of a text

ASSUME ChunkAssumption ==
    /\ MaxChunk \in Nat /\ MaxChunk >= 2      \* a character fits
    /\ Overlap \in Nat
    /\ MaxBytes \in Nat /\ MaxChunks \in Nat

VARIABLES
    passage,    \* the text
    entities,   \* what the model would label: words from..to, and their type
    chunkStart, \* where the next chunk begins
    chunks,     \* the chunks cut so far, as <<begin, end>> in bytes
    nerStage,   \* "cutting", "scanning", "done" or "failed"
    inferred,   \* how many chunks the model has seen
    nerMatches  \* all_matches: type, begin and end in bytes

nerVars == <<passage, entities, chunkStart, chunks, nerStage, inferred, nerMatches>>

EntityTypes == {"PER", "LOC"}

\* (: the first, and ): the second byte of a wide letter.
WellFormed(s) ==
    /\ s # <<>> => Head(s) # ")" /\ Last(s) # "("
    /\ \A i \in 1..Len(s) - 1 : s[i] = "(" <=> s[i + 1] = ")"

NerTypeOK ==
    /\ passage \in Seq({" ", "x", "(", ")"}) /\ Len(passage) \in 1..MaxBytes
    /\ \A e \in entities :
         e \in [type : EntityTypes, from : 1..MaxBytes, to : 1..MaxBytes]
    /\ chunkStart \in 0..Len(passage)
    /\ chunks \in Seq((0..Len(passage)) \X (0..Len(passage))) /\ Len(chunks) <= MaxChunks
    /\ nerStage \in {"cutting", "scanning", "done", "failed"}
    /\ inferred \in 0..Len(chunks)
    /\ nerMatches \in Seq([type : EntityTypes, start : Nat, end : Nat])

-----------------------------------------------------------------------------
(* Words of WordPieceTokenizer: runs without whitespace, as <<begin, end>>.*)

Space(p) == passage[p + 1] = " "       \* the byte at offset p

StartsIn(b, e) == {p \in b..e - 1 : ~Space(p) /\ (p = b \/ Space(p - 1))}
EndIn(p, e) == Min({q \in p + 1..e : q = e \/ Space(q)})
WordsIn(b, e) ==
    LET starts == Those([i \in DOMAIN passage |-> i - 1], StartsIn(b, e))
    IN  [k \in DOMAIN starts |-> <<starts[k], EndIn(starts[k], e)>>]

Words == WordsIn(0, Len(passage))
WordAt(p) ==
    LET ws == Words IN CHOOSE k \in DOMAIN ws : ws[k][1] <= p /\ p < ws[k][2]

First(e) == Words[e.from][1]      \* where the entity e begins and ends
Final(e) == Words[e.to][2]

NerInit ==
    /\ passage \in {s \in BoundedSeq({" ", "x", "(", ")"}, MaxBytes) :
                      s # <<>> /\ WellFormed(s)}
    /\ LET n     == Len(Words)
           spans == {e \in [type : EntityTypes, from : 1..n, to : 1..n] : e.from <= e.to}
       IN  \E e, f \in spans : /\ e = f \/ e.to < f.from
                               /\ entities = {e, f}
    /\ chunkStart = 0 /\ chunks = <<>>
    /\ nerStage = "cutting" /\ inferred = 0
    /\ nerMatches = <<>>

-----------------------------------------------------------------------------
(* split_into_chunks.                                                      *)

Boundary(p) == p = Len(passage) \/ passage[p + 1] # ")"
SpacesIn(b, e) == {p \in b..e - 1 : Space(p)}
Limit(b) == Max({p \in b..Min({b + MaxChunk, Len(passage)}) : Boundary(p)})

(* Behind the last character that fits, or before the last whitespace in   *)
(* the chunk, unless that is its first byte.                               *)
ChunkEnd(b) ==
    LET spaces == SpacesIn(b, Limit(b))
    IN  IF Limit(b) < Len(passage) /\ spaces # {} /\ Max(spaces) > b
        THEN Max(spaces) ELSE Limit(b)

(* Behind the first whitespace of the last Overlap bytes: those of the     *)
(* text, which may reach back behind the chunk's own beginning.            *)
NextStart(e) ==
    LET from   == IF e > Overlap THEN Min({p \in e - Overlap..e : Boundary(p)}) ELSE e
        spaces == SpacesIn(from, e)
    IN  IF spaces # {} THEN Min(spaces) + 1 ELSE e

(* A round of the loop.                                                    *)
CutChunk ==
    /\ nerStage = "cutting"
    /\ Len(chunks) < MaxChunks
    /\ LET e == ChunkEnd(chunkStart)
       IN  /\ chunks' = Append(chunks, <<chunkStart, e>>)
           /\ IF e = Len(passage)
              THEN nerStage' = "scanning" /\ UNCHANGED chunkStart
              ELSE chunkStart' = NextStart(e) /\ UNCHANGED nerStage
    /\ UNCHANGED <<passage, entities, inferred, nerMatches>>

-----------------------------------------------------------------------------
(* External: the label of a word, or of what is left of it in a chunk.     *)
Label0 == [tag |-> "O", type |-> "PER"]

LabelOf(w) ==
    LET k    == WordAt(w[1])
        here == {e \in entities : e.from <= k /\ k <= e.to}
    IN  IF here = {} THEN Label0
        ELSE LET e == CHOOSE x \in here : TRUE
             IN  [tag |-> IF k = e.from THEN "B" ELSE "I", type |-> e.type]

\* An entity that is open is a sequence of one, or empty.
Extended(open, w)  == <<[open[1] EXCEPT !.end = w[2]]>>
Opened(label, w)   == <<[type |-> label.type, start |-> w[1], end |-> w[2]]>>
Continues(label, open) == label.tag = "I" /\ open # <<>> /\ open[1].type = label.type

(* decode_bio_tags: an I tag that continues nothing counts as a B tag.     *)
Tagged(acc, l, w) ==
    IF Continues(l, acc.open) THEN [out |-> acc.out, open |-> Extended(acc.open, w)]
    ELSE [out |-> acc.out \o acc.open, open |-> IF l.tag = "O" THEN <<>> ELSE Opened(l, w)]
Decode(words) ==
    LET read[n \in 0..Len(words)] ==
          IF n = 0 THEN [out |-> <<>>, open |-> <<>>]
          ELSE Tagged(read[n - 1], LabelOf(words[n]), words[n])
    IN  read[Len(words)].out \o read[Len(words)].open

-----------------------------------------------------------------------------
(* The merge of scan_text.                                                 *)

Before(m, n) == m.start < n.start \/ (m.start = n.start /\ m.end < n.end)
Meets(m, n)  == m.type = n.type /\ m.start <= n.end /\ n.start <= m.end

\* Behind the matches that do not come after it, as a stable sort puts it.
PlaceOf(m, s) ==
    CHOOSE k \in 0..Len(s) : /\ \A j \in 1..k : ~Before(m, s[j])
                             /\ k < Len(s) => Before(m, s[k + 1])
InOrder(s) ==
    LET sorted[n \in 0..Len(s)] ==
          IF n = 0 THEN <<>>
          ELSE InsertAt(sorted[n - 1], PlaceOf(s[n], sorted[n - 1]) + 1, s[n])
    IN  sorted[Len(s)]

FirstsOf(s) ==
    LET kept[n \in 0..Len(s)] ==
          IF n = 0 THEN <<>>
          ELSE IF \E k \in ToSet(kept[n - 1]) : Meets(k, s[n]) THEN kept[n - 1]
          ELSE Append(kept[n - 1], s[n])
    IN  kept[Len(s)]

\* Mutant: sorted the other way.
DedupFromEnd(s) == FirstsOf(Reverse(InOrder(s)))

(* Of matches of one type that overlap the first stays: the shorter, when  *)
(* two begin together.                                                     *)
Dedup(s) == FirstsOf(InOrder(s))

(* A chunk is inferred; after the last one the matches are merged, unless  *)
(* the text was a single chunk.                                            *)
Infer ==
    /\ nerStage = "scanning"
    /\ inferred' = inferred + 1
    /\ LET c     == chunks[inferred + 1]
           found == nerMatches \o Decode(WordsIn(c[1], c[2]))
       IN  IF inferred + 1 < Len(chunks)
           THEN nerMatches' = found /\ UNCHANGED nerStage
           ELSE /\ nerMatches' = IF Len(passage) > MaxChunk THEN Dedup(found) ELSE found
                /\ nerStage' = "done"
    /\ UNCHANGED <<passage, entities, chunkStart, chunks>>

(* ONNX fails on a chunk: the whole scan returns the error, and            *)
(* HybridScanner goes on without semantic matches.                         *)
InferFails ==
    /\ nerStage = "scanning"
    /\ nerStage' = "failed"
    /\ nerMatches' = <<>>
    /\ UNCHANGED <<passage, entities, chunkStart, chunks, inferred>>

NerNext == CutChunk \/ Infer \/ InferFails

NerSpec == NerInit /\ [][NerNext]_nerVars
-----------------------------------------------------------------------------
Within(b, e, c) == c[1] <= b /\ e <= c[2]
Cuts(c, b, e)   == c[1] < e /\ b < c[2] /\ ~Within(b, e, c)

(* Every word shorter than a chunk is whole in one of them, wherever the   *)
(* whitespace and the wide characters lie.  One that would fill a chunk is *)
(* cut when the chunk begins with the whitespace before it.                *)
WordsStayWhole ==
    nerStage = "scanning" =>
      \A k \in DOMAIN Words :
        LET w == Words[k]
        IN  w[2] - w[1] < MaxChunk => \E c \in ToSet(chunks) : Within(w[1], w[2], c)

(* The decoder reports of a chunk the entities of the model, each one      *)
(* joined from its words in sight and none joined with its neighbour.      *)
DecodedAsLabelled ==
    nerStage = "scanning" =>
      LET c     == chunks[inferred + 1]
          Seen(e) == [type |-> e.type,
                      start |-> Max({First(e), c[1]}), end |-> Min({Final(e), c[2]})]
      IN  \A m \in ToSet(Decode(WordsIn(c[1], c[2]))) :
            \E e \in entities : LET s == Seen(e) IN
              m.type = s.type /\ s.start <= m.start /\ m.end <= s.end

(* An entity that is whole in a chunk and cut by none is reported exactly, *)
(* once; one that another chunk cuts is reported from its first byte.      *)
WholeIsReported ==
    nerStage = "done" =>
      \A e \in entities :
        (\E c \in ToSet(chunks) : Within(First(e), Final(e), c)) =>
          \E m \in ToSet(nerMatches) :
            /\ m.type = e.type
            /\ m.start = First(e)
            /\ m.end = Final(e) \/ \E c \in ToSet(chunks) : Cuts(c, First(e), Final(e))

(* What the model labelled is what the scan reports, neither cut, joined   *)
(* nor lost on the way through chunks, tags and the merge.                 *)
EntitiesAreReported == WordsStayWhole /\ DecodedAsLabelled /\ WholeIsReported

(* ner_scanner.rs:641: "Ensure we make forward progress even for           *)
(* degenerate inputs".                                                     *)
ChunksAdvance ==
    \A k \in 1..Len(chunks) - 1 : chunks[k][1] < chunks[k + 1][1]
=============================================================================

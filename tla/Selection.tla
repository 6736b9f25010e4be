----------------------------- MODULE Selection -----------------------------
(***************************************************************************)
(* The elements of a sequence that are in a set, in their order: SelectSeq *)
(* for the modules with proofs, as the provers cannot expand SelectSeq.    *)
(***************************************************************************)
EXTENDS Integers, Sequences

Those(s, S) ==
    LET pick[n \in 0..Len(s)] ==
          IF n = 0 THEN <<>>
          ELSE IF s[n] \in S THEN Append(pick[n - 1], s[n]) ELSE pick[n - 1]
    IN  pick[Len(s)]
=============================================================================

--------------------------- MODULE MCCrashJournal ---------------------------
(* CrashJournal for TLC: ids are interchangeable.                          *)
EXTENDS CrashJournal, TLC

Symmetry == Permutations(Ids)
=============================================================================

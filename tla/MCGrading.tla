----------------------------- MODULE MCGrading -----------------------------
(* Model of Grading for TLC: calls that record the same or another outcome  *)
(* for the same or another attempt, interleaved at every read and write.    *)
(* Attempts of the known resolution, and calls, are interchangeable.        *)
EXTENDS Grading, TLC

MCSymmetry == Permutations(Calls) \cup Permutations(Linked)
=============================================================================

---------------------------- MODULE MCAdvisorFlow ----------------------------
(* Model of AdvisorFlow for TLC: one question back, and two cases of product *)
(* support, so that a turn that fails can leave one of them behind.  The ids *)
(* are interchangeable, and no property here is about liveness.              *)
EXTENDS AdvisorFlow, TLC

Interchangeable == Permutations(CsCases)
=============================================================================

---------------------------- MODULE MCCaseSwitch -----------------------------
(* Model of CaseSwitch for TLC: two products, and cases enough for a customer *)
(* to go over to the other one and back and to leave a case behind in between. *)
EXTENDS CaseSwitch, TLC

Interchangeable == Permutations(Cases) \cup Permutations(Products)
=============================================================================

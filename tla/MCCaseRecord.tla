---------------------------- MODULE MCCaseRecord ----------------------------
(* Model of CaseRecord for TLC: four messages and one question back, enough *)
(* for a question, an escalation, its contact time and a turn after.        *)
EXTENDS CaseRecord
=============================================================================

-------------------------- MODULE MCCaseEvaluation --------------------------
(* Model of CaseEvaluation for TLC: a customer and an operator, three         *)
(* signals.  Two together ask for a human (mandatory), one of them alone gets *)
(* an advisory hearing, the third is a hazard and marks a prohibited domain;  *)
(* either of the first two has known resolutions, the second two of them.     *)
EXTENDS CaseEvaluation

CONSTANTS angry, broken, hazard

MCRules == {[condition |-> {angry, broken}, mandatory |-> TRUE, hearing |-> FALSE],
            [condition |-> {angry}, mandatory |-> FALSE, hearing |-> TRUE]}
MCDomains == {[signals |-> {hazard}, mandatory |-> FALSE]}
MCResolutions == {[signals |-> {angry}, rank |-> 1], [signals |-> {broken}, rank |-> 2],
                  [signals |-> {broken}, rank |-> 3]}
=============================================================================

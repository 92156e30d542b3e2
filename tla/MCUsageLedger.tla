---------------------------- MODULE MCUsageLedger ----------------------------
(* Instances of UsageLedger for TLC: every step costs 1. *)
EXTENDS UsageLedger, TLC

UnitSteps == [o \in Ops |-> 1]

TokenSymmetry == Permutations(Tokens)

==============================================================================

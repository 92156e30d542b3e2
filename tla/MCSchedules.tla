------------------------------ MODULE MCSchedules ------------------------------
(***************************************************************************)
(* Instances of Schedules for TLC: a few definitions that between them      *)
(* reach every branch.                                                      *)
(***************************************************************************)
EXTENDS Schedules

Def(kind, ends, expires, limit, retries, cap) ==
  [kind |-> kind, ends |-> ends, expires |-> expires, limit |-> limit, retries |-> retries,
   cap |-> cap]

SomePolicies == {Def("recurring", FALSE, TRUE, 1, 1, 1), Def("recurring", TRUE, FALSE, 0, 1, 0),
                 Def("once", FALSE, FALSE, 0, 0, 0), Def("event", FALSE, TRUE, 1, 0, 1)}
===============================================================================

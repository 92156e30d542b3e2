------------------------------ MODULE MCRelay ------------------------------
(* One pairing whose desktop registers once and comes back with what it was *)
(* given, and whose phone claims, registers and recovers.                   *)
EXTENDS Relay

Mintable == [r \in {"desktop", "mobile"} |-> IF r = "desktop" THEN 2 ELSE 3]
=============================================================================

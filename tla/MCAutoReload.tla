------------------------------ MODULE MCAutoReload ------------------------------
(***************************************************************************)
(* An instance of AutoReload for TLC: two processes, the sweep and the end  *)
(* of a turn, and as many attempts as overtake one another.                 *)
(***************************************************************************)
EXTENDS AutoReload
================================================================================

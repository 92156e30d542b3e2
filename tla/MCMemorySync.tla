---------------------------- MODULE MCMemorySync ----------------------------
(* Two phones of one user: the first creates both memories, and the second *)
(* has what the server gives it.                                            *)
EXTENDS MemorySync

CONSTANTS d1, d2, m1, m2

FirstAuthors == [m \in Memories |-> d1]
=============================================================================

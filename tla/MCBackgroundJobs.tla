--------------------------- MODULE MCBackgroundJobs ---------------------------
(***************************************************************************)
(* Instances of BackgroundJobs for TLC: one queue, with a policy small      *)
(* enough for its limits to be reached.                                     *)
(***************************************************************************)
EXTENDS BackgroundJobs, TLC

SameQueue   == [j \in Jobs |-> CHOOSE q \in Queues : TRUE]

OneAttempt  == [j \in Jobs |-> 1]
TwoAttempts == [j \in Jobs |-> 2]
OneSlot     == [q \in Queues |-> 1]

WorkerSymmetry == Permutations(Workers)

=============================================================================

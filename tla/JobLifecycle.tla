----------------------------- MODULE JobLifecycle -----------------------------
(***************************************************************************)
(* What the job queue of apps/web/lib/jobs promises to those who use it,   *)
(* with no worker, lease, statement or clock: a job waits, is tried a      *)
(* bounded number of times, at most Slots of a queue at once, and ends for *)
(* good.  BackgroundJobs is shown to implement it.                         *)
(***************************************************************************)
EXTENDS Naturals, FiniteSets

CONSTANTS
  Jobs,      \* the jobs
  Queues,    \* the queues
  QueueOf,   \* the queue of a job
  Tries,     \* how often a job may be tried
  Slots      \* per queue, how many jobs may be tried at once

VARIABLES
  phase,     \* phase[j]: where job j is
  tried      \* tried[j]: how often it was started since it was submitted or revived

jobVars == <<phase, tried>>

Ends == {"succeeded", "dead", "cancelled"}
JobPhases == {"none", "waiting", "working"} \cup Ends

JobTypeOK ==
  /\ phase \in [Jobs -> JobPhases]
  /\ tried \in [Jobs -> Nat]

JobInit ==
  /\ phase = [j \in Jobs |-> "none"]
  /\ tried = [j \in Jobs |-> 0]

Working(q) == {j \in Jobs : QueueOf[j] = q /\ phase[j] = "working"}

Becomes(S, p) == phase' = [j \in Jobs |-> IF j \in S THEN p ELSE phase[j]]

(* A new job, or a dead one revived, waits with its whole budget of tries. *)
Submit(j) ==
  /\ phase[j] \in {"none", "dead"}
  /\ Becomes({j}, "waiting")
  /\ tried' = [tried EXCEPT ![j] = 0]

(* Waiting jobs are started together, within the slots of their queues. *)
Start(S) ==
  /\ \A j \in S : phase[j] = "waiting"
  /\ Becomes(S, "working")
  /\ tried' = [j \in Jobs |-> IF j \in S THEN tried[j] + 1 ELSE tried[j]]
  /\ \A q \in Queues :
       (\E j \in S : QueueOf[j] = q) => Cardinality(Working(q)') <= Slots[q]

(* Jobs being tried are given back, which only a job with tries left can be. *)
GiveBack(S) ==
  /\ \A j \in S : phase[j] = "working" /\ tried[j] < Tries[j]
  /\ Becomes(S, "waiting")
  /\ UNCHANGED tried

(* Jobs being tried end: with success, for good after a failure, or cancelled. *)
Finish(S, end) ==
  /\ \A j \in S : phase[j] = "working"
  /\ Becomes(S, end)
  /\ UNCHANGED tried

(* A waiting job is withdrawn. *)
Withdraw(j) ==
  /\ phase[j] = "waiting"
  /\ Becomes({j}, "cancelled")
  /\ UNCHANGED tried

(* Jobs that ended are forgotten. *)
Forget(S) ==
  /\ \A j \in S : phase[j] \in Ends
  /\ Becomes(S, "none")
  /\ UNCHANGED tried

JobNext ==
  \/ \E j \in Jobs : Submit(j) \/ Withdraw(j)
  \/ \E S \in SUBSET Jobs : \/ Start(S)
                            \/ GiveBack(S)
                            \/ \E end \in Ends : Finish(S, end)
                            \/ Forget(S)

JobSpec == JobInit /\ [][JobNext]_jobVars

=============================================================================

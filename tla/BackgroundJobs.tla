---------------------------- MODULE BackgroundJobs ----------------------------
(***************************************************************************)
(* The durable background-job queue of apps/web/lib/jobs: the table        *)
(* public.background_jobs, the statements of job-service.ts and            *)
(* cancellation.ts that write it, the drain loop of job-drain.ts that runs *)
(* in every worker process, and the callers that enqueue, cancel and retry.*)
(*                                                                         *)
(* Every SQL statement is one action; an await between two statements is a *)
(* point where anything else may happen.  A handler is its outcome: what   *)
(* it does outside the database is not modelled.                           *)
(*                                                                         *)
(* Clocks are one flag per row.  elapsed says that the deadline the row    *)
(* carries in its present status has passed: run_after of a queued row,    *)
(* lease_expires_at of a running one, the retention window of a settled    *)
(* one.  A deadline may pass at any moment (a worker can be suspended, a   *)
(* statement can be slow), so nothing here relies on how long things take. *)
(***************************************************************************)
EXTENDS Naturals, FiniteSets

CONSTANTS
  Jobs,            \* (queue, idempotency_key) pairs: what the unique index ranges over
  Users,           \* subjects a job can be filed under
  Cancellers,      \* bound: the subjects among them that ask for cancellations
  Workers,         \* worker processes; a restarted process is another element
  Queues,          \* JOB_QUEUE_NAMES
  QueueOf,         \* the queue of a job
  MaxAttempts,     \* max_attempts of a job: its queue's policy, or what enqueueJob is given
  MaxConcurrency,  \* per queue, JobQueuePolicy.maxConcurrency
  MaxInFlight,     \* DrainBackgroundJobsOptions.maxInFlight
  NoWorker,        \* worker_id is null
  NoUser,          \* the owner of a row that does not exist
  MaxRows,         \* bound: rows ever inserted under one key
  MaxRetries,      \* bound: operator retries of one row
  MaxFaults        \* bound: crashes, failed statements and lost answers

ASSUME QueueAssumption == QueueOf \in [Jobs -> Queues]
ASSUME PolicyAssumption ==
  /\ MaxAttempts \in [Jobs -> Nat \ {0}]
  /\ MaxConcurrency \in [Queues -> Nat]
  /\ MaxInFlight \in Nat
ASSUME SentinelAssumption == NoWorker \notin Workers /\ NoUser \notin Users
ASSUME BoundAssumption ==
  /\ MaxRows \in Nat
  /\ MaxRetries \in Nat
  /\ MaxFaults \in Nat
  /\ Cancellers \subseteq Users
ASSUME FinitenessAssumption == IsFiniteSet(Jobs)

VARIABLES
  row,     \* row[j]: the row filed under key j, status "absent" when there is none
  execs,   \* executions: one runJob call each, in the memory of a worker
  drain,   \* drain[w]: where the drain loop of w is, and the queues its budget still allows
  enq,     \* enq[j]: the enqueueJob call for key j
  req,     \* req[j]: the requestJobCancellation call for key j
  faults   \* faults so far

vars == <<row, execs, drain, enq, req, faults>>

Settled == {"succeeded", "dead", "cancelled"}
Statuses == {"absent", "queued", "running"} \cup Settled
Phases == {"handler", "complete", "retryable", "permanent", "cancelled"}
DrainSteps == {"down", "idle", "reapSpent", "reapRequeue", "reapCancelled", "claim", "await",
               "pruneFinished", "pruneDead"}
EnqueueSteps == {"none", "lookup", "created", "existing", "conflict"}
CancelAnswers == {"none", "cancelled", "requested", "already-cancelled", "not-cancellable", "unknown"}
CancelSteps == CancelAnswers \cup {"askRunning", "readStatus"}

(* id numbers the rows inserted under the key and retried the operator retries of *)
(* this row: with attempts they tell every claim apart.  The code has no retried. *)
Row == [status: Statuses, attempts: Nat, elapsed: BOOLEAN, worker: Workers \cup {NoWorker},
        cancel: BOOLEAN, user: Users \cup {NoUser}, id: Nat, retried: Nat]
Execution == [worker: Workers, job: Jobs, id: Nat, retried: Nat, attempt: Nat, phase: Phases,
              tracked: BOOLEAN]

TypeOK ==
  /\ row \in [Jobs -> Row]
  /\ execs \subseteq Execution
  /\ drain \in [Workers -> [step: DrainSteps, budget: SUBSET Queues]]
  /\ enq \in [Jobs -> [step: EnqueueSteps, user: Users \cup {NoUser}]]
  /\ req \in [Jobs -> [step: CancelSteps, id: Nat, user: Users \cup {NoUser}]]
  /\ faults \in 0..MaxFaults

Init ==
  /\ row = [j \in Jobs |-> [status |-> "absent", attempts |-> 0, elapsed |-> FALSE,
                            worker |-> NoWorker, cancel |-> FALSE, user |-> NoUser,
                            id |-> 0, retried |-> 0]]
  /\ execs = {}
  /\ drain = [w \in Workers |-> [step |-> "idle", budget |-> {}]]
  /\ enq = [j \in Jobs |-> [step |-> "none", user |-> NoUser]]
  /\ req = [j \in Jobs |-> [step |-> "none", id |-> 0, user |-> NoUser]]
  /\ faults = 0

-------------------------------------------------------------------------------
(* The clock and the faults.                                                 *)

(* The deadline of a row passes. *)
TimePasses(j) ==
  /\ row[j].status # "absent"
  /\ ~row[j].elapsed
  /\ row' = [row EXCEPT ![j].elapsed = TRUE]
  /\ UNCHANGED <<execs, drain, enq, req, faults>>

Fault == faults < MaxFaults /\ faults' = faults + 1

(* The process dies: its executions and its drain are gone, its rows stay.  *)
Crash(w) ==
  /\ drain[w].step # "down"
  /\ Fault
  /\ execs' = {e \in execs : e.worker # w}
  /\ drain' = [drain EXCEPT ![w] = [step |-> "down", budget |-> {}]]
  /\ UNCHANGED <<row, enq, req>>

-------------------------------------------------------------------------------
(* enqueueJob: insert ... on conflict do nothing, then look the first row up. *)

EnqueueInsert(j, u, due) ==
  /\ enq[j].step # "lookup"
  /\ IF row[j].status = "absent"
       THEN /\ row[j].id < MaxRows
            /\ row' = [row EXCEPT ![j] = [status |-> "queued", attempts |-> 0, elapsed |-> due,
                                          worker |-> NoWorker, cancel |-> FALSE, user |-> u,
                                          id |-> row[j].id + 1, retried |-> 0]]
            /\ enq' = [enq EXCEPT ![j] = [step |-> "created", user |-> u]]
       ELSE /\ enq' = [enq EXCEPT ![j] = [step |-> "lookup", user |-> u]]
            /\ row' = row
  /\ UNCHANGED <<execs, drain, req, faults>>

(* The select is filtered on the subject; no row is the conflict error. *)
EnqueueLookup(j) ==
  /\ enq[j].step = "lookup"
  /\ enq' = [enq EXCEPT ![j].step =
               IF row[j].status # "absent" /\ row[j].user = enq[j].user
               THEN "existing" ELSE "conflict"]
  /\ UNCHANGED <<row, execs, drain, req, faults>>

-------------------------------------------------------------------------------
(* requestJobCancellation: three statements, each filtered on job id and user. *)

(* A slip: the row is found by its key, so a later job under it is hit. *)
AddressedByKey(j) == row[j].status # "absent" /\ row[j].user = req[j].user

Addressed(j) ==
  /\ row[j].status # "absent"
  /\ row[j].id = req[j].id
  /\ row[j].user = req[j].user

(* update ... where status = 'queued': the row is cancelled outright. *)
CancelQueued(j, u) ==
  /\ req[j].step \in CancelAnswers
  /\ row[j].id > 0
  /\ LET hit == row[j].status = "queued" /\ row[j].user = u
     IN  /\ row' = IF hit THEN [row EXCEPT ![j].status = "cancelled", ![j].cancel = TRUE,
                                           ![j].worker = NoWorker, ![j].elapsed = FALSE]
                          ELSE row
         /\ req' = [req EXCEPT ![j] = [step |-> IF hit THEN "cancelled" ELSE "askRunning",
                                       id |-> row[j].id, user |-> u]]
  /\ UNCHANGED <<execs, drain, enq, faults>>

(* update ... where status = 'running': the request is recorded, the lease stays. *)
CancelRunning(j) ==
  /\ req[j].step = "askRunning"
  /\ LET hit == Addressed(j) /\ row[j].status = "running"
     IN  /\ row' = IF hit THEN [row EXCEPT ![j].cancel = TRUE] ELSE row
         /\ req' = [req EXCEPT ![j].step = IF hit THEN "requested" ELSE "readStatus"]
  /\ UNCHANGED <<execs, drain, enq, faults>>

CancelRead(j) ==
  /\ req[j].step = "readStatus"
  /\ req' = [req EXCEPT ![j].step = IF ~Addressed(j) THEN "unknown"
                                    ELSE IF row[j].status = "cancelled" THEN "already-cancelled"
                                    ELSE "not-cancellable"]
  /\ UNCHANGED <<row, execs, drain, enq, faults>>

(* retryDeadJob, from the admin console.  cancel_requested_at is left as it is. *)
RetryDead(j) ==
  /\ row[j].status = "dead"
  /\ row[j].retried < MaxRetries
  /\ row' = [row EXCEPT ![j].status = "queued", ![j].attempts = 0, ![j].elapsed = TRUE,
                        ![j].worker = NoWorker, ![j].retried = @ + 1]
  /\ UNCHANGED <<execs, drain, enq, req, faults>>

-------------------------------------------------------------------------------
(* runJob: the handler, the cancellation watch, and the settling statement.  *)

(* Slips in the fence: the status dropped, only the status kept, and the      *)
(* fence of 0208, before migration 0249 added the worker, without the status. *)
FencedWhateverStatus(e) ==
  /\ row[e.job].id = e.id
  /\ row[e.job].attempts = e.attempt
  /\ row[e.job].worker = e.worker
FencedByStatusAlone(e) ==
  /\ row[e.job].status = "running"
  /\ row[e.job].id = e.id
FencedByAttemptAlone(e) ==
  /\ row[e.job].id = e.id
  /\ row[e.job].attempts = e.attempt

(* The where clause every settling statement shares. *)
Fenced(e) ==
  /\ row[e.job].status = "running"
  /\ row[e.job].id = e.id
  /\ row[e.job].attempts = e.attempt
  /\ row[e.job].worker = e.worker

(* A slip: one attempt too many. *)
ExhaustedLate(e) == e.attempt > MaxAttempts[e.job]

Exhausted(e) == e.attempt >= MaxAttempts[e.job]

(* The handler returns, throws (the time budget aborts it with an ordinary   *)
(* error too), or throws PermanentJobError (so does an unregistered kind).   *)
HandlerEnds(e, outcome) ==
  /\ e.phase = "handler"
  /\ outcome \in {"complete", "retryable", "permanent"}
  /\ execs' = (execs \ {e}) \cup {[e EXCEPT !.phase = outcome]}
  /\ UNCHANGED <<row, drain, enq, req, faults>>

(* watchJobCancellation: a poll that finds the request aborts the handler.   *)
(* It reads the row by id only, so any execution of the row can see it.      *)
PollCancellation(e) ==
  /\ e.phase = "handler"
  /\ row[e.job].status # "absent"
  /\ row[e.job].id = e.id
  /\ row[e.job].cancel \/ row[e.job].status = "cancelled"
  /\ execs' = (execs \ {e}) \cup {[e EXCEPT !.phase = "cancelled"]}
  /\ UNCHANGED <<row, drain, enq, req, faults>>

(* A slip: a retry clears the cancellation request along with the lease. *)
SettledRowForgetful(e) ==
  [row[e.job] EXCEPT !.status = IF e.phase = "complete" THEN "succeeded"
                                ELSE IF e.phase = "cancelled" THEN "cancelled"
                                ELSE IF Exhausted(e) THEN "dead" ELSE "queued",
                     !.elapsed = FALSE, !.cancel = FALSE, !.worker = NoWorker]

(* What completeJob, failJob or acknowledgeJobCancellation writes. *)
SettledRow(e) ==
  LET r == row[e.job] IN
  CASE e.phase = "complete"  -> [r EXCEPT !.status = "succeeded", !.elapsed = FALSE]
    [] e.phase = "cancelled" -> [r EXCEPT !.status = "cancelled", !.elapsed = FALSE,
                                          !.cancel = TRUE]
    [] e.phase = "permanent" \/ (e.phase = "retryable" /\ Exhausted(e))
                             -> [r EXCEPT !.status = "dead", !.elapsed = FALSE]
    [] OTHER                 -> [r EXCEPT !.status = "queued", !.elapsed = FALSE,
                                          !.worker = NoWorker]

(* A slip: nothing wakes the drain. *)
WokenNever(e) == drain

(* A finished execution leaves inFlight, and Promise.race wakes its drain. *)
Woken(e) ==
  IF e.tracked /\ drain[e.worker].step = "await"
  THEN [drain EXCEPT ![e.worker].step = "claim"] ELSE drain

(* The settling statement runs: it writes the row if the fence matches and   *)
(* is stale otherwise.  The statement may also fail, before or after it took *)
(* effect: a completeJob that throws is caught and becomes a failJob, the    *)
(* other two end the execution with the outcome unrecorded.                  *)
Settle(e, committed, answered) ==
  /\ e.phase # "handler"
  /\ answered => committed
  /\ row' = IF committed /\ Fenced(e) THEN [row EXCEPT ![e.job] = SettledRow(e)] ELSE row
  /\ IF ~answered /\ e.phase = "complete"
       THEN /\ execs' = (execs \ {e}) \cup {[e EXCEPT !.phase = "retryable"]}
            /\ drain' = drain
       ELSE /\ execs' = execs \ {e}
            /\ drain' = Woken(e)
  /\ IF answered THEN faults' = faults ELSE Fault
  /\ UNCHANGED <<enq, req>>

-------------------------------------------------------------------------------
(* drainBackgroundJobs, statement by statement.                              *)

Goto(w, step) == drain' = [drain EXCEPT ![w].step = step]

(* The cron starts a drain; every queue's lease fits the whole budget. *)
StartDrain(w) ==
  /\ drain[w].step = "idle"
  /\ drain' = [drain EXCEPT ![w] = [step |-> "reapSpent", budget |-> Queues]]
  /\ UNCHANGED <<row, execs, enq, req, faults>>

Lapsed(j) == row[j].status = "running" /\ row[j].elapsed

(* A slip: the reapers leave a gap between them at the last attempt. *)
SpentLate(j) == row[j].attempts > MaxAttempts[j]

Spent(j) == row[j].attempts >= MaxAttempts[j]

(* reapExpiredJobLeases, first statement: the final attempt's lease lapsed. *)
ReapSpent(w) ==
  /\ drain[w].step = "reapSpent"
  /\ row' = [j \in Jobs |->
               IF Lapsed(j) /\ Spent(j)
               THEN [row[j] EXCEPT !.status = "dead", !.worker = NoWorker, !.elapsed = FALSE]
               ELSE row[j]]
  /\ Goto(w, "reapRequeue")
  /\ UNCHANGED <<execs, enq, req, faults>>

(* reapExpiredJobLeases, second statement: attempts are left, back to the queue. *)
ReapRequeue(w) ==
  /\ drain[w].step = "reapRequeue"
  /\ row' = [j \in Jobs |->
               IF Lapsed(j) /\ row[j].attempts < MaxAttempts[j]
               THEN [row[j] EXCEPT !.status = "queued", !.worker = NoWorker, !.elapsed = FALSE]
               ELSE row[j]]
  /\ Goto(w, "reapCancelled")
  /\ UNCHANGED <<execs, enq, req, faults>>

(* reapAbandonedCancellations, which the drain calls after the reaper. *)
ReapCancelled(w) ==
  /\ drain[w].step = "reapCancelled"
  /\ row' = [j \in Jobs |->
               IF Lapsed(j) /\ row[j].cancel
               THEN [row[j] EXCEPT !.status = "cancelled", !.worker = NoWorker, !.elapsed = FALSE]
               ELSE row[j]]
  /\ Goto(w, "claim")
  /\ UNCHANGED <<execs, enq, req, faults>>

Tracked(w) == {e \in execs : e.worker = w /\ e.tracked}
Running(q) == {j \in Jobs : QueueOf[j] = q /\ row[j].status = "running"}
Claimable(w) ==
  {j \in Jobs : row[j].status = "queued" /\ row[j].elapsed /\ QueueOf[j] \in drain[w].budget}
InQueue(S, q) == {j \in S : QueueOf[j] = q}

(* Taking S leaves every queue within its concurrency, by the count the      *)
(* statement makes of the running rows; a queue already full gives nothing.  *)
FitsSlots(S) ==
  \A q \in Queues : \/ InQueue(S, q) = {}
                    \/ Cardinality(Running(q)) + Cardinality(InQueue(S, q)) <= MaxConcurrency[q]

(* What claimJobs can return: as many due rows as the slots and the limit    *)
(* allow.  JobClaim models which rows the ranking prefers.                   *)
Selections(w) ==
  LET limit == MaxInFlight - Cardinality(Tracked(w))
      fitting == {S \in SUBSET Claimable(w) : Cardinality(S) <= limit /\ FitsSlots(S)}
  IN  {S \in fitting : \A j \in Claimable(w) \ S : S \cup {j} \notin fitting}

MayClaim(w) == drain[w].budget # {} /\ Cardinality(Tracked(w)) < MaxInFlight

Claimed(j, w) ==
  [row[j] EXCEPT !.status = "running", !.attempts = @ + 1, !.worker = w, !.elapsed = FALSE]

NewExecution(j, w) ==
  [worker |-> w, job |-> j, id |-> row[j].id, retried |-> row[j].retried,
   attempt |-> row[j].attempts + 1, phase |-> "handler", tracked |-> TRUE]

AfterClaim(w, fresh) ==
  Goto(w, IF Tracked(w) \cup fresh = {} THEN "pruneFinished" ELSE "await")

(* claimJobs: one transaction under the advisory lock, then track every job. *)
Claim(w) ==
  /\ drain[w].step = "claim"
  /\ MayClaim(w)
  /\ \E S \in Selections(w) :
       LET fresh == {NewExecution(j, w) : j \in S} IN
       /\ row' = [j \in Jobs |-> IF j \in S THEN Claimed(j, w) ELSE row[j]]
       /\ execs' = execs \cup fresh
       /\ AfterClaim(w, fresh)
  /\ UNCHANGED <<enq, req, faults>>

(* No budget for any queue, or maxInFlight jobs in flight: no claim this turn. *)
SkipClaim(w) ==
  /\ drain[w].step = "claim"
  /\ ~MayClaim(w)
  /\ AfterClaim(w, {})
  /\ UNCHANGED <<row, execs, enq, req, faults>>

(* The remaining budget drops below a queue's lease. *)
BudgetShrinks(w, q) ==
  /\ drain[w].step \in {"claim", "await"}
  /\ q \in drain[w].budget
  /\ drain' = [drain EXCEPT ![w].budget = @ \ {q}]
  /\ UNCHANGED <<row, execs, enq, req, faults>>

Prune(statuses) ==
  \E S \in SUBSET {j \in Jobs : row[j].status \in statuses /\ row[j].elapsed} :
    row' = [j \in Jobs |->
              IF j \in S THEN [row[j] EXCEPT !.status = "absent", !.elapsed = FALSE] ELSE row[j]]

(* pruneFinishedJobs: settled rows past their retention, a bounded batch of them. *)
PruneFinished(w) ==
  /\ drain[w].step = "pruneFinished"
  /\ Prune({"succeeded", "cancelled"})
  /\ Goto(w, "pruneDead")
  /\ UNCHANGED <<execs, enq, req, faults>>

PruneDead(w) ==
  /\ drain[w].step = "pruneDead"
  /\ Prune({"dead"})
  /\ Goto(w, "idle")
  /\ UNCHANGED <<execs, enq, req, faults>>

(* A statement of the drain throws: drainBackgroundJobs rejects.  Executions *)
(* already started run on, but no later drain counts them as its own.        *)
Abandoned(w) == {IF e.worker = w THEN [e EXCEPT !.tracked = FALSE] ELSE e : e \in execs}

DrainFails(w) ==
  /\ drain[w].step \notin {"down", "idle", "await"}
  /\ Fault
  /\ execs' = Abandoned(w)
  /\ Goto(w, "idle")
  /\ UNCHANGED <<row, enq, req>>

(* claimJobs commits but its answer is lost: the rows are running, nobody runs them. *)
ClaimAnswerLost(w) ==
  /\ drain[w].step = "claim"
  /\ MayClaim(w)
  /\ Fault
  /\ \E S \in Selections(w) \ {{}} :
       row' = [j \in Jobs |-> IF j \in S THEN Claimed(j, w) ELSE row[j]]
  /\ execs' = Abandoned(w)
  /\ Goto(w, "idle")
  /\ UNCHANGED <<enq, req>>

-------------------------------------------------------------------------------

Caller(j) ==
  \/ \E u \in Users, due \in BOOLEAN : EnqueueInsert(j, u, due)
  \/ EnqueueLookup(j)
  \/ \E u \in Cancellers : CancelQueued(j, u)
  \/ CancelRunning(j)
  \/ CancelRead(j)
  \/ RetryDead(j)

Executes(e) ==
  \/ \E outcome \in Phases : HandlerEnds(e, outcome)
  \/ PollCancellation(e)
  \/ \E committed, answered \in BOOLEAN : Settle(e, committed, answered)

Drain(w) ==
  \/ StartDrain(w)
  \/ ReapSpent(w)
  \/ ReapRequeue(w)
  \/ ReapCancelled(w)
  \/ Claim(w)
  \/ SkipClaim(w)
  \/ PruneFinished(w)
  \/ PruneDead(w)

Next ==
  \/ \E j \in Jobs : TimePasses(j) \/ Caller(j)
  \/ \E e \in execs : Executes(e)
  \/ \E w \in Workers : \/ Drain(w) \/ DrainFails(w) \/ ClaimAnswerLost(w) \/ Crash(w)
                        \/ \E q \in Queues : BudgetShrinks(w, q)

Spec == Init /\ [][Next]_vars

(* Time moves; a handler ends (its timer sees to it) and its settling        *)
(* statement runs; the cron keeps starting drains and a running drain takes  *)
(* its next step; and the first claim of a drain finds its whole budget left *)
(* often enough (SF), because the longest lease is ten seconds short of it.  *)
(* Callers, operators, the clock of the budget and the faults owe nothing.   *)
Fairness ==
  /\ \A j \in Jobs : WF_vars(TimePasses(j))
  /\ WF_vars(\E e \in execs : Executes(e))
  /\ \A w \in Workers : WF_vars(Drain(w))
  /\ SF_vars(\E w \in Workers : Claim(w) /\ row' # row)

FairSpec == Spec /\ Fairness

-------------------------------------------------------------------------------
(* Properties.                                                               *)

(* However claims, reapers and late settlements of several workers interleave, *)
(* no queue runs more jobs than JobQueuePolicy.maxConcurrency allows.          *)
ConcurrencyLimit == \A q \in Queues : Cardinality(Running(q)) <= MaxConcurrency[q]

(* claimJobs increments attempts without looking at max_attempts: it relies on *)
(* every statement that queues a row leaving it at least one attempt, and on   *)
(* every running row being within its budget.                                  *)
AttemptsWithinBudget ==
  \A j \in Jobs :
    /\ row[j].status = "queued" => row[j].attempts < MaxAttempts[j]
    /\ row[j].status = "running" => row[j].attempts \in 1..MaxAttempts[j]

(* Between two operator retries at most one execution of a job passes the      *)
(* fence of the settling statements, whoever still runs an earlier claim.      *)
SoleHolder ==
  \A e, f \in execs :
    e.job = f.job /\ e.retried = f.retried /\ Fenced(e) /\ Fenced(f) => e = f

(* Why: no execution is ahead of the row it was claimed from, in rows inserted  *)
(* under the key, operator retries of the row and attempts since the last of    *)
(* them, and no two executions come from the same claim.                        *)
Ordered(e) ==
  /\ e.id <= row[e.job].id
  /\ e.id = row[e.job].id => e.retried <= row[e.job].retried
  /\ e.id = row[e.job].id /\ e.retried = row[e.job].retried => e.attempt <= row[e.job].attempts

SameClaim(e, f) ==
  e.job = f.job /\ e.id = f.id /\ e.retried = f.retried /\ e.attempt = f.attempt

ClaimsTellApart ==
  /\ \A e \in execs : Ordered(e)
  /\ \A e, f \in execs : SameClaim(e, f) => e = f

(* A caller told "cancelled" or "already-cancelled" is never contradicted: no  *)
(* worker, reaper or retry that was under way brings that job back.            *)
CancelledStaysCancelled ==
  \A j \in Jobs :
    req[j].step \in {"cancelled", "already-cancelled"} /\ row[j].id = req[j].id
      => row[j].status \in {"cancelled", "absent"}

(* A caller told "requested" has its request on the row for as long as the row *)
(* exists, through lapsed leases, retries and a retry by the operator, so that *)
(* the next worker to run the job can still see it.                            *)
RequestSurvives ==
  \A j \in Jobs :
    req[j].step = "requested" /\ row[j].id = req[j].id /\ row[j].status # "absent"
      => row[j].cancel

(* A request for one job never lands on another: when a row is marked or       *)
(* cancelled, it is the row, and of the subject, that the call was made for,   *)
(* even when that row was pruned and its key used again between its statements.*)
OnlyTheNamedJobIsCancelled ==
  [][\A j \in Jobs : ~row[j].cancel /\ row'[j].cancel =>
       /\ req'[j].step \in {"cancelled", "requested"}
       /\ req'[j].id = row[j].id /\ req'[j].user = row[j].user]_vars

(* A settled job is never reopened or given another outcome by a late worker,  *)
(* a repeated statement or a reaper; only the operator reopens a dead one.     *)
SettledIsFinal ==
  [][\A j \in Jobs : row[j].status \in Settled =>
       \/ row'[j].status \in {row[j].status, "absent"}
       \/ row[j].status = "dead" /\ row'[j].status = "queued" /\ RetryDead(j)]_vars

(* Every job that is queued or running reaches an outcome, whatever crashes,   *)
(* lost answers and failing statements happen, while a worker process is left. *)
EveryJobSettles ==
  \A j \in Jobs : (row[j].status \in {"queued", "running"})
                     ~> (row[j].status \in Settled \cup {"absent"})

(* A drain never hangs: the loop that waits on its own executions is always    *)
(* woken, and it stops when it has nothing to wait for.                        *)
EveryDrainEnds ==
  \A w \in Workers : (drain[w].step = "reapSpent") ~> (drain[w].step \in {"idle", "down"})

(* What the queue promises, read off the rows.                               *)
Phase(status) ==
  CASE status = "absent" -> "none" [] status = "queued" -> "waiting"
    [] status = "running" -> "working" [] OTHER -> status

Lifecycle == INSTANCE JobLifecycle
  WITH Tries <- MaxAttempts, Slots <- MaxConcurrency,
       phase <- [j \in Jobs |-> Phase(row[j].status)],
       tried <- [j \in Jobs |-> row[j].attempts]

(* Every statement of every worker and caller is, to the users of the queue,   *)
(* one step of the abstract lifecycle or none: no interleaving of late         *)
(* workers, reapers, retries and cancellations shows them anything else.       *)
ImplementsLifecycle == Lifecycle!JobSpec

-------------------------------------------------------------------------------
(* What the comments of the code say and these statements do not do.         *)

(* cancellation.ts, reapAbandonedCancellations: a cancellation whose worker    *)
(* died holding the lease is finished by the reaper, so a running row with a   *)
(* request and nobody left to settle it has no next status but cancelled.      *)
AbandonedCancellationIsFinished ==
  [][\A j \in Jobs :
       /\ row[j].status = "running" /\ row[j].cancel
       /\ \A e \in execs : e.job = j => ~Fenced(e)
       => row'[j].status \in {"running", "cancelled"}]_vars

(* cancellation.ts, requestJobCancellation: a queued job is cancelled outright *)
(* and a running one is asked, so "not-cancellable" is said of a settled job.  *)
NotCancellableMeansSettled ==
  [][\A j \in Jobs : req[j].step = "readStatus" /\ req'[j].step = "not-cancellable"
                        => row[j].status \in Settled]_vars

(* job-service.ts, SettlingJob: a worker whose lease was reaped and re-claimed *)
(* matches no row, so what passes the fence belongs to the present attempt.    *)
FenceNamesOneAttempt == \A e \in execs : Fenced(e) => e.retried = row[e.job].retried

(* job-service.ts, enqueueJob: the conflict error is about a job owned by      *)
(* another subject, so there is such a job when it is thrown.                  *)
ConflictHasAnOwner ==
  [][\A j \in Jobs : enq[j].step = "lookup" /\ enq'[j].step = "conflict"
                        => row[j].status # "absent" /\ row[j].user # enq[j].user]_vars

=============================================================================

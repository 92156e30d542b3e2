------------------------------- MODULE Schedules -------------------------------
(***************************************************************************)
(* One scheduled task and its runs (lib/services/schedule-service.ts).     *)
(*                                                                         *)
(* The sweep of the cron claims an occurrence that is due, and a manual     *)
(* call or an event starts a run beside it.  The process that claimed a    *)
(* run holds it by a lease, checks the credit cap and the condition, works *)
(* and records the outcome, which decides when the task is due again.  A   *)
(* run may stop for its owner's approval and go on in another process.     *)
(* Meanwhile the owner switches the task, edits it or deletes it.          *)
(*                                                                         *)
(* A time that the code compares with now is later or due, live or lapsed; *)
(* an occurrence is named by the first run that was made for it.           *)
(***************************************************************************)
EXTENDS Integers, FiniteSets

CONSTANTS
  Policies,      \* what createSchedule may be called with
  MaxRuns,       \* bound: rows of scheduled_task_runs
  MaxSpent,      \* bound: what all of them are charged
  MaxFaults      \* bound: crashes, failing statements and leases that lapse under a live worker

(* "recurring" is a cron expression, an interval or a recurrence rule, which may end; a limit *)
(* (max_executions) or a cap (credit_cap_microusd) of 0 is none; expires: expires_at is set.  *)
Policy == [kind: {"once", "recurring", "event"}, ends: BOOLEAN, expires: BOOLEAN,
           limit: Nat, retries: Nat, cap: Nat]

Bounded(p) == p.kind = "once" \/ (p.kind = "recurring" /\ p.ends)

ASSUME PolicyAssumption == Policies \subseteq Policy
ASSUME BoundAssumption == MaxRuns \in Nat \ {0} /\ MaxSpent \in Nat /\ MaxFaults \in Nat

VARIABLES
  policy,    \* the definition of the task
  task,      \* the row of scheduled_tasks
  run,       \* run[i]: a row of scheduled_task_runs
  exec,      \* exec[i]: the process that executes run i
  found,     \* the runs that sweeps have read as expired and are about to end
  spent,     \* what the completed requests of the task were charged
  lapsed,    \* expires_at has passed
  over,      \* the timing has no occurrence after now
  intent,    \* history: whether the owner last switched the task on or off
  returned,  \* history: the runs that gave their execution slot back
  faults

vars == <<policy, task, run, exec, found, spent, lapsed, over, intent, returned, faults>>

Runs == 1..MaxRuns
Ended == {"completed", "expired", "deleted"}
Outcomes == {"success", "failed", "timeout", "cancelled"}

Task == [status: {"active", "paused"} \cup Ended, next: {"none", "later", "due"},
         count: Nat, retry: 0..policy.retries, retryFor: 0..MaxRuns,
         reason: {"none", "approval", "cap"}]
Run == [status: {"none", "running", "awaiting", "gone"} \cup Outcomes,
        source: {"schedule", "manual", "webhook"}, occ: 0..MaxRuns,
        attempt: 0..(policy.retries + 1), lease: {"none", "live", "lapsed"},
        asked: {"none", "open", "lapsed"}]
Exec == [phase: {"idle", "claimed", "capped", "working", "ending"}, resumed: BOOLEAN,
         outcome: Outcomes \cup {"none"}]

NoRun == [status |-> "none", source |-> "manual", occ |-> 0, attempt |-> 0, lease |-> "none",
          asked |-> "none"]
Idle == [phase |-> "idle", resumed |-> FALSE, outcome |-> "none"]

(* createSchedule *)
Init ==
  /\ policy \in Policies
  /\ task = [status |-> "active", next |-> IF policy.kind = "event" THEN "none" ELSE "later",
             count |-> 0, retry |-> 0, retryFor |-> 0, reason |-> "none"]
  /\ run = [i \in Runs |-> NoRun]
  /\ exec = [i \in Runs |-> Idle]
  /\ found = {} /\ spent = 0 /\ lapsed = FALSE /\ over = FALSE
  /\ intent = "on" /\ returned = {} /\ faults = 0

-------------------------------------------------------------------------------

Exhausted == policy.limit > 0 /\ task.count >= policy.limit
CapReached == policy.cap > 0 /\ spent >= policy.cap
Fresh(i) == run[i].status = "none" /\ \A j \in 1..(i - 1) : run[j].status # "none"
Fault == faults < MaxFaults /\ faults' = faults + 1

Phase(i, phase) == exec' = [exec EXCEPT ![i].phase = phase]
Ends(i, outcome) == exec' = [exec EXCEPT ![i].phase = "ending", ![i].outcome = outcome]
Leaves(i) == exec' = [exec EXCEPT ![i] = Idle]

NewRun(source, occ, attempt) ==
  [status |-> "running", source |-> source, occ |-> occ, attempt |-> attempt, lease |-> "live",
   asked |-> "none"]
Claimed(resumed) == [phase |-> "claimed", resumed |-> resumed, outcome |-> "none"]

-------------------------------------------------------------------------------
(* claimDueScheduleRuns: one statement. *)

ExpireTask ==
  /\ task.status = "active" /\ lapsed
  /\ task' = [task EXCEPT !.status = "expired", !.next = "none"]
  /\ UNCHANGED <<policy, run, exec, found, spent, lapsed, over, intent, returned, faults>>

(* The idempotency key of a run names the occurrence and the retry. *)
KeyTaken(occ, attempt) ==
  \E j \in Runs : run[j].source = "schedule" /\ run[j].occ = occ /\ run[j].attempt = attempt

(* A retry is of the occurrence that failed, and is not counted again. *)
Counted == IF task.retry = 0 THEN task.count + 1 ELSE task.count

ClaimDue(i) ==
  LET occ == IF task.retry = 0 THEN i ELSE task.retryFor
      new == ~KeyTaken(occ, task.retry + 1) IN
  /\ Fresh(i)
  /\ task.status = "active" /\ task.next = "due" /\ ~lapsed
  /\ ~Exhausted \/ task.retry > 0
  /\ task' = [task EXCEPT !.next = "none", !.count = Counted]
  /\ run' = IF new THEN [run EXCEPT ![i] = NewRun("schedule", occ, task.retry + 1)] ELSE run
  /\ exec' = IF new THEN [exec EXCEPT ![i] = Claimed(FALSE)] ELSE exec
  /\ UNCHANGED <<policy, found, spent, lapsed, over, intent, returned, faults>>

(* createOnDemandScheduleRun *)
StartOnDemand(i, source) ==
  /\ Fresh(i)
  /\ source = "manual" \/ policy.kind = "event"
  /\ task.status = "active" /\ ~lapsed /\ ~Exhausted /\ ~CapReached
  /\ run' = [run EXCEPT ![i] = NewRun(source, i, 1)]
  /\ exec' = [exec EXCEPT ![i] = Claimed(FALSE)]
  /\ task' = [task EXCEPT !.count = task.count + 1]
  /\ UNCHANGED <<policy, found, spent, lapsed, over, intent, returned, faults>>

-------------------------------------------------------------------------------
(* finalizeScheduleRun *)

(* What getNextExecutionAt may answer: a time, one beyond expires_at, or none. *)
Upcoming == IF over THEN {"none"} ELSE {"later"} \cup (IF policy.expires THEN {"beyond"} ELSE {})

Retryable(i, outcome) ==
  /\ ~CapReached /\ run[i].source = "schedule" /\ outcome \in {"failed", "timeout"}
  /\ run[i].attempt - 1 < policy.retries /\ ~lapsed

(* The status and the next time that follow an occurrence of the timing. *)
AfterOccurrence(upcoming) ==
  IF policy.kind = "once" \/ upcoming = "none" THEN <<"completed", "none">>
  ELSE IF upcoming = "beyond" THEN <<"expired", "none">> ELSE <<"active", "later">>

(* A slip: an on-demand run clears the next occurrence as a scheduled one does. *)
DecisionForgetful(i, outcome, upcoming) ==
  IF Retryable(i, outcome) THEN <<"active", "later">>
  ELSE IF Exhausted THEN <<"completed", "none">>
  ELSE IF lapsed THEN <<"expired", "none">>
  ELSE IF run[i].source = "schedule" THEN AfterOccurrence(upcoming)
  ELSE <<"active", "none">>

(* The status and the next time of an active task of which a run ends. *)
Decision(i, outcome, upcoming) ==
  IF Retryable(i, outcome) THEN <<"active", "later">>
  ELSE IF Exhausted THEN <<"completed", "none">>
  ELSE IF lapsed THEN <<"expired", "none">>
  ELSE IF run[i].source = "schedule" THEN AfterOccurrence(upcoming)
  ELSE <<"active", task.next>>

Retried(i, outcome) ==
  IF run[i].source # "schedule" THEN <<task.retry, task.retryFor>>
  ELSE IF Retryable(i, outcome) THEN <<run[i].attempt, run[i].occ>> ELSE <<0, 0>>

(* The row of the task when a run of it ends: only an active task moves. *)
Concluded(i, outcome, upcoming) ==
  LET decided == Decision(i, outcome, upcoming)
      capped == CapReached /\ decided[1] = "active"
      kept == [task EXCEPT !.next = "none", !.retry = Retried(i, outcome)[1],
                           !.retryFor = Retried(i, outcome)[2]] IN
  IF task.status # "active" THEN kept
  ELSE IF capped THEN [kept EXCEPT !.status = "paused", !.reason = "cap"]
  ELSE [kept EXCEPT !.status = decided[1], !.next = decided[2]]

(* A slip: whoever comes last decides. *)
RecordOver(i, outcome) ==
  IF run[i].status \in {"none", "gone"} THEN UNCHANGED <<run, task>>
  ELSE /\ run' = [run EXCEPT ![i].status = outcome, ![i].lease = "none"]
       /\ \E upcoming \in Upcoming : task' = Concluded(i, outcome, upcoming)

(* A run ends once; the row of one that has ended is only read. *)
Record(i, outcome) ==
  IF run[i].status # "running" THEN UNCHANGED <<run, task>>
  ELSE /\ run' = [run EXCEPT ![i].status = outcome, ![i].lease = "none"]
       /\ \E upcoming \in Upcoming : task' = Concluded(i, outcome, upcoming)

-------------------------------------------------------------------------------
(* runClaimedSchedule: the process that holds a run. *)

Spends(i) == run[i].source = "schedule" /\ run[i].attempt = 1

(* A slip: a retry gives back a slot it was never charged. *)
ReleaseAlways(i) ==
  IF run[i].source = "schedule" /\ task.status # "deleted"
  THEN /\ task' = [task EXCEPT !.count = IF task.count > 0 THEN task.count - 1 ELSE 0]
       /\ returned' = returned \cup {i}
  ELSE UNCHANGED <<task, returned>>

(* releaseExecutionSlot *)
Release(i) ==
  IF Spends(i) /\ task.status # "deleted"
  THEN /\ task' = [task EXCEPT !.count = IF task.count > 0 THEN task.count - 1 ELSE 0]
       /\ returned' = returned \cup {i}
  ELSE UNCHANGED <<task, returned>>

(* The cap is reached: pauseForCreditCap, then the slot is given back. *)
CapPause(i) ==
  /\ exec[i].phase = "claimed" /\ CapReached
  /\ task' = IF task.status = "active"
             THEN [task EXCEPT !.status = "paused", !.next = "none", !.reason = "cap"] ELSE task
  /\ Phase(i, "capped")
  /\ UNCHANGED <<policy, run, found, spent, lapsed, over, intent, returned, faults>>

CapRelease(i) ==
  /\ exec[i].phase = "capped"
  /\ Release(i)
  /\ Ends(i, "cancelled")
  /\ UNCHANGED <<policy, run, found, spent, lapsed, over, intent, faults>>

(* The occurrence was missed and is to be skipped, or its condition does not hold. *)
Skip(i) ==
  /\ exec[i].phase = "claimed" /\ ~CapReached /\ ~exec[i].resumed
  /\ run[i].source = "schedule"
  /\ Release(i)
  /\ Ends(i, "cancelled")
  /\ UNCHANGED <<policy, run, found, spent, lapsed, over, intent, faults>>

Start(i) ==
  /\ exec[i].phase = "claimed" /\ ~CapReached
  /\ Phase(i, "working")
  /\ UNCHANGED <<policy, task, run, found, spent, lapsed, over, intent, returned, faults>>

(* A request of the run completes; one that was cut off may still do so. *)
Charge(i) ==
  /\ policy.cap > 0 /\ spent < MaxSpent
  /\ exec[i].phase \in {"working", "ending"}
  /\ spent' = spent + 1
  /\ UNCHANGED <<policy, task, run, exec, found, lapsed, over, intent, returned, faults>>

(* The executor answers, throws or is timed out; a caller that waits may also go away. *)
Finish(i, outcome) ==
  /\ exec[i].phase = "working"
  /\ outcome = "cancelled" => run[i].source # "schedule" /\ ~exec[i].resumed
  /\ Ends(i, outcome)
  /\ UNCHANGED <<policy, task, run, found, spent, lapsed, over, intent, returned, faults>>

(* A slip: a task that its owner switched off waits for an approval too. *)
ParksAnyway == IF task.status \notin Ended
               THEN [task EXCEPT !.status = "paused", !.next = "none", !.reason = "approval"]
               ELSE task

Parks == IF task.status = "active"
         THEN [task EXCEPT !.status = "paused", !.next = "none", !.reason = "approval"]
         ELSE task

(* awaitScheduleRunApproval *)
Park(i) ==
  /\ exec[i].phase = "working"
  /\ run' = IF run[i].status # "running" THEN run
            ELSE [run EXCEPT ![i].status = "awaiting", ![i].asked = "open", ![i].lease = "none"]
  /\ task' = IF run[i].status # "running" THEN task ELSE Parks
  /\ Leaves(i)
  /\ UNCHANGED <<policy, found, spent, lapsed, over, intent, returned, faults>>

Finalize(i) ==
  /\ exec[i].phase = "ending"
  /\ Record(i, exec[i].outcome)
  /\ Leaves(i)
  /\ UNCHANGED <<policy, found, spent, lapsed, over, intent, returned, faults>>

(* A statement fails: the catch block records a failure, of a run that succeeded too. *)
StatementFails(i) ==
  /\ exec[i].phase \in {"claimed", "capped", "ending"} /\ exec[i].outcome # "failed"
  /\ Fault
  /\ Ends(i, "failed")
  /\ UNCHANGED <<policy, task, run, found, spent, lapsed, over, intent, returned>>

Crash(i) ==
  /\ exec[i].phase # "idle"
  /\ Fault
  /\ Leaves(i)
  /\ UNCHANGED <<policy, task, run, found, spent, lapsed, over, intent, returned>>

-------------------------------------------------------------------------------
(* processDueScheduleRuns, before it claims. *)

(* A lease outlives its process's own timeout, so a live one loses it only when it stalls. *)
LeaseLapses(i) ==
  /\ run[i].lease = "live"
  /\ IF exec[i].phase = "idle" THEN UNCHANGED faults ELSE Fault
  /\ run' = [run EXCEPT ![i].lease = "lapsed"]
  /\ UNCHANGED <<policy, task, exec, found, spent, lapsed, over, intent, returned>>

(* findExpiredClaims *)
FindExpired(i) ==
  /\ run[i].status = "running" /\ run[i].lease = "lapsed" /\ i \notin found
  /\ found' = found \cup {i}
  /\ UNCHANGED <<policy, task, run, exec, spent, lapsed, over, intent, returned, faults>>

SweepFinalize(i) ==
  /\ i \in found
  /\ found' = found \ {i}
  /\ Record(i, "timeout")
  /\ UNCHANGED <<policy, exec, spent, lapsed, over, intent, returned, faults>>

ApprovalLapses(i) ==
  /\ run[i].asked = "open"
  /\ run' = [run EXCEPT ![i].asked = "lapsed"]
  /\ UNCHANGED <<policy, task, exec, found, spent, lapsed, over, intent, returned, faults>>

(* expireScheduleRunApprovals *)
ExpireApproval(i) ==
  /\ run[i].status = "awaiting" /\ run[i].asked = "lapsed"
  /\ run' = [run EXCEPT ![i].status = "cancelled", ![i].asked = "none"]
  /\ UNCHANGED <<policy, task, exec, found, spent, lapsed, over, intent, returned, faults>>

-------------------------------------------------------------------------------
(* Time. *)

(* The next time comes; it may be the last that the timing has. *)
Due ==
  /\ task.next = "later"
  /\ task' = [task EXCEPT !.next = "due"]
  /\ over' \in IF policy.kind = "once" THEN {TRUE} ELSE {over, Bounded(policy)}
  /\ UNCHANGED <<policy, run, exec, found, spent, lapsed, intent, returned, faults>>

(* The last time of the timing passes while the task does not wait for it. *)
RuleEnds ==
  /\ Bounded(policy) /\ ~over /\ task.next # "later"
  /\ over' = TRUE
  /\ UNCHANGED <<policy, task, run, exec, found, spent, lapsed, intent, returned, faults>>

ExpiryPasses ==
  /\ policy.expires /\ ~lapsed
  /\ lapsed' = TRUE
  /\ UNCHANGED <<policy, task, run, exec, found, spent, over, intent, returned, faults>>

-------------------------------------------------------------------------------
(* The owner. *)

Editable == task.status \in {"active", "paused"}

(* resumedNextExecutionAt: what the answer may be, and none when it throws. *)
ResumedNext ==
  IF policy.kind = "event" \/ Exhausted THEN {"none"}
  ELSE IF over THEN (IF policy.kind = "once" THEN {} ELSE {"none"})
  ELSE IF lapsed THEN {"none"}
  ELSE {"later"} \cup (IF policy.expires THEN {"none"} ELSE {})

OthersAwait(i) == \E j \in Runs \ {i} : run[j].status = "awaiting"

Answerable(i) ==
  /\ run[i].status = "awaiting" /\ run[i].asked = "open"
  /\ task.reason = "approval" => ResumedNext # {}

(* A slip: the run goes on without a lease. *)
ResumedUnleased(i) == [run[i] EXCEPT !.status = "running", !.asked = "none"]

Resumed(i) == [run[i] EXCEPT !.status = "running", !.lease = "live", !.asked = "none"]

(* claimScheduleRunApproval; approved or denied, the run goes on. *)
Answer(i) ==
  /\ Answerable(i)
  /\ run' = [run EXCEPT ![i] = Resumed(i)]
  /\ exec' = [exec EXCEPT ![i] = Claimed(TRUE)]
  /\ IF task.reason = "approval" /\ ~OthersAwait(i)
     THEN \E next \in ResumedNext :
            task' = [task EXCEPT !.status = "active", !.reason = "none", !.next = next]
     ELSE UNCHANGED task
  /\ UNCHANGED <<policy, found, spent, lapsed, over, intent, returned, faults>>

Switched(status, next) ==
  [task EXCEPT !.status = status, !.next = next, !.retry = 0, !.retryFor = 0, !.reason = "none"]

(* setScheduleEnabled *)
SwitchOff ==
  /\ Editable
  /\ task' = Switched("paused", "none")
  /\ intent' = "off"
  /\ UNCHANGED <<policy, run, exec, found, spent, lapsed, over, returned, faults>>

SwitchOn ==
  /\ Editable /\ ~Exhausted /\ ~CapReached /\ ~lapsed
  /\ policy.kind = "event" \/ ~over
  /\ task' = Switched("active", IF policy.kind = "event" THEN "none" ELSE "later")
  /\ intent' = "on"
  /\ UNCHANGED <<policy, run, exec, found, spent, lapsed, over, returned, faults>>

(* updateSchedule, of the words or of the timing; a reason to be paused stays for the cap only. *)
StillCapped == task.status = "paused" /\ CapReached /\ task.reason = "cap"

Rename ==
  /\ Editable /\ ~lapsed
  /\ policy.kind = "event" \/ ~over
  /\ ~(task.status = "active" /\ CapReached)
  /\ ~StillCapped /\ task.reason # "none"
  /\ task' = [task EXCEPT !.reason = "none"]
  /\ UNCHANGED <<policy, run, exec, found, spent, lapsed, over, intent, returned, faults>>

Retime ==
  /\ Editable /\ ~lapsed /\ policy.kind # "event"
  /\ ~(task.status = "active" /\ CapReached)
  /\ task' = [task EXCEPT !.next = IF task.status = "active" THEN "later" ELSE "none",
                          !.retry = 0, !.retryFor = 0,
                          !.reason = IF StillCapped THEN "cap" ELSE "none"]
  /\ over' = FALSE
  /\ UNCHANGED <<policy, run, exec, found, spent, lapsed, intent, returned, faults>>

(* deleteSchedule: the rows of the runs go with the task. *)
Delete ==
  /\ task.status # "deleted"
  /\ \A i \in Runs : run[i].status # "running"
  /\ task' = [task EXCEPT !.status = "deleted", !.next = "none"]
  /\ run' = [i \in Runs |-> [NoRun EXCEPT !.status = IF run[i].status = "none" THEN "none"
                                                     ELSE "gone"]]
  /\ UNCHANGED <<policy, exec, found, spent, lapsed, over, intent, returned, faults>>

-------------------------------------------------------------------------------

Sweep(i) == FindExpired(i) \/ SweepFinalize(i)

Cron ==
  \/ ExpireTask
  \/ \E i \in Runs : Sweep(i) \/ ExpireApproval(i) \/ ClaimDue(i)

Process(i) ==
  \/ CapPause(i) \/ CapRelease(i) \/ Skip(i) \/ Start(i) \/ Park(i) \/ Finalize(i)
  \/ \E outcome \in Outcomes : Finish(i, outcome)

Time ==
  \/ Due \/ RuleEnds \/ ExpiryPasses
  \/ \E i \in Runs : LeaseLapses(i) \/ ApprovalLapses(i)

Owner ==
  \/ SwitchOff \/ SwitchOn \/ Rename \/ Retime \/ Delete
  \/ \E i \in Runs : Answer(i)

Next ==
  \/ Cron \/ Time \/ Owner
  \/ \E i \in Runs : Process(i) \/ Charge(i) \/ StatementFails(i) \/ Crash(i)
  \/ \E i \in Runs, source \in {"manual", "webhook"} : StartOnDemand(i, source)

Spec == Init /\ [][Next]_vars

(* The cron comes every quarter of an hour, a process acts or is timed out, and the lease of a *)
(* process that is gone runs out: whatever a run is waiting for, something of it happens.      *)
Fairness ==
  \A i \in Runs :
    WF_vars(Process(i) \/ Sweep(i) \/ (LeaseLapses(i) /\ exec[i].phase = "idle"))

FairSpec == Spec /\ Fairness

-------------------------------------------------------------------------------
(* Properties. *)

(* Every row, every process and every bound has its type. *)
TypeOK ==
  /\ policy \in Policies
  /\ task \in Task
  /\ run \in [Runs -> Run]
  /\ exec \in [Runs -> Exec]
  /\ found \in SUBSET Runs /\ returned \in SUBSET Runs
  /\ spent \in 0..MaxSpent
  /\ lapsed \in BOOLEAN /\ over \in BOOLEAN
  /\ intent \in {"on", "off"}
  /\ faults \in 0..MaxFaults

(* What a task has executed is what was claimed for it for the first time, less what was given *)
(* back: a retry costs nothing, and no slot is given back twice, whatever fails in between.    *)
CountExplained ==
  task.status # "deleted" =>
    task.count = Cardinality({i \in Runs \ returned : run[i].attempt = 1})

(* A task that its owner switched off stays off until its owner switches it on: no run that    *)
(* was under way, no retry, no approval given later and no sweep starts it again.              *)
SwitchedOffStaysOff == intent = "off" => task.status # "active"

(* The retry that is due was made before, and its question was not answered in time: a claim   *)
(* finds its key taken and makes no run.                                                       *)
RetrySpent ==
  \E i \in Runs : /\ run[i].source = "schedule" /\ run[i].status = "cancelled"
                  /\ task.retry > 0 /\ run[i].occ = task.retryFor
                  /\ run[i].attempt = task.retry + 1

(* A task that still has occurrences to come waits for one, or has a run that will decide on   *)
(* the next: it is never left active with nothing that would ever make it due.                 *)
NeverStranded ==
  policy.kind = "recurring" /\ task.status = "active" /\ task.next = "none" =>
    \/ over \/ policy.expires \/ Exhausted \/ (policy.limit > 0 /\ returned # {})
    \/ \E i \in Runs : run[i].status = "running" /\ run[i].source = "schedule"
    \/ RetrySpent

(* A run that has ended keeps its outcome, whatever late process or sweep reports on it; and   *)
(* a task that is completed or has expired never becomes active again.                         *)
OutcomeIsFinal ==
  [][/\ \A i \in Runs : run[i].status \in Outcomes => run'[i].status \in {run[i].status, "gone"}
     /\ task.status \in Ended => task'.status \in {task.status, "deleted"}]_vars

(* Every run comes to an end or to a question, whatever crashes. *)
EveryRunEnds == \A i \in Runs : run[i].status = "running" ~> run[i].status # "running"

(* 0308_scheduled_run_approval.sql: a run "pauses there [...] and resumes from the same step    *)
(* once the owner approves or denies it".                                                      *)
AnswerResumes ==
  \A i \in Runs : run[i].status = "awaiting" /\ run[i].asked = "open" => Answerable(i)

(* The comment of releaseExecutionSlot gives back the slot of an occurrence "that never ran":  *)
(* not that of a run which worked until it asked its owner, and then met the cap.              *)
ExecutedIsCounted == [][\A i \in returned' \ returned : ~exec[i].resumed]_vars
===============================================================================

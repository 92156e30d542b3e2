---------------------------- MODULE SchedulesProofs ----------------------------
(***************************************************************************)
(* What TLAPS proves of a scheduled task, for any policies, any number of   *)
(* runs, any spending and any number of faults.                             *)
(***************************************************************************)
EXTENDS Schedules, FiniteSetTheorems, TLAPS

LEMMA PolicyTyped ==
  ASSUME policy \in Policies
  PROVE  /\ policy.retries \in Nat /\ policy.limit \in Nat /\ policy.cap \in Nat
         /\ policy.kind \in {"once", "recurring", "event"}
  BY PolicyAssumption DEF Policy

LEMMA NullsTyped ==
  ASSUME policy \in Policies
  PROVE  NoRun \in Run /\ Idle \in Exec
  BY PolicyTyped, BoundAssumption DEF NoRun, Run, Idle, Exec

LEMMA UpcomingTyped == Upcoming \subseteq {"none", "later", "beyond"}
  BY DEF Upcoming

LEMMA DecisionTyped ==
  ASSUME task \in Task, NEW i \in Runs, NEW outcome, NEW upcoming \in Upcoming
  PROVE  /\ Decision(i, outcome, upcoming)[1] \in {"active", "completed", "expired"}
         /\ Decision(i, outcome, upcoming)[2] \in {"none", "later", "due"}
  BY UpcomingTyped DEF Decision, AfterOccurrence, Task

LEMMA RetriedTyped ==
  ASSUME policy \in Policies, task \in Task, run \in [Runs -> Run], NEW i \in Runs, NEW outcome
  PROVE  /\ Retried(i, outcome)[1] \in 0..policy.retries
         /\ Retried(i, outcome)[2] \in 0..MaxRuns
  BY PolicyTyped, BoundAssumption DEF Retried, Retryable, Task, Run

(* What the end of a run does to the row of its task. *)
LEMMA ConcludedShape ==
  ASSUME policy \in Policies, task \in Task, run \in [Runs -> Run],
         NEW i \in Runs, NEW outcome, NEW upcoming \in Upcoming
  PROVE  /\ Concluded(i, outcome, upcoming) \in Task
         /\ Concluded(i, outcome, upcoming).count = task.count
         /\ task.status # "active" => /\ Concluded(i, outcome, upcoming).status = task.status
                                      /\ Concluded(i, outcome, upcoming).reason = task.reason
         /\ task.status = "active" =>
              /\ Concluded(i, outcome, upcoming).status # "deleted"
              /\ Concluded(i, outcome, upcoming).reason \in {task.reason, "cap"}
<1> DEFINE kept == [task EXCEPT !.next = "none", !.retry = Retried(i, outcome)[1],
                                !.retryFor = Retried(i, outcome)[2]]
           capped == [kept EXCEPT !.status = "paused", !.reason = "cap"]
           moved == [kept EXCEPT !.status = Decision(i, outcome, upcoming)[1],
                                 !.next = Decision(i, outcome, upcoming)[2]]
<1>1. kept \in Task /\ kept.count = task.count /\ kept.status = task.status
      /\ kept.reason = task.reason
  BY RetriedTyped DEF Task
<1>2. capped \in Task /\ capped.count = task.count /\ capped.status = "paused"
      /\ capped.reason = "cap"
  BY <1>1 DEF Task
<1>3. moved \in Task /\ moved.count = task.count /\ moved.reason = task.reason
      /\ moved.status = Decision(i, outcome, upcoming)[1]
  <2> HIDE DEF kept
  <2>1. /\ Decision(i, outcome, upcoming)[1] \in {"active", "completed", "expired"}
        /\ Decision(i, outcome, upcoming)[2] \in {"none", "later", "due"}
    BY DecisionTyped
  <2>2. kept \in Task /\ kept.count = task.count /\ kept.reason = task.reason
    BY <1>1
  <2> DEFINE s == Decision(i, outcome, upcoming)[1]
             n == Decision(i, outcome, upcoming)[2]
  <2> HIDE DEF s, n
  <2>3. s \in {"active", "completed", "expired"} /\ n \in {"none", "later", "due"}
    BY <2>1 DEF s, n
  <2>4. moved = [kept EXCEPT !.status = s, !.next = n]
    BY DEF s, n
  <2> HIDE DEF moved
  <2>5. moved \in Task /\ moved.count = kept.count /\ moved.reason = kept.reason
        /\ moved.status = s
    BY <2>2, <2>3, <2>4 DEF Task, Ended
  <2> QED BY <2>2, <2>5 DEF s
<1>4. Concluded(i, outcome, upcoming) =
        IF task.status # "active" THEN kept
        ELSE IF CapReached /\ Decision(i, outcome, upcoming)[1] = "active" THEN capped
        ELSE moved
  BY DEF Concluded
<1> HIDE DEF kept, capped, moved
<1> QED BY <1>1, <1>2, <1>3, <1>4, DecisionTyped

(* What a process or the sweep that reports an outcome does to the rows. *)
LEMMA RecordShape ==
  ASSUME TypeOK, NEW i \in Runs, NEW outcome \in Outcomes, Record(i, outcome)
  PROVE  \/ run' = run /\ task' = task
         \/ /\ run[i].status = "running"
            /\ run' = [run EXCEPT ![i].status = outcome, ![i].lease = "none"]
            /\ run' \in [Runs -> Run]
            /\ task' \in Task /\ task'.count = task.count
            /\ task.status # "active" => task'.status = task.status /\ task'.reason = task.reason
            /\ task.status = "active" =>
                 task'.status # "deleted" /\ task'.reason \in {task.reason, "cap"}
<1>1. CASE run[i].status # "running"
  BY <1>1 DEF Record
<1>2. CASE run[i].status = "running"
  <2>1. run' = [run EXCEPT ![i].status = outcome, ![i].lease = "none"]
    BY <1>2 DEF Record
  <2>2. [run[i] EXCEPT !.status = outcome, !.lease = "none"] \in Run
    BY DEF TypeOK, Run, Outcomes
  <2>3. run' \in [Runs -> Run]
    BY <2>1, <2>2 DEF TypeOK
  <2>4. PICK upcoming \in Upcoming : task' = Concluded(i, outcome, upcoming)
    BY <1>2 DEF Record
  <2> QED BY <1>2, <2>1, <2>3, <2>4, ConcludedShape DEF TypeOK
<1> QED BY <1>1, <1>2

LEMMA ReleaseTyped ==
  ASSUME TypeOK, NEW i \in Runs, Release(i)
  PROVE  task' \in Task /\ returned' \in SUBSET Runs
  BY DEF Release, TypeOK, Task

LEMMA ExecTyped ==
  ASSUME TypeOK, NEW i \in Runs
  PROVE  /\ \A phase \in {"claimed", "capped", "working", "ending"} :
              Phase(i, phase) => exec' \in [Runs -> Exec]
         /\ \A outcome \in Outcomes : Ends(i, outcome) => exec' \in [Runs -> Exec]
         /\ Leaves(i) => exec' \in [Runs -> Exec]
         /\ \A resumed \in BOOLEAN : Claimed(resumed) \in Exec
  BY NullsTyped DEF TypeOK, Phase, Ends, Leaves, Exec, Claimed

-------------------------------------------------------------------------------
(* Types, one action after the other. *)

LEMMA ClaimedTyped ==
  ASSUME TypeOK, NEW i \in Runs, ClaimDue(i)
  PROVE  TypeOK'
<1> USE DEF TypeOK
<1>1. task.retry \in 0..policy.retries /\ policy.retries \in Nat /\ task.retryFor \in 0..MaxRuns
  BY PolicyTyped DEF Task
<1>2. DEFINE occ == IF task.retry = 0 THEN i ELSE task.retryFor
<1>3. NewRun("schedule", occ, task.retry + 1) \in Run
  <2>1. task.retry + 1 \in 0..(policy.retries + 1) /\ occ \in 0..MaxRuns
    BY <1>1, BoundAssumption DEF Runs
  <2> HIDE DEF occ
  <2> QED BY <2>1 DEF NewRun, Run
<1>4. task' \in Task
  <2>1. task' = [task EXCEPT !.next = "none", !.count = Counted] /\ policy' = policy
    BY DEF ClaimDue
  <2>2. Counted \in Nat
    BY DEF Counted, Task
  <2> QED BY <2>1, <2>2 DEF Task
<1>5. Claimed(FALSE) \in Exec
  BY DEF Claimed, Exec
<1>6. run' \in {run, [run EXCEPT ![i] = NewRun("schedule", occ, task.retry + 1)]}
      /\ exec' \in {exec, [exec EXCEPT ![i] = Claimed(FALSE)]}
  BY DEF ClaimDue
<1> HIDE DEF occ
<1>7. run' \in [Runs -> Run] /\ exec' \in [Runs -> Exec]
  BY <1>3, <1>5, <1>6
<1> QED BY <1>4, <1>7 DEF ClaimDue, Run, Task

(* A process that is about to record an outcome has one. *)
Reports == \A i \in Runs : exec[i].phase = "ending" => exec[i].outcome \in Outcomes

LEMMA ProcessTyped ==
  ASSUME TypeOK, Reports, NEW i \in Runs, Process(i)
  PROVE  TypeOK'
<1> USE DEF TypeOK
<1>1. CASE CapPause(i)
  <2>1. task' \in Task
    BY <1>1 DEF CapPause, Task
  <2>2. exec' \in [Runs -> Exec]
    BY <1>1, ExecTyped DEF CapPause
  <2> QED BY <1>1, <2>1, <2>2 DEF CapPause, Task, Run
<1>2. CASE CapRelease(i) \/ Skip(i)
  <2>1. task' \in Task /\ returned' \in SUBSET Runs
    BY <1>2, ReleaseTyped DEF CapRelease, Skip
  <2>2. exec' \in [Runs -> Exec]
    BY <1>2, ExecTyped DEF CapRelease, Skip, Outcomes
  <2> QED BY <1>2, <2>1, <2>2 DEF CapRelease, Skip, Task, Run
<1>3. CASE Start(i)
  BY <1>3, ExecTyped DEF Start, Task, Run
<1>4. CASE Park(i)
  <2>1. task' \in Task
    BY <1>4 DEF Park, Parks, Task
  <2>2. [run[i] EXCEPT !.status = "awaiting", !.asked = "open", !.lease = "none"] \in Run
    BY DEF Run
  <2>3. run' \in [Runs -> Run] /\ exec' \in [Runs -> Exec]
    BY <1>4, <2>2, ExecTyped DEF Park
  <2> QED BY <1>4, <2>1, <2>3 DEF Park, Task, Run
<1>5. CASE Finalize(i)
  <2>1. exec' \in [Runs -> Exec]
    BY <1>5, ExecTyped DEF Finalize
  <2>2. exec[i].outcome \in Outcomes
    BY <1>5 DEF Finalize, Reports
  <2>3. task' \in Task /\ run' \in [Runs -> Run]
    BY <1>5, <2>2, RecordShape DEF Finalize
  <2> QED BY <1>5, <2>1, <2>3 DEF Finalize, Task, Run
<1>6. ASSUME NEW outcome \in Outcomes, Finish(i, outcome) PROVE TypeOK'
  BY <1>6, ExecTyped DEF Finish, Task, Run
<1> QED BY <1>1, <1>2, <1>3, <1>4, <1>5, <1>6 DEF Process

LEMMA OwnerTyped ==
  ASSUME TypeOK, Owner
  PROVE  TypeOK'
<1> USE DEF TypeOK
<1>1. CASE SwitchOff \/ SwitchOn \/ Rename \/ Retime
  <2>1. 0 \in 0..policy.retries /\ 0 \in 0..MaxRuns
    BY PolicyTyped, BoundAssumption
  <2>2. \A s \in {"active", "paused"}, n \in {"none", "later"} : Switched(s, n) \in Task
    BY <2>1 DEF Switched, Task
  <2>3. CASE SwitchOff
    BY <2>2, <2>3 DEF SwitchOff, Task, Run
  <2>4. CASE SwitchOn
    <3>1. task' \in Task
      BY <2>2, <2>4 DEF SwitchOn
    <3> QED BY <2>4, <3>1 DEF SwitchOn, Task, Run
  <2>5. CASE Rename
    <3>1. task' \in Task
      BY <2>5 DEF Rename, Task
    <3> QED BY <2>5, <3>1 DEF Rename, Task, Run
  <2>6. CASE Retime
    <3>1. task' \in Task
      BY <2>1, <2>6 DEF Retime, Task
    <3> QED BY <2>6, <3>1 DEF Retime, Task, Run
  <2> QED BY <1>1, <2>3, <2>4, <2>5, <2>6
<1>2. CASE Delete
  <2>1. task' \in Task
    BY <1>2 DEF Delete, Task, Ended
  <2>2. \A s \in {"none", "gone"} : [NoRun EXCEPT !.status = s] \in Run
    BY NullsTyped DEF Run
  <2>3. run' \in [Runs -> Run]
    BY <1>2, <2>2 DEF Delete
  <2> QED BY <1>2, <2>1, <2>3 DEF Delete, Task, Run
<1>3. ASSUME NEW i \in Runs, Answer(i) PROVE TypeOK'
  <2>0. run[i] \in Run
    OBVIOUS
  <2>1. Resumed(i) \in Run /\ Claimed(TRUE) \in Exec
    BY <2>0, ExecTyped DEF Resumed, Run
  <2>2. run' \in [Runs -> Run] /\ exec' \in [Runs -> Exec]
    BY <1>3, <2>1 DEF Answer
  <2>3. ResumedNext \subseteq {"none", "later"}
    BY DEF ResumedNext
  <2>4. task' \in Task
    BY <1>3, <2>3 DEF Answer, Task
  <2> QED BY <1>3, <2>2, <2>4 DEF Answer, Task, Run
<1> QED BY <1>1, <1>2, <1>3 DEF Owner

LEMMA TimeTyped ==
  ASSUME TypeOK, Time
  PROVE  TypeOK'
<1> USE DEF TypeOK
<1>1. CASE Due \/ RuleEnds \/ ExpiryPasses
  <2>1. task' \in Task
    BY <1>1 DEF Due, RuleEnds, ExpiryPasses, Task
  <2>2. over' \in BOOLEAN
    BY <1>1 DEF Due, RuleEnds, ExpiryPasses, Bounded
  <2> QED BY <1>1, <2>1, <2>2 DEF Due, RuleEnds, ExpiryPasses, Task, Run
<1>2. ASSUME NEW i \in Runs, LeaseLapses(i) \/ ApprovalLapses(i) PROVE TypeOK'
  <2>1. run' \in [Runs -> Run]
    BY <1>2 DEF LeaseLapses, ApprovalLapses, Run
  <2>2. faults' \in 0..MaxFaults
    BY <1>2, BoundAssumption DEF LeaseLapses, ApprovalLapses, Fault
  <2> QED BY <1>2, <2>1, <2>2 DEF LeaseLapses, ApprovalLapses, Task, Run
<1> QED BY <1>1, <1>2 DEF Time

LEMMA CronTyped ==
  ASSUME TypeOK, Cron
  PROVE  TypeOK'
<1> USE DEF TypeOK
<1>1. CASE ExpireTask
  <2>1. task' \in Task
    BY <1>1 DEF ExpireTask, Task, Ended
  <2> QED BY <1>1, <2>1 DEF ExpireTask, Task, Run
<1>2. ASSUME NEW i \in Runs, FindExpired(i) PROVE TypeOK'
  BY <1>2 DEF FindExpired, Task, Run
<1>3. ASSUME NEW i \in Runs, SweepFinalize(i) PROVE TypeOK'
  <2>1. task' \in Task /\ run' \in [Runs -> Run]
    BY <1>3, RecordShape DEF SweepFinalize, Outcomes
  <2> QED BY <1>3, <2>1 DEF SweepFinalize, Task, Run
<1>4. ASSUME NEW i \in Runs, ExpireApproval(i) PROVE TypeOK'
  <2>1. [run[i] EXCEPT !.status = "cancelled", !.asked = "none"] \in Run
    BY DEF Run, Outcomes
  <2> QED BY <1>4, <2>1 DEF ExpireApproval, Task, Run
<1>5. ASSUME NEW i \in Runs, ClaimDue(i) PROVE TypeOK'
  BY <1>5, ClaimedTyped
<1> QED BY <1>1, <1>2, <1>3, <1>4, <1>5 DEF Cron, Sweep

LEMMA TypeKept == TypeOK /\ Reports /\ [Next]_vars => TypeOK'
<1> SUFFICES ASSUME TypeOK, Reports, [Next]_vars PROVE TypeOK'
  OBVIOUS
<1>1. CASE UNCHANGED vars
  BY <1>1 DEF vars, TypeOK, Task, Run
<1>2. ASSUME NEW i \in Runs, Charge(i) \/ StatementFails(i) \/ Crash(i) PROVE TypeOK'
  <2>1. exec' \in [Runs -> Exec]
    BY <1>2, ExecTyped DEF Charge, StatementFails, Crash, Outcomes, TypeOK
  <2>2. faults' \in 0..MaxFaults /\ spent' \in 0..MaxSpent
    BY <1>2, BoundAssumption DEF Charge, StatementFails, Crash, Fault, TypeOK
  <2> QED BY <1>2, <2>1, <2>2 DEF Charge, StatementFails, Crash, TypeOK, Task, Run
<1>3. ASSUME NEW i \in Runs, NEW source \in {"manual", "webhook"}, StartOnDemand(i, source)
      PROVE  TypeOK'
  <2>1. NewRun(source, i, 1) \in Run
    BY PolicyTyped, BoundAssumption DEF NewRun, Run, Runs, TypeOK
  <2>2. run' \in [Runs -> Run] /\ exec' \in [Runs -> Exec]
    BY <1>3, <2>1, ExecTyped DEF StartOnDemand, TypeOK
  <2>3. task' \in Task
    BY <1>3 DEF StartOnDemand, Task, TypeOK
  <2> QED BY <1>3, <2>2, <2>3 DEF StartOnDemand, TypeOK, Task, Run
<1> QED
  BY <1>1, <1>2, <1>3, ProcessTyped, OwnerTyped, TimeTyped, CronTyped DEF Next

LEMMA ReportsKept == TypeOK /\ Reports /\ [Next]_vars => Reports'
<1> SUFFICES ASSUME TypeOK, Reports, [Next]_vars PROVE Reports'
  OBVIOUS
<1> USE DEF Reports
<1>1. CASE exec' = exec
  BY <1>1
<1>2. ASSUME NEW i \in Runs, NEW phase \in {"claimed", "capped", "working"}, Phase(i, phase)
      PROVE  Reports'
  BY <1>2 DEF Phase, TypeOK, Exec
<1>3. ASSUME NEW i \in Runs, NEW outcome \in Outcomes, Ends(i, outcome) PROVE Reports'
  BY <1>3 DEF Ends, TypeOK, Exec
<1>4. ASSUME NEW i \in Runs, Leaves(i) PROVE Reports'
  BY <1>4 DEF Leaves, Idle, TypeOK
<1>5. ASSUME NEW i \in Runs, NEW resumed \in BOOLEAN,
             exec' = [exec EXCEPT ![i] = Claimed(resumed)]
      PROVE  Reports'
  BY <1>5 DEF Claimed, TypeOK
<1>6. CASE Cron
  BY <1>1, <1>5, <1>6
  DEF Cron, ExpireTask, Sweep, FindExpired, SweepFinalize, ExpireApproval, ClaimDue
<1>7. CASE Time
  BY <1>1, <1>7 DEF Time, Due, RuleEnds, ExpiryPasses, LeaseLapses, ApprovalLapses
<1>8. CASE Owner
  BY <1>1, <1>5, <1>8 DEF Owner, SwitchOff, SwitchOn, Rename, Retime, Delete, Answer
<1>9. ASSUME NEW i \in Runs, Process(i) PROVE Reports'
  BY <1>2, <1>3, <1>4, <1>9
  DEF Process, CapPause, CapRelease, Skip, Start, Finish, Park, Finalize, Outcomes
<1>10. ASSUME NEW i \in Runs, Charge(i) \/ StatementFails(i) \/ Crash(i) PROVE Reports'
  BY <1>1, <1>3, <1>4, <1>10 DEF Charge, StatementFails, Crash, Outcomes
<1>11. ASSUME NEW i \in Runs, NEW source, StartOnDemand(i, source) PROVE Reports'
  BY <1>5, <1>11 DEF StartOnDemand
<1> QED BY <1>1, <1>6, <1>7, <1>8, <1>9, <1>10, <1>11 DEF Next, vars

-------------------------------------------------------------------------------
(* A task is paused for an approval only while it would otherwise be on, and  *)
(* the runs of a deleted task are gone with it.                               *)
Standing ==
  /\ SwitchedOffStaysOff
  /\ intent = "off" => task.reason # "approval"
  /\ task.reason = "approval" => task.status \in {"paused", "deleted"}
  /\ task.status = "deleted" => \A i \in Runs : run[i].status \in {"none", "gone"}

(* What may become of a task and of its runs in one step. *)
Finals ==
  /\ \A i \in Runs : run[i].status \in Outcomes => run'[i].status \in {run[i].status, "gone"}
  /\ task.status \in Ended => task'.status \in {task.status, "deleted"}

LEMMA RecordStands ==
  ASSUME TypeOK, Standing, NEW i \in Runs, NEW outcome \in Outcomes, Record(i, outcome),
         intent' = intent
  PROVE  Standing' /\ Finals
<1>1. CASE run' = run /\ task' = task
  BY <1>1 DEF Standing, SwitchedOffStaysOff, Finals
<1>2. CASE run' # run \/ task' # task
  <2>1. \A j \in Runs : j # i => run'[j] = run[j]
    BY <1>2, RecordShape DEF TypeOK
  <2>2. run[i].status = "running" /\ "running" \notin Outcomes \cup {"none", "gone"}
    BY <1>2, RecordShape DEF Outcomes
  <2>3. task.status # "deleted" /\ task'.status # "deleted"
    BY <1>2, <2>2, RecordShape DEF Standing
  <2>4. /\ task.status # "active" => task'.status = task.status /\ task'.reason = task.reason
        /\ task.status = "active" => task'.reason # "approval"
    BY <1>2, RecordShape DEF Standing
  <2> QED BY <2>1, <2>2, <2>3, <2>4 DEF Standing, SwitchedOffStaysOff, Finals, Ended
<1> QED BY <1>1, <1>2

LEMMA ReleaseShape ==
  ASSUME TypeOK, NEW i \in Runs, Release(i)
  PROVE  task'.status = task.status /\ task'.reason = task.reason
  BY DEF Release, TypeOK, Task

LEMMA StandingKept == TypeOK /\ Reports /\ Standing /\ [Next]_vars => Standing' /\ Finals
<1> SUFFICES ASSUME TypeOK, Reports, Standing, [Next]_vars PROVE Standing' /\ Finals
  OBVIOUS
<1> USE DEF Standing, SwitchedOffStaysOff, Finals
<1>0. task \in Task /\ run \in [Runs -> Run]
  BY DEF TypeOK
<1>1. CASE UNCHANGED vars
  BY <1>1 DEF vars
<1>2. CASE ExpireTask
  BY <1>0, <1>2 DEF ExpireTask, Task, Ended
<1>3. ASSUME NEW i \in Runs, FindExpired(i) PROVE Standing' /\ Finals
  BY <1>3 DEF FindExpired
<1>4. ASSUME NEW i \in Runs, SweepFinalize(i) PROVE Standing' /\ Finals
  BY <1>4, RecordStands DEF SweepFinalize, Outcomes
<1>5. ASSUME NEW i \in Runs, ExpireApproval(i) PROVE Standing' /\ Finals
  BY <1>0, <1>5 DEF ExpireApproval, Outcomes
<1>6. ASSUME NEW i \in Runs, ClaimDue(i) PROVE Standing' /\ Finals
  <2>1. task'.status = "active" /\ task'.reason = task.reason /\ task.status = "active"
    BY <1>0, <1>6 DEF ClaimDue, Task
  <2>2. \A j \in Runs : run'[j] = run[j] \/ run[j].status = "none"
    BY <1>0, <1>6 DEF ClaimDue, Fresh
  <2>3. intent' = intent
    BY <1>6 DEF ClaimDue
  <2> QED BY <2>1, <2>2, <2>3 DEF Outcomes, Ended
<1>7. ASSUME NEW i \in Runs, CapPause(i) PROVE Standing' /\ Finals
  BY <1>0, <1>7 DEF CapPause, Task, Ended
<1>8. ASSUME NEW i \in Runs, CapRelease(i) \/ Skip(i) PROVE Standing' /\ Finals
  <2>1. run' = run /\ intent' = intent
    BY <1>8 DEF CapRelease, Skip
  <2> QED BY <1>8, <2>1, ReleaseShape DEF CapRelease, Skip
<1>9. ASSUME NEW i \in Runs, Start(i) \/ (\E outcome \in Outcomes : Finish(i, outcome))
      PROVE  Standing' /\ Finals
  BY <1>9 DEF Start, Finish
<1>10. ASSUME NEW i \in Runs, Park(i) PROVE Standing' /\ Finals
  <2>1. CASE run[i].status # "running"
    BY <1>10, <2>1 DEF Park
  <2>2. CASE run[i].status = "running"
    <3>1. \A j \in Runs : j # i => run'[j] = run[j]
      BY <1>0, <1>10, <2>2 DEF Park
    <3>2. intent' = intent /\ task.status # "deleted"
      BY <1>10, <2>2 DEF Park
    <3>3. IF task.status = "active" THEN task'.status = "paused" ELSE task' = task
      BY <1>0, <1>10, <2>2 DEF Park, Parks, Task
    <3> QED BY <2>2, <3>1, <3>2, <3>3 DEF Outcomes, Ended
  <2> QED BY <2>1, <2>2
<1>11. ASSUME NEW i \in Runs, Finalize(i) PROVE Standing' /\ Finals
  BY <1>11, RecordStands DEF Finalize, Reports
<1>12. ASSUME NEW i \in Runs, Charge(i) \/ StatementFails(i) \/ Crash(i)
       PROVE  Standing' /\ Finals
  BY <1>12 DEF Charge, StatementFails, Crash
<1>13. CASE Due \/ RuleEnds \/ ExpiryPasses
  BY <1>0, <1>13 DEF Due, RuleEnds, ExpiryPasses, Task
<1>14. ASSUME NEW i \in Runs, LeaseLapses(i) \/ ApprovalLapses(i) PROVE Standing' /\ Finals
  <2>1. \A j \in Runs : run'[j].status = run[j].status
    BY <1>0, <1>14 DEF LeaseLapses, ApprovalLapses, Run
  <2> QED BY <1>14, <2>1 DEF LeaseLapses, ApprovalLapses
<1>15. CASE SwitchOff \/ SwitchOn
  BY <1>0, <1>15 DEF SwitchOff, SwitchOn, Switched, Editable, Task, Ended
<1>16. CASE Rename \/ Retime
  <2>1. task'.status = task.status /\ task'.reason \in {"none", "cap"}
    BY <1>0, <1>16 DEF Rename, Retime, Task
  <2>2. run' = run /\ intent' = intent /\ task.status \in {"active", "paused"}
    BY <1>16 DEF Rename, Retime, Editable
  <2> QED BY <2>1, <2>2
<1>17. CASE Delete
  <2>1. task'.status = "deleted" /\ task'.reason = task.reason /\ intent' = intent
    BY <1>0, <1>17 DEF Delete, Task
  <2>2. \A j \in Runs :
          run'[j] = [NoRun EXCEPT !.status = IF run[j].status = "none" THEN "none" ELSE "gone"]
    BY <1>17 DEF Delete
  <2>3. \A j \in Runs : run'[j].status = IF run[j].status = "none" THEN "none" ELSE "gone"
    BY <2>2 DEF NoRun
  <2> QED BY <2>1, <2>3 DEF Outcomes
<1>18. ASSUME NEW i \in Runs, Answer(i) PROVE Standing' /\ Finals
  <2>1. run[i].status = "awaiting" /\ task.status # "deleted" /\ intent' = intent
    BY <1>18 DEF Answer, Answerable
  <2>2. \A j \in Runs : j # i => run'[j] = run[j]
    BY <1>0, <1>18 DEF Answer
  <2>3. \/ task' = task
        \/ task.reason = "approval" /\ task'.status = "active" /\ task'.reason = "none"
    BY <1>0, <1>18 DEF Answer, Task
  <2> QED BY <2>1, <2>2, <2>3 DEF Outcomes, Ended
<1>19. ASSUME NEW i \in Runs, NEW source, StartOnDemand(i, source) PROVE Standing' /\ Finals
  <2>1. task'.status = task.status /\ task'.reason = task.reason /\ task.status = "active"
    BY <1>0, <1>19 DEF StartOnDemand, Task
  <2>2. \A j \in Runs : run'[j] = run[j] \/ run[j].status = "none"
    BY <1>0, <1>19 DEF StartOnDemand, Fresh
  <2> QED BY <1>19, <2>1, <2>2 DEF StartOnDemand, Outcomes, Ended
<1> QED
  BY <1>1, <1>2, <1>3, <1>4, <1>5, <1>6, <1>7, <1>8, <1>9, <1>10, <1>11, <1>12, <1>13, <1>14,
     <1>15, <1>16, <1>17, <1>18, <1>19 DEF Next, Cron, Sweep, Time, Owner, Process

-------------------------------------------------------------------------------
(* The count of executions. *)

(* A run that was not made yet is nowhere counted, and a run whose slot was given back is at *)
(* its end, so that it cannot give it back again.                                            *)
Slots ==
  /\ \A i \in Runs : run[i].status = "none" =>
       run[i].attempt = 0 /\ i \notin returned /\ exec[i].phase = "idle"
  /\ \A i \in Runs : run[i].status = "awaiting" => exec[i].phase = "idle"
  /\ \A i \in returned : exec[i].phase \in {"idle", "ending"} /\ run[i].status # "awaiting"

(* The occurrence of a run, and that of the retry that is due, is one that was claimed: so the *)
(* key of a first attempt is never taken.                                                      *)
Names ==
  /\ \A i \in Runs : run[i].occ # 0 => run[run[i].occ].status # "none"
  /\ task.retryFor # 0 => run[task.retryFor].status # "none"

Counting == Slots /\ Names /\ CountExplained

(* What a step does that claims no run, gives no slot back and deletes nothing. *)
Quiet ==
  /\ \A j \in Runs : /\ run'[j].attempt = run[j].attempt /\ run'[j].occ = run[j].occ
                     /\ run'[j].status = "none" <=> run[j].status = "none"
                     /\ run'[j].status = "awaiting" =>
                          /\ run[j].status = "awaiting" \/ j \notin returned
                          /\ exec'[j].phase = "idle"
                     /\ exec'[j].phase # exec[j].phase =>
                          /\ run[j].status # "none"
                          /\ exec'[j].phase \in {"idle", "ending"} \/ j \notin returned
  /\ returned' = returned
  /\ task'.count = task.count
  /\ task.status = "deleted" => task'.status = "deleted"
  /\ task'.retryFor \in {0, task.retryFor} \cup {run[j].occ : j \in Runs}

LEMMA QuietCounts ==
  ASSUME TypeOK, Counting, Quiet
  PROVE  Counting'
<1> USE DEF Quiet, Counting
<1>1. Slots'
  BY DEF Slots, TypeOK
<1>2. Names'
  <2>1. ASSUME NEW i \in Runs, run[i].occ # 0 PROVE run'[run[i].occ].status # "none"
    <3>1. run[i].occ \in Runs
      BY <2>1, BoundAssumption DEF TypeOK, Run, Runs
    <3> QED BY <2>1, <3>1 DEF Names
  <2>2. ASSUME task.retryFor # 0 PROVE run'[task.retryFor].status # "none"
    <3>1. task.retryFor \in Runs
      BY <2>2, BoundAssumption DEF TypeOK, Task, Runs
    <3> QED BY <2>2, <3>1 DEF Names
  <2> QED BY <2>1, <2>2 DEF Names
<1>3. CountExplained'
  <2>1. {j \in Runs \ returned' : run'[j].attempt = 1} =
          {j \in Runs \ returned : run[j].attempt = 1}
    OBVIOUS
  <2> QED BY <2>1 DEF CountExplained
<1> QED BY <1>1, <1>2, <1>3

LEMMA RecordQuiet ==
  ASSUME TypeOK, Standing, NEW i \in Runs, NEW outcome \in Outcomes, Record(i, outcome)
  PROVE  /\ \A j \in Runs : /\ run'[j].attempt = run[j].attempt /\ run'[j].occ = run[j].occ
                            /\ run'[j].status = "none" <=> run[j].status = "none"
                            /\ run'[j].status = "awaiting" => run[j].status = "awaiting"
         /\ task'.count = task.count
         /\ task.status = "deleted" => task'.status = "deleted"
         /\ task'.retryFor \in {0, task.retryFor} \cup {run[j].occ : j \in Runs}
<1>1. CASE run[i].status # "running"
  BY <1>1 DEF Record
<1>2. CASE run[i].status = "running"
  <2>1. run' = [run EXCEPT ![i].status = outcome, ![i].lease = "none"]
    BY <1>2 DEF Record
  <2>2. \A j \in Runs : /\ run'[j].attempt = run[j].attempt /\ run'[j].occ = run[j].occ
                        /\ run'[j].status = "none" <=> run[j].status = "none"
                        /\ run'[j].status = "awaiting" => run[j].status = "awaiting"
    BY <1>2, <2>1 DEF TypeOK, Run, Outcomes
  <2>3. PICK upcoming \in Upcoming : task' = Concluded(i, outcome, upcoming)
    BY <1>2 DEF Record
  <2>4. task'.retryFor = Retried(i, outcome)[2]
    BY <2>3 DEF Concluded, TypeOK, Task
  <2>5. Retried(i, outcome)[2] \in {0, task.retryFor, run[i].occ}
    BY DEF Retried
  <2>6. task'.count = task.count /\ (task.status = "deleted" => task'.status = "deleted")
    BY <2>3, ConcludedShape DEF TypeOK
  <2> QED BY <2>2, <2>4, <2>5, <2>6
<1> QED BY <1>1, <1>2

(* A run that is claimed for the first time is counted, and one that is retried is not. *)
LEMMA NewCounts ==
  ASSUME TypeOK, Counting, NEW i \in Runs, Fresh(i),
         NEW new \in Run, new.status = "running", new.occ \in {0, i} \/ new.occ = task.retryFor,
         run' = [run EXCEPT ![i] = new], exec' = [exec EXCEPT ![i] = Claimed(FALSE)],
         returned' = returned, task'.retryFor = task.retryFor, task.status # "deleted",
         task'.count = IF new.attempt = 1 THEN task.count + 1 ELSE task.count
  PROVE  Counting'
<1> USE DEF Counting
<1>0. run[i].status = "none" /\ i \notin returned
  BY DEF Fresh, Slots
<1>1. Slots'
  BY <1>0 DEF Slots, TypeOK, Claimed
<1>2. Names'
  <2>0. \A j \in Runs : run[j].status # "none" => run'[j].status # "none"
    BY DEF TypeOK
  <2>1. ASSUME task.retryFor # 0
        PROVE  task.retryFor \in Runs /\ run'[task.retryFor].status # "none"
    <3>1. task.retryFor \in Runs
      BY <2>1, BoundAssumption DEF TypeOK, Task, Runs
    <3> QED BY <2>0, <2>1, <3>1 DEF Names
  <2>2. run'[i] = new
    BY DEF TypeOK
  <2>3. ASSUME NEW j \in Runs, run'[j].occ # 0 PROVE run'[run'[j].occ].status # "none"
    <3>1. CASE j = i
      BY <2>1, <2>2, <2>3, <3>1
    <3>2. CASE j # i
      <4>1. run'[j] = run[j]
        BY <3>2 DEF TypeOK
      <4>2. run[j].occ \in Runs
        BY <2>3, <4>1, BoundAssumption DEF TypeOK, Run, Runs
      <4> QED BY <2>0, <2>3, <4>1, <4>2 DEF Names
    <3> QED BY <3>1, <3>2
  <2> QED BY <2>1, <2>3 DEF Names
<1>3. CountExplained'
  <2> DEFINE before == {j \in Runs \ returned : run[j].attempt = 1}
             after == {j \in Runs \ returned : run'[j].attempt = 1}
  <2>1. task.count = Cardinality(before) /\ task.count \in Nat
    BY DEF CountExplained, TypeOK, Task
  <2>2. IsFiniteSet(before) /\ i \notin before
    <3>1. IsFiniteSet(Runs)
      BY BoundAssumption, FS_Interval DEF Runs
    <3> QED BY <1>0, <3>1, FS_Subset DEF Slots
  <2>3. after = IF new.attempt = 1 THEN before \cup {i} ELSE before
    BY <1>0 DEF TypeOK, Slots
  <2>4. Cardinality(before \cup {i}) = Cardinality(before) + 1
    BY <2>2, FS_AddElement
  <2> HIDE DEF before
  <2>5. task'.count = Cardinality(after)
    BY <2>1, <2>3, <2>4
  <2> QED BY <2>5 DEF CountExplained
<1> QED BY <1>1, <1>2, <1>3

LEMMA ClaimCounts ==
  ASSUME TypeOK, Standing, Counting, NEW i \in Runs, ClaimDue(i)
  PROVE  Counting'
<1> DEFINE occ == IF task.retry = 0 THEN i ELSE task.retryFor
<1>1. task.status = "active" /\ Fresh(i) /\ returned' = returned
  BY DEF ClaimDue
<1>2. /\ task'.count = Counted /\ task'.retryFor = task.retryFor
      /\ task'.status = "active"
  BY <1>1 DEF ClaimDue, TypeOK, Task
<1>3. task.retry \in Nat
  BY PolicyTyped DEF TypeOK, Task
<1>4. CASE task.retry > 0 /\ run' = run
  <2>1. exec' = exec \/ exec' = [exec EXCEPT ![i] = Claimed(FALSE)]
    BY DEF ClaimDue
  <2>2. NewRun("schedule", occ, task.retry + 1).status = "running"
    BY DEF NewRun
  <2>3. run[i].status = "none"
    BY <1>1 DEF Fresh
  <2>4. exec' = exec
    <3>1. ASSUME run' = [run EXCEPT ![i] = NewRun("schedule", occ, task.retry + 1)] PROVE FALSE
      <4>1. run'[i] = NewRun("schedule", occ, task.retry + 1)
        BY <3>1 DEF TypeOK
      <4> QED BY <1>4, <2>2, <2>3, <4>1
    <3> QED BY <3>1 DEF ClaimDue
  <2>5. Quiet
    BY <1>1, <1>2, <1>3, <1>4, <2>4 DEF Quiet, Counted, Counting, Slots
  <2> QED BY <2>5, QuietCounts
<1>5. CASE run' # run \/ task.retry = 0
  <2>1. task.retry = 0 => ~KeyTaken(occ, task.retry + 1)
    <3>1. ASSUME NEW j \in Runs, run[j].occ = i, task.retry = 0 PROVE FALSE
      <4>1. run[i].status # "none"
        BY <3>1, BoundAssumption DEF Counting, Names, Runs
      <4> QED BY <1>1, <4>1 DEF Fresh
    <3> QED BY <3>1 DEF KeyTaken
  <2>2. /\ run' = [run EXCEPT ![i] = NewRun("schedule", occ, task.retry + 1)]
        /\ exec' = [exec EXCEPT ![i] = Claimed(FALSE)]
    BY <1>5, <2>1 DEF ClaimDue
  <2> DEFINE new == NewRun("schedule", occ, task.retry + 1)
  <2>3. new \in Run
    <3>1. task.retry \in 0..policy.retries /\ policy.retries \in Nat
          /\ task.retryFor \in 0..MaxRuns
      BY PolicyTyped DEF TypeOK, Task
    <3>2. task.retry + 1 \in 0..(policy.retries + 1) /\ occ \in 0..MaxRuns
      BY <3>1, BoundAssumption DEF Runs
    <3> HIDE DEF occ
    <3> QED BY <3>2 DEF NewRun, Run
  <2>4. new.status = "running" /\ new.occ = occ /\ new.attempt = task.retry + 1
    BY DEF NewRun
  <2>5. task'.count = IF new.attempt = 1 THEN task.count + 1 ELSE task.count
    BY <1>2, <1>3, <2>4 DEF Counted
  <2>6. new.occ \in {0, i} \/ new.occ = task.retryFor
    BY <2>4
  <2> HIDE DEF new, occ
  <2> QED BY <1>1, <1>2, <2>2, <2>3, <2>4, <2>5, <2>6, NewCounts DEF new
<1> QED BY <1>3, <1>4, <1>5

LEMMA OnDemandCounts ==
  ASSUME TypeOK, Counting, NEW i \in Runs, NEW source \in {"manual", "webhook"},
         StartOnDemand(i, source)
  PROVE  Counting'
<1> DEFINE new == NewRun(source, i, 1)
<1>1. new \in Run
  BY PolicyTyped, BoundAssumption DEF NewRun, Run, Runs, TypeOK
<1>2. new.status = "running" /\ new.occ = i /\ new.attempt = 1
  BY DEF NewRun
<1>3. task'.count = task.count + 1 /\ task'.retryFor = task.retryFor /\ task.status = "active"
  BY DEF StartOnDemand, TypeOK, Task
<1>4. /\ run' = [run EXCEPT ![i] = new] /\ exec' = [exec EXCEPT ![i] = Claimed(FALSE)]
      /\ returned' = returned /\ Fresh(i)
  BY DEF StartOnDemand
<1> HIDE DEF new
<1> QED BY <1>1, <1>2, <1>3, <1>4, NewCounts

(* A slot that is given back was counted, and is not given back again. *)
LEMMA ReleaseCounts ==
  ASSUME TypeOK, Counting, NEW i \in Runs, exec[i].phase \in {"claimed", "capped"},
         Release(i), NEW outcome \in Outcomes, Ends(i, outcome), run' = run
  PROVE  Counting'
<1> USE DEF Counting
<1>0. run[i].status # "none" /\ i \notin returned
  BY DEF Slots
<1>1. returned' \subseteq returned \cup {i}
      /\ task'.status = task.status /\ task'.retryFor = task.retryFor
  BY DEF Release, TypeOK, Task
<1>2. /\ exec'[i].phase = "ending"
      /\ \A j \in Runs : j # i => exec'[j] = exec[j]
  BY DEF Ends, TypeOK, Exec
<1>3. CASE returned' = returned /\ task'.count = task.count
  BY <1>0, <1>1, <1>2, <1>3, QuietCounts DEF Quiet, Slots
<1>4. CASE returned' # returned \/ task'.count # task.count
  <2>1. /\ Spends(i) /\ returned' = returned \cup {i} /\ task.status # "deleted"
        /\ task'.count = IF task.count > 0 THEN task.count - 1 ELSE 0
    BY <1>4 DEF Release, TypeOK, Task
  <2>2. Slots'
    <3>1. run[i].status # "awaiting"
      BY DEF Slots
    <3> QED BY <1>0, <1>2, <2>1, <3>1 DEF Slots, TypeOK
  <2>3. Names'
    BY <1>1 DEF Names
  <2> DEFINE before == {j \in Runs \ returned : run[j].attempt = 1}
             after == {j \in Runs \ returned' : run'[j].attempt = 1}
  <2>4. task.count = Cardinality(before) /\ task.count \in Nat
    BY <2>1 DEF CountExplained, TypeOK, Task
  <2>5. IsFiniteSet(before) /\ i \in before
    <3>1. IsFiniteSet(Runs)
      BY BoundAssumption, FS_Interval DEF Runs
    <3> QED BY <1>0, <2>1, <3>1, FS_Subset DEF Spends
  <2>6. after = before \ {i}
    BY <2>1
  <2>7. Cardinality(before \ {i}) = Cardinality(before) - 1
    BY <2>5, FS_RemoveElement
  <2>8. before # {}
    BY <2>5
  <2>9. Cardinality(before) > 0
    BY <2>4, <2>5, <2>8, FS_EmptySet
  <2> HIDE DEF before
  <2>10. task'.count = Cardinality(after)
    BY <2>1, <2>4, <2>6, <2>7, <2>9
  <2>11. CountExplained'
    BY <2>10 DEF CountExplained
  <2> QED BY <2>2, <2>3, <2>11
<1> QED BY <1>3, <1>4

LEMMA CountingKept ==
  TypeOK /\ Reports /\ Standing /\ Counting /\ [Next]_vars => Counting'
<1> SUFFICES ASSUME TypeOK, Reports, Standing, Counting, [Next]_vars PROVE Counting'
  OBVIOUS
<1>0. task \in Task /\ run \in [Runs -> Run] /\ exec \in [Runs -> Exec] /\ Slots
  BY DEF TypeOK, Counting
<1>1. CASE UNCHANGED vars
  BY <1>0, <1>1, QuietCounts DEF vars, Quiet, Slots
<1>2. CASE ExpireTask \/ Due \/ RuleEnds \/ ExpiryPasses
  <2>1. /\ task'.count = task.count /\ task'.retryFor = task.retryFor
        /\ task.status = "deleted" => task'.status = "deleted"
    BY <1>0, <1>2 DEF ExpireTask, Due, RuleEnds, ExpiryPasses, Task
  <2>2. run' = run /\ exec' = exec /\ returned' = returned
    BY <1>2 DEF ExpireTask, Due, RuleEnds, ExpiryPasses
  <2> QED BY <1>0, <2>1, <2>2, QuietCounts DEF Quiet, Slots
<1>3. ASSUME NEW i \in Runs, FindExpired(i) PROVE Counting'
  BY <1>0, <1>3, QuietCounts DEF FindExpired, Quiet, Slots
<1>4. ASSUME NEW i \in Runs, SweepFinalize(i) PROVE Counting'
  <2>1. exec' = exec /\ returned' = returned /\ Record(i, "timeout") /\ "timeout" \in Outcomes
    BY <1>4 DEF SweepFinalize, Outcomes
  <2> QED BY <1>0, <2>1, RecordQuiet, QuietCounts DEF Quiet, Slots
<1>5. ASSUME NEW i \in Runs, Finalize(i) PROVE Counting'
  <2>1. returned' = returned /\ Record(i, exec[i].outcome) /\ exec[i].outcome \in Outcomes
        /\ exec[i].phase = "ending"
    BY <1>5 DEF Finalize, Reports
  <2>2. \A j \in Runs : exec'[j].phase # exec[j].phase => j = i /\ exec'[j].phase = "idle"
    BY <1>0, <1>5 DEF Finalize, Leaves, Idle
  <2> QED BY <1>0, <2>1, <2>2, RecordQuiet, QuietCounts DEF Quiet, Slots
<1>6. ASSUME NEW i \in Runs, ExpireApproval(i) \/ LeaseLapses(i) \/ ApprovalLapses(i)
      PROVE  Counting'
  <2>1. \A j \in Runs : /\ run'[j].attempt = run[j].attempt /\ run'[j].occ = run[j].occ
                        /\ run'[j].status = "none" <=> run[j].status = "none"
                        /\ run'[j].status = "awaiting" => run[j].status = "awaiting"
    BY <1>0, <1>6 DEF ExpireApproval, LeaseLapses, ApprovalLapses, Run
  <2>2. task' = task /\ exec' = exec /\ returned' = returned
    BY <1>6 DEF ExpireApproval, LeaseLapses, ApprovalLapses
  <2> QED BY <1>0, <2>1, <2>2, QuietCounts DEF Quiet, Slots
<1>7. ASSUME NEW i \in Runs, ClaimDue(i) PROVE Counting'
  BY <1>7, ClaimCounts
<1>8. ASSUME NEW i \in Runs, NEW source \in {"manual", "webhook"}, StartOnDemand(i, source)
      PROVE  Counting'
  BY <1>8, OnDemandCounts
<1>9. ASSUME NEW i \in Runs, CapRelease(i) \/ Skip(i) PROVE Counting'
  <2>1. exec[i].phase \in {"claimed", "capped"} /\ Release(i) /\ Ends(i, "cancelled")
        /\ run' = run /\ "cancelled" \in Outcomes
    BY <1>9 DEF CapRelease, Skip, Outcomes
  <2> QED BY <2>1, ReleaseCounts
<1>10. ASSUME NEW i \in Runs, exec[i].phase # "idle", run' = run, returned' = returned,
              task'.count = task.count, task'.retryFor = task.retryFor,
              task.status = "deleted" => task'.status = "deleted",
              \A j \in Runs : j # i => exec'[j] = exec[j],
              exec'[i].phase \notin {"idle", "ending"} => exec[i].phase \in {"claimed", "working"}
       PROVE  Counting'
  BY <1>0, <1>10, QuietCounts DEF Quiet, Slots
<1>11. ASSUME NEW i \in Runs, CapPause(i) PROVE Counting'
  <2>1. task'.count = task.count /\ task'.retryFor = task.retryFor
        /\ (task.status = "deleted" => task'.status = "deleted")
    BY <1>0, <1>11 DEF CapPause, Task
  <2>2. exec[i].phase = "claimed" /\ run' = run /\ returned' = returned
        /\ \A j \in Runs : j # i => exec'[j] = exec[j]
    BY <1>0, <1>11 DEF CapPause, Phase
  <2> QED BY <1>10, <2>1, <2>2
<1>12. ASSUME NEW i \in Runs, Start(i) PROVE Counting'
  <2>1. exec[i].phase = "claimed" /\ run' = run /\ returned' = returned /\ task' = task
        /\ \A j \in Runs : j # i => exec'[j] = exec[j]
    BY <1>0, <1>12 DEF Start, Phase
  <2> QED BY <1>10, <2>1
<1>13. ASSUME NEW i \in Runs, NEW outcome, Finish(i, outcome) PROVE Counting'
  <2>1. exec[i].phase = "working" /\ run' = run /\ returned' = returned /\ task' = task
        /\ \A j \in Runs : j # i => exec'[j] = exec[j]
    BY <1>0, <1>13 DEF Finish, Ends
  <2> QED BY <1>10, <2>1
<1>14. ASSUME NEW i \in Runs, Charge(i) \/ StatementFails(i) \/ Crash(i) PROVE Counting'
  <2>1. /\ exec[i].phase # "idle" /\ run' = run /\ returned' = returned /\ task' = task
        /\ \A j \in Runs : j # i => exec'[j] = exec[j]
    BY <1>0, <1>14 DEF Charge, StatementFails, Crash, Ends, Leaves
  <2>2. exec'[i].phase \in {"idle", "ending"} \/ exec' = exec
    BY <1>0, <1>14 DEF Charge, StatementFails, Crash, Ends, Leaves, Idle, Exec
  <2>3. CASE exec' = exec
    BY <1>0, <2>1, <2>3, QuietCounts DEF Quiet, Slots
  <2> QED BY <1>10, <2>1, <2>2, <2>3
<1>15. ASSUME NEW i \in Runs, Park(i) PROVE Counting'
  <2>1. exec[i].phase = "working" /\ returned' = returned
        /\ (task' = task \/ task' = Parks)
    BY <1>15 DEF Park
  <2>2. task'.count = task.count /\ task'.retryFor = task.retryFor
        /\ (task.status = "deleted" => task'.status = "deleted")
    BY <1>0, <2>1 DEF Parks, Task
  <2>3. exec'[i].phase = "idle" /\ \A j \in Runs : j # i => exec'[j] = exec[j]
    BY <1>0, <1>15 DEF Park, Leaves, Idle
  <2>4. \A j \in Runs : /\ run'[j].attempt = run[j].attempt /\ run'[j].occ = run[j].occ
                        /\ run'[j].status = "none" <=> run[j].status = "none"
                        /\ run'[j].status = "awaiting" => run[j].status = "awaiting" \/ j = i
    BY <1>0, <1>15 DEF Park, Run
  <2> QED BY <1>0, <2>1, <2>2, <2>3, <2>4, QuietCounts DEF Quiet, Slots
<1>16. CASE SwitchOff \/ SwitchOn \/ Rename \/ Retime
  <2>1. /\ task'.count = task.count /\ task'.retryFor \in {0, task.retryFor}
        /\ task.status # "deleted"
    BY <1>0, <1>16 DEF SwitchOff, SwitchOn, Rename, Retime, Switched, Editable, Task
  <2>2. run' = run /\ exec' = exec /\ returned' = returned
    BY <1>16 DEF SwitchOff, SwitchOn, Rename, Retime
  <2> QED BY <1>0, <2>1, <2>2, QuietCounts DEF Quiet, Slots
<1>17. ASSUME NEW i \in Runs, Answer(i) PROVE Counting'
  <2>1. run[i].status = "awaiting" /\ returned' = returned
        /\ run' = [run EXCEPT ![i] = Resumed(i)]
        /\ exec' = [exec EXCEPT ![i] = Claimed(TRUE)] /\ task.status # "deleted"
    BY <1>17 DEF Answer, Answerable, Standing
  <2>2. task'.count = task.count /\ task'.retryFor = task.retryFor
    BY <1>0, <1>17 DEF Answer, Task
  <2>3. \A j \in Runs : /\ run'[j].attempt = run[j].attempt /\ run'[j].occ = run[j].occ
                        /\ run'[j].status = "none" <=> run[j].status = "none"
                        /\ run'[j].status = "awaiting" => run[j].status = "awaiting" /\ j # i
    BY <1>0, <2>1 DEF Resumed, Run
  <2>4. \A j \in Runs : j # i => exec'[j] = exec[j]
    BY <1>0, <2>1
  <2> QED BY <1>0, <2>1, <2>2, <2>3, <2>4, QuietCounts DEF Quiet, Slots
<1>18. CASE Delete
  <2>1. task'.status = "deleted" /\ task'.retryFor = task.retryFor
        /\ exec' = exec /\ returned' = returned
    BY <1>0, <1>18 DEF Delete, Task
  <2>2. \A j \in Runs :
          run'[j] = [NoRun EXCEPT !.status = IF run[j].status = "none" THEN "none" ELSE "gone"]
    BY <1>18 DEF Delete
  <2>3. \A j \in Runs : /\ run'[j].status = IF run[j].status = "none" THEN "none" ELSE "gone"
                        /\ run'[j].attempt = 0 /\ run'[j].occ = 0
    BY <2>2 DEF NoRun
  <2>4. Slots'
    BY <1>0, <2>1, <2>3 DEF Slots, TypeOK
  <2>5. task.retryFor # 0 => task.retryFor \in Runs
    BY <1>0, BoundAssumption DEF Task, Runs
  <2>6. Names'
    BY <2>1, <2>3, <2>5 DEF Counting, Names
  <2> QED BY <2>1, <2>4, <2>6 DEF Counting, CountExplained
<1> QED
  BY <1>1, <1>2, <1>3, <1>4, <1>5, <1>6, <1>7, <1>8, <1>9, <1>11, <1>12, <1>13, <1>14, <1>15,
     <1>16, <1>17, <1>18 DEF Next, Cron, Sweep, Time, Owner, Process

-------------------------------------------------------------------------------
(* Retries. *)

Made(i, occ, attempt) ==
  run[i].source = "schedule" /\ run[i].occ = occ /\ run[i].attempt = attempt

(* The key of a run belongs to one run, and a retry follows a run that has ended. *)
Keyed ==
  /\ \A i \in Runs : run[i].source = "schedule" => run[i].status \notin {"none", "gone"}
  /\ \A i, j \in Runs :
       run[j].source = "schedule" /\ Made(i, run[j].occ, run[j].attempt) => i = j
  /\ \A i \in Runs : run[i].source = "schedule" /\ run[i].attempt > 1 =>
       \E j \in Runs : Made(j, run[i].occ, run[i].attempt - 1) /\ run[j].status \in Outcomes

(* The retry that a task still names is of a run that has ended; if it was made before, the    *)
(* run goes on, or waits while its task is paused, or its question was not answered.           *)
Retrying ==
  task.retry > 0 /\ task.status # "deleted" =>
    /\ \E i \in Runs : Made(i, task.retryFor, task.retry) /\ run[i].status \in Outcomes
    /\ \A i \in Runs : Made(i, task.retryFor, task.retry + 1) =>
         /\ run[i].status \in {"running", "awaiting", "cancelled"}
         /\ task.status = "active" => run[i].status # "awaiting"

Attempts == Keyed /\ Retrying /\ (lapsed => policy.expires)

(* What a step does that makes no scheduled run and decides on no retry. *)
Calm ==
  /\ \A j \in Runs : /\ run'[j].source = run[j].source /\ run'[j].occ = run[j].occ
                     /\ run'[j].attempt = run[j].attempt
                     /\ run[j].status \in Outcomes => run'[j].status = run[j].status
                     /\ run[j].source = "schedule" => run'[j].status \notin {"none", "gone"}
  /\ \/ task'.retry = 0
     \/ /\ task'.retry = task.retry /\ task'.retryFor = task.retryFor
        /\ \A j \in Runs : run[j].source = "schedule" =>
             /\ run'[j].status \in {run[j].status, "running", "awaiting", "cancelled"}
             /\ run'[j].status = "awaiting" /\ task'.status = "active" =>
                  run[j].status = "awaiting" /\ task.status = "active"
  /\ task.status = "deleted" => task'.status = "deleted"

LEMMA CalmKeeps ==
  ASSUME TypeOK, Attempts, Calm, policy' = policy, lapsed' => policy.expires
  PROVE  Attempts'
<1> USE DEF Attempts, Calm
<1>0. task.retry \in Nat
  BY PolicyTyped DEF TypeOK, Task
<1>1. Keyed'
  <2> USE DEF Keyed, Made
  <2>1. \A i \in Runs : run'[i].source = "schedule" => run'[i].status \notin {"none", "gone"}
    OBVIOUS
  <2>2. \A i, j \in Runs :
          run'[j].source = "schedule" /\ Made(i, run[j].occ, run[j].attempt)' => i = j
    OBVIOUS
  <2>3. ASSUME NEW i \in Runs, run'[i].source = "schedule", run'[i].attempt > 1
        PROVE  \E j \in Runs : Made(j, run[i].occ, run[i].attempt - 1)'
                               /\ run'[j].status \in Outcomes
    <3>1. PICK j \in Runs : Made(j, run[i].occ, run[i].attempt - 1) /\ run[j].status \in Outcomes
      BY <2>3
    <3> QED BY <3>1
  <2> QED BY <2>1, <2>2, <2>3
<1>2. ASSUME task'.retry # 0, task'.status # "deleted" PROVE Retrying'
  <2> USE DEF Made
  <2>1. task'.retry = task.retry /\ task'.retryFor = task.retryFor /\ task.status # "deleted"
        /\ \A j \in Runs : run[j].source = "schedule" =>
             /\ run'[j].status \in {run[j].status, "running", "awaiting", "cancelled"}
             /\ run'[j].status = "awaiting" /\ task'.status = "active" =>
                  run[j].status = "awaiting" /\ task.status = "active"
    BY <1>2
  <2>2. task.retry > 0
    BY <1>0, <1>2, <2>1
  <2>3. PICK i \in Runs : Made(i, task.retryFor, task.retry) /\ run[i].status \in Outcomes
    BY <2>1, <2>2 DEF Retrying
  <2>4. Made(i, task.retryFor, task.retry)' /\ run'[i].status \in Outcomes
    BY <2>1, <2>3
  <2>5. ASSUME NEW j \in Runs, Made(j, task.retryFor, task.retry + 1)'
        PROVE  /\ run'[j].status \in {"running", "awaiting", "cancelled"}
               /\ task'.status = "active" => run'[j].status # "awaiting"
    <3>1. Made(j, task.retryFor, task.retry + 1)
      BY <2>1, <2>5
    <3>2. /\ run[j].status \in {"running", "awaiting", "cancelled"}
          /\ task.status = "active" => run[j].status # "awaiting"
      BY <2>1, <2>2, <3>1 DEF Retrying
    <3> QED BY <2>1, <3>1, <3>2
  <2> QED BY <2>1, <2>4, <2>5 DEF Retrying
<1>3. Retrying'
  BY <1>2 DEF Retrying
<1> QED BY <1>1, <1>3

(* The end of a scheduled run decides on a retry of it, which nobody has made yet. *)
LEMMA RecordRetries ==
  ASSUME TypeOK, Standing, Attempts, NEW i \in Runs, NEW outcome \in Outcomes,
         Record(i, outcome), policy' = policy, lapsed' = lapsed
  PROVE  Attempts'
<1>0. run \in [Runs -> Run] /\ task.retry \in Nat /\ task \in Task
  BY PolicyTyped DEF TypeOK, Task
<1>1. CASE run[i].status # "running"
  BY <1>0, <1>1, CalmKeeps DEF Record, Calm, Attempts, Keyed
<1>2. CASE run[i].status = "running"
  <2>1. run' = [run EXCEPT ![i].status = outcome, ![i].lease = "none"]
    BY <1>2 DEF Record
  <2>2. \A j \in Runs : /\ run'[j].source = run[j].source /\ run'[j].occ = run[j].occ
                        /\ run'[j].attempt = run[j].attempt
                        /\ j # i => run'[j] = run[j]
    BY <1>0, <2>1
  <2>3. run'[i].status = outcome /\ outcome \notin {"none", "gone", "running", "awaiting"}
    BY <1>0, <2>1 DEF Outcomes
  <2>4. PICK upcoming \in Upcoming : task' = Concluded(i, outcome, upcoming)
    BY <1>2 DEF Record
  <2>5. task'.retry = Retried(i, outcome)[1] /\ task'.retryFor = Retried(i, outcome)[2]
    BY <1>0, <2>4 DEF Concluded, Task
  <2>6. /\ task'.status = "active" => task.status = "active"
        /\ task.status = "deleted" => task'.status = "deleted"
    BY <2>4, ConcludedShape DEF TypeOK
  <2>7. CASE run[i].source # "schedule" \/ ~Retryable(i, outcome)
    <3>1. \/ task'.retry = 0
          \/ run[i].source # "schedule" /\ task'.retry = task.retry
             /\ task'.retryFor = task.retryFor
      BY <2>5, <2>7 DEF Retried
    <3>2. Calm
      <4>1. \A j \in Runs : run[j].status \in Outcomes => run'[j].status = run[j].status
        BY <1>2, <2>2 DEF Outcomes
      <4>2. \A j \in Runs : run[j].source = "schedule" => run'[j].status \notin {"none", "gone"}
        BY <2>2, <2>3 DEF Attempts, Keyed
      <4>3. CASE task'.retry = 0
        BY <2>2, <2>6, <4>1, <4>2, <4>3 DEF Calm
      <4>4. CASE run[i].source # "schedule" /\ task'.retry = task.retry
                 /\ task'.retryFor = task.retryFor
        <5>1. \A j \in Runs : run[j].source = "schedule" => run'[j] = run[j]
          BY <2>2, <4>4
        <5> QED BY <2>2, <2>6, <4>1, <4>2, <4>4, <5>1 DEF Calm
      <4> QED BY <3>1, <4>3, <4>4
    <3> QED BY <3>2, CalmKeeps DEF Attempts
  <2>8. CASE run[i].source = "schedule" /\ Retryable(i, outcome)
    <3>1. task'.retry = run[i].attempt /\ task'.retryFor = run[i].occ
      BY <2>5, <2>8 DEF Retried
    <3>2. Keyed'
      <4>1. \A a \in Runs : run'[a].source = "schedule" => run'[a].status \notin {"none", "gone"}
        BY <2>2, <2>3 DEF Attempts, Keyed
      <4>2. \A a, b \in Runs : run'[b].source = "schedule"
                                /\ Made(a, run[b].occ, run[b].attempt)' => a = b
        BY <2>2 DEF Attempts, Keyed, Made
      <4>3. ASSUME NEW a \in Runs, run'[a].source = "schedule", run'[a].attempt > 1
            PROVE  \E b \in Runs : Made(b, run[a].occ, run[a].attempt - 1)'
                                   /\ run'[b].status \in Outcomes
        <5>1. PICK b \in Runs : Made(b, run[a].occ, run[a].attempt - 1)
                               /\ run[b].status \in Outcomes
          BY <2>2, <4>3 DEF Attempts, Keyed
        <5>2. b # i
          BY <1>2, <5>1 DEF Outcomes
        <5> QED BY <2>2, <5>1, <5>2 DEF Made
      <4> QED BY <2>2, <4>1, <4>2, <4>3 DEF Keyed
    <3>3. run[i].attempt \in Nat
      BY <1>0, PolicyTyped DEF Run, TypeOK
    <3>4. ASSUME NEW j \in Runs, Made(j, run[i].occ, run[i].attempt + 1)', run[i].attempt > 0
          PROVE  FALSE
      <4>1. run[j].source = "schedule" /\ run[j].occ = run[i].occ
            /\ run[j].attempt = run[i].attempt + 1
        BY <2>2, <3>4 DEF Made
      <4>2. run[j].attempt > 1 /\ run[j].attempt - 1 = run[i].attempt
        BY <3>3, <3>4, <4>1
      <4>3. PICK k \in Runs : Made(k, run[i].occ, run[i].attempt) /\ run[k].status \in Outcomes
        BY <4>1, <4>2 DEF Attempts, Keyed
      <4>4. k = i
        BY <2>8, <4>3 DEF Attempts, Keyed
      <4> QED BY <1>2, <4>3, <4>4 DEF Outcomes
    <3>5. Made(i, run[i].occ, run[i].attempt)' /\ run'[i].status \in Outcomes
      BY <2>2, <2>3, <2>8 DEF Made
    <3>6. Retrying'
      <4>1. CASE run[i].attempt > 0
        <5>1. \A j \in Runs : ~Made(j, run[i].occ, run[i].attempt + 1)'
          BY <3>4, <4>1
        <5>2. \A j \in Runs : ~Made(j, task.retryFor, task.retry + 1)'
          BY <2>2, <3>1, <5>1 DEF Made
        <5>3. Made(i, task.retryFor, task.retry)'
          BY <2>2, <3>1, <3>5 DEF Made
        <5> QED BY <3>5, <5>2, <5>3 DEF Retrying
      <4>2. CASE ~(run[i].attempt > 0)
        BY <3>1, <4>2 DEF Retrying
      <4> QED BY <4>1, <4>2
    <3> QED BY <3>2, <3>6 DEF Attempts
  <2> QED BY <2>7, <2>8
<1> QED BY <1>1, <1>2

(* A run that is made takes a key of its own: that of an occurrence or of the retry that is due. *)
LEMMA NewRetries ==
  ASSUME TypeOK, Attempts, NEW i \in Runs, Fresh(i), NEW new \in Run, new.status = "running",
         run' = [run EXCEPT ![i] = new], task'.retry = task.retry,
         task'.retryFor = task.retryFor, task.status = "active", task'.status = "active",
         policy' = policy, lapsed' = lapsed,
         new.source = "schedule" =>
           /\ ~KeyTaken(new.occ, new.attempt)
           /\ \/ new.attempt = 1
              \/ task.retry > 0 /\ new.occ = task.retryFor /\ new.attempt = task.retry + 1
  PROVE  Attempts'
<1>0. run \in [Runs -> Run] /\ task.retry \in Nat
  BY PolicyTyped DEF TypeOK, Task
<1>1. run'[i] = new /\ \A j \in Runs : j # i => run'[j] = run[j]
  BY <1>0
<1>2. run[i].status = "none" /\ run[i].source # "schedule"
  BY DEF Fresh, Attempts, Keyed
<1>3. \A j \in Runs : \A occ, attempt : Made(j, occ, attempt) =>
        /\ run'[j] = run[j] /\ j # i
  BY <1>1, <1>2 DEF Made
<1>4. Keyed'
  <2>1. \A a \in Runs : run'[a].source = "schedule" => run'[a].status \notin {"none", "gone"}
    BY <1>1 DEF Attempts, Keyed
  <2>2. ASSUME NEW a \in Runs, NEW b \in Runs, run'[b].source = "schedule",
               run'[a].source = "schedule", run'[a].occ = run'[b].occ,
               run'[a].attempt = run'[b].attempt
        PROVE  a = b
    <3>1. CASE a # i /\ b # i
      BY <1>1, <2>2, <3>1 DEF Attempts, Keyed, Made
    <3>2. CASE a = i /\ b # i
      BY <1>1, <2>2, <3>2 DEF KeyTaken
    <3>3. CASE a # i /\ b = i
      BY <1>1, <2>2, <3>3 DEF KeyTaken
    <3> QED BY <3>1, <3>2, <3>3
  <2>3. ASSUME NEW a \in Runs, run'[a].source = "schedule", run'[a].attempt > 1
        PROVE  \E b \in Runs : /\ run'[b].source = "schedule" /\ run'[b].occ = run'[a].occ
                               /\ run'[b].attempt = run'[a].attempt - 1
                               /\ run'[b].status \in Outcomes
    <3>1. CASE a # i
      <4>1. PICK b \in Runs : Made(b, run[a].occ, run[a].attempt - 1)
                             /\ run[b].status \in Outcomes
        BY <1>1, <2>3, <3>1 DEF Attempts, Keyed
      <4>2. run'[b] = run[b] /\ run'[a] = run[a]
        BY <1>1, <1>3, <3>1, <4>1
      <4> QED BY <4>1, <4>2 DEF Made
    <3>2. CASE a = i
      <4>1. task.retry > 0 /\ new.occ = task.retryFor /\ new.attempt = task.retry + 1
        BY <1>1, <2>3, <3>2
      <4>2. PICK b \in Runs : Made(b, task.retryFor, task.retry) /\ run[b].status \in Outcomes
        BY <4>1 DEF Attempts, Retrying
      <4>3. run'[b] = run[b]
        BY <1>3, <4>2
      <4>4. new.attempt - 1 = task.retry
        BY <1>0, <4>1
      <4> QED BY <1>1, <3>2, <4>1, <4>2, <4>3, <4>4 DEF Made
    <3> QED BY <3>1, <3>2
  <2> QED BY <2>1, <2>2, <2>3 DEF Keyed, Made
<1>5. ASSUME task.retry > 0
      PROVE  /\ \E a \in Runs : /\ run'[a].source = "schedule" /\ run'[a].occ = task.retryFor
                                /\ run'[a].attempt = task.retry /\ run'[a].status \in Outcomes
             /\ \A a \in Runs : /\ run'[a].source = "schedule" /\ run'[a].occ = task.retryFor
                                /\ run'[a].attempt = task.retry + 1
                  => run'[a].status \in {"running", "cancelled"}
  <2>1. PICK b \in Runs : Made(b, task.retryFor, task.retry) /\ run[b].status \in Outcomes
    BY <1>5 DEF Attempts, Retrying
  <2>2. run'[b] = run[b]
    BY <1>3, <2>1
  <2>3. \A a \in Runs : Made(a, task.retryFor, task.retry + 1) =>
          run[a].status \in {"running", "cancelled"}
    BY <1>5 DEF Attempts, Retrying
  <2>4. ASSUME NEW a \in Runs, run'[a].source = "schedule", run'[a].occ = task.retryFor,
               run'[a].attempt = task.retry + 1
        PROVE  run'[a].status \in {"running", "cancelled"}
    <3>1. CASE a = i
      BY <1>1, <3>1
    <3>2. CASE a # i
      BY <1>1, <2>3, <2>4, <3>2 DEF Made
    <3> QED BY <3>1, <3>2
  <2> QED BY <2>1, <2>2, <2>4 DEF Made
<1>6. Retrying'
  BY <1>5 DEF Retrying, Made
<1> QED BY <1>4, <1>6 DEF Attempts

LEMMA AttemptsKept ==
  TypeOK /\ Reports /\ Standing /\ Attempts /\ [Next]_vars => Attempts'
<1> SUFFICES ASSUME TypeOK, Reports, Standing, Attempts, [Next]_vars PROVE Attempts'
  OBVIOUS
<1>0. task \in Task /\ run \in [Runs -> Run] /\ task.retry \in Nat
      /\ \A j \in Runs : run[j].source = "schedule" => run[j].status \notin {"none", "gone"}
  BY PolicyTyped DEF TypeOK, Task, Attempts, Keyed
<1>1. ASSUME run' = run, task'.retry = 0 \/ (task'.retry = task.retry /\ task'.retryFor = task.retryFor),
             task'.status = "active" => task.status = "active" \/ task'.retry = 0,
             task.status = "deleted" => task'.status = "deleted",
             policy' = policy, lapsed' => policy.expires
      PROVE  Attempts'
  BY <1>0, <1>1, CalmKeeps DEF Calm
<1>2. CASE UNCHANGED vars
  BY <1>1, <1>2 DEF vars, Attempts
<1>3. CASE ExpireTask
  BY <1>0, <1>1, <1>3 DEF ExpireTask, Task, Attempts
<1>4. ASSUME NEW i \in Runs, FindExpired(i) PROVE Attempts'
  BY <1>1, <1>4 DEF FindExpired, Attempts
<1>5. ASSUME NEW i \in Runs, SweepFinalize(i) PROVE Attempts'
  BY <1>5, RecordRetries DEF SweepFinalize, Outcomes
<1>6. ASSUME NEW i \in Runs, ExpireApproval(i) PROVE Attempts'
  <2>1. run[i].status = "awaiting" /\ task' = task /\ policy' = policy /\ lapsed' = lapsed
        /\ run' = [run EXCEPT ![i].status = "cancelled", ![i].asked = "none"]
    BY <1>6 DEF ExpireApproval
  <2>2. \A j \in Runs : /\ run'[j].source = run[j].source /\ run'[j].occ = run[j].occ
                        /\ run'[j].attempt = run[j].attempt
                        /\ run'[j].status = IF j = i THEN "cancelled" ELSE run[j].status
    BY <1>0, <2>1 DEF Run
  <2> QED BY <1>0, <2>1, <2>2, CalmKeeps DEF Calm, Outcomes, Attempts
<1>7. ASSUME NEW i \in Runs, ClaimDue(i) PROVE Attempts'
  <2> DEFINE occ == IF task.retry = 0 THEN i ELSE task.retryFor
             new == NewRun("schedule", occ, task.retry + 1)
  <2>1. /\ task'.status = "active" /\ task.status = "active" /\ task'.retry = task.retry
        /\ task'.retryFor = task.retryFor /\ policy' = policy /\ lapsed' = lapsed /\ Fresh(i)
    BY <1>0, <1>7 DEF ClaimDue, Task
  <2>2. CASE run' = run
    BY <1>1, <2>1, <2>2 DEF Attempts
  <2>3. CASE run' # run
    <3>1. run' = [run EXCEPT ![i] = new] /\ ~KeyTaken(occ, task.retry + 1)
      BY <1>7, <2>3 DEF ClaimDue
    <3>2. occ \in 0..MaxRuns /\ task.retry + 1 \in 0..(policy.retries + 1)
      BY <1>0, PolicyTyped, BoundAssumption DEF Runs, Task, TypeOK
    <3> DEFINE o == occ
    <3>3. /\ new \in Run /\ new.status = "running" /\ new.source = "schedule"
          /\ new.occ = occ /\ new.attempt = task.retry + 1
      <4> HIDE DEF occ
      <4> QED BY <3>2 DEF NewRun, Run
    <3>4. new.attempt = 1
          \/ (task.retry > 0 /\ new.occ = task.retryFor /\ new.attempt = task.retry + 1)
      <4>1. CASE task.retry = 0
        BY <3>3, <4>1
      <4>2. CASE task.retry # 0
        BY <1>0, <3>3, <4>2
      <4> QED BY <4>1, <4>2
    <3> HIDE DEF new, occ
    <3> QED BY <2>1, <3>1, <3>3, <3>4, NewRetries
  <2> QED BY <2>2, <2>3
<1>8. ASSUME NEW i \in Runs, NEW source \in {"manual", "webhook"}, StartOnDemand(i, source)
      PROVE  Attempts'
  <2> DEFINE new == NewRun(source, i, 1)
  <2>1. new \in Run /\ new.status = "running" /\ new.source # "schedule"
    BY PolicyTyped, BoundAssumption DEF NewRun, Run, Runs, TypeOK
  <2>2. task'.retry = task.retry /\ task'.retryFor = task.retryFor /\ task.status = "active"
        /\ task'.status = "active"
    BY <1>0, <1>8 DEF StartOnDemand, Task
  <2>3. run' = [run EXCEPT ![i] = new] /\ policy' = policy /\ lapsed' = lapsed /\ Fresh(i)
    BY <1>8 DEF StartOnDemand
  <2> HIDE DEF new
  <2> QED BY <2>1, <2>2, <2>3, NewRetries
<1>9. ASSUME NEW i \in Runs, CapPause(i) PROVE Attempts'
  BY <1>0, <1>1, <1>9 DEF CapPause, Task, Attempts
<1>10. ASSUME NEW i \in Runs, CapRelease(i) \/ Skip(i) PROVE Attempts'
  <2>1. task'.retry = task.retry /\ task'.retryFor = task.retryFor /\ task'.status = task.status
    BY <1>0, <1>10 DEF CapRelease, Skip, Release, Task
  <2> QED BY <1>1, <1>10, <2>1 DEF CapRelease, Skip, Attempts
<1>11. ASSUME NEW i \in Runs, Start(i) \/ (\E outcome \in Outcomes : Finish(i, outcome))
              \/ Charge(i) \/ StatementFails(i) \/ Crash(i)
       PROVE  Attempts'
  BY <1>1, <1>11 DEF Start, Finish, Charge, StatementFails, Crash, Attempts
<1>12. ASSUME NEW i \in Runs, Park(i) PROVE Attempts'
  <2>1. policy' = policy /\ lapsed' = lapsed
    BY <1>12 DEF Park
  <2>2. CASE run[i].status # "running"
    BY <1>1, <1>12, <2>1, <2>2 DEF Park, Attempts
  <2>3. CASE run[i].status = "running"
    <3>1. task'.retry = task.retry /\ task'.retryFor = task.retryFor
          /\ task'.status # "active" /\ (task.status = "deleted" => task'.status = "deleted")
      BY <1>0, <1>12, <2>3 DEF Park, Parks, Task
    <3>2. run' = [run EXCEPT ![i].status = "awaiting", ![i].asked = "open", ![i].lease = "none"]
      BY <1>12, <2>3 DEF Park
    <3>3. \A j \in Runs : /\ run'[j].source = run[j].source /\ run'[j].occ = run[j].occ
                          /\ run'[j].attempt = run[j].attempt
                          /\ run'[j].status = IF j = i THEN "awaiting" ELSE run[j].status
      BY <1>0, <3>2 DEF Run
    <3> QED BY <1>0, <2>1, <2>3, <3>1, <3>3, CalmKeeps DEF Calm, Outcomes, Attempts
  <2> QED BY <2>2, <2>3
<1>13. ASSUME NEW i \in Runs, Finalize(i) PROVE Attempts'
  BY <1>13, RecordRetries DEF Finalize, Reports
<1>14. CASE Due \/ RuleEnds \/ ExpiryPasses
  BY <1>0, <1>1, <1>14 DEF Due, RuleEnds, ExpiryPasses, Task, Attempts
<1>15. ASSUME NEW i \in Runs, LeaseLapses(i) \/ ApprovalLapses(i) PROVE Attempts'
  <2>1. \A j \in Runs : /\ run'[j].source = run[j].source /\ run'[j].occ = run[j].occ
                        /\ run'[j].attempt = run[j].attempt /\ run'[j].status = run[j].status
    BY <1>0, <1>15 DEF LeaseLapses, ApprovalLapses, Run
  <2>2. task' = task /\ policy' = policy /\ lapsed' = lapsed
    BY <1>15 DEF LeaseLapses, ApprovalLapses
  <2> QED BY <1>0, <2>1, <2>2, CalmKeeps DEF Calm, Attempts
<1>16. CASE SwitchOff \/ SwitchOn
  BY <1>0, <1>1, <1>16 DEF SwitchOff, SwitchOn, Switched, Editable, Task, Attempts
<1>17. CASE Rename \/ Retime
  <2>1. task'.status = task.status
        /\ (task'.retry = 0 \/ (task'.retry = task.retry /\ task'.retryFor = task.retryFor))
    BY <1>0, <1>17 DEF Rename, Retime, Task
  <2> QED BY <1>1, <1>17, <2>1 DEF Rename, Retime, Attempts
<1>18. CASE Delete
  <2>1. task'.status = "deleted" /\ policy' = policy /\ lapsed' = lapsed
    BY <1>0, <1>18 DEF Delete, Task
  <2>2. \A j \in Runs :
          run'[j] = [NoRun EXCEPT !.status = IF run[j].status = "none" THEN "none" ELSE "gone"]
    BY <1>18 DEF Delete
  <2>3. \A j \in Runs : run'[j].source = "manual"
    BY <2>2 DEF NoRun
  <2> QED BY <2>1, <2>3 DEF Attempts, Keyed, Retrying, Made
<1>19. ASSUME NEW i \in Runs, Answer(i) PROVE Attempts'
  <2>1. run[i].status = "awaiting" /\ run' = [run EXCEPT ![i] = Resumed(i)]
        /\ policy' = policy /\ lapsed' = lapsed
    BY <1>19 DEF Answer, Answerable
  <2>2. \A j \in Runs : /\ run'[j].source = run[j].source /\ run'[j].occ = run[j].occ
                        /\ run'[j].attempt = run[j].attempt
                        /\ run'[j].status = IF j = i THEN "running" ELSE run[j].status
    BY <1>0, <2>1 DEF Run, Resumed
  <2>3. \/ task' = task
        \/ /\ task'.retry = task.retry /\ task'.retryFor = task.retryFor
           /\ ~OthersAwait(i) /\ task.status # "deleted"
    <3>1. task.reason = "approval" => task.status # "deleted"
      BY <2>1 DEF Standing
    <3> QED BY <1>0, <1>19, <3>1 DEF Answer, Task
  <2> QED BY <1>0, <2>1, <2>2, <2>3, CalmKeeps DEF Calm, Outcomes, OthersAwait, Attempts
<1> QED
  BY <1>2, <1>3, <1>4, <1>5, <1>6, <1>7, <1>8, <1>9, <1>10, <1>11, <1>12, <1>13, <1>14,
     <1>15, <1>16, <1>17, <1>18, <1>19 DEF Next, Cron, Sweep, Time, Owner, Process

-------------------------------------------------------------------------------
(* What makes a task due again. *)

Excused == over \/ policy.expires \/ Exhausted \/ (policy.limit > 0 /\ returned # {})
Driven == \E i \in Runs : run[i].status = "running" /\ run[i].source = "schedule"
Idles == task.status = "active" /\ task.next = "none"

LEMMA StillDriven ==
  ASSUME TypeOK, NeverStranded, policy' = policy, Idles' => Idles, over => over',
         task'.count \in Nat, task'.count >= task.count \/ returned' # {},
         returned \subseteq returned', Driven => Driven', RetrySpent => RetrySpent'
  PROVE  NeverStranded'
<1> SUFFICES ASSUME Idles, policy.kind = "recurring", ~RetrySpent', ~Driven'
             PROVE  Excused'
  BY DEF NeverStranded, Idles, Excused, Driven
<1>1. Excused
  BY DEF NeverStranded, Idles, Excused, Driven
<1>2. task.count \in Nat /\ policy.limit \in Nat
  BY PolicyTyped DEF TypeOK, Task
<1> QED BY <1>1, <1>2 DEF Excused, Exhausted

(* The end of a scheduled run makes its task due again, or ends it; that of another run leaves *)
(* the decision to the one that has it.                                                        *)
LEMMA RecordDrives ==
  ASSUME TypeOK, Attempts, NeverStranded, NEW i \in Runs, NEW outcome \in Outcomes,
         Record(i, outcome), UNCHANGED <<policy, over, returned>>
  PROVE  NeverStranded'
<1>0. run \in [Runs -> Run] /\ task \in Task
  BY DEF TypeOK
<1>1. CASE run[i].status # "running"
  <2>1. run' = run /\ task' = task
    BY <1>1 DEF Record
  <2> QED BY <2>1 DEF NeverStranded, Exhausted, RetrySpent
<1>2. CASE run[i].status = "running"
  <2>1. run' = [run EXCEPT ![i].status = outcome, ![i].lease = "none"]
    BY <1>2 DEF Record
  <2>2. \A j \in Runs : j # i => run'[j] = run[j]
    BY <1>0, <2>1
  <2>3. PICK upcoming \in Upcoming : task' = Concluded(i, outcome, upcoming)
    BY <1>2 DEF Record
  <2>4. task'.count = task.count /\ task.count \in Nat
        /\ (task.status # "active" => task'.status = task.status)
    BY <1>0, <2>3, ConcludedShape DEF TypeOK, Task
  <2>5. /\ task.status = "active" /\ task'.status = "active" =>
             task'.status = Decision(i, outcome, upcoming)[1]
             /\ task'.next = Decision(i, outcome, upcoming)[2]
        /\ task'.retry = Retried(i, outcome)[1] /\ task'.retryFor = Retried(i, outcome)[2]
    BY <1>0, <2>3 DEF Concluded, Task
  <2>6. CASE run[i].source = "schedule"
    <3>1. Decision(i, outcome, upcoming)[1] = "active" =>
            Decision(i, outcome, upcoming)[2] = "later"
      BY <2>6 DEF Decision, AfterOccurrence
    <3>2. ~Idles'
      BY <2>4, <2>5, <3>1 DEF Idles
    <3> QED BY <3>2 DEF NeverStranded, Idles
  <2>7. CASE run[i].source # "schedule"
    <3>1. ~Retryable(i, outcome)
      BY <2>7 DEF Retryable
    <3>2. Decision(i, outcome, upcoming)[1] = "active" =>
            Decision(i, outcome, upcoming)[2] = task.next
      BY <2>7, <3>1 DEF Decision
    <3>3. Idles' => Idles
      BY <2>4, <2>5, <3>2 DEF Idles
    <3>4. task'.retry = task.retry /\ task'.retryFor = task.retryFor
      BY <2>5, <2>7 DEF Retried
    <3>5. (Driven => Driven') /\ (RetrySpent => RetrySpent')
      BY <2>2, <2>7, <3>4 DEF Driven, RetrySpent
    <3> QED BY <2>4, <3>3, <3>5, StillDriven
  <2> QED BY <2>6, <2>7
<1> QED BY <1>1, <1>2

(* A claim makes a run that will decide, unless the retry that is due was made before. *)
LEMMA ClaimDrives ==
  ASSUME TypeOK, Attempts, Counting, NEW i \in Runs, ClaimDue(i)
  PROVE  NeverStranded'
<1> DEFINE occ == IF task.retry = 0 THEN i ELSE task.retryFor
           new == NewRun("schedule", occ, task.retry + 1)
<1>0. task \in Task /\ run \in [Runs -> Run] /\ task.retry \in Nat
  BY PolicyTyped DEF TypeOK, Task
<1>1. task'.retry = task.retry /\ task'.retryFor = task.retryFor /\ task.status = "active"
      /\ Fresh(i)
  BY <1>0 DEF ClaimDue, Task
<1>2. CASE ~KeyTaken(occ, task.retry + 1)
  <2>1. run' = [run EXCEPT ![i] = new]
    BY <1>2 DEF ClaimDue
  <2>2. run'[i].status = "running" /\ run'[i].source = "schedule"
    BY <1>0, <2>1 DEF NewRun
  <2> QED BY <2>2 DEF NeverStranded
<1>3. CASE KeyTaken(occ, task.retry + 1)
  <2>1. run' = run
    BY <1>3 DEF ClaimDue
  <2>2. PICK j \in Runs : Made(j, occ, task.retry + 1)
    BY <1>3 DEF KeyTaken, Made
  <2>3. task.retry > 0
    <3>1. ASSUME task.retry = 0 PROVE FALSE
      <4>1. run[j].occ = i /\ i # 0
        BY <2>2, <3>1, BoundAssumption DEF Made, Runs
      <4>2. run[i].status # "none"
        BY <4>1 DEF Counting, Names
      <4> QED BY <1>1, <4>2 DEF Fresh
    <3> QED BY <1>0, <3>1
  <2>4. Made(j, task.retryFor, task.retry + 1)
    BY <2>2, <2>3
  <2>5. run[j].status \in {"running", "cancelled"}
    BY <1>1, <2>3, <2>4 DEF Attempts, Retrying
  <2> HIDE DEF occ
  <2>6. \/ run'[j].status = "running" /\ run'[j].source = "schedule"
        \/ RetrySpent'
    BY <1>1, <2>1, <2>3, <2>4, <2>5 DEF Made, RetrySpent
  <2> QED BY <2>6 DEF NeverStranded
<1> QED BY <1>2, <1>3

LEMMA NeverStrandedKept ==
  TypeOK /\ Reports /\ Standing /\ Counting /\ Attempts /\ NeverStranded /\ [Next]_vars
    => NeverStranded'
<1> SUFFICES ASSUME TypeOK, Reports, Standing, Counting, Attempts, NeverStranded, [Next]_vars
             PROVE  NeverStranded'
  OBVIOUS
<1>0. task \in Task /\ run \in [Runs -> Run] /\ task.count \in Nat /\ returned \in SUBSET Runs
  BY DEF TypeOK, Task
<1>1. ASSUME run' = run, task'.retry = task.retry, task'.retryFor = task.retryFor,
             Idles' => Idles, over => over', policy' = policy, task'.count = task.count,
             returned' = returned
      PROVE  NeverStranded'
  BY <1>0, <1>1, StillDriven DEF Driven, RetrySpent
<1>2. ASSUME ~Idles' PROVE NeverStranded'
  BY <1>2 DEF NeverStranded, Idles
<1>3. CASE UNCHANGED vars
  BY <1>1, <1>3 DEF vars, Idles
<1>4. CASE ExpireTask
  <2>1. task'.status = "expired"
    BY <1>0, <1>4 DEF ExpireTask, Task
  <2> QED BY <1>2, <2>1 DEF Idles
<1>5. ASSUME NEW i \in Runs, FindExpired(i) PROVE NeverStranded'
  BY <1>1, <1>5 DEF FindExpired, Idles
<1>6. ASSUME NEW i \in Runs, SweepFinalize(i) PROVE NeverStranded'
  <2>1. Record(i, "timeout") /\ "timeout" \in Outcomes /\ UNCHANGED <<policy, over, returned>>
    BY <1>6 DEF SweepFinalize, Outcomes
  <2> QED BY <2>1, RecordDrives
<1>7. ASSUME NEW i \in Runs, Finalize(i) PROVE NeverStranded'
  <2>1. Record(i, exec[i].outcome) /\ exec[i].outcome \in Outcomes
        /\ UNCHANGED <<policy, over, returned>>
    BY <1>7 DEF Finalize, Reports
  <2> QED BY <2>1, RecordDrives
<1>8. ASSUME NEW i \in Runs, ClaimDue(i) PROVE NeverStranded'
  BY <1>8, ClaimDrives
<1>9. ASSUME NEW i \in Runs, NEW source \in {"manual", "webhook"}, StartOnDemand(i, source)
      PROVE  NeverStranded'
  <2>1. /\ task'.retry = task.retry /\ task'.retryFor = task.retryFor
        /\ task'.count = task.count + 1
    BY <1>0, <1>9 DEF StartOnDemand, Task
  <2>2. /\ run[i].status = "none" /\ policy' = policy /\ over' = over /\ returned' = returned
        /\ \A j \in Runs : j # i => run'[j] = run[j]
    BY <1>0, <1>9 DEF StartOnDemand, Fresh
  <2>3. (Driven => Driven') /\ (RetrySpent => RetrySpent')
    BY <2>1, <2>2 DEF Driven, RetrySpent
  <2>4. Idles' => Idles
    BY <1>0, <1>9 DEF StartOnDemand, Task, Idles
  <2> QED BY <1>0, <2>1, <2>2, <2>3, <2>4, StillDriven
<1>10. ASSUME NEW i \in Runs, CapPause(i) PROVE NeverStranded'
  BY <1>0, <1>1, <1>10 DEF CapPause, Task, Idles
<1>11. ASSUME NEW i \in Runs, CapRelease(i) \/ Skip(i) PROVE NeverStranded'
  <2>1. /\ run' = run /\ policy' = policy /\ over' = over /\ Release(i)
        /\ task'.retry = task.retry /\ task'.retryFor = task.retryFor
    BY <1>0, <1>11 DEF CapRelease, Skip, Release, Task
  <2>2. task'.count \in Nat /\ task'.status = task.status /\ task'.next = task.next
    BY <1>0, <2>1 DEF Release, Task
  <2>3. /\ returned \subseteq returned'
        /\ task'.count = task.count \/ returned' # {}
    BY <1>0, <2>1 DEF Release, Task
  <2> QED BY <1>0, <2>1, <2>2, <2>3, StillDriven DEF Driven, RetrySpent, Idles
<1>12. ASSUME NEW i \in Runs, Start(i) \/ (\E outcome \in Outcomes : Finish(i, outcome))
              \/ Charge(i) \/ StatementFails(i) \/ Crash(i)
       PROVE  NeverStranded'
  BY <1>1, <1>12 DEF Start, Finish, Charge, StatementFails, Crash, Idles
<1>13. ASSUME NEW i \in Runs, Park(i) PROVE NeverStranded'
  <2>1. CASE run[i].status # "running"
    BY <1>1, <1>13, <2>1 DEF Park, Idles
  <2>2. CASE run[i].status = "running"
    <3>1. task'.status # "active"
      BY <1>0, <1>13, <2>2 DEF Park, Parks, Task
    <3> QED BY <1>2, <3>1 DEF Idles
  <2> QED BY <2>1, <2>2
<1>14. ASSUME NEW i \in Runs, ExpireApproval(i) \/ LeaseLapses(i) \/ ApprovalLapses(i)
       PROVE  NeverStranded'
  <2>1. UNCHANGED <<policy, task, over, returned>>
    BY <1>14 DEF ExpireApproval, LeaseLapses, ApprovalLapses
  <2>2. \A j \in Runs : /\ run'[j].source = run[j].source /\ run'[j].occ = run[j].occ
                        /\ run'[j].attempt = run[j].attempt
                        /\ run[j].status \in {"running", "cancelled"} =>
                             run'[j].status = run[j].status
    BY <1>0, <1>14 DEF ExpireApproval, LeaseLapses, ApprovalLapses, Run
  <2>3. (Driven => Driven') /\ (RetrySpent => RetrySpent')
    BY <2>1, <2>2 DEF Driven, RetrySpent
  <2> QED BY <1>0, <2>1, <2>3, StillDriven DEF Idles
<1>15. CASE Due \/ RuleEnds \/ ExpiryPasses
  <2>1. CASE Due
    <3>1. task'.next = "due"
      BY <1>0, <2>1 DEF Due, Task
    <3> QED BY <1>2, <3>1 DEF Idles
  <2>2. CASE RuleEnds \/ ExpiryPasses
    BY <1>1, <2>2 DEF RuleEnds, ExpiryPasses, Idles
  <2> QED BY <1>15, <2>1, <2>2
<1>16. CASE SwitchOff \/ Delete
  <2>1. task'.status # "active"
    BY <1>0, <1>16 DEF SwitchOff, Delete, Switched, Task
  <2> QED BY <1>2, <2>1 DEF Idles
<1>17. CASE SwitchOn
  <2>1. policy' = policy /\ (policy.kind = "event" \/ task'.next = "later")
    BY <1>0, <1>17 DEF SwitchOn, Switched, Task
  <2> QED BY <2>1 DEF NeverStranded
<1>18. CASE Rename
  <2>1. task'.retry = task.retry /\ task'.retryFor = task.retryFor /\ task'.count = task.count
        /\ task'.status = task.status /\ task'.next = task.next
    BY <1>0, <1>18 DEF Rename, Task
  <2> QED BY <1>1, <1>18, <2>1 DEF Rename, Idles
<1>19. CASE Retime
  <2>1. task'.status = "active" => task'.next = "later"
    BY <1>0, <1>19 DEF Retime, Task
  <2> QED BY <1>2, <2>1 DEF Idles
<1>20. ASSUME NEW i \in Runs, Answer(i) PROVE NeverStranded'
  <2>1. /\ run[i].status = "awaiting" /\ run' = [run EXCEPT ![i] = Resumed(i)]
        /\ UNCHANGED <<policy, lapsed, over, returned>>
    BY <1>20 DEF Answer, Answerable
  <2>2. \A j \in Runs : j # i => run'[j] = run[j]
    BY <1>0, <2>1
  <2>3. CASE task' = task
    <3>1. (Driven => Driven') /\ (RetrySpent => RetrySpent')
      BY <2>1, <2>2, <2>3 DEF Driven, RetrySpent
    <3> QED BY <1>0, <2>1, <2>3, <3>1, StillDriven DEF Idles
  <2>4. CASE task' # task
    <3>1. PICK next \in ResumedNext :
            task' = [task EXCEPT !.status = "active", !.reason = "none", !.next = next]
      BY <1>20, <2>4 DEF Answer
    <3>2. task'.next = next /\ task'.count = task.count
      BY <1>0, <3>1 DEF Task
    <3>3. ASSUME next = "none", policy.kind = "recurring" PROVE Excused'
      <4>1. Exhausted \/ over \/ policy.expires
        BY <3>3 DEF ResumedNext, Attempts
      <4> QED BY <2>1, <3>2, <4>1 DEF Excused, Exhausted
    <3> QED BY <2>1, <3>2, <3>3 DEF NeverStranded, Excused
  <2> QED BY <2>3, <2>4
<1> QED
  BY <1>3, <1>4, <1>5, <1>6, <1>7, <1>8, <1>9, <1>10, <1>11, <1>12, <1>13, <1>14,
     <1>15, <1>16, <1>17, <1>18, <1>19, <1>20 DEF Next, Cron, Sweep, Time, Owner, Process

-------------------------------------------------------------------------------

Invariant == TypeOK /\ Reports /\ Standing /\ Counting /\ Attempts /\ NeverStranded

LEMMA Initially == Init => Invariant
<1> SUFFICES ASSUME Init PROVE Invariant
  OBVIOUS
<1> USE DEF Init
<1>1. TypeOK
  <2>1. policy \in Policies /\ policy.retries \in Nat /\ 0 \in 0..policy.retries
        /\ 0 \in 0..MaxRuns /\ 0 \in 0..MaxSpent /\ 0 \in 0..MaxFaults
    BY PolicyTyped, BoundAssumption
  <2>2. task \in Task
    BY <2>1 DEF Task
  <2>3. run \in [Runs -> Run] /\ exec \in [Runs -> Exec]
    BY <2>1, NullsTyped
  <2> QED BY <2>1, <2>2, <2>3 DEF TypeOK, Task, Run
<1>2. Reports /\ Standing
  BY DEF Reports, Idle, Standing, SwitchedOffStaysOff
<1>3. Slots /\ Names
  BY DEF Slots, Names, NoRun, Idle
<1>4. CountExplained
  <2>1. {i \in Runs \ returned : run[i].attempt = 1} = {}
    BY DEF NoRun
  <2> QED BY <2>1, FS_EmptySet DEF CountExplained
<1>5. Attempts /\ NeverStranded
  <2>1. \A i \in Runs : run[i].source = "manual"
    BY DEF NoRun
  <2>2. Keyed
    BY <2>1 DEF Keyed, Made
  <2>3. Retrying
    BY DEF Retrying
  <2>4. policy.kind = "recurring" => task.next = "later"
    OBVIOUS
  <2> QED BY <2>2, <2>3, <2>4 DEF Attempts, NeverStranded
<1> QED BY <1>1, <1>2, <1>3, <1>4, <1>5 DEF Invariant, Counting

LEMMA Always == Spec => []Invariant
<1>1. Invariant /\ [Next]_vars => Invariant'
  BY TypeKept, ReportsKept, StandingKept, CountingKept, AttemptsKept, NeverStrandedKept
  DEF Invariant
<1> QED BY <1>1, Initially, PTL DEF Spec

(* Every row keeps its type; every action of schedule-service.ts writes only such rows. *)
THEOREM TypeCorrect == Spec => []TypeOK
<1>1. Invariant => TypeOK
  BY DEF Invariant
<1> QED BY <1>1, Always, PTL

(* A task that its owner switched off is started again by nothing but its owner: neither by    *)
(* finalizeScheduleRun and its retries, nor by an approval, nor by the sweep.                  *)
THEOREM OffCorrect == Spec => []SwitchedOffStaysOff
<1>1. Invariant => SwitchedOffStaysOff
  BY DEF Invariant, Standing
<1> QED BY <1>1, Always, PTL

(* A first claim is counted once, a retry never, and a slot is given back at most once: what   *)
(* the guarded statements of claimDueScheduleRuns and releaseExecutionSlot add up to.          *)
THEOREM CountCorrect == Spec => []CountExplained
<1>1. Invariant => CountExplained
  BY DEF Invariant, Counting
<1> QED BY <1>1, Always, PTL

(* An active recurring task with no next time has a scheduled run that will give it one        *)
(* (finalizeScheduleRun), or one of the reasons listed: nothing else that claims, ends, parks  *)
(* or resumes a run, and no edit of the owner, leaves it waiting for nothing.                  *)
THEOREM StrandedCorrect == Spec => []NeverStranded
<1>1. Invariant => NeverStranded
  BY DEF Invariant
<1> QED BY <1>1, Always, PTL

(* finalizeScheduleRun decides once: the outcome of a run and the end of a task are final.     *)
THEOREM OutcomeCorrect == Spec => OutcomeIsFinal
<1>1. Invariant /\ [Next]_vars =>
        /\ \A i \in Runs :
             run[i].status \in Outcomes => run'[i].status \in {run[i].status, "gone"}
        /\ task.status \in Ended => task'.status \in {task.status, "deleted"}
  BY StandingKept DEF Invariant, Finals
<1> QED BY <1>1, Always, PTL DEF Spec, OutcomeIsFinal

=============================================================================

------------------------- MODULE BackgroundJobsProofs -------------------------
(***************************************************************************)
(* Proofs about BackgroundJobs, for every number of jobs, workers, queues, *)
(* attempts, slots and faults.                                             *)
(***************************************************************************)
EXTENDS BackgroundJobs, FiniteSetTheorems, TLAPS

-------------------------------------------------------------------------------
(* Type correctness, one variable at a time.                                 *)

Rows == row \in [Jobs -> Row]
Execs == execs \subseteq Execution
Drains == drain \in [Workers -> [step: DrainSteps, budget: SUBSET Queues]]
Enqs == enq \in [Jobs -> [step: EnqueueSteps, user: Users \cup {NoUser}]]
Reqs == req \in [Jobs -> [step: CancelSteps, id: Nat, user: Users \cup {NoUser}]]
Faults == faults \in 0..MaxFaults

LEMMA TypeParts == TypeOK <=> Rows /\ Execs /\ Drains /\ Enqs /\ Reqs /\ Faults
BY DEF TypeOK, Rows, Execs, Drains, Enqs, Reqs, Faults

LEMMA InitType == Init => TypeOK
<1> SUFFICES ASSUME Init PROVE Rows /\ Execs /\ Drains /\ Enqs /\ Reqs /\ Faults
  BY TypeParts
<1>1. Rows
  BY DEF Init, Rows, Row, Statuses
<1>2. Execs /\ Drains /\ Enqs /\ Reqs
  BY DEF Init, Execs, Drains, Enqs, Reqs, DrainSteps, EnqueueSteps, CancelSteps, CancelAnswers
<1>3. Faults
  BY BoundAssumption DEF Init, Faults
<1>4. QED
  BY <1>1, <1>2, <1>3

(* What the statements write over a row is a row.                            *)

LEMMA StatusRow ==
  ASSUME NEW r \in Row, NEW s \in Statuses
  PROVE  /\ [r EXCEPT !.status = s, !.elapsed = FALSE] \in Row
         /\ [r EXCEPT !.status = s, !.worker = NoWorker, !.elapsed = FALSE] \in Row
BY DEF Row

LEMMA SettledRowType ==
  ASSUME Rows, Execs, NEW e \in execs, e.phase # "handler"
  PROVE  SettledRow(e) \in Row
<1>1. row[e.job] \in Row
  BY DEF Rows, Execs, Execution
<1>2. e.phase \in {"complete", "retryable", "permanent", "cancelled"}
  BY DEF Execs, Execution, Phases
<1>3. QED
  BY <1>1, <1>2 DEF SettledRow, Row, Statuses, Settled

LEMMA ClaimedType ==
  ASSUME Rows, NEW w \in Workers, NEW S \in SUBSET Jobs
  PROVE  [j \in Jobs |-> IF j \in S THEN Claimed(j, w) ELSE row[j]] \in [Jobs -> Row]
<1>1. ASSUME NEW j \in Jobs PROVE Claimed(j, w) \in Row
  <2>1. row[j] \in Row
    BY DEF Rows
  <2>2. row[j].attempts + 1 \in Nat
    BY <2>1 DEF Row
  <2>3. ASSUME NEW n \in Nat
        PROVE  [row[j] EXCEPT !.status = "running", !.attempts = n, !.worker = w,
                              !.elapsed = FALSE] \in Row
    BY <2>1 DEF Row, Statuses
  <2>4. QED
    BY <2>1, <2>2, <2>3 DEF Claimed, Row
<1>2. QED
  BY <1>1 DEF Rows

LEMMA NewExecutionType ==
  ASSUME Rows, NEW w \in Workers, NEW S \in SUBSET Jobs
  PROVE  {NewExecution(j, w) : j \in S} \subseteq Execution
<1>1. ASSUME NEW j \in Jobs PROVE NewExecution(j, w) \in Execution
  <2>1. row[j].id \in Nat /\ row[j].retried \in Nat /\ row[j].attempts + 1 \in Nat
    BY DEF Rows, Row
  <2>2. QED
    BY <2>1 DEF NewExecution, Execution, Phases
<1>2. QED
  BY <1>1

LEMMA GotoType ==
  ASSUME Drains, NEW w \in Workers, NEW step \in DrainSteps, Goto(w, step)
  PROVE  Drains'
BY DEF Drains, Goto

LEMMA WokenType ==
  ASSUME Drains, Execs, NEW e \in execs
  PROVE  Woken(e) \in [Workers -> [step: DrainSteps, budget: SUBSET Queues]]
BY DEF Drains, Execs, Woken, DrainSteps, Execution

LEMMA AbandonedType ==
  ASSUME Execs, NEW w
  PROVE  Abandoned(w) \subseteq Execution
BY DEF Execs, Abandoned, Execution

LEMMA FaultType == ASSUME Faults, Fault PROVE Faults'
BY BoundAssumption DEF Faults, Fault

LEMMA SelectionFacts ==
  ASSUME NEW w, NEW S \in Selections(w)
  PROVE  /\ S \in SUBSET Jobs
         /\ \A j \in S : row[j].status = "queued"
         /\ FitsSlots(S)
BY DEF Selections, Claimable

LEMMA TypeStep == TypeOK /\ [Next]_vars => TypeOK'
<1> SUFFICES ASSUME Rows, Execs, Drains, Enqs, Reqs, Faults, [Next]_vars
             PROVE  Rows' /\ Execs' /\ Drains' /\ Enqs' /\ Reqs' /\ Faults'
  BY TypeParts DEF TypeOK, Rows, Execs, Drains, Enqs, Reqs, Faults
<1> DEFINE Typed == Rows' /\ Execs' /\ Drains' /\ Enqs' /\ Reqs' /\ Faults'
<1>0. \A j \in Jobs : row[j] \in Row
  BY DEF Rows
<1>1. ASSUME NEW j \in Jobs, TimePasses(j) PROVE Typed
  <2>1. [row[j] EXCEPT !.elapsed = TRUE] \in Row
    BY <1>0 DEF Row
  <2>2. Rows'
    BY <1>1, <2>1 DEF TimePasses, Rows
  <2>3. QED
    BY <1>1, <2>2 DEF TimePasses, Execs, Drains, Enqs, Reqs, Faults
<1>2. ASSUME NEW j \in Jobs, Caller(j) PROVE Typed
  <2>1. ASSUME NEW u \in Users, NEW due \in BOOLEAN, EnqueueInsert(j, u, due) PROVE Typed
    <3>1. row[j].id + 1 \in Nat
      BY <1>0 DEF Row
    <3>2. ASSUME NEW n \in Nat
          PROVE  [status |-> "queued", attempts |-> 0, elapsed |-> due, worker |-> NoWorker,
                  cancel |-> FALSE, user |-> u, id |-> n, retried |-> 0] \in Row
      BY DEF Row, Statuses
    <3>3. Rows'
      BY <2>1, <3>1, <3>2 DEF EnqueueInsert, Rows
    <3>4. Enqs'
      BY <2>1 DEF EnqueueInsert, Enqs, EnqueueSteps
    <3>5. QED
      BY <2>1, <3>3, <3>4 DEF EnqueueInsert, Execs, Drains, Reqs, Faults
  <2>2. ASSUME EnqueueLookup(j) PROVE Typed
    <3>1. Enqs'
      BY <2>2 DEF EnqueueLookup, Enqs, EnqueueSteps
    <3>2. QED
      BY <2>2, <3>1 DEF EnqueueLookup, Rows, Execs, Drains, Reqs, Faults
  <2>3. ASSUME NEW u \in Cancellers, CancelQueued(j, u) PROVE Typed
    <3>1. [row[j] EXCEPT !.status = "cancelled", !.cancel = TRUE, !.worker = NoWorker,
                         !.elapsed = FALSE] \in Row
      BY <1>0 DEF Row, Statuses, Settled
    <3>2. Rows'
      BY <2>3, <3>1 DEF CancelQueued, Rows
    <3>3. row[j].id \in Nat /\ u \in Users
      BY <1>0, BoundAssumption DEF Row
    <3>4. Reqs'
      BY <2>3, <3>3 DEF CancelQueued, Reqs, CancelSteps, CancelAnswers
    <3>5. QED
      BY <2>3, <3>2, <3>4 DEF CancelQueued, Execs, Drains, Enqs, Faults
  <2>4. ASSUME CancelRunning(j) PROVE Typed
    <3>1. [row[j] EXCEPT !.cancel = TRUE] \in Row
      BY <1>0 DEF Row
    <3>2. Rows'
      BY <2>4, <3>1 DEF CancelRunning, Rows
    <3>3. Reqs'
      BY <2>4 DEF CancelRunning, Reqs, CancelSteps, CancelAnswers
    <3>4. QED
      BY <2>4, <3>2, <3>3 DEF CancelRunning, Execs, Drains, Enqs, Faults
  <2>5. ASSUME CancelRead(j) PROVE Typed
    <3>1. Reqs'
      BY <2>5 DEF CancelRead, Reqs, CancelSteps, CancelAnswers
    <3>2. QED
      BY <2>5, <3>1 DEF CancelRead, Rows, Execs, Drains, Enqs, Faults
  <2>6. ASSUME RetryDead(j) PROVE Typed
    <3>1. row[j].retried + 1 \in Nat
      BY <1>0 DEF Row
    <3>2. ASSUME NEW n \in Nat
          PROVE  [row[j] EXCEPT !.status = "queued", !.attempts = 0, !.elapsed = TRUE,
                                !.worker = NoWorker, !.retried = n] \in Row
      BY <1>0 DEF Row, Statuses
    <3>3. row' = [row EXCEPT ![j] =
                    [row[j] EXCEPT !.status = "queued", !.attempts = 0, !.elapsed = TRUE,
                                   !.worker = NoWorker, !.retried = row[j].retried + 1]]
      BY <2>6, <1>0 DEF RetryDead, Rows
    <3>4. Rows'
      BY <3>1, <3>2, <3>3 DEF Rows
    <3>5. QED
      BY <2>6, <3>4 DEF RetryDead, Execs, Drains, Enqs, Reqs, Faults
  <2>7. QED
    BY <1>2, <2>1, <2>2, <2>3, <2>4, <2>5, <2>6 DEF Caller
<1>3. ASSUME NEW e \in execs, Executes(e) PROVE Typed
  <2>1. ASSUME NEW outcome \in Phases, HandlerEnds(e, outcome) PROVE Typed
    <3>1. Execs'
      BY <2>1 DEF HandlerEnds, Execs, Execution
    <3>2. QED
      BY <2>1, <3>1 DEF HandlerEnds, Rows, Drains, Enqs, Reqs, Faults
  <2>2. ASSUME PollCancellation(e) PROVE Typed
    <3>1. Execs'
      BY <2>2 DEF PollCancellation, Execs, Execution, Phases
    <3>2. QED
      BY <2>2, <3>1 DEF PollCancellation, Rows, Drains, Enqs, Reqs, Faults
  <2>3. ASSUME NEW committed \in BOOLEAN, NEW answered \in BOOLEAN, Settle(e, committed, answered)
        PROVE  Typed
    <3>1. SettledRow(e) \in Row
      BY <2>3, SettledRowType DEF Settle
    <3>2. Rows'
      BY <2>3, <3>1 DEF Settle, Rows
    <3>3. Execs'
      BY <2>3 DEF Settle, Execs, Execution, Phases
    <3>4. Drains'
      BY <2>3, WokenType DEF Settle, Drains
    <3>5. Faults'
      BY <2>3, FaultType DEF Settle, Faults
    <3>6. QED
      BY <2>3, <3>2, <3>3, <3>4, <3>5 DEF Settle, Enqs, Reqs
  <2>4. QED
    BY <1>3, <2>1, <2>2, <2>3 DEF Executes
<1>4. ASSUME NEW w \in Workers, Drain(w) PROVE Typed
  <2>1. CASE StartDrain(w)
    <3>1. Drains'
      BY <2>1 DEF StartDrain, Drains, DrainSteps
    <3>2. QED
      BY <2>1, <3>1 DEF StartDrain, Rows, Execs, Enqs, Reqs, Faults
  <2>2. CASE ReapSpent(w) \/ ReapRequeue(w) \/ ReapCancelled(w)
    <3>1. \A j \in Jobs : \A s \in {"dead", "queued", "cancelled"} :
            [row[j] EXCEPT !.status = s, !.worker = NoWorker, !.elapsed = FALSE] \in Row
      BY <1>0, StatusRow DEF Statuses, Settled
    <3>2. Rows'
      BY <2>2, <1>0, <3>1 DEF ReapSpent, ReapRequeue, ReapCancelled, Rows
    <3>3. Drains'
      BY <2>2, GotoType DEF ReapSpent, ReapRequeue, ReapCancelled, DrainSteps
    <3>4. QED
      BY <2>2, <3>2, <3>3 DEF ReapSpent, ReapRequeue, ReapCancelled, Execs, Enqs, Reqs, Faults
  <2>3. CASE Claim(w)
    <3>1. PICK S \in Selections(w) :
            /\ row' = [j \in Jobs |-> IF j \in S THEN Claimed(j, w) ELSE row[j]]
            /\ execs' = execs \cup {NewExecution(j, w) : j \in S}
            /\ AfterClaim(w, {NewExecution(j, w) : j \in S})
      BY <2>3 DEF Claim
    <3>2. S \in SUBSET Jobs
      BY SelectionFacts
    <3>3. Rows'
      BY <3>1, <3>2, ClaimedType DEF Rows
    <3>4. Execs'
      BY <3>1, <3>2, NewExecutionType DEF Execs
    <3>5. Drains'
      BY <3>1, GotoType DEF AfterClaim, DrainSteps
    <3>6. QED
      BY <2>3, <3>3, <3>4, <3>5 DEF Claim, Enqs, Reqs, Faults
  <2>4. CASE SkipClaim(w)
    <3>1. Drains'
      BY <2>4, GotoType DEF SkipClaim, AfterClaim, DrainSteps
    <3>2. QED
      BY <2>4, <3>1 DEF SkipClaim, Rows, Execs, Enqs, Reqs, Faults
  <2>5. CASE PruneFinished(w) \/ PruneDead(w)
    <3>1. \A j \in Jobs : [row[j] EXCEPT !.status = "absent", !.elapsed = FALSE] \in Row
      BY <1>0, StatusRow DEF Statuses
    <3>2. PICK S : row' = [j \in Jobs |->
                             IF j \in S THEN [row[j] EXCEPT !.status = "absent", !.elapsed = FALSE]
                             ELSE row[j]]
      BY <2>5 DEF PruneFinished, PruneDead, Prune
    <3>3. Rows'
      BY <1>0, <3>1, <3>2 DEF Rows
    <3>4. Drains'
      BY <2>5, GotoType DEF PruneFinished, PruneDead, DrainSteps
    <3>5. QED
      BY <2>5, <3>3, <3>4 DEF PruneFinished, PruneDead, Execs, Enqs, Reqs, Faults
  <2>6. QED
    BY <1>4, <2>1, <2>2, <2>3, <2>4, <2>5 DEF Drain
<1>5. ASSUME NEW w \in Workers, DrainFails(w) PROVE Typed
  <2>1. Drains' /\ Execs' /\ Faults'
    BY <1>5, GotoType, AbandonedType, FaultType DEF DrainFails, DrainSteps, Execs
  <2>2. QED
    BY <1>5, <2>1 DEF DrainFails, Rows, Enqs, Reqs
<1>6. ASSUME NEW w \in Workers, ClaimAnswerLost(w) PROVE Typed
  <2>1. PICK S \in Selections(w) :
          row' = [j \in Jobs |-> IF j \in S THEN Claimed(j, w) ELSE row[j]]
    BY <1>6 DEF ClaimAnswerLost
  <2>2. Rows'
    BY <2>1, SelectionFacts, ClaimedType DEF Rows
  <2>3. Drains' /\ Execs' /\ Faults'
    BY <1>6, GotoType, AbandonedType, FaultType DEF ClaimAnswerLost, DrainSteps, Execs
  <2>4. QED
    BY <1>6, <2>2, <2>3 DEF ClaimAnswerLost, Enqs, Reqs
<1>7. ASSUME NEW w \in Workers, Crash(w) PROVE Typed
  <2>1. Drains' /\ Execs'
    BY <1>7 DEF Crash, DrainSteps, Drains, Execs
  <2>2. Faults'
    BY <1>7, FaultType DEF Crash
  <2>3. QED
    BY <1>7, <2>1, <2>2 DEF Crash, Rows, Enqs, Reqs
<1>8. ASSUME NEW w \in Workers, NEW q \in Queues, BudgetShrinks(w, q) PROVE Typed
  <2>1. Drains'
    BY <1>8 DEF BudgetShrinks, Drains
  <2>2. QED
    BY <1>8, <2>1 DEF BudgetShrinks, Rows, Execs, Enqs, Reqs, Faults
<1>9. CASE UNCHANGED vars
  BY <1>9 DEF vars, Rows, Execs, Drains, Enqs, Reqs, Faults
<1>10. QED
  BY <1>1, <1>2, <1>3, <1>4, <1>5, <1>6, <1>7, <1>8, <1>9 DEF Next

(* The rows, executions, drains and calls of BackgroundJobs keep their types. *)
THEOREM TypeCorrect == Spec => []TypeOK
<1>1. Init => TypeOK
  BY InitType
<1>2. TypeOK /\ [Next]_vars => TypeOK'
  BY TypeStep
<1>3. QED
  BY <1>1, <1>2, PTL DEF Spec

-------------------------------------------------------------------------------
(* Every step, of whichever statement, moves the rows in one of few ways.    *)

Same(j) ==
  /\ row'[j].id = row[j].id
  /\ row'[j].retried = row[j].retried
  /\ row'[j].attempts = row[j].attempts

Kept(j) == Same(j) /\ row'[j].status = row[j].status

Starts(j) ==
  /\ row[j].status = "queued" /\ row'[j].status = "running"
  /\ row'[j].id = row[j].id
  /\ row'[j].retried = row[j].retried
  /\ row'[j].attempts = row[j].attempts + 1

GivenBack(j) ==
  /\ Same(j)
  /\ row[j].status = "running" /\ row'[j].status = "queued"
  /\ row[j].attempts < MaxAttempts[j]

Ended(j, end) == Same(j) /\ row[j].status = "running" /\ row'[j].status = end
Forgotten(j) == Same(j) /\ row[j].status \in Settled /\ row'[j].status = "absent"
Withdrawn(j) == Same(j) /\ row[j].status = "queued" /\ row'[j].status = "cancelled"

Submitted(j) ==
  /\ row[j].status = "absent" /\ row'[j].status = "queued"
  /\ row'[j].id = row[j].id + 1
  /\ row'[j].retried = 0
  /\ row'[j].attempts = 0

Revived(j) ==
  /\ row[j].status = "dead" /\ row'[j].status = "queued"
  /\ row'[j].id = row[j].id
  /\ row'[j].retried = row[j].retried + 1
  /\ row'[j].attempts = 0

OnlyIn(S) == \A j \in Jobs \ S : Kept(j)

Shape ==
  \/ \E S \in SUBSET Jobs : OnlyIn(S) /\ FitsSlots(S) /\ \A j \in S : Starts(j)
  \/ \E S \in SUBSET Jobs : OnlyIn(S) /\ \A j \in S : GivenBack(j)
  \/ \E S \in SUBSET Jobs, end \in Settled : OnlyIn(S) /\ \A j \in S : Ended(j, end)
  \/ \E S \in SUBSET Jobs : OnlyIn(S) /\ \A j \in S : Forgotten(j)
  \/ \E j \in Jobs : OnlyIn({j}) /\ (Withdrawn(j) \/ Submitted(j) \/ (Revived(j) /\ RetryDead(j)))

LEMMA KeptShape == ASSUME \A j \in Jobs : Kept(j) PROVE Shape
<1>1. OnlyIn({}) /\ {} \in SUBSET Jobs
  BY DEF OnlyIn
<1>2. QED
  BY <1>1 DEF Shape

LEMMA UnchangedShape == ASSUME UNCHANGED row PROVE Shape
BY KeptShape DEF Kept, Same

LEMMA StartShape ==
  ASSUME Rows, NEW w, NEW S \in Selections(w),
         row' = [j \in Jobs |-> IF j \in S THEN Claimed(j, w) ELSE row[j]]
  PROVE  Shape
<1>1. S \in SUBSET Jobs /\ FitsSlots(S) /\ \A j \in S : row[j].status = "queued"
  BY SelectionFacts
<1>2. OnlyIn(S)
  BY DEF OnlyIn, Kept, Same
<1>3. ASSUME NEW j \in S PROVE Starts(j)
  <2>1. row'[j] = Claimed(j, w) /\ row[j] \in Row
    BY <1>1 DEF Rows
  <2>2. QED
    BY <1>1, <2>1 DEF Claimed, Starts, Row
<1>4. QED
  BY <1>1, <1>2, <1>3 DEF Shape

LEMMA SettleShape ==
  ASSUME Rows, Execs, NEW e \in execs, NEW committed, NEW answered,
         Settle(e, committed, answered)
  PROVE  Shape
<1>1. CASE row' = row
  BY <1>1, UnchangedShape
<1>2. CASE Fenced(e) /\ row' = [row EXCEPT ![e.job] = SettledRow(e)]
  <2>1. e.job \in Jobs /\ row[e.job] \in Row /\ row[e.job].status = "running"
    BY <1>2 DEF Fenced, Execs, Execution, Rows
  <2>2. row'[e.job] = SettledRow(e)
    BY <1>2, <2>1 DEF Rows
  <2>3. OnlyIn({e.job})
    BY <1>2, <2>1 DEF OnlyIn, Kept, Same, Rows
  <2>4. e.phase \in {"complete", "retryable", "permanent", "cancelled"}
    BY DEF Settle, Execs, Execution, Phases
  <2>5. Same(e.job)
    BY <2>1, <2>2, <2>4 DEF Same, SettledRow, Row
  <2>6. CASE e.phase = "retryable" /\ ~Exhausted(e)
    <3>1. row'[e.job].status = "queued"
      BY <2>1, <2>2, <2>6 DEF SettledRow, Row
    <3>2. row[e.job].attempts < MaxAttempts[e.job]
      <4>1. e.attempt \in Nat /\ MaxAttempts[e.job] \in Nat
        BY <2>1, PolicyAssumption DEF Execs, Execution
      <4>2. QED
        BY <1>2, <2>6, <4>1 DEF Fenced, Exhausted
    <3>3. GivenBack(e.job)
      BY <2>1, <2>5, <3>1, <3>2 DEF GivenBack
    <3>4. QED
      BY <2>1, <2>3, <3>3 DEF Shape
  <2>7. CASE ~(e.phase = "retryable" /\ ~Exhausted(e))
    <3>1. PICK end \in Settled : row'[e.job].status = end
      BY <2>1, <2>2, <2>4, <2>7 DEF SettledRow, Row, Settled
    <3>2. Ended(e.job, end)
      BY <2>1, <2>5, <3>1 DEF Ended
    <3>3. QED
      BY <2>1, <2>3, <3>2 DEF Shape
  <2>8. QED
    BY <2>6, <2>7
<1>3. QED
  BY <1>1, <1>2 DEF Settle

LEMMA ReapShape ==
  ASSUME Rows, NEW w, ReapSpent(w) \/ ReapRequeue(w) \/ ReapCancelled(w)
  PROVE  Shape
<1>1. CASE ReapSpent(w)
  <2> DEFINE S == {j \in Jobs : Lapsed(j) /\ Spent(j)}
  <2>1. OnlyIn(S)
    BY <1>1 DEF ReapSpent, OnlyIn, Kept, Same
  <2>2. ASSUME NEW j \in S PROVE Ended(j, "dead")
    <3>1. /\ row'[j] = [row[j] EXCEPT !.status = "dead", !.worker = NoWorker, !.elapsed = FALSE]
          /\ row[j] \in Row
      BY <1>1 DEF ReapSpent, Rows
    <3>2. row[j].status = "running"
      BY DEF Lapsed
    <3>3. QED
      BY <3>1, <3>2 DEF Ended, Same, Row
  <2>3. QED
    BY <2>1, <2>2 DEF Shape, Settled
<1>2. CASE ReapRequeue(w)
  <2> DEFINE S == {j \in Jobs : Lapsed(j) /\ row[j].attempts < MaxAttempts[j]}
  <2>1. OnlyIn(S)
    BY <1>2 DEF ReapRequeue, OnlyIn, Kept, Same
  <2>2. ASSUME NEW j \in S PROVE GivenBack(j)
    <3>1. /\ row'[j] = [row[j] EXCEPT !.status = "queued", !.worker = NoWorker, !.elapsed = FALSE]
          /\ row[j] \in Row
      BY <1>2 DEF ReapRequeue, Rows
    <3>2. row[j].status = "running"
      BY DEF Lapsed
    <3>3. QED
      BY <3>1, <3>2 DEF GivenBack, Same, Row
  <2>3. QED
    BY <2>1, <2>2 DEF Shape
<1>3. CASE ReapCancelled(w)
  <2> DEFINE S == {j \in Jobs : Lapsed(j) /\ row[j].cancel}
  <2>1. OnlyIn(S)
    BY <1>3 DEF ReapCancelled, OnlyIn, Kept, Same
  <2>2. ASSUME NEW j \in S PROVE Ended(j, "cancelled")
    <3>1. /\ row'[j] = [row[j] EXCEPT !.status = "cancelled", !.worker = NoWorker,
                                      !.elapsed = FALSE]
          /\ row[j] \in Row
      BY <1>3 DEF ReapCancelled, Rows
    <3>2. row[j].status = "running"
      BY DEF Lapsed
    <3>3. QED
      BY <3>1, <3>2 DEF Ended, Same, Row
  <2>3. QED
    BY <2>1, <2>2 DEF Shape, Settled
<1>4. QED
  BY <1>1, <1>2, <1>3

LEMMA PruneShape ==
  ASSUME Rows, NEW statuses \in SUBSET Settled, Prune(statuses)
  PROVE  Shape
<1>1. PICK S \in SUBSET {j \in Jobs : row[j].status \in statuses /\ row[j].elapsed} :
        row' = [j \in Jobs |->
                  IF j \in S THEN [row[j] EXCEPT !.status = "absent", !.elapsed = FALSE]
                  ELSE row[j]]
  BY DEF Prune
<1>2. OnlyIn(S)
  BY <1>1 DEF OnlyIn, Kept, Same
<1>3. ASSUME NEW j \in S PROVE Forgotten(j)
  <2>1. /\ row'[j] = [row[j] EXCEPT !.status = "absent", !.elapsed = FALSE]
        /\ row[j] \in Row
        /\ row[j].status \in Settled
    BY <1>1 DEF Rows
  <2>2. QED
    BY <2>1 DEF Forgotten, Same, Row
<1>4. QED
  BY <1>1, <1>2, <1>3 DEF Shape

LEMMA CallerShape ==
  ASSUME Rows, NEW j \in Jobs, TimePasses(j) \/ Caller(j)
  PROVE  Shape
<1>0. row[j] \in Row
  BY DEF Rows
<1>1. CASE TimePasses(j)
  <2>1. \A i \in Jobs : Kept(i)
    BY <1>0, <1>1 DEF TimePasses, Kept, Same, Rows, Row
  <2>2. QED
    BY <2>1, KeptShape
<1>2. ASSUME NEW u \in Users, NEW due \in BOOLEAN, EnqueueInsert(j, u, due) PROVE Shape
  <2>1. CASE row[j].status = "absent"
    <3>1. OnlyIn({j})
      BY <1>2, <2>1 DEF EnqueueInsert, OnlyIn, Kept, Same, Rows
    <3>2. row'[j] = [status |-> "queued", attempts |-> 0, elapsed |-> due, worker |-> NoWorker,
                     cancel |-> FALSE, user |-> u, id |-> row[j].id + 1, retried |-> 0]
      BY <1>2, <2>1 DEF EnqueueInsert, Rows
    <3>3. Submitted(j)
      BY <2>1, <3>2 DEF Submitted
    <3>4. QED
      BY <3>1, <3>3 DEF Shape
  <2>2. QED
    BY <1>2, <2>1, UnchangedShape DEF EnqueueInsert
<1>3. ASSUME NEW u \in Cancellers, CancelQueued(j, u) PROVE Shape
  <2>1. CASE row[j].status = "queued" /\ row[j].user = u
    <3>1. OnlyIn({j})
      BY <1>3, <2>1 DEF CancelQueued, OnlyIn, Kept, Same, Rows
    <3>2. row'[j] = [row[j] EXCEPT !.status = "cancelled", !.cancel = TRUE, !.worker = NoWorker,
                                   !.elapsed = FALSE]
      BY <1>3, <2>1 DEF CancelQueued, Rows
    <3>3. Withdrawn(j)
      BY <1>0, <2>1, <3>2 DEF Withdrawn, Same, Row
    <3>4. QED
      BY <3>1, <3>3 DEF Shape
  <2>2. QED
    BY <1>3, <2>1, UnchangedShape DEF CancelQueued
<1>4. CASE CancelRunning(j)
  <2>1. \A i \in Jobs : Kept(i)
    BY <1>0, <1>4 DEF CancelRunning, Kept, Same, Rows, Row
  <2>2. QED
    BY <2>1, KeptShape
<1>5. CASE RetryDead(j)
  <2>1. OnlyIn({j})
    BY <1>5 DEF RetryDead, OnlyIn, Kept, Same, Rows
  <2>2. row'[j] = [row[j] EXCEPT !.status = "queued", !.attempts = 0, !.elapsed = TRUE,
                                 !.worker = NoWorker, !.retried = row[j].retried + 1]
    BY <1>5 DEF RetryDead, Rows
  <2>3. row[j].status = "dead"
    BY <1>5 DEF RetryDead
  <2>4. Revived(j)
    BY <1>0, <2>2, <2>3 DEF Revived, Row
  <2>5. QED
    BY <1>5, <2>1, <2>4 DEF Shape
<1>6. CASE EnqueueLookup(j) \/ CancelRead(j)
  BY <1>6, UnchangedShape DEF EnqueueLookup, CancelRead
<1>7. QED
  BY <1>1, <1>2, <1>3, <1>4, <1>5, <1>6 DEF Caller

LEMMA StepShape == ASSUME TypeOK, [Next]_vars PROVE Shape
<1>0. Rows /\ Execs
  BY TypeParts
<1>1. ASSUME NEW j \in Jobs, TimePasses(j) \/ Caller(j) PROVE Shape
  BY <1>0, <1>1, CallerShape
<1>2. ASSUME NEW e \in execs, Executes(e) PROVE Shape
  BY <1>0, <1>2, SettleShape, UnchangedShape DEF Executes, HandlerEnds, PollCancellation
<1>3. ASSUME NEW w \in Workers, Drain(w) PROVE Shape
  <2>1. CASE StartDrain(w) \/ SkipClaim(w)
    BY <2>1, UnchangedShape DEF StartDrain, SkipClaim
  <2>2. CASE ReapSpent(w) \/ ReapRequeue(w) \/ ReapCancelled(w)
    BY <1>0, <2>2, ReapShape
  <2>3. CASE Claim(w)
    BY <1>0, <2>3, StartShape DEF Claim
  <2>4. CASE PruneFinished(w) \/ PruneDead(w)
    BY <1>0, <2>4, PruneShape DEF PruneFinished, PruneDead, Settled
  <2>5. QED
    BY <1>3, <2>1, <2>2, <2>3, <2>4 DEF Drain
<1>4. ASSUME NEW w \in Workers, ClaimAnswerLost(w) PROVE Shape
  BY <1>0, <1>4, StartShape DEF ClaimAnswerLost
<1>5. ASSUME NEW w \in Workers, NEW q \in Queues, BudgetShrinks(w, q) PROVE Shape
  BY <1>5, UnchangedShape DEF BudgetShrinks
<1>6. ASSUME NEW w \in Workers, DrainFails(w) \/ Crash(w) PROVE Shape
  BY <1>6, UnchangedShape DEF DrainFails, Crash
<1>7. CASE UNCHANGED vars
  BY <1>7, UnchangedShape DEF vars
<1>8. QED
  BY <1>1, <1>2, <1>3, <1>4, <1>5, <1>6, <1>7 DEF Next

-------------------------------------------------------------------------------
(* The attempts of a job.                                                    *)

LEMMA AttemptsStep ==
  ASSUME TypeOK, AttemptsWithinBudget, [Next]_vars
  PROVE  AttemptsWithinBudget'
<1> SUFFICES ASSUME NEW j \in Jobs
             PROVE  /\ row'[j].status = "queued" => row'[j].attempts < MaxAttempts[j]
                    /\ row'[j].status = "running" => row'[j].attempts \in 1..MaxAttempts[j]
  BY DEF AttemptsWithinBudget
<1>1. row[j].attempts \in Nat /\ MaxAttempts[j] \in Nat \ {0}
  BY PolicyAssumption, TypeParts DEF Rows, Row
<1>2. /\ row[j].status = "queued" => row[j].attempts < MaxAttempts[j]
      /\ row[j].status = "running" => row[j].attempts \in 1..MaxAttempts[j]
  BY DEF AttemptsWithinBudget
<1>3. Shape
  BY StepShape
<1>4. CASE Kept(j)
  BY <1>2, <1>4 DEF Kept, Same
<1>5. CASE Starts(j)
  BY <1>1, <1>2, <1>5 DEF Starts
<1>6. CASE GivenBack(j) \/ Forgotten(j) \/ Withdrawn(j) \/ \E end \in Settled : Ended(j, end)
  BY <1>1, <1>6 DEF GivenBack, Forgotten, Withdrawn, Ended, Same, Settled
<1>7. CASE Submitted(j) \/ Revived(j)
  BY <1>1, <1>7 DEF Submitted, Revived
<1>8. QED
  BY <1>3, <1>4, <1>5, <1>6, <1>7 DEF Shape, OnlyIn

(* A queued job always has an attempt left and a running one is within its    *)
(* budget, although claimJobs never looks at max_attempts.                    *)
THEOREM AttemptsCorrect == Spec => []AttemptsWithinBudget
<1>1. Init => TypeOK /\ AttemptsWithinBudget
  BY InitType DEF Init, AttemptsWithinBudget
<1>2. TypeOK /\ AttemptsWithinBudget /\ [Next]_vars => (TypeOK /\ AttemptsWithinBudget)'
  BY TypeStep, AttemptsStep
<1>3. QED
  BY <1>1, <1>2, PTL DEF Spec

-------------------------------------------------------------------------------
(* The concurrency of a queue.                                               *)

LEMMA RunningFinite == ASSUME NEW q PROVE IsFiniteSet(Running(q)) /\ Cardinality(Running(q)) \in Nat
BY FinitenessAssumption, FS_Subset, FS_CardinalityType DEF Running

LEMMA ConcurrencyStep ==
  ASSUME TypeOK, ConcurrencyLimit, [Next]_vars
  PROVE  ConcurrencyLimit'
<1> SUFFICES ASSUME NEW q \in Queues PROVE Cardinality(Running(q)') <= MaxConcurrency[q]
  BY DEF ConcurrencyLimit
<1>1. Cardinality(Running(q)) <= MaxConcurrency[q] /\ MaxConcurrency[q] \in Nat
  BY PolicyAssumption DEF ConcurrencyLimit
<1>2. CASE Running(q)' \subseteq Running(q)
  <2>1. Cardinality(Running(q)') <= Cardinality(Running(q)) /\ Cardinality(Running(q)') \in Nat
    BY <1>2, RunningFinite, FS_Subset, FS_CardinalityType
  <2>2. QED
    BY <1>1, <2>1, RunningFinite
<1>3. ASSUME NEW S \in SUBSET Jobs, OnlyIn(S), FitsSlots(S), \A j \in S : Starts(j)
      PROVE  Cardinality(Running(q)') <= MaxConcurrency[q]
  <2>1. Running(q)' = Running(q) \cup InQueue(S, q)
    BY <1>3 DEF OnlyIn, Kept, Starts, Running, InQueue
  <2>2. CASE InQueue(S, q) = {}
    BY <1>2, <2>1, <2>2
  <2>3. CASE Cardinality(Running(q)) + Cardinality(InQueue(S, q)) <= MaxConcurrency[q]
    <3>1. IsFiniteSet(InQueue(S, q))
      BY FinitenessAssumption, FS_Subset DEF InQueue
    <3>2. Running(q) \cap InQueue(S, q) = {}
      BY <1>3 DEF Running, InQueue, Starts
    <3>3. Cardinality(Running(q)') = Cardinality(Running(q)) + Cardinality(InQueue(S, q))
      <4> DEFINE R == Running(q)
                 I == InQueue(S, q)
      <4>1. Cardinality(R) \in Nat /\ Cardinality(I) \in Nat /\ IsFiniteSet(R)
        BY <3>1, RunningFinite, FS_CardinalityType
      <4>2. Cardinality(R \cup I) = Cardinality(R) + Cardinality(I) - Cardinality(R \cap I)
        BY <3>1, <4>1, FS_Union
      <4>3. Cardinality(R \cap I) = 0
        BY <3>2, FS_EmptySet
      <4>4. Cardinality(R \cup I) = Cardinality(R) + Cardinality(I)
        BY <4>1, <4>2, <4>3
      <4>5. QED
        BY <2>1, <4>4
    <3>4. QED
      BY <2>3, <3>3
  <2>4. QED
    BY <1>3, <2>2, <2>3 DEF FitsSlots
<1>4. ASSUME ~ \E S \in SUBSET Jobs : OnlyIn(S) /\ FitsSlots(S) /\ \A j \in S : Starts(j)
      PROVE  Running(q)' \subseteq Running(q)
  <2> SUFFICES ASSUME NEW j \in Jobs, row'[j].status = "running" PROVE row[j].status = "running"
    BY DEF Running
  <2>1. CASE Kept(j)
    BY <2>1 DEF Kept
  <2>2. ~GivenBack(j) /\ ~Forgotten(j) /\ ~Withdrawn(j) /\ ~Submitted(j) /\ ~Revived(j)
        /\ \A end \in Settled : ~Ended(j, end)
    BY DEF GivenBack, Forgotten, Withdrawn, Submitted, Revived, Ended, Settled
  <2>3. QED
    BY <1>4, <2>1, <2>2, StepShape DEF Shape, OnlyIn
<1>5. QED
  BY <1>2, <1>3, <1>4

(* No interleaving of drains, lapsed leases and late settlements ever has more *)
(* jobs of a queue running than its policy allows.                             *)
THEOREM ConcurrencyCorrect == Spec => []ConcurrencyLimit
<1>1. Init => TypeOK /\ ConcurrencyLimit
  <2>1. ASSUME Init, NEW q \in Queues PROVE Cardinality(Running(q)) <= MaxConcurrency[q]
    <3>1. Running(q) = {}
      BY <2>1 DEF Init, Running
    <3>2. QED
      BY <3>1, FS_EmptySet, PolicyAssumption
  <2>2. QED
    BY <2>1, InitType DEF ConcurrencyLimit
<1>2. TypeOK /\ ConcurrencyLimit /\ [Next]_vars => (TypeOK /\ ConcurrencyLimit)'
  BY TypeStep, ConcurrencyStep
<1>3. QED
  BY <1>1, <1>2, PTL DEF Spec

-------------------------------------------------------------------------------
(* Outcomes are final.                                                       *)

LEMMA FinalStep ==
  ASSUME TypeOK, [Next]_vars, NEW j \in Jobs, row[j].status \in Settled
  PROVE  \/ row'[j].status \in {row[j].status, "absent"}
         \/ row[j].status = "dead" /\ row'[j].status = "queued" /\ RetryDead(j)
<1>1. Shape
  BY StepShape
<1>2. CASE Kept(j) \/ Forgotten(j)
  BY <1>2 DEF Kept, Forgotten
<1>3. CASE Revived(j) /\ RetryDead(j)
  BY <1>3 DEF Revived
<1>4. ~Starts(j) /\ ~GivenBack(j) /\ ~Withdrawn(j) /\ ~Submitted(j)
      /\ \A end \in Settled : ~Ended(j, end)
  BY DEF Starts, GivenBack, Withdrawn, Submitted, Ended, Settled
<1>5. QED
  BY <1>1, <1>2, <1>3, <1>4 DEF Shape, OnlyIn

(* A settled job keeps its outcome until its row is pruned; only the operator *)
(* reopens one, and only a dead one.                                          *)
THEOREM SettledCorrect == Spec => SettledIsFinal
<1>1. TypeOK /\ [Next]_vars =>
        [\A j \in Jobs : row[j].status \in Settled =>
           \/ row'[j].status \in {row[j].status, "absent"}
           \/ row[j].status = "dead" /\ row'[j].status = "queued" /\ RetryDead(j)]_vars
  BY FinalStep
<1>2. QED
  BY <1>1, TypeCorrect, PTL DEF Spec, SettledIsFinal

-------------------------------------------------------------------------------
(* The abstract lifecycle.                                                   *)

LEMMA PhaseOfStatus ==
  ASSUME NEW s \in Statuses
  PROVE  /\ Phase(s) = "none" <=> s = "absent"
         /\ Phase(s) = "waiting" <=> s = "queued"
         /\ Phase(s) = "working" <=> s = "running"
         /\ s \in Settled => Phase(s) = s
BY DEF Phase, Statuses, Settled

LEMMA StatusTypes ==
  ASSUME TypeOK, [Next]_vars, NEW j \in Jobs
  PROVE  row[j].status \in Statuses /\ row'[j].status \in Statuses
<1>1. Rows /\ Rows'
  BY TypeStep, TypeParts DEF TypeOK, Rows
<1>2. QED
  BY <1>1 DEF Rows, Row

LEMMA LifecycleStep ==
  ASSUME TypeOK, ConcurrencyLimit, [Next]_vars
  PROVE  [Lifecycle!JobNext]_(Lifecycle!jobVars)
<1> DEFINE ph == [j \in Jobs |-> Phase(row[j].status)]
           tr == [j \in Jobs |-> row[j].attempts]
<1>1. Shape
  BY StepShape
<1>2. ASSUME NEW j \in Jobs PROVE row[j].status \in Statuses /\ row'[j].status \in Statuses
  BY StatusTypes
<1>3. ASSUME NEW S \in SUBSET Jobs, OnlyIn(S), NEW p, \A j \in S : Phase(row'[j].status) = p
      PROVE  Lifecycle!Becomes(S, p)
  BY <1>3 DEF Lifecycle!Becomes, OnlyIn, Kept
<1>4. ASSUME NEW S \in SUBSET Jobs, OnlyIn(S), \A j \in S : Same(j)
      PROVE  tr' = tr
  BY <1>4 DEF OnlyIn, Kept, Same
<1>5. ASSUME NEW S \in SUBSET Jobs, OnlyIn(S), FitsSlots(S), \A j \in S : Starts(j)
      PROVE  Lifecycle!Start(S)
  <2>1. \A j \in S : Phase(row[j].status) = "waiting" /\ Phase(row'[j].status) = "working"
    BY <1>2, <1>5, PhaseOfStatus DEF Starts
  <2>2. Lifecycle!Becomes(S, "working")
    BY <1>3, <1>5, <2>1
  <2>3. tr' = [j \in Jobs |-> IF j \in S THEN tr[j] + 1 ELSE tr[j]]
    BY <1>5 DEF OnlyIn, Kept, Same, Starts
  <2>4. ASSUME NEW q \in Queues PROVE Cardinality(Lifecycle!Working(q)') <= MaxConcurrency[q]
    <3>1. Lifecycle!Working(q)' = Running(q)'
      BY <1>2, PhaseOfStatus DEF Lifecycle!Working, Running
    <3>2. QED
      BY <3>1, ConcurrencyStep DEF ConcurrencyLimit
  <2>5. \A q \in Queues : Lifecycle!Cardinality(Lifecycle!Working(q)') <= MaxConcurrency[q]
    BY <2>4 DEF Cardinality, Lifecycle!Cardinality
  <2>6. QED
    BY <2>1, <2>2, <2>3, <2>5 DEF Lifecycle!Start
<1>6. ASSUME NEW S \in SUBSET Jobs, OnlyIn(S), \A j \in S : GivenBack(j)
      PROVE  Lifecycle!GiveBack(S)
  <2>1. \A j \in S : Phase(row[j].status) = "working" /\ Phase(row'[j].status) = "waiting"
    BY <1>2, <1>6, PhaseOfStatus DEF GivenBack
  <2>2. Lifecycle!Becomes(S, "waiting")
    BY <1>3, <1>6, <2>1
  <2>3. tr' = tr
    BY <1>4, <1>6 DEF GivenBack
  <2>4. QED
    BY <1>6, <2>1, <2>2, <2>3 DEF Lifecycle!GiveBack, GivenBack
<1>7. ASSUME NEW S \in SUBSET Jobs, NEW end \in Settled, OnlyIn(S), \A j \in S : Ended(j, end)
      PROVE  Lifecycle!Finish(S, end)
  <2>1. \A j \in S : Phase(row[j].status) = "working" /\ Phase(row'[j].status) = end
    BY <1>2, <1>7, PhaseOfStatus DEF Ended
  <2>2. Lifecycle!Becomes(S, end)
    BY <1>3, <1>7, <2>1
  <2>3. tr' = tr
    BY <1>4, <1>7 DEF Ended
  <2>4. QED
    BY <2>1, <2>2, <2>3 DEF Lifecycle!Finish
<1>8. ASSUME NEW S \in SUBSET Jobs, OnlyIn(S), \A j \in S : Forgotten(j)
      PROVE  Lifecycle!Forget(S)
  <2>1. \A j \in S : Phase(row[j].status) \in Settled /\ Phase(row'[j].status) = "none"
    BY <1>2, <1>8, PhaseOfStatus DEF Forgotten
  <2>2. Lifecycle!Becomes(S, "none")
    BY <1>3, <1>8, <2>1
  <2>3. tr' = tr
    BY <1>4, <1>8 DEF Forgotten
  <2>4. QED
    BY <2>1, <2>2, <2>3 DEF Lifecycle!Forget, Lifecycle!Ends, Settled
<1>9. ASSUME NEW j \in Jobs, OnlyIn({j}), Withdrawn(j)
      PROVE  Lifecycle!Withdraw(j)
  <2>1. Phase(row[j].status) = "waiting" /\ Phase(row'[j].status) = "cancelled"
    BY <1>2, <1>9, PhaseOfStatus DEF Withdrawn, Settled
  <2>2. Lifecycle!Becomes({j}, "cancelled")
    BY <1>3, <1>9, <2>1
  <2>3. tr' = tr
    BY <1>4, <1>9 DEF Withdrawn
  <2>4. QED
    BY <2>1, <2>2, <2>3 DEF Lifecycle!Withdraw
<1>10. ASSUME NEW j \in Jobs, OnlyIn({j}), Submitted(j) \/ Revived(j)
       PROVE  Lifecycle!Submit(j)
  <2>1. Phase(row[j].status) \in {"none", "dead"} /\ Phase(row'[j].status) = "waiting"
    BY <1>2, <1>10, PhaseOfStatus DEF Submitted, Revived, Settled
  <2>2. Lifecycle!Becomes({j}, "waiting")
    BY <1>3, <1>10, <2>1
  <2>3. tr' = [tr EXCEPT ![j] = 0]
    BY <1>10 DEF OnlyIn, Kept, Same, Submitted, Revived
  <2>4. QED
    BY <2>1, <2>2, <2>3 DEF Lifecycle!Submit
<1>11. QED
  BY <1>1, <1>5, <1>6, <1>7, <1>8, <1>9, <1>10
     DEF Shape, Lifecycle!JobNext, Lifecycle!Ends, Settled

(* The queue implements the lifecycle it promises: every statement of every   *)
(* worker and caller is one step of JobLifecycle, or none.                    *)
THEOREM LifecycleCorrect == Spec => ImplementsLifecycle
<1>1. Init => Lifecycle!JobInit
  BY DEF Init, Lifecycle!JobInit, Phase
<1>2. TypeOK /\ ConcurrencyLimit /\ [Next]_vars => [Lifecycle!JobNext]_(Lifecycle!jobVars)
  BY LifecycleStep
<1>3. QED
  BY <1>1, <1>2, TypeCorrect, ConcurrencyCorrect, PTL
     DEF Spec, ImplementsLifecycle, Lifecycle!JobSpec

-------------------------------------------------------------------------------
(* Who may settle a job.                                                     *)

Advances(j) ==
  \/ row'[j].id > row[j].id
  \/ row'[j].id = row[j].id /\ row'[j].retried > row[j].retried
  \/ row'[j].id = row[j].id /\ row'[j].retried = row[j].retried /\ row'[j].attempts >= row[j].attempts

LEMMA RowsAdvance ==
  ASSUME TypeOK, [Next]_vars, NEW j \in Jobs
  PROVE  Advances(j)
<1>1. row[j].id \in Nat /\ row[j].retried \in Nat /\ row[j].attempts \in Nat
  BY TypeParts DEF Rows, Row
<1>2. CASE Same(j)
  BY <1>1, <1>2 DEF Same, Advances
<1>3. CASE Starts(j) \/ Submitted(j) \/ Revived(j)
  BY <1>1, <1>3 DEF Starts, Submitted, Revived, Advances
<1>4. Same(j) \/ Starts(j) \/ Submitted(j) \/ Revived(j)
  BY StepShape DEF Shape, OnlyIn, Kept, GivenBack, Ended, Forgotten, Withdrawn
<1>5. QED
  BY <1>2, <1>3, <1>4

LEMMA OrderKept ==
  ASSUME TypeOK, [Next]_vars, NEW e \in execs, Ordered(e), NEW g, SameClaim(e, g)
  PROVE  Ordered(g)'
<1>1. /\ e.job \in Jobs
      /\ e.id \in Nat /\ e.retried \in Nat /\ e.attempt \in Nat
  BY TypeParts DEF Execs, Execution
<1>2. /\ row[e.job].id \in Nat /\ row[e.job].retried \in Nat /\ row[e.job].attempts \in Nat
      /\ row'[e.job].id \in Nat /\ row'[e.job].retried \in Nat /\ row'[e.job].attempts \in Nat
  <2>1. Rows /\ Rows'
    BY TypeStep, TypeParts DEF TypeOK, Rows
  <2>2. QED
    BY <1>1, <2>1 DEF Rows, Row
<1>3. Advances(e.job)
  BY <1>1, RowsAdvance
<1>4. QED
  BY <1>1, <1>2, <1>3 DEF Advances, Ordered, SameClaim

ClaimOf(w, S) ==
  /\ row' = [j \in Jobs |-> IF j \in S THEN Claimed(j, w) ELSE row[j]]
  /\ execs' = execs \cup {NewExecution(j, w) : j \in S}

LEMMA ExecShape ==
  ASSUME TypeOK, [Next]_vars
  PROVE  \/ execs' \subseteq execs
         \/ \E e \in execs, p \in Phases : execs' = (execs \ {e}) \cup {[e EXCEPT !.phase = p]}
         \/ \E w \in Workers : execs' = Abandoned(w)
         \/ \E w \in Workers, S \in SUBSET Jobs : ClaimOf(w, S)
<1> DEFINE Goal == \/ execs' \subseteq execs
                   \/ \E e \in execs, p \in Phases :
                        execs' = (execs \ {e}) \cup {[e EXCEPT !.phase = p]}
                   \/ \E w \in Workers : execs' = Abandoned(w)
                   \/ \E w \in Workers, S \in SUBSET Jobs : ClaimOf(w, S)
<1>1. ASSUME NEW j \in Jobs, TimePasses(j) \/ Caller(j) PROVE Goal
  BY <1>1 DEF TimePasses, Caller, EnqueueInsert, EnqueueLookup, CancelQueued, CancelRunning,
              CancelRead, RetryDead
<1>2. ASSUME NEW e \in execs, Executes(e) PROVE Goal
  BY <1>2 DEF Executes, HandlerEnds, PollCancellation, Settle, Phases
<1>3. ASSUME NEW w \in Workers, Drain(w) PROVE Goal
  <2>1. CASE Claim(w)
    <3>1. PICK S \in Selections(w) :
            /\ row' = [j \in Jobs |-> IF j \in S THEN Claimed(j, w) ELSE row[j]]
            /\ execs' = execs \cup {NewExecution(j, w) : j \in S}
      BY <2>1 DEF Claim
    <3>2. S \in SUBSET Jobs
      BY SelectionFacts
    <3>3. QED
      BY <3>1, <3>2 DEF ClaimOf
  <2>2. QED
    BY <1>3, <2>1 DEF Drain, StartDrain, ReapSpent, ReapRequeue, ReapCancelled, SkipClaim,
                      PruneFinished, PruneDead
<1>4. ASSUME NEW w \in Workers, DrainFails(w) \/ ClaimAnswerLost(w) \/ Crash(w) PROVE Goal
  BY <1>4 DEF DrainFails, ClaimAnswerLost, Crash
<1>5. ASSUME NEW w \in Workers, NEW q \in Queues, BudgetShrinks(w, q) PROVE Goal
  BY <1>5 DEF BudgetShrinks
<1>6. CASE UNCHANGED vars
  BY <1>6 DEF vars
<1>7. QED
  BY <1>1, <1>2, <1>3, <1>4, <1>5, <1>6 DEF Next

LEMMA ClaimsStep ==
  ASSUME TypeOK, ClaimsTellApart, [Next]_vars
  PROVE  ClaimsTellApart'
<1> SUFFICES /\ \A g \in execs' : Ordered(g)'
             /\ \A g, h \in execs' : SameClaim(g, h) => g = h
  BY DEF ClaimsTellApart, SameClaim
<1>0. execs \subseteq Execution
  BY TypeParts DEF Execs
<1>1. ASSUME NEW e \in execs, NEW g, SameClaim(e, g) PROVE Ordered(g)'
  BY <1>1, OrderKept DEF ClaimsTellApart
<1>2. \A e, f \in execs : SameClaim(e, f) => e = f
  BY DEF ClaimsTellApart
<1>3. CASE execs' \subseteq execs
  BY <1>1, <1>2, <1>3 DEF SameClaim
<1>4. ASSUME NEW e \in execs, NEW p \in Phases,
             execs' = (execs \ {e}) \cup {[e EXCEPT !.phase = p]}
      PROVE  /\ \A g \in execs' : Ordered(g)'
             /\ \A g, h \in execs' : SameClaim(g, h) => g = h
  <2>1. SameClaim(e, [e EXCEPT !.phase = p])
    BY <1>0 DEF SameClaim, Execution
  <2>2. ASSUME NEW f \in execs \ {e}
        PROVE  ~SameClaim(f, [e EXCEPT !.phase = p]) /\ ~SameClaim([e EXCEPT !.phase = p], f)
    BY <1>2, <2>1 DEF SameClaim
  <2>3. \A g \in execs' : \E f \in execs : SameClaim(f, g)
    BY <1>4, <2>1 DEF SameClaim
  <2>4. QED
    BY <1>1, <1>2, <1>4, <2>2, <2>3
<1>5. ASSUME NEW w \in Workers, execs' = Abandoned(w)
      PROVE  /\ \A g \in execs' : Ordered(g)'
             /\ \A g, h \in execs' : SameClaim(g, h) => g = h
  <2> DEFINE image(e) == IF e.worker = w THEN [e EXCEPT !.tracked = FALSE] ELSE e
  <2>1. \A e \in execs : SameClaim(e, image(e))
    BY <1>0 DEF SameClaim, Execution
  <2>2. \A g \in execs' : \E e \in execs : g = image(e)
    BY <1>5 DEF Abandoned
  <2>3. ASSUME NEW g \in execs', NEW h \in execs', SameClaim(g, h) PROVE g = h
    <3>1. PICK e \in execs, f \in execs : g = image(e) /\ h = image(f)
      BY <2>2
    <3>2. SameClaim(e, f)
      BY <2>1, <2>3, <3>1 DEF SameClaim
    <3>3. QED
      BY <1>2, <3>1, <3>2
  <2>4. QED
    BY <1>1, <2>1, <2>2, <2>3
<1>6. ASSUME NEW w \in Workers, NEW S \in SUBSET Jobs, ClaimOf(w, S)
      PROVE  /\ \A g \in execs' : Ordered(g)'
             /\ \A g, h \in execs' : SameClaim(g, h) => g = h
  <2>1. ASSUME NEW j \in S
        PROVE  /\ NewExecution(j, w).job = j
               /\ NewExecution(j, w).id = row[j].id
               /\ NewExecution(j, w).retried = row[j].retried
               /\ NewExecution(j, w).attempt = row[j].attempts + 1
    BY DEF NewExecution
  <2>2. ASSUME NEW j \in S
        PROVE  /\ row[j].id \in Nat /\ row[j].retried \in Nat /\ row[j].attempts \in Nat
               /\ row'[j].id = row[j].id
               /\ row'[j].retried = row[j].retried
               /\ row'[j].attempts = row[j].attempts + 1
    <3>1. row[j] \in Row /\ row'[j] = Claimed(j, w)
      BY <1>6, TypeParts DEF ClaimOf, Rows
    <3>2. QED
      BY <3>1 DEF Claimed, Row
  <2>3. ASSUME NEW j \in S, NEW g, g = NewExecution(j, w) PROVE Ordered(g)'
    BY <2>1, <2>2, <2>3 DEF Ordered
  <2>4. ASSUME NEW j \in S, NEW e \in execs
        PROVE  ~SameClaim(e, NewExecution(j, w)) /\ ~SameClaim(NewExecution(j, w), e)
    <3>1. Ordered(e)
      BY DEF ClaimsTellApart
    <3>2. QED
      BY <2>1, <2>2, <3>1 DEF Ordered, SameClaim
  <2>5. \A g \in execs' : g \in execs \/ \E j \in S : g = NewExecution(j, w)
    BY <1>6 DEF ClaimOf
  <2>6. \A g \in execs' : Ordered(g)'
    BY <1>1, <2>3, <2>5 DEF SameClaim
  <2>7. ASSUME NEW g \in execs', NEW h \in execs', SameClaim(g, h) PROVE g = h
    <3>1. CASE g \in execs /\ h \in execs
      BY <1>2, <2>7, <3>1
    <3>2. CASE g \notin execs /\ h \notin execs
      BY <2>1, <2>5, <2>7, <3>2 DEF SameClaim
    <3>3. QED
      BY <2>4, <2>5, <2>7, <3>1, <3>2
  <2>8. QED
    BY <2>6, <2>7
<1>7. QED
  BY <1>3, <1>4, <1>5, <1>6, ExecShape

LEMMA ClaimsGiveSoleHolder == TypeOK /\ ClaimsTellApart => SoleHolder
BY DEF ClaimsTellApart, SoleHolder, SameClaim, Fenced

LEMMA ClaimsInvariant == Spec => []ClaimsTellApart
<1>1. Init => TypeOK /\ ClaimsTellApart
  BY InitType DEF Init, ClaimsTellApart
<1>2. TypeOK /\ ClaimsTellApart /\ [Next]_vars => (TypeOK /\ ClaimsTellApart)'
  BY TypeStep, ClaimsStep
<1>3. QED
  BY <1>1, <1>2, PTL DEF Spec

(* Between two operator retries at most one execution of a job passes the     *)
(* fence, for any number of workers, crashes and lost answers.                *)
THEOREM SoleHolderCorrect == Spec => []SoleHolder
BY ClaimsInvariant, TypeCorrect, ClaimsGiveSoleHolder, PTL

-------------------------------------------------------------------------------
(* What callers were told.                                                   *)

CallsInOrder == \A j \in Jobs : req[j].id <= row[j].id
ToldCancelled(j) == req[j].step \in {"cancelled", "already-cancelled"} /\ row[j].id = req[j].id

LEMMA CallShape ==
  ASSUME TypeOK, [Next]_vars, NEW j \in Jobs
  PROVE  \/ req'[j] = req[j]
         \/ \E u \in Cancellers : CancelQueued(j, u)
         \/ CancelRunning(j)
         \/ CancelRead(j)
<1>1. ASSUME NEW i \in Jobs, i # j,
             CancelRunning(i) \/ CancelRead(i) \/ \E u \in Cancellers : CancelQueued(i, u)
      PROVE  req'[j] = req[j]
  BY <1>1, TypeParts DEF Reqs, CancelQueued, CancelRunning, CancelRead
<1>2. ASSUME NEW i \in Jobs,
             \/ TimePasses(i) \/ EnqueueLookup(i) \/ RetryDead(i)
             \/ \E u \in Users, due \in BOOLEAN : EnqueueInsert(i, u, due)
      PROVE  req' = req
  BY <1>2 DEF TimePasses, EnqueueLookup, RetryDead, EnqueueInsert
<1>3. ASSUME NEW e \in execs, Executes(e) PROVE req' = req
  BY <1>3 DEF Executes, HandlerEnds, PollCancellation, Settle
<1>4. ASSUME NEW w \in Workers,
             \/ Drain(w) \/ DrainFails(w) \/ ClaimAnswerLost(w) \/ Crash(w)
             \/ \E q \in Queues : BudgetShrinks(w, q)
      PROVE  req' = req
  BY <1>4 DEF Drain, StartDrain, ReapSpent, ReapRequeue, ReapCancelled, Claim, SkipClaim,
              PruneFinished, PruneDead, DrainFails, ClaimAnswerLost, Crash, BudgetShrinks
<1>5. QED
  BY <1>1, <1>2, <1>3, <1>4 DEF Next, Caller, vars

LEMMA CancelledStep ==
  ASSUME TypeOK, CallsInOrder, CancelledStaysCancelled, [Next]_vars
  PROVE  CallsInOrder' /\ CancelledStaysCancelled'
<1> SUFFICES ASSUME NEW j \in Jobs
             PROVE  /\ req'[j].id <= row'[j].id
                    /\ ToldCancelled(j)' => row'[j].status \in {"cancelled", "absent"}
  BY DEF CallsInOrder, CancelledStaysCancelled, ToldCancelled
<1>1. /\ row[j].id \in Nat /\ row[j].retried \in Nat /\ row[j].attempts \in Nat
      /\ req[j].id \in Nat /\ row'[j].id \in Nat
  <2>1. Rows /\ Rows' /\ Reqs
    BY TypeStep, TypeParts DEF TypeOK, Rows
  <2>2. QED
    BY <2>1 DEF Rows, Row, Reqs
<1>2. req[j].id <= row[j].id /\ (ToldCancelled(j) => row[j].status \in {"cancelled", "absent"})
  BY DEF CallsInOrder, CancelledStaysCancelled, ToldCancelled
<1>3. Advances(j)
  BY RowsAdvance
<1>4. row'[j].id >= row[j].id
  BY <1>1, <1>3 DEF Advances
<1>5. CASE req'[j] = req[j]
  <2>1. req'[j].id <= row'[j].id
    BY <1>1, <1>2, <1>4, <1>5
  <2>2. ASSUME ToldCancelled(j)' PROVE row'[j].status \in {"cancelled", "absent"}
    <3>1. row'[j].id = row[j].id /\ ToldCancelled(j)
      BY <1>1, <1>2, <1>4, <1>5, <2>2 DEF ToldCancelled
    <3>2. row[j].status \in {"cancelled", "absent"}
      BY <1>2, <3>1
    <3>3. CASE Kept(j) \/ Forgotten(j)
      BY <3>2, <3>3 DEF Kept, Forgotten
    <3>4. ~Submitted(j)
      BY <1>1, <3>1 DEF Submitted
    <3>5. ~Starts(j) /\ ~GivenBack(j) /\ ~Withdrawn(j) /\ ~Revived(j)
          /\ \A end \in Settled : ~Ended(j, end)
      BY <3>2 DEF Starts, GivenBack, Withdrawn, Revived, Ended
    <3>6. QED
      BY <3>3, <3>4, <3>5, StepShape DEF Shape, OnlyIn
  <2>3. QED
    BY <2>1, <2>2
<1>6. ASSUME NEW u \in Cancellers, CancelQueued(j, u)
      PROVE  /\ req'[j].id <= row'[j].id
             /\ ToldCancelled(j)' => row'[j].status \in {"cancelled", "absent"}
  <2>1. Rows /\ Reqs
    BY TypeParts
  <2>2. req'[j].id = row[j].id
    BY <1>6, <2>1 DEF CancelQueued, Reqs
  <2>3. CASE row[j].status = "queued" /\ row[j].user = u
    <3>1. row'[j] = [row[j] EXCEPT !.status = "cancelled", !.cancel = TRUE, !.worker = NoWorker,
                                   !.elapsed = FALSE]
      BY <1>6, <2>1, <2>3 DEF CancelQueued, Rows
    <3>2. row'[j].status = "cancelled"
      BY <2>1, <3>1 DEF Rows, Row
    <3>3. QED
      BY <1>1, <1>4, <2>2, <3>2
  <2>4. CASE ~(row[j].status = "queued" /\ row[j].user = u)
    <3>1. req'[j].step = "askRunning"
      BY <1>6, <2>1, <2>4 DEF CancelQueued, Reqs
    <3>2. QED
      BY <1>1, <1>4, <2>2, <3>1 DEF ToldCancelled
  <2>5. QED
    BY <2>3, <2>4
<1>7. CASE CancelRunning(j)
  <2>1. req'[j].id = req[j].id /\ req'[j].step \in {"requested", "readStatus"}
    BY <1>7, TypeParts DEF CancelRunning, Reqs
  <2>2. QED
    BY <1>1, <1>2, <1>4, <2>1 DEF ToldCancelled
<1>8. CASE CancelRead(j)
  <2>1. /\ req'[j].id = req[j].id /\ row' = row
        /\ req'[j].step = "already-cancelled" => row[j].status = "cancelled"
        /\ req'[j].step # "cancelled"
    BY <1>8, TypeParts DEF CancelRead, Reqs
  <2>2. QED
    BY <1>1, <1>2, <2>1 DEF ToldCancelled
<1>9. QED
  BY <1>5, <1>6, <1>7, <1>8, CallShape

LEMMA CallsInvariant == Spec => []CallsInOrder /\ []CancelledStaysCancelled
<1>1. Init => TypeOK /\ CallsInOrder /\ CancelledStaysCancelled
  BY InitType DEF Init, CallsInOrder, CancelledStaysCancelled
<1>2. TypeOK /\ CallsInOrder /\ CancelledStaysCancelled /\ [Next]_vars
        => (TypeOK /\ CallsInOrder /\ CancelledStaysCancelled)'
  BY TypeStep, CancelledStep
<1>3. QED
  BY <1>1, <1>2, PTL DEF Spec

(* A caller told that its job is cancelled is never contradicted by a worker, *)
(* a reaper or a retry that was under way.                                    *)
THEOREM CancelledCorrect == Spec => []CancelledStaysCancelled
BY CallsInvariant, PTL

-------------------------------------------------------------------------------
(* What becomes of a request to cancel.                                      *)

(* The two statements of requestJobCancellation that mark a row. *)
CancelsOutright(j) ==
  \E u \in Cancellers :
    /\ CancelQueued(j, u)
    /\ row[j].status = "queued" /\ row[j].user = u
Asks(j) == CancelRunning(j) /\ Addressed(j) /\ row[j].status = "running"

(* An execution that aborted itself acknowledges the request it has seen. *)
Acknowledges(j) == \E e \in execs : e.job = j /\ e.phase = "cancelled" /\ Fenced(e)

Unmarked(j) == row'[j].id = row[j].id /\ row'[j].cancel = row[j].cancel
Filed(j) == Submitted(j) /\ ~row'[j].cancel

LEMMA MarkShape ==
  ASSUME TypeOK, [Next]_vars, NEW j \in Jobs
  PROVE  \/ Unmarked(j)
         \/ Filed(j)
         \/ CancelsOutright(j)
         \/ Asks(j)
         \/ Acknowledges(j) /\ row'[j].cancel /\ row'[j].id = row[j].id
<1> DEFINE Goal == \/ Unmarked(j)
                   \/ Filed(j)
                   \/ CancelsOutright(j)
                   \/ Asks(j)
                   \/ Acknowledges(j) /\ row'[j].cancel /\ row'[j].id = row[j].id
<1>0. Rows /\ row[j] \in Row
  BY TypeParts DEF Rows
<1>1. ASSUME UNCHANGED row PROVE Goal
  BY <1>1 DEF Unmarked
<1>2. ASSUME NEW i \in Jobs, TimePasses(i) \/ RetryDead(i) PROVE Goal
  BY <1>0, <1>2 DEF TimePasses, RetryDead, Unmarked, Rows, Row
<1>3. ASSUME NEW i \in Jobs, NEW u \in Users, NEW due \in BOOLEAN, EnqueueInsert(i, u, due)
      PROVE  Goal
  BY <1>0, <1>3 DEF EnqueueInsert, Unmarked, Filed, Submitted, Rows, Row
<1>4. ASSUME NEW i \in Jobs, NEW u \in Cancellers, CancelQueued(i, u) PROVE Goal
  <2>1. CASE i = j /\ row[j].status = "queued" /\ row[j].user = u
    BY <1>4, <2>1 DEF CancelsOutright
  <2>2. CASE ~(i = j /\ row[j].status = "queued" /\ row[j].user = u)
    BY <1>0, <1>4, <2>2 DEF CancelQueued, Unmarked, Rows
  <2>3. QED
    BY <2>1, <2>2
<1>5. ASSUME NEW i \in Jobs, CancelRunning(i) PROVE Goal
  <2>1. CASE i = j /\ Addressed(j) /\ row[j].status = "running"
    BY <1>5, <2>1 DEF Asks
  <2>2. CASE ~(i = j /\ Addressed(j) /\ row[j].status = "running")
    BY <1>0, <1>5, <2>2 DEF CancelRunning, Unmarked, Rows
  <2>3. QED
    BY <2>1, <2>2
<1>6. ASSUME NEW e \in execs, NEW committed \in BOOLEAN, NEW answered \in BOOLEAN,
             Settle(e, committed, answered)
      PROVE  Goal
  <2>1. CASE ~(e.job = j /\ committed /\ Fenced(e))
    BY <1>0, <1>6, <2>1 DEF Settle, Unmarked, Rows
  <2>2. CASE e.job = j /\ committed /\ Fenced(e)
    <3>1. row'[j] = SettledRow(e)
      BY <1>0, <1>6, <2>2 DEF Settle, Rows
    <3>2. CASE e.phase = "cancelled"
      <4>1. row'[j].cancel /\ row'[j].id = row[j].id
        BY <1>0, <2>2, <3>1, <3>2 DEF SettledRow, Row
      <4>2. QED
        BY <2>2, <3>2, <4>1 DEF Acknowledges
    <3>3. CASE e.phase # "cancelled"
      BY <1>0, <2>2, <3>1, <3>3 DEF SettledRow, Unmarked, Row
    <3>4. QED
      BY <3>2, <3>3
  <2>3. QED
    BY <2>1, <2>2
<1>7. ASSUME NEW w \in Workers, ReapSpent(w) \/ ReapRequeue(w) \/ ReapCancelled(w) PROVE Goal
  <2>1. CASE ReapSpent(w)
    BY <1>0, <2>1 DEF ReapSpent, Unmarked, Row
  <2>2. CASE ReapRequeue(w)
    BY <1>0, <2>2 DEF ReapRequeue, Unmarked, Row
  <2>3. CASE ReapCancelled(w)
    BY <1>0, <2>3 DEF ReapCancelled, Unmarked, Row
  <2>4. QED
    BY <1>7, <2>1, <2>2, <2>3
<1>8. ASSUME NEW w \in Workers, Claim(w) \/ ClaimAnswerLost(w) PROVE Goal
  <2>1. PICK S : row' = [i \in Jobs |-> IF i \in S THEN Claimed(i, w) ELSE row[i]]
    BY <1>8 DEF Claim, ClaimAnswerLost
  <2>2. row'[j] = row[j] \/ row'[j] = Claimed(j, w)
    BY <2>1
  <2>3. QED
    BY <1>0, <2>2 DEF Claimed, Unmarked, Row
<1>9. ASSUME NEW w \in Workers, PruneFinished(w) \/ PruneDead(w) PROVE Goal
  BY <1>0, <1>9 DEF PruneFinished, PruneDead, Prune, Unmarked, Row
<1>10. ASSUME NEW w \in Workers,
              \/ StartDrain(w) \/ SkipClaim(w) \/ DrainFails(w) \/ Crash(w)
              \/ \E q \in Queues : BudgetShrinks(w, q)
       PROVE  Goal
  BY <1>1, <1>10 DEF StartDrain, SkipClaim, DrainFails, Crash, BudgetShrinks
<1>11. ASSUME NEW i \in Jobs, EnqueueLookup(i) \/ CancelRead(i) PROVE Goal
  BY <1>1, <1>11 DEF EnqueueLookup, CancelRead
<1>12. ASSUME NEW e \in execs,
              PollCancellation(e) \/ \E outcome \in Phases : HandlerEnds(e, outcome)
       PROVE  Goal
  BY <1>1, <1>12 DEF PollCancellation, HandlerEnds
<1>13. ASSUME UNCHANGED vars PROVE Goal
  BY <1>1, <1>13 DEF vars
<1> HIDE DEF Goal
<1>14. ASSUME NEW i \in Jobs, Caller(i) PROVE Goal
  BY <1>2, <1>3, <1>4, <1>5, <1>11, <1>14 DEF Caller
<1>15. ASSUME NEW e \in execs, Executes(e) PROVE Goal
  BY <1>6, <1>12, <1>15 DEF Executes
<1>16. ASSUME NEW w \in Workers, Drain(w) PROVE Goal
  BY <1>7, <1>8, <1>9, <1>10, <1>16 DEF Drain
<1>17. Goal
  BY <1>2, <1>8, <1>10, <1>13, <1>14, <1>15, <1>16 DEF Next
<1>18. QED
  BY <1>17 DEF Goal

(* A mark stays on its row until another row is filed under the key. *)
LEMMA MarkStays ==
  ASSUME TypeOK, [Next]_vars, NEW j \in Jobs, row[j].cancel, row'[j].id = row[j].id
  PROVE  row'[j].cancel
<1>0. Rows /\ row[j] \in Row
  BY TypeParts DEF Rows
<1>1. CASE Unmarked(j)
  BY <1>1 DEF Unmarked
<1>2. ~Filed(j)
  BY <1>0 DEF Filed, Submitted, Row
<1>3. CASE CancelsOutright(j)
  BY <1>0, <1>3 DEF CancelsOutright, CancelQueued, Rows, Row
<1>4. CASE Asks(j)
  BY <1>0, <1>4 DEF Asks, CancelRunning, Rows, Row
<1>5. QED
  BY <1>1, <1>2, <1>3, <1>4, MarkShape

(* A cancelled row carries the mark, and so does the row of an execution that  *)
(* aborted itself, for as long as it is the row it was claimed from.           *)
Marked(j) == row[j].status = "cancelled" => row[j].cancel
Aborted(e) == e.phase = "cancelled" /\ row[e.job].id = e.id
MarksHold ==
  /\ \A j \in Jobs : Marked(j)
  /\ \A e \in execs : Aborted(e) => row[e.job].cancel

(* The only way into the phase cancelled is the poll that finds the mark. *)
LEMMA AbortShape ==
  ASSUME TypeOK, [Next]_vars, NEW g \in execs', g.phase = "cancelled"
  PROVE  \E e \in execs :
           /\ g.job = e.job /\ g.id = e.id
           /\ \/ e.phase = "cancelled"
              \/ row[e.job].id = e.id /\ (row[e.job].cancel \/ row[e.job].status = "cancelled")
<1> DEFINE From(e) ==
             /\ g.job = e.job /\ g.id = e.id
             /\ \/ e.phase = "cancelled"
                \/ row[e.job].id = e.id /\ (row[e.job].cancel \/ row[e.job].status = "cancelled")
<1>0. execs \subseteq Execution
  BY TypeParts DEF Execs
<1>1. ASSUME g \in execs PROVE From(g)
  BY <1>1
<1>2. ASSUME NEW e \in execs, NEW outcome \in Phases, HandlerEnds(e, outcome), g \notin execs
      PROVE  FALSE
  BY <1>0, <1>2 DEF HandlerEnds, Execution
<1>3. ASSUME NEW e \in execs, PollCancellation(e), g \notin execs PROVE From(e)
  <2>1. g = [e EXCEPT !.phase = "cancelled"]
    BY <1>3 DEF PollCancellation
  <2>2. g.job = e.job /\ g.id = e.id
    BY <1>0, <2>1 DEF Execution
  <2>3. QED
    BY <1>3, <2>2 DEF PollCancellation
<1>4. ASSUME NEW e \in execs, NEW committed \in BOOLEAN, NEW answered \in BOOLEAN,
             Settle(e, committed, answered), g \notin execs
      PROVE  FALSE
  BY <1>0, <1>4 DEF Settle, Execution
<1>5. ASSUME NEW w \in Workers, execs' = Abandoned(w) PROVE \E e \in execs : From(e)
  <2>1. PICK e \in execs : g = IF e.worker = w THEN [e EXCEPT !.tracked = FALSE] ELSE e
    BY <1>5 DEF Abandoned
  <2>2. g.job = e.job /\ g.id = e.id /\ g.phase = e.phase
    BY <1>0, <2>1 DEF Execution
  <2>3. QED
    BY <2>2
<1>6. ASSUME NEW w \in Workers, Claim(w), g \notin execs PROVE FALSE
  BY <1>6 DEF Claim, NewExecution
<1>7. ASSUME NEW j \in Jobs, TimePasses(j) \/ Caller(j) PROVE g \in execs
  BY <1>7 DEF TimePasses, Caller, EnqueueInsert, EnqueueLookup, CancelQueued, CancelRunning,
              CancelRead, RetryDead
<1>8. ASSUME NEW w \in Workers,
             \/ StartDrain(w) \/ ReapSpent(w) \/ ReapRequeue(w) \/ ReapCancelled(w)
             \/ SkipClaim(w) \/ PruneFinished(w) \/ PruneDead(w) \/ Crash(w)
             \/ \E q \in Queues : BudgetShrinks(w, q)
      PROVE  g \in execs
  BY <1>8 DEF StartDrain, ReapSpent, ReapRequeue, ReapCancelled, SkipClaim, PruneFinished,
              PruneDead, Crash, BudgetShrinks
<1>9. ASSUME NEW w \in Workers, DrainFails(w) \/ ClaimAnswerLost(w)
      PROVE  \E e \in execs : From(e)
  BY <1>5, <1>9 DEF DrainFails, ClaimAnswerLost
<1>10. ASSUME UNCHANGED vars PROVE \E e \in execs : From(e)
  BY <1>1, <1>10 DEF vars
<1> HIDE DEF From
<1>11. ASSUME NEW f \in execs, Executes(f) PROVE \E e \in execs : From(e)
  BY <1>1, <1>2, <1>3, <1>4, <1>11 DEF Executes
<1>12. ASSUME NEW w \in Workers, Drain(w) PROVE \E e \in execs : From(e)
  BY <1>1, <1>6, <1>8, <1>12 DEF Drain
<1>13. \E e \in execs : From(e)
  BY <1>1, <1>7, <1>8, <1>9, <1>10, <1>11, <1>12 DEF Next
<1>14. QED
  BY <1>13 DEF From

LEMMA MarksStep ==
  ASSUME TypeOK, ClaimsTellApart, MarksHold, [Next]_vars
  PROVE  MarksHold'
<1>0. Rows /\ Rows' /\ execs \subseteq Execution
  BY TypeStep, TypeParts DEF TypeOK, Rows, Execs
<1>1. ASSUME NEW j \in Jobs, row'[j].status = "cancelled" PROVE row'[j].cancel
  <2>0. row[j] \in Row /\ row'[j] \in Row
    BY <1>0 DEF Rows
  <2>1. CASE row[j].cancel
    <3>1. ~Submitted(j)
      BY <1>1 DEF Submitted
    <3>2. row'[j].id = row[j].id
      BY <1>1, <3>1, StepShape
         DEF Shape, OnlyIn, Kept, Same, Starts, GivenBack, Ended, Forgotten, Withdrawn, Revived
    <3>3. QED
      BY <2>1, <3>2, MarkStays
  <2>2. CASE ~row[j].cancel
    <3>1. row[j].status # "cancelled"
      BY <2>2 DEF MarksHold, Marked
    <3>2. ASSUME NEW e \in execs, NEW committed \in BOOLEAN, NEW answered \in BOOLEAN,
                 Settle(e, committed, answered)
          PROVE  row'[j].cancel
      <4>1. e.job = j /\ committed /\ Fenced(e)
        BY <1>0, <1>1, <3>1, <3>2 DEF Settle, Rows
      <4>2. row'[j] = SettledRow(e)
        BY <1>0, <3>2, <4>1 DEF Settle, Rows
      <4>3. QED
        BY <1>1, <2>0, <4>1, <4>2 DEF SettledRow, Row
    <3>3. ASSUME NEW i \in Jobs, NEW u \in Cancellers, CancelQueued(i, u) PROVE row'[j].cancel
      BY <1>0, <1>1, <2>0, <3>1, <3>3 DEF CancelQueued, Rows, Row
    <3>4. ASSUME NEW i \in Jobs,
                 \/ TimePasses(i) \/ EnqueueLookup(i) \/ RetryDead(i)
                 \/ CancelRunning(i) \/ CancelRead(i)
                 \/ \E u \in Users, due \in BOOLEAN : EnqueueInsert(i, u, due)
          PROVE  FALSE
      BY <1>0, <1>1, <2>0, <3>1, <3>4
         DEF TimePasses, EnqueueLookup, RetryDead, CancelRunning, CancelRead, EnqueueInsert,
             Rows, Row
    <3>5. ASSUME NEW w \in Workers, ReapSpent(w) \/ ReapRequeue(w) \/ ReapCancelled(w)
          PROVE  FALSE
      <4>1. CASE ReapSpent(w)
        BY <1>1, <2>0, <3>1, <4>1 DEF ReapSpent, Row
      <4>2. CASE ReapRequeue(w)
        BY <1>1, <2>0, <3>1, <4>2 DEF ReapRequeue, Row
      <4>3. CASE ReapCancelled(w)
        BY <1>1, <2>0, <2>2, <3>1, <4>3 DEF ReapCancelled, Row
      <4>4. QED
        BY <3>5, <4>1, <4>2, <4>3
    <3>6. ASSUME NEW w \in Workers,
                 Claim(w) \/ ClaimAnswerLost(w) \/ PruneFinished(w) \/ PruneDead(w)
          PROVE  FALSE
      <4>1. CASE Claim(w) \/ ClaimAnswerLost(w)
        <5>1. PICK S : row' = [i \in Jobs |-> IF i \in S THEN Claimed(i, w) ELSE row[i]]
          BY <4>1 DEF Claim, ClaimAnswerLost
        <5>2. row'[j] = row[j] \/ row'[j] = Claimed(j, w)
          BY <5>1
        <5>3. QED
          BY <1>1, <2>0, <3>1, <5>2 DEF Claimed, Row
      <4>2. CASE PruneFinished(w) \/ PruneDead(w)
        <5>1. PICK S : row' = [i \in Jobs |->
                                 IF i \in S THEN [row[i] EXCEPT !.status = "absent", !.elapsed = FALSE]
                                 ELSE row[i]]
          BY <4>2 DEF PruneFinished, PruneDead, Prune
        <5>2. QED
          BY <1>1, <2>0, <3>1, <5>1 DEF Row
      <4>3. QED
        BY <3>6, <4>1, <4>2
    <3>7. row' # row
      BY <1>1, <3>1
    <3>8. ~UNCHANGED vars
      BY <3>7 DEF vars
    <3>9. ASSUME NEW e \in execs,
                 PollCancellation(e) \/ \E outcome \in Phases : HandlerEnds(e, outcome)
          PROVE  FALSE
      BY <3>7, <3>9 DEF PollCancellation, HandlerEnds
    <3>10. ASSUME NEW w \in Workers,
                  \/ StartDrain(w) \/ SkipClaim(w) \/ DrainFails(w) \/ Crash(w)
                  \/ \E q \in Queues : BudgetShrinks(w, q)
           PROVE  FALSE
      BY <3>7, <3>10 DEF StartDrain, SkipClaim, DrainFails, Crash, BudgetShrinks
    <3>11. QED
      BY <3>2, <3>3, <3>4, <3>5, <3>6, <3>8, <3>9, <3>10 DEF Next, Caller, Executes, Drain
  <2>3. QED
    BY <2>1, <2>2
<1>2. ASSUME NEW g \in execs', g.phase = "cancelled", row'[g.job].id = g.id
      PROVE  row'[g.job].cancel
  <2>1. PICK e \in execs :
          /\ g.job = e.job /\ g.id = e.id
          /\ \/ e.phase = "cancelled"
             \/ row[e.job].id = e.id /\ (row[e.job].cancel \/ row[e.job].status = "cancelled")
    BY <1>2, AbortShape
  <2>2. e.job \in Jobs /\ e.id \in Nat
    BY <1>0 DEF Execution
  <2>3. row[e.job].id \in Nat /\ row'[e.job].id \in Nat
    BY <1>0, <2>2 DEF Rows, Row
  <2>4. e.id <= row[e.job].id
    BY DEF ClaimsTellApart, Ordered
  <2>5. row'[e.job].id >= row[e.job].id
    BY <2>2, <2>3, RowsAdvance DEF Advances
  <2>6. row[e.job].id = e.id /\ row'[e.job].id = row[e.job].id
    BY <1>2, <2>1, <2>2, <2>3, <2>4, <2>5
  <2>7. row[e.job].cancel
    BY <2>1, <2>2, <2>6 DEF MarksHold, Marked, Aborted
  <2>8. QED
    BY <2>1, <2>2, <2>6, <2>7, MarkStays
<1>3. QED
  BY <1>1, <1>2 DEF MarksHold, Marked, Aborted

LEMMA MarksInvariant == Spec => []MarksHold
<1>1. Init => MarksHold
  BY DEF Init, MarksHold, Marked
<1>2. TypeOK /\ ClaimsTellApart /\ MarksHold /\ [Next]_vars => MarksHold'
  BY MarksStep
<1>3. QED
  BY <1>1, <1>2, TypeCorrect, ClaimsInvariant, PTL DEF Spec

(* A row is only marked by a statement of the call that names it: a worker    *)
(* that acknowledges a request finds it on the row already.                   *)
LEMMA NamedStep ==
  ASSUME TypeOK, MarksHold, [Next]_vars, NEW j \in Jobs, ~row[j].cancel, row'[j].cancel
  PROVE  /\ req'[j].step \in {"cancelled", "requested"}
         /\ req'[j].id = row[j].id /\ req'[j].user = row[j].user
<1>0. Rows /\ Reqs
  BY TypeParts
<1>1. ~Unmarked(j)
  BY DEF Unmarked
<1>2. ~Filed(j)
  BY DEF Filed
<1>3. ~Acknowledges(j)
  BY DEF Acknowledges, Fenced, MarksHold, Aborted
<1>4. CASE CancelsOutright(j)
  BY <1>0, <1>4 DEF CancelsOutright, CancelQueued, Reqs
<1>5. CASE Asks(j)
  BY <1>0, <1>5 DEF Asks, CancelRunning, Addressed, Reqs
<1>6. QED
  BY <1>1, <1>2, <1>3, <1>4, <1>5, MarkShape

(* A request for one job never lands on another, whatever is pruned and filed *)
(* again under its key between the statements of the call.                    *)
THEOREM NamedCorrect == Spec => OnlyTheNamedJobIsCancelled
<1>1. TypeOK /\ MarksHold /\ [Next]_vars =>
        [\A j \in Jobs : ~row[j].cancel /\ row'[j].cancel =>
           /\ req'[j].step \in {"cancelled", "requested"}
           /\ req'[j].id = row[j].id /\ req'[j].user = row[j].user]_vars
  BY NamedStep
<1>2. QED
  BY <1>1, TypeCorrect, MarksInvariant, PTL DEF Spec, OnlyTheNamedJobIsCancelled

(* The request of a caller told "requested" is on the row it named for as long *)
(* as that row exists, and even while the key has no row.                      *)
Recorded == \A j \in Jobs : req[j].step = "requested" /\ row[j].id = req[j].id => row[j].cancel

LEMMA RecordedStep ==
  ASSUME TypeOK, CallsInOrder, Recorded, [Next]_vars
  PROVE  Recorded'
<1> SUFFICES ASSUME NEW j \in Jobs, req'[j].step = "requested", row'[j].id = req'[j].id
             PROVE  row'[j].cancel
  BY DEF Recorded
<1>0. Rows /\ Rows' /\ Reqs
  BY TypeStep, TypeParts DEF TypeOK, Rows
<1>1. row[j].id \in Nat /\ row'[j].id \in Nat /\ req[j].id \in Nat
  BY <1>0 DEF Rows, Row, Reqs
<1>2. row[j].id <= row'[j].id
  BY <1>1, RowsAdvance DEF Advances
<1>3. CASE req'[j] = req[j]
  <2>1. row[j].id = req[j].id /\ row'[j].id = row[j].id
    BY <1>1, <1>2, <1>3 DEF CallsInOrder
  <2>2. row[j].cancel
    BY <1>3, <2>1 DEF Recorded
  <2>3. QED
    BY <2>1, <2>2, MarkStays
<1>4. CASE CancelRunning(j)
  <2>1. Addressed(j) /\ row[j].status = "running"
    BY <1>0, <1>4 DEF CancelRunning, Reqs
  <2>2. row' = [row EXCEPT ![j].cancel = TRUE]
    BY <1>4, <2>1 DEF CancelRunning
  <2>3. QED
    BY <1>0, <2>2 DEF Rows, Row
<1>5. ~CancelRead(j)
  BY <1>0 DEF CancelRead, Reqs
<1>6. ASSUME NEW u \in Cancellers PROVE ~CancelQueued(j, u)
  BY <1>0 DEF CancelQueued, Reqs
<1>7. QED
  BY <1>3, <1>4, <1>5, <1>6, CallShape

(* A caller told "requested" is not forgotten: no lapsed lease, no retry and   *)
(* no operator takes its request off the row.                                  *)
THEOREM RequestCorrect == Spec => []RequestSurvives
<1>1. Init => Recorded
  BY DEF Init, Recorded
<1>2. TypeOK /\ CallsInOrder /\ Recorded /\ [Next]_vars => Recorded'
  BY RecordedStep
<1>3. Recorded => RequestSurvives
  BY DEF Recorded, RequestSurvives
<1>4. QED
  BY <1>1, <1>2, <1>3, TypeCorrect, CallsInvariant, PTL DEF Spec

=============================================================================

---------------------------- MODULE AgentRunsProofs ----------------------------
(***************************************************************************)
(* Proofs about AgentRuns, for every number of steps, invocations, retries *)
(* and faults, with and without a device, a stream and each of the moves a *)
(* user has.                                                               *)
(***************************************************************************)
EXTENDS AgentRuns, SequenceTheorems, TLAPS

-------------------------------------------------------------------------------
(* The inductive invariant: the types, in three groups, and what an          *)
(* invocation owes the statement it is about to execute.                     *)

(* The row and what the user was told: a notice was given to a run that has  *)
(* ended, and only one.                                                      *)
RowInv ==
  /\ run \in Row
  /\ CompletedWhenEnded
  /\ told \in Seq({"completed", "failed"})
  /\ Len(told) <= 1
  /\ told # <<>> => Ended(run.state)

(* An invocation about to announce has something to announce, and so on. *)
Able(v) ==
  /\ v \in Invocation
  /\ v.phase \in {"open", "ending"} => v.todo # <<>>
  /\ v.phase = "answered" => v.answer \in Answers
  /\ v.phase = "park" => v.outcome \in {"awaiting_input", "paused"}

InvsAble == inv \in [Slots -> Invocation] /\ \A i \in Slots : Able(inv[i])

Others ==
  /\ journal \subseteq Event
  /\ receipt \in [1..MaxSteps -> Receipts]
  /\ stop \in {"idle", "end"}
  /\ shelf \in [op: {"idle", "archive", "shelved", "restore", "restored"},
                to: States \cup {"none"}, was: States \cup {"none"}]
  /\ shelf.op \in {"archive", "restore"} => shelf.to \in States
  /\ ender \in [Enders -> Ending]
  /\ faults \in 0..MaxFaults

(* The lease of an invocation that may still run is no longer on offer. *)
LeaseTaken ==
  \A i \in Slots :
    inv[i].cp # 0 /\ inv[i].phase # "void" =>
      inv[i].cp \in DOMAIN cps /\ cps[inv[i].cp].state # "pending"

IInv ==
  /\ RowInv
  /\ InvsAble
  /\ cps \in Seq(Checkpoint)
  /\ Others
  /\ LeaseTaken
  /\ DecisionUsedOnce

-------------------------------------------------------------------------------
(* The writers of a state.                                                   *)

LEMMA LastIn ==
  ASSUME NEW a \in Event, NEW b \in Event, NEW es \in SUBSET {a, b}, es # {}
  PROVE  Last(es) \in es
<1>1. a.seq \in Nat /\ b.seq \in Nat
  BY DEF Event
<1>2. \E e \in es : \A g \in es : g.seq <= e.seq
  <2>1. CASE es = {a}
    BY <1>1, <2>1
  <2>2. CASE es = {b}
    BY <1>1, <2>2
  <2>3. CASE es = {a, b} /\ a.seq <= b.seq
    BY <1>1, <2>3
  <2>4. CASE es = {a, b} /\ b.seq <= a.seq
    BY <1>1, <2>4
  <2>5. QED
    BY <1>1, <2>1, <2>2, <2>3, <2>4
<1>3. QED
  BY <1>2 DEF Last

(* What every write of the row keeps, and what it leaves of an ending. *)
RowStep == RowInv' /\ (Ended(run.state) => Ended(run'.state))

(* A write that tells the user nothing. *)
LEMMA QuietKeeps ==
  ASSUME RowInv, run' \in Row, run'.completed <=> Ended(run'.state),
         Ended(run.state) => Ended(run'.state), told' = told
  PROVE  RowStep
BY DEF RowStep, RowInv, CompletedWhenEnded

(* The notice of a write is given to a run that has not been told of one. *)
LEMMA NoticeOnce ==
  ASSUME RowInv, run' \in Row, run'.completed <=> Ended(run'.state),
         Ended(run.state) => Ended(run'.state),
         NEW notice \in Seq({"completed", "failed"}), told' = told \o notice,
         Len(notice) <= 1,
         notice # <<>> => ~Ended(run.state) /\ Ended(run'.state)
  PROVE  RowStep
<1>1. told' \in Seq({"completed", "failed"}) /\ Len(told') = Len(told) + Len(notice)
  BY DEF RowInv
<1>2. CASE notice = <<>>
  <2>1. told' = told
    BY <1>2 DEF RowInv
  <2>2. QED
    BY <2>1 DEF RowStep, RowInv, CompletedWhenEnded
<1>3. CASE notice # <<>>
  <2>1. told = <<>>
    BY <1>3 DEF RowInv
  <2>2. Len(told') <= 1
    BY <1>1, <2>1
  <2>3. QED
    BY <1>1, <1>3, <2>2 DEF RowStep, RowInv, CompletedWhenEnded
<1>4. QED
  BY <1>2, <1>3

LEMMA NoticeFacts ==
  ASSUME NEW s
  PROVE  /\ Notice(s) \in Seq({"completed", "failed"})
         /\ Len(Notice(s)) <= 1
         /\ Notice(s) # <<>> => \A t : Legacy(t) = s => Ended(t)
         /\ Notice(s) # <<>> => Ended(s)
<1> DEFINE good == {"ready_for_review", "completed"}
           bad == {"failed", "partial", "timed_out"}
<1>1. /\ s \in good => Notice(s) = <<"completed">>
      /\ s \in bad => Notice(s) = <<"failed">>
      /\ s \notin good \cup bad => Notice(s) = <<>>
  BY DEF Notice
<1>2. Notice(s) # <<>> => s \in good \cup bad
  BY <1>1
<1>3. s \in good \cup bad => Ended(s)
  BY DEF Ended, Terminal
<1>4. ASSUME NEW t, Legacy(t) = s, s \in good \cup bad PROVE Ended(t)
  <2>1. t \notin {"planning", "resuming", "awaiting_approval"}
    BY <1>4 DEF Legacy
  <2>2. t \in {"partial", "timed_out"} \/ t = s
    BY <1>4, <2>1 DEF Legacy
  <2>3. QED
    BY <1>3, <1>4, <2>2 DEF Ended, Terminal
<1>5. Notice(s) \in Seq({"completed", "failed"}) /\ Len(Notice(s)) <= 1
  <2> HIDE DEF good, bad
  <2>1. CASE Notice(s) = <<"completed">>
    BY <2>1
  <2>2. CASE Notice(s) = <<"failed">>
    BY <2>2
  <2>3. CASE Notice(s) = <<>>
    BY <2>3
  <2>4. QED
    BY <1>1, <2>1, <2>2, <2>3
<1> HIDE DEF good, bad
<1>6. QED
  BY <1>2, <1>3, <1>4, <1>5

LEMMA TerminalNoticeFacts ==
  ASSUME NEW before, NEW next, NEW shown
  PROVE  /\ TerminalNotice(before, next, shown) \in Seq({"completed", "failed"})
         /\ Len(TerminalNotice(before, next, shown)) <= 1
         /\ TerminalNotice(before, next, shown) # <<>> =>
              ~Ended(before) /\ shown = next /\ Notice(next) # <<>>
BY NoticeFacts DEF TerminalNotice

LEMMA JournaledRow ==
  ASSUME run \in Row, CompletedWhenEnded,
         NEW a \in Event, NEW b \in Event, NEW es, es = {a, b}
  PROVE  /\ Journaled(es) \in Row
         /\ Journaled(es).completed <=> Ended(Journaled(es).state)
         /\ Ended(run.state) => Ended(Journaled(es).state)
         /\ Landed(es) \subseteq Event
<1>1. Landed(es) \subseteq {a, b} /\ Moving(es) \subseteq {a, b}
  BY DEF Landed, Moving
<1>2. Last(es).seq \in Nat
  BY LastIn DEF Event
<1>3. Moving(es) # {} => Last(Moving(es)).state \in States
  <2> SUFFICES ASSUME Moving(es) # {} PROVE Last(Moving(es)).state \in States
    OBVIOUS
  <2>1. Last(Moving(es)) \in Moving(es)
    BY <1>1, LastIn
  <2>2. QED
    BY <1>1, <2>1 DEF Moving, Event
<1>4. CASE Landed(es) = {}
  BY <1>1, <1>4 DEF Journaled, CompletedWhenEnded
<1>5. CASE Landed(es) # {}
  <2>1. ASSUME NEW n \in Nat PROVE [run EXCEPT !.last = n, !.idle = FALSE] \in Row
    BY DEF Row
  <2> DEFINE touched == [run EXCEPT !.last = IF @ > Last(es).seq THEN @ ELSE Last(es).seq,
                                    !.idle = FALSE]
  <2>2. touched \in Row /\ touched.state = run.state /\ touched.completed = run.completed
    <3>1. (IF run.last > Last(es).seq THEN run.last ELSE Last(es).seq) \in Nat
      BY <1>2 DEF Row
    <3>2. QED
      BY <2>1, <3>1 DEF Row
  <2> HIDE DEF touched
  <2>3. CASE Journaled(es) = [touched EXCEPT !.completed = @ \/ Ended(run.state)]
    BY <1>1, <2>2, <2>3 DEF Row, CompletedWhenEnded
  <2>4. CASE Moving(es) # {} /\ Journaled(es) =
          [touched EXCEPT !.state = IF Ended(@) /\ ~Ended(Last(Moving(es)).state)
                                      THEN @ ELSE Last(Moving(es)).state,
                          !.completed = Ended(run.state) \/ Ended(Last(Moving(es)).state)]
    BY <1>1, <1>3, <2>2, <2>4 DEF Row, CompletedWhenEnded
  <2>5. QED
    BY <1>5, <2>3, <2>4 DEF Journaled, touched
<1>6. QED
  BY <1>4, <1>5

LEMMA AppendKeeps ==
  ASSUME RowInv, journal \subseteq Event,
         NEW a \in Event, NEW b \in Event, NEW es, es = {a, b}, AppendEvents(es)
  PROVE  RowStep /\ journal' \subseteq Event
<1>1. /\ run' \in Row
      /\ run'.completed <=> Ended(run'.state)
      /\ Ended(run.state) => Ended(run'.state)
      /\ Landed(es) \subseteq Event
  BY JournaledRow DEF AppendEvents, RowInv
<1>2. /\ Announced(es) \in Seq({"completed", "failed"})
      /\ Len(Announced(es)) <= 1
      /\ Announced(es) # <<>> => ~Ended(run.state) /\ Ended(run'.state)
  <2>1. CASE Moving(es) = {}
    BY <2>1 DEF Announced
  <2>2. CASE Moving(es) # {}
    BY <2>2, TerminalNoticeFacts, NoticeFacts DEF Announced, AppendEvents
  <2>3. QED
    BY <2>1, <2>2
<1>3. told' = told \o Announced(es) /\ journal' = journal \cup Landed(es)
  BY DEF AppendEvents
<1>4. RowStep
  BY <1>1, <1>2, <1>3, NoticeOnce
<1>5. QED
  BY <1>1, <1>3, <1>4

LEMMA TransitionKeeps ==
  ASSUME RowInv, NEW s \in States, Transition(s)
  PROVE  RowStep
<1>1. TransitionedState(s) \in States
  BY DEF TransitionedState, RowInv, Row
<1>2. /\ Ended(TransitionedState(s)) <=> Ended(run.state) \/ Ended(s)
      /\ TransitionedState(s) # s /\ Notice(s) # <<>> => Ended(run.state)
  BY DEF TransitionedState, Finer, Ended
<1>3. run' \in Row /\ run'.state = TransitionedState(s)
      /\ (run'.completed <=> Ended(run.state) \/ Ended(s))
  BY <1>1 DEF Transition, RowInv, Row
<1>4. /\ told' = told \o TerminalNotice(run.state, s, TransitionedState(s))
      /\ TerminalNotice(run.state, s, TransitionedState(s)) # <<>> =>
           ~Ended(run.state) /\ Ended(run'.state)
  BY <1>3, TerminalNoticeFacts, NoticeFacts DEF Transition
<1>5. QED
  BY <1>2, <1>3, <1>4, NoticeOnce, TerminalNoticeFacts

LEMMA EventType ==
  ASSUME NEW n \in Nat, NEW s \in States \cup {NoEvent}
  PROVE  [seq |-> n, state |-> s] \in Event
BY DEF Event

(* A park under way, whatever the journal already had. *)
LEMMA ParkKeeps ==
  ASSUME RowInv, InvsAble, journal \subseteq Event, NEW i \in Slots, Park(i)
  PROVE  RowStep /\ journal' \subseteq Event
<1> DEFINE v == inv[i]
           a == [seq |-> v.seq, state |-> v.outcome]
           r == Journaled({a})
<1>1. CASE UNCHANGED <<run, journal, told>>
  BY <1>1, QuietKeeps DEF RowInv, CompletedWhenEnded
<1>2. CASE run' = ParkedRun(r, v.outcome) /\ journal' = journal \cup Landed({a})
           /\ told' = told
  <2>1. v.outcome \in {"awaiting_input", "paused"} /\ v.seq \in Nat
    BY DEF Park, InvsAble, Able, Invocation
  <2>2. a \in Event
    BY <2>1, EventType DEF States, HumanHeld
  <2>3. /\ r \in Row
        /\ r.completed <=> Ended(r.state)
        /\ Ended(run.state) => Ended(r.state)
        /\ Landed({a}) \subseteq Event
    <3> HIDE DEF a
    <3>1. {a} = {a, a}
      OBVIOUS
    <3>2. QED
      BY <2>2, <3>1, JournaledRow DEF RowInv
  <2> HIDE DEF r, a, v
  <2>4. CASE Ended(r.state)
    BY <1>2, <2>3, <2>4, QuietKeeps DEF ParkedRun
  <2>5. CASE ~Ended(r.state)
    <3>1. ~Ended(v.outcome) /\ v.outcome \in States
      BY <2>1 DEF Ended, Terminal, States, HumanHeld
    <3>2. run' \in Row /\ run'.state = v.outcome /\ run'.completed = FALSE
      BY <1>2, <2>3, <2>5, <3>1 DEF ParkedRun, Row
    <3>3. RowStep
      BY <1>2, <2>3, <2>5, <3>1, <3>2, QuietKeeps
    <3>4. QED
      BY <1>2, <2>3, <3>3
  <2>6. QED
    BY <1>2, <2>3, <2>4, <2>5
<1>3. QED
  BY <1>1, <1>2 DEF Park

(* A claim, or a lease given back, moves a run that has not ended. *)
LEMMA TakenBackKeeps ==
  ASSUME RowInv, ~Ended(run.state), NEW s \in States, ~Ended(s), run' = TakenBack(s),
         told' = told
  PROVE  RowStep
<1>1. run' \in Row /\ run'.state = s /\ run'.completed = FALSE
  BY DEF TakenBack, RowInv, Row
<1>2. QED
  BY <1>1, QuietKeeps

LEMMA RowKept == IInv /\ [Next]_vars => RowStep /\ journal' \subseteq Event
<1> SUFFICES ASSUME IInv, [Next]_vars PROVE RowStep /\ journal' \subseteq Event
  OBVIOUS
<1> DEFINE Goal == RowStep /\ journal' \subseteq Event
<1> USE DEF IInv
<1>a. /\ run \in Row /\ run.last \in Nat /\ run.state \in States
      /\ run.completed <=> Ended(run.state)
      /\ journal \subseteq Event
      /\ \A i \in Slots : inv[i] \in Invocation /\ inv[i].seq \in Nat
  BY DEF RowInv, CompletedWhenEnded, Row, Others, InvsAble, Able, Invocation
<1>b. UNCHANGED <<run, journal, told>> => Goal
  BY <1>a, QuietKeeps
<1>c. ASSUME NEW e \in Event, AppendEvents({e}) PROVE Goal
  <2>1. {e} = {e, e}
    OBVIOUS
  <2>2. QED
    BY <1>a, <1>c, <2>1, AppendKeeps
<1>d. ASSUME NEW s \in States, Transition(s) PROVE Goal
  BY <1>a, <1>d, TransitionKeeps DEF Transition
<1>e. ASSUME NEW cancel \in BOOLEAN, NEW pause \in BOOLEAN, NEW idle \in BOOLEAN,
             run' = [run EXCEPT !.cancel = cancel, !.pause = pause, !.idle = idle],
             UNCHANGED <<journal, told>>
      PROVE Goal
  <2>1. run' \in Row /\ run'.state = run.state /\ run'.completed = run.completed
    BY <1>a, <1>e DEF Row
  <2>2. QED
    BY <1>a, <1>e, <2>1, QuietKeeps
<1>f. run.cancel \in BOOLEAN /\ run.pause \in BOOLEAN /\ run.idle \in BOOLEAN
  BY <1>a DEF Row
<1>g. [seq |-> NextNumber, state |-> NoEvent] \in Event
  <2>1. NextNumber \in Nat
    BY <1>a DEF NextNumber
  <2>2. QED
    BY <2>1, EventType
<1> SUFFICES Goal
  OBVIOUS
<1> HIDE DEF Goal, IInv
<1>1. ASSUME NEW i \in Slots, Begin(i) PROVE Goal
  <2>1. run' = [run EXCEPT !.cancel = run.cancel, !.pause = run.pause, !.idle = FALSE]
    BY <1>1, <1>a DEF Begin, Row
  <2>2. QED
    BY <1>1, <1>e, <1>f, <2>1 DEF Begin
<1>2. ASSUME NEW i \in Slots, DeviceAsleep(i) \/ \E back \in BOOLEAN : DeviceNoticed(i, back)
      PROVE Goal
  BY <1>2, <1>c, <1>g DEF DeviceAsleep, DeviceNoticed
<1>3. ASSUME NEW i \in Slots, Emit(i) PROVE Goal
  <2>1. inv[i].todo \in Seq(States) /\ inv[i].todo # <<>> /\ inv[i].seq \in Nat
    BY <1>3 DEF Emit, IInv, InvsAble, Able, Invocation
  <2>2. [seq |-> inv[i].seq, state |-> Head(inv[i].todo)] \in Event
    BY <2>1, HeadTailProperties, EventType
  <2>3. QED
    BY <1>3, <1>c, <2>2 DEF Emit
<1>4. ASSUME NEW i \in Slots, NEW a \in Answers, Answered(i, a) PROVE Goal
  <2> DEFINE e == [seq |-> inv[i].seq + 0, state |-> NoEvent]
             g == [seq |-> inv[i].seq + 1, state |-> NoEvent]
             es == {[seq |-> inv[i].seq + d, state |-> NoEvent] : d \in {0, 1}}
  <2>1. e \in Event /\ g \in Event
    BY <1>a, EventType
  <2>2. es = {e, g}
    OBVIOUS
  <2>3. AppendEvents(es)
    BY <1>4 DEF Answered
  <2> HIDE DEF e, g, es
  <2>4. QED
    BY <1>a, <2>1, <2>2, <2>3, AppendKeeps DEF Goal, IInv
<1>5. ASSUME NEW i \in Slots, Park(i) PROVE Goal
  BY <1>5, <1>a, ParkKeeps DEF IInv, Goal
<1>6. ASSUME NEW i \in Slots, Settle(i) PROVE Goal
  <2>1. SettledState(inv[i].outcome) \subseteq States
    BY DEF SettledState, States, Terminal
  <2>2. QED
    BY <1>6, <1>b, <1>d, <2>1 DEF Settle
<1>7. ASSUME NEW j \in Slots, ClaimAsk(j) \/ ClaimPause(j) PROVE Goal
  <2>1. PICK s \in {"running", "resuming"} : run' = TakenBack(s)
    BY <1>7 DEF ClaimAsk, ClaimPause, Claim
  <2>2. ~Ended(run.state)
    BY <1>7 DEF ClaimAsk, ClaimPause, Ended, Terminal
  <2>3. s \in States /\ ~Ended(s)
    BY <2>1 DEF States, ExecutorHeld, Ended, Terminal
  <2>4. UNCHANGED <<journal, told>>
    BY <1>7 DEF ClaimAsk, ClaimPause, Claim
  <2>5. QED
    BY <1>a, <2>1, <2>2, <2>3, <2>4, TakenBackKeeps DEF IInv, Goal
<1>8. ASSUME NEW j \in Slots, Release(j) PROVE Goal
  <2>1. UNCHANGED <<journal, told>>
    BY <1>8 DEF Release
  <2>2. CASE run' = run
    BY <2>1, <2>2, <1>b
  <2>3. CASE ~Ended(run.state) /\ \E s \in {"paused", "awaiting_input"} : run' = TakenBack(s)
    <3>1. PICK s \in {"paused", "awaiting_input"} : run' = TakenBack(s)
      BY <2>3
    <3>2. s \in States /\ ~Ended(s)
      BY DEF States, HumanHeld, Ended, Terminal
    <3>3. QED
      BY <1>a, <2>1, <2>3, <3>1, <3>2, TakenBackKeeps DEF IInv, Goal
  <2>4. QED
    BY <1>8, <2>2, <2>3 DEF Release, GivenBack, Ended, Terminal
<1>9. CASE RequestPause \/ WithdrawPause
  <2>1. PICK pause \in BOOLEAN :
          run' = [run EXCEPT !.cancel = run.cancel, !.pause = pause, !.idle = FALSE]
    BY <1>9, <1>a DEF RequestPause, WithdrawPause, Row
  <2>2. QED
    BY <1>9, <1>e, <1>f, <2>1 DEF RequestPause, WithdrawPause
<1>10. CASE RequestStop
  <2>1. run' = [run EXCEPT !.cancel = TRUE, !.pause = run.pause, !.idle = FALSE]
    BY <1>10, <1>a DEF RequestStop, Row
  <2>2. QED
    BY <1>10, <1>e, <1>f, <2>1 DEF RequestStop
<1>11. CASE EndParked
  <2>1. CASE UNCHANGED <<run, journal, told>>
    BY <2>1, <1>b
  <2>2. CASE Transition("cancelled")
    BY <2>2, <1>d DEF States, Terminal
  <2>3. ASSUME NEW c \in Pending,
               AppendEvents({[seq |-> cps[c].seq, state |-> "cancelled"]})
        PROVE Goal
    <3>1. cps[c].seq \in Nat
      <4>1. cps \in Seq(Checkpoint) /\ c \in DOMAIN cps
        BY DEF Pending, IInv
      <4>2. cps[c] \in Checkpoint
        BY <4>1
      <4>3. QED
        BY <4>2 DEF Checkpoint
    <3>2. [seq |-> cps[c].seq, state |-> "cancelled"] \in Event
      BY <3>1, EventType DEF States, Terminal
    <3>3. QED
      BY <2>3, <3>2, <1>c
  <2>4. QED
    BY <1>11, <2>1, <2>2, <2>3 DEF EndParked
<1>12. CASE ShelfWrite
  BY <1>12, <1>d DEF ShelfWrite, IInv, Others
<1>13. CASE GoesIdle
  <2>1. run' = [run EXCEPT !.cancel = run.cancel, !.pause = run.pause, !.idle = TRUE]
    BY <1>13, <1>a DEF GoesIdle, Row
  <2>2. QED
    BY <1>13, <1>e, <1>f, <2>1 DEF GoesIdle
<1>14. CASE Reap
  <2>1. PICK s \in {"cancelled", "failed"} :
          run' = [run EXCEPT !.state = s, !.completed = TRUE, !.idle = FALSE]
    BY <1>14 DEF Reap
  <2>2. s \in States /\ Ended(s)
    BY DEF States, Ended, Terminal
  <2>3. run' \in Row /\ run'.state = s /\ run'.completed = TRUE
    BY <1>a, <2>1, <2>2 DEF Row
  <2>4. UNCHANGED <<journal, told>>
    BY <1>14 DEF Reap
  <2>5. QED
    BY <1>a, <2>2, <2>3, <2>4, QuietKeeps DEF IInv, Goal
<1>15. ASSUME NEW e \in Enders, NEW fails \in BOOLEAN, Explain(e, fails) PROVE Goal
  <2>1. CASE UNCHANGED <<run, journal, told>>
    BY <2>1, <1>b
  <2>2. CASE ~fails
    <3> DEFINE a == [seq |-> ender[e].last + 1, state |-> NoEvent]
               b == [seq |-> ender[e].last + 2, state |-> ender[e].state]
    <3>1. ender[e].last \in Nat /\ ender[e].state \in States \cup {NoEvent}
      BY DEF IInv, Others, Ending, States, Terminal, NoEvent
    <3>2. a \in Event /\ b \in Event
      BY <3>1, EventType
    <3>3. AppendEvents({a, b})
      BY <1>15, <2>2 DEF Explain
    <3> HIDE DEF a, b
    <3>4. QED
      BY <1>a, <3>2, <3>3, AppendKeeps DEF IInv, Goal
  <2>3. QED
    BY <1>15, <2>1, <2>2 DEF Explain
<1>16. ASSUME NEW i \in Slots,
              \/ Crash(i) \/ Redeliver(i) \/ DeviceReady(i) \/ CheckStop(i) \/ CheckPause(i)
              \/ HandOff(i) \/ OutcomeUnknown(i) \/ UseAnswer(i) \/ CompleteLease(i)
              \/ Rethrow(i) \/ FailWorkflow(i) \/ GoesSilent(i)
       PROVE Goal
  BY <1>16, <1>b
     DEF Crash, Redeliver, DeviceReady, CheckStop, CheckPause, HandOff, OutcomeUnknown,
         UseAnswer, CompleteLease, Rethrow, FailWorkflow, GoesSilent
<1>17. CASE ArchiveRead \/ RestoreRead \/ (\E e \in Enders, w \in BOOLEAN : CancelWorld(e, w))
  BY <1>17, <1>b DEF ArchiveRead, RestoreRead, CancelWorld
<1>18. CASE UNCHANGED vars
  BY <1>18, <1>b DEF vars
<1>19. QED
  BY <1>1, <1>2, <1>3, <1>4, <1>5, <1>6, <1>7, <1>8, <1>9, <1>10, <1>11, <1>12, <1>13, <1>14,
     <1>15, <1>16, <1>17, <1>18 DEF Next, User, Executes, Ends

-------------------------------------------------------------------------------
(* The invocations.                                                          *)

(* An invocation rewound to a number and a step, with events to announce. *)
Rewound(v, seq, step, todo, phase) ==
  [v EXCEPT !.seq = seq, !.step = step, !.todo = todo, !.phase = phase, !.answer = "none",
            !.outcome = "none"]

LEMMA RewoundAble ==
  ASSUME NEW v \in Invocation, NEW seq \in Nat, NEW step \in Nat, NEW todo \in Seq(States),
         NEW phase \in {"top", "open"}, phase = "open" => todo # <<>>
  PROVE  Able(Rewound(v, seq, step, todo, phase)) /\ Rewound(v, seq, step, todo, phase).cp = v.cp
<1>1. ASSUME NEW w, w = Rewound(v, seq, step, todo, phase) PROVE Able(w) /\ w.cp = v.cp
  BY <1>1 DEF Rewound, Able, Invocation, Phases, Live, Executing, Outcomes
<1>2. QED
  BY <1>1

LEMMA StartedAble ==
  ASSUME NEW v \in Invocation
  PROVE  Able(Started(v)) /\ Started(v).cp = v.cp
<1>1. /\ Opening(v.how) \in Seq(States)
      /\ v.how # "continued" => Opening(v.how) # <<>>
  <2>1. v.how \in Openings
    BY DEF Invocation
  <2>2. "queued" \in States /\ "running" \in States
    BY DEF States, ExecutorHeld
  <2>3. CASE v.how = "new"
    BY <2>2, <2>3 DEF Opening
  <2>4. CASE v.how \in {"answered", "unpaused"}
    BY <2>2, <2>4 DEF Opening
  <2>5. CASE v.how = "continued"
    BY <2>5 DEF Opening
  <2>6. QED
    BY <2>1, <2>3, <2>4, <2>5 DEF Openings
<1>2. v.from.seq \in Nat /\ v.from.step \in Nat
  BY DEF Invocation
<1>3. CASE v.how = "continued"
  <2>1. Started(v) = Rewound(v, v.from.seq, v.from.step, Opening(v.how), "top")
    BY <1>3 DEF Started, Rewound
  <2>2. QED
    BY <1>1, <1>2, <2>1, RewoundAble
<1>4. CASE v.how # "continued"
  <2>1. Started(v) = Rewound(v, v.from.seq, v.from.step, Opening(v.how), "open")
    BY <1>4 DEF Started, Rewound
  <2>2. QED
    BY <1>1, <1>2, <1>4, <2>1, RewoundAble
<1>5. QED
  BY <1>3, <1>4

LEMMA InvokedAble ==
  ASSUME NEW v \in Invocation
  PROVE  Able(Invoked(v)) /\ Invoked(v).cp = v.cp
<1>1. Able([v EXCEPT !.phase = "device"]) /\ [v EXCEPT !.phase = "device"].cp = v.cp
  BY DEF Able, Invocation, Phases, Live, Executing
<1>2. QED
  BY <1>1, StartedAble DEF Invoked

(* An invocation whose next step continues from a number and a step. *)
HandedOn(v, seq, step) ==
  [v EXCEPT !.from = [seq |-> seq, step |-> step], !.how = "continued", !.retries = 0]

LEMMA HandedOnType ==
  ASSUME NEW v \in Invocation, NEW seq \in Nat, NEW step \in Nat
  PROVE  HandedOn(v, seq, step) \in Invocation /\ HandedOn(v, seq, step).cp = v.cp
<1>1. [seq |-> seq, step |-> step] \in [seq: Nat, step: Nat]
  OBVIOUS
<1>2. ASSUME NEW from \in [seq: Nat, step: Nat]
      PROVE  /\ [v EXCEPT !.from = from, !.how = "continued", !.retries = 0] \in Invocation
             /\ [v EXCEPT !.from = from, !.how = "continued", !.retries = 0].cp = v.cp
  BY DEF Invocation, Openings
<1>3. QED
  BY <1>1, <1>2 DEF HandedOn

LEMMA PhaseAble ==
  ASSUME NEW v \in Invocation, NEW phase \in Phases \ {"open", "ending", "answered", "park"}
  PROVE  Able([v EXCEPT !.phase = phase]) /\ [v EXCEPT !.phase = phase].cp = v.cp
BY DEF Able, Invocation

LEMMA EndsWithAble ==
  ASSUME NEW v \in Invocation, NEW s \in States, NEW outcome \in Outcomes
  PROVE  Able(EndsWith(v, s, outcome)) /\ EndsWith(v, s, outcome).cp = v.cp
<1>1. <<s>> \in Seq(States) /\ <<s>> # <<>>
  OBVIOUS
<1>2. QED
  BY <1>1 DEF EndsWith, Able, Invocation, Phases, Live, Executing

LEMMA TailFacts ==
  ASSUME NEW S, NEW s \in Seq(S), s # <<>>
  PROVE  Tail(s) \in Seq(S) /\ (Len(s) > 1 => Tail(s) # <<>>)
<1>1. Tail(s) \in Seq(S) /\ Len(Tail(s)) = Len(s) - 1
  BY HeadTailProperties
<1>2. ASSUME NEW t \in Seq(S), NEW n \in Nat, Len(t) = n - 1, n > 1 PROVE t # <<>>
  BY <1>2
<1>3. QED
  BY <1>1, <1>2

(* An invocation after an announcement. *)
Announcing(v, n, todo, phase) == [v EXCEPT !.seq = n, !.todo = todo, !.phase = phase]

LEMMA AnnouncingAble ==
  ASSUME NEW v \in Invocation, NEW n \in Nat, NEW todo \in Seq(States),
         NEW phase \in {"open", "ending", "top", "lease"},
         phase \in {"open", "ending"} => todo # <<>>
  PROVE  Able(Announcing(v, n, todo, phase)) /\ Announcing(v, n, todo, phase).cp = v.cp
BY DEF Announcing, Able, Invocation, Phases, Live, Executing

LEMMA FailingAble ==
  ASSUME NEW v \in Invocation, NEW n \in Nat, NEW todo \in Seq(States), todo # <<>>
  PROVE  /\ Able([v EXCEPT !.phase = "ending", !.seq = n, !.todo = todo, !.outcome = "failed"])
         /\ [v EXCEPT !.phase = "ending", !.seq = n, !.todo = todo, !.outcome = "failed"].cp = v.cp
BY DEF Able, Invocation, Phases, Live, Executing, Outcomes

LEMMA ParkingAble ==
  ASSUME NEW v \in Invocation, NEW outcome \in {"awaiting_input", "paused"}
  PROVE  /\ Able([v EXCEPT !.phase = "park", !.outcome = outcome])
         /\ [v EXCEPT !.phase = "park", !.outcome = outcome].cp = v.cp
BY DEF Able, Invocation, Phases, Live, Executing, Outcomes

LEMMA CallingAble ==
  ASSUME NEW v \in Invocation, NEW n \in Nat
  PROVE  /\ Able([v EXCEPT !.phase = "provider", !.step = n])
         /\ [v EXCEPT !.phase = "provider", !.step = n].cp = v.cp
BY DEF Able, Invocation, Phases, Live, Executing

LEMMA AnsweredAble ==
  ASSUME NEW v \in Invocation, NEW a \in Answers, NEW n \in Nat
  PROVE  /\ Able([v EXCEPT !.phase = "answered", !.answer = a, !.seq = n])
         /\ [v EXCEPT !.phase = "answered", !.answer = a, !.seq = n].cp = v.cp
BY DEF Able, Invocation, Phases, Live, Executing

LEMMA ParkedAble ==
  ASSUME NEW v \in Invocation, NEW n \in Nat
  PROVE  /\ Able([v EXCEPT !.phase = "lease", !.seq = n])
         /\ [v EXCEPT !.phase = "lease", !.seq = n].cp = v.cp
BY DEF Able, Invocation, Phases, Live, Executing

LEMMA HandedAble ==
  ASSUME NEW v \in Invocation
  PROVE  /\ Able([v EXCEPT !.phase = "lease", !.outcome = "completed"])
         /\ [v EXCEPT !.phase = "lease", !.outcome = "completed"].cp = v.cp
BY DEF Able, Invocation, Phases, Live, Executing, Outcomes

LEMMA ThrowingAble ==
  ASSUME NEW v \in Invocation, NEW n \in Nat
  PROVE  /\ Able([v EXCEPT !.phase = "thrown", !.retries = n])
         /\ [v EXCEPT !.phase = "thrown", !.retries = n].cp = v.cp
         /\ Able([v EXCEPT !.phase = "failing", !.failing = TRUE])
         /\ [v EXCEPT !.phase = "failing", !.failing = TRUE].cp = v.cp
BY DEF Able, Invocation, Phases, Live, Executing

LEMMA ClaimedAble ==
  ASSUME NEW v \in Invocation, NEW c \in Nat, NEW seq \in Nat, NEW step \in Nat,
         NEW how \in {"unpaused", "answered"}
  PROVE  /\ Able([v EXCEPT !.phase = "claimed", !.cp = c, !.how = how,
                           !.from = [seq |-> seq, step |-> step]])
         /\ [v EXCEPT !.phase = "claimed", !.cp = c, !.how = how,
                      !.from = [seq |-> seq, step |-> step]].cp = c
BY DEF Able, Invocation, Phases, Live, Openings

LEMMA CancelledAble ==
  ASSUME NEW v, Able(v), NEW phase \in {"gone", v.phase},
         v.phase = "void" => phase = "void"
  PROVE  /\ Able([v EXCEPT !.held = FALSE, !.phase = phase])
         /\ [v EXCEPT !.held = FALSE, !.phase = phase].cp = v.cp
         /\ v.phase = "void" => [v EXCEPT !.held = FALSE, !.phase = phase].phase = "void"
BY DEF Able, Invocation, Phases

(* Who answers for which checkpoint, and who no longer does. *)
SameLeases ==
  \A i \in Slots :
    inv'[i].cp = inv[i].cp /\ (inv[i].phase = "void" => inv'[i].phase = "void")

LEMMA OneMoves ==
  ASSUME InvsAble, NEW i \in Slots, NEW w, inv' = [inv EXCEPT ![i] = w],
         Able(w), w.cp = inv[i].cp, inv[i].phase = "void" => w.phase = "void"
  PROVE  InvsAble' /\ SameLeases
BY DEF InvsAble, SameLeases, Able

LEMMA InvKept ==
  IInv /\ [Next]_vars =>
    InvsAble' /\ (SameLeases \/ \E j \in Slots : ClaimAsk(j) \/ ClaimPause(j))
<1> SUFFICES ASSUME IInv, [Next]_vars
             PROVE InvsAble' /\ (SameLeases \/ \E j \in Slots : ClaimAsk(j) \/ ClaimPause(j))
  OBVIOUS
<1> DEFINE Kept == InvsAble' /\ SameLeases
<1>a. /\ InvsAble
      /\ inv \in [Slots -> Invocation]
      /\ \A i \in Slots : inv[i] \in Invocation /\ Able(inv[i])
  BY DEF IInv, InvsAble
<1>b. UNCHANGED inv => Kept
  BY <1>a DEF InvsAble, SameLeases, Able
<1>c. ASSUME NEW i \in Slots, NEW phase \in Phases \ {"open", "ending", "answered", "park"},
             inv[i].phase # "void", Goto(i, phase)
      PROVE  Kept
  <2>1. inv' = [inv EXCEPT ![i] = [inv[i] EXCEPT !.phase = phase]]
    BY <1>c DEF Goto
  <2>2. QED
    BY <1>a, <1>c, <2>1, PhaseAble, OneMoves
<1>d. ASSUME NEW i \in Slots, inv[i].phase # "void", NEW w, Able(w), w.cp = inv[i].cp,
             inv' = [inv EXCEPT ![i] = w]
      PROVE  Kept
  BY <1>a, <1>d, OneMoves
<1>e. {"none", "waiting", "lost", "void", "gone", "done", "claimed", "thrown", "failing", "device",
       "top", "boundary", "provider", "lease", "settle"} \subseteq
        Phases \ {"open", "ending", "answered", "park"}
  BY DEF Phases, Live, Executing
<1>f. {"failed", "cancelled", "partial", "ready_for_review"} \subseteq States
  BY DEF States, Terminal
<1> HIDE DEF Kept
<1>1. ASSUME NEW i \in Slots, Begin(i) PROVE Kept
  BY <1>1, <1>a, <1>d, InvokedAble DEF Begin
<1>2. ASSUME NEW i \in Slots, Crash(i) PROVE Kept
  <2>1. inv[i].phase # "void"
    BY <1>2 DEF Crash, Executing
  <2>2. QED
    BY <1>2, <1>c, <1>e, <2>1 DEF Crash
<1>3. ASSUME NEW i \in Slots, Redeliver(i) PROVE Kept
  <2>1. inv[i].phase # "void"
    BY <1>3 DEF Redeliver
  <2>2. \/ inv' = [inv EXCEPT ![i] = Started(inv[i])]
        \/ inv' = [inv EXCEPT ![i] = [inv[i] EXCEPT !.phase = "failing"]]
    BY <1>3 DEF Redeliver
  <2>3. CASE inv' = [inv EXCEPT ![i] = Started(inv[i])]
    BY <1>a, <1>d, <2>1, <2>3, StartedAble
  <2>4. CASE inv' = [inv EXCEPT ![i] = [inv[i] EXCEPT !.phase = "failing"]]
    BY <1>a, <1>d, <1>e, <2>1, <2>4, PhaseAble
  <2>5. QED
    BY <2>2, <2>3, <2>4
<1>4. ASSUME NEW i \in Slots, Rethrow(i) PROVE Kept
  <2> DEFINE again == [inv[i] EXCEPT !.retries = inv[i].retries + 1]
             fails == [inv[i] EXCEPT !.phase = "failing", !.failing = TRUE]
  <2>1. inv[i].phase # "void"
    BY <1>4 DEF Rethrow
  <2>2. \/ inv' = [inv EXCEPT ![i] = [inv[i] EXCEPT !.phase = "gone"]]
        \/ inv' = [inv EXCEPT ![i] = Started(again)]
        \/ inv' = [inv EXCEPT ![i] = fails]
    BY <1>4 DEF Rethrow
  <2>3. again \in Invocation /\ again.cp = inv[i].cp
    <3>1. inv[i].retries + 1 \in Nat
      BY <1>a DEF Invocation
    <3>2. ASSUME NEW v \in Invocation, NEW n \in Nat
          PROVE  [v EXCEPT !.retries = n] \in Invocation /\ [v EXCEPT !.retries = n].cp = v.cp
      BY DEF Invocation
    <3>3. QED
      BY <1>a, <3>1, <3>2
  <2>4. Able(fails) /\ fails.cp = inv[i].cp
    BY <1>a, ThrowingAble
  <2> HIDE DEF again, fails
  <2>5. QED
    BY <1>a, <1>d, <1>e, <2>1, <2>2, <2>3, <2>4, StartedAble, PhaseAble
<1>5. ASSUME NEW i \in Slots, FailWorkflow(i) PROVE Kept
  <2> DEFINE w == [inv[i] EXCEPT !.phase = "ending", !.seq = NextNumber, !.todo = <<"failed">>,
                                 !.outcome = "failed"]
  <2>1. NextNumber \in Nat
    <3>1. run.last \in Nat
      BY DEF IInv, RowInv, Row
    <3>2. QED
      BY <3>1 DEF NextNumber
  <2>2. <<"failed">> \in Seq(States) /\ <<"failed">> # <<>>
    BY <1>f
  <2>3. inv[i].phase # "void" /\ inv' = [inv EXCEPT ![i] = w]
    BY <1>5 DEF FailWorkflow
  <2>4. Able(w) /\ w.cp = inv[i].cp
    BY <1>a, <2>1, <2>2, FailingAble
  <2> HIDE DEF w
  <2>5. QED
    BY <1>d, <2>3, <2>4
<1>6. ASSUME NEW i \in Slots, DeviceReady(i) PROVE Kept
  BY <1>6, <1>a, <1>d, StartedAble DEF DeviceReady
<1>7. ASSUME NEW i \in Slots, DeviceAsleep(i) PROVE Kept
  BY <1>7, <1>c, <1>e DEF DeviceAsleep
<1>8. ASSUME NEW i \in Slots, NEW back \in BOOLEAN, DeviceNoticed(i, back) PROVE Kept
  <2>1. /\ [inv[i] EXCEPT !.device = back] \in Invocation
        /\ [inv[i] EXCEPT !.device = back].cp = inv[i].cp
    BY <1>a DEF Invocation
  <2>2. inv' = [inv EXCEPT ![i] = Started([inv[i] EXCEPT !.device = back])]
    BY <1>8 DEF DeviceNoticed
  <2>3. QED
    BY <1>8, <1>d, <2>1, <2>2, StartedAble DEF DeviceNoticed
<1>9. ASSUME NEW i \in Slots, Emit(i) PROVE Kept
  <2> DEFINE phase == IF Len(inv[i].todo) > 1 THEN inv[i].phase
                      ELSE IF inv[i].phase = "open" THEN "top" ELSE "lease"
             todo == Tail(inv[i].todo)
             n == inv[i].seq + 1
             w == Announcing(inv[i], n, todo, phase)
  <2>1. inv[i].todo \in Seq(States) /\ inv[i].todo # <<>> /\ inv[i].seq \in Nat
    BY <1>9, <1>a DEF Emit, Able, Invocation
  <2>2. n \in Nat
    BY <2>1
  <2>3. todo \in Seq(States) /\ (Len(inv[i].todo) > 1 => todo # <<>>)
    BY <2>1, TailFacts
  <2>4. /\ phase \in {"open", "ending", "top", "lease"}
        /\ phase \in {"open", "ending"} => Len(inv[i].todo) > 1
    BY <1>9 DEF Emit
  <2>5. inv[i].phase # "void" /\ inv' = [inv EXCEPT ![i] = w]
    BY <1>9 DEF Emit, Announcing
  <2> HIDE DEF phase, todo, n
  <2>6. Able(w) /\ w.cp = inv[i].cp
    <3>1. phase \in {"open", "ending"} => todo # <<>>
      BY <2>3, <2>4
    <3>2. inv[i] \in Invocation
      BY <1>a
    <3>3. QED
      BY <2>2, <2>3, <2>4, <3>1, <3>2, AnnouncingAble
  <2> HIDE DEF w
  <2>7. QED
    BY <1>d, <2>5, <2>6
<1>10. ASSUME NEW i \in Slots, CheckStop(i) PROVE Kept
  <2>1. inv[i].phase # "void"
    BY <1>10 DEF CheckStop
  <2>2. \/ inv' = [inv EXCEPT ![i] = EndsWith(inv[i], "partial", "failed")]
        \/ inv' = [inv EXCEPT ![i] = EndsWith(inv[i], "cancelled", "cancelled")]
        \/ inv' = [inv EXCEPT ![i] = [inv[i] EXCEPT !.phase = "boundary"]]
    BY <1>10 DEF CheckStop
  <2>3. {"failed", "cancelled"} \subseteq Outcomes
    BY DEF Outcomes
  <2>4. ASSUME NEW s \in States, NEW o \in Outcomes,
               inv' = [inv EXCEPT ![i] = EndsWith(inv[i], s, o)]
        PROVE  Kept
    BY <1>a, <1>d, <2>1, <2>4, EndsWithAble
  <2>5. CASE inv' = [inv EXCEPT ![i] = [inv[i] EXCEPT !.phase = "boundary"]]
    BY <1>a, <1>d, <1>e, <2>1, <2>5, PhaseAble
  <2>6. QED
    BY <1>f, <2>2, <2>3, <2>4, <2>5
<1>11. ASSUME NEW i \in Slots, CheckPause(i) PROVE Kept
  <2> DEFINE parks == [inv[i] EXCEPT !.phase = "park", !.outcome = "paused"]
             calls == [inv[i] EXCEPT !.phase = "provider", !.step = inv[i].step + 1]
  <2>1. inv[i].phase # "void"
    BY <1>11 DEF CheckPause
  <2>2. inv' = [inv EXCEPT ![i] = parks] \/ inv' = [inv EXCEPT ![i] = calls]
    BY <1>11 DEF CheckPause
  <2>3. inv[i].step + 1 \in Nat
    BY <1>a DEF Invocation
  <2>4. Able(parks) /\ parks.cp = inv[i].cp /\ Able(calls) /\ calls.cp = inv[i].cp
    BY <1>a, <2>3, ParkingAble, CallingAble
  <2> HIDE DEF parks, calls
  <2>5. QED
    BY <1>d, <2>1, <2>2, <2>4
<1>12. ASSUME NEW i \in Slots, HandOff(i) PROVE Kept
  <2> DEFINE w == HandedOn(inv[i], inv[i].seq, inv[i].step)
  <2>1. w \in Invocation /\ w.cp = inv[i].cp
    <3>1. inv[i] \in Invocation /\ inv[i].seq \in Nat /\ inv[i].step \in Nat
      BY <1>a DEF Invocation
    <3>2. QED
      BY <3>1, HandedOnType
  <2>2. \/ inv' = [inv EXCEPT ![i] = Invoked(w)]
        \/ inv' = [inv EXCEPT ![i] = [inv[i] EXCEPT !.phase = "gone"]]
    BY <1>12 DEF HandOff, HandedOn
  <2>3. inv[i].phase # "void"
    BY <1>12 DEF HandOff
  <2> HIDE DEF w
  <2>4. QED
    BY <1>a, <1>d, <1>e, <2>1, <2>2, <2>3, InvokedAble, PhaseAble
<1>13. ASSUME NEW i \in Slots, NEW a \in Answers, Answered(i, a) PROVE Kept
  <2> DEFINE w == [inv[i] EXCEPT !.phase = "answered", !.answer = a, !.seq = inv[i].seq + 2]
  <2>1. inv[i].seq + 2 \in Nat
    BY <1>a DEF Invocation
  <2>2. inv[i].phase # "void" /\ inv' = [inv EXCEPT ![i] = w]
    BY <1>13 DEF Answered
  <2>3. Able(w) /\ w.cp = inv[i].cp
    BY <1>a, <2>1, AnsweredAble
  <2> HIDE DEF w
  <2>4. QED
    BY <1>d, <2>2, <2>3
<1>14. ASSUME NEW i \in Slots, OutcomeUnknown(i) PROVE Kept
  <2> DEFINE w == [inv[i] EXCEPT !.phase = "thrown", !.retries = MaxRetries]
  <2>1. inv[i].phase # "void" /\ inv' = [inv EXCEPT ![i] = w]
    BY <1>14 DEF OutcomeUnknown
  <2>2. Able(w) /\ w.cp = inv[i].cp
    BY <1>a, RunAssumption, ThrowingAble
  <2> HIDE DEF w
  <2>3. QED
    BY <1>d, <2>1, <2>2
<1>15. ASSUME NEW i \in Slots, UseAnswer(i) PROVE Kept
  <2> DEFINE v == inv[i]
  <2>1. v.answer \in Answers /\ v.phase = "answered"
    BY <1>15, <1>a DEF UseAnswer, Able
  <2>2. \/ inv' = [inv EXCEPT ![i] = [v EXCEPT !.phase = "lease", !.outcome = "completed"]]
        \/ inv' = [inv EXCEPT ![i] = EndsWith(v, "cancelled", "cancelled")]
        \/ inv' = [inv EXCEPT ![i] = EndsWith(v, "ready_for_review", "completed")]
        \/ inv' = [inv EXCEPT ![i] = EndsWith(v, "failed", "failed")]
        \/ inv' = [inv EXCEPT ![i] = [v EXCEPT !.phase = "top"]]
        \/ inv' = [inv EXCEPT ![i] = [v EXCEPT !.phase = "park", !.outcome = "awaiting_input"]]
    <3>1. inv' = [inv EXCEPT ![i] =
            CASE v.answer = "caller" -> [v EXCEPT !.phase = "lease", !.outcome = "completed"]
              [] v.answer # "caller" /\ run.cancel -> EndsWith(v, "cancelled", "cancelled")
              [] v.answer = "final" /\ ~run.cancel ->
                   EndsWith(v, "ready_for_review", "completed")
              [] v.answer = "bad" /\ ~run.cancel -> EndsWith(v, "failed", "failed")
              [] v.answer = "tools" /\ ~run.cancel -> [v EXCEPT !.phase = "top"]
              [] v.answer = "ask" /\ ~run.cancel ->
                   [v EXCEPT !.phase = "park", !.outcome = "awaiting_input"]]
      BY <1>15 DEF UseAnswer
    <3>2. v.answer \in {"final", "tools", "ask", "caller", "bad"} /\ run.cancel \in BOOLEAN
      BY <2>1 DEF Answers, IInv, RowInv, Row
    <3> HIDE DEF v
    <3>3. QED
      BY <3>1, <3>2
  <2>3. /\ Able([v EXCEPT !.phase = "lease", !.outcome = "completed"])
        /\ [v EXCEPT !.phase = "lease", !.outcome = "completed"].cp = v.cp
        /\ Able([v EXCEPT !.phase = "park", !.outcome = "awaiting_input"])
        /\ [v EXCEPT !.phase = "park", !.outcome = "awaiting_input"].cp = v.cp
    BY <1>a, HandedAble, ParkingAble
  <2>4. {"completed", "cancelled", "failed"} \subseteq Outcomes
    BY DEF Outcomes
  <2>5. v \in Invocation /\ v.phase # "void"
    BY <1>a, <2>1
  <2> HIDE DEF v
  <2>6. ASSUME NEW s \in States, NEW o \in Outcomes,
               inv' = [inv EXCEPT ![i] = EndsWith(v, s, o)]
        PROVE  Kept
    BY <1>d, <2>5, <2>6, EndsWithAble DEF v
  <2>7. CASE inv' = [inv EXCEPT ![i] = [v EXCEPT !.phase = "lease", !.outcome = "completed"]]
    BY <1>d, <2>3, <2>5, <2>7 DEF v
  <2>8. CASE inv' = [inv EXCEPT ![i] = [v EXCEPT !.phase = "park",
                                                 !.outcome = "awaiting_input"]]
    BY <1>d, <2>3, <2>5, <2>8 DEF v
  <2>9. CASE inv' = [inv EXCEPT ![i] = [v EXCEPT !.phase = "top"]]
    BY <1>d, <1>e, <2>5, <2>9, PhaseAble DEF v
  <2>10. QED
    BY <1>f, <2>2, <2>4, <2>6, <2>7, <2>8, <2>9
<1>16. ASSUME NEW i \in Slots, Park(i) PROVE Kept
  <2> DEFINE w == [inv[i] EXCEPT !.phase = "lease", !.seq = inv[i].seq + 1]
  <2>1. inv[i].phase # "void"
    BY <1>16 DEF Park
  <2>2. Goto(i, "thrown") \/ inv' = [inv EXCEPT ![i] = w]
    BY <1>16 DEF Park
  <2>3. inv[i].seq + 1 \in Nat
    BY <1>a DEF Invocation
  <2>4. Able(w) /\ w.cp = inv[i].cp
    BY <1>a, <2>3, ParkedAble
  <2> HIDE DEF w
  <2>5. QED
    BY <1>c, <1>d, <1>e, <2>1, <2>2, <2>4
<1>17. ASSUME NEW i \in Slots, CompleteLease(i) \/ Settle(i) PROVE Kept
  BY <1>17, <1>c, <1>e DEF CompleteLease, Settle
<1>18. ASSUME NEW j \in Slots, Release(j) PROVE Kept
  BY <1>18, <1>c, <1>e DEF Release
<1>19. ASSUME NEW j \in Slots, ClaimAsk(j) \/ ClaimPause(j) PROVE InvsAble'
  <2>1. PICK how \in {"unpaused", "answered"}, c \in Pending :
          inv' = [inv EXCEPT ![j].phase = "claimed", ![j].cp = c, ![j].how = how,
                             ![j].from = [seq |-> cps[c].seq, step |-> cps[c].step]]
    <3>1. CASE ClaimAsk(j)
      BY <3>1 DEF ClaimAsk, Claim, Claimable
    <3>2. CASE ClaimPause(j)
      BY <3>2 DEF ClaimPause, Claim, Claimable
    <3>3. QED
      BY <1>19, <3>1, <3>2
  <2>2. c \in Nat /\ cps[c].seq \in Nat /\ cps[c].step \in Nat
    <3>1. cps \in Seq(Checkpoint) /\ c \in DOMAIN cps
      BY DEF IInv, Pending
    <3>2. c \in Nat /\ cps[c] \in Checkpoint
      BY <3>1
    <3>3. QED
      BY <3>2 DEF Checkpoint
  <2>3. inv' = [inv EXCEPT ![j] =
          [inv[j] EXCEPT !.phase = "claimed", !.cp = c, !.how = how,
                         !.from = [seq |-> cps[c].seq, step |-> cps[c].step]]]
    BY <2>1
  <2>4. PICK w : Able(w) /\ inv' = [inv EXCEPT ![j] = w]
    BY <1>a, <2>2, <2>3, ClaimedAble
  <2>5. QED
    BY <1>a, <2>4 DEF InvsAble, Able
<1>20. ASSUME NEW i \in Slots, GoesSilent(i) PROVE Kept
  <2>1. /\ Able([inv[i] EXCEPT !.watched = FALSE])
        /\ [inv[i] EXCEPT !.watched = FALSE].cp = inv[i].cp
    BY <1>a DEF Able, Invocation
  <2>2. QED
    BY <1>20, <1>d, <2>1 DEF GoesSilent
<1>21. ASSUME NEW e \in Enders, NEW refused \in BOOLEAN, CancelWorld(e, refused) PROVE Kept
  <2>1. CASE inv' = inv
    BY <2>1, <1>b
  <2>2. CASE inv' # inv
    <3> DEFINE i == ender[e].world
    <3>1. i \in Slots
      BY <1>21, <2>2 DEF CancelWorld, IInv, Others, Ending, Slots
    <3> DEFINE phase == IF inv[i].phase \in {"waiting", "lost"} THEN "gone" ELSE inv[i].phase
               w == [inv[i] EXCEPT !.held = FALSE, !.phase = phase]
    <3>2. inv' = [inv EXCEPT ![i] = w]
      BY <1>21, <2>2 DEF CancelWorld
    <3>3. /\ phase \in {"gone", inv[i].phase}
          /\ inv[i].phase = "void" => phase = "void"
      OBVIOUS
    <3> HIDE DEF i, phase
    <3>4. Able(w) /\ w.cp = inv[i].cp /\ (inv[i].phase = "void" => w.phase = "void")
      BY <1>a, <3>1, <3>3, CancelledAble
    <3> HIDE DEF w
    <3>5. QED
      BY <1>a, <3>1, <3>2, <3>4, OneMoves DEF Kept
  <2>3. QED
    BY <2>1, <2>2
<1>22. ASSUME \/ RequestPause \/ WithdrawPause \/ RequestStop \/ ArchiveRead \/ RestoreRead
              \/ EndParked \/ ShelfWrite \/ GoesIdle \/ Reap \/ UNCHANGED vars
              \/ \E e \in Enders, fails \in BOOLEAN : Explain(e, fails)
       PROVE Kept
  <2>1. UNCHANGED inv
    BY <1>22
       DEF vars, RequestPause, WithdrawPause, RequestStop, ArchiveRead, RestoreRead, EndParked,
           ShelfWrite, GoesIdle, Reap, Explain
  <2>2. QED
    BY <2>1, <1>b
<1>23. ASSUME NEW i \in Slots, Executes(i) PROVE Kept
  BY <1>23, <1>4, <1>5, <1>6, <1>7, <1>8, <1>9, <1>10, <1>11, <1>12, <1>13, <1>14, <1>15, <1>16,
     <1>17 DEF Executes
<1>24. ASSUME NEW i \in Slots,
              Begin(i) \/ Release(i) \/ Executes(i) \/ Redeliver(i) \/ Crash(i) \/ GoesSilent(i)
       PROVE Kept
  BY <1>24, <1>1, <1>2, <1>3, <1>18, <1>20, <1>23
<1>25. CASE User
  BY <1>19, <1>22, <1>25 DEF User, Kept
<1>26. ASSUME NEW e \in Enders, Ends(e) PROVE Kept
  BY <1>21, <1>22, <1>26 DEF Ends
<1>27. CASE EndParked \/ ShelfWrite \/ GoesIdle \/ Reap \/ UNCHANGED vars
  BY <1>22, <1>27 DEF Kept
<1>28. QED
  BY <1>24, <1>25, <1>26, <1>27 DEF Next, Kept

-------------------------------------------------------------------------------
(* The checkpoints.                                                          *)

(* A checkpoint somebody took is not on offer again. *)
StillTaken ==
  \A c \in DOMAIN cps :
    c \in DOMAIN cps' /\ (cps[c].state # "pending" => cps'[c].state # "pending")

LEMMA CheckpointWritten ==
  ASSUME cps \in Seq(Checkpoint), NEW c \in DOMAIN cps, NEW r \in Checkpoint,
         cps' = [cps EXCEPT ![c] = r]
  PROVE  /\ cps' \in Seq(Checkpoint)
         /\ DOMAIN cps' = DOMAIN cps
         /\ cps'[c] = r
         /\ \A d \in DOMAIN cps : d # c => cps'[d] = cps[d]
BY ExceptSeq

LEMMA ParkCps ==
  ASSUME IInv, NEW i \in Slots, Park(i), cps' # cps
  PROVE  cps' \in Seq(Checkpoint) /\ StillTaken
<1> DEFINE v == inv[i]
           m == [c \in DOMAIN cps |-> IF cps[c].state = "resuming"
                                        THEN [cps[c] EXCEPT !.state = "resolved"] ELSE cps[c]]
           next == [kind |-> IF v.outcome = "paused" THEN "pause" ELSE "ask",
                    state |-> "pending", lease |-> 0, seq |-> NumberAfter(v), step |-> v.step]
<1>1. cps' = Append(m, next)
  BY DEF Park
<1>2. next \in Checkpoint
  <2>1. v.seq + 1 \in Nat /\ v.step \in Nat
    BY DEF IInv, InvsAble, Invocation
  <2>2. 0 \in 0..MaxInvocations
    BY RunAssumption
  <2>3. QED
    BY <2>1, <2>2 DEF NumberAfter, Checkpoint
<1>3. \A c \in DOMAIN cps : cps[c] \in Checkpoint
  BY DEF IInv
<1>4. /\ DOMAIN m = DOMAIN cps
      /\ \A c \in DOMAIN cps : m[c] \in Checkpoint
      /\ \A c \in DOMAIN cps : cps[c].state # "pending" => m[c].state # "pending"
  BY <1>3 DEF Checkpoint
<1>5. m \in Seq(Checkpoint) /\ Len(m) = Len(cps)
  BY <1>4 DEF IInv
<1> HIDE DEF m, next
<1>6. /\ Append(m, next) \in Seq(Checkpoint)
      /\ Len(Append(m, next)) = Len(m) + 1
      /\ \A c \in 1..Len(m) : Append(m, next)[c] = m[c]
  BY <1>2, <1>5, AppendProperties
<1>7. DOMAIN cps = 1..Len(m) /\ DOMAIN cps \subseteq DOMAIN cps'
  BY <1>1, <1>5, <1>6 DEF IInv
<1>8. QED
  BY <1>1, <1>4, <1>6, <1>7 DEF StillTaken

LEMMA CpsKept ==
  IInv /\ [Next]_vars =>
    cps' \in Seq(Checkpoint) /\ (StillTaken \/ \E j \in Slots : Release(j))
<1> SUFFICES ASSUME IInv, [Next]_vars
             PROVE cps' \in Seq(Checkpoint) /\ (StillTaken \/ \E j \in Slots : Release(j))
  OBVIOUS
<1> DEFINE Kept == cps' \in Seq(Checkpoint) /\ StillTaken
<1>a. cps \in Seq(Checkpoint) /\ \A c \in DOMAIN cps : cps[c] \in Checkpoint
  BY DEF IInv
<1>b. UNCHANGED cps => Kept
  BY <1>a DEF StillTaken
<1>c. ASSUME NEW c \in DOMAIN cps, NEW r \in Checkpoint, cps' = [cps EXCEPT ![c] = r],
             cps[c].state # "pending" => r.state # "pending"
      PROVE  Kept
  BY <1>a, <1>c, CheckpointWritten DEF StillTaken
<1> HIDE DEF Kept
<1>1. ASSUME NEW i \in Slots, Park(i) PROVE Kept
  BY <1>1, <1>b, ParkCps DEF Kept
<1>2. ASSUME NEW i \in Slots, CompleteLease(i) PROVE Kept
  <2> DEFINE c == inv[i].cp
             s == Concluded(cps[c].state, inv[i].outcome)
  <2>1. CASE cps' = cps
    BY <2>1, <1>b
  <2>2. CASE cps[c].state # "pending" /\ cps' = [cps EXCEPT ![c].state = s]
    <3>1. CASE c \in DOMAIN cps
      <4>1. cps[c].state \in {"resuming", "resolved", "failed"}
        BY <1>a, <2>2, <3>1 DEF Checkpoint
      <4>2. s \in {"resuming", "resolved", "failed"}
        BY <4>1 DEF Concluded
      <4>3. cps' = [cps EXCEPT ![c] = [cps[c] EXCEPT !.state = s]]
        BY <2>2
      <4> HIDE DEF s, c
      <4>4. [cps[c] EXCEPT !.state = s] \in Checkpoint /\ [cps[c] EXCEPT !.state = s].state = s
        BY <1>a, <3>1, <4>2 DEF Checkpoint
      <4>5. QED
        BY <1>c, <3>1, <4>2, <4>3, <4>4
    <3>2. CASE c \notin DOMAIN cps
      <4>1. cps' = cps
        BY <1>a, <2>2, <3>2
      <4>2. QED
        BY <4>1, <1>b
    <3>3. QED
      BY <3>1, <3>2
  <2>3. QED
    BY <1>2, <2>1, <2>2 DEF CompleteLease
<1>3. ASSUME NEW j \in Slots, ClaimAsk(j) \/ ClaimPause(j) PROVE Kept
  <2>1. PICK c \in Pending : cps' = [cps EXCEPT ![c].state = "resuming", ![c].lease = j]
    <3>1. CASE ClaimAsk(j)
      BY <3>1 DEF ClaimAsk, Claim, Claimable
    <3>2. CASE ClaimPause(j)
      BY <3>2 DEF ClaimPause, Claim, Claimable
    <3>3. QED
      BY <1>3, <3>1, <3>2
  <2>2. /\ j \in 0..MaxInvocations /\ c \in DOMAIN cps
        /\ cps' = [cps EXCEPT ![c] = [cps[c] EXCEPT !.state = "resuming", !.lease = j]]
    <3>1. j \in 0..MaxInvocations
      BY RunAssumption DEF Slots
    <3>2. c \in DOMAIN cps
      BY DEF Pending
    <3>3. cps' = [cps EXCEPT ![c] = [cps[c] EXCEPT !.state = "resuming", !.lease = j]]
      BY <1>a, <2>1, <3>2
    <3>4. QED
      BY <3>1, <3>2, <3>3
  <2>3. /\ [cps[c] EXCEPT !.state = "resuming", !.lease = j] \in Checkpoint
        /\ [cps[c] EXCEPT !.state = "resuming", !.lease = j].state = "resuming"
    BY <1>a, <2>2 DEF Checkpoint
  <2>4. QED
    BY <1>c, <2>2, <2>3
<1>4. ASSUME NEW j \in Slots, Release(j) PROVE cps' \in Seq(Checkpoint)
  <2> DEFINE c == inv[j].cp
  <2>1. CASE cps' = cps
    BY <2>1, <1>a
  <2>2. CASE cps' = [cps EXCEPT ![c].state = "pending", ![c].lease = 0]
    <3>1. /\ c \in DOMAIN cps
          /\ cps' = [cps EXCEPT ![c] = [cps[c] EXCEPT !.state = "pending", !.lease = 0]]
      <4>1. c \in DOMAIN cps
        BY <1>4 DEF Release, IInv, LeaseTaken
      <4>2. QED
        BY <1>a, <2>2, <4>1
    <3>2. [cps[c] EXCEPT !.state = "pending", !.lease = 0] \in Checkpoint
      <4>1. 0 \in 0..MaxInvocations
        BY RunAssumption
      <4>2. QED
        BY <1>a, <3>1, <4>1 DEF Checkpoint
    <3>3. QED
      BY <1>a, <3>1, <3>2, CheckpointWritten
  <2>3. QED
    BY <1>4, <2>1, <2>2 DEF Release
<1>5. CASE EndParked
  <2>1. CASE cps' = cps
    BY <2>1, <1>b DEF Kept
  <2>2. ASSUME NEW c \in Pending, cps' = [cps EXCEPT ![c].state = "failed", ![c].lease = 0]
        PROVE  Kept
    <3>1. 0 \in 0..MaxInvocations /\ c \in DOMAIN cps
      BY RunAssumption DEF Pending
    <3>2. cps' = [cps EXCEPT ![c] = [cps[c] EXCEPT !.state = "failed", !.lease = 0]]
      BY <1>a, <2>2, <3>1
    <3>3. /\ [cps[c] EXCEPT !.state = "failed", !.lease = 0] \in Checkpoint
          /\ [cps[c] EXCEPT !.state = "failed", !.lease = 0].state = "failed"
      BY <1>a, <3>1 DEF Checkpoint
    <3>4. QED
      BY <1>c, <3>1, <3>2, <3>3
  <2>3. QED
    BY <1>5, <2>1, <2>2 DEF EndParked, Kept
<1>6. ASSUME NEW i \in Slots,
             \/ Begin(i) \/ Crash(i) \/ Redeliver(i) \/ GoesSilent(i) \/ DeviceReady(i)
             \/ DeviceAsleep(i) \/ (\E back \in BOOLEAN : DeviceNoticed(i, back)) \/ Emit(i)
             \/ CheckStop(i) \/ CheckPause(i) \/ HandOff(i) \/ (\E a \in Answers : Answered(i, a))
             \/ OutcomeUnknown(i) \/ UseAnswer(i) \/ Settle(i) \/ Rethrow(i) \/ FailWorkflow(i)
      PROVE  Kept
  <2>1. UNCHANGED cps
    BY <1>6
       DEF Begin, Crash, Redeliver, GoesSilent, DeviceReady, DeviceAsleep, DeviceNoticed, Emit,
           CheckStop, CheckPause, HandOff, Answered, OutcomeUnknown, UseAnswer, Settle, Rethrow,
           FailWorkflow
  <2>2. QED
    BY <2>1, <1>b
<1>7. ASSUME \/ RequestPause \/ WithdrawPause \/ RequestStop \/ ArchiveRead \/ RestoreRead
             \/ ShelfWrite \/ GoesIdle \/ Reap \/ UNCHANGED vars
             \/ \E e \in Enders : Ends(e)
      PROVE  Kept
  <2>1. UNCHANGED cps
    BY <1>7
       DEF vars, RequestPause, WithdrawPause, RequestStop, ArchiveRead, RestoreRead, ShelfWrite,
           GoesIdle, Reap, Ends, CancelWorld, Explain
  <2>2. QED
    BY <2>1, <1>b
<1>8. ASSUME NEW i \in Slots, Executes(i) PROVE Kept
  BY <1>1, <1>2, <1>6, <1>8 DEF Executes
<1>9. CASE User
  BY <1>3, <1>7, <1>9 DEF User, Kept
<1>10. CASE \E i \in Slots : Begin(i) \/ Executes(i) \/ Redeliver(i) \/ Crash(i) \/ GoesSilent(i)
  BY <1>6, <1>8, <1>10 DEF Kept
<1>11. CASE \/ ShelfWrite \/ GoesIdle \/ Reap \/ UNCHANGED vars \/ \E e \in Enders : Ends(e)
  BY <1>7, <1>11 DEF Kept
<1>12. QED
  BY <1>4, <1>5, <1>9, <1>10, <1>11 DEF Next

-------------------------------------------------------------------------------
(* Who may act on an answer.                                                 *)

LEMMA DecisionKept == IInv /\ [Next]_vars => LeaseTaken' /\ DecisionUsedOnce'
<1> SUFFICES ASSUME IInv, [Next]_vars PROVE LeaseTaken' /\ DecisionUsedOnce'
  OBVIOUS
<1>1. /\ LeaseTaken /\ DecisionUsedOnce
      /\ \A i \in Slots : inv[i].cp \in Nat
      /\ inv \in [Slots -> Invocation]
  BY DEF IInv, InvsAble, Invocation
<1>2. CASE SameLeases /\ StillTaken
  BY <1>1, <1>2 DEF SameLeases, StillTaken, LeaseTaken, DecisionUsedOnce
<1>3. ASSUME NEW j \in Slots, ClaimAsk(j) \/ ClaimPause(j), StillTaken
      PROVE  LeaseTaken' /\ DecisionUsedOnce'
  <2>1. PICK c \in Pending :
          /\ cps' = [cps EXCEPT ![c].state = "resuming", ![c].lease = j]
          /\ inv'[j].cp = c
          /\ \A i \in Slots \ {j} : inv'[i] = inv[i]
    <3>1. PICK c \in Pending, how \in {"unpaused", "answered"} :
            /\ cps' = [cps EXCEPT ![c].state = "resuming", ![c].lease = j]
            /\ inv' = [inv EXCEPT ![j].phase = "claimed", ![j].cp = c, ![j].how = how,
                                  ![j].from = [seq |-> cps[c].seq, step |-> cps[c].step]]
      <4>1. CASE ClaimAsk(j)
        BY <4>1 DEF ClaimAsk, Claim, Claimable
      <4>2. CASE ClaimPause(j)
        BY <4>2 DEF ClaimPause, Claim, Claimable
      <4>3. QED
        BY <1>3, <4>1, <4>2
    <3>2. inv'[j].cp = c
      BY <1>1, <3>1 DEF Invocation
    <3>3. QED
      BY <1>1, <3>1, <3>2
  <2>2. c \in DOMAIN cps /\ cps[c].state = "pending"
    BY <2>1 DEF Pending
  <2>3. c \in DOMAIN cps' /\ cps'[c].state # "pending"
    <3>1. cps[c] \in Checkpoint
      BY <2>2 DEF IInv
    <3>2. QED
      BY <2>1, <2>2, <3>1 DEF Checkpoint
  <2>4. \A i \in Slots \ {j} : inv[i].cp = c /\ c # 0 => inv[i].phase = "void"
    BY <1>1, <2>2 DEF LeaseTaken
  <2>5. LeaseTaken'
    BY <1>1, <1>3, <2>1, <2>3 DEF LeaseTaken, StillTaken
  <2>6. DecisionUsedOnce'
    BY <1>1, <2>1, <2>4 DEF DecisionUsedOnce
  <2>7. QED
    BY <2>5, <2>6
<1>4. ASSUME NEW j \in Slots, Release(j)
      PROVE  LeaseTaken' /\ DecisionUsedOnce'
  <2> DEFINE c == inv[j].cp
  <2>1. /\ inv[j].phase = "claimed" /\ c # 0
        /\ inv' = [inv EXCEPT ![j].phase = "void"]
        /\ \/ cps' = cps
           \/ cps' = [cps EXCEPT ![c].state = "pending", ![c].lease = 0]
    BY <1>4 DEF Release, Goto
  <2>2. /\ inv'[j].phase = "void"
        /\ \A i \in Slots : inv'[i].cp = inv[i].cp
        /\ \A i \in Slots \ {j} : inv'[i] = inv[i]
    BY <1>1, <2>1 DEF Invocation
  <2>3. \A i \in Slots \ {j} : inv[i].cp = c => inv[i].phase = "void"
    BY <1>1, <2>1 DEF DecisionUsedOnce
  <2>4. \A d \in DOMAIN cps : d # c => d \in DOMAIN cps' /\ cps'[d] = cps[d]
    BY <2>1
  <2> HIDE DEF c
  <2>5. LeaseTaken'
    BY <1>1, <2>2, <2>3, <2>4 DEF LeaseTaken
  <2>6. DecisionUsedOnce'
    BY <1>1, <2>2 DEF DecisionUsedOnce
  <2>7. QED
    BY <2>5, <2>6
<1>5. QED
  BY <1>2, <1>3, <1>4, InvKept, CpsKept

-------------------------------------------------------------------------------
(* The requests under way, the receipts and the bounds.                      *)

LEMMA FaultKept == Others /\ Fault => faults' \in 0..MaxFaults
BY RunAssumption DEF Others, Fault

LEMMA OthersKept == IInv /\ [Next]_vars => Others'
<1> SUFFICES ASSUME IInv, [Next]_vars PROVE Others'
  OBVIOUS
<1>a. Others /\ journal' \subseteq Event /\ run \in Row
  BY RowKept DEF IInv, RowInv
<1>b. UNCHANGED <<receipt, stop, shelf, ender, faults>> => Others'
  BY <1>a DEF Others
<1>1. ASSUME NEW i \in Slots,
             \/ Begin(i) \/ Release(i) \/ Redeliver(i) \/ DeviceReady(i) \/ DeviceAsleep(i)
             \/ (\E back \in BOOLEAN : DeviceNoticed(i, back)) \/ Emit(i) \/ CheckStop(i)
             \/ CheckPause(i) \/ HandOff(i) \/ OutcomeUnknown(i) \/ UseAnswer(i) \/ Park(i)
             \/ CompleteLease(i) \/ Settle(i) \/ Rethrow(i) \/ FailWorkflow(i)
             \/ ClaimAsk(i) \/ ClaimPause(i)
      PROVE  Others'
  <2>1. UNCHANGED <<receipt, stop, shelf, ender, faults>>
    BY <1>1
       DEF Begin, Release, Redeliver, DeviceReady, DeviceAsleep, DeviceNoticed, Emit, CheckStop,
           CheckPause, HandOff, OutcomeUnknown, UseAnswer, Park, CompleteLease, Settle, Rethrow,
           FailWorkflow, ClaimAsk, ClaimPause, Claim
  <2>2. QED
    BY <2>1, <1>b
<1>2. ASSUME RequestPause \/ WithdrawPause \/ GoesIdle \/ UNCHANGED vars PROVE Others'
  <2>1. UNCHANGED <<receipt, stop, shelf, ender, faults>>
    BY <1>2 DEF RequestPause, WithdrawPause, GoesIdle, vars
  <2>2. QED
    BY <2>1, <1>b
<1>3. ASSUME NEW i \in Slots, Crash(i) PROVE Others'
  <2>1. receipt' \in [1..MaxSteps -> Receipts]
    BY <1>3, <1>a DEF Crash, Others
  <2>2. UNCHANGED <<stop, shelf, ender>> /\ faults' \in 0..MaxFaults
    BY <1>3, <1>a, FaultKept DEF Crash
  <2>3. QED
    BY <1>a, <2>1, <2>2 DEF Others
<1>4. ASSUME NEW i \in Slots, NEW a \in Answers, Answered(i, a) PROVE Others'
  <2>1. receipt' \in [1..MaxSteps -> Receipts]
    BY <1>4, <1>a DEF Answered, Others, Receipts
  <2>2. UNCHANGED <<stop, shelf, ender, faults>>
    BY <1>4 DEF Answered
  <2>3. QED
    BY <1>a, <2>1, <2>2 DEF Others
<1>5. ASSUME RequestStop \/ EndParked PROVE Others'
  <2>1. stop' \in {"idle", "end"} /\ UNCHANGED <<receipt, shelf, ender, faults>>
    BY <1>5 DEF RequestStop, EndParked
  <2>2. QED
    BY <1>a, <2>1 DEF Others
<1>6. ASSUME ArchiveRead \/ RestoreRead \/ ShelfWrite PROVE Others'
  <2> DEFINE Shelf == [op: {"idle", "archive", "shelved", "restore", "restored"},
                       to: States \cup {"none"}, was: States \cup {"none"}]
  <2>1. shelf \in Shelf /\ run.state \in States
    BY <1>a DEF Others, Row
  <2>2. shelf' \in Shelf /\ (shelf'.op \in {"archive", "restore"} => shelf'.to \in States)
    <3>1. CASE ArchiveRead
      BY <2>1, <3>1 DEF ArchiveRead, States, Terminal
    <3>2. CASE RestoreRead
      <4>1. LastAnnounced \in States
        BY <3>2 DEF RestoreRead, Archivable, States
      <4>2. shelf' = [shelf EXCEPT !.op = "restore", !.to = LastAnnounced]
        BY <3>2 DEF RestoreRead
      <4>3. QED
        BY <2>1, <4>1, <4>2
    <3>3. CASE ShelfWrite
      <4>1. PICK op \in {"shelved", "restored"} : shelf' = [shelf EXCEPT !.op = op]
        BY <3>3 DEF ShelfWrite
      <4>2. QED
        BY <2>1, <4>1
    <3>4. QED
      BY <1>6, <3>1, <3>2, <3>3
  <2>3. UNCHANGED <<receipt, stop, ender, faults>>
    BY <1>6 DEF ArchiveRead, RestoreRead, ShelfWrite
  <2>4. QED
    BY <1>a, <2>2, <2>3 DEF Others
<1>c. ASSUME NEW e \in Enders, NEW r \in Ending, ender' = [ender EXCEPT ![e] = r]
      PROVE  ender' \in [Enders -> Ending]
  BY <1>a, <1>c DEF Others
<1>7. ASSUME Reap PROVE Others'
  <2>1. PICK s \in {"cancelled", "failed"}, w \in 0..MaxInvocations :
          ender' = [ender EXCEPT !["reaper"] =
                      [step |-> "world", state |-> s, last |-> run.last, world |-> w]]
    <3> DEFINE s == IF run.cancel THEN "cancelled" ELSE "failed"
               w == IF \E i \in Slots : Attached(i) THEN CHOOSE i \in Slots : Attached(i) ELSE 0
    <3>1. w \in 0..MaxInvocations
      BY RunAssumption DEF Slots
    <3>2. s \in {"cancelled", "failed"}
      OBVIOUS
    <3>3. ender' = [ender EXCEPT !["reaper"] =
                      [step |-> "world", state |-> s, last |-> run.last, world |-> w]]
      BY <1>7 DEF Reap
    <3> HIDE DEF s, w
    <3>4. QED
      BY <3>1, <3>2, <3>3
  <2>2. [step |-> "world", state |-> s, last |-> run.last, world |-> w] \in Ending
    BY <1>a DEF Row, Ending
  <2>3. ender' \in [Enders -> Ending]
    BY <1>c, <2>1, <2>2 DEF Enders
  <2>4. UNCHANGED <<receipt, stop, shelf, faults>>
    BY <1>7 DEF Reap
  <2>5. QED
    BY <1>a, <2>3, <2>4 DEF Others
<1>8. ASSUME NEW i \in Slots, GoesSilent(i) PROVE Others'
  <2>1. [step |-> "world", state |-> "failed", last |-> run.last, world |-> i] \in Ending
    BY <1>a DEF Row, Ending, Slots
  <2>2. ender' \in [Enders -> Ending]
    BY <1>8, <1>c, <2>1 DEF GoesSilent, Enders
  <2>3. UNCHANGED <<receipt, stop, shelf, faults>>
    BY <1>8 DEF GoesSilent
  <2>4. QED
    BY <1>a, <2>2, <2>3 DEF Others
<1>9. ASSUME NEW e \in Enders, NEW refused \in BOOLEAN, CancelWorld(e, refused) PROVE Others'
  <2>1. PICK n \in Nat : ender' = [ender EXCEPT ![e] = [ender[e] EXCEPT !.step = "explain",
                                                                        !.last = n]]
    <3>1. ender[e].last \in Nat /\ run.last \in Nat
      BY <1>a DEF Others, Ending, Row
    <3>2. CASE e = "stream"
      BY <1>9, <3>1, <3>2 DEF CancelWorld
    <3>3. CASE e # "stream"
      <4>1. ender' = [ender EXCEPT ![e].step = "explain", ![e].last = ender[e].last]
        BY <1>9, <3>3 DEF CancelWorld
      <4>2. ender' = [ender EXCEPT ![e] = [ender[e] EXCEPT !.step = "explain",
                                                          !.last = ender[e].last]]
        BY <4>1, <1>a DEF Others
      <4>3. QED
        BY <3>1, <4>2
    <3>4. QED
      BY <3>2, <3>3
  <2>2. [ender[e] EXCEPT !.step = "explain", !.last = n] \in Ending
    BY <1>a DEF Others, Ending
  <2>3. ender' \in [Enders -> Ending]
    BY <1>c, <2>1, <2>2
  <2>4. UNCHANGED <<receipt, stop, shelf>> /\ faults' \in 0..MaxFaults
    BY <1>9, <1>a, FaultKept DEF CancelWorld, Others
  <2>5. QED
    BY <1>a, <2>3, <2>4 DEF Others
<1>10. ASSUME NEW e \in Enders, NEW fails \in BOOLEAN, Explain(e, fails) PROVE Others'
  <2>1. Idle \in Ending
    BY RunAssumption DEF Idle, Ending
  <2>2. ender' \in [Enders -> Ending]
    BY <1>10, <1>c, <2>1 DEF Explain
  <2>3. UNCHANGED <<receipt, stop, shelf>> /\ faults' \in 0..MaxFaults
    BY <1>10, <1>a, FaultKept DEF Explain, Others
  <2>4. QED
    BY <1>a, <2>2, <2>3 DEF Others
<1>11. ASSUME NEW i \in Slots, Executes(i) PROVE Others'
  BY <1>1, <1>4, <1>11 DEF Executes
<1>12. CASE User
  BY <1>1, <1>2, <1>5, <1>6, <1>12 DEF User
<1>13. ASSUME NEW e \in Enders, Ends(e) PROVE Others'
  BY <1>9, <1>10, <1>13 DEF Ends
<1>14. QED
  BY <1>1, <1>2, <1>3, <1>5, <1>6, <1>7, <1>8, <1>11, <1>12, <1>13 DEF Next

-------------------------------------------------------------------------------
(* The invariant and what follows from it.                                   *)

LEMMA InitInv == Init => IInv
<1> SUFFICES ASSUME Init PROVE IInv
  OBVIOUS
<1>1. RowInv
  BY DEF Init, RowInv, Row, CompletedWhenEnded, Ended, States, ExecutorHeld, Terminal
<1>2. Able(Unused) /\ Able([Unused EXCEPT !.phase = "claimed"])
  <2>1. Unused \in Invocation
    <3>1. <<>> \in Seq(States)
      OBVIOUS
    <3>2. QED
      BY <3>1, RunAssumption
         DEF Unused, Invocation, Phases, Live, Executing, Openings, Answers, Outcomes
  <2>2. "claimed" \in Phases /\ Unused.phase = "none"
    BY DEF Phases, Live, Unused
  <2> HIDE DEF Unused
  <2>3. QED
    BY <2>1, <2>2, PhaseAble DEF Able
<1>3. InvsAble
  BY <1>2 DEF Init, InvsAble, Able
<1>4. \A i \in Slots : inv[i].cp = 0
  BY DEF Init, Unused
<1>5. cps \in Seq(Checkpoint) /\ LeaseTaken /\ DecisionUsedOnce
  BY <1>4 DEF Init, LeaseTaken, DecisionUsedOnce
<1>6. Others
  <2>1. Idle \in Ending /\ MaxFaults \in Nat
    BY RunAssumption DEF Idle, Ending
  <2>2. QED
    BY <2>1 DEF Init, Others, Receipts
<1>7. QED
  BY <1>1, <1>3, <1>5, <1>6 DEF IInv

LEMMA StepInv == IInv /\ [Next]_vars => IInv'
BY RowKept, InvKept, CpsKept, OthersKept, DecisionKept DEF IInv, RowStep

LEMMA InductiveInv == Spec => []IInv
BY InitInv, StepInv, PTL DEF Spec

(* Rows, checkpoints, events, notices, invocations and the requests under    *)
(* way keep their types, whoever of the executor, the user, the reaper and a *)
(* stream writes next.                                                       *)
THEOREM TypeCorrect == Spec => []TypeOK
<1>1. IInv => TypeOK
  BY DEF IInv, RowInv, InvsAble, Others, TypeOK
<1>2. QED
  BY <1>1, InductiveInv, PTL

(* completed_at is set exactly while the run is over, although the journal,  *)
(* the transition, the park, the claim, its release and the reaper each set  *)
(* it by a rule of their own.                                                *)
THEOREM CompletedCorrect == Spec => []CompletedWhenEnded
<1>1. IInv => CompletedWhenEnded
  BY DEF IInv, RowInv
<1>2. QED
  BY <1>1, InductiveInv, PTL

(* The user hears of one ending at most, with any number of writers that see *)
(* the run end: a notice is only given to a run that had not ended, and the  *)
(* write that gives it leaves an ended run, which stays ended.               *)
THEOREM AnnouncedCorrect == Spec => []AnnouncedOnce
<1>1. IInv => AnnouncedOnce
  BY DEF IInv, RowInv, AnnouncedOnce
<1>2. QED
  BY <1>1, InductiveInv, PTL

(* Of two invocations started for one checkpoint one never starts executing: *)
(* a lease is only taken of a checkpoint on offer, and only given back by    *)
(* the invocation that holds it, which ends with that.                       *)
THEOREM DecisionCorrect == Spec => []DecisionUsedOnce
<1>1. IInv => DecisionUsedOnce
  BY DEF IInv
<1>2. QED
  BY <1>1, InductiveInv, PTL

(* A run that has ended stays ended, whoever still writes.                   *)
THEOREM EndedCorrect == Spec => EndedStaysEnded
<1>1. IInv /\ [Next]_vars => [Ended(run.state) => Ended(run.state')]_vars
  <2>1. IInv /\ [Next]_vars => (Ended(run.state) => Ended(run'.state))
    BY RowKept DEF RowStep
  <2>2. QED
    BY <2>1
<1>2. QED
  BY <1>1, InductiveInv, PTL DEF Spec, EndedStaysEnded

-------------------------------------------------------------------------------
(* The numbers of the journal.                                               *)

(* The journal has room for a number if none below it is missing. *)
Free(n) == n \in 1..(run.last + 1)

(* Whoever is to write next, its number leaves no gap: an executor's, the one *)
(* it starts again from, a checkpoint's, and those of an explanation.         *)
Numbered ==
  /\ JournalHasNoGaps
  /\ \A i \in Slots : Free(inv[i].seq) /\ Free(inv[i].from.seq)
  /\ \A c \in DOMAIN cps : Free(cps[c].seq)
  /\ \A e \in Enders : ender[e].last \in 0..run.last

(* One event, or two with numbers that follow each other. *)
Follows(a, b) == a = b \/ b.seq = a.seq + 1

LEMMA LastFollows ==
  ASSUME NEW a \in Event, NEW b \in Event, Follows(a, b)
  PROVE  Last({a, b}).seq = b.seq
<1>1. a.seq \in Nat /\ b.seq \in Nat
  BY DEF Event
<1>2. \A g \in {a, b} : g.seq <= b.seq
  BY <1>1 DEF Follows
<1>3. Last({a, b}) \in {a, b} /\ \A g \in {a, b} : g.seq <= Last({a, b}).seq
  BY <1>2 DEF Last
<1>4. QED
  BY <1>1, <1>2, <1>3

LEMMA NumbersFill ==
  ASSUME run.last \in Nat, journal \subseteq Event, JournalHasNoGaps,
         NEW a \in Event, NEW b \in Event, NEW es, es = {a, b}, Follows(a, b), Free(a.seq),
         run \in Row
  PROVE  /\ {e.seq : e \in journal \cup Landed(es)} = 1..Journaled(es).last
         /\ Journaled(es).last \in Nat
         /\ Journaled(es).last >= run.last
         /\ Journaled(es).last >= b.seq
<1>1. a.seq \in Nat /\ b.seq \in Nat /\ a.seq >= 1 /\ a.seq <= run.last + 1
  BY DEF Event, Free
<1>2. b.seq = a.seq \/ b.seq = a.seq + 1
  BY DEF Follows
<1>3. \A e \in es : e \in Landed(es) <=> e.seq \notin 1..run.last
  BY DEF Landed, JournalHasNoGaps
<1>4. Landed(es) \subseteq es
  BY DEF Landed
<1>5. Last(es).seq = b.seq
  BY LastFollows
<1>6. CASE Landed(es) = {}
  <2>1. Journaled(es) = run
    BY <1>6 DEF Journaled
  <2>2. b.seq \in 1..run.last
    BY <1>3, <1>6
  <2>3. journal \cup Landed(es) = journal
    BY <1>6
  <2>4. Journaled(es).last >= b.seq
    BY <1>1, <2>1, <2>2
  <2>5. {e.seq : e \in journal \cup Landed(es)} = 1..run.last
    BY <2>3, Zenon DEF JournalHasNoGaps
  <2>6. {e.seq : e \in journal \cup Landed(es)} = 1..Journaled(es).last
    BY <2>1, <2>5, Zenon
  <2>7. Journaled(es).last \in Nat /\ Journaled(es).last >= run.last
    BY <2>1
  <2>8. QED
    BY <2>4, <2>6, <2>7, Zenon
<1>7. CASE Landed(es) # {}
  <2> DEFINE top == IF run.last > b.seq THEN run.last ELSE b.seq
  <2>1. Journaled(es).last = top
    BY <1>5, <1>7 DEF Journaled, Row
  <2>2. ASSUME NEW n \in 1..top PROVE n \in {e.seq : e \in journal \cup Landed(es)}
    <3>1. CASE n \in 1..run.last
      BY <3>1 DEF JournalHasNoGaps
    <3>2. CASE n \notin 1..run.last
      <4>1. n = a.seq \/ n = b.seq
        BY <1>1, <1>2, <3>2
      <4>2. PICK e \in es : e.seq = n
        BY <4>1
      <4>3. e \in Landed(es)
        BY <1>3, <3>2, <4>2
      <4>4. QED
        BY <4>2, <4>3
    <3>3. QED
      BY <3>1, <3>2
  <2>3. ASSUME NEW e \in journal \cup Landed(es) PROVE e.seq \in 1..top
    <3>1. CASE e \in journal
      <4>1. e.seq \in 1..run.last
        BY <3>1 DEF JournalHasNoGaps
      <4>2. QED
        BY <1>1, <4>1
    <3>2. CASE e \in es
      BY <1>1, <1>2, <3>2
    <3>3. QED
      BY <1>4, <3>1, <3>2
  <2> HIDE DEF top
  <2>4. {e.seq : e \in journal \cup Landed(es)} = 1..top
    <3>1. {e.seq : e \in journal \cup Landed(es)} \subseteq 1..top
      BY <2>3, Zenon
    <3>2. 1..top \subseteq {e.seq : e \in journal \cup Landed(es)}
      BY <2>2, Zenon
    <3>3. QED
      BY <3>1, <3>2, Zenon
  <2>6. top \in Nat /\ top >= run.last /\ top >= b.seq
    BY <1>1 DEF top
  <2>5. QED
    BY <2>1, <2>4, <2>6
<1>8. QED
  BY <1>6, <1>7

(* What a step does to the numbers that are taken. *)
Grown == JournalHasNoGaps' /\ run'.last \in Nat /\ run'.last >= run.last

LEMMA AppendGrows ==
  ASSUME run \in Row, journal \subseteq Event, JournalHasNoGaps,
         NEW a \in Event, NEW b \in Event, NEW es, es = {a, b}, Follows(a, b), Free(a.seq),
         AppendEvents(es)
  PROVE  Grown /\ run'.last >= b.seq
<1>1. run.last \in Nat
  BY DEF Row
<1>2. run' = Journaled(es) /\ journal' = journal \cup Landed(es)
  BY DEF AppendEvents
<1>3. QED
  BY <1>1, <1>2, NumbersFill DEF Grown, JournalHasNoGaps

LEMMA EventGrows ==
  ASSUME run \in Row, journal \subseteq Event, JournalHasNoGaps,
         NEW n, Free(n), NEW s \in States \cup {NoEvent}, AppendEvents({[seq |-> n, state |-> s]})
  PROVE  Grown /\ run'.last >= n
<1> DEFINE a == [seq |-> n, state |-> s]
<1>1. n \in Nat
  BY DEF Free, Row
<1>2. a \in Event /\ a.seq = n
  BY <1>1, EventType
<1> HIDE DEF a
<1>3. {a} = {a, a} /\ Follows(a, a)
  BY DEF Follows
<1>4. AppendEvents({a, a})
  BY <1>3 DEF a
<1>5. QED
  BY <1>2, <1>3, <1>4, AppendGrows

LEMMA SameGrows ==
  ASSUME run.last \in Nat, JournalHasNoGaps, run'.last = run.last, journal' = journal
  PROVE  Grown
BY DEF Grown, JournalHasNoGaps

LEMMA StartedNumbers ==
  ASSUME NEW v \in Invocation
  PROVE  /\ Started(v).seq = v.from.seq /\ Started(v).from = v.from
         /\ \/ Invoked(v).seq = v.seq /\ Invoked(v).from = v.from
            \/ Invoked(v).seq = v.from.seq /\ Invoked(v).from = v.from
<1>1. Started(v).seq = v.from.seq /\ Started(v).from = v.from
  BY DEF Started, Invocation
<1>2. [v EXCEPT !.phase = "device"].seq = v.seq /\ [v EXCEPT !.phase = "device"].from = v.from
  BY DEF Invocation
<1>3. QED
  BY <1>1, <1>2 DEF Invoked

LEMMA ParkGrows ==
  ASSUME IInv, Numbered, NEW i \in Slots, Park(i)
  PROVE  Grown /\ (Pending = {} => run'.last >= inv[i].seq)
<1> DEFINE a == [seq |-> inv[i].seq, state |-> inv[i].outcome]
           r == Journaled({a})
<1>1. run \in Row /\ run.last \in Nat /\ journal \subseteq Event /\ CompletedWhenEnded
  BY DEF IInv, RowInv, Others, Row
<1>2. JournalHasNoGaps /\ Free(inv[i].seq)
  BY DEF Numbered
<1>3. CASE Pending # {}
  BY <1>1, <1>2, <1>3, SameGrows DEF Park
<1>4. CASE Pending = {}
  <2>1. inv[i].seq \in Nat /\ inv[i].outcome \in States
    BY DEF Park, IInv, InvsAble, Able, Invocation, States, HumanHeld
  <2>2. a \in Event /\ a.seq = inv[i].seq
    BY <2>1, EventType
  <2>3. run' = ParkedRun(r, inv[i].outcome) /\ journal' = journal \cup Landed({a})
    BY <1>4 DEF Park
  <2> HIDE DEF a
  <2>4. {a} = {a, a} /\ Follows(a, a)
    BY DEF Follows
  <2>5. r \in Row
    BY <1>1, <2>2, <2>4, JournaledRow
  <2>6. /\ {e.seq : e \in journal \cup Landed({a})} = 1..r.last
        /\ r.last \in Nat /\ r.last >= run.last /\ r.last >= inv[i].seq
    BY <1>1, <1>2, <2>2, <2>4, NumbersFill
  <2> HIDE DEF r
  <2>7. run'.last = r.last
    BY <2>3, <2>5 DEF ParkedRun, Row
  <2>8. QED
    BY <2>3, <2>6, <2>7 DEF Grown, JournalHasNoGaps
<1>5. QED
  BY <1>3, <1>4

LEMMA AnsweredGrows ==
  ASSUME IInv, Numbered, NEW i \in Slots, NEW x \in Answers, Answered(i, x)
  PROVE  Grown /\ run'.last >= inv[i].seq + 1
<1> DEFINE a == [seq |-> inv[i].seq + 0, state |-> NoEvent]
           b == [seq |-> inv[i].seq + 1, state |-> NoEvent]
           es == {[seq |-> inv[i].seq + d, state |-> NoEvent] : d \in {0, 1}}
<1>1. run \in Row /\ journal \subseteq Event /\ JournalHasNoGaps
  BY DEF IInv, RowInv, Others, Numbered
<1>2. inv[i].seq \in Nat /\ Free(inv[i].seq)
  BY DEF IInv, InvsAble, Invocation, Numbered
<1>3. a \in Event /\ b \in Event /\ a.seq = inv[i].seq /\ b.seq = inv[i].seq + 1
  BY <1>2, EventType
<1>4. es = {a, b} /\ Follows(a, b)
  BY <1>3 DEF Follows
<1>5. AppendEvents(es)
  BY DEF Answered
<1> HIDE DEF a, b, es
<1>6. QED
  BY <1>1, <1>2, <1>3, <1>4, <1>5, AppendGrows

LEMMA EmitGrows ==
  ASSUME IInv, Numbered, NEW i \in Slots, Emit(i)
  PROVE  Grown /\ run'.last >= inv[i].seq
<1>1. run \in Row /\ journal \subseteq Event /\ JournalHasNoGaps /\ Free(inv[i].seq)
  BY DEF IInv, RowInv, Others, Numbered
<1>2. inv[i].todo \in Seq(States) /\ inv[i].todo # <<>>
  BY DEF Emit, IInv, InvsAble, Able, Invocation
<1>3. Head(inv[i].todo) \in States
  BY <1>2, HeadTailProperties
<1>4. QED
  BY <1>1, <1>3, EventGrows DEF Emit

LEMMA ExplainGrows ==
  ASSUME IInv, Numbered, NEW e \in Enders, NEW fails \in BOOLEAN, Explain(e, fails)
  PROVE  Grown
<1> DEFINE a == [seq |-> ender[e].last + 1, state |-> NoEvent]
           b == [seq |-> ender[e].last + 2, state |-> ender[e].state]
<1>1. /\ run \in Row /\ run.last \in Nat /\ journal \subseteq Event /\ JournalHasNoGaps
      /\ ender[e].last \in 0..run.last
  BY DEF IInv, RowInv, Others, Numbered, Row
<1>2. CASE fails
  BY <1>1, <1>2, SameGrows DEF Explain
<1>3. CASE ~fails
  <2>1. ender[e].last \in Nat /\ ender[e].state \in States \cup {NoEvent}
    BY DEF IInv, Others, Ending, States, Terminal, NoEvent
  <2>2. a \in Event /\ b \in Event /\ a.seq = ender[e].last + 1 /\ b.seq = a.seq + 1
    BY <2>1, EventType
  <2>3. AppendEvents({a, b}) /\ Follows(a, b) /\ Free(a.seq)
    BY <1>1, <1>3, <2>1, <2>2 DEF Explain, Follows, Free
  <2> HIDE DEF a, b
  <2>4. QED
    BY <1>1, <2>2, <2>3, AppendGrows
<1>4. QED
  BY <1>2, <1>3

LEMMA NextNumberFree == run \in Row => Free(NextNumber) /\ NextNumber = run.last + 1
BY DEF Row, Free, NextNumber

LEMMA JournalGrows == IInv /\ Numbered /\ [Next]_vars => Grown
<1> SUFFICES ASSUME IInv, Numbered, [Next]_vars PROVE Grown
  OBVIOUS
<1>a. /\ run \in Row /\ run.last \in Nat /\ journal \subseteq Event /\ JournalHasNoGaps
      /\ cps \in Seq(Checkpoint)
  BY DEF IInv, RowInv, Others, Numbered, Row
<1>b. run'.last = run.last /\ journal' = journal => Grown
  BY <1>a, SameGrows
<1>c. ASSUME NEW n, Free(n), NEW s \in States \cup {NoEvent},
             AppendEvents({[seq |-> n, state |-> s]})
      PROVE  Grown
  BY <1>a, <1>c, EventGrows
<1>d. ASSUME NEW s, Transition(s) PROVE Grown
  <2>1. run'.last = run.last /\ journal' = journal
    BY <1>a, <1>d DEF Transition, Row
  <2>2. QED
    BY <2>1, <1>b
<1>e. ASSUME NEW s, run' = TakenBack(s) PROVE run'.last = run.last
  BY <1>a, <1>e DEF TakenBack, Row
<1>1. ASSUME NEW i \in Slots, DeviceAsleep(i) \/ \E back \in BOOLEAN : DeviceNoticed(i, back)
      PROVE  Grown
  BY <1>1, <1>a, <1>c, NextNumberFree DEF DeviceAsleep, DeviceNoticed
<1>2. ASSUME NEW i \in Slots, Emit(i) \/ Park(i) \/ \E x \in Answers : Answered(i, x)
      PROVE  Grown
  BY <1>2, EmitGrows, ParkGrows, AnsweredGrows
<1>3. ASSUME NEW i \in Slots, Settle(i) PROVE Grown
  BY <1>3, <1>b, <1>d DEF Settle
<1>4. ASSUME NEW j \in Slots, ClaimAsk(j) \/ ClaimPause(j) \/ Release(j) PROVE Grown
  <2>1. journal' = journal /\ (run' = run \/ \E s \in States : run' = TakenBack(s))
    BY <1>4 DEF ClaimAsk, ClaimPause, Claim, Release, States, ExecutorHeld, HumanHeld
  <2>2. QED
    BY <2>1, <1>b, <1>e
<1>5. CASE EndParked
  <2>1. ASSUME NEW c \in Pending, AppendEvents({[seq |-> cps[c].seq, state |-> "cancelled"]})
        PROVE  Grown
    <3>1. Free(cps[c].seq)
      BY DEF Numbered, Pending
    <3>2. "cancelled" \in States
      BY DEF States, Terminal
    <3>3. QED
      BY <2>1, <3>1, <3>2, <1>c
  <2>2. QED
    BY <1>5, <2>1, <1>b, <1>d DEF EndParked
<1>6. CASE ShelfWrite
  BY <1>6, <1>d DEF ShelfWrite
<1>7. CASE \/ RequestPause \/ WithdrawPause \/ RequestStop \/ GoesIdle \/ Reap
           \/ \E i \in Slots : Begin(i)
  <2>1. run'.last = run.last /\ journal' = journal
    BY <1>7, <1>a DEF RequestPause, WithdrawPause, RequestStop, GoesIdle, Reap, Begin, Row
  <2>2. QED
    BY <2>1, <1>b
<1>8. ASSUME NEW e \in Enders, Ends(e) PROVE Grown
  BY <1>8, <1>b, ExplainGrows DEF Ends, CancelWorld
<1>9. ASSUME NEW i \in Slots,
             \/ Crash(i) \/ Redeliver(i) \/ DeviceReady(i) \/ CheckStop(i) \/ CheckPause(i)
             \/ HandOff(i) \/ OutcomeUnknown(i) \/ UseAnswer(i) \/ CompleteLease(i)
             \/ Rethrow(i) \/ FailWorkflow(i) \/ GoesSilent(i)
      PROVE  Grown
  BY <1>9, <1>b
     DEF Crash, Redeliver, DeviceReady, CheckStop, CheckPause, HandOff, OutcomeUnknown,
         UseAnswer, CompleteLease, Rethrow, FailWorkflow, GoesSilent
<1>10. CASE ArchiveRead \/ RestoreRead \/ UNCHANGED vars
  BY <1>10, <1>b DEF ArchiveRead, RestoreRead, vars
<1>11. QED
  BY <1>1, <1>2, <1>3, <1>4, <1>5, <1>6, <1>7, <1>8, <1>9, <1>10 DEF Next, User, Executes

Room(n) == n \in 1..(run'.last + 1)

LEMMA InvNumbers ==
  ASSUME IInv, Numbered, Grown, [Next]_vars
  PROVE  \A i \in Slots : Room(inv'[i].seq) /\ Room(inv'[i].from.seq)
<1> DEFINE Goal == \A i \in Slots : Room(inv'[i].seq) /\ Room(inv'[i].from.seq)
<1>a. /\ run \in Row /\ run.last \in Nat /\ run'.last \in Nat /\ run'.last >= run.last
      /\ inv \in [Slots -> Invocation]
  BY DEF IInv, RowInv, Row, Grown, InvsAble
<1>b. \A n : Free(n) => Room(n)
  BY <1>a DEF Free, Room
<1>c. \A i \in Slots : Room(inv[i].seq) /\ Room(inv[i].from.seq)
  BY <1>b DEF Numbered
<1>d. ASSUME NEW i \in Slots, NEW w, inv' = [inv EXCEPT ![i] = w], Room(w.seq), Room(w.from.seq)
      PROVE  Goal
  BY <1>a, <1>c, <1>d
<1>e. ASSUME NEW i \in Slots, NEW w, inv' = [inv EXCEPT ![i] = w],
             w.seq \in {inv[i].seq, inv[i].from.seq}, w.from = inv[i].from
      PROVE  Goal
  BY <1>c, <1>d, <1>e
<1>f. ASSUME NEW i \in Slots, NEW phase, Goto(i, phase) PROVE Goal
  <2>1. inv' = [inv EXCEPT ![i] = [inv[i] EXCEPT !.phase = phase]]
    BY <1>a, <1>f DEF Goto
  <2>2. [inv[i] EXCEPT !.phase = phase].seq = inv[i].seq
        /\ [inv[i] EXCEPT !.phase = phase].from = inv[i].from
    BY <1>a DEF Invocation
  <2>3. QED
    BY <1>e, <2>1, <2>2
<1>g. UNCHANGED inv => Goal
  BY <1>c
<1>h. Room(NextNumber)
  BY <1>a, <1>b, NextNumberFree
<1> HIDE DEF Goal
<1>1. ASSUME NEW i \in Slots, Begin(i) PROVE Goal
  BY <1>1, <1>a, <1>e, StartedNumbers DEF Begin
<1>2. ASSUME NEW i \in Slots, Crash(i) \/ DeviceAsleep(i) \/ CompleteLease(i) \/ Settle(i)
                              \/ Release(i)
      PROVE  Goal
  BY <1>2, <1>f DEF Crash, DeviceAsleep, CompleteLease, Settle, Release
<1>3. ASSUME NEW i \in Slots, Redeliver(i) \/ DeviceReady(i) PROVE Goal
  <2>1. \/ inv' = [inv EXCEPT ![i] = Started(inv[i])]
        \/ inv' = [inv EXCEPT ![i] = [inv[i] EXCEPT !.phase = "failing"]]
    BY <1>3, <1>a DEF Redeliver, DeviceReady
  <2>2. [inv[i] EXCEPT !.phase = "failing"].seq = inv[i].seq
        /\ [inv[i] EXCEPT !.phase = "failing"].from = inv[i].from
    BY <1>a DEF Invocation
  <2>3. Started(inv[i]).seq = inv[i].from.seq /\ Started(inv[i]).from = inv[i].from
    BY <1>a, StartedNumbers
  <2>4. QED
    BY <1>e, <2>1, <2>2, <2>3
<1>4. ASSUME NEW i \in Slots, NEW back \in BOOLEAN, DeviceNoticed(i, back) PROVE Goal
  <2> DEFINE v == [inv[i] EXCEPT !.device = back]
  <2>1. v \in Invocation /\ v.from = inv[i].from
    BY <1>a DEF Invocation
  <2>2. inv' = [inv EXCEPT ![i] = Started(v)]
    BY <1>4, <1>a DEF DeviceNoticed
  <2> HIDE DEF v
  <2>3. QED
    BY <1>e, <2>1, <2>2, StartedNumbers
<1>5. ASSUME NEW i \in Slots, Rethrow(i) PROVE Goal
  <2> DEFINE v == [inv[i] EXCEPT !.retries = inv[i].retries + 1]
             gone == [inv[i] EXCEPT !.phase = "gone"]
             failing == [inv[i] EXCEPT !.phase = "failing", !.failing = TRUE]
  <2>1. v \in Invocation /\ v.from = inv[i].from
    <3>1. inv[i] \in Invocation /\ inv[i].retries + 1 \in Nat
      BY <1>a DEF Invocation
    <3>2. QED
      BY <3>1 DEF Invocation
  <2>2. gone.seq = inv[i].seq /\ gone.from = inv[i].from
        /\ failing.seq = inv[i].seq /\ failing.from = inv[i].from
    BY <1>a DEF Invocation
  <2>3. \E w \in {Started(v), gone, failing} : inv' = [inv EXCEPT ![i] = w]
    BY <1>5, <1>a DEF Rethrow
  <2> HIDE DEF v, gone, failing
  <2>4. QED
    BY <1>e, <2>1, <2>2, <2>3, StartedNumbers
<1>6. ASSUME NEW i \in Slots, FailWorkflow(i) PROVE Goal
  <2> DEFINE w == [inv[i] EXCEPT !.phase = "ending", !.seq = NextNumber,
                                 !.todo = <<"failed">>, !.outcome = "failed"]
  <2>1. inv' = [inv EXCEPT ![i] = w]
    BY <1>6, <1>a DEF FailWorkflow
  <2>2. w.seq = NextNumber /\ w.from = inv[i].from
    BY <1>a DEF Invocation
  <2> HIDE DEF w
  <2>3. QED
    BY <1>c, <1>d, <1>h, <2>1, <2>2
<1>7. ASSUME NEW i \in Slots, Emit(i) PROVE Goal
  <2>1. PICK todo, phase : inv' = [inv EXCEPT ![i] = Announcing(inv[i], inv[i].seq + 1, todo, phase)]
    BY <1>7, <1>a DEF Emit, Announcing
  <2>2. Announcing(inv[i], inv[i].seq + 1, todo, phase).seq = inv[i].seq + 1
        /\ Announcing(inv[i], inv[i].seq + 1, todo, phase).from = inv[i].from
    BY <1>a DEF Announcing, Invocation
  <2>3. Room(inv[i].seq + 1)
    BY <1>7, <1>a, EmitGrows DEF Room, Numbered, Free
  <2>4. QED
    BY <1>c, <1>d, <2>1, <2>2, <2>3
<1>8. ASSUME NEW i \in Slots, CheckStop(i) \/ CheckPause(i) \/ UseAnswer(i) \/ OutcomeUnknown(i)
      PROVE  Goal
  <2>0. inv[i] \in Invocation
    BY <1>a
  <2>1. CASE CheckStop(i)
    <3> DEFINE W == {EndsWith(inv[i], "partial", "failed"),
                     EndsWith(inv[i], "cancelled", "cancelled"),
                     [inv[i] EXCEPT !.phase = "boundary"]}
    <3>1. \E w \in W : inv' = [inv EXCEPT ![i] = w]
      BY <1>a, <2>1 DEF CheckStop
    <3>2. \A w \in W : w.seq = inv[i].seq /\ w.from = inv[i].from
      BY <2>0 DEF EndsWith, Invocation
    <3> HIDE DEF W
    <3>3. QED
      BY <1>e, <3>1, <3>2
  <2>2. CASE CheckPause(i)
    <3> DEFINE W == {[inv[i] EXCEPT !.phase = "park", !.outcome = "paused"],
                     [inv[i] EXCEPT !.phase = "provider", !.step = inv[i].step + 1]}
    <3>1. \E w \in W : inv' = [inv EXCEPT ![i] = w]
      BY <1>a, <2>2 DEF CheckPause
    <3>2. \A w \in W : w.seq = inv[i].seq /\ w.from = inv[i].from
      BY <2>0 DEF Invocation
    <3> HIDE DEF W
    <3>3. QED
      BY <1>e, <3>1, <3>2
  <2>3. CASE UseAnswer(i)
    <3> DEFINE W == {[inv[i] EXCEPT !.phase = "lease", !.outcome = "completed"],
                     EndsWith(inv[i], "cancelled", "cancelled"),
                     EndsWith(inv[i], "ready_for_review", "completed"),
                     EndsWith(inv[i], "failed", "failed"),
                     [inv[i] EXCEPT !.phase = "top"],
                     [inv[i] EXCEPT !.phase = "park", !.outcome = "awaiting_input"]}
    <3>1. inv[i].answer \in Answers
      BY <2>3 DEF UseAnswer, IInv, InvsAble, Able
    <3>2. \E w \in W : inv' = [inv EXCEPT ![i] = w]
      <4>1. run.cancel \in BOOLEAN
        BY <1>a DEF Row
      <4>2. QED
        BY <1>a, <2>3, <3>1, <4>1 DEF UseAnswer, Answers
    <3>3. \A w \in W : w.seq = inv[i].seq /\ w.from = inv[i].from
      BY <2>0 DEF EndsWith, Invocation
    <3> HIDE DEF W
    <3>4. QED
      BY <1>e, <3>2, <3>3
  <2>4. CASE OutcomeUnknown(i)
    <3>1. inv' = [inv EXCEPT ![i] = [inv[i] EXCEPT !.phase = "thrown", !.retries = MaxRetries]]
      BY <1>a, <2>4 DEF OutcomeUnknown
    <3>2. [inv[i] EXCEPT !.phase = "thrown", !.retries = MaxRetries].seq = inv[i].seq
          /\ [inv[i] EXCEPT !.phase = "thrown", !.retries = MaxRetries].from = inv[i].from
      BY <2>0 DEF Invocation
    <3>3. QED
      BY <1>e, <3>1, <3>2
  <2>5. QED
    BY <1>8, <2>1, <2>2, <2>3, <2>4
<1>9. ASSUME NEW i \in Slots, HandOff(i) PROVE Goal
  <2> DEFINE v == HandedOn(inv[i], inv[i].seq, inv[i].step)
             gone == [inv[i] EXCEPT !.phase = "gone"]
  <2>1. v \in Invocation
    BY <1>a, HandedOnType DEF Invocation
  <2>2. v.seq = inv[i].seq /\ v.from.seq = inv[i].seq
    BY <1>a DEF HandedOn, Invocation
  <2>3. gone.seq = inv[i].seq /\ gone.from = inv[i].from
    BY <1>a DEF Invocation
  <2>4. inv' = [inv EXCEPT ![i] = Invoked(v)] \/ inv' = [inv EXCEPT ![i] = gone]
    BY <1>9, <1>a DEF HandOff, HandedOn
  <2> HIDE DEF v, gone
  <2>5. Room(Invoked(v).seq) /\ Room(Invoked(v).from.seq)
    BY <1>c, <2>1, <2>2, StartedNumbers
  <2>6. QED
    BY <1>d, <1>e, <2>3, <2>4, <2>5
<1>10. ASSUME NEW i \in Slots, NEW a \in Answers, Answered(i, a) PROVE Goal
  <2> DEFINE w == [inv[i] EXCEPT !.phase = "answered", !.answer = a, !.seq = inv[i].seq + 2]
  <2>1. inv' = [inv EXCEPT ![i] = w]
    BY <1>10, <1>a DEF Answered
  <2>2. w.seq = inv[i].seq + 2 /\ w.from = inv[i].from /\ inv[i].seq \in Nat
    BY <1>a DEF Invocation
  <2> HIDE DEF w
  <2>3. Room(inv[i].seq + 2)
    BY <1>10, <1>a, <2>2, AnsweredGrows DEF Room
  <2>4. QED
    BY <1>c, <1>d, <2>1, <2>2, <2>3
<1>11. ASSUME NEW i \in Slots, Park(i) PROVE Goal
  <2> DEFINE w == [inv[i] EXCEPT !.phase = "lease", !.seq = inv[i].seq + 1]
  <2>1. CASE Pending # {}
    BY <1>11, <1>f, <2>1 DEF Park
  <2>2. CASE Pending = {}
    <3>1. inv' = [inv EXCEPT ![i] = w]
      BY <1>11, <1>a, <2>2 DEF Park
    <3>2. w.seq = inv[i].seq + 1 /\ w.from = inv[i].from /\ inv[i].seq \in Nat
      BY <1>a DEF Invocation
    <3> HIDE DEF w
    <3>3. Room(inv[i].seq + 1)
      BY <1>11, <1>a, <2>2, <3>2, ParkGrows DEF Room
    <3>4. QED
      BY <1>c, <1>d, <3>1, <3>2, <3>3
  <2>3. QED
    BY <2>1, <2>2
<1>12. ASSUME NEW j \in Slots, ClaimAsk(j) \/ ClaimPause(j) PROVE Goal
  <2>1. PICK kind \in {"ask", "pause"}, c \in Pending :
          inv' = [inv EXCEPT ![j].phase = "claimed", ![j].cp = c,
                             ![j].how = IF kind = "pause" THEN "unpaused" ELSE "answered",
                             ![j].from = [seq |-> cps[c].seq, step |-> cps[c].step]]
    <3>1. CASE ClaimAsk(j)
      BY <3>1 DEF ClaimAsk, Claim, Claimable
    <3>2. CASE ClaimPause(j)
      BY <3>2 DEF ClaimPause, Claim, Claimable
    <3>3. QED
      BY <1>12, <3>1, <3>2
  <2> DEFINE w == [inv[j] EXCEPT !.phase = "claimed", !.cp = c,
                                 !.how = IF kind = "pause" THEN "unpaused" ELSE "answered",
                                 !.from = [seq |-> cps[c].seq, step |-> cps[c].step]]
  <2>2. inv' = [inv EXCEPT ![j] = w]
    BY <1>a, <2>1
  <2>3. w.seq = inv[j].seq /\ w.from.seq = cps[c].seq
    BY <1>a DEF Invocation
  <2> HIDE DEF w
  <2>4. Room(cps[c].seq)
    BY <1>b DEF Numbered, Pending
  <2>5. QED
    BY <1>c, <1>d, <2>2, <2>3, <2>4
<1>13. ASSUME NEW e \in Enders, Ends(e) PROVE Goal
  <2>1. CASE UNCHANGED inv
    BY <2>1, <1>g
  <2>2. CASE /\ ender[e].world # 0
             /\ inv' = [inv EXCEPT ![ender[e].world].held = FALSE,
                                   ![ender[e].world].phase =
                                     IF @ \in {"waiting", "lost"} THEN "gone" ELSE @]
    <3> DEFINE i == ender[e].world
    <3>1. i \in Slots
      BY <2>2, RunAssumption DEF IInv, Others, Ending, Slots
    <3>2. PICK phase : inv' = [inv EXCEPT ![i] = [inv[i] EXCEPT !.held = FALSE, !.phase = phase]]
      BY <1>a, <2>2, <3>1
    <3>3. [inv[i] EXCEPT !.held = FALSE, !.phase = phase].seq = inv[i].seq
          /\ [inv[i] EXCEPT !.held = FALSE, !.phase = phase].from = inv[i].from
      BY <1>a, <3>1 DEF Invocation
    <3> HIDE DEF i
    <3>4. QED
      BY <1>e, <3>1, <3>2, <3>3
  <2>3. QED
    BY <1>13, <2>1, <2>2 DEF Ends, CancelWorld, Explain
<1>14. ASSUME NEW i \in Slots, GoesSilent(i) PROVE Goal
  <2>1. inv' = [inv EXCEPT ![i] = [inv[i] EXCEPT !.watched = FALSE]]
    BY <1>14, <1>a DEF GoesSilent
  <2>2. [inv[i] EXCEPT !.watched = FALSE].seq = inv[i].seq
        /\ [inv[i] EXCEPT !.watched = FALSE].from = inv[i].from
    BY <1>a DEF Invocation
  <2>3. QED
    BY <1>e, <2>1, <2>2
<1>15. ASSUME \/ RequestPause \/ WithdrawPause \/ RequestStop \/ ArchiveRead \/ RestoreRead
              \/ EndParked \/ ShelfWrite \/ GoesIdle \/ Reap
       PROVE  Goal
  <2>1. UNCHANGED inv
    BY <1>15 DEF RequestPause, WithdrawPause, RequestStop, ArchiveRead, RestoreRead, EndParked,
                 ShelfWrite, GoesIdle, Reap
  <2>2. QED
    BY <2>1, <1>g
<1>16. ASSUME UNCHANGED vars PROVE Goal
  BY <1>16, <1>g DEF vars
<1>17. ASSUME NEW i \in Slots, Executes(i) PROVE Goal
  BY <1>2, <1>3, <1>4, <1>5, <1>6, <1>7, <1>8, <1>9, <1>10, <1>11, <1>17 DEF Executes
<1>18. Goal
  BY <1>1, <1>2, <1>3, <1>12, <1>13, <1>14, <1>15, <1>16, <1>17 DEF Next, User
<1>19. QED
  BY <1>18 DEF Goal

LEMMA CpsNumbers ==
  ASSUME IInv, Numbered, Grown, [Next]_vars
  PROVE  \A c \in DOMAIN cps' : Room(cps'[c].seq)
<1> DEFINE Goal == \A c \in DOMAIN cps' : Room(cps'[c].seq)
<1>a. /\ run'.last \in Nat /\ run.last \in Nat /\ run'.last >= run.last
      /\ cps \in Seq(Checkpoint) /\ \A c \in DOMAIN cps : cps[c] \in Checkpoint
      /\ \A c \in DOMAIN cps : Room(cps[c].seq)
  <2>1. run'.last \in Nat /\ run.last \in Nat /\ run'.last >= run.last /\ cps \in Seq(Checkpoint)
    BY DEF IInv, RowInv, Row, Grown
  <2>2. \A c \in DOMAIN cps : Room(cps[c].seq)
    BY <2>1 DEF Numbered, Free, Room
  <2>3. QED
    BY <2>1, <2>2
<1>b. UNCHANGED cps => Goal
  BY <1>a
<1>c. ASSUME NEW c, NEW r, cps' = [cps EXCEPT ![c] = r],
             c \in DOMAIN cps => r.seq = cps[c].seq
      PROVE  Goal
  <2>1. DOMAIN cps' = DOMAIN cps /\ \A d \in DOMAIN cps : cps'[d].seq = cps[d].seq
    BY <1>c
  <2>2. QED
    BY <1>a, <2>1
<1>d. ASSUME NEW c, NEW s, cps' = [cps EXCEPT ![c].state = s] PROVE Goal
  <2>1. c \in DOMAIN cps => [cps[c] EXCEPT !.state = s].seq = cps[c].seq
    BY <1>a DEF Checkpoint
  <2>2. cps' = [cps EXCEPT ![c] = [cps[c] EXCEPT !.state = s]]
    BY <1>d
  <2>3. QED
    BY <1>c, <2>1, <2>2
<1>e. ASSUME NEW c, NEW s, NEW l, cps' = [cps EXCEPT ![c].state = s, ![c].lease = l] PROVE Goal
  <2>1. c \in DOMAIN cps => [cps[c] EXCEPT !.state = s, !.lease = l].seq = cps[c].seq
    BY <1>a DEF Checkpoint
  <2>2. cps' = [cps EXCEPT ![c] = [cps[c] EXCEPT !.state = s, !.lease = l]]
    BY <1>a, <1>e
  <2>3. QED
    BY <1>c, <2>1, <2>2
<1> HIDE DEF Goal
<1>1. ASSUME NEW i \in Slots, Park(i) PROVE Goal
  <2> DEFINE v == inv[i]
             m == [c \in DOMAIN cps |-> IF cps[c].state = "resuming"
                                          THEN [cps[c] EXCEPT !.state = "resolved"] ELSE cps[c]]
             next == [kind |-> IF v.outcome = "paused" THEN "pause" ELSE "ask",
                      state |-> "pending", lease |-> 0, seq |-> NumberAfter(v), step |-> v.step]
  <2>1. CASE Pending # {}
    BY <1>1, <1>b, <2>1 DEF Park
  <2>2. CASE Pending = {}
    <3>1. cps' = Append(m, next)
      BY <1>1, <2>2 DEF Park
    <3>2. \A c \in DOMAIN cps : m[c] \in Checkpoint /\ m[c].seq = cps[c].seq
      BY <1>a DEF Checkpoint
    <3>3. m \in Seq(Checkpoint) /\ DOMAIN m = DOMAIN cps
      BY <1>a, <3>2
    <3>4. next.seq = inv[i].seq + 1 /\ Room(inv[i].seq + 1)
      <4>1. inv[i].seq \in Nat /\ Free(inv[i].seq) /\ run'.last >= inv[i].seq
        BY <1>1, <2>2, ParkGrows DEF IInv, InvsAble, Invocation, Numbered
      <4>2. QED
        BY <1>a, <4>1 DEF NumberAfter, Room
    <3> HIDE DEF m, next
    <3>5. ASSUME NEW c \in DOMAIN cps'
          PROVE  (c \in DOMAIN m /\ cps'[c] = m[c]) \/ cps'[c] = next
      <4>1. DOMAIN cps' = 1..(Len(m) + 1) /\ DOMAIN m = 1..Len(m) /\ Len(m) \in Nat
        BY <3>1, <3>3
      <4>2. cps'[c] = IF c <= Len(m) THEN m[c] ELSE next
        BY <3>1, <3>3, <4>1
      <4>3. QED
        BY <4>1, <4>2
    <3>6. QED
      BY <1>a, <3>2, <3>3, <3>4, <3>5 DEF Goal
  <2>3. QED
    BY <2>1, <2>2
<1>2. ASSUME NEW i \in Slots, CompleteLease(i) PROVE Goal
  BY <1>2, <1>b, <1>d DEF CompleteLease
<1>3. ASSUME NEW j \in Slots, ClaimAsk(j) \/ ClaimPause(j) PROVE Goal
  <2>1. ASSUME NEW kind, NEW state, Claim(j, kind, state) PROVE Goal
    <3>1. PICK c : cps' = [cps EXCEPT ![c].state = "resuming", ![c].lease = j]
      BY <2>1 DEF Claim
    <3>2. QED
      BY <1>e, <3>1, Zenon
  <2>2. QED
    BY <1>3, <2>1 DEF ClaimAsk, ClaimPause
<1>4. ASSUME NEW j \in Slots, Release(j) PROVE Goal
  BY <1>4, <1>b, <1>e DEF Release
<1>5. ASSUME EndParked PROVE Goal
  BY <1>5, <1>b, <1>e DEF EndParked
<1>6. ASSUME NEW i \in Slots,
             \/ Begin(i) \/ Crash(i) \/ Redeliver(i) \/ GoesSilent(i) \/ DeviceReady(i)
             \/ DeviceAsleep(i) \/ (\E back \in BOOLEAN : DeviceNoticed(i, back)) \/ Emit(i)
             \/ CheckStop(i) \/ CheckPause(i) \/ HandOff(i) \/ (\E a \in Answers : Answered(i, a))
             \/ OutcomeUnknown(i) \/ UseAnswer(i) \/ Settle(i) \/ Rethrow(i) \/ FailWorkflow(i)
      PROVE  Goal
  <2>1. UNCHANGED cps
    BY <1>6
       DEF Begin, Crash, Redeliver, GoesSilent, DeviceReady, DeviceAsleep, DeviceNoticed, Emit,
           CheckStop, CheckPause, HandOff, Answered, OutcomeUnknown, UseAnswer, Settle, Rethrow,
           FailWorkflow
  <2>2. QED
    BY <2>1, <1>b
<1>7. ASSUME \/ RequestPause \/ WithdrawPause \/ RequestStop \/ ArchiveRead \/ RestoreRead
             \/ ShelfWrite \/ GoesIdle \/ Reap \/ UNCHANGED vars
             \/ \E e \in Enders : Ends(e)
      PROVE  Goal
  <2>1. UNCHANGED cps
    BY <1>7
       DEF vars, RequestPause, WithdrawPause, RequestStop, ArchiveRead, RestoreRead, ShelfWrite,
           GoesIdle, Reap, Ends, CancelWorld, Explain
  <2>2. QED
    BY <2>1, <1>b
<1>8. ASSUME NEW i \in Slots, Executes(i) PROVE Goal
  BY <1>1, <1>2, <1>6, <1>8 DEF Executes
<1>9. Goal
  BY <1>3, <1>4, <1>5, <1>6, <1>7, <1>8 DEF Next, User
<1>10. QED
  BY <1>9 DEF Goal

LEMMA EnderNumbers ==
  ASSUME IInv, Numbered, Grown, [Next]_vars
  PROVE  \A e \in Enders : ender'[e].last \in 0..run'.last
<1> DEFINE Goal == \A e \in Enders : ender'[e].last \in 0..run'.last
<1>a. /\ run'.last \in Nat /\ run.last \in Nat /\ run'.last >= run.last
      /\ ender \in [Enders -> Ending]
      /\ \A e \in Enders : ender[e].last \in 0..run'.last
  <2>1. run'.last \in Nat /\ run.last \in Nat /\ run'.last >= run.last /\ ender \in [Enders -> Ending]
    BY DEF IInv, RowInv, Others, Row, Grown
  <2>2. \A e \in Enders : ender[e].last \in 0..run'.last
    BY <2>1 DEF Numbered
  <2>3. QED
    BY <2>1, <2>2
<1>b. UNCHANGED ender => Goal
  BY <1>a
<1>c. ASSUME NEW d \in Enders, NEW r, ender' = [ender EXCEPT ![d] = r], r.last \in 0..run'.last
      PROVE  Goal
  BY <1>a, <1>c
<1>d. run.last \in 0..run'.last /\ 0 \in 0..run'.last
  BY <1>a
<1> HIDE DEF Goal
<1>1. ASSUME Reap PROVE Goal
  BY <1>1, <1>c, <1>d DEF Reap, Enders
<1>2. ASSUME NEW i \in Slots, GoesSilent(i) PROVE Goal
  BY <1>2, <1>c, <1>d DEF GoesSilent, Enders
<1>3. ASSUME NEW d \in Enders, NEW refused \in BOOLEAN, CancelWorld(d, refused) PROVE Goal
  <2> DEFINE r == [ender[d] EXCEPT !.step = "explain",
                                   !.last = IF d = "stream" THEN run.last ELSE @]
  <2>1. ender' = [ender EXCEPT ![d] = r]
    BY <1>3, <1>a DEF CancelWorld
  <2>2. r.last = run.last \/ r.last = ender[d].last
    BY <1>a DEF Ending
  <2> HIDE DEF r
  <2>3. QED
    BY <1>a, <1>c, <1>d, <2>1, <2>2
<1>4. ASSUME NEW d \in Enders, NEW fails \in BOOLEAN, Explain(d, fails) PROVE Goal
  <2>1. Idle.last = 0
    BY DEF Idle
  <2>2. QED
    BY <1>4, <1>c, <1>d, <2>1 DEF Explain
<1>5. ASSUME \/ GoesIdle \/ EndParked \/ ShelfWrite \/ User \/ UNCHANGED vars PROVE Goal
  <2>1. UNCHANGED ender
    BY <1>5
       DEF vars, User, RequestPause, WithdrawPause, RequestStop, ArchiveRead, RestoreRead,
           ShelfWrite, GoesIdle, EndParked, ClaimAsk, ClaimPause, Claim
  <2>2. QED
    BY <2>1, <1>b
<1>6. ASSUME NEW i \in Slots, Begin(i) \/ Release(i) \/ Executes(i) \/ Redeliver(i) \/ Crash(i)
      PROVE  Goal
  <2>1. UNCHANGED ender
    BY <1>6
       DEF Executes, Begin, Release, Crash, Redeliver, DeviceReady, DeviceAsleep, DeviceNoticed,
           Emit, CheckStop, CheckPause, HandOff, Answered, OutcomeUnknown, UseAnswer, Settle,
           Rethrow, FailWorkflow, Park, CompleteLease
  <2>2. QED
    BY <2>1, <1>b
<1>7. ASSUME NEW e \in Enders, Ends(e) PROVE Goal
  BY <1>3, <1>4, <1>7 DEF Ends
<1>8. Goal
  BY <1>1, <1>2, <1>5, <1>6, <1>7 DEF Next
<1>9. QED
  BY <1>8 DEF Goal

LEMMA NumberedKept == IInv /\ Numbered /\ [Next]_vars => Numbered'
<1> SUFFICES ASSUME IInv, Numbered, [Next]_vars PROVE Numbered'
  OBVIOUS
<1>1. Grown
  BY JournalGrows
<1>2. /\ \A i \in Slots : Room(inv'[i].seq) /\ Room(inv'[i].from.seq)
      /\ \A c \in DOMAIN cps' : Room(cps'[c].seq)
      /\ \A e \in Enders : ender'[e].last \in 0..run'.last
  BY <1>1, InvNumbers, CpsNumbers, EnderNumbers
<1>3. QED
  BY <1>1, <1>2 DEF Numbered, Grown, Free, Room

LEMMA NumberedInv == Spec => []Numbered
<1>1. Init => Numbered
  BY DEF Init, Numbered, JournalHasNoGaps, Free, Unused, Idle
<1>2. QED
  BY <1>1, NumberedKept, InductiveInv, PTL DEF Spec

(* A client that has read up to the last number has read every event: no      *)
(* executor, started once, again or twice, no checkpoint, notice of a device  *)
(* or explanation of an ending writes a number with one missing below it.     *)
THEOREM JournalCorrect == Spec => []JournalHasNoGaps
<1>1. Numbered => JournalHasNoGaps
  BY DEF Numbered
<1>2. QED
  BY <1>1, NumberedInv, PTL

-------------------------------------------------------------------------------
(* Runs that no fault disturbs.                                              *)

(* No process dies, no cancellation is refused, no explanation is lost, and   *)
(* no device is waited for.  With either of them an event can lose its number *)
(* to another, and a stop that finds its number taken ends nothing.           *)
Undisturbed == MaxFaults = 0 /\ ~HasDevice

Writing == {"claimed", "open", "top", "boundary", "provider", "answered", "park", "ending"}
Closings == {"completed", "failed", "cancelled"}
Openers == {<<"queued", "running">>, <<"running">>}

(* The invocation the run is waiting for. *)
Drives(v) == v.phase \in Writing \/ (v.phase \in {"lease", "settle"} /\ v.outcome \in Closings)

(* An invocation that nothing has thrown back, lost or given up. *)
Steady(v) ==
  /\ v.phase \in Writing \cup {"none", "lease", "settle", "done", "void"}
  /\ v.held /\ ~v.failing /\ ~v.device
  /\ v.phase = "open" => v.todo \in Openers
  /\ v.phase = "boundary" => v.step < MaxSteps
  /\ v.phase = "provider" => v.step \in 1..MaxSteps
  /\ v.phase = "ending" => v.outcome \in Closings /\ \E s \in Terminal : v.todo = <<s>>

NoneLeased == \A c \in DOMAIN cps : cps[c].state # "resuming"
NoneDrives == \A i \in Slots : ~Drives(inv[i])

(* One invocation drives the run, and nobody else writes to its journal; a    *)
(* checkpoint it has come from is given back as it was.                       *)
Driven(i) ==
  /\ Drives(inv[i])
  /\ \A j \in Slots : Drives(inv[j]) => j = i
  /\ Pending = {}
  /\ run.state \notin HumanHeld
  /\ run.state \in ExecutorHeld => ~run.idle
  /\ inv[i].phase \in Writing => run.state \in ExecutorHeld
  /\ inv[i].phase \in Writing \ {"claimed"} => inv[i].seq = run.last + 1
  /\ inv[i].phase = "claimed" =>
       /\ inv[i].from.seq = run.last + 1
       /\ inv[i].cp # 0 =>
            /\ cps[inv[i].cp].state = "resuming"
            /\ cps[inv[i].cp].seq = run.last + 1
            /\ cps[inv[i].cp].kind = "pause" => run.state = "resuming"
  /\ \A c \in DOMAIN cps :
       cps[c].state = "resuming" => c = inv[i].cp /\ inv[i].phase # "settle"

(* Or it waits for a person, who finds one checkpoint, and of the kind that is *)
(* claimed in that state; or it is over.                                       *)
Parked(c) ==
  /\ NoneDrives /\ NoneLeased
  /\ Pending = {c}
  /\ run.state \in HumanHeld
  /\ cps[c].kind \in {"ask", "pause"}
  /\ cps[c].kind = "pause" => run.state = "paused"
  /\ cps[c].seq = run.last + 1
Over == NoneDrives /\ NoneLeased /\ Pending = {} /\ Ended(run.state)

Mode == (\E i \in Slots : Driven(i)) \/ (\E c \in DOMAIN cps : Parked(c)) \/ Over

(* The lease of an invocation is its own. *)
LeaseHeld == \A i \in Slots : inv[i].cp # 0 /\ inv[i].phase # "void" => cps[inv[i].cp].lease = i

Calm ==
  /\ Undisturbed
  /\ \A e \in Enders : ender[e].step = "idle"
  /\ \A k \in 1..MaxSteps : receipt[k] # "unknown"
  /\ shelf.op \in {"archive", "restore"} => Ended(shelf.to) /\ Ended(run.state)

QuietInv == Calm /\ (\A i \in Slots : Steady(inv[i])) /\ LeaseHeld /\ Mode


(* The next number is free: the event that takes it is the run's new state.  *)
LEMMA NextLands ==
  ASSUME run \in Row, journal \subseteq Event, JournalHasNoGaps, ~Ended(run.state),
         NEW n, n = run.last + 1, NEW s \in States
  PROVE  /\ Journaled({[seq |-> n, state |-> s]}).last = n
         /\ Journaled({[seq |-> n, state |-> s]}).idle = FALSE
         /\ Journaled({[seq |-> n, state |-> s]}).state = s
<1> DEFINE a == [seq |-> n, state |-> s]
           es == {a}
<1>1. run.last \in Nat /\ n \in Nat /\ s # NoEvent
  BY DEF Row, States, ExecutorHeld, HumanHeld, Terminal, NoEvent
<1>2. a.seq = n /\ a.state = s
  OBVIOUS
<1> HIDE DEF a
<1>3. \A g \in journal : g.seq # n
  BY <1>1 DEF JournalHasNoGaps
<1>4. Landed(es) = es /\ Moving(es) = es
  <2>1. Landed(es) = es
    BY <1>2, <1>3, Zenon DEF Landed
  <2>2. QED
    BY <1>1, <1>2, <2>1, Zenon DEF Moving
<1>5. Last(es) = a
  BY <1>1, <1>2 DEF Last
<1>6. Journaled(es) = [[run EXCEPT !.last = n, !.idle = FALSE] EXCEPT
                         !.state = s, !.completed = Ended(run.state) \/ Ended(s)]
  <2>1. (IF run.last > n THEN run.last ELSE n) = n /\ ~(n < run.last)
    BY <1>1
  <2>2. es # {}
    OBVIOUS
  <2> HIDE DEF es
  <2>3. Journaled(es) = [[run EXCEPT !.last = IF @ > n THEN @ ELSE n, !.idle = FALSE] EXCEPT
                           !.state = IF Ended(@) /\ ~Ended(s) THEN @ ELSE s,
                           !.completed = Ended(run.state) \/ Ended(s)]
    BY <1>2, <1>4, <1>5, <2>1, <2>2 DEF Journaled
  <2>4. [run EXCEPT !.last = IF @ > n THEN @ ELSE n, !.idle = FALSE]
          = [run EXCEPT !.last = n, !.idle = FALSE]
    BY <1>1, <2>1 DEF Row
  <2>5. [run EXCEPT !.last = n, !.idle = FALSE].state = run.state
    BY DEF Row
  <2>6. QED
    BY <2>3, <2>4, <2>5 DEF Row
<1>7. QED
  BY <1>1, <1>6 DEF a, Row

(* The two progress events of a model call move the numbers and nothing else. *)
LEMMA ProgressLands ==
  ASSUME run \in Row, journal \subseteq Event, JournalHasNoGaps, NEW n, n = run.last + 1
  PROVE  LET es == {[seq |-> n + d, state |-> NoEvent] : d \in {0, 1}}
         IN  /\ Journaled(es).last = n + 1
             /\ Journaled(es).idle = FALSE
             /\ Journaled(es).state = run.state
<1> DEFINE a == [seq |-> n + 0, state |-> NoEvent]
           b == [seq |-> n + 1, state |-> NoEvent]
           es == {[seq |-> n + d, state |-> NoEvent] : d \in {0, 1}}
<1>1. run.last \in Nat /\ n \in Nat
  BY DEF Row
<1>2. es = {a, b}
  OBVIOUS
<1>3. /\ a.seq = n /\ a.state = NoEvent /\ b.seq = n + 1 /\ b.state = NoEvent
      /\ a \in Event /\ b \in Event
  BY <1>1, EventType
<1> HIDE DEF a, b, es
<1>4. \A g \in journal : g.seq # n /\ g.seq # n + 1
  <2>1. \A g \in journal : g.seq \in 1..run.last
    BY DEF JournalHasNoGaps
  <2>2. QED
    BY <1>1, <2>1
<1>5. Landed(es) = es /\ es # {}
  BY <1>2, <1>3, <1>4, Zenon DEF Landed
<1>6. Moving(es) = {}
  BY <1>2, <1>3, <1>5 DEF Moving
<1>7. Last(es).seq = n + 1
  BY <1>2, <1>3, LastFollows DEF Follows
<1>8. Journaled(es) = [[run EXCEPT !.last = n + 1, !.idle = FALSE] EXCEPT
                         !.completed = @ \/ Ended(run.state)]
  <2>1. (IF run.last > n + 1 THEN run.last ELSE n + 1) = n + 1
    BY <1>1
  <2>2. [run EXCEPT !.last = IF @ > n + 1 THEN @ ELSE n + 1, !.idle = FALSE]
          = [run EXCEPT !.last = n + 1, !.idle = FALSE]
    BY <1>1, <2>1 DEF Row
  <2>3. Journaled(es) = [[run EXCEPT !.last = IF @ > n + 1 THEN @ ELSE n + 1, !.idle = FALSE]
                           EXCEPT !.completed = @ \/ Ended(run.state)]
    BY <1>5, <1>6, <1>7 DEF Journaled
  <2>4. QED
    BY <2>2, <2>3
<1>9. QED
  BY <1>1, <1>8 DEF es, Row

-------------------------------------------------------------------------------
(* What keeps a run on its way.                                              *)

LEMMA OneSteady ==
  ASSUME inv \in [Slots -> Invocation], \A j \in Slots : Steady(inv[j]), NEW i \in Slots,
         NEW w, Steady(w), inv' = [inv EXCEPT ![i] = w]
  PROVE  \A j \in Slots : Steady(inv'[j])
<1>1. \A j \in Slots : inv'[j] = IF j = i THEN w ELSE inv[j]
  OBVIOUS
<1>2. QED
  BY <1>1, Zenon

(* The invocation that drives the run goes on writing. *)
LEMMA StillWriting ==
  ASSUME inv \in [Slots -> Invocation], NEW i \in Slots, Driven(i),
         NEW w, inv' = [inv EXCEPT ![i] = w], w.cp = inv[i].cp,
         w.phase \in Writing \ {"claimed"}, w.seq = run'.last + 1,
         run'.state \in ExecutorHeld, ~run'.idle, cps' = cps
  PROVE  Mode'
<1>1. \A j \in Slots : inv'[j] = IF j = i THEN w ELSE inv[j]
  OBVIOUS
<1>2. inv'[i] = w /\ w.phase # "settle" /\ w.phase # "claimed"
  BY <1>1 DEF Writing
<1>3. Drives(w) /\ \A j \in Slots : j # i => Drives(inv[j])' = Drives(inv[j])
  BY <1>1 DEF Drives
<1>4. run'.state \notin HumanHeld
  BY DEF HumanHeld, ExecutorHeld
<1>5. Pending' = {} /\ \A c \in DOMAIN cps' : cps'[c].state = "resuming" => c = inv[i].cp
  BY DEF Driven, Pending
<1>6. Drives(inv[i])' /\ \A j \in Slots : Drives(inv[j])' => j = i
  BY <1>2, <1>3 DEF Driven, Drives
<1>7. Driven(i)'
  BY <1>2, <1>4, <1>5, <1>6 DEF Driven
<1>8. QED
  BY <1>7 DEF Mode

(* It has announced how it ends, and only closes. *)
LEMMA StartsClosing ==
  ASSUME inv \in [Slots -> Invocation], NEW i \in Slots, Driven(i),
         NEW w, inv' = [inv EXCEPT ![i] = w], w.cp = inv[i].cp,
         w.phase = "lease", w.outcome \in Closings,
         run'.state \notin HumanHeld, run'.state \in ExecutorHeld => ~run'.idle, cps' = cps
  PROVE  Mode'
<1>1. \A j \in Slots : inv'[j] = IF j = i THEN w ELSE inv[j]
  OBVIOUS
<1>2. inv'[i] = w /\ w.phase \notin Writing
  BY <1>1 DEF Writing
<1>3. Drives(w) /\ \A j \in Slots : j # i => Drives(inv[j])' = Drives(inv[j])
  BY <1>1 DEF Drives
<1>5. Pending' = {} /\ \A c \in DOMAIN cps' : cps'[c].state = "resuming" => c = inv[i].cp
  BY DEF Driven, Pending
<1>6. Drives(inv[i])' /\ \A j \in Slots : Drives(inv[j])' => j = i
  BY <1>2, <1>3 DEF Driven, Drives
<1>7. Driven(i)'
  BY <1>2, <1>5, <1>6 DEF Driven, Writing
<1>8. QED
  BY <1>7 DEF Mode

(* A write of the row that leaves its state and its numbers. *)
LEMMA RowTouched ==
  ASSUME Mode, inv' = inv, cps' = cps, run'.last = run.last, run'.state = run.state,
         run'.idle => run.idle \/ run.state \notin ExecutorHeld
  PROVE  Mode'
<1>1. \A j \in Slots : Drives(inv[j])' = Drives(inv[j])
  BY DEF Drives
<1>2. Pending' = Pending /\ NoneLeased' = NoneLeased /\ NoneDrives' = NoneDrives
  BY <1>1 DEF Pending, NoneLeased, NoneDrives
<1>3. ASSUME NEW i \in Slots, Driven(i) PROVE Mode'
  <2>1. Driven(i)'
    BY <1>1, <1>2, <1>3 DEF Driven
  <2>2. QED
    BY <2>1 DEF Mode
<1>4. ASSUME NEW c \in DOMAIN cps, Parked(c) PROVE Mode'
  <2>1. Parked(c)'
    BY <1>2, <1>4 DEF Parked
  <2>2. QED
    BY <2>1 DEF Mode
<1>5. CASE Over
  <2>1. Over'
    BY <1>2, <1>5 DEF Over, Ended
  <2>2. QED
    BY <2>1 DEF Mode
<1>6. QED
  BY <1>3, <1>4, <1>5 DEF Mode

(* An invocation that has handed the run on moves by itself. *)
LEMMA BystanderMoves ==
  ASSUME Mode, inv \in [Slots -> Invocation], NEW i \in Slots, ~Drives(inv[i]),
         NEW w, inv' = [inv EXCEPT ![i] = w], ~Drives(w), cps' = cps, run' = run
  PROVE  Mode'
<1>1. \A j \in Slots : inv'[j] = IF j = i THEN w ELSE inv[j]
  OBVIOUS
<1>2. \A j \in Slots : Drives(inv[j])' = Drives(inv[j])
  BY <1>1 DEF Drives
<1>3. Pending' = Pending /\ NoneLeased' = NoneLeased /\ NoneDrives' = NoneDrives
  BY <1>2 DEF Pending, NoneLeased, NoneDrives
<1>4. ASSUME NEW k \in Slots, Driven(k) PROVE Mode'
  <2>1. k # i /\ inv'[k] = inv[k]
    BY <1>1, <1>4 DEF Driven
  <2>2. Driven(k)'
    BY <1>2, <1>3, <1>4, <2>1 DEF Driven
  <2>3. QED
    BY <2>2 DEF Mode
<1>5. ASSUME NEW c \in DOMAIN cps, Parked(c) PROVE Mode'
  <2>1. Parked(c)'
    BY <1>3, <1>5 DEF Parked
  <2>2. QED
    BY <2>1 DEF Mode
<1>6. CASE Over
  <2>1. Over'
    BY <1>3, <1>6 DEF Over, Ended
  <2>2. QED
    BY <2>1 DEF Mode
<1>7. QED
  BY <1>4, <1>5, <1>6 DEF Mode

(* Whoever still writes to the journal drives the run. *)
LEMMA WriterDrives ==
  ASSUME Mode, NEW i \in Slots, Drives(inv[i])
  PROVE  Driven(i)
BY DEF Mode, Driven, Parked, Over, NoneDrives

LEMMA TransitionEnds ==
  ASSUME run \in Row, NEW s, Ended(s), Transition(s)
  PROVE  Ended(run'.state) /\ run'.last = run.last
<1>1. Ended(TransitionedState(s))
  BY DEF TransitionedState, Finer, Ended
<1>2. QED
  BY <1>1 DEF Transition, Row

-------------------------------------------------------------------------------
(* The executor, step by step.                                               *)

Goes == (\A j \in Slots : Steady(inv'[j])) /\ Mode'

LEMMA QuietFacts ==
  ASSUME IInv, Numbered, QuietInv
  PROVE  /\ run \in Row /\ run.last \in Nat /\ journal \subseteq Event /\ JournalHasNoGaps
         /\ inv \in [Slots -> Invocation]
         /\ \A i \in Slots : inv[i] \in Invocation /\ Able(inv[i]) /\ Steady(inv[i])
         /\ \A j \in Slots : Steady(inv[j])
         /\ cps \in Seq(Checkpoint) /\ \A c \in DOMAIN cps : cps[c] \in Checkpoint
         /\ Mode /\ LeaseHeld /\ LeaseTaken /\ DecisionUsedOnce
BY DEF IInv, RowInv, InvsAble, Others, Numbered, QuietInv, Row

LEMMA DriverFacts ==
  ASSUME IInv, Numbered, QuietInv, NEW i \in Slots, inv[i].phase \in Writing
  PROVE  /\ Driven(i)
         /\ run.state \in ExecutorHeld /\ ~run.idle /\ ~Ended(run.state)
         /\ inv[i].phase # "claimed" => inv[i].seq = run.last + 1
         /\ inv[i].phase = "claimed" => inv[i].from.seq = run.last + 1
<1>1. Driven(i)
  BY QuietFacts, WriterDrives DEF Drives
<1>2. run.state \in ExecutorHeld
  BY <1>1 DEF Driven
<1>3. ~Ended(run.state)
  BY <1>2 DEF Ended, Terminal, ExecutorHeld
<1>4. QED
  BY <1>1, <1>2, <1>3 DEF Driven

LEMMA StartedSteady ==
  ASSUME NEW v \in Invocation, v.held, ~v.failing, ~v.device
  PROVE  /\ Steady(Started(v))
         /\ Started(v).phase \in Writing \ {"claimed"}
         /\ Started(v).seq = v.from.seq /\ Started(v).cp = v.cp
         /\ Invoked(v) = Started(v)
<1>1. v.how # "continued" => Opening(v.how) \in Openers
  BY DEF Invocation, Openings, Opening, Openers
<1>2. /\ Started(v).held /\ ~Started(v).failing /\ ~Started(v).device
      /\ Started(v).phase = IF v.how = "continued" THEN "top" ELSE "open"
      /\ Started(v).todo = Opening(v.how)
      /\ Started(v).seq = v.from.seq /\ Started(v).cp = v.cp
  BY DEF Started, Invocation
<1>3. Invoked(v) = Started(v)
  BY DEF Invoked
<1>4. QED
  BY <1>1, <1>2, <1>3 DEF Steady, Writing

LEMMA BeginGoes ==
  ASSUME IInv, Numbered, QuietInv, NEW i \in Slots, Begin(i)
  PROVE  Goes
<1> DEFINE w == Started(inv[i])
<1>1. inv[i].phase = "claimed" /\ inv[i].phase \in Writing
  BY DEF Begin, Writing
<1>2. Driven(i) /\ run.state \in ExecutorHeld /\ inv[i].from.seq = run.last + 1
  BY <1>1, DriverFacts
<1>3. /\ Steady(w) /\ w.phase \in Writing \ {"claimed"} /\ w.seq = inv[i].from.seq
      /\ w.cp = inv[i].cp /\ Invoked(inv[i]) = w
  BY QuietFacts, StartedSteady DEF Steady
<1>4. inv' = [inv EXCEPT ![i] = w] /\ run' = [run EXCEPT !.idle = FALSE] /\ cps' = cps
  BY <1>3 DEF Begin
<1> HIDE DEF w
<1>5. run'.state = run.state /\ run'.last = run.last /\ ~run'.idle
  BY <1>4, QuietFacts DEF Row
<1>6. QED
  BY <1>2, <1>3, <1>4, <1>5, QuietFacts, OneSteady, StillWriting DEF Goes

(* A move of the executor that leaves the row alone. *)
LEMMA MoveGoes ==
  ASSUME IInv, Numbered, QuietInv, NEW i \in Slots,
         inv[i].phase \in Writing \ {"claimed"}, NEW w, inv' = [inv EXCEPT ![i] = w],
         Steady(w), w.cp = inv[i].cp, w.phase \in Writing \ {"claimed"}, w.seq = inv[i].seq,
         run' = run, cps' = cps
  PROVE  Goes
BY QuietFacts, DriverFacts, OneSteady, StillWriting DEF Goes

LEMMA EndsWithSteady ==
  ASSUME NEW v \in Invocation, v.held, ~v.failing, ~v.device,
         NEW s \in Terminal, NEW outcome \in Closings
  PROVE  /\ Steady(EndsWith(v, s, outcome))
         /\ EndsWith(v, s, outcome).phase \in Writing \ {"claimed"}
         /\ EndsWith(v, s, outcome).seq = v.seq /\ EndsWith(v, s, outcome).cp = v.cp
<1> DEFINE w == EndsWith(v, s, outcome)
<1>1. /\ w.phase = "ending" /\ w.todo = <<s>> /\ w.outcome = outcome
      /\ w.held /\ ~w.failing /\ ~w.device /\ w.seq = v.seq /\ w.cp = v.cp
  BY DEF EndsWith, Invocation
<1> HIDE DEF w
<1>2. QED
  <2>1. Steady(w)
    BY <1>1 DEF Steady, Writing
  <2>2. QED
    BY <1>1, <2>1 DEF Writing, w

LEMMA CheckStopGoes ==
  ASSUME IInv, Numbered, QuietInv, NEW i \in Slots, CheckStop(i)
  PROVE  Goes
<1> DEFINE v == inv[i]
           on == [v EXCEPT !.phase = "boundary"]
<1>1. v \in Invocation /\ Steady(v) /\ v.phase \in Writing \ {"claimed"} /\ v.step \in Nat
  BY QuietFacts DEF CheckStop, Writing, Invocation
<1>2. run' = run /\ cps' = cps
  BY DEF CheckStop
<1>3. \/ inv' = [inv EXCEPT ![i] = EndsWith(v, "partial", "failed")]
      \/ inv' = [inv EXCEPT ![i] = EndsWith(v, "cancelled", "cancelled")]
      \/ v.step < MaxSteps /\ inv' = [inv EXCEPT ![i] = on]
  <2>1. CASE v.step >= MaxSteps
    BY <2>1 DEF CheckStop
  <2>2. CASE ~(v.step >= MaxSteps) /\ run.cancel
    BY <2>2 DEF CheckStop
  <2>3. CASE ~(v.step >= MaxSteps) /\ ~run.cancel
    <3>1. inv' = [inv EXCEPT ![i] = on]
      BY <2>3 DEF CheckStop
    <3>2. v.step < MaxSteps
      BY <1>1, <2>3, RunAssumption
    <3>3. QED
      BY <3>1, <3>2
  <2>4. QED
    BY <2>1, <2>2, <2>3
<1>4. "partial" \in Terminal /\ "cancelled" \in Terminal /\ {"failed", "cancelled"} \subseteq Closings
  BY DEF Terminal, Closings
<1>5. v.held /\ ~v.failing /\ ~v.device
  BY <1>1 DEF Steady
<1>6. CASE inv' = [inv EXCEPT ![i] = EndsWith(v, "partial", "failed")]
  BY <1>1, <1>2, <1>4, <1>5, <1>6, EndsWithSteady, MoveGoes
<1>7. CASE inv' = [inv EXCEPT ![i] = EndsWith(v, "cancelled", "cancelled")]
  BY <1>1, <1>2, <1>4, <1>5, <1>7, EndsWithSteady, MoveGoes
<1>8. CASE v.step < MaxSteps /\ inv' = [inv EXCEPT ![i] = on]
  <2>1. /\ on.phase = "boundary" /\ on.step = v.step /\ on.seq = v.seq /\ on.cp = v.cp
        /\ on.held /\ ~on.failing /\ ~on.device
    BY <1>1, <1>5 DEF Invocation
  <2> HIDE DEF on
  <2>2. Steady(on) /\ on.phase \in Writing \ {"claimed"}
    BY <1>8, <2>1 DEF Steady, Writing
  <2>3. QED
    BY <1>1, <1>2, <1>8, <2>1, <2>2, MoveGoes
<1>9. QED
  BY <1>3, <1>6, <1>7, <1>8

LEMMA CheckPauseGoes ==
  ASSUME IInv, Numbered, QuietInv, NEW i \in Slots, CheckPause(i)
  PROVE  Goes
<1> DEFINE v == inv[i]
           parks == [v EXCEPT !.phase = "park", !.outcome = "paused"]
           calls == [v EXCEPT !.phase = "provider", !.step = v.step + 1]
<1>1. /\ v \in Invocation /\ Steady(v) /\ v.phase \in Writing \ {"claimed"} /\ v.step \in Nat
      /\ v.step < MaxSteps
  BY QuietFacts DEF CheckPause, Writing, Invocation, Steady
<1>2. run' = run /\ cps' = cps
  BY DEF CheckPause
<1>3. inv' = [inv EXCEPT ![i] = parks] \/ inv' = [inv EXCEPT ![i] = calls]
  BY DEF CheckPause
<1>4. v.held /\ ~v.failing /\ ~v.device
  BY <1>1 DEF Steady
<1>5. CASE inv' = [inv EXCEPT ![i] = parks]
  <2>1. /\ parks.phase = "park" /\ parks.seq = v.seq /\ parks.cp = v.cp
        /\ parks.held /\ ~parks.failing /\ ~parks.device
    BY <1>1, <1>4 DEF Invocation
  <2> HIDE DEF parks
  <2>2. Steady(parks) /\ parks.phase \in Writing \ {"claimed"}
    BY <2>1 DEF Steady, Writing
  <2>3. QED
    BY <1>1, <1>2, <1>5, <2>1, <2>2, MoveGoes
<1>6. CASE inv' = [inv EXCEPT ![i] = calls]
  <2>1. /\ calls.phase = "provider" /\ calls.seq = v.seq /\ calls.cp = v.cp
        /\ calls.step = v.step + 1 /\ calls.held /\ ~calls.failing /\ ~calls.device
    BY <1>1, <1>4 DEF Invocation
  <2>2. calls.step \in 1..MaxSteps
    BY <1>1, <2>1, RunAssumption
  <2> HIDE DEF calls
  <2>3. Steady(calls) /\ calls.phase \in Writing \ {"claimed"}
    BY <2>1, <2>2 DEF Steady, Writing
  <2>4. QED
    BY <1>1, <1>2, <1>6, <2>1, <2>3, MoveGoes
<1>7. QED
  BY <1>3, <1>5, <1>6

LEMMA HandOffGoes ==
  ASSUME IInv, Numbered, QuietInv, NEW i \in Slots, HandOff(i)
  PROVE  Goes
<1> DEFINE v == inv[i]
           u == HandedOn(v, v.seq, v.step)
           w == Started(u)
<1>1. /\ v \in Invocation /\ v.phase \in Writing \ {"claimed"} /\ v.seq \in Nat /\ v.step \in Nat
      /\ v.held /\ ~v.failing /\ ~v.device
  BY QuietFacts DEF HandOff, Writing, Invocation, Steady
<1>2. u \in Invocation /\ u.cp = v.cp
  BY <1>1, HandedOnType
<1>3. u.held /\ ~u.failing /\ ~u.device /\ u.from.seq = v.seq
  BY <1>1 DEF HandedOn, Invocation
<1>4. run' = run /\ cps' = cps /\ inv' = [inv EXCEPT ![i] = Invoked(u)]
  BY <1>1 DEF HandOff, HandedOn
<1> HIDE DEF u
<1>5. /\ Steady(w) /\ w.phase \in Writing \ {"claimed"} /\ w.seq = v.seq
      /\ w.cp = v.cp /\ Invoked(u) = w
  BY <1>2, <1>3, StartedSteady
<1> HIDE DEF w
<1>6. QED
  BY <1>1, <1>4, <1>5, MoveGoes

(* What is announced is the new state of the run. *)
LEMMA EmitSays ==
  ASSUME IInv, Numbered, QuietInv, NEW i \in Slots, Emit(i)
  PROVE  /\ Driven(i)
         /\ run'.last = run.last + 1 /\ ~run'.idle
         /\ run'.state = Head(inv[i].todo)
         /\ inv[i].seq = run.last + 1
         /\ cps' = cps
<1>1. inv[i].phase \in Writing \ {"claimed"}
  BY DEF Emit, Writing
<1>2. /\ Driven(i) /\ ~Ended(run.state) /\ inv[i].seq = run.last + 1
      /\ run \in Row /\ journal \subseteq Event /\ JournalHasNoGaps
  BY <1>1, DriverFacts, QuietFacts
<1>3. inv[i].todo \in Seq(States) /\ inv[i].todo # <<>>
  BY QuietFacts DEF Emit, Able, Invocation
<1>4. Head(inv[i].todo) \in States
  BY <1>3, HeadTailProperties
<1>5. run' = Journaled({[seq |-> inv[i].seq, state |-> Head(inv[i].todo)]}) /\ cps' = cps
  BY DEF Emit, AppendEvents
<1>6. QED
  BY <1>2, <1>4, <1>5, NextLands

LEMMA EmitGoes ==
  ASSUME IInv, Numbered, QuietInv, NEW i \in Slots, Emit(i)
  PROVE  Goes
<1> DEFINE v == inv[i]
           w(todo, phase) == Announcing(v, v.seq + 1, todo, phase)
<1>1. /\ v \in Invocation /\ Steady(v) /\ v.seq \in Nat
      /\ v.held /\ ~v.failing /\ ~v.device
      /\ inv \in [Slots -> Invocation] /\ \A j \in Slots : Steady(inv[j])
  BY QuietFacts DEF Invocation, Steady
<1>2. /\ Driven(i)
      /\ run'.last = run.last + 1 /\ ~run'.idle
      /\ run'.state = Head(v.todo)
      /\ v.seq = run.last + 1
      /\ cps' = cps
  BY EmitSays
<1>3. ASSUME NEW todo, NEW phase
      PROVE  /\ w(todo, phase).phase = phase /\ w(todo, phase).todo = todo
             /\ w(todo, phase).seq = v.seq + 1 /\ w(todo, phase).cp = v.cp
             /\ w(todo, phase).outcome = v.outcome
             /\ w(todo, phase).held /\ ~w(todo, phase).failing /\ ~w(todo, phase).device
  BY <1>1 DEF Announcing, Invocation
<1>4. /\ v.phase \in {"open", "ending"}
      /\ inv' = [inv EXCEPT ![i] =
                   w(Tail(v.todo), IF Len(v.todo) > 1 THEN v.phase
                                   ELSE IF v.phase = "open" THEN "top" ELSE "lease")]
  BY DEF Emit, Announcing
<1> HIDE DEF w
<1>5. CASE v.phase = "open" /\ v.todo = <<"queued", "running">>
  <2>1. /\ Head(v.todo) = "queued" /\ Tail(v.todo) = <<"running">> /\ Len(v.todo) > 1
        /\ run'.state \in ExecutorHeld
    BY <1>2, <1>5 DEF ExecutorHeld
  <2>2. inv' = [inv EXCEPT ![i] = w(<<"running">>, "open")]
    BY <1>4, <1>5, <2>1
  <2>3. Steady(w(<<"running">>, "open")) /\ w(<<"running">>, "open").phase \in Writing \ {"claimed"}
    BY <1>3 DEF Steady, Writing, Openers
  <2>4. w(<<"running">>, "open").cp = v.cp /\ w(<<"running">>, "open").seq = run'.last + 1
    BY <1>2, <1>3
  <2>5. QED
    BY <1>1, <1>2, <2>1, <2>2, <2>3, <2>4, OneSteady, StillWriting DEF Goes
<1>6. CASE v.phase = "open" /\ v.todo = <<"running">>
  <2>1. /\ Head(v.todo) = "running" /\ ~(Len(v.todo) > 1) /\ run'.state \in ExecutorHeld
    BY <1>2, <1>6 DEF ExecutorHeld
  <2>2. inv' = [inv EXCEPT ![i] = w(Tail(v.todo), "top")]
    BY <1>4, <1>6, <2>1
  <2>3. Steady(w(Tail(v.todo), "top")) /\ w(Tail(v.todo), "top").phase \in Writing \ {"claimed"}
    BY <1>3 DEF Steady, Writing
  <2>4. w(Tail(v.todo), "top").cp = v.cp /\ w(Tail(v.todo), "top").seq = run'.last + 1
    BY <1>2, <1>3
  <2>5. QED
    BY <1>1, <1>2, <2>1, <2>2, <2>3, <2>4, OneSteady, StillWriting DEF Goes
<1>7. CASE v.phase = "ending"
  <2>1. v.outcome \in Closings /\ \E s \in Terminal : v.todo = <<s>>
    BY <1>1, <1>7 DEF Steady
  <2>2. ~(Len(v.todo) > 1) /\ Head(v.todo) \in Terminal
    BY <2>1
  <2>3. run'.state \notin HumanHeld /\ run'.state \notin ExecutorHeld
    BY <1>2, <2>2 DEF Terminal, HumanHeld, ExecutorHeld
  <2>4. inv' = [inv EXCEPT ![i] = w(Tail(v.todo), "lease")]
    BY <1>4, <1>7, <2>2
  <2>5. Steady(w(Tail(v.todo), "lease"))
    BY <1>3 DEF Steady, Writing
  <2>6. /\ w(Tail(v.todo), "lease").cp = v.cp /\ w(Tail(v.todo), "lease").phase = "lease"
        /\ w(Tail(v.todo), "lease").outcome \in Closings
    BY <1>3, <2>1
  <2>7. QED
    BY <1>1, <1>2, <2>3, <2>4, <2>5, <2>6, OneSteady, StartsClosing DEF Goes
<1>8. v.phase = "open" => v.todo \in Openers
  BY <1>1 DEF Steady
<1>9. QED
  BY <1>4, <1>5, <1>6, <1>7, <1>8 DEF Openers

LEMMA AnsweredGoes ==
  ASSUME IInv, Numbered, QuietInv, NEW i \in Slots, NEW a \in Answers, Answered(i, a)
  PROVE  Goes
<1> DEFINE v == inv[i]
           w == [v EXCEPT !.phase = "answered", !.answer = a, !.seq = v.seq + 2]
           es == {[seq |-> v.seq + d, state |-> NoEvent] : d \in {0, 1}}
<1>1. /\ v \in Invocation /\ v.phase \in Writing \ {"claimed"} /\ v.seq \in Nat
      /\ v.held /\ ~v.failing /\ ~v.device
      /\ inv \in [Slots -> Invocation] /\ \A j \in Slots : Steady(inv[j])
  BY QuietFacts DEF Answered, Writing, Invocation, Steady
<1>2. /\ Driven(i) /\ run.state \in ExecutorHeld /\ v.seq = run.last + 1
      /\ run \in Row /\ journal \subseteq Event /\ JournalHasNoGaps
  BY <1>1, DriverFacts, QuietFacts
<1>3. run' = Journaled(es) /\ cps' = cps /\ inv' = [inv EXCEPT ![i] = w]
  BY DEF Answered, AppendEvents
<1>4. run'.last = v.seq + 1 /\ ~run'.idle /\ run'.state \in ExecutorHeld
  BY <1>2, <1>3, ProgressLands
<1>5. /\ w.phase = "answered" /\ w.seq = v.seq + 2 /\ w.cp = v.cp
      /\ w.held /\ ~w.failing /\ ~w.device
  BY <1>1 DEF Invocation
<1> HIDE DEF w, es
<1>6. Steady(w) /\ w.phase \in Writing \ {"claimed"} /\ w.seq = run'.last + 1
  BY <1>1, <1>4, <1>5 DEF Steady, Writing
<1>7. QED
  BY <1>1, <1>2, <1>3, <1>4, <1>5, <1>6, OneSteady, StillWriting DEF Goes

LEMMA UseAnswerGoes ==
  ASSUME IInv, Numbered, QuietInv, NEW i \in Slots, UseAnswer(i)
  PROVE  Goes
<1> DEFINE v == inv[i]
           hands == [v EXCEPT !.phase = "lease", !.outcome = "completed"]
           on == [v EXCEPT !.phase = "top"]
           parks == [v EXCEPT !.phase = "park", !.outcome = "awaiting_input"]
<1>1. /\ v \in Invocation /\ v.phase \in Writing \ {"claimed"}
      /\ v.held /\ ~v.failing /\ ~v.device /\ v.answer \in Answers
      /\ inv \in [Slots -> Invocation] /\ \A j \in Slots : Steady(inv[j])
  BY QuietFacts DEF UseAnswer, Writing, Invocation, Steady, Able
<1>2. run' = run /\ cps' = cps
  BY DEF UseAnswer
<1>3. \/ inv' = [inv EXCEPT ![i] = hands]
      \/ inv' = [inv EXCEPT ![i] = EndsWith(v, "cancelled", "cancelled")]
      \/ inv' = [inv EXCEPT ![i] = EndsWith(v, "ready_for_review", "completed")]
      \/ inv' = [inv EXCEPT ![i] = EndsWith(v, "failed", "failed")]
      \/ inv' = [inv EXCEPT ![i] = on]
      \/ inv' = [inv EXCEPT ![i] = parks]
  BY <1>1, Zenon DEF UseAnswer, Answers
<1>4. {"cancelled", "ready_for_review", "failed"} \subseteq Terminal
  BY DEF Terminal
<1>5. CASE inv' = [inv EXCEPT ![i] = hands]
  <2>1. /\ hands.phase = "lease" /\ hands.outcome = "completed" /\ hands.cp = v.cp
        /\ hands.held /\ ~hands.failing /\ ~hands.device
    BY <1>1 DEF Invocation
  <2> HIDE DEF hands
  <2>2. Steady(hands) /\ hands.outcome \in Closings
    BY <2>1 DEF Steady, Closings
  <2>3. Driven(i) /\ run'.state \notin HumanHeld /\ ~run'.idle
    BY <1>1, <1>2, DriverFacts DEF Driven
  <2>4. QED
    BY <1>1, <1>2, <1>5, <2>1, <2>2, <2>3, OneSteady, StartsClosing DEF Goes
<1>6. ASSUME NEW s \in {"cancelled", "ready_for_review", "failed"}, NEW outcome \in Closings,
             inv' = [inv EXCEPT ![i] = EndsWith(v, s, outcome)]
      PROVE  Goes
  BY <1>1, <1>2, <1>4, <1>6, EndsWithSteady, MoveGoes
<1>7. CASE inv' = [inv EXCEPT ![i] = on]
  <2>1. /\ on.phase = "top" /\ on.seq = v.seq /\ on.cp = v.cp
        /\ on.held /\ ~on.failing /\ ~on.device
    BY <1>1 DEF Invocation
  <2> HIDE DEF on
  <2>2. Steady(on) /\ on.phase \in Writing \ {"claimed"}
    BY <2>1 DEF Steady, Writing
  <2>3. QED
    BY <1>1, <1>2, <1>7, <2>1, <2>2, MoveGoes
<1>8. CASE inv' = [inv EXCEPT ![i] = parks]
  <2>1. /\ parks.phase = "park" /\ parks.seq = v.seq /\ parks.cp = v.cp
        /\ parks.held /\ ~parks.failing /\ ~parks.device
    BY <1>1 DEF Invocation
  <2> HIDE DEF parks
  <2>2. Steady(parks) /\ parks.phase \in Writing \ {"claimed"}
    BY <2>1 DEF Steady, Writing
  <2>3. QED
    BY <1>1, <1>2, <1>8, <2>1, <2>2, MoveGoes
<1>9. QED
  BY <1>3, <1>5, <1>6, <1>7, <1>8 DEF Closings

-------------------------------------------------------------------------------
(* Parking, closing, and the person.                                         *)

(* A park settles every lease and leaves one checkpoint, a pause if it pauses the run. *)
LEMMA ParkWrites ==
  ASSUME IInv, Pending = {}, NEW i \in Slots, Park(i)
  PROVE  \E k :
           /\ DOMAIN cps' = DOMAIN cps \cup {k} /\ k \notin DOMAIN cps
           /\ cps'[k].state = "pending" /\ cps'[k].seq = inv[i].seq + 1
           /\ cps'[k].kind \in {"ask", "pause"}
           /\ cps'[k].kind = "pause" => inv[i].outcome = "paused"
           /\ \A c \in DOMAIN cps :
                cps'[c].state \notin {"pending", "resuming"} /\ cps'[c].lease = cps[c].lease
<1> DEFINE v == inv[i]
           m == [c \in DOMAIN cps |-> IF cps[c].state = "resuming"
                                        THEN [cps[c] EXCEPT !.state = "resolved"] ELSE cps[c]]
           next == [kind |-> IF v.outcome = "paused" THEN "pause" ELSE "ask",
                    state |-> "pending", lease |-> 0, seq |-> NumberAfter(v), step |-> v.step]
           k == Len(cps) + 1
<1>1. cps' = Append(m, next)
  BY DEF Park
<1>2. /\ next.state = "pending" /\ next.seq = inv[i].seq + 1
      /\ next.kind \in {"ask", "pause"}
      /\ next.kind = "pause" => inv[i].outcome = "paused"
  BY DEF NumberAfter
<1>3. /\ cps \in Seq(Checkpoint) /\ \A c \in DOMAIN cps : cps[c] \in Checkpoint
      /\ DOMAIN cps = 1..Len(cps) /\ Len(cps) \in Nat
  BY DEF IInv
<1>4. /\ DOMAIN m = DOMAIN cps
      /\ \A c \in DOMAIN cps : m[c] \in Checkpoint
      /\ \A c \in DOMAIN cps : m[c].state \notin {"pending", "resuming"} /\ m[c].lease = cps[c].lease
  <2>1. \A c \in DOMAIN cps : cps[c].state # "pending"
    BY DEF Pending
  <2>2. QED
    BY <1>3, <2>1 DEF Checkpoint
<1>5. m \in Seq(Checkpoint) /\ Len(m) = Len(cps)
  BY <1>3, <1>4
<1>6. next \in Checkpoint
  <2>1. v.seq + 1 \in Nat /\ v.step \in Nat
    BY DEF IInv, InvsAble, Invocation
  <2>2. 0 \in 0..MaxInvocations
    BY RunAssumption
  <2>3. QED
    BY <2>1, <2>2 DEF NumberAfter, Checkpoint
<1> HIDE DEF m, next
<1>7. /\ Len(Append(m, next)) = Len(cps) + 1
      /\ DOMAIN Append(m, next) = 1..(Len(cps) + 1)
      /\ \A c \in 1..Len(cps) : Append(m, next)[c] = m[c]
      /\ Append(m, next)[Len(cps) + 1] = next
  BY <1>5, <1>6, AppendProperties
<1>8. DOMAIN cps' = DOMAIN cps \cup {k} /\ k \notin DOMAIN cps /\ cps'[k] = next
  BY <1>1, <1>3, <1>7
<1>9. \A c \in DOMAIN cps : cps'[c] = m[c]
  BY <1>1, <1>3, <1>7
<1>10. QED
  BY <1>2, <1>4, <1>8, <1>9

LEMMA ParkGoes ==
  ASSUME IInv, Numbered, QuietInv, NEW i \in Slots, Park(i)
  PROVE  Goes
<1> DEFINE v == inv[i]
           w == [v EXCEPT !.phase = "lease", !.seq = v.seq + 1]
           r == Journaled({[seq |-> v.seq, state |-> v.outcome]})
<1>1. /\ v \in Invocation /\ v.phase \in Writing \ {"claimed"} /\ v.seq \in Nat
      /\ v.held /\ ~v.failing /\ ~v.device /\ v.outcome \in {"awaiting_input", "paused"}
      /\ inv \in [Slots -> Invocation] /\ \A j \in Slots : Steady(inv[j])
  BY QuietFacts DEF Park, Writing, Invocation, Steady, Able
<1>2. /\ Driven(i) /\ ~Ended(run.state) /\ v.seq = run.last + 1
      /\ run \in Row /\ journal \subseteq Event /\ JournalHasNoGaps /\ CompletedWhenEnded
  BY <1>1, DriverFacts, QuietFacts DEF IInv, RowInv
<1>3. Pending = {}
  BY <1>2 DEF Driven
<1>4. run' = ParkedRun(r, v.outcome) /\ inv' = [inv EXCEPT ![i] = w]
  BY <1>3 DEF Park
<1>5. run'.state = v.outcome /\ run'.last = v.seq
  <2>1. v.outcome \in States /\ v.outcome \in HumanHeld
    BY <1>1 DEF States, HumanHeld
  <2>2. r.last = v.seq /\ r.state = v.outcome /\ ~Ended(r.state)
    <3>1. r.last = v.seq /\ r.state = v.outcome
      BY <1>2, <2>1, NextLands
    <3>2. QED
      BY <1>1, <3>1 DEF Ended, Terminal
  <2>3. r \in Row
    <3>1. [seq |-> v.seq, state |-> v.outcome] \in Event
      BY <1>1, <2>1, EventType
    <3>2. ASSUME NEW a \in Event PROVE Journaled({a}) \in Row
      <4>1. {a} = {a, a}
        OBVIOUS
      <4>2. QED
        BY <1>2, <4>1, JournaledRow
    <3>3. QED
      BY <3>1, <3>2
  <2> HIDE DEF r
  <2>4. QED
    BY <1>4, <2>2, <2>3 DEF ParkedRun, Row
<1>6. /\ w.phase = "lease" /\ w.outcome = v.outcome
      /\ w.held /\ ~w.failing /\ ~w.device
  BY <1>1 DEF Invocation
<1> HIDE DEF w, r
<1>7. Steady(w) /\ ~Drives(w)
  BY <1>1, <1>6 DEF Steady, Drives, Writing, Closings
<1>8. \A j \in Slots : inv'[j] = IF j = i THEN w ELSE inv[j]
  BY <1>1, <1>4
<1>9. NoneDrives'
  <2>1. \A j \in Slots : j # i => Drives(inv[j])' = Drives(inv[j])
    BY <1>8 DEF Drives
  <2>2. \A j \in Slots : ~Drives(inv'[j])
    BY <1>2, <1>7, <1>8, <2>1 DEF Driven, Drives
  <2>3. QED
    BY <2>2 DEF NoneDrives, Drives
<1>10. PICK k :
         /\ DOMAIN cps' = DOMAIN cps \cup {k} /\ k \notin DOMAIN cps
         /\ cps'[k].state = "pending" /\ cps'[k].seq = inv[i].seq + 1
         /\ cps'[k].kind \in {"ask", "pause"}
         /\ cps'[k].kind = "pause" => inv[i].outcome = "paused"
         /\ \A c \in DOMAIN cps :
              cps'[c].state \notin {"pending", "resuming"} /\ cps'[c].lease = cps[c].lease
  BY <1>3, ParkWrites
<1>11. Pending' = {k} /\ NoneLeased'
  BY <1>10 DEF Pending, NoneLeased
<1>12. Parked(k)'
  <2>1. run'.state \in HumanHeld /\ cps'[k].seq = run'.last + 1
    BY <1>1, <1>5, <1>10 DEF HumanHeld
  <2>2. /\ cps'[k].kind \in {"ask", "pause"}
        /\ cps'[k].kind = "pause" => run'.state = "paused"
    BY <1>5, <1>10
  <2>3. QED
    BY <1>9, <1>11, <2>1, <2>2 DEF Parked
<1>13. QED
  BY <1>1, <1>4, <1>7, <1>10, <1>12, OneSteady DEF Goes, Mode

(* A lease is settled by the invocation it was given to; for one that parked   *)
(* the run, or the run of which has gone on, there is nothing left to settle. *)
LEMMA CompleteLeaseGoes ==
  ASSUME IInv, Numbered, QuietInv, NEW i \in Slots, CompleteLease(i)
  PROVE  Goes
<1> DEFINE v == inv[i]
           w == [v EXCEPT !.phase = "settle"]
           c == v.cp
<1>1. /\ v \in Invocation /\ v.phase = "lease" /\ v.cp \in Nat
      /\ v.held /\ ~v.failing /\ ~v.device
      /\ inv \in [Slots -> Invocation] /\ \A j \in Slots : Steady(inv[j])
      /\ cps \in Seq(Checkpoint) /\ \A d \in DOMAIN cps : cps[d] \in Checkpoint
      /\ Mode
  BY QuietFacts DEF CompleteLease, Invocation, Steady
<1>2. c # 0 => c \in DOMAIN cps /\ cps[c].lease = i /\ cps[c].state # "pending"
  BY <1>1, QuietFacts DEF LeaseHeld, LeaseTaken
<1>3. run' = run /\ inv' = [inv EXCEPT ![i] = w]
  BY <1>2 DEF CompleteLease, Goto
<1>4. /\ w.phase = "settle" /\ w.outcome = v.outcome /\ w.cp = v.cp
      /\ w.held /\ ~w.failing /\ ~w.device
  BY <1>1 DEF Invocation
<1> HIDE DEF w
<1>5. Steady(w) /\ (Drives(w) <=> Drives(v))
  BY <1>1, <1>4 DEF Steady, Drives, Writing
<1>6. /\ c = 0 => cps' = cps
      /\ c # 0 => cps' = [cps EXCEPT ![c] =
                            [cps[c] EXCEPT !.state = Concluded(cps[c].state, v.outcome)]]
  BY <1>2 DEF CompleteLease
<1>7. \A d \in DOMAIN cps : d # c => cps'[d] = cps[d]
  BY <1>6
<1>8. DOMAIN cps' = DOMAIN cps
  BY <1>6
<1>9. c # 0 => /\ cps'[c].state = Concluded(cps[c].state, v.outcome)
               /\ cps'[c].state \notin {"pending", "resuming"}
               /\ cps[c].state # "resuming" => cps' = cps
  <2> SUFFICES ASSUME c # 0
               PROVE  /\ cps'[c].state = Concluded(cps[c].state, v.outcome)
                      /\ cps'[c].state \notin {"pending", "resuming"}
                      /\ cps[c].state # "resuming" => cps' = cps
    OBVIOUS
  <2>1. cps[c] \in Checkpoint /\ cps[c].state \in {"resuming", "resolved", "failed"}
    BY <1>1, <1>2 DEF Checkpoint
  <2>2. cps'[c] = [cps[c] EXCEPT !.state = Concluded(cps[c].state, v.outcome)]
    BY <1>2, <1>6
  <2>3. cps'[c].state = Concluded(cps[c].state, v.outcome)
    BY <2>1, <2>2 DEF Checkpoint
  <2>4. Concluded(cps[c].state, v.outcome) \notin {"pending", "resuming"}
    BY <2>1 DEF Concluded
  <2>5. ASSUME cps[c].state # "resuming" PROVE cps' = cps
    <3>1. Concluded(cps[c].state, v.outcome) = cps[c].state
      BY <2>5 DEF Concluded
    <3>2. [cps[c] EXCEPT !.state = cps[c].state] = cps[c]
      BY <2>1 DEF Checkpoint
    <3>3. cps' = [cps EXCEPT ![c] = cps[c]]
      BY <1>6, <3>1, <3>2
    <3>4. QED
      BY <1>1, <1>2, <3>3
  <2>6. QED
    BY <2>3, <2>4, <2>5
<1>10. CASE Drives(v)
  <2>1. Driven(i)
    BY <1>1, <1>10, WriterDrives
  <2>2. NoneLeased' /\ Pending' = {}
    <3>1. ASSUME NEW d \in DOMAIN cps PROVE cps'[d].state \notin {"pending", "resuming"}
      <4>1. CASE d = c
        <5>1. c # 0
          BY <1>1, <3>1, <4>1
        <5>2. QED
          BY <1>9, <4>1, <5>1
      <4>2. CASE d # c
        BY <1>7, <2>1, <3>1, <4>2 DEF Driven, Pending
      <4>3. QED
        BY <4>1, <4>2
    <3>2. QED
      BY <1>8, <3>1 DEF NoneLeased, Pending
  <2>3. \A j \in Slots : inv'[j] = IF j = i THEN w ELSE inv[j]
    BY <1>1, <1>3
  <2>4. Drives(inv[i])' /\ \A j \in Slots : Drives(inv[j])' => j = i
    <3>1. \A j \in Slots : j # i => Drives(inv[j])' = Drives(inv[j])
      BY <2>3 DEF Drives
    <3>2. QED
      BY <1>5, <1>10, <2>1, <2>3, <3>1 DEF Driven, Drives
  <2>5. Driven(i)'
    BY <1>3, <1>4, <2>1, <2>2, <2>3, <2>4 DEF Driven, NoneLeased, Writing
  <2>6. QED
    BY <1>1, <1>3, <1>5, <2>5, OneSteady DEF Goes, Mode
<1>11. CASE ~Drives(v)
  <2>1. ASSUME c # 0 PROVE cps[c].state # "resuming"
    <3>1. ASSUME NEW j \in Slots, Driven(j) PROVE cps[c].state # "resuming"
      <4>1. j # i /\ inv[j].phase # "void"
        BY <1>11, <3>1 DEF Driven, Drives, Writing
      <4>2. inv[j].cp # c
        BY <1>1, <2>1, <4>1, QuietFacts DEF DecisionUsedOnce
      <4>3. QED
        BY <1>2, <2>1, <3>1, <4>2 DEF Driven
    <3>2. ASSUME NoneLeased PROVE cps[c].state # "resuming"
      BY <1>2, <2>1, <3>2 DEF NoneLeased
    <3>3. QED
      BY <1>1, <3>1, <3>2 DEF Mode, Parked, Over
  <2>2. cps' = cps
    BY <1>6, <1>9, <2>1
  <2>3. QED
    BY <1>1, <1>3, <1>5, <1>11, <2>2, OneSteady, BystanderMoves DEF Goes
<1>12. QED
  BY <1>10, <1>11

LEMMA SettleGoes ==
  ASSUME IInv, Numbered, QuietInv, NEW i \in Slots, Settle(i)
  PROVE  Goes
<1> DEFINE v == inv[i]
           w == [v EXCEPT !.phase = "done"]
<1>1. /\ v \in Invocation /\ v.phase = "settle"
      /\ v.held /\ ~v.failing /\ ~v.device
      /\ inv \in [Slots -> Invocation] /\ \A j \in Slots : Steady(inv[j])
      /\ Mode /\ run \in Row
  BY QuietFacts DEF Settle, Invocation, Steady
<1>2. cps' = cps /\ inv' = [inv EXCEPT ![i] = w]
  BY DEF Settle, Goto
<1>3. w.phase = "done" /\ w.held /\ ~w.failing /\ ~w.device
  BY <1>1 DEF Invocation
<1> HIDE DEF w
<1>4. Steady(w) /\ ~Drives(w)
  BY <1>3 DEF Steady, Drives, Writing
<1>5. CASE v.outcome \in Closings
  <2>1. Driven(i)
    BY <1>1, <1>5, WriterDrives DEF Drives
  <2>2. \A s \in SettledState(v.outcome) : Ended(s)
    BY <1>5 DEF SettledState, Closings, Ended, Terminal
  <2>3. SettledState(v.outcome) # {}
    BY <1>5 DEF SettledState, Closings
  <2>4. Ended(run'.state)
    BY <1>1, <2>2, <2>3, TransitionEnds DEF Settle
  <2>5. \A j \in Slots : inv'[j] = IF j = i THEN w ELSE inv[j]
    BY <1>1, <1>2
  <2>6. NoneDrives'
    <3>1. \A j \in Slots : j # i => Drives(inv[j])' = Drives(inv[j])
      BY <2>5 DEF Drives
    <3>2. \A j \in Slots : ~Drives(inv[j])'
      BY <1>4, <2>1, <2>5, <3>1 DEF Driven, Drives
    <3>3. QED
      BY <3>2 DEF NoneDrives
  <2>7. NoneLeased' /\ Pending' = {}
    BY <1>1, <1>2, <2>1 DEF Driven, NoneLeased, Pending
  <2>8. Over'
    BY <2>4, <2>6, <2>7 DEF Over, Ended
  <2>9. QED
    BY <1>1, <1>2, <1>4, <2>8, OneSteady DEF Goes, Mode
<1>6. CASE v.outcome \notin Closings
  <2>1. ~Drives(v)
    BY <1>1, <1>6 DEF Drives, Writing
  <2>2. SettledState(v.outcome) = {}
    BY <1>6 DEF SettledState, Closings
  <2>3. run' = run
    BY <2>2 DEF Settle
  <2>4. QED
    BY <1>1, <1>2, <1>4, <2>1, <2>3, OneSteady, BystanderMoves DEF Goes
<1>7. QED
  BY <1>5, <1>6

(* A person who answers hands the run to one new invocation. *)
LEMMA ClaimGoes ==
  ASSUME IInv, Numbered, QuietInv, NEW j \in Slots, NEW kind \in {"ask", "pause"},
         NEW state \in ExecutorHeld, kind = "pause" => state = "resuming", Claim(j, kind, state)
  PROVE  Goes
<1>1. /\ inv \in [Slots -> Invocation] /\ inv[j] \in Invocation /\ \A k \in Slots : Steady(inv[k])
      /\ inv[j].phase = "none" /\ inv[j].held /\ ~inv[j].failing /\ ~inv[j].device
      /\ run \in Row /\ Mode
      /\ cps \in Seq(Checkpoint) /\ \A d \in DOMAIN cps : cps[d] \in Checkpoint
  BY QuietFacts DEF Claim, Steady
<1>2. PICK c \in Claimable(kind) :
        /\ cps' = [cps EXCEPT ![c].state = "resuming", ![c].lease = j]
        /\ run' = TakenBack(state)
        /\ inv' = [inv EXCEPT ![j].phase = "claimed", ![j].cp = c,
                              ![j].how = IF kind = "pause" THEN "unpaused" ELSE "answered",
                              ![j].from = [seq |-> cps[c].seq, step |-> cps[c].step]]
  BY Zenon DEF Claim
<1> DEFINE how == IF kind = "pause" THEN "unpaused" ELSE "answered"
           from == [seq |-> cps[c].seq, step |-> cps[c].step]
           w == [inv[j] EXCEPT !.phase = "claimed", !.cp = c, !.how = how, !.from = from]
           x == [cps[c] EXCEPT !.state = "resuming", !.lease = j]
<1>3. c \in Pending /\ c \in DOMAIN cps /\ cps[c].kind = kind
  BY DEF Claimable, Pending
<1>4. Parked(c)
  <2>1. \A d \in DOMAIN cps : Parked(d) => d = c
    BY <1>3 DEF Parked
  <2>2. QED
    BY <1>1, <1>3, <2>1 DEF Mode, Driven, Over
<1>5. run'.state = state /\ run'.last = run.last /\ ~run'.idle
  BY <1>1, <1>2 DEF TakenBack, Row
<1>6. /\ w.phase = "claimed" /\ w.cp = c /\ w.from.seq = cps[c].seq
      /\ w.held /\ ~w.failing /\ ~w.device
  BY <1>1 DEF Invocation
<1>7. x.state = "resuming" /\ x.kind = kind /\ x.seq = cps[c].seq
  BY <1>1, <1>3 DEF Checkpoint
<1>8. inv' = [inv EXCEPT ![j] = w] /\ cps' = [cps EXCEPT ![c] = x]
  BY <1>2
<1> HIDE DEF w, x, how, from
<1>9. \A k \in Slots : inv'[k] = IF k = j THEN w ELSE inv[k]
  BY <1>1, <1>8
<1>10. DOMAIN cps' = DOMAIN cps /\ \A d \in DOMAIN cps : cps'[d] = IF d = c THEN x ELSE cps[d]
  BY <1>1, <1>3, <1>8
<1>11. Steady(w) /\ Drives(w)
  BY <1>6 DEF Steady, Drives, Writing
<1>12. Drives(inv[j])' /\ \A k \in Slots : Drives(inv[k])' => k = j
  <2>1. \A k \in Slots : k # j => Drives(inv[k])' = Drives(inv[k])
    BY <1>9 DEF Drives
  <2>2. \A k \in Slots : ~Drives(inv[k])
    BY <1>4 DEF Parked, NoneDrives
  <2>3. QED
    BY <1>9, <1>11, <2>1, <2>2 DEF Drives
<1>13. Pending' = {}
  <2>1. \A d \in DOMAIN cps : d # c => cps[d].state # "pending"
    BY <1>4 DEF Parked, Pending
  <2>2. QED
    BY <1>7, <1>10, <2>1 DEF Pending
<1>14. \A d \in DOMAIN cps' : cps'[d].state = "resuming" => d = c
  BY <1>4, <1>10 DEF Parked, NoneLeased
<1>15. Driven(j)'
  <2>1. cps'[c].state = "resuming" /\ cps'[c].seq = run'.last + 1 /\ cps'[c].kind = kind
    BY <1>3, <1>4, <1>5, <1>7, <1>10 DEF Parked
  <2>2. inv'[j] = w /\ w.from.seq = run'.last + 1
    BY <1>4, <1>5, <1>6, <1>9 DEF Parked
  <2>3. run'.state \in ExecutorHeld /\ run'.state \notin HumanHeld
    BY <1>5 DEF ExecutorHeld, HumanHeld
  <2>4. QED
    BY <1>5, <1>6, <1>12, <1>13, <1>14, <2>1, <2>2, <2>3 DEF Driven
<1>16. QED
  BY <1>1, <1>8, <1>11, <1>15, OneSteady DEF Goes, Mode

(* A lease that is given back before the workflow starts leaves the checkpoint *)
(* and the run as the claim found them.                                       *)
LEMMA ReleaseGoes ==
  ASSUME IInv, Numbered, QuietInv, NEW j \in Slots, Release(j)
  PROVE  Goes
<1> DEFINE c == inv[j].cp
           w == [inv[j] EXCEPT !.phase = "void"]
           x == [cps[c] EXCEPT !.state = "pending", !.lease = 0]
           back == IF cps[c].kind = "pause" THEN "paused" ELSE "awaiting_input"
<1>1. /\ inv \in [Slots -> Invocation] /\ inv[j] \in Invocation /\ \A k \in Slots : Steady(inv[k])
      /\ inv[j].phase = "claimed" /\ inv[j].held /\ ~inv[j].failing /\ ~inv[j].device
      /\ run \in Row /\ inv[j].cp # 0
      /\ cps \in Seq(Checkpoint) /\ \A d \in DOMAIN cps : cps[d] \in Checkpoint
  BY QuietFacts DEF Release, Steady
<1>2. Driven(j) /\ run.state \in ExecutorHeld /\ ~Ended(run.state)
  BY <1>1, DriverFacts DEF Writing
<1>3. /\ c \in DOMAIN cps /\ cps[c].lease = j /\ cps[c].state = "resuming"
      /\ cps[c].seq = run.last + 1 /\ (cps[c].kind = "pause" => run.state = "resuming")
  BY <1>1, <1>2, QuietFacts DEF LeaseHeld, LeaseTaken, Driven
<1>4. GivenBack(cps[c].kind)
  BY <1>2, <1>3 DEF GivenBack
<1>5. /\ inv' = [inv EXCEPT ![j] = w]
      /\ cps' = [cps EXCEPT ![c] = x]
      /\ run' = TakenBack(back)
  BY <1>3, <1>4 DEF Release, Goto
<1>6. w.phase = "void" /\ w.held /\ ~w.failing /\ ~w.device
  BY <1>1 DEF Invocation
<1>7. /\ x.state = "pending" /\ x.seq = cps[c].seq
      /\ x.kind = cps[c].kind /\ x.kind \in {"ask", "pause"}
  BY <1>1, <1>3 DEF Checkpoint
<1>8. /\ run'.state \in HumanHeld /\ run'.last = run.last
      /\ cps[c].kind = "pause" => run'.state = "paused"
  BY <1>1, <1>5 DEF TakenBack, Row, HumanHeld
<1> HIDE DEF w, x, back
<1>9. \A k \in Slots : inv'[k] = IF k = j THEN w ELSE inv[k]
  BY <1>1, <1>5
<1>10. DOMAIN cps' = DOMAIN cps /\ \A d \in DOMAIN cps : cps'[d] = IF d = c THEN x ELSE cps[d]
  BY <1>1, <1>3, <1>5
<1>11. Steady(w) /\ ~Drives(w)
  BY <1>6 DEF Steady, Drives, Writing
<1>12. NoneDrives'
  <2>1. \A k \in Slots : k # j => Drives(inv[k])' = Drives(inv[k])
    BY <1>9 DEF Drives
  <2>2. \A k \in Slots : ~Drives(inv[k])'
    BY <1>2, <1>9, <1>11, <2>1 DEF Driven, Drives
  <2>3. QED
    BY <2>2 DEF NoneDrives
<1>13. Pending' = {c} /\ NoneLeased'
  <2>1. \A d \in DOMAIN cps : d # c => cps[d].state \notin {"pending", "resuming"}
    BY <1>2 DEF Driven, Pending
  <2>2. QED
    BY <1>3, <1>7, <1>10, <2>1 DEF Pending, NoneLeased
<1>14. PICK d \in DOMAIN cps : d = c
  BY <1>3
<1>15. \E e \in DOMAIN cps' : Parked(e)'
  <2>1. Parked(d)'
    BY <1>3, <1>7, <1>8, <1>10, <1>12, <1>13, <1>14 DEF Parked
  <2>2. QED
    BY <1>10, <2>1
<1>16. QED
  BY <1>1, <1>5, <1>11, <1>15, OneSteady DEF Goes, Mode

(* A parked run that is stopped is over: its number is there for the event. *)
LEMMA EndParkedGoes ==
  ASSUME IInv, Numbered, QuietInv, EndParked
  PROVE  Goes
<1>1. /\ run \in Row /\ journal \subseteq Event /\ JournalHasNoGaps /\ Mode
      /\ \A j \in Slots : Steady(inv[j])
      /\ cps \in Seq(Checkpoint) /\ \A d \in DOMAIN cps : cps[d] \in Checkpoint
      /\ inv' = inv
  BY QuietFacts DEF EndParked
<1>2. CASE run.state \notin HumanHeld
  <2>1. run' = run /\ cps' = cps
    BY <1>2 DEF EndParked
  <2>2. QED
    BY <1>1, <2>1, RowTouched DEF Goes
<1>3. CASE run.state \in HumanHeld
  <2>1. PICK c \in DOMAIN cps : Parked(c)
    <3>1. ~Ended(run.state)
      BY <1>3 DEF Ended, Terminal, HumanHeld
    <3>2. QED
      BY <1>1, <1>3, <3>1 DEF Mode, Driven, Over
  <2>2. Pending = {c} /\ NoneDrives /\ NoneLeased /\ cps[c].seq = run.last + 1
    BY <2>1 DEF Parked
  <2>3. /\ cps' = [cps EXCEPT ![c].state = "failed", ![c].lease = 0]
        /\ run' = Journaled({[seq |-> cps[c].seq, state |-> "cancelled"]})
    BY <1>3, <2>2 DEF EndParked, AppendEvents
  <2>4. run'.state = "cancelled"
    <3>1. ~Ended(run.state) /\ "cancelled" \in States
      BY <1>3 DEF Ended, Terminal, HumanHeld, States
    <3>2. QED
      BY <1>1, <2>2, <2>3, <3>1, NextLands
  <2> DEFINE x == [cps[c] EXCEPT !.state = "failed", !.lease = 0]
  <2>5. x.state = "failed"
    BY <1>1 DEF Checkpoint
  <2>6. cps' = [cps EXCEPT ![c] = x]
    BY <2>3
  <2> HIDE DEF x
  <2>7. DOMAIN cps' = DOMAIN cps /\ \A d \in DOMAIN cps : cps'[d] = IF d = c THEN x ELSE cps[d]
    BY <1>1, <2>6
  <2>8. Pending' = {} /\ NoneLeased'
    BY <2>2, <2>5, <2>7 DEF Pending, NoneLeased
  <2>9. NoneDrives'
    BY <1>1, <2>2 DEF NoneDrives, Drives
  <2>10. Over'
    BY <2>4, <2>8, <2>9 DEF Over, Ended, Terminal
  <2>11. QED
    BY <1>1, <2>10 DEF Goes, Mode
<1>4. QED
  BY <1>2, <1>3

(* The shelf takes a run that has ended, and gives it back as one. *)
LEMMA ShelfWriteGoes ==
  ASSUME IInv, Numbered, QuietInv, ShelfWrite
  PROVE  Goes
<1>1. /\ run \in Row /\ Mode /\ \A j \in Slots : Steady(inv[j])
      /\ inv' = inv /\ cps' = cps /\ Ended(run.state) /\ Ended(shelf.to)
  BY QuietFacts DEF ShelfWrite, QuietInv, Calm
<1>2. Ended(run'.state)
  BY <1>1, TransitionEnds DEF ShelfWrite
<1>3. run'.state \notin HumanHeld /\ run'.state \notin ExecutorHeld
  BY <1>2 DEF Ended, Terminal, HumanHeld, ExecutorHeld
<1>4. run.state \notin HumanHeld /\ run.state \notin ExecutorHeld
  BY <1>1 DEF Ended, Terminal, HumanHeld, ExecutorHeld
<1>5. /\ \A j \in Slots : Drives(inv[j])' = Drives(inv[j])
      /\ Pending' = Pending /\ NoneLeased' = NoneLeased
  BY <1>1 DEF Drives, Pending, NoneLeased
<1>6. ASSUME NEW i \in Slots, Driven(i) PROVE Mode'
  <2>1. inv[i].phase \notin Writing
    BY <1>4, <1>6 DEF Driven
  <2>2. inv[i].phase # "claimed"
    BY <2>1 DEF Writing
  <2>3. Driven(i)'
    BY <1>1, <1>3, <1>5, <1>6, <2>1, <2>2 DEF Driven
  <2>4. QED
    BY <2>3 DEF Mode
<1>7. ASSUME Over PROVE Mode'
  <2>1. NoneDrives' = NoneDrives
    BY <1>5 DEF NoneDrives
  <2>2. Over'
    BY <1>2, <1>5, <1>7, <2>1 DEF Over, Ended
  <2>3. QED
    BY <2>2 DEF Mode
<1>8. QED
  BY <1>1, <1>4, <1>6, <1>7 DEF Goes, Mode, Parked

-------------------------------------------------------------------------------
(* The steps that are left, and what they leave of the rest.                 *)

QuietMove(i) ==
  \/ Begin(i) \/ Emit(i) \/ CheckStop(i) \/ CheckPause(i) \/ HandOff(i)
  \/ (\E a \in Answers : Answered(i, a)) \/ UseAnswer(i)
  \/ Park(i) \/ CompleteLease(i) \/ Settle(i)
Claims(j) == ClaimAsk(j) \/ ClaimPause(j)
Touches ==
  RequestPause \/ WithdrawPause \/ RequestStop \/ ArchiveRead \/ RestoreRead \/ GoesIdle

(* Nothing dies, nothing is thrown, nobody else ends the run.                *)
LEMMA QuietNext ==
  ASSUME IInv, Numbered, QuietInv, [Next]_vars
  PROVE  \/ \E i \in Slots : QuietMove(i) \/ Release(i) \/ Claims(i)
         \/ EndParked \/ ShelfWrite \/ Touches \/ UNCHANGED vars
<1> DEFINE Left == \/ \E i \in Slots : QuietMove(i) \/ Release(i) \/ Claims(i)
                   \/ EndParked \/ ShelfWrite \/ Touches \/ UNCHANGED vars
<1>a. \A i \in Slots :
        /\ inv[i].phase \notin {"lost", "waiting", "device", "gone", "thrown", "failing"}
        /\ inv[i].phase = "provider" => inv[i].step \in 1..MaxSteps
  BY QuietFacts DEF Steady, Writing
<1>b. \A k \in 1..MaxSteps : receipt[k] # "unknown"
  BY DEF QuietInv, Calm
<1>1. ~Fault
  <2>1. faults \in 0..MaxFaults /\ MaxFaults = 0
    BY DEF IInv, Others, QuietInv, Calm, Undisturbed
  <2>2. QED
    BY <2>1 DEF Fault
<1>2. ASSUME NEW i \in Slots, Begin(i) \/ Release(i) \/ Executes(i) \/ Redeliver(i) \/ Crash(i)
      PROVE  Left
  <2>1. ~Redeliver(i)
    BY <1>a DEF Redeliver
  <2>2. ~Crash(i)
    BY <1>1 DEF Crash
  <2>3. ~DeviceReady(i) /\ ~DeviceAsleep(i) /\ (\A back \in BOOLEAN : ~DeviceNoticed(i, back))
    BY <1>a DEF DeviceReady, DeviceAsleep, DeviceNoticed
  <2>4. ~OutcomeUnknown(i) /\ ~Rethrow(i) /\ ~FailWorkflow(i)
    BY <1>a, <1>b DEF OutcomeUnknown, Rethrow, FailWorkflow
  <2>5. QED
    BY <1>2, <2>1, <2>2, <2>3, <2>4 DEF Executes, QuietMove
<1>3. ASSUME User PROVE Left
  BY <1>3 DEF User, Claims, Touches
<1>4. ~Reap
  <2>1. \A i \in Slots : Driven(i) /\ run.state \in ExecutorHeld => ~run.idle
    BY DEF Driven
  <2>2. run.state \in ExecutorHeld => run.state \notin HumanHeld /\ ~Ended(run.state)
    BY DEF ExecutorHeld, HumanHeld, Ended, Terminal
  <2>3. QED
    BY <2>1, <2>2, QuietFacts DEF Reap, Reapable, Mode, Parked, Over
<1>5. \A i \in Slots : ~GoesSilent(i)
  BY <1>a DEF GoesSilent
<1>6. \A e \in Enders : ~Ends(e)
  <2>1. \A e \in Enders : ender[e].step = "idle"
    BY DEF QuietInv, Calm
  <2>2. QED
    BY <2>1 DEF Ends, CancelWorld, Explain
<1>7. QED
  BY <1>2, <1>3, <1>4, <1>5, <1>6 DEF Next, Touches

LEMMA CalmKept ==
  ASSUME IInv, Numbered, QuietInv, [Next]_vars
  PROVE  Calm'
<1>1. Undisturbed' /\ Calm
  BY DEF QuietInv, Calm, Undisturbed
<1>2. ender' = ender
  <2>1. ASSUME NEW i \in Slots, QuietMove(i) \/ Release(i) \/ Claims(i) PROVE ender' = ender
    BY <2>1 DEF QuietMove, Begin, Emit, CheckStop, CheckPause, HandOff, Answered, UseAnswer, Park,
                CompleteLease, Settle, Release, Claims, ClaimAsk, ClaimPause, Claim
  <2>2. ASSUME EndParked \/ ShelfWrite \/ Touches \/ UNCHANGED vars PROVE ender' = ender
    BY <2>2 DEF EndParked, ShelfWrite, Touches, RequestPause, WithdrawPause, RequestStop,
                ArchiveRead, RestoreRead, GoesIdle, vars
  <2>3. QED
    BY <2>1, <2>2, QuietNext
<1>3. \A k \in 1..MaxSteps : receipt'[k] # "unknown"
  <2>1. ASSUME NEW i \in Slots, NEW a \in Answers, Answered(i, a)
        PROVE  \A k \in 1..MaxSteps : receipt'[k] # "unknown"
    <3>1. receipt' = [receipt EXCEPT ![inv[i].step] = a] /\ a # "unknown"
      BY <2>1 DEF Answered, Answers
    <3>2. receipt \in [1..MaxSteps -> Receipts]
      BY DEF IInv, Others
    <3>3. QED
      BY <1>1, <3>1, <3>2 DEF Calm
  <2>2. ASSUME receipt' = receipt PROVE \A k \in 1..MaxSteps : receipt'[k] # "unknown"
    BY <1>1, <2>2 DEF Calm
  <2>3. ASSUME NEW i \in Slots, QuietMove(i) \/ Release(i) \/ Claims(i)
        PROVE  receipt' = receipt \/ \E a \in Answers : Answered(i, a)
    BY <2>3 DEF QuietMove, Begin, Emit, CheckStop, CheckPause, HandOff, UseAnswer, Park,
                CompleteLease, Settle, Release, Claims, ClaimAsk, ClaimPause, Claim
  <2>4. ASSUME EndParked \/ ShelfWrite \/ Touches \/ UNCHANGED vars PROVE receipt' = receipt
    BY <2>4 DEF EndParked, ShelfWrite, Touches, RequestPause, WithdrawPause, RequestStop,
                ArchiveRead, RestoreRead, GoesIdle, vars
  <2>5. QED
    BY <2>1, <2>2, <2>3, <2>4, QuietNext
<1>4. shelf'.op \in {"archive", "restore"} => Ended(shelf'.to) /\ Ended(run'.state)
  <2> DEFINE Shelved == shelf'.op \in {"archive", "restore"} => Ended(shelf'.to) /\ Ended(run'.state)
  <2>1. Ended(run.state) => Ended(run'.state)
    BY RowKept DEF RowStep
  <2>2. ASSUME shelf' = shelf PROVE Shelved
    BY <1>1, <2>1, <2>2 DEF Calm
  <2>3. ASSUME NEW i \in Slots, QuietMove(i) \/ Release(i) \/ Claims(i) PROVE shelf' = shelf
    BY <2>3 DEF QuietMove, Begin, Emit, CheckStop, CheckPause, HandOff, Answered, UseAnswer, Park,
                CompleteLease, Settle, Release, Claims, ClaimAsk, ClaimPause, Claim
  <2>4. ASSUME \/ EndParked \/ RequestPause \/ WithdrawPause \/ RequestStop \/ GoesIdle
               \/ UNCHANGED vars
        PROVE  shelf' = shelf
    BY <2>4 DEF EndParked, RequestPause, WithdrawPause, RequestStop, GoesIdle, vars
  <2>5. ASSUME ArchiveRead PROVE Shelved
    BY <2>5 DEF ArchiveRead, Archivable, Ended, Terminal
  <2>6. ASSUME RestoreRead PROVE Shelved
    <3>1. shelf'.to \in Archivable /\ run'.state = "archived"
      BY <2>6 DEF RestoreRead, IInv, Others
    <3>2. QED
      BY <3>1 DEF Archivable, Ended, Terminal
  <2>7. ASSUME ShelfWrite PROVE Shelved
    <3>1. shelf'.op \in {"shelved", "restored"}
      BY <2>7 DEF ShelfWrite, IInv, Others
    <3>2. QED
      BY <3>1
  <2> HIDE DEF Shelved
  <2>8. Shelved
    BY <2>2, <2>3, <2>4, <2>5, <2>6, <2>7, QuietNext DEF Touches
  <2>9. QED
    BY <2>8 DEF Shelved
<1>5. QED
  BY <1>1, <1>2, <1>3, <1>4 DEF Calm, Ended

LEMMA LeaseKept ==
  ASSUME IInv, Numbered, QuietInv, [Next]_vars
  PROVE  LeaseHeld'
<1>1. /\ inv \in [Slots -> Invocation] /\ \A i \in Slots : inv[i] \in Invocation
      /\ LeaseHeld /\ LeaseTaken /\ DecisionUsedOnce /\ Mode
      /\ cps \in Seq(Checkpoint) /\ \A d \in DOMAIN cps : cps[d] \in Checkpoint
  BY QuietFacts
<1>2. ASSUME NEW j \in Slots, NEW kind, NEW state, Claim(j, kind, state) PROVE LeaseHeld'
  <2>1. PICK c \in Claimable(kind) :
          /\ cps' = [cps EXCEPT ![c].state = "resuming", ![c].lease = j]
          /\ inv' = [inv EXCEPT ![j].phase = "claimed", ![j].cp = c,
                                ![j].how = IF kind = "pause" THEN "unpaused" ELSE "answered",
                                ![j].from = [seq |-> cps[c].seq, step |-> cps[c].step]]
    BY <1>2, Zenon DEF Claim
  <2>2. c \in DOMAIN cps /\ cps[c].state = "pending"
    BY DEF Claimable, Pending
  <2>3. cps'[c].lease = j /\ \A d \in DOMAIN cps : d # c => cps'[d] = cps[d]
    BY <1>1, <2>1, <2>2 DEF Checkpoint
  <2>4. inv'[j].cp = c /\ \A i \in Slots : i # j => inv'[i] = inv[i]
    BY <1>1, <2>1 DEF Invocation
  <2>5. ASSUME NEW i \in Slots, inv'[i].cp # 0, inv'[i].phase # "void"
        PROVE  cps'[inv'[i].cp].lease = i
    <3>1. CASE i = j
      BY <2>3, <2>4, <3>1
    <3>2. CASE i # j
      BY <1>1, <2>2, <2>3, <2>4, <2>5, <3>2 DEF LeaseHeld, LeaseTaken
    <3>3. QED
      BY <3>1, <3>2
  <2>6. QED
    BY <2>5 DEF LeaseHeld
<1>3. CASE \E j \in Slots : Claims(j)
  BY <1>2, <1>3 DEF Claims, ClaimAsk, ClaimPause
<1>4. CASE SameLeases
  <2>1. \A i \in Slots : inv'[i].cp # 0 /\ inv'[i].phase # "void" =>
          /\ inv'[i].cp = inv[i].cp /\ inv[i].cp # 0 /\ inv[i].phase # "void"
          /\ inv[i].cp \in DOMAIN cps /\ cps[inv[i].cp].lease = i
          /\ cps[inv[i].cp].state # "pending"
    BY <1>1, <1>4 DEF SameLeases, LeaseHeld, LeaseTaken
  <2>2. ASSUME \A c \in DOMAIN cps : cps'[c].lease = cps[c].lease PROVE LeaseHeld'
    BY <2>1, <2>2 DEF LeaseHeld
  <2>3. ASSUME NEW i \in Slots, Park(i) PROVE LeaseHeld'
    <3>1. CASE Pending # {}
      BY <2>2, <2>3, <3>1 DEF Park
    <3>2. CASE Pending = {}
      BY <2>2, <2>3, <3>2, ParkWrites
    <3>3. QED
      BY <3>1, <3>2
  <2>4. ASSUME NEW i \in Slots, CompleteLease(i) PROVE LeaseHeld'
    <3> DEFINE c == inv[i].cp
               s == Concluded(cps[c].state, inv[i].outcome)
    <3>1. \/ cps' = cps
          \/ c # 0 /\ cps' = [cps EXCEPT ![c] = [cps[c] EXCEPT !.state = s]]
      BY <2>4 DEF CompleteLease
    <3>2. ASSUME NEW t, NEW d \in DOMAIN cps
          PROVE  [cps EXCEPT ![c] = [cps[c] EXCEPT !.state = t]][d].lease = cps[d].lease
      BY <1>1 DEF Checkpoint
    <3>3. CASE cps' = [cps EXCEPT ![c] = [cps[c] EXCEPT !.state = s]]
      <4> HIDE DEF s, c
      <4>1. \A d \in DOMAIN cps : cps'[d].lease = cps[d].lease
        BY <3>2, <3>3
      <4>2. QED
        BY <2>2, <4>1
    <3>4. QED
      BY <2>2, <3>1, <3>3
  <2>5. ASSUME NEW j \in Slots, Release(j) PROVE LeaseHeld'
    <3> DEFINE c == inv[j].cp
    <3>1. /\ inv[j].phase = "claimed" /\ c # 0
          /\ inv' = [inv EXCEPT ![j].phase = "void"]
          /\ cps' = cps \/ cps' = [cps EXCEPT ![c].state = "pending", ![c].lease = 0]
      BY <2>5 DEF Release, Goto
    <3>2. inv'[j].phase = "void"
      BY <1>1, <3>1 DEF Invocation
    <3>3. \A d \in DOMAIN cps : d # c => cps'[d] = cps[d]
      BY <1>1, <3>1
    <3>4. ASSUME NEW i \in Slots, inv'[i].cp # 0, inv'[i].phase # "void"
          PROVE  cps'[inv'[i].cp].lease = i
      <4>1. i # j /\ inv[i].phase # "void" /\ inv[i].cp # 0 /\ inv'[i].cp = inv[i].cp
        BY <2>1, <3>2, <3>4
      <4>2. inv[i].cp # inv[j].cp
        BY <1>1, <3>1, <4>1 DEF DecisionUsedOnce
      <4>3. QED
        BY <2>1, <3>3, <3>4, <4>1, <4>2
    <3>5. QED
      BY <3>4 DEF LeaseHeld
  <2>6. ASSUME EndParked PROVE LeaseHeld'
    <3>1. CASE cps' = cps
      BY <2>2, <3>1
    <3>2. ASSUME NEW c \in Pending, cps' = [cps EXCEPT ![c].state = "failed", ![c].lease = 0]
          PROVE  LeaseHeld'
      <4>1. cps[c].state = "pending" /\ \A d \in DOMAIN cps : d # c => cps'[d] = cps[d]
        BY <1>1, <3>2 DEF Pending
      <4>2. QED
        BY <2>1, <4>1 DEF LeaseHeld
    <3>3. QED
      BY <2>6, <3>1, <3>2 DEF EndParked
  <2>7. ASSUME NEW i \in Slots,
               \/ Begin(i) \/ Emit(i) \/ CheckStop(i) \/ CheckPause(i) \/ HandOff(i)
               \/ (\E a \in Answers : Answered(i, a)) \/ UseAnswer(i) \/ Settle(i)
        PROVE  cps' = cps
    BY <2>7 DEF Begin, Emit, CheckStop, CheckPause, HandOff, Answered, UseAnswer, Settle
  <2>8. ASSUME ShelfWrite \/ Touches \/ UNCHANGED vars PROVE cps' = cps
    BY <2>8 DEF ShelfWrite, Touches, RequestPause, WithdrawPause, RequestStop, ArchiveRead,
                RestoreRead, GoesIdle, vars
  <2>9. \/ (\E i \in Slots : QuietMove(i) \/ Release(i)) \/ EndParked
        \/ ShelfWrite \/ Touches \/ UNCHANGED vars \/ LeaseHeld'
    BY <1>3, QuietNext
  <2>10. cps' = cps => LeaseHeld'
    BY <2>2
  <2>11. QED
    BY <2>3, <2>4, <2>5, <2>6, <2>7, <2>8, <2>9, <2>10 DEF QuietMove
<1>5. QED
  BY <1>3, <1>4, InvKept DEF Claims

(* A write of the row, or a read, that neither the executor nor a checkpoint *)
(* takes part in.                                                            *)
LEMMA TouchesGo ==
  ASSUME IInv, Numbered, QuietInv, Touches \/ UNCHANGED vars
  PROVE  Goes
<1>1. /\ run \in Row /\ Mode /\ \A j \in Slots : Steady(inv[j])
  BY QuietFacts
<1>2. inv' = inv /\ cps' = cps
  BY DEF Touches, RequestPause, WithdrawPause, RequestStop, ArchiveRead, RestoreRead, GoesIdle,
         vars
<1>3. CASE ArchiveRead \/ RestoreRead \/ UNCHANGED vars
  <2>1. run' = run
    BY <1>3 DEF ArchiveRead, RestoreRead, vars
  <2>2. QED
    BY <1>1, <1>2, <2>1, RowTouched DEF Goes
<1>4. CASE RequestPause \/ WithdrawPause \/ RequestStop
  <2>1. run'.state = run.state /\ run'.last = run.last /\ ~run'.idle
    BY <1>1, <1>4 DEF RequestPause, WithdrawPause, RequestStop, Row
  <2>2. QED
    BY <1>1, <1>2, <2>1, RowTouched DEF Goes
<1>5. CASE GoesIdle
  <2>1. run'.state = run.state /\ run'.last = run.last
    BY <1>1, <1>5 DEF GoesIdle, Row
  <2>2. \A i \in Slots : ~Drives(inv[i])
    BY <1>5 DEF GoesIdle, Drives, Writing, Live, Executing
  <2>3. run.state \notin ExecutorHeld
    BY <1>1, <2>2 DEF Mode, Driven, Parked, Over, ExecutorHeld, HumanHeld, Ended, Terminal
  <2>4. QED
    BY <1>1, <1>2, <2>1, <2>3, RowTouched DEF Goes
<1>6. QED
  BY <1>3, <1>4, <1>5 DEF Touches

LEMMA RunGoesOn ==
  ASSUME IInv, Numbered, QuietInv, [Next]_vars
  PROVE  Goes
<1>1. ASSUME NEW i \in Slots, QuietMove(i) PROVE Goes
  BY <1>1, BeginGoes, EmitGoes, CheckStopGoes, CheckPauseGoes, HandOffGoes, AnsweredGoes,
     UseAnswerGoes, ParkGoes, CompleteLeaseGoes, SettleGoes
     DEF QuietMove
<1>2. ASSUME NEW j \in Slots, Claims(j) PROVE Goes
  <2>1. CASE Claim(j, "ask", "running")
    <3>1. "running" \in ExecutorHeld
      BY DEF ExecutorHeld
    <3>2. QED
      BY <2>1, <3>1, ClaimGoes
  <2>2. CASE Claim(j, "pause", "resuming")
    <3>1. "resuming" \in ExecutorHeld
      BY DEF ExecutorHeld
    <3>2. QED
      BY <2>2, <3>1, ClaimGoes
  <2>3. QED
    BY <1>2, <2>1, <2>2 DEF Claims, ClaimAsk, ClaimPause
<1>3. QED
  BY <1>1, <1>2, QuietNext, ReleaseGoes, EndParkedGoes, ShelfWriteGoes, TouchesGo

LEMMA QuietKept == IInv /\ Numbered /\ QuietInv /\ [Next]_vars => QuietInv'
<1> SUFFICES ASSUME IInv, Numbered, QuietInv, [Next]_vars PROVE QuietInv'
  OBVIOUS
<1>1. Calm' /\ LeaseHeld'
  BY CalmKept, LeaseKept
<1>2. (\A i \in Slots : Steady(inv'[i])) /\ Mode'
  BY RunGoesOn DEF Goes
<1>3. QED
  BY <1>1, <1>2 DEF QuietInv, Steady

LEMMA QuietInit == Init /\ Undisturbed => QuietInv
<1> SUFFICES ASSUME Init, Undisturbed PROVE QuietInv
  OBVIOUS
<1> DEFINE first == [Unused EXCEPT !.phase = "claimed"]
<1>1. /\ 1 \in Slots
      /\ \A i \in Slots : inv[i] = IF i = 1 THEN first ELSE Unused
      /\ run = [state |-> "running", cancel |-> FALSE, pause |-> FALSE, last |-> 0,
                completed |-> FALSE, idle |-> FALSE]
      /\ cps = <<>>
  BY RunAssumption DEF Init, Slots
<1>2. /\ Unused.phase = "none" /\ Unused.held /\ ~Unused.failing /\ ~Unused.device
      /\ Unused.cp = 0
      /\ first.phase = "claimed" /\ first.held /\ ~first.failing /\ ~first.device
      /\ first.cp = 0 /\ first.from.seq = 1
  BY DEF Unused, Undisturbed
<1> HIDE DEF first
<1>3. Steady(Unused) /\ Steady(first) /\ ~Drives(Unused) /\ Drives(first)
  BY <1>2 DEF Steady, Drives, Writing
<1>4. Calm
  BY DEF Calm, Init, Idle, Enders
<1>5. LeaseHeld
  BY <1>1, <1>2 DEF LeaseHeld
<1>6. DOMAIN cps = {}
  BY <1>1
<1>7. Driven(1)
  <2>1. Drives(inv[1]) /\ \A j \in Slots : Drives(inv[j]) => j = 1
    BY <1>1, <1>3
  <2>2. Pending = {}
    BY <1>6 DEF Pending
  <2>3. run.state \in ExecutorHeld /\ run.state \notin HumanHeld /\ ~run.idle /\ run.last = 0
    BY <1>1 DEF ExecutorHeld, HumanHeld
  <2>4. inv[1] = first
    BY <1>1
  <2>5. QED
    BY <1>2, <1>6, <2>1, <2>2, <2>3, <2>4 DEF Driven, Writing
<1>8. QED
  BY <1>1, <1>3, <1>4, <1>5, <1>7 DEF QuietInv, Mode

LEMMA QuietCorrect == Spec /\ Undisturbed => []QuietInv
<1>1. Init /\ Undisturbed => QuietInv
  BY QuietInit
<1>2. IInv /\ Numbered /\ QuietInv /\ [Next]_vars => QuietInv'
  BY QuietKept
<1>3. QED
  BY <1>1, <1>2, InductiveInv, NumberedInv, PTL DEF Spec

(* A run in the hands of a person, of any number of steps, invocations and    *)
(* retries, has a checkpoint that can be claimed, or it is paused, a stop is  *)
(* recorded and the checkpoint is there for the stop to end; as long as no    *)
(* fault takes the number of its event from it.  saveCloudAgent...Checkpoint, *)
(* the claims, the leases given back and cancelHumanHeldCloudAgentRun move    *)
(* the row and the checkpoint together.                                       *)
THEOREM ParkedCorrect == Spec /\ Undisturbed => []ParkedCanBeResumed
<1>1. QuietInv => ParkedCanBeResumed
  <2> SUFFICES ASSUME QuietInv, run.state \in HumanHeld
               PROVE  Resumable \/ (run.state = "paused" /\ run.cancel /\ Pending # {})
    BY DEF ParkedCanBeResumed
  <2>1. ~Ended(run.state)
    BY DEF HumanHeld, Ended, Terminal
  <2>2. PICK c \in DOMAIN cps : Parked(c)
    BY <2>1 DEF QuietInv, Mode, Driven, Over
  <2>3. c \in Pending
    BY <2>2 DEF Parked
  <2>4. CASE cps[c].kind = "ask"
    BY <2>1, <2>3, <2>4 DEF Resumable, Claimable
  <2>5. CASE cps[c].kind = "pause"
    <3>1. run.state = "paused" /\ Claimable("pause") # {}
      BY <2>2, <2>3, <2>5 DEF Parked, Claimable
    <3>2. QED
      BY <2>3, <3>1 DEF Resumable
  <2>6. QED
    BY <2>2, <2>4, <2>5 DEF Parked
<1>2. QED
  BY <1>1, QuietCorrect, PTL

(* When every invocation has come to its end, no lease is left with one, and  *)
(* the run is over or waits for a person: without a fault there is nothing    *)
(* for the reaper to find.                                                    *)
THEOREM NothingLeftCorrect == Spec /\ Undisturbed => []NothingLeftBehind
<1>1. QuietInv => NothingLeftBehind
  <2> SUFFICES ASSUME QuietInv, AtRest
               PROVE  /\ \A c \in DOMAIN cps : cps[c].state # "resuming"
                      /\ run.state \notin ExecutorHeld
    BY DEF NothingLeftBehind
  <2>1. \A i \in Slots : ~Drives(inv[i])
    BY DEF AtRest, Drives, Writing, Live, Executing
  <2>2. \A i \in Slots : ~Driven(i)
    BY <2>1 DEF Driven
  <2>3. NoneLeased /\ (run.state \in HumanHeld \/ Ended(run.state))
    BY <2>2 DEF QuietInv, Mode, Parked, Over
  <2>4. QED
    BY <2>3 DEF NoneLeased, ExecutorHeld, HumanHeld, Ended, Terminal
<1>2. QED
  BY <1>1, QuietCorrect, PTL

(* The number an executor is about to announce an event under is free, after  *)
(* any number of parks, answers and hand-offs: the cursor it carries from     *)
(* step to step and from checkpoint to checkpoint is the journal's own.       *)
THEOREM DroppedCorrect == Spec /\ Undisturbed => []OnlyReplaysAreDropped
<1>1. IInv /\ Numbered /\ QuietInv => OnlyReplaysAreDropped
  <2> SUFFICES ASSUME IInv, Numbered, QuietInv, NEW i \in Slots,
                      inv[i].phase \in {"open", "provider", "park", "ending"},
                      NEW e \in journal
               PROVE  e.seq # inv[i].seq
    BY DEF OnlyReplaysAreDropped
  <2>1. inv[i].phase \in Writing \ {"claimed"}
    BY DEF Writing
  <2>2. inv[i].seq = run.last + 1 /\ run.last \in Nat
    BY <2>1, DriverFacts, QuietFacts
  <2>3. e.seq \in 1..run.last
    BY DEF Numbered, JournalHasNoGaps
  <2>4. QED
    BY <2>2, <2>3
<1>2. QED
  BY <1>1, InductiveInv, NumberedInv, QuietCorrect, PTL

=============================================================================

------------------------------- MODULE AgentRuns -------------------------------
(***************************************************************************)
(* One Managed Cloud agent run of apps/web: its row in cloud_agent_runs,   *)
(* its event journal and its human checkpoints, as the durable workflow    *)
(* that executes it, the user who answers, pauses, stops and shelves it,   *)
(* the stream that watches it and the reaper all write them.               *)
(*                                                                         *)
(* Every statement or transaction is one action.  An invocation is one     *)
(* start of cloudAgentWorkflow: the first one, and one for every           *)
(* checkpoint somebody resumed.  The workflow engine runs its step at      *)
(* least once: a step that died may be delivered again and starts over     *)
(* from its input; operations that have a receipt give the same answer.    *)
(* Events without a state are journaled for their numbers only: the two    *)
(* progress events every model call has at least, and the device notices.  *)
(* Approvals, questions and device steps park a run in the same way: they  *)
(* are the checkpoint kind "ask".                                          *)
(***************************************************************************)
EXTENDS Naturals, Sequences, FiniteSets

CONSTANTS
  MaxSteps,        \* maxSteps of the tool loop
  MaxInvocations,  \* bound: workflows started for the run
  MaxRetries,      \* retries the engine grants a step that throws
  HasDevice,       \* the turn declared a device host
  Watched,         \* a client reads the stream of every invocation
  UserMoves,       \* bound: what the user does besides answering, of "pause", "stop", "shelve"
  MaxFaults        \* bound: crashes, refused cancellations, lost explanations

ASSUME RunAssumption ==
  /\ MaxSteps \in Nat
  /\ MaxInvocations \in Nat \ {0}
  /\ MaxRetries \in Nat
  /\ HasDevice \in BOOLEAN
  /\ Watched \in BOOLEAN
  /\ UserMoves \subseteq {"pause", "stop", "shelve"}
  /\ MaxFaults \in Nat

VARIABLES
  run,      \* the row of cloud_agent_runs
  cps,      \* its checkpoints, by version
  journal,  \* cloud_agent_events: number and state of each event
  told,     \* the endings the user was notified of
  inv,      \* inv[i]: the i-th invocation
  receipt,  \* receipt[k]: what is recorded of the k-th model call
  stop,     \* whether a POST of the cancel route is between its two statements
  shelf,    \* an archive or restore between its read and its write
  ender,    \* ender[e]: the reaper, or a stream that went silent, ending the run
  faults    \* faults so far

vars == <<run, cps, journal, told, inv, receipt, stop, shelf, ender, faults>>

ExecutorHeld == {"queued", "planning", "running", "resuming"}
HumanHeld == {"awaiting_input", "awaiting_approval", "paused"}
Terminal == {"ready_for_review", "completed", "partial", "failed", "timed_out", "cancelled",
             "archived"}
Archivable == Terminal \ {"archived"}
States == ExecutorHeld \cup HumanHeld \cup Terminal
Ended(s) == s \in Terminal

Slots == 1..MaxInvocations
Executing == {"device", "open", "top", "boundary", "provider", "answered", "park", "ending",
              "lease", "settle"}
Live == Executing \cup {"claimed", "thrown", "failing"}
Phases == Live \cup {"none", "waiting", "lost", "void", "gone", "done"}
Openings == {"new", "answered", "unpaused", "continued"}
Answers == {"final", "tools", "ask", "caller", "bad"}
Receipts == Answers \cup {"none", "unknown"}
Outcomes == {"none", "completed", "failed", "cancelled", "awaiting_input", "paused"}

NoEvent == "none"
Enders == {"reaper", "stream"}
Idle == [step |-> "idle", state |-> "none", last |-> 0, world |-> 0]
Unused == [phase |-> "none", how |-> "new", cp |-> 0, from |-> [seq |-> 1, step |-> 0],
           seq |-> 1, step |-> 0, todo |-> <<>>, answer |-> "none", outcome |-> "none",
           retries |-> 0, failing |-> FALSE, held |-> TRUE, device |-> HasDevice,
           watched |-> Watched]

(* The row is written before the workflow is started for it.  Event numbers  *)
(* start at 1 where the code starts at 0, so that "none yet" is 0, not -1.   *)
Init ==
  /\ run = [state |-> "running", cancel |-> FALSE, pause |-> FALSE, last |-> 0,
            completed |-> FALSE, idle |-> FALSE]
  /\ cps = <<>>
  /\ journal = {}
  /\ told = <<>>
  /\ inv = [i \in Slots |-> IF i = 1 THEN [Unused EXCEPT !.phase = "claimed"] ELSE Unused]
  /\ receipt = [k \in 1..MaxSteps |-> "none"]
  /\ stop = "idle"
  /\ shelf = [op |-> "idle", to |-> "none", was |-> "none"]
  /\ ender = [e \in Enders |-> Idle]
  /\ faults = 0

Fault == faults < MaxFaults /\ faults' = faults + 1

-------------------------------------------------------------------------------
(* The two writers of a state.                                               *)

(* LEGACY_AGENT_TASK_STATES: what mapRun shows for a stored state. *)
Legacy(s) ==
  CASE s \in {"planning", "resuming"} -> "running"
    [] s = "awaiting_approval" -> "awaiting_input"
    [] s \in {"partial", "timed_out"} -> "failed"
    [] OTHER -> s

(* NOTIFIED_TERMINAL_EVENTS. *)
Notice(s) ==
  CASE s \in {"ready_for_review", "completed"} -> <<"completed">>
    [] s \in {"failed", "partial", "timed_out"} -> <<"failed">>
    [] OTHER -> <<>>

(* A slip: the writer does not ask what the run was before. *)
NoticeForAnyEnding(before, next, shown) == IF shown = next THEN Notice(next) ELSE <<>>

(* terminalNoticeFor: the write that ended the run owes the notice. *)
TerminalNotice(before, next, shown) ==
  IF ~Ended(before) /\ shown = next THEN Notice(next) ELSE <<>>

(* insert ... on conflict do nothing: a number that is taken keeps its event. *)
Landed(es) == {e \in es : \A g \in journal : g.seq # e.seq}
Last(es) == CHOOSE e \in es : \A g \in es : g.seq <= e.seq
Moving(es) == {e \in Landed(es) : e.state # NoEvent}

(* A slip: completed_at follows the event and not what the run already is. *)
JournaledByEvent(es) ==
  IF Landed(es) = {} THEN run
  ELSE [run EXCEPT !.last = IF @ > Last(es).seq THEN @ ELSE Last(es).seq,
                   !.completed = Moving(es) # {} /\ Ended(Last(Moving(es)).state),
                   !.state = IF Moving(es) = {} \/ Ended(@) THEN @ ELSE Last(Moving(es)).state]

(* The run row after appendCloudAgentEventsWithinTransaction of the events.  *)
Journaled(es) ==
  LET top == Last(es).seq
      late == Moving(es) # {} /\ Last(Moving(es)).seq < run.last
      next == Last(Moving(es)).state
      touched == [run EXCEPT !.last = IF @ > top THEN @ ELSE top, !.idle = FALSE]
  IN  IF Landed(es) = {} THEN run
      ELSE IF Moving(es) = {} \/ late
        THEN [touched EXCEPT !.completed = @ \/ Ended(run.state)]
      ELSE [touched EXCEPT
              !.state = IF Ended(@) /\ ~Ended(next) THEN @ ELSE next,
              !.completed = Ended(run.state) \/ Ended(next)]

Announced(es) ==
  IF Moving(es) = {} THEN <<>>
  ELSE TerminalNotice(run.state, Last(Moving(es)).state, Legacy(Journaled(es).state))

AppendEvents(es) ==
  /\ run' = Journaled(es)
  /\ journal' = journal \cup Landed(es)
  /\ told' = told \o Announced(es)

(* transitionCloudAgentRun: a state that already reads as s is the finer one. *)
Finer(s) == {t \in Terminal \ {s} : Legacy(t) = s}

TransitionedState(s) ==
  IF run.state \in Finer(s) \/ (Ended(run.state) /\ ~Ended(s)) THEN run.state ELSE s

Transition(s) ==
  /\ run' = [run EXCEPT !.state = TransitionedState(s),
                        !.completed = Ended(run.state) \/ Ended(s),
                        !.pause = @ /\ ~Ended(s),
                        !.idle = FALSE]
  /\ told' = told \o TerminalNotice(run.state, s, TransitionedState(s))
  /\ journal' = journal

-------------------------------------------------------------------------------
(* The engine: starting, losing and delivering an invocation again.          *)

Goto(i, phase) == inv' = [inv EXCEPT ![i].phase = phase]
Begun(i) == inv[i].phase \notin {"none", "claimed", "void"}

(* cloud_agent_runs.workflow_run_id names the workflow attached last. *)
Attached(i) == Begun(i) /\ \A j \in Slots : Begun(j) => j <= i

Opening(how) ==
  CASE how = "new" -> <<"queued", "running">>
    [] how \in {"answered", "unpaused"} -> <<"running">>
    [] how = "continued" -> <<>>

(* The step begins, or begins again, from its input. *)
Started(v) ==
  [v EXCEPT !.seq = v.from.seq, !.step = v.from.step, !.todo = Opening(v.how),
            !.phase = IF v.how = "continued" THEN "top" ELSE "open",
            !.answer = "none", !.outcome = "none"]
Invoked(v) == IF v.device THEN [v EXCEPT !.phase = "device"] ELSE Started(v)

(* startCloudAgentWorkflowExecution, which attaches the workflow to the row. *)
Begin(i) ==
  /\ inv[i].phase = "claimed"
  /\ inv' = [inv EXCEPT ![i] = Invoked(@)]
  /\ run' = [run EXCEPT !.idle = FALSE]
  /\ UNCHANGED <<cps, journal, told, receipt, stop, shelf, ender, faults>>

(* The process that executes the step dies, or the route before the start.   *)
(* A model call it was making has been answered, may have been, or was not   *)
(* made yet: its receipt says which.                                         *)
Crash(i) ==
  /\ Fault
  /\ inv[i].phase \in Executing \cup {"failing", "claimed"}
  /\ Goto(i, IF inv[i].phase = "claimed" THEN "void" ELSE "lost")
  /\ IF inv[i].phase = "provider" /\ receipt[inv[i].step] = "none"
       THEN \E r \in Receipts : receipt' = [receipt EXCEPT ![inv[i].step] = r]
       ELSE receipt' = receipt
  /\ UNCHANGED <<run, cps, journal, told, stop, shelf, ender>>

(* Nothing promises that it happens: the reaper is there for the other case. *)
Redeliver(i) ==
  /\ inv[i].phase = "lost"
  /\ inv[i].held
  /\ inv' = [inv EXCEPT ![i] = IF @.failing THEN [@ EXCEPT !.phase = "failing"] ELSE Started(@)]
  /\ UNCHANGED <<run, cps, journal, told, receipt, stop, shelf, ender, faults>>

(* A step that threw is tried again, then the workflow's catch takes over. *)
Rethrow(i) ==
  /\ inv[i].phase = "thrown"
  /\ inv' = [inv EXCEPT ![i] =
       IF ~@.held THEN [@ EXCEPT !.phase = "gone"]
       ELSE IF @.retries < MaxRetries THEN Started([@ EXCEPT !.retries = inv[i].retries + 1])
       ELSE [@ EXCEPT !.phase = "failing", !.failing = TRUE]]
  /\ UNCHANGED <<run, cps, journal, told, receipt, stop, shelf, ender, faults>>

(* A slip: one more than the number that comes next. *)
NumberAfterNext == run.last + 2

(* last_event_sequence + 1, for a writer that does not carry a cursor. *)
NextNumber == run.last + 1

(* failCloudAgentWorkflow reads where the journal ends and continues there.  *)
FailWorkflow(i) ==
  /\ inv[i].phase = "failing"
  /\ inv' = [inv EXCEPT ![i].phase = "ending", ![i].seq = NextNumber,
                        ![i].todo = <<"failed">>, ![i].outcome = "failed"]
  /\ UNCHANGED <<run, cps, journal, told, receipt, stop, shelf, ender, faults>>

-------------------------------------------------------------------------------
(* awaitDeviceClearance: a device that is asleep is waited for.  The notices *)
(* take the next numbers of the journal; the invocation does not learn that. *)

DeviceReady(i) ==
  /\ inv[i].phase = "device"
  /\ inv' = [inv EXCEPT ![i] = Started(@)]
  /\ UNCHANGED <<run, cps, journal, told, receipt, stop, shelf, ender, faults>>

DeviceAsleep(i) ==
  /\ inv[i].phase = "device"
  /\ AppendEvents({[seq |-> NextNumber, state |-> NoEvent]})
  /\ Goto(i, "waiting")
  /\ UNCHANGED <<cps, receipt, stop, shelf, ender, faults>>

(* The device is back, or its tools are withdrawn for the rest of the run. *)
DeviceNoticed(i, back) ==
  /\ inv[i].phase = "waiting" \/ (inv[i].phase = "device" /\ ~back)
  /\ AppendEvents({[seq |-> NextNumber, state |-> NoEvent]})
  /\ inv' = [inv EXCEPT ![i] = Started([@ EXCEPT !.device = back])]
  /\ UNCHANGED <<cps, receipt, stop, shelf, ender, faults>>

-------------------------------------------------------------------------------
(* runToolLoop, driven by executeCloudAgentWorkflowInvocation.               *)

(* The events announced at the beginning and at the end, one append each. *)
Emit(i) ==
  /\ inv[i].phase \in {"open", "ending"}
  /\ AppendEvents({[seq |-> inv[i].seq, state |-> Head(inv[i].todo)]})
  /\ inv' = [inv EXCEPT ![i].seq = @ + 1, ![i].todo = Tail(@),
       ![i].phase = IF Len(inv[i].todo) > 1 THEN @
                    ELSE IF @ = "open" THEN "top" ELSE "lease"]
  /\ UNCHANGED <<cps, receipt, stop, shelf, ender, faults>>

(* flushTerminal, and the outcome the step derives from what it announced. *)
EndsWith(v, state, outcome) ==
  [v EXCEPT !.phase = "ending", !.todo = <<state>>, !.outcome = outcome]

(* The top of the loop: out of steps, stopped, or on. *)
CheckStop(i) ==
  /\ inv[i].phase = "top"
  /\ inv' = [inv EXCEPT ![i] =
       IF @.step >= MaxSteps THEN EndsWith(@, "partial", "failed")
       ELSE IF run.cancel THEN EndsWith(@, "cancelled", "cancelled")
       ELSE [@ EXCEPT !.phase = "boundary"]]
  /\ UNCHANGED <<run, cps, journal, told, receipt, stop, shelf, ender, faults>>

(* isCloudAgentRunPauseRequested: a stop that is recorded goes before a pause. *)
PauseAsked == run.pause /\ ~run.cancel

(* The step boundary: the request to pause is read after the one to stop. *)
CheckPause(i) ==
  /\ inv[i].phase = "boundary"
  /\ inv' = [inv EXCEPT ![i] =
       IF PauseAsked THEN [@ EXCEPT !.phase = "park", !.outcome = "paused"]
       ELSE [@ EXCEPT !.phase = "provider", !.step = inv[i].step + 1]]
  /\ UNCHANGED <<run, cps, journal, told, receipt, stop, shelf, ender, faults>>

(* The time budget of the step is spent: the next step continues from here.  *)
HandOff(i) ==
  /\ inv[i].phase = "boundary"
  /\ ~PauseAsked
  /\ inv[i].step > inv[i].from.step
  /\ inv' = [inv EXCEPT ![i] =
       IF @.held THEN Invoked([@ EXCEPT !.from = [seq |-> inv[i].seq, step |-> inv[i].step],
                                        !.how = "continued", !.retries = 0])
       ELSE [@ EXCEPT !.phase = "gone"]]
  /\ UNCHANGED <<run, cps, journal, told, receipt, stop, shelf, ender, faults>>

(* The model answers and the progress of the call is journaled.  A call that *)
(* has a receipt is not made again.                                          *)
Answered(i, a) ==
  LET k == inv[i].step
      es == {[seq |-> inv[i].seq + d, state |-> NoEvent] : d \in {0, 1}}
  IN  /\ inv[i].phase = "provider"
      /\ receipt[k] \in {"none", a}
      /\ receipt' = [receipt EXCEPT ![k] = a]
      /\ AppendEvents(es)
      /\ inv' = [inv EXCEPT ![i].phase = "answered", ![i].answer = a, ![i].seq = @ + 2]
      /\ UNCHANGED <<cps, stop, shelf, ender, faults>>

(* A call that was made and never recorded is not made again: FatalError. *)
OutcomeUnknown(i) ==
  /\ inv[i].phase = "provider"
  /\ receipt[inv[i].step] = "unknown"
  /\ inv' = [inv EXCEPT ![i].phase = "thrown", ![i].retries = MaxRetries]
  /\ UNCHANGED <<run, cps, journal, told, receipt, stop, shelf, ender, faults>>

(* After the call: tools of the caller are handed to it without announcing    *)
(* an end; for the rest a stop is read before the answer is used.            *)
UseAnswer(i) ==
  /\ inv[i].phase = "answered"
  /\ inv' = [inv EXCEPT ![i] =
       CASE @.answer = "caller" -> [@ EXCEPT !.phase = "lease", !.outcome = "completed"]
         [] @.answer # "caller" /\ run.cancel -> EndsWith(@, "cancelled", "cancelled")
         [] @.answer = "final" /\ ~run.cancel -> EndsWith(@, "ready_for_review", "completed")
         [] @.answer = "bad" /\ ~run.cancel -> EndsWith(@, "failed", "failed")
         [] @.answer = "tools" /\ ~run.cancel -> [@ EXCEPT !.phase = "top"]
         [] @.answer = "ask" /\ ~run.cancel ->
              [@ EXCEPT !.phase = "park", !.outcome = "awaiting_input"]]
  /\ UNCHANGED <<run, cps, journal, told, receipt, stop, shelf, ender, faults>>

-------------------------------------------------------------------------------
(* Parking on a person, and the end of an invocation.                        *)

Pending == {c \in DOMAIN cps : cps[c].state = "pending"}

(* A slip: parking does not ask whether the run has ended. *)
ParkedAnyway(r, state) == [r EXCEPT !.state = state, !.completed = FALSE]

(* RUN_HAS_NOT_ENDED. *)
ParkedRun(r, state) ==
  IF Ended(r.state) THEN r
  ELSE [r EXCEPT !.state = state, !.completed = FALSE, !.pause = @ /\ state # "paused",
                 !.idle = FALSE]

(* A slip: the number of the last event instead of the one after it. *)
NumberOfLast(v) == v.seq

(* next_event_sequence of a checkpoint that parks with one more event. *)
NumberAfter(v) == v.seq + 1

(* saveCloudAgent...Checkpoint: one transaction.  The lease the invocation   *)
(* came from is resolved; the unique index allows one active checkpoint.     *)
Park(i) ==
  LET v == inv[i]
      state == v.outcome
      es == {[seq |-> v.seq, state |-> state]}
      next == [kind |-> IF state = "paused" THEN "pause" ELSE "ask", state |-> "pending",
               lease |-> 0, seq |-> NumberAfter(v), step |-> v.step]
  IN  /\ v.phase = "park"
      /\ IF Pending # {}
           THEN /\ Goto(i, "thrown")
                /\ UNCHANGED <<run, cps, journal, told>>
           ELSE /\ cps' = Append([c \in DOMAIN cps |->
                             IF cps[c].state = "resuming"
                               THEN [cps[c] EXCEPT !.state = "resolved"] ELSE cps[c]], next)
                /\ run' = ParkedRun(Journaled(es), state)
                /\ journal' = journal \cup Landed(es)
                /\ told' = told
                /\ inv' = [inv EXCEPT ![i].phase = "lease", ![i].seq = @ + 1]
      /\ UNCHANGED <<receipt, stop, shelf, ender, faults>>

(* A slip: only a lease whose turn went wrong is given up. *)
ConcludedIfFailed(state, outcome) ==
  IF state = "resuming" /\ outcome \in {"failed", "cancelled"} THEN "failed" ELSE state

(* The checkpoint an invocation came from, once the invocation is over. *)
Concluded(state, outcome) ==
  CASE state = "resuming" /\ outcome \in {"failed", "cancelled"} -> "failed"
    [] state = "resuming" /\ outcome \notin {"failed", "cancelled"} -> "resolved"
    [] OTHER -> state

(* settleWorkflowInvocation, first: completeCloudAgentApprovalCheckpoint by  *)
(* the lease this invocation was started with.                               *)
CompleteLease(i) ==
  LET c == inv[i].cp
  IN  /\ inv[i].phase = "lease"
      /\ IF c = 0
           THEN Goto(i, "settle") /\ cps' = cps
         ELSE IF cps[c].lease = i /\ cps[c].state # "pending"
           THEN /\ cps' = [cps EXCEPT ![c].state = Concluded(@, inv[i].outcome)]
                /\ Goto(i, "settle")
         ELSE Goto(i, "thrown") /\ cps' = cps
      /\ UNCHANGED <<run, journal, told, receipt, stop, shelf, ender, faults>>

(* resolveSettlement: a turn whose receipts include a failed tool is partial. *)
SettledState(outcome) ==
  CASE outcome = "completed" ->
         {"ready_for_review"} \cup
         (IF \E k \in DOMAIN receipt : receipt[k] = "tools" THEN {"partial"} ELSE {})
    [] outcome \in {"failed", "cancelled"} -> {outcome}
    [] OTHER -> {}

(* ... and then the run is moved to what the outcome says, unless it parked. *)
Settle(i) ==
  /\ inv[i].phase = "settle"
  /\ Goto(i, "done")
  /\ \/ \E s \in SettledState(inv[i].outcome) : Transition(s)
     \/ SettledState(inv[i].outcome) = {} /\ UNCHANGED <<run, journal, told>>
  /\ UNCHANGED <<cps, receipt, stop, shelf, ender, faults>>

-------------------------------------------------------------------------------
(* The user: answering, resuming and withdrawing.                            *)

(* A slip: the claim looks for the checkpoint and not for its state. *)
ClaimableAgain(kind) ==
  {c \in DOMAIN cps : cps[c].kind = kind /\ cps[c].state \in {"pending", "resuming"}}

Claimable(kind) == {c \in Pending : cps[c].kind = kind}

(* A slip: the run stays in the hands of the person who has answered. *)
LeftParked(state) == run

TakenBack(state) == [run EXCEPT !.state = state, !.completed = FALSE, !.idle = FALSE]

(* claimCloudAgent...Checkpoint: a lease for a new invocation, which takes   *)
(* the run back from the person; a refused run rolls the claim back.         *)
Claim(j, kind, state) ==
  \E c \in Claimable(kind) :
    /\ inv[j].phase = "none"
    /\ \A i \in 1..(j - 1) : inv[i].phase # "none"
    /\ cps' = [cps EXCEPT ![c].state = "resuming", ![c].lease = j]
    /\ run' = TakenBack(state)
    /\ inv' = [inv EXCEPT ![j].phase = "claimed", ![j].cp = c,
                          ![j].how = IF kind = "pause" THEN "unpaused" ELSE "answered",
                          ![j].from = [seq |-> cps[c].seq, step |-> cps[c].step]]
    /\ UNCHANGED <<journal, told, receipt, stop, shelf, ender, faults>>

ClaimAsk(j) == ~Ended(run.state) /\ Claim(j, "ask", "running")
ClaimPause(j) == run.state = "paused" /\ ~run.cancel /\ Claim(j, "pause", "resuming")

(* release...Checkpoint: is the run still where its claim put it? *)
GivenBack(kind) == IF kind = "pause" THEN run.state = "resuming" ELSE ~Ended(run.state)

(* The route could not start the workflow and gives the lease back. *)
Release(j) ==
  LET c == inv[j].cp
      back == IF cps[c].kind = "pause" THEN "paused" ELSE "awaiting_input"
  IN  /\ inv[j].phase = "claimed"
      /\ c # 0
      /\ Goto(j, "void")
      /\ IF cps[c].lease = j /\ cps[c].state = "resuming"
           THEN /\ cps' = [cps EXCEPT ![c].state = "pending", ![c].lease = 0]
                /\ run' = IF GivenBack(cps[c].kind) THEN TakenBack(back) ELSE run
           ELSE UNCHANGED <<run, cps>>
      /\ UNCHANGED <<journal, told, receipt, stop, shelf, ender, faults>>

RequestPause ==
  /\ "pause" \in UserMoves
  /\ run.state \in ExecutorHeld
  /\ ~run.cancel
  /\ run' = [run EXCEPT !.pause = TRUE, !.idle = FALSE]
  /\ UNCHANGED <<cps, journal, told, inv, receipt, stop, shelf, ender, faults>>

WithdrawPause ==
  /\ run.state \in ExecutorHeld
  /\ run.pause
  /\ run' = [run EXCEPT !.pause = FALSE, !.idle = FALSE]
  /\ UNCHANGED <<cps, journal, told, inv, receipt, stop, shelf, ender, faults>>

-------------------------------------------------------------------------------
(* The user: stopping.  Two statements; what the first one sees decides      *)
(* whether there is a second.                                                *)

RequestStop ==
  /\ "stop" \in UserMoves
  /\ stop = "idle"
  /\ run' = [run EXCEPT !.cancel = TRUE, !.idle = FALSE]
  /\ stop' = IF run.state \in HumanHeld THEN "end" ELSE "idle"
  /\ UNCHANGED <<cps, journal, told, inv, receipt, shelf, ender, faults>>

(* cancelHumanHeldCloudAgentRun: one transaction, and a transition of its    *)
(* own when there was no checkpoint to say where the journal goes on.        *)
EndParked ==
  /\ stop = "end"
  /\ stop' = "idle"
  /\ IF run.state \notin HumanHeld
       THEN UNCHANGED <<run, cps, journal, told>>
     ELSE IF Pending = {}
       THEN Transition("cancelled") /\ cps' = cps
     ELSE \E c \in Pending :
            /\ cps' = [cps EXCEPT ![c].state = "failed", ![c].lease = 0]
            /\ AppendEvents({[seq |-> cps[c].seq, state |-> "cancelled"]})
  /\ UNCHANGED <<inv, receipt, shelf, ender, faults>>

-------------------------------------------------------------------------------
(* The user: the shelf.  Archiving and restoring read, then write.           *)

ArchiveRead ==
  /\ "shelve" \in UserMoves
  /\ shelf.op = "idle"
  /\ run.state \in Archivable
  /\ shelf' = [op |-> "archive", to |-> "archived", was |-> run.state]
  /\ UNCHANGED <<run, cps, journal, told, inv, receipt, stop, ender, faults>>

(* The state the journal announced last, if that is one to restore. *)
LastAnnounced == Last({e \in journal : e.state # NoEvent}).state

RestoreRead ==
  /\ shelf.op = "shelved"
  /\ run.state = "archived"
  /\ \E e \in journal : e.state # NoEvent
  /\ LastAnnounced \in Archivable
  /\ shelf' = [shelf EXCEPT !.op = "restore", !.to = LastAnnounced]
  /\ UNCHANGED <<run, cps, journal, told, inv, receipt, stop, ender, faults>>

ShelfWrite ==
  /\ shelf.op \in {"archive", "restore"}
  /\ Transition(shelf.to)
  /\ shelf' = [shelf EXCEPT !.op = IF @ = "archive" THEN "shelved" ELSE "restored"]
  /\ UNCHANGED <<cps, inv, receipt, stop, ender, faults>>

-------------------------------------------------------------------------------
(* Ending a run nobody drives: the reaper, and a stream that went silent.    *)

(* A slip: states nobody drives any more that the sweep does not know. *)
ReapableButResuming == ExecutorHeld \ {"resuming"}

Reapable == ExecutorHeld

(* The row has not been written for longer than any step or lease can last. *)
GoesIdle ==
  /\ ~run.idle
  /\ \A i \in Slots : inv[i].phase \notin Live
  /\ run' = [run EXCEPT !.idle = TRUE]
  /\ UNCHANGED <<cps, journal, told, inv, receipt, stop, shelf, ender, faults>>

(* reapOrphanedCloudAgentRuns: the row first.  A run reaped before its first *)
(* workflow was attached has no world to cancel.                             *)
Reap ==
  LET state == IF run.cancel THEN "cancelled" ELSE "failed"
  IN  /\ ender["reaper"].step = "idle"
      /\ run.state \in Reapable
      /\ run.idle
      /\ run' = [run EXCEPT !.state = state, !.completed = TRUE, !.idle = FALSE]
      /\ ender' = [ender EXCEPT !["reaper"] =
           [step |-> "world", state |-> state, last |-> run.last,
            world |-> IF \E i \in Slots : Attached(i)
                        THEN CHOOSE i \in Slots : Attached(i) ELSE 0]]
      /\ UNCHANGED <<cps, journal, told, inv, receipt, stop, shelf, faults>>

(* boundDurableStreamLifetime: nothing was written to the stream for longer  *)
(* than a tool call may take.                                                *)
GoesSilent(i) ==
  /\ ender["stream"].step = "idle"
  /\ inv[i].watched
  /\ inv[i].phase \in {"waiting", "lost", "gone"}
  /\ inv' = [inv EXCEPT ![i].watched = FALSE]
  /\ ender' = [ender EXCEPT !["stream"] =
       [step |-> "world", state |-> "failed", last |-> run.last, world |-> i]]
  /\ UNCHANGED <<run, cps, journal, told, receipt, stop, shelf, faults>>

(* getRun(workflowRunId).cancel(), which may be refused.  A step that is     *)
(* being executed goes on to its end.  The stream reads the row after this.  *)
CancelWorld(e, refused) ==
  /\ ender[e].step = "world"
  /\ IF refused \/ ender[e].world = 0 THEN inv' = inv
     ELSE inv' = [inv EXCEPT ![ender[e].world].held = FALSE,
                             ![ender[e].world].phase =
                               IF @ \in {"waiting", "lost"} THEN "gone" ELSE @]
  /\ IF refused THEN Fault ELSE faults' = faults
  /\ ender' = [ender EXCEPT ![e].step = "explain",
                             ![e].last = IF e = "stream" THEN run.last ELSE @]
  /\ UNCHANGED <<run, cps, journal, told, receipt, stop, shelf>>

(* explainCloudAgentRunEnding: why, and the state, after the last event read. *)
Explain(e, fails) ==
  /\ ender[e].step = "explain"
  /\ IF fails THEN Fault /\ UNCHANGED <<run, journal, told>>
     ELSE /\ AppendEvents({[seq |-> ender[e].last + 1, state |-> NoEvent],
                           [seq |-> ender[e].last + 2, state |-> ender[e].state]})
          /\ faults' = faults
  /\ ender' = [ender EXCEPT ![e] = Idle]
  /\ UNCHANGED <<cps, inv, receipt, stop, shelf>>

-------------------------------------------------------------------------------

(* What an invocation does once the engine has it. *)
Executes(i) ==
  \/ DeviceReady(i) \/ DeviceAsleep(i) \/ (\E back \in BOOLEAN : DeviceNoticed(i, back))
  \/ Emit(i) \/ CheckStop(i) \/ CheckPause(i) \/ HandOff(i)
  \/ (\E a \in Answers : Answered(i, a)) \/ OutcomeUnknown(i) \/ UseAnswer(i)
  \/ Park(i) \/ CompleteLease(i) \/ Settle(i) \/ Rethrow(i) \/ FailWorkflow(i)

User ==
  \/ \E j \in Slots : ClaimAsk(j) \/ ClaimPause(j)
  \/ RequestPause \/ WithdrawPause \/ RequestStop
  \/ ArchiveRead \/ RestoreRead

Ends(e) == \E wrong \in BOOLEAN : CancelWorld(e, wrong) \/ Explain(e, wrong)

Next ==
  \/ \E i \in Slots : Begin(i) \/ Release(i) \/ Executes(i) \/ Redeliver(i) \/ Crash(i)
  \/ User \/ EndParked \/ ShelfWrite
  \/ GoesIdle \/ Reap \/ (\E i \in Slots : GoesSilent(i)) \/ (\E e \in Enders : Ends(e))

Spec == Init /\ [][Next]_vars

(* A route that claimed goes on, an executor goes on, the second statement   *)
(* of a request follows the first, time passes, and the reaper's cron comes  *)
(* to a run often enough that nobody keeps touching it for ever.             *)
FairSpec ==
  /\ Spec
  /\ \A i \in Slots : WF_vars(Begin(i) \/ Release(i)) /\ WF_vars(Executes(i))
  /\ WF_vars(EndParked) /\ WF_vars(ShelfWrite)
  /\ WF_vars(GoesIdle) /\ SF_vars(Reap) /\ \A e \in Enders : WF_vars(Ends(e))

-------------------------------------------------------------------------------
(* What must hold.                                                           *)

Row == [state: States, cancel: BOOLEAN, pause: BOOLEAN, last: Nat, completed: BOOLEAN,
        idle: BOOLEAN]
Event == [seq: Nat, state: States \cup {NoEvent}]
Checkpoint ==
  [kind: {"ask", "pause"}, state: {"pending", "resuming", "resolved", "failed"},
   lease: 0..MaxInvocations, seq: Nat, step: Nat]
Invocation ==
  [phase: Phases, how: Openings, cp: Nat, from: [seq: Nat, step: Nat], seq: Nat, step: Nat,
   todo: Seq(States), answer: Answers \cup {"none"}, outcome: Outcomes, retries: Nat,
   failing: BOOLEAN, held: BOOLEAN, device: BOOLEAN, watched: BOOLEAN]
Ending ==
  [step: {"idle", "world", "explain"}, state: {"none", "failed", "cancelled"}, last: Nat,
   world: 0..MaxInvocations]

(* The types of rows, events, checkpoints, invocations and requests under way. *)
TypeOK ==
  /\ run \in Row
  /\ cps \in Seq(Checkpoint)
  /\ journal \subseteq Event
  /\ told \in Seq({"completed", "failed"})
  /\ inv \in [Slots -> Invocation]
  /\ receipt \in [1..MaxSteps -> Receipts]
  /\ stop \in {"idle", "end"}
  /\ shelf \in [op: {"idle", "archive", "shelved", "restore", "restored"},
                to: States \cup {"none"}, was: States \cup {"none"}]
  /\ ender \in [Enders -> Ending]
  /\ faults \in 0..MaxFaults

(* A run that has ended stays ended, whoever still writes: an executor the   *)
(* reaper gave up, a claim, a checkpoint saved late, a stop, a restore.      *)
EndedStaysEnded == [][Ended(run.state) => Ended(run.state')]_vars

(* The three writers agree on completed_at: it is set exactly while the run  *)
(* is over.                                                                  *)
CompletedWhenEnded == run.completed <=> Ended(run.state)

(* However many writers see the run end, the user hears of one ending.       *)
AnnouncedOnce == Len(told) <= 1

(* An answer is acted on by one invocation, and so are a pause lifted twice, *)
(* two devices answering, a lease given back and taken again.                *)
DecisionUsedOnce ==
  \A i, j \in Slots :
    i # j /\ inv[i].cp = inv[j].cp /\ inv[i].cp # 0 =>
      inv[i].phase = "void" \/ inv[j].phase = "void"

(* A claim would find a checkpoint to take. *)
Resumable ==
  \/ ~Ended(run.state) /\ Claimable("ask") # {}
  \/ run.state = "paused" /\ ~run.cancel /\ Claimable("pause") # {}

(* A run in the hands of a person has a checkpoint that can be claimed, or a *)
(* stop is recorded on a paused one: its claim is refused, and a stop that   *)
(* is asked for again finds the checkpoint to end the run with.              *)
ParkedCanBeResumed ==
  run.state \in HumanHeld =>
    Resumable \/ (run.state = "paused" /\ run.cancel /\ Pending # {})

(* The journal has no gaps: a client that has read up to the last number has *)
(* read everything, whoever wrote it and in whatever order they came.        *)
JournalHasNoGaps == {e.seq : e \in journal} = 1..run.last

(* An event an executor announces for the first time finds its number free:  *)
(* only a step that is executed again loses one (instances without faults).  *)
OnlyReplaysAreDropped ==
  \A i \in Slots :
    inv[i].phase \in {"open", "provider", "park", "ending"} =>
      \A e \in journal : e.seq # inv[i].seq

AtRest == \A i \in Slots : inv[i].phase \notin Live \cup {"waiting", "lost"}

(* When every invocation has come to its end, none holds a checkpoint, with  *)
(* which the run could never be resumed or parked again, and the run is over *)
(* or waits for a person: only a fault leaves a run for the reaper.          *)
NothingLeftBehind ==
  AtRest =>
    /\ \A c \in DOMAIN cps : cps[c].state # "resuming"
    /\ run.state \notin ExecutorHeld

(* A run is not left in the hands of an executor for ever: the reaper knows  *)
(* every state one can disappear in.                                         *)
NoneRunsForEver == run.state \in ExecutorHeld ~> run.state \notin ExecutorHeld

-------------------------------------------------------------------------------
(* What the comments of the code promise and an instance refutes.            *)

(* NOTIFIED_TERMINAL_EVENTS, terminalNoticeFor: a run that has come to an    *)
(* ending worth telling the user about has told the user, once its writers   *)
(* are through with it.                                                      *)
EndingIsAnnounced ==
  Notice(run.state) # <<>> /\ (\A e \in Enders : ender[e].step = "idle") /\ AtRest =>
    told # <<>>

(* HUMAN_HELD_TASK_STATES: a stop asked of a run parked on a person is       *)
(* completed by whoever asked; asked of any other, its executor reads it.    *)
StopIsHonoured == run.cancel ~> Ended(run.state)

(* cancelHumanHeldCloudAgentRun: when the stop of a parked run returns, the  *)
(* run has ended, or somebody had resumed it first.                          *)
StopEndsParked ==
  [][stop = "end" /\ stop' = "idle" => run.state' \notin HumanHeld]_vars

(* awaitDeviceClearance: a device that is asleep is waited for, never failed.*)
DeviceIsWaitedFor == \A i \in Slots : inv[i].phase = "waiting" => run.state # "failed"

(* saveCloudAgentPauseCheckpoint: nothing is outstanding in a paused run.    *)
PausedMeansIdle ==
  run.state = "paused" => \A i \in Slots : inv[i].phase # "provider"

(* unarchiveCloudAgentRun: restoring brings back the state the run had.      *)
RestoredAsItWas == shelf.op = "restore" => shelf.to = shelf.was

(* archiveCloudAgentRun: only a run that has stopped goes on the shelf, and  *)
(* only a restore takes it off.                                              *)
ShelfHolds ==
  [][run.state = "archived" => run.state' = "archived" \/ shelf.op = "restore"]_vars
=============================================================================

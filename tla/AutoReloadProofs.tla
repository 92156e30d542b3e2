---------------------------- MODULE AutoReloadProofs ----------------------------
(***************************************************************************)
(* What TLAPS proves of auto reload, for any number of processes, attempts  *)
(* and faults, and any thresholds: its type, PaidIsNamed, GrantedOnce,      *)
(* OnlyPaymentsRenew and ChargedOnlyWhenDue.                                *)
(***************************************************************************)
EXTENDS AutoReload, TLAPS

Drawing == {"confirm", "recheck", "charge"}

(* A process that has come past the lease works for an attempt that was drawn. *)
Numbered ==
  /\ row.attempt <= issued
  /\ \A p \in Procs :
       /\ run[p].attempt <= issued
       /\ run[p].at \in {"idle", "acquire"} <=> run[p].attempt = 0

(* A process that is going to charge has the row to itself. *)
AloneAt(p) ==
  /\ row.attempt = run[p].attempt /\ row.lease = "live" /\ ~row.failed
  /\ pay[run[p].attempt] = "none"
  /\ \A q \in Procs \ {p} : run[q].attempt # run[p].attempt

Alone == \A p \in Procs : run[p].at \in Drawing => AloneAt(p)

(* What a process knows of the payment of its attempt is still true of it. *)
Known(p) ==
  LET a == run[p].attempt IN
  /\ run[p].at = "charge" => due = a
  /\ run[p].at = "release" => pay[a] = "none"
  /\ run[p].at = "cancel" => pay[a] \in {"refused", "canceled"}
  /\ run[p].at = "settle" => pay[a] = "succeeded" /\ (run[p].applied => granted[a] > 0)
  /\ run[p].at = "resolve" =>
       /\ run[p].seen = "none" => pay[a] = "none"
       /\ run[p].seen = "processing" => pay[a] # "none"
       /\ run[p].seen = "succeeded" => pay[a] = "succeeded"
       /\ run[p].seen \in {"refused", "canceled"} => pay[a] \in {"refused", "canceled"}

(* The books of one attempt. *)
Booking(a) ==
  /\ a > issued => pay[a] = "none"
  /\ hook[a] # "waiting" => pay[a] = "succeeded"
  /\ hook[a] = "applied" => granted[a] > 0

Standing == row.enabled => ~row.failed

Invariant ==
  /\ TypeOK /\ Numbered /\ Standing /\ Alone
  /\ \A p \in Procs : Known(p)
  /\ \A a \in Attempts : Booking(a)
  /\ PaidIsNamed /\ GrantedOnce

-------------------------------------------------------------------------------
(* What the statements on the row leave behind. *)

Consistent(r) == r \in Row /\ (r.attempt = 0 <=> r.lease = "none")

LEMMA FreedRow ==
  ASSUME row \in Row
  PROVE  /\ Freed \in Row /\ Freed.attempt = 0 /\ Freed.lease = "none"
         /\ Freed.enabled = row.enabled /\ Freed.failed = row.failed
<1>1. 0 \in 0..MaxAttempts
  BY BoundAssumption
<1> QED BY <1>1 DEF Freed, Row

LEMMA CompletedRow ==
  ASSUME row \in Row, NEW a, row.attempt = a
  PROVE  /\ Completed(a) \in Row /\ Completed(a).attempt = 0 /\ Completed(a).lease = "none"
         /\ Completed(a).enabled = row.enabled /\ ~Completed(a).failed
  BY FreedRow DEF Completed, Row

LEMMA FailedRow ==
  ASSUME row \in Row, NEW a, row.attempt = a
  PROVE  /\ Failed(a) \in Row /\ Failed(a).attempt = 0 /\ Failed(a).lease = "none"
         /\ ~Failed(a).enabled
  BY FreedRow DEF Failed, Row

LEMMA RowsTyped ==
  ASSUME TypeOK, NEW a \in Attempts
  PROVE  Consistent(Released(a)) /\ Consistent(Extended(a)) /\ Consistent(Completed(a))
         /\ Consistent(Failed(a))
<1>1. Consistent(row) /\ a # 0
  BY DEF TypeOK, Consistent, Attempts
<1>2. Consistent(Released(a)) BY <1>1, FreedRow DEF Released, Consistent
<1>3. Consistent(Extended(a))
  BY <1>1 DEF Extended, Consistent, Row
<1>4. Consistent(Completed(a)) BY <1>1, CompletedRow DEF Completed, Consistent
<1>5. Consistent(Failed(a)) BY <1>1, FailedRow DEF Failed, Consistent
<1> QED BY <1>2, <1>3, <1>4, <1>5

(* A statement for another attempt than the row names does nothing. *)
LEMMA RowsKept ==
  ASSUME NEW a, row.attempt # a
  PROVE  Released(a) = row /\ Extended(a) = row /\ Completed(a) = row /\ Failed(a) = row
  BY DEF Released, Extended, Completed, Failed

LEMMA RowsGiven ==
  ASSUME TypeOK, NEW a \in Attempts, row.attempt = a
  PROVE  Released(a).attempt = 0 /\ Completed(a).attempt = 0 /\ Failed(a).attempt = 0
<1>1. row \in Row
  BY DEF TypeOK
<1> QED BY <1>1, FreedRow, CompletedRow, FailedRow DEF Released

LEMMA ExtendedRow ==
  ASSUME TypeOK, NEW a \in Attempts
  PROVE  /\ Extended(a).attempt = row.attempt /\ Extended(a).failed = row.failed
         /\ Extended(a).enabled = row.enabled
  BY DEF TypeOK, Row, Extended

(* Whichever it is for, it gives the row no other attempt,
     and no failure to one that is on.    *)
LEMMA RowsStand ==
  ASSUME TypeOK, Standing, NEW a \in Attempts,
         NEW r, r = Released(a) \/ r = Extended(a) \/ r = Completed(a) \/ r = Failed(a)
  PROVE  (r.enabled => ~r.failed) /\ r.attempt \in {0, row.attempt}
<1>1. row \in Row
  BY DEF TypeOK
<1>2. CASE r = Released(a) BY <1>1, <1>2, FreedRow DEF Released, Standing
<1>3. CASE r = Extended(a) BY <1>3, ExtendedRow DEF Standing
<1>4. CASE r = Completed(a) BY <1>1, <1>4, CompletedRow DEF Completed, Standing
<1>5. CASE r = Failed(a) BY <1>1, <1>5, FailedRow DEF Failed, Standing
<1> QED BY <1>2, <1>3, <1>4, <1>5

-------------------------------------------------------------------------------
(* Types. *)

LEMMA IdleTyped == Idle \in Run /\ Idle.at = "idle" /\ Idle.attempt = 0
  BY BoundAssumption DEF Idle, Run, Payment, Balances

LEMMA AttemptsTyped ==
  ASSUME TypeOK, Numbered, NEW p \in Procs, run[p].at \notin {"idle", "acquire"}
  PROVE  run[p].attempt \in Attempts /\ run[p].attempt <= issued
  BY DEF TypeOK, Numbered, Run, Attempts

LEMMA TypeStep ==
  ASSUME TypeOK, Numbered, Next
  PROVE  TypeOK'
<1> USE BoundAssumption, IdleTyped DEF Goes, Leaves, Fault
<1>1. ASSUME NEW p \in Procs, Plan(p) PROVE TypeOK'
  BY <1>1 DEF Plan, TypeOK, Run
<1>2. ASSUME NEW p \in Procs, Look(p) PROVE TypeOK'
  <2>1. [run[p] EXCEPT !.at = "recover", !.attempt = row.attempt] \in Run
    <3>1. run[p] \in Run /\ row.attempt \in 0..MaxAttempts
      BY DEF TypeOK, Row
    <3> QED BY <3>1 DEF Run
  <2> QED BY <1>2, <2>1 DEF Look, TypeOK
<1>3. ASSUME NEW p \in Procs, Acquire(p) PROVE TypeOK'
  <2>1. CASE row.enabled /\ row.attempt = 0
    <3>1. issued + 1 \in 0..MaxAttempts /\ issued + 1 # 0
      BY <1>3, <2>1 DEF Acquire, TypeOK
    <3>2. [run[p] EXCEPT !.at = "confirm", !.attempt = issued + 1] \in Run
      <4>1. run[p] \in Run
        BY DEF TypeOK
      <4> QED BY <3>1, <4>1 DEF Run
    <3>3. Consistent(row')
      <4>1. row \in Row /\ row' = [row EXCEPT !.attempt = issued + 1, !.lease = "live"]
        BY <1>3, <2>1 DEF Acquire, TypeOK
      <4> QED BY <3>1, <4>1 DEF Row, Consistent
    <3>4. run' = [run EXCEPT ![p] = [run[p] EXCEPT !.at = "confirm", !.attempt = issued + 1]]
      BY <1>3, <2>1 DEF Acquire, TypeOK
    <3>5. run' \in [Procs -> Run]
      BY <3>2, <3>4 DEF TypeOK
    <3> QED BY <1>3, <2>1, <3>1, <3>3, <3>5 DEF Acquire, TypeOK, Consistent
  <2>2. CASE ~(row.enabled /\ row.attempt = 0)
    BY <1>3, <2>2 DEF Acquire, TypeOK
  <2> QED BY <2>1, <2>2
<1>4. ASSUME NEW p \in Procs, Confirm(p) \/ Recheck(p) \/ Recover(p) \/ SettleRead(p)
      PROVE  TypeOK'
  <2>1. CASE Confirm(p)
    <3>1. row.threshold \in Balances
      BY DEF TypeOK, Row, Thresholds, Balances
    <3> QED BY <2>1, <3>1 DEF Confirm, TypeOK, Run
  <2>2. CASE Recheck(p)
    <3>1. 0 \in Balances
      BY DEF Balances
    <3>2. run' \in [Procs -> Run]
      BY <2>2, <3>1 DEF Recheck, TypeOK, Run
    <3>3. due' \in 0..MaxAttempts
      BY <2>2 DEF Recheck, TypeOK, Run
    <3> QED BY <2>2, <3>2, <3>3 DEF Recheck, TypeOK
  <2>3. CASE Recover(p)
    <3>1. pay[run[p].attempt] \in Payment
      BY <2>3, AttemptsTyped DEF Recover, TypeOK
    <3>2. [run[p] EXCEPT !.at = IF pay[run[p].attempt] = "none" THEN "release" ELSE "resolve",
                         !.seen = pay[run[p].attempt]] \in Run
      BY <3>1 DEF TypeOK, Run
    <3> QED BY <2>3, <3>2 DEF Recover, TypeOK
  <2>4. CASE SettleRead(p)
    <3>1. [run[p] EXCEPT !.at = "settle", !.applied = granted[run[p].attempt] > 0] \in Run
      <4>1. (granted[run[p].attempt] > 0) \in BOOLEAN
        OBVIOUS
      <4>2. run[p] \in Run
        BY DEF TypeOK
      <4> QED BY <4>1, <4>2 DEF Run
    <3> QED BY <2>4, <3>1 DEF SettleRead, TypeOK
  <2> QED BY <1>4, <2>1, <2>2, <2>3, <2>4
<1>5. ASSUME NEW p \in Procs, Release(p) \/ Extend(p) \/ Fail(p) \/ Unpayable(p) PROVE TypeOK'
  <2>1. run[p].attempt \in Attempts
    BY <1>5, AttemptsTyped DEF Release, Extend, Fail, Unpayable
  <2>2. Consistent(row')
    BY <1>5, <2>1, RowsTyped DEF Release, Extend, Fail, Unpayable, TypeOK, Consistent
  <2>3. run' \in [Procs -> Run]
    BY <1>5 DEF Release, Extend, Fail, Unpayable, TypeOK, Run
  <2> QED BY <1>5, <2>2, <2>3 DEF Release, Extend, Fail, Unpayable, TypeOK, Consistent
<1>6. ASSUME NEW p \in Procs, SettleCommit(p) PROVE TypeOK'
  <2>1. run[p].attempt \in Attempts
    BY <1>6, AttemptsTyped DEF SettleCommit
  <2>2. Consistent(row')
    BY <1>6, <2>1, RowsTyped DEF SettleCommit, Granted, TypeOK, Consistent
  <2>3. granted' \in [Attempts -> Nat]
    <3>1. \/ granted' = granted
          \/ granted' = [granted EXCEPT ![run[p].attempt] = granted[run[p].attempt] + 1]
      BY <1>6, <2>1 DEF SettleCommit, Granted
    <3> QED BY <2>1, <3>1 DEF TypeOK
  <2>4. balance' \in Balances /\ due' \in 0..MaxAttempts
    BY <1>6 DEF SettleCommit, Granted, TypeOK, Balances
  <2> QED BY <1>6, <2>2, <2>3, <2>4 DEF SettleCommit, TypeOK, Consistent
<1>7. ASSUME NEW p \in Procs, Cancel(p) PROVE TypeOK'
  BY <1>7 DEF Cancel, TypeOK, Run, Payment
<1>8. ASSUME NEW p \in Procs, NEW s \in Payment, Charge(p, s) \/ ChargeUnheard(p, s)
      PROVE  TypeOK'
  BY <1>8 DEF Charge, ChargeUnheard, TypeOK, Run, Payment
<1>9. ASSUME NEW p \in Procs, Throws(p) \/ Crash(p) PROVE TypeOK'
  <2>1. 0 \in Balances
    BY DEF Balances
  <2> QED BY <1>9, <2>1 DEF Throws, Crash, TypeOK, Run
<1>10. ASSUME NEW a \in Attempts, HookRead(a) \/ HookRolledBack(a) PROVE TypeOK'
  BY <1>10 DEF HookRead, HookRolledBack, TypeOK
<1>11. ASSUME NEW a \in Attempts, HookCommit(a) PROVE TypeOK'
  <2>1. Consistent(row')
    <3>1. row' = row \/ row' = Completed(a)
      BY <1>11 DEF HookCommit, Granted
    <3> QED BY <3>1, RowsTyped DEF TypeOK, Consistent
  <2>2. granted' \in [Attempts -> Nat]
    <3>1. granted' = granted \/ granted' = [granted EXCEPT ![a] = granted[a] + 1]
      BY <1>11 DEF HookCommit, Granted
    <3> QED BY <3>1 DEF TypeOK
  <2>3. balance' \in Balances /\ due' \in 0..MaxAttempts
    BY <1>11 DEF HookCommit, Granted, TypeOK, Balances
  <2>4. hook' \in [Attempts -> {"waiting", "absent", "applied", "done"}]
    BY <1>11 DEF HookCommit, TypeOK
  <2> QED BY <1>11, <2>1, <2>2, <2>3, <2>4 DEF HookCommit, TypeOK, Consistent
<1>12. ASSUME NEW a \in Attempts, HookFailed(a) PROVE TypeOK'
  BY <1>12, RowsTyped DEF HookFailed, TypeOK, Consistent
<1>13. ASSUME NEW a \in Attempts, Progress(a) PROVE TypeOK'
  BY <1>13 DEF Progress, TypeOK, Payment
<1>14. CASE LeaseLapses \/ Spend \/ TopUp \/ SwitchOff \/ SwitchOn
  BY <1>14 DEF LeaseLapses, Spend, TopUp, SwitchOff, SwitchOn, TypeOK, Row
<1> QED
  BY <1>1, <1>2, <1>3, <1>4, <1>5, <1>6, <1>7, <1>8, <1>9, <1>10, <1>11, <1>12, <1>13, <1>14
     DEF Next, Works, Hook

-------------------------------------------------------------------------------
(* Everything but the types. *)
Rest ==
  /\ Numbered /\ Standing /\ Alone
  /\ \A p \in Procs : Known(p)
  /\ \A a \in Attempts : Booking(a)
  /\ PaidIsNamed /\ GrantedOnce

(* A statement for an attempt leaves the row to the others. *)
LEMMA RowLeft ==
  ASSUME Invariant, NEW a \in Attempts,
         \/ row' = row \/ row' = Released(a) \/ row' = Extended(a)
         \/ row' = Completed(a) \/ row' = Failed(a)
  PROVE  /\ Standing'
         /\ row'.attempt \in {0, row.attempt}
         /\ row.attempt # a => row' = row
         /\ \A q \in Procs :
              run[q].at \in Drawing /\ run[q].attempt # a => row' = row /\ row.attempt # a
<1>1. Standing' /\ row'.attempt \in {0, row.attempt}
  BY RowsStand DEF Invariant, Standing, TypeOK, Row
<1>2. row.attempt # a => row' = row
  BY RowsKept
<1> QED BY <1>1, <1>2 DEF Invariant, Alone, AloneAt

(* What is booked stays booked, once; and nobody is about to charge while it is booked. *)
LEMMA Settled ==
  ASSUME Invariant, NEW a \in Attempts, pay[a] = "succeeded", pay' = pay,
         \/ /\ granted[a] > 0 /\ granted' = granted /\ due' = due
            /\ row' = row \/ row' = Completed(a)
         \/ granted[a] = 0 /\ Granted(a)
  PROVE  /\ row' = row \/ row' = Completed(a)
         /\ PaidIsNamed' /\ GrantedOnce' /\ granted'[a] > 0
         /\ \A b \in Attempts : granted[b] > 0 => granted'[b] > 0
         /\ \A q \in Procs : run[q].at = "charge" => due' = due
<1>1. row' = row \/ row' = Completed(a)
  BY DEF Granted
<1>2. /\ granted'[a] = 1
      /\ \A b \in Attempts \ {a} : granted'[b] = granted[b]
  <2>1. granted[a] \in 0..1
    <3>1. granted[a] \in Nat
      BY DEF Invariant, TypeOK
    <3>2. granted[a] <= 1
      BY DEF Invariant, GrantedOnce
    <3> QED BY <3>1, <3>2
  <2>2. CASE granted[a] > 0
    <3>1. granted[a] # 0 /\ granted[a] = 1
      BY <2>1, <2>2
    <3>2. granted' = granted
      BY <3>1
    <3> QED BY <3>1, <3>2
  <2>3. CASE granted[a] = 0 BY <2>1, <2>3 DEF Granted, Invariant, TypeOK
  <2> QED BY <2>1, <2>2, <2>3
<1>3. PaidIsNamed'
  BY <1>1, <1>2, RowsKept DEF Invariant, PaidIsNamed
<1>4. GrantedOnce'
  BY <1>2 DEF Invariant, GrantedOnce
<1>5. ASSUME NEW q \in Procs, run[q].at = "charge" PROVE due' = due
  <2>1. pay[run[q].attempt] = "none" /\ row.attempt = run[q].attempt
    BY <1>5 DEF Invariant, Alone, AloneAt, Drawing
  <2>2. row.attempt # a
    BY <2>1
  <2>3. granted[a] # 0
    BY <2>2 DEF Invariant, PaidIsNamed
  <2> QED BY <2>3
<1> QED BY <1>1, <1>2, <1>3, <1>4, <1>5

-------------------------------------------------------------------------------
(* What each action leaves of the invariant. *)

LEMMA AcquireStep ==
  ASSUME Invariant, TypeOK', NEW p \in Procs, Acquire(p)
  PROVE  Rest'
<1> USE IdleTyped DEF Goes, Leaves, Fault, Drawing
<1>a. run[p].at = "acquire"
  BY DEF Acquire
<1>b. \A q \in Procs \ {p} : run'[q] = run[q]
  BY DEF Acquire, Invariant, TypeOK
<1>c. row.enabled /\ row.attempt = 0 =>
        /\ run'[p].at = "confirm" /\ run'[p].attempt = issued + 1
        /\ issued' = issued + 1
        /\ row'.attempt = issued + 1 /\ row'.lease = "live" /\ row'.failed = row.failed
  <2> SUFFICES ASSUME row.enabled, row.attempt = 0
               PROVE  /\ run'[p].at = "confirm" /\ run'[p].attempt = issued + 1
                      /\ issued' = issued + 1
                      /\ row'.attempt = issued + 1 /\ row'.lease = "live"
                      /\ row'.failed = row.failed
    OBVIOUS
  <2>1. /\ row \in Row
        /\ row' = [row EXCEPT !.attempt = issued + 1, !.lease = "live"]
        /\ issued' = issued + 1
    BY DEF Acquire, Invariant, TypeOK
  <2>2. run[p] \in Run /\ run'[p] = [run[p] EXCEPT !.at = "confirm", !.attempt = issued + 1]
    BY DEF Acquire, Invariant, TypeOK
  <2> QED BY <2>1, <2>2 DEF Row, Run
<1>d. ~(row.enabled /\ row.attempt = 0) => run'[p] = Idle /\ issued' = issued /\ row' = row
  BY DEF Acquire, Invariant, TypeOK
<1>e. pay' = pay
  BY DEF Acquire
<1>1. Numbered'
  BY <1>b, <1>c, <1>d DEF Invariant, Numbered, TypeOK, Run
<1>2. Standing'
  BY DEF Acquire, Invariant, TypeOK, Run, Row, Standing
<1>3. Alone'
  <2>1. CASE row.enabled /\ row.attempt = 0
    <3> SUFFICES ASSUME NEW q \in Procs, run'[q].at \in Drawing PROVE AloneAt(q)'
      BY DEF Alone, AloneAt
    <3>1. q = p
      <4>1. ASSUME q # p PROVE FALSE
        <5>1. run[q].at \in Drawing /\ row.attempt = run[q].attempt
          BY <1>b, <4>1 DEF Invariant, Alone, AloneAt
        <5>2. run[q].attempt # 0
          BY <5>1 DEF Invariant, Numbered
        <5> QED BY <2>1, <5>1, <5>2
      <4> QED BY <4>1
    <3>2. issued + 1 \in Attempts /\ issued + 1 > issued
      BY <1>c, <2>1 DEF Acquire, Invariant, TypeOK, Attempts
    <3>3. pay'[issued + 1] = "none"
      BY <1>e, <3>2 DEF Invariant, Booking
    <3>4. \A r \in Procs \ {p} : run'[r].attempt # issued + 1
      BY <1>b DEF Invariant, Numbered, TypeOK, Run
    <3>5. ~row'.failed
      BY <1>c, <2>1 DEF Invariant, Standing
    <3> QED BY <1>c, <2>1, <3>1, <3>3, <3>4, <3>5 DEF AloneAt
  <2>2. CASE ~(row.enabled /\ row.attempt = 0)
    BY <1>b, <1>d, <1>e, <2>2 DEF Invariant, Alone, AloneAt, Numbered, TypeOK, Run
  <2> QED BY <2>1, <2>2
<1>4. \A q \in Procs : Known(q)'
  BY <1>b, <1>c, <1>d DEF Acquire, Invariant, Known, TypeOK, Run
<1>5. \A b \in Attempts : Booking(b)'
  BY DEF Acquire, Invariant, TypeOK, Run, Row, Attempts, Booking, Known, Numbered
<1>6. PaidIsNamed'
  BY DEF Acquire, Invariant, TypeOK, Run, Row, Attempts, PaidIsNamed, Known, Numbered
<1>7. GrantedOnce'
  BY DEF Acquire, Invariant, GrantedOnce
<1> QED BY <1>1, <1>2, <1>3, <1>4, <1>5, <1>6, <1>7 DEF Rest

LEMMA ReleaseStep ==
  ASSUME Invariant, TypeOK', NEW p \in Procs, Release(p)
  PROVE  Rest'
<1> USE IdleTyped DEF Goes, Leaves, Fault, Drawing
<1>a. run[p].attempt \in Attempts /\ run[p].at \notin {"idle", "acquire"}
  BY AttemptsTyped DEF Release, Invariant
<1>b. \A q \in Procs \ {p} : run'[q] = run[q]
  BY DEF Release, Invariant, TypeOK
<1>c. /\ Standing' /\ row'.attempt \in {0, row.attempt}
      /\ row.attempt # run[p].attempt => row' = row
      /\ \A q \in Procs :
           run[q].at \in Drawing /\ run[q].attempt # run[p].attempt =>
             row' = row /\ row.attempt # run[p].attempt
  BY <1>a, RowLeft DEF Release
<1>d. run'[p] = Idle
  BY DEF Release, Invariant, TypeOK
<1>1. Numbered'
  BY <1>a, <1>b, <1>c, <1>d DEF Release, Invariant, Numbered, TypeOK, Run, Row
<1>2. Standing'
  BY <1>c
<1>3. Alone'
  <2> SUFFICES ASSUME NEW q \in Procs, run'[q].at \in Drawing PROVE AloneAt(q)'
      BY DEF Alone, AloneAt
  <2>1. q # p /\ run[q].at \in Drawing /\ run[q].attempt # run[p].attempt
    BY <1>a, <1>b, <1>d DEF Invariant, Alone, AloneAt
  <2>2. run[q].attempt # 0 /\ run'[q] = run[q]
    BY <1>b, <2>1, AttemptsTyped DEF Invariant, Attempts
  <2>3. AloneAt(q)
    BY <2>1 DEF Invariant, Alone, AloneAt
  <2>4. \A r \in Procs \ {q} : run'[r].attempt # run[q].attempt
    BY <1>b, <1>d, <2>1, <2>2, <2>3 DEF AloneAt
  <2>5. row' = row /\ pay' = pay
    BY <1>c, <2>1 DEF Release
  <2> QED BY <2>2, <2>3, <2>4, <2>5 DEF AloneAt
<1>4. \A q \in Procs : Known(q)'
  BY DEF Release, Invariant, Known
<1>5. \A b \in Attempts : Booking(b)'
  BY DEF Release, Invariant, Booking
<1>6. PaidIsNamed'
  BY <1>a, <1>c, <1>d, RowsGiven, ExtendedRow DEF Release, Invariant, PaidIsNamed, Known, TypeOK
<1>7. GrantedOnce'
  BY DEF Release, Invariant, GrantedOnce
<1> QED BY <1>1, <1>2, <1>3, <1>4, <1>5, <1>6, <1>7 DEF Rest

LEMMA ExtendStep ==
  ASSUME Invariant, TypeOK', NEW p \in Procs, Extend(p)
  PROVE  Rest'
<1> USE IdleTyped DEF Goes, Leaves, Fault, Drawing
<1>a. run[p].attempt \in Attempts /\ run[p].at \notin {"idle", "acquire"}
  BY AttemptsTyped DEF Extend, Invariant
<1>b. \A q \in Procs \ {p} : run'[q] = run[q]
  BY DEF Extend, Invariant, TypeOK
<1>c. /\ Standing' /\ row'.attempt \in {0, row.attempt}
      /\ row.attempt # run[p].attempt => row' = row
      /\ \A q \in Procs :
           run[q].at \in Drawing /\ run[q].attempt # run[p].attempt =>
             row' = row /\ row.attempt # run[p].attempt
  BY <1>a, RowLeft DEF Extend
<1>d. run'[p] = Idle
  BY DEF Extend, Invariant, TypeOK
<1>1. Numbered'
  BY <1>a, <1>b, <1>c, <1>d DEF Extend, Invariant, Numbered, TypeOK, Run, Row
<1>2. Standing'
  BY <1>c
<1>3. Alone'
  <2> SUFFICES ASSUME NEW q \in Procs, run'[q].at \in Drawing PROVE AloneAt(q)'
      BY DEF Alone, AloneAt
  <2>1. q # p /\ run[q].at \in Drawing /\ run[q].attempt # run[p].attempt
    BY <1>a, <1>b, <1>d DEF Invariant, Alone, AloneAt
  <2>2. run[q].attempt # 0 /\ run'[q] = run[q]
    BY <1>b, <2>1, AttemptsTyped DEF Invariant, Attempts
  <2>3. AloneAt(q)
    BY <2>1 DEF Invariant, Alone, AloneAt
  <2>4. \A r \in Procs \ {q} : run'[r].attempt # run[q].attempt
    BY <1>b, <1>d, <2>1, <2>2, <2>3 DEF AloneAt
  <2>5. row' = row /\ pay' = pay
    BY <1>c, <2>1 DEF Extend
  <2> QED BY <2>2, <2>3, <2>4, <2>5 DEF AloneAt
<1>4. \A q \in Procs : Known(q)'
  BY DEF Extend, Invariant, Known
<1>5. \A b \in Attempts : Booking(b)'
  BY DEF Extend, Invariant, Booking
<1>6. PaidIsNamed'
  BY <1>a, <1>c, <1>d, RowsGiven, ExtendedRow DEF Extend, Invariant, PaidIsNamed, Known, TypeOK
<1>7. GrantedOnce'
  BY DEF Extend, Invariant, GrantedOnce
<1> QED BY <1>1, <1>2, <1>3, <1>4, <1>5, <1>6, <1>7 DEF Rest

LEMMA FailStep ==
  ASSUME Invariant, TypeOK', NEW p \in Procs, Fail(p)
  PROVE  Rest'
<1> USE IdleTyped DEF Goes, Leaves, Fault, Drawing
<1>a. run[p].attempt \in Attempts /\ run[p].at \notin {"idle", "acquire"}
  BY AttemptsTyped DEF Fail, Invariant
<1>b. \A q \in Procs \ {p} : run'[q] = run[q]
  BY DEF Fail, Invariant, TypeOK
<1>c. /\ Standing' /\ row'.attempt \in {0, row.attempt}
      /\ row.attempt # run[p].attempt => row' = row
      /\ \A q \in Procs :
           run[q].at \in Drawing /\ run[q].attempt # run[p].attempt =>
             row' = row /\ row.attempt # run[p].attempt
  BY <1>a, RowLeft DEF Fail
<1>d. /\ run'[p].at \in {"idle", "cancel"}
      /\ run'[p].at = "idle" => run'[p].attempt = 0
      /\ run'[p].at = "cancel" => run'[p].attempt = run[p].attempt /\ run[p].seen = "refused"
  BY DEF Fail, Invariant, TypeOK, Run
<1>1. Numbered'
  BY <1>a, <1>b, <1>c, <1>d DEF Fail, Invariant, Numbered, TypeOK, Run, Row
<1>2. Standing'
  BY <1>c
<1>3. Alone'
  <2> SUFFICES ASSUME NEW q \in Procs, run'[q].at \in Drawing PROVE AloneAt(q)'
      BY DEF Alone, AloneAt
  <2>1. q # p /\ run[q].at \in Drawing /\ run[q].attempt # run[p].attempt
    BY <1>a, <1>b, <1>d DEF Invariant, Alone, AloneAt
  <2>2. run[q].attempt # 0 /\ run'[q] = run[q]
    BY <1>b, <2>1, AttemptsTyped DEF Invariant, Attempts
  <2>3. AloneAt(q)
    BY <2>1 DEF Invariant, Alone, AloneAt
  <2>4. \A r \in Procs \ {q} : run'[r].attempt # run[q].attempt
    BY <1>b, <1>d, <2>1, <2>2, <2>3 DEF AloneAt
  <2>5. row' = row /\ pay' = pay
    BY <1>c, <2>1 DEF Fail
  <2> QED BY <2>2, <2>3, <2>4, <2>5 DEF AloneAt
<1>4. \A q \in Procs : Known(q)'
  BY <1>b, <1>d DEF Fail, Invariant, Known
<1>5. \A b \in Attempts : Booking(b)'
  BY DEF Fail, Invariant, Booking
<1>6. PaidIsNamed'
  BY <1>a, <1>c, <1>d, RowsGiven, ExtendedRow DEF Fail, Invariant, PaidIsNamed, Known, TypeOK
<1>7. GrantedOnce'
  BY DEF Fail, Invariant, GrantedOnce
<1> QED BY <1>1, <1>2, <1>3, <1>4, <1>5, <1>6, <1>7 DEF Rest

LEMMA LeaseLapsesStep ==
  ASSUME Invariant, TypeOK', LeaseLapses
  PROVE  Rest'
<1> USE IdleTyped DEF Goes, Leaves, Fault, Drawing
<1>1. Numbered'
  BY DEF LeaseLapses, Invariant, Numbered
<1>2. Standing'
  BY DEF LeaseLapses, Invariant, Standing
<1>3. Alone'
  BY DEF LeaseLapses, Charging, Invariant, TypeOK, Row, Alone, AloneAt
<1>4. \A q \in Procs : Known(q)'
  BY DEF LeaseLapses, Invariant, Known
<1>5. \A b \in Attempts : Booking(b)'
  BY DEF LeaseLapses, Invariant, Booking
<1>6. PaidIsNamed'
  BY DEF LeaseLapses, Invariant, PaidIsNamed
<1>7. GrantedOnce'
  BY DEF LeaseLapses, Invariant, GrantedOnce
<1> QED BY <1>1, <1>2, <1>3, <1>4, <1>5, <1>6, <1>7 DEF Rest

LEMMA RecheckStep ==
  ASSUME Invariant, TypeOK', NEW p \in Procs, Recheck(p)
  PROVE  Rest'
<1> USE IdleTyped DEF Goes, Leaves, Fault, Drawing
<1>a. \A q \in Procs \ {p} : run'[q] = run[q]
  BY DEF Recheck, Invariant, TypeOK
<1>b. /\ run[p].at = "recheck" /\ run'[p].at \in {"charge", "release"}
      /\ run'[p].attempt = run[p].attempt
  BY DEF Recheck, Invariant, TypeOK, Run
<1>c. run'[p].at = "charge" => due' = run[p].attempt
  BY DEF Recheck, StillDue, Invariant, TypeOK, Run
<1>d. \A q \in Procs \ {p} : run[q].at # "charge"
  BY <1>b DEF Invariant, Alone, AloneAt, Drawing
<1>1. Numbered'
  BY <1>a, <1>b DEF Invariant, Recheck, Numbered, TypeOK, Run
<1>2. Standing'
  BY DEF Recheck, Invariant, Standing
<1>3. Alone'
  BY DEF Recheck, Invariant, TypeOK, Run, Alone, AloneAt
<1>4. \A q \in Procs : Known(q)'
  BY <1>a, <1>b, <1>c, <1>d DEF Invariant, Recheck, Known, Alone, AloneAt
<1>5. \A b \in Attempts : Booking(b)'
  BY DEF Recheck, Invariant, Booking
<1>6. PaidIsNamed'
  BY DEF Recheck, Invariant, PaidIsNamed
<1>7. GrantedOnce'
  BY DEF Recheck, Invariant, GrantedOnce
<1> QED BY <1>1, <1>2, <1>3, <1>4, <1>5, <1>6, <1>7 DEF Rest

LEMMA RecoverStep ==
  ASSUME Invariant, TypeOK', NEW p \in Procs, Recover(p)
  PROVE  Rest'
<1> USE IdleTyped DEF Goes, Leaves, Fault, Drawing
<1>a. \A q \in Procs \ {p} : run'[q] = run[q]
  BY DEF Recover, Invariant, TypeOK
<1>b. /\ run'[p].at = IF pay[run[p].attempt] = "none" THEN "release" ELSE "resolve"
      /\ run'[p].attempt = run[p].attempt /\ run'[p].seen = pay[run[p].attempt]
  BY DEF Recover, Invariant, TypeOK, Run
<1>1. Numbered'
  BY DEF Recover, Invariant, TypeOK, Run, Numbered
<1>2. Standing'
  BY DEF Recover, Invariant, Standing
<1>3. Alone'
  BY DEF Recover, Invariant, TypeOK, Run, Alone, AloneAt
<1>4. \A q \in Procs : Known(q)'
  BY <1>a, <1>b, AttemptsTyped DEF Invariant, Recover, Known, TypeOK
<1>5. \A b \in Attempts : Booking(b)'
  BY DEF Recover, Invariant, Booking
<1>6. PaidIsNamed'
  BY DEF Recover, Invariant, PaidIsNamed
<1>7. GrantedOnce'
  BY DEF Recover, Invariant, GrantedOnce
<1> QED BY <1>1, <1>2, <1>3, <1>4, <1>5, <1>6, <1>7 DEF Rest

LEMMA SettleCommitStep ==
  ASSUME Invariant, TypeOK', NEW p \in Procs, SettleCommit(p)
  PROVE  Rest'
<1> USE IdleTyped DEF Goes, Leaves, Fault, Drawing
<1>a. run[p].attempt \in Attempts /\ run[p].at \notin {"idle", "acquire"}
  BY AttemptsTyped DEF SettleCommit, Invariant
<1>b. \A q \in Procs \ {p} : run'[q] = run[q]
  BY DEF SettleCommit, Invariant, TypeOK
<1>s. /\ row' = row \/ row' = Completed(run[p].attempt)
      /\ PaidIsNamed' /\ GrantedOnce' /\ granted'[run[p].attempt] > 0
      /\ \A b \in Attempts : granted[b] > 0 => granted'[b] > 0
      /\ \A q \in Procs : run[q].at = "charge" => due' = due
  <2>1. pay[run[p].attempt] = "succeeded" /\ (run[p].applied => granted[run[p].attempt] > 0)
    BY DEF SettleCommit, Invariant, Known
  <2>2. pay' = pay
    BY DEF SettleCommit
  <2>3. \/ /\ granted[run[p].attempt] > 0 /\ granted' = granted /\ due' = due
           /\ row' = row \/ row' = Completed(run[p].attempt)
        \/ granted[run[p].attempt] = 0 /\ Granted(run[p].attempt)
    BY <1>a, <2>1 DEF SettleCommit, Booked, Invariant, TypeOK
  <2> QED BY <1>a, <2>1, <2>2, <2>3, Settled
<1>c. /\ Standing' /\ row'.attempt \in {0, row.attempt}
      /\ row.attempt # run[p].attempt => row' = row
      /\ \A q \in Procs :
           run[q].at \in Drawing /\ run[q].attempt # run[p].attempt =>
             row' = row /\ row.attempt # run[p].attempt
  BY <1>a, <1>s, RowLeft
<1>d. run'[p] = Idle
  BY DEF SettleCommit, Invariant, TypeOK
<1>1. Numbered'
  BY <1>a, <1>b, <1>c, <1>d DEF SettleCommit, Invariant, Numbered, TypeOK, Run, Row
<1>2. Standing'
  BY <1>c
<1>3. Alone'
  <2> SUFFICES ASSUME NEW q \in Procs, run'[q].at \in Drawing PROVE AloneAt(q)'
      BY DEF Alone, AloneAt
  <2>1. q # p /\ run[q].at \in Drawing /\ run[q].attempt # run[p].attempt
    BY <1>a, <1>b, <1>d DEF Invariant, Alone, AloneAt
  <2>2. run[q].attempt # 0 /\ run'[q] = run[q]
    BY <1>b, <2>1, AttemptsTyped DEF Invariant, Attempts
  <2>3. AloneAt(q)
    BY <2>1 DEF Invariant, Alone, AloneAt
  <2>4. \A r \in Procs \ {q} : run'[r].attempt # run[q].attempt
    BY <1>b, <1>d, <2>1, <2>2, <2>3 DEF AloneAt
  <2>5. row' = row /\ pay' = pay
    BY <1>c, <2>1 DEF SettleCommit
  <2> QED BY <2>2, <2>3, <2>4, <2>5 DEF AloneAt
<1>4. \A q \in Procs : Known(q)'
  <2> SUFFICES ASSUME NEW q \in Procs PROVE Known(q)'
    OBVIOUS
  <2>1. CASE q = p BY <1>d, <2>1 DEF Known
  <2>2. CASE q # p
    <3>1. run'[q] = run[q] /\ pay' = pay /\ Known(q)
      BY <1>b, <2>2 DEF SettleCommit, Invariant
    <3>2. run[q].at = "settle" => run[q].attempt \in Attempts
      BY AttemptsTyped DEF Invariant
    <3> QED BY <1>s, <3>1, <3>2 DEF Known
  <2> QED BY <2>1, <2>2
<1>5. \A b \in Attempts : Booking(b)'
  BY <1>s DEF SettleCommit, Invariant, Booking
<1>6. PaidIsNamed'
  BY <1>s
<1>7. GrantedOnce'
  BY <1>s
<1> QED BY <1>1, <1>2, <1>3, <1>4, <1>5, <1>6, <1>7 DEF Rest

LEMMA HookCommitStep ==
  ASSUME Invariant, TypeOK', NEW a \in Attempts, HookCommit(a)
  PROVE  Rest'
<1> USE IdleTyped DEF Goes, Leaves, Fault, Drawing
<1>s. /\ row' = row \/ row' = Completed(a)
      /\ PaidIsNamed' /\ GrantedOnce' /\ granted'[a] > 0
      /\ \A b \in Attempts : granted[b] > 0 => granted'[b] > 0
      /\ \A q \in Procs : run[q].at = "charge" => due' = due
  <2>1. pay[a] = "succeeded" /\ (hook[a] = "applied" => granted[a] > 0)
    BY DEF HookCommit, Invariant, Booking
  <2>2. pay' = pay
    BY DEF HookCommit
  <2>3. \/ /\ granted[a] > 0 /\ granted' = granted /\ due' = due
           /\ row' = row \/ row' = Completed(a)
        \/ granted[a] = 0 /\ Granted(a)
    BY <2>1 DEF HookCommit, Booked, Invariant, TypeOK
  <2> QED BY <2>1, <2>2, <2>3, Settled
<1>c. /\ Standing' /\ row'.attempt \in {0, row.attempt}
      /\ \A q \in Procs :
           run[q].at \in Drawing /\ run[q].attempt # a => row' = row /\ row.attempt # a
  BY <1>s, RowLeft
<1>d. run' = run /\ pay' = pay /\ issued' = issued
  BY DEF HookCommit
<1>1. Numbered'
  BY <1>c, <1>d DEF Invariant, Numbered, TypeOK, Row
<1>2. Standing'
  BY <1>c
<1>3. Alone'
  <2>1. \A q \in Procs : run[q].at \in Drawing => run[q].attempt # a
    BY DEF HookCommit, Invariant, Alone, AloneAt, Booking
  <2> QED BY <1>c, <1>d, <2>1 DEF Invariant, Alone, AloneAt
<1>4. \A q \in Procs : Known(q)'
  <2>1. \A q \in Procs : run[q].at = "settle" => run[q].attempt \in Attempts
    BY AttemptsTyped DEF Invariant
  <2> QED BY <1>s, <1>d, <2>1 DEF Invariant, Known
<1>5. \A b \in Attempts : Booking(b)'
  BY <1>s, <1>d DEF HookCommit, Invariant, Booking, TypeOK
<1>6. PaidIsNamed'
  BY <1>s
<1>7. GrantedOnce'
  BY <1>s
<1> QED BY <1>1, <1>2, <1>3, <1>4, <1>5, <1>6, <1>7 DEF Rest

LEMMA HookFailedStep ==
  ASSUME Invariant, TypeOK', NEW a \in Attempts, HookFailed(a)
  PROVE  Rest'
<1> USE IdleTyped DEF Goes, Leaves, Fault, Drawing
<1>c. Standing' /\ row'.attempt \in {0, row.attempt}
  BY RowLeft DEF HookFailed
<1>1. Numbered'
  BY <1>c DEF HookFailed, Invariant, Numbered, TypeOK, Row
<1>2. Standing'
  BY <1>c
<1>3. Alone'
  BY DEF HookFailed, Invariant, Alone, AloneAt
<1>4. \A q \in Procs : Known(q)'
  BY DEF HookFailed, Invariant, Known
<1>5. \A b \in Attempts : Booking(b)'
  BY DEF HookFailed, Invariant, Booking
<1>6. PaidIsNamed'
  BY DEF HookFailed, Invariant, PaidIsNamed
<1>7. GrantedOnce'
  BY DEF HookFailed, Invariant, GrantedOnce
<1> QED BY <1>1, <1>2, <1>3, <1>4, <1>5, <1>6, <1>7 DEF Rest

LEMMA UnpayableStep ==
  ASSUME Invariant, TypeOK', NEW p \in Procs, Unpayable(p)
  PROVE  Rest'
<1> USE IdleTyped DEF Goes, Leaves, Fault, Drawing
<1>a. run[p].attempt \in Attempts /\ run[p].at \notin {"idle", "acquire"}
  BY AttemptsTyped DEF Unpayable, Invariant
<1>b. \A q \in Procs \ {p} : run'[q] = run[q]
  BY DEF Unpayable, Invariant, TypeOK
<1>c. Standing' /\ row'.attempt \in {0, row.attempt}
  BY <1>a, RowLeft DEF Unpayable
<1>d. /\ \A q \in Procs \ {p} : run'[q] = run[q]
      /\ run'[p].at \in {"idle", "release"}
      /\ run'[p].at = "idle" => run'[p].attempt = 0
      /\ run'[p].at = "release" => run'[p].attempt = run[p].attempt
  BY DEF Unpayable, Invariant, TypeOK, Run
<1>1. Numbered'
  BY <1>a, <1>c, <1>d DEF Unpayable, Invariant, Numbered, TypeOK, Run, Row
<1>2. Standing'
  BY <1>c
<1>3. Alone'
  BY DEF Unpayable, Invariant, TypeOK, Run, Alone, AloneAt
<1>4. \A q \in Procs : Known(q)'
  <2>1. pay[run[p].attempt] = "none"
    BY DEF Unpayable, Invariant, Alone, AloneAt
  <2> QED BY <1>d, <2>1 DEF Unpayable, Invariant, Known
<1>5. \A b \in Attempts : Booking(b)'
  BY DEF Unpayable, Invariant, Booking
<1>6. PaidIsNamed'
  BY DEF Unpayable, Invariant, TypeOK, Run, Row, Attempts, PaidIsNamed, GrantedOnce, Alone,
         AloneAt, Known, Numbered, Booking
<1>7. GrantedOnce'
  BY DEF Unpayable, Invariant, GrantedOnce
<1> QED BY <1>1, <1>2, <1>3, <1>4, <1>5, <1>6, <1>7 DEF Rest

LEMMA PlanStep ==
  ASSUME Invariant, TypeOK', NEW p \in Procs, Plan(p)
  PROVE  Rest'
<1> USE IdleTyped DEF Goes, Leaves, Fault, Drawing
<1>1. Numbered'
  BY DEF Plan, Invariant, Numbered
<1>2. Standing'
  BY DEF Plan, Invariant, Standing
<1>3. Alone'
  BY DEF Plan, Invariant, Alone, AloneAt
<1>4. \A q \in Procs : Known(q)'
  BY DEF Plan, Invariant, Known
<1>5. \A b \in Attempts : Booking(b)'
  BY DEF Plan, Invariant, Booking
<1>6. PaidIsNamed'
  BY DEF Plan, Invariant, PaidIsNamed
<1>7. GrantedOnce'
  BY DEF Plan, Invariant, GrantedOnce
<1> QED BY <1>1, <1>2, <1>3, <1>4, <1>5, <1>6, <1>7 DEF Rest

LEMMA LookStep ==
  ASSUME Invariant, TypeOK', NEW p \in Procs, Look(p)
  PROVE  Rest'
<1> USE IdleTyped DEF Goes, Leaves, Fault, Drawing
<1>1. Numbered'
  BY DEF Look, Invariant, TypeOK, Run, Numbered
<1>2. Standing'
  BY DEF Look, Invariant, Standing
<1>3. Alone'
  BY DEF Look, Invariant, TypeOK, Run, Alone, AloneAt
<1>4. \A q \in Procs : Known(q)'
  BY DEF Look, Invariant, TypeOK, Run, Known
<1>5. \A b \in Attempts : Booking(b)'
  BY DEF Look, Invariant, Booking
<1>6. PaidIsNamed'
  BY DEF Look, Invariant, PaidIsNamed
<1>7. GrantedOnce'
  BY DEF Look, Invariant, GrantedOnce
<1> QED BY <1>1, <1>2, <1>3, <1>4, <1>5, <1>6, <1>7 DEF Rest

LEMMA ConfirmStep ==
  ASSUME Invariant, TypeOK', NEW p \in Procs, Confirm(p)
  PROVE  Rest'
<1> USE IdleTyped DEF Goes, Leaves, Fault, Drawing
<1>a. \A q \in Procs \ {p} : run'[q] = run[q]
  BY DEF Confirm, Invariant, TypeOK
<1>b. /\ run[p].at = "confirm" /\ run'[p].at \in {"recheck", "release"}
      /\ run'[p].attempt = run[p].attempt
  BY DEF Confirm, Invariant, TypeOK, Run
<1>c. pay[run[p].attempt] = "none"
  BY <1>b DEF Invariant, Alone, AloneAt
<1>d. row' = row /\ pay' = pay /\ due' = due /\ issued' = issued /\ granted' = granted
  BY DEF Confirm
<1>1. Numbered'
  BY <1>a, <1>b, <1>d DEF Invariant, Numbered
<1>2. Standing'
  BY DEF Confirm, Invariant, Standing
<1>3. Alone'
  BY <1>a, <1>b, <1>d DEF Invariant, Alone, AloneAt
<1>4. \A q \in Procs : Known(q)'
  <2> SUFFICES ASSUME NEW q \in Procs PROVE Known(q)'
    OBVIOUS
  <2>1. CASE q = p BY <1>b, <1>c, <1>d, <2>1 DEF Known
  <2>2. CASE q # p BY <1>a, <1>d, <2>2 DEF Invariant, Known
  <2> QED BY <2>1, <2>2
<1>5. \A b \in Attempts : Booking(b)'
  BY DEF Confirm, Invariant, Booking
<1>6. PaidIsNamed'
  BY DEF Confirm, Invariant, PaidIsNamed
<1>7. GrantedOnce'
  BY DEF Confirm, Invariant, GrantedOnce
<1> QED BY <1>1, <1>2, <1>3, <1>4, <1>5, <1>6, <1>7 DEF Rest

LEMMA ChargeStep ==
  ASSUME Invariant, TypeOK', NEW p \in Procs, NEW s \in Payment, Charge(p, s)
  PROVE  Rest'
<1> USE IdleTyped DEF Goes, Leaves, Fault, Drawing
<1>1. Numbered'
  BY DEF Charge, Invariant, TypeOK, Run, Numbered
<1>2. Standing'
  BY DEF Charge, Invariant, Standing
<1>3. Alone'
  BY DEF Charge, Invariant, TypeOK, Run, Alone, AloneAt
<1>4. \A q \in Procs : Known(q)'
  BY DEF Charge, Invariant, TypeOK, Run, Row, Attempts, Known, Numbered, Alone, AloneAt,
         PaidIsNamed
<1>5. \A b \in Attempts : Booking(b)'
  BY DEF Charge, Invariant, TypeOK, Run, Row, Attempts, Booking, Known, Alone, AloneAt, Numbered
<1>6. PaidIsNamed'
  BY DEF Charge, Invariant, TypeOK, Run, Row, Attempts, PaidIsNamed, GrantedOnce, Alone,
         AloneAt, Known, Numbered, Booking
<1>7. GrantedOnce'
  BY DEF Charge, Invariant, TypeOK, Run, Row, Attempts, GrantedOnce, Booking, Known, Alone,
         AloneAt
<1> QED BY <1>1, <1>2, <1>3, <1>4, <1>5, <1>6, <1>7 DEF Rest

LEMMA ChargeUnheardStep ==
  ASSUME Invariant, TypeOK', NEW p \in Procs, NEW s \in Payment, ChargeUnheard(p, s)
  PROVE  Rest'
<1> USE IdleTyped DEF Goes, Leaves, Fault, Drawing
<1>1. Numbered'
  BY DEF ChargeUnheard, Invariant, TypeOK, Run, Numbered
<1>2. Standing'
  BY DEF ChargeUnheard, Invariant, Standing
<1>3. Alone'
  BY DEF ChargeUnheard, Invariant, TypeOK, Run, Alone, AloneAt
<1>4. \A q \in Procs : Known(q)'
  BY DEF ChargeUnheard, Invariant, TypeOK, Run, Row, Attempts, Known, Numbered, Alone,
         AloneAt, PaidIsNamed
<1>5. \A b \in Attempts : Booking(b)'
  BY DEF ChargeUnheard, Invariant, TypeOK, Run, Row, Attempts, Booking, Known, Alone,
         AloneAt, Numbered
<1>6. PaidIsNamed'
  BY DEF ChargeUnheard, Invariant, TypeOK, Run, Row, Attempts, PaidIsNamed, GrantedOnce,
         Alone, AloneAt, Known, Numbered, Booking
<1>7. GrantedOnce'
  BY DEF ChargeUnheard, Invariant, TypeOK, Run, Row, Attempts, GrantedOnce, Booking, Known,
         Alone, AloneAt
<1> QED BY <1>1, <1>2, <1>3, <1>4, <1>5, <1>6, <1>7 DEF Rest

LEMMA CancelStep ==
  ASSUME Invariant, TypeOK', NEW p \in Procs, Cancel(p)
  PROVE  Rest'
<1> USE IdleTyped DEF Goes, Leaves, Fault, Drawing
<1>1. Numbered'
  BY DEF Cancel, Invariant, TypeOK, Run, Numbered
<1>2. Standing'
  BY DEF Cancel, Invariant, Standing
<1>3. Alone'
  BY DEF Cancel, Invariant, TypeOK, Run, Row, Attempts, Alone, AloneAt, Known, Numbered
<1>4. \A q \in Procs : Known(q)'
  BY DEF Cancel, Invariant, TypeOK, Run, Row, Attempts, Known, Numbered
<1>5. \A b \in Attempts : Booking(b)'
  BY DEF Cancel, Invariant, TypeOK, Run, Row, Attempts, Booking, Known, Numbered
<1>6. PaidIsNamed'
  BY DEF Cancel, Invariant, TypeOK, Run, PaidIsNamed
<1>7. GrantedOnce'
  BY DEF Cancel, Invariant, TypeOK, Run, Row, Attempts, GrantedOnce, Known, Numbered
<1> QED BY <1>1, <1>2, <1>3, <1>4, <1>5, <1>6, <1>7 DEF Rest

LEMMA SettleReadStep ==
  ASSUME Invariant, TypeOK', NEW p \in Procs, SettleRead(p)
  PROVE  Rest'
<1> USE IdleTyped DEF Goes, Leaves, Fault, Drawing
<1>1. Numbered'
  BY DEF SettleRead, Invariant, TypeOK, Run, Numbered
<1>2. Standing'
  BY DEF SettleRead, Invariant, Standing
<1>3. Alone'
  BY DEF SettleRead, Invariant, TypeOK, Run, Alone, AloneAt
<1>4. \A q \in Procs : Known(q)'
  BY DEF SettleRead, Invariant, TypeOK, Run, Known
<1>5. \A b \in Attempts : Booking(b)'
  BY DEF SettleRead, Invariant, Booking
<1>6. PaidIsNamed'
  BY DEF SettleRead, Invariant, PaidIsNamed
<1>7. GrantedOnce'
  BY DEF SettleRead, Invariant, GrantedOnce
<1> QED BY <1>1, <1>2, <1>3, <1>4, <1>5, <1>6, <1>7 DEF Rest

LEMMA ThrowsStep ==
  ASSUME Invariant, TypeOK', NEW p \in Procs, Throws(p)
  PROVE  Rest'
<1> USE IdleTyped DEF Goes, Leaves, Fault, Drawing
<1>a. \A q \in Procs \ {p} : run'[q] = run[q]
  BY DEF Throws, Invariant, TypeOK
<1>b. /\ run[p].at \in {"confirm", "recheck"} /\ run'[p].at \in {"release"}
      /\ run'[p].attempt = run[p].attempt
  BY DEF Throws, Invariant, TypeOK, Run
<1>c. pay[run[p].attempt] = "none"
  BY <1>b DEF Invariant, Alone, AloneAt
<1>d. row' = row /\ pay' = pay /\ due' = due /\ issued' = issued /\ granted' = granted
  BY DEF Throws
<1>1. Numbered'
  BY <1>a, <1>b, <1>d DEF Invariant, Numbered
<1>2. Standing'
  BY DEF Throws, Invariant, Standing
<1>3. Alone'
  BY <1>a, <1>b, <1>d DEF Invariant, Alone, AloneAt
<1>4. \A q \in Procs : Known(q)'
  <2> SUFFICES ASSUME NEW q \in Procs PROVE Known(q)'
    OBVIOUS
  <2>1. CASE q = p BY <1>b, <1>c, <1>d, <2>1 DEF Known
  <2>2. CASE q # p BY <1>a, <1>d, <2>2 DEF Invariant, Known
  <2> QED BY <2>1, <2>2
<1>5. \A b \in Attempts : Booking(b)'
  BY DEF Throws, Invariant, Booking
<1>6. PaidIsNamed'
  BY DEF Throws, Invariant, PaidIsNamed
<1>7. GrantedOnce'
  BY DEF Throws, Invariant, GrantedOnce
<1> QED BY <1>1, <1>2, <1>3, <1>4, <1>5, <1>6, <1>7 DEF Rest

LEMMA CrashStep ==
  ASSUME Invariant, TypeOK', NEW p \in Procs, Crash(p)
  PROVE  Rest'
<1> USE IdleTyped DEF Goes, Leaves, Fault, Drawing
<1>1. Numbered'
  BY DEF Crash, Invariant, TypeOK, Run, Numbered
<1>2. Standing'
  BY DEF Crash, Invariant, Standing
<1>3. Alone'
  BY DEF Crash, Invariant, TypeOK, Run, Alone, AloneAt
<1>4. \A q \in Procs : Known(q)'
  BY DEF Crash, Invariant, Known
<1>5. \A b \in Attempts : Booking(b)'
  BY DEF Crash, Invariant, Booking
<1>6. PaidIsNamed'
  BY DEF Crash, Invariant, PaidIsNamed
<1>7. GrantedOnce'
  BY DEF Crash, Invariant, GrantedOnce
<1> QED BY <1>1, <1>2, <1>3, <1>4, <1>5, <1>6, <1>7 DEF Rest

LEMMA HookReadStep ==
  ASSUME Invariant, TypeOK', NEW a \in Attempts, HookRead(a)
  PROVE  Rest'
<1> USE IdleTyped DEF Goes, Leaves, Fault, Drawing
<1>1. Numbered'
  BY DEF HookRead, Invariant, Numbered
<1>2. Standing'
  BY DEF HookRead, Invariant, Standing
<1>3. Alone'
  BY DEF HookRead, Invariant, Alone, AloneAt
<1>4. \A q \in Procs : Known(q)'
  BY DEF HookRead, Invariant, Known
<1>5. \A b \in Attempts : Booking(b)'
  BY DEF HookRead, Invariant, Booking
<1>6. PaidIsNamed'
  BY DEF HookRead, Invariant, PaidIsNamed
<1>7. GrantedOnce'
  BY DEF HookRead, Invariant, GrantedOnce
<1> QED BY <1>1, <1>2, <1>3, <1>4, <1>5, <1>6, <1>7 DEF Rest

LEMMA HookRolledBackStep ==
  ASSUME Invariant, TypeOK', NEW a \in Attempts, HookRolledBack(a)
  PROVE  Rest'
<1> USE IdleTyped DEF Goes, Leaves, Fault, Drawing
<1>1. Numbered'
  BY DEF HookRolledBack, Invariant, Numbered
<1>2. Standing'
  BY DEF HookRolledBack, Invariant, Standing
<1>3. Alone'
  BY DEF HookRolledBack, Invariant, Alone, AloneAt
<1>4. \A q \in Procs : Known(q)'
  BY DEF HookRolledBack, Invariant, Known
<1>5. \A b \in Attempts : Booking(b)'
  BY DEF HookRolledBack, Invariant, Booking
<1>6. PaidIsNamed'
  BY DEF HookRolledBack, Invariant, PaidIsNamed
<1>7. GrantedOnce'
  BY DEF HookRolledBack, Invariant, GrantedOnce
<1> QED BY <1>1, <1>2, <1>3, <1>4, <1>5, <1>6, <1>7 DEF Rest

LEMMA ProgressStep ==
  ASSUME Invariant, TypeOK', NEW a \in Attempts, Progress(a)
  PROVE  Rest'
<1> USE IdleTyped DEF Goes, Leaves, Fault, Drawing
<1>1. Numbered'
  BY DEF Progress, Invariant, Numbered
<1>2. Standing'
  BY DEF Progress, Invariant, Standing
<1>3. Alone'
  BY DEF Progress, Invariant, Alone, AloneAt
<1>4. \A q \in Procs : Known(q)'
  BY DEF Progress, Invariant, Known
<1>5. \A b \in Attempts : Booking(b)'
  BY DEF Progress, Invariant, Booking
<1>6. PaidIsNamed'
  BY DEF Progress, Invariant, PaidIsNamed
<1>7. GrantedOnce'
  BY DEF Progress, Invariant, TypeOK, Run, GrantedOnce
<1> QED BY <1>1, <1>2, <1>3, <1>4, <1>5, <1>6, <1>7 DEF Rest

LEMMA SpendStep ==
  ASSUME Invariant, TypeOK', Spend
  PROVE  Rest'
<1> USE IdleTyped DEF Goes, Leaves, Fault, Drawing
<1>1. Numbered'
  BY DEF Spend, Invariant, Numbered
<1>2. Standing'
  BY DEF Spend, Invariant, Standing
<1>3. Alone'
  BY DEF Spend, Invariant, Alone, AloneAt
<1>4. \A q \in Procs : Known(q)'
  BY DEF Spend, Invariant, Known
<1>5. \A b \in Attempts : Booking(b)'
  BY DEF Spend, Invariant, Booking
<1>6. PaidIsNamed'
  BY DEF Spend, Invariant, PaidIsNamed
<1>7. GrantedOnce'
  BY DEF Spend, Invariant, GrantedOnce
<1> QED BY <1>1, <1>2, <1>3, <1>4, <1>5, <1>6, <1>7 DEF Rest

LEMMA TopUpStep ==
  ASSUME Invariant, TypeOK', TopUp
  PROVE  Rest'
<1> USE IdleTyped DEF Goes, Leaves, Fault, Drawing
<1>1. Numbered'
  BY DEF TopUp, Invariant, Numbered
<1>2. Standing'
  BY DEF TopUp, Invariant, Standing
<1>3. Alone'
  BY DEF TopUp, Invariant, Alone, AloneAt
<1>4. \A q \in Procs : Known(q)'
  BY DEF TopUp, Invariant, Known
<1>5. \A b \in Attempts : Booking(b)'
  BY DEF TopUp, Invariant, Booking
<1>6. PaidIsNamed'
  BY DEF TopUp, Invariant, PaidIsNamed
<1>7. GrantedOnce'
  BY DEF TopUp, Invariant, GrantedOnce
<1> QED BY <1>1, <1>2, <1>3, <1>4, <1>5, <1>6, <1>7 DEF Rest

LEMMA SwitchOffStep ==
  ASSUME Invariant, TypeOK', SwitchOff
  PROVE  Rest'
<1> USE IdleTyped DEF Goes, Leaves, Fault, Drawing
<1>1. Numbered'
  BY DEF SwitchOff, Invariant, Numbered
<1>2. Standing'
  BY DEF SwitchOff, Invariant, Standing
<1>3. Alone'
  BY DEF SwitchOff, Invariant, Alone, AloneAt
<1>4. \A q \in Procs : Known(q)'
  BY DEF SwitchOff, Invariant, Known
<1>5. \A b \in Attempts : Booking(b)'
  BY DEF SwitchOff, Invariant, Booking
<1>6. PaidIsNamed'
  BY DEF SwitchOff, Invariant, PaidIsNamed
<1>7. GrantedOnce'
  BY DEF SwitchOff, Invariant, GrantedOnce
<1> QED BY <1>1, <1>2, <1>3, <1>4, <1>5, <1>6, <1>7 DEF Rest

LEMMA SwitchOnStep ==
  ASSUME Invariant, TypeOK', SwitchOn
  PROVE  Rest'
<1> USE IdleTyped DEF Goes, Leaves, Fault, Drawing
<1>1. Numbered'
  BY DEF SwitchOn, Invariant, Numbered
<1>2. Standing'
  BY DEF SwitchOn, Invariant, Standing
<1>3. Alone'
  BY DEF SwitchOn, Invariant, Alone, AloneAt
<1>4. \A q \in Procs : Known(q)'
  BY DEF SwitchOn, Invariant, Known
<1>5. \A b \in Attempts : Booking(b)'
  BY DEF SwitchOn, Invariant, Booking
<1>6. PaidIsNamed'
  BY DEF SwitchOn, Invariant, PaidIsNamed
<1>7. GrantedOnce'
  BY DEF SwitchOn, Invariant, GrantedOnce
<1> QED BY <1>1, <1>2, <1>3, <1>4, <1>5, <1>6, <1>7 DEF Rest

-------------------------------------------------------------------------------
(* The invariant. *)

LEMMA Initially ==
  ASSUME Init
  PROVE  Invariant
<1>1. TypeOK
  <2>1. row \in Row /\ (row.attempt = 0 <=> row.lease = "none") /\ issued \in 0..MaxAttempts
    BY BoundAssumption DEF Init, Row
  <2>2. run \in [Procs -> Run]
    BY IdleTyped DEF Init
  <2>3. faults \in 0..MaxFaults
    BY BoundAssumption DEF Init
  <2>4. balance \in Balances /\ due \in 0..MaxAttempts
    BY BoundAssumption DEF Init, Balances
  <2> QED BY <2>1, <2>2, <2>3, <2>4 DEF Init, TypeOK, Payment
<1>2. \A p \in Procs : run[p].at = "idle" /\ run[p].attempt = 0
  BY IdleTyped DEF Init
<1>3. Numbered /\ Standing
  BY <1>2 DEF Init, Numbered, Standing
<1>4. Alone
  BY <1>2 DEF Alone, Drawing
<1>5. \A p \in Procs : Known(p)
  BY <1>2 DEF Known
<1>6. \A a \in Attempts : Booking(a)
  BY DEF Init, Booking
<1>7. PaidIsNamed /\ GrantedOnce
  BY DEF Init, PaidIsNamed, GrantedOnce
<1> QED BY <1>1, <1>3, <1>4, <1>5, <1>6, <1>7 DEF Invariant

LEMMA InvariantStep ==
  ASSUME Invariant, [Next]_vars
  PROVE  Invariant'
<1>1. CASE UNCHANGED vars
  BY <1>1 DEF vars, Invariant, TypeOK, Numbered, Standing, Alone, AloneAt, Known, Booking,
              PaidIsNamed, GrantedOnce
<1>2. CASE Next
  <2>1. TypeOK'
    BY <1>2, TypeStep DEF Invariant
  <2>2. ASSUME NEW p \in Procs, Plan(p) \/ Look(p) \/ Throws(p) \/ Crash(p) PROVE Rest'
    BY <2>1, <2>2, PlanStep, LookStep, ThrowsStep, CrashStep
  <2>3. ASSUME NEW p \in Procs, Works(p) PROVE Rest'
    BY <2>1, <2>3, AcquireStep, ConfirmStep, RecheckStep, ReleaseStep, UnpayableStep,
       ExtendStep, FailStep, CancelStep, SettleReadStep, SettleCommitStep, RecoverStep,
       ChargeStep
       DEF Works
  <2>4. ASSUME NEW p \in Procs, NEW s \in Payment, ChargeUnheard(p, s) PROVE Rest'
    BY <2>1, <2>4, ChargeUnheardStep
  <2>5. ASSUME NEW a \in Attempts, Hook(a) \/ Progress(a) PROVE Rest'
    BY <2>1, <2>5, HookReadStep, HookCommitStep, HookRolledBackStep, HookFailedStep,
       ProgressStep
       DEF Hook
  <2>6. ASSUME LeaseLapses \/ Spend \/ TopUp \/ SwitchOff \/ SwitchOn PROVE Rest'
    BY <2>1, <2>6, LeaseLapsesStep, SpendStep, TopUpStep, SwitchOffStep, SwitchOnStep
  <2>7. Rest'
    BY <1>2, <2>2, <2>3, <2>4, <2>5, <2>6 DEF Next
  <2> QED BY <2>1, <2>7 DEF Rest, Invariant
<1> QED BY <1>1, <1>2

LEMMA Always == Spec => []Invariant
<1>1. Init => Invariant
  BY Initially
<1>2. Invariant /\ [Next]_vars => Invariant'
  BY InvariantStep
<1> QED BY <1>1, <1>2, PTL DEF Spec

(* A payment leaves "none" only when a process charges. *)
LEMMA OnlyCharged ==
  ASSUME Invariant, [Next]_vars, NEW a \in Attempts, pay[a] = "none", pay'[a] # "none"
  PROVE  \E p \in Procs : run[p].at = "charge" /\ run[p].attempt = a
<1> SUFFICES ASSUME ~\E p \in Procs : run[p].at = "charge" /\ run[p].attempt = a
             PROVE  pay'[a] = "none"
  OBVIOUS
<1>1. pay \in [Attempts -> Payment]
  BY DEF Invariant, TypeOK
<1>2. ASSUME NEW p \in Procs, NEW s \in Payment, Charge(p, s) \/ ChargeUnheard(p, s)
      PROVE  pay'[a] = "none"
  BY <1>1, <1>2 DEF Charge, ChargeUnheard
<1>3. ASSUME NEW p \in Procs, Cancel(p) PROVE pay'[a] = "none"
  BY <1>1, <1>3 DEF Cancel, Invariant, Known
<1>4. ASSUME NEW b \in Attempts, Progress(b) PROVE pay'[a] = "none"
  BY <1>1, <1>4 DEF Progress
<1>5. ASSUME NEW p \in Procs, Plan(p) \/ Look(p) \/ Throws(p) \/ Crash(p) PROVE pay' = pay
  BY <1>5 DEF Plan, Look, Throws, Crash
<1>6. ASSUME NEW p \in Procs, Works(p), ~Cancel(p), ~\E s \in Payment : Charge(p, s)
      PROVE  pay' = pay
  BY <1>6 DEF Works, Acquire, Confirm, Recheck, Release, Unpayable, Extend, Fail, SettleRead,
              SettleCommit, Recover
<1>7. ASSUME NEW b \in Attempts, Hook(b) PROVE pay' = pay
  BY <1>7 DEF Hook, HookRead, HookCommit, HookRolledBack, HookFailed
<1>8. CASE LeaseLapses \/ Spend \/ TopUp \/ SwitchOff \/ SwitchOn \/ UNCHANGED vars
  BY <1>8 DEF LeaseLapses, Spend, TopUp, SwitchOff, SwitchOn, vars
<1> QED BY <1>2, <1>3, <1>4, <1>5, <1>6, <1>7, <1>8 DEF Next

(* A lease that has lapsed is renewed only by a process that saw a payment of its attempt. *)
LEMMA OnlyExtended ==
  ASSUME Invariant, [Next]_vars, row.lease = "lapsed", row'.lease = "live",
         row'.attempt = row.attempt
  PROVE  \E p \in Procs : /\ run[p].at = "resolve" /\ run[p].seen = "processing"
                          /\ run[p].attempt = row.attempt
<1>1. row \in Row /\ row.attempt # 0
  BY DEF Invariant, TypeOK
<1>2. ASSUME NEW p \in Procs, Extend(p)
      PROVE  run[p].attempt = row.attempt /\ run[p].at = "resolve" /\ run[p].seen = "processing"
  BY <1>2, RowsKept DEF Extend
<1>3. ASSUME NEW p \in Procs, Works(p), ~Extend(p) PROVE row'.lease # "live"
  <2>1. CASE row' = row BY <2>1
  <2>2. ASSUME NEW a, \/ row' = Released(a) \/ row' = Completed(a) \/ row' = Failed(a)
        PROVE  row'.lease # "live"
    BY <1>1, <2>2, RowsKept, FreedRow, CompletedRow, FailedRow DEF Released
  <2>3. \/ row' = row
        \/ \E a : row' = Released(a) \/ row' = Completed(a) \/ row' = Failed(a)
    BY <1>1, <1>3 DEF Works, Acquire, Confirm, Recheck, Release, Unpayable, Fail, Cancel,
                      SettleRead, SettleCommit, Granted, Recover, Charge
  <2> QED BY <2>1, <2>2, <2>3
<1>4. ASSUME NEW p \in Procs, NEW s \in Payment,
             Plan(p) \/ Look(p) \/ Throws(p) \/ Crash(p) \/ ChargeUnheard(p, s)
      PROVE  row' = row
  BY <1>4 DEF Plan, Look, Throws, Crash, ChargeUnheard
<1>5. ASSUME NEW a \in Attempts, Hook(a) \/ Progress(a) PROVE row'.lease # "live"
  <2>1. row' = row \/ row' = Completed(a) \/ row' = Failed(a)
    BY <1>5 DEF Hook, HookRead, HookCommit, HookRolledBack, HookFailed, Granted, Progress
  <2> QED BY <1>1, <2>1, RowsKept, CompletedRow, FailedRow
<1>6. ASSUME LeaseLapses \/ Spend \/ TopUp \/ SwitchOff \/ SwitchOn \/ UNCHANGED vars
      PROVE  row'.lease # "live"
  BY <1>1, <1>6 DEF LeaseLapses, Spend, TopUp, SwitchOff, SwitchOn, vars, Row
<1> QED BY <1>2, <1>3, <1>4, <1>5, <1>6 DEF Next, Payment

(* Every row has its type, and there is a lease just when it names an attempt.                  *)
THEOREM TypeCorrect == Spec => []TypeOK
<1>1. Invariant => TypeOK
  BY DEF Invariant
<1> QED BY <1>1, Always, PTL

(* Money that is on its way, or has come and was not booked, is always that of the attempt the  *)
(* row names: the guards of releaseLease, completeReload and failReload on the attempt, and a   *)
(* recovery that gives the lease back only where Stripe has no payment, keep it so.             *)
THEOREM PaidCorrect == Spec => []PaidIsNamed
<1>1. Invariant => PaidIsNamed
  BY DEF Invariant
<1> QED BY <1>1, Always, PTL

(* A payment is booked once, and only if it succeeded: the unique index on the receipts decides *)
(* between the run, the sweep and the webhook.                                                  *)
THEOREM GrantedCorrect == Spec => []GrantedOnce
<1>1. Invariant => GrantedOnce
  BY DEF Invariant
<1> QED BY <1>1, Always, PTL

(* A lapsed lease is renewed only for an attempt that has a payment: extendLease is filtered on *)
(* the attempt, and nothing is called processing but a payment that was seen.                   *)
THEOREM RenewedCorrect == Spec => OnlyPaymentsRenew
<1>1. Invariant /\ [Next]_vars =>
        \A a \in Attempts :
          row.attempt = a /\ row.lease = "lapsed" /\ row'.attempt = a /\ row'.lease = "live" =>
            pay[a] # "none"
  BY OnlyExtended DEF Invariant, Known
<1> QED BY <1>1, Always, PTL DEF Spec, OnlyPaymentsRenew

(* The card is charged only if the balance was low as the attempt read it under its lease, if   *)
(* no reload was booked since, and if no failure stands.  Packs bought by hand and new          *)
(* thresholds come at any time in Spec, and the theorem says nothing of the balance after the   *)
(* reading; but a reload that is booked belongs to the attempt of the row (PaidIsNamed), and    *)
(* the row is that of the process that charges.                                                 *)
THEOREM ChargedCorrect == Spec => ChargedOnlyWhenDue
<1>1. Invariant /\ [Next]_vars =>
        \A a \in Attempts : pay[a] = "none" /\ pay'[a] # "none" => due = a /\ ~row.failed
  BY OnlyCharged DEF Invariant, Known, Alone, AloneAt, Drawing
<1> QED BY <1>1, Always, PTL DEF Spec, ChargedOnlyWhenDue

================================================================================

------------------------------- MODULE AutoReload -------------------------------
(***************************************************************************)
(* Auto reload of one account (lib/services/auto-reload-service.ts).        *)
(*                                                                         *)
(* When the purchased credits run low, a run buys a pack with the saved     *)
(* card.  The row of the settings holds a lease that names the attempt, so  *)
(* that one reload is under way at a time; the payment itself lives at      *)
(* Stripe, which may charge without its answer being heard and tells the    *)
(* webhook later, again, or not at all.  A sweep ends what a run left       *)
(* behind.  The credits are granted by whichever of the three comes first.  *)
(***************************************************************************)
EXTENDS Integers

CONSTANTS
  Procs,         \* processes that run runAutoReload: the sweep and the ends of turns
  MaxAttempts,   \* bound: attempts ever made
  MaxBalance,    \* bound: the levels of the balance, of which the thresholds are the borders
  MaxFaults      \* bound: crashes, failing statements and calls whose answer is lost

ASSUME BoundAssumption ==
  MaxAttempts \in Nat \ {0} /\ MaxBalance \in Nat \ {0} /\ MaxFaults \in Nat

VARIABLES
  row,       \* the row of auto_reload_settings
  issued,    \* how many attempt ids were drawn
  pay,       \* pay[a]: the PaymentIntent of attempt a, at Stripe
  granted,   \* granted[a]: how many purchases are booked for it in credit_transactions
  balance,   \* the level of the purchased and bonus credits
  due,       \* auxiliary: the attempt that went on to the charge when it had read the balance
             \* under its lease, if it was low as read and no reload was booked since, or 0
  run,       \* run[p]: what process p does
  hook,      \* hook[a]: the webhook's transaction for the success of attempt a
  faults

vars == <<row, issued, pay, granted, balance, due, run, hook, faults>>

Attempts == 1..MaxAttempts

Balances == 0..MaxBalance
Thresholds == 1..MaxBalance

Payment == {"none", "processing", "succeeded", "refused", "canceled"}

Row == [enabled: BOOLEAN, failed: BOOLEAN, attempt: 0..MaxAttempts,
        lease: {"none", "live", "lapsed"}, threshold: Thresholds]

Run == [at: {"idle", "acquire", "confirm", "recheck", "charge", "release", "recover", "resolve",
             "settle", "cancel"},
        attempt: 0..MaxAttempts, threshold: Balances, seen: Payment, applied: BOOLEAN]

Idle == [at |-> "idle", attempt |-> 0, threshold |-> 0, seen |-> "none", applied |-> FALSE]

Init ==
  /\ \E t \in Thresholds :
       row = [enabled |-> TRUE, failed |-> FALSE, attempt |-> 0, lease |-> "none", threshold |-> t]
  /\ issued = 0
  /\ pay = [a \in Attempts |-> "none"]
  /\ granted = [a \in Attempts |-> 0]
  /\ balance = MaxBalance
  /\ due = 0
  /\ run = [p \in Procs |-> Idle]
  /\ hook = [a \in Attempts |-> "waiting"]
  /\ faults = 0

-------------------------------------------------------------------------------
(* What a statement on the row does: each is filtered on the attempt it is for. *)

Freed == [row EXCEPT !.attempt = 0, !.lease = "none"]

(* A slip: the lease is given back whoever holds it. *)
ReleasedAnyLease(a) == Freed

Released(a) == IF row.attempt = a THEN Freed ELSE row

(* A slip: the lease is extended whoever holds it. *)
ExtendedAnyLease(a) == [row EXCEPT !.lease = "live"]

Extended(a) == IF row.attempt = a THEN [row EXCEPT !.lease = "live"] ELSE row

Completed(a) == IF row.attempt = a THEN [Freed EXCEPT !.failed = FALSE] ELSE row

Failed(a) ==
  IF row.attempt = a THEN [Freed EXCEPT !.enabled = FALSE, !.failed = TRUE] ELSE row

Fault == faults < MaxFaults /\ faults' = faults + 1

Goes(p, at) == run' = [run EXCEPT ![p].at = at]
Leaves(p) == run' = [run EXCEPT ![p] = Idle]

-------------------------------------------------------------------------------
(* runAutoReload, up to the charge. *)

(* A slip: an account that was switched off is not looked at. *)
VisitedIfEnabled == row.enabled

(* The page of the sweep; a turn or a saved setting looks at its own account. *)
Visited == row.enabled \/ row.attempt # 0

(* The row is read: nothing is under way, and the balance is low. *)
Plan(p) ==
  /\ run[p].at = "idle"
  /\ row.enabled /\ row.attempt = 0 /\ balance < row.threshold
  /\ Goes(p, "acquire")
  /\ UNCHANGED <<row, issued, pay, granted, balance, due, hook, faults>>

(* acquireLease *)
Acquire(p) ==
  /\ run[p].at = "acquire"
  /\ IF row.enabled /\ row.attempt = 0
     THEN /\ issued < MaxAttempts
          /\ issued' = issued + 1
          /\ row' = [row EXCEPT !.attempt = issued + 1, !.lease = "live"]
          /\ run' = [run EXCEPT ![p].at = "confirm", ![p].attempt = issued + 1]
     ELSE /\ Leaves(p)
          /\ UNCHANGED <<row, issued>>
  /\ UNCHANGED <<pay, granted, balance, due, hook, faults>>

(* The row is read again under the lease, with the threshold it has then. *)
Confirm(p) ==
  /\ run[p].at = "confirm"
  /\ run' = IF row.enabled /\ row.attempt = run[p].attempt
            THEN [run EXCEPT ![p].at = "recheck", ![p].threshold = row.threshold]
            ELSE [run EXCEPT ![p].at = "release"]
  /\ UNCHANGED <<row, issued, pay, granted, balance, due, hook, faults>>

(* A slip: the balance read before the lease is good enough. *)
StillDueUnread(p) == TRUE

StillDue(p) == balance < run[p].threshold

(* The balance is read again, after the row.  A hold, the daily limit, a plan or a policy may   *)
(* refuse a reload that is due.                                                                 *)
Recheck(p) ==
  /\ run[p].at = "recheck"
  /\ \/ /\ StillDue(p)
        /\ run' = [run EXCEPT ![p].at = "charge", ![p].threshold = 0]
        /\ due' = IF balance < run[p].threshold THEN run[p].attempt ELSE 0
     \/ /\ run' = [run EXCEPT ![p].at = "release", ![p].threshold = 0]
        /\ due' = 0
  /\ UNCHANGED <<row, issued, pay, granted, balance, hook, faults>>

(* releaseLease; also for an account without a card reader or with another currency. *)
Release(p) ==
  /\ run[p].at = "release"
  /\ row' = Released(run[p].attempt)
  /\ Leaves(p)
  /\ UNCHANGED <<issued, pay, granted, balance, due, hook, faults>>

(* chargeReload: no card or no address; the lease is given back, or left for the sweep. *)
Unpayable(p) ==
  /\ run[p].at = "charge"
  /\ \/ row' = Failed(run[p].attempt) /\ Leaves(p)
     \/ Goes(p, "release") /\ UNCHANGED row
     \/ Leaves(p) /\ UNCHANGED row
  /\ UNCHANGED <<issued, pay, granted, balance, due, hook, faults>>

(* chargeStripeOffSession, answered: created, declined, or refused without a payment. *)
Charge(p, status) ==
  /\ run[p].at = "charge"
  /\ status \in {"none", "processing", "succeeded", "refused"}
  /\ pay' = [pay EXCEPT ![run[p].attempt] = status]
  /\ run' = [run EXCEPT ![p].at = "resolve", ![p].seen = status]
  /\ UNCHANGED <<row, issued, granted, balance, due, hook, faults>>

(* The answer is lost, and the lease holds: Stripe did nothing, or charged. *)
ChargeUnheard(p, status) ==
  /\ run[p].at = "charge"
  /\ status \in {"none", "processing", "succeeded", "refused"}
  /\ Fault
  /\ pay' = [pay EXCEPT ![run[p].attempt] = status]
  /\ Leaves(p)
  /\ UNCHANGED <<row, issued, granted, balance, due, hook>>

-------------------------------------------------------------------------------
(* resolvePayment, by the status that the charge or the reconciliation has seen. *)

(* processing *)
Extend(p) ==
  /\ run[p].at = "resolve" /\ run[p].seen = "processing"
  /\ row' = Extended(run[p].attempt)
  /\ Leaves(p)
  /\ UNCHANGED <<issued, pay, granted, balance, due, hook, faults>>

(* failReload; a payment that is still open is then cancelled. *)
Fail(p) ==
  /\ run[p].at = "resolve" /\ run[p].seen \in {"none", "refused", "canceled"}
  /\ row' = Failed(run[p].attempt)
  /\ IF run[p].seen = "refused" THEN Goes(p, "cancel") ELSE Leaves(p)
  /\ UNCHANGED <<issued, pay, granted, balance, due, hook, faults>>

(* cancelOpenPayment: that Stripe cannot cancel it is only logged. *)
Cancel(p) ==
  /\ run[p].at = "cancel"
  /\ pay' \in {pay, [pay EXCEPT ![run[p].attempt] = "canceled"]}
  /\ Leaves(p)
  /\ UNCHANGED <<row, issued, granted, balance, due, hook, faults>>

(* settleAutoReloadPayment is a transaction: isCreditTopUpApplied reads, ... *)
SettleRead(p) ==
  /\ run[p].at = "resolve" /\ run[p].seen = "succeeded"
  /\ run' = [run EXCEPT ![p].at = "settle", ![p].applied = granted[run[p].attempt] > 0]
  /\ UNCHANGED <<row, issued, pay, granted, balance, due, hook, faults>>

(* A slip: no unique index on the receipts. *)
BookedTwice(a) == FALSE

(* idx_credit_transactions_top_up_payment_intent_receipt *)
Booked(a) == granted[a] > 0

(* ... and the purchase is booked and the lease given back, unless another was faster. *)
Granted(a) ==
  /\ granted' = [granted EXCEPT ![a] = granted[a] + 1]
  /\ balance' \in balance..MaxBalance
  /\ due' = 0
  /\ row' = Completed(a)

SettleCommit(p) ==
  LET a == run[p].attempt IN
  /\ run[p].at = "settle"
  /\ IF run[p].applied THEN row' = Completed(a) /\ UNCHANGED <<granted, balance, due>>
     ELSE IF Booked(a) THEN UNCHANGED <<row, granted, balance, due>>
     ELSE Granted(a)
  /\ Leaves(p)
  /\ UNCHANGED <<issued, pay, hook, faults>>

-------------------------------------------------------------------------------
(* recoverReload: a lease that has lapsed. *)

Look(p) ==
  /\ run[p].at = "idle"
  /\ Visited /\ row.attempt # 0 /\ row.lease = "lapsed"
  /\ run' = [run EXCEPT ![p].at = "recover", ![p].attempt = row.attempt]
  /\ UNCHANGED <<row, issued, pay, granted, balance, due, hook, faults>>

(* retrieveStripePayment or findAttemptPayment *)
Recover(p) ==
  LET status == pay[run[p].attempt] IN
  /\ run[p].at = "recover"
  /\ run' = [run EXCEPT ![p].at = IF status = "none" THEN "release" ELSE "resolve",
                        ![p].seen = status]
  /\ UNCHANGED <<row, issued, pay, granted, balance, due, hook, faults>>

-------------------------------------------------------------------------------
(* The webhook: one delivery of the event of a success is claimed at a time and processed in    *)
(* one transaction, and Stripe repeats it until it is answered; the events of a failure are one *)
(* statement each, at any time.                                                                 *)

HookRead(a) ==
  /\ pay[a] = "succeeded" /\ hook[a] = "waiting"
  /\ hook' = [hook EXCEPT ![a] = IF granted[a] > 0 THEN "applied" ELSE "absent"]
  /\ UNCHANGED <<row, issued, pay, granted, balance, due, run, faults>>

HookCommit(a) ==
  /\ hook[a] \in {"applied", "absent"}
  /\ IF hook[a] = "applied"
     THEN /\ row' = Completed(a)
          /\ hook' = [hook EXCEPT ![a] = "done"]
          /\ UNCHANGED <<granted, balance, due>>
     ELSE IF Booked(a)
     THEN hook' = [hook EXCEPT ![a] = "waiting"] /\ UNCHANGED <<row, granted, balance, due>>
     ELSE Granted(a) /\ hook' = [hook EXCEPT ![a] = "done"]
  /\ UNCHANGED <<issued, pay, run, faults>>

HookRolledBack(a) ==
  /\ hook[a] \in {"applied", "absent"}
  /\ hook' = [hook EXCEPT ![a] = "waiting"]
  /\ UNCHANGED <<row, issued, pay, granted, balance, due, run, faults>>

HookFailed(a) ==
  /\ pay[a] \in {"refused", "canceled"}
  /\ row.attempt = a
  /\ row' = Failed(a)
  /\ UNCHANGED <<issued, pay, granted, balance, due, run, hook, faults>>

-------------------------------------------------------------------------------
(* Stripe, time, the account and failures. *)

Progress(a) ==
  /\ pay[a] = "processing"
  /\ \E status \in {"succeeded", "refused"} : pay' = [pay EXCEPT ![a] = status]
  /\ UNCHANGED <<row, issued, granted, balance, due, run, hook, faults>>

(* The process that will charge is bounded by time-outs far below its lease; the others are not *)
(* assumed to be. *)
Charging(a) ==
  \E p \in Procs : run[p].attempt = a /\ run[p].at \in {"confirm", "recheck", "charge"}

LeaseLapses ==
  /\ row.lease = "live" /\ ~Charging(row.attempt)
  /\ row' = [row EXCEPT !.lease = "lapsed"]
  /\ UNCHANGED <<issued, pay, granted, balance, due, run, hook, faults>>

(* Spending, and purchased credits that expire or are refunded. *)
Spend ==
  /\ \E b \in Balances : b < balance /\ balance' = b
  /\ UNCHANGED <<row, issued, pay, granted, due, run, hook, faults>>

(* A pack bought by hand is booked by the same grantCreditTopUp, whoever holds the lease. *)
TopUp ==
  /\ \E b \in Balances : b > balance /\ balance' = b
  /\ UNCHANGED <<row, issued, pay, granted, due, run, hook, faults>>

(* saveAutoReloadSettings: whatever the row was, and though an attempt holds it. *)
SwitchOff ==
  /\ \E t \in Thresholds : row' = [row EXCEPT !.enabled = FALSE, !.threshold = t]
  /\ UNCHANGED <<issued, pay, granted, balance, due, run, hook, faults>>

SwitchOn ==
  /\ \E t \in Thresholds :
       row' = [row EXCEPT !.enabled = TRUE, !.failed = FALSE, !.threshold = t]
  /\ UNCHANGED <<issued, pay, granted, balance, due, run, hook, faults>>

(* An error before the charge gives the lease back; later it is left as it is. *)
Throws(p) ==
  /\ run[p].at \in {"confirm", "recheck"}
  /\ Fault
  /\ run' = [run EXCEPT ![p].at = "release", ![p].threshold = 0]
  /\ UNCHANGED <<row, issued, pay, granted, balance, due, hook>>

(* The process is gone, or an error ends what it was doing. *)
Crash(p) ==
  /\ run[p].at # "idle"
  /\ Fault
  /\ Leaves(p)
  /\ UNCHANGED <<row, issued, pay, granted, balance, due, hook>>

-------------------------------------------------------------------------------

Works(p) ==
  \/ Acquire(p) \/ Confirm(p) \/ Recheck(p) \/ Release(p) \/ Unpayable(p)
  \/ Extend(p) \/ Fail(p) \/ Cancel(p) \/ SettleRead(p) \/ SettleCommit(p) \/ Recover(p)
  \/ \E status \in Payment : Charge(p, status)

Hook(a) == HookRead(a) \/ HookCommit(a) \/ HookRolledBack(a) \/ HookFailed(a)

Next ==
  \/ \E p \in Procs :
       \/ Plan(p) \/ Look(p) \/ Works(p) \/ Throws(p) \/ Crash(p)
       \/ \E status \in Payment : ChargeUnheard(p, status)
  \/ \E a \in Attempts : Hook(a) \/ Progress(a)
  \/ LeaseLapses \/ Spend \/ TopUp \/ SwitchOff \/ SwitchOn

Spec == Init /\ [][Next]_vars

(* The sweep comes every ten minutes, a process acts or is ended, a lease runs out and a       *)
(* payment that is processing is decided.  Nothing is assumed of the webhook.                  *)
Fairness ==
  /\ \A p \in Procs : WF_vars(Works(p))
  /\ WF_vars(\E p \in Procs : Look(p))
  /\ WF_vars(LeaseLapses)
  /\ \A a \in Attempts : WF_vars(Progress(a))

FairSpec == Spec /\ Fairness

-------------------------------------------------------------------------------
(* Properties. *)

(* Every row has its type, and there is a lease just when it names an attempt. *)
TypeOK ==
  /\ row \in Row
  /\ row.attempt = 0 <=> row.lease = "none"
  /\ issued \in 0..MaxAttempts
  /\ pay \in [Attempts -> Payment]
  /\ granted \in [Attempts -> Nat]
  /\ balance \in Balances
  /\ due \in 0..MaxAttempts
  /\ run \in [Procs -> Run]
  /\ hook \in [Attempts -> {"waiting", "absent", "applied", "done"}]
  /\ faults \in 0..MaxFaults

(* 0297_auto_reload_settings.sql: "the lease that keeps at most one reload in flight".  Money   *)
(* that is on its way, or has come and was not booked, is always that of the attempt the row    *)
(* names: so there is never a second payment beside it, and the sweep can always find it.       *)
PaidIsNamed ==
  \A a \in Attempts :
    pay[a] = "processing" \/ (pay[a] = "succeeded" /\ granted[a] = 0) => row.attempt = a

(* A payment is booked once, and only if it succeeded, though the run that made it, the sweep   *)
(* and the webhook may all settle it at the same time.                                          *)
GrantedOnce == \A a \in Attempts : granted[a] <= IF pay[a] = "succeeded" THEN 1 ELSE 0

(* A lapsed lease is renewed only for an attempt that has a payment: a reconciliation that saw  *)
(* one processing, and is heard after that attempt ended and the next one died before its       *)
(* charge, does not keep the sweep from the next one.                                           *)
OnlyPaymentsRenew ==
  [][\A a \in Attempts :
       row.attempt = a /\ row.lease = "lapsed" /\ row'.attempt = a /\ row'.lease = "live" =>
         pay[a] # "none"]_vars

(* The card is charged only if the balance was low as the attempt read it under its lease, by   *)
(* the threshold read there, if no reload was booked since, and if no failure stands that the   *)
(* owner has not answered: of two runs that saw the low balance one buys.  A pack bought by     *)
(* hand, or a lower threshold, between that reading and the charge is not noticed; and after    *)
(* "no further charges will be attempted until you turn it back on" there is none.              *)
ChargedOnlyWhenDue ==
  [][\A a \in Attempts : pay[a] = "none" /\ pay'[a] # "none" => due = a /\ ~row.failed]_vars

(* Every attempt ends, and what was paid for it is then booked: without any webhook, whatever   *)
(* crashed, was switched off, or was never answered.                                            *)
EveryReloadEnds ==
  \A a \in Attempts :
    row.attempt = a ~> /\ row.attempt # a
                       /\ pay[a] = "succeeded" => granted[a] = 1
================================================================================

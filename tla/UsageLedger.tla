------------------------------ MODULE UsageLedger ------------------------------
(***************************************************************************)
(* The managed-usage ledger of one user: a call to a paid model reserves   *)
(* its estimated cost, extends the reservation for every further step of   *)
(* the provider, and is settled at its actual cost or released.  The       *)
(* functions are SQL (db/neon, in their last definition), called by        *)
(* managed-usage-request-service.ts; each call is one transaction and one  *)
(* action here.  Money moves only through a settlement job, keyed so that  *)
(* it posts at most one ledger row; a job whose posting fails in a way     *)
(* worth retrying stays pending for the cron.                              *)
(*                                                                         *)
(* Whether a plan window still has room, and whether purchased headroom    *)
(* covers a step, is an input.  A lease is live or lapsed.                 *)
(***************************************************************************)
EXTENDS Integers, FiniteSets, Functions

CONSTANTS
  Requests,   \* (user, idempotency key): rows of managed_usage_requests
  Tokens,     \* lease tokens, one per attempt of a client to reserve
  Ops,        \* provider operation keys
  StepCost,   \* what the step of an operation key is estimated at
  Estimates,  \* what a request can be estimated at
  Actuals,    \* what it can cost in the end
  Allowance,  \* credits_allocated of an account
  NoToken, NoOp,
  Fee,        \* what an ordinary deduction costs
  MaxPeriods, \* bound: billing periods, an account each
  MaxFees,    \* bound: what ordinary deductions take of an account
  MaxTries,   \* attempts of a settlement job (12 in the code)
  MaxFaults   \* bound: postings that fail

ASSUME AmountAssumption ==
  /\ Estimates \subseteq Nat /\ Actuals \subseteq Nat /\ Allowance \in Nat /\ Fee \in Nat
  /\ StepCost \in [Ops -> Nat]
ASSUME LedgerBounds ==
  /\ MaxPeriods \in Nat \ {0} /\ MaxTries \in Nat \ {0}
  /\ MaxFaults \in Nat /\ MaxFees \in Nat
ASSUME LedgerSentinels == NoToken \notin Tokens /\ NoOp \notin Ops
(* A database holds finitely many rows. *)
ASSUME LedgerRows == IsFiniteSet(Requests) /\ IsFiniteSet(Ops)
ASSUME LedgerKeys == Ops \cap {"reserve", "final", "late"} = {}

VARIABLES
  request,   \* request[r]: the row of managed_usage_requests
  ext,       \* ext[r][o]: the status of the row of managed_usage_request_extensions
  job,       \* job[r][k]: the row of credit_settlement_jobs for the key of kind k
  posted,    \* posted[r][p]: sums of the ledger rows of r on the account of period p
  fees,      \* fees[p]: the sum of its ordinary deductions, which are of no request
  used,      \* used[p]: credits_used of that account
  period,    \* the current billing period
  acquired,  \* acquired[r]: the tokens whose caller was told it may run the request
  faults

ledgerVars == <<request, ext, job, posted, fees, used, period, acquired, faults>>

Kinds == {"reserve", "final", "late"} \cup Ops
Periods == 1..MaxPeriods
Classes == {"plan", "overage"}
Open == {"reserving", "reserved", "provider_started"}
Closed == {"completed", "released", "outcome_unknown", "declined"}
Done == {"succeeded", "terminal"}

Request == [status: {"none"} \cup Open \cup Closed, est: Nat, actual: Nat,
            token: Tokens \cup {NoToken}, lapsed: BOOLEAN, first: Ops \cup {NoOp},
            overage: BOOLEAN]
Job == [status: {"none", "pending"} \cup Done, amount: Int, tries: 0..MaxTries]

LedgerTypeOK ==
  /\ request \in [Requests -> Request]
  /\ ext \in [Requests -> [Ops -> {"none", "reserving", "extended", "declined"}]]
  /\ job \in [Requests -> [Kinds -> Job]]
  /\ posted \in [Requests -> [Periods -> [Classes -> Int]]]
  /\ fees \in [Periods -> Nat]
  /\ used \in [Periods -> Int]
  /\ period \in Periods
  /\ acquired \in [Requests -> SUBSET Tokens]
  /\ faults \in 0..MaxFaults

LedgerInit ==
  /\ request = [r \in Requests |-> [status |-> "none", est |-> 0, actual |-> 0, token |-> NoToken,
                                    lapsed |-> FALSE, first |-> NoOp, overage |-> FALSE]]
  /\ ext = [r \in Requests |-> [o \in Ops |-> "none"]]
  /\ job = [r \in Requests |-> [k \in Kinds |-> [status |-> "none", amount |-> 0, tries |-> 0]]]
  /\ posted = [r \in Requests |-> [p \in Periods |-> [c \in Classes |-> 0]]]
  /\ fees = [p \in Periods |-> 0]
  /\ used = [p \in Periods |-> 0]
  /\ period = 1
  /\ acquired = [r \in Requests |-> {}]
  /\ faults = 0

-------------------------------------------------------------------------------
(* enqueue_credit_settlement and what it calls: one job, at most one posting. *)

(* A slip: a release is not checked against what the account has used. *)
AffordableUnchecked(amount) == amount > 0 => used[period] + amount <= Allowance

(* settle_managed_usage_credits: the account of the current period must hold a *)
(* charge, and a release must not exceed what was used of it.                  *)
Affordable(amount) ==
  IF amount > 0 THEN used[period] + amount <= Allowance ELSE used[period] >= -amount

ClassOf(overage) == IF overage THEN "overage" ELSE "plan"

Posts(r, amount, overage) ==
  /\ used' = [used EXCEPT ![period] = used[period] + amount]
  /\ posted' = [posted EXCEPT ![r][period][ClassOf(overage)] =
                                posted[r][period][ClassOf(overage)] + amount]

(* The label a ledger row of the request inherits when it is inserted. *)
Label(r) == request[r].overage

Unsettled(r, k) == job[r][k].status \in {"none", "pending"}

LedgerFault == faults < MaxFaults /\ faults' = faults + 1

(* The deduction is made, refused for good, or raises: an error worth a retry  *)
(* leaves the job pending while it has attempts left, any other ends it.  The  *)
(* daily limit of an ordinary deduction may refuse a late charge.              *)
Verdict(r, k, amount, status) ==
  \/ status = "succeeded" /\ Affordable(amount) /\ UNCHANGED faults
  \/ status = "terminal" /\ (k = "late" \/ ~Affordable(amount)) /\ UNCHANGED faults
  \/ status = "terminal" /\ LedgerFault
  \/ status = "pending" /\ job[r][k].tries + 1 < MaxTries /\ LedgerFault

(* A settled job answers as it did and moves nothing.                         *)
Settles(r, k, amount, overage, status) ==
  IF Unsettled(r, k)
  THEN /\ Verdict(r, k, amount, status)
       /\ job' = [job EXCEPT ![r][k] = [status |-> status, amount |-> amount,
                                        tries |-> job[r][k].tries + 1]]
       /\ IF status = "succeeded" THEN Posts(r, amount, overage) ELSE UNCHANGED <<used, posted>>
  ELSE /\ status = job[r][k].status
       /\ UNCHANGED <<job, used, posted, faults>>

-------------------------------------------------------------------------------
(* reserve_managed_usage_request, in its variants with limits and on extra usage. *)

(* What the answer of the settlement makes of the row: token t has it, it waits  *)
(* for the retry of the posting, or it is declined.                              *)
Reserved(row, t, overage, status) ==
  CASE status = "succeeded" -> [row EXCEPT !.status = "reserved", !.token = t, !.lapsed = FALSE,
                                           !.overage = overage]
    [] status = "pending"   -> row
    [] status = "terminal"  -> [row EXCEPT !.status = "declined"]

Acquires(r, t, status) ==
  acquired' = IF status = "succeeded" THEN [acquired EXCEPT ![r] = acquired[r] \cup {t}]
              ELSE acquired

(* A new row is admitted on the plan's windows or on purchased headroom; the    *)
(* class is written when the reservation is acquired, and only then.            *)
Reserve(r, t, est, overage, status) ==
  /\ request[r].status = "none"
  /\ Settles(r, "reserve", est, overage, status)
  /\ request' = [request EXCEPT ![r] =
                   Reserved([request[r] EXCEPT !.status = "reserving", !.est = est, !.token = t],
                            t, overage, status)]
  /\ Acquires(r, t, status)
  /\ UNCHANGED <<ext, fees, period>>

(* A slip: a second attempt takes over a request that is reserved already. *)
ReserveAnyway(r, t, status) ==
  /\ request[r].status \in {"reserving", "reserved"}
  /\ Settles(r, "reserve", request[r].est, Label(r), status)
  /\ request' = [request EXCEPT ![r] = Reserved(request[r], t, request[r].overage, status)]
  /\ Acquires(r, t, status)
  /\ UNCHANGED <<ext, fees, period>>

(* The same key again, with the same or another token: only a reservation that *)
(* waits for its posting is settled, for the token that asks now.  A request    *)
(* that is running answers in_progress, or acquired to the token that has it.   *)
ReserveAgain(r, t, status) ==
  /\ request[r].status = "reserving"
  /\ Settles(r, "reserve", request[r].est, Label(r), status)
  /\ request' = [request EXCEPT ![r] = Reserved(request[r], t, request[r].overage, status)]
  /\ Acquires(r, t, status)
  /\ UNCHANGED <<ext, fees, period>>

-------------------------------------------------------------------------------
(* What the caller that acquired the request does.                             *)

Has(r, t) == t \in acquired[r] /\ request[r].token = t

(* mark_managed_usage_provider_started *)
MarkStarted(r, t) ==
  /\ Has(r, t)
  /\ request[r].status = "reserved" /\ ~request[r].lapsed
  /\ request' = [request EXCEPT ![r].status = "provider_started"]
  /\ UNCHANGED <<ext, job, posted, fees, used, period, acquired, faults>>

Runs(r, t) == Has(r, t) /\ request[r].status = "provider_started" /\ ~request[r].lapsed

(* extend_..._provider_step: the first operation is covered by the reservation. *)
CoverFirst(r, t, o) ==
  /\ Runs(r, t)
  /\ request[r].first = NoOp
  /\ request' = [request EXCEPT ![r].first = o]
  /\ UNCHANGED <<ext, job, posted, fees, used, period, acquired, faults>>

Extending(r, t, o) ==
  /\ Runs(r, t)
  /\ request[r].first \notin {NoOp, o}
  /\ ext[r][o] \in {"none", "reserving"}

(* A plan window is full, or the request is already overage, and no headroom. *)
RefuseStep(r, t, o) ==
  /\ Extending(r, t, o)
  /\ ext' = [ext EXCEPT ![r][o] = "declined"]
  /\ UNCHANGED <<request, job, posted, fees, used, period, acquired, faults>>

(* A slip: the row takes the status of its settlement. *)
ExtStatusRaw(status) == status

ExtStatus(status) ==
  CASE status = "succeeded" -> "extended" [] status = "pending" -> "reserving"
    [] status = "terminal" -> "declined"

ExtendedRow(row, o, overage, status) ==
  [row EXCEPT !.overage = (overage /\ status # "terminal") \/ row.overage,
              !.est = IF status = "succeeded" THEN row.est + StepCost[o] ELSE row.est]

(* Otherwise the step is settled.  A step beyond the plan's windows makes the   *)
(* request overage before it is, and plan again if the settlement is refused.   *)
Extend(r, t, o, limited, status) ==
  /\ Extending(r, t, o)
  /\ Settles(r, o, StepCost[o], request[r].overage \/ limited, status)
  /\ ext' = [ext EXCEPT ![r][o] = ExtStatus(status)]
  /\ request' = [request EXCEPT ![r] = ExtendedRow(request[r], o, limited, status)]
  /\ UNCHANGED <<fees, period, acquired>>

Closes(r, end, actual) ==
  request' = [request EXCEPT ![r].status = end, ![r].actual = actual]

(* A slip: the first terminal transition does not win. *)
FinalizeOver(r, t, end, actual, status) ==
  /\ Has(r, t)
  /\ request[r].status \in IF end = "completed" THEN {"provider_started", "released"}
                           ELSE {"reserved", "provider_started"}
  /\ Settles(r, "final", actual - request[r].est, Label(r), status)
  /\ Closes(r, end, actual)
  /\ UNCHANGED <<ext, fees, period, acquired>>

(* finalize_managed_usage_request: completed at the actual cost, or failed and  *)
(* released.  A lapsed lease is no obstacle until recovery has taken the row.   *)
(* The row is closed whatever the settlement answers.                           *)
Finalize(r, t, end, actual, status) ==
  /\ Has(r, t)
  /\ request[r].status \in IF end = "completed" THEN {"provider_started"}
                           ELSE {"reserved", "provider_started"}
  /\ Settles(r, "final", actual - request[r].est, Label(r), status)
  /\ Closes(r, end, actual)
  /\ UNCHANGED <<ext, fees, period, acquired>>

(* settleLateManagedUsage: recovery had closed the request as outcome_unknown    *)
(* when its work was delivered, so it is charged by a job of its own, whose      *)
(* ledger row is not of the request and counts as plan usage.                    *)
SettleLate(r, t, actual, status) ==
  /\ Has(r, t)
  /\ request[r].status = "outcome_unknown"
  /\ actual > 0
  /\ job[r]["late"].status = "none" \/ job[r]["late"].amount = actual
  /\ Settles(r, "late", actual, FALSE, status)
  /\ UNCHANGED <<request, ext, fees, period, acquired>>

-------------------------------------------------------------------------------
(* Time, the crons and the billing period.                                      *)

LeaseLapses(r) ==
  /\ request[r].status \in Open /\ ~request[r].lapsed
  /\ request' = [request EXCEPT ![r].lapsed = TRUE]
  /\ UNCHANGED <<ext, job, posted, fees, used, period, acquired, faults>>

(* A slip: recovery does not look at the pending posting of the reservation. *)
RecoverableHasty(r) == request[r].status \in Open /\ request[r].lapsed

(* A slip: a request whose provider was started is left alone. *)
RecoverableUnstarted(r) ==
  /\ request[r].status \in {"reserving", "reserved"} /\ request[r].lapsed
  /\ request[r].status = "reserving" => job[r]["reserve"].status \in Done

(* recover_stale_managed_usage_requests skips a reservation whose posting may   *)
(* still be made.                                                               *)
Recoverable(r) ==
  /\ request[r].status \in Open /\ request[r].lapsed
  /\ request[r].status = "reserving" => job[r]["reserve"].status \in Done

(* A reservation that was refused meanwhile held nothing. *)
RecoverUnpaid(r) ==
  /\ Recoverable(r)
  /\ request[r].status = "reserving" /\ job[r]["reserve"].status # "succeeded"
  /\ Closes(r, "outcome_unknown", 0)
  /\ UNCHANGED <<ext, job, posted, fees, used, period, acquired, faults>>

(* Any other one is given back. *)
RecoverPaid(r, status) ==
  /\ Recoverable(r)
  /\ request[r].status = "reserving" => job[r]["reserve"].status = "succeeded"
  /\ Settles(r, "final", -request[r].est, Label(r), status)
  /\ Closes(r, "outcome_unknown", 0)
  /\ UNCHANGED <<ext, fees, period, acquired>>

(* process_credit_settlement_queue: a pending job is tried again.  It moves the  *)
(* money and not the row of the request, nor that of the extension.              *)
RetryJob(r, k, status) ==
  /\ job[r][k].status = "pending"
  /\ Settles(r, k, job[r][k].amount, k # "late" /\ Label(r), status)
  /\ UNCHANGED <<request, ext, fees, period, acquired>>

(* deduct_credits for what is not a managed request, a web search for instance. *)
Deduct ==
  /\ fees[period] + Fee <= MaxFees
  /\ used[period] + Fee <= Allowance
  /\ used' = [used EXCEPT ![period] = used[period] + Fee]
  /\ fees' = [fees EXCEPT ![period] = fees[period] + Fee]
  /\ UNCHANGED <<request, ext, job, posted, period, acquired, faults>>

(* get_or_create_credit_account: the next period has an account of its own. *)
NewPeriod ==
  /\ period < MaxPeriods
  /\ period' = period + 1
  /\ UNCHANGED <<request, ext, job, posted, fees, used, acquired, faults>>

-------------------------------------------------------------------------------

Caller(r, t, status) ==
  \/ \E est \in Estimates, overage \in BOOLEAN : Reserve(r, t, est, overage, status)
  \/ ReserveAgain(r, t, status)
  \/ \E o \in Ops, limited \in BOOLEAN : Extend(r, t, o, limited, status)
  \/ \E actual \in Actuals : \/ Finalize(r, t, "completed", actual, status)
                             \/ SettleLate(r, t, actual, status)
  \/ Finalize(r, t, "released", 0, status)

Recover(r) == RecoverUnpaid(r) \/ \E status \in Done \cup {"pending"} : RecoverPaid(r, status)

LedgerNext ==
  \/ \E r \in Requests : \/ \E t \in Tokens : \/ \E status \in Done \cup {"pending"} :
                                                   Caller(r, t, status)
                                              \/ MarkStarted(r, t)
                                              \/ \E o \in Ops : CoverFirst(r, t, o) \/ RefuseStep(r, t, o)
                         \/ LeaseLapses(r)
                         \/ Recover(r)
                         \/ \E k \in Kinds, status \in Done \cup {"pending"} : RetryJob(r, k, status)
  \/ Deduct
  \/ NewPeriod

LedgerSpec == LedgerInit /\ [][LedgerNext]_ledgerVars

(* Leases lapse, because renewal stops a day after the request was made, and    *)
(* the crons recover and retry, some of their retries without an error.  The    *)
(* callers owe nothing.                                                         *)
LedgerFairness ==
  \A r \in Requests : /\ WF_ledgerVars(LeaseLapses(r))
                      /\ WF_ledgerVars(Recover(r))
                      /\ \A k \in Kinds : WF_ledgerVars(\E status \in Done \cup {"pending"} :
                                                          RetryJob(r, k, status))

LedgerFairSpec == LedgerSpec /\ LedgerFairness

-------------------------------------------------------------------------------
(* Properties.                                                                  *)

(* credits_used of an account stays between nothing and what was allocated, and  *)
(* is what the ledger rows on that account add up to, although charges and       *)
(* releases of a request may meet different accounts.                            *)
PostedOn(p) == SumFunction([r \in Requests |-> posted[r][p]["plan"] + posted[r][p]["overage"]])

BooksBalance == \A p \in Periods : used[p] \in 0..Allowance /\ used[p] = PostedOn(p) + fees[p]

(* However attempts of a client, retries of the reservation by the cron and      *)
(* lapsed leases interleave, only one attempt is ever told to call the provider. *)
OneExecutor == \A r \in Requests : Cardinality(acquired[r]) <= 1

ClassTotal(r, c) == SumFunction([p \in Periods |-> posted[r][p][c]])
Net(r) == ClassTotal(r, "plan") + ClassTotal(r, "overage")

(* What a request should hold by its row: nothing until its reservation is       *)
(* posted, its estimate while it runs, and in the end its actual cost if the      *)
(* last posting was made, its estimate if it was not, and what was charged late. *)
Paid(r, k) == IF job[r][k].status = "succeeded" THEN job[r][k].amount ELSE 0

Held(r) ==
  CASE request[r].status \in {"none", "declined"} -> 0
    [] request[r].status = "reserving" -> Paid(r, "reserve")
    [] request[r].status \in {"reserved", "provider_started"} -> request[r].est
    [] OTHER -> (CASE job[r]["final"].status = "none"      -> 0
                   [] job[r]["final"].status = "succeeded" -> request[r].actual
                   [] OTHER                                -> request[r].est) + Paid(r, "late")

(* Steps that were posted by the cron and that their request does not know of.   *)
Unaccounted(r) == SumFunction([o \in Ops |-> IF ext[r][o] = "extended" THEN 0 ELSE Paid(r, o)])

(* Whatever was retried, recovered, answered twice or delivered late, the ledger *)
(* rows of a request add up to what its row says it holds, and to the steps that *)
(* only the cron posted: nothing is charged twice.  And the plan windows are not *)
(* given back what they were not charged.                                        *)
EveryRowExplained ==
  \A r \in Requests :
    /\ Net(r) = Held(r) + Unaccounted(r)
    /\ ClassTotal(r, "plan") >= 0

(* The first terminal transition wins: later finalizations, recoveries and late  *)
(* deliveries leave the outcome and the cost of a closed request as they are.    *)
FirstOutcomeWins ==
  [][\A r \in Requests : request[r].status \in Closed => request'[r] = request[r]]_ledgerVars

HalfWay(r) == request[r].status \in Open \/ \E k \in Kinds : job[r][k].status = "pending"

(* Every reservation ends, whether or not anybody comes back for it, and every   *)
(* posting is made or refused for good.                                          *)
NothingLeftHalfWay == \A r \in Requests : HalfWay(r) ~> ~HalfWay(r)

-------------------------------------------------------------------------------
(* What the comments and tests say and these functions do not do.               *)

(* managed-usage-lifecycle.invariants.test.ts: a failed turn is charged nothing  *)
(* and leaves no reservation behind, once its own postings are made.             *)
FailedTurnsCostNothing ==
  \A r \in Requests :
    request[r].status = "released" /\ job[r]["final"].status = "succeeded" => Net(r) = 0

(* settle_managed_usage_credits: a release may only give back what has           *)
(* contributed to the ledger of this billing period.                             *)
ReleasedWhereTaken ==
  \A r \in Requests, p \in Periods : posted[r][p]["plan"] + posted[r][p]["overage"] >= 0

(* 0281: a request is plan usage or overage usage for its whole life.            *)
OneClassForLife == \A r \in Requests : ClassTotal(r, "plan") = 0 \/ ClassTotal(r, "overage") = 0

===============================================================================

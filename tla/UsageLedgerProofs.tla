--------------------------- MODULE UsageLedgerProofs ---------------------------
(***************************************************************************)
(* Proofs about UsageLedger, for every finite number of requests, steps,   *)
(* billing periods and faults, and every price, estimate and allowance.    *)
(*                                                                         *)
(* The books are sums, so the invariant says of each request which jobs it *)
(* can have by its status, and that its ledger rows are what its succeeded *)
(* jobs posted; of the sum of its steps it tells apart what its row knows  *)
(* of and what only the cron posted.                                       *)
(***************************************************************************)
EXTENDS UsageLedger, FunctionSums, TLAPS

(* What a settlement can answer. *)
Statuses == Done \cup {"pending"}

(* A job that may still be settled has an attempt left. *)
Types ==
  /\ LedgerTypeOK
  /\ \A r \in Requests, k \in Kinds : Unsettled(r, k) => job[r][k].tries < MaxTries

(* The steps the row of the request counts in its estimate. *)
Known(r) == SumFunction([o \in Ops |-> IF ext[r][o] = "extended" THEN Paid(r, o) ELSE 0])

(* Every ledger row of a request is the posting of one of its jobs. *)
Totals(r) ==
  Net(r) = Paid(r, "reserve") + Paid(r, "final") + Paid(r, "late") + Known(r) + Unaccounted(r)

(* A step is posted at its estimate, and its extension is only granted if it was. *)
Steps(r) ==
  \A o \in Ops : /\ job[r][o].status # "none" => job[r][o].amount = StepCost[o]
                 /\ ext[r][o] = "extended" => job[r][o].status = "succeeded"

(* No step was asked for. *)
Unextended(r) == \A o \in Ops : job[r][o].status = "none" /\ ext[r][o] = "none"

(* Which jobs a request has by its status, and what they add up to. *)
Stage(r) ==
  /\ request[r].status = "none" => job[r]["reserve"].status = "none" /\ ~request[r].overage
  /\ request[r].status = "reserving" =>
       job[r]["reserve"].status # "none" /\ job[r]["reserve"].amount = request[r].est
  /\ request[r].status = "declined" => job[r]["reserve"].status = "terminal"
  /\ request[r].status \in {"none", "reserving", "declined"} => Unextended(r)
  /\ request[r].status \in Open \cup {"none", "declined"} =>
       job[r]["final"].status = "none" /\ job[r]["late"].status = "none"
  /\ request[r].status \in {"reserved", "provider_started"} => job[r]["reserve"].status = "succeeded"
  /\ request[r].status \in Closed \ {"declined"} =>
       IF job[r]["reserve"].status = "succeeded"
       THEN /\ job[r]["final"].status # "none"
            /\ job[r]["final"].amount = request[r].actual - request[r].est
       ELSE /\ Unextended(r)
            /\ job[r]["final"].status = "none" /\ job[r]["late"].status = "none"
            /\ job[r]["reserve"].status = "terminal"
  /\ job[r]["reserve"].status = "succeeded" =>
       request[r].est = job[r]["reserve"].amount + Known(r)

(* Only overage is posted as overage, and once a request is overage nothing that *)
(* was posted as plan usage is given back.                                       *)
Classed(r) ==
  /\ ~request[r].overage => ClassTotal(r, "overage") = 0
  /\ ClassTotal(r, "plan") >= 0
  /\ job[r]["late"].amount >= 0

(* A request is run by the attempt its row names, and by none before it is reserved. *)
Executor(r) ==
  /\ acquired[r] \subseteq {request[r].token}
  /\ request[r].status \in {"none", "reserving"} => acquired[r] = {}
  /\ acquired[r] # {} => job[r]["reserve"].status = "succeeded"

RowInv(r) == Totals(r) /\ Steps(r) /\ Stage(r) /\ Classed(r) /\ Executor(r)

IInv == Types /\ BooksBalance /\ \A r \in Requests : RowInv(r)

--------------------------------------------------------------------------------
(* Types. *)

(* Settling a job writes values of the types of the tables it writes. *)
LEMMA SettlesTyped ==
  ASSUME Types, NEW r \in Requests, NEW k \in Kinds, NEW amount \in Int, NEW overage \in BOOLEAN,
         NEW status \in Statuses, Settles(r, k, amount, overage, status)
  PROVE  /\ job' \in [Requests -> [Kinds -> Job]]
         /\ posted' \in [Requests -> [Periods -> [Classes -> Int]]]
         /\ used' \in [Periods -> Int]
         /\ faults' \in 0..MaxFaults
         /\ \A s \in Requests, j \in Kinds : Unsettled(s, j)' => job'[s][j].tries < MaxTries
<1>0. /\ job \in [Requests -> [Kinds -> Job]] /\ posted \in [Requests -> [Periods -> [Classes -> Int]]]
      /\ used \in [Periods -> Int] /\ faults \in 0..MaxFaults /\ period \in Periods
      /\ \A s \in Requests, j \in Kinds : Unsettled(s, j) => job[s][j].tries < MaxTries
  BY DEF Types, LedgerTypeOK
<1>1. CASE ~Unsettled(r, k)
  BY <1>0, <1>1 DEF Settles, Unsettled
<1>2. CASE Unsettled(r, k)
  <2>1. /\ Verdict(r, k, amount, status)
        /\ job' = [job EXCEPT ![r][k] = [status |-> status, amount |-> amount,
                                         tries |-> job[r][k].tries + 1]]
        /\ IF status = "succeeded" THEN Posts(r, amount, overage) ELSE UNCHANGED <<used, posted>>
    BY <1>2 DEF Settles
  <2>2. job[r][k].tries \in 0..MaxTries /\ job[r][k].tries < MaxTries /\ MaxTries \in Nat
    BY <1>0, <1>2, LedgerBounds DEF Job
  <2>3. [status |-> status, amount |-> amount, tries |-> job[r][k].tries + 1] \in Job
    BY <2>2 DEF Job, Statuses, Done
  <2>4. job' \in [Requests -> [Kinds -> Job]]
    BY <1>0, <2>1, <2>3
  <2>5. faults' \in 0..MaxFaults
    BY <1>0, <2>1, LedgerBounds DEF Verdict, LedgerFault
  <2>6. used' \in [Periods -> Int] /\ posted' \in [Requests -> [Periods -> [Classes -> Int]]]
    <3>1. CASE status = "succeeded"
      <4>1. ClassOf(overage) \in Classes
        BY DEF ClassOf, Classes
      <4>2. used[period] + amount \in Int /\ posted[r][period][ClassOf(overage)] + amount \in Int
        BY <1>0, <4>1
      <4>3. used' = [used EXCEPT ![period] = used[period] + amount]
            /\ posted' = [posted EXCEPT ![r][period][ClassOf(overage)] =
                                          posted[r][period][ClassOf(overage)] + amount]
        BY <2>1, <3>1 DEF Posts
      <4>4. used' \in [Periods -> Int]
        BY <1>0, <4>2, <4>3
      <4>5. posted' \in [Requests -> [Periods -> [Classes -> Int]]]
        BY <1>0, <4>1, <4>2, <4>3
      <4> QED BY <4>4, <4>5
    <3>2. CASE status # "succeeded"
      BY <1>0, <2>1, <3>2
    <3> QED BY <3>1, <3>2
  <2>7. ASSUME NEW s \in Requests, NEW j \in Kinds, Unsettled(s, j)'
        PROVE  job'[s][j].tries < MaxTries
    <3>1. CASE s = r /\ j = k
      <4>1. job'[s][j] = [status |-> status, amount |-> amount, tries |-> job[r][k].tries + 1]
        BY <1>0, <2>1, <3>1
      <4>2. status = "pending"
        BY <2>7, <4>1 DEF Unsettled, Statuses, Done
      <4> QED BY <2>1, <4>1, <4>2 DEF Verdict
    <3>2. CASE ~(s = r /\ j = k)
      <4>1. job'[s][j] = job[s][j]
        BY <1>0, <2>1, <3>2
      <4> QED BY <1>0, <2>7, <4>1 DEF Unsettled
    <3> QED BY <3>1, <3>2
  <2> QED BY <2>4, <2>5, <2>6, <2>7
<1> QED BY <1>1, <1>2

(* The row of the request of a call keeps its type. *)
LEMMA ReservedTyped ==
  ASSUME NEW row \in Request, NEW t \in Tokens, NEW overage \in BOOLEAN, NEW status \in Statuses
  PROVE  Reserved(row, t, overage, status) \in Request
<1>1. CASE status = "succeeded"
  BY <1>1 DEF Reserved, Request, Open
<1>2. CASE status = "pending"
  BY <1>2 DEF Reserved
<1>3. CASE status = "terminal"
  BY <1>3 DEF Reserved, Request, Closed
<1> QED BY <1>1, <1>2, <1>3 DEF Statuses, Done

(* The row of a request whose step was settled is a row. *)
LEMMA ExtendedTyped ==
  ASSUME NEW row \in Request, NEW o \in Ops, NEW limited \in BOOLEAN, NEW status \in Statuses
  PROVE  ExtendedRow(row, o, limited, status) \in Request
<1>1. StepCost[o] \in Nat /\ row.est \in Nat
  BY AmountAssumption DEF Request
<1>2. row.est + StepCost[o] \in Nat
  BY <1>1
<1> QED BY <1>1, <1>2 DEF ExtendedRow, Request

(* A record that replaces a row is the row with some of its fields replaced. *)
LEMMA RowReplaced ==
  ASSUME request \in [Requests -> Request], NEW r \in Requests, NEW row \in Request,
         request' = [request EXCEPT ![r] = row]
  PROVE  request' \in [Requests -> Request] /\ request'[r] = row
OBVIOUS

(* Closing a request writes its status and its cost and nothing else. *)
LEMMA ClosesShape ==
  ASSUME request \in [Requests -> Request], NEW r \in Requests, NEW end \in Closed,
         NEW actual \in Nat, Closes(r, end, actual)
  PROVE  /\ request' \in [Requests -> Request]
         /\ request'[r].status = end /\ request'[r].actual = actual
         /\ request'[r].est = request[r].est /\ request'[r].token = request[r].token
         /\ request'[r].overage = request[r].overage
         /\ \A s \in Requests \ {r} : request'[s] = request[s]
<1> DEFINE row == [request[r] EXCEPT !.status = end, !.actual = actual]
<1>1. /\ row \in Request /\ row.status = end /\ row.actual = actual
      /\ row.est = request[r].est /\ row.token = request[r].token
      /\ row.overage = request[r].overage
  BY DEF Request
<1>2. request' = [request EXCEPT ![r] = row]
  BY DEF Closes
<1> HIDE DEF row
<1> QED BY <1>1, <1>2

(* Every step keeps the types, and leaves an attempt to every job that may *)
(* still be settled.                                                       *)
LEMMA TypesKept == Types /\ [LedgerNext]_ledgerVars => Types'
<1> SUFFICES ASSUME Types, [LedgerNext]_ledgerVars PROVE Types'
  OBVIOUS
<1>0. /\ request \in [Requests -> Request]
      /\ ext \in [Requests -> [Ops -> {"none", "reserving", "extended", "declined"}]]
      /\ job \in [Requests -> [Kinds -> Job]]
      /\ posted \in [Requests -> [Periods -> [Classes -> Int]]]
      /\ fees \in [Periods -> Nat] /\ used \in [Periods -> Int] /\ period \in Periods
      /\ acquired \in [Requests -> SUBSET Tokens] /\ faults \in 0..MaxFaults
      /\ \A s \in Requests, j \in Kinds : Unsettled(s, j) => job[s][j].tries < MaxTries
  BY DEF Types, LedgerTypeOK
<1> DEFINE Posted == /\ job' \in [Requests -> [Kinds -> Job]]
                     /\ posted' \in [Requests -> [Periods -> [Classes -> Int]]]
                     /\ used' \in [Periods -> Int] /\ faults' \in 0..MaxFaults
                     /\ \A s \in Requests, j \in Kinds : Unsettled(s, j)' => job'[s][j].tries < MaxTries
<1>a. UNCHANGED <<job, posted, used, faults>> => Posted
  BY <1>0 DEF Unsettled
<1>b. \A r \in Requests, t \in Tokens, status \in Statuses :
        Acquires(r, t, status) => acquired' \in [Requests -> SUBSET Tokens]
  BY <1>0 DEF Acquires
<1>c. {"reserve", "final", "late"} \subseteq Kinds /\ Ops \subseteq Kinds
  BY DEF Kinds
<1>d. \A r \in Requests : request[r] \in Request /\ request[r].est \in Int /\ request[r].overage \in BOOLEAN
  BY <1>0 DEF Request
<1>e. \A r \in Requests, k \in Kinds : job[r][k].amount \in Int
  BY <1>0 DEF Job
<1>1. ASSUME NEW r \in Requests, NEW t \in Tokens, NEW status \in Statuses, NEW est \in Estimates,
             NEW overage \in BOOLEAN, Reserve(r, t, est, overage, status)
      PROVE  Types'
  <2>1. est \in Nat
    BY AmountAssumption
  <2>2. Posted
    BY <1>1, <1>c, <2>1, SettlesTyped DEF Reserve
  <2> DEFINE row == [request[r] EXCEPT !.status = "reserving", !.est = est, !.token = t]
  <2>3. row \in Request
    <3>1. request[r] \in Request /\ "reserving" \in Open
      BY <1>0 DEF Open
    <3>2. QED
      BY <2>1, <3>1 DEF Request
  <2>4. Reserved(row, t, overage, status) \in Request
    BY <2>3, ReservedTyped
  <2>5. request' \in [Requests -> Request]
    BY <1>0, <1>1, <2>4 DEF Reserve
  <2> QED BY <1>0, <1>1, <1>b, <2>2, <2>5 DEF Reserve, Types, LedgerTypeOK
<1>2. ASSUME NEW r \in Requests, NEW t \in Tokens, NEW status \in Statuses,
             ReserveAgain(r, t, status)
      PROVE  Types'
  <2>1. Posted
    BY <1>2, <1>c, <1>d, SettlesTyped DEF ReserveAgain, Label
  <2>2. Reserved(request[r], t, request[r].overage, status) \in Request
    BY <1>d, ReservedTyped
  <2>3. request' \in [Requests -> Request]
    BY <1>0, <1>2, <2>2 DEF ReserveAgain
  <2> QED BY <1>0, <1>2, <1>b, <2>1, <2>3 DEF ReserveAgain, Types, LedgerTypeOK
<1>3. ASSUME NEW r \in Requests, NEW t \in Tokens, NEW status \in Statuses, NEW o \in Ops,
             NEW limited \in BOOLEAN, Extend(r, t, o, limited, status)
      PROVE  Types'
  <2>1. StepCost[o] \in Int /\ (request[r].overage \/ limited) \in BOOLEAN
    BY <1>d, AmountAssumption
  <2>2. Posted
    BY <1>3, <1>c, <2>1, SettlesTyped DEF Extend
  <2>3. request' \in [Requests -> Request]
    <3>1. ExtendedRow(request[r], o, limited, status) \in Request
      BY <1>d, ExtendedTyped
    <3> QED BY <1>0, <1>3, <3>1 DEF Extend
  <2>4. ext' \in [Requests -> [Ops -> {"none", "reserving", "extended", "declined"}]]
    BY <1>0, <1>3 DEF Extend, ExtStatus, Statuses, Done
  <2> QED BY <1>0, <1>3, <2>2, <2>3, <2>4 DEF Extend, Types, LedgerTypeOK
<1>4. ASSUME NEW r \in Requests, NEW t \in Tokens, NEW status \in Statuses,
             NEW end \in {"completed", "released"}, NEW actual \in Nat,
             Finalize(r, t, end, actual, status)
      PROVE  Types'
  <2>1. Posted
    BY <1>4, <1>c, <1>d, SettlesTyped DEF Finalize, Label
  <2>2. request' \in [Requests -> Request]
    <3>1. end \in Closed /\ Closes(r, end, actual)
      BY <1>4 DEF Finalize, Closed
    <3> QED BY <1>0, <3>1, ClosesShape
  <2> QED BY <1>0, <1>4, <2>1, <2>2 DEF Finalize, Types, LedgerTypeOK
<1>5. ASSUME NEW r \in Requests, NEW t \in Tokens, NEW status \in Statuses, NEW actual \in Nat,
             SettleLate(r, t, actual, status)
      PROVE  Types'
  <2>1. Posted
    <3>1. PICK plan \in BOOLEAN : plan = FALSE
      OBVIOUS
    <3>2. Settles(r, "late", actual, plan, status)
      BY <1>5, <3>1, Zenon DEF SettleLate
    <3>3. actual \in Int
      OBVIOUS
    <3> QED BY <1>c, <3>2, <3>3, SettlesTyped
  <2> QED BY <1>0, <1>5, <2>1 DEF SettleLate, Types, LedgerTypeOK
<1>6. ASSUME NEW r \in Requests, NEW status \in Statuses, RecoverPaid(r, status)
      PROVE  Types'
  <2>1. Posted
    <3>1. Settles(r, "final", -request[r].est, Label(r), status) /\ -request[r].est \in Int
      BY <1>6, <1>d DEF RecoverPaid
    <3> QED BY <1>c, <1>d, <3>1, SettlesTyped DEF Label
  <2>2. request' \in [Requests -> Request]
    BY <1>0, <1>6, ClosesShape DEF RecoverPaid, Closed
  <2> QED BY <1>0, <1>6, <2>1, <2>2 DEF RecoverPaid, Types, LedgerTypeOK
<1>7. ASSUME NEW r \in Requests, NEW k \in Kinds, NEW status \in Statuses, RetryJob(r, k, status)
      PROVE  Types'
  <2>1. (k # "late" /\ Label(r)) \in BOOLEAN
    BY <1>d DEF Label
  <2>2. Posted
    BY <1>7, <1>e, <2>1, SettlesTyped DEF RetryJob
  <2> QED BY <1>0, <1>7, <2>2 DEF RetryJob, Types, LedgerTypeOK
<1>8. ASSUME NEW r \in Requests, NEW t \in Tokens, MarkStarted(r, t) PROVE Types'
  <2>1. request' \in [Requests -> Request]
    <3>1. [request[r] EXCEPT !.status = "provider_started"] \in Request
      BY <1>d DEF Request, Open
    <3>2. request' = [request EXCEPT ![r] = [request[r] EXCEPT !.status = "provider_started"]]
      BY <1>8 DEF MarkStarted
    <3> QED BY <1>0, <3>1, <3>2
  <2> QED BY <1>0, <1>8, <1>a, <2>1 DEF MarkStarted, Types, LedgerTypeOK
<1>9. ASSUME NEW r \in Requests, NEW t \in Tokens, NEW o \in Ops, CoverFirst(r, t, o) PROVE Types'
  <2>1. request' \in [Requests -> Request]
    <3>1. [request[r] EXCEPT !.first = o] \in Request
      BY <1>d DEF Request
    <3>2. request' = [request EXCEPT ![r] = [request[r] EXCEPT !.first = o]]
      BY <1>9 DEF CoverFirst
    <3> QED BY <1>0, <3>1, <3>2
  <2> QED BY <1>0, <1>9, <1>a, <2>1 DEF CoverFirst, Types, LedgerTypeOK
<1>10. ASSUME NEW r \in Requests, NEW t \in Tokens, NEW o \in Ops, RefuseStep(r, t, o) PROVE Types'
  <2>1. ext' \in [Requests -> [Ops -> {"none", "reserving", "extended", "declined"}]]
    BY <1>0, <1>10 DEF RefuseStep
  <2> QED BY <1>0, <1>10, <1>a, <2>1 DEF RefuseStep, Types, LedgerTypeOK
<1>11. ASSUME NEW r \in Requests, LeaseLapses(r) PROVE Types'
  <2>1. request' \in [Requests -> Request]
    <3>1. [request[r] EXCEPT !.lapsed = TRUE] \in Request
      BY <1>d DEF Request
    <3>2. request' = [request EXCEPT ![r] = [request[r] EXCEPT !.lapsed = TRUE]]
      BY <1>11 DEF LeaseLapses
    <3> QED BY <1>0, <3>1, <3>2
  <2> QED BY <1>0, <1>11, <1>a, <2>1 DEF LeaseLapses, Types, LedgerTypeOK
<1>12. ASSUME NEW r \in Requests, RecoverUnpaid(r) PROVE Types'
  <2>1. request' \in [Requests -> Request]
    BY <1>0, <1>12, ClosesShape DEF RecoverUnpaid, Closed
  <2> QED BY <1>0, <1>12, <1>a, <2>1 DEF RecoverUnpaid, Types, LedgerTypeOK
<1>13. CASE Deduct
  <2>1. used[period] + Fee \in Int /\ fees[period] + Fee \in Nat
    BY <1>0, AmountAssumption
  <2>2. used' \in [Periods -> Int] /\ fees' \in [Periods -> Nat]
    BY <1>0, <1>13, <2>1 DEF Deduct
  <2> QED BY <1>0, <1>13, <2>2 DEF Deduct, Types, LedgerTypeOK, Unsettled
<1>14. CASE NewPeriod
  <2>1. period' \in Periods
    BY <1>0, <1>14, LedgerBounds DEF NewPeriod, Periods
  <2> QED BY <1>0, <1>14, <1>a, <2>1 DEF NewPeriod, Types, LedgerTypeOK
<1>15. CASE UNCHANGED ledgerVars
  BY <1>0, <1>15, <1>a DEF ledgerVars, Types, LedgerTypeOK
<1>16. Actuals \subseteq Nat /\ 0 \in Nat /\ "pending" \in Statuses
  BY AmountAssumption DEF Statuses
<1> QED BY <1>1, <1>2, <1>3, <1>4, <1>5, <1>6, <1>7, <1>8, <1>9, <1>10, <1>11, <1>12, <1>13, <1>14,
           <1>15, <1>16
        DEF LedgerNext, Caller, Recover, Statuses

--------------------------------------------------------------------------------
(* What a posting does to the sums. *)

(* There are finitely many billing periods. *)
LEMMA PeriodsFinite == IsFiniteSet(Periods)
BY FS_Interval, LedgerBounds DEF Periods

(* What a request posted in a class is an integer. *)
LEMMA TotalTyped ==
  ASSUME Types, NEW r \in Requests, NEW c \in Classes
  PROVE  ClassTotal(r, c) \in Int
<1>1. [p \in Periods |-> posted[r][p][c]] \in [Periods -> Int]
  BY DEF Types, LedgerTypeOK
<1> QED BY <1>1, PeriodsFinite, SumOfIntegers DEF ClassTotal

(* What was posted on an account is an integer. *)
LEMMA AccountTyped ==
  ASSUME Types, NEW p \in Periods
  PROVE  PostedOn(p) \in Int
<1>1. [r \in Requests |-> posted[r][p]["plan"] + posted[r][p]["overage"]] \in [Requests -> Int]
  BY DEF Types, LedgerTypeOK, Classes
<1> QED BY <1>1, LedgerRows, SumOfIntegers DEF PostedOn

(* The totals of a request depend on its own ledger rows alone. *)
LEMMA TotalsSame ==
  ASSUME NEW r \in Requests, posted'[r] = posted[r], NEW c \in Classes
  PROVE  ClassTotal(r, c)' = ClassTotal(r, c)
<1>1. [p \in Periods |-> posted'[r][p][c]] = [p \in Periods |-> posted[r][p][c]]
  OBVIOUS
<1> QED BY <1>1 DEF ClassTotal

(* A posting moves one total of one request and one account by its amount. *)
LEMMA PostsShape ==
  ASSUME Types, NEW r \in Requests, NEW amount \in Int, NEW overage \in BOOLEAN,
         Posts(r, amount, overage)
  PROVE  /\ ClassTotal(r, ClassOf(overage))' = ClassTotal(r, ClassOf(overage)) + amount
         /\ \A c \in Classes \ {ClassOf(overage)} : ClassTotal(r, c)' = ClassTotal(r, c)
         /\ \A s \in Requests \ {r} : posted'[s] = posted[s]
         /\ \A p \in Periods : PostedOn(p)' = PostedOn(p) + (IF p = period THEN amount ELSE 0)
<1>0. /\ posted \in [Requests -> [Periods -> [Classes -> Int]]] /\ period \in Periods
      /\ Classes = {"plan", "overage"}
  BY DEF Types, LedgerTypeOK, Classes
<1> DEFINE cls == ClassOf(overage)
<1>1. cls \in Classes
  BY DEF ClassOf, Classes
<1> HIDE DEF cls
<1>2. posted' = [posted EXCEPT ![r][period][cls] = posted[r][period][cls] + amount]
  BY DEF Posts, cls
<1>3. \A s \in Requests, p \in Periods, c \in Classes :
        posted'[s][p][c] = IF s = r /\ p = period /\ c = cls THEN posted[s][p][c] + amount
                           ELSE posted[s][p][c]
  BY <1>0, <1>1, <1>2
<1>4. \A s \in Requests \ {r} : posted'[s] = posted[s]
  BY <1>0, <1>2
<1>5. \A s \in Requests, p \in Periods, c \in Classes :
        posted[s][p][c] \in Int /\ posted'[s][p][c] \in Int
  BY <1>0, <1>3
<1>6. ASSUME NEW c \in Classes
      PROVE  ClassTotal(r, c)' = ClassTotal(r, c) + (IF c = cls THEN amount ELSE 0)
  <2> DEFINE f == [p \in Periods |-> posted[r][p][c]]
             g == [p \in Periods |-> posted'[r][p][c]]
  <2>1. f \in [Periods -> Int] /\ g \in [Periods -> Int]
    BY <1>5
  <2>2. \A p \in Periods \ {period} : g[p] = f[p]
    BY <1>3
  <2>3. g[period] - f[period] = (IF c = cls THEN amount ELSE 0) /\ g[period] \in Int /\ f[period] \in Int
    BY <1>0, <1>3, <1>5
  <2>4. ClassTotal(r, c) = SumFunction(f) /\ ClassTotal(r, c)' = SumFunction(g)
    BY DEF ClassTotal
  <2>5. SumFunction(f) \in Int
    BY <2>1, PeriodsFinite, SumOfIntegers
  <2> HIDE DEF f, g
  <2>6. SumFunction(g) = SumFunction(f) + g[period] - f[period]
    <3>1. period \in Periods /\ IsFiniteSet(Periods)
      BY <1>0, PeriodsFinite
    <3> HIDE DEF Periods
    <3> QED BY <2>1, <2>2, <3>1, SumOfChange
  <2> QED BY <2>3, <2>4, <2>5, <2>6
<1>7. ASSUME NEW p \in Periods
      PROVE  PostedOn(p)' = PostedOn(p) + (IF p = period THEN amount ELSE 0)
  <2> DEFINE f == [s \in Requests |-> posted[s][p]["plan"] + posted[s][p]["overage"]]
             g == [s \in Requests |-> posted'[s][p]["plan"] + posted'[s][p]["overage"]]
  <2>1. f \in [Requests -> Int] /\ g \in [Requests -> Int]
    BY <1>0, <1>5
  <2>2. \A s \in Requests \ {r} : g[s] = f[s]
    BY <1>4
  <2>3. g[r] - f[r] = (IF p = period THEN amount ELSE 0) /\ g[r] \in Int /\ f[r] \in Int
    BY <1>0, <1>1, <1>3, <1>5
  <2>4. PostedOn(p) = SumFunction(f) /\ PostedOn(p)' = SumFunction(g)
    BY DEF PostedOn
  <2>5. SumFunction(f) \in Int
    BY <2>1, LedgerRows, SumOfIntegers
  <2> HIDE DEF f, g
  <2>6. SumFunction(g) = SumFunction(f) + g[r] - f[r]
    BY <2>1, <2>2, LedgerRows, SumOfChange
  <2> QED BY <2>3, <2>4, <2>5, <2>6
<1>8. \A c \in Classes : ClassTotal(r, c) \in Int
  BY TotalTyped
<1> QED BY <1>1, <1>4, <1>6, <1>7, <1>8 DEF cls

--------------------------------------------------------------------------------
(* The sums over the steps of a request: one of them changes, or none. *)

Part(r) == [o \in Ops |-> IF ext[r][o] = "extended" THEN Paid(r, o) ELSE 0]
Rest(r) == [o \in Ops |-> IF ext[r][o] = "extended" THEN 0 ELSE Paid(r, o)]

(* The sums over the steps of a request are integers. *)
LEMMA StepsTyped ==
  ASSUME Types, NEW r \in Requests
  PROVE  /\ Part(r) \in [Ops -> Int] /\ Rest(r) \in [Ops -> Int]
         /\ Known(r) = SumFunction(Part(r)) /\ Unaccounted(r) = SumFunction(Rest(r))
         /\ Known(r) \in Int /\ Unaccounted(r) \in Int
         /\ \A k \in Kinds : Paid(r, k) \in Int
<1>1. \A k \in Kinds : Paid(r, k) \in Int
  BY DEF Types, LedgerTypeOK, Job, Paid
<1>2. Part(r) \in [Ops -> Int] /\ Rest(r) \in [Ops -> Int]
  <2>1. \A o \in Ops : Paid(r, o) \in Int
    BY <1>1 DEF Kinds
  <2> HIDE DEF Paid
  <2> QED BY <2>1 DEF Part, Rest
<1>3. Known(r) = SumFunction(Part(r)) /\ Unaccounted(r) = SumFunction(Rest(r))
  BY DEF Known, Unaccounted, Part, Rest
<1> QED BY <1>1, <1>2, <1>3, LedgerRows, SumOfIntegers

(* They depend on the extensions and the postings of the steps. *)
LEMMA StepsSame ==
  ASSUME NEW r \in Requests,
         \A o \in Ops : ext'[r][o] = ext[r][o] /\ Paid(r, o)' = Paid(r, o)
  PROVE  Known(r)' = Known(r) /\ Unaccounted(r)' = Unaccounted(r)
<1>1. Part(r)' = Part(r) /\ Rest(r)' = Rest(r)
  BY DEF Part, Rest
<1>2. /\ Known(r) = SumFunction(Part(r)) /\ Unaccounted(r) = SumFunction(Rest(r))
      /\ Known(r)' = SumFunction(Part(r)') /\ Unaccounted(r)' = SumFunction(Rest(r)')
  BY DEF Known, Unaccounted, Part, Rest
<1> QED BY <1>1, <1>2

(* They move by what they move at the one step that changes. *)
LEMMA StepsMove ==
  ASSUME Types, Types', NEW r \in Requests, NEW o \in Ops,
         \A q \in Ops \ {o} : ext'[r][q] = ext[r][q] /\ Paid(r, q)' = Paid(r, q)
  PROVE  /\ Known(r)' = Known(r) + Part(r)[o]' - Part(r)[o]
         /\ Unaccounted(r)' = Unaccounted(r) + Rest(r)[o]' - Rest(r)[o]
<1>1. /\ Part(r) \in [Ops -> Int] /\ Rest(r) \in [Ops -> Int]
      /\ Part(r)' \in [Ops -> Int] /\ Rest(r)' \in [Ops -> Int]
  <2>1. Part(r) \in [Ops -> Int] /\ Rest(r) \in [Ops -> Int]
    BY StepsTyped
  <2>2. \A k \in Kinds : Paid(r, k)' \in Int
    BY DEF Types, LedgerTypeOK, Job, Paid
  <2>3. Part(r)' \in [Ops -> Int] /\ Rest(r)' \in [Ops -> Int]
    <3>1. \A q \in Ops : Paid(r, q)' \in Int
      BY <2>2 DEF Kinds
    <3> QED BY <3>1 DEF Part, Rest
  <2> QED BY <2>1, <2>3
<1>2. \A q \in Ops \ {o} : Part(r)'[q] = Part(r)[q] /\ Rest(r)'[q] = Rest(r)[q]
  BY DEF Part, Rest
<1>3. /\ Known(r) = SumFunction(Part(r)) /\ Unaccounted(r) = SumFunction(Rest(r))
      /\ Known(r)' = SumFunction(Part(r)') /\ Unaccounted(r)' = SumFunction(Rest(r)')
  BY DEF Known, Unaccounted, Part, Rest
<1>4. SumFunction(Part(r)') = SumFunction(Part(r)) + Part(r)'[o] - Part(r)[o]
  BY <1>1, <1>2, LedgerRows, SumOfChange
<1>5. SumFunction(Rest(r)') = SumFunction(Rest(r)) + Rest(r)'[o] - Rest(r)[o]
  BY <1>1, <1>2, LedgerRows, SumOfChange
<1> QED BY <1>3, <1>4, <1>5

--------------------------------------------------------------------------------
(* What settling job k of request r does to its jobs and to its sums. *)

Pays(r, k, status) == Unsettled(r, k) /\ status = "succeeded"

(* Settling a job posts its amount if the job was open and the posting is made, *)
(* and otherwise moves no money.                                                *)
LEMMA SettlesMoney ==
  ASSUME NEW r \in Requests, NEW k \in Kinds, NEW amount, NEW overage, NEW status,
         Settles(r, k, amount, overage, status)
  PROVE  /\ Pays(r, k, status) => Affordable(amount) /\ Posts(r, amount, overage)
         /\ ~Pays(r, k, status) => used' = used /\ posted' = posted
<1>1. CASE Unsettled(r, k)
  BY <1>1 DEF Settles, Verdict, Pays
<1>2. CASE ~Unsettled(r, k)
  BY <1>2 DEF Settles, Pays
<1> QED BY <1>1, <1>2

(* It writes that job and no other, and not even that one if it was settled. *)
LEMMA SettlesJobs ==
  ASSUME Types, NEW r \in Requests, NEW k \in Kinds, NEW amount \in Int, NEW overage,
         NEW status, Settles(r, k, amount, overage, status)
  PROVE  /\ \A s \in Requests \ {r} : job'[s] = job[s]
         /\ \A j \in Kinds \ {k} : job'[r][j] = job[r][j] /\ Paid(r, j)' = Paid(r, j)
         /\ job'[r][k].status = status
         /\ Unsettled(r, k) => job'[r][k].amount = amount
         /\ ~Unsettled(r, k) => job'[r][k] = job[r][k]
         /\ Paid(r, k)' = Paid(r, k) + (IF Pays(r, k, status) THEN amount ELSE 0)
<1>0. job \in [Requests -> [Kinds -> Job]]
  BY DEF Types, LedgerTypeOK
<1>1. CASE ~Unsettled(r, k)
  <2>1. job' = job /\ status = job[r][k].status
    BY <1>1 DEF Settles
  <2>2. Paid(r, k) \in Int
    BY StepsTyped
  <2> QED BY <1>1, <2>1, <2>2 DEF Pays, Paid
<1>2. CASE Unsettled(r, k)
  <2>1. job' = [job EXCEPT ![r][k] = [status |-> status, amount |-> amount,
                                      tries |-> job[r][k].tries + 1]]
    BY <1>2 DEF Settles
  <2>2. /\ job'[r][k] = [status |-> status, amount |-> amount, tries |-> job[r][k].tries + 1]
        /\ \A j \in Kinds \ {k} : job'[r][j] = job[r][j]
        /\ \A s \in Requests \ {r} : job'[s] = job[s]
    BY <1>0, <2>1
  <2>3. Paid(r, k) = 0 /\ Paid(r, k)' = (IF status = "succeeded" THEN amount ELSE 0)
    BY <1>2, <2>2 DEF Paid, Unsettled
  <2>4. \A j \in Kinds \ {k} : Paid(r, j)' = Paid(r, j)
    BY <2>2 DEF Paid
  <2> QED BY <1>2, <2>2, <2>3, <2>4 DEF Pays
<1> QED BY <1>1, <1>2

(* The postings of a request move with its jobs. *)
LEMMA TotalsKept ==
  ASSUME Types, Types', NEW r \in Requests, NEW k \in Kinds, NEW amount \in Int,
         NEW overage \in BOOLEAN, NEW status \in Statuses, Settles(r, k, amount, overage, status),
         \A q \in Ops \ {k} : ext'[r][q] = ext[r][q], Totals(r)
  PROVE  Totals(r)'
<1> DEFINE moved == IF Pays(r, k, status) THEN amount ELSE 0
<1>1. /\ Paid(r, k)' = Paid(r, k) + moved
      /\ \A j \in Kinds \ {k} : Paid(r, j)' = Paid(r, j)
      /\ Pays(r, k, status) => Posts(r, amount, overage)
      /\ ~Pays(r, k, status) => posted' = posted
  BY SettlesJobs, SettlesMoney
<1>2. /\ Paid(r, k) \in Int /\ Known(r) \in Int /\ Unaccounted(r) \in Int /\ moved \in Int
      /\ \A j \in Kinds : Paid(r, j) \in Int
      /\ ClassTotal(r, "plan") \in Int /\ ClassTotal(r, "overage") \in Int
  BY StepsTyped, TotalTyped DEF Classes
<1>3. Net(r)' = Net(r) + moved
  <2>1. CASE Pays(r, k, status)
    <3>1. ClassOf(overage) \in {"plan", "overage"} /\ Classes = {"plan", "overage"}
      BY DEF ClassOf, Classes
    <3> QED BY <1>1, <1>2, <2>1, <3>1, PostsShape DEF Net
  <2>2. CASE ~Pays(r, k, status)
    <3>1. \A c \in Classes : ClassTotal(r, c)' = ClassTotal(r, c)
      BY <1>1, <2>2, TotalsSame
    <3> QED BY <1>2, <2>2, <3>1 DEF Net, Classes
  <2> QED BY <2>1, <2>2
<1>4. Net(r) \in Int
  BY <1>2 DEF Net
<1> HIDE DEF moved
<1>5. CASE k \in Ops
  <2>1. k \notin {"reserve", "final", "late"} /\ {"reserve", "final", "late"} \subseteq Kinds
        /\ Ops \subseteq Kinds
    BY <1>5, LedgerKeys DEF Kinds
  <2>2. \A q \in Ops \ {k} : ext'[r][q] = ext[r][q] /\ Paid(r, q)' = Paid(r, q)
    BY <1>1, <2>1
  <2>3. /\ Known(r)' = Known(r) + Part(r)[k]' - Part(r)[k]
        /\ Unaccounted(r)' = Unaccounted(r) + Rest(r)[k]' - Rest(r)[k]
    BY <1>5, <2>2, StepsMove
  <2>4. /\ Part(r)[k] = (IF ext[r][k] = "extended" THEN Paid(r, k) ELSE 0)
        /\ Rest(r)[k] = (IF ext[r][k] = "extended" THEN 0 ELSE Paid(r, k))
        /\ Part(r)[k]' = (IF ext'[r][k] = "extended" THEN Paid(r, k)' ELSE 0)
        /\ Rest(r)[k]' = (IF ext'[r][k] = "extended" THEN 0 ELSE Paid(r, k)')
    BY <1>5 DEF Part, Rest
  <2>5. Known(r)' + Unaccounted(r)' = Known(r) + Unaccounted(r) + moved
    BY <1>1, <1>2, <2>3, <2>4
  <2>6. Known(r)' \in Int /\ Unaccounted(r)' \in Int
    BY <1>1, <1>2, <2>3, <2>4
  <2>7. /\ Paid(r, "reserve")' = Paid(r, "reserve") /\ Paid(r, "final")' = Paid(r, "final")
        /\ Paid(r, "late")' = Paid(r, "late")
    BY <1>1, <2>1
  <2>8. Paid(r, "reserve") \in Int /\ Paid(r, "final") \in Int /\ Paid(r, "late") \in Int
    BY <1>2, <2>1
  <2>9. Net(r) = Paid(r, "reserve") + Paid(r, "final") + Paid(r, "late") + Known(r) + Unaccounted(r)
    BY DEF Totals
  <2>a. Known(r) \in Int /\ Unaccounted(r) \in Int /\ moved \in Int
    BY <1>2
  <2>10. Net(r)' = Paid(r, "reserve") + Paid(r, "final") + Paid(r, "late")
                     + Known(r)' + Unaccounted(r)'
    BY <1>3, <1>4, <2>a, <2>5, <2>6, <2>8, <2>9
  <2> QED BY <2>7, <2>10 DEF Totals
<1>6. CASE k \notin Ops
  <2>1. k \in {"reserve", "final", "late"} /\ {"reserve", "final", "late"} \subseteq Kinds
        /\ Ops \subseteq Kinds
    BY <1>6 DEF Kinds
  <2>2. \A q \in Ops : ext'[r][q] = ext[r][q] /\ Paid(r, q)' = Paid(r, q)
    BY <1>1, <1>6, <2>1
  <2>3. Known(r)' = Known(r) /\ Unaccounted(r)' = Unaccounted(r)
    BY <2>2, StepsSame
  <2>4. \A j \in {"reserve", "final", "late"} :
          Paid(r, j)' = IF j = k THEN Paid(r, j) + moved ELSE Paid(r, j)
    BY <1>1, <2>1
  <2>5. \A j \in {"reserve", "final", "late"} : Paid(r, j) \in Int
    BY <1>2, <2>1
  <2> QED BY <1>2, <1>3, <1>4, <2>1, <2>3, <2>4, <2>5 DEF Totals
<1> QED BY <1>5, <1>6

(* An account that can afford what is posted on it stays within its bounds. *)
LEMMA BooksKept ==
  ASSUME Types, Types', BooksBalance, fees' = fees, NEW r \in Requests, NEW k \in Kinds,
         NEW amount \in Int, NEW overage \in BOOLEAN, NEW status \in Statuses,
         Settles(r, k, amount, overage, status)
  PROVE  BooksBalance'
<1>1. CASE Pays(r, k, status)
  <2>1. Affordable(amount) /\ Posts(r, amount, overage)
    BY <1>1, SettlesMoney
  <2>2. \A p \in Periods : PostedOn(p)' = PostedOn(p) + (IF p = period THEN amount ELSE 0)
    BY <2>1, PostsShape
  <2>3. \A p \in Periods : PostedOn(p) \in Int
    BY AccountTyped
  <2>4. /\ used \in [Periods -> Int] /\ period \in Periods /\ fees \in [Periods -> Nat]
        /\ Allowance \in Nat
    BY AmountAssumption DEF Types, LedgerTypeOK
  <2>5. \A p \in Periods : used'[p] = used[p] + (IF p = period THEN amount ELSE 0)
    BY <2>1, <2>4 DEF Posts
  <2>6. ASSUME NEW p \in Periods
        PROVE  used'[p] \in 0..Allowance /\ used'[p] = PostedOn(p)' + fees'[p]
    <3>1. used[p] \in 0..Allowance /\ used[p] = PostedOn(p) + fees[p] /\ fees[p] \in Nat
      BY <2>4 DEF BooksBalance
    <3>2. CASE p = period
      <4>1. used'[p] = used[p] + amount /\ PostedOn(p)' = PostedOn(p) + amount
        BY <2>2, <2>5, <3>2
      <4>2. IF amount > 0 THEN used[p] + amount <= Allowance ELSE used[p] >= -amount
        BY <2>1, <3>2 DEF Affordable
      <4> QED BY <2>3, <2>4, <3>1, <4>1, <4>2
    <3>3. CASE p # period
      BY <2>2, <2>3, <2>4, <2>5, <3>1, <3>3
    <3> QED BY <3>2, <3>3
  <2> QED BY <2>6 DEF BooksBalance
<1>2. CASE ~Pays(r, k, status)
  <2>1. used' = used /\ posted' = posted
    BY <1>2, SettlesMoney
  <2> QED BY <2>1 DEF BooksBalance, PostedOn
<1> QED BY <1>1, <1>2

--------------------------------------------------------------------------------
(* What the invariant says of a row in any state. *)

(* A request that was never extended has nothing in its steps. *)
LEMMA FreshSums ==
  ASSUME NEW r \in Requests, Unextended(r)
  PROVE  Known(r) = 0 /\ Unaccounted(r) = 0
<1>1. \A o \in Ops : Part(r)[o] = 0 /\ Rest(r)[o] = 0
  BY DEF Unextended, Part, Rest, Paid
<1>2. DOMAIN Part(r) = Ops /\ DOMAIN Rest(r) = Ops
  BY DEF Part, Rest
<1>3. Known(r) = SumFunction(Part(r)) /\ Unaccounted(r) = SumFunction(Rest(r))
  BY DEF Known, Unaccounted, Part, Rest
<1>4. SumFunction(Part(r)) = 0 /\ SumFunction(Rest(r)) = 0
  BY <1>1, <1>2, LedgerRows, SumOfZeros
<1> QED BY <1>3, <1>4

(* What only the cron posted of the steps of a request is never negative. *)
LEMMA RestNatural ==
  ASSUME Types, NEW r \in Requests, Steps(r)
  PROVE  Unaccounted(r) \in Nat
<1>1. \A o \in Ops : Rest(r)[o] \in Nat
  <2>1. \A o \in Ops : Paid(r, o) \in Nat
    BY AmountAssumption DEF Steps, Paid
  <2> QED BY <2>1 DEF Rest
<1>2. Rest(r) \in [Ops -> Nat]
  BY <1>1 DEF Rest
<1> QED BY <1>2, LedgerRows, SumOfNaturals, StepsTyped

(* What a row says its request holds is what was posted for it, and is never negative. *)
LEMMA Holds ==
  ASSUME Types, NEW r \in Requests, Totals(r), Steps(r), Stage(r), job[r]["late"].amount >= 0
  PROVE  Net(r) = Held(r) + Unaccounted(r) /\ Net(r) >= 0
<1>0. /\ request[r].est \in Nat /\ request[r].actual \in Nat
      /\ request[r].status \in {"none"} \cup Open \cup Closed
      /\ {"reserve", "final", "late"} \subseteq Kinds
      /\ \A k \in Kinds : job[r][k].amount \in Int
  BY DEF Types, LedgerTypeOK, Request, Kinds, Job
<1>1. /\ Known(r) \in Int /\ Unaccounted(r) \in Nat
      /\ Paid(r, "reserve") \in Int /\ Paid(r, "final") \in Int /\ Paid(r, "late") \in Int
  BY <1>0, StepsTyped, RestNatural
<1>2. Net(r) = Paid(r, "reserve") + Paid(r, "final") + Paid(r, "late") + Known(r) + Unaccounted(r)
  BY DEF Totals
<1>3. Paid(r, "late") >= 0
  BY <1>0 DEF Paid
<1>4. Unextended(r) => Known(r) = 0 /\ Unaccounted(r) = 0
  BY FreshSums
<1>5. SUFFICES Held(r) = Paid(r, "reserve") + Paid(r, "final") + Paid(r, "late") + Known(r)
               /\ Held(r) >= 0
  BY <1>1, <1>2
<1>6. CASE request[r].status \in {"none", "declined"}
  <2>1. Paid(r, "reserve") = 0 /\ Paid(r, "final") = 0 /\ Paid(r, "late") = 0 /\ Known(r) = 0
    BY <1>4, <1>6 DEF Stage, Paid
  <2> QED BY <1>6, <2>1 DEF Held
<1>7. CASE request[r].status = "reserving"
  <2>1. Paid(r, "final") = 0 /\ Paid(r, "late") = 0 /\ Known(r) = 0
    BY <1>4, <1>7 DEF Stage, Paid, Open
  <2>2. Paid(r, "reserve") >= 0
    BY <1>0, <1>7 DEF Stage, Paid
  <2>3. Held(r) = Paid(r, "reserve")
    BY <1>7 DEF Held
  <2> QED BY <1>1, <2>1, <2>2, <2>3
<1>8. CASE request[r].status \in {"reserved", "provider_started"}
  <2>1. Paid(r, "final") = 0 /\ Paid(r, "late") = 0
    BY <1>8 DEF Stage, Paid, Open
  <2>2. Paid(r, "reserve") + Known(r) = request[r].est
    BY <1>0, <1>8 DEF Stage, Paid
  <2>3. Held(r) = request[r].est
    BY <1>8 DEF Held
  <2> QED BY <1>0, <1>1, <2>1, <2>2, <2>3
<1>9. CASE request[r].status \in Closed \ {"declined"}
  <2>0. Held(r) = (CASE job[r]["final"].status = "none"      -> 0
                     [] job[r]["final"].status = "succeeded" -> request[r].actual
                     [] OTHER                                -> request[r].est) + Paid(r, "late")
    BY <1>9 DEF Held, Closed
  <2>1. CASE job[r]["reserve"].status = "succeeded"
    <3>1. /\ Paid(r, "reserve") + Known(r) = request[r].est
          /\ job[r]["final"].status # "none"
          /\ job[r]["final"].amount = request[r].actual - request[r].est
      BY <1>0, <1>9, <2>1 DEF Stage, Paid
    <3>2. CASE job[r]["final"].status = "succeeded"
      <4>1. Paid(r, "final") = request[r].actual - request[r].est
        BY <3>1, <3>2 DEF Paid
      <4>2. Held(r) = request[r].actual + Paid(r, "late")
        BY <2>0, <3>2
      <4> QED BY <1>0, <1>1, <1>3, <3>1, <4>1, <4>2
    <3>3. CASE job[r]["final"].status # "succeeded"
      <4>1. Paid(r, "final") = 0
        BY <3>3 DEF Paid
      <4>2. Held(r) = request[r].est + Paid(r, "late")
        BY <2>0, <3>1, <3>3
      <4> QED BY <1>0, <1>1, <1>3, <3>1, <4>1, <4>2
    <3> QED BY <3>2, <3>3
  <2>2. CASE job[r]["reserve"].status # "succeeded"
    <3>1. /\ Paid(r, "reserve") = 0 /\ Paid(r, "final") = 0 /\ Paid(r, "late") = 0
          /\ Known(r) = 0 /\ job[r]["final"].status = "none"
      BY <1>4, <1>9, <2>2 DEF Stage, Paid
    <3> QED BY <2>0, <3>1
  <2> QED BY <2>1, <2>2
<1> QED BY <1>0, <1>6, <1>7, <1>8, <1>9 DEF Open, Closed

(* The invariant of the rows implies the property of the runs. *)
LEMMA Explains == Types /\ (\A r \in Requests : RowInv(r)) => EveryRowExplained
<1> SUFFICES ASSUME Types, \A r \in Requests : RowInv(r), NEW r \in Requests
             PROVE  Net(r) = Held(r) + Unaccounted(r) /\ ClassTotal(r, "plan") >= 0
  BY DEF EveryRowExplained
<1>1. Totals(r) /\ Steps(r) /\ Stage(r) /\ Classed(r)
  BY DEF RowInv
<1> QED BY <1>1, Holds DEF Classed

(* In a state of the invariant no request holds less than nothing. *)
LEMMA NetNatural ==
  Types => \A r \in Requests :
             Totals(r) /\ Steps(r) /\ Stage(r) /\ job[r]["late"].amount >= 0 => Net(r) >= 0
BY Holds

(* And so it is of the state after a step. *)
LEMMA NetNaturalThen ==
  (Types => \A r \in Requests :
              Totals(r) /\ Steps(r) /\ Stage(r) /\ job[r]["late"].amount >= 0 => Net(r) >= 0)'
BY NetNatural, PTL

(* Steps of a request that move no money: a flag of its row, or its start. *)
LEMMA RowTouched ==
  ASSUME NEW r \in Requests, RowInv(r),
         \/ request'[r].status = request[r].status
         \/ request[r].status = "reserved" /\ request'[r].status = "provider_started",
         request'[r].est = request[r].est, request'[r].actual = request[r].actual,
         request'[r].token = request[r].token, request'[r].overage = request[r].overage,
         ext'[r] = ext[r], job'[r] = job[r], posted'[r] = posted[r], acquired'[r] = acquired[r]
  PROVE  RowInv(r)'
<1>0. Totals(r) /\ Steps(r) /\ Stage(r) /\ Classed(r) /\ Executor(r)
  BY DEF RowInv
<1>1. \A k : Paid(r, k)' = Paid(r, k)
  BY DEF Paid
<1>2. Known(r)' = Known(r) /\ Unaccounted(r)' = Unaccounted(r)
  BY <1>1, StepsSame
<1>3. ClassTotal(r, "plan")' = ClassTotal(r, "plan") /\ ClassTotal(r, "overage")' = ClassTotal(r, "overage")
  BY TotalsSame DEF Classes
<1>4. Totals(r)' /\ Classed(r)'
  BY <1>0, <1>1, <1>2, <1>3 DEF Totals, Net, Classed
<1>5. Steps(r)'
  BY <1>0 DEF Steps
<1>6. Stage(r)'
  <2>1. Unextended(r)' <=> Unextended(r)
    BY DEF Unextended
  <2> QED BY <1>0, <1>2, <2>1 DEF Stage, Open, Closed
<1>7. Executor(r)'
  BY <1>0 DEF Executor
<1> QED BY <1>4, <1>5, <1>6, <1>7 DEF RowInv

(* A request of which nothing changes. *)
LEMMA RowUnmoved ==
  ASSUME NEW r \in Requests, RowInv(r), request'[r] = request[r], ext'[r] = ext[r],
         job'[r] = job[r], posted'[r] = posted[r], acquired'[r] = acquired[r]
  PROVE  RowInv(r)'
BY RowTouched

(* Classes: what is posted is posted as overage once the request is overage. *)
LEMMA ClassedKept ==
  ASSUME Types, Types', NEW r \in Requests, NEW k \in Kinds, NEW amount \in Int,
         NEW overage \in BOOLEAN, NEW status \in Statuses, Settles(r, k, amount, overage, status),
         Classed(r), Totals(r)', Steps(r)', Stage(r)',
         k = "late" => amount >= 0,
         request[r].overage => request'[r].overage,
         ~request'[r].overage /\ Pays(r, k, status) => ~overage,
         request'[r].overage /\ Pays(r, k, status) => overage \/ amount >= 0
  PROVE  Classed(r)'
<1>0. "late" \in Kinds /\ Classes = {"plan", "overage"}
  BY DEF Kinds, Classes
<1>1. job'[r]["late"].amount >= 0
  BY <1>0, SettlesJobs DEF Classed
<1>2. ClassTotal(r, "plan") \in Int /\ ClassTotal(r, "overage") \in Int
  BY <1>0, TotalTyped
<1>3. ~request'[r].overage => ClassTotal(r, "overage")' = 0
  <2>1. CASE Pays(r, k, status)
    <3>1. Posts(r, amount, overage)
      BY <2>1, SettlesMoney
    <3>2. ~overage => ClassOf(overage) = "plan"
      BY DEF ClassOf
    <3>3. ~overage => ClassTotal(r, "overage")' = ClassTotal(r, "overage")
      BY <1>0, <3>1, <3>2, PostsShape
    <3> QED BY <2>1, <3>3 DEF Classed
  <2>2. CASE ~Pays(r, k, status)
    <3>1. posted' = posted
      BY <2>2, SettlesMoney
    <3>2. ClassTotal(r, "overage")' = ClassTotal(r, "overage")
      BY <1>0, <3>1, TotalsSame
    <3> QED BY <3>2 DEF Classed
  <2> QED BY <2>1, <2>2
<1>4. ClassTotal(r, "plan")' >= 0
  <2>1. CASE ~request'[r].overage
    <3>2. Net(r)' >= 0
      BY <1>1, NetNaturalThen
    <3>3. ClassTotal(r, "plan")' \in Int
      <4>1. \A p \in Periods : posted'[r][p]["plan"] \in Int
        BY DEF Types, LedgerTypeOK, Classes
      <4>2. [p \in Periods |-> posted'[r][p]["plan"]] \in [Periods -> Int]
        BY <4>1
      <4> QED BY <4>2, PeriodsFinite, SumOfIntegers DEF ClassTotal
    <3> QED BY <1>3, <2>1, <3>2, <3>3 DEF Net
  <2>2. CASE request'[r].overage /\ Pays(r, k, status)
    <3>1. Posts(r, amount, overage)
      BY <2>2, SettlesMoney
    <3>2. ClassOf(overage) = IF overage THEN "overage" ELSE "plan"
      BY DEF ClassOf
    <3>3. CASE overage
      <4>1. ClassTotal(r, "plan")' = ClassTotal(r, "plan")
        BY <1>0, <3>1, <3>2, <3>3, PostsShape
      <4> QED BY <4>1 DEF Classed
    <3>4. CASE ~overage
      <4>1. ClassTotal(r, "plan")' = ClassTotal(r, "plan") + amount /\ amount >= 0
        BY <2>2, <3>1, <3>2, <3>4, PostsShape
      <4> QED BY <1>2, <4>1 DEF Classed
    <3> QED BY <3>3, <3>4
  <2>3. CASE ~Pays(r, k, status)
    <3>1. posted' = posted
      BY <2>3, SettlesMoney
    <3>2. ClassTotal(r, "plan")' = ClassTotal(r, "plan")
      BY <1>0, <3>1, TotalsSame
    <3> QED BY <3>2 DEF Classed
  <2> QED BY <2>1, <2>2, <2>3
<1> QED BY <1>1, <1>3, <1>4 DEF Classed

--------------------------------------------------------------------------------
(* The row of a request, action by action. *)

(* A settlement that is of no step its row counts leaves what the row counts as *)
(* it is.                                                                       *)
LEMMA KnownSame ==
  ASSUME Types, NEW r \in Requests, NEW k \in Kinds, NEW amount \in Int, NEW overage,
         NEW status, Settles(r, k, amount, overage, status), ext'[r] = ext[r],
         k \in Ops => ext[r][k] # "extended"
  PROVE  Known(r)' = Known(r)
<1>1. \A o \in Ops \ {k} : Paid(r, o)' = Paid(r, o)
  <2>1. \A j \in Kinds \ {k} : Paid(r, j)' = Paid(r, j)
    BY SettlesJobs
  <2>2. Ops \subseteq Kinds
    BY DEF Kinds
  <2> QED BY <2>1, <2>2
<1>2. Part(r)' = Part(r)
  BY <1>1 DEF Part
<1>3. Known(r) = SumFunction(Part(r)) /\ Known(r)' = SumFunction(Part(r)')
  BY DEF Known, Part
<1> QED BY <1>2, <1>3

(* The keys of the jobs of a request are different from its operation keys. *)
LEMMA NamedKinds ==
  /\ "reserve" \in Kinds /\ "final" \in Kinds /\ "late" \in Kinds /\ Ops \subseteq Kinds
  /\ "reserve" \notin Ops /\ "final" \notin Ops /\ "late" \notin Ops
BY LedgerKeys DEF Kinds

(* The posting of the reservation, whoever asks for it: the row is the one that *)
(* was written, and what it holds is what was posted.                           *)
LEMMA ReservedRow ==
  ASSUME Types, Types', NEW r \in Requests, NEW t \in Tokens, NEW overage \in BOOLEAN,
         NEW status \in Statuses, NEW row \in Request, RowInv(r),
         request[r].status \in {"none", "reserving"},
         Settles(r, "reserve", row.est, overage, status),
         row.status = "reserving", row.overage = request[r].overage,
         request[r].status = "reserving" => row.est = request[r].est,
         request[r].overage => overage,
         request'[r] = Reserved(row, t, overage, status),
         ext'[r] = ext[r], acquired \in [Requests -> SUBSET Tokens], Acquires(r, t, status)
  PROVE  RowInv(r)'
<1>0. row.est \in Nat /\ row.est \in Int
  BY DEF Request
<1>1. /\ Totals(r) /\ Steps(r) /\ Stage(r) /\ Classed(r) /\ Executor(r)
  BY DEF RowInv
<1>2. /\ \A j \in Kinds \ {"reserve"} : job'[r][j] = job[r][j]
      /\ job'[r]["reserve"].status = status
      /\ Unsettled(r, "reserve") => job'[r]["reserve"].amount = row.est
      /\ ~Unsettled(r, "reserve") => job'[r]["reserve"] = job[r]["reserve"]
  BY <1>0, NamedKinds, SettlesJobs
<1>3. job'[r]["reserve"].amount = row.est
  BY <1>1, <1>2 DEF Stage, Unsettled
<1>4. Unextended(r) /\ Unextended(r)'
  <2>1. Unextended(r)
    BY <1>1 DEF Stage
  <2> QED BY <1>2, <2>1, NamedKinds DEF Unextended
<1>5. Known(r)' = 0
  <2>1. Known(r)' = Known(r)
    BY <1>0, NamedKinds, KnownSame
  <2> QED BY <1>4, <2>1, FreshSums
<1>6. Totals(r)'
  BY <1>0, <1>1, NamedKinds, TotalsKept
<1>7. Steps(r)'
  <2>1. \A o \in Ops : job'[r][o] = job[r][o] /\ ext'[r][o] = ext[r][o]
    BY <1>2, NamedKinds
  <2> QED BY <1>1, <2>1 DEF Steps
<1>8. job'[r]["final"].status = "none" /\ job'[r]["late"].status = "none"
  BY <1>1, <1>2, NamedKinds DEF Stage, Open
<1>9. Stage(r)'
  <2>1. CASE status = "succeeded"
    <3>1. request'[r].status = "reserved" /\ request'[r].est = row.est
      BY <2>1 DEF Reserved, Request
    <3> QED BY <1>0, <1>2, <1>3, <1>4, <1>5, <1>8, <2>1, <3>1 DEF Stage, Closed
  <2>2. CASE status = "pending"
    <3>1. request'[r] = row
      BY <2>2 DEF Reserved
    <3> QED BY <1>0, <1>2, <1>3, <1>4, <1>5, <1>8, <2>2, <3>1 DEF Stage, Closed
  <2>3. CASE status = "terminal"
    <3>1. request'[r].status = "declined" /\ request'[r].est = row.est
      BY <2>3 DEF Reserved, Request
    <3> QED BY <1>0, <1>2, <1>3, <1>4, <1>5, <1>8, <2>3, <3>1 DEF Stage, Closed
  <2> QED BY <2>1, <2>2, <2>3 DEF Statuses, Done
<1>10. request'[r].overage = IF status = "succeeded" THEN overage ELSE request[r].overage
  BY DEF Reserved, Request, Statuses, Done
<1>11. Classed(r)'
  <2>1. request[r].overage => request'[r].overage
    BY <1>10
  <2>2. Pays(r, "reserve", status) => (request'[r].overage <=> overage)
    BY <1>10 DEF Pays
  <2> QED BY <1>0, <1>1, <1>6, <1>7, <1>9, <2>1, <2>2, NamedKinds, ClassedKept
<1>12. Executor(r)'
  <2>1. acquired[r] = {}
    BY <1>1 DEF Executor
  <2>2. CASE status = "succeeded"
    <3>1. acquired'[r] = {t} /\ request'[r].token = t /\ request'[r].status = "reserved"
      BY <2>1, <2>2 DEF Acquires, Reserved, Request
    <3> QED BY <1>2, <2>2, <3>1 DEF Executor
  <2>3. CASE status # "succeeded"
    BY <2>1, <2>3 DEF Acquires, Executor
  <2> QED BY <2>2, <2>3
<1> QED BY <1>6, <1>7, <1>9, <1>11, <1>12 DEF RowInv

(* Both ways to reserve: a new key, and the same key again. *)
LEMMA ReservesKeep ==
  ASSUME Types, Types', NEW r \in Requests, NEW t \in Tokens, NEW status \in Statuses, RowInv(r)
  PROVE  /\ \A est \in Estimates, overage \in BOOLEAN :
              Reserve(r, t, est, overage, status) => RowInv(r)'
         /\ ReserveAgain(r, t, status) => RowInv(r)'
<1>0. /\ request \in [Requests -> Request] /\ request[r] \in Request
      /\ acquired \in [Requests -> SUBSET Tokens]
  BY DEF Types, LedgerTypeOK
<1>1. ASSUME NEW est \in Estimates, NEW overage \in BOOLEAN, Reserve(r, t, est, overage, status)
      PROVE  RowInv(r)'
  <2> DEFINE row == [request[r] EXCEPT !.status = "reserving", !.est = est, !.token = t]
  <2>1. est \in Nat
    BY AmountAssumption
  <2>2. /\ row \in Request /\ row.est = est /\ row.status = "reserving"
        /\ row.overage = request[r].overage
    BY <1>0, <2>1 DEF Request, Open
  <2> HIDE DEF row
  <2>3. /\ request[r].status = "none" /\ Settles(r, "reserve", row.est, overage, status)
        /\ request' = [request EXCEPT ![r] = Reserved(row, t, overage, status)]
        /\ Acquires(r, t, status) /\ ext' = ext
    BY <1>1, <2>2 DEF Reserve, row
  <2>4. request'[r] = Reserved(row, t, overage, status)
    BY <1>0, <2>3
  <2>5. ~request[r].overage
    BY <2>3 DEF RowInv, Stage
  <2> QED BY <1>0, <2>2, <2>3, <2>4, <2>5, ReservedRow
<1>2. ASSUME ReserveAgain(r, t, status) PROVE RowInv(r)'
  <2>1. /\ request[r].status = "reserving"
        /\ Settles(r, "reserve", request[r].est, request[r].overage, status)
        /\ request' = [request EXCEPT ![r] = Reserved(request[r], t, request[r].overage, status)]
        /\ Acquires(r, t, status) /\ ext' = ext
    BY <1>2 DEF ReserveAgain, Label
  <2>2. request'[r] = Reserved(request[r], t, request[r].overage, status)
    BY <1>0, <2>1
  <2>3. request[r].overage \in BOOLEAN
    BY <1>0 DEF Request
  <2> QED BY <1>0, <2>1, <2>2, <2>3, ReservedRow
<1> QED BY <1>1, <1>2

(* A request that runs was reserved, and no other posting of it but steps was asked for. *)
LEMMA RunningRow ==
  ASSUME NEW r \in Requests, NEW t \in Tokens, Runs(r, t), RowInv(r)
  PROVE  /\ job[r]["reserve"].status = "succeeded"
         /\ job[r]["final"].status = "none" /\ job[r]["late"].status = "none"
         /\ request[r].est = job[r]["reserve"].amount + Known(r)
BY DEF RowInv, Stage, Runs, Open

(* A step of the provider: its estimate is in the row exactly if it was posted. *)
LEMMA ExtendKeeps ==
  ASSUME Types, Types', NEW r \in Requests, NEW t \in Tokens, NEW status \in Statuses,
         NEW o \in Ops, NEW limited \in BOOLEAN, Extend(r, t, o, limited, status), RowInv(r)
  PROVE  RowInv(r)'
<1> DEFINE overage == request[r].overage \/ limited
<1>0. /\ request \in [Requests -> Request] /\ request[r] \in Request
      /\ ext \in [Requests -> [Ops -> {"none", "reserving", "extended", "declined"}]]
      /\ StepCost[o] \in Nat /\ StepCost[o] \in Int /\ overage \in BOOLEAN
      /\ request[r].est \in Nat /\ request[r].overage \in BOOLEAN
  BY AmountAssumption DEF Types, LedgerTypeOK, Request
<1>1. /\ Totals(r) /\ Steps(r) /\ Stage(r) /\ Classed(r) /\ Executor(r)
  BY DEF RowInv
<1>2. /\ Runs(r, t) /\ ext[r][o] \in {"none", "reserving"}
      /\ Settles(r, o, StepCost[o], overage, status)
      /\ ext' = [ext EXCEPT ![r][o] = ExtStatus(status)]
      /\ request' = [request EXCEPT ![r] = ExtendedRow(request[r], o, limited, status)]
      /\ acquired' = acquired
  BY DEF Extend, Extending
<1> HIDE DEF overage
<1>3. /\ \A j \in Kinds \ {o} : job'[r][j] = job[r][j] /\ Paid(r, j)' = Paid(r, j)
      /\ job'[r][o].status = status
      /\ Unsettled(r, o) => job'[r][o].amount = StepCost[o]
      /\ ~Unsettled(r, o) => job'[r][o] = job[r][o]
  BY <1>0, <1>2, NamedKinds, SettlesJobs
<1>4. /\ ext'[r][o] = ExtStatus(status)
      /\ \A q \in Ops \ {o} : ext'[r][q] = ext[r][q]
  BY <1>0, <1>2
<1>5. job'[r][o].amount = StepCost[o]
  BY <1>1, <1>3 DEF Steps, Unsettled
<1>6. /\ request'[r] = ExtendedRow(request[r], o, limited, status)
      /\ request'[r].status = "provider_started" /\ request'[r].token = request[r].token
      /\ request'[r].est = request[r].est + (IF status = "succeeded" THEN StepCost[o] ELSE 0)
      /\ request'[r].overage = ((limited /\ status # "terminal") \/ request[r].overage)
  BY <1>0, <1>2 DEF ExtendedRow, Request, Runs
<1>7. \A j \in {"reserve", "final", "late"} : job'[r][j] = job[r][j]
  BY <1>3, NamedKinds
<1>8. Totals(r)'
  BY <1>0, <1>1, <1>2, <1>4, NamedKinds, TotalsKept
<1>9. Steps(r)'
  <2>1. ExtStatus(status) = "extended" => status = "succeeded"
    BY DEF ExtStatus, Statuses, Done
  <2>2. \A q \in Ops \ {o} : job'[r][q] = job[r][q]
    BY <1>3, NamedKinds
  <2> QED BY <1>1, <1>3, <1>4, <1>5, <2>1, <2>2 DEF Steps
<1>10. Known(r)' = Known(r) + (IF status = "succeeded" THEN StepCost[o] ELSE 0)
  <2>1. Known(r)' = Known(r) + Part(r)[o]' - Part(r)[o]
    BY <1>3, <1>4, NamedKinds, StepsMove
  <2>2. Part(r)[o] = 0
    BY <1>2 DEF Part
  <2>3. Part(r)[o]' = IF status = "succeeded" THEN StepCost[o] ELSE 0
    BY <1>3, <1>4, <1>5 DEF Part, Paid, ExtStatus, Statuses, Done
  <2>4. Known(r) \in Int
    BY StepsTyped
  <2> QED BY <1>0, <2>1, <2>2, <2>3, <2>4
<1>11. Stage(r)'
  <2>1. /\ job[r]["reserve"].status = "succeeded"
        /\ job[r]["final"].status = "none" /\ job[r]["late"].status = "none"
        /\ request[r].est = job[r]["reserve"].amount + Known(r)
    BY <1>2, RunningRow
  <2>2. job[r]["reserve"].amount \in Int /\ Known(r) \in Int
    BY NamedKinds, StepsTyped DEF Types, LedgerTypeOK, Job
  <2>3. request'[r].est = job[r]["reserve"].amount + Known(r)'
    BY <1>0, <1>6, <1>10, <2>1, <2>2
  <2> QED BY <1>6, <1>7, <2>1, <2>3 DEF Stage, Closed
<1>12. Classed(r)'
  <2>1. request[r].overage => request'[r].overage
    BY <1>6
  <2>2. Pays(r, o, status) => (request'[r].overage <=> overage)
    BY <1>6 DEF Pays, overage
  <2>3. o # "late"
    BY NamedKinds
  <2> QED BY <1>0, <1>1, <1>2, <1>8, <1>9, <1>11, <2>1, <2>2, <2>3, NamedKinds, ClassedKept
<1>13. Executor(r)'
  BY <1>1, <1>2, <1>6, <1>7 DEF Executor, Runs
<1> QED BY <1>8, <1>9, <1>11, <1>12, <1>13 DEF RowInv

(* A settlement that is no step: only the stage of its request has to be shown. *)
LEMMA SettledRow ==
  ASSUME Types, Types', NEW r \in Requests, NEW k \in Kinds, NEW amount \in Int,
         NEW overage \in BOOLEAN, NEW status \in Statuses, Settles(r, k, amount, overage, status),
         RowInv(r), Stage(r)', ext'[r] = ext[r], acquired'[r] = acquired[r],
         k \in Ops => job[r][k].status # "none" /\ amount = job[r][k].amount,
         k = "late" => amount >= 0,
         request'[r].token = request[r].token, request'[r].overage = request[r].overage,
         request'[r].status \in {"none", "reserving"} => request[r].status \in {"none", "reserving"},
         overage = request[r].overage \/ (~overage /\ amount >= 0)
  PROVE  RowInv(r)'
<1>1. /\ Totals(r) /\ Steps(r) /\ Stage(r) /\ Classed(r) /\ Executor(r)
  BY DEF RowInv
<1>2. /\ \A j \in Kinds \ {k} : job'[r][j] = job[r][j]
      /\ job'[r][k].status = status
      /\ Unsettled(r, k) => job'[r][k].amount = amount
      /\ ~Unsettled(r, k) => job'[r][k] = job[r][k]
  BY SettlesJobs
<1>3. Totals(r)'
  BY <1>1, TotalsKept
<1>4. Steps(r)'
  <2>1. ASSUME NEW o \in Ops
        PROVE  /\ job'[r][o].status # "none" => job'[r][o].amount = StepCost[o]
               /\ ext'[r][o] = "extended" => job'[r][o].status = "succeeded"
    <3>1. /\ job[r][o].status # "none" => job[r][o].amount = StepCost[o]
          /\ ext[r][o] = "extended" => job[r][o].status = "succeeded"
      BY <1>1 DEF Steps
    <3>2. CASE o = k
      <4>1. job'[r][o].amount = job[r][o].amount /\ job[r][o].status # "none"
        BY <1>2, <3>2
      <4>2. job[r][o].status = "succeeded" => job'[r][o] = job[r][o]
        BY <1>2, <3>2 DEF Unsettled
      <4> QED BY <3>1, <4>1, <4>2
    <3>3. CASE o # k
      <4>1. job'[r][o] = job[r][o]
        BY <1>2, <3>3, NamedKinds
      <4> QED BY <3>1, <4>1
    <3> QED BY <3>2, <3>3
  <2> QED BY <2>1 DEF Steps
<1>5. Classed(r)'
  BY <1>1, <1>3, <1>4, ClassedKept
<1>6. Executor(r)'
  <2>1. job[r]["reserve"].status = "succeeded" => job'[r]["reserve"].status = "succeeded"
    BY <1>2, NamedKinds DEF Unsettled
  <2> QED BY <1>1, <2>1 DEF Executor
<1> QED BY <1>3, <1>4, <1>5, <1>6 DEF RowInv

(* A request is closed with its last posting asked for, for what it holds too much. *)
LEMMA ClosedRow ==
  ASSUME Types, Types', NEW r \in Requests, RowInv(r), NEW end \in Closed \ {"declined"},
         NEW actual \in Nat, NEW status \in Statuses,
         request[r].status \in Open, job[r]["reserve"].status = "succeeded",
         Settles(r, "final", actual - request[r].est, request[r].overage, status),
         Closes(r, end, actual), ext' = ext, acquired' = acquired
  PROVE  RowInv(r)'
<1>0. /\ request \in [Requests -> Request] /\ request[r] \in Request
      /\ request[r].est \in Nat /\ request[r].overage \in BOOLEAN
  BY DEF Types, LedgerTypeOK, Request
<1>1. actual - request[r].est \in Int
  BY <1>0
<1>2. Stage(r) /\ job[r]["final"].status = "none" /\ job[r]["late"].status = "none"
  BY DEF RowInv, Stage
<1>3. end \in Closed
  OBVIOUS
<1>4. /\ request'[r].status = end /\ request'[r].actual = actual
      /\ request'[r].est = request[r].est /\ request'[r].token = request[r].token
      /\ request'[r].overage = request[r].overage
  BY <1>0, <1>3, ClosesShape
<1>5. /\ job'[r]["final"].status = status /\ job'[r]["final"].amount = actual - request[r].est
      /\ job'[r]["reserve"] = job[r]["reserve"] /\ job'[r]["late"] = job[r]["late"]
  BY <1>1, <1>2, NamedKinds, SettlesJobs DEF Unsettled
<1>6. Known(r)' = Known(r)
  BY <1>1, NamedKinds, KnownSame
<1>7. Stage(r)'
  <2>1. status # "none" /\ end \notin Open \cup {"none", "declined"}
    BY DEF Statuses, Done, Closed, Open
  <2>2. request'[r].est = job'[r]["reserve"].amount + Known(r)'
    BY <1>2, <1>4, <1>5, <1>6 DEF Stage
  <2>3. /\ job'[r]["reserve"].status = "succeeded" /\ job'[r]["final"].status # "none"
        /\ job'[r]["final"].amount = request'[r].actual - request'[r].est
        /\ request'[r].status \notin Open \cup {"none", "declined"}
    BY <1>4, <1>5, <2>1
  <2> QED BY <2>2, <2>3 DEF Stage, Open
<1>8. end \notin {"none", "reserving"}
  BY DEF Closed
<1> QED BY <1>0, <1>1, <1>4, <1>7, <1>8, NamedKinds, SettledRow

(* Completing a request or giving it up. *)
LEMMA FinalizeKeeps ==
  ASSUME Types, Types', NEW r \in Requests, NEW t \in Tokens, NEW end \in {"completed", "released"},
         NEW actual \in Nat, NEW status \in Statuses, RowInv(r), Finalize(r, t, end, actual, status)
  PROVE  RowInv(r)'
<1>1. request[r].status \in {"reserved", "provider_started"}
  BY DEF Finalize
<1>2. request[r].status \in Open /\ job[r]["reserve"].status = "succeeded"
  BY <1>1 DEF RowInv, Stage, Open
<1>3. end \in Closed \ {"declined"}
  BY DEF Closed
<1> QED BY <1>2, <1>3, ClosedRow DEF Finalize, Label

(* Recovery of a stale request, paid or not. *)
LEMMA RecoverKeeps ==
  ASSUME Types, Types', NEW r \in Requests, NEW status \in Statuses, RowInv(r)
  PROVE  /\ RecoverPaid(r, status) => RowInv(r)'
         /\ RecoverUnpaid(r) => RowInv(r)'
<1>0. /\ request \in [Requests -> Request] /\ request[r] \in Request /\ request[r].est \in Nat
      /\ "outcome_unknown" \in Closed \ {"declined"} /\ "outcome_unknown" \in Closed /\ 0 \in Nat
  BY DEF Types, LedgerTypeOK, Request, Closed
<1>1. ASSUME RecoverPaid(r, status) PROVE RowInv(r)'
  <2>1. request[r].status \in Open /\ job[r]["reserve"].status = "succeeded"
    BY <1>1 DEF RecoverPaid, Recoverable, RowInv, Stage, Open
  <2>2. 0 - request[r].est = -request[r].est
    BY <1>0
  <2>3. Settles(r, "final", 0 - request[r].est, request[r].overage, status)
    BY <1>1, <2>2 DEF RecoverPaid, Label
  <2> QED BY <1>0, <1>1, <2>1, <2>3, ClosedRow DEF RecoverPaid
<1>2. ASSUME RecoverUnpaid(r) PROVE RowInv(r)'
  <2>1. /\ request[r].status = "reserving" /\ job[r]["reserve"].status = "terminal"
        /\ Closes(r, "outcome_unknown", 0) /\ job' = job /\ ext' = ext /\ posted' = posted
        /\ acquired' = acquired
    BY <1>2 DEF RecoverUnpaid, Recoverable, Done
  <2>3. /\ request'[r].status = "outcome_unknown" /\ request'[r].est = request[r].est
        /\ request'[r].overage = request[r].overage /\ request'[r].token = request[r].token
    BY <1>0, <2>1, ClosesShape
  <2>4. Known(r)' = Known(r) /\ Unaccounted(r)' = Unaccounted(r)
    BY <2>1, StepsSame DEF Paid
  <2>5. /\ ClassTotal(r, "plan")' = ClassTotal(r, "plan")
        /\ ClassTotal(r, "overage")' = ClassTotal(r, "overage")
    BY <2>1, TotalsSame DEF Classes
  <2>6. Totals(r)'
    BY <2>1, <2>4, <2>5 DEF RowInv, Totals, Net, Paid
  <2>7. Stage(r)'
    BY <2>1, <2>3 DEF RowInv, Stage, Unextended, Open
  <2> QED BY <2>1, <2>3, <2>5, <2>6, <2>7 DEF RowInv, Steps, Classed, Executor
<1> QED BY <1>1, <1>2

(* A late delivery is charged for a request that was acquired, hence reserved *)
(* and closed with its last posting.                                          *)
LEMMA SettleLateKeeps ==
  ASSUME Types, Types', NEW r \in Requests, NEW t \in Tokens, NEW actual \in Nat,
         NEW status \in Statuses, RowInv(r), SettleLate(r, t, actual, status)
  PROVE  RowInv(r)'
<1>1. PICK plan \in BOOLEAN : plan = FALSE
  OBVIOUS
<1>2. Settles(r, "late", actual, plan, status)
  BY <1>1, Zenon DEF SettleLate
<1>3. /\ request' = request /\ ext' = ext /\ acquired' = acquired
      /\ request[r].status = "outcome_unknown" /\ actual > 0 /\ actual \in Int
  BY DEF SettleLate
<1>4. job[r]["reserve"].status = "succeeded"
  <2>1. acquired[r] # {}
    BY DEF SettleLate, Has
  <2> QED BY <2>1 DEF RowInv, Executor
<1>5. job'[r]["reserve"] = job[r]["reserve"] /\ job'[r]["final"] = job[r]["final"]
  BY <1>2, <1>3, NamedKinds, SettlesJobs
<1>6. Known(r)' = Known(r)
  BY <1>2, <1>3, NamedKinds, KnownSame
<1>7. Stage(r)'
  <2>1. Stage(r)
    BY DEF RowInv
  <2>2. /\ request'[r] = request[r] /\ request[r].status \notin Open \cup {"none", "declined"}
        /\ request[r].status \in Closed \ {"declined"}
    BY <1>3 DEF Open, Closed
  <2> QED BY <1>4, <1>5, <1>6, <2>1, <2>2 DEF Stage, Open
<1>8. /\ request'[r].token = request[r].token /\ request'[r].overage = request[r].overage
      /\ request'[r].status \in {"none", "reserving"} => request[r].status \in {"none", "reserving"}
      /\ ext'[r] = ext[r] /\ acquired'[r] = acquired[r] /\ actual >= 0
  BY <1>3
<1>9. plan = request[r].overage \/ (~plan /\ actual >= 0)
  BY <1>1, <1>8
<1>10. "late" \in Kinds /\ "late" \notin Ops
  BY NamedKinds
<1> QED BY <1>2, <1>3, <1>7, <1>8, <1>9, <1>10, SettledRow

(* The cron tries a pending job again: the row of the request does not move, so *)
(* what the row says must be about the posted jobs only.                        *)
LEMMA RetryKeeps ==
  ASSUME Types, Types', NEW r \in Requests, NEW k \in Kinds, NEW status \in Statuses, RowInv(r),
         RetryJob(r, k, status)
  PROVE  RowInv(r)'
<1>0. /\ request[r].overage \in BOOLEAN /\ job[r][k].amount \in Int
  BY DEF Types, LedgerTypeOK, Request, Job
<1> DEFINE overage == k # "late" /\ Label(r)
<1>1. /\ job[r][k].status = "pending" /\ Unsettled(r, k)
      /\ Settles(r, k, job[r][k].amount, overage, status)
      /\ request' = request /\ ext' = ext /\ acquired' = acquired
  BY DEF RetryJob, Unsettled
<1>2. overage \in BOOLEAN /\ (k # "late" => overage = request[r].overage) /\ (k = "late" => ~overage)
  BY <1>0 DEF Label
<1> HIDE DEF overage
<1>3. Stage(r) /\ Steps(r) /\ Classed(r)
  BY DEF RowInv
<1>4. /\ \A j \in Kinds \ {k} : job'[r][j] = job[r][j]
      /\ job'[r][k].status = status /\ job'[r][k].amount = job[r][k].amount
  BY <1>0, <1>1, SettlesJobs
<1>5. k \in Ops => ext[r][k] # "extended"
  BY <1>1, <1>3 DEF Steps
<1>6. Known(r)' = Known(r)
  BY <1>0, <1>1, <1>5, KnownSame
<1>7. Stage(r)'
  <2>1. status \in {"succeeded", "terminal", "pending"}
    BY DEF Statuses, Done
  <2>2. CASE k = "reserve"
    <3>1. /\ \A o \in Ops : job'[r][o] = job[r][o]
          /\ job'[r]["final"] = job[r]["final"] /\ job'[r]["late"] = job[r]["late"]
      BY <1>4, <2>2, NamedKinds
    <3>2. request[r].status = "reserving"
      <4>1. request[r].status \in {"none"} \cup Open \cup Closed
        BY DEF Types, LedgerTypeOK, Request
      <4> QED BY <1>1, <1>3, <2>2, <4>1 DEF Stage, Open, Closed
    <3>3. Unextended(r)
      BY <1>3, <3>2 DEF Stage
    <3>4. Unextended(r)' /\ Known(r) = 0
      BY <1>1, <3>1, <3>3, FreshSums DEF Unextended
    <3>5. job'[r]["reserve"].amount = request[r].est /\ request[r].est \in Nat
      BY <1>3, <1>4, <2>2, <3>2 DEF Stage, Types, LedgerTypeOK, Request
    <3> QED BY <1>1, <1>3, <1>4, <1>6, <2>1, <2>2, <3>1, <3>2, <3>4, <3>5 DEF Stage, Open, Closed
  <2>3. CASE k \in Ops
    <3>1. \A j \in {"reserve", "final", "late"} : job'[r][j] = job[r][j]
      BY <1>4, <2>3, NamedKinds
    <3>2. ~Unextended(r)
      BY <1>1, <2>3 DEF Unextended
    <3> QED BY <1>1, <1>3, <1>6, <3>1, <3>2 DEF Stage
  <2>4. CASE k \in {"final", "late"}
    <3>1. /\ \A o \in Ops : job'[r][o] = job[r][o]
          /\ job'[r]["reserve"] = job[r]["reserve"]
          /\ \A j \in {"final", "late"} : j # k => job'[r][j] = job[r][j]
      BY <1>4, <2>4, NamedKinds
    <3>2. Unextended(r) => Unextended(r)'
      BY <1>1, <3>1 DEF Unextended
    <3>3. status # "none" /\ job[r][k].status # "none"
      BY <1>1, <2>1
    <3> QED BY <1>1, <1>3, <1>4, <1>6, <2>4, <3>1, <3>2, <3>3 DEF Stage
  <2> QED BY <2>2, <2>3, <2>4 DEF Kinds
<1>8. k = "late" => job[r][k].amount >= 0
  BY <1>3 DEF Classed
<1> QED BY <1>0, <1>1, <1>2, <1>7, <1>8, SettledRow

(* The provider is started. *)
LEMMA StartKeeps ==
  ASSUME Types, NEW r \in Requests, NEW t \in Tokens, RowInv(r), MarkStarted(r, t)
  PROVE  RowInv(r)'
<1>0. request \in [Requests -> Request] /\ request[r] \in Request
  BY DEF Types, LedgerTypeOK
<1>1. /\ request[r].status = "reserved"
      /\ request' = [request EXCEPT ![r] = [request[r] EXCEPT !.status = "provider_started"]]
      /\ ext' = ext /\ job' = job /\ posted' = posted /\ acquired' = acquired
  BY DEF MarkStarted
<1>2. request'[r] = [request[r] EXCEPT !.status = "provider_started"]
  BY <1>0, <1>1
<1> QED BY <1>0, <1>1, <1>2, RowTouched DEF Request

(* The first operation is noted. *)
LEMMA CoverKeeps ==
  ASSUME Types, NEW r \in Requests, NEW t \in Tokens, NEW o \in Ops, RowInv(r), CoverFirst(r, t, o)
  PROVE  RowInv(r)'
<1>0. request \in [Requests -> Request] /\ request[r] \in Request
  BY DEF Types, LedgerTypeOK
<1>1. /\ request' = [request EXCEPT ![r] = [request[r] EXCEPT !.first = o]]
      /\ ext' = ext /\ job' = job /\ posted' = posted /\ acquired' = acquired
  BY DEF CoverFirst
<1>2. request'[r] = [request[r] EXCEPT !.first = o]
  BY <1>0, <1>1
<1> QED BY <1>0, <1>1, <1>2, RowTouched DEF Request

(* The lease lapses. *)
LEMMA LapseKeeps ==
  ASSUME Types, NEW r \in Requests, RowInv(r), LeaseLapses(r)
  PROVE  RowInv(r)'
<1>0. request \in [Requests -> Request] /\ request[r] \in Request
  BY DEF Types, LedgerTypeOK
<1>1. /\ request' = [request EXCEPT ![r] = [request[r] EXCEPT !.lapsed = TRUE]]
      /\ ext' = ext /\ job' = job /\ posted' = posted /\ acquired' = acquired
  BY DEF LeaseLapses
<1>2. request'[r] = [request[r] EXCEPT !.lapsed = TRUE]
  BY <1>0, <1>1
<1> QED BY <1>0, <1>1, <1>2, RowTouched DEF Request

(* A step that is refused was counted by nobody, and is not now. *)
LEMMA RefuseKeeps ==
  ASSUME Types, NEW r \in Requests, NEW t \in Tokens, NEW o \in Ops, RowInv(r), RefuseStep(r, t, o)
  PROVE  RowInv(r)'
<1>0. Totals(r) /\ Steps(r) /\ Stage(r) /\ Classed(r) /\ Executor(r)
  BY DEF RowInv
<1>1. /\ request' = request /\ job' = job /\ posted' = posted /\ acquired' = acquired
      /\ ext[r][o] # "extended" /\ ext' = [ext EXCEPT ![r][o] = "declined"]
      /\ request[r].status = "provider_started"
      /\ ext \in [Requests -> [Ops -> {"none", "reserving", "extended", "declined"}]]
  BY DEF RefuseStep, Extending, Runs, Types, LedgerTypeOK
<1>2. \A q \in Ops : ext'[r][q] = "extended" <=> ext[r][q] = "extended"
  BY <1>1
<1>3. \A k : Paid(r, k)' = Paid(r, k)
  BY <1>1 DEF Paid
<1>4. Known(r)' = Known(r) /\ Unaccounted(r)' = Unaccounted(r)
  <2>1. Part(r)' = Part(r) /\ Rest(r)' = Rest(r)
    BY <1>2, <1>3 DEF Part, Rest
  <2>2. /\ Known(r) = SumFunction(Part(r)) /\ Unaccounted(r) = SumFunction(Rest(r))
        /\ Known(r)' = SumFunction(Part(r)') /\ Unaccounted(r)' = SumFunction(Rest(r)')
    BY DEF Known, Unaccounted, Part, Rest
  <2> QED BY <2>1, <2>2
<1>5. ClassTotal(r, "plan")' = ClassTotal(r, "plan") /\ ClassTotal(r, "overage")' = ClassTotal(r, "overage")
  BY <1>1, TotalsSame DEF Classes
<1>6. Totals(r)' /\ Classed(r)'
  BY <1>0, <1>1, <1>3, <1>4, <1>5 DEF Totals, Net, Classed
<1>7. Steps(r)'
  BY <1>0, <1>1, <1>2 DEF Steps
<1>8. Stage(r)'
  BY <1>0, <1>1, <1>4 DEF Stage, Closed
<1>9. Executor(r)'
  BY <1>0, <1>1 DEF Executor
<1> QED BY <1>6, <1>7, <1>8, <1>9 DEF RowInv

--------------------------------------------------------------------------------
(* The invariant. *)

(* A settlement is of one request; its money stays within the account. *)
LEMMA OthersKept ==
  ASSUME Types, Types', BooksBalance, \A s \in Requests : RowInv(s), NEW r \in Requests,
         NEW k \in Kinds, NEW amount \in Int, NEW overage \in BOOLEAN, NEW status \in Statuses,
         Settles(r, k, amount, overage, status), fees' = fees, RowInv(r)',
         \A s \in Requests \ {r} : /\ request'[s] = request[s] /\ ext'[s] = ext[s]
                                   /\ acquired'[s] = acquired[s]
  PROVE  IInv'
<1>1. \A s \in Requests \ {r} : job'[s] = job[s]
  BY SettlesJobs
<1>2. \A s \in Requests \ {r} : posted'[s] = posted[s]
  BY SettlesMoney, PostsShape
<1>3. \A s \in Requests \ {r} : RowInv(s)'
  BY <1>1, <1>2, RowUnmoved
<1>4. BooksBalance'
  BY BooksKept
<1> QED BY <1>3, <1>4 DEF IInv

(* A step that posts nothing. *)
LEMMA UnpostedKept ==
  ASSUME Types', BooksBalance, \A s \in Requests : RowInv(s), NEW r \in Requests, RowInv(r)',
         job' = job, posted' = posted, used' = used, fees' = fees,
         \A s \in Requests \ {r} : /\ request'[s] = request[s] /\ ext'[s] = ext[s]
                                   /\ acquired'[s] = acquired[s]
  PROVE  IInv'
<1>1. \A s \in Requests \ {r} : RowInv(s)'
  BY RowUnmoved
<1>2. BooksBalance'
  BY DEF BooksBalance, PostedOn
<1> QED BY <1>1, <1>2 DEF IInv

(* The invariant is kept by every step. *)
LEMMA Inductive == IInv /\ [LedgerNext]_ledgerVars => IInv'
<1> SUFFICES ASSUME IInv, [LedgerNext]_ledgerVars PROVE IInv'
  OBVIOUS
<1>0. /\ Types /\ Types' /\ BooksBalance /\ \A s \in Requests : RowInv(s)
  BY TypesKept DEF IInv
<1>a. /\ request \in [Requests -> Request]
      /\ ext \in [Requests -> [Ops -> {"none", "reserving", "extended", "declined"}]]
      /\ acquired \in [Requests -> SUBSET Tokens]
      /\ \A r \in Requests : request[r].est \in Int /\ request[r].overage \in BOOLEAN
      /\ \A r \in Requests, k \in Kinds : job[r][k].amount \in Int
      /\ \A o \in Ops : StepCost[o] \in Int
      /\ Actuals \subseteq Nat /\ Estimates \subseteq Nat
  BY <1>0, AmountAssumption DEF Types, LedgerTypeOK, Request, Job
<1>1. ASSUME NEW r \in Requests, NEW t \in Tokens, NEW status \in Statuses, NEW est \in Estimates,
             NEW overage \in BOOLEAN, Reserve(r, t, est, overage, status)
      PROVE  IInv'
  <2>1. RowInv(r)'
    BY <1>0, <1>1, ReservesKeep
  <2>2. /\ Settles(r, "reserve", est, overage, status) /\ fees' = fees
        /\ \A s \in Requests \ {r} : /\ request'[s] = request[s] /\ ext'[s] = ext[s]
                                     /\ acquired'[s] = acquired[s]
    BY <1>1, <1>a DEF Reserve, Acquires
  <2> QED BY <1>0, <1>a, <2>1, <2>2, NamedKinds, OthersKept
<1>2. ASSUME NEW r \in Requests, NEW t \in Tokens, NEW status \in Statuses,
             ReserveAgain(r, t, status)
      PROVE  IInv'
  <2>1. RowInv(r)'
    BY <1>0, <1>2, ReservesKeep
  <2>2. /\ Settles(r, "reserve", request[r].est, request[r].overage, status) /\ fees' = fees
        /\ \A s \in Requests \ {r} : /\ request'[s] = request[s] /\ ext'[s] = ext[s]
                                     /\ acquired'[s] = acquired[s]
    BY <1>2, <1>a DEF ReserveAgain, Acquires, Label
  <2> QED BY <1>0, <1>a, <2>1, <2>2, NamedKinds, OthersKept
<1>3. ASSUME NEW r \in Requests, NEW t \in Tokens, NEW status \in Statuses, NEW o \in Ops,
             NEW limited \in BOOLEAN, Extend(r, t, o, limited, status)
      PROVE  IInv'
  <2>1. RowInv(r)'
    BY <1>0, <1>3, ExtendKeeps
  <2>2. /\ Settles(r, o, StepCost[o], request[r].overage \/ limited, status) /\ fees' = fees
        /\ \A s \in Requests \ {r} : /\ request'[s] = request[s] /\ ext'[s] = ext[s]
                                     /\ acquired'[s] = acquired[s]
    BY <1>3, <1>a DEF Extend
  <2>3. (request[r].overage \/ limited) \in BOOLEAN
    OBVIOUS
  <2> QED BY <1>0, <1>a, <2>1, <2>2, <2>3, NamedKinds, OthersKept
<1>4. ASSUME NEW r \in Requests, NEW t \in Tokens, NEW status \in Statuses,
             NEW end \in {"completed", "released"}, NEW actual \in Nat,
             Finalize(r, t, end, actual, status)
      PROVE  IInv'
  <2>1. RowInv(r)'
    BY <1>0, <1>4, FinalizeKeeps
  <2>2. /\ Settles(r, "final", actual - request[r].est, request[r].overage, status) /\ fees' = fees
        /\ \A s \in Requests \ {r} : /\ request'[s] = request[s] /\ ext'[s] = ext[s]
                                     /\ acquired'[s] = acquired[s]
    BY <1>4, <1>a DEF Finalize, Closes, Label
  <2>3. actual - request[r].est \in Int
    BY <1>a
  <2> QED BY <1>0, <1>a, <2>1, <2>2, <2>3, NamedKinds, OthersKept
<1>5. ASSUME NEW r \in Requests, NEW t \in Tokens, NEW status \in Statuses, NEW actual \in Nat,
             SettleLate(r, t, actual, status)
      PROVE  IInv'
  <2>1. RowInv(r)'
    BY <1>0, <1>5, SettleLateKeeps
  <2>2. PICK plan \in BOOLEAN : plan = FALSE
    OBVIOUS
  <2>3. Settles(r, "late", actual, plan, status)
    BY <1>5, <2>2, Zenon DEF SettleLate
  <2>4. /\ fees' = fees /\ actual \in Int
        /\ \A s \in Requests \ {r} : /\ request'[s] = request[s] /\ ext'[s] = ext[s]
                                     /\ acquired'[s] = acquired[s]
    BY <1>5 DEF SettleLate
  <2> QED BY <1>0, <2>1, <2>3, <2>4, NamedKinds, OthersKept
<1>6. ASSUME NEW r \in Requests, NEW status \in Statuses, RecoverPaid(r, status) PROVE IInv'
  <2>1. RowInv(r)'
    BY <1>0, <1>6, RecoverKeeps
  <2>2. /\ Settles(r, "final", -request[r].est, request[r].overage, status) /\ fees' = fees
        /\ \A s \in Requests \ {r} : /\ request'[s] = request[s] /\ ext'[s] = ext[s]
                                     /\ acquired'[s] = acquired[s]
    BY <1>6, <1>a DEF RecoverPaid, Closes, Label
  <2>3. -request[r].est \in Int
    BY <1>a
  <2> QED BY <1>0, <1>a, <2>1, <2>2, <2>3, NamedKinds, OthersKept
<1>7. ASSUME NEW r \in Requests, NEW k \in Kinds, NEW status \in Statuses, RetryJob(r, k, status)
      PROVE  IInv'
  <2>1. RowInv(r)'
    BY <1>0, <1>7, RetryKeeps
  <2>2. /\ Settles(r, k, job[r][k].amount, k # "late" /\ Label(r), status) /\ fees' = fees
        /\ \A s \in Requests \ {r} : /\ request'[s] = request[s] /\ ext'[s] = ext[s]
                                     /\ acquired'[s] = acquired[s]
    BY <1>7 DEF RetryJob
  <2>3. (k # "late" /\ Label(r)) \in BOOLEAN
    BY <1>a DEF Label
  <2> QED BY <1>0, <1>a, <2>1, <2>2, <2>3, OthersKept
<1>8. ASSUME NEW r \in Requests, NEW t \in Tokens, MarkStarted(r, t) PROVE IInv'
  <2>2. RowInv(r)'
    BY <1>0, <1>8, StartKeeps
  <2>3. /\ job' = job /\ posted' = posted /\ used' = used /\ fees' = fees
        /\ \A s \in Requests \ {r} : /\ request'[s] = request[s] /\ ext'[s] = ext[s]
                                     /\ acquired'[s] = acquired[s]
    BY <1>8, <1>a DEF MarkStarted
  <2> QED BY <1>0, <2>2, <2>3, UnpostedKept
<1>9. ASSUME NEW r \in Requests, NEW t \in Tokens, NEW o \in Ops,
             CoverFirst(r, t, o) \/ RefuseStep(r, t, o)
      PROVE  IInv'
  <2>1. RowInv(r)'
    BY <1>0, <1>9, CoverKeeps, RefuseKeeps
  <2>2. /\ job' = job /\ posted' = posted /\ used' = used /\ fees' = fees
        /\ \A s \in Requests \ {r} : /\ request'[s] = request[s] /\ ext'[s] = ext[s]
                                     /\ acquired'[s] = acquired[s]
    BY <1>9, <1>a DEF CoverFirst, RefuseStep
  <2> QED BY <1>0, <2>1, <2>2, UnpostedKept
<1>10. ASSUME NEW r \in Requests, LeaseLapses(r) \/ RecoverUnpaid(r) PROVE IInv'
  <2>1. RowInv(r)'
    BY <1>0, <1>10, LapseKeeps, RecoverKeeps DEF Statuses
  <2>2. /\ job' = job /\ posted' = posted /\ used' = used /\ fees' = fees
        /\ \A s \in Requests \ {r} : /\ request'[s] = request[s] /\ ext'[s] = ext[s]
                                     /\ acquired'[s] = acquired[s]
    BY <1>10, <1>a DEF LeaseLapses, RecoverUnpaid, Closes
  <2> QED BY <1>0, <2>1, <2>2, UnpostedKept
<1>11. CASE Deduct
  <2>1. \A s \in Requests : RowInv(s)'
    BY <1>0, <1>11, RowUnmoved DEF Deduct
  <2>2. /\ period \in Periods /\ used \in [Periods -> Int] /\ fees \in [Periods -> Nat]
        /\ Fee \in Nat /\ Allowance \in Nat
    BY <1>0, AmountAssumption DEF Types, LedgerTypeOK
  <2>3. /\ used[period] + Fee <= Allowance
        /\ \A p \in Periods : /\ used'[p] = IF p = period THEN used[p] + Fee ELSE used[p]
                              /\ fees'[p] = IF p = period THEN fees[p] + Fee ELSE fees[p]
                              /\ PostedOn(p)' = PostedOn(p)
    BY <1>11, <2>2 DEF Deduct, PostedOn
  <2>4. ASSUME NEW p \in Periods
        PROVE  used'[p] \in 0..Allowance /\ used'[p] = PostedOn(p)' + fees'[p]
    <3>1. /\ used[p] \in 0..Allowance /\ used[p] = PostedOn(p) + fees[p]
          /\ fees[p] \in Nat /\ PostedOn(p) \in Int
      BY <1>0, <2>2, AccountTyped DEF BooksBalance
    <3> QED BY <2>2, <2>3, <3>1
  <2>5. BooksBalance'
    BY <2>4 DEF BooksBalance
  <2> QED BY <1>0, <2>1, <2>5 DEF IInv
<1>12. CASE NewPeriod \/ UNCHANGED ledgerVars
  <2>1. \A s \in Requests : RowInv(s)'
    BY <1>0, <1>12, RowUnmoved DEF NewPeriod, ledgerVars
  <2>2. BooksBalance'
    BY <1>0, <1>12 DEF BooksBalance, PostedOn, NewPeriod, ledgerVars
  <2> QED BY <1>0, <2>1, <2>2 DEF IInv
<1>13. 0 \in Nat /\ "pending" \in Statuses
  BY DEF Statuses
<1> QED BY <1>1, <1>2, <1>3, <1>4, <1>5, <1>6, <1>7, <1>8, <1>9, <1>10, <1>11, <1>12, <1>13, <1>a
        DEF LedgerNext, Caller, Recover, Statuses

(* The invariant holds of the empty ledger. *)
LEMMA Initial == LedgerInit => IInv
<1> SUFFICES ASSUME LedgerInit PROVE IInv
  OBVIOUS
<1>1. Types
  <2>1. 0 \in 0..MaxTries /\ 0 < MaxTries /\ 1 \in Periods /\ 0 \in 0..MaxFaults
    BY LedgerBounds DEF Periods
  <2>2. LedgerTypeOK
    BY <2>1 DEF LedgerInit, LedgerTypeOK, Request, Job
  <2> QED BY <2>1, <2>2 DEF Types, LedgerInit
<1>2. ASSUME NEW p \in Periods PROVE PostedOn(p) = 0
  <2> DEFINE f == [r \in Requests |-> posted[r][p]["plan"] + posted[r][p]["overage"]]
  <2>1. DOMAIN f = Requests /\ \A r \in Requests : f[r] = 0
    BY DEF LedgerInit, Classes
  <2>2. PostedOn(p) = SumFunction(f)
    BY DEF PostedOn
  <2> HIDE DEF f
  <2> QED BY <2>1, <2>2, LedgerRows, SumOfZeros
<1>3. BooksBalance
  BY <1>2, AmountAssumption DEF BooksBalance, LedgerInit
<1>4. ASSUME NEW r \in Requests PROVE RowInv(r)
  <2>1. \A c \in Classes : ClassTotal(r, c) = 0
    <3> SUFFICES ASSUME NEW c \in Classes PROVE ClassTotal(r, c) = 0
      OBVIOUS
    <3> DEFINE f == [p \in Periods |-> posted[r][p][c]]
    <3>1. DOMAIN f = Periods /\ \A p \in Periods : f[p] = 0
      BY DEF LedgerInit
    <3>2. ClassTotal(r, c) = SumFunction(f)
      BY DEF ClassTotal
    <3> HIDE DEF f
    <3> QED BY <3>1, <3>2, PeriodsFinite, SumOfZeros
  <2>2. /\ \A k \in Kinds : job[r][k].status = "none" /\ job[r][k].amount = 0
        /\ \A o \in Ops : ext[r][o] = "none"
        /\ request[r].status = "none" /\ request[r].overage = FALSE /\ acquired[r] = {}
    BY DEF LedgerInit
  <2>3. \A k \in Kinds : Paid(r, k) = 0
    BY <2>2 DEF Paid
  <2>4. Unextended(r)
    BY <2>2, NamedKinds DEF Unextended
  <2>5. Known(r) = 0 /\ Unaccounted(r) = 0
    BY <2>4, FreshSums
  <2>6. Totals(r)
    BY <2>1, <2>3, <2>5, NamedKinds DEF Totals, Net, Classes
  <2>7. Steps(r)
    BY <2>2, NamedKinds DEF Steps
  <2>8. Stage(r)
    BY <2>2, <2>4, NamedKinds DEF Stage, Open, Closed
  <2>9. Classed(r)
    BY <2>1, <2>2, NamedKinds DEF Classed, Classes
  <2> QED BY <2>2, <2>6, <2>7, <2>8, <2>9 DEF RowInv, Executor
<1> QED BY <1>1, <1>3, <1>4 DEF IInv

(* The invariant holds of every state of the ledger. *)
LEMMA Invariance == LedgerSpec => []IInv
<1>1. LedgerInit => IInv
  BY Initial
<1>2. IInv /\ [LedgerNext]_ledgerVars => IInv'
  BY Inductive
<1> QED BY <1>1, <1>2, PTL DEF LedgerSpec

(* The tables of the ledger hold values of their types, and no settlement job *)
(* is tried more than MaxTries times, for every number of requests, attempts, *)
(* steps, periods and faults.                                                 *)
THEOREM LedgerTypeCorrect == LedgerSpec => []LedgerTypeOK
<1>1. IInv => LedgerTypeOK
  BY DEF IInv, Types
<1> QED BY <1>1, Invariance, PTL

(* credits_used of an account is what the ledger rows and the ordinary         *)
(* deductions on it add up to, and stays within what was allocated             *)
(* (settle_managed_usage_credits, deduct_credits), whatever requests are       *)
(* reserved, extended, released, recovered and retried on it, in one period or *)
(* across several.                                                             *)
THEOREM BooksCorrect == LedgerSpec => []BooksBalance
<1>1. IInv => BooksBalance
  BY DEF IInv
<1> QED BY <1>1, Invariance, PTL

(* The ledger rows of a request add up to what its row says it holds and to the *)
(* steps only the cron posted; nothing is charged twice and plan usage is not   *)
(* given back below zero (reserve_, extend_, finalize_, recover_ and            *)
(* process_credit_settlement_queue in any order).                               *)
THEOREM ExplainedCorrect == LedgerSpec => []EveryRowExplained
<1>1. IInv => EveryRowExplained
  BY Explains DEF IInv
<1> QED BY <1>1, Invariance, PTL

(* One attempt at most is told that it has the request, so the provider is *)
(* called by one of them (reserve_managed_usage_request).                  *)
THEOREM ExecutorCorrect == LedgerSpec => []OneExecutor
<1>1. IInv => OneExecutor
  <2> SUFFICES ASSUME IInv, NEW r \in Requests PROVE Cardinality(acquired[r]) <= 1
    BY DEF OneExecutor
  <2>1. acquired[r] \subseteq {request[r].token}
    BY DEF IInv, RowInv, Executor
  <2>2. CASE acquired[r] = {}
    <3>1. Cardinality({}) = 0
      BY FS_EmptySet
    <3> QED BY <2>2, <3>1
  <2>3. CASE acquired[r] = {request[r].token}
    <3>1. Cardinality({request[r].token}) = 1
      BY FS_Singleton
    <3> QED BY <2>3, <3>1
  <2> QED BY <2>1, <2>2, <2>3
<1> QED BY <1>1, Invariance, PTL

(* A request that is closed keeps its outcome and its cost: no later       *)
(* finalization, recovery, retry or late delivery writes its row           *)
(* (finalize_managed_usage_request, recover_stale_managed_usage_requests). *)
THEOREM FirstOutcomeCorrect == LedgerSpec => FirstOutcomeWins
<1> DEFINE Kept == \A r \in Requests : request[r].status \in Closed => request'[r] = request[r]
<1>1. IInv /\ [LedgerNext]_ledgerVars => [Kept]_ledgerVars
  <2> SUFFICES ASSUME IInv, LedgerNext, NEW s \in Requests, request[s].status \in Closed
               PROVE  request'[s] = request[s]
    OBVIOUS
  <2>0. request \in [Requests -> Request] /\ Open \cap Closed = {} /\ "none" \notin Closed
    BY DEF IInv, Types, LedgerTypeOK, Open, Closed
  <2>1. ASSUME NEW r \in Requests, NEW row, request' = [request EXCEPT ![r] = row],
               request[r].status \in {"none"} \cup Open
        PROVE  request'[s] = request[s]
    BY <2>0, <2>1
  <2>2. \A r \in Requests, t \in Tokens : \A status, est, overage :
          Reserve(r, t, est, overage, status) => request'[s] = request[s]
    BY <2>0, <2>1 DEF Reserve, Open
  <2>3. \A r \in Requests, t \in Tokens : \A status :
          ReserveAgain(r, t, status) => request'[s] = request[s]
    BY <2>0, <2>1 DEF ReserveAgain, Open
  <2>4. \A r \in Requests, t \in Tokens : \A status, o, limited :
          Extend(r, t, o, limited, status) => request'[s] = request[s]
    BY <2>0, <2>1 DEF Extend, Extending, Runs, Open
  <2>5. \A r \in Requests : \A end, actual :
          Closes(r, end, actual) /\ request[r].status \in Open => request'[s] = request[s]
    BY <2>0 DEF Closes
  <2>6. \A r \in Requests, t \in Tokens : \A status, end, actual :
          Finalize(r, t, end, actual, status) => request'[s] = request[s]
    BY <2>5 DEF Finalize, Open
  <2>7. \A r \in Requests, t \in Tokens : \A status, actual :
          SettleLate(r, t, actual, status) => request'[s] = request[s]
    BY DEF SettleLate
  <2>8. \A r \in Requests, t \in Tokens : MarkStarted(r, t) => request'[s] = request[s]
    BY <2>0 DEF MarkStarted, Open
  <2>9. \A r \in Requests, t \in Tokens : \A o :
          CoverFirst(r, t, o) \/ RefuseStep(r, t, o) => request'[s] = request[s]
    BY <2>0 DEF CoverFirst, RefuseStep, Runs, Open
  <2>10. \A r \in Requests : LeaseLapses(r) => request'[s] = request[s]
    BY <2>0 DEF LeaseLapses
  <2>11. \A r \in Requests : Recover(r) => request'[s] = request[s]
    BY <2>5 DEF Recover, RecoverPaid, RecoverUnpaid, Recoverable
  <2>12. \A r \in Requests : \A k, status : RetryJob(r, k, status) => request'[s] = request[s]
    BY DEF RetryJob
  <2>13. Deduct \/ NewPeriod => request'[s] = request[s]
    BY DEF Deduct, NewPeriod
  <2> QED BY <2>2, <2>3, <2>4, <2>6, <2>7, <2>8, <2>9, <2>10, <2>11, <2>12, <2>13 DEF LedgerNext, Caller
<1>2. LedgerSpec => [][Kept]_ledgerVars
  BY <1>1, Invariance, PTL DEF LedgerSpec
<1> QED BY <1>2 DEF FirstOutcomeWins

================================================================================

# A TLA+ verification of agiworkforce

This directory models the parts of the agiworkforce monorepo whose correctness depends on
the order in which things happen: several worker processes on one database, callers that
retry, deadlines that pass while work is still running, processes that die between two
statements. The modules are translated from the source; `PROJECT.json` maps every definition
to the lines it stands for. TLC checks small instances, TLAPS proves the most important
results for every instance.

## 1. The system

The repository is one product on many surfaces: a Next.js web application that is also the
backend (`apps/web`), desktop, mobile, CLI and two editor/browser extensions, shared
TypeScript packages, Rust crates used by the CLI and the desktop app, and two services
(device signalling, upload scanning). The durable state is in Postgres (`apps/web/db/neon`),
reached through `packages/platform/data-layer`; crons (`vercel.json`) and a durable workflow
engine call into `apps/web`.

| Component | State it keeps | Operations | Talks to | What is hard | What makes it correct |
| --- | --- | --- | --- | --- | --- |
| Background job queue, `apps/web/lib/jobs` | `background_jobs` rows; executions in worker memory | enqueue, claim, complete, fail, cancel, acknowledge, reap, prune, operator retry; the drain loop | cron starts drains; triggers, schedules, exports, webhooks enqueue | leases lapse under live workers, answers are lost, three-statement cancellation, one claim per queue slot | one holder per job, attempts bounded, outcomes final, concurrency bounded, every job ends |
| Cloud agent runs, `apps/web/lib/services/cloud-agent-run-*.ts`, `lib/workflows` | `cloud_agent_runs` with event journal, human checkpoints, steer queue, pause and cancel flags | create, append event, transition, approve, answer, clear device, pause, resume, steer, cancel, reap | workflow engine, users on several surfaces, notification jobs, ledger | user decisions race with cancellation, timeout and the reaper; workflow steps replay | terminal states final, a decision is consumed once, event numbers have no gaps, no run waits for ever |
| Managed usage ledger, `db/neon/0182_*`, `managed-usage-request-service.ts` | credit accounts, reservations, settlement queue, ledger entries in microUSD | reserve, extend, finalize, settle, recover stale, drain settlement queue | every model call, auto reload, Stripe grants | retries of each step, provider answers after a reservation expired, partial settlement | no double charge, holds never exceed funds, every reservation ends, balance equals ledger |
| Schedules, `schedule-service.ts` | tasks, runs with leases, open approvals | create, edit, claim due, run now, finalize, retry, park for approval, answer, expire, sweep | cron, event triggers, agent execution, ledger | a slow process and the sweep finish one run; a run ends after its task was switched off; slots given back | a run has one outcome, executions are counted once, a task switched off stays off, a task with occurrences to come gets one |
| Event triggers, `lib/triggers` | triggers, deliveries, run caps, debounce | ingest, fire, settle | webhooks from outside, job queue | duplicated deliveries, debounce and cap under concurrency | one run per delivery, cap respected |
| Signalling relay, `services/signaling-server` | stored pairings; sessions, rehydrations, registrations, claims and deletions in memory | create a pairing, claim, register, recover, delete, revoke a device, sweep | desktop and mobile apps, Postgres | every request awaits the database while others change the same pairing; lost answers; restarts | a connected client holds the stored credential; what was ended or revoked does not come back |
| Billing, `app/api/stripe-webhook`, `billing-*`, `auto-reload-service.ts`, `mobile-iap-*` | processed events, subscriptions, the reload attempt of an account | webhook handling, reload, refund, plan change | Stripe, app stores, ledger | a charge whose answer is lost; webhooks late, twice or never; three parties settle one payment | each payment is booked once, one reload in flight, each ends |
| Client sync, `packages/client/sync`, `cloudSyncEngine.ts`, `app/api/*/sync` | rows with versions from a sequence; local copies, dirty ids, cursors | pull pages, push with compare-and-set, merge, give up, edit | web API, Postgres | versions become visible in commit order; answers lost; edits during a push | a change is stored or turned down; what the cursor has passed was delivered |
| Provider runtime and routing, `packages/ai/*` | retry budgets, watchdog timers, breaker state | call, retry, fail over, abort | model providers | a late answer after a timeout, fail-over after partial output | at most one provider's answer used; deadlines kept |
| Durable workflows, `apps/web/lib/workflows` | journal in the workflow engine | steps of agent, code and video runs | agent runs, ledger | replay after a crash | a step's effect happens once |
| Cloud code sessions, `cloud-code-*.ts` | sessions, turns, sandboxes | open, turn, share, reap | sandbox provider | stuck turns, two turns at once | one turn at a time |
| Mobile, desktop, extension, CLI and editor apps | local settings, credentials, transcripts | user interface, local tools | web API, relay | mostly sequential per user | - |
| Local execution policy, `crates/agiworkforce-execpolicy`, `-sandbox-policy` | none | decide whether a command may run | CLI, desktop | rule precedence | a forbidden command is never allowed by another rule |
| Rust agent core, `crates/agiworkforce-agent-core` | turn state, memory, runaway detector | agent loop | providers, tools | runaway loops | the loop ends |
| Data lifecycle: erasure, export, retention | grace periods, manifests | schedule, cancel, run deletion | jobs | cancellation races with the deadline | nothing is erased after a cancellation |
| Identity, organizations, policy | memberships, roles, seats, sessions | invite, accept, remove, provision | everything | last owner, seat limit | an organization keeps an owner |
| Upload scanning, `services/upload-scanner` | none | scan one object | object storage | - | - |

## 2. Plan

In the order in which they are written, the most important behaviour first.

1. `JobLifecycle`, `BackgroundJobs`, `BackgroundJobsProofs`: the job queue, its abstract
   promise, the proofs. **Done.**
2. `AgentRuns`, `AgentRunsProofs`: cloud agent runs, their journal, human checkpoints, pause,
   cancellation, shelf and reaper, and the workflow that executes them. **Done**; left: an
   abstract run (driven, parked or over) that it implements, steers, the inline transport.
3. `UsageLedger`, `FunctionSums`, `UsageLedgerProofs`: reservation, extension, settlement,
   recovery. **Done.** Left: an abstract escrow it implements, top-up lots, organization pools.
4. `Schedules`, `SchedulesProofs`: tasks, runs, retries, approvals, the sweep. **Done.** Left:
   changes of limits.
5. `Relay`, `RelayProofs`: pairings, credentials, deletion, revocation. **Done.** Left:
   forwarding, queued approvals, two serving processes.
6. `MemorySync`, `MemorySyncProofs`: memories between phones and server. **Done.** Left: chats
   and projects, which share the version sequence and the compare-and-set.
7. `AutoReload`, `AutoReloadProofs`: automatic purchases around Stripe. **Done.** Left: the
   other webhook events, checkout, and manual top-ups beyond what they add to the balance.
8. `JobClaim`: the ranking of one claim statement (tenant round robin, priority, pool limit,
   slots) as functions, checked against a declarative reference and shown to be one of the
   selections `BackgroundJobs` allows; the backoff arithmetic of `job-queues.ts`. Not begun.
9. Event triggers: the delivery record between a webhook, a run of `Schedules` and a job of
   `BackgroundJobs`. Not begun.
10. Compositions: an agent run with the ledger it spends from. Not begun.

| Module | Checked by | Proved in |
| --- | --- | --- |
| `BackgroundJobs`, `JobLifecycle` | `JobsSafety`, `JobsReuse`, `JobsLiveness` | `BackgroundJobsProofs` |
| `AgentRuns` | `RunsSafety`, `RunsQuiet`, `RunsDevice` | `AgentRunsProofs` |
| `UsageLedger` | `LedgerSafety` | `UsageLedgerProofs`, with the lemmas of `FunctionSums` |
| `Schedules` | `SchedulesSafety` | `SchedulesProofs` |
| `Relay` | `RelaySafety` | `RelayProofs` |
| `MemorySync` | `MemorySafety`, `MemoryMissed` | `MemorySyncProofs` |
| `AutoReload` | `ReloadSafety` | `AutoReloadProofs` |

Each `MC*` module instantiates the module of that name for TLC. Beside an operator stands,
where there is one, its *slip*: the same operator with a plausible mistake (a guard dropped, a
reset forgotten). Nothing uses the slips but the mutants of `PROJECT.json`, which put one in
the operator's place to see a property fail. Two of the type invariants that TLAPS proves are
repeated by a run, each for one clause that is more than a type: an extension has a status of
its own and not that of its posting (`LedgerTypeOK` of `UsageLedger`), and a tombstone keeps no
text (`TypeOK` of `MemorySync`).

Every safety property a run checks is also a theorem, for every value of the constants. What
only TLC shows are the liveness properties, because the provers here handle neither fairness
nor `ENABLED`, and the disagreements of section 10.

## 3. The job queue

### Modules

`BackgroundJobs` has one action per SQL statement, because anything may happen between two
statements that are not in one transaction.

| Variable | In the code |
| --- | --- |
| `row[j]` | the row of `background_jobs` under the unique `(queue, idempotency_key)` `j` |
| `execs` | the `runJob` calls in progress in all worker processes |
| `drain[w]` | where `drainBackgroundJobs` of process `w` is, and the queues whose lease still fits its budget |
| `enq[j]`, `req[j]` | an `enqueueJob` and a `requestJobCancellation` call in progress, or their answer |
| `faults` | crashes, failed statements and lost answers so far (a bound) |

Two fields of a row are not columns: `id` numbers the rows ever inserted under a key (the
code has a uuid) and `retried` the operator retries; with `attempts` they tell two claims
apart, which is what the properties need. `elapsed` replaces the clock: it says that the
deadline the row carries in its present status has passed. A deadline may pass at any moment,
so a lease can lapse under a live worker and nothing depends on how long things take. Rows
locked by another transaction (`skip locked`) need no variable: skipping one is the same as
claiming after that transaction.

`EnqueueInsert`/`EnqueueLookup` are the two statements of `enqueueJob`; `CancelQueued`,
`CancelRunning`, `CancelRead` the three of `requestJobCancellation`; `RetryDead` is
`retryDeadJob`; `HandlerEnds`, `PollCancellation` and `Settle` are `runJob` with the
statement of `completeJob`, `failJob` or `acknowledgeJobCancellation`, which may fail before
or after it took effect; `StartDrain`, `ReapSpent`, `ReapRequeue`, `ReapCancelled`, `Claim`,
`SkipClaim`, `PruneFinished`, `PruneDead` are `drainBackgroundJobs` in its order; `Crash`,
`DrainFails`, `ClaimAnswerLost` are what can go wrong.

`JobLifecycle` is the promise to the users of the queue: a job waits, is tried a bounded
number of times, at most so many of a queue at once, and ends for good.

### What the runs show

| Run | Instance | Shows |
| --- | --- | --- |
| `JobsSafety` | 1 job, 2 workers, 2 attempts, 1 operator retry, 1 fault | one holder per job; a cancelled job stays cancelled; a request to cancel survives every requeue; settled is final; the lifecycle is implemented |
| `JobsReuse` | 1 key, 2 subjects, 2 rows in turn, 1 worker, 1 fault | with a row pruned and inserted again while calls and executions about the first row are under way: a call cancels the job it was made about and no later one |
| `JobsLiveness` | 1 job, 2 workers, 2 attempts, 1 fault | every job ends; every drain returns |

Bounds. Two workers are enough for a lapsed lease with a new holder while the old one still
settles; two attempts tell the last attempt from an earlier one; one slot makes every claim
compete; one fault is a crash, a lost answer or a failed statement at any point. What one
row does to another is only the count of running rows, and that no queue exceeds its limit is
proved for any number of jobs and queues (`ConcurrencyCorrect`).
`Cancellers` empties the set of subjects that ask for cancellations where a run is not about
them, to keep it small. The proofs have none of these bounds.

Fairness (`FairSpec`), used by `JobsLiveness` only: time passes; an execution goes on (its
timer aborts a handler that does not return, and the statement that settles it returns or
throws); the cron starts drains and a drain takes its next step. Strong fairness of a claim
that finds something says that the budget does not run out before the first claim of every
drain: the longest lease is 240 s and the budget 250 s less a safety of 5 s. No fairness is
assumed of callers, of the operator or of faults. `faults` is bounded: with a fault in every
drain, nothing could end.

### What is proved

`BackgroundJobsProofs` proves, for every set of jobs, workers, subjects and queues, every
policy and every number of faults (jobs finite):

- `TypeCorrect`, `AttemptsCorrect`, `ConcurrencyCorrect`, `SettledCorrect`,
  `SoleHolderCorrect`, `CancelledCorrect`, `RequestCorrect`, `NamedCorrect`, and
  `LifecycleCorrect`, that the queue implements `JobLifecycle`.

The argument: `StepShape` shows once, action by action, that every step moves the rows in
one of a few ways (start some within the slots, give some back with attempts left, end some
alike, forget some, or move one by a caller). All but the sole holder follow from it.
`SoleHolder` is not inductive: it needs that no execution is ahead of the row it was claimed
from and that no two come from the same claim (`ClaimsTellApart`). `CancelledStaysCancelled`
needs that a call never names a row that is not yet there.

For the two properties of a request to cancel the calls are followed as the rows are.
`CallShape` says which of its three statements a call can be before, and about which row.
`MarkShape` says what may change the mark of a request on a row: filing a new row, which has
none, the two statements of the call, and the acknowledgement of an execution that aborted
itself. So a mark stays on its row until another row is filed under the key (`MarkStays`): no
lapsed lease, no retry and no operator takes it off. `AbortShape` says that an execution gets
to its acknowledgement only by the poll that found the mark. A cancelled row, and the row of
an execution that aborted itself, therefore carry the mark (`MarksHold`), and a mark comes
from a call about that row. `Recorded` is the other direction: a call that was told
"requested" finds the mark on the row it named for as long as that is the key's row.

Assumptions: those of the constants in `BackgroundJobs`. Only model-checked: liveness.

### Not modelled

What a handler does outside the table, and that its body may run on after its signal was
aborted: the queue delivers at least once, and what the properties protect is the row. Rows
deleted by an account's erasure. Regions. The order of candidates within a claim (`JobClaim`
in the plan). `requestJobCancellation` has no caller in the repository yet: it is modelled as
the exported operation it is.

## 4. Cloud agent runs

### Module

`AgentRuns` models one run of Managed Cloud: the row that every client reads, and everybody
who writes it. An *invocation* is one start of `cloudAgentWorkflow`; the run has a first one,
and one for every checkpoint that somebody resumed.

| Variable | In the code |
| --- | --- |
| `run` | the row of `cloud_agent_runs`: `state`, `cancellation_requested_at` and `pause_requested_at` set or not, `last_event_sequence`, `completed_at` set or not; `idle` says that `updated_at` is older than `CLOUD_AGENT_ORPHANED_RUN_AGE_SECONDS` |
| `cps` | `cloud_agent_approval_checkpoints` in the order of `version`; `lease` names the invocation that got the lease token |
| `journal` | `cloud_agent_events`: the number of each event and the state it announces, if any |
| `told` | the calls of `announceAgentRunEvent` for an ending |
| `inv[i]` | where the invocation is, the input of its step (`from`, `how`, `cp`, `device`), the cursor of its journal (`seq`), what it is about to announce (`todo`) and whether the engine still holds its workflow (`held`) |
| `receipt[k]` | the row of `cloud_agent_execution_operations` of the k-th model call |
| `stop`, `shelf`, `ender` | a request between two of its statements: the cancel route, an archive or restore, the reaper or a silent stream |
| `faults` | crashes, refused cancellations and lost explanations so far (a bound) |

A step of the workflow engine is executed at least once: `Crash` leaves it `lost` and
`Redeliver` may start it over from its input. A step that throws is tried again
(`Rethrow`), and then `failCloudAgentWorkflow` (`FailWorkflow`) announces the failure and
settles. `Emit`, `CheckStop`, `CheckPause`, `HandOff`, `Answered`, `UseAnswer` are the tool
loop (`CheckPause` parks for a pause only while no stop is recorded, `PauseAsked`); `Park` is the
transaction that saves a checkpoint; `CompleteLease` and `Settle` are
`settleWorkflowInvocation`. `ClaimAsk`, `ClaimPause`, `Begin` and `Release` are the routes
that resume a run; `RequestStop` and `EndParked` the two halves of the cancel route.
`AppendEvents` and `Transition` are the two functions that write a state, with the notice
they owe; parking, claiming, releasing and the reaper have statements of their own.

What is abstracted. Approvals, questions and device steps are one kind of checkpoint,
`ask`: their statements differ in what they store. Of the events without a state only those
are kept that take a number where it matters: two in each model call (the second completes
the first), the device notices, the error in front of an explained ending. Numbers start at
1 where the code starts at 0. The reaper's sweep is one run's share of it. Its three
steps, and those of a silent stream, interleave with everything else. A tool call is part of
the answer that asked for it: of its outcome only that it may make a finished run `partial`
is kept.

### What the runs show

| Run | Instance | Shows |
| --- | --- | --- |
| `RunsSafety` | 2 steps, 2 invocations, 1 retry, pause and stop, 1 fault | a run that ended stays ended; `completed_at` is set exactly while the run is over; the journal has no gaps; under `FairSpec`, no run stays in the hands of an executor for ever |
| `RunsQuiet` | 2 steps, 3 invocations, pause, stop and shelf, no fault | an answer is used by one invocation; a parked run has a checkpoint that can be claimed, or is paused with a stop recorded (`ParkedCanBeResumed`); when all invocations have ended no lease and no run is left behind (`NothingLeftBehind`); no event is dropped |
| `RunsDevice` | 1 step, 2 invocations, a device, streams, the shelf, 1 fault | one ending is announced |

Bounds. Two steps give a boundary between two model calls and one before the first, so that a
pause, a hand-over and the step limit all occur; two invocations a straggler beside the
invocation that resumed the run, a third one a resumed run that parks and is resumed again. One
fault at any point is enough for a redelivery, a refused cancellation or a lost explanation.
`UserMoves` leaves out what a run is not about. The properties of `RunsQuiet` do not hold with
faults, which is the point of the reaper: they say that nothing but a fault needs it.
`ParkedCanBeResumed` has one exception, and the run reaches it: a stop recorded after the last
look of an executor that then pauses. The claim of that checkpoint is refused, and the
checkpoint is there for a second stop to end (section 10, entry 6). All runs let the system stop
(`CHECK_DEADLOCK FALSE`): a run that is over or waits for a person may stay so.

Fairness (`FairSpec`), used by `RunsSafety`: an executor whose process
lives goes on, a route that claimed starts the workflow or gives the lease back, the second
half of a request follows the first, time passes, and the sweep, which comes four times an
hour, finds an idle run although requests may touch its row now and then (strong fairness of
`Reap`). Nothing is assumed of the person, of a redelivery or of faults.

### What is proved

`AgentRunsProofs` proves, for every number of steps, invocations, retries and faults, with
and without a device, streams and each of the user's moves: `TypeCorrect`,
`CompletedCorrect`, `EndedCorrect`, `AnnouncedCorrect`, `DecisionCorrect` and
`JournalCorrect`; and for every number of steps, invocations and retries of a run that no fault
disturbs (`Undisturbed`), with each of the user's moves: `ParkedCorrect`, `NothingLeftCorrect`
and `DroppedCorrect`.

The argument: the inductive invariant `IInv` has five parts, and a lemma per part shows,
action by action, that a step keeps it. `RowInv` is about the row and the notices: a notice
has been given only to a run that has ended, so that the write that gives one must be the
first to end it. `AppendKeeps` and `TransitionKeeps` are the two writers of a state, proved
once for any event and any state; every action that writes the row is one of them, a park, a
claim or its release, the reaper, or leaves the state alone. `InvsAble` says what an
invocation owes its next statement: something to announce, an answer to use, a reason to
park. `LeaseTaken` is what `DecisionUsedOnce` lacks to be inductive: a checkpoint whose lease
an invocation may still hold is not on offer. It holds through a release because the releasing
invocation ends with it, and, by `DecisionUsedOnce` itself, no other one of the same
checkpoint is left.

`JournalHasNoGaps` is not inductive: an invocation that died and comes back, a checkpoint
answered a day later and an ender that explains what it saw all write under numbers they took
earlier. `Numbered` says of each of them that its number, and the one its step would start over
from, is at most one above the last. `NumbersFill` proves of any one or two events with such
numbers that the journal stays without gaps and that the row's last number is the journal's,
also when all of them, or the first only, are taken and dropped. This holds with every fault and
with a device.

What makes a run go on is harder, because it is true of no part of the state by itself: the row,
the checkpoints and the invocations have to agree. `Mode` says that the run is in one of three
conditions. One invocation drives it, and nobody else writes: its cursor is the number after the
last, no checkpoint is open, only the checkpoint it came from is leased, and to it (`Driven`);
or nobody drives it, and there is one checkpoint, numbered where the journal goes on and of the
kind that is claimed in that state, for the person who holds it (`Parked`); or it has ended with
nothing open or leased (`Over`). `QuietInv` adds that no invocation has been thrown back or
given up (`Steady`), that leases are their invocations' own (`LeaseHeld`), and that nobody else
ends the run or shelves one that has not ended (`Calm`). `QuietNext` shows which steps are left
then, and a lemma for each shows where it leads: a park from `Driven` to `Parked`, a claim back,
a release back again, a settlement or a stop to `Over`. An invocation that parked the run closes
after it, while another one may be driving already; it changes nothing, because the lease it
would settle was settled by its park.

`Undisturbed` (no faults, no device) is what the three properties need and not a convenience: a
step that is executed again, or a device notice, takes numbers that the cursor of an invocation
does not know of (section 10, entries 8, 9 and 12), and an invocation that dies leaves its lease
to the reaper. `RunsQuiet` is an instance of it.

Assumptions: those of the constants in `AgentRuns`.

### Only model-checked, and not modelled

Only model-checked: `NoneRunsForEver`, which is liveness.

Starting a workflow and attaching it to the row are one step here. Not modelled: the inline
transport, which runs the same loop inside the request; steers; the expiry of a checkpoint
(it refuses an answer and changes nothing); research runs; billing, the conversation and the
memory that settlement also writes; the rule that a conversation has one active run.

## 5. The usage ledger

### Module

`UsageLedger` is the managed-usage ledger of one user. Every SQL function that
`managed-usage-request-service.ts` and the cron `reconcile-credits` call is one transaction and
one action: `Reserve` and `ReserveAgain`, `MarkStarted`, `Extend` and `RefuseStep`, `Finalize`
(a settlement or a release), `SettleLate`, `RecoverUnpaid` and `RecoverPaid`, `RetryJob`,
`Deduct`. `LeaseLapses` and `NewPeriod` are the clock.

| Variable | In the code |
| --- | --- |
| `request[r]` | the row of `managed_usage_requests`: status, estimate, actual cost, lease token, whether the lease has run out, whether it is overage |
| `ext[r][o]` | the row of `managed_usage_request_extensions` of a provider step |
| `job[r][k]` | the row of `credit_settlement_jobs` under the key of the reservation, the final posting, the late one or a step |
| `posted[r][p]` | what the ledger rows of the request add up to on the account of period `p`, as plan usage and as overage |
| `used[p]`, `fees[p]` | `credits_used` of that account, and the ordinary deductions in it |
| `period` | the current billing period; a new one brings a new account |
| `acquired[r]` | the attempts whose caller was told to call the provider |
| `faults` | postings that failed so far (a bound) |

Whether a plan window has room and whether purchased headroom covers a step are inputs. Money
is a small integer. Which window a posting counts in follows from its class.

### What the run shows

`LedgerSafety`: one request that two attempts of a client reserve, two further steps, two
billing periods, two failing postings with up to three attempts each. The accounts stay within
their allocation and are what their rows add up to; one attempt is told to run the request;
the rows of a request add up to what its state says it holds; the first outcome wins; under
`LedgerFairSpec` every reservation and every posting comes to an end.

Bounds. Two attempts are what it takes for a lease to be taken over, two steps for one that is
posted late beside one that is not, two periods for a release that meets another account, two
failures for a reservation and a final posting that both stay pending. The estimate is 2 and
the actual cost 1 or 3, so that a settlement gives back or takes more. One request suffices:
requests meet only in `used`, which the ordinary deductions also move.

Fairness: leases run out (renewal stops a day after the request was made), the cron recovers
and retries, and some of its retries have no error. The callers owe nothing.

### What is proved

`UsageLedgerProofs` proves, for every finite set of requests and of steps, every number of
periods, attempts and faults, and every price, estimate and allowance: `LedgerTypeCorrect`,
`BooksCorrect`, `ExplainedCorrect`, `ExecutorCorrect` and `FirstOutcomeCorrect`.

The invariant is about each request by itself: its ledger rows are what its succeeded jobs
posted (`Totals`), every step was posted at its estimate (`Steps`), which jobs it can have by
its status and what they add up to (`Stage`), what is never given back (`Classed`) and which
attempt was told to run it (`Executor`). `EveryRowExplained` follows from it: it is not
inductive, because while a posting is pending it says nothing of the rows. What is hard is the
sum over the steps, of which the row knows only those it was told of: `Known` and `Unaccounted`
split it, and a step moves from one to nothing, never from one to the other. An action that
moves one request leaves the sums of the others (`OthersKept`), so `BooksBalance` moves by what
was posted (`PostsShape`).

A sum over a set is a recursive function of the set, and the theorems of the library about such
functions take operators, which the installed provers cannot instantiate. `FunctionSums`
therefore proves its facts by an induction over the subsets of one given set, with the property
as the set of the subsets that have it (`ByProperSubsets`); the fact the ledger needs is
`SumOfChange`: a sum changes by what one summand changes by.

Assumptions: those of the constants in `UsageLedger`. Only model-checked:
`NothingLeftHalfWay`, which is liveness. Not modelled: top-up lots and the order in which they
are spent, refunds of purchases, organization pools, the price of a turn.

## 6. Schedules

### Module

`Schedules` is one task of `schedule-service.ts` with its runs.

| Variable | In the code |
| --- | --- |
| `policy` | what the owner defined: kind, limit of executions, retries, credit cap, whether it ends or expires |
| `task` | the row of `scheduled_tasks`: status, next time (none, later, due), executions, retry state, reason of a pause |
| `run[i]` | a row of `scheduled_task_runs` with its source, occurrence, attempt, lease and approval |
| `exec[i]` | the process that executes the run, between its statements |
| `found` | the runs a sweep has read as expired and not yet ended |
| `spent` | what the completed requests of the task were charged |
| `lapsed`, `over` | `expires_at` has passed; the rule has no further occurrence |
| `intent`, `returned` | history: what the owner last asked for; the slots given back |

`ClaimDue` is `claimDueScheduleRuns`, `StartOnDemand` a manual run or an event, `Record` is
`finalizeScheduleRun` with the decision about the next time, `Release` is
`releaseExecutionSlot`; `Park`, `Answer` and `ExpireApproval` are `awaitScheduleRunApproval`,
`claimScheduleRunApproval` and `expireScheduleRunApprovals`; `FindExpired` and `SweepFinalize`
are the two halves of the cron's recovery of expired leases; `SwitchOff`, `SwitchOn`, `Rename`,
`Retime` and `Delete` are the owner's edits. The calendar is an input: what a rule says next is
a time, one beyond the expiry, or none. The next regular occurrence is taken for the pending
retry after an approval, as in the code.

### What the run shows

`SchedulesSafety` takes one task of each of four definitions: a recurrence with a limit, a
retry, a cap and an expiry; a rule that ends, with a retry; one time only; events with a
limit, a cap and an expiry. With two runs and one fault: executions are what was claimed less
what was given back; a task switched off stays off; a task with occurrences to come has one or
has a run that will decide on it; a run keeps its outcome; every run ends.

`NeverStranded` has exceptions, each a behaviour of the code: rules that have ended or that
expire, an exhausted limit, a limited task whose slot a stalled process gave back after an
approval was answered while the limit was reached, and a retry that was made before and whose
question was not answered in time (`RetrySpent`, section 10, entry 18). The last takes
three runs and one more claim, which is beyond the instance: the proof met it, and TLC finds
it with `MaxRuns` 4. Parallel runs may overshoot the credit cap,
which is checked before each of them and not while it runs.

Bounds: two runs are a slow process beside a sweep, a retry beside its occurrence, a manual run
beside a scheduled one; `MaxSpent` 1 reaches the cap. Fairness: of the things a run waits for
(its process, the sweep, the lapse of the lease of a process that is gone) one happens. The
cron comes every quarter of an hour unless `lowPowerCronSkip` is switched on, which the
fairness leaves out.

`SchedulesProofs` proves for any set of policies and any bounds `TypeCorrect`, `OffCorrect`,
`CountCorrect`, `OutcomeCorrect` and `StrandedCorrect`. The invariant adds three things.
`Counting`: a slot is given back once, by a process that will claim no other, and the occurrence
a retry is for is one that was claimed, so a first attempt always finds its key free.
`Standing`: a task paused for an approval is not one its owner switched off, and a deleted task
has no runs left, so neither an answer nor a late outcome can bring a task back. `Attempts`: the
key of an occurrence and an attempt belongs to one run, and a retry follows a run that has ended
(`Keyed`); if the retry a task names was already made, that run goes on, waits while the task is
paused, or its question was not answered in time (`Retrying`), so only in the last case does a
claim find the key of a pending retry taken. Only model-checked: `EveryRunEnds`.

Not modelled: conditions, notifications, the audit of missed occurrences, `isActive` in an
edit, changes of limits.

## 7. The signalling relay

### Module

`Relay` is one pairing in the serving process. Every `await` of a handler is a point where all
other handlers may act, so a handler is as many actions as it has awaits: a read is sent and
answered, a write is sent, takes effect at the database and is answered.

| Variable | In the code |
| --- | --- |
| `row` | the row of `signaling_sessions`: the credential of each role, the devices it names, its expiry |
| `session` | the entry of `activeSessions`, with the roles connected to it |
| `lookup` | the entry of `pendingRehydrations` |
| `reg[r]`, `claim` | a registration and a recovery in progress, with what each has read |
| `deletion`, `revoking`, `revoked` | `pendingDeletions`, a revocation in progress, the devices refused |
| `token[r]` | the last credential the client of the role was given |
| `ended`, `late`, `minted`, `troubles`, `loads` | history and bounds |

One budget of troubles covers failed statements, lost answers, dropped sockets, deletions,
revocations, restarts and the expiry. A statement whose answer is lost took effect or never
does. The sweep of expired pairings is one step.

### What is shown

`RelaySafety`: with any two troubles, a connected client holds the credential the row holds
(`SeatMatchesRow`), an ended pairing is not brought back by a lookup, claim or registration
that was under way (`EndedStaysEnded`), and no client of a revoked device is connected
(`RevokedStaysOut`). Two troubles are a deletion and a lost answer, or a revocation and a
restart; two reads into memory are a stale one and one after it; three phone credentials are a
claim, a registration and a recovery.

`RelayProofs` proves all three, and the types, for any bounds. What makes them inductive is
what each handler in progress may still assume. `Numbered`: a lookup is under way only when no
session is in memory, and the one it makes gets a number that no handler holds. `Ending`: while
a deletion is under way nothing can load the row, and after one the row is gone. `Refusal`: the
session of a rotation under way names no refused device, for it would have ended. `Turns`: a
role has one rotation at a time and none while it is connected, and a rotation that took
effect is still what the row holds when it is answered.

Not modelled: forwarded frames, heartbeats, rate limits, approvals that wait for the other
device, pairings without device ids, the day-long expiry and the memory of lapsed revocations,
rehydration overload, a second serving process. There is no liveness: a client comes back when
it likes.

## 8. Memory sync

### Module

`MemorySync` is the sync of one user's memories between phones (`cloudSyncEngine.ts`) and the
server (`api/memory/sync`).

| Variable | In the code |
| --- | --- |
| `rows` | `user_memories` as committed: text, `server_version`, deleted |
| `log[v]` | what was written under version `v`, committed or not, and which cursors passed it before it was |
| `stmt` | the statements under way at the server, with the numbers they have drawn |
| `entry[d]`, `dirty[d]`, `cursor[d]` | a phone's copies, `dirtyMemoryIds`, `memoryCursor` |
| `sync[d]` | where the phone's round of `syncNow` is, and what it sent |
| `born`, `edits`, `troubles` | bounds |

A statement draws its numbers from the sequence when it runs and becomes visible when it
commits; statements on one row wait for one another. A phone that gives up on a request may
leave the statement running (`PushOutlived`). A waiting statement holds no locks. The answer
is handled in one turn of the event loop.

### What the runs show

`MemorySafety` (two phones, two memories, pages of one, three edits, one lost answer): a change
leaves the dirty ids only when it was stored or turned down (`StoredOrTurnedDown`); what lies
below the cursor was delivered unless its number was overtaken (`DeliveredUnlessOvertaken`);
once the user stops, every change is settled (`EverythingSettles`).

`MemoryMissed` is the run that finds the disagreement: the comment above
`computeMemoryPullCursor` promises what `EveryRowIsDelivered` says, and two statements that
commit in the other order than they drew their numbers break it (section 10).

Pages of one put a page boundary between any two changes; three edits are a change, one during
its push and one on the other phone. Fairness: the loop starts a round every 30 seconds while
the application is active, statements and answers take their course; an application that is
killed is a lost answer.

### What is proved

`MemorySyncProofs` proves for any number of phones, any finite set of memories and any size of
a page (`SyncAssumption`, `MemoriesAssumption`) `TypeCorrect`, `DeliveredCorrect` and
`StoredCorrect`. Neither property is inductive. The invariant follows a number from the
statement that draws it to the phone that reads it:

- `Numbered`: no version is made up, and no cursor, nor the one a pull is about to set, is
  beyond what was numbered;
- `Pending`: the number of a row that is written and not committed is its own, and a phone
  that has asked beyond it stands in its log entry as overtaking it;
- `Unborn`, `Resting`: a memory nobody has made is nowhere, and a statement that is not under
  way leaves nothing behind;
- for each phone, `Pushing`, `Answering` and `Reading`: what it sent, what the server answers
  and what it has read agree with its copies, as far as the user has not changed them since;
- `View`: what the phone holds of each memory is the row, or a change of its own that is
  dirty, or the row is still to come or was overtaken.

Only model-checked: `EverythingSettles`, a liveness property.

### Not modelled

Superseding, expiry and restore of memories, resets, project
memories, import, a change of account, and the sync of chats, projects and settings (chats use
the same sequence and the same compare-and-set).

## 9. Auto reload

### Module

`AutoReload` is one account of `auto-reload-service.ts`, with Stripe, the webhook and the
sweep around it.

| Variable | In the code |
| --- | --- |
| `row` | the row of `auto_reload_settings`: `enabled`, `last_failure_at` set or not, `reload_attempt_id` as a number, its lease, `threshold_credits` |
| `issued` | how many attempt ids `acquireLease` has drawn |
| `pay[a]` | the PaymentIntent of the attempt at Stripe |
| `granted[a]` | the purchases booked for it in `credit_transactions` |
| `balance` | the level of the purchased and bonus credits; a threshold is the border below a level |
| `run[p]` | where `runAutoReload` of a process is, and what it has read: the payment, the threshold of the row it confirmed |
| `due` | auxiliary: the attempt that went on to its charge when the balance it read was low, until a reload is booked |
| `hook[a]` | the webhook's transaction for the success of the attempt |
| `faults` | crashes, failing statements and unheard answers so far (a bound) |

`Plan`, `Acquire`, `Confirm`, `Recheck`, `Release`, `Unpayable`, `Charge` are `runAutoReload`
and `chargeReload`; `Extend`, `Fail`, `Cancel`, `SettleRead`, `SettleCommit` are
`resolvePayment`; `Look` and `Recover` are `recoverReload`. `ChargeUnheard` is the charge whose
answer is lost: Stripe charged, or did nothing and never will. A throw before the charge gives
the lease back, one after it leaves the lease to the sweep (`Throws`). The owner may save other
settings at any time (`SwitchOff`, `SwitchOn`: each also writes the threshold, whatever the row
was), and the balance falls (`Spend`) and rises by packs bought by hand (`TopUp`) at any time.
The two readings of `planReload` differ: under the lease the row is read first and the balance
later (`Confirm`, `Recheck`); before it they are one step, which decides nothing but whether the
lease is asked for. `due` guards nothing; `ChargedOnlyWhenDue` alone reads it.

Assumed: a payment made without the customer present is processing, succeeded, refused or
cancelled, and a refused one does not succeed later; the process that charges does not outlive
its lease of 600 s (its Stripe calls time out after two tries of 8 s, and most routes end after
300 s; some that end a turn may run for 800 s), while every other process may be arbitrarily
late; Stripe lists the payment of an attempt (the limit of 20 and a changed customer are left
out); the account has an open period to book in. Nothing is assumed of the webhook. Holds,
the daily limit, the plan and the policy of the workspace are inputs.

### What is shown

`ReloadSafety`: two processes, two attempts, two faults. Money that is on its way, or has come
and was not booked, is that of the attempt the row names (`PaidIsNamed`), so that there is no
second payment beside it and the sweep can find it; a payment is booked once (`GrantedOnce`); a
lapsed lease is renewed only for an attempt that has a payment, so that a late reconciliation of
one attempt does not keep the sweep from the next (`OnlyPaymentsRenew`); the card is charged
only if the balance was low as the attempt read it under its lease, if no reload was booked
since, and never over a failure the owner has not answered (`ChargedOnlyWhenDue`); every attempt
ends with its purchase booked, without any webhook and also after auto reload was switched off
(`EveryReloadEnds`).

What `ChargedOnlyWhenDue` does not say: that the balance is still low when the card is charged.
A pack bought by hand, or a lower threshold saved, after `planReload` has read the balance is not
noticed by the attempt that holds the lease, which charges; both steps are in the model and reach
such charges.

Two processes are a run and the sweep, or two turns that end together; two attempts are one
that a straggler still works for and the one that follows it; two faults are a lost answer and
a crash of the process that looks for it; two thresholds over three levels of the balance are a
balance that is low for one of them only. Fairness: the sweep comes every ten minutes
(`lowPowerCronSkip` left out), a process acts or is ended, a lease runs out, a payment that is
processing is decided.

`AutoReloadProofs` proves the type, `PaidIsNamed`, `GrantedOnce`, `OnlyPaymentsRenew` and
`ChargedOnlyWhenDue` for any number of processes, attempts, levels and faults. The invariant
adds three things. `Alone`: a process between its lease and its charge has the row, the live
lease and the attempt to itself, and nothing is paid for that attempt. `Known`: what a process
or the webhook has read of a payment is still true of it (success and refusal are final, and
nothing is paid where the reader found no payment). `Booking`: the webhook acts only on a
success. Then no reload can be booked between `Recheck` and the charge, because only a payment
of another attempt could be, and by `PaidIsNamed` there is none; and a process that calls a
payment processing has seen one, and `Extended` renews for its attempt alone. The one step an
instance makes hard to see is `Released`: only its filter on the attempt keeps a late run from
freeing the lease of the next.

Only model-checked: `EveryReloadEnds`. Not modelled: amounts, e-mail and notifications, audit,
the purchase and the checkout of a manual top-up (its effect on the balance is `TopUp`),
subscriptions, refunds and disputes (a refund lowers the balance as `Spend` does).

## 10. Where the code and its comments disagree

One of these has a run, `MemoryMissed`. The others were found in the same way, by a property
that is in the module and that TLC refutes on a small instance (entry 18 by a proof that did
not go through); they are named here and not repeated by a run.

The job queue:

1. `AbandonedCancellationIsFinished`: `drainBackgroundJobs` evaluates `reapExpiredJobLeases`
   before `reapAbandonedCancellations`, so a job whose cancellation was asked for and whose
   worker died goes back to the queue (or to the dead letters on its last attempt). The
   migration and `cancellation.ts` say the reaper finishes it as cancelled. It is still
   cancelled later if another worker claims it and polls.
2. `FenceNamesOneAttempt`: the operator's retry sets `attempts` back to 0 and a process keeps
   one worker id for life, so an execution from before the retry can pass the fence of the
   attempt that replaced it. It takes a settling statement that outlives its lease, or a
   handler on its last attempt, and a claim by the same process.
3. `NotCancellableMeansSettled`: a job that is running when the first statement of
   `requestJobCancellation` looks and queued again when the second one does is neither
   cancelled nor asked, and the caller is told it is not cancellable.
4. `ConflictHasAnOwner`: the insert and the lookup of `enqueueJob` are two statements; if the
   row is pruned between them the caller gets the error of a foreign owner and no job.

Agent runs:

5. `EndingIsAnnounced`: a run that reaches its step limit announces `partial`, and the code
   that decides on the notice compares it with the state as older clients read it, `failed`.
   They differ, so the user is not told, although the table of notices has an entry for it.
   With a fault the same happens for a reaped run: the reaper writes `failed` itself and owes
   no notice by its own statement, and the explanation it journals afterwards finds a run that
   is already over.
6. `StopIsHonoured`: a stop asked for while the run is executed is left to the executor. If it
   parks after its last look, the run waits for a person with the stop recorded. A second stop
   ends it; nothing else does.
7. `DeviceIsWaitedFor`: a run may wait an hour for its device, and the sweep takes an idle run
   after some 18 minutes. The stream that watches it may end it even sooner.
8. `StopEndsParked`: a stop of a parked run is journaled at the number the checkpoint
   recorded. A step delivered again after its checkpoint was saved may have taken that
   number; the event is then dropped as a replay, the checkpoint is failed and the run stays
   parked. A second stop ends it, by the transition for runs without a checkpoint.
9. `PausedMeansIdle`: a step that saved the pause and died is delivered again; the request is
   gone with the pause, so it calls the model again under a row that says `paused`.
10. `RestoredAsItWas`: `partial` found at settlement is written to the row and not journaled,
    and a restored run gets its state from the journal.
11. `ShelfHolds`: the event that announces the end of a run makes it archivable a moment
    before the settlement writes the state again, which takes it off the shelf.
12. `OnlyReplaysAreDropped` with a device: the notices about a device are numbered from the
    row, the events of the invocation that follows from its input. The first events of the
    invocation are dropped. If one of them is the last that ends the run, the settlement
    still writes it.

The ledger:

13. `FailedTurnsCostNothing`: a step whose posting is pending is not part of the estimate; if
    the turn fails before the cron posts it, the release does not give it back (0347, line
    508). `managed-usage-lifecycle.invariants.test.ts:1338` says a failed turn is charged
    nothing.
14. `ReleasedWhereTaken`: a release is posted on the account of the current period and checked
    against what that account has used, so it may be covered by the usage of other requests.
15. `OneClassForLife`: a step that no longer fits the plan window makes the whole request
    overage after its reservation was posted as plan usage, so it has rows of both classes,
    although 0281 speaks of one class for its whole life.

Schedules:

16. `AnswerResumes`: the next time is computed while an approval is answered. For a timing that
    has no next time (a one-time task, a rule that has ended) the answer fails
    (`schedule-service.ts:1863`, `schedule-time.ts:203`), although 0308 says that the run
    resumes once its owner answers; it stays open until the approval expires.
17. `ExecutedIsCounted`: a run that worked until it asked its owner and meets the credit cap
    when it resumes gives its slot back, as one that "never ran"
    (`schedule-service.ts:2085`).
18. `RetrySpent`, the exception of `NeverStranded`: the retry of a run asks its owner and the
    approval expires, which leaves `retry_attempt` and `retry_scheduled_for` on the task. When
    the answer to another run, one started by hand, makes the task active again
    (`schedule-service.ts:1939`), its next time is computed for that retry. The claim
    (`schedule-service.ts:1299`) computes the key of the run that was cancelled, inserts
    nothing and clears `next_execution_at`: the task is active and never due again.

The relay:

19. `NoCredentialAfterTheEnd`: a recovery that begins while the pairing is being deleted is not
    among those the deletion invalidates; it stores its rotation first and is answered with a
    credential of a pairing that is gone (`index.ts:816`; `credential-rotation.test.ts:217`
    covers the other order).
20. `MemoryFollowsRow`: a lookup that reads before a rotation and is answered after it is
    believed, so the process accepts what the store no longer does (`index.ts:1727`).
    `ClientsCanReturn`, that a client never loses its credential to a lost answer, is refuted
    too, as the relay's own README says.

Memory sync:

21. `EveryRowIsDelivered` (run `MemoryMissed`): numbers become visible in the order of the
    commits. A pull between two commits moves the cursor past the lower number, and the row is
    not delivered until it changes again.
22. `OwnEditSurvives`: the answer of a push is lost and the user changes the memory again; the
    next push meets the version its predecessor wrote and takes the older text for the winner
    (`cloudSyncEngine.ts:686`).

## 11. Not modelled yet

`PROJECT.json` says for each component of section 1 what is left out and why. Three hazards of
parts that are not modelled were seen on the way. A crash between `recordDelivery` and
`claimEventRun` of an event trigger leaves the delivery `received`, and its redelivery is
answered as a duplicate. A job of a trigger that the lease reaper buries leaves its delivery
`enqueued`. The lease of 45 seconds of a trigger's claim is as long as the timeout of the work
it covers.

Most of the repository is user interface, adapters, content and calls to model providers,
whose state is one request's or one window's; nothing in them is decided by an order of events
that these modules would show.

# Myink: a verification project

Myink writes novels with language models. A FastAPI process takes requests, RabbitMQ
carries tasks to worker processes, a worker runs a LangGraph workflow whose nodes call
model providers, PostgreSQL keeps stories, tasks and books of account, Redis keeps
counters, leases and event streams. This directory models the part of it where several
processes and several stores must agree: how a task is admitted and paid for, how it
travels, who may run it, and what it may spend.

Source paths below are relative to `src/src/myink/`. `PROJECT.json` names, for every
definition, the lines it models, and lists hazards, mutants and findings.

## 1. Inventory

Three stores take part and share no transaction; two kinds of processes (API, worker)
use all three; a worker has threads beside its main one (heartbeats, HTTP).

| component | state | operations | hard behaviour | what makes it correct |
|---|---|---|---|---|
| Worker leases `worker/lock.py` | one Redis key per task and per book, with token, worker, heartbeat, TTL; the handle in the worker | acquire, renew (thread), release, reclaim of a stale lease | commands applied late or without an answer, two reclaimers, crash, no fencing token | a holder that beats in time keeps its lease; only free leases are granted; a dead one goes |
| Task intake `worker/enqueue.py`, `gates.lua`, `compensate.lua` | intent and receipts in PostgreSQL, quota counters, marker and set of open tasks in Redis | register, lane, gates, owner key, publish, refund | every command may time out and still happen; the process may die between any two | charged once, delivered or refunded, never both; a book takes one task at a time |
| Handoff and replay `worker/handoff.py`, `worker/amqp.py` | outbox rows, advisory locks | record, publish, replay admissions and handoffs, settle | publications of unknown outcome, two publishers, replay beside the request | nothing lost; a message never runs ahead of its record |
| Consumer `worker/consumer.py`, `scheduling.py` | the unacknowledged delivery | receive, decide (ack, retry, defer, yield, dead-letter, requeue) | redelivery while the first worker still works | an open task has a message or a worker |
| Processor `worker/processor.py` | task row, both leases, the book's gate | process, run, finish, release | two idempotence checks with other actors between them | an ended task is never run again; the gate is opened again |
| Task budget `task_budget.py` | budget row, attempts, saved calls, extensions | claim, renew, guard, load, reserve, settle, save, release, report, extend and resume | crash between answer and settlement, stop during a call, resume beside a dying run | exact ledger, limits, one spender, nothing bought twice |
| Execution fence, maintenance pause `maintenance_pause.py`, `maintenance.py` | one execution row per task with owner and generation, control row | bind, unbind, fence, request and confirm a pause, expire, resume an epoch | a dead owner is never certified by time alone | no effect of a run that lost the fence |
| Task control `api/routes_tasks.py`, `workflow/runner.py` | `tasks.status` | pause, resume, cancel, confirm plan, write back | read and write in one transaction without a row lock | cancelled stays cancelled |
| Chapter workflow `workflow/chapter_graph.py`, `nodes.py`, `runner.py`, `review.py` | checkpoint of a thread, chapter row with versions, summary, candidates, effect receipts | plan, gate, write, audit, patch, revise, replan, persist, summarise, review | resumption from a checkpoint after any node, an effect committed before its checkpoint, the author beside the run | confirmed only knowingly, versions and summary fit the text, bounded loops |
| Batch workflow `workflow/batch_graph.py`, `worker/scheduling.py` | checkpoint of the batch and of each chapter, rows | blueprint, chapter, review, replan, bridge, yield | slices, review and replan of a resumed batch | in order, nothing written twice, texts of the blueprint in force |
| Short stories `workflow/short_runner.py`, `short/` | saved progress per stage | the stages of one story | resumption | each stage paid once |
| Guest quota `guest_quota.py` | receipts and counters per guest and address | reserve, release, charge of attempts and resumes | release after an intake of unknown outcome | a unit goes back only for what can never run |
| Providers `providers/` | none | generate, stream, probe | retries, missed deadlines, missing usage | every attempt is reserved before and settled at most once |
| Story memory `memory/`, `snapshot.py` | facts with provenance, embeddings | recall, write, correct, invalidate | corrections beside generation | derived facts go with their source |
| Validation `validation/` | none | checks of a text | none | verdicts |
| Live events `worker/observer.py`, `api/routes_sse.py` | a Redis stream per task | append, follow | duplicates | none for the task |
| Accounts, books, platform, resources `api/`, `writing_resources.py`, ... | single rows | CRUD | compare on write | row versions |
| Persistence `db.py`, `config.py`, `cli.py` | schema, pools | start-up | none | isolation of tenants |
| `web/`, `ops/`, `evals/`, `integrations/`, `docker/` | | | | outside the core |

How they meet: the API writes an intent and a task, charges Redis, publishes. A worker
consumes, takes the lease of the book, then of the task, looks at the row, binds the fence,
claims the budget, runs the graph, writes the status, releases in reverse, and then either
acknowledges, or records the next message in the outbox, acknowledges, and publishes it.
Every worker replays, between messages, what intakes and outbox rows left unfinished.

## 2. Modules

| module | models | abstract / composes |
|---|---|---|
| `TaskLock` | `worker/lock.py`, one Redis command per step | implements `LeaseLock` |
| `LeaseLock` | what a lease promises | |
| `Admission` | `enqueue.py`, the two Lua scripts, the replay of admissions and `publish_handoff` | implements `IntakeLedger`; API, replay, Redis, broker |
| `IntakeLedger` | what intake promises of a daily quota | |
| `Delivery` | `consumer.py`, `processor.py`, outbox and `replay_handoffs` | leases as seen from outside |
| `TaskBudget` | `task_budget.py` with the fence of `maintenance_pause.py`, control and resume of the task | |
| `ChapterGraph` | `workflow/chapter_graph.py` and the nodes: what each node may leave behind, and the edges | no variables; used by the next two |
| `ChapterTask` | one chapter's task: `processor.py` dispatch, `runner.py`, checkpoints, the plan's gate, persist, review, the author | runs `ChapterGraph` |
| `ChapterWalk` | the length of one run of the graph against `recursion_limit` | runs `ChapterGraph` |
| `BatchTask` | `workflow/batch_graph.py` with `worker/scheduling.py`: blueprint, chapters, replans, reviews, slices | a chapter in three nodes |
| `MC*` | instances for TLC | |
| `TaskLockProofs`, `AdmissionProofs`, `DeliveryProofs`, `TaskBudgetProofs`, `ChapterTaskProofs`, `ChapterWalkProofs`, `BatchTaskProofs` | theorems about the module of that name | |
| `SumTheorems` | what a sum over a finite set is, for the ledgers | |

**TaskLock.** `redis` is the value under the key, `mine` a handle's `_value`, `seen` what a
GET returned, `wire` the renewals under way. An action is one command or one answer:
`SetGranted`, `SetRefused` and `SetAnswerLost` are the three ends of `SET NX`, `Reclaim` is
the compare-and-delete of a stale value, `SendRenew`/`CasRenew`/`RenewAnswered` are the heartbeat
thread, `ReleaseGet`/`ReleaseDel` the release with its fallback by worker name. Time is the age of
a heartbeat: `Tick` makes every copy of every value older, so the clock is unbounded and the
state space finite. `AgeCap` and `MaxFlight` bound ages and delays.

**Admission.** A step of the request handler or of the replay is one transaction or one
command. `wire` holds commands sent and not applied; `ApplyGates`, `ApplyCompensate` and `ApplyPublish` are the
scripts and the broker; a sender can stop waiting first (`GatesTimeout`, `PublishTimeout`,
`CompensateTimeout`), die (`ApiCrash`, `RCrash`), and a command may be lost (`CommandLost`). One such
event costs one of `MaxFaults`; a sender whose command was lost times out for free. The user's
and the book's daily quota move together in both scripts and are one counter; the keys' roll-over
at midnight is left out. A task leaves the book's set by `ReleaseInflight`, which is `_release_inflight` wherever `_finish` reaches it:
with the end of the task, but also one retry before the last, on a skip and when a run stops for its budget or a review; and by
`InflightExpires`, the hour after which the set lapses. `freed` is history: the intents that lost their place before their end. `Finish` is the end of the task alone.

**Delivery.** The tasks are of one book. A message is its task and the path of its hops (retry, defer, yield): a hop
makes a new body with a new operation id, so two copies of the same hop are the same operation, as
in the outbox. A worker's step is one command to a lease, one look at the row, one transaction, one
acknowledgement or one publication. A verdict is what `process` returns or raises. Three of them let a message go while its task may
be open (`Lets`): "busy", the skip of a message whose task lease somebody holds; "left", the "waiting" of a run that was superseded or was
stopped for maintenance without its proof, with the row still running; "error", an exception nobody expects, which `consumer.py:123-127` acknowledges. `acked` is
history: which of them ended a message of a task. `TurnedAway` are the exits before any lock, `LockFails`, `CheckFails` and `FinishFails` a store that
fails under `acquire`, under the checks and under `_finish`, `Requeue` a message that is put back. `Disconnect` gives the message back to the broker while the thread that
had it goes on; `Crash` also orphans its leases; `Lapse` frees an orphan, the book's and the task's in any order. A message that finds the book busy is
deferred, however often.

**TaskBudget.** A run is one processing of a message: bind, claim, then for each call guard, load,
reserve, http, settle, save; then end, status, release, unbind, report. A settled answer may be blank or malformed: it is charged all the same and
another attempt, or none, follows without a save (`Unanswered`). Every step is one
transaction. `CancelRead`/`PauseRead` and `ControlWrite` are the user's requests, which take no lock;
`Extend`, `RetryResume`, `Publish`, `PublishNack` and `PublishUncertain` are `extend_and_resume_budget`. `beats` holds the
runs whose heartbeat thread lives; that thread has no ContextVar scope, so `Renew` is not fenced. `Alone`
is the task lease: only the fault `lock` lets two runs be there together. The runner's and the processor's write-back of
the final status are merged into one; streams, tools and short-story progress are the same kind of call.

**ChapterGraph.** The state a thread carries is a record (`ChapterState`). A node is an operator from a state to the
set of states it may leave: a model's answer is a choice, and so is its failure, which sets `error`. Texts and plans
are numbers. A report is whether it has a hard finding and where its blocking findings lie; a verdict is its kind, the
target of a replan and where its findings lie: that is all `route_after_audit` and `resolve_revise_mode` look at. `Successor` is
the edges of `build_chapter_graph`.

**ChapterTask.** `thread` is the checkpoint: values, next node, a pending interrupt. `Take` is `process` with
`_dispatch`: it drops outdated messages (`Outdated`), then starts the graph, goes on from the checkpoint (`Continue`,
which is `resume_thread`), answers the gate (`DispatchPlan`) or finishes a review (`DispatchResume`). `Compute(n)` is a node with its
checkpoint; `Gate`, `Persist`/`PersistCheckpoint` and `Summarize`/`Summarized` act on the world and are cut where an effect is
committed before its checkpoint, or where a row is read before a model is asked. `ResolveRevise`, `ResolveWait`, `ResolveAccept`, `Mark` and
`Close` are `review.py` and `finalize_chapter_review`; `EndRevision`, `EndGraph` and `Settle` the end of `_run_bound`. `Stop` is a fence
that raises `TaskBudgetPaused`; `Fault` an exception of `_RETRYABLE`, after which the same message comes again. `seen` is history:
texts the audit passed, texts shown for review, accepted or refused by the author, plans he approved. A text that nobody holds any
more gives its number to a new one, which keeps the state space finite.

**ChapterWalk.** The same nodes without task or author: `steps` counts the nodes of one run, an interrupt, a restart or
a revision for a review begins another.

**BatchTask.** `batch` is the checkpoint of the batch, `thread[c]` that of chapter c, in three nodes: `Write` (up to the
route: a text, an error, or the wish for another blueprint), `Persist`, `Summarize`. `Chapter` is the first half of `node_run_chapter`, which decides
whether to resolve a review, to go on with the chapter's thread or to begin a new one; `Return`, `ResolveRevise`, `ResolveWait`, `ResolveAccept` and
`Accept` are its second half. `EndSlice`/`Yield` are the end of a slice with the transaction of `processor.py:532`; `EnterEnd`/`BatchEnd` the look
and the write of `node_batch_end`.

**Why the death of a worker is no step of ChapterTask and BatchTask.** A worker that dies leaves its owner token on the task's
`MaintenanceExecution`; `bind_execution` (`maintenance_pause.py:79`) then refuses every later run ("maintenance execution still
owned"), which `tests/test_multiprocess.py` asserts. No step of a graph ever follows a hard crash until an operator intervenes, so there is nothing to
resume. What does cut a run short and is followed by more work is modelled: fences, errors of a node, retried exceptions. Crashes
themselves are in `TaskLock`, `Admission`, `Delivery` and `TaskBudget`.

## 3. Runs

All runs are in `PROJECT.json`. `MaxFaults` and `MaxUpsets` bound what may go wrong in one behaviour.

| run | instance | checks |
|---|---|---|
| `lock` | 2 workers, 2 tokens, Heartbeat 1, Ttl 4, delays up to 1, fairness | `TypeOK`, `TimelyHolderOwns`, `ReleaseDeletesOwnGrant`, implementation of `LeaseLock`, `OrphanIsFreed` |
| `intake` | 2 intents of 1 and 2 chapters on one book, one a guest's, quota 3 of which 0 or 1 is used, budget gate, 2 faults, fairness | `LedgerExact`, `MessagesStayAuthorised`, `OneTaskPerBook`, `GuestRefundOnlyNegative`, implementation of `IntakeLedger`, `ChargedIsResolved`, `GuestIsResolved` |
| `delivery` | 2 workers, 1 retry, 1 recorded retry or slice, any number of deferrals, fairness; 2 tasks of one book without a fault, or 1 task with 1 fault | `NotForgotten`, `DeliveredHasLineage`, `EndedStaysEnded`, `EveryTaskEnds`, `BookIsReopened` |
| `budget` | 2 runs, 2 calls, 2 requests, money for one reservation beside one bill, time 2, Lease 1, clock to 3, 2 faults of lock, heartbeat, crash, 1 stop, 1 resume | `LedgerExact`, `WithinLimits`, `OneSpender`, `RuntimeIsLeasedTime`, `SavedIsNotPaidAgain` |
| `budget_carried` | 3 runs, 1 call, clock to 2, 1 fault of a save, publication, heartbeat, 1 stop, 1 resume, fairness | `ExtendedOnce`, `Carried`, `PaidIsKept`, `ComesToRest` |
| `chapter` | five kinds of task (first text, by hand, rewrite, rewrite by hand, rewrite with a new plan), 1 card, one revision, patch and replan, 1 upset, 2 resumes, fairness | `ConfirmedKnowingly`, `RefusedStaysOut`, `WrittenAsApproved`, `PlanIsNewest`, `DoneMeansWritten`, `VersionIsNewText`, `SummaryFits`, `ComesToRest` |
| `chapter_walk` | the limits of `config.py` (2, 2, 1), recursion limit 64 | `NeverCutOff` |
| `batch` | 3 chapters, a second blueprint, 2 upsets, 3 resumes, fairness | `InOrder`, `ReviewIsShown`, `CompletedNotRewritten`, `FromThisBlueprint`, `ComesToRest` |
| `delivery_crash`, `chapter_plan`, `chapter_done`, `batch_replan` | small | findings: what a comment or a document says and the code does not do |

Why the bounds are enough. Contention needs two: two workers at a lease, two intakes at a book and at a quota that
may hold one of them only, two runs at a fence. A third run is what a resume brings after one that
died and one that paused. Two tokens are a grant and the one it replaces; the proofs of section 5 do
without the bound. Two faults are a lost command and the crash of its sender, or a crash and the failure of what cleans up after it.
Tight limits make each of requests, money and time run out. `Ttl > Stale` and
`MaxFlight > 0` let a renewal arrive after its lease was reclaimed or expired. Three ticks with a lease of one
are a lease, its lapse, downtime and another one. `MaxStops`, `MaxResumes` and `MaxClock` only end behaviours; the clock of `budget_carried` goes to 2, so that
a heartbeat that misses lets its lease lapse.

What two tasks of a book do to each other in `delivery` needs no fault: each finds the book busy, is deferred and comes back, while the other retries,
yields or ends. What a fault leaves behind is a second delivery of one message, or a lease without an owner, and is seen with one task. `MCInit` therefore
has the second task over while the fault is still to come. A deferred message comes back to a free book (`Expire`): coming back earlier defers it once more and changes nothing,
but then nothing bounds the number of times; the code waits five seconds and does not count. `EveryTaskEnds` and `BookIsReopened` excuse a task
of which a message was let go, and a book whose lease stays with an idle worker (section 6).

One revision, one patch and one replan take every edge of the chapter's graph and exhaust each of the three limits; what more of them
add is the length of a run, the question of `chapter_walk`. One upset with two resumes is an interruption, a resume, and an acceptance after it; a second card would
be judged like the first. Three chapters are a first, a middle and a last one: positions in front of and behind the chapter
that stops. Two upsets are a pause and a failure in one batch, three resumes one after each and one that accepts.

Symmetry of runs is used by `budget`, which checks no liveness. Deadlock is checked for the lease lock, which never stops; the other
systems stop when every intake, task or run is settled or at rest.

Every property is paired with a mutant: a plausible slip (marked "slip" in the modules) that TLC must refute.

**What `chapter` and `batch` leave out, by name.** `Disturbable` and `Acceptable` exclude interruptions after which
the code does something else than its documents say; each is a member of `Hazards`, and putting it there makes TLC produce
the behaviour:

- `"manual"` (ChapterTask): a manual task is interrupted. `WrittenAsApproved` holds all the same (section 5), `PlanIsNewest` and `DoneMeansWritten` do not: findings `chapter_plan` and `chapter_done`.
- `"late"` (ChapterTask, BatchTask): an interruption after the graph has ended on a text for review and before the task says "awaiting_review".
  The task is then paused or retried; the resume finds the chapter awaiting review and accepts a text that was never shown
  (against `ConfirmedKnowingly`).
- `"replan"` (ChapterTask): a rewrite by hand that asks for a new plan, which `routes_tasks.py:136` allows. When the author refuses the text, its revision
  (`review.py:48`) may plan again; the gate then interrupts inside `revision.invoke`, nobody looks for it, and the task is reported done without
  a confirmed text (against `DoneMeansWritten`).
- `"replan"` (BatchTask): the author accepts a text that asked for one blueprint too many. Finding `batch_replan` needs it.
- `"stuck"` (BatchTask): a fault between the confirmation of a reviewed chapter and the checkpoint of the batch. The resume
  finds the chapter confirmed and its thread still asking for review, and the batch awaits a review of a confirmed chapter, at each resume again
  (against `ReviewIsShown`).

## 4. Fairness

`TaskLock!FairSpec`: the clock ticks and Redis applies or drops what was sent; nothing is asked of a worker, since
a dead one takes no step. `Admission!FairSpec`: the steps of a live request, of the worker that replays (every worker's
loop calls `replay_handoffs` between messages, and a restarted one again), and of the stores. Faults, guesses
of a gate and time-outs without a lost command get none. `Delivery!FairSpec`: each worker's steps (a loop), the
expiry of the delay queue and of orphaned leases (TTL). A branch the code does not owe, such as a retryable error
of a run, is not forced. `TaskBudget!FairSpec`: the steps of runs, of the intake and of a publication under way;
the user owes nothing, and a clock that has reached its bound stands still. The one strong fairness is that of
`RTake` in `Admission`: `replay_handoffs` looks with a rotating cursor, so it comes back to an intent whose lane was busy
each time it passed. `ComesToRest` of `TaskBudget` needs no tick. `ChapterTask` and `BatchTask` ask weak fairness of `Work`, the steps of
workers, as one action: there is one run at a time, and its steps follow one another. The author owes nothing: at rest is
where he is asked. What terminates is the graph itself, by its limits, and the batch, by its positions.

## 5. Proofs

Every safety invariant, every action property and both refinements of section 3 are theorems, for all values of the constants, but one: `PlanIsNewest` is model-checked only.
The type invariant of `TaskBudget` is a theorem and no run checks it. No theorem is about the
module's bounds: `MaxFaults`, `MaxUpsets`, `MaxClock` and the like are any natural numbers. Each proof is one inductive invariant, a lemma per action, and a last
step by temporal logic.

### Worker leases: `TaskLockProofs`

From `LockAssumption` and `NoValueAssumption` alone (any workers, tokens, heartbeat, TTL, delay):

- `TypeCorrect`: `Spec => []TypeOK`. `TypeOK` is not inductive: the counter of rounds stays in `0..2` only because
  a worker in the loop still has a round (`TriesInv`).
- `TimelyHolder`: `Spec => []TimelyHolderOwns`. The inductive invariant is `LockInv`. `HandleInv`: no two handles share a token, and
  a stored value with a handle's token is that worker's and at most as old as the handle's own record. `SeenInv`: a
  reclaimer compares with a value that was stale when it was read, a releaser with a value of its own worker.
  `WireInv`: a renewal keeps token and worker, there is one per token, and what it writes is at most as old as the handle's
  record. `TtlInv`: the time left and the age of the stored value together reach the full TTL, so the key
  cannot expire under a young value. With them a compare-and-delete of a stale value cannot hit a young one, and a
  late renewal cannot make a value younger than its worker knows.
- `HandsOver`: `Spec => ChangesHandsWhenFree`, a lemma on the way to the refinement. `WireInv` is what makes it hold: a late renewal
  can only rewrite the lease it was sent for, so nothing but a `SET NX` puts a new token under the key.
- `ReleaseIsOwn`: `Spec => []ReleaseDeletesOwnGrant`, from `OwnInv`: while a worker has a handle, the key holds no other
  lease of that worker, so the release's fallback to the worker's name deletes the lease it means.
- `Implements`: `Spec => LeaseSpec`, the refinement. `YoungInv` (a renewal writes nothing older than it replaces) makes
  an applied renewal a refresh, `SeenInv` makes a compare-and-delete a reclaim of a stale lease or a release by a
  worker that has stopped, `TtlInv` makes an expiry one of a lease that has gone unrenewed for its time to live.

### Sums: `SumTheorems`

The ledgers say that a counter is a sum over a set. `MapThenSumSet` of the community modules is a recursion over the subsets of a set, each
time by an element that `CHOOSE` picks, and the library's induction over finite sets takes an operator as a parameter, which the provers cannot instantiate. The
theorems get by without it: inclusion of finite sets is well founded, so a set for which the sum is not defined, or depends on which element is taken first, has a
minimal counterexample, and there is none. What comes out is that a sum is natural, that one element more adds its value
(`SumAdd`, `SumRemove`), and that a changed value changes the sum by the difference (`SumChange`).

### Task intake: `AdmissionProofs`

From `AdmissionAssumption` alone (any intents, books, sizes, quota, faults). `IntakeInv` is per intent: where its request and the replay
stand, what rows, marker and receipts say then, and what a command on the wire means. A `gates` command may come late, but only
while its intent is open or the marker refuses it; a compensation is out only once the publication is closed; a publication only while the intent is open; and
nothing makes a closed intent an open one.

- `MessagesStayAuthorisedHolds`, `GuestRefundOnlyNegativeHolds`: consequences of that invariant.
- `LedgerExactHolds`, `OneTaskPerBookHolds`: from `LedgerInv`, which adds that the counters are sums over the intents whose marker says "accepted", and that the book's set
  holds the accepted tasks that are not over, but for those that were `freed`. The marker is written by the scripts that move the counters, in one step of Redis: that is
  why no late, repeated or unanswered command counts twice, and why a charge finds the places of all others (`ChargedAlone`).
- `LedgerSpecHolds`: the refinement of `IntakeLedger`. The fate of an intent is a function of marker and messages sent; an applied script or publication is a step of the ledger,
  everything else stutters.

### Handoff and consumer: `DeliveryProofs`

From the module's assumption alone (any tasks, workers, copies, retries, faults; two leases that lapse in any order). Copies of a message make a naive count useless: a redelivered message may be decided
again after its hop was published and processed. The argument is about the tree of a task's messages, each hop a child of the message it was recorded for. `KeptInv`:
every message that was sent is still somewhere, or has a child in the outbox, or found the task at rest, or was let go. A longest one has no child, so while the task is open and nothing of it was let go
it is still somewhere, or it waits in the outbox. The rest of `DeliveryInv` supports that: types (`TypeInv`), who is at work on a task has its lease (`LeaseInv`),
what a verdict knows (`VerdictInv`), that what is acknowledged, sent or received has its row (`LineageInv`).

- `NotForgottenHolds`: the three verdicts of `Lets` are all the ways in which the code forgets a task. `delivery_crash` shows that the first of them does.
- `DeliveredHasLineageHolds`, and the action property `EndedStaysEndedHolds`: who writes a row looked at it under the task's lease.

### Task budget: `TaskBudgetProofs`

From `BudgetAssumption` (any runs, calls, limits, price, faults, clock):

- `OneSpenderHolds`: `Spec => []OneSpender`, from `FenceInv`: a run between bind and unbind owns the fence. The lease of the
  budget is not needed, so the argument survives lost locks and late heartbeats.
- `WithinLimitsHolds`: `Spec => []WithinLimits`, from `MoneyInv`: the row is well typed and fits its limits (`RowInv`), what a run
  holds and every attempt are well typed (`RunInv`, `PaidInv`). The point is `SettleFits`: a settlement moves one
  reservation to a bill that is at most as large, and `ReserveFits`: the check before a reservation counts settled and
  reserved money. It rests on the assumption that a bill is at most the reservation, which is how `_reservation_cost` is
  meant; a provider that bills more makes the code overspend.
- `SavedIsNotPaidAgainHolds`, from `PermitInv`: a run between `load_call` and its reservation asks for a call that nobody has saved since, because only the owner of the
  fence saves.
- `LedgerExactHolds`, from `LedgerInv`: the counters of the row are sums over the attempts, and a run that is to settle points at an attempt that is still reserved.
- `TypeCorrect`: `TypeOK` is not inductive without the ledger: that reserved money stays natural when a reservation is given back is known only
  because it is a sum that contains it.
- `RuntimeIsLeasedTimeHolds`, from `TimeInv`: the runtime charged and what is due until now are the ticks under a live lease. Each writer of the row either moves the meter to the clock or
  leaves both alone.
- `ExtendedOnceHolds`, from `LimitsInv`: the limits are those at the start plus one extension for each operation accepted.
- `CarriedHolds`, assuming that neither "crash" nor "lock" is among the faults: `SoloInv` says that fence, lease and runs then belong together, `CarryInv` that a queued or running
  task has a message, an operation on its way, or a run that will write a status. The assumption cannot go: a process that dies keeps its fence until an operator
  clears it (see section 2), and a run beside another is refused by the fence, returns its message as done and leaves the task to the other's fate. The run `budget_carried` has the same
  faults.
- `PaidIsKeptHolds`: `Spec => []PaidIsKept`, with every fault, stop and overlap of runs. `StakeInv`: a run with the lease is the one the row names, and while the lease lives
  its heartbeat does. A run at stake, from guard to save, is doomed when the task was stopped or its lease has lapsed (`Doomed`); no step of a run dooms one (`RunDooms`), only a
  stop or a fault that is counted does. `LossInv` counts: the answers paid for, and one more while a run is doomed or a stop is under way, are at most those saved, those about to be, the faults and
  the stops. One fault costs one answer because only the owner of the fence saves (`SavesAlone`), and a save is refused to a doomed run only (`RefusedIsDoomed`).

### Chapter task: `ChapterTaskProofs`

From `GraphAssumption` and `TaskAssumption` (any cards, reports, verdicts, limits, upsets, resumes).

- `CourseHolds`: `Spec => []CourseInv`, with every member of `Hazards`. `TypeInv`; `PlaceInv`: where the run is agrees with where its thread is; `TextInv`: which text the thread carries, and that no other
  text is new; `PersistInv` and `SummarizeInv`: what each effect receipt says of row and summary, also when the effect was committed and
  its checkpoint was not; `EndInv`: what a thread that has ended left behind. From it follow `VersionIsNewTextHolds` and `SummaryFitsHolds`.
- `ReviewHolds` and `RefusedStaysOutHolds`, with every member of `Hazards` too, from `ReviewInv`: which answers of the author belong to which text. Operations of messages are in
  order (`OpInv`), answers under way are those of the thread's text (`AnswerInv`), a review that is being finished has nothing refused left (`FinishInv`), and a refused
  text is the row's only while it is under review (`RefusalInv`). A manual rewrite that asks for a new plan (`"replan"`) may end without a text, so
  what a thread that ended left behind is said of the others only (`Clear`). What carries the theorem over to it is that a refused text in hand always has a
  refused setting with it, and with one `resolve_review` never accepts.
- `ConfirmedKnowinglyHolds`, assuming `"replan"` and `"late"` are not in `Hazards`, from `ShownInv`: a row under review has either a run that will still announce it, or a text that was shown.
- `WrittenAsApprovedHolds`, with every member of `Hazards`, from `ApprovalInv`. A plan reaches the thread as approved in one way only, through a message that confirms it:
  what messages bring was approved (`BroughtInv`), and `confirm_task_plan` approves pages that exist (`PageInv`). Past the gate a thread has the plan it was
  brought, so what it writes is approved (`TextApproved`). The hard case is a refused text whose revision keeps the chapter's plan and opens the graph
  again: it never comes back to the node that writes, because the chapter stays under review until the revision has succeeded (`ReopenedInv`).
- `UndisturbedHolds`, `DoneMeansWrittenHolds`, assuming `"replan"` and `"manual"` are not there, from `UndisturbedInv`: whatever
  message is delivered to a manual task answers the place that stands (`ManualInv`), and "done" is said of a confirmed chapter only (`DoneInv`).

A theorem that excludes members of `Hazards` holds with all others present, and what is excluded is what refutes the property in TLC's hands:
`"late"` alone and `"replan"` with `"manual"` (two upsets, three resumes) refute `ConfirmedKnowingly`; `"manual"` alone and
`"replan"` alone refute `DoneMeansWritten` (section 3). `PlanIsNewest`, which `"manual"` refutes, is not proved.

### Length of a run: `ChapterWalkProofs`

From `GraphAssumption` and `WalkAssumption` (any cards, reports, verdicts and limits whose `LongestRun` is within the recursion limit):

- `WholeRuns`: `Spec => []NeverCutOff`. The argument is a measure. `Rest(n, v)` bounds the nodes still to come: those to the next
  route (`Ahead`), then for each unit left of revisions and patches a round of five nodes, then for each replan left a whole cycle with its
  reset, which fills the two others up again (`Tail`). `IInv` says that the steps made and `Rest` together stay within `LongestRun`, and that a node
  of repair is entered only within its budget (`Allowed`); each node lowers `Rest` by one at least. An error ends repairs, so a state with `error` has no
  `Tail`. `LongestRun` is 4 + Cycle + MaxReplans * (Cycle + 1) with Cycle = 8 + 5 * (MaxRevisions + MaxPatches): 61 with the limits of `config.py`,
  which TLC's run shows to be exact. With three revisions or a second replan the assumption fails, and so would the code.

### Batch: `BatchTaskProofs`

From `BatchAssumption` alone (any size, blueprints, resumes and upsets, every member of `Hazards`):

- `InOrderHolds`: `Spec => []InOrder`, from `OrderInv`. It turns on where the position stands: the chapters before it are confirmed (`Before`), those
  after it untouched (`After`), a thread that ended without objection has confirmed its chapter (`EndsConfirmed`), and the checkpoint stands at
  "bridge" or beyond only with the chapter at the position confirmed (`BatchInv`). `RunInv` and `DoneInv` tie the step of the run and the status to that.
- `FromThisBlueprintHolds`: `Spec => FromThisBlueprint`, from `OrderInv` and three facts more: a chapter under review belongs to the blueprint in force
  (`ShownInv`: a new one is made only when nothing is under review), the thread at work belongs to it and replaces a shown text by a revision only
  (`WorkInv`), and a text belongs to its thread's blueprint (`TextInv`).

The two others rest on `CourseInv`: a batch that ended well is done and stays so (`EndInv`), a text under review that nothing
refuses is finished (`RevisionInv`).

- `CompletedNotRewrittenHolds`, assuming "replan" and "late" are not in `Hazards`, from `KeepInv`. The chapter at the position, once confirmed, has a finished
  thread of the blueprint in force that asks for no other (`KeptInv`), so it is gone on with, never begun anew; the only way to a confirmed text that
  asks for another blueprint is through a review, and there such a text waits until it is refused (`LeakInv`). Without
  either assumption TLC finds a batch that writes a confirmed chapter again.
- `ReviewIsShownHolds`, assuming "stuck" is not in `Hazards`, from `ShowInv`: a thread wants a review only with a text that was shown, and a finished text
  under review is the one shown (`WantsInv`); old threads cannot be mistaken for ones of a new blueprint (`MadeInv`).

### Left to TLC

Liveness under fairness (`OrphanIsFreed`, `ChargedIsResolved`, `GuestIsResolved`, `EveryTaskEnds`, `BookIsReopened`, `ComesToRest`), since it needs `ENABLED`. Also `PlanIsNewest`,
and the four runs that expect a violation.

## 6. Findings and observations

Four violation runs state what the repository says of itself and show it is not so; `PROJECT.json` quotes the lines.

1. `delivery_crash`: a worker dies with the lease of its book and that of its task. Where the book's lapses first, the redelivered message is taken for that of a
   task another worker runs, and acknowledged: the task stays "running" with nothing to carry it.
2. `chapter_plan`: a repeated confirmation of plan 1 passes the gate of plan 2: the attempt is compared only while the task says
   "awaiting_plan", not with the interrupt it answers.
3. `chapter_done`: a manual task that is retried or resumed after planning is reported done without a text.
4. `batch_replan`: a chapter that was accepted after one replan too many is planned and written again.

Shown by TLC with a member of `Hazards`, without a run of their own: an unreviewed text accepted by the resume of a pause ("late"; against
`spec/state-flow.md:128`), a batch that awaits a review for ever ("stuck"; against the docstring at `batch_graph.py:60-66`).

Shown by TLC in earlier runs that gave their place to these:

- A cancel that is committed between the runner's read of the status and its write is overwritten by "done"; the docstring at `runner.py:324` says that cancelled comes
  first and no later status overwrites it. `ReadStatus` and `WriteStatus` of `TaskBudget` are the two steps.
- After a crash a task with a budget stays "running", where a test asserts "paused".

Observed while modelling:

- The gate of a book is opened one attempt before the message is dead-lettered: `processor.py:414` counts to `worker_max_retries - 1`, `consumer.py:135` allows one more, and the
  comments at `processor.py:364-365` and `410-411` speak of the last retry, after which the message goes to the dead letters. `FinalAttempt` is the code; no property says that the gate stays closed until then.
- The code does not keep one unfinished task per book at intake: besides that attempt, skips, budget stops, reviews and the hour's expiry give a place up. What keeps two tasks of a book from running at once is the book's lease.
- Redis failing between the two `acquire` (`processor.py:619`, `627`) leaves the book's lease with a worker that goes on living and renews it from its heartbeat thread: the book is locked until that process ends (`Leaked`).
- An unexpected exception of `process`, which those of the Redis client are, is acknowledged and the message discarded (`consumer.py:123-127`), with the task open; when it comes from
  `_finish`, a retry that was decided is lost with it (`FinishFails`).
- A run that is superseded, or stopped for maintenance without proof of its checkpoint, is acknowledged as "waiting" with the row "running" (`processor.py:446-457`).
- An answer that is charged and then found blank or malformed is asked for again (`deepseek.py:139`, `154-168`); it is in the ledger and bought nothing. `PaidIsKept` does not count it.
- Accepted input of the API that the code does not carry to an end: a manual rewrite with a new plan whose text is refused (`"replan"` of `ChapterTask`, section 3).
- A resume without a checkpoint forgets manual mode (`processor.py:277-288`), and passes the guard of the writing order
  that a first run has (`processor.py:128-183`); its chapter number defaults to 1.
- A confirmation retried after the gate was passed fails the task ("stale plan checkpoint identity"); the author can resume it.
- `generate_chapter` returns the old error of a finished graph to a retried message (`runner.py:50-53`).
- `node_plan_chapter` and `node_revise` call their model even after an error of the node before.
- An author's edit of a chapter under review is overwritten when the review is finished (`routes_chapters.py:58-75`).
- A revision that is interrupted and goes on elsewhere never marks its rejections as applied (`review.py:49-56`), so the next review answers
  them again.
- `node_batch_end` has no look at a cancel (`batch_graph.py:398-400`); resume, pause and cancel take no row lock.
- A second message of a task that waits for its plan releases its place in the gateway (`processor.py:661`); an intake that dies before
  its gate keeps a guest's unit (by design of `handoff.py:219`); a late pause report overwrites an accepted
  resume (`task_budget.py:644`); a user's pause during a request discards the answer that is then paid for (`task_budget.py:397`).

## 7. Not modelled, and why

Most of the implementation is not a protocol. Prompts, genre catalogues and the rules of `validation/` are prose and functions of prose; what
they decide enters the models as the set of reports and verdicts. Accounts, books, resources and administration are
single-row transactions. `web/`, `ops/`, `evals/` and `integrations/` are user interface, deployment and measurement. Together they are more than
nine tenths of the lines, so the share of lines that `PROJECT.json` maps stays small.

Of the modelled parts: events are a log and left out; so are midnight roll-over of counters, the daily cost counter and the
order of the two tiers of queues. Failed commits of PostgreSQL count as a crash before or after them. The loss of a lane's connection
under a live holder is not there. In `Delivery`, messages that a resume has made obsolete and the deletion of a task's row are not there, nor bad JSON and messages of another owner, which are
acknowledged before anything is looked at. States of a `MaintenanceExecution` other than "running", with the operator's pause and resume of an
epoch, are not there. Of the memory that persist writes (facts, states, relations, vectors) only the candidates' status is kept:
memory of a rewritten chapter and the order of relation timelines are transactions on one store whose correctness is a matter of content. Charges of the
guest quota other than the intake's are left out. Short stories save progress per stage, run one stage after the other and
are left out. `BatchTask` has no budget limits (a limit is a pause) and no manual mode (a batch has none).

## 8. Where the plan stands

Done: leases, intake, delivery, budget, the chapter's graph and task, the batch, with two refinements, and theorems for every safety property but `PlanIsNewest`. What
would come next, in order: abstract specifications of what delivery and the chapter's task promise, shown to be implemented as the two others are; the operator's maintenance
pause over several tasks; charges of the guest quota for resumes and reviews.

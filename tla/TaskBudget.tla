----------------------------- MODULE TaskBudget -----------------------------
(***************************************************************************)
(* The budget of one task (task_budget.py) under the execution fence of    *)
(* maintenance_pause.py: who may spend, what a model call costs, what is   *)
(* kept of it, and how a user extends the budget and resumes the task.     *)
(*                                                                         *)
(* A run is one processing of a message of the task (processor._run).  It  *)
(* binds the fence, claims the lease of the budget, and then, for each     *)
(* model call, guards, looks for a saved result, reserves, does the HTTP   *)
(* request, settles and saves; each of these is a transaction of its own,  *)
(* with the row of the task locked.  The requests of the user read the     *)
(* task in one step and write it in another: they take no lock.            *)
(*                                                                         *)
(* The maintenance pause itself (states other than "running" of a          *)
(* MaintenanceExecution) and the waits for a plan or a review are not here.*)
(***************************************************************************)
EXTENDS Naturals, Sequences, FiniteSets, FiniteSetsExt

CONSTANTS Runs, NoRun,
          Calls,      \* the model calls of the task are 1..Calls
          Price,      \* what one attempt reserves
          Bills,      \* what one attempt may turn out to cost
          Limits,     \* [requests, cost, time] of the snapshot; 0 is unlimited
          More,       \* what an extension adds to them
          Lease,      \* LEASE_SECONDS
          Kinds,      \* what may go wrong: see Fault
          MaxClock, MaxFaults, MaxStops, MaxResumes  \* bounds

FaultKinds == {"save", "crash", "publish", "lock", "beat"}

Amounts == [requests: Nat, cost: Nat, time: Nat]

ASSUME BudgetAssumption ==
  /\ NoRun \notin Runs
  /\ Calls \in Nat \ {0} /\ Price \in Nat /\ Lease \in Nat \ {0}
  /\ Bills \subseteq 1..Price      \* the reservation is an upper bound
  /\ Limits \in Amounts /\ More \in Amounts
  /\ Kinds \subseteq FaultKinds
  /\ {MaxClock, MaxFaults, MaxStops, MaxResumes} \subseteq Nat

VARIABLES
  status,    \* tasks.status
  op,        \* tasks.payload["_budget_resume_operation"], 0 before any
  budget,    \* the row of task_budgets
  attempts,  \* task_budget_attempts
  saved,     \* calls with a result in task_budget_calls
  receipt,   \* publication of each resume operation
  added,     \* the operations that extended the limits
  fence,     \* MaintenanceExecution.owner_token
  queue,     \* operations with a message in the queue; 0 is the intake's
  pc, run,   \* where each run is, and what it holds
  beats,     \* runs whose heartbeat thread is alive
  api,       \* what a request of the user is about to write
  clock, leased, faults, stops  \* leased: ticks under a live lease (history)

ledger == <<budget, attempts, saved>>
resume == <<op, receipt, added>>
env    == <<api, clock, leased, faults, stops>>
vars   == <<status, resume, ledger, fence, queue, pc, run, beats, env>>

Operations == 1..MaxResumes
BudgetRows == [limits: Amounts, reason: {"none", "cost_limit", "other"},
               runtime: Nat, requests: Nat, used: Nat, reserved: Nat,
               owner: Runs \cup {NoRun}, since: Nat, until: Nat]  \* 0 is NULL
Attempts   == [call: 1..Calls, state: {"reserved", "unknown", "settled"}, charge: Nat,
               good: BOOLEAN]  \* history: what was paid for is an answer to keep
Bound      == {"claim", "guard", "load", "reserve", "http", "settle", "save",
               "end", "status", "write", "release", "unbind"}
Held       == [why: {"ok", "stopped", "cost_limit", "error", "retry"}, call: 1..Calls,
               op: 0..MaxResumes, permit: Nat, deadline: Nat]

TypeOK ==
  /\ status \in {"queued", "running", "paused", "cancelled", "done"}
  /\ op \in 0..MaxResumes
  /\ budget \in BudgetRows
  /\ attempts \in Seq(Attempts)
  /\ saved \subseteq 1..Calls
  /\ receipt \in [Operations -> {"none", "sending", "published", "nack", "uncertain"}]
  /\ added \subseteq Operations
  /\ fence \in Runs \cup {NoRun}
  /\ queue \subseteq 0..MaxResumes
  /\ pc \in [Runs -> Bound \cup {"new", "bind", "report", "ended"}]
  /\ run \in [Runs -> Held]
  /\ beats \subseteq Runs
  /\ api \in {"idle", "pause", "cancel"}
  /\ {clock, leased, faults, stops} \subseteq Nat

Init ==
  /\ status = "queued"
  /\ op = 0
  /\ budget = [limits |-> Limits, reason |-> "none", runtime |-> 0, requests |-> 0, used |-> 0,
               reserved |-> 0, owner |-> NoRun, since |-> 0, until |-> 0]
  /\ attempts = <<>>
  /\ saved = {}
  /\ receipt = [o \in Operations |-> "none"]
  /\ added = {}
  /\ fence = NoRun
  /\ queue = {0}
  /\ pc = [r \in Runs |-> "new"]
  /\ run = [r \in Runs |-> [why |-> "ok", call |-> 1, op |-> 0, permit |-> 0,
                            deadline |-> 0]]
  /\ beats = {}
  /\ api = "idle"
  /\ clock = 1
  /\ leased = 0
  /\ faults = 0
  /\ stops = 0

---------------------------------------------------------------------------
(* Reading and charging the row.  A definition headed "Slip" is a mistake  *)
(* in the one that follows it; no specification uses it.                   *)

Less(n, d) == IF d < n THEN n - d ELSE 0
Capped(n, m) == IF n < m THEN n ELSE m

Live == budget.until > clock

(* Slip: the time after the lease is charged too.                          *)
AccruedWithDowntime ==
  IF budget.since = 0 THEN budget
  ELSE [budget EXCEPT !.runtime = @ + Less(clock, budget.since), !.since = clock]

(* _accrue: the time since the last look, up to the end of the lease.      *)
Accrued ==
  IF budget.since = 0 THEN budget
  ELSE [budget EXCEPT !.runtime = @ + Less(Capped(clock, budget.until), budget.since),
                      !.since = clock]

(* fence_effect and the test of the lease, in this order: what a run is    *)
(* told that may not go on.                                                *)
Fenced(r) == CASE status \in {"paused", "cancelled"} -> "stopped"
               [] fence # r -> "error"
               [] OTHER -> "ok"
Refused(r) == IF Fenced(r) = "ok" /\ ~(budget.owner = r /\ Live) THEN "error" ELSE Fenced(r)

OutOfTime(b)     == b.limits.time > 0 /\ b.runtime >= b.limits.time
OutOfRequests(b) == b.limits.requests > 0 /\ b.requests >= b.limits.requests

(* Slip: only what is settled counts.                                      *)
OutOfMoneySettled(b) == b.limits.cost > 0 /\ b.used + Price > b.limits.cost

OutOfMoney(b) == b.limits.cost > 0 /\ b.used + b.reserved + Price > b.limits.cost

---------------------------------------------------------------------------
(* The steps of a run.                                                     *)

At(r, from, to) == pc[r] = from /\ pc' = [pc EXCEPT ![r] = to]

(* An exception unwinds the scopes of the run.                             *)
Raise(r, from, to, w) == At(r, from, to) /\ run' = [run EXCEPT ![r].why = w]

Alive(r) == pc[r] \notin {"new", "ended"}

RunOnly == UNCHANGED <<status, resume, fence, queue, beats, env>>

(* Before the budget: process drops a message of an older operation, and   *)
(* one of a task that is paused or over.                                   *)
Current(m) == op = 0 \/ m = op

Skip(m) ==
  /\ m \in queue
  /\ ~Current(m) \/ status \notin {"queued", "running"}
  /\ queue' = queue \ {m}
  /\ UNCHANGED <<status, resume, ledger, fence, pc, run, beats, env>>

Start(r, m) ==
  /\ At(r, "new", "bind")
  /\ m \in queue /\ Current(m) /\ status \in {"queued", "running"}
  /\ queue' = queue \ {m}
  /\ run' = [run EXCEPT ![r].op = m]
  /\ status' = "running"
  /\ UNCHANGED <<resume, ledger, fence, beats>>

(* Slip: a fence that somebody else holds is taken over.                   *)
FenceTaken == TRUE

FenceFree == fence = NoRun

(* bind_execution.                                                         *)
Bind(r) ==
  /\ \/ FenceFree /\ fence' = r /\ At(r, "bind", "claim") /\ UNCHANGED run
     \/ ~FenceFree /\ Raise(r, "bind", "report", "error") /\ UNCHANGED fence
  /\ UNCHANGED <<status, resume, ledger, queue, beats, env>>

(* claim_budget; with the lease starts the heartbeat.                      *)
Claim(r) ==
  LET told == IF Fenced(r) = "ok" /\ budget.owner \notin {NoRun, r} /\ Live THEN "error" ELSE Fenced(r)
  IN /\ \/ /\ told = "ok"
           /\ At(r, "claim", "guard") /\ UNCHANGED run
           /\ budget' = [Accrued EXCEPT !.owner = r, !.since = clock, !.until = clock + Lease]
           /\ beats' = beats \cup {r}
        \/ told # "ok" /\ Raise(r, "claim", "unbind", told) /\ UNCHANGED <<budget, beats>>
     /\ UNCHANGED <<status, resume, attempts, saved, fence, queue, env>>

(* renew_budget, on a thread that has no scope: it knows nothing of fence  *)
(* or status.  Its first exception is its last.                            *)
Renew(r) ==
  /\ r \in beats
  /\ IF budget.owner = r /\ Live
     THEN /\ budget.until < clock + Lease
          /\ budget' = [Accrued EXCEPT !.until = clock + Lease]
          /\ UNCHANGED beats
     ELSE beats' = beats \ {r} /\ UNCHANGED budget
  /\ UNCHANGED <<status, resume, attempts, saved, fence, queue, pc, run, env>>

(* guard_budget, at the boundary of a node.                                *)
Guard(r) ==
  /\ \/ Refused(r) # "ok" /\ Raise(r, "guard", "release", Refused(r)) /\ UNCHANGED budget
     \/ /\ Refused(r) = "ok" /\ ~OutOfTime(Accrued)
        /\ At(r, "guard", "load") /\ UNCHANGED run
        /\ budget' = Accrued
     \/ /\ Refused(r) = "ok" /\ OutOfTime(Accrued)
        /\ Raise(r, "guard", "release", "stopped")
        /\ budget' = [Accrued EXCEPT !.reason = "other"]
  /\ UNCHANGED <<attempts, saved>> /\ RunOnly

(* The next call, or the end of the work.                                  *)
Onwards(r, from) ==
  IF run[r].call < Calls THEN At(r, from, "guard") /\ run' = [run EXCEPT ![r].call = @ + 1]
                         ELSE At(r, from, "end") /\ UNCHANGED run

(* Slip: nothing is found in the store of results.                         *)
NeverCached(r) == FALSE

Cached(r) == run[r].call \in saved

(* load_call.                                                              *)
Load(r) ==
  /\ \/ Refused(r) # "ok" /\ Raise(r, "load", "release", Refused(r))
     \/ Refused(r) = "ok" /\ Cached(r) /\ Onwards(r, "load")
     \/ Refused(r) = "ok" /\ ~Cached(r) /\ At(r, "load", "reserve") /\ UNCHANGED run
  /\ UNCHANGED ledger /\ RunOnly

(* reserve_attempt: a limit that is reached is written down before it is   *)
(* raised; otherwise the attempt is charged in advance.                    *)
Reserve(r) ==
  LET b == Accrued
      stop(w, reason) == /\ Raise(r, "reserve", "release", w)
                         /\ budget' = [b EXCEPT !.reason = reason]
                         /\ UNCHANGED attempts
  IN /\ \/ /\ Refused(r) # "ok"
           /\ Raise(r, "reserve", "release", Refused(r))
           /\ UNCHANGED <<budget, attempts>>
        \/ Refused(r) = "ok" /\ (OutOfTime(b) \/ OutOfRequests(b)) /\ stop("stopped", "other")
        \/ /\ Refused(r) = "ok" /\ ~OutOfTime(b) /\ ~OutOfRequests(b) /\ OutOfMoney(b)
           /\ stop("cost_limit", "cost_limit")
        \/ /\ Refused(r) = "ok" /\ ~OutOfTime(b) /\ ~OutOfRequests(b) /\ ~OutOfMoney(b)
           /\ attempts' = Append(attempts, [call |-> run[r].call, state |-> "reserved", charge |-> 0,
                                          good |-> FALSE])
           /\ budget' = [b EXCEPT !.requests = @ + 1, !.reserved = @ + Price, !.reason = "none"]
           /\ At(r, "reserve", "http")
           /\ run' = [run EXCEPT ![r].permit = Len(attempts) + 1,
                                 ![r].deadline = IF b.limits.time > 0
                                                 THEN clock + (b.limits.time - b.runtime) ELSE 0]
  /\ UNCHANGED saved /\ RunOnly

InTime(r) == run[r].deadline = 0 \/ clock < run[r].deadline

(* The request comes back before its deadline, with whatever: see Settle.  *)
Respond(r) == /\ At(r, "http", "settle") /\ InTime(r)
              /\ UNCHANGED <<run, ledger>> /\ RunOnly

(* budget_io gives the request up at its deadline; nothing is settled.     *)
Deadline(r) == /\ ~InTime(r) /\ Raise(r, "http", "release", "stopped")
               /\ UNCHANGED ledger /\ RunOnly

(* Slip: a request without a bill gives its reservation back.              *)
SettleRefunds(r, bill, good) ==
  IF bill = 0
  THEN /\ attempts' = [attempts EXCEPT ![run[r].permit].state = "unknown"]
       /\ budget' = [budget EXCEPT !.reserved = @ - Price]
  ELSE /\ attempts' = [attempts EXCEPT ![run[r].permit].state = "settled",
                                       ![run[r].permit].charge = bill,
                                       ![run[r].permit].good = good]
       /\ budget' = [budget EXCEPT !.reserved = @ - Price, !.used = @ + bill]

(* finish_attempt: it asks for the fence, not for the lease, and turns     *)
(* every exception into TaskBudgetUnavailable.                             *)
SettleAs(r, bill, good) ==
  IF bill = 0
  THEN /\ attempts' = [attempts EXCEPT ![run[r].permit].state = "unknown"]
       /\ UNCHANGED budget
  ELSE /\ attempts' = [attempts EXCEPT ![run[r].permit].state = "settled",
                                       ![run[r].permit].charge = bill,
                                       ![run[r].permit].good = good]
       /\ budget' = [budget EXCEPT !.reserved = @ - Price, !.used = @ + bill]

(* Without an answer: another attempt of the provider or of its fallback,  *)
(* or the call has failed, and the graph goes on without it or ends.       *)
Unanswered(r) == \/ At(r, "settle", "reserve") /\ UNCHANGED run
                 \/ Onwards(r, "settle")
                 \/ At(r, "settle", "end") /\ UNCHANGED run

(* What the request brought: a bill, or no usable figures (0), and a good  *)
(* answer or none: blank, without choices, an error of the service.  The   *)
(* charge comes before the look at the answer.                             *)
Settle(r) ==
  /\ \/ Fenced(r) # "ok" /\ Raise(r, "settle", "release", "error") /\ UNCHANGED <<budget, attempts>>
     \/ /\ Fenced(r) = "ok"
        /\ \E bill \in Bills \cup {0} :
             \/ At(r, "settle", "save") /\ UNCHANGED run /\ SettleAs(r, bill, TRUE)
             \/ Unanswered(r) /\ SettleAs(r, bill, FALSE)
  /\ UNCHANGED saved /\ RunOnly

(* Slip: the result is not kept.                                           *)
KeptNothing(r) == saved

Kept(r) == saved \cup {run[r].call}

(* save_call.                                                              *)
Save(r) ==
  /\ \/ Refused(r) # "ok" /\ Raise(r, "save", "release", Refused(r)) /\ UNCHANGED saved
     \/ Refused(r) = "ok" /\ saved' = Kept(r) /\ Onwards(r, "save")
  /\ UNCHANGED <<budget, attempts>> /\ RunOnly

(* The transaction of save_call fails: the run, and its message is tried    *)
(* again, or the graph goes on where the result is a bonus.                *)
SaveFails(r) ==
  /\ Refused(r) = "ok"
  /\ Raise(r, "save", "release", "retry") \/ Onwards(r, "save")
  /\ UNCHANGED <<ledger, status, resume, fence, queue, beats>>

(* The graph ends with a guard; then the runner reads the status, and      *)
(* writes "done" or "failed" (here one) unless it read "cancelled".        *)
End(r) ==
  /\ \/ Fenced(r) # "ok" /\ Raise(r, "end", "release", Fenced(r))
     \/ Fenced(r) = "ok" /\ At(r, "end", "status") /\ UNCHANGED run
  /\ UNCHANGED ledger /\ RunOnly

ReadStatus(r) ==
  /\ At(r, "status", IF status = "cancelled" THEN "release" ELSE "write")
  /\ UNCHANGED <<run, ledger>> /\ RunOnly

WriteStatus(r) ==
  /\ At(r, "write", "release")
  /\ status' = "done"
  /\ UNCHANGED <<resume, ledger, fence, queue, run, beats, env>>

(* release_budget: nothing is done for a run that lost fence or lease; the *)
(* owner stays on the row.                                                 *)
Release(r) ==
  /\ At(r, "release", "unbind")
  /\ beats' = beats \ {r}
  /\ budget' = IF fence = r /\ budget.owner = r
               THEN [Accrued EXCEPT !.since = 0, !.until = 0] ELSE budget
  /\ UNCHANGED <<status, resume, attempts, saved, fence, queue, run, env>>

(* Slip: the message of a failed run is not sent again.                    *)
NotReturned(r) == queue

Returned(r) == IF run[r].why = "retry" THEN queue \cup {run[r].op} ELSE queue

(* The end of bind_execution, and of the message unless the run failed.    *)
Unbind(r) ==
  /\ At(r, "unbind", IF run[r].why \in {"ok", "retry"} THEN "ended" ELSE "report")
  /\ fence' = IF fence = r THEN NoRun ELSE fence
  /\ queue' = Returned(r)
  /\ UNCHANGED <<status, resume, ledger, run, beats, env>>

Superseded(r) == budget.owner \notin {NoRun, r}

(* record_budget_pause; either way the message is acknowledged.            *)
Report(r) ==
  /\ At(r, "report", "ended")
  /\ IF status = "cancelled" \/ Superseded(r)
     THEN UNCHANGED <<status, budget>>
     ELSE /\ status' = "paused"
          /\ budget' = [budget EXCEPT !.reason = IF run[r].why = "cost_limit" THEN "cost_limit"
                                                                             ELSE "other"]
  /\ UNCHANGED <<resume, attempts, saved, fence, queue, run, beats, env>>

(* The process dies; its message is delivered again.                       *)
Crash(r) ==
  /\ Alive(r)
  /\ pc' = [pc EXCEPT ![r] = "ended"]
  /\ beats' = beats \ {r}
  /\ queue' = queue \cup {run[r].op}
  /\ UNCHANGED <<status, resume, ledger, fence, run>>

---------------------------------------------------------------------------
(* The requests of the user.                                               *)

UserOnly == UNCHANGED <<ledger, resume, fence, queue, pc, run, beats, clock, leased, faults>>

(* pause_task and cancel_task read the row, decide, and write it.          *)
PauseRead  == /\ api = "idle" /\ status \notin {"done", "cancelled"}
              /\ stops < MaxStops /\ stops' = stops + 1
              /\ api' = "pause"
              /\ UNCHANGED status /\ UserOnly
CancelRead == /\ api = "idle" /\ status \notin {"done", "cancelled"}
              /\ stops < MaxStops /\ stops' = stops + 1
              /\ api' = "cancel"
              /\ UNCHANGED status /\ UserOnly
ControlWrite == /\ api # "idle" /\ api' = "idle"
                /\ status' = IF api = "pause" THEN "paused" ELSE "cancelled"
                /\ UNCHANGED stops /\ UserOnly

Plus(l, add) ==
  [d \in DOMAIN l |-> IF add /\ l[d] > 0 THEN l[d] + More[d] ELSE l[d]]

(* _require_resume_room.                                                   *)
Room(b, add) ==
  /\ ~OutOfRequests(b) /\ ~OutOfTime(b)
  /\ b.limits.cost > 0 => /\ b.used + b.reserved < b.limits.cost
                          /\ b.reason # "cost_limit" \/ add

Queue(o) == /\ status' = "queued"
            /\ op' = o
            /\ receipt' = [receipt EXCEPT ![o] = "sending"]

ResumeOnly == UNCHANGED <<attempts, saved, fence, queue, pc, run, beats, env>>

(* A new operation: a paused task, or a queued one whose last resume was   *)
(* not accepted; not while a run still has the lease.                      *)
Extend(o, add) ==
  /\ receipt[o] = "none" /\ \A p \in 1..(o - 1) : receipt[p] # "none"
  /\ status = "paused" \/ /\ status = "queued" /\ ~add
                          /\ op # 0 => receipt[op] \notin {"sending", "published", "uncertain"}
  /\ ~(budget.owner # NoRun /\ Live)
  /\ LET b == [Accrued EXCEPT !.limits = Plus(@, add)]
     IN Room(b, add) /\ budget' = [b EXCEPT !.reason = "none"]
  /\ added' = IF add THEN added \cup {o} ELSE added
  /\ Queue(o) /\ ResumeOnly

(* Slip: the limits are raised again.                                      *)
RetriedLimits(o) == Plus(budget.limits, o \in added)

KeptLimits(o) == budget.limits

(* The same operation after a definite refusal: published again, and the   *)
(* limits stay.                                                            *)
RetryResume(o) ==
  /\ receipt[o] = "nack" /\ status = "paused"
  /\ ~(budget.owner # NoRun /\ Live)
  /\ budget' = [budget EXCEPT !.reason = "none", !.limits = KeptLimits(o)]
  /\ UNCHANGED added
  /\ Queue(o) /\ ResumeOnly

Published(o, outcome) == receipt' = [receipt EXCEPT ![o] = outcome] /\ UNCHANGED <<op, added>>
PublishOnly == UNCHANGED <<ledger, fence, pc, run, beats>>

Publish(o) == /\ receipt[o] = "sending"
              /\ queue' = queue \cup {o}
              /\ Published(o, "published")
              /\ UNCHANGED status /\ PublishOnly

(* Slip: the task stays queued.                                            *)
StaysQueued(o) == status

NackedStatus(o) == IF status = "queued" /\ op = o THEN "paused" ELSE status

(* A nack puts the task back, if it still waits for this operation.        *)
PublishNack(o) == /\ receipt[o] = "sending"
                  /\ Published(o, "nack")
                  /\ status' = NackedStatus(o)
                  /\ UNCHANGED queue /\ PublishOnly

(* No confirm, or the API died (the receipt then stays "sending", which    *)
(* every reader treats alike): the message is out, or the replay of        *)
(* admissions sends it.                                                    *)
PublishUncertain(o) == /\ receipt[o] = "sending"
                       /\ queue' \in {queue, queue \cup {o}}
                       /\ Published(o, "uncertain")
                       /\ UNCHANGED status /\ PublishOnly

Replay(o) == /\ receipt[o] = "uncertain"
             /\ queue' = queue \cup {o}
             /\ Published(o, "published")
             /\ UNCHANGED <<status, env>> /\ PublishOnly

---------------------------------------------------------------------------
(* A tick of the clock.  That a beating heart misses a whole lease is a    *)
(* fault.                                                                  *)
Misses == \E r \in beats : budget.owner = r /\ budget.until = clock + 1

Tick == /\ clock < MaxClock /\ clock' = clock + 1
        /\ leased' = IF budget.since > 0 /\ Live THEN leased + 1 ELSE leased
        /\ UNCHANGED <<status, resume, ledger, fence, queue, pc, run, beats, api, stops>>

RunStep(r) ==
  \/ Bind(r) \/ Claim(r) \/ Guard(r) \/ Load(r) \/ Reserve(r) \/ Respond(r) \/ Deadline(r)
  \/ Settle(r) \/ Save(r) \/ End(r) \/ ReadStatus(r) \/ WriteStatus(r)
  \/ Release(r) \/ Unbind(r) \/ Report(r)

Alone == \A r \in Runs : ~Alive(r)

Intake == \/ \E m \in queue : Skip(m)
          \/ Alone /\ (\E r \in Runs, m \in queue : Start(r, m)) /\ UNCHANGED env

ResumeStep == \E o \in Operations : (Publish(o) /\ UNCHANGED env) \/ Replay(o)

(* LockLost: two workers on one task, after its lock in Redis was lost.    *)
LockLost == ~Alone /\ \E r \in Runs, m \in queue : Start(r, m)

Fault ==
  /\ faults < MaxFaults /\ faults' = faults + 1
  /\ \/ /\ \/ "save" \in Kinds /\ \E r \in Runs : SaveFails(r)
           \/ "crash" \in Kinds /\ \E r \in Runs : Crash(r)
           \/ "publish" \in Kinds /\ \E o \in Operations : PublishNack(o) \/ PublishUncertain(o)
           \/ "lock" \in Kinds /\ LockLost
        /\ UNCHANGED <<api, clock, leased, stops>>
     \/ "beat" \in Kinds /\ Misses /\ Tick

Next ==
  \/ \E r \in Runs : RunStep(r) \/ Renew(r)
  \/ Intake \/ ResumeStep
  \/ PauseRead \/ CancelRead \/ ControlWrite
  \/ \E o \in Operations, add \in BOOLEAN : Extend(o, add)
  \/ \E o \in Operations : RetryResume(o)
  \/ ~Misses /\ Tick /\ UNCHANGED faults
  \/ Fault

Spec == Init /\ [][Next]_vars

(* Workers run on, messages are delivered, what is to be published is.     *)
Fairness == /\ \A r \in Runs : WF_vars(RunStep(r))
            /\ WF_vars(Intake)
            /\ WF_vars(ResumeStep)

FairSpec == Spec /\ Fairness

---------------------------------------------------------------------------
Reservations == [n \in DOMAIN attempts |-> IF attempts[n].state = "settled" THEN 0 ELSE Price]
Charges      == [n \in DOMAIN attempts |-> attempts[n].charge]

(* The counters of the row are the sums over the attempts: an abandoned,   *)
(* failed or unanswered request stays reserved, a settled one is charged   *)
(* once ("keep the conservative reservation exactly once").                *)
LedgerExact ==
  /\ budget.requests = Len(attempts)
  /\ budget.reserved = MapThenSumSet(LAMBDA n : Reservations[n], DOMAIN attempts)
  /\ budget.used = MapThenSumSet(LAMBDA n : Charges[n], DOMAIN attempts)

(* Never more requests or money than the limits, through retries, resumes, *)
(* crashes and runs that overlap.                                          *)
WithinLimits ==
  LET l == budget.limits
  IN /\ l.requests > 0 => budget.requests <= l.requests
     /\ l.cost > 0 => budget.used + budget.reserved <= l.cost

(* At most one run of a task has a paid request under way, also when the   *)
(* lock in Redis was lost (bind_execution: "still owned").                 *)
OneSpender ==
  \A r, q \in Runs : pc[r] = "http" /\ pc[q] = "http" => r = q

(* The runtime that is charged is the time under a live lease: a dead      *)
(* worker's task pays to the end of its lease, waiting costs nothing.      *)
RuntimeIsLeasedTime == Accrued.runtime = leased

(* A call whose result is saved is never paid again: a resumed task starts *)
(* from what it bought (budgeted_call).                                    *)
SavedIsNotPaidAgain ==
  [][Len(attempts') > Len(attempts) => attempts'[Len(attempts')].call \notin saved]_vars

(* An answer that was paid for is kept: what is lost between settlement    *)
(* and save was lost to a fault or to a user's stop, and each of them, a   *)
(* process that dies, a lease that lapses, a pause, costs at most one      *)
(* answer (budgeted_call).  What is paid for a blank answer buys nothing.  *)
Paid   == {n \in DOMAIN attempts : attempts[n].state = "settled" /\ attempts[n].good}
Saving == {r \in Runs : pc[r] = "save"}

PaidIsKept ==
  Cardinality(Paid) <= Cardinality(saved) + Cardinality(Saving) + faults + stops

(* An operation adds to the limits once, however often it is sent again    *)
(* ("append limits once").                                                 *)
ExtendedOnce ==
  budget.limits = [d \in DOMAIN Limits |->
                     IF Limits[d] > 0 THEN Limits[d] + Cardinality(added) * More[d] ELSE 0]

(* A task that is queued or running is carried by a living run, by a       *)
(* message that process will not drop, or by an operation to publish.      *)
Carried ==
  status \in {"queued", "running"} =>
    \/ \E r \in Runs : Alive(r)
    \/ \E m \in queue : Current(m)
    \/ op # 0 /\ receipt[op] \in {"sending", "uncertain"}

(* A task that runs comes to rest, paused, cancelled or done, once nothing *)
(* fails any more.                                                         *)
ComesToRest == status \in {"queued", "running"} ~> status \in {"paused", "cancelled", "done"}

=============================================================================

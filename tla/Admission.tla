----------------------------- MODULE Admission -----------------------------
(***************************************************************************)
(* Task intake: the API's enqueue (worker/enqueue.py), the Redis scripts   *)
(* that charge and refund (worker/gates.lua, worker/compensate.lua), and   *)
(* the workers' replay of unfinished intakes (worker/handoff.py).          *)
(*                                                                         *)
(* Three stores that share no transaction take part: PostgreSQL (intents,  *)
(* outbox rows, guest receipts), Redis (counters, one marker per intent)   *)
(* and RabbitMQ.  A command to Redis or RabbitMQ is sent in one step and   *)
(* applied in another; its sender may stop waiting or die in between, and  *)
(* the command may be lost or applied long after.  A failed PostgreSQL     *)
(* commit ends the enqueue and is the same as a crash before or after it.  *)
(***************************************************************************)
EXTENDS Naturals, FiniteSets, FiniteSetsExt

CONSTANTS Intents,      \* admission intents; each stands for its task too
          Guests,       \* the intents of guests, who hold a quota receipt
          Books,        \* projects
          Book,         \* the book of each intent
          Size,         \* quota_n: chapters an intent asks for
          QuotaMax,     \* quota_daily, 0 = unlimited
          Used,         \* what the user may have used up before: numbers
          PlatformMax,  \* platform_chapter_max of a book, 0 = not counted
          BooksMax,     \* books_per_day_max
          BudgetGate,   \* may the daily cost budget refuse a task?
          MaxFaults     \* bound: how many things may go wrong in a behaviour

ASSUME AdmissionAssumption ==
  /\ Guests \subseteq Intents
  /\ Book \in [Intents -> Books]
  /\ Size \in [Intents -> Nat]
  /\ Used \subseteq Nat
  /\ QuotaMax \in Nat /\ PlatformMax \in Nat /\ BooksMax \in Nat
  /\ BudgetGate \in BOOLEAN
  /\ MaxFaults \in Nat

VARIABLES
  (* PostgreSQL *)
  gate,      \* AdmissionIntent.gate_state: none (not registered), pending, unknown,
             \*   accepted, rejected or compensated
  pub,       \* its publication_state: pending, unknown, published, rejected or
             \*   not_attempted
  outbox,    \* QueueHandoff "admission:<intent>".state: none, pending, unknown, published
  guest,     \* the guest quota receipt: none, reserved or released
  task,      \* the task row: "none", "running" or "finished"
  lane,      \* who holds the advisory lock of the intent
  (* Redis *)
  marker,    \* rate:intent:<intent>: none, accepted, rejected or compensated
  quota,     \* rate:quota of the user
  platform,  \* rate:platformbook of each book
  bookcnt,   \* rate:bookcnt: books touched today
  inflight,  \* rate:inflight of each book
  freed,     \* intents of unfinished tasks that lost their place in it (history)
  (* RabbitMQ *)
  queued,    \* is a message of the task in a queue?
  sent,      \* did one ever reach the broker? (history)
  (* processes *)
  wire,      \* commands that were sent and not yet applied
  pc,        \* the request handler of each intent
  rpc,       \* the worker that replays
  cur,       \* the intent it replays
  rgate,     \* the gate state it read, "none" when it replays the outbox row alone
  faults     \* crashes, timeouts and losses so far

pg     == <<gate, pub, outbox, guest, task, lane>>
redis  == <<marker, quota, platform, bookcnt, inflight, freed>>
broker == <<queued, sent>>
worker == <<rpc, cur, rgate>>
vars   == <<pg, redis, broker, wire, pc, worker, faults>>

Init ==
  /\ gate = [i \in Intents |-> "none"]
  /\ pub = [i \in Intents |-> "pending"]
  /\ outbox = [i \in Intents |-> "none"]
  /\ guest = [i \in Intents |-> "none"]
  /\ task = [i \in Intents |-> "none"]
  /\ lane = [i \in Intents |-> "free"]
  /\ marker = [i \in Intents |-> "none"]
  /\ quota \in Used
  /\ platform = [b \in Books |-> 0]
  /\ bookcnt = {}
  /\ inflight = [b \in Books |-> {}]
  /\ freed = {}
  /\ queued = [i \in Intents |-> FALSE]
  /\ sent = [i \in Intents |-> FALSE]
  /\ wire = {}
  /\ pc = [i \in Intents |-> "new"]
  /\ rpc = "idle"
  /\ cur \in Intents
  /\ rgate = "none"
  /\ faults = 0

---------------------------------------------------------------------------
(* Definitions headed "Slip" are plausible mistakes in the definition that *)
(* follows them; nothing uses them but the runs that show that a property  *)
(* notices the mistake.                                                    *)

(* Slip: the quota is compared without what is asked for.                  *)
QuotaWithoutAsk(i) == QuotaMax > 0 /\ quota >= QuotaMax

(* The checks of gates.lua, atomic in Redis.                               *)
OverQuota(i)    == QuotaMax > 0 /\ quota + Size[i] > QuotaMax
OverPlatform(i) == PlatformMax > 0 /\ platform[Book[i]] + Size[i] > PlatformMax
OverBooks(i)    == Book[i] \notin bookcnt /\ Cardinality(bookcnt) + 1 > BooksMax
BookBusy(i)     == inflight[Book[i]] # {}

(* Slip: the inflight set is not looked at.                                *)
IgnoresBusyBook(i) == OverQuota(i) \/ OverPlatform(i) \/ OverBooks(i)

Refused(i) == OverQuota(i) \/ OverPlatform(i) \/ OverBooks(i) \/ BookBusy(i)

(* Counted against the platform's own model key, if the book uses it.      *)
Counted(count, b, n) == IF PlatformMax > 0 THEN [count EXCEPT ![b] = n] ELSE count

(* gates.lua, "fresh": an intent that has a marker keeps its first result; *)
(* otherwise it is charged and recorded, or the refusal is recorded.       *)
RunGates(i) ==
  \/ /\ marker[i] # "none"
     /\ UNCHANGED redis
  \/ /\ marker[i] = "none"
     /\ Refused(i) \/ BudgetGate
     /\ marker' = [marker EXCEPT ![i] = "rejected"]
     /\ UNCHANGED <<quota, platform, bookcnt, inflight, freed>>
  \/ /\ marker[i] = "none"
     /\ ~Refused(i)
     /\ marker' = [marker EXCEPT ![i] = "accepted"]
     /\ quota' = quota + Size[i]
     /\ platform' = Counted(platform, Book[i], platform[Book[i]] + Size[i])
     /\ bookcnt' = bookcnt \cup {Book[i]}
     /\ inflight' = [inflight EXCEPT ![Book[i]] = @ \cup {i}]
     /\ UNCHANGED freed

(* Slip: compensate.lua without the check that the receipt is accepted.    *)
RefundsAnything(i) == TRUE

(* compensate.lua acts on an accepted marker only.                         *)
Refundable(i) == marker[i] = "accepted"

Less(n, d) == IF d < n THEN n - d ELSE 0

RunCompensate(i) ==
  IF Refundable(i)
  THEN /\ marker' = [marker EXCEPT ![i] = "compensated"]
       /\ quota' = Less(quota, Size[i])
       /\ platform' = Counted(platform, Book[i], Less(platform[Book[i]], Size[i]))
       /\ inflight' = [inflight EXCEPT ![Book[i]] = @ \ {i}]
       /\ UNCHANGED <<bookcnt, freed>>
  ELSE UNCHANGED redis

(* The inflight set outlives its hour (EXPIRE 3600).                       *)
InflightExpires(b) ==
  /\ inflight[b] # {}
  /\ inflight' = [inflight EXCEPT ![b] = {}]
  /\ freed' = freed \cup {i \in inflight[b] : task[i] # "finished"}
  /\ UNCHANGED <<marker, quota, platform, bookcnt, pg, broker, wire, pc, worker>>

---------------------------------------------------------------------------
(* PostgreSQL transactions shared by the request handler and the replay.   *)

Outcome(i, g, p) == gate' = [gate EXCEPT ![i] = g] /\ pub' = [pub EXCEPT ![i] = p]

(* A queue row of the intent exists: its message may be out.               *)
OutboxPossible(i) == outbox[i] # "none"

(* settle_rejected_guest: the receipt is released only for a proved        *)
(* negative intake with no possible message.                               *)
Settles(i) == /\ gate[i] \in {"rejected", "compensated"}
              /\ pub[i] \in {"pending", "rejected"}
              /\ ~OutboxPossible(i)

Settle(i) ==
  /\ IF Settles(i)
     THEN /\ pub' = [pub EXCEPT ![i] = "not_attempted"]
          /\ guest' = [guest EXCEPT ![i] = IF @ = "reserved" THEN "released" ELSE @]
     ELSE UNCHANGED <<pub, guest>>
  /\ UNCHANGED <<gate, outbox, task>>

Command(op, who, i) == [op |-> op, by |-> who, intent |-> i]

(* The frames of a step: what reaches beyond its process.                  *)
Locally       == UNCHANGED <<pg, redis, broker, wire>>
OnlyLane      == UNCHANGED <<gate, pub, outbox, guest, task, redis, broker, wire>>
Write(i, g, p) == Outcome(i, g, p) /\ UNCHANGED <<outbox, guest, task, lane, redis, broker, wire>>
Send(op, who, i) == /\ wire' = wire \cup {Command(op, who, i)}
                    /\ UNCHANGED <<pg, redis, broker>>

---------------------------------------------------------------------------
(* enqueue: the request handler of intent i, one step per transaction or   *)
(* command.                                                                *)

Goto(i, step) == pc' = [pc EXCEPT ![i] = step]

At(i, from, to) == pc[i] = from /\ Goto(i, to) /\ UNCHANGED worker

(* The handler ends, with an answer or an exception, and the lane with it. *)
Exit(i, from) == /\ At(i, from, "done")
                 /\ lane' = [lane EXCEPT ![i] = IF @ = "api" THEN "free" ELSE @]

(* Guest receipt and intent in one transaction, before any other effect.   *)
Register(i) ==
  /\ At(i, "new", "lane")
  /\ gate' = [gate EXCEPT ![i] = "pending"]
  /\ guest' = [guest EXCEPT ![i] = IF i \in Guests THEN "reserved" ELSE "none"]
  /\ UNCHANGED <<pub, outbox, task, lane, redis, broker, wire>>

(* Only a fresh intake goes on; a busy lane or one a replay has settled    *)
(* ends the request.                                                       *)
TakeLane(i) ==
  /\ IF /\ lane[i] = "free" /\ pub[i] \notin {"unknown", "published"}
        /\ gate[i] \notin {"rejected", "compensated"}
     THEN At(i, "lane", "mark") /\ lane' = [lane EXCEPT ![i] = "api"]
     ELSE Exit(i, "lane")
  /\ OnlyLane

MarkGate(i)  == At(i, "mark", "gates") /\ Write(i, "unknown", pub[i])

SendGates(i) == At(i, "gates", "wait_gates") /\ Send("gates", "api", i)

(* No answer of the gates in time: EnqueueUnavailable("gates").            *)
GatesTimeout(i) == Exit(i, "wait_gates") /\ OnlyLane

WriteGate(i) == \/ At(i, "accepted", "owner")  /\ Write(i, "accepted", pub[i])
                \/ At(i, "rejected", "settle") /\ Write(i, "rejected", pub[i])

SettleApi(i) == Settle(i) /\ Exit(i, "settle") /\ UNCHANGED <<redis, broker, wire>>

(* queue:task-owner is set, or Redis fails and the charge is refunded.     *)
SetOwner(i)   == At(i, "owner", "mark_pub") /\ Locally
OwnerFails(i) == At(i, "owner", "refund") /\ Locally

MarkPublication(i) == At(i, "mark_pub", "publish") /\ Write(i, gate[i], "unknown")

SendPublish(i) == At(i, "publish", "wait_publish") /\ Send("publish", "api", i)

(* No connection: publish_once of a guest says the message was not sent,   *)
(* publish lets the caller assume it may have been.                        *)
PublishUnsent(i) == IF i \in Guests THEN At(i, "publish", "refund") /\ Locally
                                    ELSE Exit(i, "publish") /\ OnlyLane

(* Nack or unroutable: the broker does not have the message.               *)
PublishRefused(i) ==
  /\ At(i, "wait_publish", "refund")
  /\ Command("publish", "api", i) \in wire
  /\ wire' = wire \ {Command("publish", "api", i)}
  /\ UNCHANGED <<pg, redis, broker>>

(* Slip: a lost confirm is handled like a nack.                            *)
TimeoutRefunds(i) == At(i, "wait_publish", "refund") /\ Locally

(* The confirm does not come: the message may be in the queue or get there *)
(* later, so nothing is refunded.                                          *)
PublishTimeout(i) == Exit(i, "wait_publish") /\ OnlyLane

WritePublished(i) ==
  /\ Exit(i, "published")
  /\ Outcome(i, gate[i], "published")
  /\ UNCHANGED <<outbox, guest, task, redis, broker, wire>>

(* refund_if_definite: recheck, mark, compensate, record, settle.          *)
RefundCheck(i) ==
  /\ IF pub[i] = "published" \/ OutboxPossible(i)
     THEN Exit(i, "refund")
     ELSE At(i, "refund", "refund_mark") /\ UNCHANGED lane
  /\ OnlyLane

RefundMark(i) == At(i, "refund_mark", "compensate") /\ Write(i, "unknown", "rejected")

SendCompensate(i) == At(i, "compensate", "wait_compensate") /\ Send("compensate", "api", i)

CompensateTimeout(i) == At(i, "wait_compensate", "uncompensated") /\ Locally

WriteCompensated(i) ==
  \/ At(i, "compensated", "settle")   /\ Write(i, "compensated", pub[i])
  \/ At(i, "uncompensated", "settle") /\ Write(i, "unknown", pub[i])

(* The API process dies, or a commit fails: what is on the wire stays.     *)
ApiCrash(i) == pc[i] \notin {"new", "done"} /\ Exit(i, pc[i]) /\ OnlyLane

---------------------------------------------------------------------------
(* What Redis and RabbitMQ do with a command, and who hears of it.  An     *)
(* answer that comes too late is a timeout taken before the command is     *)
(* applied.                                                                *)

Listening(m, apiStep, replayStep) ==
  IF m.by = "api" THEN pc[m.intent] = apiStep ELSE rpc = replayStep /\ cur = m.intent

Answer(m, step) ==
  IF m.by = "api" THEN Goto(m.intent, step) /\ UNCHANGED worker
                  ELSE rpc' = step /\ UNCHANGED <<cur, rgate, pc>>

ApplyGates(m) ==
  /\ m \in wire /\ m.op = "gates"
  /\ wire' = wire \ {m}
  /\ RunGates(m.intent)
  /\ IF Listening(m, "wait_gates", "none")
     THEN Answer(m, IF marker'[m.intent] = "accepted" THEN "accepted" ELSE "rejected")
     ELSE UNCHANGED <<pc, worker>>
  /\ UNCHANGED <<pg, broker>>

(* A repeated compensation answers like the first; a replay that hears     *)
(* that nothing was refunded takes it for no answer.                       *)
ApplyCompensate(m) ==
  /\ m \in wire /\ m.op = "compensate"
  /\ wire' = wire \ {m}
  /\ RunCompensate(m.intent)
  /\ IF /\ Listening(m, "wait_compensate", "wait_compensate")
        /\ m.by = "api" \/ marker'[m.intent] = "compensated"
     THEN Answer(m, IF marker'[m.intent] = "compensated" THEN "compensated" ELSE "uncompensated")
     ELSE UNCHANGED <<pc, worker>>
  /\ UNCHANGED <<pg, broker>>

ApplyPublish(m) ==
  /\ m \in wire /\ m.op = "publish"
  /\ wire' = wire \ {m}
  /\ queued' = [queued EXCEPT ![m.intent] = TRUE]
  /\ sent' = [sent EXCEPT ![m.intent] = TRUE]
  /\ IF Listening(m, "wait_publish", "wait_publish")
     THEN Answer(m, IF m.by = "api" THEN "published" ELSE "confirmed")
     ELSE UNCHANGED <<pc, worker>>
  /\ UNCHANGED <<pg, redis>>

CommandLost(m) ==
  /\ m \in wire
  /\ wire' = wire \ {m}
  /\ UNCHANGED <<pg, redis, broker, pc, worker>>

---------------------------------------------------------------------------
(* replay_admissions and publish_handoff, by a worker that has the lane.   *)

RAt(from, to) == rpc = from /\ rpc' = to /\ UNCHANGED <<cur, rgate, pc>>

(* The replay of one row is over, or the worker died: the lane goes.       *)
RDone(from) == /\ rpc = from /\ rpc' = "idle"
               /\ rgate' = "none"
               /\ lane' = [lane EXCEPT ![cur] = "free"]
               /\ UNCHANGED <<cur, pc>>

(* Slip: a rejected publication is taken for the end of the intake.        *)
OpenPublications == {"pending", "unknown"}

Replayable == {"pending", "unknown", "rejected"}

(* Slip: a gate once marked unknown is not reconciled.                     *)
PendingOnly == {"pending"}

Undecided == {"pending", "unknown"}

RBeginWith(i, g, step) ==
  /\ rpc = "idle" /\ rpc' = step
  /\ lane[i] = "free" /\ lane' = [lane EXCEPT ![i] = "replay"]
  /\ cur' = i
  /\ rgate' = g
  /\ OnlyLane /\ UNCHANGED pc

RTake(i) ==
  /\ gate[i] # "none" /\ pub[i] \in Replayable
  /\ RBeginWith(i, gate[i], IF gate[i] \in Undecided THEN "reconcile" ELSE "decide")

(* A row of the outbox is published by itself if its intent allows it.     *)
RTakeHandoff(i) ==
  /\ outbox[i] \in {"pending", "unknown"}
  /\ gate[i] = "accepted" /\ pub[i] \notin {"rejected", "not_attempted"}
  /\ RBeginWith(i, "none", "begin")

(* Slip: a missing marker is taken for a refusal.                          *)
AbsenceIsRefusal(m) == IF m = "none" THEN "rejected" ELSE m

(* reconcile_admission_gate: gates.lua in "recover" mode only looks, and   *)
(* absence proves nothing.                                                 *)
Recovered(m) == IF m = "none" THEN "unknown" ELSE m

RReconcile ==
  /\ rpc = "reconcile" /\ rpc' = "write_gate"
  /\ rgate' = Recovered(marker[cur])
  /\ Locally /\ UNCHANGED <<cur, pc>>

RWriteGate == RAt("write_gate", "decide") /\ Write(cur, rgate, pub[cur])

MayReplay(i) == rgate = "accepted" /\ pub[i] # "rejected"

(* A rejected publication is compensated again, a negative gate settled.   *)
RDecide ==
  /\ \/ MayReplay(cur) /\ RAt("decide", "record") /\ UNCHANGED lane
     \/ /\ ~MayReplay(cur) /\ rgate = "accepted" /\ ~OutboxPossible(cur)
        /\ RAt("decide", "compensate") /\ UNCHANGED lane
     \/ rgate \in {"rejected", "compensated"} /\ RAt("decide", "settle") /\ UNCHANGED lane
     \/ rgate \in Undecided /\ RDone("decide")
  /\ OnlyLane

RSendCompensate == RAt("compensate", "wait_compensate") /\ Send("compensate", "replay", cur)

(* No answer, or the answer that nothing was refunded: left for later.     *)
RCompensateFails == RDone("wait_compensate") /\ OnlyLane

RWriteCompensated == RAt("compensated", "settle") /\ Write(cur, "compensated", pub[cur])

RSettle == Settle(cur) /\ RDone("settle") /\ UNCHANGED <<redis, broker, wire>>

(* A task that is over needs no message; else the outbox row is written.   *)
RRecord ==
  /\ IF task[cur] = "finished"
     THEN RDone("record") /\ UNCHANGED outbox
     ELSE /\ RAt("record", "mark")
          /\ outbox' = [outbox EXCEPT ![cur] = IF @ = "none" THEN "pending" ELSE @]
          /\ UNCHANGED lane
  /\ UNCHANGED <<gate, pub, guest, task, redis, broker, wire>>

(* Unknown before ownership and publication: no crash permits a refund.    *)
RMark  == RAt("mark", "owner") /\ Write(cur, gate[cur], "unknown")

ROwner == RAt("owner", "begin") /\ Locally

OutboxBecomes(state) == /\ outbox' = [outbox EXCEPT ![cur] = state]
                        /\ UNCHANGED <<gate, pub, guest, task, lane, redis, broker, wire>>

(* _publish_handoff: unknown before the attempt, published after the       *)
(* confirm; a row already published answers at once.                       *)
RBegin == IF outbox[cur] = "published" THEN RAt("begin", "receipt_published") /\ Locally
                                       ELSE RAt("begin", "publish") /\ OutboxBecomes("unknown")

RSendPublish == RAt("publish", "wait_publish") /\ Send("publish", "replay", cur)

(* Not sent, or not confirmed: both are unknown to a replay.               *)
RNotSent      == RAt("publish", "receipt_unknown") /\ Locally
RNotConfirmed == RAt("wait_publish", "receipt_unknown") /\ Locally

RConfirmed == RAt("confirmed", "receipt_published") /\ OutboxBecomes("published")

(* Only replay_admissions writes the receipt to the intent.                *)
RReceipt ==
  /\ \/ RDone("receipt_published") /\ Outcome(cur, gate[cur], IF rgate = "none" THEN pub[cur] ELSE "published")
     \/ RDone("receipt_unknown")   /\ Outcome(cur, gate[cur], IF rgate = "none" THEN pub[cur] ELSE "unknown")
  /\ UNCHANGED <<outbox, guest, task, redis, broker, wire>>

RCrash == rpc # "idle" /\ RDone(rpc) /\ OnlyLane

---------------------------------------------------------------------------
(* The worker, as far as intake sees it: a message whose intent has no     *)
(* authority is dead-lettered; the first delivery of a task runs it.  A    *)
(* message may be delivered again.                                         *)

Authorised(i) == gate[i] = "accepted" /\ pub[i] \notin {"rejected", "not_attempted"}

Consume(i) ==
  /\ queued[i]
  /\ \E again \in BOOLEAN : queued' = [queued EXCEPT ![i] = again]
  /\ task' = [task EXCEPT ![i] = IF @ = "none" /\ Authorised(i) THEN "running" ELSE @]
  /\ UNCHANGED <<gate, pub, outbox, guest, lane, redis, sent, wire, pc, worker>>

Finish(i) ==
  /\ task[i] = "running"
  /\ task' = [task EXCEPT ![i] = "finished"]
  /\ freed' = freed \ {i}
  /\ UNCHANGED <<gate, pub, outbox, guest, lane, marker, quota, platform, bookcnt, inflight,
                 broker, wire, pc, worker>>

(* _finish: the worker gives the place of a task in its book up, with its  *)
(* end or before: one attempt before the last, when a check fails or finds *)
(* nothing to do, when a run stops for its budget or a review.             *)
ReleaseInflight(i) ==
  /\ task[i] # "none" \/ (queued[i] /\ Authorised(i))
  /\ i \in inflight[Book[i]]
  /\ inflight' = [inflight EXCEPT ![Book[i]] = @ \ {i}]
  /\ freed' = IF task[i] = "finished" THEN freed ELSE freed \cup {i}
  /\ UNCHANGED <<marker, quota, platform, bookcnt, pg, broker, wire, pc, worker>>

---------------------------------------------------------------------------
ApiTimeout(i) == GatesTimeout(i) \/ PublishTimeout(i) \/ CompensateTimeout(i)

(* A command that was lost: its sender gives up in the end, and that costs *)
(* no further fault.                                                       *)
Unanswered(who, i) == \A m \in wire : ~(m.by = who /\ m.intent = i)

ApiStep(i) == \/ Register(i) \/ TakeLane(i) \/ MarkGate(i) \/ SendGates(i) \/ WriteGate(i)
              \/ SettleApi(i) \/ SetOwner(i) \/ MarkPublication(i) \/ SendPublish(i)
              \/ WritePublished(i) \/ RefundCheck(i) \/ RefundMark(i) \/ SendCompensate(i)
              \/ WriteCompensated(i)
              \/ Unanswered("api", i) /\ ApiTimeout(i)

ReplayStep == \/ RReconcile \/ RWriteGate \/ RDecide \/ RSendCompensate \/ RWriteCompensated
              \/ RSettle \/ RRecord \/ RMark \/ ROwner \/ RBegin \/ RSendPublish
              \/ RConfirmed \/ RReceipt
              \/ Unanswered("replay", cur) /\ (RCompensateFails \/ RNotConfirmed)

StoreStep(m) == ApplyGates(m) \/ ApplyCompensate(m) \/ ApplyPublish(m)

Fault == \/ \E i \in Intents : \/ ApiTimeout(i) \/ OwnerFails(i) \/ PublishUnsent(i)
                               \/ PublishRefused(i) \/ ApiCrash(i)
         \/ \E m \in wire : CommandLost(m)
         \/ RCompensateFails \/ RNotSent \/ RNotConfirmed \/ RCrash
         \/ \E b \in Books : InflightExpires(b)

Next ==
  \/ /\ \/ \E i \in Intents : ApiStep(i) \/ RTake(i) \/ RTakeHandoff(i) \/ Consume(i)
                             \/ Finish(i) \/ ReleaseInflight(i)
        \/ \E m \in wire : StoreStep(m)
        \/ ReplayStep
     /\ UNCHANGED faults
  \/ /\ faults < MaxFaults
     /\ Fault
     /\ faults' = faults + 1

Spec == Init /\ [][Next]_vars

(* Programs run on, stores answer, and the rotating cursor of              *)
(* replay_handoffs comes to every intent again and again.                  *)
Fairness ==
  /\ \A i \in Intents : /\ WF_vars(ApiStep(i) /\ UNCHANGED faults)
                        /\ SF_vars(RTake(i) /\ UNCHANGED faults)
  /\ WF_vars(ReplayStep /\ UNCHANGED faults)
  /\ WF_vars((\E m \in wire : StoreStep(m)) /\ UNCHANGED faults)

FairSpec == Spec /\ Fairness

---------------------------------------------------------------------------
Charged == {i \in Intents : marker[i] = "accepted"}

(* The counters hold what the accepted markers stand for, nothing else:    *)
(* no crash, late command or repeated refund leaves a charge behind or     *)
(* takes one twice (gates.lua, compensate.lua).                            *)
LedgerExact ==
  /\ quota - MapThenSumSet(LAMBDA i : Size[i], Charged) \in Used
  /\ PlatformMax > 0 =>
       \A b \in Books :
         platform[b] = MapThenSumSet(LAMBDA i : Size[i], {i \in Charged : Book[i] = b})

(* A guest gets a lifetime unit back only for an intake that is charged    *)
(* nothing and can never be sent (settle_rejected_guest).                  *)
GuestRefundOnlyNegative ==
  \A i \in Intents : guest[i] = "released" =>
    /\ marker[i] \in {"rejected", "compensated"}
    /\ ~sent[i]

(* A message that reached the broker never loses its authority: the        *)
(* consumer does not dead-letter a task that was charged.                  *)
MessagesStayAuthorised == \A i \in Intents : queued[i] => Authorised(i)

(* A book takes one task at a time: when an intake is charged, whatever    *)
(* came late or twice, the task of every other charged intake of its book  *)
(* is over, or lost its place to a worker that let it go before its end or *)
(* to the EXPIRE of the set (gates.lua against processor.py: _finish).     *)
OneTaskPerBook ==
  [][\A i \in Charged' \ Charged, j \in Charged :
       Book[j] = Book[i] => task[j] = "finished" \/ j \in freed]_marker

(* Refinement: module IntakeLedger.                                        *)
Fate(i) == CASE sent[i] -> "delivered"
             [] ~sent[i] /\ marker[i] = "accepted" -> "charged"
             [] ~sent[i] /\ marker[i] = "compensated" -> "refunded"
             [] ~sent[i] /\ marker[i] = "rejected" -> "refused"
             [] OTHER -> "open"

Ledger == INSTANCE IntakeLedger WITH fate <- [i \in Intents |-> Fate(i)]

(* Whatever fails, an intent is charged at most once and within the quota, *)
(* and ends refused, refunded or delivered, never two of them.             *)
LedgerSpec == Ledger!Spec

(* Once the faults end, no charge is left hanging: every accepted intake   *)
(* gets its message out or its charge back (replay_admissions).            *)
ChargedIsResolved ==
  \A i \in Intents : marker[i] = "accepted" ~> sent[i] \/ marker[i] = "compensated"

(* A guest's unit is not lost with the answer of a gate that decided: the  *)
(* receipt is released or the task sent.                                   *)
GuestIsResolved ==
  \A i \in Intents : guest[i] = "reserved" /\ marker[i] # "none"
                       ~> sent[i] \/ guest[i] = "released"
============================================================================

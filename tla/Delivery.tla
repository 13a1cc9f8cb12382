------------------------------ MODULE Delivery ------------------------------
(***************************************************************************)
(* From the queue to the end of a task: the consumer's loop and its        *)
(* decisions (worker/consumer.py), the processing of one message under two *)
(* leases (worker/processor.py) and the outbox its continuations go        *)
(* through (worker/handoff.py).                                            *)
(*                                                                         *)
(* The tasks are of one book.  RabbitMQ delivers at least once: a delivery *)
(* that was not acknowledged when its connection ends comes again, while   *)
(* the worker that had it may still be at work on it.  The leases are      *)
(* those of TaskLock, seen from outside: a live worker keeps its leases,   *)
(* those of a dead one go in the end, each by itself.                      *)
(***************************************************************************)
EXTENDS Naturals, Sequences, SequencesExt, FiniteSets, Bags

CONSTANTS Tasks, Workers,
          Copies,      \* messages each task starts with: an intake of unknown outcome is sent again
          MaxRetries,  \* worker_max_retries
          MaxTurns,    \* bound: retries and further slices recorded in a behaviour
          MaxFaults,   \* bound: crashes and failed calls in a behaviour
          Nobody, Orphan  \* holders of a lease that nobody, or a dead worker, has

ASSUME DeliveryAssumption ==
  /\ {MaxRetries, MaxTurns, MaxFaults} \subseteq Nat
  /\ Copies \in Nat \ {0}
  /\ Tasks # {}
  /\ Nobody \notin Workers /\ Orphan \notin Workers /\ Nobody # Orphan

Hops == {"retry", "defer", "yield"}

(* A message of a task, named by the hops it made since intake: each hop   *)
(* makes a new body or predecessor and with it a new operation id.         *)
Path(m)     == m[2]
TaskOf(m)   == m[1]
Hop(m, d)   == <<TaskOf(m), Append(Path(m), d)>>
Count(m, d) == Cardinality({i \in DOMAIN Path(m) : Path(m)[i] = d})
Retries(m)  == Count(m, "retry")
First(t)    == <<t, <<>>>>
NoMessage   == First(CHOOSE t \in Tasks : TRUE)   \* of an idle worker

With(queue, m)    == queue (+) SetToBag({m})
Without(queue, m) == queue (-) SetToBag({m})

VARIABLES
  row,       \* tasks.status: none, queued, running, awaiting_plan, or over
  outbox,    \* QueueHandoff: each recorded operation: pending, unknown, published
  lane,      \* the worker that publishes for a task, or Nobody
  inflight,  \* rate:inflight of the book
  ready,     \* queue:tasks, a bag of messages
  delay,     \* queue:delay, a bag of messages
  dlq,       \* queue:dlq
  bookLease, taskLease,  \* lock:book, lock:task: a worker, Nobody or Orphan
  pc, msg,   \* where each worker is, and with which message
  holds,     \* does the worker still hold its delivery unacknowledged?
  verdict,   \* what it made of the message: see Ends, Requeue and Hops
  acked,     \* by task, the verdicts of Lets with which a message went (history)
  faults

queues  == <<ready, delay, dlq>>
leases  == <<bookLease, taskLease>>
workers == <<pc, msg, holds, verdict>>
vars    == <<row, outbox, lane, inflight, queues, leases, workers, acked, faults>>

(* The verdicts that end a message: skip, terminal and waiting find or     *)
(* leave the task at rest.  The others do not: busy is process's "skip"    *)
(* for a task lease that somebody has, left its "waiting" for a run that   *)
(* was superseded or stopped for maintenance, error an exception nobody    *)
(* expected.                                                               *)
Lets == {"busy", "left", "error"}
Ends == {"skip", "terminal", "waiting"} \cup Lets

Init ==
  /\ row \in [Tasks -> {"none", "over"}]
  /\ outbox = [m \in {} |-> "pending"]
  /\ lane = [t \in Tasks |-> Nobody]
  /\ inflight = {t \in Tasks : row[t] = "none"}
  /\ ready = [m \in {First(t) : t \in inflight} |-> Copies]
  /\ delay = EmptyBag
  /\ dlq = {}
  /\ bookLease = Nobody
  /\ taskLease = [t \in Tasks |-> Nobody]
  /\ pc = [w \in Workers |-> "idle"]
  /\ msg = [w \in Workers |-> NoMessage]
  /\ holds = [w \in Workers |-> FALSE]
  /\ verdict = [w \in Workers |-> "skip"]
  /\ acked = [t \in Tasks |-> {}]
  /\ faults \in 0..MaxFaults

Task(w) == TaskOf(msg[w])

At(w, from, to)  == pc[w] = from /\ pc' = [pc EXCEPT ![w] = to]
Idle(w, from)    == /\ At(w, from, "idle")
                    /\ msg' = [msg EXCEPT ![w] = NoMessage]
                    /\ verdict' = [verdict EXCEPT ![w] = "skip"]
Judge(w, v)      == verdict' = [verdict EXCEPT ![w] = v]
Quiet            == UNCHANGED <<outbox, lane, queues>>
WorkOnly         == UNCHANGED <<row, inflight, outbox, lane, queues, leases>>

---------------------------------------------------------------------------
(* process: the book, then the task, then the status in PostgreSQL.        *)

Take(w) == \E m \in DOMAIN ready :
  /\ At(w, "idle", "book")
  /\ ready' = Without(ready, m)
  /\ msg' = [msg EXCEPT ![w] = m]
  /\ holds' = [holds EXCEPT ![w] = TRUE]
  /\ UNCHANGED <<row, inflight, outbox, lane, delay, dlq, leases, verdict>>

(* Slip: a message that finds the book busy is dropped.                    *)
BusyIsSkipped == "skip"

BusyBook == "defer"

LockBook(w) ==
  /\ \/ /\ bookLease = Nobody
        /\ bookLease' = w
        /\ At(w, "book", "task")
        /\ UNCHANGED verdict
     \/ /\ bookLease # Nobody
        /\ Judge(w, BusyBook)
        /\ At(w, "book", "decide")
        /\ UNCHANGED bookLease
  /\ Quiet /\ UNCHANGED <<row, inflight, taskLease, msg, holds>>

(* Somebody else has the task: the book goes back and the message is       *)
(* skipped; the gate is left alone.                                        *)
LockTask(w) ==
  /\ IF taskLease[Task(w)] = Nobody
     THEN /\ taskLease' = [taskLease EXCEPT ![Task(w)] = w]
          /\ At(w, "task", "check")
          /\ UNCHANGED <<bookLease, verdict>>
     ELSE /\ bookLease' = IF bookLease = w THEN Nobody ELSE bookLease
          /\ Judge(w, "busy")
          /\ At(w, "task", "decide")
          /\ UNCHANGED taskLease
  /\ Quiet /\ UNCHANGED <<row, inflight, msg, holds>>

(* Slip: a finished task runs again.                                       *)
RunnableAgain(status) == status # "awaiting_plan"

Runnable(status) == status \in {"none", "queued", "running"}

(* The row is materialised or set running, or the message is a duplicate.  *)
Check(w) ==
  /\ IF Runnable(row[Task(w)])
     THEN /\ row' = [row EXCEPT ![Task(w)] = "running"]
          /\ At(w, "check", "run")
          /\ UNCHANGED verdict
     ELSE /\ Judge(w, "skip")
          /\ At(w, "check", "unlock_task")
          /\ UNCHANGED row
  /\ Quiet /\ UNCHANGED <<inflight, leases, msg, holds>>

(* An exception of the check, or of the budget's row, which is made after  *)
(* the row of the task runs: retryable, unexpected, or a maintenance that  *)
(* began meanwhile ("hold").                                               *)
CheckFails(w) ==
  /\ \/ \E v \in {"requeue", "error"} : Judge(w, v) /\ UNCHANGED row
     \/ /\ Runnable(row[Task(w)])
        /\ \E v \in {"requeue", "error"} : Judge(w, v)
        /\ row' = [row EXCEPT ![Task(w)] = "running"]
     \/ Judge(w, "hold") /\ UNCHANGED row
  /\ At(w, "check", "unlock_task")
  /\ Quiet /\ UNCHANGED <<inflight, leases, msg, holds>>

Turns == Cardinality({op \in DOMAIN outbox : Last(Path(op)) \in {"retry", "yield"}})

(* _run: what became of the task.  A slice that yields queues the task; a  *)
(* run that is superseded, or stopped for maintenance without its proof,   *)
(* leaves the row running.                                                 *)
Run(w) == \E v \in {"terminal", "waiting", "left", "retry", "yield"} :
  /\ v = "yield" => Turns < MaxTurns
  /\ v = "retry" => Turns < MaxTurns \/ Retries(msg[w]) >= MaxRetries
  /\ Judge(w, v)
  /\ row' = [row EXCEPT ![Task(w)] = CASE v = "terminal" -> "over"
                                       [] v = "waiting"  -> "awaiting_plan"
                                       [] v = "yield"    -> "queued"
                                       [] v \in {"left", "retry"} -> @]
  /\ At(w, "run", "unlock_task")
  /\ Quiet /\ UNCHANGED <<inflight, leases, msg, holds>>

(* A release deletes the worker's own lease only.                          *)
UnlockTask(w) ==
  /\ At(w, "unlock_task", "unlock_book")
  /\ taskLease' = [taskLease EXCEPT ![Task(w)] = IF @ = w THEN Nobody ELSE @]
  /\ Quiet /\ UNCHANGED <<row, inflight, bookLease, msg, holds, verdict>>

UnlockBook(w) ==
  /\ At(w, "unlock_book", "finish")
  /\ bookLease' = IF bookLease = w THEN Nobody ELSE bookLease
  /\ Quiet /\ UNCHANGED <<row, inflight, taskLease, msg, holds, verdict>>

(* Slip: the attempt after which the message is dead is never reached.     *)
PastFinal(m) == Retries(m) > MaxRetries

(* _finish: whether the book is opened for the next intake.  That is one   *)
(* attempt before the message is dead-lettered: see Exhausted.             *)
FinalAttempt(m) == Retries(m) + 1 >= MaxRetries
OpensBook(v, m) == /\ v \notin {"waiting", "left", "hold", "yield"}
                   /\ v = "retry" => FinalAttempt(m)

Finish(w) ==
  /\ At(w, "finish", "decide")
  /\ inflight' = IF OpensBook(verdict[w], msg[w]) THEN inflight \ {Task(w)} ELSE inflight
  /\ Quiet /\ UNCHANGED <<row, leases, msg, holds, verdict>>

---------------------------------------------------------------------------
(* _on_message: what the consumer makes of the verdict.                    *)

Release(w) == holds' = [holds EXCEPT ![w] = FALSE]

Exhausted(w) == verdict[w] = "retry" /\ Retries(msg[w]) >= MaxRetries
GoesOn(w)    == verdict[w] \in Hops /\ ~Exhausted(w)

(* The connection is gone: the broker has the message back, and what the   *)
(* worker decided is dropped with the exception.                           *)
Dropped(w) ==
  /\ ~holds[w]
  /\ Idle(w, "decide")
  /\ WorkOnly /\ UNCHANGED <<holds, acked>>

DeadLetter(w) ==
  /\ holds[w] /\ Exhausted(w)
  /\ Idle(w, "decide")
  /\ Release(w)
  /\ dlq' = dlq \cup {msg[w]}
  /\ UNCHANGED <<row, inflight, outbox, lane, ready, delay, leases>>

(* Put back, or left unacknowledged until the connection is closed.        *)
Requeue(w) ==
  /\ holds[w] /\ verdict[w] \in {"requeue", "hold"}
  /\ Idle(w, "decide")
  /\ Release(w)
  /\ ready' = With(ready, msg[w])
  /\ UNCHANGED <<row, inflight, outbox, lane, delay, dlq, leases>>

AckOnly(w) ==
  /\ holds[w] /\ verdict[w] \in Ends
  /\ Idle(w, "decide")
  /\ Release(w)
  /\ acked' = [acked EXCEPT ![Task(w)] = @ \cup ({verdict[w]} \cap Lets)]
  /\ WorkOnly

(* record_handoff commits before the acknowledgement; an operation that is *)
(* recorded already keeps its state.                                       *)
Record(w) ==
  /\ holds[w] /\ GoesOn(w)
  /\ At(w, "decide", "ack")
  /\ LET op == Hop(msg[w], verdict[w])
     IN  /\ msg' = [msg EXCEPT ![w] = op]
         /\ outbox' = [m \in DOMAIN outbox \cup {op} |->
                          IF m \in DOMAIN outbox THEN outbox[m] ELSE "pending"]
  /\ UNCHANGED <<row, inflight, lane, queues, leases, holds, verdict>>

(* From here msg is the operation to publish.                              *)
Ack(w) ==
  /\ At(w, "ack", "lane")
  /\ Release(w)
  /\ WorkOnly /\ UNCHANGED <<msg, verdict>>

---------------------------------------------------------------------------
(* publish_handoff, after an acknowledgement or from replay_handoffs.      *)

(* Slip: an operation whose outcome is unknown is not tried again.         *)
NeverTriedOnly == {"pending"}

Unfinished == {"pending", "unknown"}

Replay(w) == \E op \in DOMAIN outbox :
  /\ outbox[op] \in Unfinished
  /\ At(w, "idle", "lane")
  /\ msg' = [msg EXCEPT ![w] = op]
  /\ WorkOnly /\ UNCHANGED <<holds, verdict>>

LeaveLane(w, from) == Idle(w, from) /\ lane' = [lane EXCEPT ![Task(w)] = Nobody]

(* Slip: the row is marked after the attempt only.                         *)
MarkedLater(state) == state

MarkedBefore(state) == "unknown"

(* One publisher per intake; a busy lane leaves the row for a replay.      *)
BeginPublish(w) ==
  /\ pc[w] = "lane"
  /\ IF lane[Task(w)] # Nobody \/ outbox[msg[w]] = "published"
     THEN Idle(w, "lane") /\ UNCHANGED <<lane, outbox>>
     ELSE /\ At(w, "lane", "send")
          /\ lane' = [lane EXCEPT ![Task(w)] = w]
          /\ outbox' = [outbox EXCEPT ![msg[w]] = MarkedBefore(@)]
          /\ UNCHANGED <<msg, verdict>>
  /\ UNCHANGED <<row, inflight, queues, leases, holds>>

(* A yield goes to the task queue, the rest waits in the delay queue.      *)
Enqueue(m) ==
  IF Last(Path(m)) = "yield"
  THEN ready' = With(ready, m) /\ UNCHANGED <<delay, dlq>>
  ELSE delay' = With(delay, m) /\ UNCHANGED <<ready, dlq>>

SendConfirmed(w) ==
  /\ At(w, "send", "receipt")
  /\ Enqueue(msg[w])
  /\ UNCHANGED <<row, inflight, outbox, lane, leases, msg, holds, verdict>>

(* Not sent, or sent and not confirmed: the row stays unknown.             *)
SendFails(w) ==
  /\ LeaveLane(w, "send")
  /\ Enqueue(msg[w]) \/ UNCHANGED queues
  /\ UNCHANGED <<row, inflight, outbox, leases, holds>>

Receipt(w) ==
  /\ LeaveLane(w, "receipt")
  /\ outbox' = [outbox EXCEPT ![msg[w]] = "published"]
  /\ UNCHANGED <<row, inflight, queues, leases, holds>>

(* The back-off of a message is over.  One that was deferred comes back to *)
(* a free book: to come back earlier only defers it once more.             *)
Expire == \E m \in DOMAIN delay :
  /\ Last(Path(m)) = "defer" => bookLease = Nobody
  /\ delay' = Without(delay, m)
  /\ ready' = With(ready, m)
  /\ UNCHANGED <<row, inflight, outbox, lane, dlq, leases, workers>>

---------------------------------------------------------------------------
(* Faults.                                                                 *)

Redeliver(w) == /\ holds' = [holds EXCEPT ![w] = FALSE]
                /\ ready' = IF holds[w] THEN With(ready, msg[w]) ELSE ready
                /\ UNCHANGED <<delay, dlq>>

(* The delivery a worker holds; after Record, msg is its next hop.         *)
Working(w) == pc[w] \notin {"idle", "ack", "lane", "send", "receipt"}

(* Before any lock: consuming is closed, or the authority of the message   *)
(* cannot be read; it is put back, or its connection ends.                 *)
TurnedAway(w) ==
  /\ Idle(w, "book")
  /\ Redeliver(w)
  /\ UNCHANGED <<row, inflight, outbox, lane, leases>>

(* Redis fails under acquire, with the key set or not: nobody expects its  *)
(* exceptions.  No finally clause is reached: the lease of the book stays  *)
(* with this worker, which goes on to renew it.                            *)
LockFails(w) ==
  /\ \/ At(w, "book", "decide") /\ UNCHANGED taskLease
        /\ bookLease' \in {bookLease, IF bookLease = Nobody THEN Orphan ELSE bookLease}
     \/ At(w, "task", "decide") /\ UNCHANGED bookLease
        /\ taskLease' \in {taskLease,
                           [taskLease EXCEPT ![Task(w)] = IF @ = Nobody THEN Orphan ELSE @]}
  /\ Judge(w, "error")
  /\ Quiet /\ UNCHANGED <<row, inflight, msg, holds>>

(* Redis fails under _finish.                                              *)
FinishFails(w) ==
  /\ OpensBook(verdict[w], msg[w])
  /\ At(w, "finish", "decide")
  /\ Judge(w, "error")
  /\ WorkOnly /\ UNCHANGED <<msg, holds>>

(* The connection is lost: the message is delivered again, the thread that *)
(* processes it goes on.                                                   *)
Disconnect(w) ==
  /\ Working(w) /\ holds[w]
  /\ Redeliver(w)
  /\ UNCHANGED <<row, inflight, outbox, lane, leases, pc, msg, verdict>>

(* record_handoff fails, or the acknowledgement does not get through: the  *)
(* message comes back.                                                     *)
RecordFails(w) ==
  /\ GoesOn(w) /\ Idle(w, "decide")
  /\ Redeliver(w)
  /\ UNCHANGED <<row, inflight, outbox, lane, leases>>

AckLost(w) ==
  /\ At(w, "ack", "lane")
  /\ holds' = [holds EXCEPT ![w] = FALSE]
  /\ ready' = With(ready, <<Task(w), Front(Path(msg[w]))>>)
  /\ UNCHANGED <<row, inflight, outbox, lane, delay, dlq, leases, msg, verdict>>

(* The process dies and starts anew; its leases outlive it.                *)
Orphaned(w, lease) == IF lease = w THEN Orphan ELSE lease

Crash(w) ==
  /\ pc[w] # "idle" \/ bookLease = w
  /\ Idle(w, pc[w])
  /\ \/ Working(w) /\ Redeliver(w)
     \/ /\ pc[w] = "ack"
        /\ holds' = [holds EXCEPT ![w] = FALSE]
        /\ ready' = With(ready, <<Task(w), Front(Path(msg[w]))>>)
        /\ UNCHANGED <<delay, dlq>>
     \/ ~Working(w) /\ pc[w] # "ack" /\ UNCHANGED <<queues, holds>>
  /\ bookLease' = Orphaned(w, bookLease)
  /\ taskLease' = [t \in Tasks |-> Orphaned(w, taskLease[t])]
  /\ lane' = [t \in Tasks |-> IF lane[t] = w THEN Nobody ELSE lane[t]]
  /\ UNCHANGED <<row, inflight, outbox>>

(* A lease of a dead worker runs out, or is taken for stale: two keys with *)
(* a heartbeat each, in any order.                                         *)
Lapse ==
  /\ \/ \E t \in Tasks : /\ taskLease[t] = Orphan
                         /\ taskLease' = [taskLease EXCEPT ![t] = Nobody]
                         /\ UNCHANGED bookLease
     \/ /\ bookLease = Orphan
        /\ bookLease' = Nobody
        /\ UNCHANGED taskLease
  /\ UNCHANGED <<row, inflight, outbox, lane, queues, workers>>

WorkerStep(w) ==
  \/ /\ \/ Take(w) \/ LockBook(w) \/ LockTask(w) \/ Check(w) \/ Run(w)
        \/ UnlockTask(w) \/ UnlockBook(w) \/ Finish(w)
        \/ Dropped(w) \/ DeadLetter(w) \/ Requeue(w) \/ Record(w) \/ Ack(w)
        \/ Replay(w) \/ BeginPublish(w) \/ SendConfirmed(w) \/ Receipt(w)
     /\ UNCHANGED acked
  \/ AckOnly(w)

Fault == \E w \in Workers :
  \/ CheckFails(w) \/ SendFails(w) \/ Disconnect(w) \/ RecordFails(w) \/ AckLost(w) \/ Crash(w)
  \/ TurnedAway(w) \/ LockFails(w) \/ FinishFails(w)

Next ==
  \/ /\ (\E w \in Workers : WorkerStep(w)) \/ ((Expire \/ Lapse) /\ UNCHANGED acked)
     /\ UNCHANGED faults
  \/ /\ faults < MaxFaults
     /\ Fault
     /\ faults' = faults + 1
     /\ UNCHANGED acked

Spec == Init /\ [][Next]_vars

(* Every worker runs on (its loop turns between the queue and the replay), *)
(* delays end, and the leases of the dead go.                              *)
Fairness ==
  /\ \A w \in Workers : WF_vars(WorkerStep(w) /\ UNCHANGED faults)
  /\ WF_vars(Expire /\ UNCHANGED <<acked, faults>>)
  /\ WF_vars(Lapse /\ UNCHANGED <<acked, faults>>)

FairSpec == Spec /\ Fairness

---------------------------------------------------------------------------
Open(t) == row[t] \in {"none", "queued", "running"}

HasMessage(t) ==
  \/ \E m \in DOMAIN ready \cup DOMAIN delay \cup dlq : TaskOf(m) = t
  \/ \E w \in Workers : holds[w] /\ Task(w) = t
  \/ \E op \in DOMAIN outbox : TaskOf(op) = t /\ outbox[op] \in {"pending", "unknown"}

(* No task is forgotten: while it is open, a queue or a delivery has a     *)
(* message of it, or the outbox has one to send (consumer.py: record,      *)
(* acknowledge, publish), unless one was acknowledged for a lease, a run   *)
(* or an exception that said nothing of its task.                          *)
NotForgotten == \A t \in Tasks : Open(t) /\ acked[t] = {} => HasMessage(t)

(* What a worker is delivered has its lineage in the outbox: the row of    *)
(* its operation is unknown or published, never still pending, or          *)
(* delivery_predecessor would dead-letter it (QueueAuthorityUnknown).      *)
DeliveredHasLineage ==
  \A m \in DOMAIN ready \cup DOMAIN delay :
    Path(m) # <<>> => m \in DOMAIN outbox /\ outbox[m] # "pending"

(* Redelivery, duplicates and retries never start a task again that has    *)
(* ended (the second idempotence check of process).                        *)
EndedStaysEnded == [][\A t \in Tasks : row[t] = "over" => row'[t] = "over"]_row

(* An exception between the leases: the book stays with a worker that has  *)
(* no task of it.                                                          *)
Leaked == bookLease \in Workers
          /\ pc[bookLease] \notin {"task", "check", "run", "unlock_task", "unlock_book"}

Dead(t)    == \E m \in dlq : TaskOf(m) = t
Excused(t) == acked[t] # {} \/ Leaked

(* Every task ends, waits for its plan or is dead-lettered, once the       *)
(* faults are over, however its book was busy meanwhile.                   *)
EveryTaskEnds == <>(\A t \in Tasks : ~Open(t) \/ Dead(t) \/ Excused(t))

(* And then its book is opened for the next intake, unless it waits: "not  *)
(* to release would lock the book for ever" (_finish).                     *)
BookIsReopened ==
  <>(\A t \in Tasks : t \notin inflight \/ row[t] = "awaiting_plan" \/ Excused(t))

---------------------------------------------------------------------------
(* processor.py:622-625: the lease of a crashed worker goes by itself, so  *)
(* that the worker of the redelivered message can take it and run.         *)
RedeliveredIsRun == \A t \in Tasks : Open(t) /\ acked[t] \subseteq {"busy"} => HasMessage(t)

=============================================================================

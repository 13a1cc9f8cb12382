--------------------------- MODULE DeliveryProofs ---------------------------
(***************************************************************************)
(* What holds of delivery for every number of tasks, workers, copies and   *)
(* faults: no open task is forgotten unless a message of it was let go,    *)
(* what is delivered has its lineage, and a task that ended stays ended.   *)
(*                                                                         *)
(* A task is kept alive by a tree of messages: the first one, and under    *)
(* each message the hops a worker recorded after it.  Redelivery may       *)
(* repeat a message whose hop was published long ago; what keeps the task  *)
(* is that every message that was sent is still somewhere, or has a hop    *)
(* in the outbox, or found the task at rest, or was let go.  So a longest  *)
(* one is still somewhere or waits in the outbox.                          *)
(***************************************************************************)
EXTENDS Delivery, SumTheorems

Messages == Tasks \X Seq(Hops)
Verdicts == Hops \cup Ends \cup {"requeue", "hold"}
Locked   == {"check", "run", "unlock_task"}
Sending  == {"ack", "lane", "send", "receipt"}
Judged   == {"unlock_task", "unlock_book", "finish"}

WorkerType ==
  /\ pc \in [Workers -> {"idle", "book", "task", "unlock_book", "finish", "decide"} \cup Locked \cup Sending]
  /\ msg \in [Workers -> Messages]
  /\ holds \in [Workers -> BOOLEAN]
  /\ verdict \in [Workers -> Verdicts]
  /\ faults \in Nat

RowType ==
  /\ row \in [Tasks -> {"none", "queued", "running", "awaiting_plan", "over"}]
  /\ taskLease \in [Tasks -> Workers \cup {Nobody, Orphan}]
  /\ acked \in [Tasks -> SUBSET Lets]

OutboxType ==
  /\ outbox \in [DOMAIN outbox -> {"pending", "unknown", "published"}]
  /\ \A m \in DOMAIN outbox : m \in Messages /\ Path(m) # <<>>
  /\ IsFiniteSet(DOMAIN outbox)

QueueType ==
  /\ IsABag(ready) /\ DOMAIN ready \subseteq Messages
  /\ IsABag(delay) /\ DOMAIN delay \subseteq Messages
  /\ \A m \in DOMAIN delay : Path(m) # <<>>

TypeInv == WorkerType /\ RowType /\ OutboxType /\ QueueType

(* Who has the lease of a task runs it, and knows its status.              *)
LeaseInv ==
  /\ \A w \in Workers : pc[w] \in Locked => taskLease[Task(w)] = w
  /\ \A w \in Workers : pc[w] = "run" => row[Task(w)] = "running"
  /\ \A t \in Tasks, w \in Workers : taskLease[t] = w => pc[w] \in Locked /\ Task(w) = t

(* What a verdict means.                                                   *)
VerdictInv ==
  \A w \in Workers :
    pc[w] \in Judged \cup {"decide"} /\ verdict[w] \in {"skip", "terminal", "waiting"} =>
      ~Open(Task(w))

(* What was sent has its row.                                              *)
Sent(m) == Path(m) # <<>> => m \in DOMAIN outbox /\ outbox[m] # "pending"

Predecessor(m) == <<TaskOf(m), Front(Path(m))>>

WorkerLineage(w) ==
  /\ Working(w) => Sent(msg[w])
  /\ pc[w] \in Sending => msg[w] \in DOMAIN outbox /\ Path(msg[w]) # <<>>
  /\ pc[w] \in {"send", "receipt"} => outbox[msg[w]] # "pending"
  /\ pc[w] = "ack" => Sent(Predecessor(msg[w]))

LineageInv ==
  /\ \A m \in DOMAIN ready \cup DOMAIN delay : Sent(m)
  /\ \A w \in Workers : WorkerLineage(w)

(* A message that is somewhere, has a hop, found the task at rest, or went *)
(* with a verdict that says nothing of it.                                 *)
Somewhere(m) == \/ m \in DOMAIN ready \cup DOMAIN delay \cup dlq
                \/ \E w \in Workers : holds[w] /\ Working(w) /\ msg[w] = m

Kept(m) == \/ Somewhere(m)
           \/ \E d \in Hops : Hop(m, d) \in DOMAIN outbox
           \/ ~Open(TaskOf(m))
           \/ acked[TaskOf(m)] # {}

KeptInv ==
  /\ \A t \in Tasks : Kept(First(t))
  /\ \A m \in DOMAIN outbox : outbox[m] = "published" => Kept(m)
  /\ \A w \in Workers : pc[w] = "receipt" => Kept(msg[w])

DeliveryInv == TypeInv /\ LeaseInv /\ VerdictInv /\ LineageInv /\ KeptInv

---------------------------------------------------------------------------
(* Messages and bags.                                                      *)
LEMMA MessageIs ==
  ASSUME NEW m \in Messages
  PROVE  TaskOf(m) \in Tasks /\ Path(m) \in Seq(Hops) /\ m = <<TaskOf(m), Path(m)>>
BY DEF Messages, TaskOf, Path

LEMMA FirstIs ==
  ASSUME NEW t \in Tasks
  PROVE  First(t) \in Messages /\ TaskOf(First(t)) = t /\ Path(First(t)) = <<>>
<1>1. <<>> \in Seq(Hops)
  OBVIOUS
<1> QED BY <1>1 DEF First, Messages, TaskOf, Path

LEMMA NoMessageIs == NoMessage \in Messages
<1>1. (CHOOSE t \in Tasks : TRUE) \in Tasks
  BY DeliveryAssumption
<1> QED BY <1>1, FirstIs DEF NoMessage

LEMMA HopIs ==
  ASSUME NEW m \in Messages, NEW d \in Hops
  PROVE  /\ Hop(m, d) \in Messages /\ TaskOf(Hop(m, d)) = TaskOf(m)
         /\ Path(Hop(m, d)) # <<>> /\ Len(Path(Hop(m, d))) = Len(Path(m)) + 1
         /\ Predecessor(Hop(m, d)) = m
<1>1. TaskOf(m) \in Tasks /\ Path(m) \in Seq(Hops) /\ m = <<TaskOf(m), Path(m)>>
  BY MessageIs
<1>2. TaskOf(Hop(m, d)) = TaskOf(m) /\ Path(Hop(m, d)) = Append(Path(m), d)
  BY DEF Hop, TaskOf, Path
<1>3. /\ Append(Path(m), d) \in Seq(Hops) /\ Append(Path(m), d) # <<>>
      /\ Len(Append(Path(m), d)) = Len(Path(m)) + 1 /\ Front(Append(Path(m), d)) = Path(m)
  BY <1>1 DEF Front
<1>4. Hop(m, d) \in Messages
  BY <1>1, <1>3 DEF Hop, Messages
<1> QED BY <1>1, <1>2, <1>3, <1>4 DEF Predecessor

LEMMA WithIs ==
  ASSUME NEW B, NEW m, IsABag(B)
  PROVE  IsABag(With(B, m)) /\ DOMAIN With(B, m) = DOMAIN B \cup {m}
BY DEF With, SetToBag, IsABag, (+)

LEMMA WithoutIs ==
  ASSUME NEW B, NEW m, IsABag(B)
  PROVE  /\ IsABag(Without(B, m)) /\ DOMAIN Without(B, m) \subseteq DOMAIN B
         /\ DOMAIN B \ {m} \subseteq DOMAIN Without(B, m)
BY DEF Without, SetToBag, IsABag, (-)

LEMMA PredecessorIs ==
  ASSUME NEW m \in Messages, Path(m) # <<>>
  PROVE  Predecessor(m) \in Messages
<1>1. TaskOf(m) \in Tasks /\ Path(m) \in Seq(Hops)
  BY MessageIs
<1>2. Front(Path(m)) \in Seq(Hops)
  BY <1>1 DEF Front
<1> QED BY <1>1, <1>2 DEF Predecessor, Messages

FaultStep(w) ==
  \/ CheckFails(w) \/ SendFails(w) \/ Disconnect(w) \/ RecordFails(w) \/ AckLost(w) \/ Crash(w)
  \/ TurnedAway(w) \/ LockFails(w) \/ FinishFails(w)

Moves(w) ==
  \/ WorkerStep(w) /\ UNCHANGED faults
  \/ FaultStep(w) /\ faults' = faults + 1 /\ UNCHANGED acked

(* A worker enters a lease that nobody has, and leaves only its own.       *)
LEMMA LeaseSteps ==
  ASSUME TypeInv, LeaseInv, NEW w \in Workers, Moves(w)
  PROVE  LeaseInv'
<1> USE DEF At, Idle, Judge, Quiet, WorkOnly, queues, leases, workers, Release, LeaveLane,
            Redeliver, LeaseInv, TypeInv, WorkerType, RowType, Locked, Sending, Task,
            Runnable
<1>0. \A v \in Workers : msg[v] \in Messages /\ TaskOf(msg[v]) \in Tasks /\ verdict[v] \in Verdicts
  BY MessageIs DEF TypeInv, WorkerType
<1>1. CASE Take(w) /\ UNCHANGED <<acked, faults>>
  BY <1>1, <1>0, DeliveryAssumption DEF Take
<1>2. CASE LockBook(w) /\ UNCHANGED <<acked, faults>>
  BY <1>2, <1>0, DeliveryAssumption DEF LockBook, BusyBook
<1>3. CASE LockTask(w) /\ UNCHANGED <<acked, faults>>
  BY <1>3, <1>0, DeliveryAssumption DEF LockTask
<1>4. CASE Check(w) /\ UNCHANGED <<acked, faults>>
  BY <1>4, <1>0, DeliveryAssumption DEF Check
<1>5. CASE Run(w) /\ UNCHANGED <<acked, faults>>
  BY <1>5, <1>0, DeliveryAssumption DEF Run
<1>6. CASE UnlockTask(w) /\ UNCHANGED <<acked, faults>>
  BY <1>6, <1>0, DeliveryAssumption DEF UnlockTask
<1>7. CASE UnlockBook(w) /\ UNCHANGED <<acked, faults>>
  BY <1>7, <1>0, DeliveryAssumption DEF UnlockBook
<1>8. CASE Finish(w) /\ UNCHANGED <<acked, faults>>
  BY <1>8, <1>0, DeliveryAssumption DEF Finish
<1>9. CASE Dropped(w) /\ UNCHANGED <<acked, faults>>
  BY <1>9, <1>0, DeliveryAssumption DEF Dropped
<1>10. CASE DeadLetter(w) /\ UNCHANGED <<acked, faults>>
  BY <1>10, <1>0, DeliveryAssumption DEF DeadLetter, Exhausted
<1>11. CASE Requeue(w) /\ UNCHANGED <<acked, faults>>
  BY <1>11, <1>0, DeliveryAssumption DEF Requeue
<1>12. CASE AckOnly(w) /\ UNCHANGED faults
  BY <1>12, <1>0, DeliveryAssumption DEF AckOnly
<1>13. CASE Record(w) /\ UNCHANGED <<acked, faults>>
  BY <1>13, <1>0, DeliveryAssumption DEF Record, GoesOn
<1>14. CASE Ack(w) /\ UNCHANGED <<acked, faults>>
  BY <1>14, <1>0, DeliveryAssumption DEF Ack
<1>15. CASE Replay(w) /\ UNCHANGED <<acked, faults>>
  BY <1>15, <1>0, DeliveryAssumption DEF Replay
<1>16. CASE BeginPublish(w) /\ UNCHANGED <<acked, faults>>
  BY <1>16, <1>0, DeliveryAssumption DEF BeginPublish, MarkedBefore
<1>17. CASE SendConfirmed(w) /\ UNCHANGED <<acked, faults>>
  BY <1>17, <1>0, DeliveryAssumption DEF SendConfirmed, Enqueue
<1>18. CASE Receipt(w) /\ UNCHANGED <<acked, faults>>
  BY <1>18, <1>0, DeliveryAssumption DEF Receipt
<1>19. CASE CheckFails(w) /\ faults' = faults + 1 /\ UNCHANGED acked
  BY <1>19, <1>0, DeliveryAssumption DEF CheckFails
<1>20. CASE SendFails(w) /\ faults' = faults + 1 /\ UNCHANGED acked
  BY <1>20, <1>0, DeliveryAssumption DEF SendFails, Enqueue
<1>21. CASE Disconnect(w) /\ faults' = faults + 1 /\ UNCHANGED acked
  BY <1>21, <1>0, DeliveryAssumption DEF Disconnect
<1>22. CASE RecordFails(w) /\ faults' = faults + 1 /\ UNCHANGED acked
  BY <1>22, <1>0, DeliveryAssumption DEF RecordFails, GoesOn
<1>23. CASE AckLost(w) /\ faults' = faults + 1 /\ UNCHANGED acked
  BY <1>23, <1>0, DeliveryAssumption DEF AckLost
<1>24. CASE Crash(w) /\ faults' = faults + 1 /\ UNCHANGED acked
  BY <1>24, <1>0, DeliveryAssumption DEF Crash, Orphaned
<1>25. CASE TurnedAway(w) /\ faults' = faults + 1 /\ UNCHANGED acked
  BY <1>25, <1>0, DeliveryAssumption DEF TurnedAway
<1>26. CASE LockFails(w) /\ faults' = faults + 1 /\ UNCHANGED acked
  BY <1>26, <1>0, DeliveryAssumption DEF LockFails
<1>27. CASE FinishFails(w) /\ faults' = faults + 1 /\ UNCHANGED acked
  BY <1>27, <1>0, DeliveryAssumption DEF FinishFails
<1> QED BY <1>1, <1>2, <1>3, <1>4, <1>5, <1>6, <1>7, <1>8, <1>9, <1>10, <1>11, <1>12, <1>13,
          <1>14, <1>15, <1>16, <1>17, <1>18, <1>19, <1>20, <1>21, <1>22, <1>23, <1>24, <1>25,
          <1>26, <1>27
         DEF Moves, WorkerStep, FaultStep

(* The workers, their messages and their verdicts keep their types.        *)
LEMMA WorkerSteps ==
  ASSUME TypeInv, NEW w \in Workers, Moves(w)
  PROVE  WorkerType'
<1> USE DEF At, Idle, Judge, Quiet, WorkOnly, queues, leases, workers, Release, LeaveLane,
            Redeliver, TypeInv, WorkerType, Locked, Sending, Verdicts, Ends, Lets, Hops
<1>0. \A v \in Workers : msg[v] \in Messages /\ TaskOf(msg[v]) \in Tasks /\ verdict[v] \in Verdicts
  BY MessageIs DEF TypeInv, WorkerType
<1>1. CASE Take(w) /\ UNCHANGED <<acked, faults>>
  <2>1. PICK m \in DOMAIN ready : msg' = [msg EXCEPT ![w] = m]
    BY <1>1 DEF Take
  <2>2. m \in Messages
    BY DEF TypeInv, QueueType
  <2> QED BY <1>1, <2>1, <2>2 DEF Take, TypeInv, WorkerType
<1>2. CASE LockBook(w) /\ UNCHANGED <<acked, faults>>
  BY <1>2, <1>0, NoMessageIs DEF LockBook, BusyBook
<1>3. CASE LockTask(w) /\ UNCHANGED <<acked, faults>>
  BY <1>3, <1>0, NoMessageIs DEF LockTask
<1>4. CASE Check(w) /\ UNCHANGED <<acked, faults>>
  BY <1>4, <1>0, NoMessageIs DEF Check
<1>5. CASE Run(w) /\ UNCHANGED <<acked, faults>>
  BY <1>5, <1>0, NoMessageIs DEF Run
<1>6. CASE UnlockTask(w) /\ UNCHANGED <<acked, faults>>
  BY <1>6, <1>0, NoMessageIs DEF UnlockTask
<1>7. CASE UnlockBook(w) /\ UNCHANGED <<acked, faults>>
  BY <1>7, <1>0, NoMessageIs DEF UnlockBook
<1>8. CASE Finish(w) /\ UNCHANGED <<acked, faults>>
  BY <1>8, <1>0, NoMessageIs DEF Finish
<1>9. CASE Dropped(w) /\ UNCHANGED <<acked, faults>>
  BY <1>9, <1>0, NoMessageIs DEF Dropped
<1>10. CASE DeadLetter(w) /\ UNCHANGED <<acked, faults>>
  BY <1>10, <1>0, NoMessageIs DEF DeadLetter, Exhausted
<1>11. CASE Requeue(w) /\ UNCHANGED <<acked, faults>>
  BY <1>11, <1>0, NoMessageIs DEF Requeue
<1>12. CASE AckOnly(w) /\ UNCHANGED faults
  BY <1>12, <1>0, NoMessageIs DEF AckOnly
<1>13. CASE Record(w) /\ UNCHANGED <<acked, faults>>
  <2>1. verdict[w] \in Hops /\ Hop(msg[w], verdict[w]) \in Messages
    BY <1>13, <1>0, HopIs DEF Record, GoesOn
  <2> QED BY <1>13, <2>1 DEF Record, TypeInv, WorkerType, Sending
<1>14. CASE Ack(w) /\ UNCHANGED <<acked, faults>>
  BY <1>14, <1>0, NoMessageIs DEF Ack
<1>15. CASE Replay(w) /\ UNCHANGED <<acked, faults>>
  <2>1. PICK m \in DOMAIN outbox : msg' = [msg EXCEPT ![w] = m]
    BY <1>15 DEF Replay
  <2>2. m \in Messages
    BY DEF TypeInv, OutboxType
  <2> QED BY <1>15, <2>1, <2>2 DEF Replay, TypeInv, WorkerType, Sending
<1>16. CASE BeginPublish(w) /\ UNCHANGED <<acked, faults>>
  BY <1>16, <1>0, NoMessageIs DEF BeginPublish, MarkedBefore
<1>17. CASE SendConfirmed(w) /\ UNCHANGED <<acked, faults>>
  BY <1>17, <1>0, NoMessageIs DEF SendConfirmed, Enqueue
<1>18. CASE Receipt(w) /\ UNCHANGED <<acked, faults>>
  BY <1>18, <1>0, NoMessageIs DEF Receipt
<1>19. CASE CheckFails(w) /\ faults' = faults + 1 /\ UNCHANGED acked
  BY <1>19, <1>0, NoMessageIs DEF CheckFails
<1>20. CASE SendFails(w) /\ faults' = faults + 1 /\ UNCHANGED acked
  BY <1>20, <1>0, NoMessageIs DEF SendFails, Enqueue
<1>21. CASE Disconnect(w) /\ faults' = faults + 1 /\ UNCHANGED acked
  BY <1>21, <1>0, NoMessageIs DEF Disconnect
<1>22. CASE RecordFails(w) /\ faults' = faults + 1 /\ UNCHANGED acked
  BY <1>22, <1>0, NoMessageIs DEF RecordFails, GoesOn
<1>23. CASE AckLost(w) /\ faults' = faults + 1 /\ UNCHANGED acked
  BY <1>23, <1>0, NoMessageIs DEF AckLost
<1>24. CASE Crash(w) /\ faults' = faults + 1 /\ UNCHANGED acked
  <2>1. holds' \in [Workers -> BOOLEAN]
    BY <1>24 DEF Crash, TypeInv, WorkerType
  <2>2. /\ pc' = [pc EXCEPT ![w] = "idle"] /\ verdict' = [verdict EXCEPT ![w] = "skip"]
        /\ msg' = [msg EXCEPT ![w] = NoMessage]
    BY <1>24 DEF Crash
  <2>3. faults' \in Nat
    BY <1>24 DEF TypeInv, WorkerType
  <2> HIDE DEF Idle, At
  <2> QED BY <2>1, <2>2, <2>3, NoMessageIs DEF TypeInv, WorkerType, Verdicts
<1>25. CASE TurnedAway(w) /\ faults' = faults + 1 /\ UNCHANGED acked
  BY <1>25, <1>0, NoMessageIs DEF TurnedAway
<1>26. CASE LockFails(w) /\ faults' = faults + 1 /\ UNCHANGED acked
  BY <1>26, <1>0, NoMessageIs DEF LockFails
<1>27. CASE FinishFails(w) /\ faults' = faults + 1 /\ UNCHANGED acked
  BY <1>27, <1>0, NoMessageIs DEF FinishFails
<1> QED BY <1>1, <1>2, <1>3, <1>4, <1>5, <1>6, <1>7, <1>8, <1>9, <1>10, <1>11, <1>12, <1>13,
          <1>14, <1>15, <1>16, <1>17, <1>18, <1>19, <1>20, <1>21, <1>22, <1>23, <1>24, <1>25,
          <1>26, <1>27
         DEF Moves, WorkerStep, FaultStep

(* The statuses and the holders of the task leases keep their types.       *)
LEMMA RowSteps ==
  ASSUME TypeInv, NEW w \in Workers, Moves(w)
  PROVE  RowType'
<1> USE DEF At, Idle, Judge, Quiet, WorkOnly, queues, leases, workers, Release, LeaveLane,
            Redeliver, TypeInv, RowType, Task
<1>0. \A v \in Workers : msg[v] \in Messages /\ TaskOf(msg[v]) \in Tasks /\ verdict[v] \in Verdicts
  BY MessageIs DEF TypeInv, WorkerType
<1>1. CASE Take(w) /\ UNCHANGED <<acked, faults>>
  BY <1>1, <1>0 DEF Take
<1>2. CASE LockBook(w) /\ UNCHANGED <<acked, faults>>
  BY <1>2, <1>0 DEF LockBook, BusyBook
<1>3. CASE LockTask(w) /\ UNCHANGED <<acked, faults>>
  BY <1>3, <1>0 DEF LockTask
<1>4. CASE Check(w) /\ UNCHANGED <<acked, faults>>
  BY <1>4, <1>0 DEF Check
<1>5. CASE Run(w) /\ UNCHANGED <<acked, faults>>
  BY <1>5, <1>0 DEF Run
<1>6. CASE UnlockTask(w) /\ UNCHANGED <<acked, faults>>
  BY <1>6, <1>0 DEF UnlockTask
<1>7. CASE UnlockBook(w) /\ UNCHANGED <<acked, faults>>
  BY <1>7, <1>0 DEF UnlockBook
<1>8. CASE Finish(w) /\ UNCHANGED <<acked, faults>>
  BY <1>8, <1>0 DEF Finish
<1>9. CASE Dropped(w) /\ UNCHANGED <<acked, faults>>
  BY <1>9, <1>0 DEF Dropped
<1>10. CASE DeadLetter(w) /\ UNCHANGED <<acked, faults>>
  BY <1>10, <1>0 DEF DeadLetter, Exhausted
<1>11. CASE Requeue(w) /\ UNCHANGED <<acked, faults>>
  BY <1>11, <1>0 DEF Requeue
<1>12. CASE AckOnly(w) /\ UNCHANGED faults
  BY <1>12, <1>0 DEF AckOnly
<1>13. CASE Record(w) /\ UNCHANGED <<acked, faults>>
  BY <1>13, <1>0 DEF Record, GoesOn
<1>14. CASE Ack(w) /\ UNCHANGED <<acked, faults>>
  BY <1>14, <1>0 DEF Ack
<1>15. CASE Replay(w) /\ UNCHANGED <<acked, faults>>
  BY <1>15, <1>0 DEF Replay
<1>16. CASE BeginPublish(w) /\ UNCHANGED <<acked, faults>>
  BY <1>16, <1>0 DEF BeginPublish, MarkedBefore
<1>17. CASE SendConfirmed(w) /\ UNCHANGED <<acked, faults>>
  BY <1>17, <1>0 DEF SendConfirmed, Enqueue
<1>18. CASE Receipt(w) /\ UNCHANGED <<acked, faults>>
  BY <1>18, <1>0 DEF Receipt
<1>19. CASE CheckFails(w) /\ faults' = faults + 1 /\ UNCHANGED acked
  BY <1>19, <1>0 DEF CheckFails
<1>20. CASE SendFails(w) /\ faults' = faults + 1 /\ UNCHANGED acked
  BY <1>20, <1>0 DEF SendFails, Enqueue
<1>21. CASE Disconnect(w) /\ faults' = faults + 1 /\ UNCHANGED acked
  BY <1>21, <1>0 DEF Disconnect
<1>22. CASE RecordFails(w) /\ faults' = faults + 1 /\ UNCHANGED acked
  BY <1>22, <1>0 DEF RecordFails, GoesOn
<1>23. CASE AckLost(w) /\ faults' = faults + 1 /\ UNCHANGED acked
  BY <1>23, <1>0 DEF AckLost
<1>24. CASE Crash(w) /\ faults' = faults + 1 /\ UNCHANGED acked
  BY <1>24, <1>0 DEF Crash, Orphaned
<1>25. CASE TurnedAway(w) /\ faults' = faults + 1 /\ UNCHANGED acked
  BY <1>25, <1>0 DEF TurnedAway
<1>26. CASE LockFails(w) /\ faults' = faults + 1 /\ UNCHANGED acked
  BY <1>26, <1>0 DEF LockFails
<1>27. CASE FinishFails(w) /\ faults' = faults + 1 /\ UNCHANGED acked
  BY <1>27, <1>0 DEF FinishFails
<1> QED BY <1>1, <1>2, <1>3, <1>4, <1>5, <1>6, <1>7, <1>8, <1>9, <1>10, <1>11, <1>12, <1>13,
          <1>14, <1>15, <1>16, <1>17, <1>18, <1>19, <1>20, <1>21, <1>22, <1>23, <1>24, <1>25,
          <1>26, <1>27
         DEF Moves, WorkerStep, FaultStep

(* The outbox has hops of messages, and finitely many.                     *)
LEMMA OutboxSteps ==
  ASSUME TypeInv, LineageInv, NEW w \in Workers, Moves(w)
  PROVE  OutboxType'
<1> USE DEF At, Idle, Judge, Quiet, WorkOnly, queues, leases, workers, Release, LeaveLane,
            Redeliver, TypeInv, OutboxType, LineageInv, WorkerLineage, Sending
<1>0. \A v \in Workers : msg[v] \in Messages /\ TaskOf(msg[v]) \in Tasks /\ verdict[v] \in Verdicts
  BY MessageIs DEF TypeInv, WorkerType
<1>1. CASE Take(w) /\ UNCHANGED <<acked, faults>>
  BY <1>1, <1>0 DEF Take
<1>2. CASE LockBook(w) /\ UNCHANGED <<acked, faults>>
  BY <1>2, <1>0 DEF LockBook, BusyBook
<1>3. CASE LockTask(w) /\ UNCHANGED <<acked, faults>>
  BY <1>3, <1>0 DEF LockTask
<1>4. CASE Check(w) /\ UNCHANGED <<acked, faults>>
  BY <1>4, <1>0 DEF Check
<1>5. CASE Run(w) /\ UNCHANGED <<acked, faults>>
  BY <1>5, <1>0 DEF Run
<1>6. CASE UnlockTask(w) /\ UNCHANGED <<acked, faults>>
  BY <1>6, <1>0 DEF UnlockTask
<1>7. CASE UnlockBook(w) /\ UNCHANGED <<acked, faults>>
  BY <1>7, <1>0 DEF UnlockBook
<1>8. CASE Finish(w) /\ UNCHANGED <<acked, faults>>
  BY <1>8, <1>0 DEF Finish
<1>9. CASE Dropped(w) /\ UNCHANGED <<acked, faults>>
  BY <1>9, <1>0 DEF Dropped
<1>10. CASE DeadLetter(w) /\ UNCHANGED <<acked, faults>>
  BY <1>10, <1>0 DEF DeadLetter, Exhausted
<1>11. CASE Requeue(w) /\ UNCHANGED <<acked, faults>>
  BY <1>11, <1>0 DEF Requeue
<1>12. CASE AckOnly(w) /\ UNCHANGED faults
  BY <1>12, <1>0 DEF AckOnly
<1>13. CASE Record(w) /\ UNCHANGED <<acked, faults>>
  <2>1. /\ verdict[w] \in Hops /\ Hop(msg[w], verdict[w]) \in Messages
        /\ Path(Hop(msg[w], verdict[w])) # <<>>
    BY <1>13, <1>0, HopIs DEF Record, GoesOn
  <2>2. IsFiniteSet(DOMAIN outbox \cup {Hop(msg[w], verdict[w])})
    BY FS_AddElement DEF TypeInv, OutboxType
  <2> QED BY <1>13, <2>1, <2>2 DEF Record, TypeInv, OutboxType
<1>14. CASE Ack(w) /\ UNCHANGED <<acked, faults>>
  BY <1>14, <1>0 DEF Ack
<1>15. CASE Replay(w) /\ UNCHANGED <<acked, faults>>
  BY <1>15, <1>0 DEF Replay
<1>16. CASE BeginPublish(w) /\ UNCHANGED <<acked, faults>>
  BY <1>16, <1>0 DEF BeginPublish, MarkedBefore
<1>17. CASE SendConfirmed(w) /\ UNCHANGED <<acked, faults>>
  BY <1>17, <1>0 DEF SendConfirmed, Enqueue
<1>18. CASE Receipt(w) /\ UNCHANGED <<acked, faults>>
  BY <1>18, <1>0 DEF Receipt
<1>19. CASE CheckFails(w) /\ faults' = faults + 1 /\ UNCHANGED acked
  BY <1>19, <1>0 DEF CheckFails
<1>20. CASE SendFails(w) /\ faults' = faults + 1 /\ UNCHANGED acked
  BY <1>20, <1>0 DEF SendFails, Enqueue
<1>21. CASE Disconnect(w) /\ faults' = faults + 1 /\ UNCHANGED acked
  BY <1>21, <1>0 DEF Disconnect
<1>22. CASE RecordFails(w) /\ faults' = faults + 1 /\ UNCHANGED acked
  BY <1>22, <1>0 DEF RecordFails, GoesOn
<1>23. CASE AckLost(w) /\ faults' = faults + 1 /\ UNCHANGED acked
  BY <1>23, <1>0 DEF AckLost
<1>24. CASE Crash(w) /\ faults' = faults + 1 /\ UNCHANGED acked
  BY <1>24, <1>0 DEF Crash, Orphaned
<1>25. CASE TurnedAway(w) /\ faults' = faults + 1 /\ UNCHANGED acked
  BY <1>25, <1>0 DEF TurnedAway
<1>26. CASE LockFails(w) /\ faults' = faults + 1 /\ UNCHANGED acked
  BY <1>26, <1>0 DEF LockFails
<1>27. CASE FinishFails(w) /\ faults' = faults + 1 /\ UNCHANGED acked
  BY <1>27, <1>0 DEF FinishFails
<1> QED BY <1>1, <1>2, <1>3, <1>4, <1>5, <1>6, <1>7, <1>8, <1>9, <1>10, <1>11, <1>12, <1>13,
          <1>14, <1>15, <1>16, <1>17, <1>18, <1>19, <1>20, <1>21, <1>22, <1>23, <1>24, <1>25,
          <1>26, <1>27
         DEF Moves, WorkerStep, FaultStep

(* What leads to a verdict still holds when it is acted on.                *)
LEMMA VerdictSteps ==
  ASSUME TypeInv, LeaseInv, VerdictInv, NEW w \in Workers, Moves(w)
  PROVE  VerdictInv'
<1> USE DEF At, Idle, Judge, Quiet, WorkOnly, queues, leases, workers, Release, LeaveLane,
            Redeliver, TypeInv, WorkerType, RowType, LeaseInv, VerdictInv, Judged,
            Locked, Sending, Runnable, Open, Task
<1>0. \A v \in Workers : msg[v] \in Messages /\ TaskOf(msg[v]) \in Tasks /\ verdict[v] \in Verdicts
  BY MessageIs DEF TypeInv, WorkerType
<1>1. CASE Take(w) /\ UNCHANGED <<acked, faults>>
  BY <1>1, <1>0, DeliveryAssumption DEF Take
<1>2. CASE LockBook(w) /\ UNCHANGED <<acked, faults>>
  BY <1>2, <1>0, DeliveryAssumption DEF LockBook, BusyBook
<1>3. CASE LockTask(w) /\ UNCHANGED <<acked, faults>>
  BY <1>3, <1>0, DeliveryAssumption DEF LockTask
<1>4. CASE Check(w) /\ UNCHANGED <<acked, faults>>
  BY <1>4, <1>0, DeliveryAssumption DEF Check
<1>5. CASE Run(w) /\ UNCHANGED <<acked, faults>>
  BY <1>5, <1>0, DeliveryAssumption DEF Run
<1>6. CASE UnlockTask(w) /\ UNCHANGED <<acked, faults>>
  BY <1>6, <1>0, DeliveryAssumption DEF UnlockTask
<1>7. CASE UnlockBook(w) /\ UNCHANGED <<acked, faults>>
  BY <1>7, <1>0, DeliveryAssumption DEF UnlockBook
<1>8. CASE Finish(w) /\ UNCHANGED <<acked, faults>>
  BY <1>8, <1>0, DeliveryAssumption DEF Finish
<1>9. CASE Dropped(w) /\ UNCHANGED <<acked, faults>>
  BY <1>9, <1>0, DeliveryAssumption DEF Dropped
<1>10. CASE DeadLetter(w) /\ UNCHANGED <<acked, faults>>
  BY <1>10, <1>0, DeliveryAssumption DEF DeadLetter, Exhausted
<1>11. CASE Requeue(w) /\ UNCHANGED <<acked, faults>>
  BY <1>11, <1>0, DeliveryAssumption DEF Requeue
<1>12. CASE AckOnly(w) /\ UNCHANGED faults
  BY <1>12, <1>0, DeliveryAssumption DEF AckOnly
<1>13. CASE Record(w) /\ UNCHANGED <<acked, faults>>
  BY <1>13, <1>0, DeliveryAssumption DEF Record, GoesOn
<1>14. CASE Ack(w) /\ UNCHANGED <<acked, faults>>
  BY <1>14, <1>0, DeliveryAssumption DEF Ack
<1>15. CASE Replay(w) /\ UNCHANGED <<acked, faults>>
  BY <1>15, <1>0, DeliveryAssumption DEF Replay
<1>16. CASE BeginPublish(w) /\ UNCHANGED <<acked, faults>>
  BY <1>16, <1>0, DeliveryAssumption DEF BeginPublish, MarkedBefore
<1>17. CASE SendConfirmed(w) /\ UNCHANGED <<acked, faults>>
  BY <1>17, <1>0, DeliveryAssumption DEF SendConfirmed, Enqueue
<1>18. CASE Receipt(w) /\ UNCHANGED <<acked, faults>>
  BY <1>18, <1>0, DeliveryAssumption DEF Receipt
<1>19. CASE CheckFails(w) /\ faults' = faults + 1 /\ UNCHANGED acked
  BY <1>19, <1>0, DeliveryAssumption DEF CheckFails
<1>20. CASE SendFails(w) /\ faults' = faults + 1 /\ UNCHANGED acked
  BY <1>20, <1>0, DeliveryAssumption DEF SendFails, Enqueue
<1>21. CASE Disconnect(w) /\ faults' = faults + 1 /\ UNCHANGED acked
  BY <1>21, <1>0, DeliveryAssumption DEF Disconnect
<1>22. CASE RecordFails(w) /\ faults' = faults + 1 /\ UNCHANGED acked
  BY <1>22, <1>0, DeliveryAssumption DEF RecordFails, GoesOn
<1>23. CASE AckLost(w) /\ faults' = faults + 1 /\ UNCHANGED acked
  BY <1>23, <1>0, DeliveryAssumption DEF AckLost
<1>24. CASE Crash(w) /\ faults' = faults + 1 /\ UNCHANGED acked
  BY <1>24, <1>0, DeliveryAssumption DEF Crash, Orphaned
<1>25. CASE TurnedAway(w) /\ faults' = faults + 1 /\ UNCHANGED acked
  BY <1>25, <1>0, DeliveryAssumption DEF TurnedAway
<1>26. CASE LockFails(w) /\ faults' = faults + 1 /\ UNCHANGED acked
  BY <1>26, <1>0, DeliveryAssumption DEF LockFails
<1>27. CASE FinishFails(w) /\ faults' = faults + 1 /\ UNCHANGED acked
  BY <1>27, <1>0, DeliveryAssumption DEF FinishFails
<1> QED BY <1>1, <1>2, <1>3, <1>4, <1>5, <1>6, <1>7, <1>8, <1>9, <1>10, <1>11, <1>12, <1>13,
          <1>14, <1>15, <1>16, <1>17, <1>18, <1>19, <1>20, <1>21, <1>22, <1>23, <1>24, <1>25,
          <1>26, <1>27
         DEF Moves, WorkerStep, FaultStep


---------------------------------------------------------------------------
(* The outbox only grows, and nothing in it becomes pending again.         *)
OutboxGrows ==
  \A m \in DOMAIN outbox : m \in DOMAIN outbox' /\ (outbox[m] # "pending" => outbox'[m] # "pending")

(* record_handoff adds a row, and a publication leaves no row pending.     *)
LEMMA GrowSteps ==
  ASSUME TypeInv, LineageInv, NEW w \in Workers, Moves(w)
  PROVE  OutboxGrows
<1> USE DEF At, Idle, Judge, Quiet, WorkOnly, queues, leases, workers, Release, LeaveLane,
            Redeliver, OutboxGrows, LineageInv, WorkerLineage, TypeInv, OutboxType, Sending
<1>0. \A v \in Workers : msg[v] \in Messages /\ TaskOf(msg[v]) \in Tasks /\ verdict[v] \in Verdicts
  BY MessageIs DEF TypeInv, WorkerType
<1>1. CASE Take(w) /\ UNCHANGED <<acked, faults>>
  BY <1>1, <1>0 DEF Take
<1>2. CASE LockBook(w) /\ UNCHANGED <<acked, faults>>
  BY <1>2, <1>0 DEF LockBook, BusyBook
<1>3. CASE LockTask(w) /\ UNCHANGED <<acked, faults>>
  BY <1>3, <1>0 DEF LockTask
<1>4. CASE Check(w) /\ UNCHANGED <<acked, faults>>
  BY <1>4, <1>0 DEF Check
<1>5. CASE Run(w) /\ UNCHANGED <<acked, faults>>
  BY <1>5, <1>0 DEF Run
<1>6. CASE UnlockTask(w) /\ UNCHANGED <<acked, faults>>
  BY <1>6, <1>0 DEF UnlockTask
<1>7. CASE UnlockBook(w) /\ UNCHANGED <<acked, faults>>
  BY <1>7, <1>0 DEF UnlockBook
<1>8. CASE Finish(w) /\ UNCHANGED <<acked, faults>>
  BY <1>8, <1>0 DEF Finish
<1>9. CASE Dropped(w) /\ UNCHANGED <<acked, faults>>
  BY <1>9, <1>0 DEF Dropped
<1>10. CASE DeadLetter(w) /\ UNCHANGED <<acked, faults>>
  BY <1>10, <1>0 DEF DeadLetter, Exhausted
<1>11. CASE Requeue(w) /\ UNCHANGED <<acked, faults>>
  BY <1>11, <1>0 DEF Requeue
<1>12. CASE AckOnly(w) /\ UNCHANGED faults
  BY <1>12, <1>0 DEF AckOnly
<1>13. CASE Record(w) /\ UNCHANGED <<acked, faults>>
  BY <1>13, <1>0 DEF Record, GoesOn
<1>14. CASE Ack(w) /\ UNCHANGED <<acked, faults>>
  BY <1>14, <1>0 DEF Ack
<1>15. CASE Replay(w) /\ UNCHANGED <<acked, faults>>
  BY <1>15, <1>0 DEF Replay
<1>16. CASE BeginPublish(w) /\ UNCHANGED <<acked, faults>>
  BY <1>16, <1>0 DEF BeginPublish, MarkedBefore
<1>17. CASE SendConfirmed(w) /\ UNCHANGED <<acked, faults>>
  BY <1>17, <1>0 DEF SendConfirmed, Enqueue
<1>18. CASE Receipt(w) /\ UNCHANGED <<acked, faults>>
  BY <1>18, <1>0 DEF Receipt
<1>19. CASE CheckFails(w) /\ faults' = faults + 1 /\ UNCHANGED acked
  BY <1>19, <1>0 DEF CheckFails
<1>20. CASE SendFails(w) /\ faults' = faults + 1 /\ UNCHANGED acked
  BY <1>20, <1>0 DEF SendFails, Enqueue
<1>21. CASE Disconnect(w) /\ faults' = faults + 1 /\ UNCHANGED acked
  BY <1>21, <1>0 DEF Disconnect
<1>22. CASE RecordFails(w) /\ faults' = faults + 1 /\ UNCHANGED acked
  BY <1>22, <1>0 DEF RecordFails, GoesOn
<1>23. CASE AckLost(w) /\ faults' = faults + 1 /\ UNCHANGED acked
  BY <1>23, <1>0 DEF AckLost
<1>24. CASE Crash(w) /\ faults' = faults + 1 /\ UNCHANGED acked
  BY <1>24, <1>0 DEF Crash, Orphaned
<1>25. CASE TurnedAway(w) /\ faults' = faults + 1 /\ UNCHANGED acked
  BY <1>25, <1>0 DEF TurnedAway
<1>26. CASE LockFails(w) /\ faults' = faults + 1 /\ UNCHANGED acked
  BY <1>26, <1>0 DEF LockFails
<1>27. CASE FinishFails(w) /\ faults' = faults + 1 /\ UNCHANGED acked
  BY <1>27, <1>0 DEF FinishFails
<1> QED BY <1>1, <1>2, <1>3, <1>4, <1>5, <1>6, <1>7, <1>8, <1>9, <1>10, <1>11, <1>12, <1>13,
          <1>14, <1>15, <1>16, <1>17, <1>18, <1>19, <1>20, <1>21, <1>22, <1>23, <1>24, <1>25,
          <1>26, <1>27
         DEF Moves, WorkerStep, FaultStep

LEMMA SentStays == ASSUME OutboxGrows, NEW m, Sent(m) PROVE Sent(m)'
BY DEF OutboxGrows, Sent

(* A worker's step is its own.                                             *)
LEMMA OthersStay ==
  ASSUME TypeInv, NEW w \in Workers, Moves(w)
  PROVE  \A v \in Workers \ {w} : pc'[v] = pc[v] /\ msg'[v] = msg[v] /\ holds'[v] = holds[v] /\ verdict'[v] = verdict[v]
<1> USE DEF At, Idle, Judge, Quiet, WorkOnly, queues, leases, workers, Release, LeaveLane,
            Redeliver, TypeInv, WorkerType
<1>1. CASE Take(w) /\ UNCHANGED <<acked, faults>>
  BY <1>1 DEF Take
<1>2. CASE LockBook(w) /\ UNCHANGED <<acked, faults>>
  BY <1>2 DEF LockBook, BusyBook
<1>3. CASE LockTask(w) /\ UNCHANGED <<acked, faults>>
  BY <1>3 DEF LockTask
<1>4. CASE Check(w) /\ UNCHANGED <<acked, faults>>
  BY <1>4 DEF Check
<1>5. CASE Run(w) /\ UNCHANGED <<acked, faults>>
  BY <1>5 DEF Run
<1>6. CASE UnlockTask(w) /\ UNCHANGED <<acked, faults>>
  BY <1>6 DEF UnlockTask
<1>7. CASE UnlockBook(w) /\ UNCHANGED <<acked, faults>>
  BY <1>7 DEF UnlockBook
<1>8. CASE Finish(w) /\ UNCHANGED <<acked, faults>>
  BY <1>8 DEF Finish
<1>9. CASE Dropped(w) /\ UNCHANGED <<acked, faults>>
  BY <1>9 DEF Dropped
<1>10. CASE DeadLetter(w) /\ UNCHANGED <<acked, faults>>
  BY <1>10 DEF DeadLetter, Exhausted
<1>11. CASE Requeue(w) /\ UNCHANGED <<acked, faults>>
  BY <1>11 DEF Requeue
<1>12. CASE AckOnly(w) /\ UNCHANGED faults
  BY <1>12 DEF AckOnly
<1>13. CASE Record(w) /\ UNCHANGED <<acked, faults>>
  BY <1>13 DEF Record, GoesOn
<1>14. CASE Ack(w) /\ UNCHANGED <<acked, faults>>
  BY <1>14 DEF Ack
<1>15. CASE Replay(w) /\ UNCHANGED <<acked, faults>>
  BY <1>15 DEF Replay
<1>16. CASE BeginPublish(w) /\ UNCHANGED <<acked, faults>>
  BY <1>16 DEF BeginPublish, MarkedBefore
<1>17. CASE SendConfirmed(w) /\ UNCHANGED <<acked, faults>>
  BY <1>17 DEF SendConfirmed, Enqueue
<1>18. CASE Receipt(w) /\ UNCHANGED <<acked, faults>>
  BY <1>18 DEF Receipt
<1>19. CASE CheckFails(w) /\ faults' = faults + 1 /\ UNCHANGED acked
  BY <1>19 DEF CheckFails
<1>20. CASE SendFails(w) /\ faults' = faults + 1 /\ UNCHANGED acked
  BY <1>20 DEF SendFails, Enqueue
<1>21. CASE Disconnect(w) /\ faults' = faults + 1 /\ UNCHANGED acked
  BY <1>21 DEF Disconnect
<1>22. CASE RecordFails(w) /\ faults' = faults + 1 /\ UNCHANGED acked
  BY <1>22 DEF RecordFails, GoesOn
<1>23. CASE AckLost(w) /\ faults' = faults + 1 /\ UNCHANGED acked
  BY <1>23 DEF AckLost
<1>24. CASE Crash(w) /\ faults' = faults + 1 /\ UNCHANGED acked
  BY <1>24 DEF Crash, Orphaned
<1>25. CASE TurnedAway(w) /\ faults' = faults + 1 /\ UNCHANGED acked
  BY <1>25 DEF TurnedAway
<1>26. CASE LockFails(w) /\ faults' = faults + 1 /\ UNCHANGED acked
  BY <1>26 DEF LockFails
<1>27. CASE FinishFails(w) /\ faults' = faults + 1 /\ UNCHANGED acked
  BY <1>27 DEF FinishFails
<1> QED BY <1>1, <1>2, <1>3, <1>4, <1>5, <1>6, <1>7, <1>8, <1>9, <1>10, <1>11, <1>12, <1>13,
          <1>14, <1>15, <1>16, <1>17, <1>18, <1>19, <1>20, <1>21, <1>22, <1>23, <1>24, <1>25,
          <1>26, <1>27
         DEF Moves, WorkerStep, FaultStep

(* Whoever takes, records or publishes a message finds its row.            *)
LEMMA WorkerLineageSteps ==
  ASSUME TypeInv, LineageInv, NEW w \in Workers, Moves(w)
  PROVE  WorkerLineage(w)'
<1> USE DEF At, Idle, Judge, Quiet, WorkOnly, queues, leases, workers, Release, LeaveLane,
            Redeliver, WorkerLineage, Working, LineageInv, TypeInv, WorkerType, OutboxType,
            Sending
<1>0. \A v \in Workers : msg[v] \in Messages /\ TaskOf(msg[v]) \in Tasks /\ verdict[v] \in Verdicts
  BY MessageIs DEF TypeInv, WorkerType
<1>g. \A m : Sent(m) => Sent(m)'
  BY GrowSteps, SentStays
<1>h. OutboxGrows
  BY GrowSteps
<1>1. CASE Take(w) /\ UNCHANGED <<acked, faults>>
  BY <1>1, <1>0, <1>g, <1>h DEF Take
<1>2. CASE LockBook(w) /\ UNCHANGED <<acked, faults>>
  BY <1>2, <1>0, <1>g, <1>h DEF LockBook, BusyBook
<1>3. CASE LockTask(w) /\ UNCHANGED <<acked, faults>>
  BY <1>3, <1>0, <1>g, <1>h DEF LockTask
<1>4. CASE Check(w) /\ UNCHANGED <<acked, faults>>
  BY <1>4, <1>0, <1>g, <1>h DEF Check
<1>5. CASE Run(w) /\ UNCHANGED <<acked, faults>>
  BY <1>5, <1>0, <1>g, <1>h DEF Run
<1>6. CASE UnlockTask(w) /\ UNCHANGED <<acked, faults>>
  BY <1>6, <1>0, <1>g, <1>h DEF UnlockTask
<1>7. CASE UnlockBook(w) /\ UNCHANGED <<acked, faults>>
  BY <1>7, <1>0, <1>g, <1>h DEF UnlockBook
<1>8. CASE Finish(w) /\ UNCHANGED <<acked, faults>>
  BY <1>8, <1>0, <1>g, <1>h DEF Finish
<1>9. CASE Dropped(w) /\ UNCHANGED <<acked, faults>>
  BY <1>9, <1>0, <1>g, <1>h DEF Dropped
<1>10. CASE DeadLetter(w) /\ UNCHANGED <<acked, faults>>
  BY <1>10, <1>0, <1>g, <1>h DEF DeadLetter, Exhausted
<1>11. CASE Requeue(w) /\ UNCHANGED <<acked, faults>>
  BY <1>11, <1>0, <1>g, <1>h DEF Requeue
<1>12. CASE AckOnly(w) /\ UNCHANGED faults
  BY <1>12, <1>0, <1>g, <1>h DEF AckOnly
<1>13. CASE Record(w) /\ UNCHANGED <<acked, faults>>
  <2>1. Hop(msg[w], verdict[w]) \in DOMAIN outbox' /\ msg'[w] = Hop(msg[w], verdict[w]) /\ pc'[w] = "ack"
    BY <1>13 DEF Record, TypeInv, WorkerType
  <2>2. msg[w] \in Messages /\ verdict[w] \in Hops
    BY <1>13, <1>0 DEF Record, GoesOn
  <2>3. Path(msg'[w]) # <<>> /\ Predecessor(msg'[w]) = msg[w]
    BY <2>1, <2>2, HopIs
  <2>4. PICK m \in Messages : m = msg[w]
    BY <2>2
  <2>5. Sent(m)'
    BY <1>13, <2>4, <1>g DEF Record, LineageInv, WorkerLineage, Working
  <2>6. Sent(Predecessor(msg[w]))'
    BY <2>3, <2>4, <2>5 DEF Sent
  <2> QED BY <2>1, <2>3, <2>6 DEF WorkerLineage, Working, Sending
<1>14. CASE Ack(w) /\ UNCHANGED <<acked, faults>>
  BY <1>14, <1>0, <1>g, <1>h DEF Ack
<1>15. CASE Replay(w) /\ UNCHANGED <<acked, faults>>
  BY <1>15, <1>0, <1>g, <1>h DEF Replay
<1>16. CASE BeginPublish(w) /\ UNCHANGED <<acked, faults>>
  BY <1>16, <1>0, <1>g, <1>h DEF BeginPublish, MarkedBefore
<1>17. CASE SendConfirmed(w) /\ UNCHANGED <<acked, faults>>
  BY <1>17, <1>0, <1>g, <1>h DEF SendConfirmed, Enqueue
<1>18. CASE Receipt(w) /\ UNCHANGED <<acked, faults>>
  BY <1>18, <1>0, <1>g, <1>h DEF Receipt
<1>19. CASE CheckFails(w) /\ faults' = faults + 1 /\ UNCHANGED acked
  BY <1>19, <1>0, <1>g, <1>h DEF CheckFails
<1>20. CASE SendFails(w) /\ faults' = faults + 1 /\ UNCHANGED acked
  BY <1>20, <1>0, <1>g, <1>h DEF SendFails, Enqueue
<1>21. CASE Disconnect(w) /\ faults' = faults + 1 /\ UNCHANGED acked
  BY <1>21, <1>0, <1>g, <1>h DEF Disconnect
<1>22. CASE RecordFails(w) /\ faults' = faults + 1 /\ UNCHANGED acked
  BY <1>22, <1>0, <1>g, <1>h DEF RecordFails, GoesOn
<1>23. CASE AckLost(w) /\ faults' = faults + 1 /\ UNCHANGED acked
  BY <1>23, <1>0, <1>g, <1>h DEF AckLost
<1>24. CASE Crash(w) /\ faults' = faults + 1 /\ UNCHANGED acked
  BY <1>24, <1>0, <1>g, <1>h DEF Crash, Orphaned
<1>25. CASE TurnedAway(w) /\ faults' = faults + 1 /\ UNCHANGED acked
  BY <1>25, <1>0, <1>g, <1>h DEF TurnedAway
<1>26. CASE LockFails(w) /\ faults' = faults + 1 /\ UNCHANGED acked
  BY <1>26, <1>0, <1>g, <1>h DEF LockFails
<1>27. CASE FinishFails(w) /\ faults' = faults + 1 /\ UNCHANGED acked
  BY <1>27, <1>0, <1>g, <1>h DEF FinishFails
<1> QED BY <1>1, <1>2, <1>3, <1>4, <1>5, <1>6, <1>7, <1>8, <1>9, <1>10, <1>11, <1>12, <1>13,
          <1>14, <1>15, <1>16, <1>17, <1>18, <1>19, <1>20, <1>21, <1>22, <1>23, <1>24, <1>25,
          <1>26, <1>27
         DEF Moves, WorkerStep, FaultStep


(* A queue gains or loses one message, and what it gains was sent.         *)
QueueMove(m) ==
  /\ Sent(m)'
  /\ ready' = ready \/ ready' = With(ready, m) \/ ready' = Without(ready, m)
  /\ \/ delay' = delay \/ delay' = Without(delay, m)
     \/ delay' = With(delay, m) /\ Path(m) # <<>>

LEMMA QueueKeeps ==
  ASSUME TypeInv, LineageInv, OutboxGrows, NEW m \in Messages, QueueMove(m)
  PROVE  QueueType' /\ (\A n \in DOMAIN ready \cup DOMAIN delay : Sent(n))'
<1>0. \A B \in {ready, delay} : /\ IsABag(With(B, m)) /\ DOMAIN With(B, m) = DOMAIN B \cup {m}
                               /\ IsABag(Without(B, m)) /\ DOMAIN Without(B, m) \subseteq DOMAIN B
  BY WithIs, WithoutIs DEF TypeInv, QueueType
<1>1. IsABag(ready') /\ DOMAIN ready' \subseteq DOMAIN ready \cup {m}
  <2>1. CASE ready' = ready
    BY <2>1 DEF TypeInv, QueueType
  <2>2. CASE ready' = With(ready, m)
    BY <1>0, <2>2
  <2>3. CASE ready' = Without(ready, m)
    BY <1>0, <2>3
  <2> QED BY <2>1, <2>2, <2>3 DEF QueueMove
<1>2. /\ IsABag(delay') /\ DOMAIN delay' \subseteq DOMAIN delay \cup {m}
      /\ m \in DOMAIN delay' => m \in DOMAIN delay \/ Path(m) # <<>>
  BY WithIs, WithoutIs DEF TypeInv, QueueType, QueueMove
<1>3. QueueType'
  BY <1>1, <1>2 DEF TypeInv, QueueType
<1>4. \A n : Sent(n) => Sent(n)'
  BY SentStays
<1>5. \A n \in DOMAIN ready \cup DOMAIN delay \cup {m} : Sent(n)'
  BY <1>4 DEF LineageInv, QueueMove
<1> QED BY <1>1, <1>2, <1>3, <1>5

(* A queue gains a message that was sent before, or the next hop.          *)
LEMMA QueueMoves ==
  ASSUME TypeInv, LineageInv, NEW w \in Workers, Moves(w)
  PROVE  \E m \in Messages : QueueMove(m)
<1> USE DEF At, Idle, Judge, Quiet, WorkOnly, queues, leases, workers, Release, LeaveLane,
            Redeliver
<1>0. \A v \in Workers : msg[v] \in Messages /\ TaskOf(msg[v]) \in Tasks /\ verdict[v] \in Verdicts
  BY MessageIs DEF TypeInv, WorkerType
<1>d. \A v \in Workers : pc[v] = "ack" => Predecessor(msg[v]) \in Messages /\ Sent(Predecessor(msg[v]))
  BY <1>0, PredecessorIs DEF LineageInv, WorkerLineage, Sending
<1>e. NoMessage \in Messages /\ Sent(NoMessage)'
  BY NoMessageIs, FirstIs, DeliveryAssumption DEF NoMessage, Sent
<1>g. \A m : Sent(m) => Sent(m)'
  BY GrowSteps, SentStays
<1>1. CASE Take(w) /\ UNCHANGED <<acked, faults>>
  <2>1. PICK m \in DOMAIN ready : ready' = Without(ready, m)
    BY <1>1 DEF Take
  <2>2. m \in Messages /\ Sent(m)'
    BY <1>g DEF LineageInv, TypeInv, QueueType
  <2> QED BY <1>1, <2>1, <2>2 DEF Take, QueueMove
<1>2. CASE LockBook(w) /\ UNCHANGED <<acked, faults>>
  BY <1>2, <1>e DEF LockBook, BusyBook, QueueMove
<1>3. CASE LockTask(w) /\ UNCHANGED <<acked, faults>>
  BY <1>3, <1>e DEF LockTask, QueueMove
<1>4. CASE Check(w) /\ UNCHANGED <<acked, faults>>
  BY <1>4, <1>e DEF Check, QueueMove
<1>5. CASE Run(w) /\ UNCHANGED <<acked, faults>>
  BY <1>5, <1>e DEF Run, QueueMove
<1>6. CASE UnlockTask(w) /\ UNCHANGED <<acked, faults>>
  BY <1>6, <1>e DEF UnlockTask, QueueMove
<1>7. CASE UnlockBook(w) /\ UNCHANGED <<acked, faults>>
  BY <1>7, <1>e DEF UnlockBook, QueueMove
<1>8. CASE Finish(w) /\ UNCHANGED <<acked, faults>>
  BY <1>8, <1>e DEF Finish, QueueMove
<1>9. CASE Dropped(w) /\ UNCHANGED <<acked, faults>>
  BY <1>9, <1>e DEF Dropped, QueueMove
<1>10. CASE DeadLetter(w) /\ UNCHANGED <<acked, faults>>
  BY <1>10, <1>e DEF DeadLetter, Exhausted, QueueMove
<1>11. CASE Requeue(w) /\ UNCHANGED <<acked, faults>>
  <2>1. PICK m \in Messages : m = msg[w]
    BY <1>0
  <2>2. Sent(m)'
    BY <1>11, <2>1, <1>g DEF Requeue, LineageInv, WorkerLineage, Working, Sending, Sent
  <2>3. Path(m) # <<>> \/ delay' = delay
    BY <1>11, <2>1 DEF Requeue, LineageInv, WorkerLineage, Sending
  <2>4. (ready' = ready \/ ready' = With(ready, m)) /\ (delay' = delay \/ delay' = With(delay, m))
    BY <1>11, <2>1 DEF Requeue
  <2> QED BY <2>2, <2>3, <2>4 DEF QueueMove
<1>12. CASE AckOnly(w) /\ UNCHANGED faults
  BY <1>12, <1>e DEF AckOnly, QueueMove
<1>13. CASE Record(w) /\ UNCHANGED <<acked, faults>>
  BY <1>13, <1>e DEF Record, GoesOn, QueueMove
<1>14. CASE Ack(w) /\ UNCHANGED <<acked, faults>>
  BY <1>14, <1>e DEF Ack, QueueMove
<1>15. CASE Replay(w) /\ UNCHANGED <<acked, faults>>
  BY <1>15, <1>e DEF Replay, QueueMove
<1>16. CASE BeginPublish(w) /\ UNCHANGED <<acked, faults>>
  BY <1>16, <1>e DEF BeginPublish, MarkedBefore, QueueMove
<1>17. CASE SendConfirmed(w) /\ UNCHANGED <<acked, faults>>
  <2>1. PICK m \in Messages : m = msg[w]
    BY <1>0
  <2>2. Sent(m)'
    BY <1>17, <2>1, <1>g DEF SendConfirmed, Enqueue, LineageInv, WorkerLineage, Working, Sending, Sent
  <2>3. Path(m) # <<>> \/ delay' = delay
    BY <1>17, <2>1 DEF SendConfirmed, Enqueue, LineageInv, WorkerLineage, Sending
  <2>4. (ready' = ready \/ ready' = With(ready, m)) /\ (delay' = delay \/ delay' = With(delay, m))
    BY <1>17, <2>1 DEF SendConfirmed, Enqueue
  <2> QED BY <2>2, <2>3, <2>4 DEF QueueMove
<1>18. CASE Receipt(w) /\ UNCHANGED <<acked, faults>>
  BY <1>18, <1>e DEF Receipt, QueueMove
<1>19. CASE CheckFails(w) /\ faults' = faults + 1 /\ UNCHANGED acked
  BY <1>19, <1>e DEF CheckFails, QueueMove
<1>20. CASE SendFails(w) /\ faults' = faults + 1 /\ UNCHANGED acked
  <2>1. PICK m \in Messages : m = msg[w]
    BY <1>0
  <2>2. Sent(m)'
    BY <1>20, <2>1, <1>g DEF SendFails, Enqueue, LineageInv, WorkerLineage, Working, Sending, Sent
  <2>3. Path(m) # <<>> \/ delay' = delay
    BY <1>20, <2>1 DEF SendFails, Enqueue, LineageInv, WorkerLineage, Sending
  <2>4. (ready' = ready \/ ready' = With(ready, m)) /\ (delay' = delay \/ delay' = With(delay, m))
    BY <1>20, <2>1 DEF SendFails, Enqueue
  <2> QED BY <2>2, <2>3, <2>4 DEF QueueMove
<1>21. CASE Disconnect(w) /\ faults' = faults + 1 /\ UNCHANGED acked
  <2>1. PICK m \in Messages : m = msg[w]
    BY <1>0
  <2>2. Sent(m)'
    BY <1>21, <2>1, <1>g DEF Disconnect, LineageInv, WorkerLineage, Working, Sending, Sent
  <2>3. Path(m) # <<>> \/ delay' = delay
    BY <1>21, <2>1 DEF Disconnect, LineageInv, WorkerLineage, Sending
  <2>4. (ready' = ready \/ ready' = With(ready, m)) /\ (delay' = delay \/ delay' = With(delay, m))
    BY <1>21, <2>1 DEF Disconnect
  <2> QED BY <2>2, <2>3, <2>4 DEF QueueMove
<1>22. CASE RecordFails(w) /\ faults' = faults + 1 /\ UNCHANGED acked
  <2>1. PICK m \in Messages : m = msg[w]
    BY <1>0
  <2>2. Sent(m)'
    BY <1>22, <2>1, <1>g DEF RecordFails, GoesOn, LineageInv, WorkerLineage, Working, Sending, Sent
  <2>3. Path(m) # <<>> \/ delay' = delay
    BY <1>22, <2>1 DEF RecordFails, GoesOn, LineageInv, WorkerLineage, Sending
  <2>4. (ready' = ready \/ ready' = With(ready, m)) /\ (delay' = delay \/ delay' = With(delay, m))
    BY <1>22, <2>1 DEF RecordFails, GoesOn
  <2> QED BY <2>2, <2>3, <2>4 DEF QueueMove
<1>23. CASE AckLost(w) /\ faults' = faults + 1 /\ UNCHANGED acked
  <2>1. PICK m \in Messages : m = Predecessor(msg[w]) /\ Sent(m)
    BY <1>23, <1>d DEF AckLost
  <2>2. ready' = With(ready, m) /\ delay' = delay
    BY <1>23, <2>1 DEF AckLost, Predecessor, Task
  <2> QED BY <2>1, <2>2, <1>g DEF QueueMove
<1>24. CASE Crash(w) /\ faults' = faults + 1 /\ UNCHANGED acked
  <2>1. CASE pc[w] = "ack"
    <3>1. PICK m \in Messages : m = Predecessor(msg[w]) /\ Sent(m)
      BY <2>1, <1>d
    <3>2. ready' = With(ready, m) /\ delay' = delay
      BY <1>24, <2>1, <3>1 DEF Crash, Predecessor, Task, Working
    <3> QED BY <3>1, <3>2, <1>g DEF QueueMove
  <2>2. CASE pc[w] # "ack" /\ Working(w)
    <3>1. PICK m \in Messages : m = msg[w]
      BY <1>0
    <3>2. Sent(m) /\ delay' = delay /\ (ready' = ready \/ ready' = With(ready, m))
      BY <1>24, <2>2, <3>1 DEF Crash, LineageInv, WorkerLineage
    <3> QED BY <3>2, <1>g DEF QueueMove
  <2>3. CASE pc[w] # "ack" /\ ~Working(w)
    BY <1>24, <2>3, <1>e DEF Crash, QueueMove
  <2> QED BY <2>1, <2>2, <2>3
<1>25. CASE TurnedAway(w) /\ faults' = faults + 1 /\ UNCHANGED acked
  <2>1. PICK m \in Messages : m = msg[w]
    BY <1>0
  <2>2. Sent(m)'
    BY <1>25, <2>1, <1>g DEF TurnedAway, LineageInv, WorkerLineage, Working, Sending, Sent
  <2>3. Path(m) # <<>> \/ delay' = delay
    BY <1>25, <2>1 DEF TurnedAway, LineageInv, WorkerLineage, Sending
  <2>4. (ready' = ready \/ ready' = With(ready, m)) /\ (delay' = delay \/ delay' = With(delay, m))
    BY <1>25, <2>1 DEF TurnedAway
  <2> QED BY <2>2, <2>3, <2>4 DEF QueueMove
<1>26. CASE LockFails(w) /\ faults' = faults + 1 /\ UNCHANGED acked
  BY <1>26, <1>e DEF LockFails, QueueMove
<1>27. CASE FinishFails(w) /\ faults' = faults + 1 /\ UNCHANGED acked
  BY <1>27, <1>e DEF FinishFails, QueueMove
<1> QED BY <1>1, <1>2, <1>3, <1>4, <1>5, <1>6, <1>7, <1>8, <1>9, <1>10, <1>11, <1>12, <1>13,
          <1>14, <1>15, <1>16, <1>17, <1>18, <1>19, <1>20, <1>21, <1>22, <1>23, <1>24, <1>25,
          <1>26, <1>27
         DEF Moves, WorkerStep, FaultStep

LEMMA LineageSteps ==
  ASSUME TypeInv, LineageInv, NEW w \in Workers, Moves(w)
  PROVE  QueueType' /\ LineageInv'
<1>1. PICK m \in Messages : QueueMove(m)
  BY QueueMoves
<1>2. OutboxGrows
  BY GrowSteps
<1>3. QueueType' /\ (\A n \in DOMAIN ready \cup DOMAIN delay : Sent(n))'
  BY <1>1, <1>2, QueueKeeps
<1>4. ASSUME NEW v \in Workers
      PROVE  WorkerLineage(v)'
  <2>1. CASE v = w
    BY <2>1, WorkerLineageSteps
  <2>2. CASE v # w
    <3>1. pc'[v] = pc[v] /\ msg'[v] = msg[v]
      BY <2>2, OthersStay
    <3>2. \A n : Sent(n) => Sent(n)'
      BY <1>2, SentStays
    <3>3. PICK n : n = msg[v]
      OBVIOUS
    <3>4. PICK p : p = Predecessor(n)
      OBVIOUS
    <3>5. (Sent(n) => Sent(n)') /\ (Sent(p) => Sent(p)')
      BY <3>2
    <3>6. WorkerLineage(v)
      BY DEF LineageInv
    <3>7. (Working(v) => Sent(msg[v]))'
      BY <3>1, <3>3, <3>5, <3>6 DEF WorkerLineage, Working
    <3>8. (pc[v] = "ack" => Sent(Predecessor(msg[v])))'
      <4>1. pc[v] = "ack" => Sent(p)'
        BY <3>3, <3>4, <3>5, <3>6 DEF WorkerLineage
      <4>2. p = Predecessor(msg'[v])
        BY <3>1, <3>3, <3>4
      <4> QED BY <3>1, <4>1, <4>2
    <3>9. /\ pc'[v] \in Sending => msg'[v] \in DOMAIN outbox' /\ Path(msg'[v]) # <<>>
          /\ pc'[v] \in {"send", "receipt"} => outbox'[msg'[v]] # "pending"
      BY <1>2, <3>1, <3>6 DEF WorkerLineage, OutboxGrows, Sending
    <3> QED BY <3>7, <3>8, <3>9 DEF WorkerLineage
  <2> QED BY <2>1, <2>2
<1> QED BY <1>3, <1>4 DEF LineageInv

(* A task at rest stays at rest: only the runner of a task changes it.     *)
LEMMA EndSteps ==
  ASSUME TypeInv, LeaseInv, NEW w \in Workers, Moves(w)
  PROVE  \A t \in Tasks : (row[t] = "over" => row'[t] = "over") /\ (~Open(t) => ~Open(t)')
<1> USE DEF At, Idle, Judge, Quiet, WorkOnly, queues, leases, workers, Release, LeaveLane,
            Redeliver, TypeInv, RowType, LeaseInv, Task, Open, Runnable, Locked
<1>0. \A v \in Workers : msg[v] \in Messages /\ TaskOf(msg[v]) \in Tasks /\ verdict[v] \in Verdicts
  BY MessageIs DEF TypeInv, WorkerType
<1>1. CASE Take(w) /\ UNCHANGED <<acked, faults>>
  BY <1>1, <1>0 DEF Take
<1>2. CASE LockBook(w) /\ UNCHANGED <<acked, faults>>
  BY <1>2, <1>0 DEF LockBook, BusyBook
<1>3. CASE LockTask(w) /\ UNCHANGED <<acked, faults>>
  BY <1>3, <1>0 DEF LockTask
<1>4. CASE Check(w) /\ UNCHANGED <<acked, faults>>
  BY <1>4, <1>0 DEF Check
<1>5. CASE Run(w) /\ UNCHANGED <<acked, faults>>
  BY <1>5, <1>0 DEF Run
<1>6. CASE UnlockTask(w) /\ UNCHANGED <<acked, faults>>
  BY <1>6, <1>0 DEF UnlockTask
<1>7. CASE UnlockBook(w) /\ UNCHANGED <<acked, faults>>
  BY <1>7, <1>0 DEF UnlockBook
<1>8. CASE Finish(w) /\ UNCHANGED <<acked, faults>>
  BY <1>8, <1>0 DEF Finish
<1>9. CASE Dropped(w) /\ UNCHANGED <<acked, faults>>
  BY <1>9, <1>0 DEF Dropped
<1>10. CASE DeadLetter(w) /\ UNCHANGED <<acked, faults>>
  BY <1>10, <1>0 DEF DeadLetter, Exhausted
<1>11. CASE Requeue(w) /\ UNCHANGED <<acked, faults>>
  BY <1>11, <1>0 DEF Requeue
<1>12. CASE AckOnly(w) /\ UNCHANGED faults
  BY <1>12, <1>0 DEF AckOnly
<1>13. CASE Record(w) /\ UNCHANGED <<acked, faults>>
  BY <1>13, <1>0 DEF Record, GoesOn
<1>14. CASE Ack(w) /\ UNCHANGED <<acked, faults>>
  BY <1>14, <1>0 DEF Ack
<1>15. CASE Replay(w) /\ UNCHANGED <<acked, faults>>
  BY <1>15, <1>0 DEF Replay
<1>16. CASE BeginPublish(w) /\ UNCHANGED <<acked, faults>>
  BY <1>16, <1>0 DEF BeginPublish, MarkedBefore
<1>17. CASE SendConfirmed(w) /\ UNCHANGED <<acked, faults>>
  BY <1>17, <1>0 DEF SendConfirmed, Enqueue
<1>18. CASE Receipt(w) /\ UNCHANGED <<acked, faults>>
  BY <1>18, <1>0 DEF Receipt
<1>19. CASE CheckFails(w) /\ faults' = faults + 1 /\ UNCHANGED acked
  BY <1>19, <1>0 DEF CheckFails
<1>20. CASE SendFails(w) /\ faults' = faults + 1 /\ UNCHANGED acked
  BY <1>20, <1>0 DEF SendFails, Enqueue
<1>21. CASE Disconnect(w) /\ faults' = faults + 1 /\ UNCHANGED acked
  BY <1>21, <1>0 DEF Disconnect
<1>22. CASE RecordFails(w) /\ faults' = faults + 1 /\ UNCHANGED acked
  BY <1>22, <1>0 DEF RecordFails, GoesOn
<1>23. CASE AckLost(w) /\ faults' = faults + 1 /\ UNCHANGED acked
  BY <1>23, <1>0 DEF AckLost
<1>24. CASE Crash(w) /\ faults' = faults + 1 /\ UNCHANGED acked
  BY <1>24, <1>0 DEF Crash, Orphaned
<1>25. CASE TurnedAway(w) /\ faults' = faults + 1 /\ UNCHANGED acked
  BY <1>25, <1>0 DEF TurnedAway
<1>26. CASE LockFails(w) /\ faults' = faults + 1 /\ UNCHANGED acked
  BY <1>26, <1>0 DEF LockFails
<1>27. CASE FinishFails(w) /\ faults' = faults + 1 /\ UNCHANGED acked
  BY <1>27, <1>0 DEF FinishFails
<1> QED BY <1>1, <1>2, <1>3, <1>4, <1>5, <1>6, <1>7, <1>8, <1>9, <1>10, <1>11, <1>12, <1>13,
          <1>14, <1>15, <1>16, <1>17, <1>18, <1>19, <1>20, <1>21, <1>22, <1>23, <1>24, <1>25,
          <1>26, <1>27
         DEF Moves, WorkerStep, FaultStep

(* A message leaves a queue for a worker that holds it.                    *)
LEMMA QueuesStay ==
  ASSUME TypeInv, LineageInv, NEW w \in Workers, Moves(w)
  PROVE  \A m \in DOMAIN ready \cup DOMAIN delay \cup dlq : Somewhere(m)'
<1> USE DEF At, Idle, Judge, Quiet, WorkOnly, queues, leases, workers, Release, LeaveLane,
            Redeliver
<1>0. \A v \in Workers : msg[v] \in Messages /\ TaskOf(msg[v]) \in Tasks /\ verdict[v] \in Verdicts
  BY MessageIs DEF TypeInv, WorkerType
<1>a. \A m \in Messages : DOMAIN With(ready, m) = DOMAIN ready \cup {m}
  BY WithIs DEF TypeInv, QueueType
<1>b. \A m \in Messages : DOMAIN With(delay, m) = DOMAIN delay \cup {m}
  BY WithIs DEF TypeInv, QueueType
<1>d. \A v \in Workers : pc[v] = "ack" => <<Task(v), Front(Path(msg[v]))>> \in Messages
  BY <1>0, PredecessorIs DEF LineageInv, WorkerLineage, Sending, Predecessor, Task
<1>1. CASE Take(w) /\ UNCHANGED <<acked, faults>>
  <2>1. PICK n \in DOMAIN ready : ready' = Without(ready, n) /\ msg' = [msg EXCEPT ![w] = n]
    BY <1>1 DEF Take
  <2>2. DOMAIN ready \ {n} \subseteq DOMAIN ready'
    BY <2>1, WithoutIs DEF TypeInv, QueueType
  <2>3. holds'[w] /\ pc'[w] = "book" /\ msg'[w] = n /\ delay' = delay /\ dlq' = dlq
    BY <1>1, <2>1 DEF Take, TypeInv, WorkerType
  <2>4. Somewhere(n)'
    BY <2>3 DEF Somewhere, Working
  <2>5. \A m \in DOMAIN ready \cup DOMAIN delay \cup dlq : m # n => Somewhere(m)'
    BY <2>2, <2>3 DEF Somewhere
  <2> QED BY <2>4, <2>5
<1>2. CASE LockBook(w) /\ UNCHANGED <<acked, faults>>
  BY <1>2 DEF LockBook, BusyBook, Somewhere
<1>3. CASE LockTask(w) /\ UNCHANGED <<acked, faults>>
  BY <1>3 DEF LockTask, Somewhere
<1>4. CASE Check(w) /\ UNCHANGED <<acked, faults>>
  BY <1>4 DEF Check, Somewhere
<1>5. CASE Run(w) /\ UNCHANGED <<acked, faults>>
  BY <1>5 DEF Run, Somewhere
<1>6. CASE UnlockTask(w) /\ UNCHANGED <<acked, faults>>
  BY <1>6 DEF UnlockTask, Somewhere
<1>7. CASE UnlockBook(w) /\ UNCHANGED <<acked, faults>>
  BY <1>7 DEF UnlockBook, Somewhere
<1>8. CASE Finish(w) /\ UNCHANGED <<acked, faults>>
  BY <1>8 DEF Finish, Somewhere
<1>9. CASE Dropped(w) /\ UNCHANGED <<acked, faults>>
  BY <1>9 DEF Dropped, Somewhere
<1>10. CASE DeadLetter(w) /\ UNCHANGED <<acked, faults>>
  <2>1. DOMAIN ready \subseteq DOMAIN ready'
    BY <1>10, <1>0, <1>a DEF DeadLetter, Exhausted
  <2>2. DOMAIN delay \subseteq DOMAIN delay' /\ dlq \subseteq dlq'
    BY <1>10, <1>0, <1>b DEF DeadLetter, Exhausted
  <2> QED BY <2>1, <2>2 DEF Somewhere
<1>11. CASE Requeue(w) /\ UNCHANGED <<acked, faults>>
  <2>1. DOMAIN ready \subseteq DOMAIN ready'
    BY <1>11, <1>0, <1>a DEF Requeue
  <2>2. DOMAIN delay \subseteq DOMAIN delay' /\ dlq \subseteq dlq'
    BY <1>11, <1>0, <1>b DEF Requeue
  <2> QED BY <2>1, <2>2 DEF Somewhere
<1>12. CASE AckOnly(w) /\ UNCHANGED faults
  BY <1>12 DEF AckOnly, Somewhere
<1>13. CASE Record(w) /\ UNCHANGED <<acked, faults>>
  BY <1>13 DEF Record, GoesOn, Somewhere
<1>14. CASE Ack(w) /\ UNCHANGED <<acked, faults>>
  BY <1>14 DEF Ack, Somewhere
<1>15. CASE Replay(w) /\ UNCHANGED <<acked, faults>>
  BY <1>15 DEF Replay, Somewhere
<1>16. CASE BeginPublish(w) /\ UNCHANGED <<acked, faults>>
  BY <1>16 DEF BeginPublish, MarkedBefore, Somewhere
<1>17. CASE SendConfirmed(w) /\ UNCHANGED <<acked, faults>>
  <2>1. DOMAIN ready \subseteq DOMAIN ready'
    BY <1>17, <1>0, <1>a DEF SendConfirmed, Enqueue
  <2>2. DOMAIN delay \subseteq DOMAIN delay' /\ dlq \subseteq dlq'
    BY <1>17, <1>0, <1>b DEF SendConfirmed, Enqueue
  <2> QED BY <2>1, <2>2 DEF Somewhere
<1>18. CASE Receipt(w) /\ UNCHANGED <<acked, faults>>
  BY <1>18 DEF Receipt, Somewhere
<1>19. CASE CheckFails(w) /\ faults' = faults + 1 /\ UNCHANGED acked
  BY <1>19 DEF CheckFails, Somewhere
<1>20. CASE SendFails(w) /\ faults' = faults + 1 /\ UNCHANGED acked
  <2>1. DOMAIN ready \subseteq DOMAIN ready'
    BY <1>20, <1>0, <1>a DEF SendFails, Enqueue
  <2>2. DOMAIN delay \subseteq DOMAIN delay' /\ dlq \subseteq dlq'
    BY <1>20, <1>0, <1>b DEF SendFails, Enqueue
  <2> QED BY <2>1, <2>2 DEF Somewhere
<1>21. CASE Disconnect(w) /\ faults' = faults + 1 /\ UNCHANGED acked
  <2>1. DOMAIN ready \subseteq DOMAIN ready'
    BY <1>21, <1>0, <1>a DEF Disconnect
  <2>2. DOMAIN delay \subseteq DOMAIN delay' /\ dlq \subseteq dlq'
    BY <1>21, <1>0, <1>b DEF Disconnect
  <2> QED BY <2>1, <2>2 DEF Somewhere
<1>22. CASE RecordFails(w) /\ faults' = faults + 1 /\ UNCHANGED acked
  <2>1. DOMAIN ready \subseteq DOMAIN ready'
    BY <1>22, <1>0, <1>a DEF RecordFails, GoesOn
  <2>2. DOMAIN delay \subseteq DOMAIN delay' /\ dlq \subseteq dlq'
    BY <1>22, <1>0, <1>b DEF RecordFails, GoesOn
  <2> QED BY <2>1, <2>2 DEF Somewhere
<1>23. CASE AckLost(w) /\ faults' = faults + 1 /\ UNCHANGED acked
  <2>1. DOMAIN ready \subseteq DOMAIN ready'
    BY <1>23, <1>0, <1>a, <1>d DEF AckLost
  <2>2. DOMAIN delay \subseteq DOMAIN delay' /\ dlq \subseteq dlq'
    BY <1>23, <1>0, <1>b DEF AckLost
  <2> QED BY <2>1, <2>2 DEF Somewhere
<1>24. CASE Crash(w) /\ faults' = faults + 1 /\ UNCHANGED acked
  <2>1. DOMAIN ready \subseteq DOMAIN ready'
    BY <1>24, <1>0, <1>a, <1>d DEF Crash, Orphaned
  <2>2. DOMAIN delay \subseteq DOMAIN delay' /\ dlq \subseteq dlq'
    BY <1>24, <1>0, <1>b DEF Crash, Orphaned
  <2> QED BY <2>1, <2>2 DEF Somewhere
<1>25. CASE TurnedAway(w) /\ faults' = faults + 1 /\ UNCHANGED acked
  <2>1. DOMAIN ready \subseteq DOMAIN ready'
    BY <1>25, <1>0, <1>a DEF TurnedAway
  <2>2. DOMAIN delay \subseteq DOMAIN delay' /\ dlq \subseteq dlq'
    BY <1>25, <1>0, <1>b DEF TurnedAway
  <2> QED BY <2>1, <2>2 DEF Somewhere
<1>26. CASE LockFails(w) /\ faults' = faults + 1 /\ UNCHANGED acked
  BY <1>26 DEF LockFails, Somewhere
<1>27. CASE FinishFails(w) /\ faults' = faults + 1 /\ UNCHANGED acked
  BY <1>27 DEF FinishFails, Somewhere
<1> QED BY <1>1, <1>2, <1>3, <1>4, <1>5, <1>6, <1>7, <1>8, <1>9, <1>10, <1>11, <1>12, <1>13,
          <1>14, <1>15, <1>16, <1>17, <1>18, <1>19, <1>20, <1>21, <1>22, <1>23, <1>24, <1>25,
          <1>26, <1>27
         DEF Moves, WorkerStep, FaultStep

(* A delivery is let go when its task rests, or has a hop or a message.    *)
LEMMA OwnStays ==
  ASSUME TypeInv, VerdictInv, NEW w \in Workers, Moves(w)
  PROVE  \A m \in Messages : holds[w] /\ Working(w) /\ msg[w] = m => Kept(m)'
<1> USE DEF At, Idle, Judge, Quiet, WorkOnly, queues, leases, workers, Release, LeaveLane,
            Redeliver
<1>0. \A v \in Workers : msg[v] \in Messages /\ TaskOf(msg[v]) \in Tasks /\ verdict[v] \in Verdicts
  BY MessageIs DEF TypeInv, WorkerType
<1>a. \A m \in Messages : DOMAIN With(ready, m) = DOMAIN ready \cup {m}
  BY WithIs DEF TypeInv, QueueType
<1>1. CASE Take(w) /\ UNCHANGED <<acked, faults>>
  BY <1>1 DEF Take, Working
<1>2. CASE LockBook(w) /\ UNCHANGED <<acked, faults>>
  <2>1. holds[w] /\ Working(w) => holds'[w] /\ Working(w)' /\ msg'[w] = msg[w]
    BY <1>2 DEF LockBook, BusyBook, TypeInv, WorkerType, Working
  <2> QED BY <2>1 DEF Kept, Somewhere
<1>3. CASE LockTask(w) /\ UNCHANGED <<acked, faults>>
  <2>1. holds[w] /\ Working(w) => holds'[w] /\ Working(w)' /\ msg'[w] = msg[w]
    BY <1>3 DEF LockTask, TypeInv, WorkerType, Working
  <2> QED BY <2>1 DEF Kept, Somewhere
<1>4. CASE Check(w) /\ UNCHANGED <<acked, faults>>
  <2>1. holds[w] /\ Working(w) => holds'[w] /\ Working(w)' /\ msg'[w] = msg[w]
    BY <1>4 DEF Check, TypeInv, WorkerType, Working
  <2> QED BY <2>1 DEF Kept, Somewhere
<1>5. CASE Run(w) /\ UNCHANGED <<acked, faults>>
  <2>1. holds[w] /\ Working(w) => holds'[w] /\ Working(w)' /\ msg'[w] = msg[w]
    BY <1>5 DEF Run, TypeInv, WorkerType, Working
  <2> QED BY <2>1 DEF Kept, Somewhere
<1>6. CASE UnlockTask(w) /\ UNCHANGED <<acked, faults>>
  <2>1. holds[w] /\ Working(w) => holds'[w] /\ Working(w)' /\ msg'[w] = msg[w]
    BY <1>6 DEF UnlockTask, TypeInv, WorkerType, Working
  <2> QED BY <2>1 DEF Kept, Somewhere
<1>7. CASE UnlockBook(w) /\ UNCHANGED <<acked, faults>>
  <2>1. holds[w] /\ Working(w) => holds'[w] /\ Working(w)' /\ msg'[w] = msg[w]
    BY <1>7 DEF UnlockBook, TypeInv, WorkerType, Working
  <2> QED BY <2>1 DEF Kept, Somewhere
<1>8. CASE Finish(w) /\ UNCHANGED <<acked, faults>>
  <2>1. holds[w] /\ Working(w) => holds'[w] /\ Working(w)' /\ msg'[w] = msg[w]
    BY <1>8 DEF Finish, TypeInv, WorkerType, Working
  <2> QED BY <2>1 DEF Kept, Somewhere
<1>9. CASE Dropped(w) /\ UNCHANGED <<acked, faults>>
  BY <1>9 DEF Dropped, Working
<1>10. CASE DeadLetter(w) /\ UNCHANGED <<acked, faults>>
  <2>1. msg[w] \in dlq'
    BY <1>10 DEF DeadLetter
  <2> QED BY <2>1 DEF Kept, Somewhere
<1>11. CASE Requeue(w) /\ UNCHANGED <<acked, faults>>
  <2>1. holds[w] => DOMAIN ready' = DOMAIN ready \cup {msg[w]}
    BY <1>11, <1>0, <1>a DEF Requeue
  <2> QED BY <2>1 DEF Kept, Somewhere
<1>12. CASE AckOnly(w) /\ UNCHANGED faults
  <2>1. CASE verdict[w] \in Lets
    <3>1. verdict[w] \in acked'[TaskOf(msg[w])]
      BY <1>0, <1>12, <2>1 DEF AckOnly, Task, TypeInv, RowType
    <3> QED BY <3>1 DEF Kept
  <2>2. CASE verdict[w] \notin Lets
    <3>1. ~Open(TaskOf(msg[w])) /\ row' = row
      BY <1>12, <2>2 DEF AckOnly, Ends, VerdictInv, Judged, Task
    <3> QED BY <3>1 DEF Kept, Open
  <2> QED BY <2>1, <2>2
<1>13. CASE Record(w) /\ UNCHANGED <<acked, faults>>
  <2>1. Hop(msg[w], verdict[w]) \in DOMAIN outbox' /\ verdict[w] \in Hops
    BY <1>13 DEF Record, GoesOn
  <2> QED BY <2>1 DEF Kept
<1>14. CASE Ack(w) /\ UNCHANGED <<acked, faults>>
  BY <1>14 DEF Ack, Working
<1>15. CASE Replay(w) /\ UNCHANGED <<acked, faults>>
  BY <1>15 DEF Replay, Working
<1>16. CASE BeginPublish(w) /\ UNCHANGED <<acked, faults>>
  BY <1>16 DEF BeginPublish, MarkedBefore, Working
<1>17. CASE SendConfirmed(w) /\ UNCHANGED <<acked, faults>>
  BY <1>17 DEF SendConfirmed, Enqueue, Working
<1>18. CASE Receipt(w) /\ UNCHANGED <<acked, faults>>
  BY <1>18 DEF Receipt, Working
<1>19. CASE CheckFails(w) /\ faults' = faults + 1 /\ UNCHANGED acked
  <2>1. holds[w] /\ Working(w) => holds'[w] /\ Working(w)' /\ msg'[w] = msg[w]
    BY <1>19 DEF CheckFails, TypeInv, WorkerType, Working
  <2> QED BY <2>1 DEF Kept, Somewhere
<1>20. CASE SendFails(w) /\ faults' = faults + 1 /\ UNCHANGED acked
  BY <1>20 DEF SendFails, Enqueue, Working
<1>21. CASE Disconnect(w) /\ faults' = faults + 1 /\ UNCHANGED acked
  <2>1. holds[w] => DOMAIN ready' = DOMAIN ready \cup {msg[w]}
    BY <1>21, <1>0, <1>a DEF Disconnect
  <2> QED BY <2>1 DEF Kept, Somewhere
<1>22. CASE RecordFails(w) /\ faults' = faults + 1 /\ UNCHANGED acked
  <2>1. holds[w] => DOMAIN ready' = DOMAIN ready \cup {msg[w]}
    BY <1>22, <1>0, <1>a DEF RecordFails
  <2> QED BY <2>1 DEF Kept, Somewhere
<1>23. CASE AckLost(w) /\ faults' = faults + 1 /\ UNCHANGED acked
  BY <1>23 DEF AckLost, Working
<1>24. CASE Crash(w) /\ faults' = faults + 1 /\ UNCHANGED acked
  <2>1. holds[w] /\ Working(w) => DOMAIN ready' = DOMAIN ready \cup {msg[w]}
    BY <1>24, <1>0, <1>a DEF Crash, Working
  <2> QED BY <2>1 DEF Kept, Somewhere
<1>25. CASE TurnedAway(w) /\ faults' = faults + 1 /\ UNCHANGED acked
  <2>1. holds[w] => DOMAIN ready' = DOMAIN ready \cup {msg[w]}
    BY <1>25, <1>0, <1>a DEF TurnedAway
  <2> QED BY <2>1 DEF Kept, Somewhere
<1>26. CASE LockFails(w) /\ faults' = faults + 1 /\ UNCHANGED acked
  <2>1. holds[w] /\ Working(w) => holds'[w] /\ Working(w)' /\ msg'[w] = msg[w]
    BY <1>26 DEF LockFails, TypeInv, WorkerType, Working
  <2> QED BY <2>1 DEF Kept, Somewhere
<1>27. CASE FinishFails(w) /\ faults' = faults + 1 /\ UNCHANGED acked
  <2>1. holds[w] /\ Working(w) => holds'[w] /\ Working(w)' /\ msg'[w] = msg[w]
    BY <1>27 DEF FinishFails, TypeInv, WorkerType, Working
  <2> QED BY <2>1 DEF Kept, Somewhere
<1> QED BY <1>1, <1>2, <1>3, <1>4, <1>5, <1>6, <1>7, <1>8, <1>9, <1>10, <1>11, <1>12, <1>13,
          <1>14, <1>15, <1>16, <1>17, <1>18, <1>19, <1>20, <1>21, <1>22, <1>23, <1>24, <1>25,
          <1>26, <1>27
         DEF Moves, WorkerStep, FaultStep

LEMMA KeptStays ==
  ASSUME DeliveryInv, NEW w \in Workers, Moves(w), NEW m \in Messages, Kept(m)
  PROVE  Kept(m)'
<1>1. CASE m \in DOMAIN ready \cup DOMAIN delay \cup dlq
  BY <1>1, QueuesStay DEF DeliveryInv, Kept
<1>2. CASE holds[w] /\ Working(w) /\ msg[w] = m
  BY <1>2, OwnStays DEF DeliveryInv
<1>3. ASSUME NEW v \in Workers \ {w}, holds[v], Working(v), msg[v] = m
      PROVE  Kept(m)'
  <2>1. holds'[v] /\ msg'[v] = m /\ pc'[v] = pc[v]
    BY <1>3, OthersStay DEF DeliveryInv
  <2> QED BY <1>3, <2>1 DEF Kept, Somewhere, Working
<1>4. ASSUME NEW d \in Hops, Hop(m, d) \in DOMAIN outbox
      PROVE  Kept(m)'
  <2>1. Hop(m, d) \in DOMAIN outbox'
    BY <1>4, GrowSteps DEF DeliveryInv, OutboxGrows
  <2> QED BY <2>1 DEF Kept
<1>5. CASE ~Open(TaskOf(m))
  <2>1. ~Open(TaskOf(m))'
    BY <1>5, EndSteps, MessageIs DEF DeliveryInv
  <2> QED BY <2>1 DEF Kept
<1>6. CASE acked[TaskOf(m)] # {}
  <2>1. acked[TaskOf(m)] \subseteq acked'[TaskOf(m)]
    BY MessageIs DEF DeliveryInv, TypeInv, RowType, WorkerType, Task, Moves, WorkerStep, AckOnly
  <2> QED BY <1>6, <2>1 DEF Kept
<1> QED BY <1>1, <1>2, <1>3, <1>4, <1>5, <1>6 DEF Kept, Somewhere

(* A row becomes published with the receipt only.                          *)
LEMMA PublishSteps ==
  ASSUME TypeInv, LineageInv, NEW w \in Workers, Moves(w)
  PROVE  \A m \in DOMAIN outbox' : outbox'[m] = "published" =>
            \/ m \in DOMAIN outbox /\ outbox[m] = "published"
            \/ m = msg[w] /\ pc[w] = "receipt"
<1> USE DEF At, Idle, Judge, Quiet, WorkOnly, queues, leases, workers, Release, LeaveLane,
            Redeliver, TypeInv, OutboxType, WorkerType, LineageInv, WorkerLineage, Sending
<1>1. CASE Take(w) /\ UNCHANGED <<acked, faults>>
  BY <1>1 DEF Take
<1>2. CASE LockBook(w) /\ UNCHANGED <<acked, faults>>
  BY <1>2 DEF LockBook, BusyBook
<1>3. CASE LockTask(w) /\ UNCHANGED <<acked, faults>>
  BY <1>3 DEF LockTask
<1>4. CASE Check(w) /\ UNCHANGED <<acked, faults>>
  BY <1>4 DEF Check
<1>5. CASE Run(w) /\ UNCHANGED <<acked, faults>>
  BY <1>5 DEF Run
<1>6. CASE UnlockTask(w) /\ UNCHANGED <<acked, faults>>
  BY <1>6 DEF UnlockTask
<1>7. CASE UnlockBook(w) /\ UNCHANGED <<acked, faults>>
  BY <1>7 DEF UnlockBook
<1>8. CASE Finish(w) /\ UNCHANGED <<acked, faults>>
  BY <1>8 DEF Finish
<1>9. CASE Dropped(w) /\ UNCHANGED <<acked, faults>>
  BY <1>9 DEF Dropped
<1>10. CASE DeadLetter(w) /\ UNCHANGED <<acked, faults>>
  BY <1>10 DEF DeadLetter, Exhausted
<1>11. CASE Requeue(w) /\ UNCHANGED <<acked, faults>>
  BY <1>11 DEF Requeue
<1>12. CASE AckOnly(w) /\ UNCHANGED faults
  BY <1>12 DEF AckOnly
<1>13. CASE Record(w) /\ UNCHANGED <<acked, faults>>
  BY <1>13 DEF Record, GoesOn
<1>14. CASE Ack(w) /\ UNCHANGED <<acked, faults>>
  BY <1>14 DEF Ack
<1>15. CASE Replay(w) /\ UNCHANGED <<acked, faults>>
  BY <1>15 DEF Replay
<1>16. CASE BeginPublish(w) /\ UNCHANGED <<acked, faults>>
  BY <1>16 DEF BeginPublish, MarkedBefore
<1>17. CASE SendConfirmed(w) /\ UNCHANGED <<acked, faults>>
  BY <1>17 DEF SendConfirmed, Enqueue
<1>18. CASE Receipt(w) /\ UNCHANGED <<acked, faults>>
  BY <1>18 DEF Receipt
<1>19. CASE CheckFails(w) /\ faults' = faults + 1 /\ UNCHANGED acked
  BY <1>19 DEF CheckFails
<1>20. CASE SendFails(w) /\ faults' = faults + 1 /\ UNCHANGED acked
  BY <1>20 DEF SendFails, Enqueue
<1>21. CASE Disconnect(w) /\ faults' = faults + 1 /\ UNCHANGED acked
  BY <1>21 DEF Disconnect
<1>22. CASE RecordFails(w) /\ faults' = faults + 1 /\ UNCHANGED acked
  BY <1>22 DEF RecordFails, GoesOn
<1>23. CASE AckLost(w) /\ faults' = faults + 1 /\ UNCHANGED acked
  BY <1>23 DEF AckLost
<1>24. CASE Crash(w) /\ faults' = faults + 1 /\ UNCHANGED acked
  BY <1>24 DEF Crash, Orphaned
<1>25. CASE TurnedAway(w) /\ faults' = faults + 1 /\ UNCHANGED acked
  BY <1>25 DEF TurnedAway
<1>26. CASE LockFails(w) /\ faults' = faults + 1 /\ UNCHANGED acked
  BY <1>26 DEF LockFails
<1>27. CASE FinishFails(w) /\ faults' = faults + 1 /\ UNCHANGED acked
  BY <1>27 DEF FinishFails
<1> QED BY <1>1, <1>2, <1>3, <1>4, <1>5, <1>6, <1>7, <1>8, <1>9, <1>10, <1>11, <1>12, <1>13,
          <1>14, <1>15, <1>16, <1>17, <1>18, <1>19, <1>20, <1>21, <1>22, <1>23, <1>24, <1>25,
          <1>26, <1>27
         DEF Moves, WorkerStep, FaultStep

(* A receipt follows a send.                                               *)
LEMMA ReceiptSteps ==
  ASSUME TypeInv, NEW w \in Workers, Moves(w)
  PROVE  pc'[w] = "receipt" => \A m : msg'[w] = m => Somewhere(m)'
<1> USE DEF At, Idle, Judge, Quiet, WorkOnly, queues, leases, workers, Release, LeaveLane,
            Redeliver
<1>0. \A v \in Workers : msg[v] \in Messages /\ TaskOf(msg[v]) \in Tasks /\ verdict[v] \in Verdicts
  BY MessageIs DEF TypeInv, WorkerType
<1>a. \A m \in Messages : DOMAIN With(ready, m) = DOMAIN ready \cup {m}
  BY WithIs DEF TypeInv, QueueType
<1>b. \A m \in Messages : DOMAIN With(delay, m) = DOMAIN delay \cup {m}
  BY WithIs DEF TypeInv, QueueType
<1>1. CASE Take(w) /\ UNCHANGED <<acked, faults>>
  BY <1>1 DEF Take, TypeInv, WorkerType
<1>2. CASE LockBook(w) /\ UNCHANGED <<acked, faults>>
  BY <1>2 DEF LockBook, BusyBook, TypeInv, WorkerType
<1>3. CASE LockTask(w) /\ UNCHANGED <<acked, faults>>
  BY <1>3 DEF LockTask, TypeInv, WorkerType
<1>4. CASE Check(w) /\ UNCHANGED <<acked, faults>>
  BY <1>4 DEF Check, TypeInv, WorkerType
<1>5. CASE Run(w) /\ UNCHANGED <<acked, faults>>
  BY <1>5 DEF Run, TypeInv, WorkerType
<1>6. CASE UnlockTask(w) /\ UNCHANGED <<acked, faults>>
  BY <1>6 DEF UnlockTask, TypeInv, WorkerType
<1>7. CASE UnlockBook(w) /\ UNCHANGED <<acked, faults>>
  BY <1>7 DEF UnlockBook, TypeInv, WorkerType
<1>8. CASE Finish(w) /\ UNCHANGED <<acked, faults>>
  BY <1>8 DEF Finish, TypeInv, WorkerType
<1>9. CASE Dropped(w) /\ UNCHANGED <<acked, faults>>
  BY <1>9 DEF Dropped, TypeInv, WorkerType
<1>10. CASE DeadLetter(w) /\ UNCHANGED <<acked, faults>>
  BY <1>10 DEF DeadLetter, Exhausted, TypeInv, WorkerType
<1>11. CASE Requeue(w) /\ UNCHANGED <<acked, faults>>
  BY <1>11 DEF Requeue, TypeInv, WorkerType
<1>12. CASE AckOnly(w) /\ UNCHANGED faults
  BY <1>12 DEF AckOnly, TypeInv, WorkerType
<1>13. CASE Record(w) /\ UNCHANGED <<acked, faults>>
  BY <1>13 DEF Record, GoesOn, TypeInv, WorkerType
<1>14. CASE Ack(w) /\ UNCHANGED <<acked, faults>>
  BY <1>14 DEF Ack, TypeInv, WorkerType
<1>15. CASE Replay(w) /\ UNCHANGED <<acked, faults>>
  BY <1>15 DEF Replay, TypeInv, WorkerType
<1>16. CASE BeginPublish(w) /\ UNCHANGED <<acked, faults>>
  BY <1>16 DEF BeginPublish, MarkedBefore, TypeInv, WorkerType
<1>17. CASE SendConfirmed(w) /\ UNCHANGED <<acked, faults>>
  <2>1. msg[w] \in DOMAIN ready' \/ msg[w] \in DOMAIN delay'
    BY <1>17, <1>0, <1>a, <1>b DEF SendConfirmed, Enqueue
  <2>2. msg' = msg
    BY <1>17 DEF SendConfirmed
  <2> QED BY <2>1, <2>2 DEF Somewhere
<1>18. CASE Receipt(w) /\ UNCHANGED <<acked, faults>>
  BY <1>18 DEF Receipt, TypeInv, WorkerType
<1>19. CASE CheckFails(w) /\ faults' = faults + 1 /\ UNCHANGED acked
  BY <1>19 DEF CheckFails, TypeInv, WorkerType
<1>20. CASE SendFails(w) /\ faults' = faults + 1 /\ UNCHANGED acked
  BY <1>20 DEF SendFails, Enqueue, TypeInv, WorkerType
<1>21. CASE Disconnect(w) /\ faults' = faults + 1 /\ UNCHANGED acked
  BY <1>21 DEF Disconnect, Working, TypeInv, WorkerType
<1>22. CASE RecordFails(w) /\ faults' = faults + 1 /\ UNCHANGED acked
  BY <1>22 DEF RecordFails, GoesOn, TypeInv, WorkerType
<1>23. CASE AckLost(w) /\ faults' = faults + 1 /\ UNCHANGED acked
  BY <1>23 DEF AckLost, TypeInv, WorkerType
<1>24. CASE Crash(w) /\ faults' = faults + 1 /\ UNCHANGED acked
  BY <1>24 DEF Crash, Orphaned, TypeInv, WorkerType
<1>25. CASE TurnedAway(w) /\ faults' = faults + 1 /\ UNCHANGED acked
  BY <1>25 DEF TurnedAway, Working, TypeInv, WorkerType
<1>26. CASE LockFails(w) /\ faults' = faults + 1 /\ UNCHANGED acked
  BY <1>26 DEF LockFails, TypeInv, WorkerType
<1>27. CASE FinishFails(w) /\ faults' = faults + 1 /\ UNCHANGED acked
  BY <1>27 DEF FinishFails, TypeInv, WorkerType
<1> QED BY <1>1, <1>2, <1>3, <1>4, <1>5, <1>6, <1>7, <1>8, <1>9, <1>10, <1>11, <1>12, <1>13,
          <1>14, <1>15, <1>16, <1>17, <1>18, <1>19, <1>20, <1>21, <1>22, <1>23, <1>24, <1>25,
          <1>26, <1>27
         DEF Moves, WorkerStep, FaultStep

LEMMA KeptSteps ==
  ASSUME DeliveryInv, NEW w \in Workers, Moves(w), TypeInv'
  PROVE  KeptInv'
<1>1. \A t \in Tasks : Kept(First(t))'
  BY KeptStays, FirstIs DEF DeliveryInv, KeptInv
<1>2. ASSUME NEW m \in DOMAIN outbox', outbox'[m] = "published"
      PROVE  Kept(m)'
  <2>1. Kept(m)
    BY <1>2, PublishSteps DEF DeliveryInv, KeptInv
  <2>2. m \in Messages
    BY DEF TypeInv, OutboxType
  <2> QED BY <2>1, <2>2, KeptStays
<1>3. ASSUME NEW v \in Workers, pc'[v] = "receipt"
      PROVE  Kept(msg[v])'
  <2>1. PICK m : m = msg'[v]
    OBVIOUS
  <2>2. m \in Messages
    BY <2>1 DEF TypeInv, WorkerType
  <2>3. CASE v = w
    BY <1>3, <2>1, <2>3, ReceiptSteps DEF DeliveryInv, Kept
  <2>4. CASE v # w
    <3>1. pc[v] = "receipt" /\ msg[v] = m
      BY <1>3, <2>1, <2>4, OthersStay DEF DeliveryInv
    <3>2. Kept(m)
      BY <3>1 DEF DeliveryInv, KeptInv
    <3> QED BY <2>1, <2>2, <3>2, KeptStays
  <2> QED BY <2>3, <2>4
<1> QED BY <1>1, <1>2, <1>3 DEF KeptInv

LEMMA WorkerMoves ==
  ASSUME DeliveryInv, NEW w \in Workers, Moves(w)
  PROVE  DeliveryInv'
<1>1. TypeInv'
  BY WorkerSteps, RowSteps, OutboxSteps, LineageSteps DEF DeliveryInv, TypeInv
<1>2. LeaseInv' /\ VerdictInv' /\ LineageInv'
  BY LeaseSteps, VerdictSteps, LineageSteps DEF DeliveryInv
<1>3. KeptInv'
  BY <1>1, KeptSteps
<1> QED BY <1>1, <1>2, <1>3 DEF DeliveryInv

(* A back-off that ends takes the message from one queue to the other.     *)
LEMMA ExpireMoves ==
  ASSUME DeliveryInv, Expire, UNCHANGED <<acked, faults>>
  PROVE  DeliveryInv'
<1> USE DEF workers, leases
<1>1. PICK m \in DOMAIN delay : ready' = With(ready, m) /\ delay' = Without(delay, m)
  BY DEF Expire
<1>2. m \in Messages /\ Sent(m)'
  BY DEF DeliveryInv, TypeInv, QueueType, LineageInv, Expire, Sent
<1>3. OutboxGrows
  BY DEF Expire, OutboxGrows
<1>4. QueueType' /\ (\A n \in DOMAIN ready \cup DOMAIN delay : Sent(n))'
  <2>1. QueueMove(m)
    BY <1>1, <1>2 DEF QueueMove
  <2> QED BY <1>2, <1>3, <2>1, QueueKeeps DEF DeliveryInv
<1>5. TypeInv'
  BY <1>4 DEF DeliveryInv, TypeInv, WorkerType, RowType, OutboxType, Expire
<1>6. LineageInv'
  <2>1. \A w \in Workers : WorkerLineage(w)'
    BY DEF DeliveryInv, LineageInv, WorkerLineage, Working, Sent, Expire
  <2> QED BY <1>4, <2>1 DEF LineageInv
<1>7. LeaseInv' /\ VerdictInv'
  BY DEF DeliveryInv, LeaseInv, VerdictInv, Task, Open, Expire
<1>8. \A n : Kept(n) => Kept(n)'
  <2>1. DOMAIN ready \cup {m} \subseteq DOMAIN ready' /\ DOMAIN delay \ {m} \subseteq DOMAIN delay'
    BY <1>1, WithIs, WithoutIs DEF DeliveryInv, TypeInv, QueueType
  <2>2. \A n : Somewhere(n) => Somewhere(n)'
    BY <2>1 DEF Somewhere, Working, Expire
  <2> QED BY <2>2 DEF Kept, Open, Expire
<1>9. KeptInv'
  <2>1. /\ \A t \in Tasks : Kept(First(t))
        /\ \A n \in DOMAIN outbox : outbox[n] = "published" => Kept(n)
        /\ \A w \in Workers : pc[w] = "receipt" => Kept(msg[w])
    BY DEF DeliveryInv, KeptInv
  <2>2. ASSUME NEW w \in Workers, pc'[w] = "receipt"
        PROVE  Kept(msg[w])'
    <3>1. PICK n : n = msg[w] /\ Kept(n)
      BY <2>1, <2>2 DEF Expire
    <3>2. msg' = msg
      BY DEF Expire
    <3> QED BY <1>8, <3>1, <3>2
  <2>3. \A n \in DOMAIN outbox' : outbox'[n] = "published" => Kept(n)'
    BY <1>8, <2>1 DEF Expire
  <2> QED BY <1>8, <2>1, <2>2, <2>3 DEF KeptInv
<1> QED BY <1>5, <1>6, <1>7, <1>9 DEF DeliveryInv

LEMMA LapseMoves ==
  ASSUME DeliveryInv, Lapse, UNCHANGED <<acked, faults>>
  PROVE  DeliveryInv'
<1> USE DEF workers, queues
<1>1. TypeInv'
  BY DEF DeliveryInv, TypeInv, WorkerType, RowType, OutboxType, QueueType, Lapse
<1>2. LeaseInv'
  <2>1. pc' = pc /\ msg' = msg /\ row' = row
    BY DEF Lapse
  <2>2. ASSUME NEW w \in Workers, NEW t \in Tasks
        PROVE  taskLease'[t] = w <=> taskLease[t] = w
    BY DeliveryAssumption DEF DeliveryInv, TypeInv, RowType, Lapse
  <2>3. \A w \in Workers : Task(w) \in Tasks
    BY MessageIs DEF DeliveryInv, TypeInv, WorkerType, Task
  <2>4. LeaseInv
    BY DEF DeliveryInv
  <2> QED BY <2>1, <2>2, <2>3, <2>4 DEF LeaseInv, Task
<1>3. VerdictInv' /\ LineageInv'
  BY DEF DeliveryInv, VerdictInv, LineageInv, WorkerLineage, Working, Sent, Task, Open, Lapse
<1>4. KeptInv'
  BY DEF DeliveryInv, KeptInv, Kept, Somewhere, Working, Open, Lapse
<1> QED BY <1>1, <1>2, <1>3, <1>4 DEF DeliveryInv

LEMMA StutterMoves ==
  ASSUME DeliveryInv, UNCHANGED vars
  PROVE  DeliveryInv'
<1> USE DEF vars, workers, queues, leases
<1>1. TypeInv'
  BY DEF DeliveryInv, TypeInv, WorkerType, RowType, OutboxType, QueueType
<1>2. LeaseInv' /\ VerdictInv'
  BY DEF DeliveryInv, LeaseInv, VerdictInv, Task, Open
<1>3. LineageInv'
  BY DEF DeliveryInv, LineageInv, WorkerLineage, Working, Sent, Open
<1>4. KeptInv'
  BY DEF DeliveryInv, KeptInv, Kept, Somewhere, Working, Open
<1> QED BY <1>1, <1>2, <1>3, <1>4 DEF DeliveryInv

LEMMA NextMoves == ASSUME DeliveryInv, [Next]_vars PROVE DeliveryInv'
<1>1. CASE UNCHANGED vars
  BY <1>1, StutterMoves
<1>2. ASSUME NEW w \in Workers, WorkerStep(w) /\ UNCHANGED faults PROVE DeliveryInv'
  BY <1>2, WorkerMoves DEF Moves
<1>3. CASE Expire /\ UNCHANGED <<acked, faults>>
  BY <1>3, ExpireMoves
<1>4. CASE Lapse /\ UNCHANGED <<acked, faults>>
  BY <1>4, LapseMoves
<1>5. CASE Fault /\ faults' = faults + 1 /\ UNCHANGED acked
  <2>1. PICK w \in Workers : FaultStep(w)
    BY <1>5 DEF Fault, FaultStep
  <2> QED BY <1>5, <2>1, WorkerMoves DEF Moves
<1> QED BY <1>1, <1>2, <1>3, <1>4, <1>5 DEF Next

LEMMA InitIs == Init => DeliveryInv
<1> SUFFICES ASSUME Init PROVE DeliveryInv
  OBVIOUS
<1>1. \A t \in Tasks : First(t) \in Messages /\ Path(First(t)) = <<>>
  BY FirstIs
<1>2. /\ DOMAIN ready = {First(t) : t \in inflight} /\ inflight = {t \in Tasks : row[t] = "none"}
      /\ DOMAIN delay = {} /\ DOMAIN outbox = {}
  BY DEF Init, EmptyBag, SetToBag
<1>3. IsABag(ready) /\ IsABag(delay)
  BY DeliveryAssumption DEF Init, EmptyBag, SetToBag, IsABag
<1>4. QueueType
  BY <1>1, <1>2, <1>3 DEF QueueType
<1>5. WorkerType
  BY NoMessageIs, DeliveryAssumption DEF Init, WorkerType, Verdicts, Ends
<1>6. RowType /\ OutboxType
  BY <1>2, FS_EmptySet DEF Init, RowType, OutboxType
<1>7. LeaseInv /\ VerdictInv
  BY DeliveryAssumption DEF Init, LeaseInv, VerdictInv, Locked, Judged
<1>8. LineageInv
  BY <1>1, <1>2 DEF Init, LineageInv, WorkerLineage, Working, Sending, Sent
<1>9. KeptInv
  <2>1. ASSUME NEW t \in Tasks PROVE Kept(First(t))
    <3>1. row[t] = "over" => ~Open(TaskOf(First(t)))
      BY FirstIs DEF Open
    <3> QED BY <1>2, <3>1 DEF Init, Kept, Somewhere
  <2> QED BY <1>2, <2>1 DEF Init, KeptInv
<1> QED BY <1>4, <1>5, <1>6, <1>7, <1>8, <1>9 DEF DeliveryInv, TypeInv

LEMMA Invariance == Spec => []DeliveryInv
<1>1. DeliveryInv /\ [Next]_vars => DeliveryInv'
  BY NextMoves
<1> QED BY <1>1, InitIs, PTL DEF Spec

---------------------------------------------------------------------------
(* A finite set has an element of the largest measure: the set of those    *)
(* above it is a smallest one.                                             *)
LEMMA Largest ==
  ASSUME NEW S, IsFiniteSet(S), S # {}, NEW f \in [S -> Nat]
  PROVE  \E x \in S : \A y \in S : f[y] <= f[x]
<1> DEFINE Above(x) == {y \in S : f[y] > f[x]}
<1> DEFINE T == {Above(x) : x \in S}
<1>1. PICK s \in T : \A t \in T : t \subseteq s => t = s
  <2>1. T \subseteq SUBSET S
    OBVIOUS
  <2>2. \E x \in S : Above(x) \in T
    OBVIOUS
  <2> HIDE DEF T, Above
  <2> QED BY <2>1, <2>2, Smallest
<1>2. PICK x \in S : s = Above(x)
  BY DEF T
<1>3. ASSUME NEW y \in S, f[y] > f[x]
      PROVE  FALSE
  <2>1. Above(y) \in T /\ Above(y) \subseteq s /\ y \in s /\ y \notin Above(y)
    BY <1>2, <1>3
  <2> QED BY <1>1, <2>1
<1> QED BY <1>3

(* The longest message of a task that is still open is somewhere, or its   *)
(* operation is not finished.                                              *)
LEMMA OpenIsKept ==
  ASSUME DeliveryInv, NEW t \in Tasks, Open(t), acked[t] = {}
  PROVE  \/ \E m \in Messages : TaskOf(m) = t /\ Somewhere(m)
         \/ \E m \in DOMAIN outbox : TaskOf(m) = t /\ outbox[m] \in {"pending", "unknown"}
<1> DEFINE S == {m \in DOMAIN outbox \cup {First(t)} : TaskOf(m) = t}
<1>1. S \subseteq Messages /\ First(t) \in S /\ IsFiniteSet(S)
  <2>1. IsFiniteSet(DOMAIN outbox \cup {First(t)})
    BY FS_AddElement DEF DeliveryInv, TypeInv, OutboxType
  <2> QED BY <2>1, FS_Subset, FirstIs DEF DeliveryInv, TypeInv, OutboxType
<1>2. PICK m \in S : \A n \in S : Len(Path(n)) <= Len(Path(m))
  <2> DEFINE f == [n \in S |-> Len(Path(n))]
  <2>1. f \in [S -> Nat]
    BY <1>1, MessageIs
  <2>2. \E m \in S : \A n \in S : f[n] <= f[m]
    <3> HIDE DEF S, f
    <3> QED BY <1>1, <2>1, Largest
  <2> QED BY <2>2
<1>3. ASSUME NEW d \in Hops, Hop(m, d) \in DOMAIN outbox
      PROVE  FALSE
  <2>1. m \in Messages /\ TaskOf(m) = t
    BY <1>1
  <2>2. TaskOf(Hop(m, d)) = t /\ Len(Path(Hop(m, d))) = Len(Path(m)) + 1
    BY <2>1, HopIs
  <2>3. Hop(m, d) \in S
    BY <1>3, <2>2
  <2>4. Len(Path(m)) \in Nat
    BY <2>1, MessageIs
  <2> QED BY <1>2, <2>2, <2>3, <2>4
<1>4. CASE m = First(t) \/ outbox[m] = "published"
  <2>1. Kept(m)
    BY <1>4 DEF DeliveryInv, KeptInv
  <2>2. TaskOf(m) = t /\ m \in Messages
    BY <1>1
  <2> QED BY <1>3, <2>1, <2>2 DEF Kept
<1>5. CASE m # First(t) /\ outbox[m] # "published"
  BY <1>5 DEF DeliveryInv, TypeInv, OutboxType
<1> QED BY <1>4, <1>5

(* No open task is forgotten: a queue, a delivery or the outbox has a      *)
(* message of it, whatever crashed, came twice or was not confirmed        *)
(* (consumer.py: record, acknowledge, publish), unless one was             *)
(* acknowledged for a lease, a run or an exception that said nothing of it *)
(* (processor.py: process, _run).                                          *)
THEOREM NotForgottenHolds == Spec => []NotForgotten
<1>1. DeliveryInv => NotForgotten
  <2> SUFFICES ASSUME DeliveryInv, NEW t \in Tasks, Open(t), acked[t] = {}
               PROVE  HasMessage(t)
    BY DEF NotForgotten
  <2> QED BY OpenIsKept DEF HasMessage, Somewhere, Task
<1> QED BY <1>1, Invariance, PTL

(* A message that is delivered after its first time has its operation in   *)
(* the outbox, and begun (handoff.py: delivery_predecessor).               *)
THEOREM DeliveredHasLineageHolds == Spec => []DeliveredHasLineage
<1>1. DeliveryInv => DeliveredHasLineage
  BY DEF DeliveryInv, LineageInv, Sent, DeliveredHasLineage
<1> QED BY <1>1, Invariance, PTL

(* A task that ended is never started or changed again, whatever is        *)
(* delivered twice (processor.py: process checks under the lease).         *)
THEOREM EndedStaysEndedHolds == Spec => EndedStaysEnded
<1>1. ASSUME DeliveryInv, [Next]_vars
      PROVE  [\A t \in Tasks : row[t] = "over" => row'[t] = "over"]_row
  <2>1. ASSUME NEW w \in Workers, Moves(w)
        PROVE  \A t \in Tasks : row[t] = "over" => row'[t] = "over"
    BY <1>1, <2>1, EndSteps DEF DeliveryInv
  <2>2. CASE UNCHANGED row
    BY <2>2
  <2>3. Expire \/ Lapse \/ UNCHANGED vars => UNCHANGED row
    BY DEF Expire, Lapse, vars
  <2>4. Fault => \E w \in Workers : FaultStep(w)
    BY DEF Fault, FaultStep
  <2> QED BY <1>1, <2>1, <2>2, <2>3, <2>4 DEF Next, Moves
<1> QED BY <1>1, Invariance, PTL DEF Spec, EndedStaysEnded

=============================================================================

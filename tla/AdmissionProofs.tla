-------------------------- MODULE AdmissionProofs --------------------------
(***************************************************************************)
(* What holds of task intake for every set of intents, books and users'    *)
(* limits, and however many faults: the counters stay exact, a message     *)
(* that reached the broker keeps its authority, a guest is refunded only   *)
(* what was never charged, a book takes one task at a time, and module     *)
(* IntakeLedger is implemented.                                            *)
(*                                                                         *)
(* The argument is per intent.  The advisory lock keeps the request and    *)
(* the replay of one intent apart, but commands they sent are applied when *)
(* neither holds it; so the invariant says what a command on the wire      *)
(* means for the rows: a publish is out only while the intent is open, a   *)
(* compensation only once its publication is closed, and nothing makes an  *)
(* open intent a closed one.                                               *)
(***************************************************************************)
EXTENDS Admission, SumTheorems

GateStates == {"none", "pending", "unknown", "accepted", "rejected", "compensated"}
PubStates  == {"pending", "unknown", "published", "rejected", "not_attempted"}
RowStates  == {"none", "pending", "unknown", "published"}
Markers    == {"none", "accepted", "rejected", "compensated"}

Before     == {"new", "lane", "mark", "gates"}
Refunding  == {"compensate", "wait_compensate", "compensated", "uncompensated"}
Publishing == {"publish", "wait_publish", "published"}
HoldsLane  == {"mark", "gates", "wait_gates", "accepted", "rejected", "owner", "mark_pub", "refund",
               "refund_mark", "settle"} \cup Refunding \cup Publishing
Replaying  == {"record", "mark", "owner", "begin", "publish", "wait_publish", "confirmed",
               "receipt_published", "receipt_unknown"}
Reversing  == {"compensate", "wait_compensate", "compensated"}
Commands   == [op : {"gates", "compensate", "publish"}, by : {"api", "replay"}, intent : Intents]

TypeInv ==
  /\ gate \in [Intents -> GateStates]
  /\ pub \in [Intents -> PubStates]
  /\ outbox \in [Intents -> RowStates]
  /\ guest \in [Intents -> {"none", "reserved", "released"}]
  /\ task \in [Intents -> {"none", "running", "finished"}]
  /\ lane \in [Intents -> {"free", "api", "replay"}]
  /\ marker \in [Intents -> Markers]
  /\ queued \in [Intents -> BOOLEAN]
  /\ sent \in [Intents -> BOOLEAN]
  /\ wire \subseteq Commands
  /\ pc \in [Intents -> {"new", "lane", "done"} \cup HoldsLane]
  /\ rpc \in {"idle", "reconcile", "write_gate", "decide", "settle"} \cup Replaying \cup Reversing
  /\ cur \in Intents
  /\ rgate \in GateStates

(* The lock of an intent is with its request, or with the replay.          *)
Laned(i) ==
  /\ pc[i] \in HoldsLane => lane[i] = "api"
  /\ rpc # "idle" /\ cur = i => lane[i] = "replay"

OnWire(op, i) == Command(op, "api", i) \in wire \/ Command(op, "replay", i) \in wire

Closed(i) == pub[i] \in {"rejected", "not_attempted"}

(* A message of the intent is or may come out.                             *)
Open(i) == sent[i] \/ OnWire("publish", i) \/ OutboxPossible(i)

(* What the stores say of an intent, and what is on its way to them.       *)
StoresAgree(i) ==
  /\ marker[i] = "none" => /\ gate[i] \in {"none", "pending", "unknown"}
                           /\ pub[i] = "pending" /\ ~OnWire("compensate", i)
                           /\ pc[i] \in Before \cup {"wait_gates", "done"}
  /\ Open(i) => gate[i] = "accepted" /\ marker[i] = "accepted" /\ ~Closed(i)
  /\ queued[i] => sent[i]
  /\ Command("publish", "replay", i) \in wire => OutboxPossible(i)
  /\ OnWire("compensate", i) \/ marker[i] = "compensated" => Closed(i)
  /\ gate[i] = "accepted" => marker[i] \in {"accepted", "compensated"}
  /\ gate[i] \in {"rejected", "compensated"} => marker[i] = gate[i]
  /\ guest[i] = "released" => marker[i] \in {"rejected", "compensated"}

(* What a request knows at each of its steps.                              *)
RequestKnows(i) ==
  /\ pc[i] \in Before => marker[i] = "none" /\ ~OnWire("gates", i)
  /\ pc[i] = "new" => gate[i] = "none"
  /\ pc[i] \in HoldsLane => ~OutboxPossible(i)
  /\ pc[i] \in HoldsLane \ {"published"} => ~sent[i]
  /\ pc[i] \in HoldsLane \ {"wait_publish", "published"} => ~Open(i)
  /\ pc[i] \in {"wait_gates", "accepted", "owner", "mark_pub"} => pub[i] = "pending"
  /\ pc[i] \in {"accepted", "owner", "mark_pub"} \cup Publishing => marker[i] = "accepted"
  /\ pc[i] \in {"owner", "mark_pub"} \cup Publishing => gate[i] = "accepted"
  /\ pc[i] \in Publishing => pub[i] = "unknown"
  /\ pc[i] \in Refunding => pub[i] = "rejected"
  /\ pc[i] \in {"rejected", "compensated"} => marker[i] = pc[i]

(* What the replay knows of the intent it has.                             *)
ReplayKnows(i) ==
  rpc # "idle" /\ cur = i =>
    /\ gate[i] # "none" /\ pub[i] # "not_attempted"
    /\ rgate = "accepted" => marker[i] \in {"accepted", "compensated"}
    /\ rgate \in {"rejected", "compensated"} => marker[i] = rgate
    /\ rpc \in {"reconcile", "write_gate"} => gate[i] \in Undecided /\ rgate # "none"
    /\ rpc = "decide" => rgate = gate[i]
    /\ rpc \in Replaying => gate[i] = "accepted" /\ marker[i] = "accepted" /\ ~Closed(i)
    /\ rpc \in Replaying \ {"record"} => OutboxPossible(i)
    /\ rpc \in Reversing => pub[i] = "rejected"
    /\ rpc = "compensated" => marker[i] = "compensated"

IntakeInv ==
  /\ TypeInv
  /\ \A i \in Intents : Laned(i) /\ StoresAgree(i) /\ RequestKnows(i) /\ ReplayKnows(i)

(* The counters, and who is in flight: a charged task is, until it is over *)
(* or has lost its place.                                                  *)
InFlight == \A i \in Charged : i \in inflight[Book[i]] \/ task[i] = "finished" \/ i \in freed

ChargedOn(b) == {i \in Charged : Book[i] = b}

LedgerInv ==
  /\ quota \in Nat
  /\ platform \in [Books -> Nat]
  /\ inflight \in [Books -> SUBSET Intents]
  /\ IsFiniteSet(Charged)
  /\ quota - SumOver(Size, Charged) \in Used
  /\ PlatformMax > 0 => \A b \in Books : platform[b] = SumOver(Size, ChargedOn(b))
  /\ InFlight

---------------------------------------------------------------------------
(* One intent at a time: what a step leaves alone of an intent.            *)
KnownOf(i) == Laned(i) /\ StoresAgree(i) /\ RequestKnows(i) /\ ReplayKnows(i)

Rows(i) == <<gate[i], pub[i], outbox[i], guest[i], lane[i], marker[i], queued[i], sent[i], pc[i]>>

Ops == {"gates", "compensate", "publish"}
Who == {"api", "replay"}

(* No command of the intent is sent.                                       *)
Unsent(i) == \A op \in Ops, who \in Who : Command(op, who, i) \in wire' => Command(op, who, i) \in wire

Untouched(i) ==
  /\ Rows(i)' = Rows(i)
  /\ Unsent(i)
  /\ rpc' # "idle" /\ cur' = i => UNCHANGED worker

LEMMA UntouchedKnown ==
  ASSUME NEW i \in Intents, KnownOf(i), Untouched(i)
  PROVE  KnownOf(i)'
<1>1. /\ gate'[i] = gate[i] /\ pub'[i] = pub[i] /\ outbox'[i] = outbox[i] /\ guest'[i] = guest[i]
      /\ lane'[i] = lane[i] /\ marker'[i] = marker[i] /\ queued'[i] = queued[i] /\ sent'[i] = sent[i]
      /\ pc'[i] = pc[i]
  BY DEF Untouched, Rows
<1>2. \A op \in Ops : OnWire(op, i)' => OnWire(op, i)
  BY DEF Untouched, Unsent, OnWire, Who
<1>3. Command("publish", "replay", i) \in wire' => Command("publish", "replay", i) \in wire
  BY DEF Untouched, Unsent, Ops, Who
<1>4. \A op \in {"gates", "compensate", "publish"} : OnWire(op, i)' => OnWire(op, i)
  BY <1>2 DEF Ops
<1>5. Laned(i)'
  BY <1>1 DEF KnownOf, Laned, Untouched, worker
<1>6. Open(i)' => Open(i)
  BY <1>1, <1>4 DEF Open, OutboxPossible
<1>7. StoresAgree(i)'
  BY <1>1, <1>3, <1>4, <1>6 DEF KnownOf, StoresAgree, Closed, OutboxPossible
<1>8. RequestKnows(i)'
  BY <1>1, <1>4, <1>6 DEF KnownOf, RequestKnows, OutboxPossible
<1>9. ReplayKnows(i)'
  BY <1>1 DEF KnownOf, ReplayKnows, OutboxPossible, Untouched, worker, Closed
<1> QED BY <1>5, <1>7, <1>8, <1>9 DEF KnownOf

(* A step that is about intent i, and knows what it does to it.            *)
LEMMA OneAtATime ==
  ASSUME IntakeInv, NEW i \in Intents, TypeInv', KnownOf(i)', \A j \in Intents \ {i} : Untouched(j)
  PROVE  IntakeInv'
<1>1. ASSUME NEW j \in Intents, j # i PROVE KnownOf(j)'
  BY <1>1, UntouchedKnown DEF IntakeInv, KnownOf
<1> QED BY <1>1 DEF IntakeInv, KnownOf

LEMMA CommandIs ==
  ASSUME NEW o, NEW w, NEW i, NEW p, NEW v, NEW j
  PROVE  Command(o, w, i) = Command(p, v, j) <=> o = p /\ w = v /\ i = j
BY DEF Command

LEMMA SendAdds ==
  ASSUME NEW op \in Ops, NEW who \in Who, NEW i \in Intents, wire \subseteq Commands, Send(op, who, i)
  PROVE  /\ wire' \subseteq Commands
         /\ \A o \in Ops, w \in Who, j \in Intents :
              Command(o, w, j) \in wire' <=> Command(o, w, j) \in wire \/ (o = op /\ w = who /\ j = i)
<1>1. Command(op, who, i) \in Commands
  BY DEF Command, Commands, Ops, Who
<1>2. wire' = wire \cup {Command(op, who, i)}
  BY DEF Send
<1> QED BY <1>1, <1>2, CommandIs

---------------------------------------------------------------------------
(* A step of a request leaves every other intent alone.                    *)
LEMMA RequestKeeps ==
  ASSUME IntakeInv, NEW i \in Intents,
         ApiStep(i) \/ ApiTimeout(i) \/ OwnerFails(i) \/ PublishUnsent(i) \/ PublishRefused(i) \/ ApiCrash(i)
  PROVE  IntakeInv'
<1> USE DEF At, Goto, Exit, Write, Outcome, Locally, OnlyLane, pg, redis, broker, worker
<1>1. CASE Register(i)
  <2>1. TypeInv'
    BY <1>1 DEF IntakeInv, TypeInv, Register, GateStates, PubStates, HoldsLane, Refunding, Publishing
  <2>2. \A j \in Intents \ {i} : Untouched(j)
    BY <1>1 DEF IntakeInv, TypeInv, Register, Untouched, Rows, Unsent
  <2>3. KnownOf(i)'
    BY <1>1 DEF IntakeInv, TypeInv, Register, KnownOf, Laned, StoresAgree, RequestKnows, ReplayKnows,
        Open, OnWire, OutboxPossible, Closed, Before, HoldsLane, Refunding, Publishing
  <2> QED BY <2>1, <2>2, <2>3, OneAtATime
<1>2. CASE TakeLane(i)
  <2>1. TypeInv'
    BY <1>2 DEF IntakeInv, TypeInv, TakeLane, GateStates, PubStates, HoldsLane, Refunding, Publishing
  <2>2. \A j \in Intents \ {i} : Untouched(j)
    BY <1>2 DEF IntakeInv, TypeInv, TakeLane, Untouched, Rows, Unsent
  <2>3. KnownOf(i)'
    BY <1>2 DEF IntakeInv, TypeInv, TakeLane, KnownOf, Laned, StoresAgree, RequestKnows, ReplayKnows,
        Open, OnWire, OutboxPossible, Closed, Before, HoldsLane, Refunding, Publishing
  <2> QED BY <2>1, <2>2, <2>3, OneAtATime
<1>3. CASE MarkGate(i)
  <2>1. TypeInv'
    BY <1>3 DEF IntakeInv, TypeInv, MarkGate, GateStates, PubStates, HoldsLane, Refunding, Publishing
  <2>2. \A j \in Intents \ {i} : Untouched(j)
    BY <1>3 DEF IntakeInv, TypeInv, MarkGate, Untouched, Rows, Unsent
  <2>3. KnownOf(i)'
    BY <1>3 DEF IntakeInv, TypeInv, MarkGate, KnownOf, Laned, StoresAgree, RequestKnows, ReplayKnows,
        Open, OnWire, OutboxPossible, Closed, Before, HoldsLane, Refunding, Publishing
  <2> QED BY <2>1, <2>2, <2>3, OneAtATime
<1>4. CASE SendGates(i)
  <2>0. /\ wire' \subseteq Commands /\ UNCHANGED <<pg, redis, broker>>
        /\ \A o \in Ops, w \in Who, j \in Intents :
             Command(o, w, j) \in wire' <=> Command(o, w, j) \in wire \/ (o = "gates" /\ w = "api" /\ j = i)
    BY <1>4, SendAdds DEF SendGates, IntakeInv, TypeInv, Ops, Who, Send
  <2>1. TypeInv'
    BY <1>4, <2>0 DEF IntakeInv, TypeInv, SendGates, GateStates, PubStates, HoldsLane, Refunding, Publishing
  <2>2. \A j \in Intents \ {i} : Untouched(j)
    BY <1>4, <2>0 DEF IntakeInv, TypeInv, SendGates, Untouched, Rows, Unsent, Ops, Who
  <2>3. KnownOf(i)'
    BY <1>4, <2>0 DEF IntakeInv, TypeInv, SendGates, KnownOf, Laned, StoresAgree, RequestKnows, ReplayKnows,
        Open, OnWire, OutboxPossible, Closed, Before, HoldsLane, Refunding, Publishing, Ops, Who
  <2> QED BY <2>1, <2>2, <2>3, OneAtATime
<1>5. CASE GatesTimeout(i)
  <2>1. TypeInv'
    BY <1>5 DEF IntakeInv, TypeInv, GatesTimeout, GateStates, PubStates, HoldsLane, Refunding,
        Publishing
  <2>2. \A j \in Intents \ {i} : Untouched(j)
    BY <1>5 DEF IntakeInv, TypeInv, GatesTimeout, Untouched, Rows, Unsent
  <2>3. KnownOf(i)'
    BY <1>5 DEF IntakeInv, TypeInv, GatesTimeout, KnownOf, Laned, StoresAgree, RequestKnows,
        ReplayKnows, Open, OnWire, OutboxPossible, Closed, Before, HoldsLane, Refunding,
        Publishing
  <2> QED BY <2>1, <2>2, <2>3, OneAtATime
<1>6. CASE WriteGate(i)
  <2>1. TypeInv'
    BY <1>6 DEF IntakeInv, TypeInv, WriteGate, GateStates, PubStates, HoldsLane, Refunding, Publishing
  <2>2. \A j \in Intents \ {i} : Untouched(j)
    BY <1>6 DEF IntakeInv, TypeInv, WriteGate, Untouched, Rows, Unsent
  <2>3. KnownOf(i)'
    BY <1>6 DEF IntakeInv, TypeInv, WriteGate, KnownOf, Laned, StoresAgree, RequestKnows, ReplayKnows,
        Open, OnWire, OutboxPossible, Closed, Before, HoldsLane, Refunding, Publishing
  <2> QED BY <2>1, <2>2, <2>3, OneAtATime
<1>7. CASE SettleApi(i)
  <2>1. TypeInv'
    BY <1>7 DEF IntakeInv, TypeInv, SettleApi, Settle, GateStates, PubStates, HoldsLane, Refunding,
        Publishing
  <2>2. \A j \in Intents \ {i} : Untouched(j)
    BY <1>7 DEF IntakeInv, TypeInv, SettleApi, Settle, Untouched, Rows, Unsent
  <2>3. KnownOf(i)'
    BY <1>7 DEF IntakeInv, TypeInv, SettleApi, Settle, Settles, KnownOf, Laned, StoresAgree,
        RequestKnows, ReplayKnows, Open, OnWire, OutboxPossible, Closed, Before, HoldsLane,
        Refunding, Publishing
  <2> QED BY <2>1, <2>2, <2>3, OneAtATime
<1>8. CASE SetOwner(i)
  <2>1. TypeInv'
    BY <1>8 DEF IntakeInv, TypeInv, SetOwner, GateStates, PubStates, HoldsLane, Refunding, Publishing
  <2>2. \A j \in Intents \ {i} : Untouched(j)
    BY <1>8 DEF IntakeInv, TypeInv, SetOwner, Untouched, Rows, Unsent
  <2>3. KnownOf(i)'
    BY <1>8 DEF IntakeInv, TypeInv, SetOwner, KnownOf, Laned, StoresAgree, RequestKnows, ReplayKnows,
        Open, OnWire, OutboxPossible, Closed, Before, HoldsLane, Refunding, Publishing
  <2> QED BY <2>1, <2>2, <2>3, OneAtATime
<1>9. CASE OwnerFails(i)
  <2>1. TypeInv'
    BY <1>9 DEF IntakeInv, TypeInv, OwnerFails, GateStates, PubStates, HoldsLane, Refunding, Publishing
  <2>2. \A j \in Intents \ {i} : Untouched(j)
    BY <1>9 DEF IntakeInv, TypeInv, OwnerFails, Untouched, Rows, Unsent
  <2>3. KnownOf(i)'
    BY <1>9 DEF IntakeInv, TypeInv, OwnerFails, KnownOf, Laned, StoresAgree, RequestKnows, ReplayKnows,
        Open, OnWire, OutboxPossible, Closed, Before, HoldsLane, Refunding, Publishing
  <2> QED BY <2>1, <2>2, <2>3, OneAtATime
<1>10. CASE MarkPublication(i)
  <2>1. TypeInv'
    BY <1>10 DEF IntakeInv, TypeInv, MarkPublication, GateStates, PubStates, HoldsLane, Refunding,
        Publishing
  <2>2. \A j \in Intents \ {i} : Untouched(j)
    BY <1>10 DEF IntakeInv, TypeInv, MarkPublication, Untouched, Rows, Unsent
  <2>3. KnownOf(i)'
    BY <1>10 DEF IntakeInv, TypeInv, MarkPublication, KnownOf, Laned, StoresAgree, RequestKnows,
        ReplayKnows, Open, OnWire, OutboxPossible, Closed, Before, HoldsLane, Refunding,
        Publishing
  <2> QED BY <2>1, <2>2, <2>3, OneAtATime
<1>11. CASE SendPublish(i)
  <2>0. /\ wire' \subseteq Commands /\ UNCHANGED <<pg, redis, broker>>
        /\ \A o \in Ops, w \in Who, j \in Intents :
             Command(o, w, j) \in wire' <=> Command(o, w, j) \in wire \/ (o = "publish" /\ w = "api" /\ j = i)
    BY <1>11, SendAdds DEF SendPublish, IntakeInv, TypeInv, Ops, Who, Send
  <2>1. TypeInv'
    BY <1>11, <2>0 DEF IntakeInv, TypeInv, SendPublish, GateStates, PubStates, HoldsLane, Refunding, Publishing
  <2>2. \A j \in Intents \ {i} : Untouched(j)
    BY <1>11, <2>0 DEF IntakeInv, TypeInv, SendPublish, Untouched, Rows, Unsent, Ops, Who
  <2>3. KnownOf(i)'
    BY <1>11, <2>0 DEF IntakeInv, TypeInv, SendPublish, KnownOf, Laned, StoresAgree, RequestKnows,
        ReplayKnows, Open, OnWire, OutboxPossible, Closed, Before, HoldsLane, Refunding,
        Publishing, Ops, Who
  <2> QED BY <2>1, <2>2, <2>3, OneAtATime
<1>12. CASE PublishUnsent(i)
  <2>1. TypeInv'
    BY <1>12 DEF IntakeInv, TypeInv, PublishUnsent, GateStates, PubStates, HoldsLane, Refunding,
        Publishing
  <2>2. \A j \in Intents \ {i} : Untouched(j)
    BY <1>12 DEF IntakeInv, TypeInv, PublishUnsent, Untouched, Rows, Unsent
  <2>3. KnownOf(i)'
    BY <1>12 DEF IntakeInv, TypeInv, PublishUnsent, KnownOf, Laned, StoresAgree, RequestKnows,
        ReplayKnows, Open, OnWire, OutboxPossible, Closed, Before, HoldsLane, Refunding,
        Publishing
  <2> QED BY <2>1, <2>2, <2>3, OneAtATime
<1>13. CASE PublishRefused(i)
  <2>1. TypeInv'
    BY <1>13 DEF IntakeInv, TypeInv, PublishRefused, GateStates, PubStates, HoldsLane, Refunding,
        Publishing
  <2>2. \A j \in Intents \ {i} : Untouched(j)
    BY <1>13 DEF IntakeInv, TypeInv, PublishRefused, Untouched, Rows, Unsent
  <2>3. KnownOf(i)'
    BY <1>13 DEF IntakeInv, TypeInv, PublishRefused, KnownOf, Laned, StoresAgree, RequestKnows,
        ReplayKnows, Open, OnWire, OutboxPossible, Closed, Before, HoldsLane, Refunding,
        Publishing
  <2> QED BY <2>1, <2>2, <2>3, OneAtATime
<1>14. CASE PublishTimeout(i)
  <2>1. TypeInv'
    BY <1>14 DEF IntakeInv, TypeInv, PublishTimeout, GateStates, PubStates, HoldsLane, Refunding,
        Publishing
  <2>2. \A j \in Intents \ {i} : Untouched(j)
    BY <1>14 DEF IntakeInv, TypeInv, PublishTimeout, Untouched, Rows, Unsent
  <2>3. KnownOf(i)'
    BY <1>14 DEF IntakeInv, TypeInv, PublishTimeout, KnownOf, Laned, StoresAgree, RequestKnows,
        ReplayKnows, Open, OnWire, OutboxPossible, Closed, Before, HoldsLane, Refunding,
        Publishing
  <2> QED BY <2>1, <2>2, <2>3, OneAtATime
<1>15. CASE WritePublished(i)
  <2>1. TypeInv'
    BY <1>15 DEF IntakeInv, TypeInv, WritePublished, GateStates, PubStates, HoldsLane, Refunding,
        Publishing
  <2>2. \A j \in Intents \ {i} : Untouched(j)
    BY <1>15 DEF IntakeInv, TypeInv, WritePublished, Untouched, Rows, Unsent
  <2>3. KnownOf(i)'
    BY <1>15 DEF IntakeInv, TypeInv, WritePublished, KnownOf, Laned, StoresAgree, RequestKnows,
        ReplayKnows, Open, OnWire, OutboxPossible, Closed, Before, HoldsLane, Refunding,
        Publishing
  <2> QED BY <2>1, <2>2, <2>3, OneAtATime
<1>16. CASE RefundCheck(i)
  <2>1. TypeInv'
    BY <1>16 DEF IntakeInv, TypeInv, RefundCheck, GateStates, PubStates, HoldsLane, Refunding, Publishing
  <2>2. \A j \in Intents \ {i} : Untouched(j)
    BY <1>16 DEF IntakeInv, TypeInv, RefundCheck, Untouched, Rows, Unsent
  <2>3. KnownOf(i)'
    BY <1>16 DEF IntakeInv, TypeInv, RefundCheck, KnownOf, Laned, StoresAgree, RequestKnows,
        ReplayKnows, Open, OnWire, OutboxPossible, Closed, Before, HoldsLane, Refunding,
        Publishing
  <2> QED BY <2>1, <2>2, <2>3, OneAtATime
<1>17. CASE RefundMark(i)
  <2>1. TypeInv'
    BY <1>17 DEF IntakeInv, TypeInv, RefundMark, GateStates, PubStates, HoldsLane, Refunding, Publishing
  <2>2. \A j \in Intents \ {i} : Untouched(j)
    BY <1>17 DEF IntakeInv, TypeInv, RefundMark, Untouched, Rows, Unsent
  <2>3. KnownOf(i)'
    BY <1>17 DEF IntakeInv, TypeInv, RefundMark, KnownOf, Laned, StoresAgree, RequestKnows, ReplayKnows,
        Open, OnWire, OutboxPossible, Closed, Before, HoldsLane, Refunding, Publishing
  <2> QED BY <2>1, <2>2, <2>3, OneAtATime
<1>18. CASE SendCompensate(i)
  <2>0. /\ wire' \subseteq Commands /\ UNCHANGED <<pg, redis, broker>>
        /\ \A o \in Ops, w \in Who, j \in Intents :
             Command(o, w, j) \in wire' <=> Command(o, w, j) \in wire \/ (o = "compensate" /\ w = "api" /\ j = i)
    BY <1>18, SendAdds DEF SendCompensate, IntakeInv, TypeInv, Ops, Who, Send
  <2>1. TypeInv'
    BY <1>18, <2>0 DEF IntakeInv, TypeInv, SendCompensate, GateStates, PubStates, HoldsLane, Refunding,
        Publishing
  <2>2. \A j \in Intents \ {i} : Untouched(j)
    BY <1>18, <2>0 DEF IntakeInv, TypeInv, SendCompensate, Untouched, Rows, Unsent, Ops, Who
  <2>3. KnownOf(i)'
    BY <1>18, <2>0 DEF IntakeInv, TypeInv, SendCompensate, KnownOf, Laned, StoresAgree, RequestKnows,
        ReplayKnows, Open, OnWire, OutboxPossible, Closed, Before, HoldsLane, Refunding,
        Publishing, Ops, Who
  <2> QED BY <2>1, <2>2, <2>3, OneAtATime
<1>19. CASE CompensateTimeout(i)
  <2>1. TypeInv'
    BY <1>19 DEF IntakeInv, TypeInv, CompensateTimeout, GateStates, PubStates, HoldsLane, Refunding,
        Publishing
  <2>2. \A j \in Intents \ {i} : Untouched(j)
    BY <1>19 DEF IntakeInv, TypeInv, CompensateTimeout, Untouched, Rows, Unsent
  <2>3. KnownOf(i)'
    BY <1>19 DEF IntakeInv, TypeInv, CompensateTimeout, KnownOf, Laned, StoresAgree, RequestKnows,
        ReplayKnows, Open, OnWire, OutboxPossible, Closed, Before, HoldsLane, Refunding,
        Publishing
  <2> QED BY <2>1, <2>2, <2>3, OneAtATime
<1>20. CASE WriteCompensated(i)
  <2>1. TypeInv'
    BY <1>20 DEF IntakeInv, TypeInv, WriteCompensated, GateStates, PubStates, HoldsLane, Refunding,
        Publishing
  <2>2. \A j \in Intents \ {i} : Untouched(j)
    BY <1>20 DEF IntakeInv, TypeInv, WriteCompensated, Untouched, Rows, Unsent
  <2>3. KnownOf(i)'
    BY <1>20 DEF IntakeInv, TypeInv, WriteCompensated, KnownOf, Laned, StoresAgree, RequestKnows,
        ReplayKnows, Open, OnWire, OutboxPossible, Closed, Before, HoldsLane, Refunding,
        Publishing
  <2> QED BY <2>1, <2>2, <2>3, OneAtATime
<1>21. CASE ApiCrash(i)
  <2>1. TypeInv'
    BY <1>21 DEF IntakeInv, TypeInv, ApiCrash, GateStates, PubStates, HoldsLane, Refunding, Publishing
  <2>2. \A j \in Intents \ {i} : Untouched(j)
    BY <1>21 DEF IntakeInv, TypeInv, ApiCrash, Untouched, Rows, Unsent
  <2>3. KnownOf(i)'
    BY <1>21 DEF IntakeInv, TypeInv, ApiCrash, KnownOf, Laned, StoresAgree, RequestKnows, ReplayKnows,
        Open, OnWire, OutboxPossible, Closed, Before, HoldsLane, Refunding, Publishing
  <2> QED BY <2>1, <2>2, <2>3, OneAtATime
<1> QED BY <1>1, <1>2, <1>3, <1>4, <1>5, <1>6, <1>7, <1>8, <1>9, <1>10, <1>11, <1>12, <1>13,
          <1>14, <1>15, <1>16, <1>17, <1>18, <1>19, <1>20, <1>21 DEF ApiStep, ApiTimeout

(* A step of the replay leaves every intent but the one it has alone.      *)
LEMMA ReplayKeeps ==
  ASSUME IntakeInv, NEW i \in Intents, cur = i,
         ReplayStep \/ RCompensateFails \/ RNotSent \/ RNotConfirmed \/ RCrash
  PROVE  IntakeInv'
<1> USE DEF RAt, RDone, Write, Outcome, Locally, OnlyLane, pg, redis, broker, worker
<1>1. CASE RReconcile
  <2>1. TypeInv'
    BY <1>1 DEF IntakeInv, TypeInv, RReconcile, GateStates, PubStates, Replaying, Reversing, Recovered,
        Markers
  <2>2. \A j \in Intents \ {i} : Untouched(j)
    BY <1>1 DEF IntakeInv, TypeInv, RReconcile, Untouched, Rows, Unsent
  <2>3. KnownOf(i)'
    BY <1>1 DEF IntakeInv, TypeInv, RReconcile, Recovered, KnownOf, Laned, StoresAgree, RequestKnows,
        ReplayKnows, Open, OnWire, OutboxPossible, Closed, Before, HoldsLane, Refunding,
        Publishing, Replaying, Reversing, Undecided
  <2> QED BY <2>1, <2>2, <2>3, OneAtATime
<1>2. CASE RWriteGate
  <2>1. TypeInv'
    BY <1>2 DEF IntakeInv, TypeInv, RWriteGate, GateStates, PubStates, Replaying, Reversing
  <2>2. \A j \in Intents \ {i} : Untouched(j)
    BY <1>2 DEF IntakeInv, TypeInv, RWriteGate, Untouched, Rows, Unsent
  <2>3. KnownOf(i)'
    BY <1>2 DEF IntakeInv, TypeInv, RWriteGate, GateStates, KnownOf, Laned, StoresAgree, RequestKnows,
        ReplayKnows, Open, OnWire, OutboxPossible, Closed, Before, HoldsLane, Refunding,
        Publishing, Replaying, Reversing, Undecided
  <2> QED BY <2>1, <2>2, <2>3, OneAtATime
<1>3. CASE RDecide
  <2>1. TypeInv'
    BY <1>3 DEF IntakeInv, TypeInv, RDecide, GateStates, PubStates, Replaying, Reversing
  <2>2. \A j \in Intents \ {i} : Untouched(j)
    BY <1>3 DEF IntakeInv, TypeInv, RDecide, Untouched, Rows, Unsent
  <2>3. KnownOf(i)'
    BY <1>3 DEF IntakeInv, TypeInv, RDecide, MayReplay, KnownOf, Laned, StoresAgree, RequestKnows,
        ReplayKnows, Open, OnWire, OutboxPossible, Closed, Before, HoldsLane, Refunding,
        Publishing, Replaying, Reversing, Undecided
  <2> QED BY <2>1, <2>2, <2>3, OneAtATime
<1>4. CASE RSendCompensate
  <2>0. /\ wire' \subseteq Commands /\ UNCHANGED <<pg, redis, broker>>
        /\ \A o \in Ops, w \in Who, j \in Intents :
             Command(o, w, j) \in wire' <=> Command(o, w, j) \in wire \/ (o = "compensate" /\ w = "replay" /\ j = i)
    BY <1>4, SendAdds DEF RSendCompensate, IntakeInv, TypeInv, Ops, Who, Send
  <2>1. TypeInv'
    BY <1>4, <2>0 DEF IntakeInv, TypeInv, RSendCompensate, GateStates, PubStates, Replaying, Reversing
  <2>2. \A j \in Intents \ {i} : Untouched(j)
    BY <1>4, <2>0 DEF IntakeInv, TypeInv, RSendCompensate, Untouched, Rows, Unsent, Ops, Who
  <2>3. KnownOf(i)'
    BY <1>4, <2>0 DEF IntakeInv, TypeInv, RSendCompensate, KnownOf, Laned, StoresAgree, RequestKnows,
        ReplayKnows, Open, OnWire, OutboxPossible, Closed, Before, HoldsLane, Refunding,
        Publishing, Replaying, Reversing, Undecided, Ops, Who
  <2> QED BY <2>1, <2>2, <2>3, OneAtATime
<1>5. CASE RCompensateFails
  <2>1. TypeInv'
    BY <1>5 DEF IntakeInv, TypeInv, RCompensateFails, GateStates, PubStates, Replaying, Reversing
  <2>2. \A j \in Intents \ {i} : Untouched(j)
    BY <1>5 DEF IntakeInv, TypeInv, RCompensateFails, Untouched, Rows, Unsent
  <2>3. KnownOf(i)'
    BY <1>5 DEF IntakeInv, TypeInv, RCompensateFails, KnownOf, Laned, StoresAgree, RequestKnows,
        ReplayKnows, Open, OnWire, OutboxPossible, Closed, Before, HoldsLane, Refunding,
        Publishing, Replaying, Reversing, Undecided
  <2> QED BY <2>1, <2>2, <2>3, OneAtATime
<1>6. CASE RWriteCompensated
  <2>1. TypeInv'
    BY <1>6 DEF IntakeInv, TypeInv, RWriteCompensated, GateStates, PubStates, Replaying, Reversing
  <2>2. \A j \in Intents \ {i} : Untouched(j)
    BY <1>6 DEF IntakeInv, TypeInv, RWriteCompensated, Untouched, Rows, Unsent
  <2>3. KnownOf(i)'
    BY <1>6 DEF IntakeInv, TypeInv, RWriteCompensated, KnownOf, Laned, StoresAgree, RequestKnows,
        ReplayKnows, Open, OnWire, OutboxPossible, Closed, Before, HoldsLane, Refunding,
        Publishing, Replaying, Reversing, Undecided
  <2> QED BY <2>1, <2>2, <2>3, OneAtATime
<1>7. CASE RSettle
  <2>1. TypeInv'
    BY <1>7 DEF IntakeInv, TypeInv, RSettle, Settle, GateStates, PubStates, Replaying, Reversing
  <2>2. \A j \in Intents \ {i} : Untouched(j)
    BY <1>7 DEF IntakeInv, TypeInv, RSettle, Settle, Untouched, Rows, Unsent
  <2>3. KnownOf(i)'
    BY <1>7 DEF IntakeInv, TypeInv, RSettle, Settle, Settles, KnownOf, Laned, StoresAgree,
        RequestKnows, ReplayKnows, Open, OnWire, OutboxPossible, Closed, Before, HoldsLane,
        Refunding, Publishing, Replaying, Reversing, Undecided
  <2> QED BY <2>1, <2>2, <2>3, OneAtATime
<1>8. CASE RRecord
  <2>1. TypeInv'
    BY <1>8 DEF IntakeInv, TypeInv, RRecord, GateStates, PubStates, Replaying, Reversing, RowStates
  <2>2. \A j \in Intents \ {i} : Untouched(j)
    BY <1>8 DEF IntakeInv, TypeInv, RRecord, Untouched, Rows, Unsent
  <2>3. KnownOf(i)'
    BY <1>8 DEF IntakeInv, TypeInv, RRecord, KnownOf, Laned, StoresAgree, RequestKnows, ReplayKnows,
        Open, OnWire, OutboxPossible, Closed, Before, HoldsLane, Refunding, Publishing,
        Replaying, Reversing, Undecided
  <2> QED BY <2>1, <2>2, <2>3, OneAtATime
<1>9. CASE RMark
  <2>1. TypeInv'
    BY <1>9 DEF IntakeInv, TypeInv, RMark, GateStates, PubStates, Replaying, Reversing
  <2>2. \A j \in Intents \ {i} : Untouched(j)
    BY <1>9 DEF IntakeInv, TypeInv, RMark, Untouched, Rows, Unsent
  <2>3. KnownOf(i)'
    BY <1>9 DEF IntakeInv, TypeInv, RMark, KnownOf, Laned, StoresAgree, RequestKnows, ReplayKnows,
        Open, OnWire, OutboxPossible, Closed, Before, HoldsLane, Refunding, Publishing,
        Replaying, Reversing, Undecided
  <2> QED BY <2>1, <2>2, <2>3, OneAtATime
<1>10. CASE ROwner
  <2>1. TypeInv'
    BY <1>10 DEF IntakeInv, TypeInv, ROwner, GateStates, PubStates, Replaying, Reversing
  <2>2. \A j \in Intents \ {i} : Untouched(j)
    BY <1>10 DEF IntakeInv, TypeInv, ROwner, Untouched, Rows, Unsent
  <2>3. KnownOf(i)'
    BY <1>10 DEF IntakeInv, TypeInv, ROwner, KnownOf, Laned, StoresAgree, RequestKnows, ReplayKnows,
        Open, OnWire, OutboxPossible, Closed, Before, HoldsLane, Refunding, Publishing,
        Replaying, Reversing, Undecided
  <2> QED BY <2>1, <2>2, <2>3, OneAtATime
<1>11. CASE RBegin
  <2>1. TypeInv'
    BY <1>11 DEF IntakeInv, TypeInv, RBegin, OutboxBecomes, GateStates, PubStates, Replaying, Reversing,
        RowStates
  <2>2. \A j \in Intents \ {i} : Untouched(j)
    BY <1>11 DEF IntakeInv, TypeInv, RBegin, OutboxBecomes, Untouched, Rows, Unsent
  <2>3. KnownOf(i)'
    BY <1>11 DEF IntakeInv, TypeInv, RBegin, OutboxBecomes, KnownOf, Laned, StoresAgree, RequestKnows,
        ReplayKnows, Open, OnWire, OutboxPossible, Closed, Before, HoldsLane, Refunding,
        Publishing, Replaying, Reversing, Undecided
  <2> QED BY <2>1, <2>2, <2>3, OneAtATime
<1>12. CASE RSendPublish
  <2>0. /\ wire' \subseteq Commands /\ UNCHANGED <<pg, redis, broker>>
        /\ \A o \in Ops, w \in Who, j \in Intents :
             Command(o, w, j) \in wire' <=> Command(o, w, j) \in wire \/ (o = "publish" /\ w = "replay" /\ j = i)
    BY <1>12, SendAdds DEF RSendPublish, IntakeInv, TypeInv, Ops, Who, Send
  <2>1. TypeInv'
    BY <1>12, <2>0 DEF IntakeInv, TypeInv, RSendPublish, GateStates, PubStates, Replaying, Reversing
  <2>2. \A j \in Intents \ {i} : Untouched(j)
    BY <1>12, <2>0 DEF IntakeInv, TypeInv, RSendPublish, Untouched, Rows, Unsent, Ops, Who
  <2>3. KnownOf(i)'
    BY <1>12, <2>0 DEF IntakeInv, TypeInv, RSendPublish, KnownOf, Laned, StoresAgree, RequestKnows,
        ReplayKnows, Open, OnWire, OutboxPossible, Closed, Before, HoldsLane, Refunding,
        Publishing, Replaying, Reversing, Undecided, Ops, Who
  <2> QED BY <2>1, <2>2, <2>3, OneAtATime
<1>13. CASE RNotSent
  <2>1. TypeInv'
    BY <1>13 DEF IntakeInv, TypeInv, RNotSent, GateStates, PubStates, Replaying, Reversing
  <2>2. \A j \in Intents \ {i} : Untouched(j)
    BY <1>13 DEF IntakeInv, TypeInv, RNotSent, Untouched, Rows, Unsent
  <2>3. KnownOf(i)'
    BY <1>13 DEF IntakeInv, TypeInv, RNotSent, KnownOf, Laned, StoresAgree, RequestKnows, ReplayKnows,
        Open, OnWire, OutboxPossible, Closed, Before, HoldsLane, Refunding, Publishing,
        Replaying, Reversing, Undecided
  <2> QED BY <2>1, <2>2, <2>3, OneAtATime
<1>14. CASE RNotConfirmed
  <2>1. TypeInv'
    BY <1>14 DEF IntakeInv, TypeInv, RNotConfirmed, GateStates, PubStates, Replaying, Reversing
  <2>2. \A j \in Intents \ {i} : Untouched(j)
    BY <1>14 DEF IntakeInv, TypeInv, RNotConfirmed, Untouched, Rows, Unsent
  <2>3. KnownOf(i)'
    BY <1>14 DEF IntakeInv, TypeInv, RNotConfirmed, KnownOf, Laned, StoresAgree, RequestKnows,
        ReplayKnows, Open, OnWire, OutboxPossible, Closed, Before, HoldsLane, Refunding,
        Publishing, Replaying, Reversing, Undecided
  <2> QED BY <2>1, <2>2, <2>3, OneAtATime
<1>15. CASE RConfirmed
  <2>1. TypeInv'
    BY <1>15 DEF IntakeInv, TypeInv, RConfirmed, OutboxBecomes, GateStates, PubStates, Replaying,
        Reversing, RowStates
  <2>2. \A j \in Intents \ {i} : Untouched(j)
    BY <1>15 DEF IntakeInv, TypeInv, RConfirmed, OutboxBecomes, Untouched, Rows, Unsent
  <2>3. KnownOf(i)'
    BY <1>15 DEF IntakeInv, TypeInv, RConfirmed, OutboxBecomes, KnownOf, Laned, StoresAgree,
        RequestKnows, ReplayKnows, Open, OnWire, OutboxPossible, Closed, Before, HoldsLane,
        Refunding, Publishing, Replaying, Reversing, Undecided
  <2> QED BY <2>1, <2>2, <2>3, OneAtATime
<1>16. CASE RReceipt
  <2>1. TypeInv'
    BY <1>16 DEF IntakeInv, TypeInv, RReceipt, GateStates, PubStates, Replaying, Reversing
  <2>2. \A j \in Intents \ {i} : Untouched(j)
    BY <1>16 DEF IntakeInv, TypeInv, RReceipt, Untouched, Rows, Unsent
  <2>3. KnownOf(i)'
    BY <1>16 DEF IntakeInv, TypeInv, RReceipt, KnownOf, Laned, StoresAgree, RequestKnows, ReplayKnows,
        Open, OnWire, OutboxPossible, Closed, Before, HoldsLane, Refunding, Publishing,
        Replaying, Reversing, Undecided
  <2> QED BY <2>1, <2>2, <2>3, OneAtATime
<1>17. CASE RCrash
  <2>1. TypeInv'
    BY <1>17 DEF IntakeInv, TypeInv, RCrash, GateStates, PubStates, Replaying, Reversing
  <2>2. \A j \in Intents \ {i} : Untouched(j)
    BY <1>17 DEF IntakeInv, TypeInv, RCrash, Untouched, Rows, Unsent
  <2>3. KnownOf(i)'
    BY <1>17 DEF IntakeInv, TypeInv, RCrash, KnownOf, Laned, StoresAgree, RequestKnows, ReplayKnows,
        Open, OnWire, OutboxPossible, Closed, Before, HoldsLane, Refunding, Publishing,
        Replaying, Reversing, Undecided
  <2> QED BY <2>1, <2>2, <2>3, OneAtATime
<1> QED BY <1>1, <1>2, <1>3, <1>4, <1>5, <1>6, <1>7, <1>8, <1>9, <1>10, <1>11, <1>12, <1>13,
          <1>14, <1>15, <1>16, <1>17 DEF ReplayStep

(* The replay takes an intent whose lane is free.                          *)
LEMMA TakeKeeps ==
  ASSUME IntakeInv, NEW i \in Intents, RTake(i) \/ RTakeHandoff(i)
  PROVE  IntakeInv'
<1> USE DEF Locally, OnlyLane, pg, redis, broker, worker
<1>1. CASE RTake(i)
  <2>1. TypeInv'
    BY <1>1 DEF IntakeInv, TypeInv, RTake, RBeginWith, GateStates, PubStates, Replaying, Reversing
  <2>2. \A j \in Intents \ {i} : Untouched(j)
    BY <1>1 DEF IntakeInv, TypeInv, RTake, RBeginWith, Untouched, Rows, Unsent
  <2>3. KnownOf(i)'
    BY <1>1 DEF IntakeInv, TypeInv, RTake, RBeginWith, Replayable, KnownOf, Laned, StoresAgree,
        RequestKnows, ReplayKnows, Open, OnWire, OutboxPossible, Closed, Before, HoldsLane,
        Refunding, Publishing, Replaying, Reversing, Undecided
  <2> QED BY <2>1, <2>2, <2>3, OneAtATime
<1>2. CASE RTakeHandoff(i)
  <2>1. TypeInv'
    BY <1>2 DEF IntakeInv, TypeInv, RTakeHandoff, RBeginWith, GateStates, PubStates, Replaying,
        Reversing
  <2>2. \A j \in Intents \ {i} : Untouched(j)
    BY <1>2 DEF IntakeInv, TypeInv, RTakeHandoff, RBeginWith, Untouched, Rows, Unsent
  <2>3. KnownOf(i)'
    BY <1>2 DEF IntakeInv, TypeInv, RTakeHandoff, RBeginWith, KnownOf, Laned, StoresAgree,
        RequestKnows, ReplayKnows, Open, OnWire, OutboxPossible, Closed, Before, HoldsLane,
        Refunding, Publishing, Replaying, Reversing, Undecided
  <2> QED BY <2>1, <2>2, <2>3, OneAtATime
<1> QED BY <1>1, <1>2

LEMMA CommandOnWire ==
  ASSUME wire \subseteq Commands, NEW m \in wire
  PROVE  m.intent \in Intents /\ m = Command(m.op, m.by, m.intent) /\ m.op \in Ops /\ m.by \in Who
BY DEF Commands, Command, Ops, Who

(* What a store does with a command, heard of or not.                      *)
LEMMA StoreKeeps ==
  ASSUME IntakeInv, NEW i \in Intents, NEW m \in wire, m.intent = i,
         StoreStep(m) \/ CommandLost(m)
  PROVE  IntakeInv'
<1> USE DEF Listening, Answer, Goto, pg, redis, broker, worker
<1>1. CASE ApplyGates(m)
  <2>0. i \in Intents /\ m = Command(m.op, m.by, i) /\ m.op \in Ops /\ m.by \in Who
    BY CommandOnWire DEF IntakeInv, TypeInv
  <2>1. TypeInv'
    BY <1>1, <2>0 DEF IntakeInv, TypeInv, ApplyGates, RunGates, GateStates, PubStates, HoldsLane, Refunding,
        Publishing, Replaying, Reversing, Markers
  <2>2. \A j \in Intents \ {i} : Untouched(j)
    BY <1>1, <2>0 DEF IntakeInv, TypeInv, ApplyGates, RunGates, Untouched, Rows, Unsent, Ops, Who
  <2>3. /\ m.op = "gates" /\ wire' = wire \ {m} /\ UNCHANGED <<pg, broker>>
        /\ \/ marker[i] # "none" /\ marker' = marker
           \/ marker[i] = "none" /\ marker'[i] \in {"accepted", "rejected"}
    BY <1>1 DEF ApplyGates, RunGates, IntakeInv, TypeInv, Markers
  <2>4. /\ UNCHANGED worker
        /\ \/ pc' = pc
           \/ /\ pc[i] = "wait_gates"
              /\ pc'[i] = IF marker'[i] = "accepted" THEN "accepted" ELSE "rejected"
    BY <1>1, <2>0 DEF ApplyGates, IntakeInv, TypeInv, Who, Replaying, Reversing
  <2>5. KnownOf(i)'
    BY <2>0, <2>3, <2>4 DEF IntakeInv, TypeInv, KnownOf, Laned, StoresAgree, RequestKnows,
        ReplayKnows, Open, OnWire, OutboxPossible, Closed, Before, HoldsLane, Refunding,
        Publishing, Replaying, Reversing, Undecided, Ops, Who, Markers
  <2> QED BY <2>1, <2>2, <2>5, OneAtATime
<1>2. CASE ApplyCompensate(m)
  <2>0. i \in Intents /\ m = Command(m.op, m.by, i) /\ m.op \in Ops /\ m.by \in Who
    BY CommandOnWire DEF IntakeInv, TypeInv
  <2>1. TypeInv'
    BY <1>2, <2>0 DEF IntakeInv, TypeInv, ApplyCompensate, RunCompensate, Refundable, GateStates, PubStates,
        HoldsLane, Refunding, Publishing, Replaying, Reversing, Markers
  <2>2. \A j \in Intents \ {i} : Untouched(j)
    BY <1>2, <2>0 DEF IntakeInv, TypeInv, ApplyCompensate, RunCompensate, Refundable, Untouched, Rows,
        Unsent, Ops, Who
  <2>3. KnownOf(i)'
    BY <1>2, <2>0 DEF IntakeInv, TypeInv, ApplyCompensate, RunCompensate, Refundable, KnownOf, Laned,
        StoresAgree, RequestKnows, ReplayKnows, Open, OnWire, OutboxPossible, Closed, Before,
        HoldsLane, Refunding, Publishing, Replaying, Reversing, Undecided, Ops, Who
  <2> QED BY <2>1, <2>2, <2>3, OneAtATime
<1>3. CASE ApplyPublish(m)
  <2>0. i \in Intents /\ m = Command(m.op, m.by, i) /\ m.op \in Ops /\ m.by \in Who
    BY CommandOnWire DEF IntakeInv, TypeInv
  <2>1. TypeInv'
    BY <1>3, <2>0 DEF IntakeInv, TypeInv, ApplyPublish, GateStates, PubStates, HoldsLane, Refunding,
        Publishing, Replaying, Reversing
  <2>2. \A j \in Intents \ {i} : Untouched(j)
    BY <1>3, <2>0 DEF IntakeInv, TypeInv, ApplyPublish, Untouched, Rows, Unsent, Ops, Who
  <2>3. KnownOf(i)'
    BY <1>3, <2>0 DEF IntakeInv, TypeInv, ApplyPublish, KnownOf, Laned, StoresAgree, RequestKnows,
        ReplayKnows, Open, OnWire, OutboxPossible, Closed, Before, HoldsLane, Refunding,
        Publishing, Replaying, Reversing, Undecided, Ops, Who
  <2> QED BY <2>1, <2>2, <2>3, OneAtATime
<1>4. CASE CommandLost(m)
  <2>0. i \in Intents /\ m = Command(m.op, m.by, i) /\ m.op \in Ops /\ m.by \in Who
    BY CommandOnWire DEF IntakeInv, TypeInv
  <2>1. TypeInv'
    BY <1>4, <2>0 DEF IntakeInv, TypeInv, CommandLost, GateStates, PubStates, HoldsLane, Refunding,
        Publishing, Replaying, Reversing
  <2>2. \A j \in Intents \ {i} : Untouched(j)
    BY <1>4, <2>0 DEF IntakeInv, TypeInv, CommandLost, Untouched, Rows, Unsent, Ops, Who
  <2>3. KnownOf(i)'
    BY <1>4, <2>0 DEF IntakeInv, TypeInv, CommandLost, KnownOf, Laned, StoresAgree, RequestKnows,
        ReplayKnows, Open, OnWire, OutboxPossible, Closed, Before, HoldsLane, Refunding,
        Publishing, Replaying, Reversing, Undecided, Ops, Who
  <2> QED BY <2>1, <2>2, <2>3, OneAtATime
<1> QED BY <1>1, <1>2, <1>3, <1>4 DEF StoreStep

(* The consumer, and the end of a task.                                    *)
LEMMA ConsumerKeeps ==
  ASSUME IntakeInv, NEW i \in Intents, Consume(i) \/ Finish(i) \/ ReleaseInflight(i)
  PROVE  IntakeInv'
<1> USE DEF pg, redis, broker, worker
<1>1. CASE Consume(i)
  <2>1. TypeInv'
    BY <1>1 DEF IntakeInv, TypeInv, Consume
  <2>2. \A j \in Intents \ {i} : Untouched(j)
    BY <1>1 DEF IntakeInv, TypeInv, Consume, Untouched, Rows, Unsent
  <2>3. KnownOf(i)'
    BY <1>1 DEF IntakeInv, TypeInv, Consume, KnownOf, Laned, StoresAgree, RequestKnows, ReplayKnows,
        Open, OnWire, OutboxPossible, Closed, Before, HoldsLane, Refunding, Publishing,
        Replaying, Reversing, Undecided
  <2> QED BY <2>1, <2>2, <2>3, OneAtATime
<1>2. CASE Finish(i)
  <2>1. TypeInv'
    BY <1>2 DEF IntakeInv, TypeInv, Finish
  <2>2. \A j \in Intents \ {i} : Untouched(j)
    BY <1>2 DEF IntakeInv, TypeInv, Finish, Untouched, Rows, Unsent
  <2>3. KnownOf(i)'
    BY <1>2 DEF IntakeInv, TypeInv, Finish, KnownOf, Laned, StoresAgree, RequestKnows, ReplayKnows,
        Open, OnWire, OutboxPossible, Closed, Before, HoldsLane, Refunding, Publishing,
        Replaying, Reversing, Undecided
  <2> QED BY <2>1, <2>2, <2>3, OneAtATime
<1>3. CASE ReleaseInflight(i)
  BY <1>3 DEF ReleaseInflight, IntakeInv, TypeInv, Laned, StoresAgree, RequestKnows, ReplayKnows, Open,
     OnWire, OutboxPossible, Closed
<1> QED BY <1>1, <1>2, <1>3

---------------------------------------------------------------------------
LEMMA IntakeInitially == ASSUME Init PROVE IntakeInv
<1>1. TypeInv
  BY DEF Init, TypeInv, GateStates, PubStates, RowStates, Markers, HoldsLane
<1>2. ASSUME NEW i \in Intents PROVE KnownOf(i)
  BY <1>2 DEF Init, KnownOf, Laned, StoresAgree, RequestKnows, ReplayKnows, Open, OnWire, OutboxPossible,
     Closed, Before, HoldsLane, Refunding, Publishing
<1> QED BY <1>1, <1>2 DEF IntakeInv, KnownOf

LEMMA IntakeRests ==
  ASSUME IntakeInv, UNCHANGED <<pg, marker, broker, wire, pc, worker>>
  PROVE  IntakeInv'
BY DEF pg, broker, worker, IntakeInv, TypeInv, Laned, StoresAgree, RequestKnows, ReplayKnows, Open, OnWire,
   OutboxPossible, Closed

LEMMA IntakeKept == ASSUME IntakeInv, [Next]_vars PROVE IntakeInv'
<1>1. cur \in Intents
  BY DEF IntakeInv, TypeInv
<1>2. CASE \E i \in Intents : \/ ApiStep(i) \/ ApiTimeout(i) \/ OwnerFails(i) \/ PublishUnsent(i)
                              \/ PublishRefused(i) \/ ApiCrash(i)
  BY <1>2, RequestKeeps
<1>3. CASE \E i \in Intents : RTake(i) \/ RTakeHandoff(i)
  BY <1>3, TakeKeeps
<1>4. CASE \E i \in Intents : Consume(i) \/ Finish(i) \/ ReleaseInflight(i)
  BY <1>4, ConsumerKeeps
<1>5. CASE \E m \in wire : StoreStep(m) \/ CommandLost(m)
  <2>1. PICK m \in wire : StoreStep(m) \/ CommandLost(m)
    BY <1>5
  <2>2. m.intent \in Intents
    BY CommandOnWire DEF IntakeInv, TypeInv
  <2> QED BY <2>1, <2>2, StoreKeeps
<1>6. CASE ReplayStep \/ RCompensateFails \/ RNotSent \/ RNotConfirmed \/ RCrash
  <2>1. PICK i \in Intents : cur = i
    BY <1>1
  <2> QED BY <1>6, <2>1, ReplayKeeps
<1>7. CASE \E b \in Books : InflightExpires(b)
  BY <1>7, IntakeRests DEF InflightExpires
<1>8. CASE UNCHANGED vars
  BY <1>8, IntakeRests DEF vars, redis
<1> QED BY <1>2, <1>3, <1>4, <1>5, <1>6, <1>7, <1>8 DEF Next, Fault

LEMMA IntakeHolds == Spec => []IntakeInv
<1>1. Init => IntakeInv
  BY IntakeInitially
<1>2. IntakeInv /\ [Next]_vars => IntakeInv'
  BY IntakeKept
<1> QED BY <1>1, <1>2, PTL DEF Spec

(* A message that reached the broker never loses its authority, whatever   *)
(* the request, the replay and late commands do after it (handoff.py).     *)
THEOREM MessagesStayAuthorisedHolds == Spec => []MessagesStayAuthorised
<1>1. IntakeInv => MessagesStayAuthorised
  BY DEF IntakeInv, StoresAgree, Open, MessagesStayAuthorised, Authorised, Closed
<1> QED BY <1>1, IntakeHolds, PTL

(* A released receipt was never charged for, and its message never sent:   *)
(* no message comes out late either (settle_rejected_guest).               *)
THEOREM GuestRefundOnlyNegativeHolds == Spec => []GuestRefundOnlyNegative
<1>1. IntakeInv => GuestRefundOnlyNegative
  BY DEF IntakeInv, StoresAgree, Open, GuestRefundOnlyNegative
<1> QED BY <1>1, IntakeHolds, PTL

---------------------------------------------------------------------------
(* The counters.                                                           *)
LEMMA ChargedAdds ==
  ASSUME IntakeInv, NEW i \in Intents, marker[i] # "accepted", marker' = [marker EXCEPT ![i] = "accepted"]
  PROVE  Charged' = Charged \cup {i} /\ i \notin Charged
BY DEF IntakeInv, TypeInv, Charged

LEMMA ChargedStays ==
  ASSUME IntakeInv, NEW i \in Intents, NEW to, to # "accepted", marker[i] # "accepted",
         marker' = [marker EXCEPT ![i] = to]
  PROVE  Charged' = Charged
BY DEF IntakeInv, TypeInv, Charged

LEMMA ChargedTakes ==
  ASSUME IntakeInv, NEW i \in Intents, marker[i] = "accepted", marker' = [marker EXCEPT ![i] = "compensated"]
  PROVE  Charged' = Charged \ {i} /\ i \in Charged
BY DEF IntakeInv, TypeInv, Charged

LEMMA SumsOfCharged ==
  ASSUME LedgerInv
  PROVE  /\ \A S \in SUBSET Charged : IsFiniteSet(S) /\ SumOver(Size, S) \in Nat
         /\ \A i \in Intents : Size[i] \in Nat /\ Book[i] \in Books
         /\ Charged \subseteq Intents
<1>1. \A i \in Intents : Size[i] \in Nat /\ Book[i] \in Books
  BY AdmissionAssumption
<1>2. Charged \subseteq Intents /\ IsFiniteSet(Charged)
  BY DEF Charged, LedgerInv
<1>3. ASSUME NEW S \in SUBSET Charged PROVE IsFiniteSet(S) /\ SumOver(Size, S) \in Nat
  <2>1. IsFiniteSet(S)
    BY <1>2, FS_Subset
  <2>2. \A x \in S : Size[x] \in Nat
    BY <1>1, <1>2
  <2> QED BY <2>1, <2>2, SumType
<1> QED BY <1>1, <1>2, <1>3

(* gates.lua charges what compensate.lua will give back.                   *)
LEMMA ChargeExact ==
  ASSUME IntakeInv, LedgerInv, NEW i \in Intents, marker[i] = "none", ~Refused(i),
         marker' = [marker EXCEPT ![i] = "accepted"],
         quota' = quota + Size[i],
         platform' = Counted(platform, Book[i], platform[Book[i]] + Size[i]),
         inflight' = [inflight EXCEPT ![Book[i]] = inflight[Book[i]] \cup {i}],
         UNCHANGED <<freed, task>>
  PROVE  LedgerInv'
<1>1. Charged' = Charged \cup {i} /\ i \notin Charged
  BY ChargedAdds
<1>2. /\ \A S \in SUBSET Charged : IsFiniteSet(S) /\ SumOver(Size, S) \in Nat
      /\ \A j \in Intents : Size[j] \in Nat /\ Book[j] \in Books
      /\ Charged \subseteq Intents
  BY SumsOfCharged
<1>3. IsFiniteSet(Charged)'
  BY <1>1, <1>2, FS_AddElement
<1>4. \A S \in SUBSET Charged : SumOver(Size, S \cup {i}) = Size[i] + SumOver(Size, S)
  <2>1. ASSUME NEW S \in SUBSET Charged PROVE SumOver(Size, S \cup {i}) = Size[i] + SumOver(Size, S)
    BY <1>1, <1>2, SumAdd
  <2> QED BY <2>1
<1>5. quota' \in Nat /\ (quota - SumOver(Size, Charged) \in Used)'
  <2>1. SumOver(Size, Charged') = Size[i] + SumOver(Size, Charged)
    BY <1>1, <1>4
  <2>2. quota \in Nat /\ Size[i] \in Nat /\ SumOver(Size, Charged) \in Nat
    BY <1>2 DEF LedgerInv
  <2>3. quota' - SumOver(Size, Charged') = quota - SumOver(Size, Charged)
    BY <2>1, <2>2
  <2> QED BY <2>2, <2>3 DEF LedgerInv
<1>6. platform' \in [Books -> Nat]
  BY <1>2 DEF LedgerInv, Counted
<1>7. ASSUME PlatformMax > 0, NEW b \in Books PROVE platform'[b] = SumOver(Size, ChargedOn(b)')
  <2>1. platform[b] = SumOver(Size, ChargedOn(b)) /\ ChargedOn(b) \in SUBSET Charged
    BY <1>7 DEF LedgerInv, ChargedOn
  <2>2. SumOver(Size, ChargedOn(b)) \in Nat /\ Size[i] \in Nat
    BY <1>2, <2>1
  <2>3. CASE Book[i] = b
    <3>1. platform'[b] = platform[b] + Size[i]
      BY <1>2, <1>7, <2>3 DEF LedgerInv, Counted
    <3>2. ChargedOn(b)' = ChargedOn(b) \cup {i}
      BY <1>1, <2>3 DEF ChargedOn
    <3> QED BY <1>4, <2>1, <2>2, <3>1, <3>2
  <2>4. CASE Book[i] # b
    <3>1. platform'[b] = platform[b]
      BY <1>2, <1>7, <2>4 DEF LedgerInv, Counted
    <3>2. ChargedOn(b)' = ChargedOn(b)
      BY <1>1, <2>4 DEF ChargedOn
    <3> QED BY <2>1, <3>1, <3>2
  <2> QED BY <2>3, <2>4
<1>8. inflight' \in [Books -> SUBSET Intents] /\ InFlight'
  BY <1>1, <1>2 DEF LedgerInv, InFlight
<1> QED BY <1>3, <1>5, <1>6, <1>7, <1>8 DEF LedgerInv

LEMMA RefundExact ==
  ASSUME IntakeInv, LedgerInv, NEW i \in Intents, marker[i] = "accepted",
         marker' = [marker EXCEPT ![i] = "compensated"],
         quota' = Less(quota, Size[i]),
         platform' = Counted(platform, Book[i], Less(platform[Book[i]], Size[i])),
         inflight' = [inflight EXCEPT ![Book[i]] = inflight[Book[i]] \ {i}],
         UNCHANGED <<freed, task>>
  PROVE  LedgerInv' /\ quota' = quota - Size[i]
<1>1. Charged' = Charged \ {i} /\ i \in Charged
  BY ChargedTakes
<1>2. /\ \A S \in SUBSET Charged : IsFiniteSet(S) /\ SumOver(Size, S) \in Nat
      /\ \A j \in Intents : Size[j] \in Nat /\ Book[j] \in Books
      /\ Charged \subseteq Intents
  BY SumsOfCharged
<1>3. IsFiniteSet(Charged)'
  BY <1>1, <1>2
<1>4. ASSUME NEW S \in SUBSET Charged, i \in S
      PROVE  /\ SumOver(Size, S) = Size[i] + SumOver(Size, S \ {i})
             /\ SumOver(Size, S \ {i}) \in Nat
  <2>1. IsFiniteSet(S) /\ (\A y \in S : Size[y] \in Nat) /\ S \ {i} \in SUBSET Charged
    BY <1>2
  <2> QED BY <1>2, <1>4, <2>1, SumRemove
<1>5. quota' \in Nat /\ quota' = quota - Size[i] /\ (quota - SumOver(Size, Charged) \in Used)'
  <2>1. /\ SumOver(Size, Charged) = Size[i] + SumOver(Size, Charged')
        /\ SumOver(Size, Charged') \in Nat
    BY <1>1, <1>4
  <2>2. quota \in Nat /\ Size[i] \in Nat /\ quota - SumOver(Size, Charged) \in Nat
    BY <1>2, AdmissionAssumption DEF LedgerInv
  <2>3. quota' = quota - Size[i]
    BY <2>1, <2>2 DEF Less
  <2>4. quota' - SumOver(Size, Charged') = quota - SumOver(Size, Charged) /\ quota' \in Nat
    BY <2>1, <2>2, <2>3
  <2> QED BY <2>3, <2>4 DEF LedgerInv
<1>6. platform' \in [Books -> Nat]
  BY <1>2 DEF LedgerInv, Counted, Less
<1>7. ASSUME PlatformMax > 0, NEW b \in Books PROVE platform'[b] = SumOver(Size, ChargedOn(b)')
  <2>1. platform[b] = SumOver(Size, ChargedOn(b)) /\ ChargedOn(b) \in SUBSET Charged
    BY <1>7 DEF LedgerInv, ChargedOn
  <2>2. SumOver(Size, ChargedOn(b)) \in Nat /\ Size[i] \in Nat
    BY <1>2, <2>1
  <2>3. CASE Book[i] = b
    <3>1. platform'[b] = Less(platform[b], Size[i])
      BY <1>2, <1>7, <2>3 DEF LedgerInv, Counted
    <3>2. ChargedOn(b)' = ChargedOn(b) \ {i} /\ i \in ChargedOn(b)
      BY <1>1, <2>3 DEF ChargedOn
    <3>3. /\ SumOver(Size, ChargedOn(b)) = Size[i] + SumOver(Size, ChargedOn(b)')
          /\ SumOver(Size, ChargedOn(b)') \in Nat
      BY <1>4, <2>1, <3>2
    <3> QED BY <2>1, <2>2, <3>1, <3>3 DEF Less
  <2>4. CASE Book[i] # b
    <3>1. platform'[b] = platform[b]
      BY <1>2, <1>7, <2>4 DEF LedgerInv, Counted
    <3>2. ChargedOn(b)' = ChargedOn(b)
      BY <1>1, <2>4 DEF ChargedOn
    <3> QED BY <2>1, <3>1, <3>2
  <2> QED BY <2>3, <2>4
<1>8. inflight' \in [Books -> SUBSET Intents] /\ InFlight'
  BY <1>1, <1>2 DEF LedgerInv, InFlight
<1> QED BY <1>3, <1>5, <1>6, <1>7, <1>8 DEF LedgerInv

(* A step that leaves Redis alone, and ends no task that has ended.        *)
LEMMA LedgerRests ==
  ASSUME LedgerInv, UNCHANGED redis, \A i \in Intents : task[i] = "finished" => task'[i] = "finished"
  PROVE  LedgerInv'
<1>1. UNCHANGED <<marker, quota, platform, inflight, freed>> /\ Charged' = Charged
  BY DEF redis, Charged
<1>2. InFlight'
  BY <1>1 DEF LedgerInv, InFlight, Charged
<1> QED BY <1>1, <1>2 DEF LedgerInv, ChargedOn

LEMMA GatesKeepLedger ==
  ASSUME IntakeInv, LedgerInv, NEW i \in Intents, RunGates(i), UNCHANGED task
  PROVE  LedgerInv'
<1>1. CASE UNCHANGED redis
  BY <1>1, LedgerRests
<1>2. CASE marker[i] = "none" /\ marker' = [marker EXCEPT ![i] = "rejected"]
             /\ UNCHANGED <<quota, platform, inflight, freed>>
  <2>1. Charged' = Charged
    BY <1>2, ChargedStays
  <2>2. InFlight'
    BY <1>2, <2>1 DEF LedgerInv, InFlight
  <2> QED BY <1>2, <2>1, <2>2 DEF LedgerInv, ChargedOn
<1>3. CASE /\ marker[i] = "none" /\ ~Refused(i)
           /\ marker' = [marker EXCEPT ![i] = "accepted"]
           /\ quota' = quota + Size[i]
           /\ platform' = Counted(platform, Book[i], platform[Book[i]] + Size[i])
           /\ inflight' = [inflight EXCEPT ![Book[i]] = inflight[Book[i]] \cup {i}]
           /\ UNCHANGED freed
  BY <1>3, ChargeExact
<1> QED BY <1>1, <1>2, <1>3 DEF RunGates

LEMMA CompensateKeepsLedger ==
  ASSUME IntakeInv, LedgerInv, NEW i \in Intents, RunCompensate(i), UNCHANGED task
  PROVE  LedgerInv'
<1>1. CASE Refundable(i)
  BY <1>1, RefundExact DEF RunCompensate, Refundable
<1>2. CASE ~Refundable(i)
  BY <1>2, LedgerRests DEF RunCompensate
<1> QED BY <1>1, <1>2

(* Requests and the replay reach Redis and the broker by commands only.    *)
LEMMA OnlyStoresCharge ==
  ASSUME [Next]_vars
  PROVE  \/ \E m \in wire : StoreStep(m)
         \/ (\E b \in Books : InflightExpires(b)) /\ UNCHANGED <<marker, quota, sent>>
         \/ (\E i \in Intents : Consume(i) \/ Finish(i) \/ ReleaseInflight(i)) /\ UNCHANGED <<marker, quota, sent>>
         \/ UNCHANGED <<redis, task, sent>>
<1>1. ASSUME NEW i \in Intents, ApiStep(i) \/ ApiTimeout(i) \/ OwnerFails(i) \/ PublishUnsent(i)
                               \/ PublishRefused(i) \/ ApiCrash(i)
      PROVE  UNCHANGED <<redis, task, sent>>
  BY <1>1 DEF ApiStep, ApiTimeout, Register, TakeLane, MarkGate, SendGates, GatesTimeout, WriteGate,
     SettleApi, Settle, SetOwner, OwnerFails, MarkPublication, SendPublish, PublishUnsent, PublishRefused,
     PublishTimeout, WritePublished, RefundCheck, RefundMark, SendCompensate, CompensateTimeout,
     WriteCompensated, ApiCrash, Locally, OnlyLane, Write, Send, pg, broker
<1>2. ASSUME \/ ReplayStep \/ RCompensateFails \/ RNotSent \/ RNotConfirmed \/ RCrash
             \/ \E i \in Intents : RTake(i) \/ RTakeHandoff(i)
      PROVE  UNCHANGED <<redis, task, sent>>
  BY <1>2 DEF ReplayStep, RReconcile, RWriteGate, RDecide, RSendCompensate, RCompensateFails,
     RWriteCompensated, RSettle, Settle, RRecord, RMark, ROwner, RBegin, RSendPublish, RNotSent,
     RNotConfirmed, RConfirmed, RReceipt, RCrash, RTake, RTakeHandoff, RBeginWith, OutboxBecomes,
     Locally, OnlyLane, Write, Send, pg, broker
<1>3. ASSUME NEW m \in wire, CommandLost(m) PROVE UNCHANGED <<redis, task, sent>>
  BY <1>3 DEF CommandLost, pg, broker
<1>4. ASSUME NEW b \in Books, InflightExpires(b) PROVE UNCHANGED <<marker, quota, sent>>
  BY <1>4 DEF InflightExpires, broker
<1>5. ASSUME NEW i \in Intents, Consume(i) \/ Finish(i) \/ ReleaseInflight(i) PROVE UNCHANGED <<marker, quota, sent>>
  BY <1>5 DEF Consume, Finish, ReleaseInflight, redis, broker
<1>6. CASE UNCHANGED vars
  BY <1>6 DEF vars, pg, broker
<1> QED BY <1>1, <1>2, <1>3, <1>4, <1>5, <1>6 DEF Next, Fault

LEMMA LedgerKept == ASSUME IntakeInv, LedgerInv, [Next]_vars PROVE LedgerInv'
<1> USE DEF pg
<1>1. CASE UNCHANGED <<redis, task>>
  BY <1>1, LedgerRests
<1>2. CASE \E m \in wire : StoreStep(m)
  <2>1. PICK m \in wire : StoreStep(m)
    BY <1>2
  <2>2. m.intent \in Intents
    BY CommandOnWire DEF IntakeInv, TypeInv
  <2>3. CASE ApplyGates(m)
    BY <2>2, <2>3, GatesKeepLedger DEF ApplyGates
  <2>4. CASE ApplyCompensate(m)
    BY <2>2, <2>4, CompensateKeepsLedger DEF ApplyCompensate
  <2>5. CASE ApplyPublish(m)
    BY <2>5, LedgerRests DEF ApplyPublish
  <2> QED BY <2>1, <2>3, <2>4, <2>5 DEF StoreStep
<1>3. CASE \E b \in Books : InflightExpires(b)
  <2>1. PICK b \in Books : InflightExpires(b)
    BY <1>3
  <2>2. Charged' = Charged
    BY <2>1 DEF InflightExpires, Charged
  <2>3. inflight' \in [Books -> SUBSET Intents]
    BY <2>1 DEF InflightExpires, LedgerInv
  <2>4. InFlight'
    BY <2>1, <2>2, SumsOfCharged DEF InflightExpires, LedgerInv, InFlight
  <2> QED BY <2>1, <2>2, <2>3, <2>4 DEF InflightExpires, LedgerInv, ChargedOn
<1>4. CASE \E i \in Intents : Consume(i)
  <2>1. UNCHANGED redis /\ \A i \in Intents : task[i] = "finished" => task'[i] = "finished"
    BY <1>4 DEF Consume, IntakeInv, TypeInv
  <2> QED BY <2>1, LedgerRests
<1>5. CASE \E i \in Intents : Finish(i) \/ ReleaseInflight(i)
  <2>1. PICK i \in Intents : Finish(i) \/ ReleaseInflight(i)
    BY <1>5
  <2>2. Charged' = Charged /\ Charged \subseteq Intents
    BY <2>1 DEF Finish, ReleaseInflight, Charged
  <2>3. inflight' \in [Books -> SUBSET Intents]
    BY <2>1 DEF Finish, ReleaseInflight, LedgerInv
  <2>4. InFlight'
    <3>1. CASE Finish(i)
      BY <2>2, <3>1 DEF Finish, LedgerInv, InFlight, IntakeInv, TypeInv
    <3>2. CASE ReleaseInflight(i)
      BY <2>2, <3>2, SumsOfCharged DEF ReleaseInflight, LedgerInv, InFlight
    <3> QED BY <2>1, <3>1, <3>2
  <2> QED BY <2>1, <2>2, <2>3, <2>4 DEF Finish, ReleaseInflight, LedgerInv, ChargedOn
<1> QED BY <1>1, <1>2, <1>3, <1>4, <1>5, OnlyStoresCharge

LEMMA LedgerInitially == ASSUME Init PROVE LedgerInv
<1>1. Charged = {} /\ IsFiniteSet({}) /\ SumOver(Size, {}) = 0
  BY SumEmpty, FS_EmptySet DEF Init, Charged
<1>2. quota \in Used /\ quota \in Nat
  BY AdmissionAssumption DEF Init
<1>3. quota - 0 = quota
  BY <1>2
<1>4. \A b \in Books : ChargedOn(b) = {}
  BY <1>1 DEF ChargedOn
<1> QED BY <1>1, <1>2, <1>3, <1>4 DEF Init, LedgerInv, InFlight

LEMMA LedgerHolds == Spec => [](IntakeInv /\ LedgerInv)
<1>1. Init => IntakeInv /\ LedgerInv
  BY IntakeInitially, LedgerInitially
<1>2. (IntakeInv /\ LedgerInv) /\ [Next]_vars => (IntakeInv /\ LedgerInv)'
  BY IntakeKept, LedgerKept
<1> QED BY <1>1, <1>2, PTL DEF Spec

(* The quota and the platform's counter hold what is charged, and nothing  *)
(* else: no crash, late command or repeated refund is counted.             *)
THEOREM LedgerExactHolds == Spec => []LedgerExact
<1>1. LedgerInv => LedgerExact
  <2>1. MapThenSumSet(LAMBDA i : Size[i], Charged) = SumOver(Size, Charged)
    BY DEF SumOver
  <2>2. \A b \in Books : MapThenSumSet(LAMBDA i : Size[i], {i \in Charged : Book[i] = b})
                           = SumOver(Size, ChargedOn(b))
    BY DEF SumOver, ChargedOn
  <2> QED BY <2>1, <2>2 DEF LedgerInv, LedgerExact
<1> QED BY <1>1, LedgerHolds, PTL

(* Only the gates charge an intake, and they find the book empty.          *)
LEMMA ChargedAlone ==
  ASSUME IntakeInv, LedgerInv, [Next]_vars, NEW i \in Charged' \ Charged, NEW j \in Charged,
         Book[j] = Book[i]
  PROVE  task[j] = "finished" \/ j \in freed
<1>1. marker' # marker
  BY DEF Charged
<1>2. PICK m \in wire : StoreStep(m)
  BY <1>1, OnlyStoresCharge DEF redis
<1>3. m.intent \in Intents
  BY CommandOnWire DEF IntakeInv, TypeInv
<1>4. i \in Intents /\ marker[i] # "accepted" /\ marker'[i] = "accepted"
  BY DEF Charged
<1>5. ApplyGates(m)
  BY <1>2, <1>3, <1>4 DEF StoreStep, ApplyCompensate, RunCompensate, ApplyPublish, redis, IntakeInv, TypeInv
<1>6. i = m.intent /\ ~Refused(i)
  BY <1>3, <1>4, <1>5 DEF ApplyGates, RunGates, redis, IntakeInv, TypeInv
<1>7. inflight[Book[j]] = {}
  BY <1>6 DEF Refused, BookBusy
<1> QED BY <1>7 DEF LedgerInv, InFlight

(* When an intake is charged, every other charged task of its book is over *)
(* or has lost its place before (gates.lua; processor.py: _finish).        *)
THEOREM OneTaskPerBookHolds == Spec => OneTaskPerBook
<1>1. (IntakeInv /\ LedgerInv) /\ [Next]_vars
        => [\A i \in Charged' \ Charged, j \in Charged :
              Book[j] = Book[i] => task[j] = "finished" \/ j \in freed]_marker
  BY ChargedAlone
<1> QED BY <1>1, LedgerHolds, PTL DEF Spec, OneTaskPerBook

---------------------------------------------------------------------------
(* The refinement.                                                         *)
FateOfAll == [i \in Intents |-> Fate(i)]

(* The fate of one intent changes.                                         *)
LEMMA FateChanges ==
  ASSUME NEW i \in Intents, NEW from, NEW to, Fate(i) = from, Fate(i)' = to,
         \A j \in Intents \ {i} : Fate(j)' = Fate(j)
  PROVE  Ledger!Becomes(i, from, to)
<1>1. FateOfAll' = [FateOfAll EXCEPT ![i] = to] /\ FateOfAll[i] = from
  BY DEF FateOfAll
<1> QED BY <1>1 DEF FateOfAll, Ledger!Becomes

LEMMA StutterRests == ASSUME UNCHANGED <<marker, sent, quota>> PROVE UNCHANGED <<FateOfAll, quota>>
BY DEF FateOfAll, Fate

LEMMA GatesRefine ==
  ASSUME IntakeInv, LedgerInv, NEW i \in Intents, RunGates(i), UNCHANGED sent
  PROVE  Ledger!Next \/ UNCHANGED <<FateOfAll, quota>>
<1>1. CASE UNCHANGED redis
  BY <1>1, StutterRests DEF redis
<1>2. CASE marker[i] = "none" /\ marker' = [marker EXCEPT ![i] = "rejected"] /\ UNCHANGED quota
  <2>1. /\ Fate(i) = "open" /\ Fate(i)' = "refused"
        /\ \A j \in Intents \ {i} : Fate(j)' = Fate(j)
    BY <1>2 DEF Fate, IntakeInv, TypeInv, StoresAgree, Open
  <2>2. Ledger!Becomes(i, "open", "refused")
    BY <2>1, FateChanges
  <2> QED BY <1>2, <2>2 DEF Ledger!Next, Ledger!Refuse
<1>3. CASE marker[i] = "none" /\ ~Refused(i) /\ marker' = [marker EXCEPT ![i] = "accepted"]
             /\ quota' = quota + Size[i]
  <2>1. /\ Fate(i) = "open" /\ Fate(i)' = "charged"
        /\ \A j \in Intents \ {i} : Fate(j)' = Fate(j)
    BY <1>3 DEF Fate, IntakeInv, TypeInv, StoresAgree, Open
  <2>2. Ledger!Becomes(i, "open", "charged")
    BY <2>1, FateChanges
  <2>3. QuotaMax > 0 => quota' <= QuotaMax
    <3>1. quota \in Nat /\ Size[i] \in Nat /\ QuotaMax \in Nat
      BY AdmissionAssumption DEF LedgerInv
    <3> QED BY <1>3, <3>1 DEF Refused, OverQuota
  <2> QED BY <1>3, <2>2, <2>3 DEF Ledger!Next, Ledger!Charge
<1> QED BY <1>1, <1>2, <1>3 DEF RunGates

LEMMA CompensateRefines ==
  ASSUME IntakeInv, LedgerInv, NEW i \in Intents, RunCompensate(i), UNCHANGED <<sent, task>>, OnWire("compensate", i)
  PROVE  Ledger!Next \/ UNCHANGED <<FateOfAll, quota>>
<1>1. CASE ~Refundable(i)
  BY <1>1, StutterRests DEF RunCompensate, redis
<1>2. CASE Refundable(i)
  <2>1. marker' = [marker EXCEPT ![i] = "compensated"] /\ quota' = quota - Size[i]
    BY <1>2, RefundExact DEF RunCompensate, Refundable
  <2>2. ~sent[i]
    BY DEF IntakeInv, StoresAgree, Open
  <2>3. /\ Fate(i) = "charged" /\ Fate(i)' = "refunded"
        /\ \A j \in Intents \ {i} : Fate(j)' = Fate(j)
    BY <1>2, <2>1, <2>2 DEF Fate, Refundable, IntakeInv, TypeInv
  <2>4. Ledger!Becomes(i, "charged", "refunded")
    BY <2>3, FateChanges
  <2> QED BY <2>1, <2>4 DEF Ledger!Next, Ledger!Refund
<1> QED BY <1>1, <1>2

LEMMA PublishRefines ==
  ASSUME IntakeInv, NEW i \in Intents, OnWire("publish", i), sent' = [sent EXCEPT ![i] = TRUE],
         UNCHANGED <<marker, quota>>
  PROVE  Ledger!Next \/ UNCHANGED <<FateOfAll, quota>>
<1>1. CASE sent[i]
  <2>1. sent' = sent
    BY <1>1 DEF IntakeInv, TypeInv
  <2> QED BY <2>1, StutterRests
<1>2. CASE ~sent[i]
  <2>1. marker[i] = "accepted"
    BY DEF IntakeInv, StoresAgree, Open
  <2>2. /\ Fate(i) = "charged" /\ Fate(i)' = "delivered"
        /\ \A j \in Intents \ {i} : Fate(j)' = Fate(j)
    BY <1>2, <2>1 DEF Fate, IntakeInv, TypeInv
  <2>3. Ledger!Becomes(i, "charged", "delivered")
    BY <2>2, FateChanges
  <2> QED BY <2>3 DEF Ledger!Next, Ledger!Deliver
<1> QED BY <1>1, <1>2

LEMMA StepRefines ==
  ASSUME IntakeInv, LedgerInv, [Next]_vars
  PROVE  Ledger!Next \/ UNCHANGED <<FateOfAll, quota>>
<1> USE DEF pg, broker
<1>1. CASE \E m \in wire : StoreStep(m)
  <2>1. PICK m \in wire : StoreStep(m)
    BY <1>1
  <2>2. m.intent \in Intents /\ m = Command(m.op, m.by, m.intent) /\ m.by \in Who
    BY CommandOnWire DEF IntakeInv, TypeInv
  <2>3. OnWire(m.op, m.intent)
    BY <2>2 DEF OnWire, Who
  <2>4. CASE ApplyGates(m)
    BY <2>2, <2>4, GatesRefine DEF ApplyGates
  <2>5. CASE ApplyCompensate(m)
    BY <2>2, <2>3, <2>5, CompensateRefines DEF ApplyCompensate
  <2>6. CASE ApplyPublish(m)
    BY <2>2, <2>3, <2>6, PublishRefines DEF ApplyPublish, redis
  <2> QED BY <2>1, <2>4, <2>5, <2>6 DEF StoreStep
<1>2. CASE ~ \E m \in wire : StoreStep(m)
  <2>1. UNCHANGED <<marker, sent, quota>>
    BY <1>2, OnlyStoresCharge DEF redis
  <2> QED BY <2>1, StutterRests
<1> QED BY <1>1, <1>2

(* Whatever crashes or comes late, intake keeps the promise of module      *)
(* IntakeLedger: an intent is charged at most once and within the quota,   *)
(* and is refused, refunded or delivered, never two of them.               *)
THEOREM LedgerSpecHolds == Spec => LedgerSpec
<1>1. Init => Ledger!Init
  <2>1. ASSUME Init PROVE FateOfAll = [i \in Intents |-> "open"] /\ quota \in Nat
    BY <2>1, AdmissionAssumption DEF Init, FateOfAll, Fate
  <2> QED BY <2>1 DEF Ledger!Init, FateOfAll
<1>2. (IntakeInv /\ LedgerInv) /\ [Next]_vars => [Ledger!Next]_<<FateOfAll, quota>>
  BY StepRefines
<1>3. (IntakeInv /\ LedgerInv) /\ [Next]_vars => [Ledger!Next]_<<[i \in Intents |-> Fate(i)], quota>>
  BY <1>2 DEF FateOfAll
<1> QED BY <1>1, <1>3, LedgerHolds, PTL DEF Spec, LedgerSpec, Ledger!Spec
=============================================================================

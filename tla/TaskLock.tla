----------------------------- MODULE TaskLock -----------------------------
(***************************************************************************)
(* The lease lock of the workers (src/src/myink/worker/lock.py): one Redis *)
(* key that several worker processes contend for, one Redis command per    *)
(* step.  The same class guards a task (lock:task:{id}) and a book         *)
(* (lock:book:{pid}).                                                      *)
(*                                                                         *)
(* A value of the key is JSON with a token, the worker's name and the time *)
(* of its heartbeat.  Time is kept as the AGE of a heartbeat, so the state *)
(* space is finite although the clock never stops: Tick makes every value  *)
(* older, wherever it is kept, and two values are the same string exactly  *)
(* when they have the same token and the same age.  A token is a uuid:     *)
(* a grant takes one that no stored value, handle, snapshot or request on  *)
(* the wire has.                                                           *)
(*                                                                         *)
(* The heartbeat thread runs beside the thread that holds and releases the *)
(* lock: its requests are in "wire" until Redis applies them, and may be   *)
(* lost, applied without the answer being received, or applied after the   *)
(* handle was released or its process died.                                *)
(***************************************************************************)
EXTENDS Naturals, FiniteSets

CONSTANTS Workers,    \* worker processes; a restarted one keeps its name
          Tokens,     \* uuids
          NoValue,    \* redis.get of a missing key, and None
          Heartbeat,  \* worker_lock_heartbeat
          Ttl,        \* worker_inflight_ttl
          MaxFlight   \* bound: a request older than this is never applied

ASSUME LockAssumption == /\ Heartbeat \in Nat \ {0}
                         /\ Ttl \in Nat \ {0}
                         /\ MaxFlight \in Nat
                         /\ Workers # {}

VARIABLES redis,  \* the value stored under the key, or NoValue
          ttl,    \* time left before the key expires, 0 when it is missing
          pc,     \* what the main thread of each worker does next
          tries,  \* rounds of acquire that are left
          mine,   \* TaskLock._value of each worker's handle, or NoValue
          seen,   \* what the worker's last GET returned
          beats,  \* is the heartbeat thread of the handle running?
          wire    \* CAS_RENEW requests that were sent and not yet applied

vars == <<redis, ttl, pc, tries, mine, seen, beats, wire>>

Stale  == 3 * Heartbeat
AgeCap == MaxFlight + Ttl

Values == [worker: Workers, token: Tokens, age: 0..AgeCap]
Maybe  == Values \cup {NoValue}
Renewals == [old: Values, new: Values]

ASSUME NoValueAssumption == NoValue \notin Values

(* lock_value: a fresh token, this worker's name and the time of day.      *)
LockValue(w, t) == [worker |-> w, token |-> t, age |-> 0]

(* One missed heartbeat already counts as dead (slip).                       *)
IsStaleEarly(v) == v.age > Heartbeat

IsStale(v) == v.age > Stale

Older(v) == IF v = NoValue THEN NoValue
            ELSE [v EXCEPT !.age = IF v.age < AgeCap THEN v.age + 1 ELSE v.age]

Has(v, t) == v # NoValue /\ v.token = t

(* uuid4: a token that occurs nowhere.                                      *)
FreshTokens ==
  {t \in Tokens : /\ ~Has(redis, t)
                  /\ \A w \in Workers : ~Has(mine[w], t) /\ ~Has(seen[w], t)
                  /\ \A m \in wire : ~Has(m.old, t)}

TypeOK ==
  /\ redis \in Maybe
  /\ ttl \in 0..Ttl
  /\ pc \in [Workers -> {"idle", "set", "get", "reclaim", "held", "relget", "reldel"}]
  /\ tries \in [Workers -> 0..2]
  /\ mine \in [Workers -> Maybe]
  /\ seen \in [Workers -> Maybe]
  /\ beats \in [Workers -> BOOLEAN]
  /\ wire \subseteq Renewals

Init ==
  /\ redis = NoValue
  /\ ttl = 0
  /\ pc = [w \in Workers |-> "idle"]
  /\ tries = [w \in Workers |-> 0]
  /\ mine = [w \in Workers |-> NoValue]
  /\ seen = [w \in Workers |-> NoValue]
  /\ beats = [w \in Workers |-> FALSE]
  /\ wire = {}

---------------------------------------------------------------------------
(* Plausible slips in the code below: no specification uses them, the      *)
(* properties must tell them from the definitions they stand in for.       *)

(* The retry loop without its bound.                                       *)
NextRoundUnbounded(w) ==
  /\ tries' = [tries EXCEPT ![w] = @ - 1]
  /\ pc' = [pc EXCEPT ![w] = "set"]

(* DEL instead of the compare-and-delete script.                           *)
DelBlind(v) == redis' = NoValue /\ ttl' = 0

(* The fallback of release without the comparison of worker names.         *)
ReleaseGetAnybody(w) ==
  /\ pc[w] = "relget"
  /\ IF redis # NoValue
     THEN /\ seen' = [seen EXCEPT ![w] = redis]
          /\ pc' = [pc EXCEPT ![w] = "reldel"]
          /\ UNCHANGED mine
     ELSE /\ seen' = [seen EXCEPT ![w] = NoValue]
          /\ pc' = [pc EXCEPT ![w] = "idle"]
          /\ mine' = [mine EXCEPT ![w] = NoValue]
  /\ UNCHANGED <<redis, ttl, tries, beats, wire>>

(* SET NX without EX: the key never expires.                               *)
TickNoExpiry ==
  /\ redis' = Older(redis)
  /\ mine' = [w \in Workers |-> Older(mine[w])]
  /\ seen' = [w \in Workers |-> Older(seen[w])]
  /\ wire' = {[old |-> Older(m.old), new |-> Older(m.new)] : m \in wire}
  /\ UNCHANGED <<ttl, pc, tries, beats>>

---------------------------------------------------------------------------
(* acquire.                                                                *)

Acquire(w) ==
  /\ pc[w] = "idle"
  /\ pc' = [pc EXCEPT ![w] = "set"]
  /\ tries' = [tries EXCEPT ![w] = 2]
  /\ UNCHANGED <<redis, ttl, mine, seen, beats, wire>>

(* One of the two rounds is over: try again or return None.                *)
NextRound(w) ==
  /\ tries' = [tries EXCEPT ![w] = @ - 1]
  /\ pc' = [pc EXCEPT ![w] = IF tries[w] > 1 THEN "set" ELSE "idle"]

GiveUp(w) ==
  /\ tries' = [tries EXCEPT ![w] = 0]
  /\ pc' = [pc EXCEPT ![w] = "idle"]

(* SET NX EX succeeded: the handle exists and its heartbeat thread runs.   *)
SetGranted(w, t) ==
  /\ pc[w] = "set"
  /\ redis = NoValue
  /\ redis' = LockValue(w, t)
  /\ ttl' = Ttl
  /\ mine' = [mine EXCEPT ![w] = LockValue(w, t)]
  /\ beats' = [beats EXCEPT ![w] = TRUE]
  /\ pc' = [pc EXCEPT ![w] = "held"]
  /\ tries' = [tries EXCEPT ![w] = 0]
  /\ UNCHANGED <<seen, wire>>

(* SET NX EX was applied and its answer lost: acquire raises, nobody holds *)
(* a handle of the value it left behind.                                   *)
SetAnswerLost(w, t) ==
  /\ pc[w] = "set"
  /\ redis = NoValue
  /\ redis' = LockValue(w, t)
  /\ ttl' = Ttl
  /\ GiveUp(w)
  /\ UNCHANGED <<mine, seen, beats, wire>>

SetRefused(w) ==
  /\ pc[w] = "set"
  /\ redis # NoValue
  /\ pc' = [pc EXCEPT ![w] = "get"]
  /\ UNCHANGED <<redis, ttl, tries, mine, seen, beats, wire>>

(* GET finds nothing (another round), a live lease (give up) or a stale    *)
(* one (reclaim exactly the value seen).                                   *)
Get(w) ==
  /\ pc[w] = "get"
  /\ \/ redis = NoValue /\ NextRound(w) /\ UNCHANGED seen
     \/ redis # NoValue /\ ~IsStale(redis) /\ GiveUp(w) /\ UNCHANGED seen
     \/ /\ redis # NoValue /\ IsStale(redis)
        /\ seen' = [seen EXCEPT ![w] = redis]
        /\ pc' = [pc EXCEPT ![w] = "reclaim"]
        /\ UNCHANGED tries
  /\ UNCHANGED <<redis, ttl, mine, beats, wire>>

(* CAS_DEL: the key is deleted only while it has the expected value.       *)
CasDel(v) ==
  IF redis = v THEN redis' = NoValue /\ ttl' = 0
               ELSE UNCHANGED <<redis, ttl>>

Reclaim(w) ==
  /\ pc[w] = "reclaim"
  /\ CasDel(seen[w])
  /\ IF redis = seen[w] THEN NextRound(w) ELSE GiveUp(w)
  /\ seen' = [seen EXCEPT ![w] = NoValue]
  /\ UNCHANGED <<mine, beats, wire>>

---------------------------------------------------------------------------
(* The heartbeat thread.                                                   *)

(* Every Heartbeat the thread sends CAS_RENEW(_value -> same token, now);  *)
(* it waits for the outcome before it sends another.                       *)
SendRenew(w) ==
  /\ beats[w]
  /\ mine[w] # NoValue
  /\ mine[w].age >= Heartbeat
  /\ \A m \in wire : m.old.token # mine[w].token
  /\ wire' = wire \cup {[old |-> mine[w], new |-> [mine[w] EXCEPT !.age = 0]]}
  /\ UNCHANGED <<redis, ttl, pc, tries, mine, seen, beats>>

(* CAS_RENEW at the server.                                                *)
CasRenew(m) ==
  IF redis = m.old THEN redis' = m.new /\ ttl' = Ttl
                   ELSE UNCHANGED <<redis, ttl>>

IsHandleOf(w, m) == mine[w] # NoValue /\ mine[w].token = m.old.token

(* The renewal reaches Redis and its answer the thread: _value follows, or *)
(* the thread ends because the lock has another owner.                     *)
RenewAnswered(m) ==
  /\ m \in wire
  /\ m.new.age <= MaxFlight
  /\ CasRenew(m)
  /\ wire' = wire \ {m}
  /\ IF redis = m.old
     THEN /\ mine' = [w \in Workers |-> IF IsHandleOf(w, m) THEN m.new ELSE mine[w]]
          /\ UNCHANGED beats
     ELSE /\ beats' = [w \in Workers |-> IF IsHandleOf(w, m) THEN FALSE ELSE beats[w]]
          /\ UNCHANGED mine
  /\ UNCHANGED <<pc, tries, seen>>

(* The renewal reaches Redis and the answer is lost: the exception leaves  *)
(* _value at the old heartbeat and the thread tries again later.           *)
RenewAnswerLost(m) ==
  /\ m \in wire
  /\ m.new.age <= MaxFlight
  /\ CasRenew(m)
  /\ wire' = wire \ {m}
  /\ UNCHANGED <<pc, tries, mine, seen, beats>>

(* The renewal never reaches Redis.                                        *)
RenewLost(m) ==
  /\ m \in wire
  /\ wire' = wire \ {m}
  /\ UNCHANGED <<redis, ttl, pc, tries, mine, seen, beats>>

---------------------------------------------------------------------------
(* release.                                                                *)

(* _stop.set and join: the thread sends nothing more.  The join ends with  *)
(* the thread or on its timeout, so a request may still be on the wire.    *)
StopBeat(w) ==
  /\ pc[w] = "held"
  /\ beats' = [beats EXCEPT ![w] = FALSE]
  /\ pc' = [pc EXCEPT ![w] = "relget"]
  /\ UNCHANGED <<redis, ttl, tries, mine, seen, wire>>

(* GET: the key is gone or another worker's, and release is over; or it is *)
(* this worker's, under the handle's value or one that a renewal wrote.    *)
ReleaseGet(w) ==
  /\ pc[w] = "relget"
  /\ IF redis # NoValue /\ (redis = mine[w] \/ redis.worker = w)
     THEN /\ seen' = [seen EXCEPT ![w] = redis]
          /\ pc' = [pc EXCEPT ![w] = "reldel"]
          /\ UNCHANGED mine
     ELSE /\ seen' = [seen EXCEPT ![w] = NoValue]
          /\ pc' = [pc EXCEPT ![w] = "idle"]
          /\ mine' = [mine EXCEPT ![w] = NoValue]
  /\ UNCHANGED <<redis, ttl, tries, beats, wire>>

ReleaseDel(w) ==
  /\ pc[w] = "reldel"
  /\ CasDel(seen[w])
  /\ pc' = [pc EXCEPT ![w] = "idle"]
  /\ mine' = [mine EXCEPT ![w] = NoValue]
  /\ seen' = [seen EXCEPT ![w] = NoValue]
  /\ UNCHANGED <<tries, beats, wire>>

(* A Redis failure while releasing: the lease is left to its time to live. *)
ReleaseFails(w) ==
  /\ pc[w] \in {"relget", "reldel"}
  /\ pc' = [pc EXCEPT ![w] = "idle"]
  /\ mine' = [mine EXCEPT ![w] = NoValue]
  /\ seen' = [seen EXCEPT ![w] = NoValue]
  /\ UNCHANGED <<redis, ttl, tries, beats, wire>>

---------------------------------------------------------------------------
(* The process dies with both threads; its successor starts with nothing.  *)
Crash(w) ==
  /\ GiveUp(w)
  /\ mine' = [mine EXCEPT ![w] = NoValue]
  /\ seen' = [seen EXCEPT ![w] = NoValue]
  /\ beats' = [beats EXCEPT ![w] = FALSE]
  /\ UNCHANGED <<redis, ttl, wire>>

(* A unit of time: every heartbeat is a unit older and the key may expire. *)
Tick ==
  /\ redis' = IF ttl <= 1 THEN NoValue ELSE Older(redis)
  /\ ttl' = IF ttl = 0 THEN 0 ELSE ttl - 1
  /\ mine' = [w \in Workers |-> Older(mine[w])]
  /\ seen' = [w \in Workers |-> Older(seen[w])]
  /\ wire' = {[old |-> Older(m.old), new |-> Older(m.new)] : m \in wire}
  /\ UNCHANGED <<pc, tries, beats>>

Next ==
  \/ \E w \in Workers : \/ Acquire(w) \/ SetRefused(w) \/ Get(w) \/ Reclaim(w)
                        \/ SendRenew(w)
                        \/ StopBeat(w) \/ ReleaseGet(w) \/ ReleaseDel(w) \/ ReleaseFails(w)
                        \/ Crash(w)
  \/ \E w \in Workers, t \in FreshTokens : SetGranted(w, t) \/ SetAnswerLost(w, t)
  \/ \E m \in wire : RenewAnswered(m) \/ RenewAnswerLost(m) \/ RenewLost(m)
  \/ Tick

Spec == Init /\ [][Next]_vars

(* The clock does not stop, and a request does not stay on the wire.       *)
Fairness == WF_vars(Tick) /\ WF_vars(\E m \in wire : RenewAnswered(m) \/ RenewLost(m))

FairSpec == Spec /\ Fairness

---------------------------------------------------------------------------
Holds(w) == pc[w] \in {"held", "relget"} /\ mine[w] # NoValue

(* By its own record the handle renewed in time.                           *)
Timely(w) == Holds(w) /\ mine[w].age <= Stale /\ mine[w].age < Ttl

(* A worker whose own last acknowledged heartbeat is neither stale nor past *)
(* the time to live is the owner of the key: no reclaim, release or expiry  *)
(* took its lease, whatever the other workers, their retries, and renewals  *)
(* that were lost, delayed or applied without an answer did (lock.py 66-133)*)
TimelyHolderOwns ==
  \A w \in Workers : Timely(w) => /\ redis # NoValue
                                  /\ redis.token = mine[w].token

(* A release deletes the lease of its own grant, although it matches by    *)
(* worker name when the value differs: "token 同源" (lock.py 135-156).      *)
ReleaseDeletesOwnGrant ==
  \A w \in Workers : (pc[w] = "reldel" /\ redis = seen[w] /\ redis # NoValue)
                     => redis.token = mine[w].token

(* A handle never beats for a grant its successor owns: the key changes    *)
(* hands only through an empty key, so a renewal revives no lost lease     *)
(* ("不复活已易主的锁", lock.py 39).                                         *)
ChangesHandsWhenFree ==
  [][redis' # NoValue /\ (redis = NoValue \/ redis.token # redis'.token)
       => /\ redis = NoValue
          /\ \E w \in Workers : pc[w] = "set" /\ redis'.worker = w]_vars

(* A lease without a living handle (its process died, its SET was applied  *)
(* without an answer, its release failed) does not block the key forever.  *)
Orphaned == redis # NoValue /\ \A w \in Workers : ~(Holds(w) /\ mine[w].token = redis.token)

OrphanIsFreed == Orphaned ~> ~Orphaned

(* The lock keeps the promise of LeaseLock: a lease in use changes hands   *)
(* only after its heartbeat went stale or its time to live ran out.        *)
Lease == INSTANCE LeaseLock
           WITH lease <- redis, NoLease <- NoValue,
                using <- {w \in Workers : pc[w] = "held"}
LeaseSpec == Lease!Spec
===========================================================================

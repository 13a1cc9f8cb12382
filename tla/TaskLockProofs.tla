-------------------------- MODULE TaskLockProofs --------------------------
(***************************************************************************)
(* Proofs about TaskLock for every set of workers and tokens, every        *)
(* heartbeat interval, time to live and delay of a request: its types, a   *)
(* timely holder, whose lease a release deletes, how the key changes       *)
(* hands, and that TaskLock implements LeaseLock.                          *)
(***************************************************************************)
EXTENDS TaskLock, TLAPS

(* Handles: which values they hold and how they relate to the key.         *)
HandleInv ==
  /\ \A w \in Workers : (mine[w] # NoValue) <=> pc[w] \in {"held", "relget", "reldel"}
  /\ \A w \in Workers : mine[w] # NoValue => mine[w].worker = w
  /\ \A w, u \in Workers :
        (mine[w] # NoValue /\ mine[u] # NoValue /\ mine[w].token = mine[u].token) => w = u
  /\ \A w \in Workers :
        (mine[w] # NoValue /\ redis # NoValue /\ redis.token = mine[w].token)
          => redis.worker = w /\ redis.age <= mine[w].age

(* Snapshots: what the two deleting steps know about the value they saw.   *)
SeenInv ==
  /\ \A w \in Workers : pc[w] = "reclaim" => seen[w] # NoValue /\ IsStale(seen[w])
  /\ \A w \in Workers : pc[w] = "reldel" => seen[w] # NoValue /\ seen[w].worker = w

(* Requests on the wire: one per grant, never older than its handle.       *)
WireInv ==
  /\ \A m \in wire : /\ m.old.token = m.new.token
                     /\ m.old.worker = m.new.worker
  /\ \A m, n \in wire : m.old.token = n.old.token => m = n
  /\ \A m \in wire, w \in Workers :
        (mine[w] # NoValue /\ mine[w].token = m.old.token)
          => m.new.worker = w /\ m.new.age <= mine[w].age

(* The key outlives the heartbeat it shows.                                *)
TtlInv == redis # NoValue => /\ ttl >= 1
                             /\ ttl + redis.age >= Ttl

(* TimelyHolderOwns alone is not inductive: that no step takes a timely    *)
(* lease rests on what handles, snapshots and requests may contain.        *)
LockInv == TypeOK /\ HandleInv /\ SeenInv /\ WireInv /\ TtlInv /\ TimelyHolderOwns

(* Where the tries of a worker are counted: it is in a round only while    *)
(* tries are left.                                                         *)
TriesInv == \A w \in Workers : pc[w] \in {"set", "get", "reclaim"} => tries[w] \in 1..2

---------------------------------------------------------------------------
LEMMA AgeCapType == AgeCap \in Nat /\ AgeCap >= Ttl /\ Stale \in Nat
BY LockAssumption DEF AgeCap, Stale

(* Growing older keeps the token, the worker and the order of ages.        *)
LEMMA OlderFacts ==
  ASSUME NEW v \in Values
  PROVE  /\ Older(v) \in Values
         /\ Older(v) # NoValue
         /\ Older(v).token = v.token
         /\ Older(v).worker = v.worker
         /\ v.age <= Older(v).age
         /\ Older(v).age >= Ttl \/ Older(v).age = v.age + 1
         /\ Older(v).age = IF v.age < AgeCap THEN v.age + 1 ELSE v.age
BY AgeCapType, NoValueAssumption, LockAssumption DEF Older, Values

LEMMA OlderNone == Older(NoValue) = NoValue
BY DEF Older

LEMMA OlderMaybe == ASSUME NEW v \in Maybe PROVE Older(v) \in Maybe
BY OlderFacts, OlderNone DEF Maybe

LEMMA OlderNot == ASSUME NEW v \in Maybe PROVE (Older(v) = NoValue) <=> (v = NoValue)
BY OlderFacts, OlderNone DEF Maybe

LEMMA LockValueType ==
  ASSUME NEW w \in Workers, NEW t \in Tokens
  PROVE  /\ LockValue(w, t) \in Values
         /\ LockValue(w, t) # NoValue
         /\ LockValue(w, t).token = t
         /\ LockValue(w, t).worker = w
         /\ LockValue(w, t).age = 0
BY AgeCapType, NoValueAssumption DEF LockValue, Values

(* A fresh token is nobody's.                                              *)
LEMMA FreshFacts ==
  ASSUME NEW t \in FreshTokens
  PROVE  /\ t \in Tokens
         /\ \A w \in Workers : mine[w] # NoValue => mine[w].token # t
         /\ \A m \in wire : m.old # NoValue => m.old.token # t
BY DEF FreshTokens, Has

---------------------------------------------------------------------------
(* Every variable keeps its type: acquire makes at most two rounds, a key  *)
(* without a value has no time to live, and values stay values.            *)
THEOREM TypeCorrect == Spec => []TypeOK
<1>1. Init => TypeOK /\ TriesInv
  BY LockAssumption DEF Init, TypeOK, TriesInv, Maybe
<1>2. TypeOK /\ TriesInv /\ [Next]_vars => TypeOK' /\ TriesInv'
  <2> SUFFICES ASSUME TypeOK, TriesInv, [Next]_vars PROVE TypeOK' /\ TriesInv'
    OBVIOUS
  <2> USE DEF TypeOK, TriesInv, Maybe
  <2> DEFINE Goal == TypeOK' /\ TriesInv'
  <2>1. ASSUME NEW w \in Workers, Acquire(w) \/ SetRefused(w) PROVE Goal
    BY <2>1 DEF Acquire, SetRefused
  <2>2. ASSUME NEW w \in Workers, Get(w) PROVE Goal
    <3>1. CASE redis = NoValue /\ NextRound(w)
      <4>1. tries[w] \in 1..2 BY <2>2 DEF Get
      <4> QED BY <2>2, <3>1, <4>1 DEF Get, NextRound
    <3>2. CASE GiveUp(w) BY <2>2, <3>2 DEF Get, GiveUp
    <3>3. CASE pc' = [pc EXCEPT ![w] = "reclaim"]
      <4>1. tries[w] \in 1..2 BY <2>2 DEF Get
      <4>2. tries' = tries BY <2>2, <3>3, <4>1 DEF Get, NextRound, GiveUp
      <4>3. seen' \in [Workers -> Maybe] BY <2>2 DEF Get
      <4> QED BY <2>2, <3>3, <4>1, <4>2, <4>3 DEF Get
    <3> QED BY <2>2, <3>1, <3>2, <3>3 DEF Get
  <2>3. ASSUME NEW w \in Workers, Reclaim(w) PROVE Goal
    <3>1. tries[w] \in 1..2 BY <2>3 DEF Reclaim
    <3>2. redis' \in Maybe /\ ttl' \in 0..Ttl BY <2>3, LockAssumption DEF Reclaim, CasDel
    <3>3. CASE NextRound(w) BY <2>3, <3>1, <3>2, <3>3 DEF Reclaim, NextRound
    <3>4. CASE GiveUp(w) BY <2>3, <3>2, <3>4 DEF Reclaim, GiveUp
    <3> QED BY <2>3, <3>3, <3>4 DEF Reclaim
  <2>4. ASSUME NEW w \in Workers, SendRenew(w) PROVE Goal
    <3>1. mine[w] \in Values BY <2>4 DEF SendRenew
    <3>2. [mine[w] EXCEPT !.age = 0] \in Values BY <3>1, AgeCapType DEF Values
    <3> QED BY <2>4, <3>1, <3>2 DEF SendRenew, Renewals
  <2>8. ASSUME NEW w \in Workers, StopBeat(w) \/ ReleaseGet(w) PROVE Goal
    BY <2>8 DEF StopBeat, ReleaseGet
  <2>9. ASSUME NEW w \in Workers, ReleaseDel(w) PROVE Goal
    BY <2>9, LockAssumption DEF ReleaseDel, CasDel
  <2>10. ASSUME NEW w \in Workers, ReleaseFails(w) PROVE Goal
    BY <2>10 DEF ReleaseFails
  <2>11. ASSUME NEW w \in Workers, Crash(w) PROVE Goal
    BY <2>11 DEF Crash, GiveUp
  <2>12. ASSUME NEW w \in Workers, NEW t \in FreshTokens, SetGranted(w, t) PROVE Goal
    <3>1. LockValue(w, t) \in Values BY FreshFacts, LockValueType
    <3> QED BY <2>12, <3>1, LockAssumption DEF SetGranted
  <2>13. ASSUME NEW w \in Workers, NEW t \in FreshTokens, SetAnswerLost(w, t) PROVE Goal
    <3>1. LockValue(w, t) \in Values BY FreshFacts, LockValueType
    <3> QED BY <2>13, <3>1, LockAssumption DEF SetAnswerLost, GiveUp
  <2>5. ASSUME NEW m \in wire, RenewAnswered(m) \/ RenewAnswerLost(m) \/ RenewLost(m)
        PROVE  Goal
    <3>1. m.old \in Values /\ m.new \in Values BY DEF Renewals
    <3>2. CASE RenewLost(m) BY <3>2 DEF RenewLost
    <3>3. CASE ~RenewLost(m)
      <4>1. redis' \in Maybe /\ ttl' \in 0..Ttl
        <5>1. CasRenew(m) BY <2>5, <3>3 DEF RenewAnswered, RenewAnswerLost
        <5>2. CASE redis = m.old BY <3>1, <5>1, <5>2, LockAssumption DEF CasRenew
        <5>3. CASE redis # m.old BY <5>1, <5>3 DEF CasRenew
        <5> QED BY <5>2, <5>3
      <4>2. mine' \in [Workers -> Maybe]
        BY <2>5, <3>1, <3>3 DEF RenewAnswered, RenewAnswerLost
      <4>3. beats' \in [Workers -> BOOLEAN]
        BY <2>5, <3>3 DEF RenewAnswered, RenewAnswerLost
      <4> QED BY <2>5, <3>3, <4>1, <4>2, <4>3 DEF RenewAnswered, RenewAnswerLost
    <3> QED BY <3>2, <3>3
  <2>6. ASSUME Tick PROVE Goal
    <3>1. redis' \in Maybe BY <2>6, OlderMaybe DEF Tick
    <3>2. ttl' \in 0..Ttl BY <2>6, LockAssumption DEF Tick
    <3>3. mine' \in [Workers -> Maybe] /\ seen' \in [Workers -> Maybe]
      BY <2>6, OlderMaybe DEF Tick
    <3>4. wire' \subseteq Renewals BY <2>6, OlderFacts DEF Tick, Renewals
    <3> QED BY <2>6, <3>1, <3>2, <3>3, <3>4 DEF Tick
  <2>7. CASE UNCHANGED vars BY <2>7 DEF vars
  <2> QED BY <2>1, <2>2, <2>3, <2>4, <2>5, <2>6, <2>7, <2>8, <2>9, <2>10, <2>11, <2>12, <2>13
          DEF Next
<1> QED BY <1>1, <1>2, PTL DEF Spec

---------------------------------------------------------------------------
(* The steps that leave the key, the handles and the wire alone.           *)
LEMMA QuietStep ==
  ASSUME LockInv, UNCHANGED <<redis, ttl, mine, wire>>,
         NEW w \in Workers, pc[w] \in {"idle", "set", "get"},
         pc' \in {[pc EXCEPT ![w] = x] : x \in {"idle", "set", "get"}},
         \A u \in Workers \ {w} : seen'[u] = seen[u]
  PROVE  HandleInv' /\ SeenInv' /\ WireInv' /\ TtlInv' /\ TimelyHolderOwns'
BY DEF LockInv, TypeOK, HandleInv, SeenInv, WireInv, TtlInv, TimelyHolderOwns, Timely, Holds,
       IsStale

(* No step of any worker, heartbeat thread or clock breaks the invariant.   *)
LEMMA LockInvariant == Spec => []LockInv
<1>1. Init => LockInv
  BY LockAssumption
     DEF Init, LockInv, TypeOK, Maybe, HandleInv, SeenInv, WireInv, TtlInv,
         TimelyHolderOwns, Timely, Holds
<1>2. LockInv /\ TypeOK' /\ [Next]_vars => LockInv'
  <2> SUFFICES ASSUME LockInv, TypeOK', [Next]_vars
               PROVE  HandleInv' /\ SeenInv' /\ WireInv' /\ TtlInv' /\ TimelyHolderOwns'
    BY DEF LockInv
  <2> DEFINE Goal == HandleInv' /\ SeenInv' /\ WireInv' /\ TtlInv' /\ TimelyHolderOwns'
  <2> USE DEF LockInv
  <2>1. ASSUME NEW w \in Workers, Acquire(w) \/ SetRefused(w) PROVE Goal
    BY <2>1, QuietStep DEF Acquire, SetRefused, TypeOK
  <2>2. ASSUME NEW w \in Workers, Get(w) PROVE Goal
    BY <2>2 DEF Get, NextRound, GiveUp, TypeOK, HandleInv, SeenInv, WireInv, TtlInv,
                TimelyHolderOwns, Timely, Holds, IsStale
  <2>3. ASSUME NEW w \in Workers, Reclaim(w) PROVE Goal
    <3>1. redis = seen[w] => \A u \in Workers : ~Timely(u)
      <4> SUFFICES ASSUME redis = seen[w], NEW u \in Workers, Timely(u) PROVE FALSE
        OBVIOUS
      <4>1. redis # NoValue /\ redis.age > Stale BY <2>3 DEF Reclaim, SeenInv, IsStale
      <4>2. redis.token = mine[u].token BY DEF TimelyHolderOwns
      <4>3. redis.age <= mine[u].age BY <4>1, <4>2 DEF HandleInv, Timely, Holds
      <4>4. mine[u] \in Values /\ redis \in Values BY <4>1 DEF TypeOK, Maybe, Timely, Holds
      <4> QED BY <4>1, <4>3, <4>4, AgeCapType DEF Timely, Values
    <3>2. \A u \in Workers : Timely(u)' => Timely(u) /\ u # w
      BY <2>3 DEF Reclaim, NextRound, GiveUp, Timely, Holds, TypeOK, HandleInv
    <3>3. TimelyHolderOwns' BY <2>3, <3>1, <3>2 DEF Reclaim, CasDel, TimelyHolderOwns
    <3> QED BY <2>3, <3>3
            DEF Reclaim, CasDel, NextRound, GiveUp, TypeOK, HandleInv, SeenInv, WireInv, TtlInv
  <2>4. ASSUME NEW w \in Workers, SendRenew(w) PROVE Goal
    <3>1. mine[w] \in Values BY <2>4 DEF SendRenew, TypeOK, Maybe
    <3>2. /\ [mine[w] EXCEPT !.age = 0].token = mine[w].token
          /\ [mine[w] EXCEPT !.age = 0].worker = mine[w].worker
          /\ [mine[w] EXCEPT !.age = 0].age = 0
      BY <3>1 DEF Values
    <3>3. \A u \in Workers : mine[u] # NoValue => mine[u].age >= 0
      BY AgeCapType DEF TypeOK, Maybe, Values
    <3>4. WireInv'
      <4> DEFINE n == [old |-> mine[w], new |-> [mine[w] EXCEPT !.age = 0]]
      <4>1. /\ n.old = mine[w] /\ n.new.token = mine[w].token
            /\ n.new.worker = mine[w].worker /\ n.new.age = 0
        BY <3>2
      <4> HIDE DEF n
      <4>2. wire' = wire \cup {n} /\ mine' = mine /\ \A m \in wire : m.old.token # n.old.token
        BY <2>4, <4>1 DEF SendRenew, n
      <4>3. mine[w] # NoValue BY <2>4 DEF SendRenew
      <4>4. \A u \in Workers : (mine[u] # NoValue /\ mine[u].token = n.old.token)
                              => n.new.worker = u /\ n.new.age <= mine[u].age
        BY <3>3, <4>1, <4>3 DEF HandleInv
      <4> QED BY <4>1, <4>2, <4>4 DEF WireInv
    <3> QED BY <2>4, <3>4
            DEF SendRenew, HandleInv, SeenInv, TtlInv, TimelyHolderOwns, Timely, Holds, IsStale
  <2>5. ASSUME NEW w \in Workers, StopBeat(w) PROVE Goal
    BY <2>5 DEF StopBeat, TypeOK, HandleInv, SeenInv, WireInv, TtlInv, TimelyHolderOwns,
                Timely, Holds, IsStale
  <2>6. ASSUME NEW w \in Workers, ReleaseGet(w) PROVE Goal
    BY <2>6 DEF ReleaseGet, TypeOK, HandleInv, SeenInv, WireInv, TtlInv, TimelyHolderOwns,
                Timely, Holds, IsStale
  <2>7. ASSUME NEW w \in Workers, ReleaseDel(w) PROVE Goal
    <3>1. redis = seen[w] => \A u \in Workers : ~(Timely(u) /\ u # w)
      BY <2>7 DEF ReleaseDel, SeenInv, HandleInv, TimelyHolderOwns, Timely, Holds
    <3>2. \A u \in Workers : Timely(u)' => Timely(u) /\ u # w
      BY <2>7 DEF ReleaseDel, Timely, Holds, TypeOK
    <3>3. \A u \in Workers : Timely(u) => mine'[u] = mine[u] \/ u = w
      BY <2>7 DEF ReleaseDel, TypeOK
    <3>4. TimelyHolderOwns'
      <4> SUFFICES ASSUME NEW u \in Workers, Timely(u)'
                   PROVE  redis' # NoValue /\ redis'.token = mine'[u].token
        BY DEF TimelyHolderOwns
      <4>1. Timely(u) /\ u # w /\ mine'[u] = mine[u] BY <3>2, <3>3
      <4>2. redis # seen[w] BY <3>1, <4>1
      <4>3. redis' = redis BY <2>7, <4>2 DEF ReleaseDel, CasDel
      <4> QED BY <4>1, <4>3 DEF TimelyHolderOwns
    <3> QED BY <2>7, <3>4
            DEF ReleaseDel, CasDel, TypeOK, HandleInv, SeenInv, WireInv, TtlInv, IsStale
  <2>8. ASSUME NEW w \in Workers, ReleaseFails(w) \/ Crash(w) PROVE Goal
    BY <2>8 DEF ReleaseFails, Crash, GiveUp, TypeOK, HandleInv, SeenInv, WireInv, TtlInv,
                TimelyHolderOwns, Timely, Holds, IsStale
  <2>9. ASSUME NEW w \in Workers, NEW t \in FreshTokens, SetGranted(w, t) PROVE Goal
    <3> DEFINE v == LockValue(w, t)
    <3>1. /\ v \in Values /\ v # NoValue
          /\ v.token = t /\ v.worker = w /\ v.age = 0
      BY FreshFacts, LockValueType
    <3>2. /\ \A u \in Workers : mine[u] # NoValue => mine[u].token # t
          /\ \A m \in wire : m.old.token # t
      BY FreshFacts, NoValueAssumption DEF TypeOK, Renewals
    <3> HIDE DEF v
    <3>3. /\ redis = NoValue /\ redis' = v /\ ttl' = Ttl /\ UNCHANGED <<seen, wire>>
          /\ mine' = [mine EXCEPT ![w] = v]
          /\ pc' = [pc EXCEPT ![w] = "held"]
      BY <2>9 DEF SetGranted, v
    <3>4. mine'[w] = v /\ \A u \in Workers : u # w => mine'[u] = mine[u]
      BY <3>3 DEF TypeOK
    <3>5. HandleInv' BY <3>1, <3>2, <3>3, <3>4 DEF HandleInv, TypeOK, Values
    <3>6. SeenInv' BY <3>3 DEF SeenInv, IsStale, TypeOK
    <3>7. WireInv' BY <3>1, <3>2, <3>3, <3>4 DEF WireInv
    <3>8. TtlInv' BY <3>1, <3>3, LockAssumption DEF TtlInv
    <3>9. \A u \in Workers : Timely(u)' => u = w
      BY <3>3, <3>4 DEF Timely, Holds, TypeOK, TimelyHolderOwns
    <3>10. TimelyHolderOwns' BY <3>1, <3>3, <3>4, <3>9 DEF TimelyHolderOwns
    <3> QED BY <3>5, <3>6, <3>7, <3>8, <3>10
  <2>10. ASSUME NEW w \in Workers, NEW t \in FreshTokens, SetAnswerLost(w, t) PROVE Goal
    BY <2>10, FreshFacts, LockValueType, LockAssumption
       DEF SetAnswerLost, GiveUp, TypeOK, HandleInv, SeenInv, WireInv, TtlInv, TimelyHolderOwns,
           Timely, Holds, IsStale
  <2>11. ASSUME NEW m \in wire, RenewAnswered(m) PROVE Goal
    <3>1. m.old \in Values /\ m.new \in Values BY DEF TypeOK, Renewals
    <3>2. CASE redis = m.old
      <4>1. /\ redis' = m.new /\ ttl' = Ttl /\ wire' = wire \ {m}
            /\ \A u \in Workers : mine'[u] = IF IsHandleOf(u, m) THEN m.new ELSE mine[u]
            /\ UNCHANGED <<pc, seen>>
        BY <2>11, <3>2 DEF RenewAnswered, CasRenew
      <4>2. /\ redis # NoValue /\ m.new # NoValue
            /\ m.new.token = redis.token
            /\ m.new.age \in Nat
        BY <3>1, <3>2, NoValueAssumption, AgeCapType DEF WireInv, Values
      <4>3. \A u \in Workers : (mine'[u] # NoValue) <=> (mine[u] # NoValue)
        BY <4>1, <4>2 DEF IsHandleOf
      <4>4. \A u \in Workers : mine[u] # NoValue => mine'[u].token = mine[u].token
        BY <3>2, <4>1, <4>2 DEF IsHandleOf
      <4>5. \A u \in Workers : IsHandleOf(u, m) => m.new.worker = u
        BY DEF WireInv, IsHandleOf
      <4>6. HandleInv'
        <5>1. \A u \in Workers : mine'[u] # NoValue => mine'[u].worker = u
          BY <4>1, <4>3, <4>5 DEF HandleInv
        <5>2. \A u \in Workers : (mine'[u] # NoValue /\ redis'.token = mine'[u].token)
                                => mine'[u] = m.new
          BY <3>2, <4>1, <4>2, <4>3, <4>4 DEF IsHandleOf
        <5>3. \A u \in Workers : (mine'[u] # NoValue /\ redis'.token = mine'[u].token)
                                => redis'.worker = u /\ redis'.age <= mine'[u].age
          BY <4>1, <4>2, <5>1, <5>2
        <5>4. \A u, x \in Workers : (mine'[u] # NoValue /\ mine'[x] # NoValue
                                   /\ mine'[u].token = mine'[x].token) => u = x
          BY <4>3, <4>4 DEF HandleInv
        <5>5. \A u \in Workers : (mine'[u] # NoValue) <=> pc'[u] \in {"held", "relget", "reldel"}
          BY <4>1, <4>3 DEF HandleInv
        <5> QED BY <5>1, <5>3, <5>4, <5>5 DEF HandleInv
      <4>7. SeenInv' BY <4>1 DEF SeenInv, IsStale
      <4>8. WireInv'
        <5>1. \A n \in wire' : n \in wire /\ n.old.token # m.old.token
          BY <4>1 DEF WireInv
        <5>2. \A n \in wire', u \in Workers :
                 (mine'[u] # NoValue /\ mine'[u].token = n.old.token) => mine'[u] = mine[u]
          BY <3>2, <4>1, <4>3, <4>4, <5>1 DEF IsHandleOf
        <5>3. \A n \in wire', u \in Workers :
                 (mine'[u] # NoValue /\ mine'[u].token = n.old.token)
                   => n.new.worker = u /\ n.new.age <= mine'[u].age
          BY <4>3, <5>1, <5>2 DEF WireInv
        <5> QED BY <5>1, <5>3 DEF WireInv
      <4>9. TtlInv' BY <4>1, <4>2, LockAssumption DEF TtlInv
      <4>10. TimelyHolderOwns'
        <5> SUFFICES ASSUME NEW u \in Workers, Timely(u)'
                     PROVE  redis' # NoValue /\ redis'.token = mine'[u].token
          BY DEF TimelyHolderOwns
        <5>1. CASE IsHandleOf(u, m) BY <4>1, <4>2, <5>1
        <5>2. CASE ~IsHandleOf(u, m)
          <6>1. Timely(u) BY <4>1, <5>2 DEF Timely, Holds
          <6> QED BY <4>1, <4>2, <5>2, <6>1 DEF TimelyHolderOwns
        <5> QED BY <5>1, <5>2
      <4> QED BY <4>6, <4>7, <4>8, <4>9, <4>10
    <3>3. CASE redis # m.old
      <4>1. /\ UNCHANGED <<redis, ttl, mine, pc, seen>>
            /\ wire' = wire \ {m}
        BY <2>11, <3>3 DEF RenewAnswered, CasRenew
      <4> QED BY <4>1 DEF HandleInv, SeenInv, WireInv, TtlInv, TimelyHolderOwns, Timely, Holds,
                          IsStale
    <3> QED BY <3>2, <3>3
  <2>12. ASSUME NEW m \in wire, RenewAnswerLost(m) PROVE Goal
    <3>1. m.old \in Values /\ m.new \in Values BY DEF TypeOK, Renewals
    <3>2. /\ UNCHANGED <<mine, pc, seen>>
          /\ wire' = wire \ {m}
      BY <2>12 DEF RenewAnswerLost
    <3>3. CASE redis = m.old
      <4>1. redis' = m.new /\ ttl' = Ttl BY <2>12, <3>3 DEF RenewAnswerLost, CasRenew
      <4>2. /\ redis # NoValue /\ m.new # NoValue
            /\ m.new.token = redis.token
            /\ m.new.age \in Nat
        BY <3>1, <3>3, NoValueAssumption, AgeCapType DEF WireInv, Values
      <4>3. \A u \in Workers : (mine[u] # NoValue /\ mine[u].token = redis.token)
                             => m.new.worker = u /\ m.new.age <= mine[u].age
        BY <3>3 DEF WireInv
      <4>4. HandleInv' BY <3>2, <4>1, <4>2, <4>3 DEF HandleInv
      <4>5. TimelyHolderOwns' BY <3>2, <4>1, <4>2 DEF TimelyHolderOwns, Timely, Holds
      <4>6. TtlInv' BY <4>1, <4>2, LockAssumption DEF TtlInv
      <4> QED BY <3>2, <4>4, <4>5, <4>6 DEF SeenInv, WireInv, IsStale
    <3>4. CASE redis # m.old
      <4>1. UNCHANGED <<redis, ttl>> BY <2>12, <3>4 DEF RenewAnswerLost, CasRenew
      <4> QED BY <3>2, <4>1 DEF HandleInv, SeenInv, WireInv, TtlInv, TimelyHolderOwns, Timely,
                                Holds, IsStale
    <3> QED BY <3>3, <3>4
  <2>13. ASSUME NEW m \in wire, RenewLost(m) PROVE Goal
    BY <2>13 DEF RenewLost, TypeOK, HandleInv, SeenInv, WireInv, TtlInv,
                TimelyHolderOwns, Timely, Holds, IsStale
  <2>14. ASSUME Tick PROVE Goal
    <3>1. /\ \A u \in Workers : mine'[u] = Older(mine[u]) /\ seen'[u] = Older(seen[u])
          /\ pc' = pc
          /\ redis' = IF ttl <= 1 THEN NoValue ELSE Older(redis)
          /\ ttl' = IF ttl = 0 THEN 0 ELSE ttl - 1
          /\ wire' = {[old |-> Older(m.old), new |-> Older(m.new)] : m \in wire}
      BY <2>14 DEF Tick
    <3>2. \A u \in Workers : /\ mine[u] \in Maybe /\ ((mine'[u] = NoValue) <=> (mine[u] = NoValue))
                            /\ seen[u] \in Maybe /\ ((seen'[u] = NoValue) <=> (seen[u] = NoValue))
      BY <3>1, OlderNot DEF TypeOK
    <3>3. \A u \in Workers : mine[u] # NoValue =>
             /\ mine[u] \in Values
             /\ mine'[u].token = mine[u].token
             /\ mine'[u].worker = mine[u].worker
             /\ mine[u].age <= mine'[u].age
             /\ mine'[u].age = IF mine[u].age < AgeCap THEN mine[u].age + 1 ELSE mine[u].age
      BY <3>1, <3>2, OlderFacts DEF Maybe
    <3>4. redis' # NoValue =>
             /\ redis \in Values /\ redis # NoValue /\ ttl > 1
             /\ redis'.token = redis.token
             /\ redis'.worker = redis.worker
             /\ redis'.age = IF redis.age < AgeCap THEN redis.age + 1 ELSE redis.age
      BY <3>1, OlderFacts, OlderNone DEF TypeOK, Maybe
    <3>5. HandleInv'
      BY <3>1, <3>2, <3>3, <3>4, AgeCapType DEF HandleInv, Values
    <3>6. SeenInv'
      <4>1. \A u \in Workers : seen[u] # NoValue =>
               /\ seen[u] \in Values
               /\ seen'[u].worker = seen[u].worker
               /\ seen[u].age <= seen'[u].age
               /\ seen'[u] \in Values
        BY <3>1, <3>2, OlderFacts DEF Maybe
      <4> QED BY <3>1, <3>2, <4>1, AgeCapType DEF SeenInv, IsStale, Values
    <3>7. WireInv'
      <4>1. \A m \in wire : /\ m.old \in Values /\ m.new \in Values
                           /\ Older(m.old).token = m.old.token
                           /\ Older(m.new).token = m.new.token
                           /\ Older(m.old).worker = m.old.worker
                           /\ Older(m.new).worker = m.new.worker
                           /\ Older(m.new).age = IF m.new.age < AgeCap THEN m.new.age + 1
                                                 ELSE m.new.age
        BY OlderFacts DEF TypeOK, Renewals
      <4>2. \A n \in wire' : \E m \in wire : n.old = Older(m.old) /\ n.new = Older(m.new)
                                           /\ n = [old |-> Older(m.old), new |-> Older(m.new)]
        BY <3>1
      <4>3. \A n \in wire' : n.old.token = n.new.token /\ n.old.worker = n.new.worker
        BY <4>1, <4>2 DEF WireInv
      <4>4. \A n, k \in wire' : n.old.token = k.old.token => n = k
        BY <4>1, <4>2 DEF WireInv
      <4>5. \A n \in wire', u \in Workers :
               (mine'[u] # NoValue /\ mine'[u].token = n.old.token)
                 => n.new.worker = u /\ n.new.age <= mine'[u].age
        <5> SUFFICES ASSUME NEW n \in wire', NEW u \in Workers,
                            mine'[u] # NoValue, mine'[u].token = n.old.token
                     PROVE  n.new.worker = u /\ n.new.age <= mine'[u].age
          OBVIOUS
        <5>1. PICK m \in wire : n.old = Older(m.old) /\ n.new = Older(m.new) BY <4>2
        <5>2. mine[u] # NoValue /\ mine[u].token = m.old.token BY <3>2, <3>3, <4>1, <5>1
        <5>3. m.new.worker = u /\ m.new.age <= mine[u].age BY <5>2 DEF WireInv
        <5> QED BY <3>3, <4>1, <5>1, <5>2, <5>3, AgeCapType DEF Values
      <4> QED BY <4>3, <4>4, <4>5 DEF WireInv
    <3>8. TtlInv' BY <3>1, <3>4, AgeCapType, LockAssumption DEF TtlInv, TypeOK, Values
    <3>9. TimelyHolderOwns'
      <4> SUFFICES ASSUME NEW u \in Workers, Timely(u)'
                   PROVE  redis' # NoValue /\ redis'.token = mine'[u].token
        BY DEF TimelyHolderOwns
      <4>1. mine[u] # NoValue /\ mine'[u].age <= Stale /\ mine'[u].age < Ttl
        BY <3>2 DEF Timely, Holds
      <4>2. Timely(u)
        BY <3>1, <3>3, <4>1, AgeCapType, LockAssumption DEF Timely, Holds, Values
      <4>3. redis # NoValue /\ redis.token = mine[u].token /\ redis \in Values
        BY <4>2 DEF TimelyHolderOwns, TypeOK, Maybe
      <4>4. redis.age <= mine[u].age BY <4>1, <4>3 DEF HandleInv
      <4>5. mine[u].age + 1 < Ttl
        BY <3>3, <4>1, AgeCapType, LockAssumption DEF Values
      <4>6. ttl > 1
        BY <3>3, <4>1, <4>3, <4>4, <4>5, AgeCapType, LockAssumption DEF TtlInv, TypeOK, Values
      <4>7. redis' = Older(redis) BY <3>1, <4>6 DEF TypeOK
      <4> QED BY <3>3, <4>1, <4>3, <4>7, OlderFacts
    <3> QED BY <3>5, <3>6, <3>7, <3>8, <3>9
  <2>15. CASE UNCHANGED vars
    BY <2>15 DEF vars, HandleInv, SeenInv, WireInv, TtlInv, TimelyHolderOwns, Timely, Holds,
                 IsStale
  <2> QED BY <2>1, <2>2, <2>3, <2>4, <2>5, <2>6, <2>7, <2>8, <2>9, <2>10, <2>11, <2>12, <2>13,
             <2>14, <2>15 DEF Next
<1> QED BY <1>1, <1>2, TypeCorrect, PTL DEF Spec

(* A worker whose own heartbeat is fresh owns the key, in every reachable  *)
(* state: reclaim, release and expiry take nobody's live lease, and no     *)
(* renewal brings back a lost one.                                         *)
THEOREM TimelyHolder == Spec => []TimelyHolderOwns
<1>1. LockInv => TimelyHolderOwns
  BY DEF LockInv
<1> QED BY <1>1, LockInvariant, PTL

---------------------------------------------------------------------------
(* The release, and the refinement of LeaseLock.                           *)

(* A worker with a handle has no other lease of its own under the key.     *)
OwnInv ==
  \A w \in Workers :
    (redis # NoValue /\ redis.worker = w /\ mine[w] # NoValue) => redis.token = mine[w].token

(* What a renewal writes is not older than what it replaces.               *)
YoungInv == \A m \in wire : m.new.age <= m.old.age

---------------------------------------------------------------------------
(* A renewal that is applied keeps the lease's worker and token, and finds *)
(* the key set.                                                            *)
LEMMA CasKeepsGrant ==
  ASSUME LockInv, NEW m \in wire, CasRenew(m)
  PROVE  \/ UNCHANGED redis
         \/ /\ redis = m.old /\ redis' = m.new
            /\ redis # NoValue /\ redis' # NoValue
            /\ redis'.token = redis.token /\ redis'.worker = redis.worker
            /\ redis \in Values /\ redis' \in Values
<1>1. m.old \in Values /\ m.new \in Values
  BY DEF LockInv, TypeOK, Renewals
<1>2. m.new.token = m.old.token /\ m.new.worker = m.old.worker
  BY DEF LockInv, WireInv
<1>. QED BY <1>1, <1>2, NoValueAssumption DEF CasRenew

(* A tick keeps every lease and handle that it does not expire.            *)
LEMMA TickKeepsGrants ==
  ASSUME LockInv, Tick
  PROVE  /\ redis' # NoValue => /\ redis # NoValue /\ redis \in Values
                                /\ redis'.token = redis.token
                                /\ redis'.worker = redis.worker
         /\ \A w \in Workers : mine'[w] # NoValue => /\ mine[w] # NoValue
                                                     /\ mine'[w].token = mine[w].token
<1>1. redis' # NoValue => redis' = Older(redis)
  BY DEF Tick
<1>2. redis' # NoValue => redis # NoValue /\ redis \in Values
  BY <1>1, OlderNone DEF LockInv, TypeOK, Maybe
<1>3. \A w \in Workers : mine'[w] = Older(mine[w]) /\ mine[w] \in Maybe
  BY DEF Tick, LockInv, TypeOK
<1>4. \A w \in Workers : mine'[w] # NoValue => mine[w] # NoValue /\ mine[w] \in Values
  BY <1>3, OlderNone DEF Maybe
<1>. QED BY <1>1, <1>2, <1>3, <1>4, OlderFacts

---------------------------------------------------------------------------
(* The key changes hands only while it is empty, and only by a SET of the  *)
(* worker it then names: no renewal revives a lease that was lost.         *)
THEOREM HandsOver == Spec => ChangesHandsWhenFree
<1> DEFINE Hands == redis' # NoValue /\ (redis = NoValue \/ redis.token # redis'.token)
                      => /\ redis = NoValue
                         /\ \E w \in Workers : pc[w] = "set" /\ redis'.worker = w
<1>1. LockInv /\ [Next]_vars => Hands
  <2> SUFFICES ASSUME LockInv, [Next]_vars PROVE Hands
    OBVIOUS
  <2>1. ASSUME NEW w \in Workers,
               \/ Acquire(w) \/ SetRefused(w) \/ Get(w) \/ SendRenew(w)
               \/ StopBeat(w) \/ ReleaseGet(w) \/ ReleaseFails(w) \/ Crash(w)
        PROVE  Hands
    BY <2>1 DEF Acquire, SetRefused, Get, SendRenew, StopBeat, ReleaseGet, ReleaseFails, Crash
  <2>2. ASSUME NEW w \in Workers, Reclaim(w) \/ ReleaseDel(w) PROVE Hands
    BY <2>2 DEF Reclaim, ReleaseDel, CasDel
  <2>3. ASSUME NEW w \in Workers, NEW t \in FreshTokens, SetGranted(w, t) \/ SetAnswerLost(w, t)
        PROVE  Hands
    <3>1. LockValue(w, t).worker = w
      BY FreshFacts, LockValueType
    <3>. QED BY <2>3, <3>1 DEF SetGranted, SetAnswerLost
  <2>4. ASSUME NEW m \in wire, RenewAnswered(m) \/ RenewAnswerLost(m) PROVE Hands
    <3>1. CasRenew(m)
      BY <2>4 DEF RenewAnswered, RenewAnswerLost
    <3>. QED BY <3>1, CasKeepsGrant
  <2>5. ASSUME NEW m \in wire, RenewLost(m) PROVE Hands
    BY <2>5 DEF RenewLost
  <2>6. ASSUME Tick PROVE Hands
    BY <2>6, TickKeepsGrants
  <2>7. CASE UNCHANGED vars
    BY <2>7 DEF vars
  <2>. QED BY <2>1, <2>2, <2>3, <2>4, <2>5, <2>6, <2>7 DEF Next
<1>. QED BY <1>1, LockInvariant, PTL DEF Spec, ChangesHandsWhenFree

---------------------------------------------------------------------------
(* OwnInv is what the fallback of release by worker name rests on.         *)
LEMMA OwnInvariant == Spec => []OwnInv
<1>1. Init => OwnInv
  BY DEF Init, OwnInv
<1>2. LockInv /\ OwnInv /\ [Next]_vars => OwnInv'
  <2> SUFFICES ASSUME LockInv, OwnInv, [Next]_vars PROVE OwnInv'
    OBVIOUS
  <2>1. ASSUME NEW w \in Workers,
               Acquire(w) \/ SetRefused(w) \/ Get(w) \/ SendRenew(w) \/ StopBeat(w)
        PROVE  OwnInv'
    BY <2>1 DEF Acquire, SetRefused, Get, SendRenew, StopBeat, OwnInv
  <2>2. ASSUME NEW w \in Workers,
               \/ Reclaim(w) \/ ReleaseDel(w) \/ ReleaseGet(w) \/ ReleaseFails(w) \/ Crash(w)
        PROVE  OwnInv'
    <3>1. redis' # NoValue => redis' = redis
      BY <2>2 DEF Reclaim, ReleaseDel, ReleaseGet, ReleaseFails, Crash, CasDel
    <3>2. \A u \in Workers : mine'[u] # NoValue => mine'[u] = mine[u]
      BY <2>2 DEF Reclaim, ReleaseDel, ReleaseGet, ReleaseFails, Crash, LockInv, TypeOK
    <3>. QED BY <3>1, <3>2 DEF OwnInv
  <2>3. ASSUME NEW w \in Workers, NEW t \in FreshTokens, SetGranted(w, t) PROVE OwnInv'
    <3>1. redis' = LockValue(w, t) /\ mine'[w] = LockValue(w, t)
      BY <2>3 DEF SetGranted, LockInv, TypeOK
    <3>2. LockValue(w, t).worker = w
      BY FreshFacts, LockValueType
    <3>. QED BY <3>1, <3>2 DEF OwnInv
  <2>4. ASSUME NEW w \in Workers, NEW t \in FreshTokens, SetAnswerLost(w, t) PROVE OwnInv'
    <3>1. redis' = LockValue(w, t) /\ LockValue(w, t).worker = w
      BY <2>4, FreshFacts, LockValueType DEF SetAnswerLost
    <3>2. mine'[w] = NoValue
      BY <2>4 DEF SetAnswerLost, LockInv, HandleInv
    <3>. QED BY <3>1, <3>2 DEF OwnInv
  <2>5. ASSUME NEW m \in wire, RenewAnswered(m) \/ RenewAnswerLost(m) PROVE OwnInv'
    <3>1. redis' # NoValue => /\ redis # NoValue
                              /\ redis'.token = redis.token
                              /\ redis'.worker = redis.worker
      BY <2>5, CasKeepsGrant DEF RenewAnswered, RenewAnswerLost
    <3>2. m.new.token = m.old.token
      BY DEF LockInv, WireInv
    <3>3. \A u \in Workers : mine'[u] # NoValue => /\ mine[u] # NoValue
                                                   /\ mine'[u].token = mine[u].token
      BY <2>5, <3>2 DEF RenewAnswered, RenewAnswerLost, IsHandleOf
    <3>. QED BY <3>1, <3>3 DEF OwnInv
  <2>6. ASSUME NEW m \in wire, RenewLost(m) PROVE OwnInv'
    BY <2>6 DEF RenewLost, OwnInv
  <2>7. ASSUME Tick PROVE OwnInv'
    BY <2>7, TickKeepsGrants DEF OwnInv
  <2>8. CASE UNCHANGED vars
    BY <2>8 DEF vars, OwnInv
  <2>. QED BY <2>1, <2>2, <2>3, <2>4, <2>5, <2>6, <2>7, <2>8 DEF Next
<1>. QED BY <1>1, <1>2, LockInvariant, PTL DEF Spec

(* A release that matches by worker name still deletes the lease of its    *)
(* own grant only.                                                         *)
THEOREM ReleaseIsOwn == Spec => []ReleaseDeletesOwnGrant
<1>1. LockInv /\ OwnInv => ReleaseDeletesOwnGrant
  BY DEF LockInv, HandleInv, SeenInv, OwnInv, ReleaseDeletesOwnGrant
<1>. QED BY <1>1, LockInvariant, OwnInvariant, PTL

---------------------------------------------------------------------------
(* The refinement: each step of TaskLock is a step of LeaseLock or leaves  *)
(* lease and users alone.                                                  *)

Using == {w \in Workers : pc[w] = "held"}

LEMMA YoungInvariant == Spec => []YoungInv
<1>1. Init => YoungInv
  BY DEF Init, YoungInv
<1>2. LockInv /\ YoungInv /\ [Next]_vars => YoungInv'
  <2> SUFFICES ASSUME LockInv, YoungInv, [Next]_vars PROVE YoungInv'
    OBVIOUS
  <2>1. ASSUME NEW w \in Workers, SendRenew(w) PROVE YoungInv'
    <3>1. mine[w] \in Values
      BY <2>1 DEF SendRenew, LockInv, TypeOK, Maybe
    <3>2. [mine[w] EXCEPT !.age = 0].age = 0 /\ mine[w].age >= 0
      BY <3>1, AgeCapType DEF Values
    <3>. DEFINE n == [old |-> mine[w], new |-> [mine[w] EXCEPT !.age = 0]]
    <3>3. n.new.age <= n.old.age
      BY <3>2
    <3>4. wire' = wire \cup {n}
      BY <2>1 DEF SendRenew
    <3>. HIDE DEF n
    <3>. QED BY <3>3, <3>4 DEF YoungInv
  <2>2. ASSUME wire' \subseteq wire PROVE YoungInv'
    BY <2>2 DEF YoungInv
  <2>3. ASSUME Tick PROVE YoungInv'
    <3>1. \A m \in wire : m.old \in Values /\ m.new \in Values
      BY DEF LockInv, TypeOK, Renewals
    <3>2. \A m \in wire : Older(m.new).age <= Older(m.old).age
      <4> SUFFICES ASSUME NEW m \in wire PROVE Older(m.new).age <= Older(m.old).age
        OBVIOUS
      <4>1. m.old.age \in 0..AgeCap /\ m.new.age \in 0..AgeCap /\ m.new.age <= m.old.age
        BY <3>1 DEF Values, YoungInv
      <4>2. /\ Older(m.old).age = IF m.old.age < AgeCap THEN m.old.age + 1 ELSE m.old.age
            /\ Older(m.new).age = IF m.new.age < AgeCap THEN m.new.age + 1 ELSE m.new.age
        BY <3>1, OlderFacts
      <4>. QED BY <4>1, <4>2, AgeCapType
    <3>. QED BY <2>3, <3>2 DEF Tick, YoungInv
  <2>4. ASSUME NEW w \in Workers,
               \/ Acquire(w) \/ SetRefused(w) \/ Get(w) \/ Reclaim(w) \/ StopBeat(w)
               \/ ReleaseGet(w) \/ ReleaseDel(w) \/ ReleaseFails(w) \/ Crash(w)
        PROVE  wire' = wire
    BY <2>4 DEF Acquire, SetRefused, Get, Reclaim, StopBeat, ReleaseGet, ReleaseDel,
                ReleaseFails, Crash
  <2>5. ASSUME NEW w \in Workers, NEW t \in FreshTokens, SetGranted(w, t) \/ SetAnswerLost(w, t)
        PROVE  wire' = wire
    BY <2>5 DEF SetGranted, SetAnswerLost
  <2>6. ASSUME NEW m \in wire, RenewAnswered(m) \/ RenewAnswerLost(m) \/ RenewLost(m)
        PROVE  wire' \subseteq wire
    BY <2>6 DEF RenewAnswered, RenewAnswerLost, RenewLost
  <2>7. ASSUME UNCHANGED vars PROVE wire' = wire
    BY <2>7 DEF vars
  <2>. QED BY <2>1, <2>2, <2>3, <2>4, <2>5, <2>6, <2>7 DEF Next
<1>. QED BY <1>1, <1>2, LockInvariant, PTL DEF Spec

(* A worker that is not using its lease, before or after, changes nobody's *)
(* use of one.                                                             *)
LEMMA NobodyMoves ==
  ASSUME TypeOK, NEW w \in Workers, pc[w] # "held", NEW x, x # "held",
         pc' = [pc EXCEPT ![w] = x]
  PROVE  Using' = Using
BY DEF TypeOK, Using

LEMMA MovesOn ==
  ASSUME LockInv, NEW w \in Workers,
         \/ Acquire(w) \/ SetRefused(w) \/ Get(w) \/ Reclaim(w) \/ ReleaseGet(w)
         \/ ReleaseDel(w) \/ ReleaseFails(w)
  PROVE  Using' = Using
<1>1. TypeOK
  BY DEF LockInv
<1>2. pc[w] # "held"
  BY DEF Acquire, SetRefused, Get, Reclaim, ReleaseGet, ReleaseDel, ReleaseFails
<1>3. \E x \in {"set", "idle", "get", "reclaim", "reldel"} : pc' = [pc EXCEPT ![w] = x]
  BY DEF Acquire, SetRefused, Get, Reclaim, ReleaseGet, ReleaseDel, ReleaseFails, NextRound, GiveUp
<1>. QED BY <1>1, <1>2, <1>3, NobodyMoves

(* A lease that is refreshed by a renewal keeps worker and token and gets  *)
(* no older.                                                               *)
LEMMA RenewRefreshes ==
  ASSUME LockInv, YoungInv, NEW m \in wire, CasRenew(m), redis' # redis
  PROVE  /\ redis # NoValue
         /\ \E a \in 0..AgeCap : a <= redis.age /\ redis' = [redis EXCEPT !.age = a]
<1>1. /\ redis = m.old /\ redis' = m.new /\ redis # NoValue
      /\ redis'.token = redis.token /\ redis'.worker = redis.worker
      /\ redis \in Values /\ redis' \in Values
  BY CasKeepsGrant
<1>2. redis'.age \in 0..AgeCap /\ redis'.age <= redis.age
  BY <1>1 DEF YoungInv, Values
<1>3. redis' = [redis EXCEPT !.age = redis'.age]
  BY <1>1 DEF Values
<1>. QED BY <1>1, <1>2, <1>3

(* The lock implements the abstract lease: it is granted only while nobody *)
(* owns it, and taken from a worker that uses it only when its heartbeat   *)
(* is stale or its time to live has run out.                               *)
THEOREM Implements == Spec => LeaseSpec
<1>1. Init => Lease!Init
  BY DEF Init, Lease!Init
<1>2. LockInv /\ YoungInv /\ [Next]_vars => [Lease!Next]_(Lease!lvars)
  <2> SUFFICES ASSUME LockInv, YoungInv, [Next]_vars
               PROVE  [Lease!Next]_(Lease!lvars)
    OBVIOUS
  <2>0. Lease!lvars = <<redis, Using>>
    BY DEF Lease!lvars, Using
  <2>1. ASSUME UNCHANGED <<redis, Using>> PROVE [Lease!Next]_(Lease!lvars)
    BY <2>1 DEF Lease!lvars, Using
  <2>2. ASSUME NEW w \in Workers,
               Acquire(w) \/ SetRefused(w) \/ Get(w) \/ ReleaseGet(w) \/ ReleaseFails(w)
        PROVE  UNCHANGED <<redis, Using>>
    <3>1. redis' = redis
      BY <2>2 DEF Acquire, SetRefused, Get, ReleaseGet, ReleaseFails
    <3>. QED BY <2>2, <3>1, MovesOn
  <2>3. ASSUME NEW w \in Workers, SendRenew(w) PROVE UNCHANGED <<redis, Using>>
    BY <2>3 DEF SendRenew, Using
  <2>4. ASSUME NEW w \in Workers, StopBeat(w) \/ Crash(w) PROVE [Lease!Next]_(Lease!lvars)
    <3>1. redis' = redis
      BY <2>4 DEF StopBeat, Crash
    <3>2. Using' = Using \ {w}
      BY <2>4 DEF StopBeat, Crash, GiveUp, Using, LockInv, TypeOK
    <3>3. CASE w \in Using
      BY <3>1, <3>2, <3>3 DEF Lease!Next, Lease!Leave, Using
    <3>4. CASE w \notin Using
      BY <2>1, <3>1, <3>2, <3>4
    <3>. QED BY <3>3, <3>4
  <2>5. ASSUME NEW w \in Workers, Reclaim(w) PROVE [Lease!Next]_(Lease!lvars)
    <3>1. Using' = Using
      BY <2>5, MovesOn
    <3>2. CASE redis = seen[w]
      <4>1. redis # NoValue /\ redis.age > Stale /\ redis' = NoValue
        BY <2>5, <3>2 DEF Reclaim, CasDel, LockInv, SeenInv, IsStale
      <4>. QED BY <3>1, <4>1 DEF Lease!Next, Lease!Reclaim, Using
    <3>3. CASE redis # seen[w]
      BY <2>1, <2>5, <3>1, <3>3 DEF Reclaim, CasDel
    <3>. QED BY <3>2, <3>3
  <2>6. ASSUME NEW w \in Workers, ReleaseDel(w) PROVE [Lease!Next]_(Lease!lvars)
    <3>1. Using' = Using
      BY <2>6, MovesOn
    <3>2. CASE redis = seen[w]
      <4>1. redis # NoValue /\ redis.worker = w /\ redis' = NoValue
        BY <2>6, <3>2 DEF ReleaseDel, CasDel, LockInv, SeenInv
      <4>2. redis.worker \notin Using
        BY <2>6, <4>1 DEF ReleaseDel, Using
      <4>. QED BY <3>1, <4>1, <4>2 DEF Lease!Next, Lease!Release, Using
    <3>3. CASE redis # seen[w]
      BY <2>1, <2>6, <3>1, <3>3 DEF ReleaseDel, CasDel
    <3>. QED BY <3>2, <3>3
  <2>7. ASSUME NEW w \in Workers, NEW t \in FreshTokens, SetGranted(w, t) \/ SetAnswerLost(w, t)
        PROVE  [Lease!Next]_(Lease!lvars)
    <3>1. /\ LockValue(w, t) \in Values /\ LockValue(w, t).age = 0
          /\ LockValue(w, t).worker = w
      BY FreshFacts, LockValueType
    <3>2. redis = NoValue /\ redis' = LockValue(w, t)
      BY <2>7 DEF SetGranted, SetAnswerLost
    <3>3. Using' \in {Using, Using \cup {redis'.worker}}
      BY <2>7, <3>1, <3>2 DEF SetGranted, SetAnswerLost, GiveUp, Using, LockInv, TypeOK
    <3>4. redis' \in {l \in Lease!Leases : l.age = 0}
      BY <3>1, <3>2 DEF Lease!Leases, Values
    <3>. QED BY <3>2, <3>3, <3>4 DEF Lease!Next, Lease!Grant, Using
  <2>8. ASSUME NEW m \in wire, RenewAnswered(m) \/ RenewAnswerLost(m)
        PROVE  [Lease!Next]_(Lease!lvars)
    <3>1. CasRenew(m) /\ Using' = Using
      BY <2>8 DEF RenewAnswered, RenewAnswerLost, Using
    <3>2. CASE redis' = redis
      BY <2>1, <3>1, <3>2
    <3>3. CASE redis' # redis
      BY <3>1, <3>3, RenewRefreshes DEF Lease!Next, Lease!Refresh, Using
    <3>. QED BY <3>2, <3>3
  <2>9. ASSUME NEW m \in wire, RenewLost(m) PROVE UNCHANGED <<redis, Using>>
    BY <2>9 DEF RenewLost, Using
  <2>10. ASSUME Tick PROVE [Lease!Next]_(Lease!lvars)
    <3>1. Using' = Using /\ redis' = IF ttl <= 1 THEN NoValue ELSE Older(redis)
      BY <2>10 DEF Tick, Using
    <3>2. CASE redis = NoValue
      BY <2>1, <3>1, <3>2, OlderNone
    <3>3. CASE redis # NoValue /\ ttl <= 1
      <4>1. redis.age + 1 >= Ttl
        BY <3>3, LockAssumption, AgeCapType DEF LockInv, TtlInv, TypeOK, Maybe, Values
      <4>. QED BY <3>1, <3>3, <4>1 DEF Lease!Next, Lease!Expire, Using
    <3>4. CASE redis # NoValue /\ ~(ttl <= 1)
      <4>1. redis' = Lease!Older(redis)
        BY <3>1, <3>4 DEF Older, Lease!Older
      <4>. QED BY <3>1, <3>4, <4>1 DEF Lease!Next, Lease!Age, Using
    <3>. QED BY <3>2, <3>3, <3>4
  <2>11. ASSUME UNCHANGED vars PROVE UNCHANGED <<redis, Using>>
    BY <2>11 DEF vars, Using
  <2>. QED BY <2>1, <2>2, <2>3, <2>4, <2>5, <2>6, <2>7, <2>8, <2>9, <2>10, <2>11 DEF Next
<1>. QED BY <1>1, <1>2, LockInvariant, YoungInvariant, PTL DEF Spec, LeaseSpec, Lease!Spec
============================================================================

---------------------------- MODULE LeaseLock ----------------------------
(***************************************************************************)
(* What a lease lock of src/src/myink/worker/lock.py promises its callers, *)
(* without keys, heartbeat threads or Redis commands.                      *)
(*                                                                         *)
(* A lease is granted only while nobody owns it.  While its worker is      *)
(* using it, it is taken away only when the heartbeat it shows is older    *)
(* than Stale or its time to live ran out.                                 *)
(***************************************************************************)
EXTENDS Naturals

CONSTANTS Workers,   \* the processes that may hold the lease
          Tokens,    \* what tells one grant from another
          NoLease,   \* the value of the lease while nobody owns it
          Stale,     \* a heartbeat older than this proves nothing any more
          Ttl,       \* time to live the key is set with
          AgeCap     \* ages are not told apart beyond this bound

VARIABLES lease,     \* the lease, or NoLease
          using      \* the workers between a successful acquire and release

lvars == <<lease, using>>

Leases == [worker: Workers, token: Tokens, age: 0..AgeCap]

Older(l) == [l EXCEPT !.age = IF l.age < AgeCap THEN l.age + 1 ELSE l.age]

Init == lease = NoLease /\ using = {}

(* The key is set only where it did not exist; its worker learns of it, or *)
(* the answer is lost.                                                     *)
Grant == /\ lease = NoLease
         /\ lease' \in {l \in Leases : l.age = 0}
         /\ using' \in {using, using \cup {lease'.worker}}

(* The owner refreshes its heartbeat: same token, a younger lease.         *)
Refresh == /\ lease # NoLease
           /\ \E a \in 0..AgeCap : /\ a <= lease.age
                                   /\ lease' = [lease EXCEPT !.age = a]
           /\ UNCHANGED using

(* Time passes for the lease as it stands.                                 *)
Age == /\ lease # NoLease
       /\ lease' = Older(lease)
       /\ UNCHANGED using

(* A worker stops using its lease, or died.                                *)
Leave == /\ \E w \in using : using' = using \ {w}
         /\ UNCHANGED lease

(* A lease nobody uses any more is given up.                               *)
Release == /\ lease # NoLease
           /\ lease.worker \notin using
           /\ lease' = NoLease
           /\ UNCHANGED using

(* Anybody reclaims a lease that stopped beating.                          *)
Reclaim == /\ lease # NoLease
           /\ lease.age > Stale
           /\ lease' = NoLease
           /\ UNCHANGED using

(* The time to live of the key runs out as the clock ticks.                *)
Expire == /\ lease # NoLease
          /\ lease.age + 1 >= Ttl
          /\ lease' = NoLease
          /\ UNCHANGED using

Next == Grant \/ Refresh \/ Age \/ Leave \/ Release \/ Reclaim \/ Expire

Spec == Init /\ [][Next]_lvars
==========================================================================

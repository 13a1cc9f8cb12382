---------------------------- MODULE MCTaskBudget ----------------------------
(* Small instances of TaskBudget for TLC: one task of one or two calls.    *)
EXTENDS TaskBudget, TLC

CONSTANTS r1, r2, r3

(* Two requests, and money for one reservation beside one bill.            *)
Tight == [requests |-> 2, cost |-> 3, time |-> 0]
(* The same with a limit on the time.                                      *)
Mixed == [requests |-> 2, cost |-> 3, time |-> 2]
One   == [requests |-> 1, cost |-> 2, time |-> 1]
OwnFaults     == {"save", "publish", "beat"}
OverlapFaults == {"lock", "beat", "crash"}

RunSymmetry == Permutations(Runs)
=============================================================================

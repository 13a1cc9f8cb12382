---------------------------- MODULE MCTaskLock ----------------------------
(* A small instance of TaskLock for TLC.  Stale is 3 and Ttl 4 heartbeats, *)
(* in the proportion of the configuration (15 s and 60 s).  No symmetry:   *)
(* the same run checks liveness.                                           *)
EXTENDS TaskLock, TLC

CONSTANTS w1, w2, t1, t2

TwoWorkers == {w1, w2}
TwoTokens  == {t1, t2}
==========================================================================

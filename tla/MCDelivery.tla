----------------------------- MODULE MCDelivery -----------------------------
(* Two tasks of one book and two workers.  While the fault is still to     *)
(* come t2 is over: two tasks that wait for each other need no fault, and  *)
(* what a fault leaves is two deliveries of one message.                   *)
EXTENDS Delivery

CONSTANTS t1, t2, w1, w2

MCInit == Init /\ (faults < MaxFaults => row[t2] = "over")
MCSpec == MCInit /\ [][Next]_vars /\ Fairness
=============================================================================

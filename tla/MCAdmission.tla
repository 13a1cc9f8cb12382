---------------------------- MODULE MCAdmission ----------------------------
(* Two intents of one user on one book: the second waits for the first.    *)
EXTENDS Admission, TLC

CONSTANTS i1, i2, b1

OneBook  == i1 :> b1 @@ i2 :> b1
Sizes    == i1 :> 1 @@ i2 :> 2
============================================================================

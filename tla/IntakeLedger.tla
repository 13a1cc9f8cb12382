---------------------------- MODULE IntakeLedger ----------------------------
(***************************************************************************)
(* What task intake promises of a user's daily quota, whatever crashes or  *)
(* arrives late: an intent is refused, or it is charged once; a charged    *)
(* one is delivered to the workers or refunded, never both, and what it    *)
(* was given is never taken back.  Module Admission implements this.       *)
(***************************************************************************)
EXTENDS Naturals

CONSTANTS Intents, Size, QuotaMax

VARIABLES fate,   \* what became of each intent
          quota   \* what the user has used today

Fates == {"open", "refused", "charged", "delivered", "refunded"}

Init == /\ fate = [i \in Intents |-> "open"]
        /\ quota \in Nat

Becomes(i, from, to) == /\ fate[i] = from
                        /\ fate' = [fate EXCEPT ![i] = to]

Refuse(i)  == Becomes(i, "open", "refused") /\ UNCHANGED quota

Charge(i)  == /\ Becomes(i, "open", "charged")
              /\ quota' = quota + Size[i]
              /\ QuotaMax > 0 => quota' <= QuotaMax

Deliver(i) == Becomes(i, "charged", "delivered") /\ UNCHANGED quota

Refund(i)  == /\ Becomes(i, "charged", "refunded")
              /\ quota' = quota - Size[i]

Next == \E i \in Intents : Refuse(i) \/ Charge(i) \/ Deliver(i) \/ Refund(i)

Spec == Init /\ [][Next]_<<fate, quota>>
=============================================================================

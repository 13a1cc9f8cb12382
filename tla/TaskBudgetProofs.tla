-------------------------- MODULE TaskBudgetProofs --------------------------
(***************************************************************************)
(* Theorems about TaskBudget, for any number of runs and calls, any prices *)
(* and limits, whatever fails and whenever the user stops or resumes.      *)
(***************************************************************************)
EXTENDS TaskBudget, Integers, SumTheorems

AllSteps == Bound \cup {"new", "bind", "report", "ended"}

(* A run between bind_execution and its end is the owner of the fence.     *)
FenceInv ==
  /\ pc \in [Runs -> AllSteps]
  /\ \A r \in Runs : pc[r] \in Bound => fence = r

(* A step of one run that leaves the fence alone, and does not enter the   *)
(* fenced part of the run, keeps the invariant.                            *)
LEMMA Moves ==
  ASSUME FenceInv, NEW r \in Runs, NEW from, NEW to \in AllSteps,
         At(r, from, to), fence' = fence, to \in Bound => from \in Bound
  PROVE  FenceInv'
BY DEF FenceInv, At, AllSteps

LEMMA Rests ==
  ASSUME FenceInv, pc' = pc, fence' = fence
  PROVE  FenceInv'
BY DEF FenceInv

LEMMA RunKeepsFence ==
  ASSUME FenceInv, NEW r \in Runs, RunStep(r)
  PROVE  FenceInv'
<1> USE DEF AllSteps, Bound
<1>1. CASE Bind(r)
  <2>1. CASE ~FenceFree
    BY <1>1, <2>1, Moves DEF Bind, Raise
  <2>2. CASE FenceFree
    <3>1. \A q \in Runs : pc[q] \notin Bound
      BY <2>2, BudgetAssumption DEF FenceInv, FenceFree
    <3>2. fence' = r /\ At(r, "bind", "claim")
      BY <1>1, <2>2 DEF Bind
    <3>. QED BY <3>1, <3>2 DEF FenceInv, At
  <2>. QED BY <2>1, <2>2
<1>2. CASE Unbind(r)
  <2>1. pc[r] = "unbind" /\ pc' = [pc EXCEPT ![r] = IF run[r].why \in {"ok", "retry"} THEN "ended" ELSE "report"]
    BY <1>2 DEF Unbind, At
  <2>2. fence = r
    BY <2>1 DEF FenceInv
  <2>3. \A q \in Runs : q # r => pc[q] \notin Bound
    BY <2>2 DEF FenceInv
  <2>. QED BY <2>1, <2>3 DEF FenceInv
<1>3. CASE Claim(r)
  BY <1>3, Moves DEF Claim, Raise
<1>4. CASE Guard(r)
  BY <1>4, Moves DEF Guard, Raise, RunOnly
<1>5. CASE Load(r)
  BY <1>5, Moves DEF Load, Raise, RunOnly, Onwards
<1>6. CASE Reserve(r)
  BY <1>6, Moves DEF Reserve, Raise, RunOnly
<1>7. CASE Respond(r) \/ Deadline(r)
  BY <1>7, Moves DEF Respond, Deadline, Raise, RunOnly
<1>8. CASE Settle(r)
  BY <1>8, Moves DEF Settle, Unanswered, Raise, RunOnly, Onwards
<1>10. CASE Save(r)
  BY <1>10, Moves DEF Save, Raise, RunOnly, Onwards
<1>11. CASE End(r)
  BY <1>11, Moves DEF End, Raise, RunOnly
<1>12. CASE ReadStatus(r) \/ WriteStatus(r)
  BY <1>12, Moves DEF ReadStatus, WriteStatus, RunOnly
<1>13. CASE Release(r)
  BY <1>13, Moves DEF Release
<1>14. CASE Report(r)
  BY <1>14, Moves DEF Report
<1>. QED BY <1>1, <1>2, <1>3, <1>4, <1>5, <1>6, <1>7, <1>8, <1>10, <1>11, <1>12, <1>13, <1>14 DEF RunStep

LEMMA StartKeepsFence ==
  ASSUME FenceInv, NEW r \in Runs, NEW m \in queue, Start(r, m)
  PROVE  FenceInv'
BY Moves DEF Start, AllSteps, Bound

LEMMA FaultKeepsFence ==
  ASSUME FenceInv, Fault
  PROVE  FenceInv'
<1>1. CASE \E r \in Runs : SaveFails(r)
  BY <1>1, Moves DEF SaveFails, Raise, Onwards, AllSteps, Bound
<1>2. CASE \E r \in Runs : Crash(r)
  BY <1>2 DEF Crash, FenceInv, AllSteps, Bound
<1>3. CASE \E o \in Operations : PublishNack(o) \/ PublishUncertain(o)
  BY <1>3, Rests DEF PublishNack, PublishUncertain, PublishOnly
<1>4. CASE LockLost
  BY <1>4, StartKeepsFence DEF LockLost
<1>5. CASE Tick
  BY <1>5, Rests DEF Tick
<1>. QED BY <1>1, <1>2, <1>3, <1>4, <1>5 DEF Fault

LEMMA NextKeepsFence ==
  ASSUME FenceInv, [Next]_vars
  PROVE  FenceInv'
<1>1. CASE \E r \in Runs : RunStep(r)
  BY <1>1, RunKeepsFence
<1>2. CASE \E r \in Runs : Renew(r)
  BY <1>2, Rests DEF Renew
<1>3. CASE Intake
  <2>1. CASE \E m \in queue : Skip(m)
    BY <2>1, Rests DEF Skip
  <2>2. CASE \E r \in Runs, m \in queue : Start(r, m)
    BY <2>2, StartKeepsFence
  <2>. QED BY <1>3, <2>1, <2>2 DEF Intake
<1>4. CASE ResumeStep
  BY <1>4, Rests DEF ResumeStep, Publish, Replay, PublishOnly
<1>5. CASE PauseRead \/ CancelRead \/ ControlWrite
  BY <1>5, Rests DEF PauseRead, CancelRead, ControlWrite, UserOnly
<1>6. CASE \E o \in Operations, add \in BOOLEAN : Extend(o, add)
  BY <1>6, Rests DEF Extend, ResumeOnly
<1>7. CASE \E o \in Operations : RetryResume(o)
  BY <1>7, Rests DEF RetryResume, ResumeOnly
<1>8. CASE Tick
  BY <1>8, Rests DEF Tick
<1>9. CASE Fault
  BY <1>9, FaultKeepsFence
<1>10. CASE UNCHANGED vars
  BY <1>10, Rests DEF vars
<1>. QED BY <1>1, <1>2, <1>3, <1>4, <1>5, <1>6, <1>7, <1>8, <1>9, <1>10 DEF Next

(* At most one run of a task has a paid request under way: the fence that  *)
(* bind_execution sets is enough, whatever happens to the lock in Redis,   *)
(* the lease of the budget and the heartbeats.                             *)
THEOREM OneSpenderHolds == Spec => []OneSpender
<1>1. Init => FenceInv
  BY DEF Init, FenceInv, AllSteps, Bound
<1>2. FenceInv /\ [Next]_vars => FenceInv'
  BY NextKeepsFence
<1>3. FenceInv => OneSpender
  BY DEF FenceInv, OneSpender, Bound
<1>. QED BY <1>1, <1>2, <1>3, PTL DEF Spec

---------------------------------------------------------------------------
(* The limits.  What counts is the row of the budget.                      *)

Rows == [limits: Amounts, reason: {"none", "cost_limit", "other"},
         runtime: Nat, requests: Nat, used: Int, reserved: Int,
         owner: Runs \cup {NoRun}, since: Nat, until: Nat]

Carries == [why: {"ok", "stopped", "cost_limit", "error", "retry"}, call: 1..Calls,
            op: 0..MaxResumes, permit: Nat, deadline: Nat]

Fits(b) ==
  /\ b.limits.requests > 0 => b.requests <= b.limits.requests
  /\ b.limits.cost > 0 => b.used + b.reserved <= b.limits.cost

RowInv  == budget \in Rows /\ Fits(budget)
RunInv  == run \in [Runs -> Carries] /\ queue \subseteq 0..MaxResumes
PaidInv == attempts \in Seq(Attempts)

MoneyInv == RowInv /\ RunInv /\ PaidInv /\ clock \in Nat

(* _accrue touches nothing that the limits compare.                        *)
LEMMA AccrueFits ==
  ASSUME MoneyInv
  PROVE  /\ Accrued \in Rows
         /\ Fits(Accrued)
         /\ Accrued.limits = budget.limits
         /\ Accrued.runtime \in Nat
         /\ Accrued.requests = budget.requests
         /\ Accrued.used = budget.used /\ Accrued.reserved = budget.reserved
         /\ Accrued.since = IF budget.since = 0 THEN 0 ELSE clock
         /\ Accrued.until = budget.until /\ Accrued.owner = budget.owner
<1>1. CASE budget.since = 0
  BY <1>1 DEF MoneyInv, RowInv, Accrued, Rows
<1>2. CASE budget.since # 0
  <2>. DEFINE d == Less(Capped(clock, budget.until), budget.since)
  <2>1. d \in Nat
    BY DEF MoneyInv, RowInv, Rows, Less, Capped
  <2>2. budget \in Rows /\ budget.runtime \in Nat /\ clock \in Nat
    BY DEF MoneyInv, RowInv, Rows
  <2>3. Accrued = [budget EXCEPT !.runtime = budget.runtime + d, !.since = clock]
    BY <1>2 DEF Accrued
  <2>. HIDE DEF d
  <2>4. budget.runtime + d \in Nat
    BY <2>1, <2>2
  <2>5. /\ Accrued \in Rows /\ Accrued.runtime \in Nat
        /\ Accrued.limits = budget.limits /\ Accrued.requests = budget.requests
        /\ Accrued.used = budget.used /\ Accrued.reserved = budget.reserved
        /\ Accrued.since = clock
        /\ Accrued.until = budget.until /\ Accrued.owner = budget.owner
    BY <2>2, <2>3, <2>4 DEF Rows
  <2>. QED BY <1>2, <2>5 DEF MoneyInv, RowInv, Fits
<1>. QED BY <1>1, <1>2

(* What raising, going on and settling leave of the three parts.           *)
LEMMA RaiseKeepsRun ==
  ASSUME MoneyInv, NEW r \in Runs, NEW from, NEW to,
         NEW w \in {"ok", "stopped", "cost_limit", "error", "retry"}, Raise(r, from, to, w), queue' = queue
  PROVE  RunInv'
BY DEF MoneyInv, RunInv, Carries, Raise

LEMMA OnwardsKeepsRun ==
  ASSUME MoneyInv, NEW r \in Runs, NEW from, Onwards(r, from), queue' = queue
  PROVE  RunInv'
<1>1. CASE run[r].call < Calls
  <2>1. run[r].call + 1 \in 1..Calls
    BY <1>1, BudgetAssumption DEF MoneyInv, RunInv, Carries
  <2>. QED BY <1>1, <2>1 DEF MoneyInv, RunInv, Carries, Onwards
<1>2. CASE ~(run[r].call < Calls)
  BY <1>2 DEF MoneyInv, RunInv, Onwards
<1>. QED BY <1>1, <1>2

LEMMA AnswersAreReasons ==
  ASSUME NEW r \in Runs
  PROVE  Fenced(r) \in {"ok", "stopped", "error"} /\ Refused(r) \in {"ok", "stopped", "error"}
BY DEF Fenced, Refused

LEMMA MarkKeepsSeq ==
  ASSUME PaidInv, NEW n, NEW st \in {"reserved", "unknown", "settled"}, NEW c \in Nat,
         NEW g \in BOOLEAN
  PROVE  /\ [attempts EXCEPT ![n].state = st] \in Seq(Attempts)
         /\ [attempts EXCEPT ![n].state = st, ![n].charge = c, ![n].good = g] \in Seq(Attempts)
<1>1. Len(attempts) \in Nat /\ attempts \in [1..Len(attempts) -> Attempts]
  BY DEF PaidInv
<1>2. [attempts EXCEPT ![n].state = st] \in [1..Len(attempts) -> Attempts]
  BY <1>1 DEF Attempts
<1>3. [attempts EXCEPT ![n].state = st, ![n].charge = c, ![n].good = g]
        \in [1..Len(attempts) -> Attempts]
  BY <1>1 DEF Attempts
<1>. QED BY <1>1, <1>2, <1>3

LEMMA BillsAreSmall ==
  ASSUME NEW bill \in Bills \cup {0}
  PROVE  bill \in Nat /\ bill <= Price /\ Price \in Nat
<1>1. Price \in Nat /\ Bills \subseteq 1..Price
  BY BudgetAssumption
<1>2. CASE bill = 0
  BY <1>1, <1>2
<1>3. CASE bill \in 1..Price
  BY <1>1, <1>3
<1>. QED BY <1>1, <1>2, <1>3

LEMMA SettleFits ==
  ASSUME MoneyInv, NEW r \in Runs, NEW bill \in Bills \cup {0}, NEW good \in BOOLEAN,
         SettleAs(r, bill, good)
  PROVE  RowInv' /\ PaidInv'
<1>1. bill \in Nat /\ bill <= Price /\ Price \in Nat
  BY BillsAreSmall
<1>2. CASE bill = 0
  BY <1>2, MarkKeepsSeq DEF SettleAs, MoneyInv, RowInv, PaidInv
<1>3. CASE bill # 0
  <2>. DEFINE paid == [attempts EXCEPT ![run[r].permit].state = "settled",
                                       ![run[r].permit].charge = bill,
                                       ![run[r].permit].good = good]
  <2>8. attempts' = paid
    BY <1>3 DEF SettleAs
  <2>9. paid \in Seq(Attempts)
    BY <1>1, MarkKeepsSeq DEF MoneyInv
  <2>1. PaidInv'
    BY <2>8, <2>9 DEF PaidInv
  <2>2. budget' = [budget EXCEPT !.reserved = budget.reserved - Price,
                                 !.used = budget.used + bill]
    BY <1>3 DEF SettleAs
  <2>3. budget \in Rows /\ budget.used \in Int /\ budget.reserved \in Int
    BY DEF MoneyInv, RowInv, Rows
  <2>4. budget.reserved - Price \in Int /\ budget.used + bill \in Int
    BY <1>1, <2>3
  <2>5. /\ budget' \in Rows
        /\ budget'.used = budget.used + bill
        /\ budget'.reserved = budget.reserved - Price
        /\ budget'.limits = budget.limits /\ budget'.requests = budget.requests
    BY <2>2, <2>3, <2>4 DEF Rows
  <2>6. budget.limits.cost \in Nat
    BY <2>3 DEF Rows, Amounts
  <2>7. Fits(budget)'
    BY <1>1, <2>3, <2>5, <2>6 DEF MoneyInv, RowInv, Fits
  <2>. QED BY <2>1, <2>5, <2>7 DEF RowInv
<1>. QED BY <1>2, <1>3

(* What a settlement does to the run, and that it settles or does nothing. *)
LEMMA SettleSteps ==
  ASSUME NEW r \in Runs, Settle(r)
  PROVE  /\ pc[r] = "settle" /\ saved' = saved /\ RunOnly
         /\ \/ Raise(r, "settle", "release", "error") /\ UNCHANGED <<budget, attempts>>
            \/ \E bill \in Bills \cup {0} :
                 \/ At(r, "settle", "save") /\ UNCHANGED run /\ SettleAs(r, bill, TRUE)
                 \/ At(r, "settle", "reserve") /\ UNCHANGED run /\ SettleAs(r, bill, FALSE)
                 \/ At(r, "settle", "end") /\ UNCHANGED run /\ SettleAs(r, bill, FALSE)
                 \/ Onwards(r, "settle") /\ SettleAs(r, bill, FALSE)
<1>1. CASE Fenced(r) # "ok"
  BY <1>1 DEF Settle, Raise, At
<1>2. CASE Fenced(r) = "ok"
  BY <1>2 DEF Settle, Unanswered, At, Onwards
<1>. QED BY <1>1, <1>2

LEMMA SettleRow ==
  ASSUME NEW r \in Runs, Settle(r)
  PROVE  budget' = budget \/ \E used, res : budget' = [budget EXCEPT !.reserved = res, !.used = used]
<1>1. ASSUME NEW bill, NEW good, SettleAs(r, bill, good)
      PROVE  budget' = budget \/ \E used, res : budget' = [budget EXCEPT !.reserved = res, !.used = used]
  BY <1>1 DEF SettleAs
<1>. QED BY <1>1, SettleSteps

(* An attempt is charged in advance only where it fits.                    *)
LEMMA ReserveFits ==
  ASSUME MoneyInv, NEW r \in Runs, Reserve(r)
  PROVE  MoneyInv'
<1>. DEFINE b == Accrued
<1>1. b \in Rows /\ Fits(b) /\ b.runtime \in Nat
  BY AccrueFits
<1>2. clock' = clock /\ queue' = queue /\ clock \in Nat
  BY DEF Reserve, RunOnly, env, MoneyInv
<1>3. CASE Refused(r) # "ok"
  <2>1. UNCHANGED <<budget, attempts>> /\ Raise(r, "reserve", "release", Refused(r))
    BY <1>3 DEF Reserve
  <2>. QED BY <1>2, <2>1, AnswersAreReasons, RaiseKeepsRun DEF MoneyInv, RowInv, PaidInv
<1>4. CASE /\ Refused(r) = "ok"
           /\ ~(~OutOfTime(b) /\ ~OutOfRequests(b) /\ ~OutOfMoney(b))
  <2>1. PICK w \in {"stopped", "cost_limit"}, reason \in {"other", "cost_limit"} :
          /\ Raise(r, "reserve", "release", w)
          /\ budget' = [b EXCEPT !.reason = reason]
          /\ attempts' = attempts
    BY <1>4 DEF Reserve
  <2>. HIDE DEF b
  <2>2. budget' \in Rows /\ Fits(budget')
    BY <1>1, <2>1 DEF Rows, Fits
  <2>3. RunInv'
    BY <1>2, <2>1, RaiseKeepsRun
  <2>. QED BY <1>2, <2>1, <2>2, <2>3 DEF MoneyInv, RowInv, PaidInv
<1>5. CASE Refused(r) = "ok" /\ ~OutOfTime(b) /\ ~OutOfRequests(b) /\ ~OutOfMoney(b)
  <2>. DEFINE new == [call |-> run[r].call, state |-> "reserved", charge |-> 0, good |-> FALSE]
  <2>1. /\ attempts' = Append(attempts, new)
        /\ budget' = [b EXCEPT !.requests = b.requests + 1, !.reserved = b.reserved + Price,
                               !.reason = "none"]
        /\ run' = [run EXCEPT ![r].permit = Len(attempts) + 1,
                              ![r].deadline = IF b.limits.time > 0
                                              THEN clock + (b.limits.time - b.runtime) ELSE 0]
    BY <1>5 DEF Reserve
  <2>. HIDE DEF b
  <2>2. PaidInv'
    <3>1. new \in Attempts
      BY DEF MoneyInv, RunInv, Carries, Attempts
    <3>. HIDE DEF new
    <3>. QED BY <2>1, <3>1 DEF MoneyInv, PaidInv
  <2>3. RunInv'
    <3>1. Len(attempts) + 1 \in Nat
      BY DEF MoneyInv, PaidInv
    <3>2. b.limits.time > 0 => clock + (b.limits.time - b.runtime) \in Nat
      BY <1>1, <1>2, <1>5 DEF OutOfTime, Rows, Amounts
    <3>. DEFINE d == IF b.limits.time > 0 THEN clock + (b.limits.time - b.runtime) ELSE 0
    <3>3. d \in Nat
      BY <3>2
    <3>4. run' = [run EXCEPT ![r].permit = Len(attempts) + 1, ![r].deadline = d]
      BY <2>1
    <3>. HIDE DEF d
    <3>5. run' \in [Runs -> Carries]
      BY <3>1, <3>3, <3>4 DEF MoneyInv, RunInv, Carries
    <3>. QED BY <1>2, <3>5 DEF MoneyInv, RunInv
  <2>4. Price \in Nat /\ b.requests \in Nat /\ b.used \in Int /\ b.reserved \in Int
    BY <1>1, BudgetAssumption DEF Rows
  <2>5. b.requests + 1 \in Nat /\ b.reserved + Price \in Int
    BY <2>4
  <2>6. /\ budget' \in Rows
        /\ budget'.limits = b.limits /\ budget'.used = b.used
        /\ budget'.requests = b.requests + 1 /\ budget'.reserved = b.reserved + Price
    BY <1>1, <2>1, <2>5 DEF Rows
  <2>7. b.limits.requests \in Nat /\ b.limits.cost \in Nat
    BY <1>1 DEF Rows, Amounts
  <2>8. Fits(budget')
    BY <1>5, <2>4, <2>6, <2>7 DEF Fits, OutOfRequests, OutOfMoney
  <2>. QED BY <1>2, <2>2, <2>3, <2>6, <2>8 DEF MoneyInv, RowInv
<1>. QED BY <1>3, <1>4, <1>5

LEMMA RunKeepsMoney ==
  ASSUME MoneyInv, NEW r \in Runs, RunStep(r)
  PROVE  MoneyInv'
<1>. DEFINE b == Accrued
<1>1. /\ b \in Rows /\ Fits(b)
      /\ clock \in Nat /\ Lease \in Nat /\ clock + Lease \in Nat
  BY AccrueFits, BudgetAssumption DEF MoneyInv
<1>. USE DEF RunOnly, env, ledger
<1>2. CASE Bind(r)
  <2>1. RunInv'
    BY <1>2, RaiseKeepsRun DEF Bind, MoneyInv, RunInv
  <2>. QED BY <1>2, <2>1 DEF Bind, MoneyInv, RowInv, PaidInv
<1>3. CASE Claim(r)
  <2>1. RunInv'
    BY <1>3, RaiseKeepsRun, AnswersAreReasons DEF Claim, MoneyInv, RunInv
  <2>2. budget' = budget \/ budget' = [b EXCEPT !.owner = r, !.since = clock, !.until = clock + Lease]
    BY <1>3 DEF Claim
  <2>. HIDE DEF b
  <2>3. RowInv'
    BY <1>1, <2>2 DEF MoneyInv, RowInv, Rows, Fits
  <2>. QED BY <1>1, <1>3, <2>1, <2>3 DEF Claim, MoneyInv, PaidInv
<1>4. CASE Guard(r)
  <2>1. RunInv'
    BY <1>4, RaiseKeepsRun, AnswersAreReasons DEF Guard, MoneyInv, RunInv
  <2>2. budget' = budget \/ budget' = b \/ budget' = [b EXCEPT !.reason = "other"]
    BY <1>4 DEF Guard
  <2>. HIDE DEF b
  <2>3. RowInv'
    BY <1>1, <2>2 DEF MoneyInv, RowInv, Rows, Fits
  <2>. QED BY <1>1, <1>4, <2>1, <2>3 DEF Guard, MoneyInv, PaidInv
<1>5. CASE Load(r)
  <2>1. RunInv'
    BY <1>5, RaiseKeepsRun, OnwardsKeepsRun, AnswersAreReasons DEF Load, MoneyInv, RunInv
  <2>. QED BY <1>1, <1>5, <2>1 DEF Load, MoneyInv, RowInv, PaidInv
<1>6. CASE Reserve(r)
  BY <1>6, ReserveFits
<1>7. CASE Respond(r)
  <2>1. RunInv'
    BY <1>7 DEF Respond, MoneyInv, RunInv, Carries
  <2>. QED BY <1>1, <1>7, <2>1 DEF Respond, MoneyInv, RowInv, PaidInv
<1>8. CASE Deadline(r)
  <2>1. RunInv'
    BY <1>8, RaiseKeepsRun DEF Deadline
  <2>. QED BY <1>1, <1>8, <2>1 DEF Deadline, MoneyInv, RowInv, PaidInv
<1>9. CASE Settle(r)
  <2>1. RunInv'
    <3>1. queue' = queue
      BY <1>9, SettleSteps
    <3>2. CASE Raise(r, "settle", "release", "error") \/ Onwards(r, "settle")
      BY <3>1, <3>2, RaiseKeepsRun, OnwardsKeepsRun
    <3>. QED BY <1>9, <3>1, <3>2, SettleSteps DEF MoneyInv, RunInv
  <2>2. RowInv' /\ PaidInv'
    <3>1. CASE UNCHANGED <<budget, attempts>>
      BY <3>1 DEF MoneyInv, RowInv, PaidInv
    <3>. QED BY <1>9, <3>1, SettleSteps, SettleFits
  <2>. QED BY <1>1, <1>9, <2>1, <2>2 DEF Settle, MoneyInv
<1>11. CASE Save(r)
  <2>1. RunInv'
    BY <1>11, RaiseKeepsRun, OnwardsKeepsRun, AnswersAreReasons DEF Save
  <2>. QED BY <1>1, <1>11, <2>1 DEF Save, MoneyInv, RowInv, PaidInv
<1>12. CASE End(r)
  <2>1. RunInv'
    BY <1>12, RaiseKeepsRun, AnswersAreReasons DEF End, MoneyInv, RunInv
  <2>. QED BY <1>1, <1>12, <2>1 DEF End, MoneyInv, RowInv, PaidInv
<1>13. CASE ReadStatus(r) \/ WriteStatus(r)
  BY <1>13 DEF ReadStatus, WriteStatus, MoneyInv, RowInv, RunInv, PaidInv
<1>14. CASE Release(r)
  <2>1. budget' = budget \/ budget' = [b EXCEPT !.since = 0, !.until = 0]
    BY <1>14 DEF Release
  <2>. HIDE DEF b
  <2>2. ASSUME budget' = [b EXCEPT !.since = 0, !.until = 0] PROVE RowInv'
    <3>1. /\ budget' \in Rows
          /\ budget'.limits = b.limits /\ budget'.requests = b.requests
          /\ budget'.used = b.used /\ budget'.reserved = b.reserved
      BY <1>1, <2>2 DEF Rows
    <3>2. Fits(budget')
      BY <1>1, <3>1 DEF Fits
    <3>. QED BY <3>1, <3>2 DEF RowInv
  <2>3. RowInv'
    BY <2>1, <2>2 DEF MoneyInv, RowInv
  <2>. QED BY <1>14, <2>3 DEF Release, MoneyInv, RunInv, PaidInv
<1>15. CASE Unbind(r)
  <2>1. queue' \subseteq 0..MaxResumes /\ run' = run
    BY <1>15 DEF Unbind, Returned, MoneyInv, RunInv, Carries
  <2>. QED BY <1>15, <2>1 DEF Unbind, MoneyInv, RowInv, RunInv, PaidInv
<1>16. CASE Report(r)
  <2>1. RowInv'
    BY <1>16 DEF Report, MoneyInv, RowInv, Rows, Fits
  <2>. QED BY <1>16, <2>1 DEF Report, MoneyInv, RunInv, PaidInv
<1>. QED BY <1>2, <1>3, <1>4, <1>5, <1>6, <1>7, <1>8, <1>9, <1>11, <1>12, <1>13, <1>14, <1>15, <1>16 DEF RunStep

(* What does not touch the row, the attempts or what the runs hold.        *)
LEMMA MoneyRests ==
  ASSUME MoneyInv, UNCHANGED <<budget, attempts, run>>, queue' \subseteq 0..MaxResumes, clock' \in Nat
  PROVE  MoneyInv'
BY DEF MoneyInv, RowInv, RunInv, PaidInv

LEMMA StartKeepsMoney ==
  ASSUME MoneyInv, NEW r \in Runs, NEW m \in queue, Start(r, m), clock' = clock
  PROVE  MoneyInv'
<1>1. run' = [run EXCEPT ![r].op = m] /\ m \in 0..MaxResumes
  BY DEF Start, MoneyInv, RunInv
<1>2. run' \in [Runs -> Carries] /\ queue' \subseteq 0..MaxResumes
  BY <1>1 DEF Start, MoneyInv, RunInv, Carries
<1>. QED BY <1>2 DEF Start, ledger, MoneyInv, RowInv, RunInv, PaidInv

LEMMA FaultKeepsMoney ==
  ASSUME MoneyInv, Fault
  PROVE  MoneyInv'
<1>1. queue \subseteq 0..MaxResumes /\ clock \in Nat
  BY DEF MoneyInv, RunInv
<1>2. CASE clock' = clock /\ \E r \in Runs : SaveFails(r)
  <2>1. PICK r \in Runs : SaveFails(r)
    BY <1>2
  <2>2. RunInv'
    BY <2>1, RaiseKeepsRun, OnwardsKeepsRun DEF SaveFails
  <2>. QED BY <1>2, <2>1, <2>2 DEF SaveFails, ledger, MoneyInv, RowInv, PaidInv
<1>3. CASE clock' = clock /\ \E r \in Runs : Crash(r)
  <2>1. PICK r \in Runs : Crash(r)
    BY <1>3
  <2>2. run[r].op \in 0..MaxResumes
    BY DEF MoneyInv, RunInv, Carries
  <2>. QED BY <1>1, <1>3, <2>1, <2>2, MoneyRests DEF Crash, ledger
<1>4. CASE clock' = clock /\ \E o \in Operations : PublishNack(o) \/ PublishUncertain(o)
  <2>1. PICK o \in Operations : PublishNack(o) \/ PublishUncertain(o)
    BY <1>4
  <2>2. queue \cup {o} \subseteq 0..MaxResumes
    <3>1. MaxResumes \in Nat
      BY BudgetAssumption
    <3>2. o \in 0..MaxResumes
      BY <3>1 DEF Operations
    <3>3. queue \subseteq 0..MaxResumes
      BY DEF MoneyInv, RunInv
    <3>. QED BY <3>2, <3>3
  <2>3. queue' \subseteq queue \cup {o}
    BY <2>1 DEF PublishNack, PublishUncertain
  <2>4. UNCHANGED <<budget, attempts, run>>
    BY <2>1 DEF PublishNack, PublishUncertain, PublishOnly, ledger
  <2>. QED BY <1>1, <1>4, <2>2, <2>3, <2>4, MoneyRests
<1>5. CASE clock' = clock /\ LockLost
  BY <1>5, StartKeepsMoney DEF LockLost
<1>6. CASE Tick
  BY <1>1, <1>6, MoneyRests DEF Tick, ledger
<1>. QED BY <1>2, <1>3, <1>4, <1>5, <1>6 DEF Fault

(* An extension only raises the limits that are set.                       *)
LEMMA ExtendFits ==
  ASSUME MoneyInv, NEW o \in Operations, NEW add \in BOOLEAN, Extend(o, add)
  PROVE  MoneyInv'
<1>. DEFINE a == Accrued
            l == Plus(a.limits, add)
<1>1. a \in Rows /\ Fits(a) /\ a.limits \in Amounts
  BY AccrueFits DEF Rows
<1>2. More \in Amounts
  BY BudgetAssumption
<1>3. budget' = [a EXCEPT !.limits = l, !.reason = "none"]
  BY DEF Extend
<1>4. /\ l \in Amounts
      /\ l.requests >= a.limits.requests /\ (l.requests > 0 => a.limits.requests > 0)
      /\ l.cost >= a.limits.cost /\ (l.cost > 0 => a.limits.cost > 0)
  BY <1>1, <1>2 DEF Plus, Amounts
<1>. HIDE DEF a, l
<1>5. /\ budget' \in Rows /\ budget'.limits = l /\ budget'.requests = a.requests
      /\ budget'.used = a.used /\ budget'.reserved = a.reserved
  BY <1>1, <1>3, <1>4 DEF Rows
<1>6. /\ a.requests \in Nat /\ a.used \in Int /\ a.reserved \in Int
      /\ l.requests \in Nat /\ l.cost \in Nat
      /\ a.limits.requests \in Nat /\ a.limits.cost \in Nat
  BY <1>1, <1>4 DEF Rows, Amounts
<1>7. Fits(budget')
  BY <1>1, <1>4, <1>5, <1>6 DEF Fits
<1>8. RunInv' /\ PaidInv' /\ clock' = clock
  BY DEF Extend, ResumeOnly, env, MoneyInv, RunInv, PaidInv
<1>. QED BY <1>5, <1>7, <1>8 DEF MoneyInv, RowInv

LEMMA NextKeepsMoney ==
  ASSUME MoneyInv, [Next]_vars
  PROVE  MoneyInv'
<1>. USE DEF ledger, env
<1>1. queue \subseteq 0..MaxResumes /\ clock \in Nat
  BY DEF MoneyInv, RunInv
<1>2. CASE \E r \in Runs : RunStep(r)
  BY <1>2, RunKeepsMoney
<1>3. CASE \E r \in Runs : Renew(r)
  <2>1. PICK r \in Runs : Renew(r)
    BY <1>3
  <2>. DEFINE b == Accrued
  <2>2. b \in Rows /\ Fits(b) /\ clock + Lease \in Nat
    BY AccrueFits, BudgetAssumption DEF MoneyInv
  <2>3. budget' = budget \/ budget' = [b EXCEPT !.until = clock + Lease]
    BY <2>1 DEF Renew
  <2>. HIDE DEF b
  <2>4. RowInv'
    BY <2>2, <2>3 DEF MoneyInv, RowInv, Rows, Fits
  <2>. QED BY <2>1, <2>4 DEF Renew, MoneyInv, RunInv, PaidInv
<1>4. CASE Intake
  <2>1. CASE \E m \in queue : Skip(m)
    BY <1>1, <2>1, MoneyRests DEF Skip
  <2>2. CASE (\E r \in Runs, m \in queue : Start(r, m)) /\ UNCHANGED env
    BY <2>2, StartKeepsMoney
  <2>. QED BY <1>4, <2>1, <2>2 DEF Intake
<1>5. CASE ResumeStep
  <2>1. PICK o \in Operations : (Publish(o) /\ UNCHANGED env) \/ Replay(o)
    BY <1>5 DEF ResumeStep
  <2>2. queue \cup {o} \subseteq 0..MaxResumes
    <3>1. MaxResumes \in Nat
      BY BudgetAssumption
    <3>2. o \in 0..MaxResumes
      BY <3>1 DEF Operations
    <3>3. queue \subseteq 0..MaxResumes
      BY DEF MoneyInv, RunInv
    <3>. QED BY <3>2, <3>3
  <2>3. queue' = queue \cup {o} /\ clock' = clock
    BY <2>1 DEF Publish, Replay
  <2>4. UNCHANGED <<budget, attempts, run>>
    BY <2>1 DEF Publish, Replay, PublishOnly
  <2>. QED BY <1>1, <2>2, <2>3, <2>4, MoneyRests
<1>6. CASE PauseRead \/ CancelRead \/ ControlWrite
  BY <1>1, <1>6, MoneyRests DEF PauseRead, CancelRead, ControlWrite, UserOnly
<1>7. CASE \E o \in Operations, add \in BOOLEAN : Extend(o, add)
  BY <1>7, ExtendFits
<1>8. CASE \E o \in Operations : RetryResume(o)
  <2>1. PICK o \in Operations : RetryResume(o)
    BY <1>8
  <2>2. budget' = [budget EXCEPT !.reason = "none", !.limits = budget.limits]
    BY <2>1 DEF RetryResume, KeptLimits
  <2>3. RowInv'
    BY <2>2 DEF MoneyInv, RowInv, Rows, Fits
  <2>. QED BY <2>1, <2>3 DEF RetryResume, ResumeOnly, MoneyInv, RunInv, PaidInv
<1>9. CASE Tick
  BY <1>1, <1>9, MoneyRests DEF Tick
<1>10. CASE Fault
  BY <1>10, FaultKeepsMoney
<1>11. CASE UNCHANGED vars
  BY <1>1, <1>11, MoneyRests DEF vars
<1>. QED BY <1>2, <1>3, <1>4, <1>5, <1>6, <1>7, <1>8, <1>9, <1>10, <1>11 DEF Next

LEMMA InitMoney == Init => MoneyInv
<1>. SUFFICES ASSUME Init PROVE MoneyInv
  OBVIOUS
<1>1. Calls \in Nat \ {0} /\ Limits \in Amounts /\ MaxResumes \in Nat
  BY BudgetAssumption
<1>2. budget \in Rows /\ budget.requests = 0 /\ budget.used = 0 /\ budget.reserved = 0
      /\ budget.limits = Limits
  BY <1>1 DEF Init, Rows
<1>3. RowInv
  BY <1>1, <1>2 DEF RowInv, Fits, Amounts
<1>4. RunInv
  BY <1>1 DEF Init, RunInv, Carries
<1>. QED BY <1>3, <1>4 DEF Init, MoneyInv, PaidInv

(* Never more requests or money than the limits: an attempt is charged in  *)
(* advance where it fits, a bill is never more than the reservation it     *)
(* replaces, what is not known stays charged, and limits only grow.        *)
THEOREM WithinLimitsHolds == Spec => []WithinLimits
<1>1. Init => MoneyInv
  BY InitMoney
<1>2. MoneyInv /\ [Next]_vars => MoneyInv'
  BY NextKeepsMoney
<1>3. MoneyInv => WithinLimits
  BY DEF MoneyInv, RowInv, Fits, WithinLimits
<1>. QED BY <1>1, <1>2, <1>3, PTL DEF Spec

---------------------------------------------------------------------------
(* The attempts.  A run that pays for its call does it for a call without  *)
(* a result, with an attempt of its own: nobody else is at work then.      *)

Paying == {"reserve", "http", "settle", "save"}

PermitOf(r) ==
  /\ pc[r] \in Paying => run[r].call \notin saved
  /\ pc[r] \in Paying \ {"reserve"} => /\ run[r].permit \in 1..Len(attempts)
                                       /\ attempts[run[r].permit].call = run[r].call
  /\ pc[r] \in {"http", "settle"} => attempts[run[r].permit].state = "reserved"

PermitInv == \A r \in Runs : PermitOf(r)

(* What a step can be, apart from those of the user and of the broker that *)
(* leave row, attempts, results and runs alone.                            *)
Touches == <<budget, attempts, saved, pc, run>>

LEMMA StepKinds ==
  ASSUME [Next]_vars
  PROVE  \/ \E r \in Runs : RunStep(r)
         \/ \E r \in Runs : SaveFails(r)
         \/ \E r \in Runs : Crash(r)
         \/ \E r \in Runs, m \in queue : Start(r, m)
         \/ \E r \in Runs : Renew(r)
         \/ \E o \in Operations, add \in BOOLEAN : Extend(o, add)
         \/ \E o \in Operations : RetryResume(o)
         \/ UNCHANGED Touches
<1> USE DEF ledger, Touches
<1>1. CASE Intake
  BY <1>1 DEF Intake, Skip
<1>2. CASE ResumeStep
  BY <1>2 DEF ResumeStep, Publish, Replay, PublishOnly
<1>3. CASE PauseRead \/ CancelRead \/ ControlWrite
  BY <1>3 DEF PauseRead, CancelRead, ControlWrite, UserOnly
<1>4. CASE Tick
  BY <1>4 DEF Tick
<1>5. CASE Fault
  BY <1>4, <1>5 DEF Fault, LockLost, PublishNack, PublishUncertain, PublishOnly
<1>6. CASE UNCHANGED vars
  BY <1>6 DEF vars
<1> QED BY <1>1, <1>2, <1>3, <1>4, <1>5, <1>6 DEF Next

(* A fenced run is the only one there.                                     *)
LEMMA FencedAlone ==
  ASSUME FenceInv, PermitInv, NEW r \in Runs, NEW to, pc[r] \in Bound,
         pc' = [pc EXCEPT ![r] = to], PermitOf(r)'
  PROVE  PermitInv'
<1>1. ASSUME NEW q \in Runs, q # r PROVE pc'[q] \notin Paying
  BY <1>1 DEF FenceInv, Bound, Paying
<1>2. ASSUME NEW q \in Runs PROVE PermitOf(q)'
  <2>1. CASE q = r
    BY <2>1
  <2>2. CASE q # r
    BY <1>1, <2>2 DEF PermitOf, Paying
  <2> QED BY <2>1, <2>2
<1> QED BY <1>2 DEF PermitInv

(* A run that does not go on to pay leaves nothing behind to look at.      *)
LEMMA PaysNot ==
  ASSUME FenceInv, PermitInv, NEW r \in Runs, NEW to \in AllSteps \ Paying,
         pc' = [pc EXCEPT ![r] = to], UNCHANGED <<attempts, saved>>,
         \A q \in Runs \ {r} : run'[q] = run[q]
  PROVE  PermitInv'
<1>1. ASSUME NEW q \in Runs PROVE PermitOf(q)'
  <2>1. CASE q = r
    BY <2>1 DEF PermitOf, Paying, FenceInv
  <2>2. CASE q # r
    BY <2>2 DEF PermitOf, PermitInv, FenceInv
  <2> QED BY <2>1, <2>2
<1> QED BY <1>1 DEF PermitInv

LEMMA ReserveKeepsPermit ==
  ASSUME FenceInv, MoneyInv, PermitInv, NEW r \in Runs, Reserve(r)
  PROVE  PermitInv'
<1>1. pc[r] = "reserve" /\ saved' = saved
  BY DEF Reserve, At, Raise
<1>2. CASE attempts' = attempts /\ pc' = [pc EXCEPT ![r] = "release"]
  <2>1. \A q \in Runs \ {r} : run'[q] = run[q]
    BY DEF Reserve, Raise, MoneyInv, RunInv
  <2> QED BY <1>1, <1>2, <2>1, PaysNot DEF AllSteps, Bound, Paying
<1>3. CASE /\ attempts' = Append(attempts, [call |-> run[r].call, state |-> "reserved", charge |-> 0, good |-> FALSE])
           /\ At(r, "reserve", "http")
           /\ run' = [run EXCEPT ![r].permit = Len(attempts) + 1,
                                 ![r].deadline = IF Accrued.limits.time > 0
                                                 THEN clock + (Accrued.limits.time - Accrued.runtime) ELSE 0]
  <2>1. pc' = [pc EXCEPT ![r] = "http"] /\ pc[r] \in Bound
    BY <1>1, <1>3 DEF At, Bound
  <2>2. run'[r].call = run[r].call /\ run'[r].permit = Len(attempts) + 1
    BY <1>3 DEF MoneyInv, RunInv, Carries
  <2>3. /\ Len(attempts') = Len(attempts) + 1 /\ Len(attempts) \in Nat
        /\ attempts'[Len(attempts) + 1] = [call |-> run[r].call, state |-> "reserved", charge |-> 0, good |-> FALSE]
    BY <1>3 DEF MoneyInv, PaidInv
  <2>4. run[r].call \notin saved
    BY <1>1 DEF PermitInv, PermitOf, Paying
  <2>5. Len(attempts) + 1 \in 1..(Len(attempts) + 1)
    BY <2>3
  <2>6. PermitOf(r)'
    BY <1>1, <2>1, <2>2, <2>3, <2>4, <2>5 DEF PermitOf
  <2> QED BY <2>1, <2>6, FencedAlone
<1> QED BY <1>1, <1>2, <1>3 DEF Reserve, Raise, At

(* An attempt keeps its call, and there are as many as before.             *)
LEMMA SettleShape ==
  ASSUME MoneyInv, NEW r \in Runs, NEW bill \in Bills \cup {0}, NEW good \in BOOLEAN,
         SettleAs(r, bill, good)
  PROVE  /\ Len(attempts') = Len(attempts)
         /\ \A n \in 1..Len(attempts) : attempts'[n].call = attempts[n].call
         /\ \A n \in 1..Len(attempts) : n # run[r].permit => attempts'[n] = attempts[n]
         /\ run[r].permit \in 1..Len(attempts) =>
              IF bill = 0
              THEN attempts'[run[r].permit].state = "unknown"
                   /\ attempts'[run[r].permit].charge = attempts[run[r].permit].charge
              ELSE attempts'[run[r].permit].state = "settled"
                   /\ attempts'[run[r].permit].charge = bill
                   /\ attempts'[run[r].permit].good = good
<1>. DEFINE p == run[r].permit
<1>1. attempts \in [1..Len(attempts) -> Attempts] /\ attempts \in Seq(Attempts)
  BY DEF MoneyInv, PaidInv
<1>2. CASE bill = 0
  <2>1. attempts' = [attempts EXCEPT ![p].state = "unknown"]
    BY <1>2 DEF SettleAs
  <2>. HIDE DEF p
  <2> QED BY <1>1, <1>2, <2>1 DEF Attempts, p
<1>3. CASE bill # 0
  <2>1. attempts' = [attempts EXCEPT ![p].state = "settled", ![p].charge = bill, ![p].good = good]
    BY <1>3 DEF SettleAs
  <2> HIDE DEF p
  <2> QED BY <1>1, <1>3, <2>1 DEF Attempts, p
<1>. QED BY <1>2, <1>3

LEMMA RunKeepsPermit ==
  ASSUME FenceInv, MoneyInv, PermitInv, NEW r \in Runs, RunStep(r)
  PROVE  PermitInv'
<1>. USE DEF AllSteps, Bound, Paying, ledger
<1>0. run \in [Runs -> Carries]
  BY DEF MoneyInv, RunInv
<1>1. CASE Bind(r) \/ Claim(r)
  BY <1>0, <1>1, PaysNot DEF Bind, Claim, At, Raise
<1>2. CASE Guard(r)
  BY <1>0, <1>2, PaysNot DEF Guard, At, Raise
<1>3. CASE Load(r)
  <2>1. CASE ~(Refused(r) = "ok" /\ ~Cached(r))
    BY <1>0, <1>3, <2>1, PaysNot DEF Load, At, Raise, Onwards
  <2>2. CASE Refused(r) = "ok" /\ ~Cached(r)
    <3>1. pc[r] = "load" /\ pc' = [pc EXCEPT ![r] = "reserve"] /\ UNCHANGED <<run, attempts, saved>>
      BY <1>3, <2>2 DEF Load, At
    <3>2. PermitOf(r)'
      BY <2>2, <3>1 DEF PermitOf, Cached, FenceInv
    <3> QED BY <3>1, <3>2, FencedAlone
  <2> QED BY <2>1, <2>2
<1>4. CASE Reserve(r)
  BY <1>4, ReserveKeepsPermit
<1>5. CASE Respond(r)
  <2>1. pc[r] = "http" /\ pc' = [pc EXCEPT ![r] = "settle"] /\ UNCHANGED <<attempts, saved>>
    BY <1>5 DEF Respond, At
  <2>2. run' = run
    BY <1>5 DEF Respond
  <2>3. PermitOf(r)
    BY DEF PermitInv
  <2>4. PermitOf(r)'
    BY <2>1, <2>2, <2>3 DEF PermitOf, FenceInv
  <2> QED BY <2>1, <2>4, FencedAlone
<1>6. CASE Deadline(r)
  BY <1>0, <1>6, PaysNot DEF Deadline, At, Raise
<1>7. CASE Settle(r)
  <2>1. CASE Raise(r, "settle", "release", "error") /\ UNCHANGED <<budget, attempts>>
    BY <1>0, <1>7, <2>1, SettleSteps, PaysNot DEF At, Raise
  <2>2. ASSUME NEW bill \in Bills \cup {0}, NEW good \in BOOLEAN, SettleAs(r, bill, good),
               NEW to \in {"save", "reserve", "end", "guard"}, pc' = [pc EXCEPT ![r] = to],
               to \in {"save", "reserve"} => UNCHANGED run
        PROVE  PermitInv'
    <3>1. pc[r] = "settle" /\ saved' = saved
      BY <1>7, SettleSteps
    <3>2. PermitOf(r)
      BY DEF PermitInv
    <3>3. PermitOf(r)'
      BY <2>2, <3>1, <3>2, SettleShape DEF PermitOf, FenceInv
    <3> QED BY <2>2, <3>1, <3>3, FencedAlone
  <2> QED BY <1>7, <2>1, <2>2, SettleSteps DEF At, Onwards
<1>9. CASE Save(r)
  <2>1. PICK to \in {"release", "guard", "end"} : pc[r] = "save" /\ pc' = [pc EXCEPT ![r] = to]
    BY <1>9 DEF Save, At, Raise, Onwards
  <2>2. PermitOf(r)'
    BY <2>1 DEF PermitOf, FenceInv
  <2> QED BY <2>1, <2>2, FencedAlone
<1>10. CASE End(r) \/ ReadStatus(r) \/ WriteStatus(r)
  <2>1. PICK to \in {"release", "status", "write"} : pc' = [pc EXCEPT ![r] = to]
    BY <1>10 DEF End, ReadStatus, WriteStatus, At, Raise
  <2>2. UNCHANGED <<attempts, saved>> /\ \A q \in Runs \ {r} : run'[q] = run[q]
    BY <1>0, <1>10 DEF End, ReadStatus, WriteStatus, Raise
  <2> QED BY <2>1, <2>2, PaysNot
<1>11. CASE Release(r) \/ Unbind(r) \/ Report(r)
  <2>1. PICK to \in {"unbind", "ended", "report"} : pc' = [pc EXCEPT ![r] = to]
    BY <1>11 DEF Release, Unbind, Report, At
  <2> QED BY <1>11, <2>1, PaysNot DEF Release, Unbind, Report
<1>. QED BY <1>1, <1>2, <1>3, <1>4, <1>5, <1>6, <1>7, <1>9, <1>10, <1>11 DEF RunStep

LEMMA NextKeepsPermit ==
  ASSUME FenceInv, MoneyInv, PermitInv, [Next]_vars
  PROVE  PermitInv'
<1>0. run \in [Runs -> Carries]
  BY DEF MoneyInv, RunInv
<1>1. CASE \E r \in Runs : RunStep(r)
  BY <1>1, RunKeepsPermit
<1>2. CASE \E r \in Runs : SaveFails(r)
  <2>1. PICK r \in Runs : SaveFails(r)
    BY <1>2
  <2>2. PICK to \in {"release", "guard", "end"} : pc' = [pc EXCEPT ![r] = to]
    BY <2>1 DEF SaveFails, Raise, Onwards, At
  <2>3. UNCHANGED <<attempts, saved>> /\ \A q \in Runs \ {r} : run'[q] = run[q]
    BY <1>0, <2>1 DEF SaveFails, Raise, Onwards, ledger
  <2> QED BY <2>2, <2>3, PaysNot DEF AllSteps, Bound, Paying
<1>3. CASE \E r \in Runs : Crash(r)
  BY <1>3, PaysNot DEF Crash, ledger, AllSteps, Bound, Paying
<1>4. CASE \E r \in Runs, m \in queue : Start(r, m)
  BY <1>0, <1>4, PaysNot DEF Start, At, ledger, AllSteps, Bound, Paying
<1>5. CASE UNCHANGED <<attempts, saved, pc, run>>
  BY <1>5 DEF PermitInv, PermitOf
<1>. QED BY <1>1, <1>2, <1>3, <1>4, <1>5, StepKinds DEF Renew, Extend, RetryResume, ResumeOnly, Touches

(* What is true of every reachable state, so far.                          *)
BaseInv == FenceInv /\ MoneyInv /\ PermitInv

LEMMA InitBase == Init => BaseInv
<1>1. Init => FenceInv /\ PermitInv
  BY DEF Init, FenceInv, PermitInv, PermitOf, AllSteps, Bound, Paying
<1>. QED BY <1>1, InitMoney DEF BaseInv

LEMMA NextKeepsBase == BaseInv /\ [Next]_vars => BaseInv'
BY NextKeepsFence, NextKeepsMoney, NextKeepsPermit DEF BaseInv

(* Only a run without a result for its call adds an attempt, and for it.   *)
LEMMA AddsForUnsaved ==
  ASSUME BaseInv, [Next]_vars, Len(attempts') > Len(attempts)
  PROVE  attempts'[Len(attempts')].call \notin saved
<1>1. attempts \in Seq(Attempts) /\ Len(attempts) \in Nat
  BY DEF BaseInv, MoneyInv, PaidInv
<1>2. ASSUME attempts' = attempts PROVE FALSE
  BY <1>1, <1>2
<1>3. ASSUME Len(attempts') = Len(attempts) PROVE FALSE
  BY <1>1, <1>3
<1>4. PICK r \in Runs : RunStep(r)
  BY <1>2, StepKinds DEF SaveFails, Crash, Start, Renew, Extend, RetryResume, ResumeOnly, ledger, Touches
<1>5. Reserve(r)
  BY <1>2, <1>3, <1>4, SettleShape
     DEF RunStep, Bind, Claim, Guard, Load, Respond, Deadline, Settle, Unanswered, Save, End,
         ReadStatus, WriteStatus, Release, Unbind, Report, ledger, BaseInv
<1>6. attempts' = Append(attempts, [call |-> run[r].call, state |-> "reserved", charge |-> 0, good |-> FALSE])
  BY <1>2, <1>5 DEF Reserve
<1>7. pc[r] = "reserve"
  BY <1>5 DEF Reserve, At, Raise
<1>8. attempts'[Len(attempts')].call = run[r].call
  BY <1>1, <1>6
<1>. QED BY <1>7, <1>8 DEF BaseInv, PermitInv, PermitOf, Paying

(* A call with a saved result is not paid again: between load_call, which  *)
(* finds none, and the reservation only the owner of the fence could save  *)
(* one, and that is this run.                                              *)
THEOREM SavedIsNotPaidAgainHolds == Spec => SavedIsNotPaidAgain
<1>1. BaseInv /\ [Next]_vars
        => [Len(attempts') > Len(attempts) => attempts'[Len(attempts')].call \notin saved]_vars
  BY AddsForUnsaved
<1>. QED BY <1>1, InitBase, NextKeepsBase, PTL DEF Spec, SavedIsNotPaidAgain

---------------------------------------------------------------------------
(* The counters are the sums over the attempts.                            *)

LedgerInv ==
  /\ budget.requests = Len(attempts)
  /\ budget.reserved = SumOver(Reservations, DOMAIN attempts)
  /\ budget.used = SumOver(Charges, DOMAIN attempts)
  /\ \A n \in DOMAIN attempts : attempts[n].state # "settled" => attempts[n].charge = 0

LEMMA AttemptsAreFinite ==
  ASSUME MoneyInv
  PROVE  /\ DOMAIN attempts = 1..Len(attempts) /\ Len(attempts) \in Nat
         /\ IsFiniteSet(DOMAIN attempts)
         /\ \A n \in DOMAIN attempts : Reservations[n] \in Nat /\ Charges[n] \in Nat
<1>1. attempts \in Seq(Attempts) /\ Price \in Nat
  BY BudgetAssumption DEF MoneyInv, PaidInv
<1>2. DOMAIN attempts = 1..Len(attempts) /\ Len(attempts) \in Nat
  BY <1>1
<1>3. IsFiniteSet(1..Len(attempts))
  BY <1>2, FS_Interval
<1>4. \A n \in DOMAIN attempts : attempts[n] \in Attempts
  BY <1>1
<1>. QED BY <1>1, <1>2, <1>3, <1>4 DEF Reservations, Charges, Attempts

(* Steps that pay for nothing.                                             *)
SameCounters ==
  /\ attempts' = attempts
  /\ budget'.requests = budget.requests
  /\ budget'.used = budget.used /\ budget'.reserved = budget.reserved

LEMMA RowKeepsCounters ==
  ASSUME MoneyInv, attempts' = attempts,
         \E lim, reason, owner, since, until :
            \/ budget' = [Accrued EXCEPT !.owner = owner, !.since = since, !.until = until]
            \/ budget' = [Accrued EXCEPT !.since = since, !.until = until]
            \/ budget' = [Accrued EXCEPT !.until = until]
            \/ budget' = [Accrued EXCEPT !.reason = reason]
            \/ budget' = [Accrued EXCEPT !.limits = lim, !.reason = reason]
            \/ budget' = [budget EXCEPT !.reason = reason, !.limits = lim]
            \/ budget' = [budget EXCEPT !.reason = reason]
            \/ budget' = Accrued
            \/ budget' = budget
  PROVE  SameCounters
<1>. DEFINE b == Accrued
<1>1. b \in Rows /\ b.requests = budget.requests /\ b.used = budget.used /\ b.reserved = budget.reserved
  BY AccrueFits
<1>2. budget \in Rows
  BY DEF MoneyInv, RowInv
<1>. HIDE DEF b
<1>. QED BY <1>1, <1>2 DEF Rows, SameCounters, b

LEMMA PaysNothing ==
  ASSUME MoneyInv, [Next]_vars, ~ \E r \in Runs : Reserve(r) \/ Settle(r)
  PROVE  SameCounters
<1>4. CASE \E r \in Runs : RunStep(r)
  <2>1. PICK r \in Runs : RunStep(r)
    BY <1>4
  <2>2. CASE Claim(r) \/ Guard(r)
    <3>1. /\ attempts' = attempts
          /\ \/ budget' \in {budget, Accrued}
             \/ budget' = [Accrued EXCEPT !.owner = r, !.since = clock, !.until = clock + Lease]
             \/ budget' = [Accrued EXCEPT !.reason = "other"]
      BY <2>2 DEF Claim, Guard
    <3>. QED BY RowKeepsCounters, <3>1
  <2>3. CASE Release(r)
    BY RowKeepsCounters, <2>3 DEF Release
  <2>4. CASE Report(r)
    <3>1. attempts' = attempts /\ (budget' = budget \/ \E reason : budget' = [budget EXCEPT !.reason = reason])
      BY <2>4 DEF Report
    <3>. QED BY RowKeepsCounters, <3>1
  <2>. QED BY <2>1, <2>2, <2>3, <2>4
           DEF RunStep, Bind, Load, Respond, Deadline, Save, End, ReadStatus, WriteStatus, Unbind,
               ledger, SameCounters
<1>5. CASE \E r \in Runs : Renew(r)
  BY RowKeepsCounters, <1>5 DEF Renew
<1>6. CASE \E o \in Operations, add \in BOOLEAN : Extend(o, add)
  BY RowKeepsCounters, <1>6 DEF Extend, ResumeOnly
<1>7. CASE \E o \in Operations : RetryResume(o)
  BY RowKeepsCounters, <1>7 DEF RetryResume, ResumeOnly
<1>8. CASE UNCHANGED <<budget, attempts>>
  BY <1>8 DEF SameCounters
<1>. QED BY <1>4, <1>5, <1>6, <1>7, <1>8, StepKinds DEF SaveFails, Crash, Start, ledger, Touches

(* One more attempt: its reservation, and no charge.                       *)
LEMMA ReserveExact ==
  ASSUME BaseInv, LedgerInv, NEW r \in Runs, Reserve(r)
  PROVE  LedgerInv'
<1>. DEFINE new == [call |-> run[r].call, state |-> "reserved", charge |-> 0, good |-> FALSE]
            n == Len(attempts) + 1
            D == DOMAIN attempts
<1>1. MoneyInv /\ MoneyInv'
  BY ReserveFits DEF BaseInv
<1>2. CASE attempts' = attempts
  <2>1. attempts # Append(attempts, new)
    <3>1. Len(attempts) \in Nat /\ Len(Append(attempts, new)) = Len(attempts) + 1
      BY <1>1 DEF MoneyInv, PaidInv
    <3>. QED BY <3>1
  <2>2. SameCounters
    BY <1>1, <1>2, <2>1, RowKeepsCounters DEF Reserve
  <2>. QED BY <1>2, <2>2 DEF SameCounters, LedgerInv, Reservations, Charges
<1>3. CASE attempts' # attempts
  <2>1. /\ attempts' = Append(attempts, new)
        /\ budget' = [Accrued EXCEPT !.requests = Accrued.requests + 1,
                                     !.reserved = Accrued.reserved + Price, !.reason = "none"]
    BY <1>3 DEF Reserve
  <2>2. /\ budget'.requests = budget.requests + 1 /\ budget'.used = budget.used
        /\ budget'.reserved = budget.reserved + Price
    <3>. DEFINE b == Accrued
    <3>1. b \in Rows /\ b.requests = budget.requests /\ b.used = budget.used /\ b.reserved = budget.reserved
      BY <1>1, AccrueFits
    <3>2. budget' = [b EXCEPT !.requests = b.requests + 1, !.reserved = b.reserved + Price, !.reason = "none"]
      BY <2>1
    <3>. HIDE DEF b
    <3>. QED BY <3>1, <3>2 DEF Rows
  <2>3. /\ D = 1..Len(attempts) /\ Len(attempts) \in Nat /\ IsFiniteSet(D)
        /\ \A m \in D : Reservations[m] \in Nat /\ Charges[m] \in Nat
        /\ attempts \in Seq(Attempts) /\ Price \in Nat
    BY <1>1, AttemptsAreFinite, BudgetAssumption DEF MoneyInv, PaidInv
  <2>4. /\ DOMAIN attempts' = D \cup {n} /\ n \notin D /\ Len(attempts') = n
        /\ attempts'[n] = new /\ \A m \in D : attempts'[m] = attempts[m]
    BY <2>1, <2>3
  <2>5. /\ Reservations'[n] = Price /\ Charges'[n] = 0
        /\ \A m \in D : Reservations'[m] = Reservations[m] /\ Charges'[m] = Charges[m]
    BY <2>4 DEF Reservations, Charges
  <2>6. \A m \in D \cup {n} : Reservations'[m] \in Nat /\ Charges'[m] \in Nat
    BY <2>3, <2>5
  <2>7. SumOver(Reservations', D \cup {n}) = Reservations'[n] + SumOver(Reservations', D)
    BY <2>3, <2>4, <2>5, <2>6, SumAdd
  <2>8. SumOver(Charges', D \cup {n}) = Charges'[n] + SumOver(Charges', D)
    BY <2>3, <2>4, <2>5, <2>6, SumAdd
  <2>9. SumOver(Reservations', D) = SumOver(Reservations, D) /\ SumOver(Charges', D) = SumOver(Charges, D)
    BY <2>3, <2>5, SumSame
  <2>10. SumOver(Reservations, D) \in Nat /\ SumOver(Charges, D) \in Nat
    BY <2>3, SumType
  <2>11. \A m \in D \cup {n} : attempts'[m].state # "settled" => attempts'[m].charge = 0
    BY <2>4 DEF LedgerInv
  <2>12. budget'.requests = Len(attempts')
    BY <2>2, <2>4 DEF LedgerInv
  <2>13. budget'.reserved = SumOver(Reservations', DOMAIN attempts')
    BY <2>2, <2>3, <2>4, <2>5, <2>7, <2>9, <2>10 DEF LedgerInv
  <2>14. budget'.used = SumOver(Charges', DOMAIN attempts')
    BY <2>2, <2>4, <2>5, <2>8, <2>9, <2>10 DEF LedgerInv
  <2>. QED BY <2>4, <2>11, <2>12, <2>13, <2>14 DEF LedgerInv
<1>. QED BY <1>2, <1>3

(* The reservation of one attempt gives way to its charge, or stays.       *)
LEMMA SettleExact ==
  ASSUME BaseInv, LedgerInv, NEW r \in Runs, pc[r] = "settle",
         NEW c \in Bills \cup {0}, NEW good \in BOOLEAN, SettleAs(r, c, good)
  PROVE  LedgerInv'
<1>. DEFINE p == run[r].permit
            D == DOMAIN attempts
<1>1. MoneyInv /\ Price \in Nat /\ c \in Nat
  BY BillsAreSmall DEF BaseInv
<1>2. /\ D = 1..Len(attempts) /\ Len(attempts) \in Nat /\ IsFiniteSet(D)
      /\ \A m \in D : Reservations[m] \in Nat /\ Charges[m] \in Nat
  BY <1>1, AttemptsAreFinite
<1>3. p \in D /\ attempts[p].state = "reserved"
  BY <1>2 DEF BaseInv, PermitInv, PermitOf, Paying
<1>4. attempts[p].charge = 0 /\ Reservations[p] = Price /\ Charges[p] = 0
  BY <1>3 DEF LedgerInv, Reservations, Charges
<1>5. /\ Len(attempts') = Len(attempts)
      /\ \A m \in D : m # p => attempts'[m] = attempts[m]
      /\ IF c = 0 THEN attempts'[p].state = "unknown" /\ attempts'[p].charge = attempts[p].charge
                  ELSE attempts'[p].state = "settled" /\ attempts'[p].charge = c
  BY <1>1, <1>2, <1>3, SettleShape
<1>6. DOMAIN attempts' = D
  <2>1. attempts' \in Seq(Attempts)
    BY <1>1, SettleFits DEF PaidInv
  <2>. QED BY <1>2, <1>5, <2>1
<1>7. \A m \in D \ {p} : Reservations'[m] = Reservations[m] /\ Charges'[m] = Charges[m]
  BY <1>5, <1>6 DEF Reservations, Charges
<1>8. Charges'[p] = c /\ Reservations'[p] = IF c = 0 THEN Price ELSE 0
  BY <1>3, <1>4, <1>5, <1>6 DEF Reservations, Charges
<1>9. \A m \in D : Reservations'[m] \in Nat /\ Charges'[m] \in Nat
  BY <1>1, <1>2, <1>7, <1>8
<1>10. SumOver(Reservations', D) + Reservations[p] = SumOver(Reservations, D) + Reservations'[p]
  <2>1. PICK f, g : f = Reservations /\ g = Reservations'
    OBVIOUS
  <2>2. (\A m \in D : f[m] \in Nat /\ g[m] \in Nat) /\ (\A m \in D \ {p} : f[m] = g[m])
    BY <1>2, <1>7, <1>9, <2>1
  <2>3. IsFiniteSet(D) /\ p \in D
    BY <1>2, <1>3
  <2>. HIDE DEF D
  <2>4. SumOver(g, D) + f[p] = SumOver(f, D) + g[p]
    BY <2>2, <2>3, SumChange
  <2>. QED BY <2>1, <2>4
<1>11. SumOver(Charges', D) + Charges[p] = SumOver(Charges, D) + Charges'[p]
  <2>1. PICK f, g : f = Charges /\ g = Charges'
    OBVIOUS
  <2>2. (\A m \in D : f[m] \in Nat /\ g[m] \in Nat) /\ (\A m \in D \ {p} : f[m] = g[m])
    BY <1>2, <1>7, <1>9, <2>1
  <2>3. IsFiniteSet(D) /\ p \in D
    BY <1>2, <1>3
  <2>. HIDE DEF D
  <2>4. SumOver(g, D) + f[p] = SumOver(f, D) + g[p]
    BY <2>2, <2>3, SumChange
  <2>. QED BY <2>1, <2>4
<1>12. /\ SumOver(Reservations, D) \in Nat /\ SumOver(Charges, D) \in Nat
       /\ SumOver(Reservations', D) \in Nat /\ SumOver(Charges', D) \in Nat
  BY <1>2, <1>9, SumType
<1>13. /\ budget'.requests = budget.requests
       /\ budget'.used = budget.used + c
       /\ budget'.reserved = IF c = 0 THEN budget.reserved ELSE budget.reserved - Price
  <2>1. budget \in Rows
    BY <1>1 DEF MoneyInv, RowInv
  <2>2. CASE c = 0
    BY <2>1, <2>2 DEF SettleAs, Rows
  <2>3. CASE c # 0
    <3>1. budget' = [budget EXCEPT !.reserved = budget.reserved - Price, !.used = budget.used + c]
      BY <2>3 DEF SettleAs
    <3>. QED BY <2>1, <2>3, <3>1 DEF Rows
  <2>. QED BY <2>2, <2>3
<1>14. \A m \in D : attempts'[m].state # "settled" => attempts'[m].charge = 0
  BY <1>4, <1>5 DEF LedgerInv
<1>15. budget'.reserved = SumOver(Reservations', D) /\ budget'.used = SumOver(Charges', D)
  BY <1>1, <1>4, <1>8, <1>10, <1>11, <1>12, <1>13 DEF LedgerInv
<1>. QED BY <1>5, <1>6, <1>13, <1>14, <1>15 DEF LedgerInv

LEMMA NextKeepsLedger ==
  ASSUME BaseInv, LedgerInv, [Next]_vars
  PROVE  LedgerInv'
<1>1. ASSUME SameCounters PROVE LedgerInv'
  BY <1>1 DEF SameCounters, LedgerInv, Reservations, Charges
<1>2. CASE \E r \in Runs : Reserve(r)
  BY <1>2, ReserveExact
<1>3. CASE \E r \in Runs : Settle(r)
  <2>1. PICK r \in Runs : Settle(r)
    BY <1>3
  <2>2. pc[r] = "settle"
    BY <2>1, SettleSteps
  <2>3. CASE UNCHANGED <<budget, attempts>>
    BY <1>1, <2>3 DEF SameCounters
  <2>4. ASSUME NEW c \in Bills \cup {0}, NEW good \in BOOLEAN, SettleAs(r, c, good) PROVE LedgerInv'
    BY <2>2, <2>4, SettleExact
  <2>. QED BY <2>1, <2>3, <2>4, SettleSteps
<1>. QED BY <1>1, <1>2, <1>3, PaysNothing DEF BaseInv

LEMMA InitLedger == Init => LedgerInv
<1>. SUFFICES ASSUME Init PROVE LedgerInv
  OBVIOUS
<1>1. DOMAIN attempts = {} /\ Len(attempts) = 0
  BY DEF Init
<1>2. SumOver(Reservations, {}) = 0 /\ SumOver(Charges, {}) = 0
  BY SumEmpty
<1>. QED BY <1>1, <1>2 DEF Init, LedgerInv

LEMMA AllBase == Spec => [](BaseInv /\ LedgerInv)
<1>1. Init => BaseInv /\ LedgerInv
  BY InitBase, InitLedger
<1>2. BaseInv /\ LedgerInv /\ [Next]_vars => (BaseInv /\ LedgerInv)'
  BY NextKeepsBase, NextKeepsLedger
<1>. QED BY <1>1, <1>2, PTL DEF Spec

(* The counters of the row are exactly what the attempts say, through any  *)
(* crash, lost lock, fence and retry: a settlement finds its attempt still *)
(* reserved and free of charge, so it moves one reservation to one bill.   *)
THEOREM LedgerExactHolds == Spec => []LedgerExact
<1>1. BaseInv /\ LedgerInv => LedgerExact
  BY DEF LedgerInv, LedgerExact, SumOver
<1>. QED BY <1>1, AllBase, PTL

---------------------------------------------------------------------------
(* The types of the rest.                                                  *)

Statuses == {"queued", "running", "paused", "cancelled", "done"}
Receipts == {"none", "sending", "published", "nack", "uncertain"}

RestTypes ==
  /\ status \in Statuses
  /\ op \in 0..MaxResumes
  /\ saved \subseteq 1..Calls
  /\ receipt \in [Operations -> Receipts]
  /\ added \subseteq Operations
  /\ fence \in Runs \cup {NoRun}
  /\ beats \subseteq Runs
  /\ api \in {"idle", "pause", "cancel"}
  /\ leased \in Nat /\ faults \in Nat /\ stops \in Nat

LEMMA RunKeepsTypes ==
  ASSUME MoneyInv, RestTypes, NEW r \in Runs, RunStep(r)
  PROVE  RestTypes'
<1>. USE DEF RunOnly, env, resume, ledger, RestTypes, Statuses
<1>1. CASE Bind(r) \/ Claim(r) \/ Guard(r) \/ Load(r) \/ Reserve(r) \/ Respond(r) \/ Deadline(r)
  BY <1>1 DEF Bind, Claim, Guard, Load, Reserve, Respond, Deadline
<1>2. CASE Settle(r) \/ End(r) \/ ReadStatus(r) \/ WriteStatus(r)
  BY <1>2 DEF Settle, End, ReadStatus, WriteStatus
<1>3. CASE Save(r)
  <2>1. run[r].call \in 1..Calls
    BY DEF MoneyInv, RunInv, Carries
  <2>. QED BY <1>3, <2>1 DEF Save, Kept
<1>4. CASE Release(r) \/ Unbind(r) \/ Report(r)
  BY <1>4 DEF Release, Unbind, Report
<1>. QED BY <1>1, <1>2, <1>3, <1>4 DEF RunStep

LEMMA OperationIsNumber == ASSUME NEW o \in Operations PROVE o \in 0..MaxResumes
<1>1. MaxResumes \in Nat
  BY BudgetAssumption
<1>. QED BY <1>1 DEF Operations

LEMMA NextKeepsTypes ==
  ASSUME MoneyInv, RestTypes, [Next]_vars
  PROVE  RestTypes'
<1>. USE DEF env, resume, ledger, RestTypes, Statuses, Receipts
<1>1. CASE \E r \in Runs : RunStep(r)
  BY <1>1, RunKeepsTypes
<1>2. CASE \E r \in Runs : Renew(r)
  BY <1>2 DEF Renew
<1>3. CASE Intake
  BY <1>3 DEF Intake, Skip, Start
<1>4. CASE ResumeStep
  BY <1>4 DEF ResumeStep, Publish, Replay, Published, PublishOnly
<1>5. CASE PauseRead \/ CancelRead \/ ControlWrite
  <2>1. CASE PauseRead \/ CancelRead
    <3>1. /\ api' \in {"pause", "cancel"} /\ stops' = stops + 1 /\ status' = status
          /\ UNCHANGED <<op, receipt, added, saved, fence, beats, leased, faults>>
      BY <2>1 DEF PauseRead, CancelRead, UserOnly
    <3>. QED BY <3>1
  <2>2. CASE ControlWrite
    BY <2>2 DEF ControlWrite, UserOnly
  <2>. QED BY <1>5, <2>1, <2>2
<1>6. CASE \E o \in Operations, add \in BOOLEAN : Extend(o, add)
  BY <1>6, OperationIsNumber DEF Extend, Queue, ResumeOnly
<1>7. CASE \E o \in Operations : RetryResume(o)
  <2>1. PICK o \in Operations : RetryResume(o)
    BY <1>7
  <2>2. /\ status' = "queued" /\ op' = o /\ receipt' = [receipt EXCEPT ![o] = "sending"]
        /\ UNCHANGED <<saved, added, fence, beats, env>>
    BY <2>1 DEF RetryResume, Queue, ResumeOnly
  <2>. QED BY <2>2, OperationIsNumber
<1>8. CASE Tick /\ faults' \in Nat
  BY <1>8 DEF Tick
<1>9. CASE Fault
  <2>1. faults' \in Nat
    BY <1>9 DEF Fault
  <2>2. CASE Tick
    BY <1>8, <2>1, <2>2
  <2>3. CASE UNCHANGED <<api, clock, leased, stops>> /\ \E r \in Runs : SaveFails(r) \/ Crash(r)
    BY <2>1, <2>3 DEF SaveFails, Crash
  <2>4. CASE UNCHANGED <<api, clock, leased, stops>> /\ \E o \in Operations : PublishNack(o) \/ PublishUncertain(o)
    BY <2>1, <2>4 DEF PublishNack, PublishUncertain, Published, PublishOnly, NackedStatus
  <2>5. CASE UNCHANGED <<api, clock, leased, stops>> /\ LockLost
    BY <2>1, <2>5 DEF LockLost, Start
  <2>. QED BY <1>9, <2>2, <2>3, <2>4, <2>5 DEF Fault
<1>10. CASE UNCHANGED vars
  BY <1>10 DEF vars
<1>. QED BY <1>1, <1>2, <1>3, <1>4, <1>5, <1>6, <1>7, <1>8, <1>9, <1>10 DEF Next

LEMMA InitTypes == Init => RestTypes
<1>1. MaxResumes \in Nat
  BY BudgetAssumption
<1>. QED BY <1>1 DEF Init, RestTypes, Statuses, Receipts

(* Every variable keeps its type.  That the money used and reserved is     *)
(* never negative is the ledger's doing: both are sums.                    *)
THEOREM TypeCorrect == Spec => []TypeOK
<1>1. Init => RestTypes
  BY InitTypes
<1>2. BaseInv /\ RestTypes /\ [Next]_vars => RestTypes'
  BY NextKeepsTypes DEF BaseInv
<1>3. BaseInv /\ LedgerInv /\ RestTypes => TypeOK
  <2>. SUFFICES ASSUME BaseInv, LedgerInv, RestTypes PROVE TypeOK
    OBVIOUS
  <2>1. MoneyInv /\ FenceInv
    BY DEF BaseInv
  <2>2. budget.used \in Nat /\ budget.reserved \in Nat
    BY <2>1, AttemptsAreFinite, SumType DEF LedgerInv
  <2>3. budget \in BudgetRows
    BY <2>1, <2>2 DEF MoneyInv, RowInv, Rows, BudgetRows
  <2>4. run \in [Runs -> Held]
    BY <2>1 DEF MoneyInv, RunInv, Carries, Held
  <2>5. attempts \in Seq(Attempts) /\ queue \subseteq 0..MaxResumes /\ clock \in Nat
    BY <2>1 DEF MoneyInv, RunInv, PaidInv
  <2>6. pc \in [Runs -> Bound \cup {"new", "bind", "report", "ended"}]
    BY <2>1 DEF FenceInv, AllSteps
  <2>. QED BY <2>3, <2>4, <2>5, <2>6 DEF TypeOK, RestTypes, Statuses, Receipts
<1>. QED BY <1>1, <1>2, <1>3, AllBase, PTL DEF Spec

---------------------------------------------------------------------------
(* The runtime.  Every writer of the row either leaves the three fields of *)
(* the meter alone, or charges what has run and starts it again from now.  *)

MeterStands == /\ budget'.runtime = budget.runtime
               /\ budget'.since = budget.since /\ budget'.until = budget.until
MeterTurns  == /\ budget'.runtime = Accrued.runtime /\ budget'.until \in Nat
               /\ budget'.since = clock \/ budget'.since = 0

TimeInv ==
  /\ clock >= 1 /\ leased \in Nat
  /\ budget.since <= clock
  /\ Accrued.runtime = leased

LEMMA AccruedTurns ==
  ASSUME MoneyInv, NEW owner, NEW reason, NEW lim, NEW req, NEW res, NEW u \in Nat,
         \/ budget' = Accrued
         \/ budget' = [Accrued EXCEPT !.owner = owner, !.since = clock, !.until = u]
         \/ budget' = [Accrued EXCEPT !.since = 0, !.until = 0]
         \/ budget' = [Accrued EXCEPT !.until = u]
         \/ budget' = [Accrued EXCEPT !.reason = reason]
         \/ budget' = [Accrued EXCEPT !.limits = lim, !.reason = reason]
         \/ budget' = [Accrued EXCEPT !.requests = req, !.reserved = res, !.reason = reason]
  PROVE  MeterTurns
<1>. DEFINE b == Accrued
<1>1. /\ b \in Rows /\ b.until = budget.until /\ b.until \in Nat
      /\ (b.since = 0 \/ b.since = clock)
  BY AccrueFits DEF Rows, MoneyInv, RowInv
<1>. HIDE DEF b
<1>2. CASE budget' = b \/ budget' = [b EXCEPT !.until = u] \/ budget' = [b EXCEPT !.reason = reason]
  BY <1>1, <1>2 DEF Rows, MeterTurns, b
<1>3. CASE \/ budget' = [b EXCEPT !.owner = owner, !.since = clock, !.until = u]
           \/ budget' = [b EXCEPT !.since = 0, !.until = 0]
  <2>1. budget'.runtime = b.runtime /\ budget'.until \in {u, 0} /\ budget'.since \in {clock, 0}
    BY <1>1, <1>3 DEF Rows
  <2>. QED BY <2>1 DEF MeterTurns, b
<1>4. CASE \/ budget' = [b EXCEPT !.limits = lim, !.reason = reason]
           \/ budget' = [b EXCEPT !.requests = req, !.reserved = res, !.reason = reason]
  BY <1>1, <1>4 DEF Rows, MeterTurns, b
<1>. QED BY <1>2, <1>3, <1>4 DEF b

LEMMA RunTurnsMeter ==
  ASSUME MoneyInv, NEW r \in Runs, RunStep(r)
  PROVE  UNCHANGED <<clock, leased>> /\ (MeterStands \/ MeterTurns)
<1>. USE DEF RunOnly, env, ledger
<1>1. budget \in Rows /\ clock + Lease \in Nat
  BY BudgetAssumption DEF MoneyInv, RowInv
<1>2. CASE Bind(r) \/ Load(r) \/ Respond(r) \/ Deadline(r)
  BY <1>2 DEF Bind, Load, Respond, Deadline, MeterStands
<1>3. CASE Save(r) \/ End(r) \/ ReadStatus(r) \/ WriteStatus(r) \/ Unbind(r)
  BY <1>3 DEF Save, End, ReadStatus, WriteStatus, Unbind, MeterStands
<1>4. CASE Claim(r)
  <2>1. budget' = budget \/ budget' = [Accrued EXCEPT !.owner = r, !.since = clock, !.until = clock + Lease]
    BY <1>4 DEF Claim
  <2>. QED BY <1>1, <1>4, <2>1, AccruedTurns DEF Claim, MeterStands
<1>5. CASE Guard(r)
  <2>1. budget' = budget \/ budget' = Accrued \/ budget' = [Accrued EXCEPT !.reason = "other"]
    BY <1>5 DEF Guard
  <2>. QED BY <1>1, <1>5, <2>1, AccruedTurns DEF Guard, MeterStands
<1>6. CASE Reserve(r)
  <2>1. \/ budget' = budget
        \/ \E reason : budget' = [Accrued EXCEPT !.reason = reason]
        \/ budget' = [Accrued EXCEPT !.requests = Accrued.requests + 1, !.reserved = Accrued.reserved + Price,
                                     !.reason = "none"]
    BY <1>6 DEF Reserve
  <2>. QED BY <1>1, <1>6, <2>1, AccruedTurns DEF Reserve, MeterStands
<1>7. CASE Settle(r)
  <2>1. budget' = budget \/ \E used, res : budget' = [budget EXCEPT !.reserved = res, !.used = used]
    BY <1>7, SettleRow
  <2>2. MeterStands
    BY <1>1, <2>1 DEF Rows, MeterStands
  <2>. QED BY <1>7, <2>2 DEF Settle
<1>8. CASE Release(r)
  <2>1. budget' = budget \/ budget' = [Accrued EXCEPT !.since = 0, !.until = 0]
    BY <1>8 DEF Release
  <2>. QED BY <1>1, <1>8, <2>1, AccruedTurns DEF Release, MeterStands
<1>9. CASE Report(r)
  <2>1. budget' = budget \/ \E reason : budget' = [budget EXCEPT !.reason = reason]
    BY <1>9 DEF Report
  <2>2. MeterStands
    BY <1>1, <2>1 DEF Rows, MeterStands
  <2>. QED BY <1>9, <2>2 DEF Report
<1>. QED BY <1>2, <1>3, <1>4, <1>5, <1>6, <1>7, <1>8, <1>9 DEF RunStep

LEMMA NextTurnsMeter ==
  ASSUME MoneyInv, [Next]_vars
  PROVE  (UNCHANGED <<clock, leased>> /\ (MeterStands \/ MeterTurns)) \/ (Tick /\ UNCHANGED budget)
<1>. USE DEF env, ledger
<1>1. budget \in Rows /\ clock + Lease \in Nat
  BY BudgetAssumption DEF MoneyInv, RowInv
<1>2. CASE \E r \in Runs : RunStep(r)
  BY <1>2, RunTurnsMeter
<1>3. CASE \E r \in Runs : Renew(r)
  <2>1. budget' = budget \/ budget' = [Accrued EXCEPT !.until = clock + Lease]
    BY <1>3 DEF Renew
  <2>. QED BY <1>1, <1>3, <2>1, AccruedTurns DEF Renew, MeterStands
<1>4. CASE Intake
  BY <1>4 DEF Intake, Skip, Start, MeterStands
<1>5. CASE ResumeStep
  BY <1>5 DEF ResumeStep, Publish, Replay, PublishOnly, MeterStands
<1>6. CASE PauseRead \/ CancelRead \/ ControlWrite
  BY <1>6 DEF PauseRead, CancelRead, ControlWrite, UserOnly, MeterStands
<1>7. CASE \E o \in Operations, add \in BOOLEAN : Extend(o, add)
  <2>1. PICK o \in Operations, add \in BOOLEAN : Extend(o, add)
    BY <1>7
  <2>2. budget' = [Accrued EXCEPT !.limits = Plus(Accrued.limits, add), !.reason = "none"]
    BY <2>1 DEF Extend
  <2>. QED BY <1>1, <2>1, <2>2, AccruedTurns DEF Extend, ResumeOnly
<1>8. CASE \E o \in Operations : RetryResume(o)
  <2>1. \E reason, lim : budget' = [budget EXCEPT !.reason = reason, !.limits = lim]
    BY <1>8 DEF RetryResume
  <2>2. MeterStands
    BY <1>1, <2>1 DEF Rows, MeterStands
  <2>. QED BY <1>8, <2>2 DEF RetryResume, ResumeOnly
<1>9. CASE Tick
  BY <1>9 DEF Tick
<1>10. CASE Fault
  BY <1>9, <1>10 DEF Fault, SaveFails, Crash, PublishNack, PublishUncertain, PublishOnly, LockLost, Start, MeterStands
<1>11. CASE UNCHANGED vars
  BY <1>11 DEF vars, MeterStands
<1>. QED BY <1>2, <1>3, <1>4, <1>5, <1>6, <1>7, <1>8, <1>9, <1>10, <1>11 DEF Next

(* What the meter of a row reads at a time.                                *)
Reading(b, c) ==
  IF b.since = 0 THEN b.runtime ELSE b.runtime + Less(Capped(c, b.until), b.since)

LEMMA MeterReads ==
  ASSUME NEW b \in Rows, NEW c \in Nat
  PROVE  (IF b.since = 0 THEN b
          ELSE [b EXCEPT !.runtime = @ + Less(Capped(c, b.until), b.since), !.since = c]).runtime
           = Reading(b, c)
<1>1. CASE b.since = 0
  BY <1>1 DEF Reading
<1>2. CASE b.since # 0
  <2>. DEFINE n == b.runtime + Less(Capped(c, b.until), b.since)
  <2>. HIDE DEF n
  <2>1. [b EXCEPT !.runtime = n, !.since = c].runtime = n
    BY DEF Rows
  <2>. QED BY <1>2, <2>1 DEF n, Reading
<1>. QED BY <1>1, <1>2

LEMMA NextKeepsTime ==
  ASSUME MoneyInv, TimeInv, [Next]_vars
  PROVE  TimeInv'
<1>1. budget \in Rows /\ clock \in Nat /\ budget' \in Rows /\ clock' \in Nat
  BY NextKeepsMoney DEF MoneyInv, RowInv
<1>2. /\ budget.since \in Nat /\ budget.until \in Nat /\ budget.runtime \in Nat
      /\ budget'.since \in Nat /\ budget'.until \in Nat /\ budget'.runtime \in Nat
  BY <1>1 DEF Rows
<1>3. Accrued.runtime = Reading(budget, clock) /\ (Accrued.runtime)' = Reading(budget', clock')
  BY <1>1, MeterReads DEF Accrued
<1>4. CASE UNCHANGED <<clock, leased>> /\ MeterStands
  BY <1>3, <1>4 DEF TimeInv, MeterStands, Reading
<1>5. CASE UNCHANGED <<clock, leased>> /\ MeterTurns
  <2>1. budget'.since # 0 => Less(Capped(clock, budget'.until), budget'.since) = 0
    BY <1>1, <1>2, <1>5 DEF MeterTurns, Less, Capped
  <2>2. Reading(budget', clock) = budget'.runtime
    BY <1>2, <2>1 DEF Reading
  <2>3. (Accrued.runtime)' = leased
    BY <1>3, <1>5, <2>2 DEF MeterTurns, TimeInv
  <2>. QED BY <1>1, <1>5, <2>3 DEF MeterTurns, TimeInv
<1>6. CASE Tick /\ UNCHANGED budget
  <2>1. clock' = clock + 1 /\ leased' = IF budget.since > 0 /\ budget.until > clock THEN leased + 1 ELSE leased
    BY <1>6 DEF Tick, Live
  <2>2. Reading(budget, clock + 1)
          = IF budget.since > 0 /\ budget.until > clock THEN Reading(budget, clock) + 1 ELSE Reading(budget, clock)
    BY <1>1, <1>2 DEF TimeInv, Reading, Less, Capped
  <2>3. (Accrued.runtime)' = leased'
    BY <1>3, <1>6, <2>1, <2>2 DEF TimeInv
  <2>. QED BY <1>1, <1>2, <1>6, <2>1, <2>3 DEF TimeInv
<1>. QED BY <1>4, <1>5, <1>6, NextTurnsMeter

(* The runtime charged, with what is due up to now, is the time under a    *)
(* live lease: no writer loses time or charges a tick twice, and none is   *)
(* charged after the end of a dead worker's lease.                         *)
THEOREM RuntimeIsLeasedTimeHolds == Spec => []RuntimeIsLeasedTime
<1>1. Init => TimeInv
  <2>. SUFFICES ASSUME Init PROVE TimeInv
    OBVIOUS
  <2>1. budget.since = 0 /\ budget.runtime = 0 /\ clock = 1 /\ leased = 0
    BY DEF Init
  <2>. QED BY <2>1 DEF TimeInv, Accrued
<1>2. BaseInv /\ TimeInv /\ [Next]_vars => TimeInv'
  BY NextKeepsTime DEF BaseInv
<1>3. TimeInv => RuntimeIsLeasedTime
  BY DEF TimeInv, RuntimeIsLeasedTime
<1>. QED BY <1>1, <1>2, <1>3, AllBase, PTL DEF Spec

---------------------------------------------------------------------------
(* The limits are those of the snapshot and what each operation added.     *)

Extended(n) == [d \in DOMAIN Limits |-> IF Limits[d] > 0 THEN Limits[d] + n * More[d] ELSE 0]

LimitsInv ==
  /\ IsFiniteSet(added) /\ added \subseteq Operations
  /\ \A o \in added : receipt[o] # "none"
  /\ budget.limits = Extended(Cardinality(added))

LEMMA LimitsStand ==
  ASSUME MoneyInv,
         \E owner, since, until, reason, req, used, res :
            \/ budget' \in {budget, Accrued}
            \/ budget' = [Accrued EXCEPT !.owner = owner, !.since = since, !.until = until]
            \/ budget' = [Accrued EXCEPT !.since = since, !.until = until]
            \/ budget' = [Accrued EXCEPT !.until = until]
            \/ budget' = [Accrued EXCEPT !.reason = reason]
            \/ budget' = [Accrued EXCEPT !.requests = req, !.reserved = res, !.reason = reason]
            \/ budget' = [budget EXCEPT !.reserved = res, !.used = used]
            \/ budget' = [budget EXCEPT !.reason = reason]
  PROVE  budget'.limits = budget.limits
<1>. DEFINE b == Accrued
<1>1. b \in Rows /\ b.limits = budget.limits
  BY AccrueFits
<1>2. budget \in Rows
  BY DEF MoneyInv, RowInv
<1>. HIDE DEF b
<1>. QED BY <1>1, <1>2 DEF Rows, b

LEMMA RunKeepsLimits ==
  ASSUME MoneyInv, NEW r \in Runs, RunStep(r)
  PROVE  budget'.limits = budget.limits /\ UNCHANGED <<added, receipt>>
<1>. USE DEF RunOnly, resume, ledger
<1>1. CASE Bind(r) \/ Load(r) \/ Respond(r) \/ Deadline(r)
  BY <1>1 DEF Bind, Load, Respond, Deadline
<1>2. CASE Save(r) \/ End(r) \/ ReadStatus(r) \/ WriteStatus(r) \/ Unbind(r)
  BY <1>2 DEF Save, End, ReadStatus, WriteStatus, Unbind
<1>3. CASE Claim(r) \/ Guard(r) \/ Release(r)
  <2>1. \/ budget' \in {budget, Accrued}
        \/ budget' = [Accrued EXCEPT !.owner = r, !.since = clock, !.until = clock + Lease]
        \/ budget' = [Accrued EXCEPT !.since = 0, !.until = 0]
        \/ budget' = [Accrued EXCEPT !.reason = "other"]
    BY <1>3 DEF Claim, Guard, Release
  <2>2. budget'.limits = budget.limits
    <3>1. CASE budget' \in {budget, Accrued}
      BY <3>1, LimitsStand
    <3>2. CASE \E owner, since, until : budget' = [Accrued EXCEPT !.owner = owner, !.since = since, !.until = until]
      <4>. DEFINE b == Accrued
      <4>1. b \in Rows /\ b.limits = budget.limits
        BY AccrueFits
      <4>. HIDE DEF b
      <4>. QED BY <3>2, <4>1 DEF Rows, b
    <3>3. CASE \E since, until : budget' = [Accrued EXCEPT !.since = since, !.until = until]
      BY <3>3, LimitsStand
    <3>4. CASE \E reason : budget' = [Accrued EXCEPT !.reason = reason]
      BY <3>4, LimitsStand
    <3>. QED BY <2>1, <3>1, <3>2, <3>3, <3>4
  <2>. QED BY <1>3, <2>2 DEF Claim, Guard, Release
<1>4. CASE Reserve(r)
  <2>1. \/ budget' = budget
        \/ \E reason : budget' = [Accrued EXCEPT !.reason = reason]
        \/ budget' = [Accrued EXCEPT !.requests = Accrued.requests + 1, !.reserved = Accrued.reserved + Price,
                                     !.reason = "none"]
    BY <1>4 DEF Reserve
  <2>. QED BY <1>4, <2>1, LimitsStand DEF Reserve
<1>5. CASE Settle(r)
  <2>1. budget' = budget \/ \E used, res : budget' = [budget EXCEPT !.reserved = res, !.used = used]
    BY <1>5, SettleRow
  <2>. QED BY <1>5, <2>1, LimitsStand DEF Settle
<1>6. CASE Report(r)
  <2>1. budget' = budget \/ \E reason : budget' = [budget EXCEPT !.reason = reason]
    BY <1>6 DEF Report
  <2>. QED BY <1>6, <2>1, LimitsStand DEF Report
<1>. QED BY <1>1, <1>2, <1>3, <1>4, <1>5, <1>6 DEF RunStep

(* A new operation adds once, since its receipt says that it is known.     *)
LEMMA ExtendAddsOnce ==
  ASSUME MoneyInv, RestTypes, LimitsInv, NEW o \in Operations, NEW add \in BOOLEAN, Extend(o, add)
  PROVE  LimitsInv'
<1>. DEFINE n == Cardinality(added)
            l == budget.limits
<1>1. n \in Nat /\ IsFiniteSet(added) /\ l = Extended(n)
  BY FS_CardinalityType DEF LimitsInv
<1>2. o \notin added
  BY DEF LimitsInv, Extend
<1>3. receipt' = [receipt EXCEPT ![o] = "sending"] /\ receipt \in [Operations -> Receipts]
  BY DEF Extend, Queue, RestTypes
<1>4. added' = IF add THEN added \cup {o} ELSE added
  BY DEF Extend
<1>5. /\ IsFiniteSet(added') /\ added' \subseteq Operations
      /\ \A p \in added' : receipt'[p] # "none"
      /\ Cardinality(added') = IF add THEN n + 1 ELSE n
  BY <1>1, <1>2, <1>3, <1>4, FS_AddElement DEF LimitsInv
<1>6. budget'.limits = Plus(l, add)
  <2>. DEFINE b == Accrued
  <2>1. b \in Rows /\ b.limits = l /\ budget' = [b EXCEPT !.limits = Plus(b.limits, add), !.reason = "none"]
    BY AccrueFits DEF Extend
  <2>. HIDE DEF b
  <2>. QED BY <2>1 DEF Rows
<1>7. Limits \in Amounts /\ More \in Amounts
  BY BudgetAssumption
<1>8. ASSUME NEW d \in DOMAIN Limits
      PROVE  /\ Limits[d] \in Nat /\ n * More[d] \in Nat /\ More[d] \in Nat
             /\ (n + 1) * More[d] = n * More[d] + More[d]
  <2>1. Limits[d] \in Nat /\ More[d] \in Nat
    BY <1>7, <1>8 DEF Amounts
  <2>. QED BY <1>1, <2>1
<1>9. Plus(l, add) = Extended(IF add THEN n + 1 ELSE n)
  <2>1. l = [d \in DOMAIN Limits |-> IF Limits[d] > 0 THEN Limits[d] + n * More[d] ELSE 0]
    BY <1>1 DEF Extended
  <2>2. DOMAIN l = DOMAIN Limits
    BY <2>1
  <2>3. ASSUME NEW d \in DOMAIN Limits
        PROVE  (IF add /\ l[d] > 0 THEN l[d] + More[d] ELSE l[d])
                 = IF Limits[d] > 0 THEN Limits[d] + (IF add THEN n + 1 ELSE n) * More[d] ELSE 0
    <3>1. l[d] = IF Limits[d] > 0 THEN Limits[d] + n * More[d] ELSE 0
      BY <2>1
    <3>. DEFINE m == n * More[d]
                k == (n + 1) * More[d]
    <3>2. Limits[d] \in Nat /\ m \in Nat /\ More[d] \in Nat /\ k = m + More[d]
      BY <1>8
    <3>3. (IF add THEN n + 1 ELSE n) * More[d] = IF add THEN k ELSE m
      OBVIOUS
    <3>. HIDE DEF m, k
    <3>4. l[d] = IF Limits[d] > 0 THEN Limits[d] + m ELSE 0
      BY <3>1 DEF m
    <3>. HIDE DEF l
    <3>. QED BY <3>2, <3>3, <3>4
  <2>. QED BY <2>2, <2>3 DEF Plus, Extended
<1>. QED BY <1>5, <1>6, <1>9 DEF LimitsInv

LEMMA NextKeepsLimits ==
  ASSUME MoneyInv, RestTypes, LimitsInv, [Next]_vars
  PROVE  LimitsInv'
<1>. USE DEF ledger, resume
<1>0. receipt \in [Operations -> Receipts]
  BY DEF RestTypes
<1>1. ASSUME budget'.limits = budget.limits, added' = added,
             \A o \in Operations : receipt[o] # "none" => receipt'[o] # "none"
      PROVE  LimitsInv'
  BY <1>1 DEF LimitsInv
<1>2. CASE \E r \in Runs : RunStep(r)
  BY <1>1, <1>2, RunKeepsLimits
<1>3. CASE \E r \in Runs : Renew(r)
  <2>1. budget' = budget \/ budget' = [Accrued EXCEPT !.until = clock + Lease]
    BY <1>3 DEF Renew
  <2>. QED BY <1>1, <1>3, <2>1, LimitsStand DEF Renew
<1>4. CASE Intake
  BY <1>1, <1>4 DEF Intake, Skip, Start
<1>5. CASE \E o \in Operations : Publish(o) \/ Replay(o) \/ PublishNack(o) \/ PublishUncertain(o)
  <2>1. PICK o \in Operations : Publish(o) \/ Replay(o) \/ PublishNack(o) \/ PublishUncertain(o)
    BY <1>5
  <2>2. /\ UNCHANGED <<budget, added>>
        /\ \E x \in {"published", "nack", "uncertain"} : receipt' = [receipt EXCEPT ![o] = x]
    BY <2>1 DEF Publish, Replay, PublishNack, PublishUncertain, Published, PublishOnly
  <2>. QED BY <1>0, <1>1, <2>2
<1>6. CASE PauseRead \/ CancelRead \/ ControlWrite
  BY <1>1, <1>6 DEF PauseRead, CancelRead, ControlWrite, UserOnly
<1>7. CASE \E o \in Operations, add \in BOOLEAN : Extend(o, add)
  BY <1>7, ExtendAddsOnce
<1>8. CASE \E o \in Operations : RetryResume(o)
  <2>1. PICK o \in Operations : RetryResume(o)
    BY <1>8
  <2>2. budget' = [budget EXCEPT !.reason = "none", !.limits = budget.limits] /\ budget \in Rows
    BY <2>1 DEF RetryResume, KeptLimits, MoneyInv, RowInv
  <2>3. budget'.limits = budget.limits
    BY <2>2 DEF Rows
  <2>4. receipt' = [receipt EXCEPT ![o] = "sending"] /\ added' = added
    BY <2>1 DEF RetryResume, Queue
  <2>. QED BY <1>0, <1>1, <2>3, <2>4
<1>9. CASE Tick
  BY <1>1, <1>9 DEF Tick
<1>10. CASE Fault
  BY <1>1, <1>5, <1>9, <1>10 DEF Fault, SaveFails, Crash, LockLost, Start
<1>11. CASE UNCHANGED vars
  BY <1>1, <1>11 DEF vars
<1>. QED BY <1>2, <1>3, <1>4, <1>5, <1>6, <1>7, <1>8, <1>9, <1>10, <1>11 DEF Next, ResumeStep

(* An operation raises the limits once, however often it is refused, sent  *)
(* again or replayed, and nothing else touches them.                       *)
THEOREM ExtendedOnceHolds == Spec => []ExtendedOnce
<1>1. Init => RestTypes /\ LimitsInv
  <2>. SUFFICES ASSUME Init PROVE LimitsInv
    BY InitTypes
  <2>1. added = {} /\ budget.limits = Limits
    BY DEF Init
  <2>2. IsFiniteSet(added) /\ Cardinality(added) = 0
    BY <2>1, FS_EmptySet
  <2>3. Limits \in Amounts /\ More \in Amounts
    BY BudgetAssumption
  <2>4. \A d \in DOMAIN Limits : (IF Limits[d] > 0 THEN Limits[d] + 0 * More[d] ELSE 0) = Limits[d]
    BY <2>3 DEF Amounts
  <2>5. Limits = [d \in DOMAIN Limits |-> Limits[d]]
    BY <2>3 DEF Amounts
  <2>6. Extended(0) = Limits
    BY <2>4, <2>5 DEF Extended
  <2>. QED BY <2>1, <2>2, <2>6 DEF LimitsInv
<1>2. BaseInv /\ RestTypes /\ LimitsInv /\ [Next]_vars => (RestTypes /\ LimitsInv)'
  BY NextKeepsTypes, NextKeepsLimits DEF BaseInv
<1>3. LimitsInv => ExtendedOnce
  BY DEF LimitsInv, Extended, ExtendedOnce
<1>. QED BY <1>1, <1>2, <1>3, AllBase, PTL DEF Spec

---------------------------------------------------------------------------
(* One run at a time.  Where no process dies and no lock is lost, a run    *)
(* that is over has given fence and lease back.                            *)

Leased == Bound \ {"claim", "unbind"}

NoOverlap == Kinds \cap {"crash", "lock"} = {} \/ faults = 0

SoloInv ==
  /\ \A r, q \in Runs : Alive(r) /\ Alive(q) => r = q
  /\ \A r \in Runs : fence = r => pc[r] \in Bound
  /\ \A r \in Runs : pc[r] \in Leased => budget.owner = r
  /\ budget.until # 0 => \E r \in Runs : pc[r] \in Leased

LEMMA SoloRests ==
  ASSUME SoloInv, pc' = pc, fence' = fence, budget'.owner = budget.owner,
         budget.until = 0 => budget'.until = 0
  PROVE  SoloInv'
BY DEF SoloInv, Alive

LEMMA SoloMoves ==
  ASSUME FenceInv, SoloInv, NEW r \in Runs, NEW to, pc' = [pc EXCEPT ![r] = to], Alive(r),
         fence' = fence, pc[r] \in Bound <=> to \in Bound, pc[r] \in Leased <=> to \in Leased,
         budget'.owner = budget.owner, budget.until = 0 => budget'.until = 0
  PROVE  SoloInv'
<1>1. \A q \in Runs : pc'[q] = IF q = r THEN to ELSE pc[q]
  BY DEF FenceInv
<1>2. \A q \in Runs : Alive(q) => q = r
  BY DEF SoloInv
<1>3. \A q \in Runs : q # r => pc'[q] \in {"new", "ended"}
  BY <1>1, <1>2 DEF Alive
<1>4. \A p, q \in Runs : Alive(p)' /\ Alive(q)' => p = q
  BY <1>3 DEF Alive
<1>. QED BY <1>1, <1>4 DEF SoloInv

(* The owner and the end of the lease change in Claim, Release and Renew.  *)
LEMMA LeaseStays ==
  ASSUME MoneyInv, NEW r \in Runs, RunStep(r), ~ Claim(r), ~ Release(r)
  PROVE  budget'.owner = budget.owner /\ budget'.until = budget.until
<1>. DEFINE b == Accrued
<1>1. b \in Rows /\ b.owner = budget.owner /\ b.until = budget.until
  BY AccrueFits
<1>2. budget \in Rows
  BY DEF MoneyInv, RowInv
<1>. USE DEF ledger
<1>3. CASE Guard(r)
  <2>1. budget' \in {budget, b} \/ budget' = [b EXCEPT !.reason = "other"]
    BY <1>3 DEF Guard
  <2>. HIDE DEF b
  <2>. QED BY <1>1, <2>1 DEF Rows
<1>4. CASE Reserve(r)
  <2>1. \/ budget' = budget
        \/ \E reason : budget' = [b EXCEPT !.reason = reason]
        \/ budget' = [b EXCEPT !.requests = b.requests + 1, !.reserved = b.reserved + Price, !.reason = "none"]
    BY <1>4 DEF Reserve
  <2>. HIDE DEF b
  <2>. QED BY <1>1, <2>1 DEF Rows
<1>5. CASE Settle(r)
  <2>1. budget' = budget \/ \E used, res : budget' = [budget EXCEPT !.reserved = res, !.used = used]
    BY <1>5, SettleRow
  <2>. QED BY <1>2, <2>1 DEF Rows
<1>6. CASE Report(r)
  <2>1. budget' = budget \/ \E reason : budget' = [budget EXCEPT !.reason = reason]
    BY <1>6 DEF Report
  <2>. QED BY <1>2, <2>1 DEF Rows
<1>. QED BY <1>3, <1>4, <1>5, <1>6
         DEF RunStep, Bind, Load, Respond, Deadline, Save, End, ReadStatus, WriteStatus, Unbind

LEMMA ClaimedRow ==
  ASSUME MoneyInv, NEW r, NEW n \in Nat,
         budget' = [Accrued EXCEPT !.owner = r, !.since = clock, !.until = n]
  PROVE  budget'.owner = r /\ budget'.until = n
<1>. DEFINE b == Accrued
<1>1. b \in Rows
  BY AccrueFits
<1>. HIDE DEF b
<1>. QED BY <1>1 DEF Rows, b

(* The only run there finds the fence and the lease free.                  *)
LEMMA FindsItFree ==
  ASSUME MoneyInv, RestTypes, SoloInv, NEW r \in Runs
  PROVE  /\ pc[r] = "bind" => FenceFree
         /\ pc[r] = "claim" => ~ Live
<1>1. ASSUME pc[r] = "bind" PROVE FenceFree
  <2>1. \A q \in Runs : fence = q => q = r
    BY <1>1 DEF SoloInv, Alive, Bound
  <2>2. fence # r
    BY <1>1 DEF SoloInv, Bound
  <2>. QED BY <2>1, <2>2 DEF RestTypes, FenceFree
<1>2. ASSUME pc[r] = "claim" PROVE ~ Live
  <2>1. \A q \in Runs : pc[q] \in Leased => q = r
    BY <1>2 DEF SoloInv, Alive, Leased, Bound
  <2>2. budget.until = 0 /\ clock \in Nat
    BY <1>2, <2>1 DEF SoloInv, Leased, Bound, MoneyInv
  <2>. QED BY <2>2 DEF Live
<1>. QED BY <1>1, <1>2

LEMMA RunKeepsSolo ==
  ASSUME FenceInv, MoneyInv, RestTypes, SoloInv, NEW r \in Runs, RunStep(r)
  PROVE  SoloInv'
<1>. USE DEF AllSteps, ledger
<1>1. pc[r] \notin {"new", "ended"} /\ Alive(r)
  BY DEF RunStep, Bind, Claim, Guard, Load, Reserve, Respond, Deadline, Settle, Unanswered, Save, End,
         ReadStatus, WriteStatus, Release, Unbind, Report, At, Raise, Onwards, Alive
<1>2. \A q \in Runs : q # r => pc[q] \in {"new", "ended"} /\ pc[q] \notin Bound /\ pc[q] \notin Leased
  BY <1>1 DEF SoloInv, Alive, Bound, Leased
<1>3. ASSUME NEW to, pc' = [pc EXCEPT ![r] = to],
             \A q \in Runs : fence' = q => q = r /\ to \in Bound,
             to \in Leased => budget'.owner = r,
             budget'.until # 0 => to \in Leased
      PROVE  SoloInv'
  <2>1. \A q \in Runs : pc'[q] = IF q = r THEN to ELSE pc[q]
    BY <1>3 DEF FenceInv
  <2>2. \A p, q \in Runs : Alive(p)' /\ Alive(q)' => p = q
    BY <1>2, <2>1 DEF Alive
  <2>. QED BY <1>2, <1>3, <2>1, <2>2 DEF SoloInv
<1>4. CASE Bind(r)
  <2>1. fence' = r /\ pc' = [pc EXCEPT ![r] = "claim"] /\ pc[r] = "bind" /\ budget' = budget
    BY <1>4, FindsItFree DEF Bind, At, Raise
  <2>2. budget.until = 0
    BY <1>2, <2>1 DEF SoloInv, Leased, Bound
  <2>. QED BY <1>3, <2>1, <2>2 DEF Leased, Bound
<1>5. CASE Claim(r)
  <2>0. pc[r] = "claim" /\ fence = r /\ fence' = fence
    BY <1>5 DEF Claim, At, Raise, FenceInv, Bound
  <2>1. budget.until = 0
    BY <1>2, <2>0 DEF SoloInv, Leased, Bound
  <2>2. CASE pc' = [pc EXCEPT ![r] = "unbind"] /\ budget' = budget
    BY <1>3, <2>0, <2>1, <2>2 DEF Leased, Bound
  <2>3. CASE /\ pc' = [pc EXCEPT ![r] = "guard"]
             /\ budget' = [Accrued EXCEPT !.owner = r, !.since = clock, !.until = clock + Lease]
    <3>1. clock + Lease \in Nat
      BY BudgetAssumption DEF MoneyInv
    <3>2. budget'.owner = r
      BY <2>3, <3>1, ClaimedRow
    <3>. QED BY <1>3, <2>0, <2>3, <3>2 DEF Leased, Bound
  <2>. QED BY <1>5, <2>2, <2>3 DEF Claim, At, Raise
<1>6. CASE Release(r)
  <2>0. pc[r] = "release" /\ pc' = [pc EXCEPT ![r] = "unbind"] /\ fence = r /\ fence' = fence /\ budget.owner = r
    BY <1>6 DEF Release, At, FenceInv, SoloInv, Bound, Leased
  <2>1. budget' = [Accrued EXCEPT !.since = 0, !.until = 0]
    BY <1>6, <2>0 DEF Release
  <2>2. budget'.until = 0
    <3>. DEFINE b == Accrued
    <3>1. b \in Rows
      BY AccrueFits
    <3>. HIDE DEF b
    <3>. QED BY <2>1, <3>1 DEF Rows, b
  <2>. QED BY <1>3, <2>0, <2>2 DEF Leased, Bound
<1>7. CASE Unbind(r)
  <2>0. pc[r] = "unbind" /\ fence = r /\ budget' = budget
    BY <1>7 DEF Unbind, At, FenceInv, Bound
  <2>1. fence' = NoRun /\ NoRun \notin Runs
    BY <1>7, <2>0, BudgetAssumption DEF Unbind
  <2>2. budget.until = 0
    BY <1>2, <2>0 DEF SoloInv, Leased, Bound
  <2>3. PICK to \in {"ended", "report"} : pc' = [pc EXCEPT ![r] = to]
    BY <1>7 DEF Unbind, At
  <2>. QED BY <1>3, <2>0, <2>1, <2>2, <2>3 DEF Leased, Bound
<1>8. CASE ~ (Bind(r) \/ Claim(r) \/ Release(r) \/ Unbind(r))
  <2>1. budget'.owner = budget.owner /\ budget'.until = budget.until
    BY <1>8, LeaseStays
  <2>2. fence' = fence
    BY <1>8 DEF RunStep, Guard, Load, Reserve, Respond, Deadline, Settle, Unanswered, Save, End, ReadStatus,
                WriteStatus, Report, RunOnly
  <2>3. CASE Report(r)
    BY <1>1, <2>1, <2>2, <2>3, SoloMoves DEF Report, At, Bound, Leased
  <2>4. CASE ~ Report(r)
    <3>1. PICK to \in Leased : pc' = [pc EXCEPT ![r] = to]
      BY <1>8, <2>4 DEF RunStep, Guard, Load, Reserve, Respond, Deadline, Settle, Unanswered, Save, End,
                        ReadStatus, WriteStatus, At, Raise, Onwards, Leased, Bound
    <3>2. pc[r] \in Leased
      BY <1>8, <2>4 DEF RunStep, Guard, Load, Reserve, Respond, Deadline, Settle, Unanswered, Save, End,
                        ReadStatus, WriteStatus, At, Raise, Onwards, Leased, Bound
    <3>. QED BY <1>1, <2>1, <2>2, <3>1, <3>2, SoloMoves DEF Leased
  <2>. QED BY <2>3, <2>4
<1>. QED BY <1>4, <1>5, <1>6, <1>7, <1>8

(* What goes wrong is counted.                                             *)
LEMMA FaultsCount ==
  ASSUME RestTypes, [Next]_vars
  PROVE  faults' = faults \/ (Fault /\ faults' = faults + 1 /\ faults' # 0)
<1>. USE DEF env
<1>1. CASE \E r \in Runs : RunStep(r)
  BY <1>1 DEF RunStep, Bind, Claim, Guard, Load, Reserve, Respond, Deadline, Settle, Unanswered, Save, End,
              ReadStatus, WriteStatus, Release, Unbind, Report, RunOnly
<1>2. CASE Fault
  BY <1>2 DEF Fault, RestTypes
<1>3. CASE \E o \in Operations, add \in BOOLEAN : Extend(o, add)
  BY <1>3 DEF Extend, ResumeOnly
<1>4. CASE \E o \in Operations : RetryResume(o)
  BY <1>4 DEF RetryResume, ResumeOnly
<1>. QED BY <1>1, <1>2, <1>3, <1>4
         DEF Next, Renew, Intake, Skip, ResumeStep, Replay, PauseRead, CancelRead, ControlWrite, UserOnly, vars

LEMMA StaysWithoutOverlap ==
  ASSUME RestTypes, [Next]_vars, NoOverlap'
  PROVE  NoOverlap
BY FaultsCount DEF NoOverlap, RestTypes

LEMMA StartKeepsSolo ==
  ASSUME FenceInv, SoloInv, NEW r \in Runs, NEW m \in queue, Start(r, m), Alone
  PROVE  SoloInv'
<1>1. \A q \in Runs : pc[q] \notin Bound /\ pc[q] \in {"new", "ended"}
  BY DEF Alone, Alive, Bound
<1>2. /\ pc' = [pc EXCEPT ![r] = "bind"] /\ fence' = fence /\ budget' = budget
  BY DEF Start, At, ledger
<1>3. \A q \in Runs : pc'[q] = IF q = r THEN "bind" ELSE pc[q]
  BY <1>2 DEF FenceInv
<1>4. budget.until = 0 /\ \A q \in Runs : fence # q
  BY <1>1 DEF SoloInv, Leased
<1>. QED BY <1>1, <1>2, <1>3, <1>4 DEF SoloInv, Alive, Leased, Bound

LEMMA NextKeepsSolo ==
  ASSUME FenceInv, MoneyInv, RestTypes, SoloInv, [Next]_vars, NoOverlap'
  PROVE  SoloInv'
<1>. USE DEF ledger
<1>1. CASE \E r \in Runs : RunStep(r)
  BY <1>1, RunKeepsSolo
<1>2. CASE \E r \in Runs : Renew(r)
  <2>1. PICK r \in Runs : Renew(r)
    BY <1>2
  <2>2. CASE budget' = budget
    BY <2>1, <2>2, SoloRests DEF Renew
  <2>3. CASE Live /\ budget' = [Accrued EXCEPT !.until = clock + Lease]
    <3>. DEFINE b == Accrued
    <3>1. b \in Rows /\ b.owner = budget.owner /\ budget.until \in Nat /\ clock \in Nat
      BY AccrueFits, MeterReads DEF MoneyInv, RowInv, Rows
    <3>2. budget.until # 0
      BY <2>3, <3>1 DEF Live
    <3>. HIDE DEF b
    <3>3. budget'.owner = budget.owner
      BY <2>3, <3>1 DEF Rows, b
    <3>. QED BY <2>1, <3>2, <3>3, SoloRests DEF Renew
  <2>. QED BY <2>1, <2>2, <2>3 DEF Renew
<1>3. CASE Intake
  BY <1>3, SoloRests, StartKeepsSolo DEF Intake, Skip
<1>4. CASE ResumeStep
  BY <1>4, SoloRests DEF ResumeStep, Publish, Replay, PublishOnly
<1>5. CASE PauseRead \/ CancelRead \/ ControlWrite
  BY <1>5, SoloRests DEF PauseRead, CancelRead, ControlWrite, UserOnly
<1>6. CASE \E o \in Operations, add \in BOOLEAN : Extend(o, add)
  <2>1. PICK o \in Operations, add \in BOOLEAN : Extend(o, add)
    BY <1>6
  <2>. DEFINE b == Accrued
  <2>2. b \in Rows /\ b.owner = budget.owner /\ b.until = budget.until
    BY AccrueFits
  <2>3. budget' = [b EXCEPT !.limits = Plus(b.limits, add), !.reason = "none"]
    BY <2>1 DEF Extend
  <2>. HIDE DEF b
  <2>4. budget'.owner = budget.owner /\ budget'.until = budget.until
    BY <2>2, <2>3 DEF Rows
  <2>. QED BY <2>1, <2>4, SoloRests DEF Extend, ResumeOnly
<1>7. CASE \E o \in Operations : RetryResume(o)
  <2>1. PICK o \in Operations : RetryResume(o)
    BY <1>7
  <2>2. budget' = [budget EXCEPT !.reason = "none", !.limits = budget.limits] /\ budget \in Rows
    BY <2>1 DEF RetryResume, KeptLimits, MoneyInv, RowInv
  <2>3. budget'.owner = budget.owner /\ budget'.until = budget.until
    BY <2>2 DEF Rows
  <2>. QED BY <2>1, <2>3, SoloRests DEF RetryResume, ResumeOnly
<1>8. CASE Tick
  BY <1>8, SoloRests DEF Tick
<1>9. CASE Fault
  <2>1. Kinds \cap {"crash", "lock"} = {}
    BY <1>9 DEF NoOverlap, Fault, RestTypes
  <2>2. CASE \E r \in Runs : SaveFails(r)
    <3>1. PICK r \in Runs : SaveFails(r)
      BY <2>2
    <3>2. PICK to \in {"release", "guard", "end"} : pc[r] = "save" /\ pc' = [pc EXCEPT ![r] = to]
      BY <3>1 DEF SaveFails, Raise, Onwards, At
    <3>3. UNCHANGED <<budget, fence>>
      BY <3>1 DEF SaveFails
    <3>. QED BY <3>2, <3>3, SoloMoves DEF Alive, Bound, Leased
  <2>3. CASE \E o \in Operations : PublishNack(o) \/ PublishUncertain(o)
    BY <2>3, SoloRests DEF PublishNack, PublishUncertain, PublishOnly
  <2>. QED BY <1>8, <1>9, <2>1, <2>2, <2>3 DEF Fault
<1>10. CASE UNCHANGED vars
  BY <1>10, SoloRests DEF vars
<1>. QED BY <1>1, <1>2, <1>3, <1>4, <1>5, <1>6, <1>7, <1>8, <1>9, <1>10 DEF Next

LEMMA AllSolo == Spec => [](BaseInv /\ RestTypes /\ (NoOverlap => SoloInv))
<1>1. Init => RestTypes /\ SoloInv
  <2>. SUFFICES ASSUME Init PROVE SoloInv
    BY InitTypes
  <2>1. NoRun \notin Runs
    BY BudgetAssumption
  <2>. QED BY <2>1 DEF Init, SoloInv, Alive, Leased, Bound
<1>2. BaseInv /\ RestTypes /\ (NoOverlap => SoloInv) /\ [Next]_vars => (RestTypes /\ (NoOverlap => SoloInv))'
  <2>. SUFFICES ASSUME BaseInv, RestTypes, NoOverlap => SoloInv, [Next]_vars, NoOverlap'
                PROVE  SoloInv'
    BY NextKeepsTypes DEF BaseInv
  <2>1. SoloInv
    BY StaysWithoutOverlap
  <2>. QED BY <2>1, NextKeepsSolo DEF BaseInv
<1>. QED BY <1>1, <1>2, AllBase, PTL DEF Spec

---------------------------------------------------------------------------
(* Who carries a task.  A queued one has a message that process will take, *)
(* or an operation whose message is to come; a running one has a message   *)
(* or a run that was started for the operation in force, that will end by  *)
(* writing a status or by returning its message, and that no older owner   *)
(* of the lease keeps from reporting.                                      *)

Waits    == \E m \in queue : Current(m)
Sends    == op # 0 /\ receipt[op] \in {"sending", "uncertain"}
Works(r) == /\ Alive(r) /\ Current(run[r].op)
            /\ pc[r] \in {"release", "unbind"} => run[r].why # "ok"
            /\ pc[r] \in {"bind", "claim"} \/ budget.owner = r

CarryInv ==
  /\ status = "queued" => Waits \/ Sends
  /\ status = "running" => Waits \/ \E r \in Runs : Works(r)

(* A step that loses no message for a task that goes on.                   *)
LEMMA StillCarried ==
  ASSUME CarryInv, op' = op, receipt' = receipt,
         \A m \in queue : Current(m) /\ status \in {"queued", "running"} => m \in queue',
         status' \in {"queued", "running"} => status' = status,
         status' = "running" => \A r \in Runs : Works(r) => Works(r)' \/ Waits'
  PROVE  CarryInv'
BY DEF CarryInv, Waits, Sends, Current

LEMMA RunStepAlive ==
  ASSUME NEW r \in Runs, RunStep(r)
  PROVE  Alive(r)
BY DEF RunStep, Bind, Claim, Guard, Load, Reserve, Respond, Deadline, Settle, Unanswered, Save, End,
       ReadStatus, WriteStatus, Release, Unbind, Report, At, Raise, Onwards, Alive

(* The run that carries a running task goes on, or writes a status, or     *)
(* returns its message.                                                    *)
LEMMA RunCarriesOn ==
  ASSUME FenceInv, MoneyInv, RestTypes, SoloInv, NEW r \in Runs, RunStep(r), Works(r),
         status = "running", status' = "running"
  PROVE  Works(r)' \/ Waits'
<1>. USE DEF ledger, resume, AllSteps
<1>0. run \in [Runs -> Carries] /\ pc \in [Runs -> AllSteps]
  BY DEF MoneyInv, RunInv, FenceInv
<1>1. ASSUME pc'[r] \notin {"new", "ended"}, op' = op, run'[r].op = run[r].op,
             pc'[r] \in {"release", "unbind"} => run'[r].why # "ok",
             budget'.owner = r
      PROVE  Works(r)'
  BY <1>1 DEF Works, Alive, Current
<1>2. op' = op
  BY DEF RunStep, Bind, Claim, Guard, Load, Reserve, Respond, Deadline, Settle, Unanswered, Save, End,
         ReadStatus, WriteStatus, Release, Unbind, Report, RunOnly
<1>3. Fenced(r) \in {"ok", "error"} /\ (fence = r => Fenced(r) = "ok")
  BY DEF Fenced
<1>4. CASE Bind(r)
  <2>1. pc' = [pc EXCEPT ![r] = "claim"] /\ run' = run
    BY <1>4, FindsItFree DEF Bind, At, Raise
  <2>. QED BY <1>0, <1>2, <2>1 DEF Works, Alive, Current
<1>5. CASE Claim(r)
  <2>1. pc[r] = "claim" /\ fence = r
    BY <1>5 DEF Claim, At, Raise, FenceInv, Bound
  <2>2. /\ pc' = [pc EXCEPT ![r] = "guard"] /\ run' = run
        /\ budget' = [Accrued EXCEPT !.owner = r, !.since = clock, !.until = clock + Lease]
    BY <1>3, <1>5, <2>1, FindsItFree DEF Claim, At, Raise
  <2>3. clock + Lease \in Nat
    BY BudgetAssumption DEF MoneyInv
  <2>4. budget'.owner = r
    BY <2>2, <2>3, ClaimedRow
  <2>5. pc'[r] = "guard"
    BY <1>0, <2>2
  <2>. QED BY <1>1, <1>2, <2>2, <2>4, <2>5
<1>6. CASE Release(r)
  <2>1. pc[r] = "release" /\ pc' = [pc EXCEPT ![r] = "unbind"] /\ run' = run /\ budget.owner = r
    BY <1>6 DEF Release, At, Works
  <2>2. budget'.owner = r
    <3>. DEFINE b == Accrued
    <3>1. b \in Rows /\ b.owner = budget.owner
      BY AccrueFits
    <3>2. budget' = budget \/ budget' = [b EXCEPT !.since = 0, !.until = 0]
      BY <1>6 DEF Release
    <3>. HIDE DEF b
    <3>3. CASE budget' = budget
      BY <2>1, <3>3
    <3>4. CASE budget' = [b EXCEPT !.since = 0, !.until = 0]
      BY <2>1, <3>1, <3>4 DEF Rows
    <3>. QED BY <3>2, <3>3, <3>4
  <2>3. pc'[r] = "unbind"
    BY <1>0, <2>1
  <2>. QED BY <1>1, <1>2, <2>1, <2>2, <2>3 DEF Works
<1>7. CASE Unbind(r)
  <2>1. pc[r] = "unbind" /\ run' = run /\ budget' = budget /\ budget.owner = r /\ run[r].why # "ok"
    BY <1>7 DEF Unbind, At, Works
  <2>2. CASE run[r].why = "retry"
    <3>1. run[r].op \in queue'
      BY <1>7, <2>2 DEF Unbind, Returned
    <3>. QED BY <1>2, <3>1 DEF Waits, Works, Current
  <2>3. CASE run[r].why # "retry"
    <3>1. pc' = [pc EXCEPT ![r] = "report"]
      BY <1>7, <2>1, <2>3 DEF Unbind, At
    <3>2. pc'[r] = "report"
      BY <1>0, <3>1
    <3>. QED BY <1>1, <1>2, <2>1, <3>2
  <2>. QED BY <2>2, <2>3
<1>8. CASE Report(r)
  <2>1. pc[r] = "report" /\ budget.owner = r
    BY <1>8 DEF Report, At, Works
  <2>2. status' = "paused"
    BY <1>8, <2>1 DEF Report, Superseded
  <2>. QED BY <2>2
<1>9. CASE ~ (Bind(r) \/ Claim(r) \/ Release(r) \/ Unbind(r) \/ Report(r))
  <2>1. ~ WriteStatus(r)
    BY DEF WriteStatus
  <2>2. pc[r] \in Leased
    BY <1>9 DEF RunStep, Guard, Load, Reserve, Respond, Deadline, Settle, Unanswered, Save, End,
                ReadStatus, WriteStatus, At, Raise, Onwards, Leased, Bound
  <2>3. budget'.owner = r
    BY <1>9, <2>2, LeaseStays DEF SoloInv
  <2>4. ASSUME NEW from, NEW w \in {"stopped", "cost_limit", "error", "retry"}, Raise(r, from, "release", w)
        PROVE  Works(r)'
    <3>1. pc' = [pc EXCEPT ![r] = "release"] /\ run'[r].op = run[r].op /\ run'[r].why = w
      BY <1>0, <2>4 DEF Raise, At, Carries
    <3>2. pc'[r] = "release"
      BY <1>0, <3>1
    <3>. QED BY <1>1, <1>2, <2>3, <3>1, <3>2
  <2>5. ASSUME NEW to \in {"guard", "load", "reserve", "http", "settle", "save", "end", "status", "write"},
               pc' = [pc EXCEPT ![r] = to], run'[r].op = run[r].op
        PROVE  Works(r)'
    <3>1. pc'[r] = to
      BY <1>0, <2>5
    <3>. QED BY <1>1, <1>2, <2>3, <2>5, <3>1
  <2>6. Fenced(r) \in {"ok", "stopped", "error"} /\ Refused(r) \in {"ok", "stopped", "error"}
    BY AnswersAreReasons
  <2>7. ASSUME NEW from, Onwards(r, from) PROVE Works(r)'
    BY <1>0, <2>5, <2>7 DEF Onwards, At, Carries
  <2>8. CASE Guard(r)
    BY <2>4, <2>5, <2>6, <2>8 DEF Guard, At
  <2>9. CASE Load(r)
    BY <2>4, <2>5, <2>6, <2>7, <2>9 DEF Load, At
  <2>10. CASE Reserve(r)
    <3>1. CASE attempts' = attempts /\ \E w \in {"stopped", "error", "cost_limit"} : Raise(r, "reserve", "release", w)
      BY <2>4, <3>1
    <3>2. CASE /\ At(r, "reserve", "http")
               /\ \E p, d : run' = [run EXCEPT ![r].permit = p, ![r].deadline = d]
      BY <1>0, <2>5, <3>2 DEF At, Carries
    <3>. QED BY <2>6, <2>10, <3>1, <3>2 DEF Reserve
  <2>11. CASE Respond(r)
    BY <1>0, <2>5, <2>11 DEF Respond, At, Carries
  <2>12. CASE Deadline(r)
    BY <2>4, <2>12 DEF Deadline
  <2>13. CASE Settle(r)
    BY <2>4, <2>5, <2>7, <2>13, SettleSteps DEF At
  <2>14. CASE Save(r)
    BY <2>4, <2>6, <2>7, <2>14 DEF Save
  <2>15. CASE End(r)
    BY <2>4, <2>5, <2>6, <2>15 DEF End, At
  <2>16. CASE ReadStatus(r)
    BY <2>5, <2>16 DEF ReadStatus, At
  <2>. QED BY <1>9, <2>1, <2>8, <2>9, <2>10, <2>11, <2>12, <2>13, <2>14, <2>15, <2>16 DEF RunStep
<1>. QED BY <1>4, <1>5, <1>6, <1>7, <1>8, <1>9

LEMMA RunKeepsCarry ==
  ASSUME FenceInv, MoneyInv, RestTypes, SoloInv, CarryInv, NEW r \in Runs, RunStep(r)
  PROVE  CarryInv'
<1>. USE DEF RunOnly, env, resume, ledger
<1>1. op' = op /\ receipt' = receipt /\ queue \subseteq queue'
  BY DEF RunStep, Bind, Claim, Guard, Load, Reserve, Respond, Deadline, Settle, Unanswered, Save, End,
         ReadStatus, WriteStatus, Release, Unbind, Returned, Report
<1>2. status' \in {"queued", "running"} => status' = status
  BY DEF RunStep, Bind, Claim, Guard, Load, Reserve, Respond, Deadline, Settle, Unanswered, Save, End,
         ReadStatus, WriteStatus, Release, Unbind, Report
<1>3. \A q \in Runs : Works(q) => q = r
  BY RunStepAlive DEF SoloInv, Works
<1>4. ASSUME status' = "running", NEW q \in Runs, Works(q)
      PROVE  Works(q)' \/ Waits'
  BY <1>2, <1>3, <1>4, RunCarriesOn
<1>. QED BY <1>1, <1>2, <1>4, StillCarried

LEMMA StartCarries ==
  ASSUME FenceInv, MoneyInv, NEW r \in Runs, NEW m \in queue, Start(r, m)
  PROVE  CarryInv'
<1>1. run \in [Runs -> Carries] /\ pc \in [Runs -> AllSteps]
  BY DEF MoneyInv, RunInv, FenceInv
<1>2. /\ pc' = [pc EXCEPT ![r] = "bind"] /\ run' = [run EXCEPT ![r].op = m]
      /\ status' = "running" /\ op' = op /\ Current(m)
  BY DEF Start, At, resume
<1>3. pc'[r] = "bind" /\ run'[r].op = m
  BY <1>1, <1>2 DEF Carries
<1>4. Works(r)'
  BY <1>2, <1>3 DEF Works, Alive, Current
<1>. QED BY <1>2, <1>4 DEF CarryInv

LEMMA NextKeepsCarry ==
  ASSUME FenceInv, MoneyInv, RestTypes, SoloInv, CarryInv, [Next]_vars,
         Kinds \cap {"crash", "lock"} = {}
  PROVE  CarryInv'
<1>. USE DEF env, resume, ledger
<1>0. run \in [Runs -> Carries] /\ pc \in [Runs -> AllSteps] /\ receipt \in [Operations -> Receipts]
  BY DEF MoneyInv, RunInv, FenceInv, RestTypes
<1>1. ASSUME UNCHANGED <<pc, run, op>>, budget'.owner = budget.owner
      PROVE  \A r \in Runs : Works(r) => Works(r)'
  BY <1>1 DEF Works, Alive, Current
<1>2. CASE \E r \in Runs : RunStep(r)
  BY <1>2, RunKeepsCarry
<1>3. CASE \E r \in Runs : Renew(r)
  <2>1. PICK r \in Runs : Renew(r)
    BY <1>3
  <2>. DEFINE b == Accrued
  <2>2. b \in Rows /\ b.owner = budget.owner
    BY AccrueFits
  <2>3. budget' = budget \/ budget' = [b EXCEPT !.until = clock + Lease]
    BY <2>1 DEF Renew
  <2>. HIDE DEF b
  <2>4. budget'.owner = budget.owner
    BY <2>2, <2>3 DEF Rows
  <2>5. UNCHANGED <<pc, run, op, receipt, queue, status>>
    BY <2>1 DEF Renew
  <2>. QED BY <1>1, <2>4, <2>5, StillCarried
<1>4. CASE \E m \in queue : Skip(m)
  BY <1>1, <1>4, StillCarried DEF Skip
<1>5. CASE \E r \in Runs, m \in queue : Start(r, m)
  BY <1>5, StartCarries
<1>6. ASSUME NEW o \in Operations,
             Publish(o) \/ Replay(o) \/ PublishNack(o) \/ PublishUncertain(o)
      PROVE  CarryInv'
  <2>1. UNCHANGED <<pc, run, op, budget>> /\ queue \subseteq queue' /\ Operations \subseteq 1..MaxResumes
    BY <1>6 DEF Publish, Replay, PublishNack, PublishUncertain, Published, PublishOnly, Operations
  <2>2. PICK x \in Receipts : receipt' = [receipt EXCEPT ![o] = x]
    BY <1>6 DEF Publish, Replay, PublishNack, PublishUncertain, Published, Receipts
  <2>3. Waits => Waits'
    BY <2>1 DEF Waits, Current
  <2>4. status' \in {"queued", "running"} => status' = status
    BY <1>6 DEF Publish, Replay, PublishNack, PublishUncertain, NackedStatus
  <2>5. ASSUME status' = "queued", Sends PROVE Sends' \/ Waits'
    <3>1. CASE op # o
      BY <1>0, <2>1, <2>2, <2>5, <3>1 DEF Sends
    <3>2. CASE op = o /\ (Publish(o) \/ Replay(o))
      <4>1. o \in queue'
        BY <3>2 DEF Publish, Replay
      <4>. QED BY <2>1, <3>2, <4>1 DEF Waits, Current
    <3>3. CASE op = o /\ PublishNack(o)
      BY <2>4, <2>5, <3>3 DEF PublishNack, NackedStatus
    <3>4. CASE op = o /\ PublishUncertain(o)
      <4>1. receipt'[o] = "uncertain"
        BY <1>0, <3>4 DEF PublishUncertain, Published
      <4>. QED BY <2>1, <2>5, <3>4, <4>1 DEF Sends
    <3>. QED BY <1>6, <3>1, <3>2, <3>3, <3>4
  <2>6. \A r \in Runs : Works(r) => Works(r)'
    BY <1>1, <2>1
  <2>. QED BY <2>3, <2>4, <2>5, <2>6 DEF CarryInv
<1>7. CASE PauseRead \/ CancelRead
  BY <1>1, <1>7, StillCarried DEF PauseRead, CancelRead, UserOnly
<1>8. CASE ControlWrite
  BY <1>8 DEF ControlWrite, CarryInv
<1>9. ASSUME NEW o \in Operations, Queue(o) PROVE CarryInv'
  <2>1. status' = "queued" /\ op' = o /\ receipt'[o] = "sending"
    BY <1>0, <1>9 DEF Queue
  <2>2. o # 0
    BY BudgetAssumption DEF Operations
  <2>. QED BY <2>1, <2>2 DEF CarryInv, Sends
<1>10. CASE \E o \in Operations, add \in BOOLEAN : Extend(o, add)
  BY <1>9, <1>10 DEF Extend
<1>11. CASE \E o \in Operations : RetryResume(o)
  BY <1>9, <1>11 DEF RetryResume
<1>12. CASE Tick
  BY <1>1, <1>12, StillCarried DEF Tick
<1>13. CASE Fault
  <2>1. CASE \E r \in Runs : SaveFails(r)
    <3>1. PICK r \in Runs : SaveFails(r)
      BY <2>1
    <3>2. /\ pc[r] = "save" /\ UNCHANGED <<status, op, receipt, queue, budget>>
          /\ \/ pc' = [pc EXCEPT ![r] = "release"] /\ run' = [run EXCEPT ![r].why = "retry"]
             \/ \E to \in {"guard", "end"} : \E c : pc' = [pc EXCEPT ![r] = to] /\ run' \in {run, [run EXCEPT ![r].call = c]}
      BY <3>1 DEF SaveFails, At, Raise, Onwards
    <3>3. \A q \in Runs : /\ run'[q].op = run[q].op
                          /\ q # r => run'[q].why = run[q].why /\ pc'[q] = pc[q]
      BY <1>0, <3>2 DEF Carries
    <3>4. pc'[r] \in {"guard", "end"} \/ (pc'[r] = "release" /\ run'[r].why = "retry")
      <4>1. CASE pc' = [pc EXCEPT ![r] = "release"] /\ run' = [run EXCEPT ![r].why = "retry"]
        BY <1>0, <4>1 DEF Carries
      <4>2. CASE \E to \in {"guard", "end"} : pc' = [pc EXCEPT ![r] = to]
        BY <1>0, <4>2
      <4>. QED BY <3>2, <4>1, <4>2
    <3>5. \A q \in Runs : Works(q) => Works(q)'
      BY <3>2, <3>3, <3>4 DEF Works, Alive, Current
    <3>. QED BY <3>2, <3>5, StillCarried
  <2>. QED BY <1>6, <1>12, <1>13, <2>1 DEF Fault
<1>14. CASE UNCHANGED vars
  BY <1>1, <1>14, StillCarried DEF vars
<1>. QED BY <1>2, <1>3, <1>4, <1>5, <1>6, <1>7, <1>8, <1>10, <1>11, <1>12, <1>13, <1>14
         DEF Next, Intake, ResumeStep

(* A task that is queued or running does not stand there for ever without  *)
(* anything to move it, whatever the broker refuses or leaves open, however*)
(* late a heartbeat and whenever the user pauses, cancels or resumes.  A   *)
(* process that dies keeps the fence, and then it does (see the README).   *)
THEOREM CarriedHolds ==
  ASSUME Kinds \cap {"crash", "lock"} = {}
  PROVE  Spec => []Carried
<1>1. Init => CarryInv
  BY DEF Init, CarryInv, Waits, Current
<1>2. BaseInv /\ RestTypes /\ (NoOverlap => SoloInv) /\ CarryInv /\ [Next]_vars => CarryInv'
  BY NextKeepsCarry DEF BaseInv, NoOverlap
<1>3. CarryInv => Carried
  BY DEF CarryInv, Carried, Waits, Sends, Works
<1>. QED BY <1>1, <1>2, <1>3, AllSolo, PTL DEF Spec

---------------------------------------------------------------------------
(* What is paid for and lost.  A run at stake is doomed when it will be    *)
(* refused before it saves anything more: by then the stop, or the fault   *)
(* that cost it its lease, is counted.                                     *)

AtStake == {"guard", "load", "reserve", "http", "settle", "save"}

Doomed == \E r \in Runs : pc[r] \in AtStake /\ (status \in {"paused", "cancelled"} \/ ~Live)

Bit(b) == IF b THEN 1 ELSE 0

(* A run with the lease owns it, and beats for it while it is alive.       *)
StakeInv ==
  \A r \in Runs : pc[r] \in Leased => budget.owner = r /\ (Live => r \in beats)

LossInv ==
  Cardinality(Paid) + Bit(Doomed) + Bit(api # "idle")
    <= Cardinality(saved) + Cardinality(Saving) + faults + stops

LEMMA StakeRests ==
  ASSUME StakeInv, UNCHANGED <<pc, beats>>, budget'.owner = budget.owner, Live' => Live
  PROVE  StakeInv'
BY DEF StakeInv

LEMMA OthersUnleased ==
  ASSUME FenceInv, NEW r \in Runs, pc[r] \in Bound
  PROVE  \A q \in Runs : q # r => pc[q] \notin Bound /\ pc[q] \notin Leased
BY DEF FenceInv, Leased

LEMMA RunKeepsStake ==
  ASSUME FenceInv, MoneyInv, StakeInv, NEW r \in Runs, RunStep(r)
  PROVE  StakeInv'
<1>. USE DEF ledger, env, AllSteps
<1>2. clock' = clock /\ pc \in [Runs -> AllSteps]
  BY DEF RunStep, Bind, Claim, Guard, Load, Reserve, Respond, Deadline, Settle, Save, End,
         ReadStatus, WriteStatus, Release, Unbind, Report, RunOnly, FenceInv
<1>3. CASE Claim(r)
  <2>1. pc[r] = "claim" /\ pc[r] \in Bound
    BY <1>3 DEF Claim, At, Raise, Bound
  <2>2. CASE pc' = [pc EXCEPT ![r] = "unbind"] /\ UNCHANGED <<budget, beats>>
    BY <1>2, <2>2 DEF StakeInv, Leased, Live
  <2>3. CASE /\ pc' = [pc EXCEPT ![r] = "guard"] /\ beats' = beats \cup {r}
             /\ budget' = [Accrued EXCEPT !.owner = r, !.since = clock, !.until = clock + Lease]
    <3>1. clock + Lease \in Nat
      BY BudgetAssumption DEF MoneyInv
    <3>2. budget'.owner = r
      BY <2>3, <3>1, ClaimedRow
    <3>3. \A q \in Runs : q # r => pc'[q] \notin Leased
      BY <1>2, <2>1, <2>3, OthersUnleased
    <3>. QED BY <2>3, <3>2, <3>3 DEF StakeInv
  <2>. QED BY <1>3, <2>2, <2>3 DEF Claim, At, Raise
<1>4. CASE Release(r)
  <2>1. pc[r] \in Bound /\ pc' = [pc EXCEPT ![r] = "unbind"]
    BY <1>4 DEF Release, At, Bound
  <2>2. \A q \in Runs : pc'[q] \notin Leased
    BY <1>2, <2>1, OthersUnleased DEF Leased
  <2>. QED BY <2>2 DEF StakeInv
<1>5. CASE ~ Claim(r) /\ ~ Release(r)
  <2>1. budget'.owner = budget.owner /\ budget'.until = budget.until
    BY <1>5, LeaseStays
  <2>2. beats' = beats
    BY <1>5 DEF RunStep, Bind, Guard, Load, Reserve, Respond, Deadline, Settle, Save, End,
                ReadStatus, WriteStatus, Unbind, Report, RunOnly
  <2>3. PICK to : pc' = [pc EXCEPT ![r] = to] /\ (to \in Leased => pc[r] \in Leased)
    BY <1>5 DEF RunStep, Bind, Guard, Load, Reserve, Respond, Deadline, Settle, Unanswered, Save, End,
                ReadStatus, WriteStatus, Unbind, Report, At, Raise, Onwards, Leased, Bound
  <2>. QED BY <1>2, <2>1, <2>2, <2>3 DEF StakeInv, Live
<1>. QED BY <1>3, <1>4, <1>5

(* A lease that lives is not longer than before, but for its owner.        *)
LEMMA RenewKeepsStake ==
  ASSUME MoneyInv, StakeInv, NEW r \in Runs, Renew(r)
  PROVE  StakeInv' /\ (Live => Live')
<1>1. UNCHANGED <<pc, clock>>
  BY DEF Renew, env
<1>2. CASE budget.owner = r /\ Live
  <2>. DEFINE b == Accrued
  <2>1. b \in Rows /\ b.owner = budget.owner /\ clock + Lease \in Nat /\ clock + Lease > clock
    BY AccrueFits, BudgetAssumption DEF MoneyInv
  <2>2. budget' = [b EXCEPT !.until = clock + Lease] /\ beats' = beats
    BY <1>2 DEF Renew
  <2>. HIDE DEF b
  <2>3. budget'.owner = budget.owner /\ budget'.until = clock + Lease
    BY <2>1, <2>2 DEF Rows
  <2>. QED BY <1>1, <1>2, <2>1, <2>2, <2>3 DEF StakeInv, Live
<1>3. CASE ~ (budget.owner = r /\ Live)
  <2>1. beats' = beats \ {r} /\ budget' = budget
    BY <1>3 DEF Renew
  <2>. QED BY <1>1, <1>3, <2>1 DEF StakeInv, Live
<1>. QED BY <1>2, <1>3

LEMMA ExtendKeepsStake ==
  ASSUME MoneyInv, StakeInv,
         \/ \E o \in Operations, add \in BOOLEAN : Extend(o, add)
         \/ \E o \in Operations : RetryResume(o)
  PROVE  StakeInv' /\ Live' = Live /\ UNCHANGED <<attempts, saved, pc, env>> /\ status' = "queued"
<1>. DEFINE b == Accrued
<1>1. b \in Rows /\ b.owner = budget.owner /\ b.until = budget.until /\ budget \in Rows
  BY AccrueFits DEF MoneyInv, RowInv
<1>2. /\ UNCHANGED <<attempts, saved, pc, beats, env>> /\ clock' = clock /\ status' = "queued"
      /\ \E lim : \/ budget' = [b EXCEPT !.limits = lim, !.reason = "none"]
                  \/ budget' = [budget EXCEPT !.reason = "none", !.limits = lim]
  BY DEF Extend, RetryResume, Queue, ResumeOnly, env
<1>. HIDE DEF b
<1>3. budget'.owner = budget.owner /\ budget'.until = budget.until
  BY <1>1, <1>2 DEF Rows
<1>. QED BY <1>2, <1>3, StakeRests DEF Live

LEMMA StartKeepsStake ==
  ASSUME FenceInv, StakeInv, NEW r \in Runs, NEW m \in queue, Start(r, m), clock' = clock
  PROVE  /\ StakeInv' /\ UNCHANGED <<attempts, saved>> /\ Saving' = Saving
         /\ status' = "running" /\ Live' = Live /\ (Doomed' => Doomed)
<1>1. /\ pc' = [pc EXCEPT ![r] = "bind"] /\ pc[r] = "new" /\ status' = "running"
      /\ UNCHANGED <<budget, attempts, saved, beats>>
  BY DEF Start, At, ledger
<1>2. \A q \in Runs : pc'[q] = IF q = r THEN "bind" ELSE pc[q]
  BY <1>1 DEF FenceInv
<1>3. Live' = Live
  BY <1>1 DEF Live
<1>. QED BY <1>1, <1>2, <1>3 DEF StakeInv, Saving, Doomed, AtStake, Leased, Bound

LEMMA FaultKeepsStake ==
  ASSUME FenceInv, MoneyInv, StakeInv, Fault
  PROVE  StakeInv'
<1>. USE DEF ledger
<1>0. pc \in [Runs -> AllSteps] /\ clock \in Nat /\ budget.until \in Nat
  BY DEF FenceInv, MoneyInv, RowInv, Rows
<1>1. CASE clock' = clock /\ \E r \in Runs : SaveFails(r)
  <2>1. PICK r \in Runs, to \in {"release", "guard", "end"} :
           pc[r] = "save" /\ pc' = [pc EXCEPT ![r] = to] /\ UNCHANGED <<budget, beats>>
    BY <1>1 DEF SaveFails, Raise, Onwards, At
  <2>. QED BY <1>0, <1>1, <2>1 DEF StakeInv, Live, Leased, Bound
<1>2. CASE clock' = clock /\ \E r \in Runs : Crash(r)
  <2>1. PICK r \in Runs : pc' = [pc EXCEPT ![r] = "ended"] /\ beats' = beats \ {r} /\ budget' = budget
    BY <1>2 DEF Crash
  <2>. QED BY <1>0, <1>2, <2>1 DEF StakeInv, Live, Leased, Bound
<1>3. CASE clock' = clock /\ \E o \in Operations : PublishNack(o) \/ PublishUncertain(o)
  BY <1>3, StakeRests DEF PublishNack, PublishUncertain, PublishOnly, Live
<1>4. CASE clock' = clock /\ LockLost
  BY <1>4, StartKeepsStake DEF LockLost
<1>5. CASE Tick
  BY <1>0, <1>5, StakeRests DEF Tick, Live
<1>. QED BY <1>1, <1>2, <1>3, <1>4, <1>5 DEF Fault

LEMMA NextKeepsStake ==
  ASSUME FenceInv, MoneyInv, StakeInv, [Next]_vars
  PROVE  StakeInv'
<1>. USE DEF ledger, env
<1>0. clock \in Nat /\ budget.until \in Nat
  BY DEF MoneyInv, RowInv, Rows
<1>1. CASE \E r \in Runs : RunStep(r)
  BY <1>1, RunKeepsStake
<1>2. CASE \E r \in Runs : Renew(r)
  BY <1>2, RenewKeepsStake
<1>3. CASE Intake
  BY <1>3, StakeRests, StartKeepsStake DEF Intake, Skip, Live
<1>4. CASE ResumeStep
  BY <1>4, StakeRests DEF ResumeStep, Publish, Replay, PublishOnly, Live
<1>5. CASE PauseRead \/ CancelRead \/ ControlWrite
  BY <1>5, StakeRests DEF PauseRead, CancelRead, ControlWrite, UserOnly, Live
<1>6. CASE (\E o \in Operations, add \in BOOLEAN : Extend(o, add)) \/ (\E o \in Operations : RetryResume(o))
  BY <1>6, ExtendKeepsStake
<1>7. CASE Tick
  BY <1>0, <1>7, StakeRests DEF Tick, Live
<1>8. CASE Fault
  BY <1>8, FaultKeepsStake
<1>9. CASE UNCHANGED vars
  BY <1>9, StakeRests DEF vars, Live
<1>. QED BY <1>1, <1>2, <1>3, <1>4, <1>5, <1>6, <1>7, <1>8, <1>9 DEF Next

(* No step of a run dooms a run: it leaves the status and the lease of     *)
(* another alone, or there is no other at stake.                           *)
LEMMA RunDooms ==
  ASSUME FenceInv, MoneyInv, RestTypes, StakeInv, NEW r \in Runs, RunStep(r), Doomed'
  PROVE  Doomed
<1>. USE DEF ledger, env, AllSteps
<1>1. pc \in [Runs -> AllSteps] /\ clock' = clock /\ clock \in Nat
  BY DEF FenceInv, MoneyInv, RunStep, Bind, Claim, Guard, Load, Reserve, Respond, Deadline, Settle, Save,
         End, ReadStatus, WriteStatus, Release, Unbind, Report, RunOnly
<1>2. PICK q \in Runs : pc'[q] \in AtStake /\ (status' \in {"paused", "cancelled"} \/ ~ Live')
  BY DEF Doomed
<1>3. CASE Claim(r) \/ Release(r) \/ WriteStatus(r) \/ ReadStatus(r) \/ Unbind(r) \/ End(r)
  <2>1. pc[r] \in Bound
    BY <1>3 DEF Claim, Release, WriteStatus, ReadStatus, Unbind, End, At, Raise, Bound
  <2>2. PICK to : pc' = [pc EXCEPT ![r] = to] /\ (to \in AtStake => Claim(r) /\ to = "guard")
    BY <1>3 DEF Claim, Release, WriteStatus, ReadStatus, Unbind, End, At, Raise, AtStake
  <2>3. q = r /\ Claim(r) /\ pc'[r] = "guard"
    BY <1>1, <1>2, <2>1, <2>2, OthersUnleased DEF AtStake, Bound
  <2>4. /\ budget' = [Accrued EXCEPT !.owner = r, !.since = clock, !.until = clock + Lease]
        /\ Fenced(r) = "ok" /\ status' = status
    BY <1>1, <2>3 DEF Claim, At, Raise
  <2>5. clock + Lease \in Nat /\ clock + Lease > clock
    BY <1>1, BudgetAssumption
  <2>6. Live'
    BY <1>1, <2>4, <2>5, ClaimedRow DEF Live
  <2>7. status \notin {"paused", "cancelled"}
    BY <2>4 DEF Fenced
  <2>. QED BY <1>2, <2>4, <2>6, <2>7
<1>4. CASE Bind(r) \/ Report(r)
  <2>1. PICK to \in {"claim", "report", "ended"} : pc' = [pc EXCEPT ![r] = to]
    BY <1>4 DEF Bind, Report, At, Raise
  <2>2. pc[q] \in AtStake /\ q # r
    BY <1>1, <1>2, <2>1 DEF AtStake
  <2>3. budget'.until = budget.until
    BY <1>4, LeaseStays DEF Bind, Report, Claim, Release, At, Raise
  <2>4. budget.owner = q
    BY <2>2 DEF StakeInv, AtStake, Leased, Bound
  <2>5. status' = status
    BY <1>4, <2>2, <2>4, BudgetAssumption DEF Bind, Report, Superseded
  <2>. QED BY <1>1, <1>2, <2>2, <2>3, <2>5 DEF Doomed, Live
<1>5. CASE Guard(r) \/ Load(r) \/ Reserve(r) \/ Respond(r) \/ Deadline(r) \/ Settle(r) \/ Save(r)
  <2>1. pc[r] \in AtStake /\ status' = status /\ ~ Claim(r) /\ ~ Release(r)
    BY <1>5 DEF Guard, Load, Reserve, Respond, Deadline, Settle, Unanswered, Save, Onwards, At, Raise, RunOnly, AtStake,
                Claim, Release
  <2>2. PICK to : pc' = [pc EXCEPT ![r] = to]
    BY <1>5 DEF Guard, Load, Reserve, Respond, Deadline, Settle, Unanswered, Save, Onwards, At, Raise
  <2>3. pc[q] \in AtStake
    BY <1>1, <1>2, <2>1, <2>2
  <2>4. budget'.until = budget.until
    BY <2>1, LeaseStays
  <2>. QED BY <1>1, <1>2, <2>1, <2>3, <2>4 DEF Doomed, Live
<1>. QED BY <1>3, <1>4, <1>5 DEF RunStep

(* A save is refused to a doomed run only, and then there is none left.    *)
LEMMA RefusedIsDoomed ==
  ASSUME FenceInv, StakeInv, NEW r \in Runs, pc[r] = "save", Refused(r) # "ok",
         pc' = [pc EXCEPT ![r] = "release"]
  PROVE  Doomed /\ ~ Doomed'
<1>1. fence = r /\ budget.owner = r
  BY DEF FenceInv, StakeInv, Leased, Bound
<1>2. status \in {"paused", "cancelled"} \/ ~ Live
  BY <1>1 DEF Refused, Fenced
<1>3. \A q \in Runs : pc'[q] \notin AtStake
  <2>1. pc[r] \in Bound
    BY DEF Bound
  <2>2. \A q \in Runs : pc'[q] = IF q = r THEN "release" ELSE pc[q]
    BY DEF FenceInv
  <2>. QED BY <2>1, <2>2, OthersUnleased DEF AtStake, Bound
<1>. QED BY <1>2, <1>3 DEF Doomed, AtStake

LEMMA SavesAlone ==
  ASSUME NEW p, \A q, r \in Runs : p[q] = "save" /\ p[r] = "save" => q = r
  PROVE  Cardinality({r \in Runs : p[r] = "save"}) = Bit(\E r \in Runs : p[r] = "save")
<1>1. CASE \E r \in Runs : p[r] = "save"
  <2>1. PICK r \in Runs : p[r] = "save"
    BY <1>1
  <2>2. {q \in Runs : p[q] = "save"} = {r}
    BY <2>1
  <2>. QED BY <1>1, <2>2, FS_Singleton DEF Bit
<1>2. CASE ~ \E r \in Runs : p[r] = "save"
  <2>1. {q \in Runs : p[q] = "save"} = {}
    BY <1>2
  <2>. QED BY <1>2, <2>1, FS_EmptySet DEF Bit
<1>. QED BY <1>1, <1>2

LEMMA SavingIs == FenceInv => Cardinality(Saving) = Bit(\E r \in Runs : pc[r] = "save")
BY SavesAlone DEF FenceInv, Saving, Bound

LEMMA SavingWillBe == FenceInv' => Cardinality(Saving)' = Bit(\E r \in Runs : pc'[r] = "save")
<1>. SUFFICES ASSUME FenceInv' PROVE Cardinality(Saving)' = Bit(\E r \in Runs : pc'[r] = "save")
  OBVIOUS
<1>1. \A q, r \in Runs : pc'[q] = "save" /\ pc'[r] = "save" => q = r
  BY DEF FenceInv, Bound
<1>2. Cardinality({r \in Runs : pc'[r] = "save"}) = Bit(\E r \in Runs : pc'[r] = "save")
  BY <1>1, SavesAlone
<1>. QED BY <1>2 DEF Saving

LEMMA Counted ==
  ASSUME MoneyInv, RestTypes
  PROVE  /\ IsFiniteSet(Paid) /\ Cardinality(Paid) \in Nat
         /\ IsFiniteSet(saved) /\ Cardinality(saved) \in Nat
         /\ faults \in Nat /\ stops \in Nat
<1>1. IsFiniteSet(DOMAIN attempts) /\ Paid \subseteq DOMAIN attempts
  BY AttemptsAreFinite DEF Paid
<1>2. IsFiniteSet(1..Calls) /\ saved \subseteq 1..Calls
  <2>1. Calls \in Int
    BY BudgetAssumption
  <2>. QED BY <2>1, FS_Interval DEF RestTypes
<1>. QED BY <1>1, <1>2, FS_Subset, FS_CardinalityType DEF RestTypes

(* A step that pays for nothing and saves nothing, or a fault.             *)
LEMMA LossRests ==
  ASSUME FenceInv, FenceInv', MoneyInv, RestTypes, LossInv,
         UNCHANGED <<attempts, saved, api, stops>>,
         \/ (Doomed' => Doomed) /\ Saving' = Saving /\ faults' = faults
         \/ (Doomed' => Doomed) /\ faults' = faults + 1
         \/ Saving' = Saving /\ faults' = faults + 1
  PROVE  LossInv'
<1>. DEFINE P == Cardinality(Paid)
            S == Cardinality(saved)
            V == Cardinality(Saving)
            W == Cardinality(Saving')
            D == Bit(Doomed)
            E == Bit(Doomed')
            A == Bit(api # "idle")
<1>1. P \in Nat /\ S \in Nat /\ faults \in Nat /\ stops \in Nat
  BY Counted
<1>2. V \in 0..1 /\ W \in 0..1 /\ (Saving' = Saving => W = V)
  BY SavingIs, SavingWillBe DEF Bit
<1>3. D \in 0..1 /\ E \in 0..1 /\ A \in 0..1 /\ ((Doomed' => Doomed) => E <= D)
  BY DEF Bit
<1>4. P + D + A <= S + V + faults + stops
  BY DEF LossInv
<1>5. Paid' = Paid
  BY DEF Paid
<1>6. LossInv' = (P + E + A <= S + W + faults' + stops)
  BY <1>5 DEF LossInv, Bit
<1>. HIDE DEF P, S, V, W, D, E, A
<1>7. P + E + A <= S + W + faults' + stops
  BY <1>1, <1>2, <1>3, <1>4
<1>. QED BY <1>6, <1>7

(* An attempt that is settled was not before; only a good answer counts.   *)
LEMMA SettlePays ==
  ASSUME MoneyInv, RestTypes, NEW r \in Runs, NEW bill \in Bills \cup {0}, NEW good \in BOOLEAN,
         SettleAs(r, bill, good), run[r].permit \in 1..Len(attempts)
  PROVE  /\ Cardinality(Paid)' \in Nat
         /\ Cardinality(Paid)' <= Cardinality(Paid) + 1
         /\ ~ good => Cardinality(Paid)' <= Cardinality(Paid)
<1>. DEFINE p == run[r].permit
<1>1. /\ DOMAIN attempts = 1..Len(attempts) /\ DOMAIN attempts' = 1..Len(attempts)
      /\ \A n \in 1..Len(attempts) : n # p => attempts'[n] = attempts[n]
      /\ attempts'[p].state = "settled" => attempts'[p].good = good
  <2>1. attempts' \in Seq(Attempts)
    BY SettleFits DEF PaidInv
  <2>2. attempts \in Seq(Attempts)
    BY DEF MoneyInv, PaidInv
  <2>3. /\ Len(attempts') = Len(attempts)
        /\ \A n \in 1..Len(attempts) : n # p => attempts'[n] = attempts[n]
    BY SettleShape
  <2>4. bill = 0 => attempts'[p].state = "unknown"
    BY SettleShape
  <2>5. bill # 0 => attempts'[p].good = good
    BY SettleShape
  <2>. QED BY <2>1, <2>2, <2>3, <2>4, <2>5
<1>2. Paid' \subseteq IF good THEN Paid \cup {p} ELSE Paid
  BY <1>1 DEF Paid
<1>3. IsFiniteSet(Paid) /\ Cardinality(Paid) \in Nat
  BY Counted
<1>4. IsFiniteSet(Paid \cup {p}) /\ Cardinality(Paid \cup {p}) <= Cardinality(Paid) + 1
      /\ Cardinality(Paid \cup {p}) \in Nat
  <2>1. Cardinality(Paid \cup {p}) = IF p \in Paid THEN Cardinality(Paid) ELSE Cardinality(Paid) + 1
    BY <1>3, FS_AddElement
  <2>. QED BY <1>3, <2>1, FS_AddElement
<1>5. Cardinality(Paid') \in Nat /\ Cardinality(Paid') <= Cardinality(Paid) + 1
  <2>1. Paid' \subseteq Paid \cup {p}
    BY <1>2
  <2>2. Cardinality(Paid') \in Nat /\ Cardinality(Paid') <= Cardinality(Paid \cup {p})
    BY <1>4, <2>1, FS_Subset, FS_CardinalityType
  <2>. QED BY <1>3, <1>4, <2>2
<1>6. ASSUME ~ good PROVE Cardinality(Paid') <= Cardinality(Paid)
  BY <1>2, <1>3, <1>6, FS_Subset
<1>. QED BY <1>5, <1>6

LEMMA SettleKeepsLoss ==
  ASSUME BaseInv, FenceInv', RestTypes, StakeInv, LossInv, NEW r \in Runs, Settle(r)
  PROVE  LossInv'
<1>. USE DEF env
<1>0. FenceInv /\ MoneyInv /\ pc \in [Runs -> AllSteps]
  BY DEF BaseInv, FenceInv
<1>1. /\ pc[r] = "settle" /\ saved' = saved /\ run[r].permit \in 1..Len(attempts)
      /\ UNCHANGED <<api, stops, faults>> /\ (Doomed' => Doomed)
  BY <1>0, SettleSteps, RunDooms DEF RunStep, RunOnly, BaseInv, PermitInv, PermitOf, Paying
<1>2. \A q \in Runs : pc[q] # "save"
  BY <1>0, <1>1, OthersUnleased DEF Bound
<1>. DEFINE P == Cardinality(Paid)
            Q == Cardinality(Paid')
            S == Cardinality(saved)
            V == Cardinality(Saving)
            W == Cardinality(Saving')
            D == Bit(Doomed)
            E == Bit(Doomed')
            A == Bit(api # "idle")
<1>3. P \in Nat /\ S \in Nat /\ faults \in Nat /\ stops \in Nat
  BY <1>0, Counted
<1>4. V = 0 /\ W \in 0..1 /\ (pc'[r] = "save" => W = 1)
  BY <1>0, <1>2, SavingIs, SavingWillBe DEF Bit
<1>5. D \in 0..1 /\ E \in 0..1 /\ A \in 0..1 /\ E <= D
  BY <1>1 DEF Bit
<1>6. P + D + A <= S + V + faults + stops
  BY DEF LossInv
<1>7. LossInv' = (Q + E + A <= S + W + faults + stops)
  BY <1>1 DEF LossInv, Bit
<1>8. Q \in Nat /\ Q <= P + W
  <2>1. CASE UNCHANGED <<budget, attempts>>
    <3>1. Q = P
      BY <2>1 DEF Paid
    <3>. QED BY <1>3, <1>4, <3>1
  <2>2. CASE \E bill \in Bills \cup {0} : At(r, "settle", "save") /\ SettleAs(r, bill, TRUE)
    <3>1. Q \in Nat /\ Q <= P + 1
      BY <1>0, <1>1, <2>2, SettlePays
    <3>2. W = 1
      BY <1>0, <1>4, <2>2 DEF At
    <3>. QED BY <3>1, <3>2
  <2>3. CASE \E bill \in Bills \cup {0} : SettleAs(r, bill, FALSE)
    <3>1. Q \in Nat /\ Q <= P
      BY <1>0, <1>1, <2>3, SettlePays
    <3>. QED BY <1>3, <1>4, <3>1
  <2>. QED BY <2>1, <2>2, <2>3, SettleSteps
<1>. HIDE DEF P, Q, S, V, W, D, E, A
<1>9. Q + E + A <= S + W + faults + stops
  BY <1>3, <1>4, <1>5, <1>6, <1>8
<1>. QED BY <1>7, <1>9

LEMMA SaveKeepsLoss ==
  ASSUME BaseInv, FenceInv', RestTypes, StakeInv, LossInv, NEW r \in Runs, Save(r)
  PROVE  LossInv'
<1>. USE DEF env
<1>0. FenceInv /\ MoneyInv /\ pc \in [Runs -> AllSteps]
  BY DEF BaseInv, FenceInv
<1>1. /\ pc[r] = "save" /\ attempts' = attempts /\ run[r].call \notin saved
      /\ UNCHANGED <<api, stops, faults>> /\ (Doomed' => Doomed)
  BY <1>0, RunDooms DEF RunStep, RunOnly, Save, At, Raise, Onwards, BaseInv, PermitInv, PermitOf, Paying
<1>2. \A q \in Runs : pc'[q] # "save"
  <2>1. PICK to \in {"release", "guard", "end"} : pc' = [pc EXCEPT ![r] = to]
    BY DEF Save, At, Raise, Onwards
  <2>. QED BY <1>0, <1>1, <2>1, OthersUnleased DEF Bound
<1>. DEFINE P == Cardinality(Paid)
            S == Cardinality(saved)
            T == Cardinality(saved')
            V == Cardinality(Saving)
            W == Cardinality(Saving')
            D == Bit(Doomed)
            E == Bit(Doomed')
            A == Bit(api # "idle")
<1>3. P \in Nat /\ S \in Nat /\ faults \in Nat /\ stops \in Nat
  BY <1>0, Counted
<1>4. V = 1 /\ W = 0
  BY <1>0, <1>1, <1>2, SavingIs, SavingWillBe DEF Bit
<1>5. D \in 0..1 /\ E \in 0..1 /\ A \in 0..1 /\ E <= D
  BY <1>1 DEF Bit
<1>6. P + D + A <= S + V + faults + stops
  BY DEF LossInv
<1>7. LossInv' = (P + E + A <= T + W + faults + stops)
  BY <1>1 DEF LossInv, Bit, Paid
<1>8. (T = S + 1) \/ (T = S /\ D = 1 /\ E = 0)
  <2>1. CASE Refused(r) # "ok"
    <3>1. saved' = saved /\ pc' = [pc EXCEPT ![r] = "release"]
      BY <2>1 DEF Save, Raise, At
    <3>2. Doomed /\ ~ Doomed'
      BY <1>0, <1>1, <2>1, <3>1, RefusedIsDoomed
    <3>. QED BY <3>1, <3>2 DEF Bit
  <2>2. CASE Refused(r) = "ok"
    <3>1. saved' = saved \cup {run[r].call} /\ IsFiniteSet(saved)
      BY <1>0, <2>2, Counted DEF Save, Kept
    <3>. QED BY <1>1, <3>1, FS_AddElement
  <2>. QED BY <2>1, <2>2
<1>. HIDE DEF P, S, T, V, W, D, E, A
<1>9. P + E + A <= T + W + faults + stops
  BY <1>3, <1>4, <1>5, <1>6, <1>8
<1>. QED BY <1>7, <1>9

LEMMA RunKeepsLoss ==
  ASSUME BaseInv, FenceInv', RestTypes, StakeInv, LossInv, NEW r \in Runs, RunStep(r)
  PROVE  LossInv'
<1>. USE DEF env, ledger
<1>0. FenceInv /\ MoneyInv /\ pc \in [Runs -> AllSteps]
  BY DEF BaseInv, FenceInv
<1>1. CASE Settle(r)
  BY <1>1, SettleKeepsLoss
<1>2. CASE Save(r)
  BY <1>2, SaveKeepsLoss
<1>3. CASE Reserve(r)
  <2>1. /\ saved' = saved /\ UNCHANGED <<api, stops, faults>> /\ (Doomed' => Doomed)
    BY <1>0, <1>3, RunDooms DEF RunStep, Reserve, RunOnly
  <2>2. Saving' = Saving
    <3>1. PICK to \in {"release", "http"} : pc[r] = "reserve" /\ pc' = [pc EXCEPT ![r] = to]
      BY <1>3 DEF Reserve, At, Raise
    <3>. QED BY <1>0, <3>1 DEF Saving
  <2>3. Paid' = Paid
    <3>1. CASE attempts' = attempts
      BY <3>1 DEF Paid
    <3>2. CASE attempts' = Append(attempts, [call |-> run[r].call, state |-> "reserved", charge |-> 0, good |-> FALSE])
      <4>1. attempts \in Seq(Attempts)
        BY <1>0 DEF MoneyInv, PaidInv
      <4>2. /\ DOMAIN attempts = 1..Len(attempts) /\ DOMAIN attempts' = 1..(Len(attempts) + 1)
            /\ Len(attempts) \in Nat /\ attempts'[Len(attempts) + 1].state = "reserved"
            /\ \A n \in 1..Len(attempts) : attempts'[n] = attempts[n]
        BY <3>2, <4>1
      <4>. QED BY <4>2 DEF Paid
    <3>. QED BY <1>3, <3>1, <3>2 DEF Reserve
  <2>4. Bit(Doomed') <= Bit(Doomed) /\ Bit(Doomed') \in 0..1 /\ Bit(Doomed) \in 0..1
    BY <2>1 DEF Bit
  <2>. DEFINE P == Cardinality(Paid)
              S == Cardinality(saved)
              V == Cardinality(Saving)
              D == Bit(Doomed)
              E == Bit(Doomed')
              A == Bit(api # "idle")
  <2>5. P \in Nat /\ S \in Nat /\ faults \in Nat /\ stops \in Nat /\ V \in 0..1 /\ A \in 0..1
    BY <1>0, Counted, SavingIs DEF Bit
  <2>6. P + D + A <= S + V + faults + stops
    BY DEF LossInv
  <2>7. LossInv' = (P + E + A <= S + V + faults + stops)
    BY <2>1, <2>2, <2>3 DEF LossInv, Bit
  <2>8. E <= D /\ E \in 0..1 /\ D \in 0..1
    BY <2>4
  <2>. HIDE DEF P, S, V, D, E, A
  <2>9. P + E + A <= S + V + faults + stops
    BY <2>5, <2>6, <2>8
  <2>. QED BY <2>7, <2>9
<1>4. CASE ~ (Settle(r) \/ Save(r) \/ Reserve(r))
  <2>1. /\ UNCHANGED <<attempts, saved, api, stops, faults>> /\ (Doomed' => Doomed)
    BY <1>0, <1>4, RunDooms DEF RunStep, Bind, Claim, Guard, Load, Respond, Deadline, End, ReadStatus,
            WriteStatus, Release, Unbind, Report, RunOnly
  <2>2. PICK to \in AllSteps : pc[r] # "save" /\ to # "save" /\ pc' = [pc EXCEPT ![r] = to]
    BY <1>4 DEF RunStep, Bind, Claim, Guard, Load, Respond, Deadline, End, ReadStatus,
            WriteStatus, Release, Unbind, Report, At, Raise, Onwards, AllSteps, Bound
  <2>3. Saving' = Saving
    BY <1>0, <2>2 DEF Saving
  <2>. QED BY <1>0, <2>1, <2>3, LossRests
<1>. QED BY <1>1, <1>2, <1>3, <1>4

(* The writes of the user: what was announced is done.                     *)
LEMMA ControlKeepsLoss ==
  ASSUME FenceInv, MoneyInv, RestTypes, LossInv, PauseRead \/ CancelRead \/ ControlWrite
  PROVE  LossInv'
<1>. DEFINE P == Cardinality(Paid)
            S == Cardinality(saved)
            V == Cardinality(Saving)
            D == Bit(Doomed)
            E == Bit(Doomed')
            A == Bit(api # "idle")
            B == Bit(api' # "idle")
<1>1. P \in Nat /\ S \in Nat /\ faults \in Nat /\ stops \in Nat /\ V \in 0..1
  BY Counted, SavingIs DEF Bit
<1>2. D \in 0..1 /\ E \in 0..1 /\ A \in 0..1 /\ B \in 0..1
  BY DEF Bit
<1>3. P + D + A <= S + V + faults + stops
  BY DEF LossInv
<1>4. UNCHANGED <<budget, attempts, saved, pc, clock, faults>>
  BY DEF PauseRead, CancelRead, ControlWrite, UserOnly, ledger
<1>5. LossInv' = (P + E + B <= S + V + faults + stops')
  BY <1>4 DEF LossInv, Paid, Saving, Bit
<1>6. \/ A = 0 /\ B = 1 /\ stops' = stops + 1 /\ E = D
      \/ A = 1 /\ B = 0 /\ stops' = stops
  BY <1>4 DEF PauseRead, CancelRead, ControlWrite, Bit, Doomed, Live
<1>. HIDE DEF P, S, V, D, E, A, B
<1>7. P + E + B <= S + V + faults + stops'
  BY <1>1, <1>2, <1>3, <1>6
<1>. QED BY <1>5, <1>7

LEMMA FaultKeepsLoss ==
  ASSUME FenceInv, FenceInv', MoneyInv, RestTypes, StakeInv, LossInv, Fault
  PROVE  LossInv'
<1>. USE DEF ledger
<1>0. pc \in [Runs -> AllSteps] /\ faults' = faults + 1
  BY DEF FenceInv, Fault
<1>1. CASE UNCHANGED <<api, clock, leased, stops>> /\ \E r \in Runs : SaveFails(r)
  <2>1. PICK r \in Runs, to \in {"release", "guard", "end"} :
           /\ pc[r] = "save" /\ pc' = [pc EXCEPT ![r] = to]
           /\ UNCHANGED <<budget, attempts, saved, status>>
    BY <1>1 DEF SaveFails, Raise, Onwards, At
  <2>2. Doomed' => Doomed
    BY <1>0, <1>1, <2>1 DEF Doomed, Live, AtStake
  <2>. QED BY <1>0, <1>1, <2>1, <2>2, LossRests
<1>2. CASE UNCHANGED <<api, clock, leased, stops>> /\ \E r \in Runs : Crash(r)
  <2>1. PICK r \in Runs : /\ pc' = [pc EXCEPT ![r] = "ended"]
                          /\ UNCHANGED <<budget, attempts, saved, status>>
    BY <1>2 DEF Crash
  <2>2. Doomed' => Doomed
    BY <1>0, <1>2, <2>1 DEF Doomed, Live, AtStake
  <2>. QED BY <1>0, <1>2, <2>1, <2>2, LossRests
<1>3. CASE UNCHANGED <<api, clock, leased, stops>> /\ \E o \in Operations : PublishNack(o) \/ PublishUncertain(o)
  <2>1. UNCHANGED <<attempts, saved, pc>>
    BY <1>3 DEF PublishNack, PublishUncertain, PublishOnly
  <2>. QED BY <1>0, <1>3, <2>1, LossRests DEF Saving
<1>4. CASE UNCHANGED <<api, clock, leased, stops>> /\ LockLost
  BY <1>0, <1>4, StartKeepsStake, LossRests DEF LockLost
<1>5. CASE Tick
  <2>1. UNCHANGED <<attempts, saved, pc, api, stops>>
    BY <1>5 DEF Tick
  <2>. QED BY <1>0, <2>1, LossRests DEF Saving
<1>. QED BY <1>1, <1>2, <1>3, <1>4, <1>5 DEF Fault

LEMMA NextKeepsLoss ==
  ASSUME BaseInv, FenceInv', RestTypes, StakeInv, LossInv, [Next]_vars
  PROVE  LossInv'
<1>. USE DEF ledger, env
<1>0. FenceInv /\ MoneyInv /\ clock \in Nat /\ budget.until \in Nat
  BY DEF BaseInv, MoneyInv, RowInv, Rows
<1>1. ASSUME UNCHANGED <<attempts, saved, pc, api, stops, faults>>, Doomed' => Doomed
      PROVE  LossInv'
  <2>1. Saving' = Saving
    BY <1>1 DEF Saving
  <2>. QED BY <1>0, <1>1, <2>1, LossRests
<1>2. CASE \E r \in Runs : RunStep(r)
  BY <1>2, RunKeepsLoss
<1>3. CASE \E r \in Runs : Renew(r)
  <2>1. UNCHANGED <<attempts, saved, pc, status, env>>
    BY <1>3 DEF Renew
  <2>2. Doomed' => Doomed
    BY <1>0, <1>3, <2>1, RenewKeepsStake DEF Doomed
  <2>. QED BY <1>1, <2>1, <2>2
<1>4. CASE \E m \in queue : Skip(m)
  BY <1>1, <1>4 DEF Skip, Doomed, Live
<1>5. CASE (\E r \in Runs, m \in queue : Start(r, m)) /\ UNCHANGED env
  BY <1>0, <1>5, StartKeepsStake, LossRests
<1>6. CASE ResumeStep
  <2>1. UNCHANGED <<ledger, pc, status, env>>
    BY <1>6 DEF ResumeStep, Publish, Replay, PublishOnly
  <2>. QED BY <1>1, <2>1 DEF Doomed, Live
<1>7. CASE PauseRead \/ CancelRead \/ ControlWrite
  BY <1>0, <1>7, ControlKeepsLoss
<1>8. CASE (\E o \in Operations, add \in BOOLEAN : Extend(o, add)) \/ (\E o \in Operations : RetryResume(o))
  <2>1. Live' = Live /\ UNCHANGED <<attempts, saved, pc, env>> /\ status' = "queued"
    BY <1>0, <1>8, ExtendKeepsStake
  <2>. QED BY <1>1, <2>1 DEF Doomed
<1>9. CASE ~ Misses /\ Tick /\ UNCHANGED faults
  <2>1. clock' = clock + 1 /\ UNCHANGED <<budget, attempts, saved, pc, status, api, stops, faults>>
    BY <1>9 DEF Tick
  <2>2. ASSUME NEW r \in Runs, pc[r] \in AtStake, Live PROVE Live'
    <3>1. r \in beats /\ budget.owner = r
      BY <2>2 DEF StakeInv, AtStake, Leased, Bound
    <3>2. budget.until # clock + 1
      BY <1>9, <3>1 DEF Misses
    <3>. QED BY <1>0, <2>1, <2>2, <3>2 DEF Live
  <2>3. Doomed' => Doomed
    BY <2>1, <2>2 DEF Doomed
  <2>. QED BY <1>1, <2>1, <2>3
<1>10. CASE Fault
  BY <1>0, <1>10, FaultKeepsLoss
<1>11. CASE UNCHANGED vars
  BY <1>1, <1>11 DEF vars, Doomed, Live
<1>. QED BY <1>2, <1>3, <1>4, <1>5, <1>6, <1>7, <1>8, <1>9, <1>10, <1>11 DEF Next, Intake

(* No good answer is paid for and lost but by a fault or a stop, and each  *)
(* of them costs one at most.  A run that a lapse of its lease or a stop   *)
(* has doomed may still settle the request it has under way, and is then   *)
(* refused its save; before the next request it is refused too.            *)
THEOREM PaidIsKeptHolds == Spec => []PaidIsKept
<1>1. Init => RestTypes /\ StakeInv /\ LossInv
  <2>. SUFFICES ASSUME Init PROVE StakeInv /\ LossInv
    BY InitTypes
  <2>1. Paid = {} /\ saved = {} /\ Saving = {} /\ ~ Doomed /\ api = "idle" /\ faults = 0 /\ stops = 0
    BY DEF Init, Paid, Saving, Doomed, AtStake
  <2>2. Cardinality({}) = 0
    BY FS_EmptySet
  <2>. QED BY <2>1, <2>2 DEF Init, StakeInv, LossInv, Bit, Leased, Bound
<1>2. /\ BaseInv /\ BaseInv' /\ RestTypes /\ StakeInv /\ LossInv /\ [Next]_vars
      => (RestTypes /\ StakeInv /\ LossInv)'
  BY NextKeepsTypes, NextKeepsStake, NextKeepsLoss DEF BaseInv
<1>3. BaseInv /\ RestTypes /\ LossInv => PaidIsKept
  <2>. SUFFICES ASSUME BaseInv, RestTypes, LossInv PROVE PaidIsKept
    OBVIOUS
  <2>1. Cardinality(Paid) \in Nat /\ Cardinality(saved) \in Nat /\ faults \in Nat /\ stops \in Nat
    BY Counted DEF BaseInv
  <2>2. Cardinality(Saving) \in 0..1
    BY SavingIs DEF BaseInv, Bit
  <2>3. Bit(Doomed) \in 0..1 /\ Bit(api # "idle") \in 0..1
    BY DEF Bit
  <2>. QED BY <2>1, <2>2, <2>3 DEF LossInv, PaidIsKept
<1>. QED BY <1>1, <1>2, <1>3, AllBase, PTL DEF Spec
=============================================================================

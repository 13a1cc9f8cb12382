-------------------------- MODULE BatchTaskProofs --------------------------
(***************************************************************************)
(* BatchTask, for every size of a batch, any number of blueprints, resumes *)
(* and upsets, and with every interleaving the module knows: chapters are  *)
(* begun and finished in order, and a text belongs to the blueprint under  *)
(* which it is shown or confirmed.                                         *)
(*                                                                         *)
(* What makes it hold is where the position stands.  The chapters before   *)
(* it are confirmed, those after it untouched, and the checkpoint leaves   *)
(* the node "chapter" only when the chapter at the position is confirmed   *)
(* or wants another blueprint; no row changes at any other node.           *)
(***************************************************************************)
EXTENDS BatchTask, TLAPS

Messages == [type: {"generate", "resume"}, op: Nat]
Threads == [next: {"none", "write", "persist", "summarize", "end"}, of: Nat,
            text: [of: Nat, n: 0..3], kind: {"clean", "hard", "card"}, error: BOOLEAN,
            review: BOOLEAN, replan: BOOLEAN, revision: BOOLEAN]
Rows == [status: {"empty", "awaiting_review", "confirmed"}, text: [of: Nat, n: 0..3]]

Batches == [next: {"none", "batch_plan", "chapter", "reset_replan_batch", "bridge", "reflexion",
                   "batch_end", "end"},
            position: Chapters, replans: Nat, failed: BOOLEAN, replan: BOOLEAN]
Runs == [at: {"idle", "batch", "inner", "returned", "resolve", "accepted", "yield", "yielding",
              "ending", "settle"},
         msg: Messages, out: {"done", "failed", "awaiting_review"}]

TypeOK ==
  /\ status \in {"new", "queued", "running", "paused", "cancelled", "awaiting_review", "done",
                 "failed"}
  /\ op \in Nat /\ queue \subseteq Messages /\ upsets \in Nat
  /\ batch \in Batches /\ run \in Runs
  /\ thread \in [Chapters -> Threads]
  /\ row \in [Chapters -> Rows]
  /\ pool \in [Chapters -> SUBSET {"pending", "refused"}]

ConfirmedTo(n) == \A d \in 1..n : row[d].status = "confirmed"

(* The chapters before and after the position.                             *)
Before == ConfirmedTo(batch.position - 1)
After  == \A c \in Chapters : c > batch.position => /\ thread[c].next = "none"
                                                    /\ row[c].status = "empty"

(* A thread that ended without anything to object to has confirmed its     *)
(* chapter.                                                                *)
EndsConfirmed ==
  \A c \in Chapters :
    /\ thread[c].next \in {"summarize", "end"}
    /\ ~thread[c].error /\ ~thread[c].review /\ ~thread[c].replan
    => row[c].status = "confirmed"

(* What the checkpoint of the batch stands for.                            *)
BatchInv ==
  /\ batch.next = "bridge" => batch.position < Size /\ ConfirmedTo(batch.position)
  /\ batch.next = "reflexion" => ConfirmedTo(Size)
  /\ batch.next \in {"batch_end", "end"} /\ ~batch.failed => ConfirmedTo(Size)

(* What the step of the run stands for.                                    *)
RunInv ==
  /\ run.at \in {"inner", "returned", "resolve", "accepted"} => batch.next = "chapter"
  /\ run.at = "returned" => thread[Current].next = "end"
  /\ run.at = "accepted" => row[Current].status = "confirmed"
  /\ run.at = "ending" => batch.next = "batch_end" /\ (run.out = "done" => ~batch.failed)
  /\ run.at = "settle" /\ run.out = "done" => batch.next = "end" /\ ~batch.failed

DoneInv == status = "done" => /\ batch.next = "end" /\ ~batch.failed
                              /\ run.at \in {"idle", "settle"}

OrderInv == TypeOK /\ Before /\ After /\ EndsConfirmed /\ BatchInv /\ RunInv /\ DoneInv

LEMMA FreshNumber ==
  ASSUME NEW a, NEW b
  PROVE  \E n \in 1..3 : n \notin {a, b} /\ \A k \in 1..(n - 1) : k \in {a, b}
<1>1. CASE 1 \notin {a, b}
  <2> WITNESS 1 \in 1..3
  <2> QED BY <1>1, SMT
<1>2. CASE 1 \in {a, b} /\ 2 \notin {a, b}
  <2> WITNESS 2 \in 1..3
  <2> QED BY <1>2, SMT
<1>3. CASE 1 \in {a, b} /\ 2 \in {a, b}
  <2> WITNESS 3 \in 1..3
  <2> QED BY <1>3, SMT
<1> QED BY <1>1, <1>2, <1>3

LEMMA FreshTextIs ==
  FreshText \in [of: {batch.replans}, n: 1..3]
<1> DEFINE held == {row[Current].text.n, thread[Current].text.n}
           Free(n) == n \notin held /\ \A k \in 1..(n - 1) : k \in held
<1>1. \E n \in 1..3 : Free(n)
  BY FreshNumber
<1>2. (CHOOSE n \in 1..3 : Free(n)) \in 1..3
  BY <1>1
<1> QED BY <1>2 DEF FreshText

LEMMA InitOrder == Init => OrderInv
BY BatchAssumption DEF Init, OrderInv, TypeOK, Before, After, EndsConfirmed, BatchInv, RunInv,
   DoneInv, ConfirmedTo, Idle, Unwritten, NoText, Messages, Batches, Runs, Threads, Rows, Chapters,
   Current

(* Steps that leave the checkpoints and the rows alone.                    *)
LEMMA Quiet ==
  ASSUME OrderInv, UNCHANGED <<batch, thread, row>>, TypeOK', RunInv', DoneInv'
  PROVE  OrderInv'
BY DEF OrderInv, Before, After, EndsConfirmed, BatchInv, ConfirmedTo, Chapters

---------------------------------------------------------------------------
(* One lemma for each step.                                                *)

LEMMA TakeOrder == ASSUME NEW m \in queue PROVE OrderInv /\ Take(m) => OrderInv'
<1> SUFFICES ASSUME OrderInv, Take(m) PROVE OrderInv'
  OBVIOUS
<1> USE DEF OrderInv
<1>1. m \in Messages /\ queue' \subseteq Messages /\ UNCHANGED <<op, thread, row, pool, upsets>>
  BY DEF TypeOK, Take
<1>2. CASE Outdated(m)
  <2>1. TypeOK' /\ RunInv' /\ DoneInv' /\ UNCHANGED batch
    BY <1>1, <1>2 DEF Take, TypeOK, RunInv, DoneInv, Current
  <2> QED BY <1>1, <2>1, Quiet
<1>3. CASE ~Outdated(m)
  <2>1. /\ run' \in Runs /\ run'.at = "batch" /\ status' = "running"
    BY <1>1, <1>3 DEF Take, Idle, Runs, Messages
  <2>2. \/ batch' = batch /\ batch.next \notin {"none", "end"}
        \/ batch' = [batch EXCEPT !.next = "batch_plan"]
        \/ batch' = [batch EXCEPT !.next = "batch_plan", !.failed = FALSE]
    <3>1. CASE batch.next = "none"
      BY <1>3, <3>1 DEF Take
    <3>2. CASE batch.next = "end"
      BY <1>3, <3>2 DEF Take, Restarted
    <3>3. CASE batch.next \notin {"none", "end"}
      BY <1>3, <3>3 DEF Take
    <3> QED BY <3>1, <3>2, <3>3
  <2>3. batch' \in Batches /\ batch'.position = batch.position
        /\ (batch'.next = "batch_plan" \/ batch' = batch)
    BY <2>2 DEF TypeOK, Batches
  <2>4. TypeOK'
    BY <1>1, <2>1, <2>3 DEF TypeOK
  <2>5. Before' /\ After' /\ EndsConfirmed'
    BY <1>1, <2>3 DEF Before, After, EndsConfirmed, ConfirmedTo
  <2>6. BatchInv' /\ RunInv' /\ DoneInv'
    BY <1>1, <2>1, <2>3 DEF BatchInv, RunInv, DoneInv, ConfirmedTo
  <2> QED BY <2>4, <2>5, <2>6
<1> QED BY <1>2, <1>3

LEMMA BatchPlanOrder == OrderInv /\ BatchPlan => OrderInv'
<1> SUFFICES ASSUME OrderInv, BatchPlan PROVE OrderInv'
  OBVIOUS
<1> USE DEF OrderInv, AtNode
<1>1. batch' \in Batches
  BY DEF BatchPlan, TypeOK, Batches
<1>2. TypeOK'
  BY <1>1 DEF BatchPlan, TypeOK
<1>3. Before' /\ After' /\ EndsConfirmed'
  BY DEF BatchPlan, TypeOK, Batches, Before, After, EndsConfirmed, ConfirmedTo
<1>4. BatchInv' /\ RunInv' /\ DoneInv'
  BY DEF BatchPlan, TypeOK, Batches, BatchInv, RunInv, DoneInv, ConfirmedTo, Current
<1> QED BY <1>2, <1>3, <1>4

LEMMA FreshThread ==
  ASSUME TypeOK
  PROVE  Fresh \in Threads /\ Fresh.next = "write" /\ Fresh.of = batch.replans
<1>1. batch.replans \in Nat
  BY DEF TypeOK, Batches
<1>2. NoText \in [of: Nat, n: 0..3]
  BY DEF NoText
<1>3. Unwritten \in Threads
  BY <1>2 DEF Unwritten, Threads
<1> QED BY <1>1, <1>3 DEF Threads, Fresh

LEMMA ChapterOrder == OrderInv /\ Chapter => OrderInv'
<1> SUFFICES ASSUME OrderInv, Chapter PROVE OrderInv'
  OBVIOUS
<1> USE DEF OrderInv, AtNode
<1>1. Current \in Chapters /\ batch.replans \in Nat /\ batch.next = "chapter"
  BY DEF TypeOK, Batches, Current, Chapter
<1>2. Fresh \in Threads /\ Fresh.next = "write"
  BY FreshThread
<1>3. run' \in Runs
  BY DEF Chapter, TypeOK, Runs
<1>4. /\ run'.at \in {"resolve", "inner", "returned"} /\ run'.out = run.out
      /\ run'.at = "returned" => thread[Current].next = "end" /\ thread' = thread
  BY DEF Chapter, TypeOK, Runs
<1>5. \/ thread' = thread
      \/ thread' = [thread EXCEPT ![Current] = Fresh]
  BY DEF Chapter
<1>6. thread' \in [Chapters -> Threads]
  BY <1>1, <1>2, <1>5 DEF TypeOK
<1>7. TypeOK'
  BY <1>3, <1>6 DEF Chapter, TypeOK
<1>8. \A c \in Chapters : thread'[c] # thread[c] => c = Current /\ thread'[c].next = "write"
  BY <1>1, <1>2, <1>5 DEF TypeOK
<1>9. Before' /\ After' /\ EndsConfirmed'
  BY <1>1, <1>8 DEF Chapter, Before, After, EndsConfirmed, ConfirmedTo, Current, TypeOK, Batches, Chapters
<1>10. BatchInv' /\ RunInv' /\ DoneInv'
  BY <1>1, <1>4 DEF Chapter, TypeOK, Batches, BatchInv, RunInv, DoneInv, ConfirmedTo, Current
<1> QED BY <1>7, <1>9, <1>10

LEMMA ResetOrder == OrderInv /\ Reset => OrderInv'
<1> SUFFICES ASSUME OrderInv, Reset PROVE OrderInv'
  OBVIOUS
<1> USE DEF OrderInv, AtNode
<1>1. batch.replans + 1 \in Nat
  BY DEF TypeOK, Batches
<1>2. batch' \in Batches
  BY <1>1 DEF Reset, TypeOK, Batches
<1>3. TypeOK'
  BY <1>2 DEF Reset, TypeOK
<1>4. Before' /\ After' /\ EndsConfirmed'
  BY DEF Reset, TypeOK, Batches, Before, After, EndsConfirmed, ConfirmedTo
<1>5. BatchInv' /\ RunInv' /\ DoneInv'
  BY DEF Reset, TypeOK, Batches, BatchInv, RunInv, DoneInv, ConfirmedTo, Current
<1> QED BY <1>3, <1>4, <1>5

LEMMA BridgeOrder == OrderInv /\ Bridge => OrderInv'
<1> SUFFICES ASSUME OrderInv, Bridge PROVE OrderInv'
  OBVIOUS
<1> USE DEF OrderInv, AtNode
<1>1. batch.position + 1 \in Chapters /\ ConfirmedTo(batch.position)
  BY BatchAssumption DEF Bridge, TypeOK, Batches, BatchInv, Chapters
<1>2. batch' \in Batches /\ run' \in Runs
  BY <1>1 DEF Bridge, TypeOK, Batches, Runs
<1>3. TypeOK'
  BY <1>2 DEF Bridge, TypeOK
<1>4. Before' /\ After' /\ EndsConfirmed'
  BY <1>1 DEF Bridge, TypeOK, Batches, Before, After, EndsConfirmed, ConfirmedTo, Chapters
<1>5. BatchInv' /\ RunInv' /\ DoneInv'
  BY <1>1 DEF Bridge, TypeOK, Batches, Runs, BatchInv, RunInv, DoneInv, ConfirmedTo, Current
<1> QED BY <1>3, <1>4, <1>5

LEMMA ReflexionOrder == OrderInv /\ Reflexion => OrderInv'
<1> SUFFICES ASSUME OrderInv, Reflexion PROVE OrderInv'
  OBVIOUS
<1> USE DEF OrderInv, AtNode
<1>1. batch' \in Batches
  BY DEF Reflexion, TypeOK, Batches
<1>2. TypeOK'
  BY <1>1 DEF Reflexion, TypeOK
<1>3. Before' /\ After' /\ EndsConfirmed'
  BY DEF Reflexion, TypeOK, Batches, Before, After, EndsConfirmed, ConfirmedTo
<1>4. BatchInv' /\ RunInv' /\ DoneInv'
  BY DEF Reflexion, TypeOK, Batches, BatchInv, RunInv, DoneInv, ConfirmedTo, Current
<1> QED BY <1>2, <1>3, <1>4

LEMMA BatchEndOrder == OrderInv /\ BatchEnd => OrderInv'
<1> SUFFICES ASSUME OrderInv, BatchEnd PROVE OrderInv'
  OBVIOUS
<1> USE DEF OrderInv
<1>1. batch' \in Batches /\ run' \in Runs
  BY DEF BatchEnd, TypeOK, Batches, Runs
<1>2. TypeOK'
  BY <1>1 DEF BatchEnd, TypeOK, Runs
<1>3. Before' /\ After' /\ EndsConfirmed'
  BY DEF BatchEnd, TypeOK, Batches, Before, After, EndsConfirmed, ConfirmedTo
<1>4. BatchInv' /\ RunInv' /\ DoneInv'
  BY DEF BatchEnd, TypeOK, Batches, Runs, BatchInv, RunInv, DoneInv, ConfirmedTo, Current
<1> QED BY <1>2, <1>3, <1>4

LEMMA WriteOrder == OrderInv /\ Write => OrderInv'
<1> SUFFICES ASSUME OrderInv, Write PROVE OrderInv'
  OBVIOUS
<1> USE DEF OrderInv, AtInner
<1> DEFINE t == thread[Current]
           w == [t EXCEPT !.text = FreshText, !.replan = FALSE]
<1>1. Current \in Chapters /\ t \in Threads /\ t.next = "write" /\ batch.next = "chapter"
  BY DEF Write, TypeOK, Batches, Current, RunInv
<1>2. w \in Threads
  <2>1. FreshText \in [of: Nat, n: 0..3]
    BY FreshTextIs DEF TypeOK, Batches
  <2> QED BY <1>1, <2>1 DEF Threads
<1>3. PICK u : /\ u \in {[t EXCEPT !.next = "end", !.error = TRUE],
                         [w EXCEPT !.next = "end", !.replan = TRUE]}
                        \cup {[w EXCEPT !.next = "persist", !.kind = k] : k \in {"clean", "hard", "card"}}
               /\ thread' = [thread EXCEPT ![Current] = u]
  BY <1>1 DEF Write
<1>4. u \in Threads /\ u.next \in {"persist", "end"} /\ (u.next = "end" => u.error \/ u.replan)
  <2>1. CASE u = [t EXCEPT !.next = "end", !.error = TRUE]
    BY <2>1, <1>1 DEF Threads
  <2>2. CASE u = [w EXCEPT !.next = "end", !.replan = TRUE]
    BY <2>2, <1>2 DEF Threads
  <2>3. ASSUME NEW k \in {"clean", "hard", "card"}, u = [w EXCEPT !.next = "persist", !.kind = k]
        PROVE  u \in Threads /\ u.next = "persist"
    BY <2>3, <1>2 DEF Threads
  <2> QED BY <1>3, <2>1, <2>2, <2>3
<1>5. /\ thread' \in [Chapters -> Threads] /\ thread'[Current] = u
      /\ \A c \in Chapters : c # Current => thread'[c] = thread[c]
  BY <1>1, <1>3, <1>4 DEF TypeOK
<1>6. run' \in Runs /\ run'.out = run.out /\ run'.at = IF u.next = "end" THEN "returned" ELSE "inner"
  BY <1>5 DEF Write, TypeOK, Runs
<1>7. TypeOK'
  BY <1>5, <1>6 DEF Write, TypeOK
<1>8. Before' /\ After' /\ EndsConfirmed'
  BY <1>1, <1>4, <1>5 DEF Write, Before, After, EndsConfirmed, ConfirmedTo, Current, TypeOK, Batches,
     Chapters
<1>9. BatchInv' /\ RunInv' /\ DoneInv'
  BY <1>1, <1>4, <1>5, <1>6 DEF Write, TypeOK, Batches, BatchInv, RunInv, DoneInv, ConfirmedTo, Current
<1> QED BY <1>7, <1>8, <1>9

LEMMA PersistOrder == OrderInv /\ Persist => OrderInv'
<1> SUFFICES ASSUME OrderInv, Persist PROVE OrderInv'
  OBVIOUS
<1> USE DEF OrderInv, AtInner
<1> DEFINE t == thread[Current]
           u == [t EXCEPT !.next = "summarize", !.review = t.kind # "clean"]
           r == IF t.kind = "clean" THEN Confirmed(t.text) ELSE Shown(t.text)
<1>1. Current \in Chapters /\ t \in Threads /\ t.next = "persist" /\ batch.next = "chapter"
  BY DEF Persist, TypeOK, Batches, Current, RunInv
<1>2. thread' = [thread EXCEPT ![Current] = u] /\ row' = [row EXCEPT ![Current] = r]
  BY <1>1 DEF Persist, TypeOK, Threads
<1>3. u \in Threads /\ u.next = "summarize" /\ u.review = (t.kind # "clean")
  BY <1>1 DEF Threads
<1>4. r \in Rows /\ (~u.review => r.status = "confirmed")
  BY <1>1, <1>3 DEF Threads, Rows, Confirmed, Shown
<1>5. /\ thread' \in [Chapters -> Threads] /\ thread'[Current] = u
      /\ row' \in [Chapters -> Rows] /\ row'[Current] = r
      /\ \A c \in Chapters : c # Current => thread'[c] = thread[c] /\ row'[c] = row[c]
  BY <1>1, <1>2, <1>3, <1>4 DEF TypeOK
<1>6. pool' \in [Chapters -> SUBSET {"pending", "refused"}]
  BY <1>1 DEF Persist, TypeOK
<1>7. TypeOK'
  BY <1>5, <1>6 DEF Persist, TypeOK
<1>8. Before' /\ After'
  BY <1>1, <1>3, <1>5 DEF Persist, Before, After, ConfirmedTo, Current, TypeOK, Batches, Chapters
<1>9. EndsConfirmed'
  <2> SUFFICES ASSUME NEW c \in Chapters, thread'[c].next \in {"summarize", "end"},
                      ~thread'[c].error, ~thread'[c].review, ~thread'[c].replan
               PROVE  row'[c].status = "confirmed"
    BY DEF EndsConfirmed
  <2> QED BY <1>3, <1>4, <1>5 DEF EndsConfirmed
<1>10. BatchInv' /\ RunInv' /\ DoneInv'
  BY <1>1, <1>5 DEF Persist, TypeOK, Batches, BatchInv, RunInv, DoneInv, ConfirmedTo, Current
<1> QED BY <1>7, <1>8, <1>9, <1>10

LEMMA SummarizeOrder == OrderInv /\ Summarize => OrderInv'
<1> SUFFICES ASSUME OrderInv, Summarize PROVE OrderInv'
  OBVIOUS
<1> USE DEF OrderInv, AtInner
<1> DEFINE t == thread[Current]
           u == [t EXCEPT !.next = "end"]
<1>1. Current \in Chapters /\ t \in Threads /\ t.next = "summarize" /\ batch.next = "chapter"
  BY DEF Summarize, TypeOK, Batches, Current, RunInv
<1>2. thread' = [thread EXCEPT ![Current] = u]
  BY <1>1 DEF Summarize, TypeOK, Threads
<1>3. u \in Threads /\ u.next = "end" /\ u.error = t.error /\ u.review = t.review /\ u.replan = t.replan
  BY <1>1 DEF Threads
<1>4. /\ thread' \in [Chapters -> Threads] /\ thread'[Current] = u
      /\ \A c \in Chapters : c # Current => thread'[c] = thread[c]
  BY <1>1, <1>2, <1>3 DEF TypeOK
<1>5. run' \in Runs /\ run'.at = "returned" /\ run'.out = run.out
  BY DEF Summarize, TypeOK, Runs
<1>6. TypeOK'
  BY <1>4, <1>5 DEF Summarize, TypeOK
<1>7. Before' /\ After' /\ EndsConfirmed'
  BY <1>1, <1>3, <1>4 DEF Summarize, Before, After, EndsConfirmed, ConfirmedTo, Current, TypeOK,
     Batches, Chapters
<1>8. BatchInv' /\ RunInv' /\ DoneInv'
  BY <1>1, <1>3, <1>4, <1>5 DEF Summarize, TypeOK, Batches, BatchInv, RunInv, DoneInv, ConfirmedTo,
     Current
<1> QED BY <1>6, <1>7, <1>8

(* The chapter is done with: on to the next, to the end, or back.          *)
LEMMA AdvanceOrder ==
  ASSUME OrderInv, NEW replan \in BOOLEAN, Advance(replan), batch.next = "chapter",
         ~replan => row[Current].status = "confirmed",
         pool' \in [Chapters -> SUBSET {"pending", "refused"}],
         UNCHANGED <<status, op, queue, thread, row, upsets>>
  PROVE  OrderInv'
<1> USE DEF OrderInv
<1> DEFINE n == Route([batch EXCEPT !.replan = replan])
           b == [batch EXCEPT !.replan = replan, !.next = n]
<1>1. /\ batch \in Batches /\ run \in Runs /\ batch.position \in Chapters
      /\ n = IF replan THEN "reset_replan_batch"
             ELSE IF batch.position < Size THEN "bridge" ELSE "reflexion"
  BY DEF TypeOK, Batches, Route
<1>2. batch' = b
  BY <1>1 DEF Advance, Batches
<1>3. batch' \in Batches /\ batch'.next = n /\ batch'.position = batch.position
  BY <1>1, <1>2 DEF Batches
<1>4. run' \in Runs /\ run'.at = "batch"
  BY <1>1 DEF Advance, Runs
<1>5. TypeOK'
  BY <1>3, <1>4 DEF TypeOK
<1>6. Before' /\ After' /\ EndsConfirmed'
  BY <1>3 DEF Before, After, EndsConfirmed, ConfirmedTo
<1>7. ~replan => ConfirmedTo(batch.position)
  BY <1>1, BatchAssumption DEF Before, ConfirmedTo, Current, Chapters
<1>8. BatchInv'
  BY <1>1, <1>3, <1>7, BatchAssumption DEF BatchInv, ConfirmedTo, Chapters
<1>9. RunInv' /\ DoneInv'
  BY <1>4 DEF RunInv, DoneInv
<1> QED BY <1>5, <1>6, <1>8, <1>9

LEMMA ReturnOrder == OrderInv /\ Return => OrderInv'
<1> SUFFICES ASSUME OrderInv, Return PROVE OrderInv'
  OBVIOUS
<1> USE DEF OrderInv
<1> DEFINE t == thread[Current]
           exhausted == t.replan /\ batch.replans >= MaxReplans
<1>1. /\ Current \in Chapters /\ t \in Threads /\ t.next = "end" /\ batch.next = "chapter"
      /\ batch \in Batches /\ run \in Runs /\ row \in [Chapters -> Rows]
      /\ pool \in [Chapters -> SUBSET {"pending", "refused"}]
      /\ UNCHANGED <<status, op, queue, thread, upsets>>
  BY DEF Return, TypeOK, Batches, Current, RunInv
<1>2. pool' \in [Chapters -> SUBSET {"pending", "refused"}]
  BY <1>1 DEF Return, Answered
<1>3. ASSUME NEW out \in {"failed", "awaiting_review"}, Halt(out), batch' = batch, row' = row
      PROVE  OrderInv'
  <2>1. run' \in Runs /\ run'.at = "settle" /\ run'.out = out
    BY <1>1, <1>3 DEF Halt, Runs
  <2>2. TypeOK' /\ RunInv'
    BY <1>1, <1>2, <1>3, <2>1 DEF TypeOK, RunInv
  <2>3. DoneInv'
    BY <1>1, <1>3, <2>1 DEF DoneInv
  <2> QED BY <1>1, <1>3, <2>2, <2>3, Quiet
<1>4. ASSUME ~t.error, exhausted, row' = [row EXCEPT ![Current] = Shown(t.text)],
             Halt("awaiting_review"), batch' = batch
      PROVE  OrderInv'
  <2>1. run' \in Runs /\ run'.at = "settle" /\ run'.out = "awaiting_review"
    BY <1>1, <1>4 DEF Halt, Runs
  <2>2. /\ row' \in [Chapters -> Rows]
        /\ \A c \in Chapters : c # Current => row'[c] = row[c]
    BY <1>1, <1>4 DEF Shown, Rows, Threads
  <2>3. TypeOK'
    BY <1>1, <1>2, <1>4, <2>1, <2>2 DEF TypeOK
  <2>4. Before' /\ After' /\ EndsConfirmed'
    BY <1>1, <1>4, <2>2 DEF Before, After, EndsConfirmed, ConfirmedTo, Current, TypeOK, Batches, Chapters
  <2>5. BatchInv' /\ RunInv' /\ DoneInv'
    BY <1>1, <1>4, <2>1 DEF BatchInv, RunInv, DoneInv
  <2> QED BY <2>3, <2>4, <2>5
<1>5. ASSUME ~t.error, ~exhausted, ~t.review, Advance(t.replan), row' = row
      PROVE  OrderInv'
  <2>1. ~t.replan => row[Current].status = "confirmed"
    BY <1>1, <1>5 DEF EndsConfirmed
  <2>2. t.replan \in BOOLEAN
    BY <1>1 DEF Threads
  <2> QED BY <1>1, <1>2, <1>5, <2>1, <2>2, AdvanceOrder
<1> QED BY <1>3, <1>4, <1>5 DEF Return

LEMMA ResolveOrder == OrderInv /\ (ResolveRevise \/ ResolveAccept) => OrderInv'
<1> SUFFICES ASSUME OrderInv, ResolveRevise \/ ResolveAccept PROVE OrderInv'
  OBVIOUS
<1> USE DEF OrderInv
<1> DEFINE t == thread[Current]
           u == [t EXCEPT !.next = "write", !.error = FALSE, !.review = FALSE, !.revision = TRUE]
<1>1. /\ Current \in Chapters /\ t \in Threads /\ batch.next = "chapter" /\ run.at = "resolve"
      /\ batch \in Batches /\ run \in Runs /\ thread \in [Chapters -> Threads]
      /\ row \in [Chapters -> Rows] /\ pool \in [Chapters -> SUBSET {"pending", "refused"}]
      /\ UNCHANGED <<status, op, queue, batch, upsets>>
  BY DEF ResolveRevise, ResolveAccept, TypeOK, Batches, Current, RunInv
<1>2. CASE ResolveRevise
  <2>1. thread' = [thread EXCEPT ![Current] = u] /\ row' = row
    BY <1>1, <1>2 DEF ResolveRevise, Threads
  <2>2. u \in Threads /\ u.next = "write"
    BY <1>1 DEF Threads
  <2>3. /\ thread' \in [Chapters -> Threads] /\ thread'[Current] = u
        /\ \A c \in Chapters : c # Current => thread'[c] = thread[c]
    BY <1>1, <2>1, <2>2
  <2>4. run' \in Runs /\ run'.at = "inner" /\ pool' \in [Chapters -> SUBSET {"pending", "refused"}]
    BY <1>1, <1>2 DEF ResolveRevise, Runs
  <2>5. TypeOK'
    BY <1>1, <2>1, <2>3, <2>4 DEF TypeOK
  <2>6. Before' /\ After' /\ EndsConfirmed'
    BY <1>1, <2>1, <2>2, <2>3 DEF Before, After, EndsConfirmed, ConfirmedTo, Current, Batches, Chapters
  <2>7. BatchInv' /\ RunInv' /\ DoneInv'
    BY <1>1, <2>1, <2>4 DEF BatchInv, RunInv, DoneInv
  <2> QED BY <2>5, <2>6, <2>7
<1>3. CASE ResolveAccept
  <2>1. /\ row' \in [Chapters -> Rows] /\ row'[Current].status = "confirmed"
        /\ \A c \in Chapters : c # Current => row'[c] = row[c]
        /\ thread' = thread /\ pool' = pool
    BY <1>1, <1>3 DEF ResolveAccept, Confirmed, Rows, Threads
  <2>2. run' \in Runs /\ run'.at = "accepted"
    BY <1>1, <1>3 DEF ResolveAccept, Runs
  <2>3. TypeOK'
    BY <1>1, <2>1, <2>2 DEF TypeOK
  <2>4. Before' /\ After'
    <3>1. \A d \in 1..(batch.position - 1) : d \in Chapters /\ d # Current
      BY <1>1, BatchAssumption DEF Chapters, Current
    <3>2. \A c \in Chapters : c > batch.position => c # Current
      BY <1>1, BatchAssumption DEF Chapters, Current
    <3>3. Before'
      BY <1>1, <2>1, <3>1 DEF Before, ConfirmedTo
    <3> QED BY <1>1, <2>1, <3>2, <3>3 DEF After
  <2>5. EndsConfirmed'
    <3> SUFFICES ASSUME NEW c \in Chapters, thread[c].next \in {"summarize", "end"},
                        ~thread[c].error, ~thread[c].review, ~thread[c].replan
                 PROVE  row'[c].status = "confirmed"
      BY <2>1 DEF EndsConfirmed
    <3> QED BY <2>1 DEF EndsConfirmed
  <2>6. BatchInv' /\ RunInv' /\ DoneInv'
    BY <1>1, <2>1, <2>2 DEF BatchInv, RunInv, DoneInv, Current
  <2> QED BY <2>3, <2>4, <2>5, <2>6
<1> QED BY <1>2, <1>3

LEMMA AcceptOrder == OrderInv /\ Accept => OrderInv'
<1> SUFFICES ASSUME OrderInv, Accept PROVE OrderInv'
  OBVIOUS
<1>1. /\ row[Current].status = "confirmed" /\ batch.next = "chapter"
      /\ thread[Current].replan \in BOOLEAN
      /\ row \in [Chapters -> Rows] /\ pool \in [Chapters -> SUBSET {"pending", "refused"}]
  BY DEF Accept, OrderInv, TypeOK, RunInv, Batches, Current, Threads
<1> QED BY <1>1, AdvanceOrder DEF Accept, ReviewLeft

LEMMA PausesOrder ==
  OrderInv /\ (EnterEnd \/ ResolveWait \/ EndSlice \/ Yield \/ Settle \/ Stop \/ Fault) => OrderInv'
<1> SUFFICES ASSUME OrderInv, EnterEnd \/ ResolveWait \/ EndSlice \/ Yield \/ Settle \/ Stop \/ Fault
             PROVE  OrderInv'
  OBVIOUS
<1> USE DEF OrderInv
<1>1. Idle \in Runs /\ Idle.at = "idle" /\ Idle.out = "done"
  BY DEF Idle, Runs, Messages
<1>2. run' \in Runs
  BY <1>1 DEF TypeOK, Runs, EnterEnd, AtNode, ResolveWait, Halt, EndSlice, Yield, Settle, Stop, Fault
<1>3. queue' \subseteq Messages
  BY DEF TypeOK, Runs, EnterEnd, AtNode, ResolveWait, Halt, EndSlice, Yield, YieldTo, Settle, Stop, Fault
<1>4. /\ upsets' \in Nat /\ UNCHANGED <<op, batch, thread, row, pool>>
      /\ status' \in {"new", "queued", "running", "paused", "cancelled", "awaiting_review", "done",
                 "failed"}
  BY DEF TypeOK, Runs, EnterEnd, AtNode, ResolveWait, Halt, EndSlice, Yield, Settle, Stop, Fault, Upset
<1>5. TypeOK'
  BY <1>2, <1>3, <1>4 DEF TypeOK
<1>6. RunInv'
  BY <1>1, <1>4 DEF TypeOK, Runs, RunInv, Current, EnterEnd, AtNode, ResolveWait, Halt, EndSlice, Yield,
     Settle, Stop, Fault
<1>7. DoneInv'
  BY <1>1, <1>4 DEF TypeOK, Runs, RunInv, DoneInv, EnterEnd, AtNode, ResolveWait, Halt, EndSlice,
     Yield, Settle, Stop, Fault, Fenced
<1> QED BY <1>4, <1>5, <1>6, <1>7, Quiet

LEMMA AuthorOrder == OrderInv /\ Author => OrderInv'
<1> SUFFICES ASSUME OrderInv, Author PROVE OrderInv'
  OBVIOUS
<1> USE DEF OrderInv
<1>1. UNCHANGED <<batch, thread, row, run>>
  BY DEF Author, Pause, Cancel, Resume, Judge
<1>2. /\ op' \in Nat /\ upsets' \in Nat
      /\ pool' \in [Chapters -> SUBSET {"pending", "refused"}]
  BY DEF TypeOK, Author, Pause, Cancel, Resume, Judge, Upset
<1>3. status' \in {"new", "queued", "running", "paused", "cancelled", "awaiting_review", "done", "failed"}
      /\ (status' = "done" => status = "done")
  BY DEF TypeOK, Author, Pause, Cancel, Resume, Judge
<1>4. queue' \subseteq Messages
  BY <1>2 DEF TypeOK, Messages, Author, Pause, Cancel, Resume, Judge
<1>5. TypeOK' /\ RunInv' /\ DoneInv'
  BY <1>1, <1>2, <1>3, <1>4 DEF TypeOK, RunInv, DoneInv, Current
<1> QED BY <1>1, <1>5, Quiet

LEMMA StepOrder == OrderInv /\ [Next]_vars => OrderInv'
<1> SUFFICES ASSUME OrderInv, [Next]_vars PROVE OrderInv'
  OBVIOUS
<1>1. CASE Work
  BY <1>1, TakeOrder, BatchPlanOrder, ChapterOrder, ResetOrder, BridgeOrder, ReflexionOrder,
     BatchEndOrder, WriteOrder, PersistOrder, SummarizeOrder, ReturnOrder, ResolveOrder,
     AcceptOrder, PausesOrder DEF Work
<1>2. CASE Fault
  BY <1>2, PausesOrder
<1>3. CASE Author
  BY <1>3, AuthorOrder
<1>4. CASE UNCHANGED vars
  BY <1>4 DEF vars, OrderInv, TypeOK, Before, After, EndsConfirmed, BatchInv, RunInv, DoneInv,
     ConfirmedTo, Current
<1> QED BY <1>1, <1>2, <1>3, <1>4 DEF Next

(* The invariant holds.                                                    *)
THEOREM Ordered == Spec => []OrderInv
<1>1. Init => OrderInv
  BY InitOrder
<1>2. OrderInv /\ [Next]_vars => OrderInv'
  BY StepOrder
<1> QED BY <1>1, <1>2, PTL DEF Spec

(* A chapter of a batch is begun only when all before it are confirmed,    *)
(* and the task is done only when all are, for every size of the batch and *)
(* whatever is planned again, reviewed, paused, retried or resumed         *)
(* (route_after_chapter, bridge, node_run_chapter).                        *)
THEOREM InOrderHolds == Spec => []InOrder
<1>1. OrderInv => InOrder
  <2> SUFFICES ASSUME OrderInv PROVE InOrder
    OBVIOUS
  <2>1. ASSUME NEW c \in Chapters, thread[c].next # "none", NEW d \in 1..(c - 1)
        PROVE  row[d].status = "confirmed"
    BY <2>1, BatchAssumption DEF OrderInv, TypeOK, Batches, Before, After, ConfirmedTo, Chapters
  <2>2. status = "done" => \A c \in Chapters : row[c].status = "confirmed"
    BY DEF OrderInv, DoneInv, BatchInv, ConfirmedTo, Chapters
  <2> QED BY <2>1, <2>2 DEF InOrder
<1> QED BY <1>1, Ordered, PTL

---------------------------------------------------------------------------
(* Blueprints.  A chapter under review belongs to the blueprint in force:  *)
(* a new one is made only when nothing is under review.                    *)

ShownInv ==
  UnderReview =>
    /\ batch.next = "chapter"
    /\ thread[Current].of = batch.replans /\ thread[Current].text.of = batch.replans
    /\ thread[Current].replan => batch.replans >= MaxReplans

(* The chapter at work: of this blueprint, and a text under review is      *)
(* replaced by a revision only.                                            *)
WorkInv ==
  /\ run.at \in {"inner", "returned", "resolve"} => thread[Current].of = batch.replans
  /\ run.at = "inner" /\ UnderReview /\ thread[Current].next \in {"write", "persist"} =>
       thread[Current].revision
  /\ run.at = "resolve" => UnderReview

(* A text was written under the blueprint of its thread.                   *)
TextInv ==
  \A c \in Chapters :
    /\ thread[c].next \in {"write", "persist", "summarize"} => ~thread[c].error
    /\ thread[c].next \in {"persist", "summarize"} => ~thread[c].replan
    /\ thread[c].next \in {"persist", "summarize", "end"} /\ ~thread[c].error =>
         thread[c].text.of = thread[c].of

BlueprintInv == OrderInv /\ ShownInv /\ WorkInv /\ TextInv

(* What a step does to the texts of the rows.                              *)
OfBlueprint == \A c \in Chapters : row'[c].text # row[c].text => row'[c].text.of = batch.replans

Kept == ShownInv' /\ WorkInv' /\ TextInv' /\ OfBlueprint

LEMMA InitBlueprint == Init => ShownInv /\ WorkInv /\ TextInv
BY BatchAssumption DEF Init, ShownInv, WorkInv, TextInv, UnderReview, Current, Idle, Unwritten, Chapters

(* Steps that leave the chapters alone, and the work on one.               *)
LEMMA QuietBlueprint ==
  ASSUME BlueprintInv, UNCHANGED <<batch, thread, row>>, run' = run \/ run'.at \notin {"inner", "returned", "resolve"}
  PROVE  Kept
BY DEF BlueprintInv, Kept, ShownInv, WorkInv, TextInv, OfBlueprint, UnderReview, Current

LEMMA TakeBlueprint == ASSUME NEW m \in queue PROVE BlueprintInv /\ Take(m) => Kept
<1> SUFFICES ASSUME BlueprintInv, Take(m) PROVE Kept
  OBVIOUS
<1>1. OrderInv' /\ TypeOK /\ UNCHANGED <<thread, row>>
  BY TakeOrder DEF BlueprintInv, OrderInv, Take
<1>2. CASE Outdated(m)
  BY <1>1, <1>2, QuietBlueprint DEF Take
<1>3. CASE ~Outdated(m)
  <2>1. run'.at = "batch"
    BY <1>3 DEF Take, Idle
  <2>2. batch' = batch \/ (batch.next \in {"none", "end"} /\ batch'.position = batch.position)
    <3>1. CASE batch.next = "none"
      BY <1>1, <1>3, <3>1 DEF Take, TypeOK, Batches
    <3>2. CASE batch.next = "end"
      BY <1>1, <1>3, <3>2 DEF Take, Restarted, TypeOK, Batches
    <3>3. CASE batch.next \notin {"none", "end"}
      BY <1>3, <3>3 DEF Take
    <3> QED BY <3>1, <3>2, <3>3
  <2> QED BY <1>1, <2>1, <2>2 DEF BlueprintInv, Kept, ShownInv, WorkInv, TextInv, OfBlueprint,
          UnderReview, Current
<1> QED BY <1>2, <1>3

LEMMA NodesBlueprint ==
  BlueprintInv /\ (BatchPlan \/ Reset \/ Bridge \/ Reflexion \/ EnterEnd \/ BatchEnd) => Kept
<1> SUFFICES ASSUME BlueprintInv, BatchPlan \/ Reset \/ Bridge \/ Reflexion \/ EnterEnd \/ BatchEnd
             PROVE  Kept
  OBVIOUS
<1> DEFINE at == batch.next
<1>1. /\ UNCHANGED <<thread, row>> /\ batch \in Batches /\ run \in Runs
      /\ run'.at \notin {"inner", "returned", "resolve"}
  BY DEF BlueprintInv, OrderInv, TypeOK, Runs, RunInv, BatchPlan, Reset, Bridge, Reflexion, EnterEnd,
     BatchEnd, AtNode
<1>2. batch.next # "chapter"
  BY DEF BlueprintInv, OrderInv, RunInv, BatchPlan, Reset, Bridge, Reflexion, EnterEnd, BatchEnd, AtNode
<1>3. ~UnderReview
  BY <1>2 DEF BlueprintInv, ShownInv
<1>4. ~UnderReview'
  <2>1. CASE Bridge
    <3>1. batch'.position = batch.position + 1 /\ batch.position + 1 \in Chapters
      BY <1>1, <2>1, BatchAssumption DEF Bridge, AtNode, BlueprintInv, OrderInv, BatchInv, Batches,
         Chapters
    <3>2. row[batch.position + 1].status = "empty"
      BY <1>1, <3>1, BatchAssumption DEF BlueprintInv, OrderInv, After, Batches, Chapters
    <3> QED BY <1>1, <3>1, <3>2 DEF UnderReview, Current
  <2>2. CASE ~Bridge
    <3>1. batch'.position = batch.position
      BY <1>1, <2>2 DEF BatchPlan, Reset, Reflexion, EnterEnd, BatchEnd, Batches
    <3> QED BY <1>1, <1>3, <3>1 DEF UnderReview, Current
  <2> QED BY <2>1, <2>2
<1> QED BY <1>1, <1>4 DEF BlueprintInv, Kept, ShownInv, WorkInv, TextInv, OfBlueprint

LEMMA ChapterBlueprint == BlueprintInv /\ Chapter => Kept
<1> SUFFICES ASSUME BlueprintInv, Chapter PROVE Kept
  OBVIOUS
<1>1. /\ TypeOK /\ Current \in Chapters /\ UNCHANGED <<batch, row>> /\ run \in Runs
      /\ thread \in [Chapters -> Threads]
  BY DEF BlueprintInv, OrderInv, TypeOK, Batches, Current, Chapter
<1>2. Fresh \in Threads /\ Fresh.next = "write" /\ Fresh.of = batch.replans
  BY <1>1, FreshThread
<1>3. ~Fresh.error
  BY DEF Fresh, Unwritten
<1>4. CASE UnderReview
  <2>1. thread' = thread /\ run'.at = "resolve"
    BY <1>1, <1>4 DEF Chapter, Runs
  <2> QED BY <1>1, <1>4, <2>1 DEF BlueprintInv, Kept, ShownInv, WorkInv, TextInv, OfBlueprint, UnderReview,
          Current
<1>5. CASE ~UnderReview /\ thread' = thread /\ thread[Current].of = batch.replans
           /\ run'.at \in {"inner", "returned"}
  BY <1>1, <1>5 DEF BlueprintInv, Kept, ShownInv, WorkInv, TextInv, OfBlueprint, UnderReview, Current
<1>6. CASE ~UnderReview /\ thread' = [thread EXCEPT ![Current] = Fresh] /\ run'.at = "inner"
  <2>1. /\ thread'[Current] = Fresh
        /\ \A c \in Chapters : c # Current => thread'[c] = thread[c]
    BY <1>1, <1>6
  <2>2. TextInv'
    BY <1>1, <1>2, <1>3, <2>1 DEF BlueprintInv, TextInv
  <2>3. ShownInv' /\ WorkInv' /\ OfBlueprint
    BY <1>1, <1>2, <1>6, <2>1 DEF ShownInv, WorkInv, OfBlueprint, UnderReview, Current
  <2> QED BY <2>2, <2>3 DEF Kept
<1>7. \/ UnderReview
      \/ /\ ~UnderReview /\ thread' = thread /\ thread[Current].of = batch.replans
         /\ run'.at \in {"inner", "returned"}
      \/ ~UnderReview /\ thread' = [thread EXCEPT ![Current] = Fresh] /\ run'.at = "inner"
  BY <1>1 DEF Chapter, SameBlueprint, Runs
<1> QED BY <1>4, <1>5, <1>6, <1>7

LEMMA WriteBlueprint == BlueprintInv /\ Write => Kept
<1> SUFFICES ASSUME BlueprintInv, Write PROVE Kept
  OBVIOUS
<1> DEFINE t == thread[Current]
           w == [t EXCEPT !.text = FreshText, !.replan = FALSE]
<1>1. /\ Current \in Chapters /\ t \in Threads /\ t.next = "write" /\ batch.replans \in Nat
      /\ thread \in [Chapters -> Threads] /\ UNCHANGED <<batch, row>> /\ run.at = "inner"
      /\ run \in Runs
  BY DEF BlueprintInv, OrderInv, Write, AtInner, TypeOK, Batches, Current
<1>2. ~t.error /\ t.of = batch.replans /\ (UnderReview => t.revision)
  BY <1>1 DEF BlueprintInv, TextInv, WorkInv
<1>3. FreshText \in [of: {batch.replans}, n: 1..3]
  BY FreshTextIs
<1>4. FreshText \in [of: Nat, n: 0..3] /\ FreshText.of = batch.replans
  BY <1>1, <1>3
<1>5. w \in Threads /\ w.text.of = batch.replans /\ w.of = batch.replans /\ ~w.error /\ ~w.replan
      /\ w.revision = t.revision
  BY <1>1, <1>2, <1>4 DEF Threads
<1>6. PICK u : /\ \/ u = [t EXCEPT !.next = "end", !.error = TRUE]
                  \/ u = [w EXCEPT !.next = "end", !.replan = TRUE] /\ ~t.revision
                  \/ \E k \in {"clean", "hard", "card"} : u = [w EXCEPT !.next = "persist", !.kind = k]
               /\ thread' = [thread EXCEPT ![Current] = u]
  BY <1>1 DEF Write
<1>7. /\ u.of = batch.replans /\ u \in Threads /\ u.revision = t.revision
      /\ u.next \in {"persist", "end"}
      /\ u.next = "persist" => ~u.error /\ ~u.replan
      /\ ~u.error => u.text.of = batch.replans
      /\ u.text.of = batch.replans \/ u.text = t.text
      /\ u.replan => t.replan \/ ~t.revision
  <2>1. CASE u = [t EXCEPT !.next = "end", !.error = TRUE]
    BY <2>1, <1>1, <1>2 DEF Threads
  <2>2. CASE u = [w EXCEPT !.next = "end", !.replan = TRUE] /\ ~t.revision
    BY <2>2, <1>5 DEF Threads
  <2>3. ASSUME NEW k \in {"clean", "hard", "card"}, u = [w EXCEPT !.next = "persist", !.kind = k]
        PROVE  /\ u.of = batch.replans /\ u.next = "persist" /\ u \in Threads /\ u.revision = t.revision
               /\ ~u.error /\ ~u.replan /\ u.text.of = batch.replans
    BY <2>3, <1>5 DEF Threads
  <2> QED BY <1>6, <2>1, <2>2, <2>3
<1>8. thread'[Current] = u /\ \A c \in Chapters : c # Current => thread'[c] = thread[c]
  BY <1>1, <1>6
<1>9. run'.at \in {"inner", "returned"}
  BY <1>1 DEF Write, Runs
<1>10. TextInv'
  BY <1>1, <1>7, <1>8 DEF BlueprintInv, TextInv
<1>11. ShownInv'
  BY <1>1, <1>2, <1>7, <1>8 DEF BlueprintInv, ShownInv, UnderReview, Current
<1>12. WorkInv'
  BY <1>1, <1>2, <1>7, <1>8, <1>9 DEF WorkInv, UnderReview, Current
<1> QED BY <1>1, <1>10, <1>11, <1>12 DEF Kept, OfBlueprint

LEMMA PersistBlueprint == BlueprintInv /\ Persist => Kept
<1> SUFFICES ASSUME BlueprintInv, Persist PROVE Kept
  OBVIOUS
<1> DEFINE t == thread[Current]
           u == [t EXCEPT !.next = "summarize", !.review = t.kind # "clean"]
           r == IF t.kind = "clean" THEN Confirmed(t.text) ELSE Shown(t.text)
<1>1. /\ Current \in Chapters /\ t \in Threads /\ t.next = "persist" /\ batch.next = "chapter"
      /\ thread \in [Chapters -> Threads] /\ row \in [Chapters -> Rows]
      /\ UNCHANGED <<batch, run>> /\ run.at = "inner"
  BY DEF BlueprintInv, OrderInv, RunInv, Persist, AtInner, TypeOK, Batches, Current
<1>2. ~t.error /\ ~t.replan /\ t.text.of = batch.replans /\ t.of = batch.replans
  BY <1>1 DEF BlueprintInv, TextInv, WorkInv
<1>3. /\ u.next = "summarize" /\ u.of = t.of /\ u.text = t.text /\ u.error = t.error
      /\ u.replan = t.replan
  BY <1>1 DEF Threads
<1>4. r.text = t.text
  BY DEF Confirmed, Shown
<1>5. /\ thread'[Current] = u /\ row'[Current] = r
      /\ \A c \in Chapters : c # Current => thread'[c] = thread[c] /\ row'[c] = row[c]
  <2>1. thread' = [thread EXCEPT ![Current] = u] /\ row' = [row EXCEPT ![Current] = r]
    BY <1>1 DEF Persist, TypeOK, Threads
  <2> QED BY <1>1, <2>1
<1>6. TextInv'
  <2>1. \A c \in Chapters : c # Current => thread'[c] = thread[c]
    BY <1>5
  <2>2. /\ thread'[Current].next = "summarize" /\ ~thread'[Current].error
        /\ ~thread'[Current].replan /\ thread'[Current].text.of = thread'[Current].of
    BY <1>2, <1>3, <1>5
  <2> QED BY <2>1, <2>2 DEF BlueprintInv, TextInv
<1>7. ShownInv' /\ WorkInv'
  BY <1>1, <1>2, <1>3, <1>5 DEF ShownInv, WorkInv, UnderReview, Current
<1>8. OfBlueprint
  BY <1>2, <1>4, <1>5 DEF OfBlueprint
<1> QED BY <1>6, <1>7, <1>8 DEF Kept

LEMMA SummarizeBlueprint == BlueprintInv /\ Summarize => Kept
<1> SUFFICES ASSUME BlueprintInv, Summarize PROVE Kept
  OBVIOUS
<1> DEFINE t == thread[Current]
           u == [t EXCEPT !.next = "end"]
<1>1. /\ Current \in Chapters /\ t \in Threads /\ t.next = "summarize" /\ batch.next = "chapter"
      /\ thread \in [Chapters -> Threads] /\ UNCHANGED <<batch, row>> /\ run.at = "inner"
      /\ run \in Runs
  BY DEF BlueprintInv, OrderInv, RunInv, Summarize, AtInner, TypeOK, Batches, Current
<1>2. ~t.error /\ ~t.replan /\ t.text.of = batch.replans /\ t.of = batch.replans
  BY <1>1 DEF BlueprintInv, TextInv, WorkInv
<1>3. /\ u.next = "end" /\ u.of = t.of /\ u.text = t.text /\ u.error = t.error
      /\ u.replan = t.replan
  BY <1>1 DEF Threads
<1>4. /\ thread'[Current] = u
      /\ \A c \in Chapters : c # Current => thread'[c] = thread[c]
  <2>1. thread' = [thread EXCEPT ![Current] = u]
    BY <1>1 DEF Summarize, Threads
  <2> QED BY <1>1, <2>1
<1>5. run'.at = "returned"
  BY <1>1 DEF Summarize, Runs
<1>6. TextInv'
  <2>1. thread'[Current].next = "end" /\ thread'[Current].text.of = thread'[Current].of
    BY <1>2, <1>3, <1>4
  <2> QED BY <1>4, <2>1 DEF BlueprintInv, TextInv
<1>7. ShownInv' /\ WorkInv' /\ OfBlueprint
  BY <1>1, <1>2, <1>3, <1>4, <1>5 DEF BlueprintInv, ShownInv, WorkInv, OfBlueprint, UnderReview, Current
<1> QED BY <1>6, <1>7 DEF Kept

LEMMA ReturnBlueprint == BlueprintInv /\ Return => Kept
<1> SUFFICES ASSUME BlueprintInv, Return PROVE Kept
  OBVIOUS
<1> DEFINE t == thread[Current]
           exhausted == t.replan /\ batch.replans >= MaxReplans
<1>1. /\ Current \in Chapters /\ t \in Threads /\ t.next = "end" /\ batch.next = "chapter"
      /\ batch \in Batches /\ run \in Runs /\ row \in [Chapters -> Rows]
      /\ thread' = thread /\ t.of = batch.replans
  BY DEF BlueprintInv, OrderInv, RunInv, WorkInv, Return, TypeOK, Batches, Current
<1>2. ASSUME NEW out \in {"failed", "awaiting_review"}, Halt(out), batch' = batch, row' = row
      PROVE  Kept
  <2>1. run'.at = "settle"
    BY <1>1, <1>2 DEF Halt, Runs
  <2> QED BY <1>1, <1>2, <2>1, QuietBlueprint
<1>3. ASSUME ~t.error, exhausted, row' = [row EXCEPT ![Current] = Shown(t.text)],
             Halt("awaiting_review"), batch' = batch
      PROVE  Kept
  <2>1. run'.at = "settle"
    BY <1>1, <1>3 DEF Halt, Runs
  <2>2. t.text.of = batch.replans
    BY <1>1, <1>3 DEF BlueprintInv, TextInv
  <2>3. /\ row'[Current].text = t.text
        /\ \A c \in Chapters : c # Current => row'[c] = row[c]
    BY <1>1, <1>3 DEF Shown
  <2>4. ShownInv' /\ WorkInv'
    BY <1>1, <1>3, <2>1, <2>2 DEF ShownInv, WorkInv, UnderReview, Current
  <2>5. TextInv' /\ OfBlueprint
    BY <1>1, <2>2, <2>3 DEF BlueprintInv, TextInv, OfBlueprint
  <2> QED BY <2>4, <2>5 DEF Kept
<1>4. ASSUME ~t.error, ~exhausted, ~t.review, Advance(t.replan), row' = row
      PROVE  Kept
  <2>1. ~UnderReview
    <3>1. CASE t.replan
      BY <1>1, <1>4, <3>1 DEF BlueprintInv, ShownInv
    <3>2. CASE ~t.replan
      BY <1>1, <1>4, <3>2 DEF BlueprintInv, OrderInv, EndsConfirmed, UnderReview
    <3> QED BY <3>1, <3>2
  <2>2. batch'.position = batch.position /\ run'.at = "batch"
    BY <1>1, <1>4 DEF Advance, Batches, Runs
  <2> QED BY <1>1, <1>4, <2>1, <2>2 DEF BlueprintInv, Kept, ShownInv, WorkInv, TextInv, OfBlueprint,
          UnderReview, Current
<1> QED BY <1>2, <1>3, <1>4 DEF Return

LEMMA ResolveBlueprint == BlueprintInv /\ (ResolveRevise \/ ResolveAccept) => Kept
<1> SUFFICES ASSUME BlueprintInv, ResolveRevise \/ ResolveAccept PROVE Kept
  OBVIOUS
<1> DEFINE t == thread[Current]
           u == [t EXCEPT !.next = "write", !.error = FALSE, !.review = FALSE, !.revision = TRUE]
<1>1. /\ Current \in Chapters /\ t \in Threads /\ batch' = batch /\ run.at = "resolve"
      /\ run \in Runs /\ thread \in [Chapters -> Threads] /\ row \in [Chapters -> Rows]
  BY DEF BlueprintInv, OrderInv, ResolveRevise, ResolveAccept, TypeOK, Batches, Current
<1>2. UnderReview /\ t.of = batch.replans /\ t.text.of = batch.replans
  BY <1>1 DEF BlueprintInv, WorkInv, ShownInv
<1>3. CASE ResolveRevise
  <2>1. thread' = [thread EXCEPT ![Current] = u] /\ row' = row
    BY <1>1, <1>3 DEF ResolveRevise, Threads
  <2>2. /\ u.next = "write" /\ ~u.error /\ u.revision /\ u.of = t.of /\ u.text = t.text
        /\ u.replan = t.replan
    BY <1>1 DEF Threads
  <2>3. /\ thread'[Current] = u
        /\ \A c \in Chapters : c # Current => thread'[c] = thread[c]
    BY <1>1, <2>1
  <2>4. run'.at = "inner"
    BY <1>1, <1>3 DEF ResolveRevise, Runs
  <2>5. TextInv'
    BY <1>1, <2>2, <2>3 DEF BlueprintInv, TextInv
  <2>6. ShownInv' /\ WorkInv' /\ OfBlueprint
    BY <1>1, <1>2, <2>1, <2>2, <2>3, <2>4 DEF BlueprintInv, ShownInv, WorkInv, OfBlueprint, UnderReview,
       Current
  <2> QED BY <2>5, <2>6 DEF Kept
<1>4. CASE ResolveAccept
  <2>1. /\ row'[Current].status = "confirmed" /\ row'[Current].text = t.text
        /\ \A c \in Chapters : c # Current => row'[c] = row[c]
        /\ thread' = thread
    BY <1>1, <1>4 DEF ResolveAccept, Confirmed
  <2>2. run'.at = "accepted"
    BY <1>1, <1>4 DEF ResolveAccept, Runs
  <2>3. ShownInv' /\ WorkInv' /\ TextInv'
    BY <1>1, <2>1, <2>2 DEF BlueprintInv, ShownInv, WorkInv, TextInv, UnderReview, Current
  <2>4. OfBlueprint
    BY <1>2, <2>1 DEF OfBlueprint
  <2> QED BY <2>3, <2>4 DEF Kept
<1> QED BY <1>3, <1>4

LEMMA AcceptBlueprint == BlueprintInv /\ Accept => Kept
<1> SUFFICES ASSUME BlueprintInv, Accept PROVE Kept
  OBVIOUS
<1>1. /\ row[Current].status = "confirmed" /\ batch \in Batches /\ run \in Runs
      /\ Advance(thread[Current].replan) /\ UNCHANGED <<thread, row>>
  BY DEF Accept, ReviewLeft, BlueprintInv, OrderInv, TypeOK, RunInv
<1>2. batch'.position = batch.position /\ run'.at = "batch"
  BY <1>1 DEF Advance, Batches, Runs
<1> QED BY <1>1, <1>2 DEF BlueprintInv, Kept, ShownInv, WorkInv, TextInv, OfBlueprint, UnderReview,
        Current

LEMMA PausesBlueprint ==
  BlueprintInv /\ (ResolveWait \/ EndSlice \/ Yield \/ Settle \/ Stop \/ Fault) => Kept
<1> SUFFICES ASSUME BlueprintInv, ResolveWait \/ EndSlice \/ Yield \/ Settle \/ Stop \/ Fault PROVE Kept
  OBVIOUS
<1>1. UNCHANGED <<batch, thread, row>>
  BY DEF ResolveWait, EndSlice, Yield, Settle, Stop, Fault
<1>2. run \in Runs
  BY DEF BlueprintInv, OrderInv, TypeOK
<1>3. Idle.at = "idle"
  BY DEF Idle
<1>4. run'.at \in {"idle", "settle", "yielding"}
  BY <1>2, <1>3 DEF Runs, ResolveWait, Halt, EndSlice, Yield, Settle, Stop, Fault
<1> QED BY <1>1, <1>4, QuietBlueprint

LEMMA StepBlueprint == BlueprintInv /\ [Next]_vars => BlueprintInv' /\ OfBlueprint
<1> SUFFICES ASSUME BlueprintInv, [Next]_vars PROVE OrderInv' /\ Kept
  BY DEF BlueprintInv, Kept
<1>1. OrderInv'
  BY StepOrder DEF BlueprintInv
<1>2. CASE Work
  BY <1>1, <1>2, TakeBlueprint, NodesBlueprint, ChapterBlueprint, WriteBlueprint, PersistBlueprint,
     SummarizeBlueprint, ReturnBlueprint, ResolveBlueprint, AcceptBlueprint, PausesBlueprint
     DEF Work
<1>3. CASE Fault
  BY <1>1, <1>3, PausesBlueprint
<1>4. CASE Author \/ UNCHANGED vars
  <2>1. UNCHANGED <<batch, thread, row, run>>
    BY <1>4 DEF vars, Author, Pause, Cancel, Resume, Judge
  <2> QED BY <1>1, <2>1, QuietBlueprint
<1> QED BY <1>2, <1>3, <1>4 DEF Next

(* The text of a chapter was written under the blueprint in force when it  *)
(* is shown or confirmed, never under one that was given up, for every     *)
(* number of blueprints and whatever interrupts the chapter                *)
(* (batch_generation, node_run_chapter).                                   *)
THEOREM FromThisBlueprintHolds == Spec => FromThisBlueprint
<1>1. Init => BlueprintInv
  BY InitOrder, InitBlueprint DEF BlueprintInv
<1>2. BlueprintInv /\ [Next]_vars => BlueprintInv'
  BY StepBlueprint
<1>3. BlueprintInv /\ [Next]_vars =>
        [\A c \in Chapters : row'[c].text # row[c].text => row'[c].text.of = batch.replans]_vars
  BY StepBlueprint DEF OfBlueprint
<1> QED BY <1>1, <1>2, <1>3, PTL DEF Spec, FromThisBlueprint

-----------------------------------------------------------------------------
(***************************************************************************)
(* From there on: a batch that goes on keeps what is confirmed, and what   *)
(* awaits review is there to be reviewed.  Each of the two holds as long as the interruptions that can  *)
(* break it are left out, and for every choice of the others: the          *)
(* assumptions name them.                                                  *)
(*                                                                         *)
(* Both hang on what a chapter's thread says when the batch comes back to  *)
(* it.  A thread of the blueprint in force is gone on with, so it has to   *)
(* agree with the chapter's row: finished where the row is confirmed,      *)
(* with the row's text where the row is shown.                             *)
(***************************************************************************)

(* What a batch comes to.  One that ended well is done, and no message     *)
(* starts it again; one that failed has ended.                             *)
EndInv ==
  /\ batch.next = "end" /\ ~batch.failed => status = "done"
  /\ run.at = "ending" /\ ~batch.failed => run.out = "done"
  /\ run.at = "settle" /\ batch.next = "end" /\ ~batch.failed => run.out = "done"
  /\ batch.failed => batch.next \in {"batch_end", "end"}

(* A revision has no wish for another blueprint; a text under review that  *)
(* nothing refuses is finished.                                            *)
RevisionInv ==
  /\ \A c \in Chapters :
       thread[c].revision /\ ~thread[c].error /\ thread[c].next \in {"persist", "summarize", "end"} =>
         ~thread[c].replan
  /\ UnderReview /\ "refused" \notin pool[Current] =>
       thread[Current].next \in {"summarize", "end"} /\ ~thread[Current].error

CourseInv == BlueprintInv /\ EndInv /\ RevisionInv

(* The types a step at work on a chapter needs.                            *)
LEMMA AtWork ==
  ASSUME CourseInv
  PROVE  /\ Current \in Chapters /\ thread \in [Chapters -> Threads] /\ row \in [Chapters -> Rows]
         /\ pool \in [Chapters -> SUBSET {"pending", "refused"}] /\ thread[Current] \in Threads
         /\ run \in Runs /\ batch \in Batches /\ batch.replans \in Nat
         /\ Idle.at = "idle" /\ batch.position = Current
         /\ batch.next = "chapter" => ~batch.failed
BY DEF CourseInv, BlueprintInv, OrderInv, TypeOK, Batches, Current, EndInv, Idle

(* Bridge goes on to a chapter that nobody has touched.                    *)
LEMMA BridgeIsFresh ==
  ASSUME CourseInv, Bridge
  PROVE  /\ batch.position + 1 \in Chapters
         /\ thread[batch.position + 1].next = "none" /\ row[batch.position + 1].status = "empty"
         /\ batch' = [batch EXCEPT !.next = "chapter", !.position = batch.position + 1]
         /\ Current' = batch.position + 1 /\ batch'.next = "chapter" /\ run'.at = "yield"
         /\ batch'.failed = batch.failed /\ batch'.replans = batch.replans
<1>1. batch \in Batches /\ run \in Runs
  BY AtWork
<1>2. batch.position + 1 \in Chapters /\ batch.position + 1 > batch.position
  BY <1>1, BatchAssumption DEF Bridge, AtNode, CourseInv, BlueprintInv, OrderInv, BatchInv, Batches, Chapters
<1>3. thread[batch.position + 1].next = "none" /\ row[batch.position + 1].status = "empty"
  BY <1>2 DEF CourseInv, BlueprintInv, OrderInv, After
<1> QED BY <1>1, <1>2, <1>3 DEF Bridge, Batches, Runs, Current

LEMMA InitCourse == Init => CourseInv
<1> SUFFICES ASSUME Init PROVE EndInv /\ RevisionInv
  BY InitOrder, InitBlueprint DEF CourseInv, BlueprintInv
<1> QED BY BatchAssumption DEF Init, RevisionInv, EndInv, UnderReview, Current, Idle, Unwritten, Chapters

(* Steps that leave the batch and the chapters alone.                      *)
LEMMA QuietCourse ==
  ASSUME CourseInv, UNCHANGED <<batch, thread, row>>,
         "refused" \notin pool'[Current] => "refused" \notin pool[Current],
         status = "done" => status' = "done",
         \/ run' = run \/ run'.at \notin {"ending", "settle"}
         \/ run'.at # "ending" /\ batch.next # "end"
  PROVE  EndInv' /\ RevisionInv'
<1>1. RevisionInv'
  BY DEF CourseInv, RevisionInv, UnderReview, Current
<1>2. /\ batch'.next = "end" /\ ~batch'.failed => status' = "done"
      /\ batch'.failed => batch'.next \in {"batch_end", "end"}
  BY DEF CourseInv, EndInv
<1>3. CASE run' = run
  BY <1>1, <1>2, <1>3 DEF CourseInv, EndInv
<1>4. CASE run'.at \notin {"ending", "settle"}
  BY <1>1, <1>2, <1>4 DEF EndInv
<1>5. CASE run'.at # "ending" /\ batch.next # "end"
  BY <1>1, <1>2, <1>5 DEF EndInv
<1> QED BY <1>3, <1>4, <1>5

(* A message starts a batch anew only when it has failed.                  *)
LEMMA TakeIs ==
  ASSUME CourseInv, NEW m \in queue, Take(m)
  PROVE  /\ UNCHANGED <<thread, row, pool>> /\ run.at = "idle"
         /\ \/ Outdated(m) /\ UNCHANGED <<status, batch, run>>
            \/ /\ ~Outdated(m) /\ status # "done" /\ run'.at = "batch"
               /\ batch'.position = batch.position /\ batch'.replans = batch.replans
               /\ \/ batch' = batch /\ batch.next \notin {"none", "end"}
                  \/ /\ batch.next = "none" \/ batch.failed
                     /\ batch'.next = "batch_plan" /\ ~batch'.failed
<1>1. batch \in Batches /\ Idle.at = "idle"
  BY AtWork
<1>2. UNCHANGED <<thread, row, pool>> /\ run.at = "idle"
  BY DEF Take
<1>3. CASE Outdated(m)
  BY <1>2, <1>3 DEF Take
<1>4. CASE ~Outdated(m)
  <2>1. status # "done" /\ run'.at = "batch"
    BY <1>4 DEF Take, Outdated, Idle
  <2>2. CASE batch.next = "none"
    <3>1. ~batch.failed
      BY <2>2 DEF CourseInv, EndInv
    <3> QED BY <1>1, <1>2, <1>4, <2>1, <2>2, <3>1 DEF Take, Batches
  <2>3. CASE batch.next = "end"
    <3>1. batch.failed
      BY <2>1, <2>3 DEF CourseInv, EndInv
    <3>2. batch' = Restarted(batch)
      BY <1>4, <2>3 DEF Take
    <3>3. /\ Restarted(batch).next = "batch_plan" /\ ~Restarted(batch).failed
          /\ Restarted(batch).position = batch.position /\ Restarted(batch).replans = batch.replans
      BY <1>1 DEF Restarted, Batches
    <3> QED BY <1>2, <1>4, <2>1, <3>1, <3>2, <3>3
  <2>4. CASE batch.next \notin {"none", "end"}
    BY <1>2, <1>4, <2>1, <2>4 DEF Take
  <2> QED BY <2>2, <2>3, <2>4
<1> QED BY <1>3, <1>4

LEMMA StepCourse == CourseInv /\ [Next]_vars => CourseInv'
<1> SUFFICES ASSUME CourseInv, [Next]_vars PROVE EndInv' /\ RevisionInv'
  BY StepBlueprint DEF CourseInv
<1> DEFINE t == thread[Current]
<1>1. ASSUME NEW m \in queue, Take(m) PROVE EndInv' /\ RevisionInv'
  <2>1. CASE Outdated(m) /\ UNCHANGED <<status, batch, run>>
    BY <1>1, <2>1, TakeIs, QuietCourse
  <2>2. CASE ~(Outdated(m) /\ UNCHANGED <<status, batch, run>>)
    <3>1. EndInv'
      BY <1>1, <2>2, TakeIs DEF CourseInv, EndInv
    <3>2. RevisionInv'
      BY <1>1, <2>2, TakeIs DEF CourseInv, RevisionInv, UnderReview, Current
    <3> QED BY <3>1, <3>2
  <2> QED BY <2>1, <2>2
<1>2. CASE Bridge
  <2>1. UNCHANGED <<thread, row, pool>>
    BY <1>2 DEF Bridge
  <2> QED BY <1>2, <2>1, BridgeIsFresh DEF CourseInv, EndInv, RevisionInv, UnderReview, Bridge, AtNode
<1>3. CASE BatchPlan \/ Reset \/ Reflexion
  <2>1. /\ UNCHANGED <<thread, row, pool>> /\ batch'.position = batch.position /\ run'.at = "batch"
        /\ batch'.next # "end" /\ (batch'.failed => batch'.next = "batch_end")
    BY <1>3, AtWork DEF BatchPlan, Reset, Reflexion, AtNode, Batches, CourseInv, EndInv
  <2> QED BY <2>1 DEF CourseInv, EndInv, RevisionInv, UnderReview, Current
<1>4. CASE EnterEnd
  <2>1. run'.at = "ending" /\ (~batch.failed => run'.out = "done") /\ UNCHANGED <<status, batch>>
    BY <1>4, AtWork DEF EnterEnd, Runs
  <2> QED BY <1>4, <2>1 DEF EnterEnd, CourseInv, EndInv, RevisionInv, UnderReview, Current
<1>5. CASE BatchEnd
  <2>1. /\ run'.at = "settle" /\ run'.out = run.out /\ status' = run.out /\ run.at = "ending"
        /\ batch'.next = "end" /\ batch'.failed = batch.failed /\ batch'.position = batch.position
    BY <1>5, AtWork DEF BatchEnd, Runs, Batches
  <2> QED BY <1>5, <2>1 DEF BatchEnd, CourseInv, EndInv, RevisionInv, UnderReview, Current
<1>6. CASE Chapter
  <2>1. /\ UNCHANGED <<status, batch, row, pool>> /\ batch.next = "chapter"
        /\ run'.at \in {"resolve", "returned", "inner"}
    BY <1>6, AtWork DEF Chapter, AtNode, Runs
  <2>2. CASE thread' = thread
    BY <2>1, <2>2, QuietCourse
  <2>3. CASE ~UnderReview /\ thread' = [thread EXCEPT ![Current] = Fresh]
    <3>1. thread'[Current] = Fresh /\ \A c \in Chapters : c # Current => thread'[c] = thread[c]
      BY <2>3, AtWork
    <3>2. Fresh.next = "write"
      BY DEF Fresh, Unwritten
    <3>3. EndInv'
      BY <2>1, AtWork DEF EndInv
    <3>4. RevisionInv'
      BY <2>1, <2>3, <3>1, <3>2 DEF CourseInv, RevisionInv, UnderReview, Current
    <3> QED BY <3>3, <3>4
  <2> QED BY <1>6, <2>2, <2>3 DEF Chapter
<1>7. CASE Write \/ Persist \/ Summarize \/ Return \/ ResolveRevise \/ ResolveAccept \/ Accept
  <2>1. batch.next = "chapter" /\ status' = status
    BY <1>7 DEF Write, Persist, Summarize, Return, ResolveRevise, ResolveAccept, Accept, AtInner,
       CourseInv, BlueprintInv, OrderInv, RunInv
  <2>2. run.at # "ending" /\ run'.at # "ending" /\ batch'.next # "end" /\ ~batch'.failed
        /\ batch'.position = batch.position
    BY <1>7, <2>1, AtWork DEF Write, Persist, Summarize, Return, ResolveRevise, ResolveAccept, Accept,
       AtInner, Advance, Route, Halt, Runs, Batches
  <2>3. EndInv'
    BY <2>1, <2>2 DEF EndInv
  <2>4. RevisionInv'
    <3>1. CASE Write
      <4> DEFINE w == [t EXCEPT !.text = FreshText, !.replan = FALSE]
      <4>1. t.next = "write" /\ UNCHANGED <<row, pool>>
        BY <3>1 DEF Write, AtInner
      <4>2. w \in [next: {"write"}, of: Nat, text: {FreshText}, kind: {"clean", "hard", "card"},
                   error: BOOLEAN, review: BOOLEAN, replan: {FALSE}, revision: {t.revision}]
        BY <4>1, AtWork DEF Threads
      <4>3. PICK u : /\ \/ u = [t EXCEPT !.next = "end", !.error = TRUE]
                        \/ u = [w EXCEPT !.next = "end", !.replan = TRUE] /\ ~t.revision
                        \/ \E k \in {"clean", "hard", "card"} :
                             u = [w EXCEPT !.next = "persist", !.kind = k]
                     /\ thread' = [thread EXCEPT ![Current] = u]
        BY <3>1, <4>1 DEF Write
      <4>4. u.revision /\ ~u.error => ~u.replan
        <5>1. CASE u = [t EXCEPT !.next = "end", !.error = TRUE]
          BY <5>1, AtWork DEF Threads
        <5>2. CASE u = [w EXCEPT !.next = "end", !.replan = TRUE] /\ ~t.revision
          BY <5>2, <4>2
        <5>3. ASSUME NEW k \in {"clean", "hard", "card"}, u = [w EXCEPT !.next = "persist", !.kind = k]
              PROVE  ~u.replan
          BY <5>3, <4>2
        <5> QED BY <4>3, <5>1, <5>2, <5>3
      <4>5. thread'[Current] = u /\ \A c \in Chapters : c # Current => thread'[c] = thread[c]
        BY <4>3, AtWork
      <4> QED BY <2>2, <4>1, <4>4, <4>5 DEF CourseInv, RevisionInv, UnderReview, Current
    <3>2. CASE Persist
      <4> DEFINE u == [t EXCEPT !.next = "summarize", !.review = t.kind # "clean"]
      <4>1. t.next = "persist" /\ ~t.error /\ ~t.replan
        BY <3>2, AtWork DEF Persist, AtInner, CourseInv, BlueprintInv, TextInv
      <4>2. thread' = [thread EXCEPT ![Current] = u]
        BY <3>2, AtWork DEF Persist, Threads
      <4>3. thread'[Current] = u /\ \A c \in Chapters : c # Current => thread'[c] = thread[c]
        BY <4>2, AtWork
      <4>4. u.next = "summarize" /\ ~u.error /\ ~u.replan
        BY <4>1, AtWork DEF Threads
      <4> QED BY <2>2, <4>3, <4>4 DEF CourseInv, RevisionInv, UnderReview, Current
    <3>3. CASE Summarize
      <4> DEFINE u == [t EXCEPT !.next = "end"]
      <4>1. t.next = "summarize" /\ UNCHANGED <<row, pool>>
        BY <3>3 DEF Summarize, AtInner
      <4>2. thread' = [thread EXCEPT ![Current] = u]
        BY <3>3, AtWork DEF Summarize, Threads
      <4>3. thread'[Current] = u /\ \A c \in Chapters : c # Current => thread'[c] = thread[c]
        BY <4>2, AtWork
      <4>4. /\ u.next = "end" /\ u.error = t.error /\ u.replan = t.replan /\ u.revision = t.revision
        BY AtWork DEF Threads
      <4> QED BY <2>2, <4>1, <4>3, <4>4, AtWork DEF CourseInv, RevisionInv, UnderReview, Current
    <3>4. CASE Return
      <4>1. t.next = "end" /\ thread' = thread
        BY <3>4 DEF Return, CourseInv, BlueprintInv, OrderInv, RunInv
      <4>2. \/ ~t.error \/ UNCHANGED <<row, pool>>
        BY <3>4 DEF Return
      <4> QED BY <2>2, <4>1, <4>2 DEF CourseInv, RevisionInv, UnderReview, Current
    <3>5. CASE ResolveRevise
      <4> DEFINE u == [t EXCEPT !.next = "write", !.error = FALSE, !.review = FALSE, !.revision = TRUE]
      <4>1. thread' = [thread EXCEPT ![Current] = u] /\ "refused" \in pool'[Current]
        BY <3>5, AtWork DEF ResolveRevise, Threads
      <4>2. u.next = "write"
        BY AtWork DEF Threads
      <4>3. thread'[Current] = u /\ \A c \in Chapters : c # Current => thread'[c] = thread[c]
        BY <4>1, AtWork
      <4>4. \A c \in Chapters :
              thread'[c].revision /\ ~thread'[c].error /\ thread'[c].next \in {"persist", "summarize", "end"} =>
                ~thread'[c].replan
        BY <4>2, <4>3 DEF CourseInv, RevisionInv
      <4> QED BY <2>2, <4>1, <4>4 DEF RevisionInv, Current
    <3>6. CASE ResolveAccept
      <4>1. row'[Current].status = "confirmed" /\ UNCHANGED <<thread, pool>>
        BY <3>6, AtWork DEF ResolveAccept, Confirmed
      <4> QED BY <2>2, <4>1 DEF CourseInv, RevisionInv, UnderReview, Current
    <3>7. CASE Accept
      <4>1. UNCHANGED <<thread, row, pool>>
        BY <3>7 DEF Accept
      <4> QED BY <2>2, <4>1 DEF CourseInv, RevisionInv, UnderReview, Current
    <3> QED BY <1>7, <3>1, <3>2, <3>3, <3>4, <3>5, <3>6, <3>7
  <2> QED BY <2>3, <2>4
<1>8. CASE ResolveWait \/ EndSlice \/ Yield \/ Stop \/ Fault
  <2>1. UNCHANGED <<batch, thread, row, pool>> /\ (status = "done" => status' = "done")
    BY <1>8 DEF ResolveWait, EndSlice, Yield, Stop, Fault, Fenced
  <2>2. \/ run'.at \in {"idle", "yielding"}
        \/ run'.at = "settle" /\ batch.next = "chapter"
    BY <1>8, AtWork DEF ResolveWait, Halt, EndSlice, Yield, Stop, Fault, Runs, CourseInv, BlueprintInv,
       OrderInv, RunInv
  <2> QED BY <2>1, <2>2, QuietCourse
<1>9. CASE Settle
  <2>1. /\ UNCHANGED <<batch, thread, row, pool>> /\ run'.at = "idle" /\ run.at = "settle"
        /\ status' = IF status = "cancelled" THEN status ELSE run.out
    BY <1>9, AtWork DEF Settle
  <2> QED BY <2>1 DEF CourseInv, EndInv, RevisionInv, UnderReview, Current
<1>10. CASE Author
  <2>1. UNCHANGED <<batch, thread, run, row>> /\ (status = "done" => status' = "done")
    BY <1>10 DEF Author, Pause, Cancel, Resume, Judge
  <2>2. "refused" \notin pool'[Current] => "refused" \notin pool[Current]
    BY <1>10, AtWork DEF Author, Pause, Cancel, Resume, Judge
  <2> QED BY <2>1, <2>2, QuietCourse
<1>11. CASE UNCHANGED vars
  BY <1>11, QuietCourse DEF vars
<1> QED BY <1>1, <1>2, <1>3, <1>4, <1>5, <1>6, <1>7, <1>8, <1>9, <1>10, <1>11 DEF Next, Work

---------------------------------------------------------------------------
(* What is confirmed stays.  Here it matters that the author cannot accept *)
(* a text that asked for one blueprint too many ("replan") and that no     *)
(* interruption falls between its showing and the task's status ("late").  *)

(* A text that asked for one blueprint too many waits for its refusal.     *)
Leaking == UnderReview /\ thread[Current].replan /\ "refused" \notin pool[Current]

LeakInv ==
  Leaking => \/ run.at = "idle" /\ status \in {"awaiting_review", "cancelled", "paused"}
             \/ run.at = "settle" /\ run.out = "awaiting_review"

(* A chapter that is confirmed at the position has a finished thread of    *)
(* this blueprint, which asks for no other.                                *)
KeptInv ==
  batch.next = "chapter" /\ row[Current].status = "confirmed" =>
    /\ thread[Current].next \in {"summarize", "end"} /\ thread[Current].of = batch.replans
    /\ ~thread[Current].error /\ ~thread[Current].replan

(* Before a blueprint, and after none could be made, the chapter at the    *)
(* position is still to be written.                                        *)
UndoneInv ==
  batch.failed \/ batch.next \in {"none", "batch_plan", "reset_replan_batch"} =>
    row[Current].status # "confirmed"

KeepInv == LeakInv /\ KeptInv /\ UndoneInv

NoneRewritten == \A c \in Chapters : row[c].status = "confirmed" => row'[c] = row[c]

LEMMA InitKeep == Init => KeepInv
BY BatchAssumption DEF Init, KeepInv, LeakInv, Leaking, KeptInv, UndoneInv, UnderReview, Current,
   Unwritten, Chapters

(* Steps that leave the batch and the chapters alone: a text waits only    *)
(* where LeakInv says.                                                     *)
LEMMA QuietKeep ==
  ASSUME KeepInv, UNCHANGED <<batch, thread, row>>, Leaking' => LeakInv'
  PROVE  KeepInv' /\ NoneRewritten
BY DEF KeepInv, LeakInv, KeptInv, UndoneInv, NoneRewritten, Current

(* What the batch does between two chapters.                               *)
LEMMA BatchKeep ==
  ASSUME CourseInv, KeepInv,
         \/ \E m \in queue : Take(m)
         \/ BatchPlan \/ Reset \/ Bridge \/ Reflexion \/ EnterEnd \/ BatchEnd
  PROVE  KeepInv' /\ NoneRewritten
<1>1. ASSUME NEW m \in queue, Take(m) PROVE KeepInv' /\ NoneRewritten
  <2>1. CASE Outdated(m) /\ UNCHANGED <<status, batch, run>>
    BY <1>1, <2>1, TakeIs, QuietKeep DEF KeepInv, LeakInv, Leaking, UnderReview, Current
  <2>2. CASE ~(Outdated(m) /\ UNCHANGED <<status, batch, run>>)
    <3>1. ~Leaking
      BY <1>1, <2>2, TakeIs DEF KeepInv, LeakInv, Outdated
    <3>2. LeakInv' /\ NoneRewritten
      BY <1>1, <2>2, <3>1, TakeIs DEF LeakInv, Leaking, NoneRewritten, UnderReview, Current
    <3>3. KeptInv' /\ UndoneInv'
      BY <1>1, <2>2, TakeIs DEF KeepInv, KeptInv, UndoneInv, Current
    <3> QED BY <3>2, <3>3 DEF KeepInv
  <2> QED BY <2>1, <2>2
<1>2. CASE Bridge
  <2>1. UNCHANGED <<thread, row, pool>> /\ ~batch.failed
    BY <1>2 DEF Bridge, AtNode, CourseInv, EndInv
  <2> QED BY <1>2, <2>1, BridgeIsFresh DEF KeepInv, LeakInv, Leaking, KeptInv, UndoneInv, NoneRewritten,
          UnderReview
<1>3. CASE BatchPlan \/ Reset \/ Reflexion \/ EnterEnd \/ BatchEnd
  <2>1. /\ UNCHANGED <<thread, row, pool>> /\ batch'.position = batch.position /\ ~UnderReview
        /\ batch'.failed \/ batch'.next \in {"chapter", "batch_plan"}
             => batch.failed \/ batch.next \in {"batch_plan", "reset_replan_batch"}
        /\ batch'.next \in {"chapter", "batch_plan", "batch_end", "end"}
    BY <1>3, AtWork DEF BatchPlan, Reset, Reflexion, EnterEnd, BatchEnd, AtNode, Batches,
       CourseInv, BlueprintInv, OrderInv, RunInv, ShownInv
  <2> QED BY <2>1 DEF KeepInv, LeakInv, Leaking, KeptInv, UndoneInv, NoneRewritten, UnderReview, Current
<1> QED BY <1>1, <1>2, <1>3

(* A step inside the chapter's graph that leaves the rows alone.           *)
LEMMA ThreadKeep ==
  ASSUME CourseInv, KeepInv, batch.next = "chapter", run.at \in {"batch", "inner", "resolve"},
         UNCHANGED <<batch, row>>,
         row[Current].status = "confirmed" =>
           /\ thread'[Current].next \in {"summarize", "end"}
           /\ thread'[Current].of = thread[Current].of
           /\ ~thread'[Current].error /\ ~thread'[Current].replan,
         Leaking' => Leaking
  PROVE  KeepInv' /\ NoneRewritten
BY AtWork DEF KeepInv, LeakInv, KeptInv, UndoneInv, NoneRewritten, Current

LEMMA ChapterKeep ==
  ASSUME CourseInv, KeepInv, Chapter \/ Write \/ Summarize \/ ResolveRevise
  PROVE  KeepInv' /\ NoneRewritten
<1> DEFINE t == thread[Current]
<1>1. /\ batch.next = "chapter" /\ run.at \in {"batch", "inner", "resolve"} /\ UNCHANGED <<batch, row>>
      /\ row[Current].status = "confirmed" =>
           /\ t.next \in {"summarize", "end"} /\ t.of = batch.replans /\ ~t.error /\ ~t.replan
  BY DEF Chapter, Write, Summarize, ResolveRevise, AtNode, AtInner, CourseInv, BlueprintInv, OrderInv,
     RunInv, KeepInv, KeptInv
<1>2. CASE Chapter
  <2>1. thread' = thread \/ (~UnderReview /\ row[Current].status # "confirmed")
    BY <1>1, <1>2 DEF Chapter, SameBlueprint
  <2>2. UNCHANGED pool
    BY <1>2 DEF Chapter
  <2> QED BY <1>1, <2>1, <2>2, ThreadKeep DEF Leaking, UnderReview, Current
<1>3. CASE Write
  <2>1. t.next = "write" /\ UNCHANGED pool
    BY <1>3 DEF Write, AtInner
  <2>2. ~(UnderReview /\ "refused" \notin pool[Current])
    BY <2>1 DEF CourseInv, RevisionInv
  <2> QED BY <1>1, <2>1, <2>2, ThreadKeep DEF Leaking, UnderReview, Current
<1>4. CASE Summarize
  <2>1. thread'[Current] = [t EXCEPT !.next = "end"] /\ UNCHANGED pool
    BY <1>4, AtWork DEF Summarize, Threads
  <2>2. /\ thread'[Current].next = "end" /\ thread'[Current].of = t.of
        /\ thread'[Current].error = t.error /\ thread'[Current].replan = t.replan
    BY <2>1, AtWork DEF Threads
  <2> QED BY <1>1, <2>1, <2>2, ThreadKeep DEF Leaking, UnderReview, Current
<1>5. CASE ResolveRevise
  <2>1. "refused" \in pool'[Current] /\ UnderReview
    BY <1>5, AtWork DEF ResolveRevise, CourseInv, BlueprintInv, WorkInv
  <2> QED BY <1>1, <2>1, ThreadKeep DEF Leaking, UnderReview, Current
<1> QED BY <1>2, <1>3, <1>4, <1>5

LEMMA PersistKeep == ASSUME CourseInv, KeepInv, Persist PROVE KeepInv' /\ NoneRewritten
<1> DEFINE t == thread[Current]
           u == [t EXCEPT !.next = "summarize", !.review = t.kind # "clean"]
<1>1. /\ run.at = "inner" /\ batch.next = "chapter" /\ t.next = "persist" /\ batch' = batch
  BY DEF Persist, AtInner, CourseInv, BlueprintInv, OrderInv, RunInv
<1>2. ~t.error /\ ~t.replan /\ t.of = batch.replans
  BY <1>1, AtWork DEF CourseInv, BlueprintInv, TextInv, WorkInv
<1>3. /\ thread'[Current] = u
      /\ \A c \in Chapters : c # Current => row'[c] = row[c]
  <2>1. thread' = [thread EXCEPT ![Current] = u]
    BY AtWork DEF Persist, Threads
  <2>2. row' = [row EXCEPT ![Current] = IF t.kind = "clean" THEN Confirmed(t.text) ELSE Shown(t.text)]
    BY DEF Persist
  <2> QED BY <2>1, <2>2, AtWork
<1>4. u.next = "summarize" /\ u.of = t.of /\ ~u.error /\ ~u.replan
  BY <1>2, AtWork DEF Threads
<1>5. row[Current].status # "confirmed"
  BY <1>1 DEF KeepInv, KeptInv
<1> QED BY <1>1, <1>2, <1>3, <1>4, <1>5, AtWork DEF KeepInv, LeakInv, Leaking, KeptInv, UndoneInv,
        NoneRewritten, UnderReview, Current

LEMMA ReturnKeep == ASSUME CourseInv, KeepInv, Return PROVE KeepInv' /\ NoneRewritten
<1> DEFINE t == thread[Current]
           exhausted == t.replan /\ batch.replans >= MaxReplans
<1>1. /\ batch.next = "chapter" /\ run.at = "returned" /\ ~Leaking /\ thread' = thread /\ t.next = "end"
      /\ ~batch.failed
  BY AtWork DEF Return, CourseInv, BlueprintInv, OrderInv, RunInv, KeepInv, LeakInv
<1>2. CASE t.error /\ Halt("failed") /\ UNCHANGED <<batch, row, pool>>
  BY <1>1, <1>2, QuietKeep DEF Leaking, UnderReview, Current
<1>3. CASE /\ ~t.error /\ exhausted /\ row' = [row EXCEPT ![Current] = Shown(t.text)]
           /\ Halt("awaiting_review") /\ UNCHANGED batch
  <2>1. /\ row'[Current].status = "awaiting_review"
        /\ \A c \in Chapters : c # Current => row'[c] = row[c]
    BY <1>3, AtWork DEF Shown
  <2>2. run'.at = "settle" /\ run'.out = "awaiting_review"
    BY <1>3, AtWork DEF Halt, Runs
  <2>3. row[Current].status # "confirmed"
    BY <1>1, <1>3 DEF KeepInv, KeptInv
  <2> QED BY <1>1, <1>3, <2>1, <2>2, <2>3 DEF KeepInv, LeakInv, KeptInv, UndoneInv, NoneRewritten, Current
<1>4. CASE /\ ~t.error /\ ~exhausted /\ UNCHANGED row
           /\ IF t.review THEN Halt("awaiting_review") /\ UNCHANGED batch ELSE Advance(t.replan)
  <2>1. ~(UnderReview /\ t.replan)
    BY <1>4, AtWork DEF CourseInv, BlueprintInv, ShownInv
  <2>2. /\ batch'.position = batch.position /\ ~batch'.failed /\ batch'.replans = batch.replans
        /\ \/ batch'.next = "chapter"
           \/ batch'.next = "reset_replan_batch" /\ t.replan
           \/ batch'.next \in {"bridge", "reflexion"}
    BY <1>1, <1>4, AtWork DEF Advance, Route, Batches
  <2> QED BY <1>1, <1>4, <2>1, <2>2 DEF KeepInv, LeakInv, Leaking, KeptInv, UndoneInv, NoneRewritten,
          UnderReview, Current
<1> QED BY <1>2, <1>3, <1>4 DEF Return

(* A text is accepted when nothing refuses it; so it asked for no other    *)
(* blueprint.                                                              *)
LEMMA AcceptKeep ==
  ASSUME CourseInv, KeepInv, ResolveAccept \/ Accept PROVE KeepInv' /\ NoneRewritten
<1> DEFINE t == thread[Current]
<1>1. UNCHANGED <<thread, pool>> /\ batch.next = "chapter" /\ ~batch.failed
  BY AtWork DEF ResolveAccept, Accept, CourseInv, BlueprintInv, OrderInv, RunInv
<1>2. CASE ResolveAccept
  <2>1. /\ row'[Current].status = "confirmed" /\ batch' = batch
        /\ \A c \in Chapters : c # Current => row'[c] = row[c]
    BY <1>2, AtWork DEF ResolveAccept, Confirmed
  <2>2. UnderReview /\ "refused" \notin pool[Current] /\ t.of = batch.replans /\ ~Leaking
    BY <1>2 DEF ResolveAccept, CourseInv, BlueprintInv, WorkInv, KeepInv, LeakInv
  <2>3. t.next \in {"summarize", "end"} /\ ~t.error /\ ~t.replan
    BY <2>2 DEF CourseInv, RevisionInv, Leaking
  <2>4. row[Current].status # "confirmed"
    BY <2>2 DEF UnderReview
  <2> QED BY <1>1, <2>1, <2>2, <2>3, <2>4 DEF KeepInv, LeakInv, Leaking, KeptInv, UndoneInv, NoneRewritten,
          UnderReview, Current
<1>3. CASE Accept
  <2>1. row' = row /\ row[Current].status = "confirmed" /\ ~t.replan /\ Advance(t.replan)
    BY <1>1, <1>3 DEF Accept, ReviewLeft, CourseInv, BlueprintInv, OrderInv, RunInv, KeepInv, KeptInv
  <2>2. /\ batch'.position = batch.position /\ ~batch'.failed
        /\ batch'.next \in {"bridge", "reflexion"}
    BY <1>1, <2>1, AtWork DEF Advance, Route, Batches
  <2> QED BY <1>1, <2>1, <2>2 DEF KeepInv, LeakInv, Leaking, KeptInv, UndoneInv, NoneRewritten, UnderReview,
          Current
<1> QED BY <1>2, <1>3

LEMMA PausesKeep ==
  ASSUME CourseInv, KeepInv, "late" \notin Hazards,
         ResolveWait \/ EndSlice \/ Yield \/ Settle \/ Stop \/ Fault
  PROVE  KeepInv' /\ NoneRewritten
<1>1. UNCHANGED <<batch, thread, row, pool>>
  BY DEF ResolveWait, EndSlice, Yield, Settle, Stop, Fault
<1>2. CASE Settle
  <2>1. /\ run'.at = "idle" /\ run.at = "settle"
        /\ status' = IF status = "cancelled" THEN status ELSE run.out
    BY <1>2, AtWork DEF Settle
  <2> QED BY <1>1, <2>1, QuietKeep DEF KeepInv, LeakInv, Leaking, UnderReview, Current
<1>3. CASE ~Settle
  <2>1. ~Leaking
    BY <1>3 DEF ResolveWait, EndSlice, Yield, Stop, Fault, Upset, Disturbable, KeepInv, LeakInv
  <2> QED BY <1>1, <2>1, QuietKeep DEF Leaking, UnderReview, Current
<1> QED BY <1>2, <1>3

LEMMA AuthorKeep ==
  ASSUME CourseInv, KeepInv, "replan" \notin Hazards, Author
  PROVE  KeepInv' /\ NoneRewritten
<1>1. UNCHANGED <<batch, thread, run, row>>
  BY DEF Author, Pause, Cancel, Resume, Judge
<1>2. CASE Pause \/ Cancel
  <2>1. UNCHANGED pool /\ status' \in {"paused", "cancelled"}
    BY <1>2 DEF Pause, Cancel
  <2> QED BY <1>1, <2>1, QuietKeep DEF KeepInv, LeakInv, Leaking, UnderReview, Current
<1>3. CASE Resume
  <2>1. UNCHANGED pool /\ ~Leaking
    BY <1>3 DEF Resume, Acceptable, Leaking
  <2> QED BY <1>1, <2>1, QuietKeep DEF Leaking, UnderReview, Current
<1>4. ASSUME NEW c \in Chapters, Judge(c) PROVE KeepInv' /\ NoneRewritten
  <2>1. status' = status /\ ("refused" \notin pool'[Current] => "refused" \notin pool[Current])
    BY <1>4, AtWork DEF Judge
  <2> QED BY <1>1, <2>1, QuietKeep DEF KeepInv, LeakInv, Leaking, UnderReview, Current
<1> QED BY <1>2, <1>3, <1>4 DEF Author

(* A batch that goes on after a failure, a pause or a review does not      *)
(* write a chapter again that is confirmed (batch_graph.py, resume_thread),*)
(* unless the author accepts a text that asked for one blueprint too many, *)
(* or an interruption falls between the showing of a text for review and   *)
(* the status that says so.                                                *)
THEOREM CompletedNotRewrittenHolds ==
  ASSUME "replan" \notin Hazards, "late" \notin Hazards
  PROVE  Spec => CompletedNotRewritten
<1>1. Init => CourseInv /\ KeepInv
  BY InitCourse, InitKeep
<1>2. CourseInv /\ KeepInv /\ [Next]_vars => KeepInv' /\ NoneRewritten
  <2> SUFFICES ASSUME CourseInv, KeepInv, [Next]_vars PROVE KeepInv' /\ NoneRewritten
    OBVIOUS
  <2>1. CASE UNCHANGED vars
    BY <2>1, QuietKeep DEF vars, KeepInv, LeakInv, Leaking, UnderReview, Current
  <2> QED BY <2>1, BatchKeep, ChapterKeep, PersistKeep, ReturnKeep, AcceptKeep, PausesKeep, AuthorKeep
          DEF Next, Work
<1>3. CourseInv /\ KeepInv /\ [Next]_vars => (CourseInv /\ KeepInv)'
  BY <1>2, StepCourse
<1>4. CourseInv /\ KeepInv /\ [Next]_vars =>
        [\A c \in Chapters : row[c].status = "confirmed" => row'[c] = row[c]]_vars
  BY <1>2 DEF NoneRewritten
<1> QED BY <1>1, <1>3, <1>4, PTL DEF Spec, CompletedNotRewritten

---------------------------------------------------------------------------
(* What awaits review is there to be reviewed.  Here it matters that an    *)
(* accepted chapter moves the batch on before anything interrupts the run  *)
(* ("stuck").                                                              *)

(* A thread belongs to a blueprint that was made; before a blueprint, and  *)
(* after none could be made, the chapter at the position has none of the   *)
(* one in force.                                                           *)
MadeInv ==
  /\ \A c \in Chapters : thread[c].of <= batch.replans
  /\ batch.failed \/ batch.next \in {"none", "batch_plan"} =>
       thread[Current].next = "none" \/ thread[Current].of < batch.replans

(* A thread wants a review only with a text that was shown, and a finished *)
(* text under review is the one that is shown.                             *)
WantsInv ==
  /\ \A c \in Chapters : thread[c].next \in {"write", "persist"} => ~thread[c].review
  /\ /\ batch.next = "chapter" /\ thread[Current].of = batch.replans
     /\ thread[Current].next \in {"summarize", "end"}
     /\ thread[Current].review /\ ~thread[Current].error /\ run.at # "accepted"
     => UnderReview
  /\ UnderReview /\ thread[Current].next \in {"summarize", "end"} /\ ~thread[Current].error =>
       row[Current].text = thread[Current].text

(* A run that ends in a review, and the task when it has ended.            *)
RestInv ==
  /\ run.at = "settle" /\ run.out = "awaiting_review" => row[Current] = Shown(thread[Current].text)
  /\ status = "awaiting_review" => run.at = "idle" /\ row[Current] = Shown(thread[Current].text)
  /\ run.at = "ending" => run.out # "awaiting_review"

ShowInv == MadeInv /\ WantsInv /\ RestInv

LEMMA InitShow == Init => ShowInv
BY BatchAssumption DEF Init, ShowInv, MadeInv, WantsInv, RestInv, UnderReview, Current, Idle, Unwritten,
   Chapters

LEMMA RowIsShown ==
  ASSUME CourseInv, UnderReview, row[Current].text = thread[Current].text
  PROVE  row[Current] = Shown(thread[Current].text)
<1>1. row[Current] \in Rows
  BY AtWork
<1> QED BY <1>1 DEF Rows, Shown, UnderReview

(* Steps that leave the batch and the chapters alone.                      *)
LEMMA QuietShow ==
  ASSUME ShowInv, UNCHANGED <<batch, thread, row>>,
         run' = run \/ (run.at # "accepted" /\ run'.at # "ending"),
         \/ status' = status /\ (run' = run \/ run.at # "idle")
         \/ status' # "awaiting_review"
         \/ run'.at = "idle" /\ row[Current] = Shown(thread[Current].text),
         \/ run' = run \/ run'.at # "settle" \/ run'.out # "awaiting_review"
         \/ row[Current] = Shown(thread[Current].text)
  PROVE  ShowInv'
<1>1. MadeInv' /\ WantsInv'
  BY DEF ShowInv, MadeInv, WantsInv, UnderReview, Current
<1>2. RestInv'
  BY DEF ShowInv, RestInv, Shown, Current
<1> QED BY <1>1, <1>2 DEF ShowInv

LEMMA TakeShow ==
  ASSUME CourseInv, ShowInv, NEW m \in queue, Take(m) PROVE ShowInv'
<1>1. CASE Outdated(m) /\ UNCHANGED <<status, batch, run>>
  BY <1>1, TakeIs, QuietShow
<1>2. CASE ~(Outdated(m) /\ UNCHANGED <<status, batch, run>>)
  <2>1. status' = "running"
    BY <1>2, TakeIs DEF Take
  <2>2. MadeInv' /\ RestInv'
    BY <1>2, <2>1, TakeIs DEF ShowInv, MadeInv, RestInv, Current
  <2>3. WantsInv'
    BY <1>2, TakeIs DEF ShowInv, WantsInv, UnderReview, Current
  <2> QED BY <2>2, <2>3 DEF ShowInv
<1> QED BY <1>1, <1>2

LEMMA BatchShow ==
  ASSUME CourseInv, ShowInv, BatchPlan \/ Reset \/ Bridge \/ Reflexion \/ EnterEnd \/ BatchEnd
  PROVE  ShowInv'
<1>1. /\ UNCHANGED <<thread, row>> /\ ~UnderReview /\ status # "awaiting_review"
      /\ batch \in Batches /\ run \in Runs /\ batch.next # "chapter"
  BY AtWork DEF BatchPlan, Reset, Bridge, Reflexion, EnterEnd, BatchEnd, AtNode, CourseInv, BlueprintInv,
     OrderInv, RunInv, ShownInv, ShowInv, RestInv
<1>2. thread \in [Chapters -> Threads] /\ batch.replans \in Nat /\ Current \in Chapters
  BY AtWork
<1>3. \A c \in Chapters : thread[c].of \in Nat
  BY <1>2 DEF Threads
<1>4. RestInv'
  <2>1. CASE EnterEnd
    BY <1>1, <2>1 DEF EnterEnd, RestInv, Runs
  <2>2. CASE BatchEnd
    BY <1>1, <2>2 DEF BatchEnd, ShowInv, RestInv, Runs
  <2>3. CASE BatchPlan \/ Reset \/ Bridge \/ Reflexion
    BY <1>1, <2>3 DEF BatchPlan, Reset, Bridge, Reflexion, AtNode, RestInv, Runs
  <2> QED BY <2>1, <2>2, <2>3
<1>5. CASE Bridge
  <2>1. ~batch.failed
    BY <1>5 DEF Bridge, AtNode, CourseInv, EndInv
  <2> QED BY <1>1, <1>4, <1>5, <2>1, BridgeIsFresh DEF ShowInv, MadeInv, WantsInv, UnderReview
<1>6. CASE BatchPlan \/ Reset \/ Reflexion \/ EnterEnd \/ BatchEnd
  <2>1. batch'.position = batch.position
    BY <1>1, <1>6 DEF BatchPlan, Reset, Reflexion, EnterEnd, BatchEnd, Batches
  <2>2. CASE BatchPlan
    <3>1. batch'.replans = batch.replans /\ batch.next = "batch_plan"
      BY <1>1, <2>2 DEF BatchPlan, AtNode, Batches
    <3> QED BY <1>1, <1>2, <1>3, <1>4, <2>1, <3>1 DEF ShowInv, MadeInv, WantsInv, UnderReview, Current
  <2>3. CASE Reset
    <3>1. batch'.replans = batch.replans + 1 /\ batch'.next = "batch_plan"
      BY <1>1, <2>3 DEF Reset, AtNode, Batches
    <3>2. \A c \in Chapters : thread[c].of < batch'.replans
      BY <1>2, <1>3, <3>1 DEF ShowInv, MadeInv
    <3> QED BY <1>1, <1>2, <1>3, <1>4, <2>1, <3>1, <3>2 DEF ShowInv, MadeInv, WantsInv, UnderReview, Current
  <2>4. CASE Reflexion \/ EnterEnd \/ BatchEnd
    <3>1. /\ batch'.replans = batch.replans /\ batch'.failed = batch.failed
          /\ batch'.next \in {"batch_end", "end"}
      BY <1>1, <2>4 DEF Reflexion, EnterEnd, BatchEnd, AtNode, Batches
    <3> QED BY <1>1, <1>4, <2>1, <3>1 DEF ShowInv, MadeInv, WantsInv, UnderReview, Current
  <2> QED BY <1>6, <2>2, <2>3, <2>4
<1> QED BY <1>5, <1>6

(* A step inside the chapter's graph.                                      *)
LEMMA ThreadShow ==
  ASSUME CourseInv, ShowInv, batch.next = "chapter", run.at \in {"batch", "inner", "resolve"},
         UNCHANGED <<batch, status>>, run'.at \in {"inner", "returned", "resolve"},
         NEW u, thread' = [thread EXCEPT ![Current] = u], u.of <= batch.replans,
         u.next \in {"write", "persist"} => ~u.review,
         u.next \in {"summarize", "end"} /\ u.review /\ ~u.error /\ u.of = batch.replans => UnderReview',
         UnderReview' /\ u.next \in {"summarize", "end"} /\ ~u.error => row'[Current].text = u.text
  PROVE  ShowInv'
<1>1. /\ thread'[Current] = u /\ Current \in Chapters
      /\ \A c \in Chapters : c # Current => thread'[c] = thread[c]
  BY AtWork
<1>2. ~batch.failed /\ status # "awaiting_review"
  BY AtWork DEF ShowInv, RestInv
<1>3. MadeInv' /\ RestInv'
  BY <1>1, <1>2 DEF ShowInv, MadeInv, RestInv, Current
<1>4. WantsInv'
  BY <1>1 DEF ShowInv, WantsInv, UnderReview, Current
<1> QED BY <1>3, <1>4 DEF ShowInv

LEMMA ChapterShow ==
  ASSUME CourseInv, ShowInv, Chapter \/ Write \/ Persist \/ Summarize \/ ResolveRevise PROVE ShowInv'
<1> DEFINE t == thread[Current]
<1>1. /\ batch.next = "chapter" /\ run.at \in {"batch", "inner", "resolve"}
      /\ UNCHANGED <<batch, status>> /\ run'.at \in {"inner", "returned", "resolve"}
  BY AtWork DEF Chapter, Write, Persist, Summarize, ResolveRevise, AtNode, AtInner, CourseInv,
     BlueprintInv, OrderInv, RunInv, Runs
<1>2. t \in Threads /\ Current \in Chapters /\ batch.replans \in Nat /\ t.of <= batch.replans
  BY AtWork DEF ShowInv, MadeInv
<1>3. CASE Chapter /\ thread' = thread
  <2>1. row' = row
    BY <1>3 DEF Chapter
  <2>2. status # "awaiting_review"
    BY <1>1 DEF ShowInv, RestInv
  <2> QED BY <1>1, <1>3, <2>1, <2>2, QuietShow
<1>4. CASE Chapter /\ thread' # thread
  <2>1. Fresh.next = "write" /\ ~Fresh.review /\ Fresh.of = batch.replans
    BY DEF Fresh, Unwritten
  <2>2. thread' = [thread EXCEPT ![Current] = Fresh]
    BY <1>4 DEF Chapter
  <2> DEFINE u == Fresh
  <2>3. u.of <= batch.replans /\ u.next = "write" /\ ~u.review
    BY <1>2, <2>1
  <2>4. thread' = [thread EXCEPT ![Current] = u]
    BY <2>2
  <2> HIDE DEF u
  <2> QED BY <1>1, <2>3, <2>4, ThreadShow
<1>5. CASE Write
  <2> DEFINE w == [t EXCEPT !.text = FreshText, !.replan = FALSE]
  <2>1. t.next = "write" /\ row' = row
    BY <1>5 DEF Write, AtInner
  <2>2. ~t.review
    BY <1>2, <2>1 DEF ShowInv, WantsInv
  <2>3. w \in [next: {"write"}, of: {t.of}, text: {FreshText}, kind: {"clean", "hard", "card"},
               error: BOOLEAN, review: {t.review}, replan: {FALSE}, revision: {t.revision}]
    BY <1>2, <2>1 DEF Threads
  <2>4. PICK u : /\ \/ u = [t EXCEPT !.next = "end", !.error = TRUE]
                    \/ u = [w EXCEPT !.next = "end", !.replan = TRUE] /\ ~t.revision
                    \/ \E k \in {"clean", "hard", "card"} : u = [w EXCEPT !.next = "persist", !.kind = k]
                 /\ thread' = [thread EXCEPT ![Current] = u]
    BY <1>5, <2>1 DEF Write
  <2>5. /\ u.of = t.of /\ u.review = t.review
        /\ u.next = "persist" \/ u.error \/ (u.next = "end" /\ ~t.revision)
    <3>1. CASE u = [t EXCEPT !.next = "end", !.error = TRUE]
      BY <3>1, <1>2 DEF Threads
    <3>2. CASE u = [w EXCEPT !.next = "end", !.replan = TRUE] /\ ~t.revision
      BY <3>2, <2>3
    <3>3. ASSUME NEW k \in {"clean", "hard", "card"}, u = [w EXCEPT !.next = "persist", !.kind = k]
          PROVE  u.of = t.of /\ u.review = t.review /\ u.next = "persist"
      BY <3>3, <2>3
    <3> QED BY <2>4, <3>1, <3>2, <3>3
  <2>6. UnderReview => t.revision
    BY <1>5, <2>1 DEF Write, AtInner, CourseInv, BlueprintInv, WorkInv
  <2>7. UnderReview' = UnderReview
    BY <1>1, <2>1 DEF UnderReview, Current
  <2> QED BY <1>1, <1>2, <2>2, <2>4, <2>5, <2>6, <2>7, ThreadShow
<1>6. CASE Persist
  <2> DEFINE u == [t EXCEPT !.next = "summarize", !.review = t.kind # "clean"]
             r == IF t.kind = "clean" THEN Confirmed(t.text) ELSE Shown(t.text)
  <2>1. thread' = [thread EXCEPT ![Current] = u] /\ row' = [row EXCEPT ![Current] = r]
    BY <1>6, AtWork DEF Persist, Threads
  <2>2. row'[Current] = r
    BY <2>1, AtWork
  <2>3. u.of = t.of /\ u.next = "summarize" /\ u.review = (t.kind # "clean") /\ u.text = t.text
    BY <1>2 DEF Threads
  <2>4. r.text = t.text /\ (t.kind # "clean" => r.status = "awaiting_review")
    BY DEF Confirmed, Shown
  <2>5. u.review => UnderReview'
    BY <1>1, <2>2, <2>3, <2>4 DEF UnderReview, Current
  <2> QED BY <1>1, <1>2, <2>1, <2>2, <2>3, <2>4, <2>5, ThreadShow
<1>7. CASE Summarize
  <2> DEFINE u == [t EXCEPT !.next = "end"]
  <2>1. thread' = [thread EXCEPT ![Current] = u] /\ row' = row /\ t.next = "summarize" /\ run.at = "inner"
    BY <1>7, AtWork DEF Summarize, AtInner, Threads
  <2>2. u.of = t.of /\ u.next = "end" /\ u.review = t.review /\ u.text = t.text /\ u.error = t.error
    BY <1>2 DEF Threads
  <2>3. UnderReview' = UnderReview
    BY <1>1, <2>1 DEF UnderReview, Current
  <2>4. u.review /\ ~u.error /\ u.of = batch.replans => UnderReview
    BY <1>1, <2>1, <2>2 DEF ShowInv, WantsInv
  <2>5. UnderReview /\ ~u.error => row[Current].text = u.text
    BY <2>1, <2>2 DEF ShowInv, WantsInv
  <2> QED BY <1>1, <1>2, <2>1, <2>2, <2>3, <2>4, <2>5, ThreadShow
<1>8. CASE ResolveRevise
  <2> DEFINE u == [t EXCEPT !.next = "write", !.error = FALSE, !.review = FALSE, !.revision = TRUE]
  <2>1. thread' = [thread EXCEPT ![Current] = u] /\ row' = row
    BY <1>8, AtWork DEF ResolveRevise, Threads
  <2>2. u.of = t.of /\ u.next = "write" /\ ~u.review
    BY <1>2 DEF Threads
  <2> QED BY <1>1, <1>2, <2>1, <2>2, ThreadShow
<1> QED BY <1>3, <1>4, <1>5, <1>6, <1>7, <1>8

LEMMA ReturnShow == ASSUME CourseInv, ShowInv, Return PROVE ShowInv'
<1> DEFINE t == thread[Current]
           exhausted == t.replan /\ batch.replans >= MaxReplans
<1>1. /\ run.at = "returned" /\ batch.next = "chapter" /\ t.next = "end" /\ t.of = batch.replans
      /\ UNCHANGED <<thread, status>> /\ ~batch.failed /\ status # "awaiting_review"
  BY AtWork DEF Return, CourseInv, BlueprintInv, OrderInv, RunInv, WorkInv, ShowInv, RestInv
<1>2. CASE t.error /\ Halt("failed") /\ UNCHANGED <<batch, row>>
  <2>1. run'.at = "settle" /\ run'.out = "failed"
    BY <1>2, AtWork DEF Halt, Runs
  <2> QED BY <1>1, <1>2, <2>1, QuietShow
<1>3. CASE /\ ~t.error /\ exhausted /\ row' = [row EXCEPT ![Current] = Shown(t.text)]
           /\ Halt("awaiting_review") /\ UNCHANGED batch
  <2>1. row'[Current] = Shown(t.text)
    BY <1>3, AtWork
  <2>2. UnderReview' /\ row'[Current].text = t.text
    BY <1>3, <2>1 DEF UnderReview, Current, Shown
  <2>3. run'.at = "settle"
    BY <1>3, AtWork DEF Halt, Runs
  <2> QED BY <1>1, <1>3, <2>1, <2>2, <2>3 DEF ShowInv, MadeInv, WantsInv, RestInv, Current
<1>4. CASE ~t.error /\ t.review /\ row' = row /\ Halt("awaiting_review") /\ UNCHANGED batch
  <2>1. UnderReview /\ row[Current].text = t.text
    BY <1>1, <1>4 DEF ShowInv, WantsInv
  <2>2. row[Current] = Shown(t.text)
    BY <2>1, RowIsShown
  <2>3. run'.at = "settle"
    BY <1>4, AtWork DEF Halt, Runs
  <2> QED BY <1>1, <1>4, <2>2, <2>3, QuietShow
<1>5. CASE row' = row /\ Advance(t.replan)
  <2>1. /\ batch'.position = batch.position /\ batch'.failed = batch.failed
        /\ batch'.replans = batch.replans
        /\ batch'.next \in {"reset_replan_batch", "bridge", "reflexion"} /\ run'.at = "batch"
    BY <1>5, AtWork DEF Advance, Route, Batches, Runs
  <2> QED BY <1>1, <1>5, <2>1 DEF ShowInv, MadeInv, WantsInv, RestInv, UnderReview, Current
<1> QED BY <1>2, <1>3, <1>4, <1>5 DEF Return

LEMMA AcceptShow == ASSUME CourseInv, ShowInv, ResolveAccept \/ Accept PROVE ShowInv'
<1>1. /\ batch.next = "chapter" /\ UNCHANGED <<thread, status>> /\ ~batch.failed
      /\ status # "awaiting_review"
  BY AtWork DEF ResolveAccept, Accept, CourseInv, BlueprintInv, OrderInv, RunInv, ShowInv, RestInv
<1>2. CASE ResolveAccept
  <2>1. row'[Current].status = "confirmed" /\ batch' = batch /\ run'.at = "accepted"
    BY <1>2, AtWork DEF ResolveAccept, Confirmed, Runs
  <2> QED BY <1>1, <2>1 DEF ShowInv, MadeInv, WantsInv, RestInv, UnderReview, Current
<1>3. CASE Accept
  <2>1. row' = row /\ Advance(thread[Current].replan)
    BY <1>3 DEF Accept, ReviewLeft
  <2>2. /\ batch'.position = batch.position /\ batch'.failed = batch.failed
        /\ batch'.replans = batch.replans
        /\ batch'.next \in {"reset_replan_batch", "bridge", "reflexion"} /\ run'.at = "batch"
    BY <2>1, AtWork DEF Advance, Route, Batches, Runs
  <2> QED BY <1>1, <2>1, <2>2 DEF ShowInv, MadeInv, WantsInv, RestInv, UnderReview, Current
<1> QED BY <1>2, <1>3

LEMMA PausesShow ==
  ASSUME CourseInv, ShowInv, "stuck" \notin Hazards,
         ResolveWait \/ EndSlice \/ Yield \/ Settle \/ Stop \/ Fault
  PROVE  ShowInv'
<1>1. /\ UNCHANGED <<batch, thread, row>> /\ run.at \notin {"idle", "accepted"}
      /\ status # "awaiting_review" \/ run.at = "idle"
  BY DEF ResolveWait, EndSlice, Yield, Settle, Stop, Fault, Upset, Disturbable, ShowInv, RestInv
<1>2. CASE ResolveWait
  <2>1. UnderReview /\ "refused" \notin pool[Current]
    BY <1>2 DEF ResolveWait, CourseInv, BlueprintInv, WorkInv
  <2>2. row[Current].text = thread[Current].text
    BY <2>1 DEF CourseInv, RevisionInv, ShowInv, WantsInv
  <2>3. row[Current] = Shown(thread[Current].text)
    BY <2>1, <2>2, RowIsShown
  <2>4. run'.at = "settle" /\ status' = status
    BY <1>2, AtWork DEF ResolveWait, Halt, Runs
  <2> QED BY <1>1, <2>3, <2>4, QuietShow
<1>3. CASE Settle
  <2>1. /\ run'.at = "idle" /\ run.at = "settle"
        /\ status' = IF status = "cancelled" THEN status ELSE run.out
    BY <1>3, AtWork DEF Settle
  <2>2. status' # "awaiting_review" \/ row[Current] = Shown(thread[Current].text)
    BY <2>1 DEF ShowInv, RestInv
  <2> QED BY <1>1, <2>1, <2>2, QuietShow
<1>4. CASE EndSlice \/ Yield \/ Stop \/ Fault
  <2>1. /\ run'.at \in {"idle", "yielding"} \/ (run'.at = "settle" /\ run'.out = "failed")
        /\ status' = status \/ status' \in {"queued", "paused", "cancelled"}
    BY <1>4, AtWork DEF EndSlice, Yield, Stop, Fault, Halt, Runs
  <2> QED BY <1>1, <2>1, QuietShow
<1> QED BY <1>2, <1>3, <1>4

LEMMA AuthorShow == ASSUME CourseInv, ShowInv, Author PROVE ShowInv'
<1>1. /\ UNCHANGED <<batch, thread, run, row>>
      /\ status' = status \/ status' \in {"queued", "paused", "cancelled"}
  BY DEF Author, Pause, Cancel, Resume, Judge
<1> QED BY <1>1, QuietShow

(* A batch that awaits a review has a chapter to review, the one it        *)
(* stopped at, with the text of its thread (BatchReviewError), unless a    *)
(* fault falls between the confirmation of a reviewed chapter and the      *)
(* checkpoint of the batch.                                                *)
THEOREM ReviewIsShownHolds ==
  ASSUME "stuck" \notin Hazards
  PROVE  Spec => []ReviewIsShown
<1>1. Init => CourseInv /\ ShowInv
  BY InitCourse, InitShow
<1>2. CourseInv /\ ShowInv /\ [Next]_vars => (CourseInv /\ ShowInv)'
  <2> SUFFICES ASSUME CourseInv, ShowInv, [Next]_vars PROVE ShowInv'
    BY StepCourse
  <2>1. CASE UNCHANGED vars
    BY <2>1, QuietShow DEF vars
  <2> QED BY <2>1, TakeShow, BatchShow, ChapterShow, ReturnShow, AcceptShow, PausesShow, AuthorShow
          DEF Next, Work
<1>3. ShowInv => ReviewIsShown
  BY DEF ShowInv, RestInv, ReviewIsShown
<1> QED BY <1>1, <1>2, <1>3, PTL DEF Spec
=============================================================================

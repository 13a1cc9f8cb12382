----------------------------- MODULE BatchTask -----------------------------
(***************************************************************************)
(* A task that writes a batch of chapters (src/src/myink/workflow/         *)
(* batch_graph.py) under the worker's scheduling (worker/processor.py,     *)
(* worker/scheduling.py): a blueprint, then one chapter after the other,   *)
(* each the graph of ChapterGraph on a thread of its own, which appears    *)
(* here as three nodes: "write" up to the route, "persist", "summarize".   *)
(* After every chapter the task gives its place to others and goes on with *)
(* a new message from the checkpoint of the batch.                         *)
(*                                                                         *)
(* A batch stops at a chapter for the author: the task then awaits review  *)
(* and the checkpoint stays before that chapter.  It also stops when a     *)
(* chapter fails, or when the author pauses it; he resumes it.  A resumed  *)
(* batch must not write again what it has written.                         *)
(***************************************************************************)
EXTENDS Integers, FiniteSets

CONSTANTS Size,        \* chapters of the batch
          MaxReplans,  \* settings.max_replans: new blueprints
          Hazards,     \* what to include of the interleavings in Disturbable
          MaxResumes,  \* bounds: how often the author resumes, and what else befalls
          MaxUpsets    \*   a task: pauses, cancels, faults

ASSUME BatchAssumption ==
  /\ Size \in Nat \ {0}
  /\ Hazards \subseteq {"replan", "late", "stuck"}
  /\ {MaxReplans, MaxResumes, MaxUpsets} \subseteq Nat

Chapters == 1..Size

VARIABLES
  status,  \* the task's row: its status
  op,      \* _budget_resume_operation: how often the task was resumed
  queue,   \* messages that wait
  batch,   \* the checkpoint of the batch
  thread,  \* the checkpoint of every chapter
  run,     \* the run of the worker
  row,     \* the rows of the chapters
  pool,    \* per chapter: are candidates pending, is one refused for revision
  upsets   \* what has befallen the task so far

vars == <<status, op, queue, batch, thread, run, row, pool, upsets>>

NoText == [of |-> 0, n |-> 0]   \* else: the blueprint it was written under, a number

(* A chapter's thread.  "kind" is what persist makes of the text: clean, a *)
(* hard finding, or a card for the author to judge.                        *)
Unwritten == [next |-> "none", of |-> 0, text |-> NoText, kind |-> "clean", error |-> FALSE,
              review |-> FALSE, replan |-> FALSE, revision |-> FALSE]

Idle == [at |-> "idle", msg |-> [type |-> "generate", op |-> 0], out |-> "done"]

Init ==
  /\ status = "new" /\ op = 0 /\ queue = {Idle.msg}
  /\ batch = [next |-> "none", position |-> 1, replans |-> 0, failed |-> FALSE, replan |-> FALSE]
  /\ thread = [c \in Chapters |-> Unwritten]
  /\ run = Idle
  /\ row = [c \in Chapters |-> [status |-> "empty", text |-> NoText]]
  /\ pool = [c \in Chapters |-> {}]
  /\ upsets = 0

Fenced == status \in {"paused", "cancelled", "awaiting_review"}

Current == batch.position
UnderReview == row[Current].status = "awaiting_review"

(* What this model may leave out, each described in the README: an         *)
(* interruption after a text was shown for review and before the task says *)
(* so; one between the end of a review and the batch's checkpoint; the     *)
(* author's acceptance of a text for which a blueprint more was asked than *)
(* settings.max_replans allows.                                            *)
Disturbable ==
  /\ run.at \in {"inner", "returned"} /\ thread[Current].review => "late" \in Hazards
  /\ run.at = "settle" /\ run.out = "awaiting_review" => "late" \in Hazards
  /\ run.at = "accepted" => "stuck" \in Hazards

Acceptable == UnderReview /\ thread[Current].replan =>
                "replan" \in Hazards \/ "refused" \in pool[Current]

Upset == /\ upsets < MaxUpsets /\ Disturbable
         /\ upsets' = upsets + 1

---------------------------------------------------------------------------
(* The worker takes a message (process, _dispatch, generate_batch,         *)
(* resume_thread).                                                         *)

Outdated(m) == \/ op > 0 /\ m.op # op
               \/ status \in {"done", "failed", "cancelled", "paused", "awaiting_review"}

(* The state a message brings wins over the checkpoint (slip).             *)
RestartedAtFirst(b) == [b EXCEPT !.next = "batch_plan", !.failed = FALSE, !.position = 1]

(* A graph that has ended in an error starts anew, and keeps its position. *)
Restarted(b) == [b EXCEPT !.next = "batch_plan", !.failed = FALSE]

Take(m) ==
  /\ run.at = "idle" /\ m \in queue
  /\ queue' = queue \ {m}
  /\ IF Outdated(m) THEN UNCHANGED <<status, batch, run>>
     ELSE /\ status' = "running"
          /\ run' = [Idle EXCEPT !.at = "batch", !.msg = m]
          /\ batch' = CASE batch.next = "none" -> [batch EXCEPT !.next = "batch_plan"]
                        [] batch.next = "end"  -> Restarted(batch)
                        [] OTHER               -> batch
  /\ UNCHANGED <<op, thread, row, pool, upsets>>

---------------------------------------------------------------------------
(* The batch, one node and its checkpoint at a time.                       *)

AtNode(n) == run.at = "batch" /\ batch.next = n /\ ~Fenced

(* node_batch_plan: a blueprint, or an error.                              *)
BatchPlan ==
  /\ AtNode("batch_plan")
  /\ batch' \in {[batch EXCEPT !.next = "chapter"],
                 [batch EXCEPT !.next = "batch_end", !.failed = TRUE]}
  /\ UNCHANGED <<status, op, queue, thread, run, row, pool, upsets>>

Fresh == [Unwritten EXCEPT !.next = "write", !.of = batch.replans]

(* The chapter's thread is taken for one of this blueprint (slip).         *)
SameBlueprintAlways(t) == TRUE

SameBlueprint(t) == t.of = batch.replans

(* node_run_chapter: a chapter under review is resolved; a thread of this  *)
(* blueprint goes on, unless it ended in an error; else a new one starts.  *)
Chapter ==
  /\ AtNode("chapter")
  /\ LET t == thread[Current]
     IN IF UnderReview
        THEN run' = [run EXCEPT !.at = "resolve"] /\ UNCHANGED thread
        ELSE IF t.next # "none" /\ SameBlueprint(t) /\ ~(t.next = "end" /\ t.error)
        THEN /\ run' = [run EXCEPT !.at = IF t.next = "end" THEN "returned" ELSE "inner"]
             /\ UNCHANGED thread
        ELSE /\ run' = [run EXCEPT !.at = "inner"]
             /\ thread' = [thread EXCEPT ![Current] = Fresh]
  /\ UNCHANGED <<status, op, queue, batch, row, pool, upsets>>

(* node_reset_replan_batch: the position stays.                            *)
Reset ==
  /\ AtNode("reset_replan_batch")
  /\ batch' = [batch EXCEPT !.next = "batch_plan", !.replans = @ + 1]
  /\ UNCHANGED <<status, op, queue, thread, run, row, pool, upsets>>

(* The checkpoint is saved before the delivery goes back.                  *)
Bridge ==
  /\ AtNode("bridge")
  /\ batch' = [batch EXCEPT !.next = "chapter", !.position = @ + 1]
  /\ run' = [run EXCEPT !.at = "yield"]
  /\ UNCHANGED <<status, op, queue, thread, row, pool, upsets>>

(* node_reflexion and node_global_audit: nothing they find stops a batch.  *)
Reflexion ==
  /\ AtNode("reflexion")
  /\ batch' = [batch EXCEPT !.next = "batch_end"]
  /\ UNCHANGED <<status, op, queue, thread, run, row, pool, upsets>>

(* node_batch_end writes the status itself, without another look at it.    *)
EnterEnd ==
  /\ AtNode("batch_end")
  /\ run' = [run EXCEPT !.at = "ending", !.out = IF batch.failed THEN "failed" ELSE "done"]
  /\ UNCHANGED <<status, op, queue, batch, thread, row, pool, upsets>>

BatchEnd ==
  /\ run.at = "ending"
  /\ status' = run.out
  /\ batch' = [batch EXCEPT !.next = "end"]
  /\ run' = [run EXCEPT !.at = "settle"]
  /\ UNCHANGED <<op, queue, thread, row, pool, upsets>>

---------------------------------------------------------------------------
(* Inside the chapter node: the chapter's graph.                           *)

AtInner(n) == run.at = "inner" /\ thread[Current].next = n /\ ~Fenced

(* A text that nobody holds any more lends its number to a new one.        *)
FreshText ==
  [of |-> batch.replans,
   n |-> CHOOSE n \in 1..3 : /\ n \notin {row[Current].text.n, thread[Current].text.n}
                             /\ \A k \in 1..(n - 1) : k \in {row[Current].text.n,
                                                             thread[Current].text.n}]

(* Up to the route: an error, a text, or the wish for another blueprint.   *)
(* A revision keeps the chapter's plan and cannot ask for one.             *)
Write ==
  /\ AtInner("write")
  /\ thread' \in
       LET t == thread[Current]
           written == [t EXCEPT !.text = FreshText, !.replan = FALSE]
       IN {[thread EXCEPT ![Current] = u] :
             u \in {[t EXCEPT !.next = "end", !.error = TRUE]}
                   \cup {[written EXCEPT !.next = "persist", !.kind = k] :
                           k \in {"clean", "hard", "card"}}
                   \cup IF t.revision THEN {}
                        ELSE {[written EXCEPT !.next = "end", !.replan = TRUE]}}
  /\ run' = IF thread'[Current].next = "end" THEN [run EXCEPT !.at = "returned"] ELSE run
  /\ UNCHANGED <<status, op, queue, batch, row, pool, upsets>>

Shown(text) == [status |-> "awaiting_review", text |-> text]
Confirmed(text) == [status |-> "confirmed", text |-> text]

Persist ==
  /\ AtInner("persist")
  /\ LET t == thread[Current]
     IN /\ row' = [row EXCEPT ![Current] = IF t.kind = "clean" THEN Confirmed(t.text)
                                           ELSE Shown(t.text)]
        /\ pool' = [pool EXCEPT ![Current] = IF t.kind = "card" THEN @ \cup {"pending"} ELSE @]
        /\ thread' = [thread EXCEPT ![Current].next = "summarize",
                                    ![Current].review = t.kind # "clean"]
  /\ UNCHANGED <<status, op, queue, batch, run, upsets>>

Summarize ==
  /\ AtInner("summarize")
  /\ thread' = [thread EXCEPT ![Current].next = "end"]
  /\ run' = [run EXCEPT !.at = "returned"]
  /\ UNCHANGED <<status, op, queue, batch, row, pool, upsets>>

---------------------------------------------------------------------------
(* The chapter node again: what the chapter's graph came to.               *)

Halt(out) == run' = [run EXCEPT !.at = "settle", !.out = out]

(* The last chapter is taken to be the one before (slip).                  *)
RouteEarly(b) == IF b.replan THEN "reset_replan_batch"
                 ELSE IF b.position + 1 < Size THEN "bridge" ELSE "reflexion"

(* route_after_chapter.                                                    *)
Route(b) == IF b.replan THEN "reset_replan_batch"
            ELSE IF b.position < Size THEN "bridge" ELSE "reflexion"

(* current = result, and its checkpoint.                                   *)
Advance(replan) ==
  LET b == [batch EXCEPT !.replan = replan]
  IN batch' = [b EXCEPT !.next = Route(b)] /\ run' = [run EXCEPT !.at = "batch"]

(* A revision that did not fail has answered what the author refused.      *)
Answered(t) == IF t.revision THEN pool[Current] \ {"refused"} ELSE pool[Current]

Return ==
  /\ run.at = "returned"
  /\ LET t == thread[Current]
         exhausted == t.replan /\ batch.replans >= MaxReplans
     IN /\ t.revision \/ ~Fenced
        /\ \/ t.error /\ Halt("failed") /\ UNCHANGED <<batch, row, pool>>
           \/ /\ ~t.error /\ exhausted   \* node_persist, called once more
              /\ row' = [row EXCEPT ![Current] = Shown(t.text)]
              /\ pool' \in {pool, [pool EXCEPT ![Current] = @ \cup {"pending"}]}
              /\ Halt("awaiting_review") /\ UNCHANGED batch
           \/ /\ ~t.error /\ ~exhausted
              /\ pool' = [pool EXCEPT ![Current] = Answered(t)]
              /\ IF t.review THEN Halt("awaiting_review") /\ UNCHANGED batch
                 ELSE Advance(t.replan)
              /\ UNCHANGED row
  /\ UNCHANGED <<status, op, queue, thread, upsets>>

(* resolve_review with a refused candidate: the chapter is revised, what   *)
(* is still pending is withdrawn.                                          *)
ResolveRevise ==
  /\ run.at = "resolve" /\ "refused" \in pool[Current]
  /\ pool' = [pool EXCEPT ![Current] = @ \ {"pending"}]
  /\ thread' = [thread EXCEPT ![Current].next = "write", ![Current].error = FALSE,
                              ![Current].review = FALSE, ![Current].revision = TRUE]
  /\ run' = [run EXCEPT !.at = "inner"]
  /\ UNCHANGED <<status, op, queue, batch, row, upsets>>

ResolveWait ==
  /\ run.at = "resolve" /\ pool[Current] = {"pending"}
  /\ Halt("awaiting_review")
  /\ UNCHANGED <<status, op, queue, batch, thread, row, pool, upsets>>

(* finalize_awaiting_review: the text the author accepted is confirmed.    *)
ResolveAccept ==
  /\ run.at = "resolve" /\ pool[Current] = {} /\ ~Fenced
  /\ row' = [row EXCEPT ![Current] = Confirmed(thread[Current].text)]
  /\ run' = [run EXCEPT !.at = "accepted"]
  /\ UNCHANGED <<status, op, queue, batch, thread, pool, upsets>>

(* What the chapter's thread says wins over what the review came to (slip).*)
ReviewOf(t) == t.review

(* needs_review after the review: what node_persist returned.              *)
ReviewLeft(t) == FALSE

(* The result is the values of the chapter's thread, replan_batch          *)
(* included; that thread itself is left as it was.                         *)
Accept ==
  /\ run.at = "accepted"
  /\ IF ReviewLeft(thread[Current]) THEN Halt("awaiting_review") /\ UNCHANGED batch
     ELSE Advance(thread[Current].replan)
  /\ UNCHANGED <<status, op, queue, thread, row, pool, upsets>>

---------------------------------------------------------------------------
(* The end of a run.                                                       *)

(* A task that gives its place away is not queued again (slip).            *)
YieldSilently == queue

YieldTo == queue \cup {run.msg}

(* scheduler_yield: after the last look at the status the author may still *)
(* have paused or cancelled the task.                                      *)
EndSlice ==
  /\ run.at = "yield" /\ ~Fenced
  /\ run' = [run EXCEPT !.at = "yielding"]
  /\ UNCHANGED <<status, op, queue, batch, thread, row, pool, upsets>>

Yield ==
  /\ run.at = "yielding"
  /\ IF status = "running" THEN status' = "queued" /\ queue' = YieldTo
     ELSE UNCHANGED <<status, queue>>
  /\ run' = Idle
  /\ UNCHANGED <<op, batch, thread, row, pool, upsets>>

(* _set_task_status: cancelled stays.                                      *)
Settle ==
  /\ run.at = "settle"
  /\ status' = IF status = "cancelled" THEN status ELSE run.out
  /\ run' = Idle
  /\ UNCHANGED <<op, queue, batch, thread, row, pool, upsets>>

(* A fence stops the run (TaskBudgetPaused, BatchHaltError).               *)
Stop ==
  /\ Fenced
  /\ \/ run.at \in {"batch", "inner", "yield"}
     \/ run.at = "returned" /\ ~thread[Current].revision
     \/ run.at = "resolve" /\ pool[Current] = {}
  /\ status' = IF status = "cancelled" THEN status ELSE "paused"
  /\ run' = Idle
  /\ UNCHANGED <<op, queue, batch, thread, row, pool, upsets>>

(* An exception inside a chapter's graph fails the task                    *)
(* (BatchChapterError); any other is retried with the same message.        *)
Fault ==
  /\ run.at # "idle" /\ Upset
  /\ IF run.at = "inner" /\ ~thread[Current].revision
     THEN Halt("failed") /\ UNCHANGED queue
     ELSE run' = Idle /\ queue' = queue \cup {run.msg}
  /\ UNCHANGED <<status, op, batch, thread, row, pool>>

---------------------------------------------------------------------------
(* The author.                                                             *)

Pause ==
  /\ status \notin {"new", "done", "failed", "cancelled", "paused"} /\ Upset
  /\ status' = "paused"
  /\ UNCHANGED <<op, queue, batch, thread, run, row, pool>>

Cancel ==
  /\ status \notin {"new", "done", "cancelled"} /\ Upset
  /\ status' = "cancelled"
  /\ UNCHANGED <<op, queue, batch, thread, run, row, pool>>

(* resume: refused while a run holds the lease.                            *)
Resume ==
  /\ status \in {"paused", "failed", "awaiting_review"} \/ (status = "queued" /\ op = 0)
  /\ run.at = "idle" /\ op < MaxResumes /\ Acceptable
  /\ status' = "queued" /\ op' = op + 1
  /\ queue' = queue \cup {[type |-> "resume", op |-> op + 1]}
  /\ UNCHANGED <<batch, thread, run, row, pool, upsets>>

(* confirm_candidate, reject_candidate for revision.                       *)
Judge(c) ==
  /\ "pending" \in pool[c]
  /\ pool' \in {[pool EXCEPT ![c] = @ \ {"pending"}],
                [pool EXCEPT ![c] = (@ \ {"pending"}) \cup {"refused"}]}
  /\ UNCHANGED <<status, op, queue, batch, thread, run, row, upsets>>

Work == \/ \E m \in queue : Take(m)
        \/ BatchPlan \/ Chapter \/ Reset \/ Bridge \/ Reflexion \/ EnterEnd \/ BatchEnd
        \/ Write \/ Persist \/ Summarize \/ Return
        \/ ResolveRevise \/ ResolveWait \/ ResolveAccept \/ Accept
        \/ EndSlice \/ Yield \/ Settle \/ Stop

Author == Pause \/ Cancel \/ Resume \/ \E c \in Chapters : Judge(c)

Next == Work \/ Fault \/ Author

(* The workers go on as long as there is something to do.                  *)
Spec == Init /\ [][Next]_vars /\ WF_vars(Work)

---------------------------------------------------------------------------
(* Properties.                                                             *)

(* A chapter is begun only when all before it are confirmed, and the task  *)
(* is done only when all are: whatever is planned again, reviewed, paused  *)
(* or resumed (route_after_chapter, bridge).                               *)
InOrder ==
  /\ \A c \in Chapters : thread[c].next # "none" =>
       \A d \in 1..(c - 1) : row[d].status = "confirmed"
  /\ status = "done" => \A c \in Chapters : row[c].status = "confirmed"

(* A batch that goes on after a failure, a pause or a review does not      *)
(* write a chapter again that is confirmed (batch_graph.py, resume_thread).*)
CompletedNotRewritten ==
  [][\A c \in Chapters : row[c].status = "confirmed" => row'[c] = row[c]]_vars

(* The text of a chapter was written under the blueprint in force when it  *)
(* is shown or confirmed, never under one that was given up                *)
(* (batch_generation).                                                     *)
FromThisBlueprint ==
  [][\A c \in Chapters : row'[c].text # row[c].text => row'[c].text.of = batch.replans]_vars

(* A batch that awaits a review has a chapter to review, and resuming it   *)
(* will find it there: the one it stopped at, with the text of its thread  *)
(* (BatchReviewError).                                                     *)
ReviewIsShown ==
  status = "awaiting_review" => row[Current] = Shown(thread[Current].text)

(* Every slice is followed by the next until the batch comes to rest.      *)
ComesToRest == status \in {"new", "queued", "running"} ~>
                 status \in {"done", "failed", "cancelled", "paused", "awaiting_review"}
=============================================================================

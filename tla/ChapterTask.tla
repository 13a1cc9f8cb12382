---------------------------- MODULE ChapterTask ----------------------------
(***************************************************************************)
(* A task that writes one chapter, from its first message to its rest: the *)
(* worker (src/src/myink/worker/processor.py) takes a message and runs the *)
(* graph of ChapterGraph node by node (workflow/runner.py), a checkpoint   *)
(* after each; the author approves plans, pauses, resumes and cancels,     *)
(* judges the candidates of a text under review and accepts the text by    *)
(* resuming (workflow/review.py, nodes.finalize_awaiting_review).          *)
(*                                                                         *)
(* The task has a budget, so a node starts only while the task is running  *)
(* (budget_node) and an interrupted graph goes on from its checkpoint.     *)
(* One run at a time: the task's lock.  A run may be cut short by an       *)
(* exception that the worker retries with the same message; a worker that  *)
(* dies leaves its execution owned, and nothing runs after it (see         *)
(* README), so its death is not a step here.                               *)
(***************************************************************************)
EXTENDS ChapterGraph, Sequences, FiniteSets

CONSTANTS Inputs,      \* [manual, rewrite, asked] the task may be created with
          Hazards,     \* what else to include, see Init and Disturbable
          MaxResumes,  \* bounds: how often the author resumes, and what else befalls
          MaxUpsets    \*   a task: pauses, cancels, faults, edits

ASSUME TaskAssumption ==
  /\ Inputs \subseteq [manual: BOOLEAN, rewrite: BOOLEAN, asked: BOOLEAN]
  /\ \A i \in Inputs : i.asked => i.rewrite   \* "replan_requires_rewrite"
  /\ Hazards \subseteq {"manual", "late", "replan"}
  /\ {MaxResumes, MaxUpsets} \subseteq Nat

VARIABLES
  status,   \* the task's row: its status
  op,       \* _budget_resume_operation: how often the task was resumed
  queue,    \* messages that wait
  thread,   \* the checkpoint: values, the next node, a pending interrupt
  run,      \* the run of the worker
  row,      \* the chapter's row
  summary,  \* the chapter's summary: of which text, and by a model?
  card,     \* the chapter's candidates in the pool
  receipts, \* effect receipts: states whose persist has committed
  pages,    \* plans as recorded in agent_runs, what the author may look at
  upsets,   \* what has befallen the task so far
  seen      \* history: texts passed by the audit, shown for review, accepted or
            \*   refused by the author, and the plans he approved

vars == <<status, op, queue, thread, run, row, summary, card, receipts, pages, upsets, seen>>

Generate == [type |-> "generate", attempt |-> 0, plan |-> 0, op |-> 0]

(* A run: what it does next, its message, whether runner.py writes the     *)
(* final status itself (first), the approved plan it brings to the gate,   *)
(* the rejected cards a revision answers, the result it holds outside the  *)
(* checkpoint, the version a summary is of, the outcome it will report.    *)
Idle == [at |-> "idle", msg |-> Generate, first |-> FALSE, plan |-> 0, answers |-> {},
         v |-> Input(FALSE, FALSE, FALSE, FALSE), version |-> 0, out |-> "done"]
(* Text 1 is the confirmed text that a rewrite replaces.                   *)
Init ==
  \E i \in Inputs :
    /\ i.manual /\ i.asked => "replan" \in Hazards
    /\ status = "new" /\ op = 0 /\ queue = {Generate}
    /\ thread = [v |-> Input(i.manual, i.rewrite, i.asked, FALSE), next |-> "none",
                 asked |-> FALSE]
    /\ run = Idle
    /\ row = IF i.rewrite THEN [status |-> "confirmed", text |-> 1, version |-> 1]
             ELSE [status |-> "absent", text |-> 0, version |-> 0]
    /\ summary = [of |-> row.text, model |-> FALSE]
    /\ card = [c \in Cards |-> "none"]
    /\ receipts = {} /\ pages = <<>>
    /\ upsets = 0
    /\ seen = [passed |-> {1}, shown |-> {}, accepted |-> {}, refused |-> {}, approved |-> {}]

Fenced == status \in {"paused", "cancelled", "awaiting_plan", "awaiting_review"}

CardsThat(states) == {c \in Cards : card[c] \in states}

(* What this model may leave out, each a finding of its own (README): a    *)
(* manual task that is interrupted, and an interruption after the graph    *)
(* has ended on a text for review but before the task says so.             *)
Disturbable ==
  /\ thread.v.manual => "manual" \in Hazards
  /\ run.at \in {"ended", "settle"} /\ thread.v.review => "late" \in Hazards

Upset == /\ upsets < MaxUpsets /\ Disturbable
         /\ upsets' = upsets + 1

---------------------------------------------------------------------------
(* The worker takes a message (process, _dispatch).                        *)

Begin(m, first, plan) ==
  run' = [Idle EXCEPT !.at = "graph", !.msg = m, !.first = first, !.plan = plan]

End(m, out) == run' = [Idle EXCEPT !.at = "settle", !.msg = m, !.out = out]

(* resume_thread: on from the checkpoint; from the start if there is none, *)
(* or if the graph ended in an error; a finished graph returns its values. *)
(* Without a checkpoint the state of a resume has no writing_mode.         *)
Continue(m) ==
  IF thread.next = "end" /\ ~thread.v.error
  THEN run' = [Idle EXCEPT !.at = "ended", !.msg = m] /\ UNCHANGED thread
  ELSE /\ thread' = CASE thread.next = "none" -> [thread EXCEPT !.next = "load_state",
                                                               !.v.manual = FALSE]
                      [] thread.next = "end"  -> [thread EXCEPT !.next = "load_state"]
                      [] OTHER                -> [thread EXCEPT !.asked = FALSE]
       /\ Begin(m, FALSE, 0)

EmptyRow == row.text = 0

DispatchGenerate(m) ==
  IF thread.next # "none"
  THEN Continue(m) /\ UNCHANGED row
  ELSE /\ thread' = [thread EXCEPT !.next = "load_state"]
       /\ Begin(m, TRUE, 0)
       /\ row' = IF ~thread.v.rewrite /\ EmptyRow
                 THEN [row EXCEPT !.status = IF thread.v.manual THEN "planning" ELSE "writing",
                                  !.version = 1]
                 ELSE row

(* resume_chapter_plan: the checkpoint must wait for an approval.          *)
DispatchPlan(m) ==
  /\ IF thread.next = "plan_gate" /\ thread.asked
     THEN Begin(m, TRUE, m.plan) /\ thread' = [thread EXCEPT !.asked = FALSE]
     ELSE End(m, "failed") /\ UNCHANGED thread
  /\ UNCHANGED row

UnderReview == row.status = "awaiting_review"

(* A chapter under review is finished even if its graph still has a node   *)
(* to run (slip).                                                          *)
FinishesReviewAlways == UnderReview \/ (thread.next = "end" /\ thread.v.review)

FinishesReview ==
  /\ thread.next \in {"none", "end"}
  /\ UnderReview \/ (thread.next = "end" /\ (thread.v.finalizing \/ thread.v.review))

(* chapter_resume: on with the graph, or finish a review                   *)
(* (finalize_chapter_review).                                              *)
DispatchResume(m) ==
  /\ IF ~FinishesReview THEN Continue(m)
     ELSE /\ UNCHANGED thread
          /\ IF thread.v.draft = 0 THEN End(m, "failed")
             ELSE run' = [Idle EXCEPT !.at = IF thread.v.finalizing THEN "summary" ELSE "resolve",
                                      !.msg = m, !.v = thread.v]
  /\ UNCHANGED row

LastAttempt == IF pages = <<>> THEN 0 ELSE pages[Len(pages)].attempt

(* Messages that are acknowledged and dropped: of an older resume, of an   *)
(* older plan, of a task that is at rest.                                  *)
Outdated(m) ==
  \/ m.type # "plan" /\ op > 0 /\ m.op # op
  \/ status = "awaiting_plan" /\ m.type = "plan" /\ m.attempt # LastAttempt
  \/ /\ status \in {"done", "failed", "cancelled", "paused", "awaiting_review", "awaiting_plan"}
     /\ ~(status = "awaiting_plan" /\ m.type = "plan")

Take(m) ==
  /\ run.at = "idle" /\ m \in queue
  /\ queue' = queue \ {m}
  /\ IF Outdated(m) THEN UNCHANGED <<status, thread, run, row>>
     ELSE /\ status' = "running"
          /\ \/ m.type = "generate" /\ DispatchGenerate(m)
             \/ m.type = "plan" /\ DispatchPlan(m)
             \/ m.type = "resume" /\ DispatchResume(m)
  /\ UNCHANGED <<op, summary, card, receipts, pages, upsets, seen>>

---------------------------------------------------------------------------
(* The graph, one node and its checkpoint at a time.                       *)

AtNode(n) == run.at = "graph" /\ thread.next = n /\ ~Fenced

Left(n, v) == [v |-> v, next |-> Successor(n, v), asked |-> FALSE]

(* A text that nobody holds any more lends its number to a new one.        *)
Held == {thread.v.draft, row.text, run.v.draft, summary.of}
FreshText == CHOOSE t \in 1..5 : t \notin Held /\ \A s \in 1..(t - 1) : s \in Held
FreshPlan == Len(pages) + 1

HeldOf(facts) == [facts EXCEPT !.passed = @ \cap Held, !.shown = @ \cap Held,
                               !.accepted = @ \cap Held, !.refused = @ \cap Held]

(* A node that computes.  A new plan is recorded for the author to see.    *)
Compute(n) ==
  /\ AtNode(n)
  /\ \E v \in Results(n, thread.v, FreshPlan, FreshText, CardsThat({"confirmed", "barred"}),
                      CardsThat({"revise", "applied"})) :
       /\ thread' = Left(n, v)
       /\ run' = [run EXCEPT !.at = IF Successor(n, v) = "end" THEN "ended" ELSE "graph"]
       /\ receipts' = IF v.draft = FreshText THEN {} ELSE receipts
       /\ pages' = IF v.plan = FreshPlan /\ v.manual
                   THEN Append(pages, [attempt |-> v.replans + 1, plan |-> FreshPlan])
                   ELSE pages
       /\ seen' = IF n = "audit" /\ RouteAfterAudit(v) = "persist" /\ v.cards = {}
                  THEN [seen EXCEPT !.passed = @ \cup {v.draft}]
                  ELSE IF v.draft = FreshText THEN HeldOf(seen) ELSE seen
  /\ UNCHANGED <<status, op, queue, row, summary, card, upsets>>

(* node_plan_gate: interrupt, or pass with the plan that was approved.     *)
Gate ==
  /\ AtNode("plan_gate")
  /\ IF ~GateOpen(thread.v) /\ run.plan = 0
     THEN /\ thread' = [thread EXCEPT !.asked = TRUE]
          /\ run' = [run EXCEPT !.at = "ended"]
          /\ UNCHANGED row
     ELSE /\ thread' = Left("plan_gate", IF GateOpen(thread.v) THEN thread.v
                                         ELSE [thread.v EXCEPT !.plan = run.plan])
          /\ run' = [run EXCEPT !.plan = 0]
          /\ row' = IF ~GateOpen(thread.v) /\ EmptyRow /\ row.status # "absent"
                    THEN [row EXCEPT !.status = "writing"] ELSE row
  /\ UNCHANGED <<status, op, queue, summary, card, receipts, pages, upsets, seen>>

(* save_review_draft and save_chapter: a new version for a new text.       *)
ShowText(t) ==
  row' = [status |-> "awaiting_review", text |-> t,
          version |-> IF row.text \in {0, t} THEN IF row.version = 0 THEN 1 ELSE row.version
                      ELSE row.version + 1]

ConfirmText(t) ==
  row' = [status |-> "confirmed", text |-> t,
          version |-> IF row.version = 0 \/ (UnderReview /\ row.text = t)
                      THEN IF row.version = 0 THEN 1 ELSE row.version
                      ELSE row.version + 1]

(* What persisting v does, unless its receipt says it is done.             *)
PersistAgain(v) ==
  /\ receipts' = receipts \cup {v}
  /\ IF Blocked(v)
     THEN /\ ShowText(v.draft)
          /\ card' = [c \in Cards |-> IF c \in v.cards /\ card[c] = "none" THEN "pending"
                                      ELSE card[c]]
     ELSE ConfirmText(v.draft) /\ UNCHANGED card
  /\ summary' = [of |-> v.draft, model |-> FALSE]

PersistOnce(v) == IF v \in receipts THEN UNCHANGED <<receipts, row, card, summary>>
                  ELSE PersistAgain(v)

Persist ==
  /\ AtNode("persist")
  /\ PersistOnce(thread.v)
  /\ run' = [run EXCEPT !.at = "persisted"]
  /\ UNCHANGED <<status, op, queue, thread, pages, upsets, seen>>

PersistCheckpoint ==
  /\ run.at = "persisted"
  /\ thread' = Left("persist", Persisted(thread.v))
  /\ run' = [run EXCEPT !.at = "graph"]
  /\ UNCHANGED <<status, op, queue, row, summary, card, receipts, pages, upsets, seen>>

---------------------------------------------------------------------------
(* node_summarize, in the graph and after a review: it reads the row, asks *)
(* the model, and writes only if the row is still the one it read.         *)

Wanted(v) ==
  /\ v.draft # 0
  /\ v.finalizing => v.version # 0
  /\ row.status = "confirmed" /\ row.text = v.draft
  /\ v.version # 0 => row.version = v.version

AfterSummary ==
  IF run.at \in {"summary", "asked_last"}
  THEN run' = [run EXCEPT !.at = "close"] /\ UNCHANGED thread
  ELSE /\ run' = [run EXCEPT !.at = "ended"]
       /\ thread' = Left("summarize", thread.v)

Summarize ==
  /\ AtNode("summarize") \/ run.at = "summary"
  /\ LET v == IF run.at = "summary" THEN run.v ELSE thread.v
     IN IF Wanted(v)
        THEN /\ ~Fenced
             /\ run' = [run EXCEPT !.at = IF run.at = "summary" THEN "asked_last" ELSE "asked",
                                   !.version = row.version]
             /\ UNCHANGED thread
        ELSE AfterSummary
  /\ UNCHANGED <<status, op, queue, row, summary, card, receipts, pages, upsets, seen>>

(* Without the conditions of the UPDATE (slip).                            *)
StillCurrentAlways(t) == TRUE

StillCurrent(t) == row.status = "confirmed" /\ row.version = run.version /\ row.text = t

Summarized ==
  /\ run.at \in {"asked", "asked_last"}
  /\ LET t == IF run.at = "asked" THEN thread.v.draft ELSE run.v.draft
     IN \/ UNCHANGED summary
        \/ StillCurrent(t) /\ summary' = [of |-> t, model |-> TRUE]
  /\ AfterSummary
  /\ UNCHANGED <<status, op, queue, row, card, receipts, pages, upsets, seen>>

---------------------------------------------------------------------------
(* The end of a review (resolve_review, finalize_chapter_review).          *)

(* The pool is not searched for rejected candidates (slip).                *)
RejectedNone == {}

Rejected == CardsThat({"revise"})

(* A rejected candidate: the chapter is revised, and what is still pending *)
(* is withdrawn with the old text.                                         *)
ResolveRevise ==
  /\ run.at = "resolve" /\ Rejected # {}
  /\ card' = [c \in Cards |-> IF card[c] = "pending" THEN "none" ELSE card[c]]
  /\ thread' = [v |-> Reopened(run.v), next |-> "revise", asked |-> FALSE]
  /\ run' = [run EXCEPT !.at = "graph", !.answers = Rejected]
  /\ UNCHANGED <<status, op, queue, row, summary, receipts, pages, upsets, seen>>

ResolveWait ==
  /\ run.at = "resolve" /\ Rejected = {} /\ CardsThat({"pending"}) # {}
  /\ End(run.msg, "awaiting_review")
  /\ UNCHANGED <<status, op, queue, thread, row, summary, card, receipts, pages, upsets, seen>>

(* The text the author has accepted is persisted once more, what blocked   *)
(* it masked.                                                              *)
ResolveAccept ==
  /\ run.at = "resolve" /\ Rejected = {} /\ CardsThat({"pending"}) = {} /\ ~Fenced
  /\ PersistOnce(Masked(run.v))
  /\ run' = [run EXCEPT !.at = "mark", !.v.review = FALSE]
  /\ UNCHANGED <<status, op, queue, thread, pages, upsets, seen>>

(* What is left to do is saved before the model is asked for a summary.    *)
Mark ==
  /\ run.at = "mark"
  /\ LET v == [run.v EXCEPT !.finalizing = TRUE,
                            !.version = IF row.status = "confirmed" /\ row.text = run.v.draft
                                        THEN row.version ELSE 0]
     IN /\ thread' = [v |-> v, next |-> "end", asked |-> FALSE]
        /\ run' = [run EXCEPT !.at = "summary", !.v = v]
  /\ UNCHANGED <<status, op, queue, row, summary, card, receipts, pages, upsets, seen>>

(* The error a graph ends with is not looked at (slip).                    *)
OutcomeBlind(v) == IF v.review THEN "awaiting_review" ELSE "done"

Outcome(v) == IF v.review THEN "awaiting_review" ELSE IF v.error THEN "failed" ELSE "done"

Close ==
  /\ run.at = "close"
  /\ LET v == [run.v EXCEPT !.review = FALSE, !.finalizing = FALSE]
     IN thread' = [thread EXCEPT !.v = v] /\ run' = [run EXCEPT !.at = "settle", !.out = Outcome(v)]
  /\ UNCHANGED <<status, op, queue, row, summary, card, receipts, pages, upsets, seen>>

---------------------------------------------------------------------------
(* The end of a run.                                                       *)

(* A revision for a review: its rejections are answered unless it failed.  *)
EndRevision ==
  /\ run.at = "ended" /\ run.answers # {}
  /\ card' = [c \in Cards |-> IF c \in run.answers /\ ~thread.v.error THEN "applied" ELSE card[c]]
  /\ run' = IF thread.v.review THEN [run EXCEPT !.at = "settle", !.out = "awaiting_review"]
            ELSE [run EXCEPT !.at = "mark", !.v = thread.v]
  /\ UNCHANGED <<status, op, queue, thread, row, summary, receipts, pages, upsets, seen>>

(* invoke_graph looks once more whether the task still runs; what the      *)
(* interrupt means is known only to _finish_chapter_result.                *)
EndGraph ==
  /\ run.at = "ended" /\ run.answers = {} /\ ~Fenced
  /\ run' = [run EXCEPT !.at = "settle",
                        !.out = IF thread.asked /\ run.first THEN "awaiting_plan"
                                ELSE Outcome(thread.v)]
  /\ UNCHANGED <<status, op, queue, thread, row, summary, card, receipts, pages, upsets, seen>>

(* A resumed run leaves its final status to the runner (slip).             *)
SettleFirst(out) == IF status = "cancelled" \/ ~run.first THEN status ELSE out

(* _set_task_status: cancelled stays.                                      *)
Settled(out) == IF status = "cancelled" THEN status ELSE out

Settle ==
  /\ run.at = "settle"
  /\ status' = Settled(run.out)
  /\ row' = IF /\ run.out = "failed" /\ run.msg.type \in {"generate", "plan"}
               /\ row.status \in {"planning", "writing"} /\ EmptyRow
            THEN [row EXCEPT !.status = "failed"] ELSE row
  /\ run' = Idle
  /\ seen' = IF status' = "awaiting_review" THEN [seen EXCEPT !.shown = @ \cup {row.text}]
             ELSE seen
  /\ UNCHANGED <<op, queue, thread, summary, card, receipts, pages, upsets>>

(* A fence stops the run (TaskBudgetPaused, record_budget_pause).          *)
Stop ==
  /\ Fenced
  /\ \/ run.at = "graph"
     \/ run.at = "ended" /\ run.answers = {}
     \/ run.at = "resolve" /\ Rejected = {} /\ CardsThat({"pending"}) = {}
     \/ run.at = "summary" /\ Wanted(run.v)
  /\ status' = IF status = "cancelled" THEN status ELSE "paused"
  /\ run' = Idle
  /\ UNCHANGED <<op, queue, thread, row, summary, card, receipts, pages, upsets, seen>>

(* An exception that is retried: the same message comes again.             *)
Fault ==
  /\ run.at # "idle" /\ Upset
  /\ queue' = queue \cup {run.msg}
  /\ run' = Idle
  /\ UNCHANGED <<status, op, thread, row, summary, card, receipts, pages, seen>>

---------------------------------------------------------------------------
(* The author.                                                             *)

Pause ==
  /\ status \notin {"new", "done", "failed", "cancelled", "awaiting_plan", "paused"}
  /\ Upset
  /\ status' = "paused"
  /\ UNCHANGED <<op, queue, thread, run, row, summary, card, receipts, pages, seen>>

Cancel ==
  /\ status \notin {"new", "done", "cancelled"}
  /\ Upset
  /\ status' = "cancelled"
  /\ row' = IF status = "awaiting_plan" /\ EmptyRow /\ row.status # "absent"
            THEN [row EXCEPT !.status = "cancelled"] ELSE row
  /\ UNCHANGED <<op, queue, thread, run, summary, card, receipts, pages, seen>>

(* resume: refused while a run holds the lease.  Resuming a task whose     *)
(* text was shown for review accepts it.                                   *)
Resume ==
  /\ \/ status \in {"paused", "failed"} /\ Disturbable
     \/ status = "awaiting_review"
     \/ status = "queued" /\ op = 0 /\ Disturbable
  /\ run.at = "idle" /\ op < MaxResumes
  /\ status' = "queued" /\ op' = op + 1
  /\ queue' = queue \cup {[Generate EXCEPT !.type = "resume", !.op = op + 1]}
  /\ seen' = [seen EXCEPT !.accepted = @ \cup (seen.shown \cap {row.text})]
  /\ UNCHANGED <<thread, run, row, summary, card, receipts, pages, upsets>>

(* Any version of the plan is confirmed (slip).                            *)
IsCurrentAlways(page) == TRUE

IsCurrent(page) == page.attempt = LastAttempt

(* confirm_task_plan: the author looks at one of the plans recorded.       *)
ConfirmPlan(i) ==
  /\ status = "awaiting_plan" /\ IsCurrent(pages[i])
  /\ status' = "queued"
  /\ queue' = queue \cup {[type |-> "plan", attempt |-> pages[i].attempt,
                           plan |-> pages[i].plan, op |-> op]}
  /\ seen' = [seen EXCEPT !.approved = @ \cup {pages[i].plan}]
  /\ UNCHANGED <<op, thread, run, row, summary, card, receipts, pages, upsets>>

(* confirm_candidate, reject_candidate (revise, or memory_only).           *)
Judge(c, decision) ==
  /\ card[c] = "pending"
  /\ card' = [card EXCEPT ![c] = decision]
  /\ seen' = IF decision = "revise" THEN [seen EXCEPT !.refused = @ \cup {row.text}] ELSE seen
  /\ UNCHANGED <<status, op, queue, thread, run, row, summary, receipts, pages, upsets>>

(* update_chapter_content of a confirmed chapter.                          *)
Edit ==
  /\ row.status = "confirmed" /\ upsets < MaxUpsets
  /\ row' = [row EXCEPT !.text = FreshText, !.version = @ + 1]
  /\ upsets' = upsets + 1
  /\ seen' = [HeldOf(seen) EXCEPT !.passed = @ \cup {FreshText}]
  /\ UNCHANGED <<status, op, queue, thread, run, summary, card, receipts, pages>>

Work == \/ \E m \in queue : Take(m)
        \/ \E n \in Nodes \ {"plan_gate", "persist", "summarize"} : Compute(n)
        \/ Gate \/ Persist \/ PersistCheckpoint \/ Summarize \/ Summarized
        \/ ResolveRevise \/ ResolveWait \/ ResolveAccept \/ Mark \/ Close
        \/ EndRevision \/ EndGraph \/ Settle \/ Stop

Author == \/ Pause \/ Cancel \/ Resume \/ Edit
          \/ \E i \in DOMAIN pages : ConfirmPlan(i)
          \/ \E c \in Cards, d \in {"confirmed", "barred", "revise"} : Judge(c, d)

Next == Work \/ Fault \/ Author

(* The workers go on as long as there is something to do.                  *)
Spec == Init /\ [][Next]_vars /\ WF_vars(Work)

---------------------------------------------------------------------------
(* Properties.                                                             *)

(* A chapter is confirmed only with a text that the audit passed with      *)
(* nothing left to judge, or that the author resumed after it was shown to *)
(* him for review (route_after_audit, node_persist,                        *)
(* finalize_chapter_review).                                               *)
ConfirmedKnowingly == row.status = "confirmed" => row.text \in seen.passed \cup seen.accepted

(* A text of which the author refused a setting, for revision, is never    *)
(* the confirmed one, whatever is paused, retried or resumed               *)
(* (resolve_review).                                                       *)
RefusedStaysOut == row.status = "confirmed" => row.text \notin seen.refused

(* In manual mode a text stands only under a plan that the author has      *)
(* approved, whatever interrupts the task, repeats its messages or refuses *)
(* its text, and however often the audit had the chapter planned again     *)
(* (node_plan_gate, confirm_task_plan, resolve_review).                    *)
WrittenAsApproved ==
  thread.v.manual /\ thread.v.draft # 0 /\ pages # <<>> => thread.v.plan \in seen.approved

(* And that plan is the newest, the one the author was shown last          *)
(* (process, confirm_task_plan).                                           *)
PlanIsNewest == thread.v.manual /\ thread.v.draft # 0 /\ pages # <<>> => thread.v.plan = Len(pages)

(* A task is done when its chapter is written and confirmed (_run_bound).  *)
DoneMeansWritten == status = "done" => row.status = "confirmed" /\ thread.v.draft # 0

(* A chapter gets a new version only with a new text, also when a run that *)
(* was cut short persists again (save_chapter, effect receipts).           *)
VersionIsNewText == [][row'.version > row.version /\ row.version > 0 => row'.text # row.text]_vars

(* A model's summary is written only of the text the chapter has at that   *)
(* moment (node_summarize).                                                *)
SummaryFits == [][summary' # summary /\ summary'.model => row.text = summary'.of]_vars

(* A task that was accepted, resumed or confirmed comes to rest.           *)
ComesToRest == status \in {"new", "queued", "running"} ~>
                 status \in {"done", "failed", "cancelled", "paused", "awaiting_plan",
                             "awaiting_review"}
=============================================================================

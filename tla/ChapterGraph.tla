---------------------------- MODULE ChapterGraph ----------------------------
(***************************************************************************)
(* The graph that writes one chapter (src/src/myink/workflow/              *)
(* chapter_graph.py, nodes.py, patches.py): for every node the values it   *)
(* may leave behind, and the edges between the nodes.  There are no        *)
(* variables here: ChapterTask runs the graph step by step, with           *)
(* checkpoints, interruptions, the author and the chapter's row.           *)
(*                                                                         *)
(* The state a thread carries is a record.  What the prompts and the model *)
(* say is left to chance; of their results only what a later decision      *)
(* tells apart is kept: a text and a plan are numbers, 0 for none; a       *)
(* validation report is whether it has a hard finding (L1 critical or L2   *)
(* major) and where its blocking findings (critical or major) lie; an      *)
(* audit verdict is its kind, the target of a replan and where the         *)
(* blocking findings of the audit lie.                                     *)
(***************************************************************************)
EXTENDS Integers

CONSTANTS Cards,         \* settings that a text may introduce: candidates
          Reports,       \* the reports and the verdicts that may be given:
          Verdicts,      \*   bounds on what the models answer
          MaxRevisions,  \* settings.max_revisions
          MaxPatches,    \* settings.max_patches
          MaxReplans     \* settings.max_replans

Scopes == {"none", "local", "wide"}
AllReports == {[hard |-> FALSE, scope |-> s] : s \in Scopes}
              \cup {[hard |-> TRUE, scope |-> s] : s \in {"local", "wide"}}
AllVerdicts == [kind: {"pass", "rewrite", "replan"}, target: {"chapter", "batch"},
                scope: Scopes]
NoReport  == [hard |-> FALSE, scope |-> "none"]
NoVerdict == [kind |-> "none", target |-> "chapter", scope |-> "none"]

ASSUME GraphAssumption == /\ Reports \subseteq AllReports
                          /\ Verdicts \subseteq AllVerdicts
                          /\ MaxRevisions \in Nat \ {0}   \* a review asks for one
                          /\ MaxPatches \in Nat
                          /\ MaxReplans \in Nat

Nodes == {"load_state", "recall", "plan_cast", "plan_chapter", "plan_gate", "write",
          "extract", "validate", "audit", "route", "revise", "patch", "reset_replan",
          "persist", "summarize"}

(* What the thread of a chapter keeps between its nodes.                   *)
ChapterState ==
  [error: BOOLEAN,
   manual: BOOLEAN,      \* writing_mode
   rewrite: BOOLEAN,     \* an existing chapter is written again
   asked: BOOLEAN,       \* replan_requested
   batched: BOOLEAN,     \* the thread belongs to a batch: ":ch" in task_id
   plan: Nat, draft: Nat,   \* chapter_plan and draft, 0 for none
   cards: SUBSET Cards,  \* candidates
   report: AllReports, verdict: AllVerdicts \cup {NoVerdict},
   review: BOOLEAN,      \* needs_review
   batch: BOOLEAN,       \* replan_batch
   revisions: 0..MaxRevisions, patches: 0..MaxPatches, replans: 0..MaxReplans,
   finalizing: BOOLEAN,  \* review_finalization_pending
   version: Nat]         \* summary_chapter_version, 0 for none

(* The input of a first run (generate_chapter, or the batch's chapter      *)
(* node).                                                                  *)
Input(manual, rewrite, asked, batched) ==
  [error |-> FALSE, manual |-> manual, rewrite |-> rewrite, asked |-> asked,
   batched |-> batched, plan |-> 0, draft |-> 0, cards |-> {}, report |-> NoReport,
   verdict |-> NoVerdict, review |-> FALSE, batch |-> FALSE, revisions |-> 0,
   patches |-> 0, replans |-> 0, finalizing |-> FALSE, version |-> 0]

KeepsPlan(v) == v.rewrite /\ ~v.asked

Failed(v) == [v EXCEPT !.error = TRUE]

(* The error of an earlier node is passed on, else a model is called and   *)
(* may fail.                                                               *)
Answer(v, good) == IF v.error THEN {v} ELSE {Failed(v)} \cup good

---------------------------------------------------------------------------
(* The nodes.  A node that writes a plan or a text numbers it "fresh".     *)

(* The counters of a round kept when its chapter is planned again (slip).  *)
ResetReplanKeeps(v) ==
  [v EXCEPT !.draft = 0, !.cards = {}, !.report = NoReport, !.verdict = NoVerdict,
            !.batch = FALSE, !.revisions = 0, !.patches = 0]

(* node_load_state: a rewrite that keeps its plan needs a saved one; else  *)
(* whatever an earlier attempt left is reset.                              *)
LoadState(v) ==
  LET clean == [v EXCEPT !.error = FALSE, !.review = FALSE, !.batch = FALSE,
                         !.draft = 0, !.cards = {}, !.report = NoReport,
                         !.verdict = NoVerdict, !.revisions = 0, !.patches = 0,
                         !.replans = 0]
  IN IF KeepsPlan(v)
     THEN {[clean EXCEPT !.plan = 0], [v EXCEPT !.error = TRUE, !.plan = 0]}
     ELSE {clean}

PlanCast(v) == Answer(v, {v})

(* node_plan_chapter: plans even after an error.                           *)
PlanChapter(v, fresh) == {Failed(v), [v EXCEPT !.plan = fresh]}

(* Only the first plan of a chapter is shown to the author (slip).         *)
GateOpenOnce(v) == v.error \/ ~v.manual \/ v.replans > 0

(* node_plan_gate: in manual mode it stops for the author's approval.      *)
GateOpen(v) == v.error \/ ~v.manual

Write(v, fresh) == Answer(v, {[v EXCEPT !.draft = fresh]})

(* node_extract: what the database already knows of (confirmed cards, and  *)
(* proposals the author has barred from memory) is dropped.                *)
Extract(v, known) ==
  IF v.draft = 0 THEN {Failed(v)}
  ELSE Answer(v, {[v EXCEPT !.cards = found \ known] : found \in SUBSET Cards})

(* node_validate: a candidate that the author rejected, to be revised, is  *)
(* a critical finding of local scope.                                      *)
Validate(v, refused) ==
  LET noted(r) == IF v.cards \cap refused = {} THEN r
                  ELSE [hard |-> TRUE,
                        scope |-> IF r.scope = "wide" THEN "wide" ELSE "local"]
  IN IF v.error THEN {[v EXCEPT !.report = NoReport]}
     ELSE {[v EXCEPT !.report = noted(r)] : r \in Reports}

Audit(v) ==
  IF v.draft = 0 THEN {Failed(v)}
  ELSE Answer(v, {[v EXCEPT !.verdict = d,
                            !.batch = d.kind = "replan" /\ d.target = "batch"]
                  : d \in Verdicts})

(* resolve_revise_mode: a patch, if something blocks and all that does is  *)
(* local.                                                                  *)
Patchable(v) ==
  LET scopes == {v.report.scope, v.verdict.scope}
  IN "local" \in scopes /\ "wide" \notin scopes

RevisionsLeft(v) == v.revisions < MaxRevisions
PatchesLeft(v)   == v.patches < MaxPatches
ReplansLeft(v)   == v.replans < MaxReplans

Repair(v) == IF Patchable(v)
             THEN IF PatchesLeft(v) THEN "patch" ELSE "needs_review"
             ELSE IF RevisionsLeft(v) THEN "revise" ELSE "needs_review"

(* route_after_audit: hard findings before the verdict.                    *)
RouteAfterAudit(v) ==
  CASE v.error -> "fail"
    [] ~v.error /\ v.report.hard -> Repair(v)
    [] ~v.error /\ ~v.report.hard /\ (\/ v.verdict.kind = "rewrite"
                                      \/ v.verdict.kind = "pass" /\ v.verdict.scope # "none")
         -> Repair(v)
    [] ~v.error /\ ~v.report.hard /\ v.verdict.kind = "replan"
         -> IF KeepsPlan(v) \/ ~ReplansLeft(v) THEN "needs_review"
            ELSE IF v.verdict.target = "chapter" \/ ~v.batched THEN "replan_chapter"
            ELSE "replan_batch"
    [] ~v.error /\ ~v.report.hard /\ v.verdict.kind = "pass" /\ v.verdict.scope = "none"
         -> "persist"
    [] ~v.error /\ ~v.report.hard /\ v.verdict.kind = "none" -> "needs_review"

Route(v) == [v EXCEPT !.review = RouteAfterAudit(v) = "needs_review",
                      !.batch = RouteAfterAudit(v) = "replan_batch"]

(* A repair spends the report and the verdict it answers: the next ones    *)
(* replace them before anything reads them.                                *)
Spent(v) == [v EXCEPT !.report = NoReport, !.verdict = NoVerdict]

(* node_revise: revises even after an error.                               *)
Revise(v, fresh) ==
  {Failed(Spent(v)), [Spent(v) EXCEPT !.draft = fresh, !.revisions = v.revisions + 1]}

(* node_patch: patches that do not apply leave the text as it is.          *)
Patch(v, fresh) ==
  IF v.draft = 0 THEN {Failed(v)}
  ELSE Answer(Spent(v), {[Spent(v) EXCEPT !.draft = t, !.patches = v.patches + 1]
                         : t \in {fresh, v.draft}})

ResetReplan(v) ==
  [v EXCEPT !.draft = 0, !.cards = {}, !.report = NoReport, !.verdict = NoVerdict,
            !.batch = FALSE, !.revisions = 0, !.patches = 0, !.replans = v.replans + 1]

(* node_persist shows the text to the author, or confirms it.              *)
Blocked(v) == \/ v.report.hard
              \/ v.cards # {}
              \/ v.verdict.kind \in {"rewrite", "replan"}
              \/ v.review

Persisted(v) == [v EXCEPT !.review = Blocked(v)]

(* finalize_awaiting_review: the checkpoint with what blocked it masked.   *)
Masked(v) == [v EXCEPT !.cards = {}, !.report = NoReport, !.verdict = NoVerdict,
                       !.review = FALSE]

(* resolve_review: the state in which a refused text is revised.           *)
Reopened(v) == [v EXCEPT !.error = FALSE, !.review = FALSE, !.rewrite = TRUE,
                         !.verdict = NoVerdict, !.revisions = 0, !.patches = 0,
                         !.replans = 0]

(* The nodes that only compute; plan_gate, persist and summarize act on    *)
(* the world and are steps of ChapterTask.                                 *)
Results(n, v, freshPlan, freshText, known, refused) ==
  CASE n = "load_state"   -> LoadState(v)
    [] n = "recall"       -> {v}
    [] n = "plan_cast"    -> PlanCast(v)
    [] n = "plan_chapter" -> PlanChapter(v, freshPlan)
    [] n = "write"        -> Write(v, freshText)
    [] n = "extract"      -> Extract(v, known)
    [] n = "validate"     -> Validate(v, refused)
    [] n = "audit"        -> Audit(v)
    [] n = "route"        -> {Route(v)}
    [] n = "revise"       -> Revise(v, freshText)
    [] n = "patch"        -> Patch(v, freshText)
    [] n = "reset_replan" -> {ResetReplan(v)}

AfterRoute(v) ==
  LET r == RouteAfterAudit(v)
  IN CASE r \in {"persist", "needs_review"} -> "persist"
       [] r \in {"revise", "patch"}         -> r
       [] r = "replan_chapter"              -> "reset_replan"
       [] r \in {"replan_batch", "fail"}    -> "end"

(* build_chapter_graph: the node after n when it left v.                   *)
Successor(n, v) ==
  CASE n = "load_state"   -> IF v.error THEN "end" ELSE "recall"
    [] n = "recall"       -> IF KeepsPlan(v) THEN "write" ELSE "plan_cast"
    [] n = "plan_cast"    -> "plan_chapter"
    [] n = "plan_chapter" -> "plan_gate"
    [] n = "plan_gate"    -> "write"
    [] n \in {"write", "revise", "patch"} -> "extract"
    [] n = "extract"      -> "validate"
    [] n = "validate"     -> "audit"
    [] n = "audit"        -> "route"
    [] n = "route"        -> AfterRoute(v)
    [] n = "reset_replan" -> "plan_cast"
    [] n = "persist"      -> "summarize"
    [] n = "summarize"    -> "end"
=============================================================================

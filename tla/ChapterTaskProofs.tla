------------------------- MODULE ChapterTaskProofs -------------------------
(***************************************************************************)
(* What holds of the task of a chapter for all cards, reports, verdicts    *)
(* and limits, and however often it is interrupted and resumed.            *)
(***************************************************************************)
EXTENDS ChapterTask, TLAPS

Statuses == {"new", "queued", "running", "paused", "cancelled", "failed", "done",
             "awaiting_plan", "awaiting_review"}
Outs      == {"done", "failed", "awaiting_plan", "awaiting_review"}
RowStates == {"absent", "planning", "writing", "awaiting_review", "confirmed", "failed", "cancelled"}
CardStates == {"none", "pending", "confirmed", "barred", "revise", "applied"}
OnGraph   == {"graph", "persisted", "asked", "ended"}
Finishing == {"resolve", "mark", "summary", "asked_last", "close"}

(* The counters of a round are any numbers: their limits are the question  *)
(* of ChapterWalk.                                                         *)
Values ==
  [error: BOOLEAN, manual: BOOLEAN, rewrite: BOOLEAN, asked: BOOLEAN, batched: {FALSE},
   plan: Nat, draft: Nat, cards: SUBSET Cards, report: AllReports,
   verdict: AllVerdicts \cup {NoVerdict}, review: BOOLEAN, batch: BOOLEAN,
   revisions: Nat, patches: Nat, replans: Nat, finalizing: BOOLEAN, version: Nat]

Messages == [type: {"generate", "plan", "resume"}, attempt: Nat, plan: Nat, op: Nat]

Threads   == [v: Values, next: Nodes \cup {"none", "end"}, asked: BOOLEAN]
Runs      == [at: {"idle", "settle"} \cup OnGraph \cup Finishing, msg: Messages, first: BOOLEAN,
              plan: Nat, answers: SUBSET Cards, v: Values, version: Nat, out: Outs]
Rows      == [status: RowStates, text: Nat, version: Nat]
Histories == [passed: SUBSET Nat, shown: SUBSET Nat, accepted: SUBSET Nat,
              refused: SUBSET Nat, approved: SUBSET Nat]

TypeInv ==
  /\ status \in Statuses /\ op \in Nat /\ queue \subseteq Messages
  /\ thread \in Threads /\ run \in Runs /\ row \in Rows
  /\ summary \in [of: Nat, model: BOOLEAN]
  /\ card \in [Cards -> CardStates]
  /\ receipts \subseteq Values
  /\ pages \in Seq([attempt: Nat, plan: Nat])
  /\ seen \in Histories

(* Where the thread stands while the run is at a step, and what the task   *)
(* says meanwhile.                                                         *)
PlaceInv ==
  /\ run.at = "graph" => thread.next \in Nodes
  /\ run.at = "persisted" => thread.next = "persist" /\ thread.v \in receipts
  /\ run.at = "asked" => thread.next = "summarize" /\ row.status = "confirmed"
  /\ run.at = "asked_last" => row.status = "confirmed"
  /\ run.at = "ended" => thread.next = "end" \/ thread.asked
  /\ run.at \in Finishing \ {"mark"} => thread.next = "end"
  /\ run.at = "mark" => thread.next = "end" \/ thread.asked
  /\ thread.asked => thread.next = "plan_gate" /\ thread.v.manual /\ ~thread.v.error
  /\ thread.next = "none" <=> status = "new"
  /\ status = "new" => op = 0 /\ queue = {Generate} /\ row.status \in {"absent", "confirmed"}
  /\ run.at # "idle" => status \in {"running", "paused", "cancelled"}

Planning == {"recall", "plan_cast", "plan_chapter", "plan_gate", "write"}
Reading  == {"extract", "validate", "audit", "route", "patch", "reset_replan"}

(* A text that nobody but the thread has.                                  *)
Unseen(t) == t # 0 /\ t # row.text /\ t \notin seen.shown \cup seen.refused

(* What the checkpoint before a node says of text, row and receipts.       *)
TextInv ==
  LET v == thread.v
      n == thread.next
  IN /\ n \in Planning \cup {"none"} => v.draft = 0
     /\ n = "load_state" => v.error \/ v.draft = 0
     /\ n \in Reading /\ ~v.error => Unseen(v.draft) /\ receipts = {}
     /\ n \in {"patch", "reset_replan", "revise", "persist", "summarize"} => ~v.error
     /\ n = "route" /\ ~v.error => v.verdict.kind # "none"
     /\ n = "route" /\ RouteAfterAudit(v) = "persist" /\ v.cards = {} => v.draft \in seen.passed
     /\ v.review => n \in {"persist", "summarize", "end"} /\ ~v.error

PersistInv ==
  LET v == thread.v
  IN thread.next = "persist" =>
       /\ v.draft # 0 /\ v.verdict.kind # "none"
       /\ receipts \subseteq {v}
       /\ v \notin receipts => Unseen(v.draft)
       /\ v \in receipts => IF Blocked(v) THEN UnderReview /\ row.text = v.draft
                            ELSE row.status = "confirmed"
       /\ ~Blocked(v) => v.draft \in seen.passed

SummarizeInv ==
  LET v == thread.v
  IN thread.next = "summarize" =>
       /\ v.draft # 0
       /\ \A r \in receipts : r.verdict.kind # "none"
       /\ IF v.review THEN UnderReview /\ row.text = v.draft ELSE row.status = "confirmed"

EndInv ==
  LET v == thread.v
  IN /\ thread.next = "end" /\ v.review =>
          /\ v.draft # 0
          /\ IF Masked(v) \in receipts THEN row.status = "confirmed"
             ELSE UnderReview /\ row.text = v.draft
     /\ run.at = "resolve" => /\ run.v = v /\ v.draft # 0 /\ (UnderReview \/ v.review)
                              /\ ~v.finalizing
     /\ run.at = "mark" => ~run.v.review
     /\ row.status \in {"confirmed", "awaiting_review"} => row.text # 0

CourseInv == TypeInv /\ PlaceInv /\ TextInv /\ PersistInv /\ SummarizeInv /\ EndInv

---------------------------------------------------------------------------
(* Whatever waits for the worker, or is with it, was sent when the task    *)
(* had been resumed as often as it says; a review is taken up only by a    *)
(* task that was resumed.                                                  *)
Sent(m) == (m.type = "generate" => m.op = 0) /\ (m.type = "resume" => op > 0)

OpInv == /\ \A m \in queue \cup {run.msg} : Sent(m)
         /\ run.at \in Finishing \/ run.answers # {} \/ thread.v.finalizing => op > 0

(* A manual task that writes anew asked for no new plan.                   *)
Clear == thread.v.manual => ~thread.v.asked

PlanInv == /\ "replan" \notin Hazards => Clear
           /\ KeepsPlan(thread.v) =>
                thread.next \notin {"plan_cast", "plan_chapter", "plan_gate", "reset_replan"}

(* The rejections that a revision answers.                                 *)
AnswerInv == /\ run.answers # {} => thread.v.rewrite
             /\ run.at \in {"idle", "resolve"} => run.answers = {}
             /\ run.at \in OnGraph => run.answers \subseteq Rejected
             /\ run.answers \subseteq CardsThat({"revise", "applied"})

(* A run that finishes a review has the thread's values in hand, and the   *)
(* chapter is written once the text is accepted.                           *)
Agree(w, v) == /\ w.manual = v.manual /\ w.rewrite = v.rewrite /\ w.asked = v.asked
               /\ w.draft = v.draft /\ w.error = v.error /\ w.plan = v.plan
               /\ w.replans = v.replans

Written == row.status = "confirmed" /\ thread.v.draft # 0

FinishInv ==
  run.at \in Finishing =>
    /\ Agree(run.v, thread.v)
    /\ run.at # "resolve" => ~run.v.review /\ (Clear /\ ~thread.v.error => Written)

EndsWell ==
  /\ thread.v.finalizing => thread.next = "end" /\ ~thread.v.review
  /\ Clear /\ thread.next = "end" /\ ~thread.v.error /\ ~thread.v.review => Written

(* The text under review is the one the thread holds, or it was refused.   *)
Standing == /\ row.text = thread.v.draft /\ ~thread.v.error
            /\ \/ thread.next \in {"summarize", "end"}
               \/ thread.next = "persist" /\ thread.v \in receipts

RefusalInv ==
  LET v == thread.v
  IN /\ Clear /\ UnderReview => Standing \/ (Rejected # {} /\ op > 0 /\ v.rewrite)
     /\ CardsThat({"pending"}) # {} => UnderReview /\ Standing
     /\ v.draft \in seen.refused => Rejected # {}
     /\ v.draft \in seen.refused /\ ~v.error /\ thread.next # "revise" =>
          \E c \in Rejected : c \notin run.answers
     /\ row.status = "confirmed" => row.text \notin seen.refused
     /\ 0 \notin seen.refused

AskInv ==
  Clear /\ (status = "awaiting_plan" \/ (run.at = "settle" /\ run.out = "awaiting_plan"))
    => ~UnderReview

ReviewInv == OpInv /\ PlanInv /\ AnswerInv /\ FinishInv /\ EndsWell /\ RefusalInv /\ AskInv

---------------------------------------------------------------------------
ComesOut == /\ thread.next = "end" /\ thread.v.review /\ status = "running"
            /\ \/ run.at = "ended"
               \/ run.at = "settle" /\ run.out = "awaiting_review"

ShownInv ==
  /\ UnderReview => \/ row.text \in seen.shown
                    \/ thread.next = "persist" /\ thread.v \in receipts
                    \/ thread.next = "summarize"
                    \/ ComesOut
  /\ UnderReview /\ status \in {"queued", "running"} /\ row.text \in seen.shown
       => row.text \in seen.accepted
  /\ ConfirmedKnowingly

---------------------------------------------------------------------------
(* Manual mode, whatever befalls the task.  The plans the author may look  *)
(* at are numbered by their pages; what a message or a run brings to the   *)
(* gate, the author has approved.                                          *)
PageInv == /\ \A j \in DOMAIN pages : pages[j].plan \in 1..Len(pages)
           /\ \A p \in seen.approved : p <= Len(pages)
           /\ thread.v.manual => thread.v.plan <= Len(pages)

BroughtInv == /\ \A m \in queue \cup {run.msg} : m.type = "plan" => m.plan \in seen.approved
              /\ run.plan # 0 => run.plan \in seen.approved

(* A chapter that was planned keeps its plan once a refused text of it is  *)
(* revised; its graph never starts again, for the chapter stays under      *)
(* review until the revision has succeeded.                                *)
ReopenedInv ==
  LET v == thread.v
      n == thread.next
  IN /\ n = "end" /\ v.review /\ ~UnderReview => Rejected = {}
     /\ v.manual /\ KeepsPlan(v) /\ pages # <<>> =>
          /\ op > 0 /\ n \notin {"none", "load_state", "recall", "write"}
          /\ UnderReview \/ (~v.error /\ n \in {"persist", "summarize", "end"})

(* A text is there, or about to be written, once its plan is approved.     *)
Writes == \/ thread.v.draft # 0
          \/ thread.next = "write" /\ ~thread.v.error
          \/ thread.next = "revise"

TextApproved == thread.v.manual /\ pages # <<>> /\ Writes => thread.v.plan \in seen.approved

ApprovalInv == PageInv /\ BroughtInv /\ ReopenedInv /\ TextApproved

---------------------------------------------------------------------------
(* A manual task that nothing disturbs.  Whatever waits for the worker is  *)
(* what its status calls for, and there is one message at most.            *)
Says(out) == status = out \/ (run.at = "settle" /\ run.out = out)

InReview == thread.next = "end" /\ (UnderReview \/ thread.v.review)

Expected(m) == \/ m.type = "generate" /\ status = "new"
               \/ m.type = "resume" /\ status = "queued" /\ InReview
               \/ m.type = "plan" /\ status = "queued" /\ thread.asked

ManualInv ==
  thread.v.manual =>
    /\ status \notin {"paused", "cancelled"}
    /\ \A m, k \in queue : m = k
    /\ \A m \in queue : Expected(m)
    /\ run.at \in OnGraph /\ ~run.first => thread.v.rewrite
    /\ Says("awaiting_review") => InReview
    /\ Says("awaiting_plan") => thread.asked

(* What is done is written.                                                *)
DoneInv == Says("done") => Written

UndisturbedInv == ManualInv /\ DoneInv

---------------------------------------------------------------------------
(* The nodes, one by one.                                                  *)

(* What no node changes, and what all keep.                                *)
Kept(v, w) == /\ w \in Values
              /\ w.manual = v.manual /\ w.rewrite = v.rewrite /\ w.asked = v.asked
              /\ w.finalizing = v.finalizing

Plain(v, w) == /\ Kept(v, w) /\ (v.error => w.error) /\ w.review = v.review
               /\ w.plan = v.plan /\ w.replans = v.replans

LEMMA KnownValues ==
  /\ NoReport \in AllReports
  /\ NoVerdict \in AllVerdicts \cup {NoVerdict}
  /\ Reports \subseteq AllReports
  /\ Verdicts \subseteq AllVerdicts
BY GraphAssumption DEF NoReport, AllReports, Scopes

LEMMA FailedKept ==
  ASSUME NEW v \in Values
  PROVE  Plain(v, Failed(v)) /\ Failed(v).error /\ Failed(v).draft = v.draft
BY DEF Plain, Kept, Failed, Values

LEMMA LoadFacts ==
  ASSUME NEW v \in Values, NEW w \in LoadState(v), ~v.review
  PROVE  /\ Kept(v, w) /\ ~w.review
         /\ w.draft = 0 \/ (w.error /\ w.draft = v.draft)
         /\ ~KeepsPlan(v) => ~w.error /\ w.replans = 0
         /\ w.plan \in {0, v.plan}
<1>1. \/ w = [v EXCEPT !.error = TRUE, !.plan = 0] /\ KeepsPlan(v)
      \/ \E p \in {0, v.plan} :
           w = [v EXCEPT !.error = FALSE, !.review = FALSE, !.batch = FALSE,
                         !.draft = 0, !.cards = {}, !.report = NoReport,
                         !.verdict = NoVerdict, !.revisions = 0, !.patches = 0,
                         !.replans = 0, !.plan = p]
  BY DEF LoadState, Values
<1>2. CASE w = [v EXCEPT !.error = TRUE, !.plan = 0] /\ KeepsPlan(v)
  BY <1>2 DEF Kept, Values
<1>3. ASSUME NEW p \in {0, v.plan},
             w = [v EXCEPT !.error = FALSE, !.review = FALSE, !.batch = FALSE,
                           !.draft = 0, !.cards = {}, !.report = NoReport,
                           !.verdict = NoVerdict, !.revisions = 0, !.patches = 0,
                           !.replans = 0, !.plan = p]
      PROVE  /\ Kept(v, w) /\ ~w.review /\ ~w.error /\ w.draft = 0 /\ w.replans = 0
             /\ w.plan \in {0, v.plan}
  <2>1. p \in Nat
    BY DEF Values
  <2>. QED BY <1>3, <2>1, KnownValues DEF Kept, Values
<1>. QED BY <1>1, <1>2, <1>3

LEMMA CastFacts ==
  ASSUME NEW v \in Values, NEW w \in PlanCast(v)
  PROVE  Plain(v, w) /\ w.draft = v.draft
BY FailedKept DEF PlanCast, Answer, Plain, Kept

LEMMA PlanFacts ==
  ASSUME NEW v \in Values, NEW p \in Nat, NEW w \in PlanChapter(v, p)
  PROVE  /\ Kept(v, w) /\ (v.error => w.error) /\ w.review = v.review /\ w.replans = v.replans
         /\ w.draft = v.draft
         /\ w.plan = p \/ (w.error /\ w.plan = v.plan)
<1>1. CASE w = Failed(v)
  BY <1>1, FailedKept DEF Plain
<1>2. CASE w = [v EXCEPT !.plan = p]
  BY <1>2 DEF Kept, Values
<1>. QED BY <1>1, <1>2 DEF PlanChapter

LEMMA WriteFacts ==
  ASSUME NEW v \in Values, NEW t \in Nat, NEW w \in Write(v, t)
  PROVE  Plain(v, w) /\ ((w.draft = t /\ ~v.error) \/ (w.error /\ w.draft = v.draft))
<1>1. (w = v /\ v.error) \/ w = Failed(v) \/ (w = [v EXCEPT !.draft = t] /\ ~v.error)
  BY DEF Write, Answer
<1>2. CASE w = [v EXCEPT !.draft = t] /\ ~v.error
  BY <1>2 DEF Plain, Kept, Values
<1>3. CASE (w = v /\ v.error) \/ w = Failed(v)
  BY <1>3, FailedKept DEF Plain, Kept
<1>. QED BY <1>1, <1>2, <1>3

LEMMA ExtractFacts ==
  ASSUME NEW v \in Values, NEW known, NEW w \in Extract(v, known)
  PROVE  Plain(v, w) /\ w.draft = v.draft
<1>1. \/ w = v \/ w = Failed(v)
      \/ \E found \in SUBSET Cards : w = [v EXCEPT !.cards = found \ known]
  BY DEF Extract, Answer
<1>2. ASSUME NEW found \in SUBSET Cards, w = [v EXCEPT !.cards = found \ known]
      PROVE  Plain(v, w) /\ w.draft = v.draft
  <2>1. found \ known \in SUBSET Cards
    OBVIOUS
  <2> QED
    BY <1>2, <2>1 DEF Plain, Kept, Values
<1>. QED BY <1>1, <1>2, FailedKept DEF Plain, Kept

LEMMA ValidateFacts ==
  ASSUME NEW v \in Values, NEW refused, NEW w \in Validate(v, refused)
  PROVE  Plain(v, w) /\ w.draft = v.draft
<1>1. \E r \in AllReports : w = [v EXCEPT !.report = r]
  <2> DEFINE noted(r) == IF v.cards \cap refused = {} THEN r
                         ELSE [hard |-> TRUE,
                               scope |-> IF r.scope = "wide" THEN "wide" ELSE "local"]
  <2>1. ASSUME NEW r \in AllReports
        PROVE  noted(r) \in AllReports
    BY <2>1 DEF AllReports, Scopes
  <2>2. CASE v.error
    BY <2>2, KnownValues DEF Validate
  <2>3. CASE ~v.error
    <3>1. PICK r \in Reports : w = [v EXCEPT !.report = noted(r)]
      BY <2>3 DEF Validate
    <3> QED
      BY <3>1, <2>1, KnownValues
  <2> QED
    BY <2>2, <2>3
<1>. QED BY <1>1 DEF Plain, Kept, Values

LEMMA AuditFacts ==
  ASSUME NEW v \in Values, NEW w \in Audit(v)
  PROVE  Plain(v, w) /\ w.draft = v.draft /\ (~w.error => w.verdict.kind # "none")
<1>1. \/ (w = v /\ v.error) \/ w = Failed(v)
      \/ \E d \in Verdicts : w = [v EXCEPT !.verdict = d,
                                         !.batch = d.kind = "replan" /\ d.target = "batch"]
  BY DEF Audit, Answer
<1>2. ASSUME NEW d \in Verdicts, NEW b \in BOOLEAN, w = [v EXCEPT !.verdict = d, !.batch = b]
      PROVE  Plain(v, w) /\ w.draft = v.draft /\ w.verdict.kind # "none"
  <2>1. d \in AllVerdicts /\ d.kind # "none"
    BY KnownValues DEF AllVerdicts
  <2> QED
    BY <1>2, <2>1 DEF Plain, Kept, Values
<1>. QED BY <1>1, <1>2, FailedKept DEF Plain, Kept

LEMMA SpentFacts ==
  ASSUME NEW v \in Values
  PROVE  Plain(v, Spent(v)) /\ Spent(v).error = v.error /\ Spent(v).draft = v.draft
BY KnownValues DEF Spent, Plain, Kept, Values

LEMMA ReviseFacts ==
  ASSUME NEW v \in Values, NEW t \in Nat, NEW w \in Revise(v, t)
  PROVE  Plain(v, w) /\ (w.draft = t \/ (w.error /\ w.draft = v.draft))
<1>0. Spent(v) \in Values /\ v.revisions + 1 \in Nat
  <2>1. v.revisions \in Nat
    BY DEF Values
  <2>. QED BY <2>1, SpentFacts DEF Plain, Kept
<1>1. CASE w = Failed(Spent(v))
  BY <1>0, <1>1, SpentFacts, FailedKept DEF Plain, Kept
<1>2. CASE w = [Spent(v) EXCEPT !.draft = t, !.revisions = v.revisions + 1]
  <2>1. Plain(Spent(v), w) /\ w.draft = t
    BY <1>0, <1>2 DEF Plain, Kept, Values
  <2>. QED BY <2>1, SpentFacts DEF Plain, Kept
<1>. QED BY <1>1, <1>2 DEF Revise

LEMMA PatchFacts ==
  ASSUME NEW v \in Values, NEW t \in Nat, NEW w \in Patch(v, t)
  PROVE  Plain(v, w) /\ w.draft \in {t, v.draft}
<1>0. Spent(v) \in Values /\ v.patches + 1 \in Nat
  <2>1. v.patches \in Nat
    BY DEF Values
  <2>. QED BY <2>1, SpentFacts DEF Plain, Kept
<1>1. CASE w \in {Failed(v), Spent(v), Failed(Spent(v))}
  BY <1>0, <1>1, SpentFacts, FailedKept DEF Plain, Kept
<1>2. CASE \E u \in {t, v.draft} : w = [Spent(v) EXCEPT !.draft = u, !.patches = v.patches + 1]
  <2>1. PICK u \in {t, v.draft} : w = [Spent(v) EXCEPT !.draft = u, !.patches = v.patches + 1]
    BY <1>2
  <2>2. u \in Nat
    BY DEF Values
  <2>3. Plain(Spent(v), w) /\ w.draft = u
    BY <1>0, <2>1, <2>2 DEF Plain, Kept, Values
  <2>. QED BY <2>3, SpentFacts DEF Plain, Kept
<1>. QED BY <1>1, <1>2 DEF Patch, Answer

LEMMA RouteFacts ==
  ASSUME NEW v \in Values
  PROVE  /\ Kept(v, Route(v)) /\ Route(v).error = v.error /\ Route(v).draft = v.draft
         /\ Route(v).plan = v.plan /\ Route(v).replans = v.replans
         /\ Route(v).verdict = v.verdict /\ Route(v).cards = v.cards /\ Route(v).report = v.report
         /\ Route(v).review = (RouteAfterAudit(v) = "needs_review")
         /\ Route(v).revisions = v.revisions /\ Route(v).patches = v.patches
<1>1. (RouteAfterAudit(v) = "needs_review") \in BOOLEAN /\ (RouteAfterAudit(v) = "replan_batch") \in BOOLEAN
  OBVIOUS
<1>. HIDE DEF RouteAfterAudit
<1>. QED BY <1>1 DEF Kept, Route, Values

LEMMA ResetFacts ==
  ASSUME NEW v \in Values
  PROVE  LET w == ResetReplan(v)
         IN /\ Kept(v, w) /\ w.error = v.error /\ w.review = v.review /\ w.draft = 0
            /\ w.plan = v.plan /\ w.replans = v.replans + 1
<1>1. v.replans \in Nat /\ v.replans + 1 \in Nat
  BY DEF Values
<1>. QED BY <1>1, KnownValues DEF ResetReplan, Kept, Values

---------------------------------------------------------------------------
(* A text that is written anew has a number nobody holds.                  *)

LEMMA FreshIsNew ==
  ASSUME TypeInv
  PROVE  FreshText \in 1..5 /\ FreshText \notin Held
<1>1. PICK a, b, c, d \in Nat : Held = {a, b, c, d}
  <2>1. thread.v.draft \in Nat /\ row.text \in Nat /\ run.v.draft \in Nat /\ summary.of \in Nat
    BY DEF TypeInv, Values, Threads, Runs, Rows, Histories
  <2>. QED BY <2>1 DEF Held
<1>2. \E t \in 1..5 : t \notin Held /\ \A s \in 1..(t - 1) : s \in Held
  <2>1. CASE 1 \notin Held
    BY <2>1
  <2>2. CASE 1 \in Held /\ 2 \notin Held
    BY <2>2
  <2>3. CASE 1 \in Held /\ 2 \in Held /\ 3 \notin Held
    <3>1. \A s \in 1..(3 - 1) : s = 1 \/ s = 2
      OBVIOUS
    <3>. QED BY <2>3, <3>1
  <2>4. CASE 1 \in Held /\ 2 \in Held /\ 3 \in Held /\ 4 \notin Held
    <3>1. \A s \in 1..(4 - 1) : s = 1 \/ s = 2 \/ s = 3
      OBVIOUS
    <3>. QED BY <2>4, <3>1
  <2>5. CASE 1 \in Held /\ 2 \in Held /\ 3 \in Held /\ 4 \in Held
    <3>1. 5 \notin Held
      BY <1>1, <2>5
    <3>2. \A s \in 1..(5 - 1) : s = 1 \/ s = 2 \/ s = 3 \/ s = 4
      OBVIOUS
    <3>. QED BY <2>5, <3>1, <3>2
  <2>. QED BY <2>1, <2>2, <2>3, <2>4, <2>5
<1>. QED BY <1>2 DEF FreshText

Computing == Nodes \ {"plan_gate", "persist", "summarize"}

(* A step of the graph leaves w behind.                                    *)
Leaves(n, w) ==
  /\ thread' = Left(n, w)
  /\ run' = [run EXCEPT !.at = IF Successor(n, w) = "end" THEN "ended" ELSE "graph"]
  /\ UNCHANGED <<status, op, queue, row, summary, card, upsets>>
  /\ \/ /\ w.draft = FreshText /\ receipts' = {} /\ seen' = HeldOf(seen)
     \/ /\ w.draft # FreshText /\ receipts' = receipts
        /\ \/ seen' = seen
           \/ seen' = [seen EXCEPT !.passed = @ \cup {w.draft}]
        /\ n = "audit" /\ RouteAfterAudit(w) = "persist" /\ w.cards = {} => w.draft \in seen'.passed

ResultOf(n, w) == \E known, refused : w \in Results(n, thread.v, FreshPlan, FreshText, known, refused)

LEMMA Computed ==
  ASSUME TypeInv, NEW n \in Computing, Compute(n)
  PROVE  \E w : /\ ResultOf(n, w) /\ Leaves(n, w)
                /\ pages' = IF w.plan = FreshPlan /\ w.manual
                            THEN Append(pages, [attempt |-> w.replans + 1, plan |-> FreshPlan])
                            ELSE pages
<1>1. PICK w \in Results(n, thread.v, FreshPlan, FreshText, CardsThat({"confirmed", "barred"}),
                         CardsThat({"revise", "applied"})) :
       /\ thread' = Left(n, w)
       /\ run' = [run EXCEPT !.at = IF Successor(n, w) = "end" THEN "ended" ELSE "graph"]
       /\ receipts' = IF w.draft = FreshText THEN {} ELSE receipts
       /\ pages' = IF w.plan = FreshPlan /\ w.manual
                   THEN Append(pages, [attempt |-> w.replans + 1, plan |-> FreshPlan])
                   ELSE pages
       /\ seen' = IF n = "audit" /\ RouteAfterAudit(w) = "persist" /\ w.cards = {}
                  THEN [seen EXCEPT !.passed = @ \cup {w.draft}]
                  ELSE IF w.draft = FreshText THEN HeldOf(seen) ELSE seen
  BY DEF Compute
<1>2. UNCHANGED <<status, op, queue, row, summary, card, upsets>>
  BY DEF Compute
<1>3. ResultOf(n, w)
  BY DEF ResultOf
<1>4. n = "audit" => w.draft # FreshText
  <2>1. n = "audit" => w.draft = thread.v.draft
    <3>1. n = "audit" => w \in Audit(thread.v)
      BY DEF Results
    <3>2. thread.v \in Values
      BY DEF TypeInv, Threads, Runs, Rows, Histories
    <3>. QED BY <3>1, <3>2, AuditFacts
  <2>2. thread.v.draft \in Held
    BY DEF Held
  <2>. QED BY <2>1, <2>2, FreshIsNew
<1>5. [seen EXCEPT !.passed = @ \cup {w.draft}].passed = seen.passed \cup {w.draft}
  BY DEF TypeInv, Threads, Runs, Rows, Histories
<1>6. Leaves(n, w)
  BY <1>1, <1>2, <1>4, <1>5 DEF Leaves
<1>. QED BY <1>1, <1>3, <1>6

(* What a node leaves of what it found, by node.                           *)
NodeLeaves(n, v, w) ==
  /\ Kept(v, w)
  /\ n # "load_state" /\ v.error => w.error
  /\ n # "route" => ~w.review
  /\ n = "load_state" => /\ w.draft = 0 \/ (w.error /\ w.draft = v.draft)
                         /\ ~KeepsPlan(v) => ~w.error /\ w.replans = 0
                         /\ w.plan \in {0, v.plan}
  /\ n = "recall" => w = v
  /\ n \in {"recall", "plan_cast", "plan_chapter", "extract", "validate", "audit", "route"}
       => w.draft = v.draft
  /\ n \in {"write", "revise"} => w.draft = FreshText \/ (w.error /\ w.draft = v.draft)
  /\ n = "write" /\ v.error => w.draft = v.draft
  /\ n = "patch" => w.draft \in {FreshText, v.draft}
  /\ n = "reset_replan" => w.draft = 0 /\ ~w.error /\ w.replans = v.replans + 1
  /\ n = "audit" /\ ~w.error => w.verdict.kind # "none"
  /\ n = "route" => w = Route(v)
  /\ n = "plan_chapter" => w.plan = FreshPlan \/ (w.error /\ w.plan = v.plan)
  /\ n \notin {"load_state", "plan_chapter"} => w.plan = v.plan
  /\ n \notin {"load_state", "reset_replan"} => w.replans = v.replans

LEMMA NodeFacts ==
  ASSUME TypeInv, TextInv, NEW n \in Computing, thread.next = n, NEW w, ResultOf(n, w)
  PROVE  NodeLeaves(n, thread.v, w)
<1>. DEFINE v == thread.v
<1>1. v \in Values /\ FreshText \in Nat /\ FreshPlan \in Nat
  <2>1. Len(pages) \in Nat
    BY DEF TypeInv, Threads, Runs, Rows, Histories
  <2>. QED BY <2>1, FreshIsNew DEF TypeInv, FreshPlan, Threads, Runs, Rows, Histories
<1>2. /\ ~v.review
      /\ n = "reset_replan" => ~v.error
  BY DEF TextInv, Computing, Nodes
<1>3. PICK known, refused : w \in Results(n, v, FreshPlan, FreshText, known, refused)
  BY DEF ResultOf
<1>. SUFFICES NodeLeaves(n, v, w)
  OBVIOUS
<1>. HIDE DEF v
<1>4. CASE n = "load_state"
  BY <1>1, <1>2, <1>3, <1>4, LoadFacts DEF NodeLeaves, Results
<1>5. CASE n = "recall"
  <2>1. w = v
    BY <1>3, <1>5 DEF Results
  <2>2. Kept(v, w)
    BY <1>1, <2>1 DEF Kept
  <2>. QED BY <1>2, <1>5, <2>1, <2>2 DEF NodeLeaves
<1>6. CASE n = "plan_cast"
  BY <1>1, <1>2, <1>3, <1>6, CastFacts DEF NodeLeaves, Results, Plain
<1>7. CASE n = "plan_chapter"
  BY <1>1, <1>2, <1>3, <1>7, PlanFacts DEF NodeLeaves, Results
<1>8. CASE n = "write"
  BY <1>1, <1>2, <1>3, <1>8, WriteFacts DEF NodeLeaves, Results, Plain
<1>9. CASE n = "extract"
  BY <1>1, <1>2, <1>3, <1>9, ExtractFacts DEF NodeLeaves, Results, Plain
<1>10. CASE n = "validate"
  BY <1>1, <1>2, <1>3, <1>10, ValidateFacts DEF NodeLeaves, Results, Plain
<1>11. CASE n = "audit"
  BY <1>1, <1>2, <1>3, <1>11, AuditFacts DEF NodeLeaves, Results, Plain
<1>12. CASE n = "route"
  <2>1. w = Route(v)
    BY <1>3, <1>12 DEF Results
  <2>. QED BY <1>1, <1>12, <2>1, RouteFacts DEF NodeLeaves
<1>13. CASE n = "revise"
  BY <1>1, <1>2, <1>3, <1>13, ReviseFacts DEF NodeLeaves, Results, Plain
<1>14. CASE n = "patch"
  BY <1>1, <1>2, <1>3, <1>14, PatchFacts DEF NodeLeaves, Results, Plain
<1>15. CASE n = "reset_replan"
  BY <1>1, <1>2, <1>3, <1>15, ResetFacts DEF NodeLeaves, Results
<1>. QED BY <1>4, <1>5, <1>6, <1>7, <1>8, <1>9, <1>10, <1>11, <1>12, <1>13, <1>14, <1>15
         DEF Computing, Nodes

(* Where the graph goes from a node.                                       *)
LEMMA Goes ==
  ASSUME NEW n \in Computing, NEW w \in Values
  PROVE  /\ n = "load_state" => Successor(n, w) = IF w.error THEN "end" ELSE "recall"
         /\ n = "recall" => Successor(n, w) = IF KeepsPlan(w) THEN "write" ELSE "plan_cast"
         /\ n \in {"plan_cast"} => Successor(n, w) = "plan_chapter"
         /\ n = "reset_replan" => Successor(n, w) = "plan_cast"
         /\ n = "plan_chapter" => Successor(n, w) = "plan_gate"
         /\ n \in {"write", "revise", "patch"} => Successor(n, w) = "extract"
         /\ n = "extract" => Successor(n, w) = "validate"
         /\ n = "validate" => Successor(n, w) = "audit"
         /\ n = "audit" => Successor(n, w) = "route"
         /\ n = "route" => Successor(n, w) = AfterRoute(w)
BY DEF Successor

(* Where the route leads.                                                  *)
LEMMA Routes ==
  ASSUME NEW v \in Values
  PROVE  /\ RouteAfterAudit(v) \in {"fail", "persist", "needs_review", "revise", "patch",
                                    "replan_chapter"}
         /\ v.error <=> RouteAfterAudit(v) = "fail"
         /\ RouteAfterAudit(v) = "replan_chapter" => ~KeepsPlan(v)
         /\ RouteAfterAudit(v) = "persist" => ~v.report.hard /\ v.verdict.kind = "pass"
<1>1. /\ v.error \in BOOLEAN /\ v.report.hard \in BOOLEAN /\ ~v.batched
      /\ v.verdict.kind \in {"pass", "rewrite", "replan", "none"}
      /\ v.verdict.scope \in Scopes
  <2>1. v.error \in BOOLEAN /\ v.batched = FALSE /\ v.report \in AllReports
        /\ v.verdict \in AllVerdicts \cup {NoVerdict}
    BY DEF Values
  <2>2. v.report.hard \in BOOLEAN
    <3>1. PICK s \in Scopes, h \in BOOLEAN : v.report = [hard |-> h, scope |-> s]
      BY <2>1 DEF AllReports, Scopes
    <3>. QED BY <3>1
  <2>3. v.verdict.kind \in {"pass", "rewrite", "replan", "none"} /\ v.verdict.scope \in Scopes
    BY <2>1 DEF AllVerdicts, NoVerdict, Scopes
  <2>. QED BY <2>1, <2>2, <2>3
<1>2. Repair(v) \in {"patch", "needs_review", "revise"}
  BY DEF Repair
<1>. HIDE DEF Repair
<1>3. CASE v.error
  BY <1>3 DEF RouteAfterAudit
<1>4. CASE ~v.error /\ v.report.hard
  BY <1>2, <1>4 DEF RouteAfterAudit
<1>5. CASE ~v.error /\ ~v.report.hard /\ (v.verdict.kind = "rewrite" \/ (v.verdict.kind = "pass" /\ v.verdict.scope # "none"))
  BY <1>2, <1>5 DEF RouteAfterAudit
<1>6. CASE ~v.error /\ ~v.report.hard /\ v.verdict.kind = "replan"
  BY <1>1, <1>6 DEF RouteAfterAudit
<1>7. CASE ~v.error /\ ~v.report.hard /\ v.verdict.kind = "pass" /\ v.verdict.scope = "none"
  BY <1>7 DEF RouteAfterAudit
<1>8. CASE ~v.error /\ ~v.report.hard /\ v.verdict.kind = "none"
  BY <1>8 DEF RouteAfterAudit
<1>. QED BY <1>1, <1>3, <1>4, <1>5, <1>6, <1>7, <1>8

(* The flags a route sets are not among what it looks at.                  *)
LEMMA RouteStays ==
  ASSUME NEW v \in Values
  PROVE  RouteAfterAudit(Route(v)) = RouteAfterAudit(v)
<1>. DEFINE w == Route(v)
<1>1. /\ w.error = v.error /\ w.report = v.report /\ w.verdict = v.verdict
      /\ w.revisions = v.revisions /\ w.patches = v.patches /\ w.replans = v.replans
      /\ w.rewrite = v.rewrite /\ w.asked = v.asked /\ ~w.batched /\ ~v.batched
  BY RouteFacts DEF Kept, Values
<1>. HIDE DEF w
<1>2. Repair(w) = Repair(v) /\ KeepsPlan(w) = KeepsPlan(v) /\ ReplansLeft(w) = ReplansLeft(v)
  BY <1>1 DEF Repair, Patchable, PatchesLeft, RevisionsLeft, KeepsPlan, ReplansLeft
<1>3. RouteAfterAudit(w) = RouteAfterAudit(v)
  BY <1>1, <1>2 DEF RouteAfterAudit
<1>. QED BY <1>3 DEF w

---------------------------------------------------------------------------
(* Types.                                                                  *)

LEMMA HeldTypes ==
  ASSUME TypeInv
  PROVE  /\ HeldOf(seen) \in Histories
         /\ HeldOf(seen).passed = seen.passed \cap Held
         /\ HeldOf(seen).shown = seen.shown \cap Held
         /\ HeldOf(seen).accepted = seen.accepted \cap Held
         /\ HeldOf(seen).refused = seen.refused \cap Held
         /\ HeldOf(seen).approved = seen.approved
BY DEF TypeInv, HeldOf, Threads, Runs, Rows, Histories

LEMMA ComputeTypes ==
  ASSUME TypeInv, TextInv, NEW n \in Computing, Compute(n)
  PROVE  TypeInv'
<1>1. PICK w : /\ ResultOf(n, w) /\ Leaves(n, w)
               /\ pages' = IF w.plan = FreshPlan /\ w.manual
                           THEN Append(pages, [attempt |-> w.replans + 1, plan |-> FreshPlan])
                           ELSE pages
  BY Computed
<1>2. thread.next = n
  BY DEF Compute, AtNode
<1>3. w \in Values
  BY <1>1, <1>2, NodeFacts DEF NodeLeaves, Kept
<1>4. Successor(n, w) \in Nodes \cup {"none", "end"}
  <2>1. AfterRoute(w) \in Nodes \cup {"end"}
    BY <1>3, Routes DEF AfterRoute, Nodes
  <2>. QED BY <1>3, <2>1, Goes DEF Computing, Nodes
<1>5. thread' \in Threads
  BY <1>1, <1>3, <1>4 DEF Leaves, Left, Threads
<1>6. run' \in Runs
  <2>1. \E a \in {"ended", "graph"} : run' = [run EXCEPT !.at = a]
    BY <1>1 DEF Leaves
  <2>. QED BY <2>1 DEF TypeInv, OnGraph, Threads, Runs, Rows, Histories
<1>7. receipts' \subseteq Values
  BY <1>1 DEF Leaves, TypeInv, Threads, Runs, Rows, Histories
<1>8. pages' \in Seq([attempt: Nat, plan: Nat])
  <2>1. pages \in Seq([attempt: Nat, plan: Nat])
    BY DEF TypeInv, Threads, Runs, Rows, Histories
  <2>2. Len(pages) \in Nat
    BY <2>1
  <2>3. w.replans \in Nat
    BY <1>3 DEF Values
  <2>6. w.replans + 1 \in Nat /\ FreshPlan \in Nat
    BY <2>2, <2>3 DEF FreshPlan
  <2>4. PICK e \in [attempt: Nat, plan: Nat] : e = [attempt |-> w.replans + 1, plan |-> FreshPlan]
    BY <2>6
  <2>5. Append(pages, e) \in Seq([attempt: Nat, plan: Nat])
    BY <2>1
  <2>. QED BY <1>1, <2>1, <2>4, <2>5
<1>9. seen' \in Histories
  <2>1. w.draft \in Nat
    BY <1>3 DEF Values
  <2>2. CASE seen' = [seen EXCEPT !.passed = @ \cup {w.draft}]
    BY <2>1, <2>2 DEF TypeInv, Threads, Runs, Rows, Histories
  <2>3. CASE seen' = seen \/ seen' = HeldOf(seen)
    BY <2>3, HeldTypes DEF TypeInv, Threads, Runs, Rows, Histories
  <2>. QED BY <1>1, <2>2, <2>3 DEF Leaves
<1>. QED BY <1>1, <1>5, <1>6, <1>7, <1>8, <1>9 DEF Leaves, TypeInv, Threads, Runs, Rows, Histories

(* What a step of the graph does to what is known of texts: either there   *)
(* is a new one, which nobody has seen, or there is none.                  *)
LEMMA Known ==
  ASSUME TypeInv, NEW n, NEW w, Leaves(n, w)
  PROVE  /\ row' = row
         /\ \/ /\ w.draft = FreshText /\ receipts' = {} /\ Unseen(w.draft)'
               /\ w.draft \notin seen'.accepted
               /\ thread.v.draft # w.draft
               /\ \A X \in {"shown", "accepted", "refused", "passed"} :
                     row.text \in seen[X] <=> row.text \in seen'[X]
            \/ /\ w.draft # FreshText /\ receipts' = receipts
               /\ seen'.shown = seen.shown /\ seen'.refused = seen.refused
               /\ seen'.accepted = seen.accepted /\ seen.passed \subseteq seen'.passed
         /\ seen'.approved = seen.approved
<1>1. FreshText \in 1..5 /\ FreshText \notin Held /\ row.text \in Held /\ thread.v.draft \in Held
  BY FreshIsNew DEF Held
<1>2. row' = row
  BY DEF Leaves
<1>3. CASE w.draft = FreshText /\ receipts' = {} /\ seen' = HeldOf(seen)
  BY <1>1, <1>2, <1>3, HeldTypes DEF Unseen
<1>4. CASE /\ w.draft # FreshText /\ receipts' = receipts
           /\ seen' = seen \/ seen' = [seen EXCEPT !.passed = @ \cup {w.draft}]
  BY <1>2, <1>4 DEF TypeInv, Threads, Runs, Rows, Histories
<1>. QED BY <1>3, <1>4 DEF Leaves

(* All that is known of a step of the graph.                               *)
Moves(n, w) ==
  /\ w \in Values /\ NodeLeaves(n, thread.v, w) /\ Leaves(n, w)
  /\ pages' = IF w.plan = FreshPlan /\ w.manual
              THEN Append(pages, [attempt |-> w.replans + 1, plan |-> FreshPlan])
              ELSE pages
  /\ thread.next = n /\ run.at = "graph" /\ ~Fenced
  /\ thread'.v = w /\ thread'.next = Successor(n, w) /\ ~thread'.asked
  /\ Successor(n, w) \in (Nodes \ {"load_state", "recall", "summarize"}) \cup (IF n = "load_state" THEN {"recall"} ELSE {}) \cup {"end"}
  /\ run'.at = IF Successor(n, w) = "end" THEN "ended" ELSE "graph"
  /\ \E a \in {"ended", "graph"} : run' = [run EXCEPT !.at = a]

LEMMA ComputeMoves ==
  ASSUME TypeInv, TextInv, NEW n \in Computing, Compute(n)
  PROVE  \E w : Moves(n, w)
<1>1. PICK w : /\ ResultOf(n, w) /\ Leaves(n, w)
               /\ pages' = IF w.plan = FreshPlan /\ w.manual
                           THEN Append(pages, [attempt |-> w.replans + 1, plan |-> FreshPlan])
                           ELSE pages
  BY Computed
<1>2. thread.next = n /\ run.at = "graph" /\ ~Fenced
  BY DEF Compute, AtNode
<1>3. NodeLeaves(n, thread.v, w)
  BY <1>1, <1>2, NodeFacts
<1>4. w \in Values
  BY <1>3 DEF NodeLeaves, Kept
<1>5. Successor(n, w) \in (Nodes \ {"load_state", "recall", "summarize"}) \cup (IF n = "load_state" THEN {"recall"} ELSE {}) \cup {"end"}
  <2>1. AfterRoute(w) \in {"persist", "revise", "patch", "reset_replan", "end"}
    BY <1>4, Routes DEF AfterRoute
  <2>. QED BY <1>4, <2>1, Goes DEF Computing, Nodes
<1>6. thread'.v = w /\ thread'.next = Successor(n, w) /\ ~thread'.asked
  BY <1>1 DEF Leaves, Left, Threads
<1>7. run'.at = IF Successor(n, w) = "end" THEN "ended" ELSE "graph"
  BY <1>1 DEF Leaves, TypeInv, Threads, Runs, Rows, Histories
<1>8. \E a \in {"ended", "graph"} : run' = [run EXCEPT !.at = a]
  BY <1>1 DEF Leaves
<1>. QED BY <1>1, <1>2, <1>3, <1>4, <1>5, <1>6, <1>7, <1>8 DEF Moves

(* Where a node of the graph is reached from.                              *)
LEMMA Comes ==
  ASSUME NEW n \in Computing, NEW w \in Values, NEW m, m = Successor(n, w)
  PROVE  /\ m = "recall" => n = "load_state" /\ ~w.error
         /\ m \in {"plan_cast", "plan_chapter", "plan_gate"}
              => n \in {"recall", "plan_cast", "plan_chapter", "reset_replan"}
         /\ m = "plan_cast" => n = "reset_replan" \/ (n = "recall" /\ ~KeepsPlan(w))
         /\ m = "plan_chapter" => n = "plan_cast"
         /\ m = "plan_gate" => n = "plan_chapter"
         /\ m = "write" => n = "recall" /\ KeepsPlan(w)
         /\ m \in Reading => n \in {"write", "revise", "extract", "validate", "audit", "route", "patch"}
         /\ m = "route" => n = "audit"
         /\ m \in {"patch", "reset_replan", "revise", "persist"} => n = "route" /\ m = AfterRoute(w)
         /\ n = "route" => m = AfterRoute(w)
         /\ m = "end" => w.error
         /\ m = "reset_replan" => ~KeepsPlan(w)
<1>1. /\ AfterRoute(w) \in {"persist", "revise", "patch", "reset_replan", "end"}
      /\ AfterRoute(w) = "end" => w.error
      /\ AfterRoute(w) = "reset_replan" => ~KeepsPlan(w)
  BY Routes DEF AfterRoute
<1>2. KeepsPlan(w) \in BOOLEAN /\ w.error \in BOOLEAN
  BY DEF Values, KeepsPlan
<1>3. n \in {"load_state", "recall", "plan_cast", "plan_chapter", "write", "extract", "validate",
             "audit", "route", "revise", "patch", "reset_replan"}
  BY DEF Computing, Nodes
<1>4. /\ n = "load_state" => m = IF w.error THEN "end" ELSE "recall"
      /\ n = "recall" => m = IF KeepsPlan(w) THEN "write" ELSE "plan_cast"
      /\ n = "plan_cast" => m = "plan_chapter"
      /\ n = "reset_replan" => m = "plan_cast"
      /\ n = "plan_chapter" => m = "plan_gate"
      /\ n \in {"write", "revise", "patch"} => m = "extract"
      /\ n = "extract" => m = "validate"
      /\ n = "validate" => m = "audit"
      /\ n = "audit" => m = "route"
      /\ n = "route" => m = AfterRoute(w)
  BY Goes
<1>. QED BY <1>1, <1>2, <1>3, <1>4 DEF Reading

---------------------------------------------------------------------------
(* The course of a task, step by step.                                     *)

LEMMA ComputeKeepsCourse ==
  ASSUME CourseInv, NEW n \in Computing, Compute(n)
  PROVE  CourseInv'
<1>. DEFINE v == thread.v
<1>1. TypeInv /\ PlaceInv /\ TextInv /\ PersistInv /\ SummarizeInv /\ EndInv
  BY DEF CourseInv
<1>2. PICK w : Moves(n, w)
  BY <1>1, ComputeMoves
<1>. DEFINE m == Successor(n, w)
<1>3. /\ w \in Values /\ NodeLeaves(n, v, w) /\ Leaves(n, w) /\ thread.next = n /\ run.at = "graph"
      /\ thread'.v = w /\ thread'.next = m /\ ~thread'.asked
      /\ run'.at = IF m = "end" THEN "ended" ELSE "graph"
      /\ m \in Nodes \cup {"end"} /\ m \notin {"load_state", "summarize", "none"}
  BY <1>2 DEF Moves, Nodes, Computing
<1>4. TypeInv'
  BY <1>1, ComputeTypes
<1>5. /\ m = "recall" => n = "load_state" /\ ~w.error
      /\ m \in {"plan_cast", "plan_chapter", "plan_gate"} => n \in {"recall", "plan_cast", "plan_chapter", "reset_replan"}
      /\ m = "write" => n = "recall"
      /\ m \in Reading => n \in {"write", "revise", "extract", "validate", "audit", "route", "patch"}
      /\ m = "route" => n = "audit"
      /\ m \in {"patch", "reset_replan", "revise", "persist"} => n = "route" /\ m = AfterRoute(w)
      /\ n = "route" => m = AfterRoute(w)
  BY <1>3, Comes
<1>6. /\ v.draft \in Nat /\ w.draft \in Nat /\ v \in Values /\ v.error \in BOOLEAN
      /\ ~v.review
  BY <1>1, <1>3 DEF TypeInv, TextInv, Values, Computing, Nodes, Threads, Runs, Rows, Histories
<1>7. n = "route" => /\ w = Route(v) /\ w.error = v.error /\ w.draft = v.draft /\ w.verdict = v.verdict
                     /\ w.cards = v.cards /\ w.report = v.report
                     /\ RouteAfterAudit(w) = RouteAfterAudit(v)
                     /\ w.review <=> RouteAfterAudit(v) = "needs_review"
  <2>1. n = "route" => w = Route(v)
    BY <1>3 DEF NodeLeaves
  <2>. QED BY <1>6, <2>1, RouteFacts, RouteStays
<1>8. n = "route" /\ m \in {"patch", "reset_replan", "revise", "persist"} =>
        ~w.error /\ (m = "persist" => RouteAfterAudit(w) \in {"persist", "needs_review"})
  BY <1>3, <1>5, Routes DEF AfterRoute
<1>9. w.review => m = "persist" /\ ~w.error
  <2>1. w.review => n = "route"
    BY <1>3 DEF NodeLeaves
  <2>2. w.review => RouteAfterAudit(w) = "needs_review"
    BY <1>7, <2>1
  <2>. QED BY <1>3, <1>5, <2>1, <2>2, Routes DEF AfterRoute
<1>10. PlaceInv'
  <2>1. UNCHANGED <<status, op, queue, row>>
    BY <1>3 DEF Leaves
  <2>. QED BY <1>1, <1>3, <2>1 DEF PlaceInv, Finishing
<1>11. /\ row' = row
       /\ \/ w.draft = FreshText /\ receipts' = {} /\ Unseen(w.draft)' /\ thread.v.draft # w.draft
          \/ /\ w.draft # FreshText /\ receipts' = receipts
             /\ seen'.shown = seen.shown /\ seen'.refused = seen.refused
             /\ seen.passed \subseteq seen'.passed
  BY <1>1, <1>3, Known
<1>12. w.draft = v.draft /\ Unseen(v.draft) /\ receipts = {} => Unseen(w.draft)' /\ receipts' = {}
  BY <1>11 DEF Unseen
<1>13. m \in Reading /\ ~w.error => Unseen(w.draft)' /\ receipts' = {}
  <2>. SUFFICES ASSUME m \in Reading, ~w.error PROVE Unseen(w.draft)' /\ receipts' = {}
    OBVIOUS
  <2>1. ~v.error /\ n \in {"write", "revise", "extract", "validate", "audit", "route", "patch"}
    BY <1>3, <1>5 DEF NodeLeaves, Reading
  <2>2. CASE w.draft = FreshText
    BY <1>11, <2>2
  <2>3. CASE w.draft # FreshText
    <3>1. w.draft = v.draft /\ n \in Reading
      BY <1>3, <2>1, <2>3, <1>5 DEF NodeLeaves, Reading
    <3>2. Unseen(v.draft) /\ receipts = {}
      BY <1>1, <1>3, <2>1, <3>1 DEF TextInv
    <3>. QED BY <3>1, <3>2, <1>12
  <2>. QED BY <2>2, <2>3
<1>14. n = "audit" /\ ~w.error => w.verdict.kind # "none"
  BY <1>3 DEF NodeLeaves
<1>15. n = "audit" /\ RouteAfterAudit(w) = "persist" /\ w.cards = {} => w.draft \in seen'.passed
  <2>1. n = "audit" => w.draft = v.draft
    BY <1>3 DEF NodeLeaves
  <2>. QED BY <1>3, <1>11, <2>1 DEF Leaves
<1>16. m \in Planning => w.draft = 0
  <2>1. n \in Planning => v.draft = 0
    BY <1>1, <1>3 DEF TextInv, Planning
  <2>. QED BY <1>3, <1>5, <2>1 DEF NodeLeaves, Planning, Reading
<1>17. TextInv'
  BY <1>3, <1>5, <1>8, <1>9, <1>13, <1>14, <1>15, <1>16 DEF TextInv, Planning
<1>18. PersistInv'
  <2>. SUFFICES ASSUME m = "persist" PROVE PersistInv'
    BY <1>3 DEF PersistInv
  <2>1. n = "route" /\ ~w.error /\ ~v.error /\ w.draft = v.draft
    BY <1>5, <1>7, <1>8
  <2>2. Unseen(v.draft) /\ receipts = {} /\ v.verdict.kind # "none"
    BY <1>1, <1>3, <2>1 DEF TextInv, Reading
  <2>3. Unseen(w.draft)' /\ receipts' = {} /\ w.draft # 0 /\ w.verdict.kind # "none"
    BY <1>7, <1>12, <2>1, <2>2 DEF Unseen
  <2>4. ~Blocked(w) => w.draft \in seen'.passed
    <3>1. ~Blocked(w) => RouteAfterAudit(v) = "persist" /\ v.cards = {}
      BY <1>7, <1>8, <2>1 DEF Blocked
    <3>2. ~Blocked(w) => v.draft \in seen.passed
      BY <1>1, <1>3, <2>1, <3>1 DEF TextInv
    <3>3. seen.passed \subseteq seen'.passed
      BY <1>11, <2>1
    <3>. QED BY <2>1, <3>2, <3>3
  <2>. QED BY <1>3, <2>3, <2>4 DEF PersistInv
<1>19. SummarizeInv'
  BY <1>3 DEF SummarizeInv
<1>20. EndInv'
  BY <1>1, <1>3, <1>9, <1>11 DEF EndInv
<1>. QED BY <1>4, <1>10, <1>17, <1>18, <1>19, <1>20 DEF CourseInv

(* A step that leaves the thread's values alone, and of the row at most    *)
(* the status of an empty one.                                             *)
LEMMA SameCourse ==
  ASSUME TextInv, PersistInv, SummarizeInv, EndInv,
         thread'.v = thread.v, thread'.next = thread.next, receipts' = receipts,
         row' = row \/ (/\ row.text = 0 /\ row'.text = 0
                        /\ row'.status \notin {"confirmed", "awaiting_review"}),
         seen.passed \subseteq seen'.passed,
         seen'.shown \subseteq seen.shown \cup {row.text},
         seen'.refused \subseteq seen.refused \cup {row.text},
         run'.at = "resolve" => /\ run'.v = thread.v /\ thread.v.draft # 0
                                /\ UnderReview \/ thread.v.review
                                /\ ~thread.v.finalizing,
         run'.at = "mark" => ~run'.v.review
  PROVE  TextInv' /\ PersistInv' /\ SummarizeInv' /\ EndInv'
<1>. DEFINE v == thread.v
<1>0. row.status \in {"confirmed", "awaiting_review"} => row.text # 0
  BY DEF EndInv
<1>7. row'.text = row.text
  OBVIOUS
<1>8. (row'.status = "confirmed") <=> (row.status = "confirmed")
  BY <1>0
<1>9. UnderReview' <=> UnderReview
  BY <1>0 DEF UnderReview
<1>1. thread'.v = v /\ thread'.next = thread.next /\ row'.text = row.text /\ receipts' = receipts
      /\ ((row'.status = "confirmed") <=> (row.status = "confirmed"))
      /\ (UnderReview' <=> UnderReview)
  BY <1>7, <1>8, <1>9
<1>2. Unseen(v.draft) => Unseen(v.draft)'
  BY <1>1 DEF Unseen
<1>3. TextInv'
  BY <1>1, <1>2 DEF TextInv
<1>4. PersistInv'
  BY <1>1, <1>2 DEF PersistInv, Blocked, UnderReview
<1>5. SummarizeInv'
  BY <1>1 DEF SummarizeInv, UnderReview
<1>6. EndInv'
  BY <1>1 DEF EndInv, Masked, UnderReview
<1>. QED BY <1>3, <1>4, <1>5, <1>6

---------------------------------------------------------------------------
(* The worker takes a message.                                             *)

LEMMA InitialFacts ==
  ASSUME NEW i \in Inputs
  PROVE  /\ i.manual \in BOOLEAN /\ i.rewrite \in BOOLEAN /\ i.asked \in BOOLEAN
         /\ Input(i.manual, i.rewrite, i.asked, FALSE) \in Values
BY TaskAssumption, KnownValues DEF Input, Values

LEMMA IdleFacts ==
  /\ Generate \in Messages /\ Idle \in Runs
  /\ Idle.at = "idle" /\ Idle.answers = {} /\ Idle.plan = 0 /\ ~Idle.first
<1>1. Input(FALSE, FALSE, FALSE, FALSE) \in Values
  BY KnownValues DEF Input, Values
<1>2. Generate \in Messages
  BY DEF Generate, Messages
<1>. QED BY <1>1, <1>2 DEF Idle, Runs, Outs

LEMMA BeginFacts ==
  ASSUME NEW m \in Messages, NEW first \in BOOLEAN, NEW plan \in Nat, Begin(m, first, plan)
  PROVE  /\ run' \in Runs /\ run'.at = "graph" /\ run'.msg = m /\ run'.first = first
         /\ run'.plan = plan /\ run'.answers = {}
<1>. DEFINE r == Idle
<1>1. run' = [r EXCEPT !.at = "graph", !.msg = m, !.first = first, !.plan = plan] /\ r \in Runs /\ r.answers = {}
  BY IdleFacts DEF Begin
<1>. HIDE DEF r
<1>. QED BY <1>1 DEF Runs, OnGraph

LEMMA EndFacts ==
  ASSUME NEW m \in Messages, NEW out \in Outs, End(m, out)
  PROVE  /\ run' \in Runs /\ run'.at = "settle" /\ run'.msg = m /\ run'.out = out
         /\ run'.answers = {} /\ run'.plan = 0 /\ ~run'.first
<1>. DEFINE r == Idle
<1>1. run' = [r EXCEPT !.at = "settle", !.msg = m, !.out = out] /\ r \in Runs /\ r.answers = {}
      /\ r.plan = 0 /\ ~r.first
  BY IdleFacts DEF End
<1>. HIDE DEF r
<1>. QED BY <1>1 DEF Runs

(* The ways in which a message starts a run.                               *)
StartsAnew(m) ==
  /\ thread.next = "none" /\ status = "new" /\ m = Generate
  /\ thread' = [thread EXCEPT !.next = "load_state"]
  /\ Begin(m, TRUE, 0)
  /\ row' = row \/ (/\ row.text = 0 /\ ~thread.v.rewrite /\ row'.text = 0 /\ row'.version = 1
                    /\ row'.status \in {"planning", "writing"})

StartsAgain(m) ==
  /\ thread.next = "end" /\ thread.v.error
  /\ thread' = [thread EXCEPT !.next = "load_state"]
  /\ Begin(m, FALSE, 0) /\ row' = row

GoesOn(m) ==
  /\ thread.next \in Nodes
  /\ thread' = [thread EXCEPT !.asked = FALSE]
  /\ Begin(m, FALSE, 0) /\ row' = row

GoesOnWithPlan(m) ==
  /\ m.type = "plan" /\ thread.next = "plan_gate" /\ thread.asked
  /\ thread' = [thread EXCEPT !.asked = FALSE]
  /\ Begin(m, TRUE, m.plan) /\ row' = row

FindsEnd(m) ==
  /\ thread.next = "end" /\ ~thread.v.error
  /\ run' = [Idle EXCEPT !.at = "ended", !.msg = m]
  /\ UNCHANGED <<thread, row>>

FindsNothing(m) ==
  /\ End(m, "failed") /\ UNCHANGED <<thread, row>>
  /\ \/ m.type = "plan" /\ ~thread.asked
     \/ m.type = "resume" /\ thread.next = "end" /\ thread.v.draft = 0 /\ FinishesReview

FindsReview(m) ==
  /\ m.type = "resume" /\ FinishesReview /\ thread.next = "end" /\ thread.v.draft # 0
  /\ run' = [Idle EXCEPT !.at = IF thread.v.finalizing THEN "summary" ELSE "resolve",
                         !.msg = m, !.v = thread.v]
  /\ UNCHANGED <<thread, row>>

GoesByItself(m) == m.type \in {"generate", "resume"} /\ (m.type = "resume" => ~FinishesReview)

LEMMA Taken ==
  ASSUME TypeInv, PlaceInv, NEW m \in queue, Take(m)
  PROVE  /\ run.at = "idle" /\ queue' = queue \ {m} /\ m \in Messages
         /\ UNCHANGED <<op, summary, card, receipts, pages, upsets, seen>>
         /\ \/ UNCHANGED <<status, thread, run, row>> /\ status # "new" /\ Outdated(m)
            \/ /\ status' = "running" /\ ~Outdated(m)
               /\ \/ StartsAnew(m)
                  \/ GoesByItself(m) /\ (StartsAgain(m) \/ GoesOn(m) \/ FindsEnd(m))
                  \/ GoesOnWithPlan(m) \/ FindsNothing(m) \/ FindsReview(m)
<1>1. /\ run.at = "idle" /\ queue' = queue \ {m} /\ m \in Messages
      /\ UNCHANGED <<op, summary, card, receipts, pages, upsets, seen>>
  BY DEF Take, TypeInv
<1>2. thread \in Threads /\ thread.next \in Nodes \cup {"none", "end"} /\ thread.v.error \in BOOLEAN
      /\ row \in Rows /\ thread.v.manual \in BOOLEAN
  BY DEF TypeInv, Threads, Values
<1>3. /\ thread.next = "none" <=> status = "new"
      /\ status = "new" => op = 0 /\ m = Generate
      /\ thread.asked => thread.next = "plan_gate"
  BY DEF PlaceInv
<1>4. CASE Outdated(m)
  <2>1. status # "new"
    BY <1>3, <1>4 DEF Outdated
  <2>. QED BY <1>1, <1>4, <2>1 DEF Take
<1>5. ASSUME ~Outdated(m), Continue(m), row' = row, thread.next # "none"
      PROVE  StartsAgain(m) \/ GoesOn(m) \/ FindsEnd(m)
  BY <1>2, <1>5 DEF Continue, StartsAgain, GoesOn, FindsEnd, Nodes
<1>6. CASE ~Outdated(m) /\ status' = "running" /\ m.type = "generate" /\ DispatchGenerate(m)
  <2>1. CASE thread.next # "none"
    BY <1>1, <1>5, <1>6, <2>1 DEF DispatchGenerate, GoesByItself
  <2>2. CASE thread.next = "none"
    <3>1. row' = row \/ (/\ row.text = 0 /\ ~thread.v.rewrite /\ row'.text = 0 /\ row'.version = 1
                         /\ row'.status \in {"planning", "writing"})
      BY <1>2, <1>6, <2>2 DEF DispatchGenerate, EmptyRow, Rows
    <3>2. StartsAnew(m)
      BY <1>3, <1>6, <2>2, <3>1 DEF DispatchGenerate, StartsAnew
    <3>. QED BY <1>1, <1>6, <3>2
  <2>. QED BY <2>1, <2>2
<1>7. CASE ~Outdated(m) /\ status' = "running" /\ m.type = "plan" /\ DispatchPlan(m)
  <2>1. GoesOnWithPlan(m) \/ FindsNothing(m)
    BY <1>3, <1>7 DEF DispatchPlan, GoesOnWithPlan, FindsNothing
  <2>. QED BY <1>1, <1>7, <2>1
<1>8. CASE ~Outdated(m) /\ status' = "running" /\ m.type = "resume" /\ DispatchResume(m)
  <2>1. thread.next # "none"
    BY <1>3, <1>8 DEF Generate
  <2>2. CASE ~FinishesReview
    <3>1. StartsAgain(m) \/ GoesOn(m) \/ FindsEnd(m)
      BY <1>5, <1>8, <2>1, <2>2 DEF DispatchResume
    <3>. QED BY <1>1, <1>8, <2>2, <3>1 DEF GoesByItself
  <2>3. CASE FinishesReview
    <3>1. thread.next = "end"
      BY <2>1, <2>3 DEF FinishesReview
    <3>2. FindsNothing(m) \/ FindsReview(m)
      BY <1>8, <2>3, <3>1 DEF DispatchResume, FindsNothing, FindsReview
    <3>. QED BY <1>1, <1>8, <3>2
  <2>. QED BY <2>2, <2>3
<1>. QED BY <1>4, <1>6, <1>7, <1>8 DEF Take

LEMMA TakeKeepsCourse ==
  ASSUME CourseInv, NEW m \in queue, Take(m)
  PROVE  CourseInv'
<1>1. TypeInv /\ PlaceInv /\ TextInv /\ PersistInv /\ SummarizeInv /\ EndInv
  BY DEF CourseInv
<1>2. /\ run.at = "idle" /\ queue' = queue \ {m} /\ m \in Messages
      /\ UNCHANGED <<op, summary, card, receipts, pages, upsets, seen>>
      /\ \/ UNCHANGED <<status, thread, run, row>> /\ status # "new"
         \/ /\ status' = "running"
            /\ \/ StartsAnew(m)
               \/ StartsAgain(m) \/ GoesOn(m) \/ FindsEnd(m)
               \/ GoesOnWithPlan(m) \/ FindsNothing(m) \/ FindsReview(m)
  BY <1>1, Taken
<1>3. /\ m.plan \in Nat /\ thread \in Threads /\ run \in Runs /\ row \in Rows
      /\ queue' \subseteq Messages
      /\ thread.v \in Values /\ thread.next \in Nodes \cup {"none", "end"}
  BY <1>1, <1>2 DEF TypeInv, Messages, Threads
<1>4. thread.asked => thread.next = "plan_gate"
  BY <1>1 DEF PlaceInv
<1>5. ASSUME thread'.v = thread.v, thread'.next = thread.next, row' = row, run'.at # "mark",
             run'.at = "resolve" => /\ run'.v = thread.v /\ thread.v.draft # 0
                                    /\ UnderReview \/ thread.v.review
                                    /\ ~thread.v.finalizing
      PROVE  TextInv' /\ PersistInv' /\ SummarizeInv' /\ EndInv'
  BY <1>1, <1>2, <1>5, SameCourse
<1>6. ASSUME thread' = [thread EXCEPT !.next = "load_state"], run'.at = "graph",
             thread.next = "none" \/ thread.v.error,
             row' = row \/ row'.status \in {"planning", "writing"}
      PROVE  TextInv' /\ PersistInv' /\ SummarizeInv' /\ EndInv'
  <2>1. thread'.v = thread.v /\ thread'.next = "load_state"
    BY <1>3, <1>6 DEF Threads
  <2>2. TextInv'
    <3>1. thread.v.error \/ thread.v.draft = 0
      BY <1>1, <1>6 DEF TextInv
    <3>2. ~thread.v.review
      BY <1>1, <1>6 DEF TextInv
    <3>. QED BY <2>1, <3>1, <3>2 DEF TextInv, Planning, Reading
  <2>3. PersistInv' /\ SummarizeInv'
    BY <2>1 DEF PersistInv, SummarizeInv
  <2>4. EndInv'
    BY <1>1, <1>6, <2>1 DEF EndInv
  <2>. QED BY <2>2, <2>3, <2>4
<1>7. ASSUME thread' \in Threads, run' \in Runs, row' \in Rows, status' \in Statuses
      PROVE  TypeInv'
  BY <1>1, <1>2, <1>3, <1>7 DEF TypeInv
<1>8. CASE UNCHANGED <<status, thread, run, row>> /\ status # "new"
  <2>1. TypeInv'
    BY <1>1, <1>3, <1>7, <1>8 DEF TypeInv
  <2>2. PlaceInv'
    BY <1>1, <1>2, <1>8 DEF PlaceInv
  <2>. QED BY <1>2, <1>5, <1>8, <2>1, <2>2 DEF CourseInv
<1>9. CASE status' = "running" /\ StartsAnew(m)
  <2>1. run' \in Runs /\ run'.at = "graph" /\ thread' = [thread EXCEPT !.next = "load_state"]
    BY <1>2, <1>9, BeginFacts DEF StartsAnew
  <2>2. thread' \in Threads /\ thread'.next = "load_state" /\ thread'.asked = thread.asked
    BY <1>3, <2>1 DEF Threads, Nodes
  <2>3. row' \in Rows
    <3>1. CASE row' = row
      BY <1>3, <3>1
    <3>2. CASE row'.text = 0 /\ row'.version = 1 /\ row'.status \in {"planning", "writing"}
      <4>1. thread.next = "none" /\ DispatchGenerate(m)
        BY <1>9 DEF StartsAnew, Take, Generate
      <4>2. \E s \in {"planning", "writing"} : row' = [row EXCEPT !.status = s, !.version = 1] \/ row' = row
        BY <4>1 DEF DispatchGenerate
      <4>3. CASE row' = row
        BY <1>3, <4>3
      <4>4. ASSUME NEW s \in {"planning", "writing"}, row' = [row EXCEPT !.status = s, !.version = 1]
            PROVE  row' \in Rows
        BY <1>3, <4>4 DEF Rows, RowStates
      <4>. QED BY <4>2, <4>3, <4>4
    <3>. QED BY <1>9, <3>1, <3>2 DEF StartsAnew
  <2>4. TypeInv'
    BY <1>7, <1>9, <2>1, <2>2, <2>3 DEF Statuses
  <2>5. PlaceInv'
    BY <1>1, <1>4, <1>9, <2>1, <2>2 DEF PlaceInv, Nodes, Finishing, StartsAnew
  <2>. QED BY <1>1, <1>6, <1>9, <2>1, <2>4, <2>5 DEF CourseInv, StartsAnew
<1>10. CASE status' = "running" /\ StartsAgain(m)
  <2>1. run' \in Runs /\ run'.at = "graph" /\ thread' = [thread EXCEPT !.next = "load_state"]
    BY <1>2, <1>10, BeginFacts DEF StartsAgain
  <2>2. thread' \in Threads /\ thread'.next = "load_state" /\ thread'.asked = thread.asked
    BY <1>3, <2>1 DEF Threads, Nodes
  <2>4. TypeInv'
    BY <1>3, <1>7, <1>10, <2>1, <2>2 DEF Statuses, StartsAgain
  <2>5. PlaceInv'
    BY <1>1, <1>4, <1>10, <2>1, <2>2 DEF PlaceInv, Nodes, Finishing, StartsAgain
  <2>. QED BY <1>1, <1>6, <1>10, <2>1, <2>4, <2>5 DEF CourseInv, StartsAgain
<1>11. CASE status' = "running" /\ (GoesOn(m) \/ GoesOnWithPlan(m))
  <2>1. run' \in Runs /\ run'.at = "graph" /\ thread' = [thread EXCEPT !.asked = FALSE] /\ row' = row
    BY <1>2, <1>3, <1>11, BeginFacts DEF GoesOn, GoesOnWithPlan
  <2>2. thread' \in Threads /\ thread'.v = thread.v /\ thread'.next = thread.next /\ ~thread'.asked
        /\ thread.next \in Nodes
    BY <1>3, <1>11, <2>1 DEF Threads, Nodes, GoesOn, GoesOnWithPlan
  <2>3. TypeInv'
    BY <1>3, <1>7, <1>11, <2>1, <2>2 DEF Statuses
  <2>4. PlaceInv'
    BY <1>1, <1>11, <2>1, <2>2 DEF PlaceInv, Nodes, Finishing
  <2>. QED BY <1>5, <2>1, <2>2, <2>3, <2>4 DEF CourseInv
<1>12. CASE status' = "running" /\ FindsEnd(m)
  <2>1. run' \in Runs /\ run'.at = "ended"
    <3>. DEFINE r == Idle
    <3>1. r \in Runs /\ run' = [r EXCEPT !.at = "ended", !.msg = m]
      BY <1>12, IdleFacts DEF FindsEnd
    <3>. HIDE DEF r
    <3>. QED BY <1>2, <3>1 DEF Runs, OnGraph
  <2>2. TypeInv'
    BY <1>3, <1>7, <1>12, <2>1 DEF Statuses, FindsEnd
  <2>3. PlaceInv'
    BY <1>1, <1>12, <2>1 DEF PlaceInv, Finishing, FindsEnd
  <2>. QED BY <1>5, <1>12, <2>1, <2>2, <2>3 DEF CourseInv, FindsEnd
<1>13. CASE status' = "running" /\ FindsNothing(m)
  <2>1. run' \in Runs /\ run'.at = "settle"
    BY <1>2, <1>13, EndFacts DEF FindsNothing, Outs
  <2>0. thread.next # "none"
    <3>1. status = "new" => m = Generate
      BY <1>1 DEF PlaceInv
    <3>. QED BY <1>1, <1>13, <3>1 DEF FindsNothing, Generate, PlaceInv
  <2>2. TypeInv'
    BY <1>3, <1>7, <1>13, <2>1 DEF Statuses, FindsNothing
  <2>3. PlaceInv'
    BY <1>1, <1>13, <2>0, <2>1 DEF PlaceInv, Finishing, FindsNothing
  <2>. QED BY <1>5, <1>13, <2>1, <2>2, <2>3 DEF CourseInv, FindsNothing
<1>14. CASE status' = "running" /\ FindsReview(m)
  <2>1. /\ run' \in Runs /\ run'.at = IF thread.v.finalizing THEN "summary" ELSE "resolve"
        /\ run'.v = thread.v
    <3>. DEFINE r == Idle
    <3>1. r \in Runs /\ run' = [r EXCEPT !.at = IF thread.v.finalizing THEN "summary" ELSE "resolve",
                                         !.msg = m, !.v = thread.v]
      BY <1>14, IdleFacts DEF FindsReview
    <3>. HIDE DEF r
    <3>. QED BY <1>2, <1>3, <3>1 DEF Runs, Finishing
  <2>2. TypeInv'
    BY <1>3, <1>7, <1>14, <2>1 DEF Statuses, FindsReview
  <2>3. PlaceInv'
    BY <1>1, <1>14, <2>1 DEF PlaceInv, Finishing, FindsReview
  <2>4. UnderReview \/ thread.v.review \/ thread.v.finalizing
    BY <1>14 DEF FindsReview, FinishesReview
  <2>. QED BY <1>5, <1>14, <2>1, <2>2, <2>3, <2>4 DEF CourseInv, FindsReview
<1>. QED BY <1>2, <1>8, <1>9, <1>10, <1>11, <1>12, <1>13, <1>14

---------------------------------------------------------------------------
(* The other steps of the graph.                                           *)

Places == {"idle", "settle"} \cup OnGraph \cup Finishing

LEMMA Advances ==
  ASSUME run \in Runs, NEW a \in Places, run' = [run EXCEPT !.at = a]
  PROVE  /\ run' \in Runs /\ run'.at = a /\ run'.msg = run.msg /\ run'.first = run.first
         /\ run'.plan = run.plan /\ run'.answers = run.answers /\ run'.v = run.v
         /\ run'.version = run.version /\ run'.out = run.out
BY DEF Runs, Places

LEMMA PlacesKnown ==
  \A a \in {"idle", "settle", "graph", "persisted", "asked", "ended", "resolve", "mark",
            "summary", "asked_last", "close"} : a \in Places
BY DEF Places, OnGraph, Finishing

(* What the gate does: it stops, or the thread goes on to write.           *)
GateStops ==
  /\ ~GateOpen(thread.v) /\ run.plan = 0
  /\ thread' = [thread EXCEPT !.asked = TRUE]
  /\ run' = [run EXCEPT !.at = "ended"] /\ row' = row

GatePasses(p) ==
  /\ thread'.v \in Values /\ thread'.next = "write" /\ thread'.asked = FALSE
  /\ \A f \in DOMAIN thread.v \ {"plan"} : thread'.v[f] = thread.v[f]
  /\ thread'.v.plan = p
  /\ p = IF GateOpen(thread.v) THEN thread.v.plan ELSE run.plan
  /\ GateOpen(thread.v) \/ run.plan # 0
  /\ run' = [run EXCEPT !.plan = 0]
  /\ row' = row \/ (row.text = 0 /\ row'.text = 0 /\ row' = [row EXCEPT !.status = "writing"])

LEMMA GateFacts ==
  ASSUME TypeInv, Gate
  PROVE  /\ run.at = "graph" /\ thread.next = "plan_gate" /\ ~Fenced
         /\ UNCHANGED <<status, op, queue, summary, card, receipts, pages, upsets, seen>>
         /\ GateStops \/ \E p : GatePasses(p)
<1>1. thread \in Threads /\ thread.v \in Values /\ run \in Runs /\ run.plan \in Nat /\ row \in Rows
  BY DEF TypeInv, Threads, Runs
<1>2. /\ run.at = "graph" /\ thread.next = "plan_gate" /\ ~Fenced
      /\ UNCHANGED <<status, op, queue, summary, card, receipts, pages, upsets, seen>>
  BY DEF Gate, AtNode
<1>3. CASE ~GateOpen(thread.v) /\ run.plan = 0
  BY <1>2, <1>3 DEF Gate, GateStops
<1>4. CASE GateOpen(thread.v) \/ run.plan # 0
  <2>. DEFINE w == IF GateOpen(thread.v) THEN thread.v ELSE [thread.v EXCEPT !.plan = run.plan]
  <2>1. thread' = Left("plan_gate", w)
    BY <1>4 DEF Gate
  <2>2. w \in Values /\ w.plan = IF GateOpen(thread.v) THEN thread.v.plan ELSE run.plan
    BY <1>1 DEF Values
  <2>3. \A f \in DOMAIN thread.v \ {"plan"} : w[f] = thread.v[f]
    BY <1>1 DEF Values
  <2>4. thread'.v = w /\ thread'.next = "write" /\ thread'.asked = FALSE
    BY <2>1 DEF Left, Successor
  <2>5. run' = [run EXCEPT !.plan = 0]
    BY <1>4 DEF Gate
  <2>6. row' = row \/ (row.text = 0 /\ row'.text = 0 /\ row' = [row EXCEPT !.status = "writing"])
    BY <1>1, <1>4 DEF Gate, EmptyRow, Rows
  <2>7. GatePasses(w.plan)
    <3>. HIDE DEF w
    <3>. QED BY <1>4, <2>2, <2>3, <2>4, <2>5, <2>6 DEF GatePasses
  <2>. QED BY <1>2, <2>7
<1>. QED BY <1>3, <1>4

LEMMA GateKeepsCourse ==
  ASSUME CourseInv, Gate
  PROVE  CourseInv'
<1>1. TypeInv /\ PlaceInv /\ TextInv /\ PersistInv /\ SummarizeInv /\ EndInv
  BY DEF CourseInv
<1>2. /\ run.at = "graph" /\ thread.next = "plan_gate" /\ ~Fenced
      /\ UNCHANGED <<status, op, queue, summary, card, receipts, pages, upsets, seen>>
      /\ GateStops \/ \E p : GatePasses(p)
  BY <1>1, GateFacts
<1>3. /\ thread \in Threads /\ run \in Runs /\ row \in Rows /\ thread.v \in Values
      /\ thread.v.error \in BOOLEAN /\ thread.v.manual \in BOOLEAN
      /\ status # "new" /\ status \in {"running", "paused", "cancelled"}
  BY <1>1, <1>2 DEF TypeInv, PlaceInv, Threads, Values
<1>4. CASE GateStops
  <2>1. run' \in Runs /\ run'.at = "ended"
    BY <1>3, <1>4, Advances, PlacesKnown DEF GateStops
  <2>2. thread' \in Threads /\ thread'.v = thread.v /\ thread'.next = thread.next /\ thread'.asked
        /\ thread.v.manual /\ ~thread.v.error /\ row' = row
    BY <1>3, <1>4 DEF GateStops, Threads, GateOpen
  <2>3. TypeInv'
    BY <1>1, <1>2, <2>1, <2>2 DEF TypeInv
  <2>4. PlaceInv'
    BY <1>1, <1>2, <1>3, <2>1, <2>2 DEF PlaceInv, Finishing
  <2>5. TextInv' /\ PersistInv' /\ SummarizeInv' /\ EndInv'
    BY <1>1, <1>2, <2>1, <2>2, SameCourse
  <2>. QED BY <2>3, <2>4, <2>5 DEF CourseInv
<1>5. CASE \E p : GatePasses(p)
  <2>0. PICK p : GatePasses(p)
    BY <1>5
  <2>1. run' \in Runs /\ run'.at = "graph"
    BY <1>2, <1>3, <2>0 DEF GatePasses, Runs
  <2>2. /\ thread' \in Threads /\ thread'.next = "write" /\ ~thread'.asked
        /\ thread'.v.draft = thread.v.draft /\ thread'.v.review = thread.v.review
    <3>1. {"draft", "review"} \subseteq DOMAIN thread.v \ {"plan"}
      BY <1>3 DEF Values
    <3>2. thread' = [v |-> thread'.v, next |-> thread'.next, asked |-> thread'.asked]
      BY <1>2, <2>0 DEF Gate, Left, GatePasses, GateOpen, Threads
    <3>. QED BY <2>0, <3>1, <3>2 DEF GatePasses, Threads, Nodes
  <2>3. row' \in Rows /\ (row' = row \/ (row.text = 0 /\ row'.text = 0 /\ row'.status = "writing"))
    BY <1>3, <2>0 DEF GatePasses, Rows, RowStates
  <2>4. thread.v.draft = 0 /\ ~thread.v.review
    BY <1>1, <1>2 DEF TextInv, Planning
  <2>5. TypeInv'
    BY <1>1, <1>2, <2>1, <2>2, <2>3 DEF TypeInv
  <2>6. PlaceInv'
    BY <1>1, <1>2, <1>3, <2>1, <2>2 DEF PlaceInv, Finishing, Nodes
  <2>7. TextInv'
    BY <2>2, <2>4 DEF TextInv, Planning, Reading
  <2>8. PersistInv' /\ SummarizeInv'
    BY <2>2 DEF PersistInv, SummarizeInv
  <2>9. EndInv'
    BY <1>1, <2>1, <2>2, <2>3 DEF EndInv
  <2>. QED BY <2>5, <2>6, <2>7, <2>8, <2>9 DEF CourseInv
<1>. QED BY <1>2, <1>4, <1>5

(* Persisting a state for the first time, and once more.                   *)
LEMMA PersistFacts ==
  ASSUME TypeInv, NEW v \in Values, v.draft # 0, PersistOnce(v)
  PROVE  /\ receipts' = receipts \cup {v}
         /\ row' \in Rows /\ card' \in [Cards -> CardStates]
         /\ summary' \in [of: Nat, model: BOOLEAN]
         /\ v \in receipts => row' = row /\ card' = card /\ summary' = summary
         /\ v \notin receipts =>
              /\ row'.text = v.draft /\ summary' = [of |-> v.draft, model |-> FALSE]
              /\ Blocked(v) => /\ row'.status = "awaiting_review"
                               /\ \A c \in Cards : card'[c] = IF c \in v.cards /\ card[c] = "none"
                                                              THEN "pending" ELSE card[c]
              /\ ~Blocked(v) => row'.status = "confirmed" /\ card' = card
              /\ Blocked(v) /\ row.text = v.draft /\ row.version > 0 => row'.version = row.version
              /\ ~Blocked(v) /\ row.text = v.draft /\ UnderReview /\ row.version > 0
                   => row'.version = row.version
<1>1. v.draft \in Nat /\ row \in Rows /\ row.version \in Nat /\ row.text \in Nat /\ row.version + 1 \in Nat
      /\ card \in [Cards -> CardStates] /\ summary \in [of: Nat, model: BOOLEAN]
  BY DEF TypeInv, Values, Rows
<1>2. CASE v \in receipts
  BY <1>1, <1>2 DEF PersistOnce
<1>3. CASE v \notin receipts /\ Blocked(v)
  <2>1. PersistAgain(v)
    BY <1>3 DEF PersistOnce
  <2>2. \E x \in Nat : /\ row' = [status |-> "awaiting_review", text |-> v.draft, version |-> x]
                       /\ row.text = v.draft /\ row.version > 0 => x = row.version
    BY <1>1, <1>3, <2>1 DEF PersistAgain, ShowText
  <2>3. card' = [c \in Cards |-> IF c \in v.cards /\ card[c] = "none" THEN "pending" ELSE card[c]]
    BY <1>3, <2>1 DEF PersistAgain
  <2>4. card' \in [Cards -> CardStates]
    BY <1>1, <2>3 DEF CardStates
  <2>5. row' \in Rows
    BY <1>1, <2>2 DEF Rows, RowStates
  <2>6. receipts' = receipts \cup {v} /\ summary' = [of |-> v.draft, model |-> FALSE]
    BY <2>1 DEF PersistAgain
  <2>. QED BY <1>1, <1>3, <2>2, <2>3, <2>4, <2>5, <2>6
<1>4. CASE v \notin receipts /\ ~Blocked(v)
  <2>1. PersistAgain(v)
    BY <1>4 DEF PersistOnce
  <2>2. \E x \in Nat : /\ row' = [status |-> "confirmed", text |-> v.draft, version |-> x]
                       /\ row.text = v.draft /\ UnderReview /\ row.version > 0 => x = row.version
    BY <1>1, <1>4, <2>1 DEF PersistAgain, ConfirmText
  <2>5. row' \in Rows
    BY <1>1, <2>2 DEF Rows, RowStates
  <2>6. receipts' = receipts \cup {v} /\ summary' = [of |-> v.draft, model |-> FALSE] /\ card' = card
    BY <1>4, <2>1 DEF PersistAgain
  <2>. QED BY <1>1, <1>4, <2>2, <2>5, <2>6
<1>. QED BY <1>2, <1>3, <1>4

LEMMA PersistKeepsCourse ==
  ASSUME CourseInv, Persist
  PROVE  CourseInv'
<1>. DEFINE v == thread.v
<1>1. TypeInv /\ PlaceInv /\ TextInv /\ PersistInv /\ SummarizeInv /\ EndInv
  BY DEF CourseInv
<1>2. /\ run.at = "graph" /\ thread.next = "persist" /\ PersistOnce(v)
      /\ run' = [run EXCEPT !.at = "persisted"]
      /\ UNCHANGED <<status, op, queue, thread, pages, upsets, seen>>
  BY DEF Persist, AtNode
<1>3. /\ v \in Values /\ v.draft # 0 /\ run \in Runs /\ receipts \subseteq {v}
      /\ status \in {"running", "paused", "cancelled"} /\ thread.next # "none" /\ status # "new"
  BY <1>1, <1>2 DEF TypeInv, Threads, PersistInv, PlaceInv
<1>4. run' \in Runs /\ run'.at = "persisted"
  BY <1>2, <1>3, Advances, PlacesKnown
<1>5. /\ receipts' = receipts \cup {v}
      /\ row' \in Rows /\ card' \in [Cards -> CardStates]
      /\ summary' \in [of: Nat, model: BOOLEAN]
      /\ v \in receipts => row' = row
      /\ v \notin receipts => /\ row'.text = v.draft
                              /\ Blocked(v) => row'.status = "awaiting_review"
                              /\ ~Blocked(v) => row'.status = "confirmed"
  BY <1>1, <1>2, <1>3, PersistFacts
<1>6. receipts' = {v}
  BY <1>3, <1>5
<1>7. TypeInv'
  BY <1>1, <1>2, <1>3, <1>4, <1>5, <1>6 DEF TypeInv
<1>8. PlaceInv'
  BY <1>1, <1>2, <1>3, <1>4, <1>6 DEF PlaceInv, Finishing
<1>9. IF Blocked(v) THEN row'.status = "awaiting_review" /\ row'.text = v.draft
      ELSE row'.status = "confirmed" /\ row'.text # 0
  BY <1>1, <1>2, <1>3, <1>5 DEF PersistInv, UnderReview, EndInv
<1>10. TextInv'
  BY <1>1, <1>2 DEF TextInv, Reading, Planning
<1>11. PersistInv'
  <2>. HIDE DEF v
  <2>1. /\ v.draft # 0 /\ v.verdict.kind # "none"
        /\ ~Blocked(v) => v.draft \in seen.passed
    BY <1>1, <1>2 DEF v, PersistInv
  <2>2. thread'.v = v /\ seen' = seen
    BY <1>2 DEF v
  <2>. QED BY <1>6, <1>9, <2>1, <2>2 DEF PersistInv, UnderReview
<1>12. SummarizeInv' /\ EndInv'
  BY <1>2, <1>3, <1>4, <1>9 DEF SummarizeInv, EndInv
<1>. QED BY <1>7, <1>8, <1>10, <1>11, <1>12 DEF CourseInv

LEMMA CheckpointKeepsCourse ==
  ASSUME CourseInv, PersistCheckpoint
  PROVE  CourseInv'
<1>. DEFINE v == thread.v
            w == Persisted(v)
<1>1. TypeInv /\ PlaceInv /\ TextInv /\ PersistInv /\ SummarizeInv /\ EndInv
  BY DEF CourseInv
<1>2. /\ run.at = "persisted" /\ thread' = Left("persist", w)
      /\ run' = [run EXCEPT !.at = "graph"]
      /\ UNCHANGED <<status, op, queue, row, summary, card, receipts, pages, upsets, seen>>
  BY DEF PersistCheckpoint
<1>3. /\ v \in Values /\ thread.next = "persist" /\ v \in receipts /\ run \in Runs
      /\ status \in {"running", "paused", "cancelled"} /\ status # "new"
  BY <1>1, <1>2 DEF TypeInv, Threads, PlaceInv
<1>4. run' \in Runs /\ run'.at = "graph"
  BY <1>2, <1>3, Advances, PlacesKnown
<1>5. /\ w \in Values /\ w.draft = v.draft /\ w.error = v.error /\ (w.review <=> Blocked(v))
      /\ w.manual = v.manual
  <2>1. Blocked(v) \in BOOLEAN
    BY DEF Blocked
  <2>. QED BY <1>3, <2>1 DEF Persisted, Values
<1>6. thread'.v = w /\ thread'.next = "summarize" /\ thread'.asked = FALSE /\ thread' \in Threads
  <2>. HIDE DEF w
  <2>. QED BY <1>2, <1>5 DEF Left, Successor, Threads, Nodes
<1>7. TypeInv'
  BY <1>1, <1>2, <1>4, <1>6 DEF TypeInv
<1>8. PlaceInv'
  BY <1>1, <1>2, <1>3, <1>4, <1>6 DEF PlaceInv, Finishing, Nodes
<1>9. ~v.error
  BY <1>1, <1>3 DEF TextInv
<1>10. TextInv'
  <2>. HIDE DEF w
  <2>. QED BY <1>5, <1>6, <1>9 DEF TextInv, Planning, Reading
<1>11. /\ v.draft # 0 /\ receipts \subseteq {v} /\ v.verdict.kind # "none"
       /\ IF Blocked(v) THEN UnderReview /\ row.text = v.draft ELSE row.status = "confirmed"
  BY <1>1, <1>3 DEF PersistInv
<1>12. SummarizeInv'
  <2>. HIDE DEF w, v
  <2>. QED BY <1>2, <1>5, <1>6, <1>11 DEF SummarizeInv, UnderReview
<1>13. PersistInv' /\ EndInv'
  BY <1>1, <1>2, <1>4, <1>6 DEF PersistInv, EndInv
<1>. QED BY <1>7, <1>8, <1>10, <1>12, <1>13 DEF CourseInv

(* What a summary leaves: the graph ends, or the review can be closed.     *)
LEMMA AfterSummaryFacts ==
  ASSUME CourseInv, AfterSummary, run.at \in {"summary", "asked_last", "graph", "asked"},
         run.at \in {"graph", "asked"} => thread.next = "summarize",
         UNCHANGED <<status, op, queue, row, card, receipts, pages, upsets, seen>>,
         summary' \in [of: Nat, model: BOOLEAN]
  PROVE  /\ CourseInv'
         /\ thread'.v = thread.v /\ thread'.next = "end"
         /\ thread'.asked => thread.asked
         /\ run' = [run EXCEPT !.at = IF run.at \in {"summary", "asked_last"} THEN "close"
                                      ELSE "ended"]
<1>. DEFINE v == thread.v
<1>1. TypeInv /\ PlaceInv /\ TextInv /\ PersistInv /\ SummarizeInv /\ EndInv
  BY DEF CourseInv
<1>2. /\ run \in Runs /\ thread \in Threads /\ v \in Values /\ status # "new"
      /\ status \in {"running", "paused", "cancelled"}
  BY <1>1 DEF TypeInv, PlaceInv, Threads
<1>3. CASE run.at \in {"summary", "asked_last"}
  <2>1. run' = [run EXCEPT !.at = "close"] /\ thread' = thread
    BY <1>3 DEF AfterSummary
  <2>2. run' \in Runs /\ run'.at = "close"
    BY <1>2, <2>1, Advances, PlacesKnown
  <2>3. thread.next = "end"
    BY <1>1, <1>3 DEF PlaceInv, Finishing
  <2>4. TypeInv'
    BY <1>1, <2>1, <2>2 DEF TypeInv
  <2>5. PlaceInv'
    BY <1>1, <1>2, <2>1, <2>2, <2>3 DEF PlaceInv, Finishing
  <2>6. TextInv' /\ PersistInv' /\ SummarizeInv' /\ EndInv'
    BY <1>1, <2>1, <2>2, SameCourse
  <2>. QED BY <1>3, <2>1, <2>3, <2>4, <2>5, <2>6 DEF CourseInv
<1>4. CASE run.at \in {"graph", "asked"}
  <2>1. run' = [run EXCEPT !.at = "ended"] /\ thread' = Left("summarize", v) /\ thread.next = "summarize"
    BY <1>4 DEF AfterSummary
  <2>2. run' \in Runs /\ run'.at = "ended"
    BY <1>2, <2>1, Advances, PlacesKnown
  <2>3. thread'.v = v /\ thread'.next = "end" /\ thread'.asked = FALSE /\ thread' \in Threads
    <3>. HIDE DEF v
    <3>. QED BY <1>2, <2>1 DEF Left, Successor, Threads
  <2>4. TypeInv'
    BY <1>1, <2>2, <2>3 DEF TypeInv
  <2>5. PlaceInv'
    BY <1>1, <1>2, <2>2, <2>3 DEF PlaceInv, Finishing
  <2>6. TextInv'
    BY <1>1, <2>1, <2>3 DEF TextInv, Planning, Reading
  <2>7. /\ v.draft # 0
        /\ \A r \in receipts : r.verdict.kind # "none"
        /\ IF v.review THEN UnderReview /\ row.text = v.draft ELSE row.status = "confirmed"
    BY <1>1, <2>1 DEF SummarizeInv
  <2>8. Masked(v) \notin receipts
    <3>1. Masked(v).verdict = NoVerdict
      BY <1>2 DEF Masked, Values
    <3>. QED BY <2>7, <3>1 DEF NoVerdict
  <2>9. EndInv'
    <3>. HIDE DEF v
    <3>. QED BY <1>1, <2>2, <2>3, <2>7, <2>8 DEF EndInv, UnderReview
  <2>10. PersistInv' /\ SummarizeInv'
    BY <2>3 DEF PersistInv, SummarizeInv
  <2>. QED BY <1>4, <2>1, <2>3, <2>4, <2>5, <2>6, <2>9, <2>10 DEF CourseInv
<1>. QED BY <1>3, <1>4

LEMMA SummarizeKeepsCourse ==
  ASSUME CourseInv, Summarize
  PROVE  CourseInv'
<1>1. TypeInv /\ PlaceInv /\ TextInv /\ PersistInv /\ SummarizeInv /\ EndInv
  BY DEF CourseInv
<1>2. /\ (run.at = "graph" /\ thread.next = "summarize" /\ ~Fenced) \/ run.at = "summary"
      /\ UNCHANGED <<status, op, queue, row, summary, card, receipts, pages, upsets, seen>>
  BY DEF Summarize, AtNode
<1>3. /\ run \in Runs /\ summary \in [of: Nat, model: BOOLEAN] /\ row.version \in Nat /\ status # "new"
      /\ status \in {"running", "paused", "cancelled"}
  BY <1>1, <1>2 DEF TypeInv, PlaceInv, Rows
<1>4. CASE AfterSummary
  BY <1>2, <1>3, <1>4, AfterSummaryFacts
<1>5. ASSUME NEW a \in {"asked", "asked_last"}, a = IF run.at = "summary" THEN "asked_last" ELSE "asked",
             run' = [run EXCEPT !.at = a, !.version = row.version], thread' = thread,
             row.status = "confirmed"
      PROVE  CourseInv'
  <2>1. run' \in Runs /\ run'.at = a
    BY <1>3, <1>5 DEF Runs, Finishing, OnGraph
  <2>2. TypeInv'
    BY <1>1, <1>2, <1>5, <2>1 DEF TypeInv
  <2>3. PlaceInv'
    BY <1>1, <1>2, <1>3, <1>5, <2>1 DEF PlaceInv, Finishing
  <2>4. TextInv' /\ PersistInv' /\ SummarizeInv' /\ EndInv'
    BY <1>1, <1>2, <1>5, <2>1, SameCourse
  <2>. QED BY <2>2, <2>3, <2>4 DEF CourseInv
<1>6. AfterSummary \/ \E a \in {"asked", "asked_last"} :
        /\ a = IF run.at = "summary" THEN "asked_last" ELSE "asked"
        /\ run' = [run EXCEPT !.at = a, !.version = row.version] /\ thread' = thread
        /\ row.status = "confirmed"
  BY <1>2 DEF Summarize, Wanted
<1>. QED BY <1>4, <1>5, <1>6

LEMMA SummarizedKeepsCourse ==
  ASSUME CourseInv, Summarized
  PROVE  CourseInv'
<1>1. TypeInv /\ PlaceInv
  BY DEF CourseInv
<1>2. /\ run.at \in {"asked", "asked_last"} /\ AfterSummary
      /\ UNCHANGED <<status, op, queue, row, card, receipts, pages, upsets, seen>>
      /\ \/ summary' = summary
         \/ \E t \in {thread.v.draft, run.v.draft} : summary' = [of |-> t, model |-> TRUE]
  BY DEF Summarized
<1>3. thread.v.draft \in Nat /\ run.v.draft \in Nat /\ summary \in [of: Nat, model: BOOLEAN]
  BY <1>1 DEF TypeInv, Threads, Runs, Values
<1>4. summary' \in [of: Nat, model: BOOLEAN]
  <2>1. ASSUME NEW t \in Nat, summary' = [of |-> t, model |-> TRUE]
        PROVE  summary' \in [of: Nat, model: BOOLEAN]
    BY <2>1
  <2>. QED BY <1>2, <1>3, <2>1
<1>5. run.at = "asked" => thread.next = "summarize"
  BY <1>1 DEF PlaceInv
<1>. QED BY <1>2, <1>4, <1>5, AfterSummaryFacts

---------------------------------------------------------------------------
(* The steps after a review.                                               *)

LEMMA ReviseKeepsCourse ==
  ASSUME CourseInv, ResolveRevise
  PROVE  CourseInv'
<1>. DEFINE v == thread.v
            w == Reopened(v)
<1>1. TypeInv /\ PlaceInv /\ TextInv /\ PersistInv /\ SummarizeInv /\ EndInv
  BY DEF CourseInv
<1>2. run.at = "resolve" /\ run.v = v /\ thread.next = "end" /\ status # "new"
      /\ status \in {"running", "paused", "cancelled"}
  BY <1>1 DEF ResolveRevise, EndInv, PlaceInv, Finishing
<1>3. /\ card' = [c \in Cards |-> IF card[c] = "pending" THEN "none" ELSE card[c]]
      /\ thread' = [v |-> w, next |-> "revise", asked |-> FALSE]
      /\ run' = [run EXCEPT !.at = "graph", !.answers = Rejected]
      /\ UNCHANGED <<status, op, queue, row, summary, receipts, pages, upsets, seen>>
  BY <1>2 DEF ResolveRevise
<1>4. v \in Values /\ run \in Runs /\ card \in [Cards -> CardStates] /\ Rejected \subseteq Cards
  BY <1>1 DEF TypeInv, Threads, Rejected, CardsThat
<1>5. w \in Values /\ ~w.error /\ ~w.review
  BY <1>4, KnownValues DEF Reopened, Values
<1>6. thread' \in Threads /\ thread'.v = w /\ thread'.next = "revise" /\ ~thread'.asked
  <2>. HIDE DEF w
  <2>. QED BY <1>3, <1>5 DEF Threads, Nodes
<1>7. run' \in Runs /\ run'.at = "graph"
  BY <1>3, <1>4 DEF Runs, OnGraph
<1>8. card' \in [Cards -> CardStates]
  BY <1>3, <1>4 DEF CardStates
<1>9. TypeInv'
  BY <1>1, <1>3, <1>6, <1>7, <1>8 DEF TypeInv
<1>10. PlaceInv'
  BY <1>1, <1>2, <1>3, <1>6, <1>7 DEF PlaceInv, Finishing, Nodes
<1>11. TextInv'
  <2>. HIDE DEF w
  <2>. QED BY <1>5, <1>6 DEF TextInv, Planning, Reading
<1>12. PersistInv' /\ SummarizeInv' /\ EndInv'
  BY <1>1, <1>3, <1>6, <1>7 DEF PersistInv, SummarizeInv, EndInv
<1>. QED BY <1>9, <1>10, <1>11, <1>12 DEF CourseInv

LEMMA WaitKeepsCourse ==
  ASSUME CourseInv, ResolveWait
  PROVE  CourseInv'
<1>1. TypeInv /\ PlaceInv /\ TextInv /\ PersistInv /\ SummarizeInv /\ EndInv
  BY DEF CourseInv
<1>2. /\ run.at = "resolve" /\ End(run.msg, "awaiting_review")
      /\ UNCHANGED <<status, op, queue, thread, row, summary, card, receipts, pages, upsets, seen>>
  BY DEF ResolveWait
<1>3. run.msg \in Messages
  BY <1>1 DEF TypeInv, Runs
<1>4. run' \in Runs /\ run'.at = "settle"
  BY <1>2, <1>3, EndFacts DEF Outs
<1>5. TypeInv'
  BY <1>1, <1>2, <1>4 DEF TypeInv
<1>6. PlaceInv'
  BY <1>1, <1>2, <1>4 DEF PlaceInv, Finishing
<1>7. TextInv' /\ PersistInv' /\ SummarizeInv' /\ EndInv'
  BY <1>1, <1>2, <1>4, SameCourse
<1>. QED BY <1>5, <1>6, <1>7 DEF CourseInv

LEMMA MaskedFacts ==
  ASSUME NEW v \in Values
  PROVE  /\ Masked(v) \in Values /\ Masked(v).draft = v.draft /\ ~Blocked(Masked(v))
         /\ ~Masked(v).review /\ Masked(v).error = v.error
<1>. DEFINE w == Masked(v)
<1>1. /\ w \in Values /\ w.draft = v.draft /\ w.error = v.error /\ w.report = NoReport
      /\ w.verdict = NoVerdict /\ ~w.review /\ w.cards = {}
  BY KnownValues DEF Masked, Values
<1>. HIDE DEF w
<1>2. ~Blocked(w)
  BY <1>1 DEF Blocked, NoReport, NoVerdict
<1>. QED BY <1>1, <1>2 DEF w

LEMMA AcceptKeepsCourse ==
  ASSUME CourseInv, ResolveAccept
  PROVE  CourseInv'
<1>. DEFINE v == thread.v
            w == Masked(v)
<1>1. TypeInv /\ PlaceInv /\ TextInv /\ PersistInv /\ SummarizeInv /\ EndInv
  BY DEF CourseInv
<1>2. run.at = "resolve" /\ run.v = v /\ v.draft # 0 /\ thread.next = "end" /\ status # "new"
      /\ status \in {"running", "paused", "cancelled"} /\ (UnderReview \/ v.review)
  BY <1>1 DEF ResolveAccept, EndInv, PlaceInv, Finishing
<1>3. /\ PersistOnce(w) /\ run' = [run EXCEPT !.at = "mark", !.v.review = FALSE]
      /\ UNCHANGED <<status, op, queue, thread, pages, upsets, seen>>
  BY <1>2 DEF ResolveAccept
<1>4. v \in Values /\ run \in Runs /\ run.v \in Values /\ receipts \subseteq Values
  BY <1>1 DEF TypeInv, Threads, Runs
<1>5. w \in Values /\ w.draft = v.draft /\ ~Blocked(w)
  BY <1>4, MaskedFacts
<1>6. /\ receipts' = receipts \cup {w}
      /\ row' \in Rows /\ card' \in [Cards -> CardStates]
      /\ summary' \in [of: Nat, model: BOOLEAN]
      /\ w \in receipts => row' = row
      /\ w \notin receipts => row'.text = v.draft /\ row'.status = "confirmed"
  <2>. HIDE DEF w
  <2>. QED BY <1>1, <1>2, <1>3, <1>5, PersistFacts
<1>7. run' \in Runs /\ run'.at = "mark" /\ ~run'.v.review
  <2>1. [run.v EXCEPT !.review = FALSE] \in Values
    BY <1>4 DEF Values
  <2>2. run' = [run EXCEPT !.at = "mark", !.v = [run.v EXCEPT !.review = FALSE]]
    BY <1>3, <1>4 DEF Runs
  <2>. QED BY <1>4, <2>1, <2>2 DEF Runs, Finishing, Values
<1>8. TypeInv'
  <2>. HIDE DEF w
  <2>. QED BY <1>1, <1>3, <1>4, <1>5, <1>6, <1>7 DEF TypeInv
<1>9. PlaceInv'
  BY <1>1, <1>2, <1>3, <1>7 DEF PlaceInv, Finishing
<1>10. TextInv'
  BY <1>1, <1>2, <1>3 DEF TextInv, Planning, Reading
<1>11. PersistInv' /\ SummarizeInv'
  BY <1>2, <1>3 DEF PersistInv, SummarizeInv
<1>12. EndInv'
  <2>1. v.review => row'.status = "confirmed"
    <3>. HIDE DEF v
    <3>1. thread.next = "end" /\ v.review /\ w \in receipts => row.status = "confirmed"
      BY <1>1 DEF EndInv, v
    <3>. QED BY <1>2, <1>6, <3>1
  <2>2. row'.status \in {"confirmed", "awaiting_review"} => row'.text # 0
    BY <1>1, <1>2, <1>6 DEF EndInv
  <2>3. w \in receipts' /\ thread'.v = v
    BY <1>3, <1>6
  <2>. QED BY <1>2, <1>3, <1>7, <2>1, <2>2, <2>3 DEF EndInv
<1>. QED BY <1>8, <1>9, <1>10, <1>11, <1>12 DEF CourseInv

LEMMA MarkFacts ==
  ASSUME TypeInv, Mark
  PROVE  \E x \in Nat : LET w == [run.v EXCEPT !.finalizing = TRUE, !.version = x]
                        IN /\ thread' = [v |-> w, next |-> "end", asked |-> FALSE]
                           /\ run' = [run EXCEPT !.at = "summary", !.v = w]
                           /\ w \in Values /\ thread' \in Threads /\ run' \in Runs
<1>. DEFINE x == IF row.status = "confirmed" /\ row.text = run.v.draft THEN row.version ELSE 0
            w == [run.v EXCEPT !.finalizing = TRUE, !.version = x]
<1>1. x \in Nat /\ run \in Runs /\ run.v \in Values
  BY DEF TypeInv, Rows, Runs
<1>2. thread' = [v |-> w, next |-> "end", asked |-> FALSE] /\ run' = [run EXCEPT !.at = "summary", !.v = w]
  BY DEF Mark
<1>. HIDE DEF x
<1>3. w \in Values
  BY <1>1 DEF Values
<1>4. thread' \in Threads /\ run' \in Runs
  <2>. HIDE DEF w
  <2>. QED BY <1>1, <1>2, <1>3 DEF Threads, Runs, Finishing
<1>. QED BY <1>1, <1>2, <1>3, <1>4

LEMMA MarkKeepsCourse ==
  ASSUME CourseInv, Mark
  PROVE  CourseInv'
<1>1. TypeInv /\ PlaceInv /\ TextInv /\ PersistInv /\ SummarizeInv /\ EndInv
  BY DEF CourseInv
<1>2. PICK x \in Nat : LET w == [run.v EXCEPT !.finalizing = TRUE, !.version = x]
                       IN /\ thread' = [v |-> w, next |-> "end", asked |-> FALSE]
                          /\ run' = [run EXCEPT !.at = "summary", !.v = w]
                          /\ w \in Values /\ thread' \in Threads /\ run' \in Runs
  BY <1>1, MarkFacts
<1>3. /\ run.at = "mark" /\ UNCHANGED <<status, op, queue, row, summary, card, receipts, pages, upsets, seen>>
  BY DEF Mark
<1>4. run \in Runs /\ run.v \in Values /\ ~run.v.review /\ status # "new"
      /\ status \in {"running", "paused", "cancelled"}
  BY <1>1, <1>3 DEF TypeInv, Runs, EndInv, PlaceInv
<1>5. thread'.next = "end" /\ ~thread'.asked /\ ~thread'.v.review /\ run'.at = "summary"
  BY <1>2, <1>4 DEF Values, Runs
<1>6. TypeInv'
  BY <1>1, <1>2, <1>3 DEF TypeInv
<1>7. PlaceInv'
  BY <1>1, <1>3, <1>4, <1>5 DEF PlaceInv, Finishing
<1>8. TextInv'
  BY <1>5 DEF TextInv, Planning, Reading
<1>9. PersistInv' /\ SummarizeInv' /\ EndInv'
  BY <1>1, <1>3, <1>5 DEF PersistInv, SummarizeInv, EndInv
<1>. QED BY <1>6, <1>7, <1>8, <1>9 DEF CourseInv

LEMMA CloseFacts ==
  ASSUME TypeInv, Close
  PROVE  LET w == [run.v EXCEPT !.review = FALSE, !.finalizing = FALSE]
         IN /\ thread' = [thread EXCEPT !.v = w] /\ w \in Values
            /\ run' = [run EXCEPT !.at = "settle", !.out = Outcome(w)]
            /\ Outcome(w) \in {"done", "failed"}
            /\ Outcome(w) = "done" <=> ~run.v.error
            /\ thread' \in Threads /\ run' \in Runs
<1>. DEFINE w == [run.v EXCEPT !.review = FALSE, !.finalizing = FALSE]
<1>1. run \in Runs /\ run.v \in Values /\ thread \in Threads
  BY DEF TypeInv, Runs
<1>2. thread' = [thread EXCEPT !.v = w] /\ run' = [run EXCEPT !.at = "settle", !.out = Outcome(w)]
  BY DEF Close
<1>3. w \in Values /\ ~w.review /\ w.error = run.v.error
  BY <1>1 DEF Values
<1>4. Outcome(w) \in {"done", "failed"} /\ (Outcome(w) = "done" <=> ~run.v.error)
  <2>. HIDE DEF w
  <2>. QED BY <1>3 DEF Outcome
<1>5. thread' \in Threads /\ run' \in Runs
  <2>. HIDE DEF w
  <2>. QED BY <1>1, <1>2, <1>3, <1>4 DEF Threads, Runs, Outs
<1>. QED BY <1>2, <1>3, <1>4, <1>5

LEMMA CloseKeepsCourse ==
  ASSUME CourseInv, Close
  PROVE  CourseInv'
<1>. DEFINE w == [run.v EXCEPT !.review = FALSE, !.finalizing = FALSE]
<1>1. TypeInv /\ PlaceInv /\ TextInv /\ PersistInv /\ SummarizeInv /\ EndInv
  BY DEF CourseInv
<1>2. /\ run.at = "close" /\ UNCHANGED <<status, op, queue, row, summary, card, receipts, pages, upsets, seen>>
  BY DEF Close
<1>3. /\ thread' = [thread EXCEPT !.v = w] /\ w \in Values
      /\ run' = [run EXCEPT !.at = "settle", !.out = Outcome(w)]
      /\ thread' \in Threads /\ run' \in Runs
  BY <1>1, CloseFacts
<1>4. run \in Runs /\ thread \in Threads /\ thread.next = "end" /\ ~thread.asked /\ status # "new"
      /\ status \in {"running", "paused", "cancelled"} /\ ~w.review
  BY <1>1, <1>2 DEF TypeInv, PlaceInv, Finishing, Runs, Values
<1>. HIDE DEF w
<1>5. run'.at = "settle" /\ thread'.v = w /\ thread'.next = "end" /\ thread'.asked = thread.asked
  BY <1>3, <1>4 DEF Runs, Threads
<1>6. TypeInv'
  BY <1>1, <1>2, <1>3 DEF TypeInv
<1>7. PlaceInv'
  BY <1>1, <1>2, <1>4, <1>5 DEF PlaceInv, Finishing
<1>8. TextInv'
  BY <1>4, <1>5 DEF TextInv, Planning, Reading
<1>9. PersistInv' /\ SummarizeInv' /\ EndInv'
  BY <1>1, <1>2, <1>4, <1>5 DEF PersistInv, SummarizeInv, EndInv
<1>. QED BY <1>6, <1>7, <1>8, <1>9 DEF CourseInv

---------------------------------------------------------------------------
(* The end of a run, and the author.                                       *)

LEMMA EndRevisionKeepsCourse ==
  ASSUME CourseInv, EndRevision
  PROVE  CourseInv'
<1>1. TypeInv /\ PlaceInv /\ TextInv /\ PersistInv /\ SummarizeInv /\ EndInv
  BY DEF CourseInv
<1>2. /\ run.at = "ended"
      /\ card' = [c \in Cards |-> IF c \in run.answers /\ ~thread.v.error THEN "applied" ELSE card[c]]
      /\ run' = IF thread.v.review THEN [run EXCEPT !.at = "settle", !.out = "awaiting_review"]
                ELSE [run EXCEPT !.at = "mark", !.v = thread.v]
      /\ UNCHANGED <<status, op, queue, thread, row, summary, receipts, pages, upsets, seen>>
  BY DEF EndRevision
<1>3. run \in Runs /\ thread.v \in Values /\ card \in [Cards -> CardStates]
      /\ (thread.next = "end" \/ thread.asked)
  BY <1>1, <1>2 DEF TypeInv, PlaceInv, Threads
<1>4. /\ run' \in Runs /\ run'.at \in {"settle", "mark"}
      /\ run'.at = "mark" => ~run'.v.review
  BY <1>2, <1>3 DEF Runs, Outs, Finishing
<1>5. card' \in [Cards -> CardStates]
  BY <1>2, <1>3 DEF CardStates
<1>6. TypeInv'
  BY <1>1, <1>2, <1>4, <1>5 DEF TypeInv
<1>7. PlaceInv'
  BY <1>1, <1>2, <1>3, <1>4 DEF PlaceInv, Finishing
<1>8. TextInv' /\ PersistInv' /\ SummarizeInv' /\ EndInv'
  BY <1>1, <1>2, <1>4, SameCourse
<1>. QED BY <1>6, <1>7, <1>8 DEF CourseInv

LEMMA EndGraphFacts ==
  ASSUME TypeInv, EndGraph
  PROVE  /\ run.at = "ended" /\ run.answers = {} /\ ~Fenced
         /\ UNCHANGED <<status, op, queue, thread, row, summary, card, receipts, pages, upsets, seen>>
         /\ run' \in Runs /\ run'.at = "settle" /\ run'.msg = run.msg /\ run'.plan = run.plan
         /\ run'.first = run.first /\ run'.answers = run.answers /\ run'.v = run.v
         /\ run'.out = IF thread.asked /\ run.first THEN "awaiting_plan" ELSE Outcome(thread.v)
<1>. DEFINE o == IF thread.asked /\ run.first THEN "awaiting_plan" ELSE Outcome(thread.v)
<1>1. run \in Runs
  BY DEF TypeInv
<1>2. o \in Outs
  BY DEF Outcome, Outs
<1>3. run' = [run EXCEPT !.at = "settle", !.out = o]
  BY DEF EndGraph
<1>. HIDE DEF o
<1>4. /\ run' \in Runs /\ run'.at = "settle" /\ run'.msg = run.msg /\ run'.plan = run.plan
      /\ run'.first = run.first /\ run'.answers = run.answers /\ run'.v = run.v /\ run'.out = o
  BY <1>1, <1>2, <1>3 DEF Runs
<1>5. /\ run.at = "ended" /\ run.answers = {} /\ ~Fenced
      /\ UNCHANGED <<status, op, queue, thread, row, summary, card, receipts, pages, upsets, seen>>
  BY DEF EndGraph
<1>. QED BY <1>4, <1>5 DEF o

LEMMA EndGraphKeepsCourse ==
  ASSUME CourseInv, EndGraph
  PROVE  CourseInv'
<1>1. TypeInv /\ PlaceInv /\ TextInv /\ PersistInv /\ SummarizeInv /\ EndInv
  BY DEF CourseInv
<1>2. /\ run.at = "ended"
      /\ UNCHANGED <<status, op, queue, thread, row, summary, card, receipts, pages, upsets, seen>>
      /\ run' \in Runs /\ run'.at = "settle"
  BY <1>1, EndGraphFacts
<1>3. TypeInv'
  BY <1>1, <1>2 DEF TypeInv
<1>4. PlaceInv'
  BY <1>1, <1>2 DEF PlaceInv, Finishing
<1>5. TextInv' /\ PersistInv' /\ SummarizeInv' /\ EndInv'
  BY <1>1, <1>2, SameCourse
<1>. QED BY <1>3, <1>4, <1>5 DEF CourseInv

LEMMA SettleFacts ==
  ASSUME TypeInv, PlaceInv, Settle
  PROVE  /\ run.at = "settle" /\ run' = Idle
         /\ UNCHANGED <<op, queue, thread, summary, card, receipts, pages, upsets>>
         /\ status' = Settled(run.out) /\ status' \in Statuses \ {"new", "queued", "running", "paused"}
         /\ row' \in Rows
         /\ row' = row \/ (row.text = 0 /\ row'.text = 0 /\ row'.version = row.version
                           /\ row'.status = "failed")
         /\ seen' \in Histories
         /\ IF status' = "awaiting_review"
            THEN /\ seen'.shown = seen.shown \cup {row.text} /\ seen'.passed = seen.passed
                 /\ seen'.accepted = seen.accepted /\ seen'.refused = seen.refused
                 /\ seen'.approved = seen.approved
            ELSE seen' = seen
<1>1. run \in Runs /\ row \in Rows /\ seen \in Histories /\ row.text \in Nat
  BY DEF TypeInv, Rows
<1>2. /\ run.at = "settle" /\ run' = Idle
      /\ UNCHANGED <<op, queue, thread, summary, card, receipts, pages, upsets>>
      /\ status' = Settled(run.out)
  BY DEF Settle
<1>3. status' \in Statuses \ {"new", "queued", "running", "paused"}
  BY <1>1, <1>2 DEF Settled, Runs, Outs, Statuses
<1>4. row' \in Rows /\ (row' = row \/ (row.text = 0 /\ row'.text = 0 /\ row'.version = row.version
                                       /\ row'.status = "failed"))
  BY <1>1 DEF Settle, EmptyRow, Rows, RowStates
<1>5. /\ seen' \in Histories
      /\ IF status' = "awaiting_review"
         THEN /\ seen'.shown = seen.shown \cup {row.text} /\ seen'.passed = seen.passed
              /\ seen'.accepted = seen.accepted /\ seen'.refused = seen.refused
              /\ seen'.approved = seen.approved
         ELSE seen' = seen
  BY <1>1 DEF Settle, Histories
<1>. QED BY <1>2, <1>3, <1>4, <1>5

LEMMA SettleKeepsCourse ==
  ASSUME CourseInv, Settle
  PROVE  CourseInv'
<1>1. TypeInv /\ PlaceInv /\ TextInv /\ PersistInv /\ SummarizeInv /\ EndInv
  BY DEF CourseInv
<1>2. /\ run.at = "settle" /\ run' = Idle
      /\ UNCHANGED <<op, queue, thread, summary, card, receipts, pages, upsets>>
      /\ status' \in Statuses \ {"new", "queued", "running", "paused"}
      /\ row' \in Rows
      /\ row' = row \/ (row.text = 0 /\ row'.text = 0 /\ row'.status = "failed")
      /\ seen' \in Histories
      /\ seen.passed \subseteq seen'.passed
      /\ seen'.shown \subseteq seen.shown \cup {row.text}
      /\ seen'.refused \subseteq seen.refused \cup {row.text}
  BY <1>1, SettleFacts
<1>3. run' \in Runs /\ run'.at = "idle" /\ status # "new"
  BY <1>1, <1>2, IdleFacts DEF PlaceInv
<1>4. TypeInv'
  BY <1>1, <1>2, <1>3 DEF TypeInv
<1>5. PlaceInv'
  BY <1>1, <1>2, <1>3 DEF PlaceInv, Finishing
<1>6. TextInv' /\ PersistInv' /\ SummarizeInv' /\ EndInv'
  BY <1>1, <1>2, <1>3, SameCourse
<1>. QED BY <1>4, <1>5, <1>6 DEF CourseInv

(* The run is over, and nothing else has changed but the status of the     *)
(* task and its messages.                                                  *)
LEMMA HaltKeepsCourse ==
  ASSUME CourseInv, Stop \/ Fault
  PROVE  CourseInv'
<1>1. TypeInv /\ PlaceInv /\ TextInv /\ PersistInv /\ SummarizeInv /\ EndInv
  BY DEF CourseInv
<1>2. run \in Runs /\ run.msg \in Messages
  BY <1>1 DEF TypeInv, Runs
<1>3. /\ run' = Idle /\ run.at # "idle"
      /\ UNCHANGED <<op, thread, row, summary, card, receipts, pages, seen>>
      /\ queue' \in {queue, queue \cup {run.msg}}
      /\ status' \in {status, "paused"}
  BY DEF Stop, Fault, Fenced
<1>4. run' \in Runs /\ run'.at = "idle" /\ status # "new" /\ status' \in Statuses
  BY <1>1, <1>3, IdleFacts DEF PlaceInv, TypeInv, Statuses
<1>5. queue' \subseteq Messages
  BY <1>1, <1>2, <1>3 DEF TypeInv
<1>6. TypeInv'
  BY <1>1, <1>3, <1>4, <1>5 DEF TypeInv
<1>7. PlaceInv'
  BY <1>1, <1>3, <1>4 DEF PlaceInv, Finishing
<1>8. TextInv' /\ PersistInv' /\ SummarizeInv' /\ EndInv'
  BY <1>1, <1>3, <1>4, SameCourse
<1>. QED BY <1>6, <1>7, <1>8 DEF CourseInv

(* Orders of the author that only touch the task's row and its messages.   *)
LEMMA OrderKeepsCourse ==
  ASSUME CourseInv, Pause \/ Cancel \/ Resume \/ \E i \in DOMAIN pages : ConfirmPlan(i)
  PROVE  CourseInv'
<1>1. TypeInv /\ PlaceInv /\ TextInv /\ PersistInv /\ SummarizeInv /\ EndInv
  BY DEF CourseInv
<1>2. /\ status \in Statuses /\ op \in Nat /\ queue \subseteq Messages /\ row \in Rows
      /\ run \in Runs /\ row.text \in Nat /\ seen \in Histories
  BY <1>1 DEF TypeInv, Rows
<1>3. CASE Pause \/ Cancel
  <2>1. /\ status # "new" /\ status' \in {"paused", "cancelled"}
        /\ UNCHANGED <<op, queue, thread, run, summary, card, receipts, pages, seen>>
    BY <1>3 DEF Pause, Cancel
  <2>2. /\ row' \in Rows
        /\ row' = row \/ (row.text = 0 /\ row'.text = 0 /\ row'.status = "cancelled")
    BY <1>2, <1>3 DEF Pause, Cancel, EmptyRow, Rows, RowStates
  <2>3. TypeInv'
    BY <1>1, <2>1, <2>2 DEF TypeInv, Statuses
  <2>4. PlaceInv'
    <3>1. row.status = "confirmed" => row'.status = "confirmed"
      BY <1>1, <2>2 DEF EndInv
    <3>. QED BY <1>1, <2>1, <3>1 DEF PlaceInv, Finishing
  <2>5. TextInv' /\ PersistInv' /\ SummarizeInv' /\ EndInv'
    <3>1. run'.at = "mark" => ~run'.v.review
      BY <1>1, <2>1 DEF EndInv
    <3>2. run'.at = "resolve" => /\ run'.v = thread.v /\ thread.v.draft # 0
                                 /\ UnderReview \/ thread.v.review
                                 /\ ~thread.v.finalizing
      BY <1>1, <2>1 DEF EndInv
    <3>. QED BY <1>1, <2>1, <2>2, <3>1, <3>2, SameCourse
  <2>. QED BY <2>3, <2>4, <2>5 DEF CourseInv
<1>4. ASSUME NEW m \in Messages, queue' = queue \cup {m}, status' = "queued", run.at = "idle",
             op' \in Nat, seen' \in Histories, status # "new",
             UNCHANGED <<thread, run, row, summary, card, receipts, pages>>,
             seen'.passed = seen.passed, seen'.shown = seen.shown, seen'.refused = seen.refused
      PROVE  CourseInv'
  <2>1. TypeInv'
    BY <1>1, <1>4 DEF TypeInv, Statuses
  <2>2. PlaceInv'
    BY <1>1, <1>4 DEF PlaceInv, Finishing
  <2>3. TextInv' /\ PersistInv' /\ SummarizeInv' /\ EndInv'
    BY <1>1, <1>4, SameCourse
  <2>. QED BY <2>1, <2>2, <2>3 DEF CourseInv
<1>5. CASE Resume
  <2>. DEFINE m == [Generate EXCEPT !.type = "resume", !.op = op + 1]
              X == seen.accepted \cup (seen.shown \cap {row.text})
  <2>1. op + 1 \in Nat /\ X \in SUBSET Nat
    BY <1>2 DEF Histories
  <2>2. m \in Messages
    BY <2>1 DEF Generate, Messages
  <2>3. seen' = [seen EXCEPT !.accepted = X]
    BY <1>5 DEF Resume
  <2>4. seen' \in Histories /\ seen'.passed = seen.passed /\ seen'.shown = seen.shown
        /\ seen'.refused = seen.refused
    <3>. HIDE DEF X
    <3>. QED BY <1>1, <1>2, <2>1, <2>3 DEF Histories
  <2>5. /\ queue' = queue \cup {m} /\ status' = "queued" /\ run.at = "idle" /\ op' = op + 1
        /\ status # "new" /\ UNCHANGED <<thread, run, row, summary, card, receipts, pages>>
    BY <1>5 DEF Resume
  <2>. HIDE DEF m
  <2>. QED BY <1>4, <2>1, <2>2, <2>4, <2>5
<1>6. CASE \E i \in DOMAIN pages : ConfirmPlan(i)
  <2>0. PICK i \in DOMAIN pages : ConfirmPlan(i)
    BY <1>6
  <2>. DEFINE m == [type |-> "plan", attempt |-> pages[i].attempt, plan |-> pages[i].plan, op |-> op]
              X == seen.approved \cup {pages[i].plan}
  <2>1. pages[i] \in [attempt: Nat, plan: Nat]
    <3>. DEFINE S == [attempt: Nat, plan: Nat]
    <3>1. pages \in Seq(S)
      BY <1>1 DEF TypeInv
    <3>. HIDE DEF S
    <3>2. pages[i] \in S
      BY <2>0, <3>1
    <3>. QED BY <3>2 DEF S
  <2>2. m \in Messages /\ X \in SUBSET Nat
    BY <1>2, <2>1 DEF Messages, Histories
  <2>3. seen' = [seen EXCEPT !.approved = X]
    BY <2>0 DEF ConfirmPlan
  <2>4. seen' \in Histories /\ seen'.passed = seen.passed /\ seen'.shown = seen.shown
        /\ seen'.refused = seen.refused
    <3>. HIDE DEF X
    <3>. QED BY <1>2, <2>2, <2>3 DEF Histories
  <2>5. /\ queue' = queue \cup {m} /\ status' = "queued" /\ op' = op
        /\ status = "awaiting_plan" /\ UNCHANGED <<thread, run, row, summary, card, receipts, pages>>
    BY <2>0 DEF ConfirmPlan
  <2>6. run.at = "idle"
    BY <1>1, <2>5 DEF PlaceInv
  <2>. HIDE DEF m
  <2>. QED BY <1>2, <1>4, <2>2, <2>4, <2>5, <2>6
<1>. QED BY <1>3, <1>5, <1>6

LEMMA JudgeKeepsCourse ==
  ASSUME CourseInv, NEW c \in Cards, NEW d \in {"confirmed", "barred", "revise"}, Judge(c, d)
  PROVE  CourseInv'
<1>1. TypeInv /\ PlaceInv /\ TextInv /\ PersistInv /\ SummarizeInv /\ EndInv
  BY DEF CourseInv
<1>2. /\ card' = [card EXCEPT ![c] = d]
      /\ seen' = IF d = "revise" THEN [seen EXCEPT !.refused = @ \cup {row.text}] ELSE seen
      /\ UNCHANGED <<status, op, queue, thread, run, row, summary, receipts, pages, upsets>>
  BY DEF Judge
<1>3. card' \in [Cards -> CardStates]
  BY <1>1, <1>2 DEF TypeInv, CardStates
<1>4. /\ seen' \in Histories /\ seen'.passed = seen.passed /\ seen'.shown = seen.shown
      /\ seen'.refused \subseteq seen.refused \cup {row.text}
  BY <1>1, <1>2 DEF TypeInv, Histories, Rows
<1>5. TypeInv'
  BY <1>1, <1>2, <1>3, <1>4 DEF TypeInv
<1>6. PlaceInv'
  BY <1>1, <1>2 DEF PlaceInv, Finishing
<1>7. /\ run'.at = "mark" => ~run'.v.review
      /\ run'.at = "resolve" => /\ run'.v = thread.v /\ thread.v.draft # 0
                                /\ UnderReview \/ thread.v.review
                                /\ ~thread.v.finalizing
  BY <1>1, <1>2 DEF EndInv
<1>8. TextInv' /\ PersistInv' /\ SummarizeInv' /\ EndInv'
  BY <1>1, <1>2, <1>4, <1>7, SameCourse
<1>. QED BY <1>5, <1>6, <1>8 DEF CourseInv

LEMMA EditFacts ==
  ASSUME TypeInv, Edit
  PROVE  /\ row.status = "confirmed" /\ row'.status = "confirmed"
         /\ row' \in Rows /\ row'.text # row.text /\ row'.text # 0
         /\ seen' \in Histories
         /\ thread.v.draft # row'.text
         /\ \A t \in {thread.v.draft, row.text} :
              /\ t \in seen'.passed <=> t \in seen.passed
              /\ t \in seen'.shown <=> t \in seen.shown
              /\ t \in seen'.accepted <=> t \in seen.accepted
              /\ t \in seen'.refused <=> t \in seen.refused
         /\ row'.text \in seen'.passed
         /\ row'.text \notin seen'.shown \cup seen'.refused \cup seen'.accepted
         /\ seen'.refused \subseteq seen.refused
         /\ seen'.approved = seen.approved
         /\ UNCHANGED <<status, op, queue, thread, run, summary, card, receipts, pages>>
<1>1. row \in Rows /\ row.version + 1 \in Nat /\ seen \in Histories
  BY DEF TypeInv, Rows
<1>2. FreshText \in 1..5 /\ FreshText \notin Held /\ thread.v.draft \in Held /\ row.text \in Held
  BY FreshIsNew DEF Held
<1>3. /\ row.status = "confirmed" /\ row' = [row EXCEPT !.text = FreshText, !.version = @ + 1]
      /\ seen' = [HeldOf(seen) EXCEPT !.passed = @ \cup {FreshText}]
      /\ UNCHANGED <<status, op, queue, thread, run, summary, card, receipts, pages>>
  BY DEF Edit
<1>4. row' \in Rows /\ row'.text = FreshText /\ row'.status = "confirmed"
  <2>1. FreshText \in Nat
    BY <1>2
  <2>2. row' = [row EXCEPT !.text = FreshText, !.version = row.version + 1]
    BY <1>3
  <2>. QED BY <1>1, <1>3, <2>1, <2>2 DEF Rows
<1>. DEFINE h == HeldOf(seen)
<1>5. /\ h \in Histories /\ h.passed = seen.passed \cap Held /\ h.shown = seen.shown \cap Held
      /\ h.accepted = seen.accepted \cap Held /\ h.refused = seen.refused \cap Held
      /\ h.approved = seen.approved
  BY HeldTypes
<1>6. seen' = [h EXCEPT !.passed = h.passed \cup {FreshText}]
  BY <1>3
<1>. HIDE DEF h
<1>7. /\ seen' \in Histories /\ seen'.passed = h.passed \cup {FreshText} /\ seen'.shown = h.shown
      /\ seen'.accepted = h.accepted /\ seen'.refused = h.refused /\ seen'.approved = h.approved
  BY <1>2, <1>5, <1>6 DEF Histories
<1>. QED BY <1>2, <1>3, <1>4, <1>5, <1>7

LEMMA EditKeepsCourse ==
  ASSUME CourseInv, Edit
  PROVE  CourseInv'
<1>. DEFINE v == thread.v
<1>1. TypeInv /\ PlaceInv /\ TextInv /\ PersistInv /\ SummarizeInv /\ EndInv
  BY DEF CourseInv
<1>2. /\ row.status = "confirmed" /\ row'.status = "confirmed"
      /\ row' \in Rows /\ row'.text # 0 /\ seen' \in Histories /\ v.draft # row'.text
      /\ v.draft \in seen'.passed <=> v.draft \in seen.passed
      /\ v.draft \in seen'.shown <=> v.draft \in seen.shown
      /\ v.draft \in seen'.refused <=> v.draft \in seen.refused
      /\ UNCHANGED <<status, op, queue, thread, run, summary, card, receipts, pages>>
  BY <1>1, EditFacts
<1>3. TypeInv'
  BY <1>1, <1>2 DEF TypeInv
<1>4. PlaceInv'
  BY <1>1, <1>2 DEF PlaceInv, Finishing
<1>5. Unseen(v.draft) => Unseen(v.draft)'
  BY <1>2 DEF Unseen
<1>6. TextInv'
  BY <1>1, <1>2, <1>5 DEF TextInv
<1>7. PersistInv' /\ SummarizeInv' /\ EndInv'
  BY <1>1, <1>2, <1>5 DEF PersistInv, SummarizeInv, EndInv, UnderReview
<1>. QED BY <1>3, <1>4, <1>6, <1>7 DEF CourseInv

LEMMA InitCourse == Init => CourseInv
<1>. SUFFICES ASSUME Init PROVE CourseInv
  OBVIOUS
<1>1. PICK i \in Inputs :
        /\ status = "new" /\ op = 0 /\ queue = {Generate}
        /\ thread = [v |-> Input(i.manual, i.rewrite, i.asked, FALSE), next |-> "none", asked |-> FALSE]
        /\ run = Idle
        /\ row = IF i.rewrite THEN [status |-> "confirmed", text |-> 1, version |-> 1]
                 ELSE [status |-> "absent", text |-> 0, version |-> 0]
        /\ summary = [of |-> row.text, model |-> FALSE]
        /\ card = [c \in Cards |-> "none"]
        /\ receipts = {} /\ pages = <<>>
        /\ seen = [passed |-> {1}, shown |-> {}, accepted |-> {}, refused |-> {}, approved |-> {}]
  BY DEF Init
<1>. DEFINE v == Input(i.manual, i.rewrite, i.asked, FALSE)
<1>2. v \in Values /\ v.draft = 0 /\ ~v.review /\ ~v.error
  BY InitialFacts DEF Input
<1>3. thread = [v |-> v, next |-> "none", asked |-> FALSE]
  BY <1>1
<1>. HIDE DEF v
<1>4. thread \in Threads
  BY <1>2, <1>3 DEF Threads
<1>5. row \in Rows /\ row.text \in Nat
  BY <1>1 DEF Rows, RowStates
<1>6. TypeInv
  BY <1>1, <1>4, <1>5, IdleFacts DEF TypeInv, Statuses, CardStates, Histories
<1>7. PlaceInv
  BY <1>1, <1>3, IdleFacts DEF PlaceInv, OnGraph, Finishing, Nodes
<1>8. TextInv /\ PersistInv /\ SummarizeInv
  BY <1>2, <1>3 DEF TextInv, PersistInv, SummarizeInv, Planning, Reading
<1>9. EndInv
  BY <1>1, <1>3, IdleFacts DEF EndInv
<1>. QED BY <1>6, <1>7, <1>8, <1>9 DEF CourseInv

LEMMA StutterKeepsCourse ==
  ASSUME CourseInv, UNCHANGED vars
  PROVE  CourseInv'
<1>1. UNCHANGED <<status, op, queue, thread, run, row, summary, card, receipts, pages, upsets, seen>>
  BY DEF vars
<1>. QED BY <1>1 DEF CourseInv, TypeInv, PlaceInv, TextInv, PersistInv, SummarizeInv, EndInv,
                    Unseen, UnderReview, Blocked, Masked

LEMMA NextKeepsCourse ==
  ASSUME CourseInv, [Next]_vars
  PROVE  CourseInv'
<1>1. \A n : n \in Nodes \ {"plan_gate", "persist", "summarize"} <=> n \in Computing
  BY DEF Computing
<1>. QED
  BY <1>1, TakeKeepsCourse, ComputeKeepsCourse, GateKeepsCourse, PersistKeepsCourse,
     CheckpointKeepsCourse, SummarizeKeepsCourse, SummarizedKeepsCourse, ReviseKeepsCourse,
     WaitKeepsCourse, AcceptKeepsCourse, MarkKeepsCourse, CloseKeepsCourse,
     EndRevisionKeepsCourse, EndGraphKeepsCourse, SettleKeepsCourse, HaltKeepsCourse,
     OrderKeepsCourse, JudgeKeepsCourse, EditKeepsCourse, StutterKeepsCourse
  DEF Next, Work, Author

(* The task's state stays typed, and text, row and receipts agree at every *)
(* checkpoint.                                                             *)
THEOREM CourseHolds == Spec => []CourseInv
<1>. USE DEF vars
<1>1. Init => CourseInv
  BY InitCourse
<1>2. CourseInv /\ [Next]_vars => CourseInv'
  BY NextKeepsCourse
<1>. QED BY <1>1, <1>2, PTL DEF Spec

(* A chapter gets a new version only with a new text, also when a run that *)
(* was cut short persists again (save_chapter, effect receipts).           *)
THEOREM VersionIsNewTextHolds == Spec => VersionIsNewText
<1>1. ASSUME CourseInv, [Next]_vars, row'.version > row.version, row.version > 0
      PROVE  row'.text # row.text
  <2>1. TypeInv /\ PlaceInv /\ TextInv /\ PersistInv /\ SummarizeInv /\ EndInv
    BY <1>1 DEF CourseInv
  <2>2. row \in Rows /\ row.version \in Nat /\ row.text \in Nat /\ ~(row.version > row.version)
    BY <2>1 DEF TypeInv, Rows
  <2>3. CASE \E m \in queue : Take(m)
    <3>1. PICK m \in queue : Take(m)
      BY <2>3
    <3>2. row' = row \/ row'.version = 1
      BY <2>1, <3>1, Taken DEF StartsAnew, StartsAgain, GoesOn, GoesOnWithPlan, FindsEnd,
         FindsNothing, FindsReview
    <3>. QED BY <1>1, <2>2, <3>2
  <2>4. CASE \E n \in Nodes \ {"plan_gate", "persist", "summarize"} : Compute(n)
    <3>1. row' = row
      BY <2>4 DEF Compute
    <3>. QED BY <1>1, <2>2, <3>1
  <2>5. CASE Gate
    <3>1. \E s \in {"writing"} : row' = row \/ row' = [row EXCEPT !.status = s]
      BY <2>5 DEF Gate
    <3>2. row'.version = row.version
      BY <2>2, <3>1 DEF Rows
    <3>. QED BY <1>1, <2>2, <3>2
  <2>6. CASE Persist
    <3>. DEFINE v == thread.v
    <3>1. v \in Values /\ thread.next = "persist" /\ PersistOnce(v)
      BY <2>1, <2>6 DEF Persist, AtNode, TypeInv, Threads
    <3>2. v.draft # 0 /\ (v \notin receipts => row.text # v.draft)
      BY <2>1, <3>1 DEF PersistInv, Unseen
    <3>3. row' = row \/ (v \notin receipts /\ row'.text = v.draft)
      BY <2>1, <3>1, <3>2, PersistFacts
    <3>. QED BY <1>1, <2>2, <3>2, <3>3
  <2>7. CASE ResolveAccept
    <3>. DEFINE v == thread.v
                w == Masked(v)
    <3>1. run.at = "resolve" /\ run.v = v /\ thread.next = "end" /\ v.draft # 0 /\ (UnderReview \/ v.review)
      BY <2>1, <2>7 DEF ResolveAccept, EndInv, PlaceInv, Finishing
    <3>2. PersistOnce(w)
      BY <2>7, <3>1 DEF ResolveAccept
    <3>3. w \in Values /\ w.draft = v.draft /\ ~Blocked(w)
      BY <2>1, MaskedFacts DEF TypeInv, Threads
    <3>4. w \notin receipts => UnderReview
      <4>1. thread.next = "end" /\ v.review /\ w \notin receipts => UnderReview
        BY <2>1 DEF EndInv
      <4>. QED BY <3>1, <4>1
    <3>. HIDE DEF w
    <3>5. /\ w \in receipts => row' = row
          /\ w \notin receipts => /\ row'.text = w.draft
                                  /\ row.text = w.draft /\ UnderReview /\ row.version > 0
                                       => row'.version = row.version
      BY <2>1, <3>1, <3>2, <3>3, PersistFacts
    <3>. QED BY <1>1, <2>2, <3>4, <3>5
  <2>8. CASE Settle
    <3>1. row' = row \/ row'.version = row.version
      BY <2>1, <2>8, SettleFacts
    <3>. QED BY <1>1, <2>2, <3>1
  <2>9. CASE Cancel
    <3>1. row' = row \/ row' = [row EXCEPT !.status = "cancelled"]
      BY <2>9 DEF Cancel
    <3>2. row'.version = row.version
      BY <2>2, <3>1 DEF Rows
    <3>. QED BY <1>1, <2>2, <3>2
  <2>10. CASE Edit
    BY <2>1, <2>10, EditFacts
  <2>11. CASE row' = row
    BY <1>1, <2>2, <2>11
  <2>12. \/ \E m \in queue : Take(m)
         \/ \E n \in Nodes \ {"plan_gate", "persist", "summarize"} : Compute(n)
         \/ Gate \/ Persist \/ ResolveAccept \/ Settle \/ Cancel \/ Edit \/ row' = row
    BY <1>1 DEF Next, Work, Author, PersistCheckpoint, Summarize, Summarized, ResolveRevise,
       ResolveWait, Mark, Close, EndRevision, EndGraph, Stop, Fault, Pause, Resume, ConfirmPlan,
       Judge, vars
  <2>. QED BY <2>3, <2>4, <2>5, <2>6, <2>7, <2>8, <2>9, <2>10, <2>11, <2>12
<1>2. CourseInv /\ [Next]_vars
        => [row'.version > row.version /\ row.version > 0 => row'.text # row.text]_vars
  BY <1>1
<1>. QED BY <1>2, CourseHolds, PTL DEF Spec, VersionIsNewText

(* A model's summary is written only of the text the chapter has at that   *)
(* moment (node_summarize).                                                *)
THEOREM SummaryFitsHolds == Spec => SummaryFits
<1>1. ASSUME CourseInv, [Next]_vars, summary' # summary, summary'.model
      PROVE  row.text = summary'.of
  <2>1. TypeInv /\ PlaceInv /\ TextInv /\ PersistInv /\ SummarizeInv /\ EndInv
    BY <1>1 DEF CourseInv
  <2>2. CASE Summarized
    BY <1>1, <2>2 DEF Summarized, StillCurrent
  <2>3. CASE Persist
    <3>1. thread.v \in Values /\ PersistOnce(thread.v) /\ thread.v.draft # 0
      BY <2>1, <2>3 DEF Persist, AtNode, TypeInv, Threads, PersistInv
    <3>. QED BY <1>1, <2>1, <3>1, PersistFacts
  <2>4. CASE ResolveAccept
    <3>. DEFINE w == Masked(run.v)
    <3>1. w \in Values /\ PersistOnce(w) /\ w.draft # 0
      BY <2>1, <2>4, MaskedFacts DEF ResolveAccept, TypeInv, Runs, EndInv
    <3>. HIDE DEF w
    <3>. QED BY <1>1, <2>1, <3>1, PersistFacts
  <2>5. CASE summary' = summary
    BY <1>1, <2>5
  <2>6. Summarized \/ Persist \/ ResolveAccept \/ summary' = summary
    BY <1>1 DEF Next, Work, Author, Take, Compute, Gate, PersistCheckpoint, Summarize, ResolveRevise,
       ResolveWait, Mark, Close, EndRevision, EndGraph, Settle, Stop, Fault, Pause, Cancel, Resume,
       ConfirmPlan, Judge, Edit, vars
  <2>. QED BY <2>2, <2>3, <2>4, <2>5, <2>6
<1>2. CourseInv /\ [Next]_vars => [summary' # summary /\ summary'.model => row.text = summary'.of]_vars
  BY <1>1
<1>. QED BY <1>2, CourseHolds, PTL DEF Spec, SummaryFits

---------------------------------------------------------------------------
(* Reviews and refusals.                                                   *)

LEMMA CardFacts ==
  ASSUME TypeInv
  PROVE  /\ Rejected \subseteq Cards
         /\ \A c : c \in Rejected <=> c \in Cards /\ card[c] = "revise"
         /\ \A c : c \in CardsThat({"pending"}) <=> c \in Cards /\ card[c] = "pending"
         /\ \A c : c \in CardsThat({"revise", "applied"})
                      <=> c \in Cards /\ card[c] \in {"revise", "applied"}
BY DEF Rejected, CardsThat

(* Steps that leave the thread's values, the cards and the texts alone.    *)
LEMMA SameReview ==
  ASSUME CourseInv, PlanInv, AnswerInv, EndsWell, RefusalInv,
         thread'.v = thread.v, thread'.next = thread.next, receipts' = receipts,
         card' = card, seen'.refused = seen.refused, op' \in {op, op + 1},
         row' = row \/ (/\ row.text = 0 /\ row'.text = 0
                        /\ row'.status \notin {"confirmed", "awaiting_review"}),
         run'.answers = {} \/ (/\ run'.answers = run.answers
                               /\ run'.at \notin {"idle", "resolve"}
                               /\ run'.at \in OnGraph => run.at \in OnGraph)
  PROVE  PlanInv' /\ AnswerInv' /\ EndsWell' /\ RefusalInv'
<1>. DEFINE v == thread.v
<1>1. TypeInv /\ EndInv /\ op \in Nat
  BY DEF CourseInv, TypeInv
<1>0. row.status \in {"confirmed", "awaiting_review"} => row.text # 0
  BY <1>1 DEF EndInv
<1>2. row'.text = row.text
  OBVIOUS
<1>3. (row'.status = "confirmed") <=> (row.status = "confirmed")
  BY <1>0
<1>4. UnderReview' <=> UnderReview
  BY <1>0 DEF UnderReview
<1>5. /\ Rejected' = Rejected /\ CardsThat({"pending"})' = CardsThat({"pending"})
      /\ CardsThat({"revise", "applied"})' = CardsThat({"revise", "applied"})
  BY DEF Rejected, CardsThat
<1>6. Standing' <=> Standing
  BY <1>2 DEF Standing
<1>7. Written' <=> Written
  BY <1>3 DEF Written
<1>8. PlanInv'
  BY DEF Clear, PlanInv, KeepsPlan
<1>9. AnswerInv'
  BY <1>5 DEF AnswerInv
<1>10. EndsWell'
  BY <1>7 DEF Clear, EndsWell
<1>11. op > 0 => op' > 0
  BY <1>1
<1>12. RefusalInv'
  <2>1. run'.answers \subseteq run.answers
    OBVIOUS
  <2>2. /\ Clear' /\ UnderReview' => Standing' \/ (Rejected' # {} /\ op' > 0 /\ thread'.v.rewrite)
        /\ CardsThat({"pending"})' # {} => UnderReview' /\ Standing'
    BY <1>4, <1>5, <1>6, <1>11 DEF Clear, RefusalInv
  <2>3. /\ thread'.v.draft \in seen'.refused => Rejected' # {}
        /\ thread'.v.draft \in seen'.refused /\ ~thread'.v.error /\ thread'.next # "revise" =>
             \E c \in Rejected' : c \notin run'.answers
    BY <1>5, <2>1 DEF RefusalInv
  <2>4. (row'.status = "confirmed" => row'.text \notin seen'.refused) /\ 0 \notin seen'.refused
    BY <1>2, <1>3 DEF Clear, RefusalInv
  <2>. QED BY <2>2, <2>3, <2>4 DEF RefusalInv
<1>. QED BY <1>8, <1>9, <1>10, <1>12

(* The messages and the number of resumptions stay as they are, or a new   *)
(* one is sent.                                                            *)
LEMMA SameOp ==
  ASSUME OpInv, op \in Nat, op' \in {op, op + 1},
         queue' \cup {run'.msg} \subseteq queue \cup {run.msg, Generate},
         run'.at \in Finishing \/ run'.answers # {} \/ thread'.v.finalizing =>
           run.at \in Finishing \/ run.answers # {} \/ thread.v.finalizing
  PROVE  OpInv'
<1>1. Generate.type = "generate" /\ Generate.op = 0
  BY DEF Generate
<1>2. op > 0 => op' > 0
  OBVIOUS
<1>3. \A m \in queue \cup {run.msg, Generate} : Sent(m)'
  <2>1. \A m \in queue \cup {run.msg, Generate} : Sent(m)
    BY <1>1 DEF OpInv, Sent
  <2>. QED BY <1>2, <2>1 DEF Sent
<1>4. \A m \in queue' \cup {run'.msg} : Sent(m)'
  BY <1>3
<1>5. run'.at \in Finishing \/ run'.answers # {} \/ thread'.v.finalizing => op' > 0
  BY <1>2 DEF OpInv
<1>. QED BY <1>4, <1>5 DEF OpInv

LEMMA NotUnderReviewStays ==
  ASSUME CourseInv,
         row' = row \/ (/\ row.text = 0 /\ row'.text = 0
                        /\ row'.status \notin {"confirmed", "awaiting_review"})
  PROVE  /\ (UnderReview' <=> UnderReview)
         /\ ((row'.status = "confirmed") <=> (row.status = "confirmed"))
<1>1. row.status \in {"confirmed", "awaiting_review"} => row.text # 0
  BY DEF CourseInv, EndInv
<1>2. CASE row' = row
  BY <1>2 DEF UnderReview
<1>3. CASE row.text = 0 /\ row'.text = 0 /\ row'.status \notin {"confirmed", "awaiting_review"}
  BY <1>1, <1>3 DEF UnderReview
<1>. QED BY <1>2, <1>3

LEMMA TakeKeepsReview ==
  ASSUME CourseInv, ReviewInv, NEW m \in queue, Take(m)
  PROVE  ReviewInv'
<1>1. /\ TypeInv /\ PlaceInv /\ EndInv /\ OpInv /\ PlanInv /\ AnswerInv /\ FinishInv /\ EndsWell
      /\ RefusalInv /\ AskInv
  BY DEF CourseInv, ReviewInv
<1>2. /\ run.at = "idle" /\ queue' = queue \ {m} /\ m \in Messages
      /\ UNCHANGED <<op, summary, card, receipts, pages, upsets, seen>>
      /\ \/ UNCHANGED <<status, thread, run, row>> /\ status # "new" /\ Outdated(m)
         \/ /\ status' = "running" /\ ~Outdated(m)
            /\ \/ StartsAnew(m)
               \/ GoesByItself(m) /\ (StartsAgain(m) \/ GoesOn(m) \/ FindsEnd(m))
               \/ GoesOnWithPlan(m) \/ FindsNothing(m) \/ FindsReview(m)
  BY <1>1, Taken
<1>3. /\ m.plan \in Nat /\ thread \in Threads /\ op \in Nat
      /\ thread.v.error \in BOOLEAN
  BY <1>1, <1>2 DEF TypeInv, Messages, Threads, Values
<1>4. Sent(m)
  BY <1>1 DEF OpInv
<1>5. CASE UNCHANGED <<status, thread, run, row>>
  <2>1. PlanInv' /\ AnswerInv' /\ EndsWell' /\ RefusalInv'
    <3>1. run.answers = {}
      BY <1>1, <1>2 DEF AnswerInv
    <3>. QED BY <1>1, <1>2, <1>5, <3>1, SameReview
  <2>2. OpInv'
    BY <1>1, <1>2, <1>3, <1>5, SameOp
  <2>3. FinishInv' /\ AskInv'
    BY <1>1, <1>2, <1>5 DEF Clear, FinishInv, AskInv, Finishing, UnderReview
  <2>. QED BY <2>1, <2>2, <2>3 DEF ReviewInv
<1>6. ASSUME status' = "running", run'.msg = m, run'.answers = {},
             thread'.v = thread.v, thread.v.finalizing \/ run'.at \in Finishing => op > 0
      PROVE  OpInv'
  <2>1. \A x \in queue' \cup {run'.msg} : Sent(x)
    BY <1>1, <1>2, <1>4, <1>6 DEF OpInv
  <2>2. \A x \in queue' \cup {run'.msg} : Sent(x)'
    BY <1>2, <2>1 DEF Sent
  <2>. QED BY <1>2, <1>6, <2>2 DEF OpInv
<1>7. thread.v.finalizing => op > 0
  BY <1>1 DEF OpInv
<1>8. ASSUME status' = "running", run'.answers = {}, run'.at \notin Finishing, run'.msg = m,
             thread'.v = thread.v, thread'.next = thread.next,
             row' = row, run'.at = "settle" => run'.out = "failed"
      PROVE  ReviewInv'
  <2>1. PlanInv' /\ AnswerInv' /\ EndsWell' /\ RefusalInv'
    BY <1>1, <1>2, <1>8, SameReview
  <2>2. OpInv'
    BY <1>6, <1>7, <1>8
  <2>3. FinishInv' /\ AskInv'
    BY <1>8 DEF Clear, FinishInv, AskInv
  <2>. QED BY <2>1, <2>2, <2>3 DEF ReviewInv
<1>9. ASSUME status' = "running", run'.answers = {}, run'.at = "graph", run'.msg = m,
             thread' = [thread EXCEPT !.next = "load_state"], ~thread.v.finalizing,
             thread.next = "none" \/ thread.v.error,
             row' = row \/ (/\ row.text = 0 /\ row'.text = 0
                            /\ row'.status \notin {"confirmed", "awaiting_review"})
      PROVE  ReviewInv'
  <2>1. thread'.v = thread.v /\ thread'.next = "load_state"
    BY <1>3, <1>9 DEF Threads
  <2>2. OpInv'
    BY <1>6, <1>9, <2>1 DEF Finishing
  <2>3. PlanInv'
    BY <1>1, <2>1 DEF Clear, PlanInv, KeepsPlan
  <2>4. AnswerInv' /\ FinishInv' /\ AskInv'
    BY <1>9 DEF Clear, AnswerInv, FinishInv, AskInv, Finishing
  <2>5. EndsWell'
    BY <1>9, <2>1 DEF Clear, EndsWell
  <2>6. /\ UnderReview' <=> UnderReview
        /\ (row'.status = "confirmed") <=> (row.status = "confirmed")
    BY <1>9, NotUnderReviewStays
  <2>7. ~Standing
    BY <1>1, <1>9 DEF Standing
  <2>8. Rejected' = Rejected /\ CardsThat({"pending"})' = CardsThat({"pending"})
    BY <1>2 DEF Rejected, CardsThat
  <2>9. run.answers = {} /\ row'.text = row.text
    BY <1>1, <1>2, <1>9 DEF AnswerInv
  <2>10. RefusalInv'
    <3>1. thread.v.draft \in seen.refused /\ ~thread.v.error => \E c \in Rejected : c \notin run.answers
      <4>1. thread.next # "revise" \/ thread.v.error
        BY <1>9
      <4>. QED BY <1>1, <4>1 DEF Clear, RefusalInv
    <3>. QED BY <1>1, <1>2, <1>9, <2>1, <2>6, <2>7, <2>8, <2>9, <3>1 DEF Clear, RefusalInv
  <2>. QED BY <2>2, <2>3, <2>4, <2>5, <2>10 DEF ReviewInv
<1>10. ASSUME StartsAnew(m), status' = "running" PROVE ReviewInv'
  <2>1. run'.at = "graph" /\ run'.answers = {} /\ run'.msg = m
    BY <1>2, <1>10, BeginFacts DEF StartsAnew
  <2>2. ~thread.v.finalizing
    BY <1>1, <1>10 DEF Clear, StartsAnew, EndsWell
  <2>. QED BY <1>9, <1>10, <2>1, <2>2 DEF StartsAnew
<1>11. ASSUME GoesByItself(m), StartsAgain(m), status' = "running", ~Outdated(m) PROVE ReviewInv'
  <2>1. run'.at = "graph" /\ run'.answers = {} /\ run'.msg = m
    BY <1>2, <1>11, BeginFacts DEF StartsAgain
  <2>2. ~thread.v.finalizing
    <3>. SUFFICES ASSUME thread.v.finalizing PROVE FALSE
      OBVIOUS
    <3>1. op > 0
      BY <1>7
    <3>2. m.type # "generate"
      BY <1>3, <1>4, <1>11, <3>1 DEF Sent, Outdated
    <3>3. FinishesReview
      BY <1>11 DEF FinishesReview, StartsAgain
    <3>. QED BY <1>11, <3>2, <3>3 DEF GoesByItself
  <2>. QED BY <1>9, <1>11, <2>1, <2>2 DEF StartsAgain
<1>12. ASSUME GoesOn(m) \/ GoesOnWithPlan(m), status' = "running" PROVE ReviewInv'
  <2>1. run'.at = "graph" /\ run'.answers = {} /\ run'.msg = m /\ row' = row
    BY <1>2, <1>3, <1>12, BeginFacts DEF GoesOn, GoesOnWithPlan
  <2>2. thread'.v = thread.v /\ thread'.next = thread.next
    BY <1>3, <1>12 DEF GoesOn, GoesOnWithPlan, Threads
  <2>. QED BY <1>8, <1>12, <2>1, <2>2 DEF Finishing
<1>13. ASSUME FindsEnd(m), status' = "running" PROVE ReviewInv'
  <2>1. run'.at = "ended" /\ run'.answers = {} /\ run'.msg = m
    <3>. DEFINE r == Idle
    <3>1. r \in Runs /\ r.answers = {} /\ run' = [r EXCEPT !.at = "ended", !.msg = m]
      BY <1>13, IdleFacts DEF FindsEnd
    <3>. HIDE DEF r
    <3>. QED BY <3>1 DEF Runs
  <2>. QED BY <1>8, <1>13, <2>1 DEF Finishing, FindsEnd
<1>14. ASSUME FindsNothing(m), status' = "running" PROVE ReviewInv'
  <2>1. run'.at = "settle" /\ run'.answers = {} /\ run'.msg = m /\ run'.out = "failed"
    BY <1>2, <1>14, EndFacts DEF FindsNothing, Outs
  <2>. QED BY <1>8, <1>14, <2>1 DEF Finishing, FindsNothing
<1>15. ASSUME FindsReview(m), status' = "running" PROVE ReviewInv'
  <2>1. /\ run'.at = IF thread.v.finalizing THEN "summary" ELSE "resolve"
        /\ run'.v = thread.v /\ run'.answers = {} /\ run'.msg = m
    <3>. DEFINE r == Idle
    <3>1. r \in Runs /\ r.answers = {}
          /\ run' = [r EXCEPT !.at = IF thread.v.finalizing THEN "summary" ELSE "resolve",
                              !.msg = m, !.v = thread.v]
      BY <1>15, IdleFacts DEF FindsReview
    <3>. HIDE DEF r
    <3>. QED BY <3>1 DEF Runs
  <2>2. UNCHANGED <<thread, row>> /\ m.type = "resume" /\ thread.next = "end" /\ thread.v.draft # 0
    BY <1>15 DEF FindsReview
  <2>3. PlanInv' /\ AnswerInv' /\ EndsWell' /\ RefusalInv'
    BY <1>1, <1>2, <2>1, <2>2, SameReview
  <2>4. OpInv'
    BY <1>4, <1>6, <1>15, <2>1, <2>2 DEF Sent
  <2>5. FinishInv'
    <3>1. thread.v.finalizing => ~thread.v.review /\ (Clear /\ ~thread.v.error => Written)
      BY <1>1, <2>2 DEF Clear, EndsWell
    <3>. QED BY <2>1, <2>2, <3>1 DEF Clear, FinishInv, Agree, Written
  <2>6. AskInv'
    BY <1>15, <2>1 DEF Clear, AskInv
  <2>. QED BY <2>3, <2>4, <2>5, <2>6 DEF ReviewInv
<1>. QED BY <1>2, <1>5, <1>10, <1>11, <1>12, <1>13, <1>14, <1>15

LEMMA ComputeKeepsReview ==
  ASSUME CourseInv, ReviewInv, NEW n \in Computing, Compute(n)
  PROVE  ReviewInv'
<1>. DEFINE v == thread.v
<1>1. /\ TypeInv /\ PlaceInv /\ TextInv /\ EndInv /\ OpInv /\ PlanInv /\ AnswerInv /\ FinishInv /\ EndsWell
      /\ RefusalInv /\ AskInv
  BY DEF CourseInv, ReviewInv
<1>2. PICK w : Moves(n, w)
  BY <1>1, ComputeMoves
<1>. DEFINE m == Successor(n, w)
<1>3. /\ w \in Values /\ NodeLeaves(n, v, w) /\ Leaves(n, w) /\ thread.next = n /\ run.at = "graph"
      /\ thread'.v = w /\ thread'.next = m
      /\ run' = [run EXCEPT !.at = run'.at] /\ run'.at \in {"ended", "graph"} /\ run \in Runs
      /\ UNCHANGED <<status, op, queue, row, card>>
  <2>1. run \in Runs
    BY <1>1 DEF TypeInv
  <2>2. PICK a \in {"ended", "graph"} : run' = [run EXCEPT !.at = a]
    BY <1>2 DEF Moves
  <2>3. run'.at = a
    BY <2>1, <2>2 DEF Runs
  <2>. QED BY <1>2, <2>1, <2>2, <2>3 DEF Moves, Leaves
<1>4. run'.msg = run.msg /\ run'.answers = run.answers
  BY <1>3 DEF Runs
<1>5. w.manual = v.manual /\ w.rewrite = v.rewrite /\ w.asked = v.asked /\ w.finalizing = v.finalizing
  BY <1>3 DEF NodeLeaves, Kept
<1>6. ~v.finalizing /\ ~Standing /\ n \notin {"persist", "summarize", "end", "plan_gate"}
  <2>1. n \notin {"persist", "summarize", "end", "plan_gate"}
    BY DEF Computing, Nodes
  <2>. QED BY <1>1, <1>3, <2>1 DEF Clear, EndsWell, Standing
<1>7. OpInv'
  <2>1. op \in Nat
    BY <1>1 DEF TypeInv
  <2>2. run'.at \notin Finishing
    BY <1>3 DEF Finishing
  <2>3. run'.answers # {} => run.answers # {}
    BY <1>4
  <2>. QED BY <1>1, <1>3, <1>4, <1>5, <1>6, <2>1, <2>2, <2>3, SameOp
<1>8. PlanInv'
  <2>1. KeepsPlan(w) <=> KeepsPlan(v)
    BY <1>5 DEF KeepsPlan
  <2>2. m = "plan_cast" => n = "reset_replan" \/ ~KeepsPlan(w)
    BY <1>3, Comes
  <2>3. m \in {"plan_chapter", "plan_gate"} => n \in {"plan_cast", "plan_chapter"}
    BY <1>3, Comes
  <2>4. m = "reset_replan" => ~KeepsPlan(w)
    BY <1>3, Comes
  <2>. QED BY <1>1, <1>3, <1>5, <2>1, <2>2, <2>3, <2>4 DEF Clear, PlanInv
<1>9. Rejected' = Rejected /\ \A X : CardsThat(X)' = CardsThat(X)
  BY <1>3 DEF Rejected, CardsThat
<1>10. AnswerInv' /\ FinishInv'
  <2>1. CardsThat({"revise", "applied"})' = CardsThat({"revise", "applied"})
    BY <1>3 DEF CardsThat
  <2>. QED BY <1>1, <1>3, <1>4, <1>5, <1>9, <2>1 DEF Clear, AnswerInv, FinishInv, Finishing, OnGraph
<1>11. EndsWell'
  <2>1. m = "end" => w.error
    BY <1>3, Comes
  <2>. QED BY <1>3, <1>5, <1>6, <2>1 DEF Clear, EndsWell
<1>12. RefusalInv'
  <2>1. /\ \/ w.draft = FreshText /\ Unseen(w.draft)' /\ v.draft # w.draft
           \/ w.draft # FreshText /\ seen'.refused = seen.refused
        /\ row.text \in seen.refused <=> row.text \in seen'.refused
        /\ seen'.refused \subseteq seen.refused
    <3>1. Leaves(n, w) => seen' = HeldOf(seen) \/ seen' = seen \/ seen' = [seen EXCEPT !.passed = @ \cup {w.draft}]
      BY DEF Leaves
    <3>2. seen'.refused \subseteq seen.refused
      BY <1>1, <1>3, <3>1, HeldTypes DEF TypeInv, Histories
    <3>3. row.text \in seen.refused <=> row.text \in seen'.refused
      <4>1. row.text \in Held
        BY DEF Held
      <4>. QED BY <1>1, <1>3, <3>1, <4>1, HeldTypes DEF TypeInv, Histories
    <3>4. \/ w.draft = FreshText /\ Unseen(w.draft)' /\ v.draft # w.draft
          \/ w.draft # FreshText /\ seen'.refused = seen.refused
      BY <1>1, <1>3, Known
    <3>. QED BY <3>2, <3>3, <3>4
  <2>2. CardsThat({"pending"})' = CardsThat({"pending"})
    BY <1>3 DEF CardsThat
  <2>3. UnderReview' <=> UnderReview
    BY <1>3 DEF UnderReview
  <2>4. /\ Clear' /\ UnderReview' => Rejected' # {} /\ op' > 0 /\ w.rewrite
        /\ CardsThat({"pending"})' = {}
    BY <1>1, <1>3, <1>5, <1>6, <1>9, <2>2, <2>3 DEF Clear, RefusalInv
  <2>6. w.draft \in seen'.refused => Rejected' # {}
    <3>. SUFFICES ASSUME w.draft \in seen'.refused PROVE Rejected # {}
      BY <1>9
    <3>1. w.draft # FreshText /\ w.draft \in seen.refused
      BY <2>1 DEF Unseen
    <3>2. w.draft # 0
      BY <1>1, <3>1 DEF RefusalInv
    <3>3. n = "load_state" => w.draft \in {0, v.draft}
      BY <1>3 DEF NodeLeaves
    <3>4. w.draft = v.draft
      BY <1>3, <3>1, <3>2, <3>3, <1>6 DEF NodeLeaves, Computing, Nodes
    <3>. QED BY <1>1, <3>1, <3>4 DEF RefusalInv
  <2>5. w.draft \in seen'.refused /\ ~w.error => \E c \in Rejected' : c \notin run'.answers
    <3>. SUFFICES ASSUME w.draft \in seen'.refused, ~w.error PROVE \E c \in Rejected : c \notin run.answers
      BY <1>4, <1>9
    <3>1. w.draft # FreshText
      BY <2>1 DEF Unseen
    <3>2. w.draft \in seen.refused
      BY <2>1
    <3>3. w.draft # 0
      BY <1>1, <3>2 DEF Clear, RefusalInv
    <3>4. n # "load_state" /\ n \notin {"write", "revise"} /\ w.draft = v.draft /\ ~v.error
      BY <1>3, <3>1, <3>3, <1>6 DEF NodeLeaves, Computing, Nodes
    <3>. QED BY <1>1, <1>3, <3>2, <3>4 DEF Clear, RefusalInv
  <2>. QED BY <1>1, <1>3, <2>1, <2>4, <2>5, <2>6 DEF RefusalInv
<1>13. AskInv'
  BY <1>1, <1>3 DEF Clear, AskInv, PlaceInv
<1>. QED BY <1>7, <1>8, <1>10, <1>11, <1>12, <1>13 DEF ReviewInv

LEMMA GateKeepsReview ==
  ASSUME CourseInv, ReviewInv, Gate
  PROVE  ReviewInv'
<1>. DEFINE v == thread.v
<1>1. /\ TypeInv /\ PlaceInv /\ TextInv /\ EndInv /\ OpInv /\ PlanInv /\ AnswerInv /\ FinishInv /\ EndsWell
      /\ RefusalInv /\ AskInv
  BY DEF CourseInv, ReviewInv
<1>2. /\ run.at = "graph" /\ thread.next = "plan_gate" /\ ~Fenced
      /\ UNCHANGED <<status, op, queue, summary, card, receipts, pages, upsets, seen>>
      /\ GateStops \/ \E p : GatePasses(p)
  BY <1>1, GateFacts
<1>3. run \in Runs /\ thread \in Threads /\ row \in Rows /\ op \in Nat
  BY <1>1 DEF TypeInv
<1>4. AskInv'
  <2>1. row' = row \/ (row.text = 0 /\ row'.text = 0 /\ row' = [row EXCEPT !.status = "writing"])
    BY <1>2 DEF GateStops, GatePasses
  <2>2. run'.at # "settle"
    BY <1>2, <1>3 DEF GateStops, GatePasses, Runs
  <2>3. status # "awaiting_plan"
    BY <1>1, <1>2 DEF PlaceInv
  <2>. QED BY <1>2, <2>2, <2>3 DEF Clear, AskInv
<1>5. CASE GateStops
  <2>1. run'.at = "ended" /\ run'.answers = run.answers /\ run'.msg = run.msg
    BY <1>3, <1>5, Advances, PlacesKnown DEF GateStops
  <2>2. thread'.v = v /\ thread'.next = thread.next /\ row' = row
    BY <1>3, <1>5 DEF GateStops, Threads
  <2>3. PlanInv' /\ AnswerInv' /\ EndsWell' /\ RefusalInv'
    BY <1>1, <1>2, <2>1, <2>2, SameReview DEF OnGraph
  <2>4. OpInv'
    BY <1>1, <1>2, <1>3, <2>1, <2>2, SameOp DEF Finishing
  <2>5. FinishInv'
    BY <2>1 DEF Clear, FinishInv, Finishing
  <2>. QED BY <1>4, <2>3, <2>4, <2>5 DEF ReviewInv
<1>6. CASE \E p : GatePasses(p)
  <2>0. PICK p : GatePasses(p)
    BY <1>6
  <2>1. run'.at = "graph" /\ run'.answers = run.answers /\ run'.msg = run.msg
    BY <1>2, <1>3, <2>0 DEF GatePasses, Runs
  <2>2. /\ thread'.next = "write" /\ thread'.v.manual = v.manual /\ thread'.v.asked = v.asked
        /\ thread'.v.rewrite = v.rewrite /\ thread'.v.finalizing = v.finalizing
        /\ thread'.v.draft = v.draft /\ thread'.v.error = v.error
    <3>1. {"manual", "asked", "rewrite", "finalizing", "draft", "error"} \subseteq DOMAIN v \ {"plan"}
      BY <1>3 DEF Values, Threads
    <3>. QED BY <2>0, <3>1 DEF GatePasses
  <2>3. /\ UnderReview' <=> UnderReview
        /\ (row'.status = "confirmed") <=> (row.status = "confirmed")
        /\ row'.text = row.text
    <3>1. row' = row \/ (/\ row.text = 0 /\ row'.text = 0
                         /\ row'.status \notin {"confirmed", "awaiting_review"})
      BY <1>3, <2>0 DEF GatePasses, Rows
    <3>. QED BY <3>1, NotUnderReviewStays
  <2>4. ~v.finalizing /\ ~Standing
    BY <1>1, <1>2 DEF Clear, EndsWell, Standing
  <2>5. Rejected' = Rejected /\ CardsThat({"pending"})' = CardsThat({"pending"})
        /\ CardsThat({"revise", "applied"})' = CardsThat({"revise", "applied"})
    BY <1>2 DEF Rejected, CardsThat
  <2>6. OpInv'
    BY <1>1, <1>2, <1>3, <2>1, <2>2, <2>4, SameOp DEF Finishing
  <2>7. PlanInv'
    BY <1>1, <2>2 DEF Clear, PlanInv, KeepsPlan
  <2>8. AnswerInv' /\ FinishInv'
    BY <1>1, <1>2, <2>1, <2>2, <2>5 DEF Clear, AnswerInv, FinishInv, Finishing
  <2>9. EndsWell'
    BY <2>2, <2>4 DEF Clear, EndsWell
  <2>10. RefusalInv'
    <3>1. /\ Clear' /\ UnderReview' => Rejected' # {} /\ op' > 0 /\ thread'.v.rewrite
          /\ CardsThat({"pending"})' = {}
      BY <1>1, <1>2, <2>2, <2>3, <2>4, <2>5 DEF Clear, RefusalInv
    <3>2. /\ thread'.v.draft \in seen'.refused => Rejected' # {}
          /\ thread'.v.draft \in seen'.refused /\ ~thread'.v.error =>
               \E c \in Rejected' : c \notin run'.answers
      BY <1>1, <1>2, <2>1, <2>2, <2>5 DEF RefusalInv
    <3>. QED BY <1>1, <1>2, <2>3, <3>1, <3>2 DEF RefusalInv
  <2>. QED BY <1>4, <2>6, <2>7, <2>8, <2>9, <2>10 DEF ReviewInv
<1>. QED BY <1>2, <1>5, <1>6

LEMMA PersistKeepsReview ==
  ASSUME CourseInv, ReviewInv, Persist
  PROVE  ReviewInv'
<1>. DEFINE v == thread.v
<1>1. /\ TypeInv /\ PlaceInv /\ TextInv /\ PersistInv /\ EndInv /\ OpInv /\ PlanInv /\ AnswerInv
      /\ FinishInv /\ EndsWell /\ RefusalInv /\ AskInv
  BY DEF CourseInv, ReviewInv
<1>2. /\ run.at = "graph" /\ thread.next = "persist" /\ PersistOnce(v)
      /\ run' = [run EXCEPT !.at = "persisted"]
      /\ UNCHANGED <<status, op, queue, thread, pages, upsets, seen>>
  BY DEF Persist, AtNode
<1>3. v \in Values /\ v.draft # 0 /\ run \in Runs /\ ~v.error /\ op \in Nat
  BY <1>1, <1>2 DEF TypeInv, Threads, PersistInv, TextInv
<1>4. run'.at = "persisted" /\ run'.answers = run.answers /\ run'.msg = run.msg
  BY <1>2, <1>3, Advances, PlacesKnown
<1>5. /\ receipts' = receipts \cup {v}
      /\ card' \in [Cards -> CardStates]
      /\ v \in receipts => row' = row /\ card' = card
      /\ v \notin receipts =>
           /\ row'.text = v.draft
           /\ Blocked(v) => /\ row'.status = "awaiting_review"
                            /\ \A c \in Cards : card'[c] = IF c \in v.cards /\ card[c] = "none"
                                                           THEN "pending" ELSE card[c]
           /\ ~Blocked(v) => row'.status = "confirmed" /\ card' = card
  BY <1>1, <1>2, <1>3, PersistFacts
<1>6. \A c \in Cards : card[c] # "none" => card'[c] = card[c]
  BY <1>5
<1>7. \A c \in Cards : card'[c] # card[c] => card[c] = "none" /\ card'[c] = "pending"
  BY <1>5
<1>8. Rejected' = Rejected /\ CardsThat({"revise", "applied"})' = CardsThat({"revise", "applied"})
  BY <1>6, <1>7 DEF Rejected, CardsThat
<1>9. OpInv'
  BY <1>1, <1>2, <1>3, <1>4, SameOp DEF Finishing
<1>10. PlanInv'
  BY <1>1, <1>2 DEF Clear, PlanInv, KeepsPlan
<1>11. AnswerInv' /\ FinishInv' /\ AskInv'
  BY <1>1, <1>2, <1>4, <1>8 DEF Clear, AnswerInv, FinishInv, Finishing, OnGraph, AskInv, PlaceInv
<1>12. EndsWell'
  BY <1>1, <1>2 DEF Clear, EndsWell
<1>13. Standing' <=> row'.text = v.draft
  BY <1>2, <1>3, <1>5 DEF Standing
<1>14. CASE v \in receipts
  <2>1. row' = row /\ card' = card /\ receipts' = receipts
    BY <1>5, <1>14
  <2>2. RefusalInv'
    BY <1>1, <1>2, <1>4, <2>1, SameReview DEF OnGraph
  <2>. QED BY <1>9, <1>10, <1>11, <1>12, <2>2 DEF ReviewInv
<1>15. CASE v \notin receipts
  <2>1. row'.text = v.draft /\ Standing' /\ Unseen(v.draft)
    BY <1>1, <1>2, <1>5, <1>13, <1>15 DEF PersistInv
  <2>2. ~Standing
    BY <1>2, <1>15 DEF Standing
  <2>3. CardsThat({"pending"}) = {}
    BY <1>1, <2>2 DEF Clear, RefusalInv
  <2>4. CardsThat({"pending"})' # {} => UnderReview'
    <3>1. CASE Blocked(v)
      BY <1>5, <1>15, <3>1 DEF UnderReview
    <3>2. CASE ~Blocked(v)
      <4>1. card' = card
        BY <1>5, <1>15, <3>2
      <4>. QED BY <2>3, <4>1 DEF CardsThat
    <3>. QED BY <3>1, <3>2
  <2>5. v.draft \notin seen.refused
    BY <2>1 DEF Unseen
  <2>6. RefusalInv'
    BY <1>1, <1>2, <2>1, <2>4, <2>5 DEF Clear, RefusalInv
  <2>. QED BY <1>9, <1>10, <1>11, <1>12, <2>6 DEF ReviewInv
<1>. QED BY <1>14, <1>15

LEMMA CheckpointKeepsReview ==
  ASSUME CourseInv, ReviewInv, PersistCheckpoint
  PROVE  ReviewInv'
<1>. DEFINE v == thread.v
            w == Persisted(v)
<1>1. /\ TypeInv /\ PlaceInv /\ TextInv /\ PersistInv /\ EndInv /\ OpInv /\ PlanInv /\ AnswerInv
      /\ FinishInv /\ EndsWell /\ RefusalInv /\ AskInv
  BY DEF CourseInv, ReviewInv
<1>2. /\ run.at = "persisted" /\ thread' = Left("persist", w)
      /\ run' = [run EXCEPT !.at = "graph"]
      /\ UNCHANGED <<status, op, queue, row, summary, card, receipts, pages, upsets, seen>>
  BY DEF PersistCheckpoint
<1>3. v \in Values /\ run \in Runs /\ op \in Nat /\ thread.next = "persist"
  BY <1>1, <1>2 DEF TypeInv, Threads, PlaceInv
<1>4. run'.at = "graph" /\ run'.answers = run.answers /\ run'.msg = run.msg
  BY <1>2, <1>3, Advances, PlacesKnown
<1>5. /\ w.draft = v.draft /\ w.error = v.error /\ w.manual = v.manual
      /\ w.asked = v.asked /\ w.rewrite = v.rewrite /\ w.finalizing = v.finalizing
  BY <1>3 DEF Persisted, Values
<1>6. thread'.v = w /\ thread'.next = "summarize"
  <2>. HIDE DEF w
  <2>. QED BY <1>2 DEF Left, Successor
<1>. HIDE DEF w
<1>7. ~v.finalizing
  BY <1>1, <1>3 DEF Clear, EndsWell
<1>8. Rejected' = Rejected /\ CardsThat({"pending"})' = CardsThat({"pending"})
      /\ CardsThat({"revise", "applied"})' = CardsThat({"revise", "applied"})
  BY <1>2 DEF Rejected, CardsThat
<1>9. OpInv'
  BY <1>1, <1>2, <1>3, <1>4, <1>5, <1>6, <1>7, SameOp DEF Finishing
<1>10. PlanInv'
  BY <1>1, <1>5, <1>6 DEF Clear, PlanInv, KeepsPlan
<1>11. AnswerInv' /\ FinishInv' /\ AskInv'
  BY <1>1, <1>2, <1>4, <1>5, <1>6, <1>8 DEF Clear, AnswerInv, FinishInv, Finishing, OnGraph, AskInv, PlaceInv
<1>12. EndsWell'
  BY <1>5, <1>6, <1>7 DEF Clear, EndsWell
<1>13. Standing => Standing'
  BY <1>2, <1>5, <1>6 DEF Standing
<1>14. RefusalInv'
  <2>1. UnderReview' <=> UnderReview
    BY <1>2 DEF UnderReview
  <2>2. w.draft \in seen'.refused /\ ~w.error => \E c \in Rejected' : c \notin run'.answers
    BY <1>1, <1>2, <1>3, <1>4, <1>5, <1>8 DEF Clear, RefusalInv
  <2>. QED BY <1>1, <1>2, <1>5, <1>6, <1>8, <1>13, <2>1, <2>2 DEF Clear, RefusalInv
<1>. QED BY <1>9, <1>10, <1>11, <1>12, <1>14 DEF ReviewInv

(* The summary is written or not: the graph ends, or the review is closed. *)
LEMMA AfterSummaryKeepsReview ==
  ASSUME CourseInv, ReviewInv, AfterSummary,
         run.at \in {"summary", "asked_last", "graph", "asked"},
         run.at \in {"graph", "asked"} => thread.next = "summarize",
         UNCHANGED <<status, op, queue, row, card, receipts, pages, upsets, seen>>,
         summary' \in [of: Nat, model: BOOLEAN]
  PROVE  ReviewInv'
<1>. DEFINE v == thread.v
<1>1. /\ TypeInv /\ PlaceInv /\ TextInv /\ SummarizeInv /\ EndInv /\ OpInv /\ PlanInv /\ AnswerInv
      /\ FinishInv /\ EndsWell /\ RefusalInv /\ AskInv
  BY DEF CourseInv, ReviewInv
<1>2. /\ thread'.v = v /\ thread'.next = "end"
      /\ run' = [run EXCEPT !.at = IF run.at \in {"summary", "asked_last"} THEN "close" ELSE "ended"]
  BY AfterSummaryFacts
<1>3. run \in Runs /\ op \in Nat
  BY <1>1 DEF TypeInv
<1>4. /\ run'.at = IF run.at \in {"summary", "asked_last"} THEN "close" ELSE "ended"
      /\ run'.answers = run.answers /\ run'.msg = run.msg /\ run'.v = run.v
  <2>1. PICK a \in {"close", "ended"} : /\ a = IF run.at \in {"summary", "asked_last"} THEN "close" ELSE "ended"
                                        /\ run' = [run EXCEPT !.at = a]
    BY <1>2
  <2>. QED BY <1>3, <2>1, Advances, PlacesKnown
<1>5. thread.next \in {"end", "summarize"}
  BY <1>1 DEF PlaceInv, Finishing
<1>6. Rejected' = Rejected /\ CardsThat({"pending"})' = CardsThat({"pending"})
      /\ CardsThat({"revise", "applied"})' = CardsThat({"revise", "applied"})
  BY DEF Rejected, CardsThat
<1>7. OpInv'
  BY <1>1, <1>2, <1>3, <1>4, SameOp DEF Finishing
<1>8. PlanInv'
  BY <1>1, <1>2, <1>5 DEF Clear, PlanInv, KeepsPlan
<1>9. AnswerInv' /\ AskInv'
  BY <1>1, <1>2, <1>4, <1>6 DEF Clear, AnswerInv, OnGraph, AskInv, PlaceInv
<1>10. FinishInv'
  BY <1>1, <1>2, <1>4 DEF Clear, FinishInv, Finishing, Agree, Written
<1>11. EndsWell'
  BY <1>1, <1>2, <1>5 DEF Clear, EndsWell, Written, SummarizeInv
<1>12. Standing' <=> Standing
  BY <1>2, <1>5 DEF Standing
<1>13. RefusalInv'
  <2>1. UnderReview' <=> UnderReview
    BY DEF UnderReview
  <2>2. v.draft \in seen'.refused /\ ~v.error => \E c \in Rejected' : c \notin run'.answers
    BY <1>1, <1>4, <1>5, <1>6 DEF Clear, RefusalInv
  <2>. QED BY <1>1, <1>2, <1>6, <1>12, <2>1, <2>2 DEF Clear, RefusalInv
<1>. QED BY <1>7, <1>8, <1>9, <1>10, <1>11, <1>13 DEF ReviewInv

LEMMA SummarizeKeepsReview ==
  ASSUME CourseInv, ReviewInv, Summarize
  PROVE  ReviewInv'
<1>1. /\ TypeInv /\ PlaceInv /\ TextInv /\ SummarizeInv /\ EndInv /\ OpInv /\ PlanInv /\ AnswerInv
      /\ FinishInv /\ EndsWell /\ RefusalInv /\ AskInv
  BY DEF CourseInv, ReviewInv
<1>2. /\ (run.at = "graph" /\ thread.next = "summarize" /\ ~Fenced) \/ run.at = "summary"
      /\ UNCHANGED <<status, op, queue, row, summary, card, receipts, pages, upsets, seen>>
  BY DEF Summarize, AtNode
<1>3. run \in Runs /\ op \in Nat /\ summary \in [of: Nat, model: BOOLEAN]
  BY <1>1 DEF TypeInv
<1>4. CASE AfterSummary
  BY <1>2, <1>3, <1>4, AfterSummaryKeepsReview
<1>5. ASSUME NEW a \in {"asked", "asked_last"}, a = IF run.at = "summary" THEN "asked_last" ELSE "asked",
             run' = [run EXCEPT !.at = a, !.version = row.version], thread' = thread
      PROVE  ReviewInv'
  <2>1. run'.at = a /\ run'.answers = run.answers /\ run'.msg = run.msg /\ run'.v = run.v
    BY <1>3, <1>5 DEF Runs
  <2>2. PlanInv' /\ AnswerInv' /\ EndsWell' /\ RefusalInv'
    BY <1>1, <1>2, <1>5, <2>1, SameReview DEF OnGraph
  <2>3. OpInv'
    BY <1>1, <1>2, <1>3, <1>5, <2>1, SameOp DEF Finishing
  <2>4. FinishInv' /\ AskInv'
    BY <1>1, <1>2, <1>5, <2>1 DEF Clear, FinishInv, Finishing, Agree, Written, AskInv, PlaceInv
  <2>. QED BY <2>2, <2>3, <2>4 DEF ReviewInv
<1>6. AfterSummary \/ \E a \in {"asked", "asked_last"} :
        /\ a = IF run.at = "summary" THEN "asked_last" ELSE "asked"
        /\ run' = [run EXCEPT !.at = a, !.version = row.version] /\ thread' = thread
  BY <1>2 DEF Summarize
<1>. QED BY <1>4, <1>5, <1>6

LEMMA SummarizedKeepsReview ==
  ASSUME CourseInv, ReviewInv, Summarized
  PROVE  ReviewInv'
<1>1. TypeInv' /\ PlaceInv
  BY SummarizedKeepsCourse DEF CourseInv
<1>2. /\ run.at \in {"asked", "asked_last"} /\ AfterSummary
      /\ UNCHANGED <<status, op, queue, row, card, receipts, pages, upsets, seen>>
      /\ summary' \in [of: Nat, model: BOOLEAN]
  BY <1>1 DEF Summarized, TypeInv
<1>3. run.at = "asked" => thread.next = "summarize"
  BY <1>1 DEF PlaceInv
<1>. QED BY <1>2, <1>3, AfterSummaryKeepsReview

LEMMA ReviseKeepsReview ==
  ASSUME CourseInv, ReviewInv, ResolveRevise
  PROVE  ReviewInv'
<1>. DEFINE v == thread.v
            w == Reopened(v)
<1>1. /\ TypeInv /\ PlaceInv /\ EndInv /\ OpInv /\ PlanInv /\ AnswerInv
      /\ FinishInv /\ EndsWell /\ RefusalInv /\ AskInv
  BY DEF CourseInv, ReviewInv
<1>2. run.at = "resolve" /\ run.v = v /\ thread.next = "end" /\ ~v.finalizing
  BY <1>1 DEF ResolveRevise, EndInv, PlaceInv, Finishing
<1>3. /\ card' = [c \in Cards |-> IF card[c] = "pending" THEN "none" ELSE card[c]]
      /\ thread' = [v |-> w, next |-> "revise", asked |-> FALSE]
      /\ run' = [run EXCEPT !.at = "graph", !.answers = Rejected] /\ Rejected # {}
      /\ UNCHANGED <<status, op, queue, row, summary, receipts, pages, upsets, seen>>
  BY <1>2 DEF ResolveRevise
<1>4. v \in Values /\ run \in Runs /\ card \in [Cards -> CardStates] /\ op \in Nat
  BY <1>1 DEF TypeInv, Threads
<1>5. w.manual = v.manual /\ w.rewrite = TRUE /\ w.asked = v.asked /\ w.finalizing = v.finalizing
  BY <1>4 DEF Reopened, Values
<1>6. thread'.v = w /\ thread'.next = "revise"
  BY <1>3
<1>7. run'.at = "graph" /\ run'.answers = Rejected /\ run'.msg = run.msg
  BY <1>3, <1>4 DEF Runs
<1>. HIDE DEF w
<1>8. /\ Rejected' = Rejected /\ CardsThat({"pending"})' = {}
      /\ Rejected' \subseteq CardsThat({"revise", "applied"})'
  BY <1>3, <1>4 DEF Rejected, CardsThat
<1>9. op > 0
  BY <1>1, <1>2 DEF OpInv, Finishing
<1>10. OpInv'
  BY <1>1, <1>2, <1>3, <1>4, <1>7, SameOp DEF Finishing
<1>11. PlanInv'
  BY <1>1, <1>5, <1>6 DEF Clear, PlanInv
<1>12. AnswerInv' /\ FinishInv' /\ AskInv'
  BY <1>1, <1>2, <1>3, <1>5, <1>6, <1>7, <1>8 DEF Clear, AnswerInv, FinishInv, Finishing, AskInv, PlaceInv
<1>13. EndsWell'
  BY <1>2, <1>5, <1>6 DEF Clear, EndsWell
<1>14. RefusalInv'
  BY <1>1, <1>3, <1>5, <1>6, <1>8, <1>9 DEF Clear, RefusalInv
<1>. QED BY <1>10, <1>11, <1>12, <1>13, <1>14 DEF ReviewInv

LEMMA WaitKeepsReview ==
  ASSUME CourseInv, ReviewInv, ResolveWait
  PROVE  ReviewInv'
<1>1. /\ TypeInv /\ PlaceInv /\ EndInv /\ OpInv /\ PlanInv /\ AnswerInv
      /\ FinishInv /\ EndsWell /\ RefusalInv /\ AskInv
  BY DEF CourseInv, ReviewInv
<1>2. /\ run.at = "resolve" /\ End(run.msg, "awaiting_review")
      /\ UNCHANGED <<status, op, queue, thread, row, summary, card, receipts, pages, upsets, seen>>
  BY DEF ResolveWait
<1>3. run.msg \in Messages /\ op \in Nat
  BY <1>1 DEF TypeInv, Runs
<1>4. run'.at = "settle" /\ run'.msg = run.msg /\ run'.answers = {} /\ run'.out = "awaiting_review"
  BY <1>2, <1>3, EndFacts DEF Outs
<1>5. PlanInv' /\ AnswerInv' /\ EndsWell' /\ RefusalInv'
  BY <1>1, <1>2, <1>4, SameReview
<1>6. OpInv'
  BY <1>1, <1>2, <1>3, <1>4, SameOp DEF Finishing
<1>7. FinishInv' /\ AskInv'
  BY <1>1, <1>2, <1>4 DEF Clear, FinishInv, Finishing, AskInv, PlaceInv
<1>. QED BY <1>5, <1>6, <1>7 DEF ReviewInv

(* When a text is accepted nothing of it was refused.  Where a task knows  *)
(* of every plan it has, the text has no error and the chapter is written. *)
LEMMA AcceptFacts ==
  ASSUME CourseInv, ReviewInv, ResolveAccept
  PROVE  /\ thread.next = "end" /\ run.v = thread.v /\ thread.v.draft # 0
         /\ thread.v.draft \notin seen.refused
         /\ Clear => ~thread.v.error /\ row'.status = "confirmed"
         /\ Rejected = {} /\ CardsThat({"pending"}) = {} /\ ~Fenced /\ run.at = "resolve"
         /\ run' = [run EXCEPT !.at = "mark", !.v.review = FALSE]
         /\ UNCHANGED <<status, op, queue, thread, pages, upsets, seen>>
         /\ receipts' = receipts \cup {Masked(thread.v)}
         /\ card' = card
         /\ row' = row \/ (Masked(thread.v) \notin receipts /\ row'.text = thread.v.draft)
<1>. DEFINE v == thread.v
            w == Masked(v)
<1>1. /\ TypeInv /\ PlaceInv /\ TextInv /\ EndInv /\ EndsWell /\ RefusalInv
  BY DEF CourseInv, ReviewInv
<1>2. run.at = "resolve" /\ run.v = v /\ v.draft # 0 /\ thread.next = "end" /\ (UnderReview \/ v.review)
  BY <1>1 DEF ResolveAccept, EndInv, PlaceInv, Finishing
<1>3. /\ PersistOnce(w) /\ run' = [run EXCEPT !.at = "mark", !.v.review = FALSE]
      /\ UNCHANGED <<status, op, queue, thread, pages, upsets, seen>>
      /\ Rejected = {} /\ CardsThat({"pending"}) = {} /\ ~Fenced
  BY <1>2 DEF ResolveAccept
<1>4. w \in Values /\ w.draft = v.draft /\ ~Blocked(w)
  BY <1>1, MaskedFacts DEF TypeInv, Threads
<1>5. Clear => ~v.error
  <2>1. v.review => ~v.error
    BY <1>1 DEF TextInv
  <2>2. Clear /\ UnderReview => Standing
    BY <1>1, <1>3 DEF Clear, RefusalInv
  <2>. QED BY <1>2, <2>1, <2>2 DEF Standing
<1>6. v.draft \notin seen.refused
  BY <1>1, <1>3 DEF RefusalInv
<1>7. Clear /\ w \in receipts => row.status = "confirmed"
  <2>1. v.review /\ w \in receipts => row.status = "confirmed"
    BY <1>1, <1>2 DEF EndInv
  <2>2. Clear /\ ~v.review => row.status = "confirmed"
    BY <1>1, <1>2, <1>5 DEF EndsWell, Written
  <2>. QED BY <2>1, <2>2
<1>8. /\ receipts' = receipts \cup {w} /\ card' = card
      /\ w \in receipts => row' = row
      /\ w \notin receipts => row'.text = v.draft /\ row'.status = "confirmed"
  <2>. HIDE DEF w
  <2>. QED BY <1>1, <1>2, <1>3, <1>4, PersistFacts
<1>. QED BY <1>2, <1>3, <1>5, <1>6, <1>7, <1>8

LEMMA AcceptKeepsReview ==
  ASSUME CourseInv, ReviewInv, ResolveAccept
  PROVE  ReviewInv'
<1>. DEFINE v == thread.v
<1>1. /\ TypeInv /\ PlaceInv /\ EndInv /\ OpInv /\ PlanInv /\ AnswerInv
      /\ FinishInv /\ EndsWell /\ RefusalInv /\ AskInv
  BY DEF CourseInv, ReviewInv
<1>2. /\ thread.next = "end" /\ run.v = v /\ v.draft # 0
      /\ v.draft \notin seen.refused /\ (Clear => row'.status = "confirmed")
      /\ Rejected = {} /\ CardsThat({"pending"}) = {} /\ run.at = "resolve"
      /\ run' = [run EXCEPT !.at = "mark", !.v.review = FALSE]
      /\ UNCHANGED <<status, op, queue, thread, pages, upsets, seen>>
      /\ card' = card
      /\ row' = row \/ row'.text = v.draft
  BY AcceptFacts
<1>3. run \in Runs /\ op \in Nat /\ run.v \in Values
  BY <1>1 DEF TypeInv, Runs
<1>4. /\ run'.at = "mark" /\ run'.answers = run.answers /\ run'.msg = run.msg
      /\ ~run'.v.review /\ Agree(run'.v, v)
  BY <1>2, <1>3 DEF Runs, Values, Agree
<1>5. Rejected' = Rejected /\ CardsThat({"pending"})' = CardsThat({"pending"})
      /\ CardsThat({"revise", "applied"})' = CardsThat({"revise", "applied"})
  BY <1>2 DEF Rejected, CardsThat
<1>6. OpInv'
  BY <1>1, <1>2, <1>3, <1>4, SameOp DEF Finishing
<1>7. PlanInv' /\ EndsWell'
  BY <1>1, <1>2 DEF Clear, PlanInv, KeepsPlan, EndsWell, Written
<1>8. AnswerInv' /\ FinishInv' /\ AskInv'
  BY <1>1, <1>2, <1>4, <1>5 DEF Clear, AnswerInv, FinishInv, Written, OnGraph, AskInv, PlaceInv
<1>9. RefusalInv'
  <2>1. Clear' => ~UnderReview'
    BY <1>2 DEF Clear, UnderReview
  <2>2. row'.status = "confirmed" => row'.text \notin seen'.refused
    BY <1>1, <1>2 DEF RefusalInv
  <2>. QED BY <1>1, <1>2, <1>5, <2>1, <2>2 DEF RefusalInv
<1>. QED BY <1>6, <1>7, <1>8, <1>9 DEF ReviewInv

LEMMA MarkKeepsReview ==
  ASSUME CourseInv, ReviewInv, Mark
  PROVE  ReviewInv'
<1>1. /\ TypeInv /\ PlaceInv /\ EndInv /\ OpInv /\ PlanInv /\ AnswerInv
      /\ FinishInv /\ EndsWell /\ RefusalInv /\ AskInv
  BY DEF CourseInv, ReviewInv
<1>2. PICK x \in Nat : LET w == [run.v EXCEPT !.finalizing = TRUE, !.version = x]
                       IN /\ thread' = [v |-> w, next |-> "end", asked |-> FALSE]
                          /\ run' = [run EXCEPT !.at = "summary", !.v = w]
                          /\ w \in Values /\ thread' \in Threads /\ run' \in Runs
  BY <1>1, MarkFacts
<1>. DEFINE w == [run.v EXCEPT !.finalizing = TRUE, !.version = x]
<1>3. /\ run.at = "mark" /\ UNCHANGED <<status, op, queue, row, summary, card, receipts, pages, upsets, seen>>
  BY DEF Mark
<1>4. run \in Runs /\ run.v \in Values /\ op \in Nat
  BY <1>1 DEF TypeInv, Runs
<1>5. Agree(w, run.v) /\ w.review = run.v.review
  BY <1>4 DEF Values, Agree
<1>6. thread' = [v |-> w, next |-> "end", asked |-> FALSE] /\ run' = [run EXCEPT !.at = "summary", !.v = w]
  BY <1>2
<1>. HIDE DEF w
<1>7. thread'.v = w /\ thread'.next = "end"
  BY <1>6
<1>8. run'.at = "summary" /\ run'.v = w /\ run'.answers = run.answers /\ run'.msg = run.msg
  BY <1>4, <1>6 DEF Runs
<1>9. Agree(run.v, thread.v) /\ ~run.v.review /\ (Clear /\ ~thread.v.error => Written) /\ op > 0
  BY <1>1, <1>3 DEF Clear, FinishInv, Finishing, OpInv
<1>10. Agree(w, thread.v) /\ ~w.review
  BY <1>5, <1>9 DEF Agree
<1>11. thread.next # "revise" /\ (thread.next = "end" \/ ~Standing)
  BY <1>1, <1>3 DEF PlaceInv, Standing
<1>12. Rejected' = Rejected /\ CardsThat({"pending"})' = CardsThat({"pending"})
       /\ CardsThat({"revise", "applied"})' = CardsThat({"revise", "applied"})
  BY <1>3 DEF Rejected, CardsThat
<1>13. OpInv'
  <2>1. run.at \in Finishing
    BY <1>3 DEF Finishing
  <2>2. queue' \cup {run'.msg} \subseteq queue \cup {run.msg, Generate}
    BY <1>3, <1>8
  <2>3. op' = op
    BY <1>3
  <2>. QED BY <1>1, <1>4, <2>1, <2>2, <2>3, SameOp
<1>14. PlanInv'
  BY <1>1, <1>7, <1>10 DEF Clear, PlanInv, Agree
<1>15. Written <=> Written'
  BY <1>3, <1>7, <1>10 DEF Written, Agree
<1>16. AnswerInv' /\ AskInv'
  BY <1>1, <1>3, <1>7, <1>8, <1>10, <1>12 DEF Clear, AnswerInv, OnGraph, Agree, AskInv, PlaceInv
<1>17. FinishInv' /\ EndsWell'
  BY <1>7, <1>8, <1>9, <1>10, <1>15 DEF Clear, FinishInv, EndsWell, Agree
<1>18. RefusalInv'
  <2>1. UnderReview' <=> UnderReview
    BY <1>3 DEF UnderReview
  <2>2. Standing => Standing'
    BY <1>3, <1>7, <1>10, <1>11 DEF Standing, Agree
  <2>3. /\ Clear' /\ UnderReview' => Standing' \/ (Rejected' # {} /\ op' > 0 /\ thread'.v.rewrite)
        /\ CardsThat({"pending"})' # {} => UnderReview' /\ Standing'
    BY <1>1, <1>3, <1>7, <1>10, <1>12, <2>1, <2>2 DEF Clear, RefusalInv, Agree
  <2>4. /\ thread'.v.draft \in seen'.refused => Rejected' # {}
        /\ thread'.v.draft \in seen'.refused /\ ~thread'.v.error => \E c \in Rejected' : c \notin run'.answers
    BY <1>1, <1>3, <1>7, <1>8, <1>10, <1>11, <1>12 DEF Clear, RefusalInv, Agree
  <2>. QED BY <1>1, <1>3, <2>3, <2>4 DEF Clear, RefusalInv
<1>. QED BY <1>13, <1>14, <1>16, <1>17, <1>18 DEF ReviewInv

LEMMA CloseKeepsReview ==
  ASSUME CourseInv, ReviewInv, Close
  PROVE  ReviewInv'
<1>. DEFINE w == [run.v EXCEPT !.review = FALSE, !.finalizing = FALSE]
<1>1. /\ TypeInv /\ PlaceInv /\ EndInv /\ OpInv /\ PlanInv /\ AnswerInv
      /\ FinishInv /\ EndsWell /\ RefusalInv /\ AskInv
  BY DEF CourseInv, ReviewInv
<1>2. /\ run.at = "close" /\ UNCHANGED <<status, op, queue, row, summary, card, receipts, pages, upsets, seen>>
  BY DEF Close
<1>3. /\ thread' = [thread EXCEPT !.v = w] /\ w \in Values
      /\ run' = [run EXCEPT !.at = "settle", !.out = Outcome(w)]
      /\ Outcome(w) \in {"done", "failed"}
  BY <1>1, CloseFacts
<1>4. run \in Runs /\ thread \in Threads /\ thread.next = "end" /\ run.v \in Values /\ op \in Nat
  BY <1>1, <1>2 DEF TypeInv, PlaceInv, Finishing, Runs
<1>5. Agree(w, run.v) /\ ~w.review /\ ~w.finalizing
  BY <1>4 DEF Values, Agree
<1>. HIDE DEF w
<1>6. thread'.v = w /\ thread'.next = "end"
  BY <1>3, <1>4 DEF Threads
<1>7. run'.at = "settle" /\ run'.answers = run.answers /\ run'.msg = run.msg /\ run'.out = Outcome(w)
  BY <1>3, <1>4 DEF Runs
<1>8. Agree(w, thread.v) /\ (Clear /\ ~w.error => Written)
  BY <1>1, <1>2, <1>5 DEF Clear, FinishInv, Finishing, Agree
<1>9. Rejected' = Rejected /\ CardsThat({"pending"})' = CardsThat({"pending"})
       /\ CardsThat({"revise", "applied"})' = CardsThat({"revise", "applied"})
  BY <1>2 DEF Rejected, CardsThat
<1>10. OpInv'
  <2>1. run.at \in Finishing
    BY <1>2 DEF Finishing
  <2>2. queue' \cup {run'.msg} \subseteq queue \cup {run.msg, Generate}
    BY <1>2, <1>7
  <2>3. op' = op
    BY <1>2
  <2>. QED BY <1>1, <1>4, <2>1, <2>2, <2>3, SameOp
<1>11. PlanInv'
  BY <1>1, <1>6, <1>8 DEF Clear, PlanInv, Agree
<1>12. AnswerInv' /\ AskInv' /\ FinishInv'
  BY <1>1, <1>2, <1>3, <1>6, <1>7, <1>8, <1>9 DEF Clear, AnswerInv, OnGraph, Agree, AskInv, PlaceInv, FinishInv, Finishing
<1>13. EndsWell'
  BY <1>2, <1>5, <1>6, <1>8 DEF Clear, EndsWell, Written, Agree
<1>14. RefusalInv'
  <2>1. UnderReview' <=> UnderReview
    BY <1>2 DEF UnderReview
  <2>2. Standing => Standing'
    BY <1>2, <1>6, <1>8 DEF Standing, Agree
  <2>3. /\ Clear' /\ UnderReview' => Standing' \/ (Rejected' # {} /\ op' > 0 /\ thread'.v.rewrite)
        /\ CardsThat({"pending"})' # {} => UnderReview' /\ Standing'
    BY <1>1, <1>2, <1>6, <1>8, <1>9, <2>1, <2>2 DEF Clear, RefusalInv, Agree
  <2>4. /\ thread'.v.draft \in seen'.refused => Rejected' # {}
        /\ thread'.v.draft \in seen'.refused /\ ~thread'.v.error => \E c \in Rejected' : c \notin run'.answers
    BY <1>1, <1>2, <1>4, <1>6, <1>7, <1>8, <1>9 DEF Clear, RefusalInv, Agree
  <2>. QED BY <1>1, <1>2, <2>3, <2>4 DEF Clear, RefusalInv
<1>. QED BY <1>10, <1>11, <1>12, <1>13, <1>14 DEF ReviewInv

(* A revision for a review never ends at the gate: a text under review is  *)
(* rewritten with its plan, unless a new one was asked.                    *)
LEMMA AskedAlone ==
  ASSUME CourseInv, ReviewInv, Clear, thread.asked
  PROVE  ~thread.v.rewrite /\ run.answers = {} /\ ~UnderReview
<1>1. thread.next = "plan_gate" /\ thread.v.manual
  BY DEF CourseInv, PlaceInv
<1>2. ~thread.v.rewrite
  BY <1>1 DEF Clear, ReviewInv, PlanInv, KeepsPlan
<1>3. ~UnderReview
  BY <1>1, <1>2 DEF Clear, ReviewInv, RefusalInv, Standing
<1>. QED BY <1>2, <1>3 DEF ReviewInv, AnswerInv

LEMMA EndRevisionKeepsReview ==
  ASSUME CourseInv, ReviewInv, EndRevision
  PROVE  ReviewInv'
<1>. DEFINE v == thread.v
<1>1. /\ TypeInv /\ PlaceInv /\ EndInv /\ OpInv /\ PlanInv /\ AnswerInv
      /\ FinishInv /\ EndsWell /\ RefusalInv /\ AskInv
  BY DEF CourseInv, ReviewInv
<1>2. /\ run.at = "ended" /\ run.answers # {}
      /\ card' = [c \in Cards |-> IF c \in run.answers /\ ~v.error THEN "applied" ELSE card[c]]
      /\ run' = IF v.review THEN [run EXCEPT !.at = "settle", !.out = "awaiting_review"]
                ELSE [run EXCEPT !.at = "mark", !.v = v]
      /\ UNCHANGED <<status, op, queue, thread, row, summary, receipts, pages, upsets, seen>>
  BY DEF EndRevision
<1>3. run \in Runs /\ v \in Values /\ card \in [Cards -> CardStates] /\ op \in Nat
  BY <1>1 DEF TypeInv, Threads
<1>4. thread.next = "end" \/ (thread.asked /\ ~Clear)
  BY <1>1, <1>2, AskedAlone DEF PlaceInv
<1>5. /\ run'.answers = run.answers /\ run'.msg = run.msg
      /\ v.review => run'.at = "settle" /\ run'.out = "awaiting_review"
      /\ ~v.review => run'.at = "mark" /\ run'.v = v
  BY <1>2, <1>3 DEF Runs
<1>6. op > 0 /\ v.rewrite /\ run.answers \subseteq Rejected
  BY <1>1, <1>2 DEF OpInv, AnswerInv, OnGraph
<1>7. /\ CardsThat({"pending"})' = CardsThat({"pending"})
      /\ run.answers \subseteq CardsThat({"revise", "applied"})'
      /\ v.error => Rejected' = Rejected
      /\ \A c \in Rejected : c \notin run.answers => c \in Rejected'
  BY <1>2, <1>3, <1>6 DEF Rejected, CardsThat
<1>8. OpInv'
  <2>2. queue' \cup {run'.msg} \subseteq queue \cup {run.msg, Generate}
    BY <1>2, <1>5
  <2>3. op' = op
    BY <1>2
  <2>. QED BY <1>1, <1>2, <1>3, <2>2, <2>3, SameOp
<1>9. PlanInv' /\ EndsWell'
  BY <1>1, <1>2 DEF Clear, PlanInv, KeepsPlan, EndsWell, Written
<1>10. AnswerInv' /\ AskInv'
  BY <1>1, <1>2, <1>5, <1>6, <1>7 DEF Clear, AnswerInv, OnGraph, AskInv, PlaceInv
<1>11. FinishInv'
  <2>1. Agree(v, v)
    BY DEF Agree
  <2>2. Clear /\ ~v.error /\ ~v.review => Written
    BY <1>1, <1>4 DEF Clear, EndsWell
  <2>. QED BY <1>2, <1>5, <2>1, <2>2 DEF Clear, FinishInv, Finishing, Written
<1>12. RefusalInv'
  <2>1. (UnderReview' <=> UnderReview) /\ (Standing' <=> Standing)
    BY <1>2 DEF UnderReview, Standing
  <2>2. Clear /\ UnderReview /\ ~v.error => Standing
    <3>1. CASE v.review
      BY <1>1, <1>4, <3>1 DEF EndInv, Standing, UnderReview
    <3>2. CASE ~v.review
      BY <1>1, <1>4, <3>2 DEF Clear, EndsWell, Written, UnderReview
    <3>. QED BY <3>1, <3>2
  <2>3. Clear' /\ UnderReview' => Standing' \/ (Rejected' # {} /\ op' > 0 /\ thread'.v.rewrite)
    BY <1>1, <1>2, <1>6, <1>7, <2>1, <2>2 DEF Clear, RefusalInv
  <2>4. /\ v.draft \in seen'.refused /\ ~v.error => \E c \in Rejected' : c \notin run'.answers
        /\ v.draft \in seen'.refused => Rejected' # {}
    <3>1. thread.next # "revise"
      BY <1>1, <1>4 DEF PlaceInv
    <3>. QED BY <1>1, <1>2, <1>5, <1>7, <3>1 DEF RefusalInv
  <2>. QED BY <1>1, <1>2, <1>7, <2>1, <2>3, <2>4 DEF Clear, RefusalInv
<1>. QED BY <1>8, <1>9, <1>10, <1>11, <1>12 DEF ReviewInv

LEMMA EndGraphKeepsReview ==
  ASSUME CourseInv, ReviewInv, EndGraph
  PROVE  ReviewInv'
<1>1. /\ TypeInv /\ PlaceInv /\ EndInv /\ OpInv /\ PlanInv /\ AnswerInv
      /\ FinishInv /\ EndsWell /\ RefusalInv /\ AskInv
  BY DEF CourseInv, ReviewInv
<1>2. /\ run.at = "ended" /\ run.answers = {}
      /\ UNCHANGED <<status, op, queue, thread, row, summary, card, receipts, pages, upsets, seen>>
      /\ run'.at = "settle" /\ run'.msg = run.msg /\ run'.answers = run.answers
      /\ run'.out = IF thread.asked /\ run.first THEN "awaiting_plan" ELSE Outcome(thread.v)
      /\ op \in Nat
  BY <1>1, EndGraphFacts DEF TypeInv
<1>3. PlanInv' /\ AnswerInv' /\ EndsWell' /\ RefusalInv'
  BY <1>1, <1>2, SameReview
<1>4. OpInv'
  <2>1. queue' \cup {run'.msg} \subseteq queue \cup {run.msg, Generate}
    BY <1>2
  <2>. QED BY <1>1, <1>2, <2>1, SameOp DEF Finishing
<1>5. FinishInv'
  BY <1>2 DEF Clear, FinishInv, Finishing
<1>6. AskInv'
  <2>1. run'.out = "awaiting_plan" => thread.asked
    BY <1>2 DEF Outcome
  <2>2. Clear /\ run'.out = "awaiting_plan" => ~UnderReview
    BY <2>1, AskedAlone
  <2>. QED BY <1>1, <1>2, <2>2 DEF Clear, AskInv, UnderReview, PlaceInv
<1>. QED BY <1>3, <1>4, <1>5, <1>6 DEF ReviewInv

LEMMA SettleKeepsReview ==
  ASSUME CourseInv, ReviewInv, Settle
  PROVE  ReviewInv'
<1>1. /\ TypeInv /\ PlaceInv /\ EndInv /\ OpInv /\ PlanInv /\ AnswerInv
      /\ FinishInv /\ EndsWell /\ RefusalInv /\ AskInv
  BY DEF CourseInv, ReviewInv
<1>2. /\ run.at = "settle" /\ run' = Idle
      /\ UNCHANGED <<op, queue, thread, summary, card, receipts, pages, upsets>>
      /\ status' = Settled(run.out)
      /\ row' = row \/ (row.text = 0 /\ row'.text = 0 /\ row'.status = "failed")
      /\ seen'.refused = seen.refused
  BY <1>1, SettleFacts
<1>3. /\ run'.at = "idle" /\ run'.answers = {} /\ run'.msg = Generate
      /\ op \in Nat
  BY <1>1, <1>2, IdleFacts DEF Idle, TypeInv
<1>4. PlanInv' /\ AnswerInv' /\ EndsWell' /\ RefusalInv'
  BY <1>1, <1>2, <1>3, SameReview
<1>5. OpInv'
  <2>1. queue' \cup {run'.msg} \subseteq queue \cup {run.msg, Generate}
    BY <1>2, <1>3
  <2>. QED BY <1>1, <1>2, <1>3, <2>1, SameOp DEF Finishing
<1>6. FinishInv'
  BY <1>3 DEF Clear, FinishInv, Finishing
<1>7. AskInv'
  <2>1. status' = "awaiting_plan" => run.out = "awaiting_plan"
    BY <1>1, <1>2 DEF Settled, PlaceInv
  <2>2. UnderReview' => UnderReview
    BY <1>2, NotUnderReviewStays
  <2>. QED BY <1>1, <1>2, <1>3, <2>1, <2>2 DEF Clear, AskInv
<1>. QED BY <1>4, <1>5, <1>6, <1>7 DEF ReviewInv

LEMMA HaltKeepsReview ==
  ASSUME CourseInv, ReviewInv, Stop \/ Fault
  PROVE  ReviewInv'
<1>1. /\ TypeInv /\ PlaceInv /\ EndInv /\ OpInv /\ PlanInv /\ AnswerInv
      /\ FinishInv /\ EndsWell /\ RefusalInv /\ AskInv
  BY DEF CourseInv, ReviewInv
<1>2. /\ run' = Idle /\ run.at # "idle"
      /\ UNCHANGED <<op, thread, row, summary, card, receipts, pages, seen>>
      /\ queue' \in {queue, queue \cup {run.msg}}
      /\ status' \in {status, "paused"}
  BY DEF Stop, Fault, Fenced
<1>3. run'.at = "idle" /\ run'.answers = {} /\ run'.msg = Generate /\ op \in Nat
  BY <1>1, <1>2, IdleFacts DEF Idle, TypeInv
<1>4. PlanInv' /\ AnswerInv' /\ EndsWell' /\ RefusalInv'
  BY <1>1, <1>2, <1>3, SameReview
<1>5. OpInv'
  <2>1. queue' \cup {run'.msg} \subseteq queue \cup {run.msg, Generate}
    BY <1>2, <1>3
  <2>. QED BY <1>1, <1>2, <1>3, <2>1, SameOp DEF Finishing
<1>6. FinishInv' /\ AskInv'
  BY <1>1, <1>2, <1>3 DEF Clear, FinishInv, Finishing, AskInv, UnderReview
<1>. QED BY <1>4, <1>5, <1>6 DEF ReviewInv

LEMMA OrderKeepsReview ==
  ASSUME CourseInv, ReviewInv, Pause \/ Cancel \/ Resume \/ \E i \in DOMAIN pages : ConfirmPlan(i)
  PROVE  ReviewInv'
<1>1. /\ TypeInv /\ PlaceInv /\ EndInv /\ OpInv /\ PlanInv /\ AnswerInv
      /\ FinishInv /\ EndsWell /\ RefusalInv /\ AskInv
  BY DEF CourseInv, ReviewInv
<1>2. /\ UNCHANGED <<thread, run, card, receipts>> /\ op' \in {op, op + 1} /\ op \in Nat
      /\ row' = row \/ (row.text = 0 /\ row'.text = 0 /\ row'.status = "cancelled")
      /\ seen'.refused = seen.refused
  <2>1. CASE Pause
    BY <1>1, <2>1 DEF Pause, TypeInv
  <2>2. CASE Cancel
    BY <1>1, <2>2 DEF Cancel, TypeInv, EmptyRow, Rows
  <2>3. CASE Resume
    BY <1>1, <2>3 DEF Resume, TypeInv, Histories
  <2>4. CASE \E i \in DOMAIN pages : ConfirmPlan(i)
    BY <1>1, <2>4 DEF ConfirmPlan, TypeInv, Histories
  <2>. QED BY <2>1, <2>2, <2>3, <2>4
<1>3. run.answers # {} => run.at \notin {"idle", "resolve"}
  BY <1>1 DEF AnswerInv
<1>4. PlanInv' /\ AnswerInv' /\ EndsWell' /\ RefusalInv'
  BY <1>1, <1>2, <1>3, SameReview
<1>5. op > 0 => op' > 0
  BY <1>2
<1>6. \A m \in queue \cup {run.msg} : Sent(m)'
  BY <1>1, <1>5 DEF OpInv, Sent
<1>7. \A m \in queue' \cup {run'.msg} : Sent(m)'
  <2>1. CASE Pause \/ Cancel
    BY <1>6, <2>1 DEF Pause, Cancel
  <2>2. CASE Resume
    <3>1. PICK m : queue' = queue \cup {m} /\ m.type = "resume"
      <4>1. queue' = queue \cup {[Generate EXCEPT !.type = "resume", !.op = op + 1]}
        BY <2>2 DEF Resume
      <4>2. [Generate EXCEPT !.type = "resume", !.op = op + 1].type = "resume"
        BY DEF Generate
      <4>. QED BY <4>1, <4>2
    <3>2. op' > 0
      BY <1>2, <2>2 DEF Resume
    <3>. QED BY <1>2, <1>6, <3>1, <3>2 DEF Sent
  <2>3. CASE \E i \in DOMAIN pages : ConfirmPlan(i)
    <3>1. PICK m : queue' = queue \cup {m} /\ m.type = "plan"
      <4>1. PICK i \in DOMAIN pages :
              queue' = queue \cup {[type |-> "plan", attempt |-> pages[i].attempt,
                                    plan |-> pages[i].plan, op |-> op]}
        BY <2>3 DEF ConfirmPlan
      <4>. DEFINE m == [type |-> "plan", attempt |-> pages[i].attempt, plan |-> pages[i].plan, op |-> op]
      <4>2. queue' = queue \cup {m} /\ m.type = "plan"
        BY <4>1
      <4>. HIDE DEF m
      <4>. QED BY <4>2
    <3>. QED BY <1>2, <1>6, <3>1 DEF Sent
  <2>. QED BY <2>1, <2>2, <2>3
<1>8. OpInv'
  BY <1>1, <1>2, <1>5, <1>7 DEF OpInv
<1>9. /\ UnderReview' <=> UnderReview
      /\ (row'.status = "confirmed") <=> (row.status = "confirmed")
  BY <1>2, NotUnderReviewStays
<1>10. FinishInv'
  BY <1>1, <1>2, <1>9 DEF Clear, FinishInv, Written
<1>11. AskInv'
  <2>1. status' = "awaiting_plan" => status = "awaiting_plan"
    BY DEF Pause, Cancel, Resume, ConfirmPlan
  <2>. QED BY <1>1, <1>2, <1>9, <2>1 DEF Clear, AskInv
<1>. QED BY <1>4, <1>8, <1>10, <1>11 DEF ReviewInv

LEMMA JudgeKeepsReview ==
  ASSUME CourseInv, ReviewInv, NEW c \in Cards, NEW d \in {"confirmed", "barred", "revise"}, Judge(c, d)
  PROVE  ReviewInv'
<1>. DEFINE v == thread.v
<1>1. /\ TypeInv /\ PlaceInv /\ EndInv /\ OpInv /\ PlanInv /\ AnswerInv
      /\ FinishInv /\ EndsWell /\ RefusalInv /\ AskInv
  BY DEF CourseInv, ReviewInv
<1>2. /\ card[c] = "pending" /\ card' = [card EXCEPT ![c] = d]
      /\ seen' = IF d = "revise" THEN [seen EXCEPT !.refused = @ \cup {row.text}] ELSE seen
      /\ UNCHANGED <<status, op, queue, thread, run, row, summary, receipts, pages, upsets>>
  BY DEF Judge
<1>3. card \in [Cards -> CardStates] /\ seen \in Histories
  BY <1>1 DEF TypeInv
<1>4. /\ d = "revise" => seen'.refused = seen.refused \cup {row.text}
      /\ d # "revise" => seen'.refused = seen.refused
  BY <1>2, <1>3 DEF Histories
<1>5. UnderReview /\ Standing /\ row.text = v.draft
  <2>1. c \in CardsThat({"pending"})
    BY <1>2 DEF CardsThat
  <2>. QED BY <1>1, <2>1 DEF Clear, RefusalInv, Standing
<1>6. /\ Rejected \subseteq Rejected' /\ (d = "revise" => c \in Rejected')
      /\ CardsThat({"pending"})' \subseteq CardsThat({"pending"})
      /\ CardsThat({"revise", "applied"}) \subseteq CardsThat({"revise", "applied"})'
  BY <1>2, <1>3 DEF Rejected, CardsThat
<1>7. c \notin run.answers
  BY <1>1, <1>2 DEF AnswerInv, CardsThat
<1>8. UnderReview' /\ Standing'
  BY <1>2, <1>5 DEF UnderReview, Standing
<1>9. OpInv' /\ PlanInv' /\ FinishInv' /\ EndsWell' /\ AskInv'
  BY <1>1, <1>2 DEF Clear, OpInv, Sent, PlanInv, KeepsPlan, FinishInv, Written, EndsWell, AskInv, UnderReview
<1>10. AnswerInv'
  BY <1>1, <1>2, <1>6 DEF AnswerInv
<1>11. RefusalInv'
  <2>1. row.status # "confirmed" /\ row.text # 0
    BY <1>1, <1>5 DEF UnderReview, EndInv
  <2>2. v.draft \in seen'.refused => \E x \in Rejected' : x \notin run.answers
    <3>1. CASE d = "revise"
      BY <1>6, <1>7, <3>1
    <3>2. CASE d # "revise"
      <4>1. v.draft \in seen.refused => \E x \in Rejected : x \notin run.answers
        BY <1>1, <1>5 DEF Clear, RefusalInv, Standing
      <4>. QED BY <1>4, <1>6, <3>2, <4>1
    <3>. QED BY <3>1, <3>2
  <2>3. 0 \notin seen'.refused
    BY <1>1, <1>4, <2>1 DEF Clear, RefusalInv
  <2>. QED BY <1>2, <1>8, <2>1, <2>2, <2>3 DEF Clear, RefusalInv
<1>. QED BY <1>9, <1>10, <1>11 DEF ReviewInv

LEMMA EditKeepsReview ==
  ASSUME CourseInv, ReviewInv, Edit
  PROVE  ReviewInv'
<1>. DEFINE v == thread.v
<1>1. /\ TypeInv /\ PlaceInv /\ EndInv /\ OpInv /\ PlanInv /\ AnswerInv
      /\ FinishInv /\ EndsWell /\ RefusalInv /\ AskInv
  BY DEF CourseInv, ReviewInv
<1>2. /\ row.status = "confirmed" /\ row'.status = "confirmed"
      /\ v.draft \in seen'.refused <=> v.draft \in seen.refused
      /\ row'.text \notin seen'.refused
      /\ seen'.refused \subseteq seen.refused
      /\ UNCHANGED <<status, op, queue, thread, run, summary, card, receipts, pages>>
  BY <1>1, EditFacts
<1>3. ~UnderReview /\ ~UnderReview'
  BY <1>2 DEF UnderReview
<1>4. /\ Rejected' = Rejected /\ CardsThat({"pending"})' = CardsThat({"pending"})
      /\ CardsThat({"revise", "applied"})' = CardsThat({"revise", "applied"})
  BY <1>2 DEF Rejected, CardsThat
<1>5. OpInv' /\ PlanInv' /\ FinishInv' /\ EndsWell' /\ AskInv'
  BY <1>1, <1>2, <1>3 DEF Clear, OpInv, Sent, PlanInv, KeepsPlan, FinishInv, Written, EndsWell, AskInv
<1>6. AnswerInv'
  BY <1>1, <1>2, <1>4 DEF AnswerInv
<1>7. RefusalInv'
  BY <1>1, <1>2, <1>3, <1>4 DEF Clear, RefusalInv
<1>. QED BY <1>5, <1>6, <1>7 DEF ReviewInv

LEMMA InitReview ==
  ASSUME Init
  PROVE  ReviewInv
<1>1. CourseInv
  BY InitCourse
<1>2. PICK i \in Inputs :
        /\ i.manual /\ i.asked => "replan" \in Hazards
        /\ status = "new" /\ op = 0 /\ queue = {Generate}
        /\ thread = [v |-> Input(i.manual, i.rewrite, i.asked, FALSE), next |-> "none", asked |-> FALSE]
        /\ run = Idle
        /\ row = IF i.rewrite THEN [status |-> "confirmed", text |-> 1, version |-> 1]
                 ELSE [status |-> "absent", text |-> 0, version |-> 0]
        /\ card = [c \in Cards |-> "none"]
        /\ seen = [passed |-> {1}, shown |-> {}, accepted |-> {}, refused |-> {}, approved |-> {}]
  BY DEF Init
<1>3. /\ run.at = "idle" /\ run.answers = {} /\ run.msg = Generate
      /\ Generate.type = "generate" /\ Generate.op = 0
  BY <1>2 DEF Idle, Generate
<1>4. /\ thread.v.manual = i.manual /\ thread.v.asked = i.asked /\ ~thread.v.finalizing
      /\ thread.next = "none" /\ thread.v.draft = 0
  BY <1>2 DEF Input
<1>5. CardsThat({"pending"}) = {} /\ ~UnderReview
  BY <1>2 DEF CardsThat, UnderReview
<1>6. OpInv
  BY <1>2, <1>3, <1>4 DEF OpInv, Sent, Finishing
<1>7. PlanInv
  BY <1>2, <1>4 DEF Clear, PlanInv
<1>8. AnswerInv /\ FinishInv /\ EndsWell /\ AskInv
  BY <1>2, <1>3, <1>4, <1>5 DEF Clear, AnswerInv, FinishInv, Finishing, EndsWell, AskInv
<1>9. RefusalInv
  BY <1>2, <1>5 DEF Clear, RefusalInv
<1>. QED BY <1>6, <1>7, <1>8, <1>9 DEF ReviewInv

LEMMA NextKeepsReview ==
  ASSUME CourseInv, ReviewInv, [Next]_vars
  PROVE  ReviewInv'
<1>1. \A n : n \in Nodes \ {"plan_gate", "persist", "summarize"} <=> n \in Computing
  BY DEF Computing
<1>2. ASSUME UNCHANGED vars PROVE ReviewInv'
  <2>1. UNCHANGED <<status, op, queue, thread, run, row, summary, card, receipts, pages, upsets, seen>>
    BY <1>2 DEF vars
  <2>. QED BY <2>1 DEF Clear, ReviewInv, OpInv, Sent, PlanInv, KeepsPlan, AnswerInv, FinishInv, Written,
                       EndsWell, RefusalInv, AskInv, Standing, UnderReview, Rejected, CardsThat
<1>. QED
  BY <1>1, <1>2, TakeKeepsReview, ComputeKeepsReview, GateKeepsReview, PersistKeepsReview,
     CheckpointKeepsReview, SummarizeKeepsReview, SummarizedKeepsReview, ReviseKeepsReview,
     WaitKeepsReview, AcceptKeepsReview, MarkKeepsReview, CloseKeepsReview,
     EndRevisionKeepsReview, EndGraphKeepsReview, SettleKeepsReview, HaltKeepsReview,
     OrderKeepsReview, JudgeKeepsReview, EditKeepsReview
  DEF Next, Work, Author

(* Which answers of the author belong to which text, for every member of   *)
(* Hazards: of a manual rewrite that asks for a new plan the invariant     *)
(* says less (Clear).                                                      *)
THEOREM ReviewHolds == Spec => [](CourseInv /\ ReviewInv)
<1>1. Init => CourseInv /\ ReviewInv
  BY InitCourse, InitReview
<1>2. CourseInv /\ ReviewInv /\ [Next]_vars => CourseInv' /\ ReviewInv'
  BY NextKeepsCourse, NextKeepsReview
<1>. QED BY <1>1, <1>2, PTL DEF Spec

(* A text of which the author refused a setting, for revision, is never    *)
(* the confirmed one, whatever is paused, retried or resumed               *)
(* (resolve_review).                                                       *)
THEOREM RefusedStaysOutHolds == Spec => []RefusedStaysOut
<1>1. CourseInv /\ ReviewInv => RefusedStaysOut
  BY DEF Clear, ReviewInv, RefusalInv, RefusedStaysOut
<1>. QED BY <1>1, ReviewHolds, PTL

---------------------------------------------------------------------------
(* What the author has seen before it is confirmed.                        *)

(* Steps that leave the thread's values and the texts alone.               *)
LEMMA SameShown ==
  ASSUME CourseInv, ShownInv,
         thread'.v = thread.v, thread'.next = thread.next, receipts' = receipts,
         row' = row \/ (/\ row.text = 0 /\ row'.text = 0
                        /\ row'.status \notin {"confirmed", "awaiting_review"}),
         seen'.shown = seen.shown, seen.accepted \subseteq seen'.accepted,
         seen.passed \subseteq seen'.passed,
         UnderReview /\ ComesOut => ComesOut',
         UnderReview /\ status' \in {"queued", "running"} /\ row.text \in seen.shown =>
           status \in {"queued", "running"} \/ row.text \in seen'.accepted
  PROVE  ShownInv'
<1>1. /\ UnderReview' <=> UnderReview
      /\ (row'.status = "confirmed") <=> (row.status = "confirmed")
      /\ row'.text = row.text
  BY NotUnderReviewStays
<1>2. UnderReview' => \/ row'.text \in seen'.shown
                      \/ thread'.next = "persist" /\ thread'.v \in receipts'
                      \/ thread'.next = "summarize"
                      \/ ComesOut'
  BY <1>1 DEF ShownInv
<1>3. UnderReview' /\ status' \in {"queued", "running"} /\ row'.text \in seen'.shown
        => row'.text \in seen'.accepted
  BY <1>1 DEF ShownInv
<1>4. ConfirmedKnowingly'
  BY <1>1 DEF ShownInv, ConfirmedKnowingly
<1>. QED BY <1>2, <1>3, <1>4 DEF ShownInv

(* Steps of a run that is not at its end: what is under review was shown,  *)
(* or the graph is about to end with it.                                   *)
LEMMA TakeKeepsShown ==
  ASSUME CourseInv, ReviewInv, Clear, ShownInv, NEW m \in queue, Take(m)
  PROVE  ShownInv'
<1>1. TypeInv /\ PlaceInv /\ AskInv
  BY DEF CourseInv, ReviewInv
<1>2. /\ run.at = "idle"
      /\ UNCHANGED <<op, summary, card, receipts, pages, upsets, seen>>
      /\ \/ UNCHANGED <<status, thread, run, row>> /\ status # "new" /\ Outdated(m)
         \/ /\ status' = "running" /\ ~Outdated(m)
            /\ \/ StartsAnew(m)
               \/ GoesByItself(m) /\ (StartsAgain(m) \/ GoesOn(m) \/ FindsEnd(m))
               \/ GoesOnWithPlan(m) \/ FindsNothing(m) \/ FindsReview(m)
  BY <1>1, Taken
<1>3. ~ComesOut /\ thread \in Threads
  BY <1>1, <1>2 DEF ComesOut, TypeInv
<1>4. CASE UNCHANGED <<status, thread, run, row>>
  BY <1>2, <1>3, <1>4, SameShown
<1>5. ~Outdated(m) /\ UnderReview => status \in {"queued", "running"}
  <2>1. status # "new" \/ ~UnderReview
    BY <1>1 DEF PlaceInv, UnderReview
  <2>2. status # "awaiting_plan" \/ ~UnderReview
    BY <1>1 DEF Clear, AskInv
  <2>. QED BY <1>1, <2>1, <2>2 DEF Outdated, TypeInv, Statuses
<1>6. CASE ~Outdated(m) /\ (GoesOn(m) \/ FindsEnd(m) \/ GoesOnWithPlan(m) \/ FindsNothing(m) \/ FindsReview(m))
  <2>1. thread'.v = thread.v /\ thread'.next = thread.next /\ row' = row
    BY <1>3, <1>6 DEF GoesOn, FindsEnd, GoesOnWithPlan, FindsNothing, FindsReview, Threads
  <2>. QED BY <1>2, <1>3, <1>5, <1>6, <2>1, SameShown
<1>7. CASE ~Outdated(m) /\ StartsAgain(m)
  <2>1. row' = row /\ thread.next = "end"
    BY <1>7 DEF StartsAgain
  <2>2. UnderReview => row.text \in seen.shown /\ row.text \in seen.accepted
    BY <1>3, <1>5, <1>7, <2>1 DEF ShownInv
  <2>. QED BY <1>2, <2>1, <2>2 DEF ShownInv, UnderReview, ConfirmedKnowingly
<1>8. CASE ~Outdated(m) /\ StartsAnew(m)
  <2>1. ~UnderReview
    BY <1>1, <1>8 DEF StartsAnew, PlaceInv, UnderReview
  <2>2. row' = row \/ row'.status \in {"planning", "writing"}
    BY <1>8 DEF StartsAnew
  <2>. QED BY <1>2, <2>1, <2>2 DEF ShownInv, UnderReview, ConfirmedKnowingly
<1>. QED BY <1>2, <1>4, <1>6, <1>7, <1>8

LEMMA GraphKeepsShown ==
  ASSUME CourseInv, ReviewInv, Clear, ShownInv,
         (\E n \in Computing : Compute(n)) \/ Gate \/ Persist \/ PersistCheckpoint
  PROVE  ShownInv'
<1>1. TypeInv /\ PlaceInv /\ TextInv /\ PersistInv /\ OpInv
  BY DEF CourseInv, ReviewInv
<1>2. CASE \E n \in Computing : Compute(n)
  <2>0. PICK n \in Computing : Compute(n)
    BY <1>2
  <2>1. PICK w : Moves(n, w)
    BY <1>1, <2>0, ComputeMoves
  <2>2. /\ thread.next = n /\ run.at = "graph" /\ Leaves(n, w) /\ row' = row /\ status' = status
        /\ n \notin {"persist", "summarize", "end"}
    BY <2>1 DEF Moves, Leaves, Computing, Nodes
  <2>3. UnderReview => row.text \in seen.shown
    BY <2>2 DEF ShownInv, ComesOut
  <2>4. /\ row.text \in seen.shown <=> row.text \in seen'.shown
        /\ row.text \in seen.accepted <=> row.text \in seen'.accepted
        /\ row.text \in seen.passed => row.text \in seen'.passed
    BY <1>1, <2>2, Known
  <2>. QED BY <2>2, <2>3, <2>4 DEF ShownInv, UnderReview, ConfirmedKnowingly
<1>3. CASE Gate
  <2>1. /\ run.at = "graph" /\ thread.next = "plan_gate" /\ ~Fenced
        /\ UNCHANGED <<status, op, queue, summary, card, receipts, pages, upsets, seen>>
        /\ GateStops \/ \E p : GatePasses(p)
    BY <1>1, <1>3, GateFacts
  <2>2. row' = row \/ (/\ row.text = 0 /\ row'.text = 0
                       /\ row'.status \notin {"confirmed", "awaiting_review"})
    <3>1. row' = row \/ (row.text = 0 /\ row'.text = 0 /\ row' = [row EXCEPT !.status = "writing"])
      BY <2>1 DEF GateStops, GatePasses
    <3>. QED BY <1>1, <3>1 DEF TypeInv, Rows
  <2>3. /\ UnderReview' <=> UnderReview
        /\ (row'.status = "confirmed") <=> (row.status = "confirmed")
        /\ row'.text = row.text
    BY <2>2, NotUnderReviewStays
  <2>4. UnderReview => row.text \in seen.shown
    BY <2>1 DEF ShownInv, ComesOut
  <2>. QED BY <2>1, <2>3, <2>4 DEF ShownInv, ConfirmedKnowingly
<1>4. CASE Persist
  <2>. DEFINE v == thread.v
  <2>1. /\ run.at = "graph" /\ thread.next = "persist" /\ PersistOnce(v)
        /\ UNCHANGED <<status, op, queue, thread, pages, upsets, seen>>
    BY <1>4 DEF Persist, AtNode
  <2>2. v \in Values /\ v.draft # 0
    BY <1>1, <2>1 DEF TypeInv, Threads, PersistInv
  <2>3. /\ receipts' = receipts \cup {v}
        /\ v \in receipts => row' = row
        /\ v \notin receipts =>
             /\ row'.text = v.draft
             /\ Blocked(v) => row'.status = "awaiting_review"
             /\ ~Blocked(v) => row'.status = "confirmed"
    BY <1>1, <2>1, <2>2, PersistFacts
  <2>4. v \notin receipts => v.draft \notin seen.shown /\ (~Blocked(v) => v.draft \in seen.passed)
    BY <1>1, <2>1 DEF PersistInv, Unseen
  <2>5. UnderReview' => thread'.next = "persist" /\ thread'.v \in receipts'
    BY <2>1, <2>3
  <2>6. UnderReview' /\ status' \in {"queued", "running"} /\ row'.text \in seen'.shown
          => row'.text \in seen'.accepted
    BY <2>1, <2>3, <2>4 DEF ShownInv, UnderReview
  <2>7. ConfirmedKnowingly'
    BY <2>1, <2>3, <2>4 DEF ShownInv, ConfirmedKnowingly
  <2>. QED BY <2>5, <2>6, <2>7 DEF ShownInv
<1>5. CASE PersistCheckpoint
  <2>1. /\ thread' = Left("persist", Persisted(thread.v))
        /\ UNCHANGED <<status, op, queue, row, summary, card, receipts, pages, upsets, seen>>
    BY <1>5 DEF PersistCheckpoint
  <2>2. thread'.next = "summarize"
    BY <2>1 DEF Left, Successor
  <2>. QED BY <2>1, <2>2 DEF ShownInv, UnderReview, ConfirmedKnowingly
<1>. QED BY <1>2, <1>3, <1>4, <1>5

LEMMA SummaryKeepsShown ==
  ASSUME CourseInv, ReviewInv, Clear, ShownInv, Summarize \/ Summarized
  PROVE  ShownInv'
<1>1. TypeInv /\ PlaceInv /\ SummarizeInv
  BY DEF CourseInv
<1>2. /\ \/ run.at = "graph" /\ thread.next = "summarize" /\ ~Fenced
         \/ run.at \in {"summary", "asked", "asked_last"}
      /\ UNCHANGED <<status, op, queue, row, card, receipts, pages, upsets, seen>>
  BY DEF Summarize, Summarized, AtNode
<1>3. run \in Runs /\ summary' \in [of: Nat, model: BOOLEAN]
  <2>1. Summarized => TypeInv'
    BY SummarizedKeepsCourse DEF CourseInv
  <2>. QED BY <1>1, <2>1 DEF TypeInv, Summarize
<1>4. run.at = "asked" => thread.next = "summarize" /\ ~UnderReview
  BY <1>1 DEF PlaceInv, UnderReview
<1>5. AfterSummary \/ thread' = thread
  BY <1>2 DEF Summarize, Summarized
<1>6. CASE thread' = thread
  <2>1. ~ComesOut
    BY <1>2 DEF ComesOut
  <2>. QED BY <1>2, <1>6, <2>1, SameShown
<1>7. CASE AfterSummary
  <2>1. /\ thread'.v = thread.v /\ thread'.next = "end"
        /\ run' = [run EXCEPT !.at = IF run.at \in {"summary", "asked_last"} THEN "close" ELSE "ended"]
    BY <1>2, <1>3, <1>4, <1>7, AfterSummaryFacts
  <2>2. run.at \in {"summary", "asked_last"} => thread.next = "end"
    BY <1>1 DEF PlaceInv, Finishing
  <2>3. CASE run.at \in {"summary", "asked_last"} \/ ~UnderReview
    <3>1. UnderReview => row.text \in seen.shown
      BY <2>2, <2>3 DEF ShownInv, ComesOut
    <3>. QED BY <1>2, <3>1 DEF ShownInv, UnderReview, ConfirmedKnowingly
  <2>4. CASE run.at = "graph" /\ UnderReview
    <3>1. thread.v.review /\ status = "running"
      BY <1>1, <1>2, <2>4 DEF SummarizeInv, PlaceInv, Fenced, UnderReview
    <3>2. run'.at = "ended"
      BY <1>3, <2>1, <2>4 DEF Runs
    <3>3. ComesOut'
      BY <1>2, <2>1, <3>1, <3>2 DEF ComesOut
    <3>. QED BY <1>2, <3>3 DEF ShownInv, UnderReview, ConfirmedKnowingly
  <2>. QED BY <1>2, <1>4, <2>3, <2>4
<1>. QED BY <1>5, <1>6, <1>7

LEMMA ReviewStepsKeepShown ==
  ASSUME CourseInv, ReviewInv, Clear, ShownInv,
         ResolveRevise \/ ResolveWait \/ ResolveAccept \/ Mark \/ Close
  PROVE  ShownInv'
<1>1. TypeInv /\ PlaceInv
  BY DEF CourseInv
<1>2. run.at \in {"resolve", "mark", "close"}
  BY DEF ResolveRevise, ResolveWait, ResolveAccept, Mark, Close
<1>3. thread.next \notin {"persist", "summarize"} /\ ~ComesOut
  BY <1>1, <1>2 DEF PlaceInv, Finishing, ComesOut
<1>4. UnderReview => row.text \in seen.shown
  BY <1>3 DEF ShownInv
<1>5. CASE ~ResolveAccept
  <2>1. UNCHANGED <<status, row, seen>>
    BY <1>5 DEF ResolveRevise, ResolveWait, Mark, Close
  <2>. QED BY <1>4, <2>1 DEF ShownInv, UnderReview, ConfirmedKnowingly
<1>6. CASE ResolveAccept
  <2>1. /\ ~Fenced /\ run.at = "resolve" /\ thread.next = "end" /\ run.v = thread.v
        /\ UNCHANGED <<status, thread, seen>> /\ row'.status = "confirmed"
        /\ row' = row \/ (Masked(thread.v) \notin receipts /\ row'.text = thread.v.draft)
    BY <1>6, AcceptFacts
  <2>2. status = "running"
    BY <1>1, <2>1 DEF PlaceInv, Fenced
  <2>3. Masked(thread.v) \notin receipts => UnderReview \/ ~thread.v.review
    BY <2>1 DEF CourseInv, EndInv
  <2>4. UnderReview \/ thread.v.review
    BY <2>1 DEF CourseInv, EndInv
  <2>5. UnderReview => row.text = thread.v.draft /\ row.text \in seen.accepted
    <3>1. UnderReview => Standing
      BY <1>6, AcceptFacts DEF Clear, ReviewInv, RefusalInv
    <3>. QED BY <1>4, <2>2, <3>1 DEF ShownInv, Standing
  <2>6. ConfirmedKnowingly'
    <3>1. CASE UnderReview
      BY <2>1, <2>5, <3>1 DEF ConfirmedKnowingly
    <3>2. CASE ~UnderReview
      <4>1. row' = row
        BY <2>1, <2>3, <2>4, <3>2
      <4>. QED BY <2>1, <4>1 DEF ShownInv, ConfirmedKnowingly
    <3>. QED BY <3>1, <3>2
  <2>7. ~UnderReview'
    BY <2>1 DEF UnderReview
  <2>. QED BY <2>6, <2>7 DEF ShownInv
<1>. QED BY <1>5, <1>6

LEMMA EndsKeepShown ==
  ASSUME CourseInv, ReviewInv, Clear, ShownInv, "late" \notin Hazards,
         EndRevision \/ EndGraph \/ Settle \/ Stop \/ Fault
  PROVE  ShownInv'
<1>1. TypeInv /\ PlaceInv /\ EndsWell
  BY DEF CourseInv, ReviewInv
<1>2. run \in Runs /\ seen \in Histories
  BY <1>1 DEF TypeInv
<1>3. CASE EndRevision
  <2>1. /\ run.at = "ended"
        /\ run' = IF thread.v.review THEN [run EXCEPT !.at = "settle", !.out = "awaiting_review"]
                  ELSE [run EXCEPT !.at = "mark", !.v = thread.v]
        /\ UNCHANGED <<status, thread, row, receipts, seen>>
    BY <1>3 DEF EndRevision
  <2>2. ComesOut => ComesOut'
    BY <1>2, <2>1 DEF ComesOut, Runs
  <2>. QED BY <2>1, <2>2, SameShown
<1>4. CASE EndGraph
  <2>1. /\ run.at = "ended" /\ run'.at = "settle"
        /\ run'.out = IF thread.asked /\ run.first THEN "awaiting_plan" ELSE Outcome(thread.v)
        /\ UNCHANGED <<status, thread, row, receipts, seen>>
    BY <1>1, <1>4, EndGraphFacts
  <2>2. ComesOut => ComesOut'
    BY <1>1, <2>1 DEF ComesOut, PlaceInv, Outcome
  <2>. QED BY <2>1, <2>2, SameShown
<1>5. CASE Settle
  <2>1. /\ run.at = "settle" /\ UNCHANGED <<thread, receipts>>
        /\ status' = Settled(run.out) /\ status' \notin {"new", "queued", "running", "paused"}
        /\ row' = row \/ (row.text = 0 /\ row'.text = 0 /\ row'.status = "failed")
        /\ seen'.accepted = seen.accepted /\ seen'.passed = seen.passed
        /\ IF status' = "awaiting_review" THEN seen'.shown = seen.shown \cup {row.text}
           ELSE seen'.shown = seen.shown
    BY <1>1, <1>5, SettleFacts
  <2>2. /\ UnderReview' <=> UnderReview
        /\ (row'.status = "confirmed") <=> (row.status = "confirmed")
        /\ row'.text = row.text
    BY <2>1, NotUnderReviewStays
  <2>3. ComesOut => row'.text \in seen'.shown
    BY <2>1, <2>2 DEF ComesOut, Settled
  <2>. QED BY <2>1, <2>2, <2>3 DEF ShownInv, ConfirmedKnowingly
<1>6. CASE Stop \/ Fault
  <2>1. UNCHANGED <<thread, row, receipts, seen>> /\ status' \in {status, "paused", "cancelled"}
    BY <1>6 DEF Stop, Fault
  <2>2. ~ComesOut
    BY <1>6 DEF ComesOut, Stop, Fenced, Fault, Upset, Disturbable
  <2>. QED BY <2>1, <2>2, SameShown
<1>. QED BY <1>3, <1>4, <1>5, <1>6

LEMMA AuthorKeepsShown ==
  ASSUME CourseInv, ReviewInv, Clear, ShownInv, "late" \notin Hazards, Author
  PROVE  ShownInv'
<1>1. TypeInv /\ PlaceInv /\ AskInv
  BY DEF CourseInv, ReviewInv
<1>2. seen \in Histories
  BY <1>1 DEF TypeInv
<1>3. CASE Pause \/ Cancel
  <2>1. UNCHANGED <<thread, receipts, seen, run>> /\ status' \in {"paused", "cancelled"}
    BY <1>3 DEF Pause, Cancel
  <2>2. ~ComesOut
    BY <1>3 DEF ComesOut, Pause, Cancel, Upset, Disturbable
  <2>3. row' = row \/ (/\ row.text = 0 /\ row'.text = 0
                       /\ row'.status \notin {"confirmed", "awaiting_review"})
    BY <1>1, <1>3 DEF Pause, Cancel, EmptyRow, TypeInv, Rows
  <2>. QED BY <2>1, <2>2, <2>3, SameShown
<1>4. CASE Resume
  <2>1. /\ UNCHANGED <<thread, receipts, row>> /\ run.at = "idle"
        /\ seen' = [seen EXCEPT !.accepted = @ \cup (seen.shown \cap {row.text})]
    BY <1>4 DEF Resume
  <2>2. /\ seen'.shown = seen.shown /\ seen'.passed = seen.passed
        /\ seen'.accepted = seen.accepted \cup (seen.shown \cap {row.text})
    BY <1>2, <2>1 DEF Histories
  <2>3. ~ComesOut
    BY <2>1 DEF ComesOut
  <2>. QED BY <2>1, <2>2, <2>3, SameShown
<1>5. CASE \E i \in DOMAIN pages : ConfirmPlan(i)
  <2>1. PICK i \in DOMAIN pages : ConfirmPlan(i)
    BY <1>5
  <2>2. /\ UNCHANGED <<thread, receipts, row, run>> /\ status = "awaiting_plan"
        /\ seen' = [seen EXCEPT !.approved = @ \cup {pages[i].plan}]
    BY <2>1 DEF ConfirmPlan
  <2>3. seen'.shown = seen.shown /\ seen'.passed = seen.passed /\ seen'.accepted = seen.accepted
    BY <1>2, <2>2 DEF Histories
  <2>4. ~UnderReview /\ ~ComesOut
    BY <1>1, <2>2 DEF Clear, AskInv, ComesOut
  <2>. QED BY <2>2, <2>3, <2>4, SameShown
<1>6. CASE \E c \in Cards, d \in {"confirmed", "barred", "revise"} : Judge(c, d)
  <2>1. /\ UNCHANGED <<thread, receipts, row, run, status>>
        /\ seen' = seen \/ seen' = [seen EXCEPT !.refused = @ \cup {row.text}]
    BY <1>6 DEF Judge
  <2>2. seen'.shown = seen.shown /\ seen'.passed = seen.passed /\ seen'.accepted = seen.accepted
    BY <1>2, <2>1 DEF Histories
  <2>3. ComesOut => ComesOut'
    BY <2>1 DEF ComesOut
  <2>. QED BY <2>1, <2>2, <2>3, SameShown
<1>7. CASE Edit
  <2>1. row'.status = "confirmed" /\ row'.text \in seen'.passed
    BY <1>1, <1>7, EditFacts
  <2>. QED BY <2>1 DEF ShownInv, UnderReview, ConfirmedKnowingly
<1>. QED BY <1>3, <1>4, <1>5, <1>6, <1>7 DEF Author

(* A chapter is confirmed only with a text that the audit passed with      *)
(* nothing left to judge, or that the author resumed after it was shown to *)
(* him for review (route_after_audit, node_persist,                        *)
(* finalize_chapter_review).                                               *)
THEOREM ConfirmedKnowinglyHolds ==
  ASSUME "replan" \notin Hazards, "late" \notin Hazards
  PROVE  Spec => []ConfirmedKnowingly
<1>1. Init => CourseInv /\ ReviewInv /\ ShownInv
  <2>. SUFFICES ASSUME Init PROVE CourseInv /\ ReviewInv /\ ShownInv
    OBVIOUS
  <2>1. row.status = "absent" \/ (row.status = "confirmed" /\ row.text \in seen.passed)
    BY DEF Init
  <2>. QED BY <2>1, InitCourse, InitReview DEF ShownInv, UnderReview, ConfirmedKnowingly
<1>2. CourseInv /\ ReviewInv /\ ShownInv /\ [Next]_vars => CourseInv' /\ ReviewInv' /\ ShownInv'
  <2>. SUFFICES ASSUME CourseInv, ReviewInv, ShownInv, [Next]_vars PROVE ShownInv'
    BY NextKeepsCourse, NextKeepsReview
  <2>. Clear
    BY DEF ReviewInv, PlanInv
  <2>1. \A n : n \in Nodes \ {"plan_gate", "persist", "summarize"} <=> n \in Computing
    BY DEF Computing
  <2>2. ASSUME UNCHANGED vars PROVE ShownInv'
    <3>1. UNCHANGED <<status, op, queue, thread, run, row, summary, card, receipts, pages, upsets, seen>>
      BY <2>2 DEF vars
    <3>. QED BY <3>1 DEF ShownInv, UnderReview, ComesOut, ConfirmedKnowingly
  <2>. QED
    BY <2>1, <2>2, TakeKeepsShown, GraphKeepsShown, SummaryKeepsShown, ReviewStepsKeepShown,
       EndsKeepShown, AuthorKeepsShown
    DEF Next, Work
<1>3. ShownInv => ConfirmedKnowingly
  BY DEF ShownInv
<1>. QED BY <1>1, <1>2, <1>3, PTL DEF Spec

---------------------------------------------------------------------------
(* Plans and their approval.                                               *)

SameText(v, w) == /\ w.manual = v.manual /\ w.rewrite = v.rewrite /\ w.asked = v.asked
                  /\ w.plan = v.plan /\ w.draft = v.draft /\ w.error = v.error

Rest == \/ Persist \/ PersistCheckpoint \/ Summarize \/ Summarized
        \/ ResolveRevise \/ ResolveWait \/ ResolveAccept \/ Mark \/ Close
        \/ EndRevision \/ EndGraph \/ Settle \/ Stop \/ Fault

(* The steps of a run after its text is there: what they do to the thread. *)
ThreadStays == thread'.v = thread.v /\ thread'.next = thread.next

ThreadEnds == /\ SameText(thread.v, thread'.v) /\ thread'.next \in {"summarize", "end"}
              /\ thread'.next = "end" /\ thread'.v.review => UnderReview
              /\ UNCHANGED <<row, card>>

ThreadReopens == /\ run.at = "resolve" /\ thread'.next = "revise" /\ UNCHANGED row
                 /\ thread'.v.manual = thread.v.manual /\ thread'.v.plan = thread.v.plan
                 /\ thread'.v.draft = thread.v.draft /\ thread.v.draft # 0
                 /\ thread.next = "end" /\ Rejected # {} /\ (UnderReview \/ thread.v.review)

LEMMA RestMoves ==
  ASSUME CourseInv, ReviewInv, Rest
  PROVE  ThreadStays \/ ThreadEnds \/ ThreadReopens
<1>1. /\ TypeInv /\ PlaceInv /\ EndInv /\ SummarizeInv /\ thread \in Threads /\ thread.v \in Values
      /\ run \in Runs /\ run.v \in Values
  BY DEF CourseInv, TypeInv, Threads, Runs
<1>2. run.at \in Finishing => Agree(run.v, thread.v)
  BY DEF ReviewInv, FinishInv
<1>3. CASE thread' = thread
  BY <1>3 DEF ThreadStays
<1>4. CASE PersistCheckpoint
  <2>. DEFINE b == Blocked(thread.v)
  <2>1. /\ thread' = [v |-> [thread.v EXCEPT !.review = b], next |-> "summarize", asked |-> FALSE]
        /\ UNCHANGED <<row, card>>
    BY <1>4 DEF PersistCheckpoint, Left, Persisted, Successor
  <2>. HIDE DEF b
  <2>. QED BY <1>1, <2>1 DEF ThreadEnds, SameText, Values
<1>5. CASE AfterSummary /\ (Summarize \/ Summarized) /\ thread' # thread
  <2>1. thread' = Left("summarize", thread.v) /\ run.at \notin {"summary", "asked_last"}
    BY <1>5 DEF AfterSummary
  <2>2. UNCHANGED <<row, card>> /\ thread.next = "summarize"
    BY <1>1, <1>5, <2>1 DEF Summarize, Summarized, AtNode, PlaceInv
  <2>3. thread'.v = thread.v /\ thread'.next = "end"
    BY <2>1 DEF Left, Successor
  <2>. QED BY <1>1, <2>2, <2>3 DEF ThreadEnds, SameText, SummarizeInv
<1>6. CASE ResolveRevise
  <2>1. /\ thread' = [v |-> Reopened(run.v), next |-> "revise", asked |-> FALSE]
        /\ run.at = "resolve" /\ row' = row /\ Rejected # {}
    BY <1>6 DEF ResolveRevise
  <2>2. /\ Reopened(run.v).manual = run.v.manual /\ Reopened(run.v).plan = run.v.plan
        /\ Reopened(run.v).draft = run.v.draft
    BY <1>1 DEF Reopened, Values
  <2>3. run.v = thread.v /\ thread.v.draft # 0 /\ thread.next = "end" /\ (UnderReview \/ thread.v.review)
    BY <1>1, <2>1 DEF EndInv, PlaceInv, Finishing
  <2>. QED BY <2>1, <2>2, <2>3 DEF ThreadReopens
<1>7. CASE Mark
  <2>1. PICK x \in Nat : thread' = [v |-> [run.v EXCEPT !.finalizing = TRUE, !.version = x],
                                    next |-> "end", asked |-> FALSE]
    BY <1>1, <1>7, MarkFacts
  <2>2. run.at = "mark" /\ UNCHANGED <<row, card>> /\ ~run.v.review /\ Agree(run.v, thread.v)
    BY <1>1, <1>2, <1>7 DEF Mark, EndInv, Finishing
  <2>3. /\ thread'.next = "end" /\ ~thread'.v.review
        /\ SameText(run.v, thread'.v)
    BY <1>1, <2>1, <2>2 DEF Values, SameText
  <2>. QED BY <2>2, <2>3 DEF ThreadEnds, SameText, Agree
<1>8. CASE Close
  <2>1. thread' = [thread EXCEPT !.v = [run.v EXCEPT !.review = FALSE, !.finalizing = FALSE]]
    BY <1>1, <1>8, CloseFacts
  <2>2. run.at = "close" /\ UNCHANGED <<row, card>> /\ Agree(run.v, thread.v) /\ thread.next = "end"
    BY <1>1, <1>2, <1>8 DEF Close, Finishing, PlaceInv
  <2>3. thread'.v = [run.v EXCEPT !.review = FALSE, !.finalizing = FALSE] /\ thread'.next = "end"
    BY <1>1, <2>1, <2>2 DEF Threads
  <2>4. ~thread'.v.review /\ SameText(run.v, thread'.v)
    BY <1>1, <2>3 DEF Values, SameText
  <2>. QED BY <2>2, <2>3, <2>4 DEF ThreadEnds, SameText, Agree
<1>9. \/ thread' = thread \/ PersistCheckpoint \/ ResolveRevise \/ Mark \/ Close
      \/ AfterSummary /\ (Summarize \/ Summarized)
  BY DEF Rest, Persist, Summarize, Summarized, ResolveWait, ResolveAccept, EndRevision, EndGraph,
         Settle, Stop, Fault
<1>. QED BY <1>3, <1>4, <1>5, <1>6, <1>7, <1>8, <1>9

(* What they do to the rest.                                               *)
LEMMA RestFacts ==
  ASSUME CourseInv, Rest
  PROVE  /\ UNCHANGED <<op, pages>> /\ seen'.approved = seen.approved
         /\ run.at # "idle"
         /\ queue' \subseteq queue \cup {run.msg}
         /\ run'.msg \in {run.msg, Generate} /\ run'.plan \in {run.plan, 0}
<1>1. TypeInv /\ PlaceInv /\ run \in Runs /\ run.msg \in Messages /\ seen \in Histories
  BY DEF CourseInv, TypeInv, Runs
<1>2. UNCHANGED <<op, pages>> /\ seen'.approved = seen.approved
  <2>1. CASE Settle
    BY <1>1, <2>1, SettleFacts
  <2>2. CASE ~Settle
    BY <2>2 DEF Rest, Persist, PersistCheckpoint, Summarize, Summarized, ResolveRevise, ResolveWait,
                ResolveAccept, Mark, Close, EndRevision, EndGraph, Stop, Fault
  <2>. QED BY <2>1, <2>2
<1>3. run.at # "idle" /\ queue' \subseteq queue \cup {run.msg}
  BY DEF Rest, Persist, PersistCheckpoint, Summarize, Summarized, ResolveRevise, ResolveWait, ResolveAccept,
         Mark, Close, EndRevision, EndGraph, Settle, Stop, Fault, AtNode
<1>4. run'.msg \in {run.msg, Generate} /\ run'.plan \in {run.plan, 0}
  <2>1. CASE Settle \/ Stop \/ Fault
    <3>1. run' = Idle
      BY <2>1 DEF Settle, Stop, Fault
    <3>. QED BY <3>1 DEF Idle
  <2>2. CASE ResolveWait
    <3>1. End(run.msg, "awaiting_review") /\ "awaiting_review" \in Outs
      BY <2>2 DEF ResolveWait, Outs
    <3>. QED BY <1>1, <3>1, EndFacts
  <2>3. CASE EndGraph
    BY <1>1, <2>3, EndGraphFacts
  <2>4. CASE Close
    <3>1. \E o : run' = [run EXCEPT !.at = "settle", !.out = o]
      BY <2>4 DEF Close
    <3>. QED BY <1>1, <3>1 DEF Runs
  <2>5. CASE Mark
    <3>1. \E w : run' = [run EXCEPT !.at = "summary", !.v = w]
      BY <2>5 DEF Mark
    <3>. QED BY <1>1, <3>1 DEF Runs
  <2>6. CASE EndRevision
    <3>1. \/ run' = [run EXCEPT !.at = "settle", !.out = "awaiting_review"]
          \/ run' = [run EXCEPT !.at = "mark", !.v = thread.v]
      BY <2>6 DEF EndRevision
    <3>. QED BY <1>1, <3>1 DEF Runs
  <2>7. CASE ResolveRevise \/ ResolveAccept
    <3>1. \/ run' = [run EXCEPT !.at = "graph", !.answers = Rejected]
          \/ run' = [run EXCEPT !.at = "mark", !.v.review = FALSE]
      BY <2>7 DEF ResolveRevise, ResolveAccept
    <3>. QED BY <1>1, <3>1 DEF Runs
  <2>8. CASE Persist \/ PersistCheckpoint
    <3>1. \E a : run' = [run EXCEPT !.at = a]
      BY <2>8 DEF Persist, PersistCheckpoint
    <3>. QED BY <1>1, <3>1 DEF Runs
  <2>9. CASE Summarize \/ Summarized
    <3>1. \E a, x : run' = [run EXCEPT !.at = a] \/ run' = [run EXCEPT !.at = a, !.version = x]
      <4>1. CASE AfterSummary
        BY <4>1 DEF AfterSummary
      <4>2. CASE ~AfterSummary
        BY <2>9, <4>2 DEF Summarize, Summarized
      <4>. QED BY <4>1, <4>2
    <3>. QED BY <1>1, <3>1 DEF Runs
  <2>. QED BY <2>1, <2>2, <2>3, <2>4, <2>5, <2>6, <2>7, <2>8, <2>9 DEF Rest
<1>. QED BY <1>2, <1>3, <1>4

(* A step that records no plan.                                            *)
LEMMA SamePages ==
  ASSUME PageInv, pages' = pages, seen'.approved = seen.approved,
         thread'.v.manual => thread.v.manual /\ thread'.v.plan <= Len(pages)
  PROVE  PageInv'
BY DEF PageInv

(* A chapter leaves its review only with a text that has no error, and     *)
(* only when no rejection is left.                                         *)
LEMMA RestKeepsReopened ==
  ASSUME CourseInv, ReviewInv, ReopenedInv, Rest, ThreadStays, op' = op, pages' = pages
  PROVE  ReopenedInv'
<1>1. TypeInv /\ PlaceInv /\ TextInv /\ card \in [Cards -> CardStates]
  BY DEF CourseInv, TypeInv
<1>2. CASE Persist
  <2>1. thread.next = "persist" /\ ~thread.v.error
    BY <1>1, <1>2 DEF Persist, AtNode, TextInv
  <2>. QED BY <2>1 DEF ReopenedInv, ThreadStays, KeepsPlan
<1>3. CASE ResolveAccept
  <2>1. /\ thread.next = "end" /\ Rejected = {} /\ card' = card
        /\ Clear => ~thread.v.error
    BY <1>3, AcceptFacts
  <2>2. Rejected' = {}
    BY <2>1 DEF Rejected, CardsThat
  <2>3. KeepsPlan(thread.v) => ~thread.v.error
    BY <2>1 DEF KeepsPlan, Clear
  <2>. QED BY <2>1, <2>2, <2>3 DEF ReopenedInv, ThreadStays, KeepsPlan
<1>4. ASSUME UnderReview' <=> UnderReview, Rejected' \subseteq Rejected
      PROVE  ReopenedInv'
  BY <1>4 DEF ReopenedInv, ThreadStays, KeepsPlan
<1>5. CASE ~Persist /\ ~ResolveAccept
  <2>1. UnderReview' <=> UnderReview
    <3>1. CASE Settle
      <4>1. row' = row \/ (row.text = 0 /\ row'.text = 0 /\ row'.status = "failed")
        BY <1>1, <3>1, SettleFacts
      <4>. QED BY <4>1, NotUnderReviewStays
    <3>2. CASE ~Settle
      <4>1. row' = row
        BY <1>5, <3>2 DEF Rest, PersistCheckpoint, Summarize, Summarized, ResolveRevise, ResolveWait,
                          Mark, Close, EndRevision, EndGraph, Stop, Fault
      <4>. QED BY <4>1 DEF UnderReview
    <3>. QED BY <3>1, <3>2
  <2>2. Rejected' \subseteq Rejected
    <3>1. CASE ResolveRevise
      <4>1. card' = [c \in Cards |-> IF card[c] = "pending" THEN "none" ELSE card[c]]
        BY <3>1 DEF ResolveRevise
      <4>. QED BY <4>1 DEF Rejected, CardsThat
    <3>2. CASE EndRevision
      <4>1. card' = [c \in Cards |-> IF c \in run.answers /\ ~thread.v.error THEN "applied" ELSE card[c]]
        BY <3>2 DEF EndRevision
      <4>. QED BY <4>1 DEF Rejected, CardsThat
    <3>3. CASE ~ResolveRevise /\ ~EndRevision
      <4>1. card' = card
        BY <1>5, <3>3 DEF Rest, PersistCheckpoint, Summarize, Summarized, ResolveWait,
                          Mark, Close, EndGraph, Settle, Stop, Fault
      <4>. QED BY <4>1 DEF Rejected, CardsThat
    <3>. QED BY <3>1, <3>2, <3>3
  <2>. QED BY <1>4, <2>1, <2>2
<1>. QED BY <1>2, <1>3, <1>5

LEMMA RestKeepsApproval ==
  ASSUME CourseInv, ReviewInv, ApprovalInv, Rest
  PROVE  ApprovalInv'
<1>1. /\ UNCHANGED <<op, pages>> /\ seen'.approved = seen.approved
      /\ run.at # "idle" /\ queue' \subseteq queue \cup {run.msg}
      /\ run'.msg \in {run.msg, Generate} /\ run'.plan \in {run.plan, 0}
  BY RestFacts
<1>2. ThreadStays \/ ThreadEnds \/ ThreadReopens
  BY RestMoves
<1>3. PageInv'
  <2>1. thread'.v.manual = thread.v.manual /\ thread'.v.plan = thread.v.plan
    BY <1>2 DEF ThreadStays, ThreadEnds, ThreadReopens, SameText
  <2>. QED BY <1>1, <2>1, SamePages DEF ApprovalInv, PageInv
<1>4. BroughtInv'
  BY <1>1 DEF ApprovalInv, BroughtInv, Generate
<1>5. TextApproved'
  BY <1>1, <1>2 DEF ApprovalInv, TextApproved, Writes, ThreadStays, ThreadEnds, ThreadReopens, SameText
<1>6. ReopenedInv'
  <2>1. CASE ThreadStays
    BY <1>1, <2>1, RestKeepsReopened DEF ApprovalInv
  <2>2. CASE ThreadEnds
    <3>1. UnderReview' = UnderReview /\ Rejected' = Rejected
      BY <2>2 DEF ThreadEnds, UnderReview, Rejected, CardsThat
    <3>. QED BY <1>1, <2>2, <3>1 DEF ApprovalInv, ReopenedInv, ThreadEnds, SameText, KeepsPlan
  <2>3. CASE ThreadReopens
    <3>1. UnderReview
      BY <2>3 DEF ThreadReopens, ApprovalInv, ReopenedInv
    <3>2. op > 0
      BY <2>3 DEF ThreadReopens, ReviewInv, OpInv, Finishing
    <3>. QED BY <1>1, <2>3, <3>1, <3>2 DEF ReopenedInv, ThreadReopens, UnderReview
  <2>. QED BY <1>2, <2>1, <2>2, <2>3
<1>. QED BY <1>3, <1>4, <1>5, <1>6 DEF ApprovalInv

LEMMA TakeKeepsApproval ==
  ASSUME CourseInv, ReviewInv, ApprovalInv, NEW m \in queue, Take(m)
  PROVE  ApprovalInv'
<1>1. TypeInv /\ PlaceInv /\ thread \in Threads /\ run \in Runs /\ op \in Nat
      /\ PageInv /\ BroughtInv /\ ReopenedInv /\ TextApproved
  BY DEF CourseInv, TypeInv, ApprovalInv
<1>2. /\ queue' = queue \ {m} /\ m \in Messages
      /\ UNCHANGED <<op, summary, card, receipts, pages, upsets, seen>>
      /\ \/ UNCHANGED <<status, thread, run, row>>
         \/ /\ ~Outdated(m)
            /\ \/ StartsAnew(m)
               \/ GoesByItself(m) /\ (StartsAgain(m) \/ GoesOn(m) \/ FindsEnd(m))
               \/ GoesOnWithPlan(m) \/ FindsNothing(m) \/ FindsReview(m)
  BY <1>1, Taken
<1>3. thread'.v = thread.v
  BY <1>1, <1>2 DEF StartsAnew, StartsAgain, GoesOn, FindsEnd, GoesOnWithPlan, FindsNothing,
                    FindsReview, Threads
<1>4. \/ thread'.next = thread.next /\ row' = row
      \/ StartsAnew(m) /\ thread.next = "none" /\ thread'.next = "load_state"
      \/ StartsAgain(m) /\ GoesByItself(m) /\ ~Outdated(m) /\ thread'.next = "load_state" /\ row' = row
  BY <1>1, <1>2 DEF StartsAnew, StartsAgain, GoesOn, FindsEnd, GoesOnWithPlan, FindsNothing,
                    FindsReview, Threads
<1>5. PageInv'
  BY <1>1, <1>2, <1>3, SamePages DEF PageInv
<1>6. BroughtInv'
  <2>1. m.type = "plan" => m.plan \in seen.approved
    BY <1>1 DEF BroughtInv
  <2>2. CASE UNCHANGED run
    BY <1>1, <1>2, <2>2 DEF BroughtInv
  <2>3. ASSUME run'.msg = m, run'.plan = 0 \/ (m.type = "plan" /\ run'.plan = m.plan)
        PROVE  BroughtInv'
    BY <1>1, <1>2, <2>1, <2>3 DEF BroughtInv
  <2>4. CASE StartsAnew(m) \/ StartsAgain(m) \/ GoesOn(m)
    <3>1. \E first \in BOOLEAN : Begin(m, first, 0)
      BY <2>4 DEF StartsAnew, StartsAgain, GoesOn
    <3>. QED BY <1>2, <2>3, <3>1, BeginFacts
  <2>5. CASE GoesOnWithPlan(m)
    <3>1. Begin(m, TRUE, m.plan) /\ m.plan \in Nat /\ m.type = "plan"
      BY <1>2, <2>5 DEF GoesOnWithPlan, Messages
    <3>. QED BY <1>2, <2>3, <3>1, BeginFacts
  <2>6. CASE FindsNothing(m)
    <3>1. End(m, "failed") /\ "failed" \in Outs
      BY <2>6 DEF FindsNothing, Outs
    <3>. QED BY <1>2, <2>3, <3>1, EndFacts
  <2>7. CASE FindsEnd(m) \/ FindsReview(m)
    <3>1. run'.msg = m /\ run'.plan = 0
      BY <2>7 DEF FindsEnd, FindsReview, Idle
    <3>. QED BY <2>3, <3>1
  <2>. QED BY <1>2, <2>2, <2>4, <2>5, <2>6, <2>7
<1>7. TextApproved'
  BY <1>1, <1>2, <1>3, <1>4 DEF TextApproved, Writes
<1>8. ReopenedInv'
  <2>1. CASE thread'.next = thread.next /\ row' = row
    <3>1. UnderReview' = UnderReview /\ Rejected' = Rejected
      BY <1>2, <2>1 DEF UnderReview, Rejected, CardsThat
    <3>. QED BY <1>1, <1>2, <1>3, <2>1, <3>1 DEF ReopenedInv, KeepsPlan
  <2>2. CASE StartsAnew(m) /\ thread.next = "none" /\ thread'.next = "load_state"
    BY <1>1, <1>2, <1>3, <2>2 DEF ReopenedInv, KeepsPlan
  <2>3. CASE StartsAgain(m) /\ GoesByItself(m) /\ ~Outdated(m) /\ thread'.next = "load_state"
    <3>1. thread.next = "end" /\ thread.v.error
      BY <2>3 DEF StartsAgain
    <3>2. ASSUME thread.v.manual, KeepsPlan(thread.v), pages # <<>> PROVE FALSE
      <4>1. op > 0 /\ UnderReview
        BY <1>1, <3>1, <3>2 DEF ReopenedInv
      <4>2. m.type = "resume" => FinishesReview
        BY <3>1, <4>1 DEF FinishesReview
      <4>3. m.type = "generate" => m.op = 0
        BY DEF ReviewInv, OpInv, Sent
      <4>4. m.type = "generate" => Outdated(m)
        BY <1>1, <4>1, <4>3 DEF Outdated
      <4>. QED BY <2>3, <4>2, <4>4 DEF GoesByItself
    <3>. QED BY <1>2, <1>3, <2>3, <3>2 DEF ReopenedInv, KeepsPlan
  <2>. QED BY <1>4, <2>1, <2>2, <2>3
<1>. QED BY <1>5, <1>6, <1>7, <1>8 DEF ApprovalInv

LEMMA ComputeKeepsApproval ==
  ASSUME CourseInv, ReviewInv, ApprovalInv, NEW n \in Computing, Compute(n)
  PROVE  ApprovalInv'
<1>. DEFINE v == thread.v
<1>1. /\ TypeInv /\ PlaceInv /\ TextInv /\ PlanInv /\ run \in Runs
      /\ PageInv /\ BroughtInv /\ ReopenedInv /\ TextApproved
  BY DEF CourseInv, ReviewInv, ApprovalInv, TypeInv
<1>2. PICK w : Moves(n, w)
  BY <1>1, ComputeMoves
<1>3. PICK m : m = Successor(n, w)
  OBVIOUS
<1>4. /\ w \in Values /\ NodeLeaves(n, v, w) /\ Kept(v, w) /\ Leaves(n, w) /\ thread.next = n
      /\ thread'.v = w /\ thread'.next = m
      /\ pages' = IF w.plan = FreshPlan /\ w.manual
                  THEN Append(pages, [attempt |-> w.replans + 1, plan |-> FreshPlan])
                  ELSE pages
      /\ UNCHANGED <<op, queue, row, card>>
      /\ \E a \in {"ended", "graph"} : run' = [run EXCEPT !.at = a]
  BY <1>2, <1>3 DEF Moves, NodeLeaves, Leaves
<1>5. /\ run'.msg = run.msg /\ run'.plan = run.plan
      /\ seen'.approved = seen.approved
      /\ UnderReview' = UnderReview /\ Rejected' = Rejected
      /\ (KeepsPlan(w) <=> KeepsPlan(v)) /\ w.manual = v.manual
  <2>1. run'.msg = run.msg /\ run'.plan = run.plan
    BY <1>1, <1>4, Advances, PlacesKnown
  <2>. QED BY <1>1, <1>4, <2>1, Known DEF UnderReview, Rejected, CardsThat, KeepsPlan, Kept
<1>6. /\ Len(pages) \in Nat /\ pages \in Seq([attempt: Nat, plan: Nat]) /\ FreshPlan = Len(pages) + 1
      /\ v.plan \in Nat /\ w.plan \in Nat /\ w.replans \in Nat
  BY <1>1, <1>4 DEF TypeInv, Threads, Values, FreshPlan
<1>7. BroughtInv'
  BY <1>1, <1>4, <1>5 DEF BroughtInv
<1>8. /\ m = "recall" => n = "load_state" /\ ~w.error
      /\ m \in {"plan_cast", "plan_chapter", "plan_gate"}
              => n \in {"recall", "plan_cast", "plan_chapter", "reset_replan"}
      /\ m = "write" => n = "recall" /\ KeepsPlan(w)
      /\ m \in {"patch", "reset_replan", "revise", "persist"} => n = "route" /\ m = AfterRoute(w)
      /\ m \notin {"load_state", "none"}
      /\ n = "plan_chapter" => m = "plan_gate"
      /\ m = "end" => w.error
  BY <1>2, <1>3, <1>4, Comes, Goes DEF Moves, Nodes
<1>9. /\ n # "load_state" /\ v.error => w.error
      /\ n = "load_state" => /\ w.draft = 0 \/ w.error
                             /\ ~KeepsPlan(v) => ~w.error
                             /\ w.plan \in {0, v.plan}
      /\ n \in {"recall", "plan_cast", "plan_chapter", "extract", "validate", "audit", "route"}
           => w.draft = v.draft
      /\ n = "write" /\ v.error => w.draft = v.draft
      /\ n = "reset_replan" => w.draft = 0
      /\ n = "plan_chapter" => w.plan = FreshPlan \/ w.plan = v.plan
      /\ n \notin {"load_state", "plan_chapter"} => w.plan = v.plan
  BY <1>4 DEF NodeLeaves
<1>10. /\ n \in {"plan_cast", "plan_chapter", "write", "recall"} => v.draft = 0
       /\ n \in {"plan_cast", "plan_chapter", "reset_replan"} => ~KeepsPlan(v)
       /\ n \in Reading /\ ~v.error => v.draft # 0
       /\ n \in {"reset_replan", "revise", "patch"} => ~v.error
  BY <1>1, <1>4 DEF TextInv, PlanInv, Planning, Unseen
<1>11. CASE pages' # pages
  <2>1. w.plan = FreshPlan /\ w.manual /\ v.plan <= Len(pages)
    BY <1>1, <1>4, <1>5, <1>11 DEF PageInv
  <2>2. n = "plan_chapter"
    BY <1>6, <1>9, <2>1
  <2>3. PICK e : e = [attempt |-> w.replans + 1, plan |-> FreshPlan]
    OBVIOUS
  <2>4. pages' = Append(pages, e) /\ e.plan = Len(pages) + 1 /\ Len(pages') = Len(pages) + 1
    BY <1>4, <1>6, <2>1, <2>3
  <2>5. PageInv'
    <3>1. \A j \in DOMAIN pages' : pages'[j].plan \in 1..Len(pages')
      <4>1. ASSUME NEW j \in 1..(Len(pages) + 1) PROVE pages'[j].plan \in 1..(Len(pages) + 1)
        <5>1. CASE j = Len(pages) + 1
          BY <1>6, <2>4, <5>1
        <5>2. CASE j \in 1..Len(pages)
          <6>1. pages'[j] = pages[j]
            BY <1>6, <2>4, <5>2
          <6>2. DOMAIN pages = 1..Len(pages)
            BY <1>6
          <6>3. pages[j].plan \in 1..Len(pages)
            BY <1>1, <5>2, <6>2 DEF PageInv
          <6>. QED BY <1>6, <6>1, <6>3
        <5>. QED BY <1>6, <5>1, <5>2
      <4>2. DOMAIN pages' = 1..(Len(pages) + 1)
        BY <1>6, <2>4
      <4>. QED BY <2>4, <4>1, <4>2
    <3>2. \A p \in seen'.approved : p <= Len(pages')
      <4>1. \A p \in seen.approved : p \in Nat /\ p <= Len(pages)
        BY <1>1 DEF PageInv, TypeInv, Histories
      <4>. QED BY <1>5, <1>6, <2>4, <4>1
    <3>3. thread'.v.plan <= Len(pages')
      BY <1>4, <1>6, <2>1, <2>4
    <3>. QED BY <3>1, <3>2, <3>3 DEF PageInv
  <2>6. m = "plan_gate" /\ w.draft = 0 /\ ~KeepsPlan(w)
    BY <1>5, <1>8, <1>9, <1>10, <2>2
  <2>7. TextApproved' /\ ReopenedInv'
    BY <1>4, <2>6 DEF TextApproved, Writes, ReopenedInv
  <2>. QED BY <1>7, <2>5, <2>7 DEF ApprovalInv
<1>12. CASE pages' = pages
  <2>1. v.manual => w.plan <= Len(pages)
    <3>1. v.manual => v.plan <= Len(pages)
      BY <1>1 DEF PageInv
    <3>2. w.plan = FreshPlan => ~v.manual
      BY <1>4, <1>5, <1>6, <1>12
    <3>3. w.plan \in {0, v.plan, FreshPlan}
      BY <1>9
    <3>. QED BY <1>6, <3>1, <3>2, <3>3
  <2>2. PageInv'
    BY <1>1, <1>4, <1>5, <1>12, <2>1, SamePages
  <2>3. TextApproved'
    <3>. SUFFICES ASSUME v.manual, pages # <<>>,
                         w.draft # 0 \/ (m = "write" /\ ~w.error) \/ m = "revise"
                  PROVE  w.plan \in seen.approved
      BY <1>4, <1>5, <1>12 DEF TextApproved, Writes
    <3>1. KeepsPlan(v) => n \notin {"load_state", "recall", "write"}
      BY <1>1, <1>4 DEF ReopenedInv
    <3>2. m # "write" /\ (n = "load_state" => w.draft = 0)
      BY <1>5, <1>8, <1>9, <3>1
    <3>3. m = "revise" => w.draft # 0
      <4>1. m = "revise" => n = "route" /\ ~w.error
        BY <1>4, <1>8, Routes DEF AfterRoute
      <4>. QED BY <1>9, <1>10, <4>1 DEF Reading
    <3>4. w.draft # 0
      BY <3>2, <3>3
    <3>5. n \notin {"load_state", "recall", "plan_cast", "plan_chapter", "reset_replan"}
      BY <1>9, <1>10, <3>2, <3>4
    <3>6. /\ n = "write" => ~v.error
          /\ n \in {"extract", "validate", "audit", "route"} => v.draft # 0
          /\ n = "patch" => v.draft # 0
      BY <1>9, <1>10, <3>4 DEF Reading
    <3>7. n \in {"write", "revise", "extract", "validate", "audit", "route", "patch"}
      BY <3>5 DEF Computing, Nodes
    <3>8. v.plan \in seen.approved /\ w.plan = v.plan
      BY <1>1, <1>4, <1>9, <3>6, <3>7 DEF TextApproved, Writes
    <3>. QED BY <3>8
  <2>4. ReopenedInv'
    <3>1. TextInv'
      BY ComputeKeepsCourse DEF CourseInv
    <3>2. m = "end" => ~w.review
      BY <1>4, <1>8, <3>1 DEF TextInv
    <3>3. ASSUME v.manual, KeepsPlan(v), pages # <<>>
          PROVE  /\ op > 0 /\ m \notin {"none", "load_state", "recall", "write"}
                 /\ UnderReview
      <4>1. op > 0 /\ n \notin {"none", "load_state", "recall", "write"}
        BY <1>1, <1>4, <3>3 DEF ReopenedInv
      <4>2. UnderReview
        BY <1>1, <1>4, <3>3 DEF ReopenedInv, Computing, Nodes
      <4>. QED BY <1>8, <4>1, <4>2
    <3>. QED BY <1>4, <1>5, <1>12, <3>2, <3>3 DEF ReopenedInv
  <2>. QED BY <1>7, <2>2, <2>3, <2>4 DEF ApprovalInv
<1>. QED BY <1>11, <1>12

LEMMA GateKeepsApproval ==
  ASSUME CourseInv, ReviewInv, ApprovalInv, Gate
  PROVE  ApprovalInv'
<1>1. /\ TypeInv /\ PlaceInv /\ TextInv /\ PlanInv /\ thread \in Threads /\ thread.v \in Values
      /\ run \in Runs /\ PageInv /\ BroughtInv /\ ReopenedInv /\ TextApproved
  BY DEF CourseInv, ReviewInv, ApprovalInv, TypeInv, Threads
<1>2. /\ run.at = "graph" /\ thread.next = "plan_gate"
      /\ UNCHANGED <<op, queue, card, pages, seen>>
      /\ GateStops \/ \E p : GatePasses(p)
  BY <1>1, GateFacts
<1>3. ~KeepsPlan(thread.v) /\ thread.v.draft = 0
  BY <1>1, <1>2 DEF PlanInv, TextInv, Planning
<1>4. CASE GateStops
  <2>1. thread'.v = thread.v /\ thread'.next = "plan_gate" /\ run'.msg = run.msg /\ run'.plan = run.plan
    <3>1. run'.msg = run.msg /\ run'.plan = run.plan
      BY <1>1, <1>4, Advances, PlacesKnown DEF GateStops
    <3>. QED BY <1>1, <1>2, <1>4, <3>1 DEF GateStops, Threads
  <2>2. PageInv'
    BY <1>1, <1>2, <2>1, SamePages DEF PageInv
  <2>3. BroughtInv' /\ ReopenedInv' /\ TextApproved'
    BY <1>1, <1>2, <1>3, <2>1 DEF BroughtInv, ReopenedInv, TextApproved, Writes
  <2>. QED BY <2>2, <2>3 DEF ApprovalInv
<1>5. ASSUME NEW p, GatePasses(p) PROVE ApprovalInv'
  <2>1. /\ thread'.v.manual = thread.v.manual /\ thread'.v.rewrite = thread.v.rewrite
        /\ thread'.v.asked = thread.v.asked /\ thread'.v.error = thread.v.error
        /\ thread'.v.draft = thread.v.draft
    <3>1. {"manual", "rewrite", "asked", "error", "draft"} \subseteq DOMAIN thread.v \ {"plan"}
      BY <1>1 DEF Values
    <3>. QED BY <1>5, <3>1 DEF GatePasses
  <2>2. thread'.next = "write" /\ thread'.v.plan = p /\ run'.msg = run.msg /\ run'.plan = 0
    BY <1>1, <1>5 DEF GatePasses, Runs
  <2>3. /\ p = thread.v.plan \/ p \in seen.approved
        /\ thread.v.manual /\ ~thread.v.error => p \in seen.approved
    BY <1>1, <1>5 DEF GatePasses, GateOpen, BroughtInv
  <2>4. PageInv'
    BY <1>1, <1>2, <2>1, <2>2, <2>3, SamePages DEF PageInv
  <2>5. BroughtInv'
    BY <1>1, <1>2, <2>2 DEF BroughtInv
  <2>6. ~KeepsPlan(thread'.v)
    BY <1>3, <2>1 DEF KeepsPlan
  <2>7. ReopenedInv' /\ TextApproved'
    BY <1>2, <1>3, <2>1, <2>2, <2>3, <2>6 DEF ReopenedInv, TextApproved, Writes
  <2>. QED BY <2>4, <2>5, <2>7 DEF ApprovalInv
<1>. QED BY <1>2, <1>4, <1>5

LEMMA AuthorKeepsApproval ==
  ASSUME CourseInv, ReviewInv, ApprovalInv, Author
  PROVE  ApprovalInv'
<1>1. /\ TypeInv /\ RefusalInv /\ seen \in Histories /\ op \in Nat
      /\ PageInv /\ BroughtInv /\ ReopenedInv /\ TextApproved
  BY DEF CourseInv, ReviewInv, ApprovalInv, TypeInv
<1>2. UNCHANGED <<thread, run, pages>>
  BY DEF Author, Pause, Cancel, Resume, Edit, ConfirmPlan, Judge
<1>3. CASE \E i \in DOMAIN pages : ConfirmPlan(i)
  <2>1. PICK i \in DOMAIN pages : ConfirmPlan(i)
    BY <1>3
  <2>2. PICK p : p = pages[i].plan
    OBVIOUS
  <2>3. /\ queue' = queue \cup {[type |-> "plan", attempt |-> pages[i].attempt, plan |-> p, op |-> op]}
        /\ seen' = [seen EXCEPT !.approved = @ \cup {p}] /\ UNCHANGED <<op, row, card>>
    BY <2>1, <2>2 DEF ConfirmPlan
  <2>4. seen'.approved = seen.approved \cup {p}
    BY <1>1, <2>3 DEF Histories
  <2>5. PageInv'
    BY <1>1, <1>2, <2>1, <2>2, <2>4 DEF PageInv
  <2>6. BroughtInv'
    BY <1>1, <1>2, <2>3, <2>4 DEF BroughtInv
  <2>7. TextApproved'
    BY <1>1, <1>2, <2>4 DEF TextApproved, Writes
  <2>8. ReopenedInv'
    BY <1>1, <1>2, <2>3 DEF ReopenedInv, UnderReview, Rejected, CardsThat
  <2>. QED BY <2>5, <2>6, <2>7, <2>8 DEF ApprovalInv
<1>4. CASE ~(\E i \in DOMAIN pages : ConfirmPlan(i))
  <2>1. /\ seen'.approved = seen.approved /\ op' >= op
        /\ \A m \in queue' \ queue : m.type = "resume"
        /\ (UnderReview' <=> UnderReview)
    <3>1. CASE Pause
      BY <1>1, <3>1 DEF Pause, UnderReview
    <3>2. CASE Cancel
      <4>1. /\ UNCHANGED <<op, queue, seen>>
            /\ row' = row \/ (row.text = 0 /\ row'.text = 0 /\ row'.status = "cancelled")
        BY <1>1, <3>2 DEF Cancel, EmptyRow, TypeInv, Rows
      <4>2. UnderReview' <=> UnderReview
        BY <4>1, NotUnderReviewStays
      <4>. QED BY <1>1, <4>1, <4>2
    <3>3. CASE Resume
      <4>1. /\ op' = op + 1 /\ row' = row
            /\ queue' = queue \cup {[Generate EXCEPT !.type = "resume", !.op = op + 1]}
            /\ seen' = [seen EXCEPT !.accepted = @ \cup (seen.shown \cap {row.text})]
        BY <3>3 DEF Resume
      <4>2. [Generate EXCEPT !.type = "resume", !.op = op + 1].type = "resume"
        BY DEF Generate
      <4>3. seen'.approved = seen.approved
        BY <1>1, <4>1 DEF Histories
      <4>4. op' >= op /\ (UnderReview' <=> UnderReview)
        BY <1>1, <4>1 DEF UnderReview
      <4>5. \A m \in queue' \ queue : m.type = "resume"
        BY <4>1, <4>2
      <4>. QED BY <4>3, <4>4, <4>5
    <3>4. CASE Edit
      BY <1>1, <3>4, EditFacts DEF UnderReview
    <3>5. CASE \E c \in Cards, d \in {"confirmed", "barred", "revise"} : Judge(c, d)
      <4>1. /\ UNCHANGED <<op, queue, row>>
            /\ seen' = seen \/ seen' = [seen EXCEPT !.refused = @ \cup {row.text}]
        BY <3>5 DEF Judge
      <4>. QED BY <1>1, <4>1 DEF UnderReview, Histories
    <3>. QED BY <1>4, <3>1, <3>2, <3>3, <3>4, <3>5 DEF Author
  <2>2. PageInv'
    BY <1>1, <1>2, <2>1, SamePages DEF PageInv
  <2>3. BroughtInv'
    BY <1>1, <1>2, <2>1 DEF BroughtInv
  <2>4. TextApproved'
    BY <1>1, <1>2, <2>1 DEF TextApproved, Writes
  <2>5. ~UnderReview => Rejected' = Rejected
    <3>1. \A c \in Cards : card[c] = "pending" => UnderReview
      BY <1>1 DEF RefusalInv, CardsThat
    <3>2. CASE card' = card
      BY <3>2 DEF Rejected, CardsThat
    <3>3. CASE card' # card
      BY <3>1, <3>3 DEF Author, Pause, Cancel, Resume, Edit, ConfirmPlan, Judge
    <3>. QED BY <3>2, <3>3
  <2>6. ReopenedInv'
    <3>1. op \in Nat /\ op' \in Nat /\ (op > 0 => op' > 0)
      BY <1>1, <2>1 DEF Author, Pause, Cancel, Resume, Edit, ConfirmPlan, Judge
    <3>. QED BY <1>1, <1>2, <2>1, <2>5, <3>1 DEF ReopenedInv
  <2>. QED BY <2>2, <2>3, <2>4, <2>6 DEF ApprovalInv
<1>. QED BY <1>3, <1>4

LEMMA InitApproval ==
  ASSUME Init
  PROVE  ApprovalInv
<1>1. PICK i \in Inputs :
        /\ queue = {Generate} /\ run = Idle /\ pages = <<>>
        /\ seen = [passed |-> {1}, shown |-> {}, accepted |-> {}, refused |-> {}, approved |-> {}]
        /\ thread = [v |-> Input(i.manual, i.rewrite, i.asked, FALSE), next |-> "none", asked |-> FALSE]
  BY DEF Init
<1>2. thread.next = "none" /\ thread.v.plan = 0 /\ thread.v.draft = 0
  BY <1>1 DEF Input
<1>3. run.msg.type # "plan" /\ Generate.type # "plan" /\ run.plan = 0
  BY <1>1 DEF Idle, Generate
<1>4. Len(pages) = 0 /\ DOMAIN pages = {}
  BY <1>1
<1>5. PageInv
  <2>1. thread.v.plan <= Len(pages)
    BY <1>2, <1>4
  <2>2. seen.approved = {}
    BY <1>1
  <2>. QED BY <1>4, <2>1, <2>2 DEF PageInv
<1>6. BroughtInv
  <2>1. \A m \in queue \cup {run.msg} : m.type # "plan"
    BY <1>1, <1>3
  <2>. QED BY <1>3, <2>1 DEF BroughtInv
<1>7. ReopenedInv /\ TextApproved
  BY <1>1, <1>2 DEF ReopenedInv, TextApproved
<1>. QED BY <1>5, <1>6, <1>7 DEF ApprovalInv

LEMMA NextKeepsApproval ==
  ASSUME CourseInv, ReviewInv, ApprovalInv, [Next]_vars
  PROVE  ApprovalInv'
<1>1. CASE UNCHANGED vars
  <2>1. UNCHANGED <<op, queue, thread, run, row, card, pages, seen>>
    BY <1>1 DEF vars
  <2>. QED BY <2>1 DEF ApprovalInv, PageInv, BroughtInv, ReopenedInv, TextApproved, Writes, KeepsPlan,
                       UnderReview, Rejected, CardsThat
<1>2. CASE Work \/ Fault
  <2>1. \A n : n \in Nodes \ {"plan_gate", "persist", "summarize"} <=> n \in Computing
    BY DEF Computing
  <2>. QED BY <1>2, <2>1, TakeKeepsApproval, ComputeKeepsApproval, GateKeepsApproval, RestKeepsApproval
           DEF Work, Rest
<1>3. CASE Author
  BY <1>3, AuthorKeepsApproval
<1>. QED BY <1>1, <1>2, <1>3 DEF Next

(* In manual mode a text stands, or is revised, only under a plan that the *)
(* author approved: for every member of Hazards, whatever interrupts the   *)
(* task, repeats its messages or refuses its text (node_plan_gate,         *)
(* confirm_task_plan, resolve_review).                                     *)
THEOREM WrittenAsApprovedHolds == Spec => []WrittenAsApproved
<1>1. Init => ApprovalInv
  BY InitApproval
<1>2. CourseInv /\ ReviewInv /\ ApprovalInv /\ [Next]_vars => ApprovalInv'
  BY NextKeepsApproval
<1>3. Spec => [](CourseInv /\ ReviewInv)
  BY ReviewHolds
<1>4. ApprovalInv => WrittenAsApproved
  BY DEF ApprovalInv, TextApproved, Writes, WrittenAsApproved
<1>. QED BY <1>1, <1>2, <1>3, <1>4, PTL DEF Spec

---------------------------------------------------------------------------
(* Manual mode.                                                            *)

(* A step of a run that leaves status and queue alone: a running manual    *)
(* task has no message that waits.                                         *)
LEMMA RunStepKeepsManual ==
  ASSUME TypeInv, PlaceInv, ManualInv, run.at # "idle", UNCHANGED <<status, queue>>,
         thread'.v.manual => thread.v.manual,
         thread.v.manual =>
           /\ run'.at \in OnGraph /\ ~run'.first => thread'.v.rewrite
           /\ run'.at = "settle" /\ run'.out = "awaiting_review" => InReview'
           /\ run'.at = "settle" /\ run'.out = "awaiting_plan" => thread'.asked
  PROVE  ManualInv'
<1>1. status \in {"running", "paused", "cancelled"}
  BY DEF PlaceInv
<1>. SUFFICES ASSUME thread.v.manual, thread'.v.manual PROVE ManualInv'
  BY DEF ManualInv
<1>2. status = "running" /\ queue = {}
  BY <1>1 DEF ManualInv, Expected
<1>. QED BY <1>2 DEF ManualInv, Expected, Says

(* A manual task runs only while it is "running".                          *)
LEMMA RunsAlone ==
  ASSUME PlaceInv, ManualInv, thread.v.manual, run.at # "idle"
  PROVE  status = "running" /\ queue = {} /\ ~Fenced
<1>1. status \in {"running", "paused", "cancelled"}
  BY DEF PlaceInv
<1>. QED BY <1>1 DEF ManualInv, Expected, Fenced

(* No message makes an undisturbed manual task go on from its checkpoint:  *)
(* it is begun, given its plan, or finished.                               *)
LEMMA NeverByItself ==
  ASSUME PlaceInv, ManualInv, thread.v.manual, NEW m \in queue, GoesByItself(m)
  PROVE  ~(StartsAgain(m) \/ GoesOn(m) \/ FindsEnd(m))
<1>1. Expected(m)
  BY DEF ManualInv
<1>2. m.type = "generate" => thread.next = "none"
  BY <1>1 DEF Expected, PlaceInv
<1>3. m.type = "resume" => FinishesReview
  BY <1>1 DEF Expected, InReview, FinishesReview
<1>. QED BY <1>2, <1>3 DEF GoesByItself, StartsAgain, GoesOn, FindsEnd, Nodes

LEMMA TakeKeepsManual ==
  ASSUME CourseInv, ReviewInv, Clear, ManualInv, NEW m \in queue, Take(m)
  PROVE  ManualInv'
<1>1. TypeInv /\ PlaceInv
  BY DEF CourseInv
<1>2. /\ run.at = "idle" /\ queue' = queue \ {m} /\ m \in Messages
      /\ UNCHANGED <<op, summary, card, receipts, pages, upsets, seen>>
      /\ \/ UNCHANGED <<status, thread, run, row>>
         \/ /\ status' = "running"
            /\ \/ StartsAnew(m)
               \/ GoesByItself(m) /\ (StartsAgain(m) \/ GoesOn(m) \/ FindsEnd(m))
               \/ GoesOnWithPlan(m) \/ FindsNothing(m) \/ FindsReview(m)
  BY <1>1, Taken
<1>3. CASE UNCHANGED <<status, thread, run, row>>
  <2>1. UNCHANGED <<pages, seen>> /\ queue' \subseteq queue
    BY <1>2
  <2>. QED BY <1>3, <2>1 DEF ManualInv, Expected, Says, InReview, UnderReview
<1>. SUFFICES ASSUME status' = "running", thread.v.manual,
                     \/ StartsAnew(m)
                     \/ GoesByItself(m) /\ (StartsAgain(m) \/ GoesOn(m) \/ FindsEnd(m))
                     \/ GoesOnWithPlan(m) \/ FindsNothing(m) \/ FindsReview(m)
              PROVE  ManualInv'
  <2>1. ASSUME \/ StartsAnew(m)
               \/ GoesByItself(m) /\ (StartsAgain(m) \/ GoesOn(m) \/ FindsEnd(m))
               \/ GoesOnWithPlan(m) \/ FindsNothing(m) \/ FindsReview(m)
        PROVE  thread'.v = thread.v
    <3>1. thread \in Threads
      BY <1>1 DEF TypeInv
    <3>. QED BY <2>1, <3>1 DEF StartsAnew, StartsAgain, GoesOn, FindsEnd, GoesOnWithPlan,
                               FindsNothing, FindsReview, Threads
  <2>. QED BY <1>2, <1>3, <2>1 DEF ManualInv
<1>4. queue' = {} /\ Expected(m)
  BY <1>2 DEF ManualInv
<1>5. ~GoesByItself(m) \/ ~(StartsAgain(m) \/ GoesOn(m) \/ FindsEnd(m))
  BY <1>1, NeverByItself
<1>6. ASSUME /\ run'.at \in OnGraph => run'.first
             /\ run'.at = "settle" => run'.out = "failed"
      PROVE  ManualInv'
  BY <1>4, <1>6 DEF ManualInv, Says
<1>7. CASE StartsAnew(m)
  <2>1. run'.at = "graph" /\ run'.first
    <3>1. Begin(m, TRUE, 0) /\ TRUE \in BOOLEAN /\ 0 \in Nat
      BY <1>7 DEF StartsAnew
    <3>. QED BY <1>2, <3>1, BeginFacts
  <2>. QED BY <1>6, <2>1
<1>8. CASE GoesOnWithPlan(m)
  <2>1. m.plan \in Nat
    BY <1>2 DEF Messages
  <2>2. run'.at = "graph" /\ run'.first
    <3>1. Begin(m, TRUE, m.plan) /\ TRUE \in BOOLEAN
      BY <1>8 DEF GoesOnWithPlan
    <3>. QED BY <1>2, <2>1, <3>1, BeginFacts
  <2>. QED BY <1>6, <2>2
<1>9. CASE FindsNothing(m)
  <2>1. run'.at = "settle" /\ run'.out = "failed"
    <3>1. End(m, "failed") /\ "failed" \in Outs
      BY <1>9 DEF FindsNothing, Outs
    <3>. QED BY <1>2, <3>1, EndFacts
  <2>. QED BY <1>6, <2>1 DEF OnGraph
<1>10. CASE FindsReview(m)
  <2>1. run'.at \in {"summary", "resolve"}
    BY <1>10 DEF FindsReview, Idle
  <2>. QED BY <1>6, <2>1 DEF OnGraph
<1>. QED BY <1>5, <1>7, <1>8, <1>9, <1>10

LEMMA ComputeKeepsManual ==
  ASSUME CourseInv, ReviewInv, Clear, ManualInv, NEW n \in Computing, Compute(n)
  PROVE  ManualInv'
<1>1. TypeInv /\ PlaceInv /\ TextInv /\ run \in Runs
  BY DEF CourseInv, TypeInv
<1>2. PICK w : Moves(n, w)
  BY <1>1, ComputeMoves
<1>3. PICK a \in {"ended", "graph"} : run' = [run EXCEPT !.at = a]
  BY <1>2 DEF Moves
<1>4. run'.at = a /\ run'.first = run.first
  BY <1>1, <1>3, Advances, PlacesKnown
<1>5. /\ run.at = "graph" /\ thread.next # "plan_gate" /\ UNCHANGED <<status, queue>>
      /\ thread'.v.manual = thread.v.manual /\ thread'.v.rewrite = thread.v.rewrite
  BY <1>2 DEF Moves, Leaves, NodeLeaves, Kept, Computing
<1>6. thread.v.manual /\ ~run.first => thread.v.rewrite
  BY <1>5 DEF ManualInv, OnGraph
<1>. QED BY <1>1, <1>4, <1>5, <1>6, RunStepKeepsManual

LEMMA GateKeepsManual ==
  ASSUME CourseInv, ReviewInv, Clear, ManualInv, Gate
  PROVE  ManualInv'
<1>1. TypeInv /\ PlaceInv /\ run \in Runs /\ thread \in Threads /\ thread.v \in Values
  BY DEF CourseInv, TypeInv, Threads
<1>2. /\ run.at = "graph" /\ thread.next = "plan_gate" /\ UNCHANGED <<status, queue>>
      /\ GateStops \/ \E p : GatePasses(p)
  BY <1>1, GateFacts
<1>3. thread.v.manual /\ ~run.first => thread.v.rewrite
  BY <1>2 DEF ManualInv, OnGraph
<1>4. CASE GateStops
  <2>1. run'.at = "ended" /\ run'.first = run.first
    BY <1>1, <1>4, Advances, PlacesKnown DEF GateStops
  <2>2. thread'.v = thread.v
    BY <1>1, <1>4 DEF GateStops, Threads
  <2>. QED BY <1>1, <1>2, <1>3, <2>1, <2>2, RunStepKeepsManual
<1>5. CASE \E p : GatePasses(p)
  <2>1. PICK p : GatePasses(p)
    BY <1>5
  <2>2. run'.at = "graph" /\ run'.first = run.first
    BY <1>1, <1>2, <2>1 DEF GatePasses, Runs
  <2>3. thread'.v.manual = thread.v.manual /\ thread'.v.rewrite = thread.v.rewrite
    <3>1. {"manual", "rewrite"} \subseteq DOMAIN thread.v \ {"plan"}
      BY <1>1 DEF Values
    <3>. QED BY <2>1, <3>1 DEF GatePasses
  <2>. QED BY <1>1, <1>2, <1>3, <2>2, <2>3, RunStepKeepsManual
<1>. QED BY <1>2, <1>4, <1>5

LEMMA PersistKeepsManual ==
  ASSUME CourseInv, ReviewInv, Clear, ManualInv, Persist \/ PersistCheckpoint
  PROVE  ManualInv'
<1>1. TypeInv /\ PlaceInv /\ run \in Runs /\ thread \in Threads /\ thread.v \in Values
  BY DEF CourseInv, TypeInv, Threads
<1>2. /\ run.at \in {"graph", "persisted"} /\ thread.next = "persist" /\ UNCHANGED <<status, queue>>
      /\ \E a \in {"graph", "persisted"} : run' = [run EXCEPT !.at = a]
      /\ thread' = thread \/ thread' = Left("persist", Persisted(thread.v))
  BY <1>1 DEF Persist, PersistCheckpoint, AtNode, PlaceInv
<1>3. PICK a \in {"graph", "persisted"} : run' = [run EXCEPT !.at = a]
  BY <1>2
<1>4. run'.at = a /\ run'.first = run.first
  BY <1>1, <1>3, Advances, PlacesKnown
<1>5. thread'.v.manual = thread.v.manual /\ thread'.v.rewrite = thread.v.rewrite
  <2>. DEFINE b == Blocked(thread.v)
  <2>1. Persisted(thread.v) = [thread.v EXCEPT !.review = b]
    BY DEF Persisted
  <2>. HIDE DEF b
  <2>2. Persisted(thread.v).manual = thread.v.manual /\ Persisted(thread.v).rewrite = thread.v.rewrite
    BY <1>1, <2>1 DEF Values
  <2>. QED BY <1>2, <2>2 DEF Left
<1>6. thread.v.manual /\ ~run.first => thread.v.rewrite
  BY <1>2 DEF ManualInv, OnGraph
<1>. QED BY <1>1, <1>2, <1>4, <1>5, <1>6, RunStepKeepsManual

LEMMA SummaryKeepsManual ==
  ASSUME CourseInv, ReviewInv, Clear, ManualInv, Summarize \/ Summarized
  PROVE  ManualInv'
<1>1. TypeInv /\ PlaceInv /\ run \in Runs /\ thread \in Threads
  BY DEF CourseInv, TypeInv
<1>2. /\ \/ run.at = "graph" /\ thread.next = "summarize"
         \/ run.at \in {"summary", "asked", "asked_last"}
      /\ UNCHANGED <<status, op, queue, row, card, receipts, pages, upsets, seen>>
  BY DEF Summarize, Summarized, AtNode
<1>3. summary' \in [of: Nat, model: BOOLEAN]
  <2>1. Summarized => TypeInv'
    BY SummarizedKeepsCourse DEF CourseInv
  <2>. QED BY <1>1, <2>1 DEF TypeInv, Summarize
<1>4. run.at = "asked" => thread.next = "summarize"
  BY <1>1 DEF PlaceInv
<1>6. thread.v.manual /\ run.at \in {"graph", "asked"} /\ ~run.first => thread.v.rewrite
  BY <1>2 DEF ManualInv, OnGraph
<1>7. ASSUME NEW a \in Places, run' = [run EXCEPT !.at = a], thread'.v = thread.v, a # "settle",
             a \in OnGraph => run.at \in {"graph", "asked"}
      PROVE  ManualInv'
  <2>1. run'.at = a /\ run'.first = run.first
    BY <1>1, <1>7, Advances
  <2>. QED BY <1>1, <1>2, <1>6, <1>7, <2>1, RunStepKeepsManual
<1>8. CASE AfterSummary
  <2>1. /\ thread'.v = thread.v
        /\ run' = [run EXCEPT !.at = IF run.at \in {"summary", "asked_last"} THEN "close" ELSE "ended"]
    BY <1>2, <1>3, <1>4, <1>8, AfterSummaryFacts
  <2>. QED BY <1>2, <1>7, <2>1, PlacesKnown DEF OnGraph
<1>9. CASE ~AfterSummary
  <2>1. Summarize
    BY <1>9 DEF Summarized
  <2>2. /\ thread' = thread
        /\ run' = [run EXCEPT !.at = IF run.at = "summary" THEN "asked_last" ELSE "asked",
                              !.version = row.version]
    BY <1>9, <2>1 DEF Summarize
  <2>3. run'.at = (IF run.at = "summary" THEN "asked_last" ELSE "asked")
        /\ run'.first = run.first
    BY <1>1, <2>2 DEF Runs
  <2>4. run.at \in {"graph", "summary"}
    BY <2>1 DEF Summarize, AtNode
  <2>. QED BY <1>1, <1>2, <1>6, <2>2, <2>3, <2>4, RunStepKeepsManual DEF OnGraph
<1>. QED BY <1>8, <1>9

LEMMA ResolveKeepsManual ==
  ASSUME CourseInv, ReviewInv, Clear, ManualInv,
         ResolveRevise \/ ResolveWait \/ ResolveAccept \/ Mark \/ Close
  PROVE  ManualInv'
<1>1. TypeInv /\ PlaceInv /\ run \in Runs /\ run.v \in Values /\ thread \in Threads
  BY DEF CourseInv, TypeInv, Runs
<1>2. /\ run.at \in {"resolve", "mark", "close"} /\ UNCHANGED <<status, queue>>
      /\ run.v.manual = thread.v.manual
  BY DEF Clear, ResolveRevise, ResolveWait, ResolveAccept, Mark, Close, ReviewInv, FinishInv, Finishing,
         Agree
<1>4. CASE ResolveRevise
  <2>1. /\ thread' = [v |-> Reopened(run.v), next |-> "revise", asked |-> FALSE]
        /\ run' = [run EXCEPT !.at = "graph", !.answers = Rejected]
    BY <1>4 DEF ResolveRevise
  <2>2. Reopened(run.v).manual = run.v.manual /\ Reopened(run.v).rewrite
    BY <1>1 DEF Reopened, Values
  <2>3. run'.at = "graph"
    BY <1>1, <2>1 DEF Runs
  <2>. QED BY <1>1, <1>2, <2>1, <2>2, <2>3, RunStepKeepsManual
<1>5. CASE ResolveWait
  <2>1. End(run.msg, "awaiting_review") /\ UNCHANGED <<thread, row>> /\ CardsThat({"pending"}) # {}
    BY <1>5 DEF ResolveWait
  <2>2. run'.at = "settle" /\ run'.out = "awaiting_review"
    <3>1. run.msg \in Messages /\ "awaiting_review" \in Outs
      BY <1>1 DEF Runs, Outs
    <3>. QED BY <2>1, <3>1, EndFacts
  <2>3. InReview
    <3>1. thread.next = "end"
      BY <1>1, <1>5 DEF PlaceInv, ResolveWait, Finishing
    <3>2. UnderReview
      BY <2>1 DEF Clear, ReviewInv, RefusalInv
    <3>. QED BY <3>1, <3>2 DEF InReview
  <2>4. InReview'
    BY <2>1, <2>3 DEF InReview, UnderReview
  <2>. QED BY <1>1, <1>2, <2>1, <2>2, <2>4, RunStepKeepsManual DEF OnGraph
<1>6. CASE ResolveAccept
  <2>1. thread' = thread /\ run' = [run EXCEPT !.at = "mark", !.v.review = FALSE]
    BY <1>6 DEF ResolveAccept
  <2>2. run'.at = "mark"
    BY <1>1, <2>1 DEF Runs
  <2>. QED BY <1>1, <1>2, <2>1, <2>2, RunStepKeepsManual DEF OnGraph
<1>7. CASE Mark
  <2>1. PICK x \in Nat :
          LET w == [run.v EXCEPT !.finalizing = TRUE, !.version = x]
          IN thread' = [v |-> w, next |-> "end", asked |-> FALSE]
             /\ run' = [run EXCEPT !.at = "summary", !.v = w]
    BY <1>1, <1>7, MarkFacts
  <2>2. thread'.v.manual = run.v.manual
    BY <1>1, <2>1 DEF Values
  <2>3. run'.at = "summary"
    BY <1>1, <2>1 DEF Runs
  <2>. QED BY <1>1, <1>2, <2>2, <2>3, RunStepKeepsManual DEF OnGraph
<1>8. CASE Close
  <2>1. LET w == [run.v EXCEPT !.review = FALSE, !.finalizing = FALSE]
        IN /\ thread' = [thread EXCEPT !.v = w]
           /\ run' = [run EXCEPT !.at = "settle", !.out = Outcome(w)]
           /\ Outcome(w) \in {"done", "failed"}
    BY <1>1, <1>8, CloseFacts
  <2>2. thread'.v.manual = run.v.manual
    BY <1>1, <2>1 DEF Values, Threads
  <2>3. run'.at = "settle" /\ run'.out \in {"done", "failed"}
    BY <1>1, <2>1 DEF Runs
  <2>. QED BY <1>1, <1>2, <2>2, <2>3, RunStepKeepsManual DEF OnGraph
<1>. QED BY <1>4, <1>5, <1>6, <1>7, <1>8

LEMMA EndsKeepManual ==
  ASSUME CourseInv, ReviewInv, Clear, ManualInv, "manual" \notin Hazards,
         EndRevision \/ EndGraph \/ Settle \/ Stop \/ Fault
  PROVE  ManualInv'
<1>1. TypeInv /\ PlaceInv /\ TextInv /\ run \in Runs /\ thread \in Threads /\ thread.v \in Values
  BY DEF CourseInv, TypeInv, Threads
<1>2. run.at = "ended" /\ thread.v.review => InReview
  BY <1>1 DEF TextInv, PlaceInv, InReview
<1>3. CASE EndRevision
  <2>1. /\ run.at = "ended" /\ UNCHANGED <<status, queue, thread, row>>
        /\ run' = IF thread.v.review THEN [run EXCEPT !.at = "settle", !.out = "awaiting_review"]
                  ELSE [run EXCEPT !.at = "mark", !.v = thread.v]
    BY <1>3 DEF EndRevision
  <2>2. /\ run'.at \in {"settle", "mark"}
        /\ run'.at = "settle" => thread.v.review /\ run'.out = "awaiting_review"
    BY <1>1, <2>1 DEF Runs
  <2>4. run'.at = "settle" => InReview'
    BY <1>2, <2>1, <2>2 DEF InReview, UnderReview
  <2>. QED BY <1>1, <2>1, <2>2, <2>4, RunStepKeepsManual DEF OnGraph
<1>4. CASE EndGraph
  <2>1. /\ run.at = "ended" /\ UNCHANGED <<status, queue, thread, row>>
        /\ run'.at = "settle"
        /\ run'.out = IF thread.asked /\ run.first THEN "awaiting_plan" ELSE Outcome(thread.v)
    BY <1>1, <1>4, EndGraphFacts
  <2>3. /\ run'.out = "awaiting_review" => InReview'
        /\ run'.out = "awaiting_plan" => thread'.asked
    <3>1. Outcome(thread.v) # "awaiting_plan" /\ (Outcome(thread.v) = "awaiting_review" => thread.v.review)
      BY DEF Outcome
    <3>. QED BY <1>2, <2>1, <3>1 DEF InReview, UnderReview
  <2>. QED BY <1>1, <2>1, <2>3, RunStepKeepsManual DEF OnGraph
<1>5. CASE Settle
  <2>1. /\ run.at = "settle" /\ run' = Idle /\ UNCHANGED <<queue, thread, pages>>
        /\ status' = Settled(run.out) /\ status' \notin {"new", "queued", "running", "paused"}
        /\ row' = row \/ (row.text = 0 /\ row'.text = 0 /\ row'.status = "failed")
    BY <1>1, <1>5, SettleFacts
  <2>2. UnderReview' <=> UnderReview
    BY <2>1, NotUnderReviewStays
  <2>. SUFFICES ASSUME thread.v.manual PROVE ManualInv'
    BY <2>1 DEF ManualInv
  <2>3. status = "running" /\ queue = {}
    BY <1>1, <2>1, RunsAlone
  <2>4. status' = run.out /\ run.out \in Outs
    BY <1>1, <2>1, <2>3 DEF Settled, Runs
  <2>5. /\ run.out = "awaiting_review" => InReview'
        /\ run.out = "awaiting_plan" => thread'.asked
    BY <2>1, <2>2 DEF ManualInv, Says, InReview
  <2>6. run'.at = "idle"
    BY <2>1, IdleFacts
  <2>. QED BY <2>1, <2>3, <2>4, <2>5, <2>6 DEF ManualInv, Says, OnGraph, Outs
<1>6. CASE Stop
  <2>1. Fenced /\ run.at # "idle" /\ thread' = thread
    BY <1>6 DEF Stop
  <2>. QED BY <1>1, <2>1, RunsAlone DEF ManualInv
<1>7. CASE Fault
  BY <1>7 DEF Fault, Upset, Disturbable, ManualInv
<1>. QED BY <1>3, <1>4, <1>5, <1>6, <1>7

LEMMA AuthorKeepsManual ==
  ASSUME CourseInv, ReviewInv, Clear, ManualInv, "manual" \notin Hazards, Author
  PROVE  ManualInv'
<1>1. TypeInv /\ PlaceInv /\ seen \in Histories /\ thread.v \in Values
  BY DEF CourseInv, TypeInv, Threads
<1>2. thread' = thread
  BY DEF Author, Pause, Cancel, Resume, Edit, ConfirmPlan, Judge
<1>. SUFFICES ASSUME thread.v.manual PROVE ManualInv'
  BY <1>2 DEF ManualInv
<1>3. status \in {"awaiting_review", "awaiting_plan"} => queue = {} /\ run.at = "idle"
  BY <1>1 DEF ManualInv, Expected, PlaceInv
<1>4. ~Pause /\ ~Cancel
  BY DEF Pause, Cancel, Upset, Disturbable
<1>5. CASE Resume
  <2>1. /\ status = "awaiting_review" /\ status' = "queued" /\ UNCHANGED <<run, row, pages>>
        /\ queue' = queue \cup {[Generate EXCEPT !.type = "resume", !.op = op + 1]}
    BY <1>5 DEF Resume, Disturbable
  <2>2. PICK k : k = [Generate EXCEPT !.type = "resume", !.op = op + 1]
    OBVIOUS
  <2>3. k.type = "resume"
    BY <2>2 DEF Generate
  <2>4. InReview'
    BY <1>2, <2>1 DEF ManualInv, Says, InReview, UnderReview
  <2>5. queue' = {k}
    BY <1>3, <2>1, <2>2
  <2>6. Expected(k)'
    BY <2>1, <2>3, <2>4 DEF Expected
  <2>. QED BY <1>3, <2>1, <2>5, <2>6 DEF ManualInv, Says, OnGraph
<1>6. CASE \E i \in DOMAIN pages : ConfirmPlan(i)
  <2>1. PICK i \in DOMAIN pages : ConfirmPlan(i)
    BY <1>6
  <2>2. PICK k : k = [type |-> "plan", attempt |-> pages[i].attempt, plan |-> pages[i].plan, op |-> op]
    OBVIOUS
  <2>3. /\ status = "awaiting_plan" /\ status' = "queued" /\ UNCHANGED <<run, row, pages>>
        /\ queue' = queue \cup {k}
        /\ seen' = [seen EXCEPT !.approved = @ \cup {pages[i].plan}]
    BY <2>1, <2>2 DEF ConfirmPlan
  <2>4. k.type = "plan"
    BY <2>2
  <2>6. thread'.asked
    BY <1>2, <2>3 DEF ManualInv, Says
  <2>7. queue' = {k} /\ Expected(k)'
    BY <1>3, <2>3, <2>4, <2>6 DEF Expected
  <2>. QED BY <1>3, <2>3, <2>7 DEF ManualInv, Says, OnGraph
<1>7. CASE Edit \/ \E c \in Cards, d \in {"confirmed", "barred", "revise"} : Judge(c, d)
  <2>1. /\ UNCHANGED <<status, queue, thread, run, pages>> /\ seen'.approved = seen.approved
        /\ row' = row \/ (row.status = "confirmed" /\ row'.status = "confirmed")
    <3>1. CASE Edit
      BY <1>1, <3>1, EditFacts
    <3>2. CASE \E c \in Cards, d \in {"confirmed", "barred", "revise"} : Judge(c, d)
      <4>1. UNCHANGED <<status, queue, thread, run, pages, row>>
            /\ (seen' = seen \/ seen' = [seen EXCEPT !.refused = @ \cup {row.text}])
        BY <3>2 DEF Judge
      <4>. QED BY <1>1, <4>1 DEF Histories
    <3>. QED BY <1>7, <3>1, <3>2
  <2>2. InReview => InReview'
    BY <2>1 DEF InReview, UnderReview
  <2>3. \A m \in queue : Expected(m) => Expected(m)'
    BY <2>1, <2>2 DEF Expected
  <2>. QED BY <2>1, <2>2, <2>3 DEF ManualInv, Says
<1>. QED BY <1>4, <1>5, <1>6, <1>7 DEF Author

---------------------------------------------------------------------------
(* What is done is written.                                                *)

LEMMA WorkKeepsDone ==
  ASSUME CourseInv, ReviewInv, Clear, ManualInv, DoneInv, Work \/ Fault
  PROVE  DoneInv'
<1>1. TypeInv /\ PlaceInv /\ EndInv /\ EndsWell /\ run \in Runs /\ thread \in Threads
  BY DEF CourseInv, ReviewInv, TypeInv
<1>2. ASSUME ~Says("done")' PROVE DoneInv'
  BY <1>2 DEF DoneInv
<1>3. CASE \E m \in queue : Take(m)
  <2>1. PICK m \in queue : Take(m)
    BY <1>3
  <2>2. /\ run.at = "idle"
        /\ \/ UNCHANGED <<status, thread, run, row>>
           \/ /\ status' = "running"
              /\ \/ StartsAnew(m) \/ StartsAgain(m) \/ GoesOn(m) \/ FindsEnd(m)
                 \/ GoesOnWithPlan(m) \/ FindsNothing(m) \/ FindsReview(m)
    BY <1>1, <2>1, Taken
  <2>3. CASE UNCHANGED <<status, thread, run, row>>
    BY <2>3 DEF DoneInv, Says, Written
  <2>4. CASE status' = "running" /\ FindsNothing(m)
    <3>1. End(m, "failed") /\ "failed" \in Outs /\ m \in Messages
      BY <1>1, <2>4 DEF FindsNothing, Outs, TypeInv
    <3>2. run'.out = "failed"
      BY <3>1, EndFacts
    <3>. QED BY <1>2, <2>4, <3>2 DEF Says
  <2>5. CASE status' = "running" /\ (FindsEnd(m) \/ FindsReview(m))
    <3>1. run'.at # "settle"
      BY <2>5 DEF FindsEnd, FindsReview, Idle
    <3>. QED BY <1>2, <2>5, <3>1 DEF Says
  <2>6. CASE status' = "running" /\ (StartsAnew(m) \/ StartsAgain(m) \/ GoesOn(m) \/ GoesOnWithPlan(m))
    <3>1. \E first, plan : Begin(m, first, plan)
      BY <2>6 DEF StartsAnew, StartsAgain, GoesOn, GoesOnWithPlan
    <3>2. run'.at = "graph"
      BY <3>1 DEF Begin, Idle
    <3>. QED BY <1>2, <2>6, <3>2 DEF Says
  <2>. QED BY <2>2, <2>3, <2>4, <2>5, <2>6
<1>4. ASSUME run.at # "idle", status' = status, run'.at # "settle" PROVE DoneInv'
  BY <1>1, <1>2, <1>4 DEF Says, PlaceInv
<1>5. ASSUME run.at # "idle", status' = status, run'.out \in Outs \ {"done"} PROVE DoneInv'
  BY <1>1, <1>2, <1>5 DEF Says, PlaceInv
<1>6. CASE \E n \in Computing : Compute(n)
  <2>1. PICK n \in Computing : Compute(n)
    BY <1>6
  <2>2. PICK w : Moves(n, w)
    BY <1>1, <2>1, ComputeMoves DEF CourseInv
  <2>. QED BY <1>4, <2>2 DEF Moves, Leaves
<1>7. CASE Gate \/ Persist \/ PersistCheckpoint \/ Summarize \/ Summarized \/ ResolveRevise
           \/ ResolveAccept \/ Mark
  <2>. DEFINE Elsewhere == \/ run' = [run EXCEPT !.plan = 0] /\ run.at = "graph"
                           \/ \E a \in Places \ {"settle"} :
                                \/ run' = [run EXCEPT !.at = a]
                                \/ run' = [run EXCEPT !.at = a, !.version = row.version]
                                \/ run' = [run EXCEPT !.at = a, !.answers = Rejected]
                                \/ run' = [run EXCEPT !.at = a, !.v.review = FALSE]
                                \/ \E x : run' = [run EXCEPT !.at = a, !.v = x]
  <2>1. run.at # "idle" /\ status' = status /\ Elsewhere
    <3>1. \A a \in {"graph", "ended", "persisted", "asked", "asked_last", "close", "mark", "summary"} :
            a \in Places \ {"settle"}
      BY PlacesKnown
    <3>2. CASE Gate
      BY <3>1, <3>2 DEF Gate, AtNode
    <3>3. CASE Persist \/ PersistCheckpoint
      BY <3>1, <3>3 DEF Persist, PersistCheckpoint, AtNode
    <3>4. CASE Summarize \/ Summarized
      <4>1. status' = status /\ run.at # "idle"
        BY <3>4 DEF Summarize, Summarized, AtNode
      <4>2. CASE AfterSummary
        BY <3>1, <4>1, <4>2 DEF AfterSummary
      <4>3. CASE ~AfterSummary
        BY <3>1, <3>4, <4>1, <4>3 DEF Summarize, Summarized
      <4>. QED BY <4>2, <4>3
    <3>5. CASE ResolveRevise
      BY <3>1, <3>5 DEF ResolveRevise
    <3>6. CASE ResolveAccept
      BY <3>1, <3>6 DEF ResolveAccept
    <3>7. CASE Mark
      BY <3>1, <3>7 DEF Mark
    <3>. QED BY <1>7, <3>2, <3>3, <3>4, <3>5, <3>6, <3>7
  <2>2. run'.at # "settle"
    BY <1>1, <2>1 DEF Runs
  <2>. QED BY <1>4, <2>1, <2>2
<1>8. CASE ResolveWait
  <2>1. End(run.msg, "awaiting_review") /\ run.msg \in Messages /\ "awaiting_review" \in Outs
    BY <1>1, <1>8 DEF ResolveWait, Runs, Outs
  <2>2. run'.out = "awaiting_review"
    BY <2>1, EndFacts
  <2>. QED BY <1>5, <1>8, <2>1, <2>2 DEF ResolveWait
<1>9. CASE Close
  <2>1. LET w == [run.v EXCEPT !.review = FALSE, !.finalizing = FALSE]
        IN /\ thread' = [thread EXCEPT !.v = w]
           /\ run' = [run EXCEPT !.at = "settle", !.out = Outcome(w)]
           /\ Outcome(w) \in {"done", "failed"}
           /\ Outcome(w) = "done" <=> ~run.v.error
    BY <1>1, <1>9, CloseFacts
  <2>2. run.at = "close" /\ status' = status /\ row' = row
    BY <1>9 DEF Close
  <2>3. /\ run.v.error = thread.v.error /\ run.v.draft = thread.v.draft
        /\ ~thread.v.error => Written
    BY <2>2 DEF Clear, ReviewInv, FinishInv, Finishing, Agree
  <2>4. thread'.v.draft = run.v.draft
    BY <1>1, <2>1 DEF Threads, Runs, Values
  <2>5. CASE run.v.error
    <3>1. run'.out = "failed"
      BY <1>1, <2>1, <2>5 DEF Runs
    <3>. QED BY <1>5, <2>2, <3>1 DEF Outs
  <2>6. CASE ~run.v.error
    BY <2>2, <2>3, <2>4, <2>6 DEF DoneInv, Written
  <2>. QED BY <2>5, <2>6
<1>10. CASE EndRevision
  <2>1. /\ run.at = "ended" /\ status' = status
        /\ run' = IF thread.v.review THEN [run EXCEPT !.at = "settle", !.out = "awaiting_review"]
                  ELSE [run EXCEPT !.at = "mark", !.v = thread.v]
    BY <1>10 DEF EndRevision
  <2>2. run'.at # "settle" \/ run'.out = "awaiting_review"
    BY <1>1, <2>1 DEF Runs
  <2>. QED BY <1>4, <1>5, <2>1, <2>2 DEF Outs
<1>11. CASE EndGraph
  <2>1. /\ run.at = "ended" /\ UNCHANGED <<status, thread, row>>
        /\ run'.at = "settle"
        /\ run'.out = IF thread.asked /\ run.first THEN "awaiting_plan" ELSE Outcome(thread.v)
    BY <1>1, <1>11, EndGraphFacts
  <2>2. CASE thread.asked
    <3>1. thread.v.manual /\ ~thread.v.rewrite
      BY <1>1, <2>2, AskedAlone DEF PlaceInv
    <3>2. run.first
      BY <2>1, <3>1 DEF ManualInv, OnGraph
    <3>. QED BY <1>5, <2>1, <2>2, <3>2 DEF Outs
  <2>3. CASE ~thread.asked
    <3>1. thread.next = "end"
      BY <1>1, <2>1, <2>3 DEF PlaceInv
    <3>2. Outcome(thread.v) = "done" => Written
      BY <1>1, <3>1 DEF Clear, Outcome, EndsWell
    <3>3. Outcome(thread.v) \in Outs
      BY DEF Outcome, Outs
    <3>. QED BY <1>5, <2>1, <2>3, <3>2, <3>3 DEF DoneInv, Written
  <2>. QED BY <2>2, <2>3
<1>12. CASE Settle
  <2>1. /\ run.at = "settle" /\ run' = Idle /\ thread' = thread /\ status' = Settled(run.out)
        /\ row' = row \/ row.text = 0
    BY <1>1, <1>12, SettleFacts
  <2>2. status' = "done" => Written
    BY <1>1, <2>1 DEF Settled, PlaceInv, DoneInv, Says
  <2>3. Written => row' = row
    BY <1>1, <2>1 DEF Written, EndInv
  <2>4. run'.at = "idle"
    BY <2>1, IdleFacts
  <2>. QED BY <2>1, <2>2, <2>3, <2>4 DEF DoneInv, Says, Written
<1>13. CASE Stop \/ Fault
  <2>1. /\ run.at # "idle" /\ run' = Idle
        /\ status' = status \/ status' = "paused"
    BY <1>13 DEF Stop, Fault
  <2>2. run'.at # "settle" /\ status # "done"
    BY <1>1, <2>1, IdleFacts DEF PlaceInv
  <2>. QED BY <1>2, <2>1, <2>2 DEF Says
<1>14. \A n : n \in Nodes \ {"plan_gate", "persist", "summarize"} <=> n \in Computing
  BY DEF Computing
<1>. QED BY <1>3, <1>6, <1>7, <1>8, <1>9, <1>10, <1>11, <1>12, <1>13, <1>14 DEF Work

LEMMA AuthorKeepsDone ==
  ASSUME CourseInv, DoneInv, Author
  PROVE  DoneInv'
<1>1. TypeInv /\ PlaceInv /\ EndInv
  BY DEF CourseInv
<1>2. CASE Pause \/ Cancel
  <2>1. UNCHANGED <<thread, run>> /\ status' # "done" /\ (row' = row \/ row.text = 0)
    BY <1>2 DEF Pause, Cancel, EmptyRow
  <2>2. Written => row' = row
    BY <1>1, <2>1 DEF Written, EndInv
  <2>. QED BY <2>1, <2>2 DEF DoneInv, Says, Written
<1>3. CASE Resume \/ \E i \in DOMAIN pages : ConfirmPlan(i)
  <2>1. UNCHANGED <<thread, run, row>> /\ status' = "queued"
    BY <1>3 DEF Resume, ConfirmPlan
  <2>. QED BY <2>1 DEF DoneInv, Says, Written
<1>4. CASE \E c \in Cards, d \in {"confirmed", "barred", "revise"} : Judge(c, d)
  <2>1. UNCHANGED <<status, thread, run, row>>
    BY <1>4 DEF Judge
  <2>. QED BY <2>1 DEF DoneInv, Says, Written
<1>5. CASE Edit
  <2>1. UNCHANGED <<status, thread, run>> /\ row'.status = "confirmed"
    BY <1>1, <1>5, EditFacts
  <2>. QED BY <2>1 DEF DoneInv, Says, Written
<1>. QED BY <1>2, <1>3, <1>4, <1>5 DEF Author

LEMMA InitUndisturbed ==
  ASSUME Init
  PROVE  UndisturbedInv
<1>1. PICK i \in Inputs :
        /\ status = "new" /\ queue = {Generate} /\ run = Idle
  BY DEF Init
<1>3. run.at = "idle" /\ Generate.type = "generate"
  BY <1>1, IdleFacts DEF Generate
<1>4. ManualInv
  BY <1>1, <1>3 DEF ManualInv, Expected, Says, OnGraph
<1>6. DoneInv
  BY <1>1, <1>3 DEF DoneInv, Says
<1>. QED BY <1>4, <1>6 DEF UndisturbedInv

LEMMA NextKeepsUndisturbed ==
  ASSUME CourseInv, ReviewInv, Clear, UndisturbedInv, "manual" \notin Hazards, [Next]_vars
  PROVE  UndisturbedInv'
<1>1. ManualInv /\ DoneInv
  BY DEF UndisturbedInv
<1>2. CASE UNCHANGED vars
  <2>1. UNCHANGED <<status, op, queue, thread, run, row, summary, card, receipts, pages, upsets, seen>>
    BY <1>2 DEF vars
  <2>. QED BY <1>1, <2>1 DEF UndisturbedInv, ManualInv, Expected, Says, InReview, UnderReview, DoneInv,
                        Written
<1>3. \A n : n \in Nodes \ {"plan_gate", "persist", "summarize"} <=> n \in Computing
  BY DEF Computing
<1>4. CASE Work \/ Fault
  <2>1. ManualInv'
    BY <1>1, <1>3, <1>4, TakeKeepsManual, ComputeKeepsManual, GateKeepsManual, PersistKeepsManual,
       SummaryKeepsManual, ResolveKeepsManual, EndsKeepManual DEF Work
  <2>. QED BY <1>1, <1>4, <2>1, WorkKeepsDone DEF UndisturbedInv
<1>5. CASE Author
  BY <1>1, <1>5, AuthorKeepsManual, AuthorKeepsDone DEF UndisturbedInv
<1>. QED BY <1>2, <1>4, <1>5 DEF Next

(* What is known of tasks in manual mode, and of what is done, as long as  *)
(* no manual task is disturbed ("manual") or asked for a new plan of a     *)
(* chapter it writes again ("replan").                                     *)
THEOREM UndisturbedHolds ==
  ASSUME "replan" \notin Hazards, "manual" \notin Hazards
  PROVE  Spec => []UndisturbedInv
<1>1. Init => UndisturbedInv
  BY InitUndisturbed
<1>2. CourseInv /\ ReviewInv /\ UndisturbedInv /\ [Next]_vars => UndisturbedInv'
  BY NextKeepsUndisturbed DEF ReviewInv, PlanInv
<1>3. Spec => [](CourseInv /\ ReviewInv)
  BY ReviewHolds
<1>. QED BY <1>1, <1>2, <1>3, PTL DEF Spec

(* A task is done when its chapter is written and confirmed (_run_bound).  *)
THEOREM DoneMeansWrittenHolds ==
  ASSUME "replan" \notin Hazards, "manual" \notin Hazards
  PROVE  Spec => []DoneMeansWritten
<1>1. UndisturbedInv => DoneMeansWritten
  BY DEF UndisturbedInv, DoneInv, Says, Written, DoneMeansWritten
<1>. QED BY <1>1, UndisturbedHolds, PTL
=============================================================================

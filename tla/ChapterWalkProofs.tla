------------------------- MODULE ChapterWalkProofs -------------------------
(***************************************************************************)
(* ChapterWalk, for every value of its constants: no run of the chapter's  *)
(* graph is longer than LongestRun, so none meets the recursion limit.     *)
(*                                                                         *)
(* The argument is a measure.  Rest(n, w) bounds the steps that are left   *)
(* when node n is next and the thread's state is w; every node lowers it.  *)
(* A round of repair costs five nodes and one unit of the budgets for      *)
(* revisions and patches; a replan fills these up again, which is one      *)
(* more Cycle and its reset, and lowers the budget for replans.            *)
(***************************************************************************)
EXTENDS ChapterWalk, TLAPS

(* Rounds of repair that are left before the next replan.                  *)
Rounds(w) == (MaxRevisions - w.revisions) + (MaxPatches - w.patches)

(* What may follow the route: repairs, replans, persist and summarize.     *)
Tail(w) == 5 * Rounds(w) + 2 + (MaxReplans - w.replans) * (Cycle + 1)

(* The nodes from n to the route.                                          *)
Ahead(n) == IF n = "recall" THEN 9
            ELSE IF n = "plan_cast" THEN 8
            ELSE IF n = "plan_chapter" THEN 7
            ELSE IF n = "plan_gate" THEN 6
            ELSE IF n = "write" THEN 5
            ELSE IF n = "extract" THEN 4
            ELSE IF n = "validate" THEN 3
            ELSE IF n = "audit" THEN 2
            ELSE IF n = "route" THEN 1
            ELSE 0

(* After an error nothing follows the route.                               *)
Rest(n, w) == IF n = "end" THEN 0
              ELSE IF n = "summarize" THEN 1
              ELSE IF n = "persist" THEN 2
              ELSE IF n = "load_state" THEN LongestRun
              ELSE Ahead(n) + (IF w.error THEN 0 ELSE Tail(w))

(* A node of repair is entered only without an error and within budget.    *)
Allowed(n, w) == /\ n = "revise" => ~w.error /\ RevisionsLeft(w)
                 /\ n = "patch" => ~w.error /\ PatchesLeft(w)
                 /\ n = "reset_replan" => ~w.error /\ ReplansLeft(w)

IInv == TypeOK /\ Allowed(node, v) /\ steps + Rest(node, v) <= LongestRun

---------------------------------------------------------------------------
(* Arithmetic.                                                             *)

LEMMA Product ==
  ASSUME NEW r \in Nat, NEW m \in Nat, NEW c \in Nat, r <= m
  PROVE  /\ r * c \in Nat
         /\ r * c <= m * c
         /\ r > 0 => r * c = (r - 1) * c + c
<1>1. r * c \in Nat /\ m * c \in Nat
  OBVIOUS
<1>2. m * c = r * c + (m - r) * c
  OBVIOUS
<1>3. (m - r) * c \in Nat
  OBVIOUS
<1> QED
  BY <1>1, <1>2, <1>3

LEMMA Sizes ==
  /\ MaxRevisions \in Nat /\ MaxRevisions > 0
  /\ MaxPatches \in Nat
  /\ MaxReplans \in Nat
  /\ Cycle \in Nat
  /\ Cycle = 8 + 5 * (MaxRevisions + MaxPatches)
  /\ LongestRun \in Nat
BY GraphAssumption DEF Cycle, LongestRun

(* What is left after the route is at most a whole plan's repairs and all  *)
(* replans.                                                                *)
LEMMA TailBounds ==
  ASSUME NEW w \in ChapterState
  PROVE  /\ Tail(w) \in Nat
         /\ Tail(w) >= 2
         /\ Tail(w) + 10 <= LongestRun
         /\ RevisionsLeft(w) \/ PatchesLeft(w) => Tail(w) >= 7
<1> DEFINE r == MaxReplans - w.replans
           n == Rounds(w)
<1>1. /\ w.revisions \in 0..MaxRevisions
      /\ w.patches \in 0..MaxPatches
      /\ w.replans \in 0..MaxReplans
  BY DEF ChapterState
<1>2. r \in Nat /\ r <= MaxReplans
  BY <1>1, Sizes
<1>3. /\ n \in Nat /\ n <= MaxRevisions + MaxPatches
      /\ RevisionsLeft(w) \/ PatchesLeft(w) => n >= 1
  BY <1>1, Sizes DEF Rounds, RevisionsLeft, PatchesLeft
<1>4. r * (Cycle + 1) \in Nat /\ r * (Cycle + 1) <= MaxReplans * (Cycle + 1)
  BY <1>2, Sizes, Product
<1>5. Tail(w) = 5 * n + 2 + r * (Cycle + 1)
  BY DEF Tail
<1>6. LongestRun = 4 + Cycle + MaxReplans * (Cycle + 1)
  BY DEF LongestRun
<1>7. MaxReplans * (Cycle + 1) \in Nat
  BY Sizes
<1> HIDE DEF r, n
<1> QED
  BY <1>3, <1>4, <1>5, <1>6, <1>7, Sizes

(* No node has more before it than a whole run.                            *)
LEMMA RestBounded ==
  ASSUME NEW w \in ChapterState, NEW n \in Nodes \cup {"end"}
  PROVE  Rest(n, w) \in Nat /\ Rest(n, w) <= LongestRun
<1>1. Ahead(n) \in 0..9
  BY DEF Ahead
<1>2. w.error \in BOOLEAN
  BY DEF ChapterState
<1>3. Tail(w) + 10 <= LongestRun /\ Tail(w) \in Nat
  BY TailBounds, Sizes
<1> QED
  BY <1>1, <1>2, <1>3, Sizes DEF Rest

---------------------------------------------------------------------------
(* The nodes, one by one: what they leave is a state of a thread, and the  *)
(* counters they touch.                                                    *)

SameBudgets(u, w) == /\ u.revisions = w.revisions
                     /\ u.patches = w.patches
                     /\ u.replans = w.replans

(* A node before the route: it spends no budget and forgets no error.      *)
Plain(u, w) == u \in ChapterState /\ SameBudgets(u, w) /\ (w.error => u.error)

LEMMA FailedPlain ==
  ASSUME NEW w \in ChapterState
  PROVE  Plain(Failed(w), w) /\ Failed(w).error
BY DEF Plain, SameBudgets, Failed, ChapterState

LEMMA KnownValues ==
  /\ NoReport \in AllReports
  /\ NoVerdict \in AllVerdicts \cup {NoVerdict}
  /\ Reports \subseteq AllReports
  /\ Verdicts \subseteq AllVerdicts
BY GraphAssumption DEF NoReport, AllReports, Scopes

LEMMA PlanPlain ==
  ASSUME NEW w \in ChapterState, NEW u \in PlanChapter(w, 1)
  PROVE  Plain(u, w)
<1>1. CASE u = Failed(w)
  BY <1>1, FailedPlain
<1>2. CASE u = [w EXCEPT !.plan = 1]
  BY <1>2 DEF Plain, SameBudgets, ChapterState
<1> QED
  BY <1>1, <1>2 DEF PlanChapter

LEMMA CastPlain ==
  ASSUME NEW w \in ChapterState, NEW u \in PlanCast(w)
  PROVE  Plain(u, w)
BY FailedPlain DEF PlanCast, Answer, Plain, SameBudgets

LEMMA WritePlain ==
  ASSUME NEW w \in ChapterState, NEW u \in Write(w, 1)
  PROVE  Plain(u, w)
<1>1. u = w \/ u = Failed(w) \/ u = [w EXCEPT !.draft = 1]
  BY DEF Write, Answer
<1>2. CASE u = [w EXCEPT !.draft = 1]
  BY <1>2 DEF Plain, SameBudgets, ChapterState
<1> QED
  BY <1>1, <1>2, FailedPlain DEF Plain, SameBudgets

LEMMA ExtractPlain ==
  ASSUME NEW w \in ChapterState, NEW known \in SUBSET Cards, NEW u \in Extract(w, known)
  PROVE  Plain(u, w)
<1>1. \/ u = w \/ u = Failed(w)
      \/ \E found \in SUBSET Cards : u = [w EXCEPT !.cards = found \ known]
  BY DEF Extract, Answer
<1>2. ASSUME NEW found \in SUBSET Cards, u = [w EXCEPT !.cards = found \ known]
      PROVE  Plain(u, w)
  <2>1. found \ known \in SUBSET Cards
    OBVIOUS
  <2> QED
    BY <1>2, <2>1 DEF Plain, SameBudgets, ChapterState
<1> QED
  BY <1>1, <1>2, FailedPlain DEF Plain, SameBudgets

LEMMA ValidatePlain ==
  ASSUME NEW w \in ChapterState, NEW refused \in SUBSET Cards, NEW u \in Validate(w, refused)
  PROVE  Plain(u, w)
<1>1. \E r \in AllReports : u = [w EXCEPT !.report = r]
  <2> DEFINE noted(r) == IF w.cards \cap refused = {} THEN r
                         ELSE [hard |-> TRUE,
                               scope |-> IF r.scope = "wide" THEN "wide" ELSE "local"]
  <2>1. ASSUME NEW r \in AllReports
        PROVE  noted(r) \in AllReports
    BY <2>1 DEF AllReports, Scopes
  <2>2. CASE w.error
    BY <2>2, KnownValues DEF Validate
  <2>3. CASE ~w.error
    <3>1. PICK r \in Reports : u = [w EXCEPT !.report = noted(r)]
      BY <2>3 DEF Validate
    <3> QED
      BY <3>1, <2>1, KnownValues
  <2> QED
    BY <2>2, <2>3
<1> QED
  BY <1>1 DEF Plain, SameBudgets, ChapterState

LEMMA AuditPlain ==
  ASSUME NEW w \in ChapterState, NEW u \in Audit(w)
  PROVE  Plain(u, w)
<1>1. \/ u = w \/ u = Failed(w)
      \/ \E d \in Verdicts : u = [w EXCEPT !.verdict = d,
                                         !.batch = d.kind = "replan" /\ d.target = "batch"]
  BY DEF Audit, Answer
<1>2. ASSUME NEW d \in Verdicts, NEW b \in BOOLEAN, u = [w EXCEPT !.verdict = d, !.batch = b]
      PROVE  Plain(u, w)
  <2>1. d \in AllVerdicts \cup {NoVerdict}
    BY KnownValues
  <2> QED
    BY <1>2, <2>1 DEF Plain, SameBudgets, ChapterState
<1> QED
  BY <1>1, <1>2, FailedPlain DEF Plain, SameBudgets

(* The nodes of repair give a round, a reset gives a replan.               *)
LEMMA SpentState ==
  ASSUME NEW w \in ChapterState
  PROVE  /\ Spent(w) \in ChapterState
         /\ SameBudgets(Spent(w), w)
         /\ Spent(w).error = w.error
BY KnownValues DEF Spent, SameBudgets, ChapterState

LEMMA ReviseStep ==
  ASSUME NEW w \in ChapterState, RevisionsLeft(w), NEW u \in Revise(w, 1)
  PROVE  /\ u \in ChapterState
         /\ \/ u.error
            \/ u.error = w.error /\ Rounds(u) = Rounds(w) - 1 /\ u.replans = w.replans
<1>1. CASE u = Failed(Spent(w))
  <2>1. u \in ChapterState /\ u.error
    BY <1>1, SpentState, FailedPlain DEF Plain
  <2> QED
    BY <2>1
<1>2. CASE u = [Spent(w) EXCEPT !.draft = 1, !.revisions = w.revisions + 1]
  <2>1. /\ w.revisions \in 0..MaxRevisions /\ w.revisions + 1 \in 0..MaxRevisions
        /\ w.patches \in 0..MaxPatches
    BY Sizes DEF RevisionsLeft, ChapterState
  <2>2. u \in ChapterState
    BY <1>2, <2>1, SpentState DEF ChapterState
  <2>3. /\ u.error = w.error /\ u.revisions = w.revisions + 1
        /\ u.patches = w.patches /\ u.replans = w.replans
    BY <1>2, SpentState DEF SameBudgets, ChapterState
  <2> QED
    BY <2>1, <2>2, <2>3, Sizes DEF Rounds
<1> QED
  BY <1>1, <1>2 DEF Revise

LEMMA PatchStep ==
  ASSUME NEW w \in ChapterState, PatchesLeft(w), NEW u \in Patch(w, 1)
  PROVE  /\ u \in ChapterState
         /\ \/ u.error
            \/ u.error = w.error /\ Rounds(u) = Rounds(w) - 1 /\ u.replans = w.replans
<1>1. CASE \/ u = Failed(w)
           \/ u = Failed(Spent(w))
           \/ (w.error /\ u = Spent(w))
  <2>1. u \in ChapterState /\ u.error
    BY <1>1, SpentState, FailedPlain DEF Plain
  <2> QED
    BY <2>1
<1>2. ASSUME NEW t \in Nat, u = [Spent(w) EXCEPT !.draft = t, !.patches = w.patches + 1]
      PROVE  /\ u \in ChapterState
             /\ u.error = w.error /\ Rounds(u) = Rounds(w) - 1 /\ u.replans = w.replans
  <2>1. /\ w.patches \in 0..MaxPatches /\ w.patches + 1 \in 0..MaxPatches
        /\ w.revisions \in 0..MaxRevisions
    BY Sizes DEF PatchesLeft, ChapterState
  <2>2. u \in ChapterState
    BY <1>2, <2>1, SpentState DEF ChapterState
  <2>3. /\ u.error = w.error /\ u.patches = w.patches + 1
        /\ u.revisions = w.revisions /\ u.replans = w.replans
    BY <1>2, SpentState DEF SameBudgets, ChapterState
  <2> QED
    BY <2>1, <2>2, <2>3, Sizes DEF Rounds
<1>3. \/ u = Failed(w)
      \/ u = Failed(Spent(w))
      \/ (w.error /\ u = Spent(w))
      \/ \E t \in {1, w.draft} : u = [Spent(w) EXCEPT !.draft = t, !.patches = w.patches + 1]
  <2>1. CASE w.draft = 0
    BY <2>1, Zenon DEF Patch
  <2>2. CASE w.draft # 0 /\ w.error
    BY <2>2, SpentState DEF Patch, Answer
  <2>3. CASE w.draft # 0 /\ ~w.error
    <3>1. ~Spent(w).error
      BY <2>3, SpentState
    <3>2. Patch(w, 1) = Answer(Spent(w), {[Spent(w) EXCEPT !.draft = t, !.patches = w.patches + 1]
                                          : t \in {1, w.draft}})
      BY <2>3, Zenon DEF Patch
    <3>3. u \in {Failed(Spent(w))} \cup
               {[Spent(w) EXCEPT !.draft = t, !.patches = w.patches + 1] : t \in {1, w.draft}}
      BY <3>1, <3>2, Zenon DEF Answer
    <3> QED
      BY <3>3, Zenon
  <2> QED
    BY <2>1, <2>2, <2>3
<1>4. 1 \in Nat /\ w.draft \in Nat
  BY DEF ChapterState
<1> QED
  BY <1>1, <1>2, <1>3, <1>4

LEMMA ResetStep ==
  ASSUME NEW w \in ChapterState, ReplansLeft(w)
  PROVE  /\ ResetReplan(w) \in ChapterState
         /\ ResetReplan(w).error = w.error
         /\ Rounds(ResetReplan(w)) = MaxRevisions + MaxPatches
         /\ ResetReplan(w).replans = w.replans + 1
<1> DEFINE u == ResetReplan(w)
<1>1. w.replans \in 0..MaxReplans /\ w.replans + 1 \in 0..MaxReplans
  BY Sizes DEF ReplansLeft, ChapterState
<1>2. 0 \in 0..MaxRevisions /\ 0 \in 0..MaxPatches
  BY Sizes
<1>3. u \in ChapterState
  BY <1>1, <1>2, KnownValues DEF ResetReplan, ChapterState
<1>4. /\ u.error = w.error /\ u.revisions = 0 /\ u.patches = 0
      /\ u.replans = w.replans + 1
  BY DEF ResetReplan, ChapterState
<1> QED
  BY <1>3, <1>4, Sizes DEF Rounds

LEMMA ReopenedState ==
  ASSUME NEW w \in ChapterState
  PROVE  /\ Reopened(w) \in ChapterState
         /\ ~Reopened(w).error /\ RevisionsLeft(Reopened(w))
<1>1. 0 \in 0..MaxRevisions /\ 0 \in 0..MaxPatches /\ 0 \in 0..MaxReplans
  BY Sizes
<1>2. Reopened(w) \in ChapterState
  BY <1>1, KnownValues DEF Reopened, ChapterState
<1>3. ~Reopened(w).error /\ Reopened(w).revisions = 0
  BY DEF Reopened, ChapterState
<1> QED
  BY <1>2, <1>3, Sizes DEF RevisionsLeft

LEMMA LoadStep ==
  ASSUME NEW w \in ChapterState, NEW u \in LoadState(w)
  PROVE  u \in ChapterState
<1> DEFINE clean == [w EXCEPT !.error = FALSE, !.review = FALSE, !.batch = FALSE,
                              !.draft = 0, !.cards = {}, !.report = NoReport,
                              !.verdict = NoVerdict, !.revisions = 0, !.patches = 0,
                              !.replans = 0]
<1>1. 0 \in 0..MaxRevisions /\ 0 \in 0..MaxPatches /\ 0 \in 0..MaxReplans
  BY Sizes
<1>2. clean \in ChapterState
  BY <1>1, KnownValues DEF ChapterState
<1>3. LoadState(w) = IF KeepsPlan(w)
                     THEN {[clean EXCEPT !.plan = 0], [w EXCEPT !.error = TRUE, !.plan = 0]}
                     ELSE {clean}
  BY Zenon DEF LoadState
<1> HIDE DEF clean
<1>4. u = clean \/ u = [clean EXCEPT !.plan = 0] \/ u = [w EXCEPT !.error = TRUE, !.plan = 0]
  BY <1>3, Zenon
<1>5. CASE u = [clean EXCEPT !.plan = 0]
  BY <1>2, <1>5 DEF ChapterState
<1>6. CASE u = [w EXCEPT !.error = TRUE, !.plan = 0]
  BY <1>6 DEF ChapterState
<1> QED
  BY <1>2, <1>4, <1>5, <1>6

LEMMA RouteStep ==
  ASSUME NEW w \in ChapterState
  PROVE  /\ Route(w) \in ChapterState
         /\ SameBudgets(Route(w), w)
         /\ Route(w).error = w.error
<1>1. ASSUME NEW a \in BOOLEAN, NEW b \in BOOLEAN
      PROVE  LET u == [w EXCEPT !.review = a, !.batch = b]
             IN u \in ChapterState /\ SameBudgets(u, w) /\ u.error = w.error
  BY DEF ChapterState, SameBudgets
<1> DEFINE a == RouteAfterAudit(w) = "needs_review"
           b == RouteAfterAudit(w) = "replan_batch"
<1>2. a \in BOOLEAN /\ b \in BOOLEAN
  OBVIOUS
<1>3. Route(w) = [w EXCEPT !.review = a, !.batch = b]
  BY DEF Route
<1> HIDE DEF a, b
<1> QED
  BY <1>1, <1>2, <1>3

---------------------------------------------------------------------------
(* Every node lowers what is left.                                         *)

LEMMA TailRounds ==
  ASSUME NEW w \in ChapterState, NEW u \in ChapterState,
         u.replans = w.replans, Rounds(u) = Rounds(w) - 1
  PROVE  Tail(u) + 5 = Tail(w)
<1> DEFINE n == Rounds(w)
           r == (MaxReplans - w.replans) * (Cycle + 1)
<1>1. /\ w.revisions \in 0..MaxRevisions
      /\ w.patches \in 0..MaxPatches
      /\ w.replans \in 0..MaxReplans
  BY DEF ChapterState
<1>2. n \in Nat
  BY <1>1, Sizes DEF Rounds
<1>3. r \in Nat
  BY <1>1, Sizes, Product
<1>4. Tail(w) = 5 * n + 2 + r /\ Tail(u) = 5 * (n - 1) + 2 + r
  BY DEF Tail
<1> HIDE DEF n, r
<1> QED
  BY <1>2, <1>3, <1>4

LEMMA TailSame ==
  ASSUME NEW w, NEW u, SameBudgets(u, w)
  PROVE  Tail(u) = Tail(w)
BY DEF SameBudgets, Tail, Rounds

LEMMA TailReset ==
  ASSUME NEW w \in ChapterState, ReplansLeft(w), NEW u \in ChapterState,
         Rounds(u) = MaxRevisions + MaxPatches, u.replans = w.replans + 1
  PROVE  Tail(u) + 9 <= Tail(w)
<1> DEFINE r == MaxReplans - w.replans
           c == Cycle + 1
<1>1. /\ w.revisions \in 0..MaxRevisions
      /\ w.patches \in 0..MaxPatches
      /\ w.replans \in 0..MaxReplans
  BY DEF ChapterState
<1>2. r \in Nat /\ r > 0 /\ r <= MaxReplans /\ MaxReplans - u.replans = r - 1
  BY <1>1, Sizes DEF ReplansLeft
<1>3. c \in Nat
  BY Sizes
<1>4. r * c = (r - 1) * c + c /\ (r - 1) * c \in Nat
  <2>1. r * c = (r - 1) * c + c
    BY <1>2, <1>3, Sizes, Product
  <2>2. r - 1 \in Nat /\ r - 1 <= MaxReplans
    BY <1>2, Sizes
  <2> HIDE DEF r, c
  <2> QED
    BY <1>3, <2>1, <2>2, Sizes, Product
<1>5. Rounds(w) \in Nat
  BY <1>1, Sizes DEF Rounds
<1>6. Tail(w) = 5 * Rounds(w) + 2 + r * c
  BY DEF Tail
<1>7. Tail(u) = 5 * (MaxRevisions + MaxPatches) + 2 + (r - 1) * c
  BY <1>2 DEF Tail
<1>8. c = 9 + 5 * (MaxRevisions + MaxPatches)
  BY Sizes
<1> HIDE DEF r, c
<1> QED
  BY <1>2, <1>3, <1>4, <1>5, <1>6, <1>7, <1>8, Sizes

Entered(n, w, u, m) == /\ u \in ChapterState
                       /\ m \in Nodes \cup {"end"}
                       /\ Allowed(m, u)
                       /\ Rest(m, u) + 1 <= Rest(n, w)

(* The nodes of one way from the plan to the route.                        *)
LEMMA PlainStep ==
  ASSUME NEW w \in ChapterState, NEW u, Plain(u, w),
         NEW n \in {"recall", "plan_cast", "plan_chapter", "plan_gate", "write", "extract",
                    "validate", "audit"}
  PROVE  Entered(n, w, u, Successor(n, u))
<1> DEFINE m == Successor(n, u)
<1>1. /\ u \in ChapterState /\ Tail(u) = Tail(w) /\ (w.error => u.error)
      /\ u.error \in BOOLEAN /\ w.error \in BOOLEAN
  BY TailSame DEF Plain, ChapterState
<1>2. Tail(w) \in Nat
  BY TailBounds
<1>3. /\ n = "recall" => m \in {"write", "plan_cast"}
      /\ n = "plan_cast" => m = "plan_chapter"
      /\ n = "plan_chapter" => m = "plan_gate"
      /\ n = "plan_gate" => m = "write"
      /\ n = "write" => m = "extract"
      /\ n = "extract" => m = "validate"
      /\ n = "validate" => m = "audit"
      /\ n = "audit" => m = "route"
  BY DEF Successor
<1> HIDE DEF m
<1>4. /\ m \in {"plan_cast", "plan_chapter", "plan_gate", "write", "extract", "validate",
                "audit", "route"}
      /\ Ahead(m) \in Nat /\ Ahead(n) \in Nat /\ Ahead(m) + 1 <= Ahead(n)
  BY <1>3 DEF Ahead
<1>5. Rest(n, w) = Ahead(n) + (IF w.error THEN 0 ELSE Tail(w))
  BY DEF Rest
<1>6. Rest(m, u) = Ahead(m) + (IF u.error THEN 0 ELSE Tail(u))
  BY <1>4 DEF Rest
<1>7. Rest(m, u) + 1 <= Rest(n, w)
  BY <1>1, <1>2, <1>4, <1>5, <1>6
<1>8. Allowed(m, u) /\ m \in Nodes \cup {"end"}
  BY <1>4 DEF Allowed, Nodes
<1> QED
  BY <1>1, <1>7, <1>8 DEF Entered, m

LEMMA LoadEntered ==
  ASSUME NEW w \in ChapterState, NEW u \in LoadState(w)
  PROVE  Entered("load_state", w, u, Successor("load_state", u))
<1>1. u \in ChapterState /\ u.error \in BOOLEAN
  BY LoadStep DEF ChapterState
<1>2. Tail(u) \in Nat /\ Tail(u) + 10 <= LongestRun /\ LongestRun \in Nat
  BY <1>1, TailBounds, Sizes
<1>3. Rest("load_state", w) = LongestRun
  BY DEF Rest
<1>4. CASE u.error
  <2>1. Successor("load_state", u) = "end"
    BY <1>4 DEF Successor
  <2>2. Rest("end", u) = 0
    BY DEF Rest
  <2> QED
    BY <1>1, <1>2, <1>3, <2>1, <2>2 DEF Entered, Allowed
<1>5. CASE ~u.error
  <2>1. Successor("load_state", u) = "recall"
    BY <1>5 DEF Successor
  <2>2. Rest("recall", u) = 9 + Tail(u)
    BY <1>5 DEF Rest, Ahead
  <2> QED
    BY <1>1, <1>2, <1>3, <2>1, <2>2 DEF Entered, Allowed, Nodes
<1> QED
  BY <1>4, <1>5

(* The route ends the run, goes on to a repair that the budgets allow, or  *)
(* to persist.                                                             *)
LEMMA RouteAnswers ==
  ASSUME NEW u \in ChapterState
  PROVE  LET m == Successor("route", u)
         IN \/ m = "end"
            \/ m = "persist" /\ ~u.error
            \/ m = "revise" /\ ~u.error /\ RevisionsLeft(u)
            \/ m = "patch" /\ ~u.error /\ PatchesLeft(u)
            \/ m = "reset_replan" /\ ~u.error /\ ReplansLeft(u)
<1> DEFINE r == RouteAfterAudit(u)
           repaired == \/ Repair(u) = "needs_review"
                       \/ Repair(u) = "revise" /\ RevisionsLeft(u)
                       \/ Repair(u) = "patch" /\ PatchesLeft(u)
<1>1. repaired
  BY DEF Repair
<1> HIDE DEF repaired
<1>2. u.error \in BOOLEAN /\ u.verdict.kind \in {"pass", "rewrite", "replan", "none"}
  <2>1. u.error \in BOOLEAN /\ u.verdict \in AllVerdicts \cup {NoVerdict}
    BY DEF ChapterState
  <2>2. CASE u.verdict = NoVerdict
    BY <2>1, <2>2 DEF NoVerdict
  <2>3. CASE u.verdict \in AllVerdicts
    BY <2>1, <2>3 DEF AllVerdicts
  <2> QED
    BY <2>1, <2>2, <2>3
<1>3. \/ r = "fail" \/ r = "replan_batch"
      \/ r = "replan_chapter" /\ ~u.error /\ ReplansLeft(u)
      \/ r \in {"persist", "needs_review"} /\ ~u.error
      \/ r = Repair(u) /\ ~u.error
  <2> DEFINE asks == \/ u.verdict.kind = "rewrite"
                     \/ u.verdict.kind = "pass" /\ u.verdict.scope # "none"
  <2>1. CASE u.error
    BY <2>1, Zenon DEF RouteAfterAudit
  <2>2. CASE ~u.error /\ u.report.hard
    BY <2>2, Zenon DEF RouteAfterAudit
  <2>3. CASE ~u.error /\ ~u.report.hard /\ asks
    BY <2>3, Zenon DEF RouteAfterAudit
  <2>4. CASE ~u.error /\ ~u.report.hard /\ ~asks /\ u.verdict.kind = "replan"
    <3>1. r = IF KeepsPlan(u) \/ ~ReplansLeft(u) THEN "needs_review"
              ELSE IF u.verdict.target = "chapter" \/ ~u.batched THEN "replan_chapter"
              ELSE "replan_batch"
      BY <2>4, Zenon DEF RouteAfterAudit
    <3> QED
      BY <2>4, <3>1
  <2>5. CASE ~u.error /\ ~u.report.hard /\ ~asks /\ u.verdict.kind = "pass"
    BY <2>5, Zenon DEF RouteAfterAudit
  <2>6. CASE ~u.error /\ ~u.report.hard /\ u.verdict.kind = "none"
    BY <2>6, Zenon DEF RouteAfterAudit
  <2> HIDE DEF r
  <2> QED
    BY <1>2, <2>1, <2>2, <2>3, <2>4, <2>5, <2>6
<1>4. Successor("route", u) = AfterRoute(u)
  BY DEF Successor
<1>5. /\ r \in {"persist", "needs_review"} => AfterRoute(u) = "persist"
      /\ r = "revise" => AfterRoute(u) = "revise"
      /\ r = "patch" => AfterRoute(u) = "patch"
      /\ r = "replan_chapter" => AfterRoute(u) = "reset_replan"
      /\ r \in {"replan_batch", "fail"} => AfterRoute(u) = "end"
  BY DEF AfterRoute
<1> HIDE DEF r
<1> QED
  BY <1>1, <1>3, <1>4, <1>5 DEF repaired

LEMMA RouteEntered ==
  ASSUME NEW w \in ChapterState
  PROVE  Entered("route", w, Route(w), Successor("route", Route(w)))
<1> DEFINE u == Route(w)
           m == Successor("route", u)
<1>1. /\ u \in ChapterState /\ Tail(u) = Tail(w) /\ u.error = w.error
      /\ Tail(u) \in Nat /\ Tail(u) >= 2 /\ u.error \in BOOLEAN
  BY RouteStep, TailSame, TailBounds DEF ChapterState
<1>2. \/ m = "end"
      \/ m = "persist" /\ ~u.error
      \/ m = "revise" /\ ~u.error /\ RevisionsLeft(u)
      \/ m = "patch" /\ ~u.error /\ PatchesLeft(u)
      \/ m = "reset_replan" /\ ~u.error /\ ReplansLeft(u)
  BY <1>1, RouteAnswers
<1> HIDE DEF u, m
<1>3. Rest("route", w) = 1 + (IF w.error THEN 0 ELSE Tail(w))
  BY DEF Rest, Ahead
<1>4. /\ m = "end" => Rest(m, u) = 0
      /\ m = "persist" => Rest(m, u) = 2
      /\ m \in {"revise", "patch", "reset_replan"} /\ ~u.error => Rest(m, u) = Tail(u)
  BY <1>1 DEF Rest, Ahead
<1>5. Rest(m, u) + 1 <= Rest("route", w)
  BY <1>1, <1>2, <1>3, <1>4
<1>6. Allowed(m, u) /\ m \in Nodes \cup {"end"}
  BY <1>2 DEF Allowed, Nodes
<1> QED
  BY <1>1, <1>5, <1>6 DEF Entered, u, m

(* A repair goes on to extract, failed or with one round less.             *)
LEMMA RepairEntered ==
  ASSUME NEW w \in ChapterState, NEW n \in {"revise", "patch"}, Allowed(n, w),
         NEW u \in ChapterState,
         \/ u.error
         \/ u.error = w.error /\ Rounds(u) = Rounds(w) - 1 /\ u.replans = w.replans
  PROVE  Entered(n, w, u, Successor(n, u))
<1>1. ~w.error /\ (RevisionsLeft(w) \/ PatchesLeft(w))
  BY DEF Allowed
<1>2. Tail(w) \in Nat /\ Tail(w) >= 7 /\ Tail(u) \in Nat /\ u.error \in BOOLEAN
  BY <1>1, TailBounds DEF ChapterState
<1>3. u.error \/ Tail(u) + 5 = Tail(w)
  BY TailRounds
<1>4. Successor(n, u) = "extract"
  BY DEF Successor
<1>5. Rest(n, w) = Tail(w)
  BY <1>1, <1>2 DEF Rest, Ahead
<1>6. Rest("extract", u) = 4 + (IF u.error THEN 0 ELSE Tail(u))
  BY DEF Rest, Ahead
<1> QED
  BY <1>2, <1>3, <1>4, <1>5, <1>6 DEF Entered, Allowed, Nodes

LEMMA ResetEntered ==
  ASSUME NEW w \in ChapterState, Allowed("reset_replan", w)
  PROVE  Entered("reset_replan", w, ResetReplan(w), Successor("reset_replan", ResetReplan(w)))
<1> DEFINE u == ResetReplan(w)
<1>1. ~w.error /\ ReplansLeft(w)
  BY DEF Allowed
<1>2. /\ u \in ChapterState /\ u.error = w.error
      /\ Rounds(u) = MaxRevisions + MaxPatches /\ u.replans = w.replans + 1
  BY <1>1, ResetStep
<1> HIDE DEF u
<1>3. Tail(w) \in Nat /\ Tail(u) \in Nat /\ Tail(u) + 9 <= Tail(w)
  BY <1>1, <1>2, TailBounds, TailReset
<1>4. Successor("reset_replan", u) = "plan_cast"
  BY DEF Successor
<1>5. Rest("reset_replan", w) = Tail(w) /\ Rest("plan_cast", u) = 8 + Tail(u)
  BY <1>1, <1>2, <1>3 DEF Rest, Ahead
<1> QED
  BY <1>2, <1>3, <1>4, <1>5 DEF Entered, Allowed, Nodes, u

(* Each node that computes, by what Results and Successor are for it.      *)
LEMMA ComputeEntered ==
  ASSUME NEW w \in ChapterState, NEW n \in Nodes \ {"plan_gate", "persist", "summarize"},
         Allowed(n, w), NEW known \in SUBSET Cards, NEW refused \in SUBSET Cards,
         NEW u \in Results(n, w, 1, 1, known, refused)
  PROVE  Entered(n, w, u, Successor(n, u))
<1>1. /\ n = "load_state" => u \in LoadState(w)
      /\ n = "recall" => u = w
      /\ n = "plan_cast" => u \in PlanCast(w)
      /\ n = "plan_chapter" => u \in PlanChapter(w, 1)
      /\ n = "write" => u \in Write(w, 1)
      /\ n = "extract" => u \in Extract(w, known)
      /\ n = "validate" => u \in Validate(w, refused)
      /\ n = "audit" => u \in Audit(w)
      /\ n = "route" => u = Route(w)
      /\ n = "revise" => u \in Revise(w, 1)
      /\ n = "patch" => u \in Patch(w, 1)
      /\ n = "reset_replan" => u = ResetReplan(w)
  BY DEF Results
<1>2. CASE n = "recall"
  BY <1>1, <1>2, PlainStep DEF Plain, SameBudgets
<1>3. CASE n \in {"plan_cast", "plan_chapter", "write", "extract", "validate", "audit"}
  <2>1. Plain(u, w)
    BY <1>1, <1>3, CastPlain, PlanPlain, WritePlain, ExtractPlain, ValidatePlain, AuditPlain
  <2> QED
    BY <1>3, <2>1, PlainStep
<1>4. CASE n = "load_state"
  BY <1>1, <1>4, LoadEntered
<1>5. CASE n = "route"
  BY <1>1, <1>5, RouteEntered
<1>6. CASE n = "revise"
  <2>1. RevisionsLeft(w)
    BY <1>6 DEF Allowed
  <2> QED
    BY <1>1, <1>6, <2>1, ReviseStep, RepairEntered
<1>7. CASE n = "patch"
  <2>1. PatchesLeft(w)
    BY <1>7 DEF Allowed
  <2> QED
    BY <1>1, <1>7, <2>1, PatchStep, RepairEntered
<1>8. CASE n = "reset_replan"
  BY <1>1, <1>8, ResetEntered
<1> QED
  BY <1>2, <1>3, <1>4, <1>5, <1>6, <1>7, <1>8 DEF Nodes

---------------------------------------------------------------------------
(* The invariant.                                                          *)

LEMMA InitInv == Init => IInv
<1> SUFFICES ASSUME Init
             PROVE  IInv
  OBVIOUS
<1>1. PICK manual \in BOOLEAN, rewrite \in BOOLEAN, asked \in BOOLEAN, batched \in BOOLEAN :
        v = Input(manual, rewrite, asked, batched)
  BY DEF Init
<1>2. 0 \in 0..MaxRevisions /\ 0 \in 0..MaxPatches /\ 0 \in 0..MaxReplans
  BY Sizes
<1>3. v \in ChapterState
  BY <1>1, <1>2, KnownValues DEF Input, ChapterState
<1>4. node = "load_state" /\ steps = 0
  BY DEF Init
<1>5. Rest(node, v) = LongestRun
  BY <1>4 DEF Rest
<1> QED
  BY <1>3, <1>4, <1>5, Sizes DEF IInv, TypeOK, Allowed, Nodes

(* A node that is gone through lowers what is left by the step it takes.   *)
LEMMA LeaveInv ==
  ASSUME IInv, NEW w, Entered(node, v, w, Successor(node, w)), Leave(node, w)
  PROVE  IInv'
<1>1. v' = w /\ node' = Successor(node, w) /\ steps' = steps + 1
  BY DEF Leave
<1>2. /\ w \in ChapterState /\ node' \in Nodes \cup {"end"} /\ Allowed(node', w)
      /\ Rest(node', w) + 1 <= Rest(node, v)
  BY <1>1 DEF Entered
<1>3. v \in ChapterState /\ node \in Nodes \cup {"end"} /\ steps \in Nat
      /\ steps + Rest(node, v) <= LongestRun
  BY DEF IInv, TypeOK
<1>4. Rest(node, v) \in Nat /\ Rest(node', w) \in Nat
  BY <1>2, <1>3, RestBounded
<1>5. steps' \in Nat /\ steps' + Rest(node', w) <= LongestRun
  BY <1>1, <1>2, <1>3, <1>4, Sizes
<1> QED
  BY <1>1, <1>2, <1>5 DEF IInv, TypeOK, Allowed, Rest, Ahead

(* A new run has a whole walk before it.                                   *)
LEMMA RunInv ==
  ASSUME IInv, v' \in ChapterState, node' \in Nodes \cup {"end"}, Allowed(node', v'),
         steps' = 0
  PROVE  IInv'
<1>1. Rest(node', v') \in Nat /\ Rest(node', v') <= LongestRun
  BY RestBounded
<1>2. Rest(node, v)' = Rest(node', v') /\ Allowed(node, v)' = Allowed(node', v')
  BY DEF Rest, Ahead, Tail, Rounds, Allowed, RevisionsLeft, PatchesLeft, ReplansLeft
<1> QED
  BY <1>1, <1>2, Sizes DEF IInv, TypeOK

LEMMA StepInv == IInv /\ [Next]_vars => IInv'
<1> SUFFICES ASSUME IInv, [Next]_vars
             PROVE  IInv'
  OBVIOUS
<1>1. v \in ChapterState /\ node \in Nodes \cup {"end"} /\ steps \in Nat /\ Allowed(node, v)
  BY DEF IInv, TypeOK
<1>2. CASE Compute
  <2>1. node \in Nodes \ {"plan_gate", "persist", "summarize"}
    BY <1>2 DEF Compute
  <2>2. PICK known \in SUBSET Cards, refused \in SUBSET Cards :
          \E w \in Results(node, v, 1, 1, known, refused) : Leave(node, w)
    BY <1>2 DEF Compute
  <2> PICK w \in Results(node, v, 1, 1, known, refused) : Leave(node, w)
    BY <2>2
  <2>3. Entered(node, v, w, Successor(node, w))
    BY <1>1, <2>1, <2>2, ComputeEntered
  <2> QED
    BY <2>2, <2>3, LeaveInv
<1>3. CASE Gate
  <2>1. node = "plan_gate" /\ Plain(v, v)
    BY <1>1, <1>3 DEF Gate, Plain, SameBudgets
  <2>2. CASE GateOpen(v) /\ Leave(node, v)
    BY <1>1, <2>1, <2>2, PlainStep, LeaveInv
  <2>3. CASE v' = v /\ node' = Successor(node, v) /\ steps' = 1
    <3>1. node' = "write"
      BY <2>1, <2>3 DEF Successor
    <3>2. /\ Tail(v) \in Nat /\ Tail(v) + 10 <= LongestRun /\ LongestRun \in Nat
          /\ v.error \in BOOLEAN
      BY <1>1, TailBounds, Sizes DEF ChapterState
    <3>3. Rest("write", v) = 5 + (IF v.error THEN 0 ELSE Tail(v))
      BY DEF Rest, Ahead
    <3>4. Rest(node, v)' = Rest("write", v)
      BY <2>3, <3>1 DEF Rest, Ahead, Tail, Rounds
    <3> QED
      BY <1>1, <2>3, <3>1, <3>2, <3>3, <3>4 DEF IInv, TypeOK, Allowed, Nodes
  <2> QED
    BY <1>3, <2>2, <2>3 DEF Gate
<1>4. CASE Persist
  <2>1. node = "persist" /\ Leave(node, Persisted(v))
    BY <1>4 DEF Persist
  <2>2. Persisted(v) \in ChapterState
    <3>1. ASSUME NEW b \in BOOLEAN
          PROVE  [v EXCEPT !.review = b] \in ChapterState
      BY <1>1 DEF ChapterState
    <3>2. Blocked(v) \in BOOLEAN
      BY DEF Blocked
    <3> QED
      BY <3>1, <3>2 DEF Persisted
  <2>3. Successor("persist", Persisted(v)) = "summarize"
    BY DEF Successor
  <2>4. Rest("persist", v) = 2 /\ Rest("summarize", Persisted(v)) = 1
    BY DEF Rest
  <2>5. Entered(node, v, Persisted(v), Successor(node, Persisted(v)))
    BY <2>1, <2>2, <2>3, <2>4 DEF Entered, Allowed, Nodes
  <2> QED
    BY <2>1, <2>5, LeaveInv
<1>5. CASE Summarize
  <2>1. node = "summarize" /\ Leave(node, v)
    BY <1>5 DEF Summarize
  <2>2. Successor("summarize", v) = "end"
    BY DEF Successor
  <2>3. Rest("summarize", v) = 1 /\ Rest("end", v) = 0
    BY DEF Rest
  <2>4. Entered(node, v, v, Successor(node, v))
    BY <1>1, <2>1, <2>2, <2>3 DEF Entered, Allowed
  <2> QED
    BY <2>1, <2>4, LeaveInv
<1>6. CASE Interrupt
  BY <1>1, <1>6, RunInv DEF Interrupt
<1>7. CASE Again
  <2>1. CASE node' = "load_state" /\ v' = v
    <3>1. Allowed(node', v')
      BY <2>1 DEF Allowed
    <3> QED
      BY <1>1, <1>7, <2>1, <3>1, RunInv DEF Again, Nodes
  <2>2. CASE node' = "revise" /\ v' = Reopened(v)
    <3>1. v' \in ChapterState /\ ~v'.error /\ RevisionsLeft(v')
      BY <1>1, <2>2, ReopenedState
    <3>2. Allowed(node', v')
      BY <2>2, <3>1 DEF Allowed
    <3> QED
      BY <1>7, <2>2, <3>1, <3>2, RunInv DEF Again, Nodes
  <2> QED
    BY <1>7, <2>1, <2>2 DEF Again
<1>8. CASE UNCHANGED vars
  BY <1>1, <1>8 DEF vars, IInv, TypeOK, Rest, Ahead, Tail, Rounds, Allowed, RevisionsLeft,
                    PatchesLeft, ReplansLeft
<1> QED
  BY <1>2, <1>3, <1>4, <1>5, <1>6, <1>7, <1>8 DEF Next

(* The walk stays within its measure.                                      *)
THEOREM Measured == Spec => []IInv
BY InitInv, StepInv, PTL DEF Spec

(* The state that the graph hands from node to node stays a state of a     *)
(* thread, its counters within their limits.                               *)
THEOREM WalkTypes == Spec => []TypeOK
<1>1. IInv => TypeOK
  BY DEF IInv
<1> QED
  BY <1>1, Measured, PTL

(* No run of the graph is cut off, whatever the limits of revisions,       *)
(* patches and replans are, as long as LongestRun is within the recursion  *)
(* limit (recursion_limit=64 in runner.py).                                *)
THEOREM WholeRuns == Spec => []NeverCutOff
<1>1. IInv => NeverCutOff
  <2> SUFFICES ASSUME IInv
               PROVE  NeverCutOff
    OBVIOUS
  <2>1. v \in ChapterState /\ node \in Nodes \cup {"end"} /\ steps \in Nat
        /\ steps + Rest(node, v) <= LongestRun
    BY DEF IInv, TypeOK
  <2>2. Rest(node, v) \in Nat
    BY <2>1, RestBounded
  <2> QED
    BY <2>1, <2>2, Sizes, WalkAssumption DEF NeverCutOff
<1> QED
  BY <1>1, Measured, PTL
=============================================================================

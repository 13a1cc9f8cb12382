---------------------------- MODULE ChapterWalk ----------------------------
(***************************************************************************)
(* How long one run of the chapter's graph can be.  LangGraph raises an    *)
(* error when a run makes more steps than its recursion_limit, 64 in every *)
(* call of src/src/myink/workflow/runner.py, review.py and batch_graph.py. *)
(* The graph loops: revisions, patches and replans each have a limit of    *)
(* their own, and a replan gives the first two back.                       *)
(*                                                                         *)
(* A run starts at the beginning, at a checkpoint it goes on from, or at   *)
(* "revise" when the author refused a text; the walk here goes through one *)
(* run after another and counts the steps of each.                         *)
(***************************************************************************)
EXTENDS ChapterGraph

CONSTANTS RecursionLimit

VARIABLES node,   \* the node that is next
          v,      \* the state of the thread
          steps   \* the nodes this run has gone through

vars == <<node, v, steps>>

(* One way through the plan, the text and the route, and the rounds of     *)
(* repair it may take.                                                     *)
Cycle == 8 + 5 * (MaxRevisions + MaxPatches)

(* load_state and recall, a cycle and one more for each replan with its    *)
(* reset, persist and summarize.                                           *)
LongestRun == 4 + Cycle + MaxReplans * (Cycle + 1)

ASSUME WalkAssumption == RecursionLimit \in Nat /\ LongestRun <= RecursionLimit

TypeOK == node \in Nodes \cup {"end"} /\ v \in ChapterState /\ steps \in Nat

Init ==
  /\ \E manual, rewrite, asked, batched \in BOOLEAN : v = Input(manual, rewrite, asked, batched)
  /\ node = "load_state"
  /\ steps = 0

(* Node n leaves w; only that there are a plan and a text is told apart.   *)
Leave(n, w) == v' = w /\ node' = Successor(n, w) /\ steps' = steps + 1

Compute ==
  /\ node \in Nodes \ {"plan_gate", "persist", "summarize"}
  /\ \E known, refused \in SUBSET Cards : \E w \in Results(node, v, 1, 1, known, refused) :
       Leave(node, w)

(* An interrupt ends the run; the next one passes the gate with the plan   *)
(* that was approved.                                                      *)
Gate ==
  /\ node = "plan_gate"
  /\ \/ GateOpen(v) /\ Leave(node, v)
     \/ ~GateOpen(v) /\ v' = v /\ node' = Successor(node, v) /\ steps' = 1

Persist == node = "persist" /\ Leave(node, Persisted(v))

Summarize == node = "summarize" /\ Leave(node, v)

(* A pause or a fault ends the run, the next goes on at the same node.     *)
Interrupt == node # "end" /\ steps' = 0 /\ UNCHANGED <<node, v>>

(* A run after the graph ended in an error starts from the beginning, one  *)
(* after a review revises.                                                 *)
Again ==
  /\ node = "end" /\ steps' = 0
  /\ \/ v.error /\ node' = "load_state" /\ v' = v
     \/ v.review /\ ~v.error /\ node' = "revise" /\ v' = Reopened(v)

Next == Compute \/ Gate \/ Persist \/ Summarize \/ Interrupt \/ Again

Spec == Init /\ [][Next]_vars

---------------------------------------------------------------------------
(* However the audit combines revisions, patches and replans, no run is    *)
(* cut off by the recursion limit (settings.max_revisions, max_patches,    *)
(* max_replans against recursion_limit=64).                                *)
NeverCutOff == steps <= RecursionLimit
=============================================================================

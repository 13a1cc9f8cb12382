--------------------------- MODULE MCChapterTask ---------------------------
(* Small instances of ChapterTask for TLC.                                 *)
EXTENDS ChapterTask, TLC

CONSTANTS ally

(* A report that asks for a revision, a verdict that asks for a replan; a  *)
(* patch answers a setting that the author refused.                        *)
SomeReports == {NoReport, [hard |-> TRUE, scope |-> "wide"]}
SomeVerdicts ==
  {[kind |-> k, target |-> "chapter", scope |-> "none"] : k \in {"pass", "replan"}}

First   == [manual |-> FALSE, rewrite |-> FALSE, asked |-> FALSE]
(* Without the manual rewrite that asks for a new plan ("replan").         *)
AllInputs == {First, [First EXCEPT !.manual = TRUE], [First EXCEPT !.rewrite = TRUE],
              [First EXCEPT !.rewrite = TRUE, !.manual = TRUE],
              [First EXCEPT !.rewrite = TRUE, !.asked = TRUE]}
ManualOnly == {[First EXCEPT !.manual = TRUE]}
NoHazards == {}
ManualHazard == {"manual"}
=============================================================================

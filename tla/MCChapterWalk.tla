--------------------------- MODULE MCChapterWalk ---------------------------
(* ChapterWalk with the limits of config.py.                               *)
EXTENDS ChapterWalk

CONSTANTS ally

(* A report and a verdict for each way out of the route.                   *)
SomeReports == {NoReport} \cup [hard : {TRUE}, scope : {"local", "wide"}]
SomeVerdicts == {[kind |-> "pass", target |-> "chapter", scope |-> "none"]}
                \cup [kind : {"replan"}, target : {"chapter", "batch"}, scope : {"none"}]
=============================================================================

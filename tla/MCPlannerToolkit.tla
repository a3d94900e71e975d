--------------------------- MODULE MCPlannerToolkit ---------------------------
(***************************************************************************)
(* A robot action with two arguments that share a failure, a camera read   *)
(* with the environment step and one without, which share another, a       *)
(* search of the repository, and the call that ends the solve.             *)
(***************************************************************************)
EXTENDS PlannerToolkit

McCalls == {"near", "far", "front", "wrist", "search", "finish"}

McToolOf ==
  [c \in McCalls |-> IF c \in {"near", "far"} THEN "move"
                     ELSE IF c \in {"front", "wrist"} THEN "look" ELSE c]

Plain == [text |-> None, code |-> None, finish |-> FALSE, state |-> None, step |-> "none",
          acted |-> FALSE, outcome |-> "none", family |-> None, success |-> FALSE, print |-> 0]

Moved(s)    == [Plain EXCEPT !.state = s, !.step = "later"]
Capped      == [Moved("s1") EXCEPT !.outcome = "budget_exhausted", !.family = "grasp"]
Unreachable == [Plain EXCEPT !.text = "unreachable", !.code = "E1"]
Seen        == [Plain EXCEPT !.state = "s1", !.step = "same"]
Dark        == [Plain EXCEPT !.text = "dark"]

McResults ==
  [near   |-> {Moved("s1"), Moved("s2")},
   far    |-> {Capped, Unreachable},
   front  |-> {Seen, Dark},
   wrist  |-> {Plain, Dark},
   search |-> {},
   finish |-> {[Plain EXCEPT !.finish = TRUE]}]
=============================================================================

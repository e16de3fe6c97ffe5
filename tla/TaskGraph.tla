----------------------------- MODULE TaskGraph -----------------------------
(* What submit_dag promises of a graph of tasks, whatever queue, workers and *)
(* retries lie underneath: a node waits exactly as long as something it      *)
(* depends on is not done, and a failure takes with it everything that       *)
(* depends on the failed node and nothing else.                              *)

CONSTANTS
  Nodes,    \* the tasks of the graph
  Deps      \* [Nodes -> SUBSET Nodes], what a node depends on

VARIABLE
  phase     \* where a node is

Phases == {"absent", "waiting", "submitted", "done", "failed"}

Init == phase = [n \in Nodes |-> "absent"]

SubmitAll ==
  /\ \A n \in Nodes : phase[n] = "absent"
  /\ phase' = [n \in Nodes |-> IF Deps[n] = {} THEN "submitted" ELSE "waiting"]

\* The nodes that waited for n alone are submitted in the same step.
Succeed(n) ==
  /\ phase[n] = "submitted"
  /\ phase' = [m \in Nodes |->
                 CASE m = n -> "done"
                   [] m # n /\ phase[m] = "waiting"
                            /\ \A d \in Deps[m] : d = n \/ phase[d] = "done" -> "submitted"
                   [] OTHER -> phase[m]]

\* Lost is what a failure of n takes along: n itself, and a node exactly if
\* something it depends on is lost. In a graph without cycles there is one such set.
LostWith(n, Lost) == \A m \in Nodes : m \in Lost <=> m = n \/ Deps[m] \cap Lost # {}

Fail(n) ==
  /\ phase[n] = "submitted"
  /\ \E Lost \in SUBSET Nodes :
       /\ LostWith(n, Lost)
       /\ phase' = [m \in Nodes |-> IF m \in Lost THEN "failed" ELSE phase[m]]

Next == SubmitAll \/ \E n \in Nodes : Succeed(n) \/ Fail(n)

Spec == Init /\ [][Next]_phase
=============================================================================

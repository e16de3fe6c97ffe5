---------------------------- MODULE DagSchedule ----------------------------
(* What the coordinator promises about the nodes of one workflow graph,      *)
(* whatever the batching, the threads, the retries and the pauses do: a node *)
(* starts at most once per round and only when everything it depends on is   *)
(* done for good, and a verdict on a node is final until the next round.     *)
EXTENDS Naturals

CONSTANTS Nodes,   \* the nodes of the graph
          Deps     \* the nodes each node waits for, a function to subsets of Nodes

VARIABLE phase     \* where each node is in its life

Phases == {"waiting", "running", "done", "failed", "abandoned"}

AllWaiting == [n \in Nodes |-> "waiting"]

TypeOK == phase \in [Nodes -> Phases]

Init == phase = AllWaiting

\* A node starts when all it waits for is done.
Start(n) ==
  /\ phase[n] = "waiting"
  /\ \A d \in Deps[n] : phase[d] = "done"
  /\ phase' = [phase EXCEPT ![n] = "running"]

\* A running node is done, fails, or is left behind by an exception.
End(n) ==
  /\ phase[n] = "running"
  /\ \E verdict \in {"done", "failed", "abandoned"} :
        phase' = [phase EXCEPT ![n] = verdict]

\* A new round begins only when nothing of the old one still runs.
Restart ==
  /\ \A n \in Nodes : phase[n] # "running"
  /\ phase' = AllWaiting

Next == Restart \/ \E n \in Nodes : Start(n) \/ End(n)

Spec == Init /\ [][Next]_phase
=============================================================================

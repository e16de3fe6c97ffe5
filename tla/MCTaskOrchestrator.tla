------------------------ MODULE MCTaskOrchestrator ------------------------
(* Two agents and three slots: the third is the first agent registered anew. *)
(* A diamond of four nodes and a task of its own.                            *)
EXTENDS TaskOrchestrator

CONSTANTS a, b, c, d, x, outliner, writer

MCTasks == {a, b, c, d, x}
MCDagNodes == {a, b, c, d}
MCDeps == [n \in MCDagNodes |-> CASE n = a -> {}
                                  [] n \in {b, c} -> {a}
                                  [] n = d -> {b, c}]
MCWants == [t \in MCTasks |-> IF t \in {a, b} THEN outliner ELSE writer]
MCMaxRetries == [t \in MCTasks |-> IF t = b THEN 1 ELSE 0]
MCSlots == 1 .. 3
MCAgentName == [s \in MCSlots |-> IF s = 2 THEN writer ELSE outliner]
=============================================================================

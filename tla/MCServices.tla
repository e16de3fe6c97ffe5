----------------------------- MODULE MCServices -----------------------------
(* What the agents share, each on its own: the router's cache of answers, a  *)
(* pool of connections of either kind, the context store. One of them moves  *)
(* in a behaviour, so that their states add up.                              *)
EXTENDS LlmCalls, ResourcePool, DbPool, ContextStore

CONSTANTS local, global

VARIABLE part

MCScopes == <<local, global>>

MCInit ==
  /\ part \in {"llm", "resources", "database", "context"}
  /\ LlmInit /\ PoolInit /\ ContextInit
  /\ part \notin {"resources", "database"} => idle = <<>>

MCNext ==
  /\ UNCHANGED part
  /\ \/ part = "llm" /\ LlmNext /\ UNCHANGED <<poolVars, contextVars>>
     \/ part = "resources" /\ ResourceNext /\ UNCHANGED <<llmVars, contextVars>>
     \/ part = "database" /\ DbNext /\ UNCHANGED <<llmVars, contextVars>>
     \/ part = "context" /\ ContextNext /\ UNCHANGED <<llmVars, poolVars>>

MCSpec == MCInit /\ [][MCNext]_<<part, llmVars, poolVars, contextVars>>

ServicesTypeOK == LlmTypeOK /\ PoolTypeOK /\ ContextTypeOK
=============================================================================

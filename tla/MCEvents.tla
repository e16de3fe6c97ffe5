------------------------------ MODULE MCEvents ------------------------------
(* The event bus with the event stream on it and with handlers of its own,   *)
(* and the bus on a Redis stream. One of the two buses moves in a behaviour, *)
(* so that their states add up.                                              *)
EXTENDS EventStream, RedisEventBus

CONSTANTS e1, e2, e3, created, progress, any, client, waiter, logger, audit, index

VARIABLE part
mcVars == <<allVars, redisVars, part>>

MCTypeOf == e1 :> created @@ e2 :> created @@ e3 :> progress
MCCovers == any :> {created, progress}

\* The client of the stream, a one-shot handler, a filtered wildcard handler.
ClientSub == [handler |-> client, keys |-> {created, progress},
              filter |-> Events, once |-> FALSE]
WaiterSub == [handler |-> waiter, keys |-> {created},
              filter |-> Events, once |-> TRUE]
LoggerSub == [handler |-> logger, keys |-> {any},
              filter |-> {e1, e3}, once |-> FALSE]
MCSubscriptions == {ClientSub, WaiterSub, LoggerSub}
MCStreamSub == client :> ClientSub

ASSUME MCAssumption ==
  {e1, e2, e3} \subseteq Events /\ MCSubscriptions \subseteq Subscriptions

\* The second entry of the Redis stream has two handlers.
MCWanted == [n \in Entries |-> IF n = 2 THEN {audit, index} ELSE {audit}]

MCInit ==
  /\ RedisInit
  /\ \/ /\ part = "events"
        /\ \/ StreamInit({e1, e2, e3}, {WaiterSub}, TRUE)
           \/ StreamInit({e1, e2}, {WaiterSub, LoggerSub}, FALSE)
           \/ StreamInit({e1, e2}, {ClientSub}, TRUE)
           \/ StreamInit({e3}, {ClientSub}, FALSE)
     \/ part = "redis" /\ StreamInit({}, {}, TRUE)

MCNext ==
  /\ UNCHANGED part
  /\ \/ part = "events" /\ StreamNext /\ UNCHANGED redisVars
     \/ part = "redis" /\ RedisNext /\ UNCHANGED allVars

\* The fairness of RedisEventBus, for the part that moves.
MCRedisFairness ==
  \A p \in Processes :
    /\ WF_mcVars(part = "redis" /\ Boot(p) /\ UNCHANGED <<allVars, part>>)
    /\ WF_mcVars(part = "redis" /\ StartLoop(p) /\ UNCHANGED <<allVars, part>>)
    /\ WF_mcVars(part = "redis" /\ LoopRuns(p) /\ UNCHANGED <<allVars, part>>)

MCSpec ==
  /\ MCInit /\ [][MCNext]_mcVars
  /\ StreamFairness /\ MCRedisFairness

EventsTypeOK == StreamTypeOK /\ RedisTypeOK
=============================================================================

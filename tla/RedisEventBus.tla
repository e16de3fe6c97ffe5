--------------------------- MODULE RedisEventBus ---------------------------
(* The event bus on a Redis stream (core/redis_event_bus.py).                *)
(*                                                                           *)
(* Redis keeps the stream and the consumer group; it outlives the processes. *)
(* An entry is named by its place in the stream. The group hands each new    *)
(* entry to one consumer, and an entry handed out and not acknowledged is    *)
(* pending. Each process has the handlers in memory and one consume loop     *)
(* that reads a batch and awaits the handlers of one entry after another:    *)
(* the process may stop the loop or die at any await, and start() may fail.  *)
EXTENDS Naturals, FiniteSets

CONSTANTS
  Processes,      \* processes that share the stream
  StreamHandlers, \* handlers they may subscribe
  Wanted,         \* Wanted[n]: the handlers of the type of entry n
  MaxEntries,     \* bound: entries published
  Malformed,      \* entries whose data is no JSON, or no JSON object
  ReadCount,      \* count of XREADGROUP
  MaxFaults       \* bound: crashes, stops and failed calls to Redis

Entries == 1..MaxEntries

ASSUME RedisAssumption ==
  /\ MaxEntries \in Nat /\ MaxFaults \in Nat
  /\ ReadCount \in Nat \ {0}
  /\ Wanted \in [Entries -> SUBSET StreamHandlers]

VARIABLES
  added,       \* length of the stream
  handedOut,   \* last entry the group has handed to a consumer
  acked,       \* entries acknowledged
  up,          \* processes that run
  registered,  \* _handlers of each process
  running,     \* processes whose _running is True
  looping,     \* processes with a consume loop
  first, last, \* the entries of the loop's batch that are left: first..last
  todo,        \* handlers to call for the first of them, while it is processed
  begun,       \* the first of them is being processed
  calls,       \* calls[n][h]: times h was called for entry n
  expected,    \* the handlers an entry had when its processing began
  dropped,     \* entries a loop held and will not come back to
  faults

streamVarsR == <<added, handedOut, acked>>
loopVars == <<up, registered, running, looping, first, last, todo, begun>>
redisVars == <<streamVarsR, loopVars, calls, expected, dropped, faults>>

RedisTypeOK ==
  /\ added \in 0..MaxEntries
  /\ handedOut \in 0..MaxEntries
  /\ acked \subseteq Entries
  /\ up \subseteq Processes
  /\ registered \in [Processes -> SUBSET StreamHandlers]
  /\ running \subseteq Processes /\ looping \subseteq Processes
  /\ first \in [Processes -> Nat]
  /\ last \in [Processes -> 0..MaxEntries]
  /\ todo \in [Processes -> SUBSET StreamHandlers]
  /\ begun \in [Processes -> BOOLEAN]
  /\ calls \in [Entries -> [StreamHandlers -> Nat]]
  /\ expected \in [Entries -> SUBSET StreamHandlers]
  /\ dropped \subseteq Entries
  /\ faults \in 0..MaxFaults

RedisInit ==
  /\ added = 0 /\ handedOut = 0 /\ acked = {}
  /\ up = {} /\ running = {} /\ looping = {}
  /\ registered = [p \in Processes |-> {}]
  /\ first = [p \in Processes |-> 1] /\ last = [p \in Processes |-> 0]
  /\ todo = [p \in Processes |-> {}] /\ begun = [p \in Processes |-> FALSE]
  /\ calls = [n \in Entries |-> [h \in StreamHandlers |-> 0]]
  /\ expected = [n \in Entries |-> {}]
  /\ dropped = {} /\ faults = 0

Held(p) == first[p]..last[p]

-----------------------------------------------------------------------------
(* Processes.                                                                *)

\* publish: XADD.
AddEntry ==
  /\ up # {} /\ added < MaxEntries
  /\ added' = added + 1
  /\ UNCHANGED <<handedOut, acked, loopVars, calls, expected, dropped, faults>>

Boot(p) ==
  /\ p \notin up
  /\ up' = up \cup {p}
  /\ UNCHANGED <<streamVarsR, registered, running, looping, first, last, todo, begun,
                 calls, expected, dropped, faults>>

\* subscribe, at any time. The list of handlers of the entry in hand is being
\* gone through while it grows: the handler is called for that entry too, unless
\* the last of the list has returned or there was no list when the entry was begun.
Register(p, h) ==
  /\ p \in up /\ h \notin registered[p]
  /\ registered' = [registered EXCEPT ![p] = @ \cup {h}]
  /\ \/ /\ begun[p] /\ h \in Wanted[first[p]] /\ expected[first[p]] # {}
        /\ todo' = [todo EXCEPT ![p] = @ \cup {h}]
        /\ expected' = [expected EXCEPT ![first[p]] = @ \cup {h}]
     \/ /\ begun[p] /\ h \in Wanted[first[p]] => todo[p] = {}
        /\ UNCHANGED <<todo, expected>>
  /\ UNCHANGED <<streamVarsR, up, running, looping, first, last, begun, calls,
                 dropped, faults>>

Fault == faults < MaxFaults /\ faults' = faults + 1

\* The group begins at the start of the stream and is made once.
StartLoop(p) ==
  /\ p \in up \ running
  /\ running' = running \cup {p} /\ looping' = looping \cup {p}
  /\ UNCHANGED <<streamVarsR, up, registered, first, last, todo, begun, calls,
                 expected, dropped, faults>>

\* xgroup_create raises after _running was set: later calls of start return at
\* once.
StartFails(p) ==
  /\ p \in up \ running
  /\ Fault
  /\ running' = running \cup {p}
  /\ UNCHANGED <<streamVarsR, up, registered, looping, first, last, todo, begun,
                 calls, expected, dropped>>

\* The batch in hand is left where it is, from entry n on: the entries stay
\* pending in the group, and a loop asks for new entries only, under a new name.
LetGoFrom(p, n) ==
  /\ dropped' = dropped \cup n..last[p]
  /\ first' = [first EXCEPT ![p] = 1]
  /\ last' = [last EXCEPT ![p] = 0]
  /\ todo' = [todo EXCEPT ![p] = {}]
  /\ begun' = [begun EXCEPT ![p] = FALSE]

LetGo(p) == LetGoFrom(p, first[p])

StopLoop(p) ==
  /\ p \in running
  /\ running' = running \ {p} /\ looping' = looping \ {p}
  /\ IF p \in looping THEN Fault ELSE UNCHANGED faults
  /\ LetGo(p)
  /\ UNCHANGED <<streamVarsR, up, registered, calls, expected>>

Crash(p) ==
  /\ p \in up
  /\ Fault
  /\ up' = up \ {p}
  /\ running' = running \ {p} /\ looping' = looping \ {p}
  /\ registered' = [registered EXCEPT ![p] = {}]
  /\ LetGo(p)
  /\ UNCHANGED <<streamVarsR, calls, expected>>

-----------------------------------------------------------------------------
(* The consume loop.                                                         *)

\* The last entry of a batch: at most ReadCount, and no more than there are.
LastRead == IF handedOut + ReadCount <= added THEN handedOut + ReadCount ELSE added

\* XREADGROUP with ">".
ReadBatch(p) ==
  /\ p \in looping /\ Held(p) = {} /\ handedOut < added
  /\ first' = [first EXCEPT ![p] = handedOut + 1]
  /\ last' = [last EXCEPT ![p] = LastRead]
  /\ handedOut' = LastRead
  /\ UNCHANGED <<added, acked, up, registered, running, looping, todo, begun, calls,
                 expected, dropped, faults>>

\* Mutant of BeginEntry: an entry nobody handles is left for a later subscriber.
BeginWanted(p) ==
  /\ Held(p) # {} /\ ~begun[p] /\ first[p] \notin Malformed
  /\ registered[p] \cap Wanted[first[p]] # {}
  /\ begun' = [begun EXCEPT ![p] = TRUE]
  /\ todo' = [todo EXCEPT ![p] = registered[p] \cap Wanted[first[p]]]
  /\ expected' = [expected EXCEPT ![first[p]] = todo'[p]]
  /\ UNCHANGED <<streamVarsR, up, registered, running, looping, first, last, calls,
                 dropped, faults>>

\* The handlers the type of the entry has now, none perhaps.
BeginEntry(p) ==
  /\ Held(p) # {} /\ ~begun[p] /\ first[p] \notin Malformed
  /\ begun' = [begun EXCEPT ![p] = TRUE]
  /\ todo' = [todo EXCEPT ![p] = registered[p] \cap Wanted[first[p]]]
  /\ expected' = [expected EXCEPT ![first[p]] = todo'[p]]
  /\ UNCHANGED <<streamVarsR, up, registered, running, looping, first, last, calls,
                 dropped, faults>>

\* One handler is called; what it raises is swallowed.
CallHandler(p, h) ==
  /\ h \in todo[p]
  /\ calls' = [calls EXCEPT ![first[p]][h] = @ + 1]
  /\ todo' = [todo EXCEPT ![p] = @ \ {h}]
  /\ UNCHANGED <<streamVarsR, up, registered, running, looping, first, last, begun,
                 expected, dropped, faults>>

\* Mutant of Acknowledge: an entry is acknowledged before its handlers end.
AcknowledgeFirst(p) ==
  /\ begun[p]
  /\ acked' = acked \cup {first[p]}
  /\ first' = [first EXCEPT ![p] = @ + 1]
  /\ begun' = [begun EXCEPT ![p] = FALSE]
  /\ todo' = [todo EXCEPT ![p] = {}]
  /\ UNCHANGED <<added, handedOut, up, registered, running, looping, last, calls,
                 expected, dropped, faults>>

Acknowledge(p) ==
  /\ begun[p] /\ todo[p] = {}
  /\ acked' = acked \cup {first[p]}
  /\ first' = [first EXCEPT ![p] = @ + 1]
  /\ begun' = [begun EXCEPT ![p] = FALSE]
  /\ UNCHANGED <<added, handedOut, up, registered, running, looping, last, todo, calls,
                 expected, dropped, faults>>

\* The exception of XACK, which Redis may have carried out, ends the pass over
\* the batch; the loop sleeps and reads new entries.
AcknowledgeFails(p) ==
  /\ begun[p] /\ todo[p] = {}
  /\ Fault
  /\ \/ LetGo(p) /\ UNCHANGED acked
     \/ LetGoFrom(p, first[p] + 1) /\ acked' = acked \cup {first[p]}
  /\ UNCHANGED <<added, handedOut, up, registered, running, looping, calls, expected>>

\* JSONDecodeError: neither handled nor acknowledged.
SkipMalformed(p) ==
  /\ Held(p) # {} /\ first[p] \in Malformed
  /\ dropped' = dropped \cup {first[p]}
  /\ first' = [first EXCEPT ![p] = @ + 1]
  /\ UNCHANGED <<streamVarsR, up, registered, running, looping, last, todo, begun, calls,
                 expected, faults>>

\* Data that is JSON and no object: the AttributeError of data.get leaves
\* _process_entry and ends the pass over the batch.
AbandonBatch(p) ==
  /\ Held(p) # {} /\ first[p] \in Malformed
  /\ LetGo(p)
  /\ UNCHANGED <<streamVarsR, up, registered, running, looping, calls, expected,
                 faults>>

\* An error of XREADGROUP: the loop sleeps a second and goes on. Redis may have
\* handed out a batch that never arrived.
ReadFails(p) ==
  /\ p \in looping /\ Held(p) = {}
  /\ Fault
  /\ \/ UNCHANGED <<handedOut, dropped>>
     \/ /\ handedOut < added
        /\ handedOut' = LastRead
        /\ dropped' = dropped \cup (handedOut + 1)..LastRead
  /\ UNCHANGED <<added, acked, loopVars, calls, expected>>

LoopRuns(p) ==
  \/ ReadBatch(p) \/ BeginEntry(p) \/ Acknowledge(p)
  \/ SkipMalformed(p) \/ AbandonBatch(p)
  \/ \E h \in StreamHandlers : CallHandler(p, h)

RedisNext ==
  \/ AddEntry
  \/ \E p \in Processes :
       \/ Boot(p) \/ StartLoop(p) \/ StartFails(p) \/ StopLoop(p) \/ Crash(p)
       \/ LoopRuns(p) \/ AcknowledgeFails(p) \/ ReadFails(p)
       \/ \E h \in StreamHandlers : Register(p, h)

\* A process that died is started again, start is called on a bus that is not
\* running, and loops go on. A start may fail, as often as MaxFaults allows, and
\* nobody has to call stop on a bus whose start failed.
RedisFairness ==
  \A p \in Processes :
    /\ WF_redisVars(Boot(p))
    /\ WF_redisVars(StartLoop(p))
    /\ WF_redisVars(LoopRuns(p))

RedisSpec == RedisInit /\ [][RedisNext]_redisVars
RedisFairSpec == RedisSpec /\ RedisFairness

-----------------------------------------------------------------------------
(* Properties.                                                               *)

\* Whatever crashes, stops and fails, and however many processes share the
\* group, no handler is called twice for an entry.
HandledOnce == \A n \in Entries, h \in StreamHandlers : calls[n][h] <= 1

\* An acknowledged entry has been through all the handlers its process had for
\* it, and no entry that a loop let go is acknowledged: what was not handled can
\* be told by the pending entries of the group.
AckedWasHandled ==
  \A n \in acked :
    n \notin dropped /\ \A h \in expected[n] : calls[n][h] = 1

\* The process, if any, that has begun an entry, what became of each entry, and
\* the handlers it is still to go through.
BegunBy(n) == {p \in Processes : begun[p] /\ first[p] = n}

Fate ==
  [n \in Entries |->
     IF n \in acked THEN "acked"
     ELSE IF n \in dropped THEN "dropped"
     ELSE IF n > handedOut THEN "unread"
     ELSE IF BegunBy(n) # {} THEN "begun" ELSE "taken"]

Due == [n \in Entries |-> UNION {todo[p] : p \in BegunBy(n)}]

Delivery == INSTANCE EntryDelivery WITH Handlers <- StreamHandlers, fate <- Fate, due <- Due

\* Seen from outside, an entry only ever moves on, through the fates
\* EntryDelivery names: batches, consumers, the group's position, stops and
\* crashes between any two steps, and errors of Redis do not show.
DeliveryKept == Delivery!Spec

\* Every process has a bus that counts as running and has no loop.
NobodyListens == Processes \subseteq running \ looping

\* While processes come back, every entry of the stream is acknowledged in the
\* end unless a loop held it at a fault or could not parse it, or the start of
\* every process failed once: from there on start does nothing.
EntriesSettle ==
  \A n \in Entries : n <= added ~> n \in acked \cup dropped \/ NobodyListens
=============================================================================

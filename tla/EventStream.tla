----------------------------- MODULE EventStream -----------------------------
(* The stream of events a client of the API reads (event_stream in           *)
(* api/main.py) on top of the event bus.                                     *)
(*                                                                           *)
(* Each client has an asyncio.Queue. Its handler on_event is a plain         *)
(* function, so the bus runs it in a thread per event, and that thread puts  *)
(* into the queue the loop reads: the loop may find the queue empty, the     *)
(* thread put and find nobody to wake, and the loop park its getter then.    *)
(* asyncio.Queue is no thread-safe class, its steps are modelled one by one. *)
EXTENDS EventBus

CONSTANTS
  Streams,      \* on_event of each client
  StreamSub     \* the subscription each of them makes

ASSUME StreamAssumption ==
  /\ Streams \subseteq Handlers \ AsyncHandlers
  /\ \A c \in Streams : StreamSub[c] \in Subscriptions
                        /\ StreamSub[c].handler = c /\ ~StreamSub[c].once

VARIABLES
  active,     \* "off" before the request, "on", "closed" after the generator's end
  inbox,      \* the client's queue
  getter,     \* where the generator is in queue.get
  waking,     \* threads of on_event between their put and their wake-up
  sent,       \* the events yielded to the client
  settled     \* what had been put for the client when the bus first called it
              \* for an event

streamVars == <<active, inbox, getter, waking, sent, settled>>

StreamTypeOK ==
  /\ BusTypeOK
  /\ active \in [Streams -> {"off", "on", "closed"}]
  /\ inbox \in [Streams -> Seq(Events)]
  /\ getter \in [Streams -> {"get", "register", "parked", "woken"}]
  /\ waking \in [Streams -> Nat]
  /\ sent \in [Streams -> Seq(Events)]
  /\ settled \in [Streams -> [Events -> SUBSET Events]]

StreamInit(events, subscriptions, used) ==
  /\ BusInit(events, subscriptions, used)
  /\ active = [c \in Streams |-> "off"]
  /\ inbox = [c \in Streams |-> <<>>]
  /\ getter = [c \in Streams |-> "get"]
  /\ waking = [c \in Streams |-> 0]
  /\ sent = [c \in Streams |-> <<>>]
  /\ settled = [c \in Streams |-> [e \in Events |-> {}]]

\* A step of the bus; what was put is noted when a call begins.
OnBus(Step) ==
  /\ Step
  /\ settled' = [c \in Streams |-> [e \in Events |->
       IF bus.called[c][e] = 0 /\ bus'.called[c][e] > 0
       THEN ToSet(sent[c] \o inbox[c]) ELSE settled[c][e]]]
  /\ UNCHANGED <<active, inbox, getter, waking, sent>>

Join ==
  /\ \E s \in Subscriptions : s.handler \notin Streams /\ Subscribe(s)
  /\ UNCHANGED streamVars

Leave ==
  /\ \E s \in Subscriptions : s.handler \notin Streams /\ Unsubscribe(s)
  /\ UNCHANGED streamVars

Return ==
  /\ \E h \in Handlers \ Streams, e \in Events : FinishCall(h, e)
  /\ UNCHANGED streamVars

Open(c) ==
  /\ active[c] = "off"
  /\ Subscribe(StreamSub[c])
  /\ active' = [active EXCEPT ![c] = "on"]
  /\ UNCHANGED <<inbox, getter, waking, sent, settled>>

\* Mutant of Close: the generator ends and its handler stays subscribed.
CloseSubscribed(c) ==
  /\ active[c] = "on"
  /\ active' = [active EXCEPT ![c] = "closed"]
  /\ UNCHANGED <<busVars, inbox, getter, waking, sent, settled>>

\* The client has gone: the generator's finally clause.
Close(c) ==
  /\ active[c] = "on"
  /\ active' = [active EXCEPT ![c] = "closed"]
  /\ bus' = [bus EXCEPT !.handlers =
               WithoutHandler(@, c, StreamSub[c].keys)]
  /\ UNCHANGED <<batchVars, closeVars, fresh, pending, batched, seen, replays,
                 inbox, getter, waking, sent, settled>>

\* on_event in its thread.
Put(c, e) ==
  /\ active[c] = "on"
  /\ FinishCall(c, e)
  /\ inbox' = [inbox EXCEPT ![c] = Append(@, e)]
  /\ waking' = [waking EXCEPT ![c] = @ + 1]
  /\ UNCHANGED <<active, getter, sent, settled>>

PutAfterClose(c, e) ==
  /\ active[c] = "closed"
  /\ FinishCall(c, e)
  /\ UNCHANGED streamVars

\* The getter that waits, if there is one, is woken.
Wake(c) ==
  /\ waking[c] > 0
  /\ waking' = [waking EXCEPT ![c] = @ - 1]
  /\ getter' = [getter EXCEPT ![c] = IF @ = "parked" THEN "woken" ELSE @]
  /\ UNCHANGED <<busVars, active, inbox, sent, settled>>

\* The generator in the loop.
GetterMoves(c, from, to) ==
  /\ active[c] = "on"
  /\ getter[c] \in from
  /\ getter' = [getter EXCEPT ![c] = to]
  /\ UNCHANGED <<busVars, active, inbox, waking, sent, settled>>

FindEmpty(c) == inbox[c] = <<>> /\ GetterMoves(c, {"get"}, "register")
Park(c) == GetterMoves(c, {"register"}, "parked")
GetAgain(c) == GetterMoves(c, {"woken"}, "get")

\* Mutant of Heartbeat: wait_for has no timeout and only a wake-up ends it.
HeartbeatWhenWoken(c) == GetterMoves(c, {"woken"}, "get")

\* wait_for is over after 30 seconds, whoever is woken meanwhile.
Heartbeat(c) == GetterMoves(c, {"parked", "woken"}, "get")

\* Mutant of Yield: the queue hands out the latest event first.
YieldLatest(c) ==
  /\ active[c] = "on" /\ getter[c] = "get" /\ inbox[c] # <<>>
  /\ sent' = [sent EXCEPT ![c] = Append(@, Last(inbox[c]))]
  /\ inbox' = [inbox EXCEPT ![c] = Front(@)]
  /\ UNCHANGED <<busVars, active, getter, waking, settled>>

Yield(c) ==
  /\ active[c] = "on" /\ getter[c] = "get" /\ inbox[c] # <<>>
  /\ sent' = [sent EXCEPT ![c] = Append(@, Head(inbox[c]))]
  /\ inbox' = [inbox EXCEPT ![c] = Tail(@)]
  /\ UNCHANGED <<busVars, active, getter, waking, settled>>

Generator(c) ==
  FindEmpty(c) \/ Park(c) \/ GetAgain(c) \/ Heartbeat(c) \/ Yield(c)

Thread(c) == Wake(c) \/ \E e \in Events : Put(c, e)

StreamNext ==
  \/ OnBus(BusStep) \/ Join \/ Leave \/ Return
  \/ \E c \in Streams :
       \/ Open(c) \/ Close(c) \/ Thread(c) \/ Generator(c)
       \/ \E e \in Events : PutAfterClose(c, e)

allVars == <<busVars, streamVars>>

\* The loop runs its tasks and timers, and threads run; nobody has to publish,
\* to connect or to leave.
StreamFairness ==
  /\ WF_allVars(OnBus(ProcessTask))
  /\ WF_allVars(OnBus(AddToBatch))
  /\ WF_allVars(OnBus(ProcessorWakes))
  /\ WF_allVars(OnBus(ProcessorFlushes))
  /\ WF_allVars(OnBus(FlushEnds))
  /\ \A c \in Streams :
       /\ WF_allVars(FindEmpty(c)) /\ WF_allVars(Park(c))
       /\ WF_allVars(GetAgain(c)) /\ WF_allVars(Heartbeat(c))
       /\ WF_allVars(Yield(c))
       /\ \A e \in Events : WF_allVars(Put(c, e))

\* Whatever will be published and subscribed, before or after a shutdown.
StreamStart ==
  \E events \in SUBSET Events, subscriptions \in SUBSET Subscriptions, used \in BOOLEAN :
    StreamInit(events, subscriptions, used)

StreamSpec == StreamStart /\ [][StreamNext]_allVars /\ StreamFairness

-----------------------------------------------------------------------------
(* Properties.                                                               *)

\* What order survives a thread per event: an event whose on_event had put it
\* into the queue before the bus processed a second one is sent before it, with
\* batches, replays and other handlers in between. Two events whose threads run
\* at the same time are sent in either order.
SentInOrder ==
  \A c \in Streams : \A i \in DOMAIN sent[c] :
    settled[c][sent[c][i]] \subseteq {sent[c][k] : k \in 1..(i - 1)}

\* The calls of a client's handler that have yet to end.
CallsDue == [c \in Streams |-> bus.running[c]]

Feed == INSTANCE ClientFeed WITH
          Clients <- Streams, phase <- active, due <- CallsDue, queue <- inbox

\* Seen from a client, the bus, its batches, replays and shutdown, the threads and
\* the heartbeats come to what ClientFeed allows: no call is made for a client
\* that has left, whatever was queued, scheduled or replayed by then, a call puts
\* its event once, and nothing overtakes what was put before it.
FeedKept == Feed!Spec

\* Every event the bus calls on_event for reaches the client unless it leaves:
\* a wake-up lost between the loop and a thread costs a heartbeat at most.
StreamDelivers ==
  \A c \in Streams, e \in Events :
    bus.called[c][e] > 0 ~> e \in ToSet(sent[c]) \/ active[c] = "closed"
=============================================================================

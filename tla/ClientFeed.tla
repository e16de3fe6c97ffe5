----------------------------- MODULE ClientFeed -----------------------------
(* What the event stream promises a client, whatever batches, replays,       *)
(* threads and heartbeats lie underneath: only while it is there are calls   *)
(* made for it, each call puts its event once, and what was put is sent in   *)
(* the order it was put. A call that a client leaves behind ends unseen.     *)
EXTENDS Naturals, Sequences

CONSTANTS
  Clients,
  Events

VARIABLES
  phase,    \* "off", "on" or "closed" for each client
  due,      \* calls of each client's handler that have yet to end, per event
  queue,    \* events put for a client
  sent      \* events sent to it

vars == <<phase, due, queue, sent>>

Init ==
  /\ phase = [c \in Clients |-> "off"]
  /\ due = [c \in Clients |-> [e \in Events |-> 0]]
  /\ queue = [c \in Clients |-> <<>>]
  /\ sent = [c \in Clients |-> <<>>]

Open(c) ==
  /\ phase[c] = "off"
  /\ phase' = [phase EXCEPT ![c] = "on"]
  /\ UNCHANGED <<due, queue, sent>>

Close(c) ==
  /\ phase[c] = "on"
  /\ phase' = [phase EXCEPT ![c] = "closed"]
  /\ UNCHANGED <<due, queue, sent>>

\* Any number of calls begin, of any events, for the clients that are there.
CallClients ==
  /\ due' \in [Clients -> [Events -> Nat]]
  /\ \A c \in Clients, e \in Events : due'[c][e] >= due[c][e]
  /\ \A c \in Clients : phase[c] # "on" => due'[c] = due[c]
  /\ UNCHANGED <<phase, queue, sent>>

EndCall(c, e) ==
  /\ due[c][e] > 0
  /\ due' = [due EXCEPT ![c][e] = @ - 1]

Put(c, e) ==
  /\ phase[c] = "on"
  /\ EndCall(c, e)
  /\ queue' = [queue EXCEPT ![c] = Append(@, e)]
  /\ UNCHANGED <<phase, sent>>

Discard(c, e) ==
  /\ phase[c] = "closed"
  /\ EndCall(c, e)
  /\ UNCHANGED <<phase, queue, sent>>

Deliver(c) ==
  /\ phase[c] = "on" /\ queue[c] # <<>>
  /\ sent' = [sent EXCEPT ![c] = Append(@, Head(queue[c]))]
  /\ queue' = [queue EXCEPT ![c] = Tail(@)]
  /\ UNCHANGED <<phase, due>>

Next ==
  \/ CallClients
  \/ \E c \in Clients :
       \/ Open(c) \/ Close(c) \/ Deliver(c)
       \/ \E e \in Events : Put(c, e) \/ Discard(c, e)

Spec == Init /\ [][Next]_vars
=============================================================================

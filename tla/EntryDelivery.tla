--------------------------- MODULE EntryDelivery ---------------------------
(* What the processes that share a Redis stream promise of its entries,      *)
(* whoever crashes or stops and whichever call to Redis fails: an entry is   *)
(* taken once and in order, the handlers it is given when it is begun and    *)
(* while it is handled are each called once, and it is acknowledged only     *)
(* when all of them were. Otherwise it is given up for good, at any moment.  *)
EXTENDS Naturals

CONSTANTS
  Entries,    \* places in the stream
  Handlers    \* handlers the processes may have

VARIABLES
  fate,       \* how far an entry has come
  due,        \* the handlers an entry is still to go through
  calls       \* [Entries -> [Handlers -> Nat]], the calls made

vars == <<fate, due, calls>>

Fates == {"unread", "taken", "begun", "acked", "dropped"}

Init ==
  /\ fate = [n \in Entries |-> "unread"]
  /\ due = [n \in Entries |-> {}]
  /\ calls = [n \in Entries |-> [h \in Handlers |-> 0]]

\* The next entries of the stream are taken, or lost on their way.
Take(S, as) ==
  /\ \A n \in S : fate[n] = "unread"
  /\ \A n \in S, m \in Entries : m < n => m \in S \/ fate[m] # "unread"
  /\ fate' = [n \in Entries |-> IF n \in S THEN as ELSE fate[n]]
  /\ UNCHANGED <<due, calls>>

Begin(n, hs) ==
  /\ fate[n] = "taken"
  /\ fate' = [fate EXCEPT ![n] = "begun"]
  /\ due' = [due EXCEPT ![n] = hs]
  /\ UNCHANGED calls

Join(n, h) ==
  /\ fate[n] = "begun" /\ h \notin due[n] /\ calls[n][h] = 0
  /\ due' = [due EXCEPT ![n] = @ \cup {h}]
  /\ UNCHANGED <<fate, calls>>

Call(n, h) ==
  /\ fate[n] = "begun" /\ h \in due[n]
  /\ due' = [due EXCEPT ![n] = @ \ {h}]
  /\ calls' = [calls EXCEPT ![n][h] = @ + 1]
  /\ UNCHANGED fate

\* The entries of A are acknowledged, those of D are given up.
Settle(A, D) ==
  /\ \A n \in A : fate[n] = "begun" /\ due[n] = {}
  /\ \A n \in D : fate[n] \in {"taken", "begun"} /\ n \notin A
  /\ fate' = [n \in Entries |-> IF n \in A THEN "acked"
                                ELSE IF n \in D THEN "dropped" ELSE fate[n]]
  /\ due' = [n \in Entries |-> IF n \in D THEN {} ELSE due[n]]
  /\ UNCHANGED calls

Next ==
  \/ \E S \in SUBSET Entries, as \in {"taken", "dropped"} : Take(S, as)
  \/ \E n \in Entries, hs \in SUBSET Handlers : Begin(n, hs)
  \/ \E n \in Entries, h \in Handlers : Join(n, h) \/ Call(n, h)
  \/ \E A, D \in SUBSET Entries : Settle(A, D)

Spec == Init /\ [][Next]_vars
=============================================================================

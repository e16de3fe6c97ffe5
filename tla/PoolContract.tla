---------------------------- MODULE PoolContract ----------------------------
(* What a pool of connections promises its users, whatever it does with the  *)
(* connections nobody uses: a connection is in the hands of one user at a    *)
(* time, never more than MaxSize are out, and until the pool is shut a user's *)
(* connection is open.                                                       *)
EXTENDS Integers, FiniteSets

CONSTANTS
  Users,       \* threads that borrow connections
  Conns,       \* connections
  MaxSize,     \* connections out at a time
  NoConn       \* no connection

VARIABLES
  lent,        \* [Users -> Conns or NoConn]
  closed,      \* connections closed so far
  shut         \* close_all has been called

vars == <<lent, closed, shut>>

Borrowers == {u \in Users : lent[u] # NoConn}

Init ==
  /\ lent = [u \in Users |-> NoConn]
  /\ closed = {}
  /\ shut = FALSE

Lend(u, c) ==
  /\ lent[u] = NoConn
  /\ \A v \in Users : lent[v] # c
  /\ c \in closed => shut
  /\ Cardinality(Borrowers) < MaxSize
  /\ lent' = [lent EXCEPT ![u] = c]
  /\ UNCHANGED shut

TakeBack(u) ==
  /\ lent[u] # NoConn
  /\ lent' = [lent EXCEPT ![u] = NoConn]
  /\ UNCHANGED shut

CloseAll == shut' = TRUE /\ UNCHANGED lent

Discard == UNCHANGED <<lent, shut>>

\* Before the pool is shut, only connections that nobody has are closed.
Closing ==
  /\ closed \subseteq closed'
  /\ shut' \/ \A u \in Users : lent'[u] \notin closed' \ closed

Next ==
  /\ Closing
  /\ \/ \E u \in Users, c \in Conns : Lend(u, c)
     \/ \E u \in Users : TakeBack(u)
     \/ CloseAll
     \/ Discard

Spec == Init /\ [][Next]_vars
=============================================================================

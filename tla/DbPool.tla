------------------------------- MODULE DbPool -------------------------------
(* BaseConnectionPool of database/connection_pool.py: the first idle         *)
(* connection young enough is borrowed, the others stay in the list for      *)
(* good; a connection goes back into the list whatever its age, and the      *)
(* permit is given back whatever happened.                                   *)
EXTENDS PoolState

Except(s, k) ==
  [i \in 1 .. Len(s) - 1 |-> IF i < k THEN s[i] ELSE s[i + 1]]

DbBorrowPooled(u) ==
  /\ user[u].at = "granted"
  /\ \E k \in DOMAIN idle :
       /\ IsFirstGood(k)
       /\ idle' = Except(idle, k)
       /\ Use(u, idle[k])
  /\ UNCHANGED <<permits, made, stale, closed, shut>>

DbBorrowNew(u) ==
  /\ user[u].at = "granted" /\ Good = {}
  /\ Cardinality(inUse) < MaxSize
  /\ \E c \in Conns \ made : made' = made \cup {c} /\ Use(u, c)
  /\ UNCHANGED <<permits, idle, stale, closed, shut>>

\* Mutant of DbBorrowFails: the permit is given back at once, and again later.
DbBorrowFailsTwice(u) ==
  /\ user[u].at = "granted" /\ Good = {}
  /\ user' = [user EXCEPT ![u].at = "returned"]
  /\ permits' = permits + 1
  /\ UNCHANGED <<idle, inUse, made, stale, closed, shut>>

\* No connection could be made: RuntimeError, or what the client raised.
DbBorrowFails(u) ==
  /\ user[u].at = "granted" /\ Good = {}
  /\ user' = [user EXCEPT ![u].at = "returned"]
  /\ UNCHANGED <<permits, idle, inUse, made, stale, closed, shut>>

DbReturn(u) ==
  /\ user[u].at = "using"
  /\ idle' = Append(idle, user[u].conn)
  /\ Returned(u)
  /\ UNCHANGED <<permits, made, stale, closed, shut>>

DbNext ==
  \/ \E u \in Users :
       TakePermit(u) \/ DbBorrowPooled(u) \/ DbBorrowNew(u) \/ DbBorrowFails(u)
         \/ DbReturn(u) \/ GivePermit(u)
  \/ \E c \in Conns : Outlive(c)
  \/ CloseAll

DbSpec == PoolInit /\ [][DbNext]_poolVars
=============================================================================

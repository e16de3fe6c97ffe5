---------------------------- MODULE ResourcePool ----------------------------
(* ConnectionPool of core/resource_manager.py: connections are borrowed from *)
(* the front and validated, the invalid ones closed on the way; a returned   *)
(* connection that is past its time is closed. When a connection cannot be   *)
(* made, the permit taken for it is never given back.                        *)
EXTENDS PoolState

\* Mutant of BorrowPooled: the connection stays in the list.
BorrowPooledAndKeep(u) ==
  /\ user[u].at = "granted"
  /\ \E k \in DOMAIN idle :
       /\ IsFirstGood(k)
       /\ idle' = SubSeq(idle, k, Len(idle))
       /\ closed' = closed \cup InList(SubSeq(idle, 1, k - 1))
       /\ Use(u, idle[k])
  /\ UNCHANGED <<permits, made, stale, shut>>

\* The first good connection; the ones before it are closed.
BorrowPooled(u) ==
  /\ user[u].at = "granted"
  /\ \E k \in DOMAIN idle :
       /\ IsFirstGood(k)
       /\ idle' = SubSeq(idle, k + 1, Len(idle))
       /\ closed' = closed \cup InList(SubSeq(idle, 1, k - 1))
       /\ Use(u, idle[k])
  /\ UNCHANGED <<permits, made, stale, shut>>

NothingGood(u) ==
  /\ user[u].at = "granted" /\ Good = {}
  /\ idle' = <<>>
  /\ closed' = closed \cup InList(idle)
  /\ UNCHANGED <<permits, stale, shut>>

BorrowNew(u) ==
  /\ NothingGood(u)
  /\ \E c \in Conns \ made : made' = made \cup {c} /\ Use(u, c)

\* RuntimeError, and a permit lost.
BorrowFails(u) ==
  /\ NothingGood(u)
  /\ user' = [user EXCEPT ![u].at = "out"]
  /\ UNCHANGED <<inUse, made>>

Return(u) ==
  /\ user[u].at = "using"
  /\ LET c == user[u].conn
     IN  IF c \in stale
         THEN closed' = closed \cup {c} /\ UNCHANGED idle
         ELSE idle' = Append(idle, c) /\ UNCHANGED closed
  /\ Returned(u)
  /\ UNCHANGED <<permits, made, stale, shut>>

ResourceNext ==
  \/ \E u \in Users :
       TakePermit(u) \/ BorrowPooled(u) \/ BorrowNew(u) \/ BorrowFails(u)
         \/ Return(u) \/ GivePermit(u)
  \/ \E c \in Conns : Outlive(c)
  \/ CloseAll

ResourceSpec == PoolInit /\ [][ResourceNext]_poolVars
=============================================================================

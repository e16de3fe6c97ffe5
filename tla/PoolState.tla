------------------------------ MODULE PoolState ------------------------------
(* What the two connection pools of the program have in common, the generic  *)
(* one (core/resource_manager.py) and the one for databases                  *)
(* (database/connection_pool.py): a semaphore, a list of idle connections, a *)
(* table of those in use, and a lock held for one operation on them.         *)
(* acquire takes a permit, then the lock; on the way out the connection goes *)
(* back under the lock and the permit after it. Between these steps other    *)
(* users move, or the pool is closed.                                        *)
EXTENDS Integers, FiniteSets, Sequences

CONSTANTS
  Users,       \* threads that borrow connections
  Conns,       \* bound: the connections that can be made
  MaxSize,     \* max_size
  MinSize,     \* min_size, made at the start
  NoConn       \* no connection

ASSUME UsersAssumption == IsFiniteSet(Users)
ASSUME SizeAssumption == MaxSize \in Nat \ {0} /\ MinSize \in 0 .. MaxSize
ASSUME NoConnAssumption == NoConn \notin Conns

VARIABLES
  permits,     \* _semaphore
  idle,        \* _pool
  inUse,       \* _in_use, by connection
  user,        \* [Users -> [at, conn]]: where a user is inside acquire
  made,        \* connections made so far
  stale,       \* connections past max_lifetime, or max_idle_time
  closed,      \* connections closed so far
  shut         \* close_all has been called

poolVars == <<permits, idle, inUse, user, made, stale, closed, shut>>

PoolTypeOK ==
  /\ permits \in 0 .. MaxSize
  /\ idle \in Seq(Conns)
  /\ inUse \in SUBSET Conns
  /\ user \in [Users -> [at : {"out", "granted", "using", "returned"},
                         conn : Conns \cup {NoConn}]]
  /\ made \in SUBSET Conns
  /\ stale \in SUBSET Conns
  /\ closed \in SUBSET Conns
  /\ shut \in BOOLEAN

InList(s) == {s[i] : i \in DOMAIN s}

\* A connection that cannot be made at the start is logged and skipped.
PoolInit ==
  /\ permits = MaxSize
  /\ \E n \in 0 .. MinSize :
       \E s \in [1 .. n -> Conns] :
         /\ \A i, j \in 1 .. n : s[i] = s[j] => i = j
         /\ idle = s /\ made = InList(s)
  /\ inUse = {}
  /\ user = [u \in Users |-> [at |-> "out", conn |-> NoConn]]
  /\ stale = {} /\ closed = {} /\ shut = FALSE

\* acquire: a permit is there in time. Without one TimeoutError is raised and
\* nothing has changed.
TakePermit(u) ==
  /\ user[u].at = "out" /\ permits > 0
  /\ permits' = permits - 1
  /\ user' = [user EXCEPT ![u].at = "granted"]
  /\ UNCHANGED <<idle, inUse, made, stale, closed, shut>>

GivePermit(u) ==
  /\ user[u].at = "returned"
  /\ permits' = permits + 1
  /\ user' = [user EXCEPT ![u].at = "out"]
  /\ UNCHANGED <<idle, inUse, made, stale, closed, shut>>

\* u leaves the lock with connection c.
Use(u, c) ==
  /\ user' = [user EXCEPT ![u] = [at |-> "using", conn |-> c]]
  /\ inUse' = inUse \cup {c}

\* u's connection is off the table; its permit is still to be given back.
Returned(u) ==
  /\ user' = [user EXCEPT ![u] = [at |-> "returned", conn |-> NoConn]]
  /\ inUse' = inUse \ {user[u].conn}

\* Positions of the idle connections that are still good, and the first.
Good == {i \in DOMAIN idle : idle[i] \notin stale}
IsFirstGood(k) == k \in Good /\ \A i \in Good : k <= i

\* close_all closes idle connections and those in use; users keep theirs.
CloseAll ==
  /\ closed' = closed \cup InList(idle) \cup inUse
  /\ idle' = <<>> /\ inUse' = {}
  /\ shut' = TRUE
  /\ UNCHANGED <<permits, user, made, stale>>

\* Time passes: connection c is past its time.
Outlive(c) ==
  /\ c \in made \ stale
  /\ stale' = stale \cup {c}
  /\ UNCHANGED <<permits, idle, inUse, user, made, closed, shut>>

-----------------------------------------------------------------------------
Contract == INSTANCE PoolContract WITH lent <- [u \in Users |-> user[u].conn]

\* Whoever waits for a permit, finds expired connections or returns one after
\* close_all: two users never have the same connection, no more than MaxSize
\* are out, and before close_all none of them is closed under its user.
PoolKeepsContract == Contract!Spec
=============================================================================

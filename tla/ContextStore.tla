---------------------------- MODULE ContextStore ----------------------------
(* ContextManager (core/context_manager.py): named items in scopes that are  *)
(* looked up one after the other, a cache of what was read, and snapshots.   *)
(* Storage and cache have a lock each. get looks into the cache first and    *)
(* takes the storage's lock afterwards; of the operations that change the    *)
(* storage, set alone makes the cache forget the name. An item is the number *)
(* of the write that made it; which of several items of one priority was     *)
(* used last is left open. EPHEMERAL is the local storage by another name.   *)
EXTENDS Integers, Sequences, FiniteSets, FiniteSetsExt

CONSTANTS
  Readers,       \* threads that call get
  Names,         \* keys of items
  Scopes,        \* the scopes, in the order of lookup
  Anywhere,      \* the place of a get without a scope
  Ranks,         \* values of ContextPriority; Critical is the lowest
  MaxItems,      \* max_items of a scope
  MaxSnapshots,  \* snapshots kept
  MaxWrites      \* bound: items made

VARIABLES
  storage,       \* [Slots -> item or NoItem]
  itemRank,      \* [Items -> priority]
  expired,       \* items past their ttl
  writes,        \* items made so far
  readCache,     \* [Places -> item or NoItem]: _read_cache
  reader,        \* [Readers -> the place a get looks at, or Outside]
  snapshots,     \* the snapshots kept, the oldest first
  unclean        \* history: names whose storage changed without set

contextVars ==
  <<storage, itemRank, expired, writes, readCache, reader, snapshots, unclean>>

NoItem == 0
Critical == 0
Outside == <<>>
Items == 1 .. MaxWrites
ScopeNames == {Scopes[i] : i \in DOMAIN Scopes}
Slots == ScopeNames \X Names
Places == (ScopeNames \cup {Anywhere}) \X Names

ASSUME ScopesAssumption == Scopes \in Seq(ScopeNames)
ASSUME WritesAssumption == MaxWrites \in Nat
ASSUME RanksAssumption == Critical \in Ranks /\ MaxSnapshots \in Nat

ContextTypeOK ==
  /\ storage \in [Slots -> Items \cup {NoItem}]
  /\ itemRank \in [Items -> Ranks]
  /\ expired \in SUBSET Items
  /\ writes \in 0 .. MaxWrites
  /\ readCache \in [Places -> Items \cup {NoItem}]
  /\ reader \in [Readers -> Places \cup {Outside}]
  /\ snapshots \in Seq([Slots -> Items \cup {NoItem}])
  /\ Len(snapshots) <= MaxSnapshots
  /\ unclean \in SUBSET Names

ContextInit ==
  /\ storage = [p \in Slots |-> NoItem]
  /\ itemRank = [i \in Items |-> Critical]
  /\ expired = {} /\ writes = 0
  /\ readCache = [p \in Places |-> NoItem]
  /\ reader = [r \in Readers |-> Outside]
  /\ snapshots = <<>>
  /\ unclean = {}

-----------------------------------------------------------------------------
Filled(S) == {p \in S : storage[p] # NoItem}
NamesIn(S) == {p[2] : p \in Filled(S)}
InScope(s) == {s} \X Names

\* The slot of the place's name, in its scope or in any, that is in S and comes
\* first in the order of lookup.
FirstSlot(place, S) ==
  LET fits == {i \in DOMAIN Scopes :
                 place[1] \in {Scopes[i], Anywhere} /\ <<Scopes[i], place[2]>> \in S}
  IN  IF fits = {} THEN Outside ELSE <<Scopes[Min(fits)], place[2]>>

IsLive(p) == storage[p] \notin expired \cup {NoItem}

Lookup(place) ==
  LET slot == FirstSlot(place, {p \in Slots : IsLive(p)})
  IN  IF slot = Outside THEN NoItem ELSE storage[slot]

\* The next item is made with priority k.
MakeItem(k) ==
  /\ writes < MaxWrites
  /\ writes' = writes + 1
  /\ itemRank' = [itemRank EXCEPT ![writes + 1] = k]

\* Storage after the slots of S were emptied.
Emptied(S) == [p \in Slots |-> IF p \in S THEN NoItem ELSE storage[p]]

-----------------------------------------------------------------------------
(* set.                                                                      *)

\* What a full scope gives up: a tenth of its items, one at least, taken from
\* the low end of the priority values, without those that are critical.
Evictions(s) ==
  LET full == Filled(InScope(s))
      tenth == Max({1, Cardinality(full) \div 10})
  IN  IF Cardinality(full) < MaxItems THEN {{}}
      ELSE {{p \in head : itemRank[storage[p]] # Critical} :
              head \in {S \in kSubset(tenth, full) :
                          \A p \in S, q \in full \ S :
                            itemRank[storage[p]] <= itemRank[storage[q]]}}

\* The cache forgets the name, in every scope and without one.
Forget(n) ==
  readCache' = [p \in Places |-> IF p[2] = n THEN NoItem ELSE readCache[p]]

\* Mutant of Set: only the cached reads of that scope are forgotten.
SetForgetsOne(s, n, k) ==
  /\ MakeItem(k)
  /\ \E out \in Evictions(s) :
       /\ storage' = [Emptied(out) EXCEPT ![<<s, n>>] = writes + 1]
       /\ unclean' = (unclean \cup NamesIn(out)) \ {n}
  /\ readCache' = [readCache EXCEPT ![<<s, n>>] = NoItem]
  /\ UNCHANGED <<expired, reader, snapshots>>

Set(s, n, k) ==
  /\ MakeItem(k)
  /\ \E out \in Evictions(s) :
       /\ storage' = [Emptied(out) EXCEPT ![<<s, n>>] = writes + 1]
       /\ unclean' = (unclean \cup NamesIn(out)) \ {n}
  /\ Forget(n)
  /\ UNCHANGED <<expired, reader, snapshots>>

-----------------------------------------------------------------------------
(* get. A hit answers at once and changes nothing.                           *)

\* A miss, or an entry older than the cache's ttl, which is deleted.
Miss(r, place) ==
  /\ reader[r] = Outside
  /\ reader' = [reader EXCEPT ![r] = place]
  /\ readCache' = [readCache EXCEPT ![place] = NoItem]
  /\ UNCHANGED <<storage, itemRank, expired, writes, snapshots, unclean>>

\* Under the storage's lock; what was found goes into the cache before it is
\* released.
Read(r) ==
  /\ reader[r] # Outside
  /\ LET item == Lookup(reader[r])
     IN  IF item = NoItem THEN UNCHANGED readCache
         ELSE readCache' = [readCache EXCEPT ![reader[r]] = item]
  /\ reader' = [reader EXCEPT ![r] = Outside]
  /\ UNCHANGED <<storage, itemRank, expired, writes, snapshots, unclean>>

-----------------------------------------------------------------------------
(* The operations the cache is not told of.                                  *)

Delete(place) ==
  /\ LET slot == FirstSlot(place, Filled(Slots))
     IN  /\ slot # Outside
         /\ storage' = Emptied({slot})
  /\ unclean' = unclean \cup {place[2]}
  /\ UNCHANGED <<itemRank, expired, writes, readCache, reader, snapshots>>

\* clear of one scope or of all, and destroy.
Clear(S) ==
  /\ Filled(S) # {}
  /\ storage' = Emptied(S)
  /\ unclean' = unclean \cup NamesIn(S)
  /\ UNCHANGED <<itemRank, expired, writes, readCache, reader, snapshots>>

\* The ttl of an item passes: get no longer finds it in the storage.
Expires(i) ==
  /\ i \in 1 .. writes \ expired
  /\ expired' = expired \cup {i}
  /\ unclean' = unclean \cup {p[2] : p \in {q \in Slots : storage[q] = i}}
  /\ UNCHANGED <<storage, itemRank, writes, readCache, reader, snapshots>>

\* The cleanup thread removes what has expired.
CleanupExpired ==
  LET gone == {p \in Filled(Slots) : storage[p] \in expired}
  IN  /\ gone # {}
      /\ storage' = Emptied(gone)
      /\ UNCHANGED <<itemRank, expired, writes, readCache, reader, snapshots,
                     unclean>>

\* A snapshot has one item for a name: that of the last scope that has one.
CreateSnapshot ==
  LET last(p) == \A q \in Slots :
                   q[2] = p[2] /\ IsLive(q) =>
                     \E i, j \in DOMAIN Scopes :
                       Scopes[i] = q[1] /\ Scopes[j] = p[1] /\ i <= j
      taken == [p \in Slots |->
                  IF IsLive(p) /\ last(p) THEN storage[p] ELSE NoItem]
      kept == Append(snapshots, taken)
  IN  /\ snapshots' = IF Len(kept) > MaxSnapshots THEN Tail(kept) ELSE kept
      /\ UNCHANGED <<storage, itemRank, expired, writes, readCache, reader,
                     unclean>>

\* Storage that takes in what f has, after a clear unless merge.
TakenIn(f, merge) ==
  [p \in Slots |-> IF f[p] # NoItem THEN f[p]
                   ELSE IF merge THEN storage[p] ELSE NoItem]

Changed(f) == {p[2] : p \in {q \in Slots : f[q] # storage[q]}}

RestoreSnapshot(i, merge) ==
  LET after == TakenIn(snapshots[i], merge)
  IN  /\ storage' = after
      /\ unclean' = unclean \cup Changed(after)
      /\ UNCHANGED <<itemRank, expired, writes, readCache, reader, snapshots>>

\* import_context of one item, with a new timestamp and no look at max_items.
ImportContext(p, k, merge) ==
  LET after == TakenIn([q \in Slots |-> IF q = p THEN writes + 1 ELSE NoItem],
                       merge)
  IN  /\ MakeItem(k)
      /\ storage' = after
      /\ unclean' = unclean \cup Changed(after)
      /\ UNCHANGED <<expired, readCache, reader, snapshots>>

ContextNext ==
  \/ \E s \in ScopeNames, n \in Names, k \in Ranks : Set(s, n, k)
  \/ \E r \in Readers, place \in Places : Miss(r, place)
  \/ \E r \in Readers : Read(r)
  \/ \E place \in Places : Delete(place)
  \/ \E s \in ScopeNames : Clear(InScope(s))
  \/ Clear(Slots)
  \/ \E i \in Items : Expires(i)
  \/ CleanupExpired
  \/ CreateSnapshot
  \/ \E i \in DOMAIN snapshots, merge \in BOOLEAN : RestoreSnapshot(i, merge)
  \/ \E p \in Slots, k \in Ranks, merge \in BOOLEAN : ImportContext(p, k, merge)

ContextSpec == ContextInit /\ [][ContextNext]_contextVars

-----------------------------------------------------------------------------
\* Set against get: whatever reads are under way when an item is set, in this
\* scope or in one looked up before or after it, the cache never holds an
\* older item than a look into the storage would find. This holds for a name
\* until another operation changes it, and again after its next set.
CachedIsCurrent ==
  \A place \in Places :
    place[2] \in unclean \/ readCache[place] \in {NoItem, Lookup(place)}
=============================================================================

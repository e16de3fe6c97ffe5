--------------------------- MODULE ServiceProofs ---------------------------
(* What the agents share. The list and the dictionary of the router's        *)
(* LRUCache agree, for any number of threads and keys and every capacity;    *)
(* the read cache of ContextManager never holds an older item than the       *)
(* storage, for any number of readers, scopes and names; both pools of       *)
(* connections keep the contract of PoolContract, for every number of users, *)
(* every size and however many connections can be made.                      *)
EXTENDS MCServices, ListLemmas, SequenceTheorems

-----------------------------------------------------------------------------
(* The router's cache.                                                       *)

\* Each key stands once in the list, and the list holds the dictionary's keys.
LruInv ==
  /\ LlmTypeOK
  /\ Distinct(lru)
  /\ ToSet(lru) = Cached
  /\ Cardinality(Cached) <= Capacity
  /\ old \subseteq Cached
  /\ \A c \in Callers : call[c].at = "missed" => call[c].key \in Keys

\* What an operation of the cache keeps.
CacheFits ==
  /\ held \in [Keys -> Texts \cup {Nothing}] /\ lru \in Seq(Keys)
  /\ old \in SUBSET Keys
  /\ Distinct(lru) /\ ToSet(lru) = Cached
  /\ Cardinality(Cached) <= Capacity /\ old \subseteq Cached

LEMMA TouchFits ==
  ASSUME CacheFits, NEW k \in Cached, Touch(k)
  PROVE  CacheFits'
<1>1. lru' \in Seq(Keys) /\ Distinct(lru') /\ ToSet(lru') = ToSet(lru)
  BY TouchedList DEF CacheFits, Touch, Without
<1>2. held' = held /\ old' = old /\ Cached' = Cached
  BY DEF Touch, Cached
<1> QED BY <1>1, <1>2 DEF CacheFits

LEMMA ExpireFits ==
  ASSUME CacheFits, NEW k \in Keys, Expire(k)
  PROVE  CacheFits'
<1>1. lru' \in Seq(Keys) /\ Distinct(lru') /\ ToSet(lru') = ToSet(lru) \ {k}
  BY RemoveDistinct DEF CacheFits, Without, Expire
<1>2. Cached' = Cached \ {k} /\ held' \in [Keys -> Texts \cup {Nothing}]
  BY DEF CacheFits, Expire, Cached
<1>3. IsFiniteSet(Cached)
  BY DistinctLength DEF CacheFits
<1>4. /\ Cardinality(Cached') <= Cardinality(Cached)
      /\ Cardinality(Cached') \in Nat /\ Cardinality(Cached) \in Nat
  BY <1>2, <1>3, FS_RemoveElement, FS_CardinalityType
<1>5. old' = old \ {k}
  BY DEF Expire
<1> QED BY <1>1, <1>2, <1>4, <1>5, CapacityAssumption DEF CacheFits

\* put drops a key only when the list has one, and then the dictionary has
\* room for one more.
LEMMA PutFits ==
  ASSUME CacheFits, NEW k \in Keys, NEW text \in Texts, Put(k, text)
  PROVE  CacheFits'
<1> DEFINE out == Dropped(k, Without(k))
<1>1. /\ held' = [x \in Keys |-> IF x = k THEN text
                                 ELSE IF x \in out THEN Nothing ELSE held[x]]
      /\ lru' = Append(IF out = {} THEN Without(k) ELSE Tail(Without(k)), k)
      /\ old' = old \ (out \cup {k})
  BY DEF Put
<1>2. /\ lru \in Seq(Keys) /\ Distinct(lru) /\ ToSet(lru) = Cached
      /\ Cardinality(ToSet(lru)) <= Capacity
  BY DEF CacheFits
<1>3. LET rest == RemoveFirst(lru, k)
          gone == IF Cardinality(ToSet(lru) \ {k}) >= Capacity
                  THEN {Head(rest)} ELSE {}
          t == Append(IF gone = {} THEN rest ELSE Tail(rest), k)
      IN  /\ t \in Seq(Keys) /\ Distinct(t)
          /\ ToSet(t) = ((ToSet(lru) \ {k}) \ gone) \cup {k}
          /\ Cardinality(ToSet(t)) <= Capacity
  BY <1>2, PushedList, CapacityAssumption
<1>4. /\ lru' \in Seq(Keys) /\ Distinct(lru')
      /\ ToSet(lru') = ((Cached \ {k}) \ out) \cup {k}
      /\ Cardinality(ToSet(lru')) <= Capacity
  BY <1>1, <1>2, <1>3 DEF Dropped, Without
<1>5. text # Nothing
  BY DEF Texts, Nothing
<1>6. Cached' = ((Cached \ {k}) \ out) \cup {k}
  BY <1>1, <1>5 DEF Cached, CacheFits
<1>7. held' \in [Keys -> Texts \cup {Nothing}]
  BY <1>1 DEF CacheFits
<1> QED BY <1>1, <1>4, <1>6, <1>7 DEF CacheFits

LEMMA CacheFitsFacts == LruInv => CacheFits
BY DEF LruInv, LlmTypeOK, CacheFits

\* The part of the invariant that is not the cache's.
LEMMA LruInvParts ==
  ASSUME LruInv, CacheFits', written' \in [Keys -> 0 .. MaxTexts],
         NEW c \in Callers, NEW at \in {"idle", "missed", "answered"},
         NEW k \in Keys \cup {Nothing}, NEW answer \in Texts \cup {Nothing},
         call' = [call EXCEPT ![c] = [at |-> at, key |-> k, answer |-> answer]],
         at = "missed" => k \in Keys
  PROVE  LruInv'
<1> DEFINE Calls == [at : {"idle", "missed", "answered"},
                     key : Keys \cup {Nothing}, answer : Texts \cup {Nothing}]
<1>1. [at |-> at, key |-> k, answer |-> answer] \in Calls
  OBVIOUS
<1>2. call \in [Callers -> Calls]
  BY DEF LruInv, LlmTypeOK
<1>3. call' \in [Callers -> Calls]
  <2> HIDE DEF Calls
  <2> QED BY <1>1, <1>2
<1>4. \A d \in Callers : call'[d].at = "missed" => call'[d].key \in Keys
  BY <1>2 DEF LruInv
<1>5. LlmTypeOK'
  BY <1>3 DEF CacheFits, LlmTypeOK
<1> QED BY <1>4, <1>5 DEF LruInv, CacheFits

LEMMA LlmStep ==
  ASSUME LruInv, [LlmNext]_llmVars
  PROVE  LruInv'
<1> USE CacheFitsFacts
<1>1. ASSUME NEW c \in Callers, NEW k \in Keys, Ask(c, k) PROVE LruInv'
  <2>1. written' \in [Keys -> 0 .. MaxTexts]
    BY <1>1 DEF Ask, LruInv, LlmTypeOK
  <2>2. CASE k \in Cached \ old /\ Touch(k) /\ Answered(c, k, held[k])
    <3>1. CacheFits'
      BY <2>2, TouchFits
    <3>2. held[k] \in Texts \cup {Nothing}
      BY DEF CacheFits
    <3> QED BY <2>1, <2>2, <3>1, <3>2, LruInvParts DEF Answered
  <2>3. CASE /\ k \notin Cached \ old
             /\ IF k \in Cached THEN Expire(k) ELSE UNCHANGED <<held, lru, old>>
             /\ call' = [call EXCEPT ![c] = [at |-> "missed", key |-> k,
                                             answer |-> Nothing]]
    <3>1. UNCHANGED <<held, lru, old>> => CacheFits'
      BY DEF CacheFits, Cached
    <3>2. CacheFits'
      BY <2>3, <3>1, ExpireFits
    <3> QED BY <2>1, <2>3, <3>2, LruInvParts
  <2> QED BY <1>1, <2>2, <2>3 DEF Ask
<1>2. ASSUME NEW c \in Callers, ClientWrites(c) PROVE LruInv'
  <2> DEFINE k == call[c].key
             text == <<k, written[k] + 1>>
  <2>1. /\ k \in Keys /\ written[k] < MaxTexts
        /\ written' = [written EXCEPT ![k] = @ + 1]
        /\ Put(k, text) /\ Answered(c, k, text)
    BY <1>2 DEF ClientWrites, LruInv
  <2>2. /\ written \in [Keys -> 0 .. MaxTexts]
    BY DEF LruInv, LlmTypeOK
  <2>3. written[k] + 1 \in 0 .. MaxTexts
    <3> HIDE DEF k
    <3> QED BY <2>1, <2>2, MaxTextsAssumption
  <2>4. text \in Texts /\ written' \in [Keys -> 0 .. MaxTexts]
    <3> HIDE DEF k
    <3> QED BY <2>1, <2>2, <2>3 DEF Texts
  <2>5. CacheFits'
    BY <2>1, <2>4, PutFits
  <2> HIDE DEF k, text
  <2> QED BY <2>1, <2>4, <2>5, LruInvParts DEF Answered
<1>3. ASSUME NEW c \in Callers, ClientAnswersBlank(c) PROVE LruInv'
  <2> DEFINE k == call[c].key
             text == Blank(k)
  <2>1. /\ k \in Keys /\ UNCHANGED written
        /\ Put(k, text) /\ Answered(c, k, text)
    BY <1>3 DEF ClientAnswersBlank, LruInv
  <2>2. text \in Texts /\ written' \in [Keys -> 0 .. MaxTexts]
    BY <2>1, MaxTextsAssumption DEF Texts, Blank, LruInv, LlmTypeOK
  <2>3. CacheFits'
    BY <2>1, <2>2, PutFits
  <2> HIDE DEF k, text
  <2> QED BY <2>1, <2>2, <2>3, LruInvParts DEF Answered
<1>4. ASSUME NEW c \in Callers, ClientFails(c) \/ Leave(c) PROVE LruInv'
  <2>1. UNCHANGED <<held, lru, old, written>>
    BY <1>4 DEF ClientFails, Leave
  <2>2. CacheFits' /\ written' \in [Keys -> 0 .. MaxTexts]
    BY <2>1 DEF CacheFits, Cached, LruInv, LlmTypeOK
  <2>3. CASE ClientFails(c)
    <3>1. call[c].key \in Keys
      BY <2>3 DEF ClientFails, LruInv
    <3> QED BY <2>2, <2>3, <3>1, LruInvParts DEF ClientFails, Answered
  <2>4. CASE Leave(c)
    BY <2>2, <2>4, LruInvParts DEF Leave, Idle
  <2> QED BY <1>4, <2>3, <2>4
<1>5. ASSUME NEW S \in SUBSET Keys, Age(S) PROVE LruInv'
  <2>1. UNCHANGED <<held, lru, call, written>> /\ Cached' = Cached
        /\ old' = old \cup S /\ S \subseteq Cached
    BY <1>5 DEF Age, Cached
  <2>2. Cached \subseteq Keys
    BY DEF Cached
  <2> QED BY <2>1, <2>2 DEF LruInv, LlmTypeOK
<1>6. CASE UNCHANGED llmVars
  BY <1>6 DEF llmVars, LruInv, LlmTypeOK, Cached
<1> QED BY <1>1, <1>2, <1>3, <1>4, <1>5, <1>6 DEF LlmNext, ClientReturns

LEMMA LlmInitial == LlmInit => LruInv
<1> SUFFICES ASSUME LlmInit PROVE LruInv
  OBVIOUS
<1>1. Cached = {} /\ lru = <<>> /\ ToSet(lru) = {}
  BY DEF LlmInit, Cached, ToSet
<1>2. Distinct(lru)
  BY <1>1 DEF Distinct
<1>3. Cardinality(Cached) <= Capacity
  BY <1>1, FS_EmptySet, CapacityAssumption
<1>4. LlmTypeOK
  BY MaxTextsAssumption DEF LlmInit, LlmTypeOK, Idle
<1> QED BY <1>1, <1>2, <1>3, <1>4 DEF LlmInit, LruInv, Idle

\* The router's cache and its callers keep their types.
THEOREM LlmTypes == LlmSpec => []LlmTypeOK
<1>1. LruInv => LlmTypeOK
  BY DEF LruInv
<1> QED BY <1>1, LlmInitial, LlmStep, PTL DEF LlmSpec

\* Dictionary and list of the cache agree whatever the threads interleave: each
\* cached key stands once in the list, and put never finds the dictionary full
\* and the list empty, where its loop would not end.
THEOREM CacheAgreesHolds == LlmSpec => []CacheAgrees
<1>1. LruInv => CacheAgrees
  <2> SUFFICES ASSUME LruInv PROVE CacheAgrees
    OBVIOUS
  <2>1. Len(lru) = Cardinality(Cached)
    BY DistinctLength DEF LruInv, LlmTypeOK
  <2> QED BY <2>1 DEF LruInv, CacheAgrees
<1> QED BY <1>1, LlmInitial, LlmStep, PTL DEF LlmSpec

-----------------------------------------------------------------------------
(* Looking a place up.                                                       *)

LEMMA ScopesFacts == DOMAIN Scopes \in SUBSET Nat
BY ScopesAssumption

\* The slots of a place that hold a live item.
LiveAt(place) ==
  {i \in DOMAIN Scopes :
     place[1] \in {Scopes[i], Anywhere} /\ IsLive(<<Scopes[i], place[2]>>)}

LEMMA LookupFacts ==
  ASSUME NEW place \in Places
  PROVE  /\ Lookup(place) = IF LiveAt(place) = {} THEN NoItem
                            ELSE storage[<<Scopes[Min(LiveAt(place))], place[2]>>]
         /\ Lookup(place)' = IF LiveAt(place)' = {} THEN NoItem
                             ELSE storage'[<<Scopes[Min(LiveAt(place)')], place[2]>>]
<1>1. \A x, y : <<x, y>> # Outside
  BY DEF Outside
<1>2. \A i \in DOMAIN Scopes : <<Scopes[i], place[2]>> \in Slots
  BY DEF Slots, Places, ScopeNames
<1>3. LiveAt(place) =
        {i \in DOMAIN Scopes :
           /\ place[1] \in {Scopes[i], Anywhere}
           /\ <<Scopes[i], place[2]>> \in {p \in Slots : IsLive(p)}}
  BY <1>2 DEF LiveAt
<1>4. LiveAt(place)' =
        {i \in DOMAIN Scopes :
           /\ place[1] \in {Scopes[i], Anywhere}
           /\ <<Scopes[i], place[2]>> \in {p \in Slots : IsLive(p)'}}
  BY <1>2 DEF LiveAt
<1>5. Lookup(place) = IF LiveAt(place) = {} THEN NoItem
                      ELSE storage[<<Scopes[Min(LiveAt(place))], place[2]>>]
  BY <1>1, <1>3 DEF Lookup, FirstSlot
<1>6. Lookup(place)' = IF LiveAt(place)' = {} THEN NoItem
                       ELSE storage'[<<Scopes[Min(LiveAt(place)')], place[2]>>]
  BY <1>1, <1>4 DEF Lookup, FirstSlot
<1> QED BY <1>5, <1>6

\* A look finds the same item as before when the live items of its name are
\* the same.
LEMMA LookupSame ==
  ASSUME NEW place \in Places,
         \A s \in ScopeNames :
           /\ IsLive(<<s, place[2]>>)' <=> IsLive(<<s, place[2]>>)
           /\ IsLive(<<s, place[2]>>) =>
                storage'[<<s, place[2]>>] = storage[<<s, place[2]>>]
  PROVE  Lookup(place)' = Lookup(place)
<1>1. LiveAt(place)' = LiveAt(place)
  BY DEF LiveAt, ScopeNames
<1>2. Lookup(place)' = IF LiveAt(place)' = {} THEN NoItem
                       ELSE storage'[<<Scopes[Min(LiveAt(place)')], place[2]>>]
  BY LookupFacts
<1>3. CASE LiveAt(place) = {}
  BY <1>1, <1>2, <1>3, LookupFacts
<1>4. CASE LiveAt(place) # {}
  <2> DEFINE i == Min(LiveAt(place))
  <2>1. i \in LiveAt(place)
    BY <1>4, MinFacts, ScopesFacts DEF LiveAt
  <2>2. /\ i \in DOMAIN Scopes
        /\ IsLive(<<Scopes[i], place[2]>>)
    BY <2>1 DEF LiveAt
  <2>3. storage'[<<Scopes[i], place[2]>>] = storage[<<Scopes[i], place[2]>>]
    BY <2>2 DEF ScopeNames
  <2> QED BY <1>1, <1>2, <1>4, <2>3, LookupFacts
<1> QED BY <1>3, <1>4

-----------------------------------------------------------------------------
(* The cache.                                                                *)

CacheIsFunction == readCache = [place \in Places |-> readCache[place]]

CacheInv == CacheIsFunction /\ CachedIsCurrent

\* A step that leaves the cache alone, tells of the names it touched.
LEMMA TouchingKeeps ==
  ASSUME CachedIsCurrent, UNCHANGED readCache, unclean \subseteq unclean',
         \A place \in Places : place[2] \notin unclean' =>
           \A s \in ScopeNames :
             /\ IsLive(<<s, place[2]>>)' <=> IsLive(<<s, place[2]>>)
             /\ IsLive(<<s, place[2]>>) =>
                  storage'[<<s, place[2]>>] = storage[<<s, place[2]>>]
  PROVE  CachedIsCurrent'
<1> SUFFICES ASSUME NEW place \in Places, place[2] \notin unclean'
             PROVE  readCache'[place] \in {NoItem, Lookup(place)'}
  BY DEF CachedIsCurrent
<1>1. Lookup(place)' = Lookup(place)
  BY LookupSame
<1> QED BY <1>1 DEF CachedIsCurrent

\* The storage gives up the slots of S and tells of their names.
LEMMA EmptyingKeeps ==
  ASSUME CachedIsCurrent, NEW S,
         storage' = Emptied(S), UNCHANGED <<readCache, expired>>,
         unclean \subseteq unclean', NamesIn(S) \subseteq unclean'
  PROVE  CachedIsCurrent'
<1>1. ASSUME NEW place \in Places, place[2] \notin unclean', NEW s \in ScopeNames
      PROVE  storage'[<<s, place[2]>>] = storage[<<s, place[2]>>]
  <2>1. <<s, place[2]>> \in Slots
    BY DEF Places, Slots
  <2>2. CASE <<s, place[2]>> \in S
    <3>1. storage[<<s, place[2]>>] = NoItem
      BY <1>1, <2>2 DEF NamesIn, Filled
    <3> QED BY <2>1, <2>2, <3>1 DEF Emptied
  <2>3. CASE <<s, place[2]>> \notin S
    BY <2>1, <2>3 DEF Emptied
  <2> QED BY <2>2, <2>3
<1>2. \A p : storage'[p] = storage[p] => (IsLive(p)' <=> IsLive(p))
  BY DEF IsLive
<1> QED BY <1>1, <1>2, TouchingKeeps

LEMMA SetKeeps ==
  ASSUME CacheInv, NEW s \in ScopeNames, NEW n \in Names, NEW k \in Ranks, Set(s, n, k)
  PROVE  CacheInv'
<1>1. PICK out \in Evictions(s) :
        /\ storage' = [Emptied(out) EXCEPT ![<<s, n>>] = writes + 1]
        /\ unclean' = (unclean \cup NamesIn(out)) \ {n}
  BY DEF Set
<1>2. /\ readCache' = [p \in Places |-> IF p[2] = n THEN NoItem ELSE readCache[p]]
      /\ expired' = expired
  BY DEF Set, Forget
<1>3. CacheIsFunction'
  BY <1>2 DEF CacheIsFunction
<1>4. ASSUME NEW place \in Places, place[2] \notin unclean'
      PROVE  readCache'[place] \in {NoItem, Lookup(place)'}
  <2>1. CASE place[2] = n
    BY <1>2, <2>1
  <2>2. CASE place[2] # n
    <3>1. place[2] \notin unclean /\ place[2] \notin NamesIn(out)
      BY <1>1, <1>4, <2>2
    <3>2. ASSUME NEW t \in ScopeNames
          PROVE  storage'[<<t, place[2]>>] = storage[<<t, place[2]>>]
      <4>1. <<t, place[2]>> \in Slots /\ <<t, place[2]>> # <<s, n>>
        BY <2>2 DEF Places, Slots
      <4>2. storage'[<<t, place[2]>>] = Emptied(out)[<<t, place[2]>>]
        BY <1>1, <4>1 DEF Emptied
      <4>3. <<t, place[2]>> \in out => storage[<<t, place[2]>>] = NoItem
        BY <3>1 DEF NamesIn, Filled
      <4> QED BY <4>1, <4>2, <4>3 DEF Emptied
    <3>3. \A p : storage'[p] = storage[p] => (IsLive(p)' <=> IsLive(p))
      BY <1>2 DEF IsLive
    <3>4. Lookup(place)' = Lookup(place)
      BY <3>2, <3>3, LookupSame
    <3> QED BY <1>2, <2>2, <3>1, <3>4 DEF CacheInv, CachedIsCurrent
  <2> QED BY <2>1, <2>2
<1> QED BY <1>3, <1>4 DEF CacheInv, CachedIsCurrent

\* A get: nothing moves in the storage, one place of the cache changes.
LEMMA GetKeeps ==
  ASSUME CacheInv, NEW r \in Readers,
         Read(r) \/ \E place \in Places : Miss(r, place)
  PROVE  CacheInv'
<1>1. UNCHANGED <<storage, expired, unclean>>
  BY DEF Read, Miss
<1>2. \A place \in Places : Lookup(place)' = Lookup(place)
  BY <1>1, LookupSame DEF IsLive
<1>3. \/ readCache' = readCache
      \/ \E place : \E item \in {NoItem, Lookup(place)} :
           readCache' = [readCache EXCEPT ![place] = item]
  BY DEF Read, Miss
<1>4. CASE readCache' = readCache
  BY <1>1, <1>2, <1>4 DEF CacheInv, CacheIsFunction, CachedIsCurrent
<1>5. ASSUME NEW place, NEW item \in {NoItem, Lookup(place)},
             readCache' = [readCache EXCEPT ![place] = item]
      PROVE  CacheInv'
  <2>1. CacheIsFunction'
    BY <1>5 DEF CacheInv, CacheIsFunction
  <2>2. \A p \in Places : readCache'[p] = IF p = place THEN item ELSE readCache[p]
    BY <1>5 DEF CacheInv, CacheIsFunction
  <2> QED BY <1>1, <1>2, <2>1, <2>2 DEF CacheInv, CachedIsCurrent
<1> QED BY <1>3, <1>4, <1>5

\* The slot a look comes to bears the name looked for.
LEMMA FirstSlotFacts ==
  ASSUME NEW place, FirstSlot(place, Filled(Slots)) # Outside
  PROVE  FirstSlot(place, Filled(Slots))[2] = place[2]
BY DEF FirstSlot

\* delete, clear, destroy and the cleanup thread.
LEMMA RemovingKeeps ==
  ASSUME CachedIsCurrent,
         \/ \E place \in Places : Delete(place)
         \/ \E S : Clear(S)
         \/ CleanupExpired
  PROVE  CachedIsCurrent'
<1>1. ASSUME NEW place \in Places, Delete(place) PROVE CachedIsCurrent'
  <2> DEFINE slot == FirstSlot(place, Filled(Slots))
  <2>1. /\ slot # Outside /\ storage' = Emptied({slot})
        /\ unclean' = unclean \cup {place[2]}
        /\ UNCHANGED <<readCache, expired>>
    BY <1>1 DEF Delete
  <2>2. NamesIn({slot}) \subseteq {place[2]}
    BY <2>1, FirstSlotFacts DEF NamesIn, Filled
  <2> HIDE DEF slot
  <2> QED BY <2>1, <2>2, EmptyingKeeps
<1>2. ASSUME NEW S, Clear(S) PROVE CachedIsCurrent'
  BY <1>2, EmptyingKeeps DEF Clear
<1>3. CASE CleanupExpired
  <2> DEFINE gone == {p \in Filled(Slots) : storage[p] \in expired}
  <2>1. /\ storage' = Emptied(gone)
        /\ UNCHANGED <<readCache, expired, unclean>>
    BY <1>3 DEF CleanupExpired
  <2>2. \A p \in Slots : storage'[p] = IF p \in gone THEN NoItem ELSE storage[p]
    BY <2>1 DEF Emptied
  <2>3. \A p \in Slots :
          (IsLive(p)' <=> IsLive(p)) /\ (IsLive(p) => storage'[p] = storage[p])
    BY <2>1, <2>2 DEF IsLive
  <2>4. \A place \in Places, s \in ScopeNames : <<s, place[2]>> \in Slots
    BY DEF Places, Slots
  <2> QED BY <2>1, <2>3, <2>4, TouchingKeeps
<1> QED BY <1>1, <1>2, <1>3

\* The ttl of an item passes.
LEMMA ExpiresKeeps ==
  ASSUME CachedIsCurrent, NEW i \in Items, Expires(i)
  PROVE  CachedIsCurrent'
<1>1. /\ expired' = expired \cup {i} /\ UNCHANGED <<storage, readCache>>
      /\ unclean' = unclean \cup {p[2] : p \in {q \in Slots : storage[q] = i}}
  BY DEF Expires
<1>2. ASSUME NEW place \in Places, place[2] \notin unclean', NEW s \in ScopeNames
      PROVE  IsLive(<<s, place[2]>>)' <=> IsLive(<<s, place[2]>>)
  <2>1. <<s, place[2]>> \in Slots
    BY DEF Places, Slots
  <2>2. storage[<<s, place[2]>>] # i
    BY <1>1, <1>2, <2>1
  <2> QED BY <1>1, <2>2 DEF IsLive
<1> QED BY <1>1, <1>2, TouchingKeeps

\* restore_snapshot and import_context: the names whose slots change are told.
LEMMA ReplacingKeeps ==
  ASSUME CachedIsCurrent, NEW f, NEW merge,
         storage' = TakenIn(f, merge), unclean' = unclean \cup Changed(storage'),
         UNCHANGED <<readCache, expired>>
  PROVE  CachedIsCurrent'
<1>1. ASSUME NEW place \in Places, place[2] \notin unclean', NEW s \in ScopeNames
      PROVE  storage'[<<s, place[2]>>] = storage[<<s, place[2]>>]
  <2>1. <<s, place[2]>> \in Slots
    BY DEF Places, Slots
  <2> QED BY <1>1, <2>1 DEF Changed
<1>2. \A p : storage'[p] = storage[p] => (IsLive(p)' <=> IsLive(p))
  BY DEF IsLive
<1> QED BY <1>1, <1>2, TouchingKeeps

LEMMA ContextStep ==
  ASSUME CacheInv, [ContextNext]_contextVars
  PROVE  CacheInv'
<1>1. ASSUME NEW s \in ScopeNames, NEW n \in Names, NEW k \in Ranks, Set(s, n, k)
      PROVE  CacheInv'
  BY <1>1, SetKeeps
<1>2. ASSUME NEW r \in Readers, Read(r) \/ \E place \in Places : Miss(r, place)
      PROVE  CacheInv'
  BY <1>2, GetKeeps
<1>3. CASE \/ \E place \in Places : Delete(place)
           \/ \E s \in ScopeNames : Clear(InScope(s))
           \/ Clear(Slots) \/ CleanupExpired
  <2>1. UNCHANGED readCache BY <1>3 DEF Delete, Clear, CleanupExpired
  <2> QED BY <1>3, <2>1, RemovingKeeps DEF CacheInv, CacheIsFunction
<1>4. ASSUME NEW i \in Items, Expires(i) PROVE CacheInv'
  <2>1. UNCHANGED readCache BY <1>4 DEF Expires
  <2> QED BY <1>4, <2>1, ExpiresKeeps DEF CacheInv, CacheIsFunction
<1>5. ASSUME NEW i \in DOMAIN snapshots, NEW merge \in BOOLEAN,
             RestoreSnapshot(i, merge)
      PROVE  CacheInv'
  <2>1. /\ storage' = TakenIn(snapshots[i], merge)
        /\ unclean' = unclean \cup Changed(storage')
        /\ UNCHANGED <<readCache, expired>>
    BY <1>5 DEF RestoreSnapshot
  <2> QED BY <2>1, ReplacingKeeps DEF CacheInv, CacheIsFunction
<1>6. ASSUME NEW p \in Slots, NEW k \in Ranks, NEW merge \in BOOLEAN,
             ImportContext(p, k, merge)
      PROVE  CacheInv'
  <2> DEFINE f == [q \in Slots |-> IF q = p THEN writes + 1 ELSE NoItem]
  <2>1. /\ storage' = TakenIn(f, merge)
        /\ unclean' = unclean \cup Changed(storage')
        /\ UNCHANGED <<readCache, expired>>
    BY <1>6 DEF ImportContext
  <2> HIDE DEF f
  <2> QED BY <2>1, ReplacingKeeps DEF CacheInv, CacheIsFunction
<1>7. CASE CreateSnapshot \/ UNCHANGED contextVars
  <2>1. UNCHANGED <<storage, expired, readCache, unclean>>
    BY <1>7 DEF CreateSnapshot, contextVars
  <2>2. \A p : IsLive(p)' <=> IsLive(p)
    BY <2>1 DEF IsLive
  <2>3. CachedIsCurrent'
    BY <2>1, <2>2, TouchingKeeps DEF CacheInv
  <2> QED BY <2>1, <2>3 DEF CacheInv, CacheIsFunction
<1> QED BY <1>1, <1>2, <1>3, <1>4, <1>5, <1>6, <1>7 DEF ContextNext

\* Whatever reads are under way when an item is set, in any scope, the cache
\* never holds an older item than a look into the storage would find.
THEOREM CachedIsCurrentHolds == ContextSpec => []CachedIsCurrent
<1>1. ContextInit => CacheInv
  BY DEF ContextInit, CacheInv, CacheIsFunction, CachedIsCurrent
<1>2. CacheInv /\ [ContextNext]_contextVars => CacheInv'
  BY ContextStep
<1>3. CacheInv => CachedIsCurrent
  BY DEF CacheInv
<1> QED BY <1>1, <1>2, <1>3, PTL DEF ContextSpec

-----------------------------------------------------------------------------
(* The types of the context store.                                           *)

Contents == [Slots -> Items \cup {NoItem}]

LEMMA SlotFacts ==
  /\ \A p \in Slots : p[2] \in Names
  /\ \A p \in Places : p[2] \in Names
  /\ \A s \in ScopeNames, n \in Names : <<s, n>> \in Slots /\ <<s, n>> \in Places
  /\ \A s \in ScopeNames : InScope(s) \subseteq Slots
  /\ Slots \subseteq Places
  /\ Outside \notin Places
BY DEF Slots, Places, InScope, Outside

\* What is emptied or taken in keeps the storage's type, and the names told are
\* names.
LEMMA ContentsFacts ==
  ASSUME ContextTypeOK
  PROVE  /\ \A S : Emptied(S) \in Contents
         /\ \A S \in SUBSET Slots : NamesIn(S) \subseteq Names
         /\ \A f : Changed(f) \subseteq Names
         /\ \A f \in Contents : \A m : TakenIn(f, m) \in Contents
<1>1. \A p \in Slots : storage[p] \in Items \cup {NoItem}
  BY DEF ContextTypeOK
<1>2. \A S : Emptied(S) \in Contents
  BY <1>1 DEF Emptied, Contents
<1>3. \A S \in SUBSET Slots : NamesIn(S) \subseteq Names
  BY SlotFacts DEF NamesIn, Filled
<1>4. \A f : Changed(f) \subseteq Names
  BY SlotFacts DEF Changed
<1>5. \A f \in Contents : \A m : TakenIn(f, m) \in Contents
  BY <1>1 DEF TakenIn, Contents
<1> QED BY <1>2, <1>3, <1>4, <1>5

LEMMA MadeItem ==
  ASSUME ContextTypeOK, NEW k \in Ranks, MakeItem(k)
  PROVE  /\ writes' \in 0 .. MaxWrites /\ writes + 1 \in Items
         /\ itemRank' \in [Items -> Ranks]
BY WritesAssumption DEF ContextTypeOK, MakeItem, Items

\* What a full scope gives up is of that scope.
LEMMA EvictedSlots ==
  ASSUME NEW s \in ScopeNames, NEW out \in Evictions(s)
  PROVE  out \subseteq Slots
<1> DEFINE full == Filled(InScope(s))
<1>1. full \subseteq Slots
  BY SlotFacts DEF Filled
<1>2. out = {} \/ \E head \in SUBSET full : out \subseteq head
  BY DEF Evictions, kSubset
<1> QED BY <1>1, <1>2

LEMMA FoundItem ==
  ASSUME ContextTypeOK, NEW place \in Places
  PROVE  Lookup(place) \in Items \cup {NoItem}
<1>1. CASE LiveAt(place) = {}
  BY <1>1, LookupFacts
<1>2. CASE LiveAt(place) # {}
  <2>1. Min(LiveAt(place)) \in LiveAt(place)
    BY <1>2, MinFacts, ScopesFacts DEF LiveAt
  <2>2. PICK i \in DOMAIN Scopes : i = Min(LiveAt(place))
    BY <2>1 DEF LiveAt
  <2>3. <<Scopes[i], place[2]>> \in Slots
    BY SlotFacts DEF ScopeNames
  <2>4. Lookup(place) = storage[<<Scopes[i], place[2]>>]
    BY <1>2, <2>2, LookupFacts
  <2> QED BY <2>3, <2>4 DEF ContextTypeOK
<1> QED BY <1>1, <1>2

LEMMA GetTypes ==
  ASSUME ContextTypeOK, NEW r \in Readers, NEW place \in Places,
         Read(r) \/ Miss(r, place)
  PROVE  ContextTypeOK'
<1>1. UNCHANGED <<storage, itemRank, expired, writes, snapshots, unclean>>
  BY DEF Read, Miss
<1>2. reader' \in [Readers -> Places \cup {Outside}]
  BY DEF Read, Miss, ContextTypeOK
<1>3. readCache' \in [Places -> Items \cup {NoItem}]
  <2>1. CASE Miss(r, place)
    BY <2>1 DEF Miss, ContextTypeOK
  <2>2. CASE Read(r)
    <3>1. reader[r] \in Places
      BY <2>2 DEF Read, ContextTypeOK
    <3>2. Lookup(reader[r]) \in Items \cup {NoItem}
      BY <3>1, FoundItem
    <3> QED BY <2>2, <3>1, <3>2 DEF Read, ContextTypeOK
  <2> QED BY <2>1, <2>2
<1> QED BY <1>1, <1>2, <1>3 DEF ContextTypeOK

LEMMA SetTypes ==
  ASSUME ContextTypeOK, NEW s \in ScopeNames, NEW n \in Names, NEW k \in Ranks,
         Set(s, n, k)
  PROVE  ContextTypeOK'
<1>1. PICK out \in Evictions(s) :
        /\ storage' = [Emptied(out) EXCEPT ![<<s, n>>] = writes + 1]
        /\ unclean' = (unclean \cup NamesIn(out)) \ {n}
  BY DEF Set
<1>2. UNCHANGED <<expired, reader, snapshots>> /\ MakeItem(k)
  BY DEF Set
<1>3. storage' \in Contents
  <2>1. writes + 1 \in Items
    BY <1>2, MadeItem
  <2>2. Emptied(out) \in Contents
    BY ContentsFacts
  <2> QED BY <1>1, <2>1, <2>2 DEF Contents
<1>4. unclean' \in SUBSET Names
  <2>1. NamesIn(out) \subseteq Names
    BY EvictedSlots, ContentsFacts
  <2> QED BY <1>1, <2>1 DEF ContextTypeOK
<1>5. readCache' \in [Places -> Items \cup {NoItem}]
  BY DEF Set, Forget, ContextTypeOK
<1> QED BY <1>2, <1>3, <1>4, <1>5, MadeItem DEF ContextTypeOK, Contents

\* The operations the cache is not told of.
LEMMA UntoldTypes ==
  ASSUME ContextTypeOK,
         UNCHANGED <<expired, readCache, reader, snapshots>>,
         storage' \in Contents, unclean' \in SUBSET Names,
         \/ UNCHANGED <<itemRank, writes>>
         \/ \E k \in Ranks : MakeItem(k)
  PROVE  ContextTypeOK'
<1>1. writes' \in 0 .. MaxWrites /\ itemRank' \in [Items -> Ranks]
  BY MadeItem DEF ContextTypeOK
<1> QED BY <1>1 DEF ContextTypeOK, Contents

LEMMA SnapshotTypes ==
  ASSUME ContextTypeOK, CreateSnapshot
  PROVE  ContextTypeOK'
<1> DEFINE last(p) == \A q \in Slots :
                        q[2] = p[2] /\ IsLive(q) =>
                          \E i, j \in DOMAIN Scopes :
                            Scopes[i] = q[1] /\ Scopes[j] = p[1] /\ i <= j
           shot == [p \in Slots |->
                      IF IsLive(p) /\ last(p) THEN storage[p] ELSE NoItem]
<1>1. shot \in Contents
  BY DEF ContextTypeOK, Contents
<1>2. PICK taken \in Contents :
        snapshots' = IF Len(Append(snapshots, taken)) > MaxSnapshots
                     THEN Tail(Append(snapshots, taken)) ELSE Append(snapshots, taken)
  BY <1>1 DEF CreateSnapshot
<1>3. snapshots \in Seq(Contents) /\ Len(snapshots) <= MaxSnapshots
  BY DEF ContextTypeOK, Contents
<1>4. PICK kept \in Seq(Contents) :
        kept = Append(snapshots, taken) /\ Len(kept) = Len(snapshots) + 1
  BY <1>3, AppendProperties
<1>5. /\ Len(snapshots) \in Nat /\ Len(kept) \in Nat
      /\ Tail(kept) \in Seq(Contents) /\ Len(Tail(kept)) = Len(kept) - 1
  <2>1. Len(snapshots) \in Nat /\ Len(kept) \in Nat /\ Len(kept) > 0
    BY <1>3, <1>4
  <2>2. kept # <<>>
    <3>1. Len(<<>>) = 0
      OBVIOUS
    <3> QED BY <2>1, <3>1
  <2> QED BY <2>1, <2>2, HeadTailProperties
<1>6. snapshots' \in Seq(Contents) /\ Len(snapshots') <= MaxSnapshots
  <2>1. CASE Len(kept) > MaxSnapshots
    BY <1>2, <1>3, <1>4, <1>5, <2>1, RanksAssumption
  <2>2. CASE ~(Len(kept) > MaxSnapshots)
    BY <1>2, <1>4, <1>5, <2>2, RanksAssumption
  <2> QED BY <2>1, <2>2
<1>7. UNCHANGED <<storage, itemRank, expired, writes, readCache, reader, unclean>>
  BY DEF CreateSnapshot
<1> QED BY <1>6, <1>7 DEF ContextTypeOK, Contents

LEMMA ContextTypesStep ==
  ASSUME ContextTypeOK, [ContextNext]_contextVars
  PROVE  ContextTypeOK'
<1>1. ASSUME NEW s \in ScopeNames, NEW n \in Names, NEW k \in Ranks, Set(s, n, k)
      PROVE  ContextTypeOK'
  BY <1>1, SetTypes
<1>2. ASSUME NEW r \in Readers, NEW place \in Places, Miss(r, place)
      PROVE  ContextTypeOK'
  BY <1>2, GetTypes
<1>3. ASSUME NEW r \in Readers, Read(r) PROVE ContextTypeOK'
  <2>1. reader[r] \in Places
    BY <1>3 DEF Read, ContextTypeOK
  <2> QED BY <1>3, <2>1, GetTypes
<1>4. ASSUME NEW place \in Places, Delete(place) PROVE ContextTypeOK'
  <2>1. storage' \in Contents /\ unclean' \in SUBSET Names
    BY <1>4, ContentsFacts, SlotFacts DEF Delete, ContextTypeOK
  <2> QED BY <1>4, <2>1, UntoldTypes DEF Delete
<1>5. ASSUME NEW S \in SUBSET Slots, Clear(S) PROVE ContextTypeOK'
  <2>1. storage' \in Contents /\ unclean' \in SUBSET Names
    BY <1>5, ContentsFacts DEF Clear, ContextTypeOK
  <2> QED BY <1>5, <2>1, UntoldTypes DEF Clear
<1>6. ASSUME NEW i \in Items, Expires(i) PROVE ContextTypeOK'
  <2>1. expired' \in SUBSET Items /\ unclean' \in SUBSET Names
    BY <1>6, SlotFacts DEF Expires, ContextTypeOK
  <2>2. UNCHANGED <<storage, itemRank, writes, readCache, reader, snapshots>>
    BY <1>6 DEF Expires
  <2> QED BY <2>1, <2>2 DEF ContextTypeOK
<1>7. CASE CleanupExpired
  <2>1. storage' \in Contents /\ unclean' \in SUBSET Names
    BY <1>7, ContentsFacts DEF CleanupExpired, ContextTypeOK
  <2> QED BY <1>7, <2>1, UntoldTypes DEF CleanupExpired
<1>8. ASSUME NEW i \in DOMAIN snapshots, NEW merge \in BOOLEAN,
             RestoreSnapshot(i, merge)
      PROVE  ContextTypeOK'
  <2>1. snapshots[i] \in Contents
    BY DEF ContextTypeOK, Contents
  <2>2. storage' \in Contents /\ unclean' \in SUBSET Names
    BY <1>8, <2>1, ContentsFacts DEF RestoreSnapshot, ContextTypeOK
  <2> QED BY <1>8, <2>2, UntoldTypes DEF RestoreSnapshot
<1>9. ASSUME NEW p \in Slots, NEW k \in Ranks, NEW merge \in BOOLEAN,
             ImportContext(p, k, merge)
      PROVE  ContextTypeOK'
  <2>1. PICK f \in Contents : f = [q \in Slots |-> IF q = p THEN writes + 1 ELSE NoItem]
    <3>1. writes + 1 \in Items
      BY <1>9, MadeItem DEF ImportContext
    <3> QED BY <3>1 DEF Contents
  <2>2. storage' = TakenIn(f, merge) /\ unclean' = unclean \cup Changed(storage')
    BY <1>9, <2>1 DEF ImportContext
  <2>3. storage' \in Contents /\ unclean' \in SUBSET Names
    BY <2>2, ContentsFacts DEF ContextTypeOK
  <2> QED BY <1>9, <2>3, UntoldTypes DEF ImportContext
<1>10. CASE CreateSnapshot
  BY <1>10, SnapshotTypes
<1>11. CASE UNCHANGED contextVars
  BY <1>11 DEF contextVars, ContextTypeOK
<1>12. \A s \in ScopeNames : InScope(s) \in SUBSET Slots
  BY SlotFacts
<1> QED BY <1>1, <1>2, <1>3, <1>4, <1>5, <1>6, <1>7, <1>8, <1>9, <1>10, <1>11, <1>12
        DEF ContextNext

\* What the storage and the cache hold are items that were made, and no more
\* than MaxSnapshots snapshots are kept.
THEOREM ContextTypes == ContextSpec => []ContextTypeOK
<1>1. ContextInit => ContextTypeOK
  <2> SUFFICES ASSUME ContextInit PROVE ContextTypeOK
    OBVIOUS
  <2>1. snapshots = <<>> /\ Len(<<>>) = 0
    BY DEF ContextInit
  <2>2. snapshots \in Seq([Slots -> Items \cup {NoItem}])
    BY <2>1
  <2> QED BY <2>1, <2>2, RanksAssumption, WritesAssumption DEF ContextInit, ContextTypeOK
<1>2. ContextTypeOK /\ [ContextNext]_contextVars => ContextTypeOK'
  BY ContextTypesStep
<1> QED BY <1>1, <1>2, PTL DEF ContextSpec

-----------------------------------------------------------------------------
(* The pools.                                                                *)

Lent == [u \in Users |-> user[u].conn]
Busy == {u \in Users : user[u].at # "out"}

\* A user has a connection exactly while it uses one, and nobody else has it.
UsersApart ==
  /\ \A u \in Users : user[u].at = "using" <=> user[u].conn # NoConn
  /\ \A u, v \in Users :
       user[u].conn = user[v].conn => user[u].conn = NoConn \/ u = v

\* A connection is in the list once, and in nobody's hands meanwhile; what is
\* in the list or in use was made.
ListApart ==
  /\ \A i, j \in DOMAIN idle : idle[i] = idle[j] => i = j
  /\ \A i \in DOMAIN idle :
       idle[i] \in made /\ \A u \in Users : user[u].conn # idle[i]
  /\ \A u \in Users : user[u].conn \in made \cup {NoConn}
  /\ inUse \subseteq {user[u].conn : u \in Users}

\* Whoever is inside acquire holds a permit. A failed creation may lose one, so
\* they need not add up to MaxSize.
PermitsHeld == permits + Cardinality(Busy) <= MaxSize

\* Until close_all, nothing in the list or in use is closed.
OpenUntilShut ==
  /\ closed \subseteq made
  /\ ~shut => /\ \A i \in DOMAIN idle : idle[i] \notin closed
              /\ \A u \in Users : user[u].conn \notin closed

PoolInv ==
  /\ PoolTypeOK
  /\ UsersApart
  /\ ListApart
  /\ PermitsHeld
  /\ OpenUntilShut

-----------------------------------------------------------------------------
(* Lists of connections.                                                     *)

\* A list without its first k members.
LEMMA SuffixFacts ==
  ASSUME NEW s \in Seq(Conns), NEW k \in 1 .. Len(s)
  PROVE  /\ SubSeq(s, k + 1, Len(s)) \in Seq(Conns)
         /\ DOMAIN SubSeq(s, k + 1, Len(s)) = 1 .. Len(s) - k
         /\ \A i \in 1 .. Len(s) - k :
              /\ i + k \in DOMAIN s
              /\ SubSeq(s, k + 1, Len(s))[i] = s[i + k]
<1>1. \A i \in 1 .. Len(s) - k : i + k \in DOMAIN s
  OBVIOUS
<1> QED BY <1>1

\* The members before position k.
LEMMA PrefixFacts ==
  ASSUME NEW s \in Seq(Conns), NEW k \in 1 .. Len(s)
  PROVE  InList(SubSeq(s, 1, k - 1)) = {s[i] : i \in 1 .. k - 1}
<1>1. /\ DOMAIN SubSeq(s, 1, k - 1) = 1 .. k - 1
      /\ \A i \in 1 .. k - 1 : SubSeq(s, 1, k - 1)[i] = s[i]
  OBVIOUS
<1> QED BY <1>1 DEF InList

\* A list with one more member.
LEMMA AppendFacts ==
  ASSUME NEW s \in Seq(Conns), NEW d \in Conns
  PROVE  /\ Append(s, d) \in Seq(Conns)
         /\ DOMAIN Append(s, d) = 1 .. Len(s) + 1
         /\ \A i \in 1 .. Len(s) : Append(s, d)[i] = s[i]
         /\ Append(s, d)[Len(s) + 1] = d
OBVIOUS

\* A list without its member at position k.
LEMMA ExceptFacts ==
  ASSUME NEW s \in Seq(Conns), NEW k \in 1 .. Len(s)
  PROVE  /\ Except(s, k) \in Seq(Conns)
         /\ DOMAIN Except(s, k) = 1 .. Len(s) - 1
         /\ \A i \in 1 .. Len(s) - 1 :
              /\ i \in DOMAIN s /\ i + 1 \in DOMAIN s
              /\ Except(s, k)[i] = IF i < k THEN s[i] ELSE s[i + 1]
<1>1. \A i \in 1 .. Len(s) - 1 : i \in DOMAIN s /\ i + 1 \in DOMAIN s
  OBVIOUS
<1>2. Except(s, k) \in [1 .. Len(s) - 1 -> Conns]
  BY <1>1 DEF Except
<1>3. Except(s, k) \in Seq(Conns)
  <2>1. Len(s) - 1 \in Nat
    OBVIOUS
  <2> QED BY <1>2, <2>1
<1> QED BY <1>1, <1>3 DEF Except

-----------------------------------------------------------------------------
(* Permits and the users inside acquire.                                     *)

LEMMA BusyFinite ==
  ASSUME PoolTypeOK
  PROVE  IsFiniteSet(Busy) /\ Cardinality(Busy) \in Nat
<1>1. Busy \subseteq Users BY DEF Busy
<1> QED BY <1>1, UsersAssumption, FS_Subset, FS_CardinalityType

\* u enters acquire, leaves it, or moves inside.
LEMMA BusyMoves ==
  ASSUME PoolTypeOK, NEW u \in Users,
         \A v \in Users \ {u} : user'[v] = user[v]
  PROVE  /\ user[u].at = "out" /\ user'[u].at # "out" =>
              Cardinality(Busy') = Cardinality(Busy) + 1
         /\ user[u].at # "out" /\ user'[u].at = "out" =>
              Cardinality(Busy') = Cardinality(Busy) - 1
         /\ user[u].at # "out" /\ user'[u].at # "out" => Busy' = Busy
<1>0. IsFiniteSet(Busy) BY BusyFinite
<1>1. CASE user[u].at = "out" /\ user'[u].at # "out"
  <2>1. Busy' = Busy \cup {u} /\ u \notin Busy BY <1>1 DEF Busy
  <2> QED BY <1>0, <1>1, <2>1, FS_AddElement
<1>2. CASE user[u].at # "out" /\ user'[u].at = "out"
  <2>1. Busy' = Busy \ {u} /\ u \in Busy BY <1>2 DEF Busy
  <2> QED BY <1>0, <1>2, <2>1, FS_RemoveElement
<1>3. CASE user[u].at # "out" /\ user'[u].at # "out"
  <2>1. Busy' = Busy BY <1>3 DEF Busy
  <2> QED BY <1>3, <2>1
<1> QED BY <1>1, <1>2, <1>3

\* The contract counts as this module does.
LEMMA SameCount == \A S : Contract!Cardinality(S) = Cardinality(S)
BY DEF Cardinality, Contract!Cardinality

\* A user that holds a permit and no connection leaves room for one more.
LEMMA RoomForOneMore ==
  ASSUME PoolInv, NEW u \in Users, user[u].at = "granted"
  PROVE  Cardinality(Contract!Borrowers) < MaxSize
<1>1. IsFiniteSet(Busy) /\ Cardinality(Busy) \in Nat
  BY BusyFinite DEF PoolInv
<1>2. u \in Busy BY DEF Busy
<1>3. /\ IsFiniteSet(Busy \ {u})
      /\ Cardinality(Busy \ {u}) = Cardinality(Busy) - 1
  BY <1>1, <1>2, FS_RemoveElement
<1>4. Contract!Borrowers \subseteq Busy \ {u}
  BY DEF Contract!Borrowers, Busy, PoolInv, UsersApart
<1>5. /\ IsFiniteSet(Contract!Borrowers)
      /\ Cardinality(Contract!Borrowers) <= Cardinality(Busy) - 1
  BY <1>3, <1>4, FS_Subset
<1>6. Cardinality(Contract!Borrowers) \in Nat
  BY <1>5, FS_CardinalityType
<1>7. Cardinality(Busy) <= MaxSize
  BY <1>1, SizeAssumption DEF PoolInv, PermitsHeld, PoolTypeOK
<1> QED BY <1>1, <1>5, <1>6, <1>7, SizeAssumption

-----------------------------------------------------------------------------
(* What a step that lends a connection has to see to, in either pool.        *)

LEMMA LendingKeeps ==
  ASSUME PoolInv, NEW u \in Users, NEW c \in Conns,
         user[u].at = "granted",
         Use(u, c), UNCHANGED <<permits, stale, shut>>,
         \A v \in Users : user[v].conn # c,
         made \subseteq made', made' \in SUBSET Conns, c \in made',
         idle' \in Seq(Conns),
         \A i, j \in DOMAIN idle' : idle'[i] = idle'[j] => i = j,
         \A i \in DOMAIN idle' :
           idle'[i] # c /\ \E j \in DOMAIN idle : idle'[i] = idle[j],
         closed \subseteq closed', closed' \subseteq made,
         \A v \in Users : user[v].conn \notin closed' \ closed,
         ~shut => c \notin closed' /\ \A i \in DOMAIN idle' : idle'[i] \notin closed'
  PROVE  PoolInv' /\ Contract!Next
<1> USE NoConnAssumption
<1>1. /\ user' = [user EXCEPT ![u] = [at |-> "using", conn |-> c]]
      /\ inUse' = inUse \cup {c}
  BY DEF Use
<1>2. /\ user'[u] = [at |-> "using", conn |-> c]
      /\ \A v \in Users \ {u} : user'[v] = user[v]
  BY <1>1 DEF PoolInv, PoolTypeOK
<1>3. user[u].conn = NoConn
  BY DEF PoolInv, PoolTypeOK, UsersApart
<1>4. PoolTypeOK'
  BY <1>1 DEF PoolInv, PoolTypeOK
<1>5. UsersApart'
  BY <1>2 DEF PoolInv, UsersApart
<1>6. ListApart'
  <2>1. \A i \in DOMAIN idle' :
          idle'[i] \in made' /\ \A v \in Users : user'[v].conn # idle'[i]
    BY <1>2 DEF PoolInv, ListApart
  <2>2. \A v \in Users : user'[v].conn \in made' \cup {NoConn}
    BY <1>2 DEF PoolInv, ListApart
  <2>3. inUse' \subseteq {user'[v].conn : v \in Users}
    <3>1. \A d \in inUse : \E v \in Users \ {u} : user[v].conn = d
      BY <1>3 DEF PoolInv, PoolTypeOK, ListApart
    <3> QED BY <1>1, <1>2, <3>1
  <2> QED BY <2>1, <2>2, <2>3 DEF ListApart
<1>7. PermitsHeld'
  <2>1. Busy' = Busy
    BY <1>2, BusyMoves DEF PoolInv
  <2> QED BY <2>1 DEF PoolInv, PermitsHeld
<1>8. OpenUntilShut'
  BY <1>2 DEF PoolInv, OpenUntilShut
<1>9. Contract!Lend(u, c)
  <2>1. [w \in Users |-> user'[w].conn]
          = [[w \in Users |-> user[w].conn] EXCEPT ![u] = c]
    <3>1. \A w \in Users : user'[w].conn = IF w = u THEN c ELSE user[w].conn
      BY <1>2
    <3> QED BY <3>1
  <2>2. c \in closed => shut
    OBVIOUS
  <2>3. Contract!Cardinality(Contract!Borrowers) < MaxSize
    BY RoomForOneMore, SameCount
  <2> QED BY <1>3, <2>1, <2>2, <2>3 DEF Contract!Lend
<1>10. Contract!Closing
  BY <1>2 DEF Contract!Closing, PoolInv, OpenUntilShut
<1> QED BY <1>4, <1>5, <1>6, <1>7, <1>8, <1>9, <1>10 DEF PoolInv, Contract!Next

\* And one that takes a connection back.
LEMMA TakingBackKeeps ==
  ASSUME PoolInv, NEW u \in Users, user[u].at = "using",
         Returned(u), UNCHANGED <<permits, made, stale, shut>>,
         \/ /\ idle' = Append(idle, user[u].conn)
            /\ UNCHANGED closed
         \/ /\ UNCHANGED idle
            /\ closed' = closed \cup {user[u].conn}
  PROVE  PoolInv' /\ Contract!Next
<1> USE NoConnAssumption
<1> DEFINE c == user[u].conn
<1>1. /\ user' = [user EXCEPT ![u] = [at |-> "returned", conn |-> NoConn]]
      /\ inUse' = inUse \ {c}
  BY DEF Returned
<1>2. /\ user'[u] = [at |-> "returned", conn |-> NoConn]
      /\ \A v \in Users \ {u} : user'[v] = user[v]
  BY <1>1 DEF PoolInv, PoolTypeOK
<1>3. /\ c \in made /\ c \in Conns
      /\ \A v \in Users \ {u} : user[v].conn # c
      /\ \A i \in DOMAIN idle : idle[i] # c
  BY DEF PoolInv, PoolTypeOK, UsersApart, ListApart
<1>4. /\ idle' \in Seq(Conns)
      /\ \A i \in DOMAIN idle' : idle'[i] = c \/ \E j \in DOMAIN idle : idle'[i] = idle[j]
      /\ \A i, j \in DOMAIN idle' : idle'[i] = idle'[j] => i = j
  <2>1. CASE UNCHANGED idle
    BY <2>1 DEF PoolInv, PoolTypeOK, ListApart
  <2>2. CASE idle' = Append(idle, c)
    <3>1. idle \in Seq(Conns) /\ DOMAIN idle = 1 .. Len(idle) /\ Len(idle) \in Nat
      BY DEF PoolInv, PoolTypeOK
    <3>2. /\ idle' \in Seq(Conns)
          /\ DOMAIN idle' = 1 .. Len(idle) + 1
          /\ \A i \in 1 .. Len(idle) : idle'[i] = idle[i]
          /\ idle'[Len(idle) + 1] = c
      BY <1>3, <2>2, <3>1, AppendFacts
    <3>3. \A i \in 1 .. Len(idle) + 1 : i \in 1 .. Len(idle) \/ i = Len(idle) + 1
      BY <3>1
    <3> QED BY <1>3, <3>1, <3>2, <3>3 DEF PoolInv, ListApart
  <2> QED BY <2>1, <2>2
<1>5. /\ closed \subseteq closed' /\ closed' \subseteq closed \cup {c}
      /\ c \in closed' \ closed => UNCHANGED idle
  OBVIOUS
<1>6. PoolTypeOK'
  BY <1>1, <1>3, <1>4, <1>5 DEF PoolInv, PoolTypeOK
<1>7. UsersApart'
  BY <1>2 DEF PoolInv, UsersApart
<1>8. ListApart'
  <2>1. \A i \in DOMAIN idle' :
          idle'[i] \in made /\ \A v \in Users : user'[v].conn # idle'[i]
    <3> SUFFICES ASSUME NEW i \in DOMAIN idle', NEW v \in Users
                 PROVE  idle'[i] \in made /\ user'[v].conn # idle'[i]
      OBVIOUS
    <3>1. idle'[i] \in Conns BY <1>4
    <3>2. CASE idle'[i] = c BY <1>2, <1>3, <3>1, <3>2
    <3>3. CASE \E j \in DOMAIN idle : idle'[i] = idle[j]
      BY <1>2, <3>1, <3>3 DEF PoolInv, ListApart
    <3> QED BY <1>4, <3>2, <3>3
  <2>2. \A v \in Users : user'[v].conn \in made \cup {NoConn}
    BY <1>2 DEF PoolInv, ListApart
  <2>3. inUse' \subseteq {user'[v].conn : v \in Users}
    BY <1>1, <1>2 DEF PoolInv, ListApart
  <2> QED BY <1>4, <2>1, <2>2, <2>3 DEF ListApart
<1>9. PermitsHeld'
  <2>1. Busy' = Busy
    BY <1>2, BusyMoves DEF PoolInv
  <2> QED BY <2>1 DEF PoolInv, PermitsHeld
<1>10. OpenUntilShut'
  <2>1. closed' \subseteq made'
    BY <1>3, <1>5 DEF PoolInv, OpenUntilShut
  <2>2. ASSUME ~shut PROVE \A i \in DOMAIN idle' : idle'[i] \notin closed'
    BY <1>3, <1>4, <1>5, <2>2 DEF PoolInv, OpenUntilShut
  <2>3. ASSUME ~shut PROVE \A v \in Users : user'[v].conn \notin closed'
    <3>1. NoConn \notin closed'
      BY <1>3, <1>5 DEF PoolInv, PoolTypeOK
    <3> QED BY <1>2, <1>3, <1>5, <2>3, <3>1 DEF PoolInv, OpenUntilShut
  <2> QED BY <2>1, <2>2, <2>3 DEF OpenUntilShut
<1>11. Contract!TakeBack(u)
  <2>1. [w \in Users |-> user'[w].conn]
          = [[w \in Users |-> user[w].conn] EXCEPT ![u] = NoConn]
    <3>1. \A w \in Users : user'[w].conn = IF w = u THEN NoConn ELSE user[w].conn
      BY <1>2
    <3> QED BY <3>1
  <2> QED BY <1>3, <2>1 DEF Contract!TakeBack
<1>12. Contract!Closing
  BY <1>2, <1>3, <1>5 DEF Contract!Closing, PoolInv, PoolTypeOK
<1> QED BY <1>6, <1>7, <1>8, <1>9, <1>10, <1>11, <1>12
        DEF PoolInv, Contract!Next

-----------------------------------------------------------------------------
(* The steps both pools take.                                                *)

\* A user moves inside acquire without a connection: nothing lent changes.
LEMMA MovingKeeps ==
  ASSUME PoolInv, NEW u \in Users,
         user[u].at # "using", user'[u].at # "using",
         user'[u].conn = user[u].conn,
         \A v \in Users \ {u} : user'[v] = user[v],
         PoolTypeOK', PermitsHeld',
         idle' = idle \/ idle' = <<>>,
         closed' = closed \/ (closed' = closed \cup InList(idle) /\ idle' = <<>>),
         inUse' = inUse, made' = made, stale' = stale, shut' = shut
  PROVE  PoolInv' /\ [Contract!Next]_Contract!vars
<1> USE NoConnAssumption
<1>1. \A v \in Users : user'[v].at = "using" <=> user[v].at = "using"
  OBVIOUS
<1>2. \A v \in Users : user'[v].conn = user[v].conn
  OBVIOUS
<1>3. /\ closed \subseteq closed'
      /\ \A d \in closed' \ closed : \E i \in DOMAIN idle : d = idle[i]
      /\ \A i \in DOMAIN idle' : idle' = idle
  BY DEF InList
<1>5. UsersApart'
  BY <1>1, <1>2 DEF PoolInv, UsersApart
<1>6. ListApart'
  <2>1. inUse' \subseteq {user'[v].conn : v \in Users}
    BY <1>2 DEF PoolInv, ListApart
  <2> QED BY <1>2, <1>3, <2>1 DEF PoolInv, ListApart
<1>7. OpenUntilShut'
  <2>1. closed' \subseteq made'
    BY <1>3 DEF PoolInv, OpenUntilShut, ListApart
  <2>2. ASSUME ~shut PROVE \A i \in DOMAIN idle' : idle'[i] \notin closed'
    BY <1>3, <2>2 DEF PoolInv, OpenUntilShut
  <2>3. ASSUME ~shut PROVE \A v \in Users : user'[v].conn \notin closed'
    BY <1>2, <1>3, <2>3 DEF PoolInv, OpenUntilShut, ListApart
  <2> QED BY <2>1, <2>2, <2>3 DEF OpenUntilShut
<1>8. [w \in Users |-> user'[w].conn] = [w \in Users |-> user[w].conn]
  BY <1>2
<1>9. Contract!Closing
  BY <1>2, <1>3 DEF Contract!Closing, PoolInv, ListApart
<1>10. [Contract!Next]_Contract!vars
  <2>1. CASE closed' = closed
    BY <1>8, <2>1 DEF Contract!vars
  <2>2. Contract!Discard
    BY <1>8 DEF Contract!Discard
  <2> QED BY <1>9, <2>2 DEF Contract!Next
<1> QED BY <1>5, <1>6, <1>7, <1>10 DEF PoolInv

LEMMA TakePermitKeeps ==
  ASSUME PoolInv, NEW u \in Users, TakePermit(u)
  PROVE  PoolInv' /\ [Contract!Next]_Contract!vars
<1>1. user'[u].at = "granted" /\ \A v \in Users \ {u} : user'[v] = user[v]
  BY DEF TakePermit, PoolInv, PoolTypeOK
<1>2. Cardinality(Busy') = Cardinality(Busy) + 1
  BY <1>1, BusyMoves DEF TakePermit, PoolInv
<1>3. permits' \in 0 .. MaxSize /\ PermitsHeld'
  BY <1>2, BusyFinite, SizeAssumption
     DEF TakePermit, PoolInv, PoolTypeOK, PermitsHeld
<1>4. /\ user[u].at # "using" /\ user'[u].at # "using"
      /\ user'[u].conn = user[u].conn
      /\ PoolTypeOK'
      /\ inUse' = inUse /\ made' = made /\ stale' = stale /\ shut' = shut
      /\ idle' = idle \/ idle' = <<>>
      /\ closed' = closed \/ (closed' = closed \cup InList(idle) /\ idle' = <<>>)
  BY <1>1, <1>3 DEF TakePermit, PoolInv, PoolTypeOK
<1> QED BY <1>1, <1>3, <1>4, MovingKeeps

LEMMA GivePermitKeeps ==
  ASSUME PoolInv, NEW u \in Users, GivePermit(u)
  PROVE  PoolInv' /\ [Contract!Next]_Contract!vars
<1>1. user'[u].at = "out" /\ \A v \in Users \ {u} : user'[v] = user[v]
  BY DEF GivePermit, PoolInv, PoolTypeOK
<1>2. Cardinality(Busy') = Cardinality(Busy) - 1
  BY <1>1, BusyMoves DEF GivePermit, PoolInv
<1>3. Cardinality(Busy') \in Nat
  <2>1. Busy' \subseteq Users BY DEF Busy
  <2> QED BY <2>1, UsersAssumption, FS_Subset, FS_CardinalityType
<1>4. permits' \in 0 .. MaxSize /\ PermitsHeld'
  BY <1>2, <1>3, BusyFinite, SizeAssumption
     DEF GivePermit, PoolInv, PoolTypeOK, PermitsHeld
<1>5. /\ user[u].at # "using" /\ user'[u].at # "using"
      /\ user'[u].conn = user[u].conn
      /\ PoolTypeOK'
      /\ inUse' = inUse /\ made' = made /\ stale' = stale /\ shut' = shut
      /\ idle' = idle \/ idle' = <<>>
      /\ closed' = closed \/ (closed' = closed \cup InList(idle) /\ idle' = <<>>)
  BY <1>1, <1>4 DEF GivePermit, PoolInv, PoolTypeOK
<1> QED BY <1>1, <1>4, <1>5, MovingKeeps

LEMMA CloseAllKeeps ==
  ASSUME PoolInv, CloseAll
  PROVE  PoolInv' /\ [Contract!Next]_Contract!vars
<1> USE NoConnAssumption DEF CloseAll
<1>1. /\ \A d \in closed' : d \in made
      /\ idle' \in Seq(Conns) /\ DOMAIN idle' = {}
  BY DEF InList, PoolInv, PoolTypeOK, ListApart, OpenUntilShut
<1>2. PoolTypeOK'
  BY <1>1 DEF PoolInv, PoolTypeOK
<1>3. UsersApart'
  BY DEF PoolInv, UsersApart
<1>4. ListApart'
  BY <1>1 DEF PoolInv, ListApart
<1>5. PermitsHeld'
  BY DEF PoolInv, PermitsHeld, Busy
<1>6. OpenUntilShut'
  BY <1>1 DEF OpenUntilShut
<1>7. Contract!CloseAll /\ Contract!Closing
  BY DEF Contract!CloseAll, Contract!Closing
<1> QED BY <1>2, <1>3, <1>4, <1>5, <1>6, <1>7 DEF PoolInv, Contract!Next

LEMMA OutliveKeeps ==
  ASSUME PoolInv, NEW c \in Conns, Outlive(c)
  PROVE  PoolInv' /\ [Contract!Next]_Contract!vars
<1> USE DEF Outlive
<1>1. PoolTypeOK'
  BY DEF PoolInv, PoolTypeOK
<1>2. UsersApart' /\ ListApart' /\ OpenUntilShut'
  BY DEF PoolInv, UsersApart, ListApart, OpenUntilShut
<1>3. PermitsHeld'
  BY DEF PoolInv, PermitsHeld, Busy
<1>4. UNCHANGED Contract!vars
  BY DEF Contract!vars
<1> QED BY <1>1, <1>2, <1>3, <1>4 DEF PoolInv

LEMMA StutterKeeps ==
  ASSUME PoolInv, UNCHANGED poolVars
  PROVE  PoolInv' /\ [Contract!Next]_Contract!vars
<1> USE DEF poolVars
<1>1. PoolTypeOK' /\ UsersApart' /\ ListApart' /\ OpenUntilShut'
  BY DEF PoolInv, PoolTypeOK, UsersApart, ListApart, OpenUntilShut
<1>2. PermitsHeld'
  BY DEF PoolInv, PermitsHeld, Busy
<1>3. UNCHANGED Contract!vars
  BY DEF Contract!vars
<1> QED BY <1>1, <1>2, <1>3 DEF PoolInv

-----------------------------------------------------------------------------
(* The steps of the generic pool.                                            *)

LEMMA BorrowPooledKeeps ==
  ASSUME PoolInv, NEW u \in Users, BorrowPooled(u)
  PROVE  PoolInv' /\ Contract!Next
<1>1. PICK k \in DOMAIN idle :
        /\ IsFirstGood(k)
        /\ idle' = SubSeq(idle, k + 1, Len(idle))
        /\ closed' = closed \cup InList(SubSeq(idle, 1, k - 1))
        /\ Use(u, idle[k])
  BY DEF BorrowPooled
<1>2. /\ idle \in Seq(Conns) /\ DOMAIN idle = 1 .. Len(idle)
      /\ Len(idle) \in Nat /\ k \in 1 .. Len(idle)
  BY DEF PoolInv, PoolTypeOK
<1>3. /\ idle' \in Seq(Conns)
      /\ DOMAIN idle' = 1 .. Len(idle) - k
      /\ \A i \in 1 .. Len(idle) - k :
           i + k \in DOMAIN idle /\ idle'[i] = idle[i + k]
  BY <1>1, <1>2, SuffixFacts
<1>4. closed' = closed \cup {idle[i] : i \in 1 .. k - 1}
  BY <1>1, <1>2, PrefixFacts
<1>5. /\ idle[k] \in Conns /\ idle[k] \in made
      /\ \A v \in Users : user[v].conn # idle[k]
  BY <1>2 DEF PoolInv, ListApart
<1>6. \A i, j \in DOMAIN idle' : idle'[i] = idle'[j] => i = j
  BY <1>2, <1>3 DEF PoolInv, ListApart
<1>7. \A i \in DOMAIN idle' :
        idle'[i] # idle[k] /\ \E j \in DOMAIN idle : idle'[i] = idle[j]
  <2>1. \A i, j \in DOMAIN idle : idle[i] = idle[j] => i = j
    BY DEF PoolInv, ListApart
  <2> SUFFICES ASSUME NEW i \in 1 .. Len(idle) - k
               PROVE  idle'[i] # idle[k] /\ \E j \in DOMAIN idle : idle'[i] = idle[j]
    BY <1>3
  <2>2. /\ i + k \in DOMAIN idle /\ k \in DOMAIN idle /\ i + k # k
        /\ idle'[i] = idle[i + k]
    BY <1>2, <1>3
  <2> QED BY <2>1, <2>2
<1>8. \A i \in 1 .. k - 1 : i \in DOMAIN idle /\ i # k
  BY <1>2
<1>9. /\ closed \subseteq closed' /\ closed' \subseteq made
      /\ \A v \in Users : user[v].conn \notin closed' \ closed
  BY <1>4, <1>8 DEF PoolInv, ListApart, OpenUntilShut
<1>10. idle[k] \notin closed' \ closed
  BY <1>2, <1>4, <1>8 DEF PoolInv, ListApart
<1>11. \A i \in DOMAIN idle' : idle'[i] \notin closed' \ closed
  <2> SUFFICES ASSUME NEW i \in DOMAIN idle', NEW j \in 1 .. k - 1,
                      idle'[i] = idle[j]
               PROVE  FALSE
    BY <1>4
  <2>1. i + k \in DOMAIN idle /\ idle[i + k] = idle[j]
    BY <1>3
  <2>2. i + k = j
    BY <1>8, <2>1 DEF PoolInv, ListApart
  <2> QED BY <1>2, <1>3, <2>2
<1>12. ~shut => /\ idle[k] \notin closed'
                /\ \A i \in DOMAIN idle' : idle'[i] \notin closed'
  BY <1>7, <1>10, <1>11 DEF PoolInv, OpenUntilShut
<1>13. /\ user[u].at = "granted"
       /\ UNCHANGED <<permits, stale, shut>>
       /\ made' = made /\ made' \in SUBSET Conns
  BY DEF BorrowPooled, PoolInv, PoolTypeOK
<1> QED BY <1>1, <1>3, <1>5, <1>6, <1>7, <1>9, <1>12, <1>13, LendingKeeps

LEMMA BorrowNewKeeps ==
  ASSUME PoolInv, NEW u \in Users, BorrowNew(u)
  PROVE  PoolInv' /\ Contract!Next
<1>1. PICK c \in Conns \ made : made' = made \cup {c} /\ Use(u, c)
  BY DEF BorrowNew
<1>2. /\ user[u].at = "granted" /\ idle' = <<>>
      /\ closed' = closed \cup InList(idle)
      /\ UNCHANGED <<permits, stale, shut>>
  BY DEF BorrowNew, NothingGood
<1>3. idle' \in Seq(Conns) /\ DOMAIN idle' = {}
  BY <1>2
<1>4. \A v \in Users : user[v].conn # c
  BY NoConnAssumption DEF PoolInv, ListApart
<1>5. made \subseteq made' /\ made' \in SUBSET Conns /\ c \in made' /\ c \in Conns
  BY <1>1 DEF PoolInv, PoolTypeOK
<1>6. /\ closed \subseteq closed' /\ closed' \subseteq made
      /\ \A v \in Users : user[v].conn \notin closed' \ closed
  BY <1>2 DEF InList, PoolInv, ListApart, OpenUntilShut
<1>7. c \notin closed'
  BY <1>6
<1> QED BY <1>1, <1>2, <1>3, <1>4, <1>5, <1>6, <1>7, LendingKeeps

LEMMA BorrowFailsKeeps ==
  ASSUME PoolInv, NEW u \in Users, BorrowFails(u)
  PROVE  PoolInv' /\ [Contract!Next]_Contract!vars
<1>1. user'[u].at = "out" /\ \A v \in Users \ {u} : user'[v] = user[v]
  BY DEF BorrowFails, PoolInv, PoolTypeOK
<1>2. Cardinality(Busy') = Cardinality(Busy) - 1
  BY <1>1, BusyMoves DEF BorrowFails, NothingGood, PoolInv
<1>3. PermitsHeld'
  BY <1>2, BusyFinite, SizeAssumption
     DEF BorrowFails, NothingGood, PoolInv, PoolTypeOK, PermitsHeld
<1>4. closed' \in SUBSET Conns
  BY DEF BorrowFails, NothingGood, InList, PoolInv, PoolTypeOK
<1>5. /\ user[u].at # "using" /\ user'[u].at # "using"
      /\ user'[u].conn = user[u].conn
      /\ PoolTypeOK'
      /\ inUse' = inUse /\ made' = made /\ stale' = stale /\ shut' = shut
      /\ idle' = idle \/ idle' = <<>>
      /\ closed' = closed \/ (closed' = closed \cup InList(idle) /\ idle' = <<>>)
  BY <1>1, <1>4 DEF BorrowFails, NothingGood, PoolInv, PoolTypeOK
<1> QED BY <1>1, <1>3, <1>5, MovingKeeps

LEMMA ReturnKeeps ==
  ASSUME PoolInv, NEW u \in Users, Return(u)
  PROVE  PoolInv' /\ Contract!Next
<1>1. \/ idle' = Append(idle, user[u].conn) /\ UNCHANGED closed
      \/ UNCHANGED idle /\ closed' = closed \cup {user[u].conn}
  BY DEF Return
<1>2. /\ user[u].at = "using" /\ Returned(u)
      /\ UNCHANGED <<permits, made, stale, shut>>
  BY DEF Return
<1> QED BY <1>1, <1>2, TakingBackKeeps

-----------------------------------------------------------------------------
(* The steps of the database pool.                                           *)

LEMMA DbBorrowPooledKeeps ==
  ASSUME PoolInv, NEW u \in Users, DbBorrowPooled(u)
  PROVE  PoolInv' /\ Contract!Next
<1>1. PICK k \in DOMAIN idle :
        IsFirstGood(k) /\ idle' = Except(idle, k) /\ Use(u, idle[k])
  BY DEF DbBorrowPooled
<1>2. /\ idle \in Seq(Conns) /\ DOMAIN idle = 1 .. Len(idle)
      /\ Len(idle) \in Nat /\ k \in 1 .. Len(idle)
  BY DEF PoolInv, PoolTypeOK
<1>3. /\ idle' \in Seq(Conns)
      /\ DOMAIN idle' = 1 .. Len(idle) - 1
      /\ \A i \in 1 .. Len(idle) - 1 :
           /\ i \in DOMAIN idle /\ i + 1 \in DOMAIN idle
           /\ idle'[i] = IF i < k THEN idle[i] ELSE idle[i + 1]
  BY <1>1, <1>2, ExceptFacts
<1>4. /\ idle[k] \in Conns /\ idle[k] \in made
      /\ \A v \in Users : user[v].conn # idle[k]
  BY <1>2 DEF PoolInv, ListApart
<1>5. \A i, j \in DOMAIN idle' : idle'[i] = idle'[j] => i = j
  <2>1. \A i, j \in DOMAIN idle : idle[i] = idle[j] => i = j
    BY DEF PoolInv, ListApart
  <2> SUFFICES ASSUME NEW i \in 1 .. Len(idle) - 1, NEW j \in 1 .. Len(idle) - 1,
                      idle'[i] = idle'[j]
               PROVE  i = j
    BY <1>3
  <2>2. CASE i < k /\ j < k BY <1>3, <2>1, <2>2
  <2>3. CASE i < k /\ ~(j < k)
    <3>1. i = j + 1 BY <1>3, <2>1, <2>3
    <3> QED BY <1>2, <2>3, <3>1
  <2>4. CASE ~(i < k) /\ j < k
    <3>1. i + 1 = j BY <1>3, <2>1, <2>4
    <3> QED BY <1>2, <2>4, <3>1
  <2>5. CASE ~(i < k) /\ ~(j < k)
    <3>1. i + 1 = j + 1 BY <1>3, <2>1, <2>5
    <3> QED BY <1>2, <3>1
  <2> QED BY <2>2, <2>3, <2>4, <2>5
<1>6. \A i \in DOMAIN idle' :
        idle'[i] # idle[k] /\ \E j \in DOMAIN idle : idle'[i] = idle[j]
  <2>1. \A i, j \in DOMAIN idle : idle[i] = idle[j] => i = j
    BY DEF PoolInv, ListApart
  <2> SUFFICES ASSUME NEW i \in 1 .. Len(idle) - 1
               PROVE  idle'[i] # idle[k] /\ \E j \in DOMAIN idle : idle'[i] = idle[j]
    BY <1>3
  <2>2. /\ i \in DOMAIN idle /\ i + 1 \in DOMAIN idle /\ k \in DOMAIN idle
        /\ idle'[i] = IF i < k THEN idle[i] ELSE idle[i + 1]
    BY <1>2, <1>3
  <2>3. CASE i < k
    <3>1. idle'[i] = idle[i] BY <2>2, <2>3
    <3>2. i # k BY <1>2, <2>3
    <3> QED BY <2>1, <2>2, <3>1, <3>2
  <2>4. CASE ~(i < k)
    <3>1. idle'[i] = idle[i + 1] BY <2>2, <2>4
    <3>2. i + 1 # k BY <1>2, <2>4
    <3> QED BY <2>1, <2>2, <3>1, <3>2
  <2> QED BY <2>3, <2>4
<1>7. /\ user[u].at = "granted" /\ closed' = closed
      /\ UNCHANGED <<permits, stale, shut>>
      /\ made' = made /\ made' \in SUBSET Conns
  BY DEF DbBorrowPooled, PoolInv, PoolTypeOK
<1>8. /\ closed \subseteq closed' /\ closed' \subseteq made
      /\ \A v \in Users : user[v].conn \notin closed' \ closed
  BY <1>7 DEF PoolInv, OpenUntilShut
<1>9. ~shut => /\ idle[k] \notin closed'
               /\ \A i \in DOMAIN idle' : idle'[i] \notin closed'
  BY <1>6, <1>7 DEF PoolInv, OpenUntilShut
<1> QED BY <1>1, <1>3, <1>4, <1>5, <1>6, <1>7, <1>8, <1>9, LendingKeeps

LEMMA DbBorrowNewKeeps ==
  ASSUME PoolInv, NEW u \in Users, DbBorrowNew(u)
  PROVE  PoolInv' /\ Contract!Next
<1>1. PICK c \in Conns \ made : made' = made \cup {c} /\ Use(u, c)
  BY DEF DbBorrowNew
<1>2. /\ user[u].at = "granted" /\ idle' = idle /\ closed' = closed
      /\ UNCHANGED <<permits, stale, shut>>
  BY DEF DbBorrowNew
<1>3. \A v \in Users : user[v].conn # c
  BY NoConnAssumption DEF PoolInv, ListApart
<1>4. /\ made \subseteq made' /\ made' \in SUBSET Conns /\ c \in made' /\ c \in Conns
      /\ idle' \in Seq(Conns)
  BY <1>1, <1>2 DEF PoolInv, PoolTypeOK
<1>5. /\ \A i, j \in DOMAIN idle' : idle'[i] = idle'[j] => i = j
      /\ \A i \in DOMAIN idle' :
           idle'[i] # c /\ \E j \in DOMAIN idle : idle'[i] = idle[j]
  BY <1>2 DEF PoolInv, ListApart
<1>6. /\ closed \subseteq closed' /\ closed' \subseteq made
      /\ \A v \in Users : user[v].conn \notin closed' \ closed
  BY <1>2 DEF PoolInv, OpenUntilShut
<1>7. ~shut => c \notin closed' /\ \A i \in DOMAIN idle' : idle'[i] \notin closed'
  BY <1>2, <1>6 DEF PoolInv, OpenUntilShut
<1> QED BY <1>1, <1>2, <1>3, <1>4, <1>5, <1>6, <1>7, LendingKeeps

LEMMA DbBorrowFailsKeeps ==
  ASSUME PoolInv, NEW u \in Users, DbBorrowFails(u)
  PROVE  PoolInv' /\ [Contract!Next]_Contract!vars
<1>1. user'[u].at = "returned" /\ \A v \in Users \ {u} : user'[v] = user[v]
  BY DEF DbBorrowFails, PoolInv, PoolTypeOK
<1>2. Busy' = Busy
  BY <1>1, BusyMoves DEF DbBorrowFails, PoolInv
<1>3. PermitsHeld'
  BY <1>2 DEF DbBorrowFails, PoolInv, PermitsHeld
<1>4. /\ user[u].at # "using" /\ user'[u].at # "using"
      /\ user'[u].conn = user[u].conn
      /\ PoolTypeOK'
      /\ inUse' = inUse /\ made' = made /\ stale' = stale /\ shut' = shut
      /\ idle' = idle \/ idle' = <<>>
      /\ closed' = closed \/ (closed' = closed \cup InList(idle) /\ idle' = <<>>)
  BY <1>1 DEF DbBorrowFails, PoolInv, PoolTypeOK
<1> QED BY <1>1, <1>3, <1>4, MovingKeeps

LEMMA DbReturnKeeps ==
  ASSUME PoolInv, NEW u \in Users, DbReturn(u)
  PROVE  PoolInv' /\ Contract!Next
<1>1. /\ user[u].at = "using" /\ Returned(u)
      /\ idle' = Append(idle, user[u].conn) /\ UNCHANGED closed
      /\ UNCHANGED <<permits, made, stale, shut>>
  BY DEF DbReturn
<1> QED BY <1>1, TakingBackKeeps

-----------------------------------------------------------------------------
LEMMA InitHolds == PoolInit => PoolInv /\ Contract!Init
<1> SUFFICES ASSUME PoolInit PROVE PoolInv /\ Contract!Init
  OBVIOUS
<1>1. PICK n \in 0 .. MinSize : \E s \in [1 .. n -> Conns] :
        /\ \A i, j \in 1 .. n : s[i] = s[j] => i = j
        /\ idle = s /\ made = InList(s)
  BY DEF PoolInit
<1>2. /\ idle \in [1 .. n -> Conns]
      /\ \A i, j \in 1 .. n : idle[i] = idle[j] => i = j
      /\ made = {idle[i] : i \in 1 .. n}
  BY <1>1 DEF InList
<1>3. n \in Nat
  BY SizeAssumption
<1>4. idle \in Seq(Conns)
  BY <1>2, <1>3
<1>5. /\ permits = MaxSize /\ inUse = {} /\ stale = {} /\ closed = {} /\ shut = FALSE
      /\ user = [u \in Users |-> [at |-> "out", conn |-> NoConn]]
  BY DEF PoolInit
<1>6. PoolTypeOK
  <2>1. made \in SUBSET Conns BY <1>2
  <2>2. user \in [Users -> [at : {"out", "granted", "using", "returned"},
                            conn : Conns \cup {NoConn}]]
    BY <1>5
  <2>3. permits \in 0 .. MaxSize BY <1>5, SizeAssumption
  <2> QED BY <1>4, <1>5, <2>1, <2>2, <2>3 DEF PoolTypeOK
<1>7. UsersApart /\ ListApart /\ OpenUntilShut
  BY <1>2, <1>5, NoConnAssumption DEF UsersApart, ListApart, OpenUntilShut
<1>8. PermitsHeld
  <2>1. Busy = {} BY <1>5 DEF Busy
  <2>2. Cardinality({}) = 0 BY FS_EmptySet
  <2> QED BY <1>5, <2>1, <2>2, SizeAssumption DEF PermitsHeld
<1>9. Contract!Init
  BY <1>5 DEF Contract!Init
<1> QED BY <1>6, <1>7, <1>8, <1>9 DEF PoolInv

LEMMA ResourceStep ==
  ASSUME PoolInv, [ResourceNext]_poolVars
  PROVE  PoolInv' /\ [Contract!Next]_Contract!vars
<1>1. CASE \E u \in Users : TakePermit(u) \/ BorrowFails(u) \/ GivePermit(u)
  BY <1>1, TakePermitKeeps, BorrowFailsKeeps, GivePermitKeeps
<1>2. CASE \E u \in Users : BorrowPooled(u) \/ BorrowNew(u) \/ Return(u)
  BY <1>2, BorrowPooledKeeps, BorrowNewKeeps, ReturnKeeps
<1>3. CASE CloseAll \/ (\E c \in Conns : Outlive(c)) \/ UNCHANGED poolVars
  BY <1>3, CloseAllKeeps, OutliveKeeps, StutterKeeps
<1> QED BY <1>1, <1>2, <1>3 DEF ResourceNext

LEMMA DbStep ==
  ASSUME PoolInv, [DbNext]_poolVars
  PROVE  PoolInv' /\ [Contract!Next]_Contract!vars
<1>1. CASE \E u \in Users : TakePermit(u) \/ DbBorrowFails(u) \/ GivePermit(u)
  BY <1>1, TakePermitKeeps, DbBorrowFailsKeeps, GivePermitKeeps
<1>2. CASE \E u \in Users : DbBorrowPooled(u) \/ DbBorrowNew(u) \/ DbReturn(u)
  BY <1>2, DbBorrowPooledKeeps, DbBorrowNewKeeps, DbReturnKeeps
<1>3. CASE CloseAll \/ (\E c \in Conns : Outlive(c)) \/ UNCHANGED poolVars
  BY <1>3, CloseAllKeeps, OutliveKeeps, StutterKeeps
<1> QED BY <1>1, <1>2, <1>3 DEF DbNext

-----------------------------------------------------------------------------
\* The generic pool: list, table, permits and users' hands stay consistent,
\* whoever waits, fails to get a connection or returns one after close_all.
THEOREM ResourcePoolSafe == ResourceSpec => []PoolInv
<1>1. PoolInit => PoolInv BY InitHolds
<1>2. PoolInv /\ [ResourceNext]_poolVars => PoolInv' BY ResourceStep
<1> QED BY <1>1, <1>2, PTL DEF ResourceSpec

\* The database pool keeps the same consistency.
THEOREM DbPoolSafe == DbSpec => []PoolInv
<1>1. PoolInit => PoolInv BY InitHolds
<1>2. PoolInv /\ [DbNext]_poolVars => PoolInv' BY DbStep
<1> QED BY <1>1, <1>2, PTL DEF DbSpec

\* The generic pool implements the contract: no connection in two hands, no
\* more than MaxSize out, none closed under its user before close_all.
THEOREM ResourcePoolKeepsContract == ResourceSpec => PoolKeepsContract
<1>1. PoolInit => Contract!Init BY InitHolds
<1>2. PoolInv /\ [ResourceNext]_poolVars => [Contract!Next]_Contract!vars
  BY ResourceStep
<1> QED BY <1>1, <1>2, ResourcePoolSafe, PTL
        DEF ResourceSpec, PoolKeepsContract, Contract!Spec

\* And so does the database pool.
THEOREM DbPoolKeepsContract == DbSpec => PoolKeepsContract
<1>1. PoolInit => Contract!Init BY InitHolds
<1>2. PoolInv /\ [DbNext]_poolVars => [Contract!Next]_Contract!vars
  BY DbStep
<1> QED BY <1>1, <1>2, DbPoolSafe, PTL
        DEF DbSpec, PoolKeepsContract, Contract!Spec
-----------------------------------------------------------------------------
(* The permits of the database pool.                                         *)

\* Every permit is there or with a user who will give it back.
PermitsReturn == permits + Cardinality(Busy) = MaxSize

LEMMA PermitsStep ==
  ASSUME PoolInv, PermitsReturn, [DbNext]_poolVars
  PROVE  PermitsReturn'
<1>1. permits \in Nat /\ Cardinality(Busy) \in Nat
  BY BusyFinite, SizeAssumption DEF PoolInv, PoolTypeOK
<1>2. ASSUME NEW u \in Users, TakePermit(u) PROVE PermitsReturn'
  <2>1. user[u].at = "out" /\ user' = [user EXCEPT ![u].at = "granted"] /\ permits' = permits - 1
    BY <1>2 DEF TakePermit
  <2>2. user'[u].at = "granted" /\ \A v \in Users \ {u} : user'[v] = user[v]
    BY <2>1 DEF PoolInv, PoolTypeOK
  <2>3. Cardinality(Busy') = Cardinality(Busy) + 1
    BY <2>1, <2>2, BusyMoves DEF PoolInv
  <2> QED BY <1>1, <2>1, <2>3, SizeAssumption DEF PermitsReturn
<1>3. ASSUME NEW u \in Users, GivePermit(u) PROVE PermitsReturn'
  <2>1. user[u].at = "returned" /\ user' = [user EXCEPT ![u].at = "out"] /\ permits' = permits + 1
    BY <1>3 DEF GivePermit
  <2>2. user'[u].at = "out" /\ \A v \in Users \ {u} : user'[v] = user[v]
    BY <2>1 DEF PoolInv, PoolTypeOK
  <2>3. Cardinality(Busy') = Cardinality(Busy) - 1
    BY <2>1, <2>2, BusyMoves DEF PoolInv
  <2> QED BY <1>1, <2>1, <2>3, SizeAssumption DEF PermitsReturn
<1>4. ASSUME NEW u \in Users, DbBorrowFails(u) PROVE PermitsReturn'
  <2>1. /\ user[u].at # "out" /\ permits' = permits
        /\ user' = [user EXCEPT ![u].at = "returned"]
    BY <1>4 DEF DbBorrowFails
  <2>2. user'[u].at # "out" /\ \A v \in Users \ {u} : user'[v] = user[v]
    BY <2>1 DEF PoolInv, PoolTypeOK
  <2>3. Busy' = Busy
    BY <2>1, <2>2, BusyMoves DEF PoolInv
  <2> QED BY <2>1, <2>3 DEF PermitsReturn
<1>5. ASSUME NEW u \in Users, DbBorrowPooled(u) \/ DbBorrowNew(u) \/ DbReturn(u)
      PROVE  PermitsReturn'
  <2>1. PICK x : /\ x.at # "out" /\ user' = [user EXCEPT ![u] = x]
                 /\ user[u].at # "out" /\ permits' = permits
    <3>1. user[u].at # "out" /\ permits' = permits
      BY <1>5 DEF DbBorrowPooled, DbBorrowNew, DbReturn
    <3>2. CASE DbReturn(u)
      BY <3>1, <3>2 DEF DbReturn, Returned
    <3>3. CASE DbBorrowPooled(u) \/ DbBorrowNew(u)
      BY <3>1, <3>3 DEF DbBorrowPooled, DbBorrowNew, Use
    <3> QED BY <1>5, <3>2, <3>3
  <2>2. user'[u].at # "out" /\ \A v \in Users \ {u} : user'[v] = user[v]
    BY <2>1 DEF PoolInv, PoolTypeOK
  <2>3. Busy' = Busy
    BY <2>1, <2>2, BusyMoves DEF PoolInv
  <2> QED BY <2>1, <2>3 DEF PermitsReturn
<1>6. CASE CloseAll \/ (\E c \in Conns : Outlive(c)) \/ UNCHANGED poolVars
  BY <1>6 DEF CloseAll, Outlive, poolVars, PermitsReturn, Busy
<1> QED BY <1>2, <1>3, <1>4, <1>5, <1>6 DEF DbNext

\* The database pool loses no permit, however often no connection can be made:
\* with nobody inside acquire all MaxSize are there. (ResourcePool loses one.)
THEOREM PermitsReturnHolds == DbSpec => []PermitsReturn
<1>1. PoolInit => PermitsReturn
  <2> SUFFICES ASSUME PoolInit PROVE PermitsReturn
    OBVIOUS
  <2>1. Busy = {} /\ permits = MaxSize
    BY DEF PoolInit, Busy
  <2> QED BY <2>1, FS_EmptySet, SizeAssumption DEF PermitsReturn
<1>2. PoolInit => PoolInv
  BY InitHolds
<1>3. PoolInv /\ PermitsReturn /\ [DbNext]_poolVars => PoolInv' /\ PermitsReturn'
  BY DbStep, PermitsStep
<1> QED BY <1>1, <1>2, <1>3, PTL DEF DbSpec

-----------------------------------------------------------------------------
(* The model that is checked, where one of the parts moves.                  *)

\* What MCServices explores are behaviours of the router and of the context
\* manager.
THEOREM ServicePartsKept == MCSpec => LlmSpec /\ ContextSpec
<1>1. MCInit => LlmInit /\ ContextInit
  BY DEF MCInit
<1>2. [MCNext]_<<part, llmVars, poolVars, contextVars>>
        => [LlmNext]_llmVars /\ [ContextNext]_contextVars
  BY DEF MCNext
<1> QED BY <1>1, <1>2, PTL DEF MCSpec, LlmSpec, ContextSpec

\* Whichever of the two pools moves, it keeps the contract.
THEOREM CheckedPoolsKeepContract == MCSpec => []PoolInv /\ PoolKeepsContract
<1>1. MCInit => PoolInv /\ Contract!Init
  BY InitHolds DEF MCInit
<1>2. PoolInv /\ [MCNext]_<<part, llmVars, poolVars, contextVars>>
        => PoolInv' /\ [Contract!Next]_Contract!vars
  <2> SUFFICES ASSUME PoolInv, [MCNext]_<<part, llmVars, poolVars, contextVars>>
               PROVE  PoolInv' /\ [Contract!Next]_Contract!vars
    OBVIOUS
  <2>1. [ResourceNext]_poolVars \/ [DbNext]_poolVars
    BY DEF MCNext
  <2> QED BY <2>1, ResourceStep, DbStep
<1> QED BY <1>1, <1>2, PTL DEF MCSpec, PoolKeepsContract, Contract!Spec

\* Every variable of the model keeps its type.
THEOREM ServiceTypes == MCSpec => []ServicesTypeOK
<1>1. PoolInv => PoolTypeOK
  BY DEF PoolInv
<1> QED BY <1>1, ServicePartsKept, CheckedPoolsKeepContract, LlmTypes, ContextTypes, PTL
        DEF ServicesTypeOK
=============================================================================

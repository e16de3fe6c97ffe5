------------------------------ MODULE LlmCalls ------------------------------
(* LLMRouter.generate (core/llm_router.py) and the cache it shares between   *)
(* the agents (llm/cache.py), called from several threads. A call looks its  *)
(* key up, asks the client when there is no live entry, and stores what it   *)
(* was answered. The cache is locked for one operation at a time, never for  *)
(* a whole call: two threads that miss the same key both ask the client.     *)
EXTENDS Integers, FiniteSets, SequencesExt

CONSTANTS
  Callers,     \* threads that generate text
  Keys,        \* cache keys, one for each prompt and set of parameters
  Capacity,    \* LRUCache.capacity
  MaxTexts     \* bound: texts the client writes for one key

ASSUME CapacityAssumption == Capacity \in Nat \ {0}
ASSUME MaxTextsAssumption == MaxTexts \in Nat

VARIABLES
  held,        \* LRUCache.cache: the key's entry, Nothing without one
  lru,         \* LRUCache.lru_list, the least recently used key first
  old,         \* keys whose entry has outlived its ttl
  call,        \* [Callers -> [at, key, answer]]
  written      \* texts the client has written for each key so far

llmVars == <<held, lru, old, call, written>>

\* A text names the key it was written for and counts the texts of that key;
\* number 0 is the empty text some providers answer.
Texts == Keys \X (0 .. MaxTexts)
Nothing == <<>>
Blank(k) == <<k, 0>>

Idle == [at |-> "idle", key |-> Nothing, answer |-> Nothing]

LlmTypeOK ==
  /\ held \in [Keys -> Texts \cup {Nothing}]
  /\ lru \in Seq(Keys)
  /\ old \in SUBSET Keys
  /\ call \in [Callers -> [at : {"idle", "missed", "answered"},
                           key : Keys \cup {Nothing},
                           answer : Texts \cup {Nothing}]]
  /\ written \in [Keys -> 0 .. MaxTexts]

LlmInit ==
  /\ held = [k \in Keys |-> Nothing]
  /\ lru = <<>>
  /\ old = {}
  /\ call = [c \in Callers |-> Idle]
  /\ written = [k \in Keys |-> 0]

Cached == {k \in Keys : held[k] # Nothing}

-----------------------------------------------------------------------------
(* The cache.                                                                *)

\* _remove and _touch take a key out of the list where it stands first.
Without(k) == RemoveFirst(lru, k)

\* get of a live entry moves its key to the recent end.
Touch(k) ==
  /\ lru' = Append(Without(k), k)
  /\ UNCHANGED <<held, old>>

\* get of an expired entry removes it.
Expire(k) ==
  /\ held' = [held EXCEPT ![k] = Nothing]
  /\ lru' = Without(k)
  /\ old' = old \ {k}

\* The key dropped when the other entries fill the cache: the head of rest.
Dropped(k, rest) ==
  IF Cardinality(Cached \ {k}) >= Capacity THEN {Head(rest)} ELSE {}

\* Mutant of Put: the key's earlier place in the list is not given up.
PutTwice(k, text) ==
  LET out == Dropped(k, lru)
  IN  /\ held' = [x \in Keys |-> IF x = k THEN text
                                 ELSE IF x \in out THEN Nothing ELSE held[x]]
      /\ lru' = Append(IF out = {} THEN lru ELSE Tail(lru), k)
      /\ old' = old \ (out \cup {k})

\* put gives up the key's earlier entry, drops the oldest key when there is no
\* room, and adds the entry.
Put(k, text) ==
  LET rest == Without(k)
      out == Dropped(k, rest)
  IN  /\ held' = [x \in Keys |-> IF x = k THEN text
                                 ELSE IF x \in out THEN Nothing ELSE held[x]]
      /\ lru' = Append(IF out = {} THEN rest ELSE Tail(rest), k)
      /\ old' = old \ (out \cup {k})

\* Time passes: the entries of S outlive their ttl.
Age(S) ==
  /\ S # {} /\ S \subseteq Cached \ old
  /\ old' = old \cup S
  /\ UNCHANGED <<held, lru, call, written>>

-----------------------------------------------------------------------------
(* generate.                                                                 *)

Answered(c, k, text) ==
  call' = [call EXCEPT ![c] = [at |-> "answered", key |-> k, answer |-> text]]

\* Mutant of Ask: the entry last used is taken for the one asked for.
AskAnything(c, k) ==
  /\ call[c].at = "idle"
  /\ \/ Cached # {} /\ Touch(Last(lru)) /\ Answered(c, k, held[Last(lru)])
     \/ /\ Cached = {} /\ UNCHANGED <<held, lru, old>>
        /\ call' = [call EXCEPT ![c] = [at |-> "missed", key |-> k,
                                        answer |-> Nothing]]
  /\ UNCHANGED written

\* A cached text, the empty one included, is the answer; otherwise the client
\* is asked.
Ask(c, k) ==
  /\ call[c].at = "idle"
  /\ \/ k \in Cached \ old /\ Touch(k) /\ Answered(c, k, held[k])
     \/ /\ k \notin Cached \ old
        /\ IF k \in Cached THEN Expire(k) ELSE UNCHANGED <<held, lru, old>>
        /\ call' = [call EXCEPT ![c] = [at |-> "missed", key |-> k,
                                        answer |-> Nothing]]
  /\ UNCHANGED written

\* The client writes a text, or answers an empty one.
ClientWrites(c) ==
  /\ call[c].at = "missed"
  /\ LET k == call[c].key
         text == <<k, written[k] + 1>>
     IN  /\ written[k] < MaxTexts
         /\ written' = [written EXCEPT ![k] = @ + 1]
         /\ Put(k, text) /\ Answered(c, k, text)

ClientAnswersBlank(c) ==
  /\ call[c].at = "missed"
  /\ LET text == Blank(call[c].key)
     IN  Put(call[c].key, text) /\ Answered(c, call[c].key, text)
  /\ UNCHANGED written

\* The client raises: the answer is None, and nothing is stored.
ClientFails(c) ==
  /\ call[c].at = "missed"
  /\ Answered(c, call[c].key, Nothing)
  /\ UNCHANGED <<held, lru, old, written>>

ClientReturns(c) == ClientWrites(c) \/ ClientAnswersBlank(c) \/ ClientFails(c)

\* The caller goes on with the answer.
Leave(c) ==
  /\ call[c].at = "answered"
  /\ call' = [call EXCEPT ![c] = Idle]
  /\ UNCHANGED <<held, lru, old, written>>

\* The calls alone, without the agents that make them.
LlmNext ==
  \/ \E c \in Callers, k \in Keys : Ask(c, k)
  \/ \E c \in Callers : ClientReturns(c) \/ Leave(c)
  \/ \E S \in SUBSET Keys : Age(S)

LlmSpec == LlmInit /\ [][LlmNext]_llmVars

-----------------------------------------------------------------------------
(* Properties.                                                               *)

\* The dictionary and the list of LRUCache hold the same keys, each once, and
\* never more than the capacity: put's loop, which drops the head of the list
\* for as long as the dictionary is full, has a head to drop.
CacheAgrees ==
  /\ ToSet(lru) = Cached
  /\ Len(lru) = Cardinality(Cached)
  /\ Len(lru) <= Capacity
  /\ old \subseteq Cached
=============================================================================

---------------------------- MODULE ListLemmas ----------------------------
(* What Python's list operations do to a list in which no element stands     *)
(* twice, and what the two operations of an LRU list built from them do.     *)
EXTENDS Integers, SequencesExt, FiniteSetTheorems, FunctionTheorems,
        WellFoundedInduction, TLAPS

-----------------------------------------------------------------------------
\* A set of numbers has a least one.
LEMMA MinFacts ==
  ASSUME NEW S \in SUBSET Nat, S # {}
  PROVE  Min(S) \in S /\ \A y \in S : Min(S) <= y
<1> DEFINE Less == {ss \in Nat \X Nat : ss[1] < ss[2]}
<1>1. IsWellFoundedOn(Less, Nat)
  <2>1. OpToRel(<, Nat) = Less
    BY Zenon DEF OpToRel
  <2> QED BY <2>1, NatLessThanWellFounded
<1>2. PICK x \in S : \A y \in S : <<y, x>> \notin Less
  <2> HIDE DEF Less
  <2> QED BY <1>1, WFMin
<1>3. \A y \in S : x <= y
  <2> SUFFICES ASSUME NEW y \in S PROVE x <= y
    OBVIOUS
  <2>1. x \in Nat /\ y \in Nat
    OBVIOUS
  <2>2. <<y, x>> \in Less <=> y < x
    BY <2>1
  <2> QED BY <1>2, <2>1, <2>2
<1> QED BY <1>3 DEF Min

-----------------------------------------------------------------------------
(* Lists without repetition.                                                 *)

\* A list in which no key stands twice.
Distinct(s) == \A i, j \in 1 .. Len(s) : s[i] = s[j] => i = j

\* Taking a key out where it stands leaves the others, in their order.
LEMMA RemoveDistinct ==
  ASSUME NEW K, NEW s \in Seq(K), Distinct(s), NEW e
  PROVE  /\ RemoveFirst(s, e) \in Seq(K)
         /\ Distinct(RemoveFirst(s, e))
         /\ ToSet(RemoveFirst(s, e)) = ToSet(s) \ {e}
<1>1. ToSet(s) = {s[i] : i \in 1 .. Len(s)}
  BY DEF ToSet
<1>2. CASE e \notin ToSet(s)
  <2>1. ~ \E i \in 1 .. Len(s) : s[i] = e
    BY <1>1, <1>2
  <2> QED BY <1>2, <2>1 DEF RemoveFirst
<1>3. CASE e \in ToSet(s)
  <2> DEFINE I == {i \in 1 .. Len(s) : s[i] = e}
             at == Min(I)
             r == RemoveAt(s, at)
  <2>1. I # {} /\ I \in SUBSET Nat
    BY <1>1, <1>3
  <2>2. at \in I
    <3> HIDE DEF I
    <3> QED BY <2>1, MinFacts
  <2>3. at \in 1 .. Len(s) /\ s[at] = e
    BY <2>2
  <2>4. RemoveFirst(s, e) = r
    BY <2>1, <2>3 DEF RemoveFirst, SelectInSeq
  <2> HIDE DEF at
  <2>5. /\ r \in Seq(K) /\ Len(r) = Len(s) - 1
        /\ \A i \in 1 .. Len(s) - 1 : r[i] = IF i < at THEN s[i] ELSE s[i + 1]
    <3> DEFINE front == SubSeq(s, 1, at - 1)
               back == SubSeq(s, at + 1, Len(s))
    <3>1. front \in Seq(K) /\ Len(front) = at - 1
          /\ \A i \in 1 .. at - 1 : front[i] = s[i]
      BY <2>3
    <3>2. back \in Seq(K) /\ Len(back) = Len(s) - at
          /\ \A i \in 1 .. Len(s) - at : back[i] = s[i + at]
      BY <2>3
    <3>3. r = front \o back
      BY DEF RemoveAt
    <3> HIDE DEF front, back, r
    <3>4. r \in Seq(K) /\ Len(r) = Len(s) - 1
      BY <2>3, <3>1, <3>2, <3>3
    <3>5. ASSUME NEW i \in 1 .. Len(s) - 1
          PROVE  r[i] = IF i < at THEN s[i] ELSE s[i + 1]
      <4>1. r[i] = IF i <= at - 1 THEN front[i] ELSE back[i - (at - 1)]
        BY <2>3, <3>1, <3>2, <3>3
      <4>2. CASE i < at
        BY <2>3, <3>1, <4>1, <4>2
      <4>3. CASE ~(i < at)
        <5>1. i - (at - 1) \in 1 .. Len(s) - at /\ i - (at - 1) + at = i + 1
          BY <2>3, <4>3
        <5> QED BY <2>3, <3>2, <4>1, <4>3, <5>1
      <4> QED BY <4>2, <4>3
    <3> QED BY <3>4, <3>5
  <2>6. Distinct(r)
    <3> SUFFICES ASSUME NEW i \in 1 .. Len(r), NEW j \in 1 .. Len(r), r[i] = r[j]
                 PROVE  i = j
      BY DEF Distinct
    <3> HIDE DEF r
    <3> DEFINE p(k) == IF k < at THEN k ELSE k + 1
    <3>1. p(i) \in 1 .. Len(s) /\ p(j) \in 1 .. Len(s) /\ s[p(i)] = s[p(j)]
      BY <2>3, <2>5
    <3>2. p(i) = p(j)
      BY <3>1 DEF Distinct
    <3> QED BY <2>3, <3>2
  <2>7. ToSet(r) \subseteq ToSet(s) \ {e}
    <3> SUFFICES ASSUME NEW i \in 1 .. Len(r) PROVE r[i] \in ToSet(s) \ {e}
      BY DEF ToSet
    <3> HIDE DEF r
    <3> DEFINE p == IF i < at THEN i ELSE i + 1
    <3>1. p \in 1 .. Len(s) /\ p # at /\ r[i] = s[p]
      BY <2>3, <2>5
    <3>2. s[p] # s[at]
      BY <2>3, <3>1 DEF Distinct
    <3> QED BY <1>1, <2>3, <3>1, <3>2
  <2>8. ToSet(s) \ {e} \subseteq ToSet(r)
    <3> SUFFICES ASSUME NEW i \in 1 .. Len(s), s[i] # e PROVE s[i] \in ToSet(r)
      BY <1>1
    <3> HIDE DEF r
    <3> DEFINE p == IF i < at THEN i ELSE i - 1
    <3>1. p \in 1 .. Len(r) /\ r[p] = s[i]
      BY <2>3, <2>5
    <3> QED BY <3>1 DEF ToSet
  <2> QED BY <2>4, <2>5, <2>6, <2>7, <2>8
<1> QED BY <1>2, <1>3

LEMMA TailDistinct ==
  ASSUME NEW K, NEW s \in Seq(K), Distinct(s), s # <<>>
  PROVE  /\ Head(s) \in ToSet(s)
         /\ Tail(s) \in Seq(K) /\ Distinct(Tail(s))
         /\ ToSet(Tail(s)) = ToSet(s) \ {Head(s)}
<1> DEFINE t == Tail(s)
<1>1. /\ Len(s) >= 1 /\ t \in Seq(K) /\ Len(t) = Len(s) - 1 /\ Head(s) = s[1]
      /\ \A i \in 1 .. Len(s) - 1 : t[i] = s[i + 1]
  OBVIOUS
<1> HIDE DEF t
<1>2. Distinct(t)
  <2> SUFFICES ASSUME NEW i \in 1 .. Len(t), NEW j \in 1 .. Len(t), t[i] = t[j]
               PROVE  i = j
    BY DEF Distinct
  <2>1. i + 1 \in 1 .. Len(s) /\ j + 1 \in 1 .. Len(s) /\ s[i + 1] = s[j + 1]
    BY <1>1
  <2>2. i + 1 = j + 1
    BY <2>1 DEF Distinct
  <2> QED BY <2>2
<1>3. ToSet(t) = {t[i] : i \in 1 .. Len(t)} /\ ToSet(s) = {s[i] : i \in 1 .. Len(s)}
  BY <1>1 DEF ToSet
<1>4. ToSet(t) \subseteq ToSet(s) \ {s[1]}
  <2> SUFFICES ASSUME NEW i \in 1 .. Len(t) PROVE t[i] \in ToSet(s) \ {s[1]}
    BY <1>3
  <2>1. i + 1 \in 1 .. Len(s) /\ 1 \in 1 .. Len(s) /\ t[i] = s[i + 1]
    BY <1>1
  <2>2. s[i + 1] # s[1]
    BY <2>1 DEF Distinct
  <2> QED BY <1>3, <2>1, <2>2
<1>5. ToSet(s) \ {s[1]} \subseteq ToSet(t)
  <2> SUFFICES ASSUME NEW i \in 1 .. Len(s), s[i] # s[1] PROVE s[i] \in ToSet(t)
    BY <1>3
  <2>1. i - 1 \in 1 .. Len(t) /\ t[i - 1] = s[i]
    BY <1>1
  <2> QED BY <1>3, <2>1
<1>6. Head(s) \in ToSet(s)
  BY <1>1, <1>3
<1> QED BY <1>1, <1>2, <1>4, <1>5, <1>6 DEF t

LEMMA AppendDistinct ==
  ASSUME NEW K, NEW s \in Seq(K), Distinct(s), NEW e \in K, e \notin ToSet(s)
  PROVE  /\ Append(s, e) \in Seq(K) /\ Distinct(Append(s, e))
         /\ ToSet(Append(s, e)) = ToSet(s) \cup {e}
<1> DEFINE t == Append(s, e)
<1>1. /\ Len(s) \in Nat /\ t \in Seq(K) /\ Len(t) = Len(s) + 1 /\ t[Len(s) + 1] = e
      /\ \A i \in 1 .. Len(s) : t[i] = s[i]
  OBVIOUS
<1> HIDE DEF t
<1>2. ToSet(t) = {t[i] : i \in 1 .. Len(t)} /\ ToSet(s) = {s[i] : i \in 1 .. Len(s)}
  BY <1>1 DEF ToSet
<1>3. \A i \in 1 .. Len(s) : s[i] # e
  BY <1>2
<1>4. Distinct(t)
  BY <1>1, <1>3 DEF Distinct
<1>5. ToSet(t) = ToSet(s) \cup {e}
  <2>1. \A i \in 1 .. Len(t) : t[i] \in ToSet(s) \cup {e}
    BY <1>1, <1>2
  <2>2. \A i \in 1 .. Len(s) : s[i] \in ToSet(t)
    BY <1>1, <1>2
  <2>3. e \in ToSet(t)
    BY <1>1, <1>2
  <2> QED BY <1>2, <2>1, <2>2, <2>3
<1> QED BY <1>1, <1>4, <1>5 DEF t

LEMMA DistinctLength ==
  ASSUME NEW K, NEW s \in Seq(K), Distinct(s)
  PROVE  IsFiniteSet(ToSet(s)) /\ Len(s) = Cardinality(ToSet(s))
<1>1. IsFiniteSet(1 .. Len(s)) /\ Cardinality(1 .. Len(s)) = Len(s)
  <2>1. Len(s) \in Nat
    OBVIOUS
  <2> HIDE DEF Distinct
  <2> QED BY <2>1, FS_Interval, 1 \in Int, Len(s) \in Int
<1>2. s \in Bijection(1 .. Len(s), ToSet(s))
  <2>1. /\ DOMAIN s = 1 .. Len(s) /\ s = [i \in DOMAIN s |-> s[i]]
        /\ \A y \in ToSet(s) : \E i \in 1 .. Len(s) : s[i] = y
        /\ \A i \in 1 .. Len(s) : s[i] \in ToSet(s)
    BY DEF ToSet
  <2>2. s \in [1 .. Len(s) -> ToSet(s)]
    BY <2>1
  <2>3. \A i, j \in 1 .. Len(s) : s[i] = s[j] => i = j
    BY DEF Distinct
  <2> QED BY <2>1, <2>2, <2>3, Fun_IsBij
<1>3. ExistsBijection(1 .. Len(s), ToSet(s))
  BY <1>2, Fun_ExistsBij
<1> QED BY <1>1, <1>3, FS_Bijection

-----------------------------------------------------------------------------
(* The list of an LRU cache.                                                 *)

\* A key that is used moves to the end.
LEMMA TouchedList ==
  ASSUME NEW K, NEW s \in Seq(K), Distinct(s), NEW k \in ToSet(s)
  PROVE  LET t == Append(RemoveFirst(s, k), k)
         IN  t \in Seq(K) /\ Distinct(t) /\ ToSet(t) = ToSet(s)
<1> DEFINE r == RemoveFirst(s, k)
<1>1. k \in K
  BY DEF ToSet
<1>2. r \in Seq(K) /\ Distinct(r) /\ ToSet(r) = ToSet(s) \ {k}
  BY RemoveDistinct
<1>3. k \notin ToSet(r)
  BY <1>2
<1> HIDE DEF r
<1>4. /\ Append(r, k) \in Seq(K) /\ Distinct(Append(r, k))
      /\ ToSet(Append(r, k)) = ToSet(r) \cup {k}
  BY <1>1, <1>2, <1>3, AppendDistinct
<1> QED BY <1>2, <1>4 DEF r

\* A key added to a full list pushes out the head, and there is one.
LEMMA PushedOnto ==
  ASSUME NEW K, NEW s \in Seq(K), Distinct(s), NEW k \in K, k \notin ToSet(s),
         NEW Cap \in Nat \ {0}, Len(s) <= Cap
  PROVE  LET left == IF Len(s) >= Cap THEN Tail(s) ELSE s
             out == IF Len(s) >= Cap THEN {Head(s)} ELSE {}
         IN  /\ Append(left, k) \in Seq(K) /\ Distinct(Append(left, k))
             /\ ToSet(Append(left, k)) = (ToSet(s) \ out) \cup {k}
             /\ Len(Append(left, k)) <= Cap
<1>1. CASE Len(s) < Cap
  <2>1. ~(Len(s) >= Cap)
    BY <1>1
  <2>2. Len(Append(s, k)) <= Cap
    BY <1>1
  <2> QED BY <2>1, <2>2, AppendDistinct
<1>2. CASE Len(s) = Cap
  <2> DEFINE left == Tail(s)
  <2>1. Len(s) >= Cap /\ s # <<>> /\ Len(left) = Cap - 1
    BY <1>2
  <2>2. /\ left \in Seq(K) /\ Distinct(left) /\ ToSet(left) = ToSet(s) \ {Head(s)}
    BY <2>1, TailDistinct
  <2>3. k \notin ToSet(left)
    BY <2>2
  <2> HIDE DEF left
  <2>4. /\ Append(left, k) \in Seq(K) /\ Distinct(Append(left, k))
        /\ ToSet(Append(left, k)) = ToSet(left) \cup {k}
    BY <2>2, <2>3, AppendDistinct
  <2>5. Len(Append(left, k)) <= Cap
    BY <2>1, <2>2
  <2> QED BY <2>1, <2>2, <2>4, <2>5 DEF left
<1>3. Len(s) \in Nat
  OBVIOUS
<1> QED BY <1>1, <1>2, <1>3

\* Whatever key is added, old or new, the list keeps to its capacity.
LEMMA PushedList ==
  ASSUME NEW K, NEW s \in Seq(K), Distinct(s), NEW k \in K,
         NEW Cap \in Nat \ {0}, Cardinality(ToSet(s)) <= Cap
  PROVE  LET rest == RemoveFirst(s, k)
             out == IF Cardinality(ToSet(s) \ {k}) >= Cap THEN {Head(rest)} ELSE {}
             t == Append(IF out = {} THEN rest ELSE Tail(rest), k)
         IN  /\ t \in Seq(K) /\ Distinct(t)
             /\ ToSet(t) = ((ToSet(s) \ {k}) \ out) \cup {k}
             /\ Cardinality(ToSet(t)) <= Cap
<1>1. PICK rest : rest = RemoveFirst(s, k)
  OBVIOUS
<1>2. rest \in Seq(K) /\ Distinct(rest) /\ ToSet(rest) = ToSet(s) \ {k}
  BY <1>1, RemoveDistinct
<1>3. Len(rest) = Cardinality(ToSet(s) \ {k})
  BY <1>2, DistinctLength
<1>4. Len(rest) <= Cap
  <2>1. PICK S : S = ToSet(s)
    OBVIOUS
  <2>2. IsFiniteSet(S) /\ Cardinality(S) \in Nat /\ Cardinality(S) <= Cap
    BY <2>1, DistinctLength, FS_CardinalityType
  <2>3. Cardinality(S \ {k}) \in {Cardinality(S), Cardinality(S) - 1}
    BY <2>2, FS_RemoveElement
  <2>4. Len(rest) = Cardinality(S \ {k})
    BY <1>3, <2>1
  <2> QED BY <2>2, <2>3, <2>4
<1>5. k \notin ToSet(rest)
  BY <1>2
<1>6. LET left == IF Len(rest) >= Cap THEN Tail(rest) ELSE rest
          out == IF Len(rest) >= Cap THEN {Head(rest)} ELSE {}
      IN  /\ Append(left, k) \in Seq(K) /\ Distinct(Append(left, k))
          /\ ToSet(Append(left, k)) = (ToSet(rest) \ out) \cup {k}
          /\ Len(Append(left, k)) <= Cap
  BY <1>2, <1>4, <1>5, PushedOnto
<1>7. LET out == IF Cardinality(ToSet(s) \ {k}) >= Cap THEN {Head(rest)} ELSE {}
          t == Append(IF out = {} THEN rest ELSE Tail(rest), k)
      IN  /\ t \in Seq(K) /\ Distinct(t)
          /\ ToSet(t) = ((ToSet(s) \ {k}) \ out) \cup {k}
          /\ Len(t) <= Cap
  <2>1. CASE Len(rest) >= Cap
    BY <1>2, <1>3, <1>6, <2>1
  <2>2. CASE ~(Len(rest) >= Cap)
    BY <1>2, <1>3, <1>6, <2>2
  <2> QED BY <2>1, <2>2
<1> QED BY <1>1, <1>7, DistinctLength

\* One list after another.
LEMMA ConcatIs ==
  ASSUME NEW T, NEW a \in Seq(T), NEW b \in Seq(T)
  PROVE  /\ a \o b \in Seq(T) /\ Len(a \o b) = Len(a) + Len(b)
         /\ \A k \in DOMAIN a : k \in DOMAIN (a \o b) /\ (a \o b)[k] = a[k]
         /\ \A k \in DOMAIN b :
              Len(a) + k \in DOMAIN (a \o b) /\ (a \o b)[Len(a) + k] = b[k]
         /\ \A k \in DOMAIN (a \o b) \ DOMAIN a : (a \o b)[k] \in ToSet(b)
         /\ ToSet(a \o b) = ToSet(a) \cup ToSet(b)
<1> DEFINE c == a \o b
<1>1. /\ c \in Seq(T) /\ Len(c) = Len(a) + Len(b)
      /\ DOMAIN a = 1 .. Len(a) /\ DOMAIN b = 1 .. Len(b) /\ DOMAIN c = 1 .. Len(c)
      /\ Len(a) \in Nat /\ Len(b) \in Nat
  OBVIOUS
<1>2. ASSUME NEW k \in DOMAIN a PROVE k \in DOMAIN c /\ c[k] = a[k]
  OBVIOUS
<1>3. ASSUME NEW k \in DOMAIN b PROVE Len(a) + k \in DOMAIN c /\ c[Len(a) + k] = b[k]
  <2>1. /\ Len(a) + k \in 1 .. Len(a) + Len(b) /\ ~(Len(a) + k <= Len(a))
        /\ Len(a) + k - Len(a) = k
    BY <1>1
  <2>2. c[Len(a) + k] = b[Len(a) + k - Len(a)]
    BY <2>1
  <2> QED BY <1>1, <2>1, <2>2
<1>4. ASSUME NEW k \in DOMAIN c, k \notin DOMAIN a PROVE c[k] \in ToSet(b)
  <2>1. k - Len(a) \in DOMAIN b /\ Len(a) + (k - Len(a)) = k
    BY <1>1, <1>4
  <2>2. c[k] = b[k - Len(a)]
    BY <1>3, <2>1
  <2> QED BY <2>1, <2>2 DEF ToSet
<1> HIDE DEF c
<1>5. ToSet(c) \subseteq ToSet(a) \cup ToSet(b)
  BY <1>2, <1>4 DEF ToSet
<1>6. ToSet(a) \cup ToSet(b) \subseteq ToSet(c)
  BY <1>2, <1>3 DEF ToSet
<1>7. ToSet(c) = ToSet(a) \cup ToSet(b)
  BY <1>5, <1>6
<1>8. \A k \in DOMAIN a : k \in DOMAIN c /\ c[k] = a[k]
  BY <1>2
<1>9. \A k \in DOMAIN c \ DOMAIN a : c[k] \in ToSet(b)
  BY <1>4
<1>10. \A k \in DOMAIN b : Len(a) + k \in DOMAIN c /\ c[Len(a) + k] = b[k]
  BY <1>3
<1> QED BY <1>1, <1>7, <1>8, <1>9, <1>10 DEF c
=============================================================================

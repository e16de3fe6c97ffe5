----------------------------- MODULE EventProofs -----------------------------
(* For every number of events, handlers, subscriptions and clients: the order *)
(* in which batches are processed, the calls of a one-shot handler, and the  *)
(* order in which a client's stream hands out its events. For every number   *)
(* of processes, entries and faults: no handler of the Redis event bus is    *)
(* called twice for an entry, and an acknowledged entry has been handled.    *)
EXTENDS MCEvents, ListLemmas, SequenceTheorems

-----------------------------------------------------------------------------
(* Batches. An event published with batch=True is in line, in the tasks of a *)
(* flush, in the queue or at the lock, until it is processed.                *)

\* The places of the list of waiters at the lock whose events are not queued
\* yet: while a flush runs, its first is the one that flushed.
Left(lq, fl) == IF fl THEN DOMAIN lq \ {1} ELSE DOMAIN lq

InTask(rdy, e) == \E i \in DOMAIN rdy : rdy[i].flush /\ rdy[i].event = e
InQueue(bq, e) == \E i \in DOMAIN bq : bq[i] = e
AtLock(lq, fl, e) == \E i \in Left(lq, fl) : lq[i] = e

InLine(rdy, bq, lq, fl, e) == InTask(rdy, e) \/ InQueue(bq, e) \/ AtLock(lq, fl, e)

Before(es, x, y) ==
  \E i, j \in DOMAIN es : i < j /\ es[i] = x /\ es[j] = y

\* The line is in the order of publication.
Ordered(rdy, bq, lq, fl, es) ==
  /\ \A i, j \in DOMAIN rdy : i < j /\ rdy[i].flush /\ rdy[j].flush =>
       Before(es, rdy[i].event, rdy[j].event)
  /\ \A i, j \in DOMAIN bq : i < j => Before(es, bq[i], bq[j])
  /\ \A i, j \in Left(lq, fl) : i < j /\ lq[i] # Processor /\ lq[j] # Processor =>
       Before(es, lq[i], lq[j])
  /\ \A i \in DOMAIN rdy, j \in Left(lq, fl) : rdy[i].flush /\ lq[j] # Processor =>
       Before(es, rdy[i].event, lq[j])
  /\ \A i \in DOMAIN bq, j \in Left(lq, fl) : lq[j] # Processor =>
       Before(es, bq[i], lq[j])

TaskType == [event : Events, flush : BOOLEAN]
NoFlush(rdy) == \A i \in DOMAIN rdy : ~rdy[i].flush

LineTypes ==
  /\ ready \in Seq(TaskType) /\ batchQueue \in Seq(Events)
  /\ lockQueue \in Seq(Events \cup {Processor})
  /\ flushing \in BOOLEAN
  /\ batched \in Seq(Events) /\ fresh \subseteq Events /\ seen \subseteq Events

\* Only a flush that waits has tasks under way, and it has emptied the queue.
FlushAlone ==
  /\ flushing => batchQueue = <<>> /\ lockQueue # <<>>
  /\ ~flushing => NoFlush(ready)

\* Who is in line was published with batch=True, and not yet seen otherwise.
LineMembers ==
  /\ Distinct(batched)
  /\ \A e \in ToSet(batched) : e \notin fresh
  /\ fresh \cap seen = {}
  /\ \A i \in DOMAIN ready :
       /\ ready[i].event \notin fresh
       /\ ready[i].flush <=> ready[i].event \in ToSet(batched)
  /\ ToSet(batchQueue) \subseteq ToSet(batched)
  /\ ToSet(lockQueue) \subseteq ToSet(batched) \cup {Processor}

LineOrdered ==
  /\ Ordered(ready, batchQueue, lockQueue, flushing, batched)
  /\ \A e \in ToSet(batched) :
       e \in seen \/ InLine(ready, batchQueue, lockQueue, flushing, e)
  /\ BatchInOrder

LineInv == LineTypes /\ FlushAlone /\ LineMembers /\ LineOrdered

\* The list lq has e in front of w.
Leads(lq, e, w) ==
  /\ lq # <<>> /\ DOMAIN lq = 1 .. Len(lq) /\ DOMAIN w = 1 .. Len(w)
  /\ Len(w) \in Nat /\ Len(lq) = Len(w) + 1
  /\ lq[1] = e /\ \A k \in DOMAIN w : lq[k + 1] = w[k]

LEMMA LeadsFacts ==
  ASSUME NEW T, NEW w \in Seq(T), NEW e \in T
  PROVE  /\ <<e>> \o w \in Seq(T) /\ Leads(<<e>> \o w, e, w)
<1> DEFINE h == <<e>>
           c == h \o w
<1>1. h \in Seq(T) /\ Len(h) = 1 /\ DOMAIN h = {1} /\ h[1] = e
  OBVIOUS
<1> HIDE DEF h
<1>2. /\ c \in Seq(T) /\ Len(c) = Len(h) + Len(w)
      /\ \A k \in DOMAIN h : k \in DOMAIN c /\ c[k] = h[k]
      /\ \A k \in DOMAIN w : Len(h) + k \in DOMAIN c /\ c[Len(h) + k] = w[k]
  BY <1>1, ConcatIs
<1> HIDE DEF c
<1>3. /\ Len(w) \in Nat /\ DOMAIN w = 1 .. Len(w) /\ DOMAIN c = 1 .. Len(c)
  BY <1>2
<1>4. c # <<>>
  BY <1>1, <1>2, <1>3
<1>5. Leads(c, e, w)
  BY <1>1, <1>2, <1>3, <1>4 DEF Leads
<1> QED BY <1>2, <1>5 DEF c, h

LEMMA TailLeads ==
  ASSUME NEW T, NEW lq \in Seq(T), lq # <<>>
  PROVE  /\ Head(lq) \in T /\ Tail(lq) \in Seq(T) /\ Leads(lq, Head(lq), Tail(lq))
         /\ lq = <<Head(lq)>> \o Tail(lq)
<1>1. /\ Head(lq) \in T /\ Tail(lq) \in Seq(T) /\ Leads(lq, Head(lq), Tail(lq))
  BY DEF Leads
<1>2. PICK h \in T, w \in Seq(T) : h = Head(lq) /\ w = Tail(lq)
  BY <1>1
<1>3. PICK c \in Seq(T) : c = <<h>> \o w /\ Leads(c, h, w)
  BY <1>2, LeadsFacts
<1>4. Len(c) = Len(lq) /\ \A i \in 1 .. Len(c) : c[i] = lq[i]
  <2>1. Leads(lq, h, w)
    BY <1>1, <1>2
  <2>2. Len(c) = Len(w) + 1 /\ Len(lq) = Len(w) + 1 /\ Len(w) \in Nat
    BY <1>3, <2>1 DEF Leads
  <2>3. ASSUME NEW i \in 1 .. Len(c), i # 1 PROVE c[i] = lq[i]
    <3>1. i - 1 \in DOMAIN w /\ (i - 1) + 1 = i
      BY <2>1, <2>2, <2>3 DEF Leads
    <3> QED BY <1>3, <2>1, <3>1 DEF Leads
  <2> QED BY <1>3, <2>1, <2>2, <2>3 DEF Leads
<1>5. c = lq
  BY <1>4, SeqEqual
<1> QED BY <1>1, <1>2, <1>3, <1>5

\* The tasks of a list.
LEMMA TasksAre ==
  ASSUME NEW s \in Seq(Events), NEW fl \in BOOLEAN
  PROVE  /\ Tasks(s, fl) \in Seq(TaskType)
         /\ Len(Tasks(s, fl)) = Len(s) /\ DOMAIN Tasks(s, fl) = DOMAIN s
         /\ \A i \in DOMAIN s : /\ Tasks(s, fl)[i].event = s[i]
                                /\ Tasks(s, fl)[i].flush = fl
<1> DEFINE t == Tasks(s, fl)
<1>1. DOMAIN s = 1 .. Len(s) /\ Len(s) \in Nat /\ \A i \in DOMAIN s : s[i] \in Events
  OBVIOUS
<1>2. t = [i \in 1 .. Len(s) |-> [event |-> s[i], flush |-> fl]]
  BY <1>1 DEF Tasks
<1>3. \A i \in 1 .. Len(s) : [event |-> s[i], flush |-> fl] \in TaskType
  BY <1>1 DEF TaskType
<1>4. t \in [1 .. Len(s) -> TaskType]
  BY <1>2, <1>3
<1>5. t \in Seq(TaskType) /\ Len(t) = Len(s)
  BY <1>1, <1>4
<1>6. \A i \in DOMAIN s : t[i].event = s[i] /\ t[i].flush = fl
  BY <1>1, <1>2
<1> QED BY <1>1, <1>4, <1>5, <1>6

\* The list r is rdy with a task for each event of s behind it.
Added(r, rdy, s, fl) ==
  /\ r \in Seq(TaskType) /\ Len(r) = Len(rdy) + Len(s)
  /\ DOMAIN r = 1 .. Len(r) /\ DOMAIN rdy = 1 .. Len(rdy) /\ DOMAIN s = 1 .. Len(s)
  /\ Len(rdy) \in Nat /\ Len(s) \in Nat
  /\ \A k \in DOMAIN rdy : k \in DOMAIN r /\ r[k] = rdy[k]
  /\ \A k \in DOMAIN s :
       /\ Len(rdy) + k \in DOMAIN r
       /\ r[Len(rdy) + k].event = s[k] /\ r[Len(rdy) + k].flush = fl
  /\ \A k \in DOMAIN r \ DOMAIN rdy :
       k - Len(rdy) \in DOMAIN s /\ r[k].event = s[k - Len(rdy)] /\ r[k].flush = fl

LEMMA AddedTasks ==
  ASSUME NEW rdy \in Seq(TaskType), NEW s \in Seq(Events), NEW fl \in BOOLEAN
  PROVE  Added(rdy \o Tasks(s, fl), rdy, s, fl)
<1>1. PICK t \in Seq(TaskType) :
        /\ t = Tasks(s, fl) /\ Len(t) = Len(s) /\ DOMAIN t = DOMAIN s
        /\ \A i \in DOMAIN s : t[i].event = s[i] /\ t[i].flush = fl
  BY TasksAre
<1> DEFINE r == rdy \o t
<1>2. /\ r \in Seq(TaskType) /\ Len(r) = Len(rdy) + Len(t)
      /\ \A k \in DOMAIN rdy : k \in DOMAIN r /\ r[k] = rdy[k]
      /\ \A k \in DOMAIN t : Len(rdy) + k \in DOMAIN r /\ r[Len(rdy) + k] = t[k]
  BY ConcatIs
<1> HIDE DEF r
<1>3. /\ DOMAIN r = 1 .. Len(r) /\ DOMAIN rdy = 1 .. Len(rdy) /\ DOMAIN s = 1 .. Len(s)
      /\ Len(rdy) \in Nat /\ Len(s) \in Nat
  BY <1>2
<1>4. ASSUME NEW k \in DOMAIN r \ DOMAIN rdy
      PROVE  /\ k - Len(rdy) \in DOMAIN s
             /\ r[k].event = s[k - Len(rdy)] /\ r[k].flush = fl
  <2>1. k - Len(rdy) \in DOMAIN s /\ Len(rdy) + (k - Len(rdy)) = k
    BY <1>1, <1>2, <1>3
  <2> QED BY <1>1, <1>2, <2>1
<1>5. ASSUME NEW k \in DOMAIN s
      PROVE  /\ Len(rdy) + k \in DOMAIN r
             /\ r[Len(rdy) + k].event = s[k] /\ r[Len(rdy) + k].flush = fl
  BY <1>1, <1>2
<1>6. Added(r, rdy, s, fl)
  BY <1>1, <1>2, <1>3, <1>4, <1>5 DEF Added
<1> QED BY <1>1, <1>6 DEF r

\* The queue moves into the tasks of a flush; who leads the lock stays there.
LEMMA FlushOrders ==
  ASSUME NEW rdy \in Seq(TaskType), NEW bq \in Seq(Events), NEW es,
         NEW lq \in Seq(Events \cup {Processor}), NoFlush(rdy),
         Ordered(rdy, bq, lq, TRUE, es)
  PROVE  LET r == rdy \o Tasks(bq, TRUE)
         IN  /\ Ordered(r, <<>>, lq, TRUE, es)
             /\ \A e : InLine(rdy, bq, lq, TRUE, e) => InLine(r, <<>>, lq, TRUE, e)
<1>1. PICK r : r = rdy \o Tasks(bq, TRUE)
  OBVIOUS
<1>2. Added(r, rdy, bq, TRUE)
  BY <1>1, AddedTasks, Zenon
<1> USE DEF Added
<1>4. \A k \in DOMAIN r : r[k].flush => k \in DOMAIN r \ DOMAIN rdy
  BY <1>2 DEF NoFlush
<1>5. ASSUME NEW i \in DOMAIN r, NEW j \in DOMAIN r, i < j, r[i].flush, r[j].flush
      PROVE  Before(es, r[i].event, r[j].event)
  <2>1. /\ i - Len(rdy) \in DOMAIN bq /\ j - Len(rdy) \in DOMAIN bq
        /\ i - Len(rdy) < j - Len(rdy)
        /\ r[i].event = bq[i - Len(rdy)] /\ r[j].event = bq[j - Len(rdy)]
    BY <1>2, <1>4, <1>5
  <2> QED BY <2>1 DEF Ordered
<1>6. ASSUME NEW i \in DOMAIN r, NEW j \in Left(lq, TRUE), r[i].flush, lq[j] # Processor
      PROVE  Before(es, r[i].event, lq[j])
  <2>1. i - Len(rdy) \in DOMAIN bq /\ r[i].event = bq[i - Len(rdy)]
    BY <1>2, <1>4, <1>6
  <2> QED BY <1>6, <2>1 DEF Ordered
<1>7. Ordered(r, <<>>, lq, TRUE, es)
  <2>1. DOMAIN <<>> = {}
    OBVIOUS
  <2> QED BY <1>5, <1>6, <2>1 DEF Ordered
<1>8. ASSUME NEW e, InQueue(bq, e) PROVE InTask(r, e)
  BY <1>2, <1>8 DEF InQueue, InTask
<1>9. ASSUME NEW e, InTask(rdy, e) PROVE InTask(r, e)
  BY <1>9 DEF InTask, NoFlush
<1> QED BY <1>1, <1>7, <1>8, <1>9 DEF InLine

LEMMA AppendIs ==
  ASSUME NEW T, NEW s \in Seq(T), NEW e \in T
  PROVE  /\ Append(s, e) \in Seq(T)
         /\ DOMAIN s = 1 .. Len(s) /\ Len(s) \in Nat
         /\ DOMAIN Append(s, e) = 1 .. Len(s) + 1 /\ Append(s, e)[Len(s) + 1] = e
         /\ \A i \in DOMAIN s : Append(s, e)[i] = s[i]
OBVIOUS

LEMMA AppendSet ==
  ASSUME NEW T, NEW s \in Seq(T), NEW e \in T
  PROVE  ToSet(Append(s, e)) = ToSet(s) \cup {e}
<1>1. PICK t \in Seq(T) : t = Append(s, e)
  BY AppendIs
<1>2. /\ DOMAIN s = 1 .. Len(s) /\ Len(s) \in Nat /\ DOMAIN t = 1 .. Len(s) + 1
      /\ t[Len(s) + 1] = e /\ \A i \in DOMAIN s : t[i] = s[i]
  BY <1>1, AppendIs
<1>3. ToSet(t) \subseteq ToSet(s) \cup {e}
  BY <1>2 DEF ToSet
<1>4. \A i \in DOMAIN s : i \in DOMAIN t /\ t[i] = s[i]
  BY <1>2
<1>5. Len(s) + 1 \in DOMAIN t
  BY <1>2
<1>6. ToSet(s) \cup {e} \subseteq ToSet(t)
  BY <1>2, <1>4, <1>5 DEF ToSet
<1> QED BY <1>1, <1>3, <1>6

\* The lock is released: the next in its list comes to lead it.
LEMMA ReleaseOrders ==
  ASSUME NEW rdy, NEW bq, NEW es, NEW lq, NEW x, NEW w, Leads(lq, x, w),
         Ordered(rdy, bq, lq, TRUE, es)
  PROVE  /\ Ordered(rdy, bq, w, FALSE, es)
         /\ \A e : InLine(rdy, bq, lq, TRUE, e) => InLine(rdy, bq, w, FALSE, e)
<1>1. \A k \in DOMAIN w : k + 1 \in DOMAIN lq \ {1} /\ lq[k + 1] = w[k]
  BY DEF Leads
<1>2. ASSUME NEW k \in DOMAIN lq \ {1} PROVE k - 1 \in DOMAIN w /\ w[k - 1] = lq[k]
  <2>1. k \in 1 .. Len(w) + 1 /\ Len(w) \in Nat /\ DOMAIN w = 1 .. Len(w)
    BY DEF Leads
  <2>2. k - 1 \in DOMAIN w /\ (k - 1) + 1 = k
    BY <2>1
  <2> QED BY <2>2 DEF Leads
<1>3. ASSUME NEW i \in DOMAIN w, NEW j \in DOMAIN w, i < j,
             w[i] # Processor, w[j] # Processor
      PROVE  Before(es, w[i], w[j])
  <2>1. /\ i + 1 \in DOMAIN lq \ {1} /\ j + 1 \in DOMAIN lq \ {1} /\ i + 1 < j + 1
        /\ lq[i + 1] = w[i] /\ lq[j + 1] = w[j]
    BY <1>1, <1>3 DEF Leads
  <2> QED BY <1>3, <2>1 DEF Ordered, Left
<1>4. ASSUME NEW i \in DOMAIN rdy, NEW j \in DOMAIN w, rdy[i].flush, w[j] # Processor
      PROVE  Before(es, rdy[i].event, w[j])
  <2>1. j + 1 \in DOMAIN lq \ {1} /\ lq[j + 1] = w[j]
    BY <1>1
  <2> QED BY <1>4, <2>1 DEF Ordered, Left
<1>5. ASSUME NEW i \in DOMAIN bq, NEW j \in DOMAIN w, w[j] # Processor
      PROVE  Before(es, bq[i], w[j])
  <2>1. j + 1 \in DOMAIN lq \ {1} /\ lq[j + 1] = w[j]
    BY <1>1
  <2> QED BY <1>5, <2>1 DEF Ordered, Left
<1>6. Ordered(rdy, bq, w, FALSE, es)
  BY <1>3, <1>4, <1>5 DEF Ordered, Left
<1>7. ASSUME NEW e, AtLock(lq, TRUE, e) PROVE AtLock(w, FALSE, e)
  BY <1>2, <1>7 DEF AtLock, Left
<1> QED BY <1>6, <1>7 DEF InLine

\* Who leads the lock comes to the end of the queue.
LEMMA EnterOrders ==
  ASSUME NEW rdy, NEW bq \in Seq(Events), NEW es, NEW e \in Events, NEW lq, NEW w,
         Leads(lq, e, w), Ordered(rdy, bq, lq, FALSE, es)
  PROVE  /\ Ordered(rdy, Append(bq, e), lq, TRUE, es)
         /\ \A x : InLine(rdy, bq, lq, FALSE, x) => InLine(rdy, Append(bq, e), lq, TRUE, x)
<1>1. PICK q \in Seq(Events) : q = Append(bq, e)
  BY AppendIs
<1>2. /\ DOMAIN bq = 1 .. Len(bq) /\ Len(bq) \in Nat /\ DOMAIN q = 1 .. Len(bq) + 1
      /\ \A i \in DOMAIN bq : q[i] = bq[i]
      /\ q[Len(bq) + 1] = e
  BY <1>1, AppendIs
<1>3. e # Processor /\ 1 \in DOMAIN lq /\ lq[1] = e /\ \A k \in DOMAIN lq \ {1} : 1 < k
  BY EventAssumption DEF Leads
<1>4. ASSUME NEW i \in DOMAIN q, NEW j \in DOMAIN q, i < j
      PROVE  Before(es, q[i], q[j])
  <2>1. CASE j \in DOMAIN bq
    BY <1>2, <1>4, <2>1 DEF Ordered
  <2>2. CASE j = Len(bq) + 1
    <3>1. i \in DOMAIN bq /\ q[i] = bq[i] /\ q[j] = lq[1]
      BY <1>2, <1>3, <1>4, <2>2
    <3> QED BY <1>3, <3>1 DEF Ordered, Left
  <2> QED BY <1>2, <2>1, <2>2
<1>5. ASSUME NEW i \in DOMAIN q, NEW j \in DOMAIN lq \ {1}, lq[j] # Processor
      PROVE  Before(es, q[i], lq[j])
  <2>1. CASE i \in DOMAIN bq
    BY <1>2, <1>5, <2>1 DEF Ordered, Left
  <2>2. CASE i = Len(bq) + 1
    BY <1>2, <1>3, <1>5, <2>2 DEF Ordered, Left
  <2> QED BY <1>2, <2>1, <2>2
<1>6. Ordered(rdy, q, lq, TRUE, es)
  BY <1>4, <1>5 DEF Ordered, Left
<1>7. ASSUME NEW x, AtLock(lq, FALSE, x) PROVE InQueue(q, x) \/ AtLock(lq, TRUE, x)
  <2>1. PICK i \in DOMAIN lq : lq[i] = x
    BY <1>7 DEF AtLock, Left
  <2>2. CASE i = 1
    <3>1. Len(bq) + 1 \in DOMAIN q
      BY <1>2
    <3> QED BY <1>2, <1>3, <2>1, <2>2, <3>1 DEF InQueue
  <2>3. CASE i # 1
    BY <2>1, <2>3 DEF AtLock, Left
  <2> QED BY <2>2, <2>3
<1>8. ASSUME NEW x, InQueue(bq, x) PROVE InQueue(q, x)
  BY <1>2, <1>8 DEF InQueue
<1> QED BY <1>1, <1>6, <1>7, <1>8 DEF InLine

\* Tasks of other publications change nothing in the line.
LEMMA IdleOrders ==
  ASSUME NEW rdy \in Seq(TaskType), NEW bq, NEW lq, NEW fl, NEW es,
         NEW s \in Seq(Events), Ordered(rdy, bq, lq, fl, es)
  PROVE  LET r == rdy \o Tasks(s, FALSE)
         IN  /\ Ordered(r, bq, lq, fl, es)
             /\ \A e : InLine(rdy, bq, lq, fl, e) => InLine(r, bq, lq, fl, e)
<1>1. PICK r : r = rdy \o Tasks(s, FALSE)
  OBVIOUS
<1>2. Added(r, rdy, s, FALSE)
  BY <1>1, AddedTasks, Zenon
<1>3. \A k \in DOMAIN r : r[k].flush => k \in DOMAIN rdy /\ r[k] = rdy[k]
  BY <1>2 DEF Added
<1>4. Ordered(r, bq, lq, fl, es)
  BY <1>3 DEF Ordered
<1>5. ASSUME NEW e, InTask(rdy, e) PROVE InTask(r, e)
  BY <1>2, <1>5 DEF InTask, Added
<1> QED BY <1>1, <1>4, <1>5 DEF InLine

\* Another publication comes last.
LEMMA JoinOrders ==
  ASSUME NEW rdy, NEW bq, NEW fl \in BOOLEAN, NEW es \in Seq(Events),
         NEW lq \in Seq(Events \cup {Processor}), NEW e \in Events,
         fl => lq # <<>>,
         Ordered(rdy, bq, lq, fl, es),
         \A i \in DOMAIN rdy : rdy[i].flush => rdy[i].event \in ToSet(es),
         \A i \in DOMAIN bq : bq[i] \in ToSet(es),
         \A i \in DOMAIN lq : lq[i] \in ToSet(es) \cup {Processor}
  PROVE  /\ Ordered(rdy, bq, Append(lq, e), fl, Append(es, e))
         /\ InLine(rdy, bq, Append(lq, e), fl, e)
         /\ \A x : InLine(rdy, bq, lq, fl, x) => InLine(rdy, bq, Append(lq, e), fl, x)
<1>1. PICK t \in Seq(Events) : t = Append(es, e)
  BY AppendIs
<1>2. /\ DOMAIN es = 1 .. Len(es) /\ Len(es) \in Nat /\ DOMAIN t = 1 .. Len(es) + 1
      /\ t[Len(es) + 1] = e /\ \A i \in DOMAIN es : t[i] = es[i]
  BY <1>1, AppendIs
<1>3. PICK l \in Seq(Events \cup {Processor}) : l = Append(lq, e)
  BY AppendIs
<1>4. /\ DOMAIN lq = 1 .. Len(lq) /\ Len(lq) \in Nat /\ DOMAIN l = 1 .. Len(lq) + 1
      /\ l[Len(lq) + 1] = e /\ \A i \in DOMAIN lq : l[i] = lq[i]
  BY <1>3, AppendIs
<1>5. ASSUME NEW x, NEW y, Before(es, x, y) PROVE Before(t, x, y)
  BY <1>2, <1>5 DEF Before
<1>6. ASSUME NEW x \in ToSet(es) PROVE Before(t, x, e)
  <2>1. PICK i \in DOMAIN es : es[i] = x
    BY DEF ToSet
  <2>2. i \in DOMAIN t /\ Len(es) + 1 \in DOMAIN t /\ i < Len(es) + 1
    BY <1>2
  <2> QED BY <1>2, <2>1, <2>2 DEF Before
<1>7. /\ Len(lq) + 1 \in Left(l, fl)
      /\ \A j \in Left(l, fl) : j # Len(lq) + 1 => j \in Left(lq, fl) /\ l[j] = lq[j]
      /\ \A j \in Left(lq, fl) : j \in Left(l, fl) /\ j \in DOMAIN lq
  <2>1. fl => Len(lq) # 0
    OBVIOUS
  <2> QED BY <1>4, <2>1 DEF Left
<1>8. ASSUME NEW i \in Left(l, fl), NEW j \in Left(l, fl), i < j,
             l[i] # Processor, l[j] # Processor
      PROVE  Before(t, l[i], l[j])
  <2>1. i # Len(lq) + 1
    BY <1>4, <1>8 DEF Left
  <2>2. CASE j = Len(lq) + 1
    BY <1>4, <1>6, <1>7, <1>8, <2>1, <2>2
  <2>3. CASE j # Len(lq) + 1
    BY <1>5, <1>7, <1>8, <2>1, <2>3 DEF Ordered
  <2> QED BY <2>2, <2>3
<1>9. ASSUME NEW i \in DOMAIN rdy, NEW j \in Left(l, fl), rdy[i].flush, l[j] # Processor
      PROVE  Before(t, rdy[i].event, l[j])
  BY <1>4, <1>5, <1>6, <1>7, <1>9 DEF Ordered
<1>10. ASSUME NEW i \in DOMAIN bq, NEW j \in Left(l, fl), l[j] # Processor
       PROVE  Before(t, bq[i], l[j])
  BY <1>4, <1>5, <1>6, <1>7, <1>10 DEF Ordered
<1>11. Ordered(rdy, bq, l, fl, t)
  BY <1>5, <1>8, <1>9, <1>10 DEF Ordered
<1>12. AtLock(l, fl, e) /\ \A x : AtLock(lq, fl, x) => AtLock(l, fl, x)
  BY <1>4, <1>7 DEF AtLock
<1> QED BY <1>1, <1>3, <1>11, <1>12 DEF InLine

lineVars == <<ready, batchQueue, lockQueue, flushing, batched, fresh, seen>>

LEMMA LineSame == LineInv /\ UNCHANGED lineVars => LineInv'
BY DEF LineInv, LineTypes, FlushAlone, NoFlush, LineMembers, LineOrdered, BatchInOrder,
       Ordered, Left, Before, InLine, InTask, InQueue, AtLock, lineVars

\* No two publications are each before the other.
LEMMA BeforeOnce ==
  ASSUME NEW es, Distinct(es), DOMAIN es \subseteq Nat, NEW x, NEW y, Before(es, x, y)
  PROVE  x # y /\ ~Before(es, y, x)
BY DEF Distinct, Before

\* An event that was not in the batch is processed.
LEMMA SeenElse ==
  ASSUME LineInv, NEW e \in Events, e \notin ToSet(batched), seen' = seen \cup {e},
         UNCHANGED batched
  PROVE  BatchInOrder'
BY DEF LineInv, LineOrdered, BatchInOrder, ToSet

LEMMA PublishNowLine ==
  ASSUME LineInv, NEW e \in Events, PublishNow(e)
  PROVE  LineInv'
<1>1. /\ e \in fresh /\ fresh' = fresh \ {e} /\ seen' = seen \cup {e}
      /\ UNCHANGED <<ready, batchQueue, lockQueue, flushing, batched>>
  BY DEF PublishNow, batchVars
<1>2. e \notin ToSet(batched)
  BY <1>1 DEF LineInv, LineMembers
<1>3. BatchInOrder'
  BY <1>1, <1>2, SeenElse
<1>4. LineTypes' /\ FlushAlone' /\ LineMembers'
  BY <1>1 DEF LineInv, LineTypes, FlushAlone, NoFlush, LineMembers
<1>5. LineOrdered'
  BY <1>1, <1>3 DEF LineInv, LineOrdered, Ordered, Left, Before, InLine, InTask,
                    InQueue, AtLock
<1> QED BY <1>4, <1>5 DEF LineInv

\* The first task is done; if it is of a flush, all before it have been.
LEMMA ProcessLine ==
  ASSUME LineInv, ProcessTask
  PROVE  LineInv'
<1> DEFINE f == Head(ready)
<1>1. /\ ready # <<>> /\ ready' = Tail(ready) /\ seen' = seen \cup {f.event}
      /\ UNCHANGED <<batchQueue, lockQueue, flushing, fresh, batched>>
  BY DEF ProcessTask
<1>2. ready \in Seq(TaskType) /\ batched \in Seq(Events)
  BY DEF LineInv, LineTypes
<1>3. /\ ready' \in Seq(TaskType) /\ f \in TaskType /\ f = ready[1] /\ 1 \in DOMAIN ready
      /\ \A k \in DOMAIN ready' : k + 1 \in DOMAIN ready /\ ready[k + 1] = ready'[k]
      /\ \A k \in DOMAIN ready \ {1} : k - 1 \in DOMAIN ready' /\ ready'[k - 1] = ready[k]
      /\ DOMAIN ready' \subseteq Nat /\ \A k \in DOMAIN ready : k # 1 => 1 < k
  BY <1>1, <1>2
<1>4. f.event \in Events /\ f.event \notin fresh
  BY <1>3 DEF TaskType, LineInv, LineMembers
<1> HIDE DEF f
<1>5. LineTypes'
  BY <1>1, <1>3, <1>4 DEF LineInv, LineTypes
<1>6. FlushAlone' /\ LineMembers'
  BY <1>1, <1>3, <1>4 DEF LineInv, FlushAlone, NoFlush, LineMembers
<1>7. Ordered(ready', batchQueue, lockQueue, flushing, batched)
  <2>1. ASSUME NEW i \in DOMAIN ready', NEW j \in DOMAIN ready', i < j,
               ready'[i].flush, ready'[j].flush
        PROVE  Before(batched, ready'[i].event, ready'[j].event)
    <3>1. /\ i + 1 \in DOMAIN ready /\ j + 1 \in DOMAIN ready /\ i + 1 < j + 1
          /\ ready[i + 1] = ready'[i] /\ ready[j + 1] = ready'[j]
      BY <1>3, <2>1
    <3> QED BY <2>1, <3>1 DEF LineInv, LineOrdered, Ordered
  <2>2. ASSUME NEW i \in DOMAIN ready', NEW j \in Left(lockQueue, flushing),
               ready'[i].flush, lockQueue[j] # Processor
        PROVE  Before(batched, ready'[i].event, lockQueue[j])
    <3>1. i + 1 \in DOMAIN ready /\ ready[i + 1] = ready'[i]
      BY <1>3
    <3> QED BY <2>2, <3>1 DEF LineInv, LineOrdered, Ordered
  <2> QED BY <2>1, <2>2 DEF LineInv, LineOrdered, Ordered
<1>8. ASSUME NEW e \in ToSet(batched)
      PROVE  e \in seen' \/ InLine(ready', batchQueue, lockQueue, flushing, e)
  <2>1. CASE InTask(ready, e)
    <3>1. PICK i \in DOMAIN ready : ready[i].flush /\ ready[i].event = e
      BY <2>1 DEF InTask
    <3>2. CASE i = 1
      BY <1>1, <1>3, <3>1, <3>2
    <3>3. CASE i # 1
      BY <1>3, <3>1, <3>3 DEF InLine, InTask
    <3> QED BY <3>2, <3>3
  <2> QED BY <1>1, <2>1 DEF LineInv, LineOrdered, InLine
<1>9. BatchInOrder'
  <2>1. CASE f.flush
    <3> SUFFICES ASSUME NEW i \in DOMAIN batched, NEW j \in DOMAIN batched, i < j,
                        batched[j] = f.event, batched[i] \notin seen
                 PROVE  FALSE
      BY <1>1 DEF LineInv, LineOrdered, BatchInOrder
    <3> DEFINE x == batched[i]
    <3>1. Before(batched, x, f.event) /\ x \in ToSet(batched) /\ x # Processor
      BY <1>2, EventAssumption DEF Before, ToSet
    <3>2. x # f.event /\ ~Before(batched, f.event, x)
      <4>1. Distinct(batched) /\ DOMAIN batched \subseteq Nat
        BY <1>2 DEF LineInv, LineMembers
      <4> QED BY <3>1, <4>1, BeforeOnce
    <3>3. InLine(ready, batchQueue, lockQueue, flushing, x)
      BY <3>1 DEF LineInv, LineOrdered
    <3> HIDE DEF x
    <3>4. ~InTask(ready, x)
      BY <1>3, <2>1, <3>2 DEF InTask, LineInv, LineOrdered, Ordered
    <3>5. ~InQueue(batchQueue, x)
      <4>1. batchQueue = <<>>
        BY <1>3, <2>1 DEF LineInv, FlushAlone, NoFlush
      <4> QED BY <4>1 DEF InQueue
    <3>6. ~AtLock(lockQueue, flushing, x)
      BY <1>3, <2>1, <3>1, <3>2 DEF AtLock, LineInv, LineOrdered, Ordered
    <3> QED BY <3>3, <3>4, <3>5, <3>6 DEF InLine
  <2>2. CASE ~f.flush
    <3>1. f.event \notin ToSet(batched)
      BY <1>3, <2>2 DEF LineInv, LineMembers
    <3> QED BY <1>1, <1>4, <3>1, SeenElse
  <2> QED BY <2>1, <2>2
<1>10. LineOrdered'
  BY <1>1, <1>7, <1>8, <1>9 DEF LineOrdered
<1> QED BY <1>5, <1>6, <1>10 DEF LineInv

\* What the holder of the lock leaves: the queue of events q and the list l at
\* the lock have lost nobody and got nobody else.
Holds(q, l) ==
  /\ ready' \in Seq(TaskType) /\ batchQueue' \in Seq(Events)
  /\ lockQueue' \in Seq(Events \cup {Processor}) /\ flushing' \in BOOLEAN
  /\ FlushAlone'
  /\ ToSet(batchQueue') \subseteq q /\ ToSet(lockQueue') \subseteq l
  /\ \A i \in DOMAIN ready' :
       \/ i \in DOMAIN ready /\ ready'[i] = ready[i]
       \/ ready'[i].flush = TRUE /\ ready'[i].event \in q

\* A queue that is flushed.
LEMMA FlushHolds ==
  ASSUME ready \in Seq(TaskType), NoFlush(ready), NEW q \in Seq(Events),
         NEW lq \in Seq(Events \cup {Processor}), lq # <<>>, NEW es,
         Ordered(ready, q, lq, TRUE, es), FlushBatch(q), lockQueue' = lq
  PROVE  /\ Holds(ToSet(q), ToSet(lq))
         /\ Ordered(ready', batchQueue', lockQueue', flushing', es)
         /\ \A x : InLine(ready, q, lq, TRUE, x) =>
              InLine(ready', batchQueue', lockQueue', flushing', x)
<1>1. ready' = ready \o Tasks(q, TRUE) /\ batchQueue' = <<>> /\ flushing' = TRUE
  BY DEF FlushBatch
<1>2. Added(ready', ready, q, TRUE)
  BY <1>1, AddedTasks, Zenon
<1>3. /\ Ordered(ready', <<>>, lq, TRUE, es)
      /\ \A x : InLine(ready, q, lq, TRUE, x) => InLine(ready', <<>>, lq, TRUE, x)
  BY <1>1, FlushOrders
<1>4. ASSUME NEW i \in DOMAIN ready', ~(i \in DOMAIN ready /\ ready'[i] = ready[i])
      PROVE  ready'[i].flush = TRUE /\ ready'[i].event \in ToSet(q)
  BY <1>2, <1>4 DEF Added, ToSet
<1>5. ToSet(batchQueue') \subseteq ToSet(q)
  BY <1>1 DEF ToSet
<1>6. Holds(ToSet(q), ToSet(lq))
  <2>1. FlushAlone'
    BY <1>1 DEF FlushAlone
  <2>2. ready' \in Seq(TaskType)
    BY <1>2 DEF Added
  <2>3. batchQueue' \in Seq(Events)
    BY <1>1, EmptySeq
  <2> QED BY <1>1, <1>4, <1>5, <2>1, <2>2, <2>3 DEF Holds
<1> QED BY <1>1, <1>3, <1>6

\* An event enters the queue.
LEMMA EnterHolds ==
  ASSUME ready \in Seq(TaskType), NoFlush(ready), flushing = FALSE,
         batchQueue \in Seq(Events), NEW e \in Events,
         NEW w \in Seq(Events \cup {Processor}), NEW es,
         Ordered(ready, batchQueue, <<e>> \o w, FALSE, es), EnterBatch(e, w)
  PROVE  /\ Holds(ToSet(batchQueue) \cup {e}, ToSet(w) \cup {e})
         /\ Ordered(ready', batchQueue', lockQueue', flushing', es)
         /\ \A x : InLine(ready, batchQueue, <<e>> \o w, FALSE, x) =>
              InLine(ready', batchQueue', lockQueue', flushing', x)
<1>0. <<e>> \o w \in Seq(Events \cup {Processor}) /\ Leads(<<e>> \o w, e, w)
  <2>1. e \in Events \cup {Processor}
    OBVIOUS
  <2> QED BY <2>1, LeadsFacts
<1>1. PICK lq \in Seq(Events \cup {Processor}) : lq = <<e>> \o w /\ Leads(lq, e, w)
  BY <1>0
<1>2. PICK q \in Seq(Events) : q = Append(batchQueue, e)
  BY AppendIs
<1>3. ToSet(q) = ToSet(batchQueue) \cup {e}
  BY <1>2, AppendSet
<1>4. ToSet(lq) = ToSet(w) \cup {e}
  <2>1. ASSUME NEW k \in DOMAIN lq PROVE lq[k] \in ToSet(w) \cup {e}
    <3>1. k = 1 \/ (k - 1 \in DOMAIN w /\ (k - 1) + 1 = k)
      BY <1>1 DEF Leads
    <3> QED BY <1>1, <3>1 DEF Leads, ToSet
  <2>2. 1 \in DOMAIN lq /\ lq[1] = e
    BY <1>1 DEF Leads
  <2>3. ASSUME NEW k \in DOMAIN w PROVE w[k] \in ToSet(lq)
    <3>1. k + 1 \in DOMAIN lq /\ lq[k + 1] = w[k]
      BY <1>1 DEF Leads
    <3> QED BY <3>1 DEF ToSet
  <2> QED BY <2>1, <2>2, <2>3 DEF ToSet
<1>5. /\ Ordered(ready, q, lq, TRUE, es)
      /\ \A x : InLine(ready, batchQueue, lq, FALSE, x) => InLine(ready, q, lq, TRUE, x)
  BY <1>1, <1>2, EnterOrders
<1>6. CASE FlushBatch(q) /\ lockQueue' = lq
  <2>1. lq # <<>>
    BY <1>1 DEF Leads
  <2>2. /\ Holds(ToSet(q), ToSet(lq))
        /\ Ordered(ready', batchQueue', lockQueue', flushing', es)
        /\ \A x : InLine(ready, q, lq, TRUE, x) =>
             InLine(ready', batchQueue', lockQueue', flushing', x)
    BY <1>5, <1>6, <2>1, FlushHolds
  <2> QED BY <1>1, <1>3, <1>4, <1>5, <2>2
<1>7. CASE batchQueue' = q /\ lockQueue' = w /\ UNCHANGED <<ready, flushing>>
  <2>1. /\ Ordered(ready, q, w, FALSE, es)
        /\ \A x : InLine(ready, q, lq, TRUE, x) => InLine(ready, q, w, FALSE, x)
    BY <1>1, <1>5, ReleaseOrders
  <2>2. Holds(ToSet(batchQueue) \cup {e}, ToSet(w) \cup {e})
    BY <1>3, <1>7 DEF Holds, FlushAlone, NoFlush
  <2> QED BY <1>1, <1>5, <1>7, <2>1, <2>2
<1> QED BY <1>1, <1>2, <1>6, <1>7 DEF EnterBatch

\* The line as the holder of the lock leaves it.
LEMMA HoldsLine ==
  ASSUME LineTypes, NEW es \in Seq(Events), Distinct(es), BatchInOrder',
         batched' = es, fresh' \subseteq fresh, UNCHANGED seen,
         \A e \in ToSet(es) : e \notin fresh', fresh \cap seen = {},
         \A i \in DOMAIN ready :
           /\ ready[i].event \notin fresh
           /\ ready[i].flush <=> ready[i].event \in ToSet(es),
         NEW q, q \subseteq ToSet(es), NEW l, l \subseteq ToSet(es) \cup {Processor},
         Holds(q, l), Ordered(ready', batchQueue', lockQueue', flushing', es),
         \A x \in ToSet(es) :
           x \in seen \/ InLine(ready', batchQueue', lockQueue', flushing', x)
  PROVE  LineInv'
<1>1. LineTypes'
  BY DEF LineTypes, Holds
<1>2. FlushAlone'
  BY DEF Holds
<1>3. LineMembers'
  <2>1. ASSUME NEW i \in DOMAIN ready'
        PROVE  /\ ready'[i].event \notin fresh'
               /\ ready'[i].flush <=> ready'[i].event \in ToSet(es)
    BY DEF Holds
  <2> QED BY <2>1 DEF LineMembers, Holds
<1>4. LineOrdered'
  BY DEF LineOrdered
<1> QED BY <1>1, <1>2, <1>3, <1>4 DEF LineInv

\* A publication comes last in line, and enters the queue if the lock is free.
LEMMA PublishBatchedLine ==
  ASSUME LineInv, NEW e \in Events, PublishBatched(e)
  PROVE  LineInv'
<1>1. /\ e \in fresh /\ fresh' = fresh \ {e} /\ batched' = Append(batched, e)
      /\ UNCHANGED seen
      /\ IF lockQueue = <<>> THEN EnterBatch(e, <<>>)
         ELSE /\ lockQueue' = Append(lockQueue, e)
              /\ UNCHANGED <<batchQueue, flushing, ready>>
  BY DEF PublishBatched
<1>2. LineTypes /\ FlushAlone /\ LineMembers /\ LineOrdered
  BY DEF LineInv
<1>3. PICK es \in Seq(Events) : es = Append(batched, e)
  BY <1>2, AppendIs DEF LineTypes
<1>4. e \notin ToSet(batched) /\ e \notin seen
  BY <1>1, <1>2 DEF LineMembers
<1>5. Distinct(es) /\ ToSet(es) = ToSet(batched) \cup {e}
  BY <1>2, <1>3, <1>4, AppendDistinct DEF LineTypes, LineMembers
<1>6. BatchInOrder'
  <2>1. /\ DOMAIN batched = 1 .. Len(batched) /\ Len(batched) \in Nat
        /\ DOMAIN es = 1 .. Len(batched) + 1 /\ es[Len(batched) + 1] = e
        /\ \A i \in DOMAIN batched : es[i] = batched[i]
    BY <1>2, <1>3, AppendIs DEF LineTypes
  <2>2. ASSUME NEW i \in DOMAIN es, NEW j \in DOMAIN es, i < j, es[j] \in seen
        PROVE  es[i] \in seen
    <3>1. i \in DOMAIN batched /\ j \in DOMAIN batched
      BY <1>4, <2>1, <2>2
    <3> QED BY <1>2, <2>1, <2>2, <3>1 DEF LineOrdered, BatchInOrder
  <2> QED BY <1>1, <1>3, <2>2 DEF BatchInOrder
<1>7. PICK lq \in Seq(Events \cup {Processor}) : lq = Append(lockQueue, e)
  <2>1. e \in Events \cup {Processor}
    OBVIOUS
  <2> QED BY <1>2, <2>1, AppendIs DEF LineTypes
<1>8. /\ Ordered(ready, batchQueue, lq, flushing, es)
      /\ InLine(ready, batchQueue, lq, flushing, e)
      /\ \A x : InLine(ready, batchQueue, lockQueue, flushing, x) =>
           InLine(ready, batchQueue, lq, flushing, x)
  <2>1. /\ \A i \in DOMAIN ready : ready[i].flush => ready[i].event \in ToSet(batched)
        /\ \A i \in DOMAIN batchQueue : batchQueue[i] \in ToSet(batched)
        /\ \A i \in DOMAIN lockQueue : lockQueue[i] \in ToSet(batched) \cup {Processor}
        /\ flushing => lockQueue # <<>>
    BY <1>2 DEF LineMembers, FlushAlone, ToSet
  <2>2. Ordered(ready, batchQueue, lockQueue, flushing, batched)
    BY <1>2 DEF LineOrdered
  <2>3. /\ flushing \in BOOLEAN /\ batched \in Seq(Events)
        /\ lockQueue \in Seq(Events \cup {Processor})
    BY <1>2 DEF LineTypes
  <2> QED BY <1>3, <1>7, <2>1, <2>2, <2>3, JoinOrders
<1>9. \A x \in ToSet(es) : x \in seen \/ InLine(ready, batchQueue, lq, flushing, x)
  BY <1>2, <1>5, <1>8 DEF LineOrdered
<1>10. /\ \A x \in ToSet(es) : x \notin fresh' /\ fresh \cap seen = {}
       /\ \A i \in DOMAIN ready :
            /\ ready[i].event \notin fresh
            /\ ready[i].flush <=> ready[i].event \in ToSet(es)
  BY <1>1, <1>2, <1>5 DEF LineMembers
<1>11. fresh \cap seen = {} /\ fresh' \subseteq fresh
  BY <1>1, <1>2 DEF LineMembers
<1>12. CASE lockQueue = <<>>
  <2>1. EnterBatch(e, <<>>) /\ flushing = FALSE /\ NoFlush(ready)
    BY <1>1, <1>2, <1>12 DEF FlushAlone, LineTypes
  <2>2. lq = <<e>> \o <<>>
    BY <1>7, <1>12
  <2>3. /\ Holds(ToSet(batchQueue) \cup {e}, ToSet(<<>>) \cup {e})
        /\ Ordered(ready', batchQueue', lockQueue', flushing', es)
        /\ \A x : InLine(ready, batchQueue, <<e>> \o <<>>, FALSE, x) =>
             InLine(ready', batchQueue', lockQueue', flushing', x)
    <3>1. ready \in Seq(TaskType) /\ batchQueue \in Seq(Events)
      BY <1>2 DEF LineTypes
    <3>2. <<>> \in Seq(Events \cup {Processor})
      BY EmptySeq
    <3>3. Ordered(ready, batchQueue, <<e>> \o <<>>, FALSE, es)
      BY <1>8, <2>1, <2>2
    <3> QED BY <2>1, <3>1, <3>2, <3>3, EnterHolds
  <2>4. \A x \in ToSet(es) : x \in seen \/ InLine(ready', batchQueue', lockQueue', flushing', x)
    BY <1>9, <2>1, <2>2, <2>3
  <2>5. /\ ToSet(batchQueue) \cup {e} \subseteq ToSet(es)
        /\ ToSet(<<>>) \cup {e} \subseteq ToSet(es) \cup {Processor}
    <3>1. ToSet(<<>>) = {}
      BY DEF ToSet
    <3> QED BY <1>2, <1>5, <3>1 DEF LineMembers
  <2> QED BY <1>1, <1>2, <1>3, <1>5, <1>6, <1>10, <1>11, <2>3, <2>4, <2>5, HoldsLine
<1>13. CASE lockQueue # <<>>
  <2>1. lockQueue' = lq /\ UNCHANGED <<batchQueue, flushing, ready>>
    BY <1>1, <1>7, <1>13
  <2>2. ToSet(lq) = ToSet(lockQueue) \cup {e}
    <3>1. e \in Events \cup {Processor}
      OBVIOUS
    <3>2. lockQueue \in Seq(Events \cup {Processor})
      BY <1>2 DEF LineTypes
    <3>3. PICK T : T = Events \cup {Processor}
      OBVIOUS
    <3>4. lockQueue \in Seq(T) /\ e \in T
      BY <3>1, <3>2, <3>3
    <3> QED BY <1>7, <3>4, AppendSet
  <2>3. lq # <<>>
    <3>1. Len(lockQueue) \in Nat /\ DOMAIN lq = 1 .. Len(lockQueue) + 1
      <4>1. e \in Events \cup {Processor}
        OBVIOUS
      <4> QED BY <1>2, <1>7, <4>1, AppendIs DEF LineTypes
    <3> QED BY <3>1
  <2>4. Holds(ToSet(batchQueue), ToSet(lq))
    BY <1>2, <2>1, <2>3 DEF Holds, LineTypes, FlushAlone, NoFlush
  <2>5. /\ ToSet(batchQueue) \subseteq ToSet(es)
        /\ ToSet(lq) \subseteq ToSet(es) \cup {Processor}
    BY <1>2, <1>5, <2>2 DEF LineMembers
  <2>6. /\ Ordered(ready', batchQueue', lockQueue', flushing', es)
        /\ \A x \in ToSet(es) :
             x \in seen \/ InLine(ready', batchQueue', lockQueue', flushing', x)
    BY <1>8, <1>9, <2>1
  <2> QED BY <1>1, <1>2, <1>3, <1>5, <1>6, <1>10, <1>11, <2>4, <2>5, <2>6, HoldsLine
<1> QED BY <1>12, <1>13

\* A step of the holder of the lock that publishes and processes nothing.
LEMMA LockStepLine ==
  ASSUME LineInv, UNCHANGED <<batched, fresh, seen>>,
         NEW q, q \subseteq ToSet(batched), NEW l, l \subseteq ToSet(batched) \cup {Processor},
         Holds(q, l), Ordered(ready', batchQueue', lockQueue', flushing', batched),
         \A x \in ToSet(batched) :
           InLine(ready, batchQueue, lockQueue, flushing, x) =>
             InLine(ready', batchQueue', lockQueue', flushing', x)
  PROVE  LineInv'
<1>1. LineTypes /\ LineMembers /\ LineOrdered /\ batched \in Seq(Events)
  BY DEF LineInv, LineTypes
<1>2. BatchInOrder'
  BY <1>1 DEF LineOrdered, BatchInOrder
<1>3. \A x \in ToSet(batched) :
        x \in seen \/ InLine(ready', batchQueue', lockQueue', flushing', x)
  BY <1>1 DEF LineOrdered
<1>4. /\ Distinct(batched) /\ \A x \in ToSet(batched) : x \notin fresh' /\ fresh \cap seen = {}
      /\ fresh \cap seen = {}
      /\ \A i \in DOMAIN ready :
           /\ ready[i].event \notin fresh
           /\ ready[i].flush <=> ready[i].event \in ToSet(batched)
  BY <1>1 DEF LineMembers
<1> QED BY <1>1, <1>2, <1>3, <1>4, HoldsLine

\* What is at the head of the lock's list, and behind it.
LEMMA LockFacts ==
  ASSUME LineInv, lockQueue # <<>>
  PROVE  /\ Head(lockQueue) \in Events \cup {Processor}
         /\ Tail(lockQueue) \in Seq(Events \cup {Processor})
         /\ Leads(lockQueue, Head(lockQueue), Tail(lockQueue))
         /\ lockQueue = <<Head(lockQueue)>> \o Tail(lockQueue)
         /\ Head(lockQueue) \in ToSet(lockQueue)
         /\ ToSet(Tail(lockQueue)) \subseteq ToSet(lockQueue)
<1>1. lockQueue \in Seq(Events \cup {Processor})
  BY DEF LineInv, LineTypes
<1>2. PICK w \in Seq(Events \cup {Processor}) :
        w = Tail(lockQueue) /\ Leads(lockQueue, Head(lockQueue), w)
        /\ lockQueue = <<Head(lockQueue)>> \o w /\ Head(lockQueue) \in Events \cup {Processor}
  BY <1>1, TailLeads
<1>3. 1 \in DOMAIN lockQueue /\ \A k \in DOMAIN w : k + 1 \in DOMAIN lockQueue
  BY <1>2 DEF Leads
<1>4. Head(lockQueue) \in ToSet(lockQueue) /\ ToSet(w) \subseteq ToSet(lockQueue)
  BY <1>2, <1>3 DEF Leads, ToSet
<1> QED BY <1>2, <1>4

LEMMA AddToBatchLine ==
  ASSUME LineInv, AddToBatch
  PROVE  LineInv'
<1>1. /\ lockQueue # <<>> /\ Head(lockQueue) # Processor /\ ~flushing
      /\ EnterBatch(Head(lockQueue), Tail(lockQueue)) /\ UNCHANGED <<batched, fresh, seen>>
  BY DEF AddToBatch
<1>2. PICK e \in Events, w \in Seq(Events \cup {Processor}) :
        /\ e = Head(lockQueue) /\ w = Tail(lockQueue) /\ lockQueue = <<e>> \o w
        /\ e \in ToSet(lockQueue) /\ ToSet(w) \subseteq ToSet(lockQueue)
  BY <1>1, LockFacts
<1>3. /\ ready \in Seq(TaskType) /\ batchQueue \in Seq(Events) /\ flushing = FALSE
      /\ NoFlush(ready) /\ Ordered(ready, batchQueue, <<e>> \o w, FALSE, batched)
  BY <1>1, <1>2 DEF LineInv, LineTypes, FlushAlone, LineOrdered
<1>4. /\ Holds(ToSet(batchQueue) \cup {e}, ToSet(w) \cup {e})
      /\ Ordered(ready', batchQueue', lockQueue', flushing', batched)
      /\ \A x : InLine(ready, batchQueue, <<e>> \o w, FALSE, x) =>
           InLine(ready', batchQueue', lockQueue', flushing', x)
  BY <1>1, <1>2, <1>3, EnterHolds
<1>5. /\ ToSet(batchQueue) \cup {e} \subseteq ToSet(batched)
      /\ ToSet(w) \cup {e} \subseteq ToSet(batched) \cup {Processor}
  BY <1>2, EventAssumption DEF LineInv, LineMembers
<1> QED BY <1>1, <1>2, <1>3, <1>4, <1>5, LockStepLine

\* The timer's turn with the lock.
LEMMA TimerLine ==
  ASSUME LineInv, flushing = FALSE, UNCHANGED <<batched, fresh, seen>>,
         NEW w \in Seq(Events \cup {Processor}),
         ToSet(w) \subseteq ToSet(batched) \cup {Processor},
         lockQueue = w \/ lockQueue = <<Processor>> \o w,
         FlushByTimer(w)
  PROVE  LineInv'
<1>1. /\ ready \in Seq(TaskType) /\ batchQueue \in Seq(Events)
      /\ NoFlush(ready) /\ Ordered(ready, batchQueue, lockQueue, FALSE, batched)
      /\ ToSet(batchQueue) \subseteq ToSet(batched)
  BY DEF LineInv, LineTypes, FlushAlone, LineOrdered, LineMembers
<1>2. PICK lq \in Seq(Events \cup {Processor}) :
        lq = <<Processor>> \o w /\ Leads(lq, Processor, w)
  <2>1. Processor \in Events \cup {Processor}
    OBVIOUS
  <2>2. <<Processor>> \o w \in Seq(Events \cup {Processor})
        /\ Leads(<<Processor>> \o w, Processor, w)
    BY <2>1, LeadsFacts
  <2> QED BY <2>2
<1>3. /\ \A k \in DOMAIN w : k + 1 \in DOMAIN lq \ {1} /\ lq[k + 1] = w[k]
      /\ \A k \in DOMAIN lq \ {1} : k - 1 \in DOMAIN w /\ w[k - 1] = lq[k]
      /\ lq # <<>> /\ lq[1] = Processor /\ DOMAIN lq \subseteq Nat /\ DOMAIN w \subseteq Nat
  <2>1. /\ DOMAIN lq = 1 .. Len(w) + 1 /\ DOMAIN w = 1 .. Len(w) /\ Len(w) \in Nat
        /\ \A k \in DOMAIN w : lq[k + 1] = w[k]
        /\ lq # <<>> /\ lq[1] = Processor
    BY <1>2 DEF Leads
  <2>2. ASSUME NEW k \in DOMAIN lq \ {1} PROVE k - 1 \in DOMAIN w /\ w[k - 1] = lq[k]
    <3>1. k - 1 \in DOMAIN w /\ (k - 1) + 1 = k
      BY <2>1
    <3> QED BY <2>1, <3>1
  <2> QED BY <2>1, <2>2
<1>4. Ordered(ready, batchQueue, lq, TRUE, batched)
  <2>1. CASE lockQueue = lq
    BY <1>1, <2>1 DEF Ordered, Left
  <2>2. CASE lockQueue = w
    <3>1. ASSUME NEW i \in DOMAIN lq \ {1}, NEW j \in DOMAIN lq \ {1}, i < j,
                 lq[i] # Processor, lq[j] # Processor
          PROVE  Before(batched, lq[i], lq[j])
      <4>1. /\ i - 1 \in DOMAIN w /\ j - 1 \in DOMAIN w /\ i - 1 < j - 1
            /\ w[i - 1] = lq[i] /\ w[j - 1] = lq[j]
        BY <1>3, <3>1
      <4> QED BY <1>1, <2>2, <3>1, <4>1 DEF Ordered, Left
    <3>2. ASSUME NEW j \in DOMAIN lq \ {1}, lq[j] # Processor
          PROVE  j - 1 \in DOMAIN w /\ w[j - 1] = lq[j]
      BY <1>3
    <3> QED BY <1>1, <2>2, <3>1, <3>2 DEF Ordered, Left
  <2> QED BY <1>2, <2>1, <2>2
<1>5. ASSUME NEW x \in ToSet(batched), InLine(ready, batchQueue, lockQueue, FALSE, x)
      PROVE  InLine(ready, batchQueue, lq, TRUE, x)
  <2>1. x # Processor
    BY EventAssumption DEF ToSet, LineInv, LineTypes
  <2>2. CASE lockQueue = lq
    BY <1>3, <1>5, <2>1, <2>2 DEF InLine, AtLock, Left
  <2>3. CASE lockQueue = w
    BY <1>3, <1>5, <2>3 DEF InLine, AtLock, Left
  <2> QED BY <1>2, <2>2, <2>3
<1>6. ToSet(lq) \subseteq ToSet(batched) \cup {Processor}
  <2> SUFFICES ASSUME NEW k \in DOMAIN lq PROVE lq[k] \in ToSet(batched) \cup {Processor}
    BY DEF ToSet
  <2>1. CASE k = 1
    BY <1>3, <2>1
  <2>2. CASE k # 1
    BY <1>3, <2>2 DEF ToSet
  <2> QED BY <2>1, <2>2
<1>7. CASE batchQueue # <<>>
  <2>1. FlushBatch(batchQueue) /\ lockQueue' = lq
    BY <1>2, <1>7 DEF FlushByTimer
  <2>2. /\ Holds(ToSet(batchQueue), ToSet(lq))
        /\ Ordered(ready', batchQueue', lockQueue', flushing', batched)
        /\ \A x : InLine(ready, batchQueue, lq, TRUE, x) =>
             InLine(ready', batchQueue', lockQueue', flushing', x)
    BY <1>1, <1>3, <1>4, <2>1, FlushHolds
  <2>3. \A x \in ToSet(batched) :
          InLine(ready, batchQueue, lockQueue, flushing, x) =>
            InLine(ready', batchQueue', lockQueue', flushing', x)
    BY <1>5, <2>2
  <2> QED BY <1>1, <1>6, <2>2, <2>3, LockStepLine
<1>8. CASE batchQueue = <<>>
  <2>1. lockQueue' = w /\ UNCHANGED <<batchQueue, ready, flushing>>
    BY <1>8 DEF FlushByTimer
  <2>2. /\ Ordered(ready, batchQueue, w, FALSE, batched)
        /\ \A x : InLine(ready, batchQueue, lq, TRUE, x) => InLine(ready, batchQueue, w, FALSE, x)
    BY <1>2, <1>4, ReleaseOrders
  <2>3. Holds(ToSet(batchQueue), ToSet(w))
    BY <1>1, <2>1 DEF Holds, FlushAlone, NoFlush
  <2>4. /\ Ordered(ready', batchQueue', lockQueue', flushing', batched)
        /\ \A x \in ToSet(batched) :
             InLine(ready, batchQueue, lockQueue, flushing, x) =>
               InLine(ready', batchQueue', lockQueue', flushing', x)
    BY <1>5, <2>1, <2>2
  <2> QED BY <1>1, <2>3, <2>4, LockStepLine
<1> QED BY <1>7, <1>8

\* The timer waits for the lock at the end of its list.
LEMMA ProcessorQueuesLine ==
  ASSUME LineInv, lockQueue' = Append(lockQueue, Processor),
         UNCHANGED <<ready, batchQueue, flushing, batched, fresh, seen>>
  PROVE  LineInv'
<1>0. lockQueue \in Seq(Events \cup {Processor}) /\ Processor \in Events \cup {Processor}
  BY DEF LineInv, LineTypes
<1>1. PICK l \in Seq(Events \cup {Processor}) : l = Append(lockQueue, Processor)
  BY <1>0, AppendIs
<1>2. /\ DOMAIN lockQueue = 1 .. Len(lockQueue) /\ Len(lockQueue) \in Nat
      /\ DOMAIN l = 1 .. Len(lockQueue) + 1 /\ l[Len(lockQueue) + 1] = Processor
      /\ \A i \in DOMAIN lockQueue : l[i] = lockQueue[i]
  BY <1>0, <1>1, AppendIs
<1>3. ToSet(l) = ToSet(lockQueue) \cup {Processor}
  <2>1. PICK T : T = Events \cup {Processor}
    OBVIOUS
  <2>2. lockQueue \in Seq(T) /\ Processor \in T
    BY <1>0, <2>1
  <2> QED BY <1>1, <2>2, AppendSet
<1>4. Ordered(ready, batchQueue, l, flushing, batched)
  <2>1. \A j \in Left(l, flushing) : l[j] # Processor =>
          j \in Left(lockQueue, flushing) /\ l[j] = lockQueue[j]
    BY <1>2 DEF Left
  <2> QED BY <2>1 DEF LineInv, LineOrdered, Ordered
<1>5. \A x : InLine(ready, batchQueue, lockQueue, flushing, x) =>
               InLine(ready, batchQueue, l, flushing, x)
  <2>1. \A j \in Left(lockQueue, flushing) : j \in Left(l, flushing) /\ l[j] = lockQueue[j]
    BY <1>2 DEF Left
  <2> QED BY <2>1 DEF InLine, AtLock
<1>6. Holds(ToSet(batchQueue), ToSet(l))
  <2>1. l # <<>>
    BY <1>2
  <2> QED BY <1>1, <2>1 DEF Holds, LineInv, LineTypes, FlushAlone, NoFlush
<1>7. ToSet(batchQueue) \subseteq ToSet(batched) /\ ToSet(l) \subseteq ToSet(batched) \cup {Processor}
  BY <1>3 DEF LineInv, LineMembers
<1>8. /\ Ordered(ready', batchQueue', lockQueue', flushing', batched)
      /\ \A x \in ToSet(batched) :
           InLine(ready, batchQueue, lockQueue, flushing, x) =>
             InLine(ready', batchQueue', lockQueue', flushing', x)
  BY <1>1, <1>4, <1>5
<1> QED BY <1>6, <1>7, <1>8, LockStepLine

LEMMA ProcessorWakesLine ==
  ASSUME LineInv, ProcessorWakes
  PROVE  LineInv'
<1>1. UNCHANGED <<batched, fresh, seen>>
  BY DEF ProcessorWakes
<1>2. CASE lockQueue = <<>>
  <2>1. FlushByTimer(<<>>)
    BY <1>2 DEF ProcessorWakes
  <2>2. flushing = FALSE
    BY <1>2 DEF LineInv, FlushAlone, LineTypes
  <2>3. <<>> \in Seq(Events \cup {Processor})
    BY EmptySeq
  <2>4. ToSet(<<>>) \subseteq ToSet(batched) \cup {Processor}
    BY DEF ToSet
  <2> QED BY <1>1, <1>2, <2>1, <2>2, <2>3, <2>4, TimerLine
<1>3. CASE lockQueue # <<>>
  <2>1. lockQueue' = Append(lockQueue, Processor)
        /\ UNCHANGED <<ready, batchQueue, flushing, batched, fresh, seen>>
    BY <1>3 DEF ProcessorWakes
  <2> QED BY <2>1, ProcessorQueuesLine
<1> QED BY <1>2, <1>3

LEMMA ProcessorFlushesLine ==
  ASSUME LineInv, ProcessorFlushes
  PROVE  LineInv'
<1>1. /\ UNCHANGED <<batched, fresh, seen>> /\ lockQueue # <<>>
      /\ Head(lockQueue) = Processor /\ ~flushing /\ FlushByTimer(Tail(lockQueue))
  BY DEF ProcessorFlushes
<1>2. PICK w \in Seq(Events \cup {Processor}) :
        /\ w = Tail(lockQueue) /\ lockQueue = <<Processor>> \o w
        /\ ToSet(w) \subseteq ToSet(lockQueue)
  BY <1>1, LockFacts
<1>3. flushing = FALSE /\ ToSet(w) \subseteq ToSet(batched) \cup {Processor}
  BY <1>1, <1>2 DEF LineInv, LineTypes, LineMembers
<1> QED BY <1>1, <1>2, <1>3, TimerLine

\* The flush is over: its tasks are done.
LEMMA FlushEndsLine ==
  ASSUME LineInv, FlushEnds
  PROVE  LineInv'
<1>1. /\ flushing /\ NoFlush(ready) /\ flushing' = FALSE /\ lockQueue' = Tail(lockQueue)
      /\ UNCHANGED <<batchQueue, ready, batched, fresh, seen>>
  BY DEF FlushEnds, NoFlush
<1>2. lockQueue # <<>> /\ flushing = TRUE
  BY <1>1 DEF LineInv, FlushAlone, LineTypes
<1>3. PICK w \in Seq(Events \cup {Processor}) :
        /\ w = Tail(lockQueue) /\ Leads(lockQueue, Head(lockQueue), w)
        /\ ToSet(w) \subseteq ToSet(lockQueue)
  BY <1>2, LockFacts
<1>4. /\ Ordered(ready, batchQueue, w, FALSE, batched)
      /\ \A x : InLine(ready, batchQueue, lockQueue, TRUE, x) =>
           InLine(ready, batchQueue, w, FALSE, x)
  <2>1. Ordered(ready, batchQueue, lockQueue, TRUE, batched)
    BY <1>2 DEF LineInv, LineOrdered
  <2> QED BY <1>3, <2>1, ReleaseOrders
<1>5. Holds(ToSet(batchQueue), ToSet(w))
  BY <1>1, <1>3 DEF Holds, FlushAlone, NoFlush, LineInv, LineTypes
<1>6. /\ ToSet(batchQueue) \subseteq ToSet(batched)
      /\ ToSet(w) \subseteq ToSet(batched) \cup {Processor}
  BY <1>3 DEF LineInv, LineMembers
<1>7. /\ Ordered(ready', batchQueue', lockQueue', flushing', batched)
      /\ \A x \in ToSet(batched) :
           InLine(ready, batchQueue, lockQueue, flushing, x) =>
             InLine(ready', batchQueue', lockQueue', flushing', x)
  BY <1>1, <1>2, <1>3, <1>4
<1> QED BY <1>1, <1>5, <1>6, <1>7, LockStepLine

\* publish_batch leaves the line alone: its events were not published before.
LEMMA PublishBatchLine ==
  ASSUME LineInv, NEW e \in Events, NEW f \in Events, NEW wait \in BOOLEAN,
         PublishBatch(<<e, f>>, wait)
  PROVE  LineInv'
<1>1. PICK es \in Seq(Events) : es = <<e, f>>
  <2>1. <<e, f>> \in Seq(Events)
    OBVIOUS
  <2> QED BY <2>1
<1>2. /\ ToSet(es) \subseteq fresh /\ fresh' = fresh \ ToSet(es)
      /\ ready' = IF wait THEN ready \o Tasks(es, FALSE) ELSE ready
      /\ UNCHANGED <<batchQueue, lockQueue, flushing, batched, seen>>
  BY <1>1 DEF PublishBatch
<1>3. CASE ~wait
  BY <1>2, <1>3 DEF LineInv, LineTypes, FlushAlone, NoFlush, LineMembers, LineOrdered,
       Ordered, Left, Before, InLine, InTask, InQueue, AtLock, BatchInOrder
<1>4. CASE wait
  <2>0. ready \in Seq(TaskType) /\ LineTypes /\ FlushAlone /\ LineMembers /\ LineOrdered
    BY DEF LineInv, LineTypes
  <2>1. ready' = ready \o Tasks(es, FALSE)
    BY <1>2, <1>4
  <2>2. Added(ready', ready, es, FALSE)
    BY <2>0, <2>1, AddedTasks, Zenon
  <2>3. \A i \in DOMAIN ready' :
          \/ i \in DOMAIN ready /\ ready'[i] = ready[i]
          \/ ready'[i].event \in ToSet(es) /\ ready'[i].flush = FALSE
    BY <2>2 DEF Added, ToSet
  <2>4. LineTypes'
    BY <1>2, <2>0, <2>2 DEF LineTypes, Added
  <2>5. FlushAlone'
    BY <1>2, <2>0, <2>3 DEF FlushAlone, NoFlush
  <2>6. LineMembers'
    <3>1. ToSet(es) \cap ToSet(batched) = {}
      BY <1>2, <2>0 DEF LineMembers
    <3>2. ASSUME NEW i \in DOMAIN ready'
          PROVE  /\ ready'[i].event \notin fresh'
                 /\ ready'[i].flush <=> ready'[i].event \in ToSet(batched)
      BY <1>2, <2>0, <2>3, <3>1 DEF LineMembers
    <3> QED BY <1>2, <2>0, <3>2 DEF LineMembers
  <2>7. /\ Ordered(ready', batchQueue, lockQueue, flushing, batched)
        /\ \A x : InLine(ready, batchQueue, lockQueue, flushing, x) =>
             InLine(ready', batchQueue, lockQueue, flushing, x)
    <3>1. Ordered(ready, batchQueue, lockQueue, flushing, batched)
      BY <2>0 DEF LineOrdered
    <3> QED BY <2>0, <2>1, <3>1, IdleOrders
  <2>8. LineOrdered'
    BY <1>2, <2>0, <2>7 DEF LineOrdered, BatchInOrder
  <2> QED BY <2>4, <2>5, <2>6, <2>8 DEF LineInv
<1> QED BY <1>3, <1>4

LEMMA LineStep ==
  ASSUME LineInv, [StreamNext]_allVars
  PROVE  LineInv'
<1>1. CASE BusStep
  <2>1. ASSUME NEW e \in Events, PublishNow(e) \/ PublishBatched(e) PROVE LineInv'
    BY <2>1, PublishNowLine, PublishBatchedLine
  <2>2. ASSUME NEW e \in Events, NEW f \in Events, NEW wait \in BOOLEAN,
               PublishBatch(<<e, f>>, wait)
        PROVE  LineInv'
    BY <2>2, PublishBatchLine
  <2>3. CASE LoopStep
    BY <2>3, ProcessLine, AddToBatchLine, ProcessorWakesLine, ProcessorFlushesLine,
       FlushEndsLine DEF LoopStep
  <2>4. CASE ReplayAll \/ ShutdownBegins \/ ShutdownEnds
    <3>1. UNCHANGED lineVars
      BY <2>4 DEF ReplayAll, ShutdownBegins, ShutdownEnds, lineVars, batchVars
    <3> QED BY <3>1, LineSame
  <2> QED BY <1>1, <2>1, <2>2, <2>3, <2>4 DEF BusStep
<1>2. CASE Join \/ Leave \/ Return
  <2>1. UNCHANGED lineVars
    BY <1>2 DEF Join, Leave, Return, Subscribe, Unsubscribe, FinishCall, lineVars, batchVars
  <2> QED BY <2>1, LineSame
<1>3. ASSUME NEW c \in Streams,
             Open(c) \/ Close(c) \/ (\E e \in Events : PutAfterClose(c, e))
               \/ Thread(c) \/ Generator(c)
      PROVE  LineInv'
  <2>1. UNCHANGED lineVars
    BY <1>3 DEF Open, Close, PutAfterClose, Thread, Generator, Subscribe, FinishCall, Put,
       Wake, GetterMoves, FindEmpty, Park, GetAgain, Heartbeat, Yield, lineVars, batchVars,
       busVars
  <2> QED BY <2>1, LineSame
<1>4. CASE UNCHANGED allVars
  <2>1. UNCHANGED lineVars
    BY <1>4 DEF allVars, busVars, lineVars, batchVars
  <2> QED BY <2>1, LineSame
<1> QED BY <1>1, <1>2, <1>3, <1>4 DEF StreamNext, OnBus

LEMMA LineStart == StreamStart => LineInv
<1> SUFFICES ASSUME StreamStart PROVE LineInv
  OBVIOUS
<1>1. /\ ready = <<>> /\ batchQueue = <<>> /\ lockQueue = <<>> /\ flushing = FALSE
      /\ batched = <<>> /\ fresh \subseteq Events /\ seen = {}
  BY DEF StreamStart, StreamInit, BusInit
<1>2. \A T : <<>> \in Seq(T)
  BY EmptySeq
<1>3. DOMAIN <<>> = {} /\ Len(<<>>) = 0
  OBVIOUS
<1>4. LineTypes
  BY <1>1, <1>2 DEF LineTypes
<1>5. FlushAlone /\ LineMembers
  BY <1>1, <1>3 DEF FlushAlone, NoFlush, LineMembers, ToSet, Distinct
<1>6. LineOrdered
  BY <1>1, <1>3 DEF LineOrdered, Ordered, Left, BatchInOrder, ToSet
<1> QED BY <1>4, <1>5, <1>6 DEF LineInv

\* Events published with batch=True are processed in the order of publication,
\* whatever flushes the queue and whoever waits for the lock.
THEOREM BatchOrderHolds == StreamSpec => []BatchInOrder
<1>1. StreamStart => LineInv
  BY LineStart
<1>2. LineInv /\ [StreamNext]_allVars => LineInv'
  BY LineStep
<1>3. LineInv => BatchInOrder
  BY DEF LineInv, LineOrdered
<1> QED BY <1>1, <1>2, <1>3, PTL DEF StreamSpec
-----------------------------------------------------------------------------
(* The record of the bus, and what processing does to it.                    *)

BusRecord(b) ==
  /\ b = [handlers |-> b.handlers, history |-> b.history,
          running |-> b.running, called |-> b.called]
  /\ b.handlers \in [Keys -> SUBSET Subscriptions]
  /\ b.history \in Seq(Events) /\ Len(b.history) <= HistorySize
  /\ b.running \in [Handlers -> [Events -> Nat]]
  /\ b.called \in [Handlers -> [Events -> Nat]]

\* A call that runs was made.
CallsCounted(b) ==
  \A h \in Handlers, e \in Events : b.running[h][e] > 0 => b.called[h][e] > 0

\* The subscriptions OneShotOnce is about.
OneShots ==
  {s \in Subscriptions :
     /\ s.once /\ (\E k \in Types : s.keys = {k})
     /\ \A r \in Subscriptions : r.handler = s.handler => r = s}

Entered(b, s) == \E k \in Keys : s \in b.handlers[k]
Uncalled(b, s) == \A e \in Events : b.called[s.handler][e] = 0

\* While its entry is there, a one-shot handler has not been called.
Fires(b, s) ==
  /\ \A k \in Keys : s \in b.handlers[k] => k \in s.keys
  /\ Entered(b, s) => Uncalled(b, s)
  /\ \A e, f \in Events :
       /\ b.called[s.handler][e] <= 1
       /\ b.called[s.handler][e] = 0 \/ b.called[s.handler][f] = 0 \/ e = f

\* A subscription that was not made yet.
Dormant(b, s) == ~Entered(b, s) /\ Uncalled(b, s)

Listed(b, h) == \E k \in Keys : \E s \in b.handlers[k] : s.handler = h

\* Calls begin, of handlers that are listed, and no entry is made.
CallsBegin(b, a) ==
  /\ \A k \in Keys : a.handlers[k] \subseteq b.handlers[k]
  /\ \A h \in Handlers, e \in Events : b.running[h][e] <= a.running[h][e]
  /\ \A h \in Handlers : ~Listed(b, h) => a.running[h] = b.running[h]

\* What processing keeps, from the bus b to the bus a.
Advances(b, a) ==
  /\ BusRecord(a) /\ CallsCounted(a) /\ CallsBegin(b, a)
  /\ \A h \in Handlers, e \in Events : b.called[h][e] <= a.called[h][e]
  /\ \A s \in OneShots : Fires(b, s) => Fires(a, s)
  /\ \A s \in OneShots : Dormant(b, s) => Dormant(a, s)

LEMMA CallsFinite ==
  ASSUME NEW hs \in [Keys -> SUBSET Subscriptions], NEW e \in Events, NEW h
  PROVE  /\ IsFiniteSet(Matches(hs, e, h)) /\ CallsOf(hs, e, h) \in Nat
         /\ CallsOf(hs, e, h) = 0 <=> Matches(hs, e, h) = {}
<1>1. IsFiniteSet(KeysOf(e))
  <2> DEFINE covering == {p \in Patterns : TypeOf[e] \in Covers[p]}
  <2>1. IsFiniteSet(covering)
    <3>1. covering \in SUBSET Patterns
      OBVIOUS
    <3> QED BY <3>1, SubscriptionAssumption, FS_Subset
  <2>2. IsFiniteSet({TypeOf[e]})
    BY FS_Singleton
  <2> QED BY <2>1, <2>2, FS_Union DEF KeysOf
<1>2. IsFiniteSet(KeysOf(e) \X Subscriptions)
  BY <1>1, SubscriptionAssumption, FS_Product
<1>3. Matches(hs, e, h) \in SUBSET (KeysOf(e) \X Subscriptions)
  BY DEF Matches
<1>4. IsFiniteSet(Matches(hs, e, h))
  BY <1>2, <1>3, FS_Subset
<1> QED BY <1>4, FS_CardinalityType, FS_EmptySet DEF CallsOf

LEMMA KeysAreKeys ==
  ASSUME NEW e \in Events
  PROVE  TypeOf[e] \in KeysOf(e) /\ KeysOf(e) \subseteq Keys /\ TypeOf[e] \in Keys
BY DEF KeysOf, Keys, Types

\* The counts m are those of count with the calls for e.
Counted(m, count, hs, e) ==
  /\ m \in [Handlers -> [Events -> Nat]]
  /\ \A h \in Handlers, f \in Events :
       m[h][f] = IF f = e THEN count[h][f] + CallsOf(hs, e, h) ELSE count[h][f]

LEMMA MoreIs ==
  ASSUME NEW count, count \in [Handlers -> [Events -> Nat]],
         NEW hs, hs \in [Keys -> SUBSET Subscriptions], NEW e \in Events
  PROVE  Counted(More(count, hs, e), count, hs, e)
<1>1. \A h \in Handlers : CallsOf(hs, e, h) \in Nat
  BY CallsFinite
<1>2. \A h \in Handlers :
        [count[h] EXCEPT ![e] = @ + CallsOf(hs, e, h)] \in [Events -> Nat]
  BY <1>1
<1> QED BY <1>1, <1>2 DEF More, Counted

LEMMA RememberIs ==
  ASSUME NEW s \in Seq(Events), Len(s) <= HistorySize, NEW e \in Events
  PROVE  Remember(s, e) \in Seq(Events) /\ Len(Remember(s, e)) <= HistorySize
<1>1. HistorySize \in Nat \ {0} /\ Len(s) \in Nat
  BY EventAssumption
<1>2. CASE Len(s) < HistorySize
  <2>1. Append(s, e) \in Seq(Events) /\ Len(Append(s, e)) = Len(s) + 1
    OBVIOUS
  <2> QED BY <1>1, <1>2, <2>1 DEF Remember
<1>3. CASE ~(Len(s) < HistorySize)
  <2>1. PICK t \in Seq(Events) : t = Tail(s) /\ Len(t) = Len(s) - 1
    <3>1. Tail(s) \in Seq(Events) /\ Len(Tail(s)) = Len(s) - 1
      BY <1>1, <1>3
    <3> QED BY <3>1
  <2>2. Append(t, e) \in Seq(Events) /\ Len(Append(t, e)) = Len(t) + 1
    OBVIOUS
  <2> QED BY <1>1, <1>3, <2>1, <2>2 DEF Remember
<1> QED BY <1>2, <1>3

\* The list of a type loses the handlers that were called once, the others stay.
LEMMA RemovedIs ==
  ASSUME NEW hs \in [Keys -> SUBSET Subscriptions], NEW e \in Events
  PROVE  /\ MatchingRemoved(hs, e) \in [Keys -> SUBSET Subscriptions]
         /\ \A k \in Keys : MatchingRemoved(hs, e)[k] \subseteq hs[k]
         /\ \A s \in MatchingRemoved(hs, e)[TypeOf[e]] : s.handler \notin Spent(hs, e)
<1>1. TypeOf[e] \in Keys
  BY KeysAreKeys
<1> QED BY <1>1 DEF MatchingRemoved

\* A one-shot subscription matches under its key or not at all, and is spent.
LEMMA OneShotMatch ==
  ASSUME NEW hs \in [Keys -> SUBSET Subscriptions], NEW s \in OneShots, NEW e \in Events,
         \A k \in Keys : s \in hs[k] => k \in s.keys
  PROVE  \/ CallsOf(hs, e, s.handler) = 0
         \/ /\ CallsOf(hs, e, s.handler) = 1 /\ s \in hs[TypeOf[e]]
            /\ s.keys = {TypeOf[e]} /\ s.handler \in Spent(hs, e)
<1> DEFINE h == s.handler
           M == Matches(hs, e, h)
<1>1. PICK k \in Types : s.keys = {k}
  BY DEF OneShots
<1>2. h \in Handlers /\ s \in Subscriptions /\ s.once
  BY SubscriptionAssumption DEF OneShots
<1>3. M \subseteq {<<k, s>>}
  <2> SUFFICES ASSUME NEW x \in M PROVE x = <<k, s>>
    OBVIOUS
  <2>1. /\ x = <<x[1], x[2]>> /\ x[1] \in KeysOf(e) /\ x[2] \in Subscriptions
        /\ x[2] \in hs[x[1]] /\ x[2].handler = h
    BY DEF Matches
  <2>2. x[2] = s
    BY <2>1 DEF OneShots
  <2>3. x[1] = k
    BY <1>1, <2>1, <2>2, KeysAreKeys
  <2> QED BY <2>1, <2>2, <2>3
<1>4. CASE M = {}
  BY <1>4, CallsFinite
<1>5. CASE M # {}
  <2>1. M = {<<k, s>>}
    BY <1>3, <1>5
  <2>2. CallsOf(hs, e, h) = 1
    BY <2>1, FS_Singleton DEF CallsOf
  <2>3. <<k, s>> \in M
    BY <2>1
  <2>4. k \in KeysOf(e) /\ s \in hs[k]
    BY <2>3 DEF Matches
  <2>5. k = TypeOf[e]
    BY <2>4, SubscriptionAssumption DEF KeysOf
  <2>6. h \in Spent(hs, e)
    <3>1. <<k, s>>[2] = s
      OBVIOUS
    <3> QED BY <1>2, <2>3, <3>1 DEF Spent
  <2> QED BY <1>1, <2>2, <2>4, <2>5, <2>6
<1> QED BY <1>4, <1>5

LEMMA ProcessFires ==
  ASSUME NEW b, BusRecord(b), NEW e \in Events, NEW s \in OneShots
  PROVE  /\ Fires(b, s) => Fires(Process(b, e), s)
         /\ Dormant(b, s) => Dormant(Process(b, e), s)
<1> DEFINE h == s.handler
           n == CallsOf(b.handlers, e, h)
<1>1. PICK a : a = Process(b, e)
  OBVIOUS
<1>2. a.handlers = MatchingRemoved(b.handlers, e) /\ a.called = More(b.called, b.handlers, e)
  BY <1>1 DEF Process
<1>3. /\ b.handlers \in [Keys -> SUBSET Subscriptions]
      /\ b.called \in [Handlers -> [Events -> Nat]]
  BY DEF BusRecord
<1>4. h \in Handlers /\ s \in Subscriptions /\ n \in Nat
  BY <1>3, CallsFinite, SubscriptionAssumption DEF OneShots
<1>5. /\ \A k \in Keys : a.handlers[k] \subseteq b.handlers[k]
      /\ \A r \in a.handlers[TypeOf[e]] : r.handler \notin Spent(b.handlers, e)
  BY <1>2, <1>3, RemovedIs
<1>6. \A f \in Events :
        a.called[h][f] = IF f = e THEN b.called[h][f] + n ELSE b.called[h][f]
  <2>1. Counted(a.called, b.called, b.handlers, e)
    BY <1>2, <1>3, MoreIs, Zenon
  <2> QED BY <1>4, <2>1 DEF Counted
<1>7. \A f \in Events : b.called[h][f] \in Nat
  BY <1>3, <1>4
<1> HIDE DEF h, n
<1>8. ASSUME Dormant(b, s) PROVE Dormant(a, s)
  <2>1. n = 0
    <3>1. \A k \in Keys : s \in b.handlers[k] => k \in s.keys
      BY <1>8 DEF Dormant, Entered
    <3>2. s \notin b.handlers[TypeOf[e]]
      BY <1>8, KeysAreKeys DEF Dormant, Entered
    <3> QED BY <1>3, <3>1, <3>2, OneShotMatch DEF h, n
  <2> QED BY <1>5, <1>6, <1>7, <1>8, <2>1 DEF Dormant, Entered, Uncalled, h
<1>9. ASSUME Fires(b, s) PROVE Fires(a, s)
  <2>1. \A k \in Keys : s \in a.handlers[k] => k \in s.keys
    BY <1>5, <1>9 DEF Fires
  <2>2. CASE n = 0
    <3>1. \A f \in Events : a.called[h][f] = b.called[h][f]
      BY <1>6, <1>7, <2>2
    <3>2. Entered(a, s) => Entered(b, s)
      BY <1>5 DEF Entered
    <3> QED BY <1>9, <2>1, <3>1, <3>2 DEF Fires, Uncalled, h
  <2>3. CASE n # 0
    <3>1. /\ n = 1 /\ s \in b.handlers[TypeOf[e]] /\ s.keys = {TypeOf[e]}
          /\ h \in Spent(b.handlers, e)
      BY <1>3, <1>9, <2>3, OneShotMatch DEF Fires, h, n
    <3>2. ~Entered(a, s)
      BY <1>5, <2>1, <3>1 DEF Entered, h
    <3>3. \A f \in Events : b.called[h][f] = 0
      BY <1>9, <3>1, KeysAreKeys DEF Fires, Entered, Uncalled, h
    <3>4. \A f \in Events : a.called[h][f] = IF f = e THEN 1 ELSE 0
      BY <1>6, <3>1, <3>3
    <3> QED BY <2>1, <3>2, <3>4 DEF Fires, h
  <2> QED BY <2>2, <2>3
<1> QED BY <1>1, <1>8, <1>9

LEMMA ProcessAdvances ==
  ASSUME NEW b, BusRecord(b), CallsCounted(b), NEW e \in Events
  PROVE  Advances(b, Process(b, e))
<1>1. PICK hs \in [Keys -> SUBSET Subscriptions], history \in Seq(Events),
           runs \in [Handlers -> [Events -> Nat]], made \in [Handlers -> [Events -> Nat]] :
        /\ hs = b.handlers /\ history = b.history /\ runs = b.running /\ made = b.called
        /\ Len(history) <= HistorySize
  BY DEF BusRecord
<1>2. PICK a : a = Process(b, e)
  OBVIOUS
<1>3. /\ a.handlers = MatchingRemoved(hs, e) /\ a.history = Remember(history, e)
      /\ a.running = More(runs, hs, e) /\ a.called = More(made, hs, e)
  BY <1>1, <1>2 DEF Process
<1>4. Counted(a.running, runs, hs, e)
  BY <1>3, MoreIs, Zenon
<1>5. Counted(a.called, made, hs, e)
  BY <1>3, MoreIs, Zenon
<1>6. BusRecord(a)
  <2>1. a = [handlers |-> a.handlers, history |-> a.history,
             running |-> a.running, called |-> a.called]
    BY <1>2 DEF Process
  <2>2. a.handlers \in [Keys -> SUBSET Subscriptions]
    <3>1. MatchingRemoved(hs, e) \in [Keys -> SUBSET Subscriptions]
      BY RemovedIs
    <3> QED BY <1>3, <3>1
  <2>3. a.history \in Seq(Events) /\ Len(a.history) <= HistorySize
    BY <1>1, <1>3, RememberIs
  <2> QED BY <1>4, <1>5, <2>1, <2>2, <2>3 DEF BusRecord, Counted
<1>7. ASSUME NEW h \in Handlers, NEW f \in Events
      PROVE  b.called[h][f] <= a.called[h][f]
             /\ (a.running[h][f] > 0 => a.called[h][f] > 0)
  <2>1. PICK n \in Nat : n = CallsOf(hs, e, h)
    BY CallsFinite
  <2>2. /\ a.running[h][f] = IF f = e THEN runs[h][f] + n ELSE runs[h][f]
        /\ a.called[h][f] = IF f = e THEN made[h][f] + n ELSE made[h][f]
    BY <1>4, <1>5, <2>1 DEF Counted
  <2>3. runs[h][f] \in Nat /\ made[h][f] \in Nat
        /\ (runs[h][f] > 0 => made[h][f] > 0)
    BY <1>1 DEF CallsCounted
  <2> QED BY <1>1, <2>2, <2>3
<1>8. CallsCounted(a)
  BY <1>7 DEF CallsCounted
<1>9. \A s \in OneShots : (Fires(b, s) => Fires(a, s)) /\ (Dormant(b, s) => Dormant(a, s))
  BY <1>2, ProcessFires
<1>10. CallsBegin(b, a)
  <2>1. \A k \in Keys : a.handlers[k] \subseteq b.handlers[k]
    BY <1>1, <1>3, RemovedIs
  <2>2. ASSUME NEW h \in Handlers, NEW f \in Events
        PROVE  /\ b.running[h][f] <= a.running[h][f]
               /\ ~Listed(b, h) => a.running[h][f] = b.running[h][f]
    <3>1. PICK n \in Nat : n = CallsOf(hs, e, h)
      BY CallsFinite
    <3>2. a.running[h][f] = IF f = e THEN runs[h][f] + n ELSE runs[h][f]
      BY <1>4, <3>1 DEF Counted
    <3>3. runs[h][f] \in Nat
      OBVIOUS
    <3>4. ~Listed(b, h) => n = 0
      <4>1. \A x \in Matches(hs, e, h) :
              x[1] \in Keys /\ x[2] \in hs[x[1]] /\ x[2].handler = h
        BY KeysAreKeys DEF Matches
      <4>2. ~Listed(b, h) => Matches(hs, e, h) = {}
        BY <1>1, <4>1 DEF Listed
      <4> QED BY <3>1, <4>2, CallsFinite
    <3> QED BY <1>1, <3>2, <3>3, <3>4
  <2>3. \A h \in Handlers : ~Listed(b, h) => a.running[h] = b.running[h]
    <3>1. \A h \in Handlers : a.running[h] \in [Events -> Nat] /\ b.running[h] \in [Events -> Nat]
      BY <1>6 DEF BusRecord
    <3> QED BY <2>2, <3>1
  <2> QED BY <2>1, <2>2, <2>3 DEF CallsBegin
<1> QED BY <1>2, <1>6, <1>7, <1>8, <1>9, <1>10 DEF Advances

LEMMA AdvancesOn ==
  ASSUME NEW b, NEW a, NEW c, BusRecord(b), Advances(b, a), Advances(a, c)
  PROVE  Advances(b, c)
<1>1. ASSUME NEW h \in Handlers, NEW f \in Events PROVE b.called[h][f] <= c.called[h][f]
  <2>1. b.called[h][f] \in Nat /\ a.called[h][f] \in Nat /\ c.called[h][f] \in Nat
    BY DEF BusRecord, Advances
  <2>2. b.called[h][f] <= a.called[h][f] /\ a.called[h][f] <= c.called[h][f]
    BY DEF Advances
  <2> QED BY <2>1, <2>2
<1>2. CallsBegin(b, c)
  <2>1. CallsBegin(b, a) /\ CallsBegin(a, c)
    BY DEF Advances
  <2>2. ASSUME NEW h \in Handlers, NEW f \in Events PROVE b.running[h][f] <= c.running[h][f]
    <3>1. b.running[h][f] \in Nat /\ a.running[h][f] \in Nat /\ c.running[h][f] \in Nat
      BY DEF BusRecord, Advances
    <3> QED BY <2>1, <3>1 DEF CallsBegin
  <2>3. ASSUME NEW h \in Handlers, ~Listed(b, h) PROVE c.running[h] = b.running[h]
    <3>1. ~Listed(a, h)
      BY <2>1, <2>3 DEF CallsBegin, Listed
    <3> QED BY <2>1, <2>3, <3>1 DEF CallsBegin
  <2>4. \A k \in Keys : c.handlers[k] \subseteq b.handlers[k]
    BY <2>1 DEF CallsBegin
  <2> QED BY <2>2, <2>3, <2>4 DEF CallsBegin
<1> QED BY <1>1, <1>2 DEF Advances

LEMMA AdvancesSame ==
  ASSUME NEW b, BusRecord(b), CallsCounted(b)
  PROVE  Advances(b, b)
<1>1. \A h \in Handlers, f \in Events : b.called[h][f] \in Nat /\ b.running[h][f] \in Nat
  BY DEF BusRecord
<1> QED BY <1>1 DEF Advances, CallsBegin

\* The bus after each event of a replay, as a list of its states.
StateAfter(b, es, f, n) ==
  f = [i \in 0 .. n |-> IF i = 0 THEN b ELSE Process(f[i - 1], es[i])]

LEMMA ReplayExists ==
  ASSUME NEW b, NEW es, NEW n \in Nat
  PROVE  \E f : StateAfter(b, es, f, n)
<1> DEFINE None == {m \in Nat : ~ \E f : StateAfter(b, es, f, m)}
<1> SUFFICES ASSUME None # {} PROVE FALSE
  OBVIOUS
<1>1. PICK m \in None : \A k \in None : m <= k
  <2>1. None \in SUBSET Nat
    OBVIOUS
  <2> HIDE DEF None
  <2> QED BY <2>1, MinFacts
<1>2. m \in Nat /\ ~ \E f : StateAfter(b, es, f, m)
  OBVIOUS
<1>3. CASE m = 0
  <2>1. PICK f : f = [i \in 0 .. 0 |-> b]
    OBVIOUS
  <2>2. StateAfter(b, es, f, 0)
    BY <2>1 DEF StateAfter
  <2> QED BY <1>2, <1>3, <2>2
<1>4. CASE m # 0
  <2>1. m - 1 \in Nat /\ m - 1 \notin None
    BY <1>1, <1>2, <1>4
  <2>2. PICK g : StateAfter(b, es, g, m - 1)
    BY <2>1
  <2>3. PICK f : f = [i \in 0 .. m |-> IF i = m THEN Process(g[m - 1], es[m]) ELSE g[i]]
    OBVIOUS
  <2>4. ASSUME NEW i \in 0 .. m
        PROVE  f[i] = IF i = 0 THEN b ELSE Process(f[i - 1], es[i])
    <3>1. CASE i = m
      <4>1. f[i] = Process(g[m - 1], es[m]) /\ m - 1 \in 0 .. m /\ m - 1 # m
        BY <1>2, <1>4, <2>3, <3>1
      <4>2. f[m - 1] = g[m - 1]
        BY <2>3, <4>1
      <4> QED BY <1>4, <3>1, <4>1, <4>2
    <3>2. CASE i # m
      <4>1. i \in 0 .. m - 1 /\ f[i] = g[i]
        BY <1>2, <2>3, <3>2
      <4>2. g[i] = IF i = 0 THEN b ELSE Process(g[i - 1], es[i])
        BY <2>2, <4>1 DEF StateAfter
      <4>3. CASE i # 0
        <5>1. i - 1 \in 0 .. m /\ i - 1 # m
          BY <1>2, <4>1, <4>3
        <5>2. f[i - 1] = g[i - 1]
          BY <2>3, <5>1
        <5> QED BY <4>1, <4>2, <4>3, <5>2
      <4> QED BY <4>1, <4>2, <4>3
    <3> QED BY <3>1, <3>2
  <2>5. StateAfter(b, es, f, m)
    <3>1. f = [i \in 0 .. m |-> f[i]]
      BY <2>3
    <3> QED BY <2>4, <3>1 DEF StateAfter
  <2> QED BY <1>2, <2>5
<1> QED BY <1>3, <1>4

LEMMA ReplayedIs ==
  ASSUME NEW b, NEW es, Len(es) \in Nat
  PROVE  \E f : StateAfter(b, es, f, Len(es)) /\ Replayed(b, es) = f[Len(es)]
<1> DEFINE after[i \in 0 .. Len(es)] ==
             IF i = 0 THEN b ELSE Process(after[i - 1], es[i])
<1>1. \E f : f = [i \in 0 .. Len(es) |-> IF i = 0 THEN b ELSE Process(f[i - 1], es[i])]
  <2>1. \E f : StateAfter(b, es, f, Len(es))
    BY ReplayExists
  <2> QED BY <2>1, Zenon DEF StateAfter
<1>2. after = [i \in 0 .. Len(es) |-> IF i = 0 THEN b ELSE Process(after[i - 1], es[i])]
  BY <1>1
<1>3. Replayed(b, es) = after[Len(es)]
  BY Zenon DEF Replayed
<1> HIDE DEF after
<1> QED BY <1>2, <1>3 DEF StateAfter

LEMMA ReplayAdvances ==
  ASSUME NEW b, BusRecord(b), CallsCounted(b), NEW es \in Seq(Events)
  PROVE  Advances(b, Replayed(b, es))
<1>1. PICK f : StateAfter(b, es, f, Len(es)) /\ Replayed(b, es) = f[Len(es)]
  BY ReplayedIs
<1> DEFINE Bad == {i \in 0 .. Len(es) : ~Advances(b, f[i])}
<1>2. Bad = {}
  <2> SUFFICES ASSUME Bad # {} PROVE FALSE
    OBVIOUS
  <2>1. PICK m \in Bad : \A k \in Bad : m <= k
    <3>1. Bad \in SUBSET Nat
      OBVIOUS
    <3> HIDE DEF Bad
    <3> QED BY <3>1, MinFacts
  <2>2. m \in 0 .. Len(es) /\ ~Advances(b, f[m]) /\ Len(es) \in Nat
    OBVIOUS
  <2>3. f[m] = IF m = 0 THEN b ELSE Process(f[m - 1], es[m])
    BY <1>1, <2>2 DEF StateAfter
  <2>4. m # 0
    BY <2>2, <2>3, AdvancesSame
  <2>5. m - 1 \in 0 .. Len(es) /\ ~(m <= m - 1)
    BY <2>2, <2>4
  <2>6. Advances(b, f[m - 1])
    BY <2>1, <2>5
  <2>7. es[m] \in Events
    BY <2>2, <2>4
  <2>8. Advances(f[m - 1], Process(f[m - 1], es[m]))
    <3>1. BusRecord(f[m - 1]) /\ CallsCounted(f[m - 1])
      BY <2>6 DEF Advances
    <3> QED BY <2>7, <3>1, ProcessAdvances
  <2> QED BY <2>2, <2>3, <2>4, <2>6, <2>8, AdvancesOn
<1>3. Len(es) \in 0 .. Len(es)
  BY LenProperties
<1> QED BY <1>1, <1>2, <1>3
-----------------------------------------------------------------------------
(* One-shot handlers.                                                        *)

CallsInv ==
  /\ BusRecord(bus) /\ CallsCounted(bus) /\ pending \subseteq Subscriptions
  /\ \A s \in OneShots : Fires(bus, s) /\ (s \in pending => Dormant(bus, s))

\* The counts of b and a are the same; the entries are those of hs.
Rewritten(b, a, hs) ==
  /\ BusRecord(a) /\ CallsCounted(a)
  /\ a.handlers = hs /\ a.called = b.called

BusOf(hs, past, runs, made) ==
  [handlers |-> hs, history |-> past, running |-> runs, called |-> made]
Relisted(b, hs) == [b EXCEPT !.handlers = hs]
Cleared(b, hs, past) == [b EXCEPT !.handlers = hs, !.history = past]

LEMMA BusExcept ==
  ASSUME NEW b, NEW h, NEW es, NEW runs, NEW made, NEW hs, NEW past,
         b = BusOf(h, es, runs, made)
  PROVE  /\ Relisted(b, hs) = BusOf(hs, es, runs, made)
         /\ Cleared(b, hs, past) = BusOf(hs, past, runs, made)
<1>1. Relisted(b, hs) = BusOf(hs, es, runs, made)
  BY DEF Relisted, BusOf
<1>2. Cleared(b, hs, past) = BusOf(hs, past, runs, made)
  <2>1. PICK a : a = Cleared(b, hs, past)
    OBVIOUS
  <2>2. /\ a = [i \in DOMAIN a |-> a[i]]
        /\ DOMAIN a = {"handlers", "history", "running", "called"}
    BY <2>1 DEF Cleared, BusOf
  <2>3. /\ a.handlers = hs /\ a.history = past /\ a.running = runs
        /\ a.called = made
    BY <2>1 DEF Cleared, BusOf
  <2> QED BY <2>1, <2>2, <2>3 DEF BusOf
<1> QED BY <1>1, <1>2

LEMMA HandlersRewritten ==
  ASSUME NEW b, BusRecord(b), CallsCounted(b), NEW hs \in [Keys -> SUBSET Subscriptions]
  PROVE  /\ Rewritten(b, Relisted(b, hs), hs)
         /\ \A past \in Seq(Events) : Len(past) <= HistorySize =>
              Rewritten(b, Cleared(b, hs, past), hs)
<1>1. PICK h, es, runs, made :
        /\ b = BusOf(h, es, runs, made) /\ made = b.called
        /\ es \in Seq(Events) /\ Len(es) <= HistorySize
        /\ runs \in [Handlers -> [Events -> Nat]] /\ made \in [Handlers -> [Events -> Nat]]
        /\ \A x \in Handlers, e \in Events : runs[x][e] > 0 => made[x][e] > 0
  BY DEF BusRecord, CallsCounted, BusOf
<1>2. ASSUME NEW s \in Seq(Events), Len(s) <= HistorySize, NEW a,
             a = BusOf(hs, s, runs, made)
      PROVE  Rewritten(b, a, hs)
  <2>1. /\ a.handlers = hs /\ a.history = s /\ a.running = runs /\ a.called = made
        /\ a = [handlers |-> a.handlers, history |-> a.history,
                running |-> a.running, called |-> a.called]
    BY <1>2 DEF BusOf
  <2>2. BusRecord(a)
    BY <1>1, <1>2, <2>1 DEF BusRecord
  <2>3. CallsCounted(a)
    BY <1>1, <2>1 DEF CallsCounted
  <2> QED BY <1>1, <2>1, <2>2, <2>3 DEF Rewritten
<1> QED BY <1>1, <1>2, BusExcept

\* Entries that go, alone, are harmless.
LEMMA EntriesGo ==
  ASSUME CallsInv, UNCHANGED pending, NEW hs, Rewritten(bus, bus', hs),
         \A k \in Keys : hs[k] \subseteq bus.handlers[k]
  PROVE  CallsInv'
<1>1. \A s : Entered(bus', s) => Entered(bus, s)
  BY DEF Rewritten, Entered
<1>2. \A s : Uncalled(bus', s) <=> Uncalled(bus, s)
  BY DEF Rewritten, Uncalled
<1>3. \A s \in OneShots : Fires(bus', s)
  BY <1>1, <1>2 DEF CallsInv, Fires, Rewritten
<1>4. \A s \in OneShots : s \in pending => Dormant(bus', s)
  BY <1>1, <1>2 DEF CallsInv, Dormant
<1> QED BY <1>3, <1>4 DEF CallsInv, Rewritten

LEMMA WithoutIs ==
  ASSUME NEW hs \in [Keys -> SUBSET Subscriptions], NEW h, NEW keys
  PROVE  /\ WithoutHandler(hs, h, keys) \in [Keys -> SUBSET Subscriptions]
         /\ \A k \in Keys : WithoutHandler(hs, h, keys)[k] \subseteq hs[k]
BY DEF WithoutHandler

LEMMA SubscribeCalls ==
  ASSUME CallsInv, NEW s \in Subscriptions, Subscribe(s)
  PROVE  CallsInv'
<1>1. PICK hs : hs = [k \in Keys |-> IF k \in s.keys THEN bus.handlers[k] \cup {s}
                                                     ELSE bus.handlers[k]]
  OBVIOUS
<1>2. /\ s \in pending /\ pending' = pending \ {s} /\ bus' = Relisted(bus, hs)
  BY <1>1 DEF Subscribe, Relisted
<1>3. BusRecord(bus) /\ CallsCounted(bus) /\ bus.handlers \in [Keys -> SUBSET Subscriptions]
  BY DEF CallsInv, BusRecord
<1>4. hs \in [Keys -> SUBSET Subscriptions]
  BY <1>1, <1>3
<1>5. Rewritten(bus, bus', hs)
  BY <1>2, <1>3, <1>4, HandlersRewritten
<1>6. \A r : Uncalled(bus', r) <=> Uncalled(bus, r)
  BY <1>5 DEF Rewritten, Uncalled
<1>7. ASSUME NEW r \in OneShots
      PROVE  Fires(bus', r) /\ (r \in pending' => Dormant(bus', r))
  <2>1. Fires(bus, r) /\ (r \in pending => Dormant(bus, r))
    BY DEF CallsInv
  <2>2. CASE r = s
    <3>1. Dormant(bus, r)
      BY <1>2, <2>1, <2>2
    <3>2. \A k \in Keys : r \in bus'.handlers[k] => k \in r.keys
      BY <1>1, <1>5, <2>2, <3>1 DEF Rewritten, Dormant, Entered
    <3>3. Uncalled(bus', r)
      BY <1>6, <3>1 DEF Dormant
    <3> QED BY <1>2, <1>5, <2>1, <2>2, <3>2, <3>3 DEF Fires, Rewritten
  <2>3. CASE r # s
    <3>1. \A k \in Keys : r \in bus'.handlers[k] <=> r \in bus.handlers[k]
      BY <1>1, <1>5, <2>3 DEF Rewritten
    <3>2. Entered(bus', r) <=> Entered(bus, r)
      BY <3>1 DEF Entered
    <3>3. Fires(bus', r)
      BY <1>5, <1>6, <2>1, <3>1, <3>2 DEF Fires, Rewritten
    <3> QED BY <1>2, <1>6, <2>1, <3>2, <3>3 DEF Dormant
  <2> QED BY <2>2, <2>3
<1>8. pending' \subseteq Subscriptions
  BY <1>2 DEF CallsInv
<1> QED BY <1>5, <1>7, <1>8 DEF CallsInv, Rewritten

LEMMA FinishCallCalls ==
  ASSUME CallsInv, NEW h \in Handlers, NEW e \in Events, FinishCall(h, e)
  PROVE  CallsInv'
<1>1. PICK hs, es, runs, made :
        /\ bus = [handlers |-> hs, history |-> es, running |-> runs, called |-> made]
        /\ hs \in [Keys -> SUBSET Subscriptions]
        /\ es \in Seq(Events) /\ Len(es) <= HistorySize
        /\ runs \in [Handlers -> [Events -> Nat]] /\ made \in [Handlers -> [Events -> Nat]]
  BY DEF CallsInv, BusRecord
<1>2. PICK ends : ends = [runs EXCEPT ![h][e] = runs[h][e] - 1]
  OBVIOUS
<1>3. /\ runs[h][e] > 0 /\ UNCHANGED pending
      /\ bus' = [handlers |-> hs, history |-> es, running |-> ends, called |-> made]
  BY <1>1, <1>2 DEF FinishCall
<1>4. ends \in [Handlers -> [Events -> Nat]]
  BY <1>1, <1>2, <1>3
<1>5. \A x \in Handlers, f \in Events : ends[x][f] > 0 => made[x][f] > 0
  <2>1. \A x \in Handlers, f \in Events : runs[x][f] > 0 => made[x][f] > 0
    BY <1>1 DEF CallsInv, CallsCounted
  <2> QED BY <1>1, <1>2, <1>3, <2>1
<1>6. /\ bus'.handlers = hs /\ bus'.history = es /\ bus'.running = ends
      /\ bus'.called = made
      /\ bus' = [handlers |-> bus'.handlers, history |-> bus'.history,
                 running |-> bus'.running, called |-> bus'.called]
  BY <1>3
<1>7. Rewritten(bus, bus', hs)
  <2>1. BusRecord(bus')
    BY <1>1, <1>4, <1>6 DEF BusRecord
  <2>2. CallsCounted(bus')
    BY <1>5, <1>6 DEF CallsCounted
  <2> QED BY <1>1, <1>6, <2>1, <2>2 DEF Rewritten
<1> QED BY <1>1, <1>3, <1>7, EntriesGo

LEMMA AdvanceCalls ==
  ASSUME CallsInv, UNCHANGED pending, Advances(bus, bus')
  PROVE  CallsInv'
BY DEF CallsInv, Advances
LEMMA CallsSame == CallsInv /\ UNCHANGED <<bus, pending>> => CallsInv'
BY DEF CallsInv

\* Process, by whichever way the event came.
LEMMA ProcessCalls ==
  ASSUME CallsInv, NEW e \in Events, bus' = Process(bus, e)
  PROVE  Advances(bus, bus')
BY ProcessAdvances DEF CallsInv

LEMMA RecentIs ==
  ASSUME NEW s \in Seq(Events)
  PROVE  Recent(s) \in Seq(Events)
<1>1. CASE Len(s) <= ReplayLimit
  BY <1>1 DEF Recent
<1>2. CASE ~(Len(s) <= ReplayLimit)
  <2>1. ReplayLimit \in Nat \ {0} /\ Len(s) \in Nat /\ \A i \in DOMAIN s : s[i] \in Events
    BY EventAssumption
  <2>2. PICK m \in Nat : m = Len(s) - ReplayLimit + 1 /\ 1 <= m /\ m <= Len(s)
    BY <1>2, <2>1
  <2>3. SubSeq(s, m, Len(s)) \in Seq(Events)
    BY <2>1, <2>2
  <2> QED BY <1>2, <2>2, <2>3 DEF Recent
<1> QED BY <1>1, <1>2

\* A step of the bus advances it, leaves it alone, or is the end of shutdown.
LEMMA BusMoves ==
  ASSUME CallsInv, LineInv, BusStep
  PROVE  \/ UNCHANGED pending /\ Advances(bus, bus')
         \/ UNCHANGED <<bus, pending>>
         \/ ShutdownEnds
<1>0. BusRecord(bus) /\ CallsCounted(bus) /\ bus.history \in Seq(Events)
  BY DEF CallsInv, BusRecord
<1>1. ASSUME NEW e \in Events, PublishNow(e)
      PROVE  UNCHANGED pending /\ Advances(bus, bus')
  BY <1>1, ProcessCalls DEF PublishNow
<1>2. ASSUME ProcessTask PROVE UNCHANGED pending /\ Advances(bus, bus')
  <2>1. Head(ready) \in TaskType
    BY <1>2 DEF ProcessTask, LineInv, LineTypes
  <2>2. PICK e \in Events : e = Head(ready).event
    BY <2>1 DEF TaskType
  <2> QED BY <1>2, <2>2, ProcessCalls DEF ProcessTask
<1>3. ASSUME ReplayAll PROVE UNCHANGED pending /\ Advances(bus, bus')
  <2>1. PICK es \in Seq(Events) : es = Recent(bus.history)
    BY <1>0, RecentIs
  <2> QED BY <1>0, <1>3, <2>1, ReplayAdvances DEF ReplayAll
<1>4. ASSUME NEW e \in Events, PublishBatched(e) PROVE UNCHANGED <<bus, pending>>
  BY <1>4 DEF PublishBatched
<1>5. ASSUME NEW e \in Events, NEW f \in Events, NEW wait \in BOOLEAN,
             PublishBatch(<<e, f>>, wait)
      PROVE  UNCHANGED <<bus, pending>>
  BY <1>5 DEF PublishBatch
<1>6. ASSUME AddToBatch \/ ProcessorWakes \/ ProcessorFlushes \/ FlushEnds \/ ShutdownBegins
      PROVE  UNCHANGED <<bus, pending>>
  BY <1>6 DEF AddToBatch, ProcessorWakes, ProcessorFlushes, FlushEnds, ShutdownBegins
<1> QED BY <1>1, <1>2, <1>3, <1>4, <1>5, <1>6 DEF BusStep, LoopStep

\* The end of shutdown takes every entry away and calls nobody.
LEMMA ShutdownIs ==
  ASSUME CallsInv, ShutdownEnds
  PROVE  \E hs \in [Keys -> SUBSET Subscriptions] :
           /\ hs = [k \in Keys |-> {}] /\ Rewritten(bus, bus', hs)
           /\ bus'.running = bus.running /\ UNCHANGED pending
<1>0. BusRecord(bus) /\ CallsCounted(bus)
  BY DEF CallsInv
<1>1. PICK hs \in [Keys -> SUBSET Subscriptions] : hs = [k \in Keys |-> {}]
  OBVIOUS
<1>2. <<>> \in Seq(Events) /\ Len(<<>>) = 0
  BY EmptySeq
<1>3. PICK past \in Seq(Events) : past = <<>> /\ Len(past) <= HistorySize
  <2>1. Len(<<>>) <= HistorySize
    BY <1>2, EventAssumption
  <2> QED BY <1>2, <2>1, Zenon
<1>4. bus' = Cleared(bus, hs, past) /\ UNCHANGED pending
  <2>1. bus' = Cleared(bus, [k \in Keys |-> {}], <<>>) /\ UNCHANGED pending
    BY Zenon DEF ShutdownEnds, Cleared
  <2> QED BY <1>1, <1>3, <2>1
<1>5. Rewritten(bus, bus', hs)
  BY <1>0, <1>4, <1>3, HandlersRewritten, Zenon
<1>6. bus'.running = bus.running
  BY <1>0, <1>4 DEF BusRecord, Cleared
<1> QED BY <1>1, <1>4, <1>5, <1>6

LEMMA BusStepCalls ==
  ASSUME CallsInv, LineInv, BusStep
  PROVE  CallsInv' /\ \A h \in Handlers, e \in Events : bus.called[h][e] <= bus'.called[h][e]
<1>0. \A h \in Handlers, e \in Events : bus.called[h][e] \in Nat
  BY DEF CallsInv, BusRecord
<1>1. CASE UNCHANGED pending /\ Advances(bus, bus')
  BY <1>1, AdvanceCalls DEF Advances
<1>2. CASE UNCHANGED <<bus, pending>>
  BY <1>0, <1>2, CallsSame
<1>3. CASE ShutdownEnds
  <2>1. PICK hs \in [Keys -> SUBSET Subscriptions] :
          /\ hs = [k \in Keys |-> {}] /\ Rewritten(bus, bus', hs) /\ UNCHANGED pending
    BY <1>3, ShutdownIs
  <2>2. CallsInv'
    BY <2>1, EntriesGo
  <2> QED BY <1>0, <2>1, <2>2 DEF Rewritten
<1> QED BY <1>1, <1>2, <1>3, BusMoves

\* Every other step of the stream leaves the counts alone.
LEMMA ElseCalls ==
  ASSUME CallsInv, [StreamNext]_allVars, ~OnBus(BusStep)
  PROVE  CallsInv' /\ bus'.called = bus.called
<1>0. /\ BusRecord(bus) /\ CallsCounted(bus)
      /\ bus.handlers \in [Keys -> SUBSET Subscriptions]
  BY DEF CallsInv, BusRecord
<1>1. ASSUME NEW s \in Subscriptions, Subscribe(s)
      PROVE  CallsInv' /\ bus'.called = bus.called
  <2>1. bus'.called = bus.called
    BY <1>0, <1>1 DEF Subscribe, BusRecord
  <2> QED BY <1>1, <2>1, SubscribeCalls
<1>2. ASSUME NEW h, NEW keys, UNCHANGED pending,
             bus' = [bus EXCEPT !.handlers = WithoutHandler(@, h, keys)]
      PROVE  CallsInv' /\ bus'.called = bus.called
  <2>1. PICK hs \in [Keys -> SUBSET Subscriptions] :
          /\ hs = WithoutHandler(bus.handlers, h, keys)
          /\ \A k \in Keys : hs[k] \subseteq bus.handlers[k]
    BY <1>0, WithoutIs
  <2>2. bus' = Relisted(bus, hs)
    BY <1>2, <2>1 DEF Relisted
  <2>3. Rewritten(bus, bus', hs)
    BY <1>0, <2>2, HandlersRewritten
  <2> QED BY <1>2, <2>1, <2>3, EntriesGo DEF Rewritten
<1>3. ASSUME NEW h \in Handlers, NEW e \in Events, FinishCall(h, e)
      PROVE  CallsInv' /\ bus'.called = bus.called
  <2>1. bus'.called = bus.called
    BY <1>0, <1>3 DEF FinishCall, BusRecord
  <2> QED BY <1>3, <2>1, FinishCallCalls
<1>4. CASE UNCHANGED <<bus, pending>>
  BY <1>4, CallsSame
<1>5. CASE Join
  BY <1>1, <1>5 DEF Join
<1>6. CASE Leave
  BY <1>2, <1>6 DEF Leave, Unsubscribe
<1>7. CASE Return
  BY <1>3, <1>7 DEF Return
<1>8. ASSUME NEW c \in Streams, Open(c) PROVE CallsInv' /\ bus'.called = bus.called
  BY <1>1, <1>8, StreamAssumption DEF Open
<1>9. ASSUME NEW c \in Streams, Close(c) PROVE CallsInv' /\ bus'.called = bus.called
  BY <1>2, <1>9 DEF Close
<1>10. ASSUME NEW c \in Streams, NEW e \in Events, Put(c, e) \/ PutAfterClose(c, e)
       PROVE  CallsInv' /\ bus'.called = bus.called
  <2>1. c \in Handlers /\ FinishCall(c, e)
    BY <1>10, StreamAssumption DEF Put, PutAfterClose
  <2> QED BY <1>3, <2>1
<1>11. ASSUME NEW c \in Streams, Wake(c) \/ Generator(c) PROVE UNCHANGED <<bus, pending>>
  BY <1>11 DEF Wake, Generator, GetterMoves, FindEmpty, Park, GetAgain, Heartbeat, Yield, busVars
<1>12. ASSUME UNCHANGED allVars PROVE UNCHANGED <<bus, pending>>
  BY <1>12 DEF allVars, busVars
<1> QED BY <1>4, <1>5, <1>6, <1>7, <1>8, <1>9, <1>10, <1>11, <1>12 DEF StreamNext, Thread

LEMMA CallsStep ==
  ASSUME CallsInv, LineInv, [StreamNext]_allVars
  PROVE  CallsInv' /\ \A h \in Handlers, e \in Events : bus.called[h][e] <= bus'.called[h][e]
<1>1. CASE OnBus(BusStep)
  BY <1>1, BusStepCalls DEF OnBus
<1>2. CASE ~OnBus(BusStep)
  <2>1. CallsInv' /\ bus'.called = bus.called
    BY <1>2, ElseCalls
  <2>2. \A h \in Handlers, e \in Events : bus.called[h][e] \in Nat
    BY DEF CallsInv, BusRecord
  <2> QED BY <2>1, <2>2
<1> QED BY <1>1, <1>2

LEMMA CallsStart == StreamStart => CallsInv
<1> SUFFICES ASSUME StreamStart PROVE CallsInv
  OBVIOUS
<1>1. /\ bus = [handlers |-> [k \in Keys |-> {}], history |-> <<>>,
                running |-> Nobody, called |-> Nobody]
      /\ pending \subseteq Subscriptions
  BY DEF StreamStart, StreamInit, BusInit
<1>2. /\ bus.handlers = [k \in Keys |-> {}] /\ bus.history = <<>>
      /\ bus.running = Nobody /\ bus.called = Nobody
      /\ bus = [handlers |-> bus.handlers, history |-> bus.history,
                running |-> bus.running, called |-> bus.called]
  BY <1>1
<1>3. Nobody \in [Handlers -> [Events -> Nat]] /\ \A h \in Handlers, e \in Events : Nobody[h][e] = 0
  BY DEF Nobody
<1>4. BusRecord(bus)
  <2>1. <<>> \in Seq(Events) /\ Len(<<>>) = 0
    BY EmptySeq
  <2> QED BY <1>2, <1>3, <2>1, EventAssumption DEF BusRecord
<1>5. CallsCounted(bus)
  BY <1>2, <1>3 DEF CallsCounted
<1>6. \A s \in OneShots : ~Entered(bus, s) /\ Uncalled(bus, s)
  <2>1. \A s \in OneShots : s.handler \in Handlers
    BY SubscriptionAssumption DEF OneShots
  <2> QED BY <1>2, <1>3, <2>1 DEF Entered, Uncalled
<1>7. \A s \in OneShots : Fires(bus, s) /\ Dormant(bus, s)
  BY <1>6 DEF Fires, Dormant, Entered, Uncalled
<1> QED BY <1>1, <1>4, <1>5, <1>7 DEF CallsInv

\* A handler subscribed to one type, once and in no other way, is called once:
\* its entry goes in the step that calls it, and only subscribe makes entries.
THEOREM OneShotOnceHolds == StreamSpec => []OneShotOnce
<1>1. StreamStart => LineInv /\ CallsInv
  BY LineStart, CallsStart
<1>2. LineInv /\ CallsInv /\ [StreamNext]_allVars => LineInv' /\ CallsInv'
  BY LineStep, CallsStep
<1>3. CallsInv => OneShotOnce
  BY DEF CallsInv, OneShotOnce, OneShots, Fires
<1> QED BY <1>1, <1>2, <1>3, PTL DEF StreamSpec
-----------------------------------------------------------------------------
(* Streams. What was put for a client is what it was sent and what its queue *)
(* holds; an event comes after everything that was put before its first call. *)

\* For one client: the lists s sent and q in the queue, settled t.
PutInOrder(s, q, t) ==
  /\ \A i \in DOMAIN s : t[s[i]] \subseteq {s[k] : k \in 1 .. (i - 1)}
  /\ \A i \in DOMAIN q : t[q[i]] \subseteq ToSet(s) \cup {q[k] : k \in 1 .. (i - 1)}

ListTypes ==
  /\ sent \in [Streams -> Seq(Events)] /\ inbox \in [Streams -> Seq(Events)]
  /\ settled \in [Streams -> [Events -> SUBSET Events]]

SentInv ==
  /\ ListTypes
  /\ \A c \in Streams :
       /\ \A e \in Events : settled[c][e] \subseteq ToSet(sent[c]) \cup ToSet(inbox[c])
       /\ \A e \in ToSet(sent[c]) \cup ToSet(inbox[c]) : bus.called[c][e] > 0
       /\ PutInOrder(sent[c], inbox[c], settled[c])

LEMMA ConcatSet ==
  ASSUME NEW s \in Seq(Events), NEW q \in Seq(Events)
  PROVE  ToSet(s \o q) = ToSet(s) \cup ToSet(q) /\ ToSet(s) \cup ToSet(q) \subseteq Events
<1>1. PICK r \in Seq(Events) :
        /\ r = s \o q /\ Len(r) = Len(s) + Len(q)
        /\ \A k \in DOMAIN s : k \in DOMAIN r /\ r[k] = s[k]
        /\ \A k \in DOMAIN q : Len(s) + k \in DOMAIN r /\ r[Len(s) + k] = q[k]
  <2> DEFINE r == s \o q
  <2>2. /\ r \in Seq(Events) /\ Len(r) = Len(s) + Len(q)
        /\ \A k \in DOMAIN s : k \in DOMAIN r /\ r[k] = s[k]
        /\ \A k \in DOMAIN q : Len(s) + k \in DOMAIN r /\ r[Len(s) + k] = q[k]
    BY ConcatIs
  <2> QED BY <2>2
<1>2. ASSUME NEW k \in DOMAIN r PROVE r[k] \in ToSet(s) \cup ToSet(q)
  <2>1. /\ DOMAIN r = 1 .. Len(r) /\ DOMAIN s = 1 .. Len(s) /\ DOMAIN q = 1 .. Len(q)
        /\ Len(s) \in Nat /\ Len(q) \in Nat
    OBVIOUS
  <2>2. CASE k \in DOMAIN s
    BY <1>1, <2>2 DEF ToSet
  <2>3. CASE k \notin DOMAIN s
    <3>1. k - Len(s) \in DOMAIN q /\ Len(s) + (k - Len(s)) = k
      BY <1>1, <2>1, <2>3
    <3>2. r[k] = q[k - Len(s)]
      BY <1>1, <3>1
    <3> QED BY <3>1, <3>2 DEF ToSet
  <2> QED BY <2>2, <2>3
<1>3. ToSet(r) \subseteq ToSet(s) \cup ToSet(q)
  BY <1>2 DEF ToSet
<1>4. ToSet(s) \cup ToSet(q) \subseteq ToSet(r)
  <2>1. ASSUME NEW k \in DOMAIN s PROVE s[k] \in ToSet(r)
    BY <1>1 DEF ToSet
  <2>2. ASSUME NEW k \in DOMAIN q PROVE q[k] \in ToSet(r)
    <3>1. Len(s) + k \in DOMAIN r /\ r[Len(s) + k] = q[k]
      BY <1>1
    <3> QED BY <3>1 DEF ToSet
  <2> QED BY <2>1, <2>2 DEF ToSet
<1>5. ToSet(s) \cup ToSet(q) \subseteq Events
  BY DEF ToSet
<1> QED BY <1>1, <1>3, <1>4, <1>5

\* What is put comes last.
LEMMA PutKeepsOrder ==
  ASSUME NEW s \in Seq(Events), NEW q \in Seq(Events), NEW t \in [Events -> SUBSET Events],
         PutInOrder(s, q, t), NEW e \in Events, t[e] \subseteq ToSet(s) \cup ToSet(q)
  PROVE  PutInOrder(s, Append(q, e), t)
<1>1. PICK p \in Seq(Events) : p = Append(q, e)
  BY AppendIs
<1>2. /\ DOMAIN q = 1 .. Len(q) /\ Len(q) \in Nat /\ DOMAIN p = 1 .. Len(q) + 1
      /\ p[Len(q) + 1] = e /\ \A i \in DOMAIN q : p[i] = q[i]
  BY <1>1, AppendIs
<1>3. ASSUME NEW i \in DOMAIN p
      PROVE  t[p[i]] \subseteq ToSet(s) \cup {p[k] : k \in 1 .. (i - 1)}
  <2>1. CASE i \in DOMAIN q
    <3>1. t[p[i]] \subseteq ToSet(s) \cup {q[k] : k \in 1 .. (i - 1)}
      BY <1>2, <2>1 DEF PutInOrder
    <3>2. \A k \in 1 .. (i - 1) : p[k] = q[k]
      BY <1>2, <2>1
    <3>3. {q[k] : k \in 1 .. (i - 1)} = {p[k] : k \in 1 .. (i - 1)}
      BY <3>2, Zenon
    <3> QED BY <3>1, <3>3
  <2>2. CASE i = Len(q) + 1
    <3>1. p[i] = e /\ i - 1 = Len(q)
      BY <1>2, <2>2
    <3>2. \A k \in DOMAIN q : k \in 1 .. (i - 1) /\ p[k] = q[k]
      BY <1>2, <3>1
    <3>3. ToSet(q) \subseteq {p[k] : k \in 1 .. (i - 1)}
      BY <3>2 DEF ToSet
    <3> QED BY <3>1, <3>3
  <2> QED BY <1>2, <2>1, <2>2
<1> QED BY <1>1, <1>3 DEF PutInOrder

\* The head of the queue is sent next.
LEMMA YieldKeepsOrder ==
  ASSUME NEW s \in Seq(Events), NEW q \in Seq(Events), q # <<>>,
         NEW t \in [Events -> SUBSET Events], PutInOrder(s, q, t)
  PROVE  /\ PutInOrder(Append(s, Head(q)), Tail(q), t)
         /\ Append(s, Head(q)) \in Seq(Events) /\ Tail(q) \in Seq(Events)
         /\ ToSet(Append(s, Head(q))) \cup ToSet(Tail(q)) = ToSet(s) \cup ToSet(q)
<1>1. PICK e \in Events, w \in Seq(Events) :
        e = Head(q) /\ w = Tail(q) /\ Leads(q, e, w)
  BY TailLeads
<1>2. PICK r \in Seq(Events) : r = Append(s, e)
  BY AppendIs
<1>3. /\ DOMAIN s = 1 .. Len(s) /\ Len(s) \in Nat /\ DOMAIN r = 1 .. Len(s) + 1
      /\ r[Len(s) + 1] = e /\ \A i \in DOMAIN s : r[i] = s[i]
  BY <1>2, AppendIs
<1>4. ToSet(r) = ToSet(s) \cup {e}
  BY <1>2, AppendSet
<1>5. /\ 1 \in DOMAIN q /\ q[1] = e /\ \A k \in DOMAIN w : k + 1 \in DOMAIN q /\ q[k + 1] = w[k]
      /\ DOMAIN q \subseteq Nat /\ DOMAIN w = 1 .. Len(w) /\ Len(w) \in Nat
  BY <1>1 DEF Leads
<1>6. ASSUME NEW k \in DOMAIN q, k # 1 PROVE k - 1 \in DOMAIN w /\ w[k - 1] = q[k]
  <2>1. k - 1 \in DOMAIN w /\ (k - 1) + 1 = k
    BY <1>1, <1>6 DEF Leads
  <2> QED BY <1>5, <2>1
<1>7. ToSet(q) = {e} \cup ToSet(w)
  <2>1. ToSet(q) \subseteq {e} \cup ToSet(w)
    <3>1. ASSUME NEW k \in DOMAIN q PROVE q[k] = e \/ \E j \in DOMAIN w : q[k] = w[j]
      BY <1>5, <1>6
    <3> QED BY <3>1 DEF ToSet
  <2>2. {e} \cup ToSet(w) \subseteq ToSet(q)
    BY <1>5 DEF ToSet
  <2> QED BY <2>1, <2>2
<1>8. ASSUME NEW i \in DOMAIN r PROVE t[r[i]] \subseteq {r[k] : k \in 1 .. (i - 1)}
  <2>1. CASE i \in DOMAIN s
    <3>1. t[r[i]] \subseteq {s[k] : k \in 1 .. (i - 1)}
      BY <1>3, <2>1 DEF PutInOrder
    <3>2. \A k \in 1 .. (i - 1) : r[k] = s[k]
      BY <1>3, <2>1
    <3>3. {s[k] : k \in 1 .. (i - 1)} = {r[k] : k \in 1 .. (i - 1)}
      BY <3>2, Zenon
    <3> QED BY <3>1, <3>3
  <2>2. CASE i = Len(s) + 1
    <3>1. r[i] = q[1] /\ i - 1 = Len(s)
      BY <1>3, <1>5, <2>2
    <3>2. t[q[1]] \subseteq ToSet(s) \cup {q[k] : k \in 1 .. (1 - 1)}
      BY <1>5 DEF PutInOrder
    <3>3. t[q[1]] \subseteq ToSet(s)
      BY <3>2
    <3>4. \A k \in DOMAIN s : k \in 1 .. (i - 1) /\ r[k] = s[k]
      BY <1>3, <3>1
    <3>5. ToSet(s) \subseteq {r[k] : k \in 1 .. (i - 1)}
      BY <3>4 DEF ToSet
    <3> QED BY <3>1, <3>3, <3>5
  <2> QED BY <1>3, <2>1, <2>2
<1>9. ASSUME NEW i \in DOMAIN w
      PROVE  t[w[i]] \subseteq ToSet(r) \cup {w[k] : k \in 1 .. (i - 1)}
  <2>1. t[q[i + 1]] \subseteq ToSet(s) \cup {q[k] : k \in 1 .. ((i + 1) - 1)}
    BY <1>5 DEF PutInOrder
  <2>2. ASSUME NEW k \in 1 .. ((i + 1) - 1)
        PROVE  q[k] = e \/ \E j \in 1 .. (i - 1) : q[k] = w[j]
    <3>1. CASE k = 1
      BY <1>5, <3>1
    <3>2. CASE k # 1
      <4>3. i \in Nat /\ k \in Nat /\ Len(w) \in Nat /\ 1 <= k /\ k <= i /\ i <= Len(w)
        BY <1>5
      <4>1. k - 1 \in 1 .. (i - 1) /\ k - 1 \in DOMAIN w /\ (k - 1) + 1 = k
        <5>1. k - 1 \in Nat /\ 1 <= k - 1 /\ k - 1 <= i - 1 /\ k - 1 <= Len(w)
          BY <3>2, <4>3
        <5> QED BY <1>5, <4>3, <5>1
      <4>2. q[k] = w[k - 1]
        BY <1>5, <4>1
      <4> QED BY <4>1, <4>2
    <3> QED BY <3>1, <3>2
  <2>3. w[i] = q[i + 1]
    BY <1>5
  <2>4. {q[k] : k \in 1 .. ((i + 1) - 1)} \subseteq {e} \cup {w[k] : k \in 1 .. (i - 1)}
    BY <2>2
  <2> QED BY <1>4, <2>1, <2>3, <2>4
<1>10. PutInOrder(r, w, t)
  BY <1>8, <1>9 DEF PutInOrder
<1> QED BY <1>1, <1>2, <1>4, <1>7, <1>10
\* A step of the bus: what was put stays, and its events had been called before.
LEMMA BusKeepsSent ==
  ASSUME SentInv, CallsInv, OnBus(BusStep),
         \A h \in Handlers, e \in Events :
           bus.called[h][e] \in Nat /\ bus'.called[h][e] \in Nat
             /\ bus.called[h][e] <= bus'.called[h][e]
  PROVE  SentInv'
<1>1. /\ UNCHANGED <<sent, inbox>> /\ ListTypes
      /\ settled' = [c \in Streams |-> [e \in Events |->
           IF bus.called[c][e] = 0 /\ bus'.called[c][e] > 0
           THEN ToSet(sent[c] \o inbox[c]) ELSE settled[c][e]]]
  BY DEF OnBus, SentInv
<1>2. ASSUME NEW c \in Streams
      PROVE  /\ sent[c] \in Seq(Events) /\ inbox[c] \in Seq(Events) /\ c \in Handlers
             /\ settled[c] \in [Events -> SUBSET Events]
             /\ ToSet(sent[c] \o inbox[c]) = ToSet(sent[c]) \cup ToSet(inbox[c])
             /\ ToSet(sent[c]) \cup ToSet(inbox[c]) \subseteq Events
  <2>1. sent[c] \in Seq(Events) /\ inbox[c] \in Seq(Events)
        /\ settled[c] \in [Events -> SUBSET Events]
    BY <1>1 DEF ListTypes
  <2> QED BY <2>1, ConcatSet, StreamAssumption
<1>3. ASSUME NEW c \in Streams, NEW e \in Events
      PROVE  /\ settled'[c][e] \subseteq ToSet(sent[c]) \cup ToSet(inbox[c])
             /\ e \in ToSet(sent[c]) \cup ToSet(inbox[c]) => settled'[c][e] = settled[c][e]
  <2>1. settled'[c][e] = IF bus.called[c][e] = 0 /\ bus'.called[c][e] > 0
                         THEN ToSet(sent[c] \o inbox[c]) ELSE settled[c][e]
    BY <1>1
  <2>2. settled[c][e] \subseteq ToSet(sent[c]) \cup ToSet(inbox[c])
        /\ (e \in ToSet(sent[c]) \cup ToSet(inbox[c]) => bus.called[c][e] > 0)
    BY DEF SentInv
  <2>3. bus.called[c][e] > 0 => bus.called[c][e] # 0
    BY <1>2
  <2> QED BY <1>2, <2>1, <2>2, <2>3
<1>4. ListTypes'
  <2>1. settled' \in [Streams -> [Events -> SUBSET Events]]
    BY <1>1, <1>2, <1>3
  <2> QED BY <1>1, <2>1 DEF ListTypes
<1>5. ASSUME NEW c \in Streams
      PROVE  /\ \A e \in ToSet(sent[c]) \cup ToSet(inbox[c]) : bus'.called[c][e] > 0
             /\ PutInOrder(sent[c], inbox[c], settled'[c])
  <2>1. ASSUME NEW e \in ToSet(sent[c]) \cup ToSet(inbox[c]) PROVE bus'.called[c][e] > 0
    <3>1. e \in Events /\ c \in Handlers
      BY <1>2
    <3>2. /\ bus.called[c][e] \in Nat /\ bus'.called[c][e] \in Nat
          /\ bus.called[c][e] <= bus'.called[c][e] /\ bus.called[c][e] > 0
      BY <3>1 DEF SentInv
    <3> QED BY <3>2
  <2>2. PutInOrder(sent[c], inbox[c], settled[c])
    BY DEF SentInv
  <2>3. ASSUME NEW i \in DOMAIN sent[c] PROVE settled'[c][sent[c][i]] = settled[c][sent[c][i]]
    <3>1. sent[c][i] \in ToSet(sent[c]) /\ sent[c][i] \in Events
      BY <1>2 DEF ToSet
    <3> QED BY <1>3, <3>1
  <2>4. ASSUME NEW i \in DOMAIN inbox[c] PROVE settled'[c][inbox[c][i]] = settled[c][inbox[c][i]]
    <3>1. inbox[c][i] \in ToSet(inbox[c]) /\ inbox[c][i] \in Events
      BY <1>2 DEF ToSet
    <3> QED BY <1>3, <3>1
  <2>5. PutInOrder(sent[c], inbox[c], settled'[c])
    BY <2>2, <2>3, <2>4 DEF PutInOrder
  <2> QED BY <2>1, <2>5
<1> QED BY <1>1, <1>3, <1>4, <1>5 DEF SentInv

\* The lists of other clients, and those that do not change.
LEMMA SentSame ==
  ASSUME SentInv, UNCHANGED <<sent, inbox, settled>>, bus'.called = bus.called
  PROVE  SentInv'
BY DEF SentInv, ListTypes

\* A client's lists after a step of its own.
LEMMA SentOf ==
  ASSUME SentInv, NEW c \in Streams, NEW s \in Seq(Events), NEW q \in Seq(Events),
         UNCHANGED settled, bus'.called = bus.called,
         sent' = [sent EXCEPT ![c] = s], inbox' = [inbox EXCEPT ![c] = q],
         ToSet(sent[c]) \cup ToSet(inbox[c]) \subseteq ToSet(s) \cup ToSet(q),
         \A e \in ToSet(s) \cup ToSet(q) : bus.called[c][e] > 0,
         PutInOrder(s, q, settled[c])
  PROVE  SentInv'
<1>1. ListTypes /\ ListTypes'
  BY DEF SentInv, ListTypes
<1>2. /\ sent'[c] = s /\ inbox'[c] = q
      /\ \A d \in Streams : d # c => sent'[d] = sent[d] /\ inbox'[d] = inbox[d]
  BY <1>1 DEF ListTypes
<1>3. ASSUME NEW d \in Streams
      PROVE  /\ \A e \in Events : settled[d][e] \subseteq ToSet(sent'[d]) \cup ToSet(inbox'[d])
             /\ \A e \in ToSet(sent'[d]) \cup ToSet(inbox'[d]) : bus.called[d][e] > 0
             /\ PutInOrder(sent'[d], inbox'[d], settled[d])
  <2>1. CASE d = c
    BY <1>2, <2>1 DEF SentInv
  <2>2. CASE d # c
    BY <1>2, <2>2 DEF SentInv
  <2> QED BY <2>1, <2>2
<1> QED BY <1>1, <1>3 DEF SentInv

LEMMA PutSent ==
  ASSUME SentInv, CallsInv, NEW c \in Streams, NEW e \in Events, Put(c, e),
         bus'.called = bus.called
  PROVE  SentInv'
<1>1. /\ inbox' = [inbox EXCEPT ![c] = Append(inbox[c], e)] /\ UNCHANGED <<sent, settled>>
      /\ bus.running[c][e] > 0
  BY DEF Put, FinishCall
<1>2. PICK s \in Seq(Events), q \in Seq(Events), t \in [Events -> SUBSET Events] :
        s = sent[c] /\ q = inbox[c] /\ t = settled[c]
  BY DEF SentInv, ListTypes
<1>3. bus.called[c][e] > 0
  BY <1>1, StreamAssumption DEF CallsInv, CallsCounted
<1>4. PutInOrder(s, q, t) /\ t[e] \subseteq ToSet(s) \cup ToSet(q)
  BY <1>2 DEF SentInv
<1>5. PICK p \in Seq(Events) : p = Append(q, e)
  BY AppendIs
<1>6. PutInOrder(s, p, t)
  BY <1>4, <1>5, PutKeepsOrder
<1>7. ToSet(p) = ToSet(q) \cup {e}
  BY <1>5, AppendSet
<1>8. \A f \in ToSet(s) \cup ToSet(p) : bus.called[c][f] > 0
  BY <1>2, <1>3, <1>7 DEF SentInv
<1>9. sent' = [sent EXCEPT ![c] = s] /\ inbox' = [inbox EXCEPT ![c] = p]
  BY <1>1, <1>2, <1>5 DEF SentInv, ListTypes
<1> QED BY <1>1, <1>2, <1>6, <1>7, <1>8, <1>9, SentOf

LEMMA YieldSent ==
  ASSUME SentInv, NEW c \in Streams, Yield(c)
  PROVE  SentInv'
<1>1. /\ inbox[c] # <<>> /\ sent' = [sent EXCEPT ![c] = Append(sent[c], Head(inbox[c]))]
      /\ inbox' = [inbox EXCEPT ![c] = Tail(inbox[c])] /\ UNCHANGED settled
      /\ bus'.called = bus.called
  BY DEF Yield, busVars
<1>2. PICK s \in Seq(Events), q \in Seq(Events), t \in [Events -> SUBSET Events] :
        s = sent[c] /\ q = inbox[c] /\ t = settled[c]
  BY DEF SentInv, ListTypes
<1>3. PutInOrder(s, q, t) /\ \A e \in ToSet(s) \cup ToSet(q) : bus.called[c][e] > 0
  BY <1>2 DEF SentInv
<1>4. PICK r \in Seq(Events), w \in Seq(Events) :
        /\ r = Append(s, Head(q)) /\ w = Tail(q) /\ PutInOrder(r, w, t)
        /\ ToSet(r) \cup ToSet(w) = ToSet(s) \cup ToSet(q)
  <2>1. q # <<>>
    BY <1>1, <1>2
  <2>2. /\ PutInOrder(Append(s, Head(q)), Tail(q), t)
        /\ Append(s, Head(q)) \in Seq(Events) /\ Tail(q) \in Seq(Events)
        /\ ToSet(Append(s, Head(q))) \cup ToSet(Tail(q)) = ToSet(s) \cup ToSet(q)
    BY <1>3, <2>1, YieldKeepsOrder
  <2> QED BY <2>2, Zenon
<1>6. r = Append(sent[c], Head(inbox[c])) /\ w = Tail(inbox[c])
  BY <1>2, <1>4, Zenon
<1>5. sent' = [sent EXCEPT ![c] = r] /\ inbox' = [inbox EXCEPT ![c] = w]
  BY <1>1, <1>6, Zenon
<1> QED BY <1>1, <1>2, <1>3, <1>4, <1>5, SentOf

LEMMA SentStep ==
  ASSUME SentInv, CallsInv, LineInv, [StreamNext]_allVars
  PROVE  SentInv'
<1>1. CallsInv' /\ \A h \in Handlers, e \in Events : bus.called[h][e] <= bus'.called[h][e]
  BY CallsStep
<1>2. \A h \in Handlers, e \in Events : bus.called[h][e] \in Nat /\ bus'.called[h][e] \in Nat
  BY <1>1 DEF CallsInv, BusRecord
<1>3. CASE OnBus(BusStep)
  BY <1>1, <1>2, <1>3, BusKeepsSent
<1>4. CASE ~OnBus(BusStep)
  <2>1. bus'.called = bus.called
    BY <1>4, ElseCalls
  <2>2. ASSUME UNCHANGED <<sent, inbox, settled>> PROVE SentInv'
    BY <2>1, <2>2, SentSame
  <2>3. CASE Join \/ Leave \/ Return \/ UNCHANGED allVars
    BY <2>2, <2>3 DEF Join, Leave, Return, streamVars, allVars
  <2>4. ASSUME NEW c \in Streams,
               \/ Open(c) \/ Close(c) \/ Wake(c) \/ FindEmpty(c) \/ Park(c)
               \/ GetAgain(c) \/ Heartbeat(c) \/ \E e \in Events : PutAfterClose(c, e)
        PROVE  SentInv'
    BY <2>2, <2>4 DEF Open, Close, Wake, FindEmpty, Park, GetAgain, Heartbeat, GetterMoves,
         PutAfterClose, streamVars
  <2>5. ASSUME NEW c \in Streams, NEW e \in Events, Put(c, e) PROVE SentInv'
    BY <2>1, <2>5, PutSent
  <2>6. ASSUME NEW c \in Streams, Yield(c) PROVE SentInv'
    BY <2>6, YieldSent
  <2> QED BY <1>4, <2>3, <2>4, <2>5, <2>6 DEF StreamNext, Thread, Generator
<1> QED BY <1>3, <1>4

LEMMA SentStart == StreamStart => SentInv
<1> SUFFICES ASSUME StreamStart PROVE SentInv
  OBVIOUS
<1>1. /\ sent = [c \in Streams |-> <<>>] /\ inbox = [c \in Streams |-> <<>>]
      /\ settled = [c \in Streams |-> [e \in Events |-> {}]]
  BY DEF StreamStart, StreamInit
<1>2. <<>> \in Seq(Events) /\ DOMAIN <<>> = {} /\ ToSet(<<>>) = {}
  BY EmptySeq DEF ToSet
<1>3. ListTypes
  BY <1>1, <1>2 DEF ListTypes
<1>4. \A c \in Streams : sent[c] = <<>> /\ inbox[c] = <<>> /\ \A e \in Events : settled[c][e] = {}
  BY <1>1
<1> QED BY <1>2, <1>3, <1>4 DEF SentInv, PutInOrder

\* A client is sent an event after all that had been put into its queue when
\* the bus first called its handler for it.
THEOREM SentInOrderHolds == StreamSpec => []SentInOrder
<1>1. StreamStart => LineInv /\ CallsInv /\ SentInv
  BY LineStart, CallsStart, SentStart
<1>2. LineInv /\ CallsInv /\ SentInv /\ [StreamNext]_allVars => LineInv' /\ CallsInv' /\ SentInv'
  BY LineStep, CallsStep, SentStep
<1>3. SentInv => SentInOrder
  BY DEF SentInv, SentInOrder, PutInOrder
<1> QED BY <1>1, <1>2, <1>3, PTL DEF StreamSpec
-----------------------------------------------------------------------------
(* The types of the bus and its streams.                                     *)

RestTypes ==
  /\ Len(batchQueue) < BatchSize
  /\ processor \in {"none", "asleep", "awake"}
  /\ closing \in {"open", "waiting", "closed"}
  /\ awaited \subseteq AsyncHandlers \X Events
  /\ replays \in 0 .. MaxReplays
  /\ active \in [Streams -> {"off", "on", "closed"}]
  /\ getter \in [Streams -> {"get", "register", "parked", "woken"}]
  /\ waking \in [Streams -> Nat]

\* What a step of the batch leaves: the queue has room for one more.
Queued ==
  /\ Len(batchQueue') < BatchSize /\ processor' \in {"none", "asleep", "awake"}
  /\ UNCHANGED <<closing, awaited, replays>>

LEMMA EmptyQueueShort == Len(<<>>) < BatchSize
<1>1. Len(<<>>) = 0
  OBVIOUS
<1> QED BY <1>1, EventAssumption

LEMMA EnterQueued ==
  ASSUME RestTypes, batchQueue \in Seq(Events), NEW e \in Events, NEW w, EnterBatch(e, w)
  PROVE  Len(batchQueue') < BatchSize /\ processor' \in {"none", "asleep", "awake"}
<1>1. processor' \in {"none", "asleep", "awake"}
  BY DEF RestTypes, EnterBatch
<1>2. CASE Len(Append(batchQueue, e)) >= BatchSize
  BY <1>1, <1>2, EmptyQueueShort DEF EnterBatch, FlushBatch
<1>3. CASE ~(Len(Append(batchQueue, e)) >= BatchSize)
  <2>1. batchQueue' = Append(batchQueue, e)
    BY <1>3 DEF EnterBatch
  <2>2. Len(Append(batchQueue, e)) \in Nat /\ BatchSize \in Nat
    BY EventAssumption
  <2> QED BY <1>1, <1>3, <2>1, <2>2
<1> QED BY <1>2, <1>3

LEMMA TimerQueued ==
  ASSUME RestTypes, NEW w, FlushByTimer(w)
  PROVE  Len(batchQueue') < BatchSize /\ processor' \in {"none", "asleep", "awake"}
BY EmptyQueueShort DEF RestTypes, FlushByTimer, FlushBatch

LEMMA BusStepTypes ==
  ASSUME RestTypes, LineInv, BusStep
  PROVE  /\ Len(batchQueue') < BatchSize
         /\ processor' \in {"none", "asleep", "awake"}
         /\ closing' \in {"open", "waiting", "closed"}
         /\ awaited' \subseteq AsyncHandlers \X Events
         /\ replays' \in 0 .. MaxReplays
<1>1. ASSUME Queued
      PROVE  /\ Len(batchQueue') < BatchSize
             /\ processor' \in {"none", "asleep", "awake"}
             /\ closing' \in {"open", "waiting", "closed"}
             /\ awaited' \subseteq AsyncHandlers \X Events
             /\ replays' \in 0 .. MaxReplays
  BY <1>1 DEF Queued, RestTypes
<1>2. ASSUME NEW e \in Events, PublishNow(e) PROVE Queued
  BY <1>2 DEF PublishNow, Queued, RestTypes, batchVars, closeVars
<1>3. ASSUME NEW e \in Events, PublishBatched(e) PROVE Queued
  <2>1. CASE lockQueue = <<>>
    BY <1>3, <2>1, EnterQueued DEF PublishBatched, Queued, closeVars, LineInv, LineTypes
  <2>2. CASE lockQueue # <<>>
    BY <1>3, <2>2 DEF PublishBatched, Queued, RestTypes, closeVars
  <2> QED BY <2>1, <2>2
<1>4. ASSUME NEW e \in Events, NEW f \in Events, NEW wait \in BOOLEAN,
             PublishBatch(<<e, f>>, wait)
      PROVE  Queued
  BY <1>4 DEF PublishBatch, Queued, RestTypes, closeVars
<1>5. ASSUME ProcessTask \/ FlushEnds PROVE Queued
  BY <1>5 DEF ProcessTask, FlushEnds, Queued, RestTypes, closeVars
<1>6. ASSUME AddToBatch PROVE Queued
  <2>1. Head(lockQueue) \in Events /\ batchQueue \in Seq(Events)
    BY <1>6, LockFacts DEF AddToBatch, LineInv, LineTypes
  <2> QED BY <1>6, <2>1, EnterQueued DEF AddToBatch, Queued, closeVars
<1>7. ASSUME ProcessorWakes PROVE Queued
  <2>1. CASE lockQueue = <<>>
    BY <1>7, <2>1, TimerQueued DEF ProcessorWakes, Queued, closeVars
  <2>2. CASE lockQueue # <<>>
    BY <1>7, <2>2 DEF ProcessorWakes, Queued, RestTypes, closeVars
  <2> QED BY <2>1, <2>2
<1>8. ASSUME ProcessorFlushes PROVE Queued
  BY <1>8, TimerQueued DEF ProcessorFlushes, Queued, closeVars
<1>9. CASE ReplayAll
  BY <1>9, EventAssumption DEF ReplayAll, RestTypes, batchVars, closeVars
<1>10. CASE ShutdownBegins
  BY <1>10 DEF ShutdownBegins, RestTypes, batchVars
<1>11. CASE ShutdownEnds
  BY <1>11 DEF ShutdownEnds, RestTypes, batchVars
<1> QED BY <1>1, <1>2, <1>3, <1>4, <1>5, <1>6, <1>7, <1>8, <1>9, <1>10, <1>11
        DEF BusStep, LoopStep

LEMMA RestStep ==
  ASSUME RestTypes, LineInv, [StreamNext]_allVars
  PROVE  RestTypes'
<1> DEFINE Clients == active' \in [Streams -> {"off", "on", "closed"}]
                      /\ getter' \in [Streams -> {"get", "register", "parked", "woken"}]
                      /\ waking' \in [Streams -> Nat]
<1>1. CASE OnBus(BusStep)
  BY <1>1, BusStepTypes DEF OnBus, RestTypes
<1>2. ASSUME UNCHANGED <<batchVars, closeVars, replays>>, Clients PROVE RestTypes'
  BY <1>2 DEF RestTypes, batchVars, closeVars
<1>3. CASE Join \/ Leave \/ Return \/ UNCHANGED allVars
  <2>1. UNCHANGED <<batchVars, closeVars, replays>>
    BY <1>3 DEF Join, Leave, Return, Subscribe, Unsubscribe, FinishCall, allVars, busVars
  <2>2. UNCHANGED <<active, getter, waking>>
    BY <1>3 DEF Join, Leave, Return, streamVars, allVars
  <2> QED BY <1>2, <2>1, <2>2 DEF RestTypes
<1>4. ASSUME NEW c \in Streams,
             Open(c) \/ Close(c) \/ (\E e \in Events : PutAfterClose(c, e))
               \/ Thread(c) \/ Generator(c)
      PROVE  RestTypes'
  <2>1. UNCHANGED <<batchVars, closeVars, replays>>
    BY <1>4 DEF Open, Close, PutAfterClose, Thread, Generator, Subscribe, FinishCall, Put,
       Wake, GetterMoves, FindEmpty, Park, GetAgain, Heartbeat, Yield, busVars
  <2>2. CASE Open(c) \/ Close(c)
    <3>1. Clients
      BY <2>2 DEF Open, Close, RestTypes
    <3> QED BY <1>2, <2>1, <3>1
  <2>3. CASE (\E e \in Events : PutAfterClose(c, e)) \/ Yield(c)
    <3>1. Clients
      BY <2>3 DEF PutAfterClose, Yield, RestTypes, streamVars
    <3> QED BY <1>2, <2>1, <3>1
  <2>4. CASE \E e \in Events : Put(c, e)
    <3>1. Clients
      BY <2>4 DEF Put, RestTypes
    <3> QED BY <1>2, <2>1, <3>1
  <2>5. CASE Wake(c)
    <3>1. Clients
      BY <2>5 DEF Wake, RestTypes
    <3> QED BY <1>2, <2>1, <3>1
  <2>6. CASE FindEmpty(c) \/ Park(c) \/ GetAgain(c) \/ Heartbeat(c)
    <3>1. Clients
      BY <2>6 DEF FindEmpty, Park, GetAgain, Heartbeat, GetterMoves, RestTypes
    <3> QED BY <1>2, <2>1, <3>1
  <2> QED BY <1>4, <2>2, <2>3, <2>4, <2>5, <2>6 DEF Thread, Generator
<1> QED BY <1>1, <1>3, <1>4 DEF StreamNext

\* Every variable of the bus and its streams keeps to its type: the history and
\* the batch queue to their bounds, the calls that run to natural numbers.
THEOREM StreamTypes == StreamSpec => []StreamTypeOK
<1>1. StreamStart => LineInv /\ CallsInv /\ SentInv /\ RestTypes
  <2>1. StreamStart => RestTypes
    BY EventAssumption, EmptyQueueShort DEF StreamStart, StreamInit, BusInit, RestTypes
  <2> QED BY <2>1, LineStart, CallsStart, SentStart
<1>2. LineInv /\ CallsInv /\ SentInv /\ RestTypes /\ [StreamNext]_allVars
        => LineInv' /\ CallsInv' /\ SentInv' /\ RestTypes'
  BY LineStep, CallsStep, SentStep, RestStep
<1>3. LineInv /\ CallsInv /\ SentInv /\ RestTypes => StreamTypeOK
  BY DEF LineInv, LineTypes, TaskType, CallsInv, BusRecord, SentInv, ListTypes, RestTypes,
     BusTypeOK, StreamTypeOK
<1> QED BY <1>1, <1>2, <1>3, PTL DEF StreamSpec
-----------------------------------------------------------------------------
(* No batched event is ever stranded.                                        *)

\* Whatever is queued has a timer that was started for it, and a timer that has
\* gone off is in line for the lock.
TimerLives ==
  /\ batchQueue # <<>> => processor # "none"
  /\ processor = "awake" => Processor \in ToSet(lockQueue)

\* As long as an event published with batch=True is not processed the loop has
\* something to do that leads to it: a task to start, a holder of the lock to
\* go on, or the timer to wait for.
NeverStranded ==
  \A e \in ToSet(batched) \ seen :
    ready # <<>> \/ lockQueue # <<>> \/ processor = "asleep"

LEMMA LedSet ==
  ASSUME NEW lq, NEW x, NEW w, Leads(lq, x, w)
  PROVE  ToSet(lq) = {x} \cup ToSet(w)
<1>1. /\ DOMAIN lq = 1 .. Len(w) + 1 /\ DOMAIN w = 1 .. Len(w) /\ Len(w) \in Nat
      /\ lq[1] = x /\ \A k \in DOMAIN w : lq[k + 1] = w[k]
  BY DEF Leads
<1>2. ASSUME NEW k \in DOMAIN lq PROVE lq[k] \in {x} \cup ToSet(w)
  <2>1. CASE k = 1
    BY <1>1, <2>1
  <2>2. CASE k # 1
    <3>1. k - 1 \in DOMAIN w /\ (k - 1) + 1 = k
      BY <1>1, <2>2
    <3>2. lq[k] = w[k - 1]
      BY <1>1, <3>1
    <3> QED BY <3>1, <3>2 DEF ToSet
  <2> QED BY <2>1, <2>2
<1>3. x \in ToSet(lq)
  BY <1>1 DEF ToSet
<1>4. ASSUME NEW k \in DOMAIN w PROVE w[k] \in ToSet(lq)
  <2>1. k + 1 \in DOMAIN lq /\ lq[k + 1] = w[k]
    BY <1>1
  <2> QED BY <2>1 DEF ToSet
<1> QED BY <1>2, <1>3, <1>4 DEF ToSet

\* Entering the queue starts the timer; the waiters go on waiting.
LEMMA EnterTimer ==
  ASSUME NEW e \in Events, NEW w \in Seq(Events \cup {Processor}), EnterBatch(e, w),
         processor = "awake" => Processor \in ToSet(w)
  PROVE  TimerLives'
<1>1. processor' # "none" /\ (processor' = "awake" => Processor \in ToSet(w))
  BY DEF EnterBatch
<1>2. lockQueue' = w \/ lockQueue' = <<e>> \o w
  BY DEF EnterBatch
<1>3. ToSet(<<e>> \o w) = {e} \cup ToSet(w)
  BY LeadsFacts, LedSet
<1> QED BY <1>1, <1>2, <1>3 DEF TimerLives

\* The timer's turn: it goes back to sleep, or leads the lock while it flushes.
LEMMA FlushTimer ==
  ASSUME NEW w \in Seq(Events \cup {Processor}), FlushByTimer(w)
  PROVE  TimerLives'
<1>1. CASE batchQueue # <<>>
  <2>1. lockQueue' = <<Processor>> \o w /\ batchQueue' = <<>>
    BY <1>1 DEF FlushByTimer, FlushBatch
  <2>2. Processor \in ToSet(<<Processor>> \o w)
    BY LeadsFacts, LedSet
  <2> QED BY <2>1, <2>2 DEF TimerLives
<1>2. CASE batchQueue = <<>>
  BY <1>2 DEF FlushByTimer, TimerLives
<1> QED BY <1>1, <1>2

LEMMA TimerStep ==
  ASSUME LineInv, TimerLives, [StreamNext]_allVars
  PROVE  TimerLives'
<1>1. lockQueue \in Seq(Events \cup {Processor}) /\ batchQueue \in Seq(Events)
  BY DEF LineInv, LineTypes
<1>2. CASE UNCHANGED <<batchQueue, lockQueue, processor>>
  BY <1>2 DEF TimerLives
<1>3. ASSUME NEW e \in Events, PublishBatched(e) PROVE TimerLives'
  <2>1. CASE lockQueue = <<>>
    <3>1. <<>> \in Seq(Events \cup {Processor}) /\ EnterBatch(e, <<>>)
      BY <1>3, <2>1, EmptySeq DEF PublishBatched
    <3>2. processor = "awake" => Processor \in ToSet(<<>>)
      BY <2>1 DEF TimerLives
    <3> QED BY <3>1, <3>2, EnterTimer
  <2>2. CASE lockQueue # <<>>
    <3>1. lockQueue' = Append(lockQueue, e) /\ UNCHANGED <<batchQueue, processor>>
      BY <1>3, <2>2 DEF PublishBatched
    <3>2. ToSet(Append(lockQueue, e)) = ToSet(lockQueue) \cup {e}
      BY <1>1, AppendSet
    <3> QED BY <3>1, <3>2 DEF TimerLives
  <2> QED BY <2>1, <2>2
<1>5. CASE AddToBatch
  <2>1. PICK e, w : /\ e = Head(lockQueue) /\ w = Tail(lockQueue) /\ e # Processor
                    /\ EnterBatch(e, w) /\ Leads(lockQueue, e, w)
                    /\ e \in Events /\ w \in Seq(Events \cup {Processor})
    BY <1>5, LockFacts DEF AddToBatch
  <2>2. processor = "awake" => Processor \in ToSet(w)
    BY <2>1, LedSet DEF TimerLives
  <2> QED BY <2>1, <2>2, EnterTimer
<1>6. CASE ProcessorFlushes
  <2>1. Tail(lockQueue) \in Seq(Events \cup {Processor}) /\ FlushByTimer(Tail(lockQueue))
    BY <1>6, LockFacts DEF ProcessorFlushes
  <2> QED BY <2>1, FlushTimer
<1>7. CASE ProcessorWakes
  <2>1. CASE lockQueue = <<>>
    <3>1. <<>> \in Seq(Events \cup {Processor}) /\ FlushByTimer(<<>>)
      BY <1>7, <2>1, EmptySeq DEF ProcessorWakes
    <3> QED BY <3>1, FlushTimer
  <2>2. CASE lockQueue # <<>>
    <3>1. lockQueue' = Append(lockQueue, Processor) /\ batchQueue' = batchQueue /\ processor' = "awake"
      BY <1>7, <2>2 DEF ProcessorWakes
    <3>2. ToSet(Append(lockQueue, Processor)) = ToSet(lockQueue) \cup {Processor}
      BY <1>1, AppendSet
    <3> QED BY <3>1, <3>2 DEF TimerLives
  <2> QED BY <2>1, <2>2
<1>8. CASE FlushEnds
  <2>1. /\ flushing /\ lockQueue # <<>> /\ lockQueue' = Tail(lockQueue)
        /\ processor' = IF Head(lockQueue) = Processor THEN "asleep" ELSE processor
        /\ batchQueue' = batchQueue
    BY <1>8 DEF FlushEnds, LineInv, FlushAlone
  <2>2. PICK e, w : e = Head(lockQueue) /\ w = Tail(lockQueue) /\ Leads(lockQueue, e, w)
    BY <2>1, LockFacts
  <2>3. ToSet(lockQueue) = {e} \cup ToSet(w)
    BY <2>2, LedSet
  <2> QED BY <2>1, <2>2, <2>3 DEF TimerLives
<1>9. ASSUME NEW e \in Events, PublishNow(e) PROVE UNCHANGED <<batchQueue, lockQueue, processor>>
  BY <1>9 DEF PublishNow, batchVars
<1>10. ASSUME NEW e \in Events, NEW f \in Events, NEW wait \in BOOLEAN,
              PublishBatch(<<e, f>>, wait)
       PROVE  UNCHANGED <<batchQueue, lockQueue, processor>>
  BY <1>10 DEF PublishBatch
<1>11. CASE ProcessTask \/ ReplayAll \/ ShutdownBegins \/ ShutdownEnds
  <2>1. UNCHANGED <<batchQueue, lockQueue, processor>>
    BY <1>11 DEF ProcessTask, ReplayAll, ShutdownBegins, ShutdownEnds, batchVars
  <2> QED BY <1>2, <2>1
<1>12. CASE BusStep
  BY <1>2, <1>3, <1>5, <1>6, <1>7, <1>8, <1>9, <1>10, <1>11, <1>12 DEF BusStep, LoopStep
<1>13. CASE Join \/ Leave \/ Return \/ UNCHANGED allVars
  <2>1. UNCHANGED <<batchQueue, lockQueue, processor>>
    BY <1>13 DEF Join, Leave, Return, Subscribe, Unsubscribe, FinishCall, allVars, busVars,
       batchVars
  <2> QED BY <1>2, <2>1
<1>14. ASSUME NEW c \in Streams,
              Open(c) \/ Close(c) \/ (\E e \in Events : PutAfterClose(c, e))
                \/ Thread(c) \/ Generator(c)
       PROVE  TimerLives'
  <2>1. UNCHANGED <<batchQueue, lockQueue, processor>>
    BY <1>14 DEF Open, Close, PutAfterClose, Thread, Generator, Subscribe, FinishCall, Put,
       Wake, GetterMoves, FindEmpty, Park, GetAgain, Heartbeat, Yield, busVars, batchVars
  <2> QED BY <1>2, <2>1
<1> QED BY <1>12, <1>13, <1>14 DEF StreamNext, OnBus

LEMMA TimerStart == StreamStart => TimerLives
BY DEF StreamStart, StreamInit, BusInit, TimerLives

\* Whoever waits for the lock and whatever is shut down: until a batched event
\* is processed, a task, the lock's holder or the timer is on its way to it.
THEOREM NeverStrandedHolds == StreamSpec => []NeverStranded
<1>1. StreamStart => LineInv /\ TimerLives
  BY LineStart, TimerStart
<1>2. LineInv /\ TimerLives /\ [StreamNext]_allVars => LineInv' /\ TimerLives'
  BY LineStep, TimerStep
<1>3. LineInv /\ TimerLives /\ RestTypes => NeverStranded
  <2> SUFFICES ASSUME LineInv, TimerLives, RestTypes, NEW e \in ToSet(batched) \ seen,
                      ready = <<>>, lockQueue = <<>>
               PROVE  processor = "asleep"
    BY DEF NeverStranded
  <2>1. DOMAIN <<>> = {} /\ ToSet(<<>>) = {}
    BY DEF ToSet
  <2>2. InQueue(batchQueue, e)
    BY <2>1 DEF LineInv, LineOrdered, InLine, InTask, AtLock, Left
  <2>3. batchQueue # <<>>
    BY <2>1, <2>2 DEF InQueue
  <2>4. processor \in {"none", "asleep", "awake"} /\ processor # "none"
    BY <2>3 DEF RestTypes, TimerLives
  <2>5. processor # "awake"
    BY <2>1 DEF TimerLives
  <2> QED BY <2>4, <2>5
<1>4. StreamStart => RestTypes
  BY EventAssumption, EmptyQueueShort DEF StreamStart, StreamInit, BusInit, RestTypes
<1>5. RestTypes /\ LineInv /\ [StreamNext]_allVars => RestTypes'
  BY RestStep
<1> QED BY <1>1, <1>2, <1>3, <1>4, <1>5, PTL DEF StreamSpec
-----------------------------------------------------------------------------
(* The event stream keeps what ClientFeed promises a client.                 *)

\* The bus lists the handler of a client only while the client is there, and only
\* under the types it subscribed, so that the end of the generator takes it off.
ListedOn ==
  \A k \in Keys : \A s \in bus.handlers[k] :
    s.handler \in Streams =>
      active[s.handler] = "on" /\ k \in StreamSub[s.handler].keys

\* The types of what a client sees.
FeedTypes ==
  /\ active \in [Streams -> {"off", "on", "closed"}]
  /\ inbox \in [Streams -> Seq(Events)] /\ sent \in [Streams -> Seq(Events)]

LEMMA ListedLess ==
  ASSUME ListedOn, active' = active, \A k \in Keys : bus'.handlers[k] \subseteq bus.handlers[k]
  PROVE  ListedOn'
BY DEF ListedOn

\* What a subscription, an unsubscription and the end of a call leave of the bus.
LEMMA SubscribeBus ==
  ASSUME CallsInv, NEW s, Subscribe(s)
  PROVE  /\ bus'.running = bus.running
         /\ \A k \in Keys : \A r \in bus'.handlers[k] :
              r \in bus.handlers[k] \/ (r = s /\ k \in s.keys)
<1>1. BusRecord(bus)
  BY DEF CallsInv
<1> QED BY <1>1 DEF Subscribe, BusRecord

LEMMA WithoutBus ==
  ASSUME CallsInv, NEW h, NEW keys,
         bus' = [bus EXCEPT !.handlers = WithoutHandler(@, h, keys)]
  PROVE  /\ bus'.running = bus.running
         /\ \A k \in Keys : bus'.handlers[k] \subseteq bus.handlers[k]
         /\ \A k \in Keys : \A r \in bus'.handlers[k] : k \in keys => r.handler # h
<1>1. BusRecord(bus)
  BY DEF CallsInv
<1> QED BY <1>1 DEF BusRecord, WithoutHandler

LEMMA FinishBus ==
  ASSUME CallsInv, NEW h \in Handlers, NEW e \in Events, FinishCall(h, e)
  PROVE  /\ bus.running[h][e] > 0
         /\ bus'.running = [bus.running EXCEPT ![h][e] = bus.running[h][e] - 1]
         /\ bus'.handlers = bus.handlers
<1>1. BusRecord(bus)
  BY DEF CallsInv
<1> QED BY <1>1 DEF FinishCall, BusRecord

LEMMA ListedStep ==
  ASSUME ListedOn, CallsInv, LineInv, FeedTypes, [StreamNext]_allVars
  PROVE  ListedOn'
<1>1. CASE OnBus(BusStep)
  <2>1. active' = active /\ BusStep
    BY <1>1 DEF OnBus
  <2>2. \A k \in Keys : bus'.handlers[k] \subseteq bus.handlers[k]
    <3>1. CASE Advances(bus, bus')
      BY <3>1 DEF Advances, CallsBegin
    <3>2. CASE bus' = bus
      BY <3>2
    <3>3. CASE ShutdownEnds
      <4>1. PICK hs : hs = [k \in Keys |-> {}] /\ Rewritten(bus, bus', hs)
        BY <3>3, ShutdownIs
      <4> QED BY <4>1 DEF Rewritten
    <3> QED BY <2>1, <3>1, <3>2, <3>3, BusMoves
  <2> QED BY <2>1, <2>2, ListedLess
<1>2. CASE Join
  <2>1. PICK s \in Subscriptions : s.handler \notin Streams /\ Subscribe(s) /\ active' = active
    BY <1>2 DEF Join, streamVars
  <2> QED BY <2>1, SubscribeBus DEF ListedOn
<1>3. CASE Leave
  <2>1. PICK s \in Subscriptions : Unsubscribe(s) /\ active' = active
    BY <1>3 DEF Leave, streamVars
  <2>2. bus' = [bus EXCEPT !.handlers = WithoutHandler(@, s.handler, s.keys)]
    BY <2>1 DEF Unsubscribe
  <2> QED BY <2>1, <2>2, WithoutBus, ListedLess
<1>4. CASE Return
  <2>1. PICK h \in Handlers, e \in Events : FinishCall(h, e) /\ active' = active
    BY <1>4 DEF Return, streamVars
  <2> QED BY <2>1, FinishBus, ListedLess
<1>5. ASSUME NEW c \in Streams, Open(c) PROVE ListedOn'
  <2>1. Subscribe(StreamSub[c]) /\ active' = [active EXCEPT ![c] = "on"]
    BY <1>5 DEF Open
  <2>2. StreamSub[c].handler = c
    BY StreamAssumption
  <2>3. \A d \in Streams : active'[d] = IF d = c THEN "on" ELSE active[d]
    BY <2>1 DEF FeedTypes
  <2> QED BY <2>1, <2>2, <2>3, SubscribeBus DEF ListedOn
<1>6. ASSUME NEW c \in Streams, Close(c) PROVE ListedOn'
  <2>1. /\ bus' = [bus EXCEPT !.handlers = WithoutHandler(@, c, StreamSub[c].keys)]
        /\ active' = [active EXCEPT ![c] = "closed"]
    BY <1>6 DEF Close
  <2>2. \A d \in Streams : d # c => active'[d] = active[d]
    BY <2>1 DEF FeedTypes
  <2>3. /\ \A k \in Keys : bus'.handlers[k] \subseteq bus.handlers[k]
        /\ \A k \in Keys : \A r \in bus'.handlers[k] : k \in StreamSub[c].keys => r.handler # c
    BY <2>1, WithoutBus
  <2> QED BY <2>2, <2>3 DEF ListedOn
<1>7. ASSUME NEW c \in Streams, NEW e \in Events, Put(c, e) \/ PutAfterClose(c, e)
      PROVE  ListedOn'
  <2>1. c \in Handlers /\ FinishCall(c, e) /\ active' = active
    BY <1>7, StreamAssumption DEF Put, PutAfterClose, streamVars
  <2> QED BY <2>1, FinishBus, ListedLess
<1>8. ASSUME NEW c \in Streams, Wake(c) \/ Generator(c) PROVE UNCHANGED <<bus, active>>
  BY <1>8 DEF Wake, Generator, GetterMoves, FindEmpty, Park, GetAgain, Heartbeat, Yield, busVars
<1>9. ASSUME UNCHANGED allVars PROVE UNCHANGED <<bus, active>>
  BY <1>9 DEF allVars, busVars, streamVars
<1>10. ASSUME UNCHANGED <<bus, active>> PROVE ListedOn'
  BY <1>10 DEF ListedOn
<1> QED BY <1>1, <1>2, <1>3, <1>4, <1>5, <1>6, <1>7, <1>8, <1>9, <1>10 DEF StreamNext, Thread

\* The calls due are a function on the clients, before and after a step.
LEMMA DueShape ==
  CallsDue = [c \in Streams |-> CallsDue[c]] /\ CallsDue' = [c \in Streams |-> CallsDue'[c]]
BY DEF CallsDue

LEMMA DueSame ==
  ASSUME bus'.running = bus.running
  PROVE  CallsDue' = CallsDue
BY DEF CallsDue

LEMMA BusStepFeeds ==
  ASSUME ListedOn, CallsInv, CallsInv', LineInv, OnBus(BusStep)
  PROVE  Feed!CallClients
<1>1. UNCHANGED <<active, inbox, sent>> /\ BusStep
  BY DEF OnBus
<1>2. BusRecord(bus) /\ BusRecord(bus') /\ Streams \subseteq Handlers
  BY StreamAssumption DEF CallsInv
<1>3. \A c \in Streams, e \in Events : bus.running[c][e] \in Nat
  BY <1>2 DEF BusRecord
<1>4. /\ \A c \in Streams, e \in Events : bus'.running[c][e] >= bus.running[c][e]
      /\ \A c \in Streams : active[c] # "on" => bus'.running[c] = bus.running[c]
  <2>1. CASE Advances(bus, bus')
    <3>1. CallsBegin(bus, bus')
      BY <2>1 DEF Advances
    <3>2. \A c \in Streams : active[c] # "on" => ~Listed(bus, c)
      BY DEF ListedOn, Listed
    <3>3. \A c \in Streams, e \in Events : bus'.running[c][e] \in Nat
      BY <1>2 DEF BusRecord
    <3> QED BY <1>2, <1>3, <3>1, <3>2, <3>3 DEF CallsBegin
  <2>2. CASE bus'.running = bus.running
    BY <1>3, <2>2
  <2> QED BY <1>1, <2>1, <2>2, BusMoves, ShutdownIs
<1>5. \A c \in Streams : CallsDue[c] = bus.running[c] /\ CallsDue'[c] = bus'.running[c]
  BY DEF CallsDue
<1>6. CallsDue' \in [Streams -> [Events -> Nat]]
  <2>1. \A c \in Streams : CallsDue'[c] \in [Events -> Nat]
    BY <1>2, <1>5 DEF BusRecord
  <2> QED BY <2>1, DueShape
<1> QED BY <1>1, <1>4, <1>5, <1>6 DEF Feed!CallClients

LEMMA PutFeeds ==
  ASSUME CallsInv, FeedTypes, NEW c \in Streams, NEW e \in Events,
         Put(c, e) \/ PutAfterClose(c, e)
  PROVE  Feed!Put(c, e) \/ Feed!Discard(c, e)
<1>1. /\ bus.running[c][e] > 0
      /\ bus'.running = [bus.running EXCEPT ![c][e] = bus.running[c][e] - 1]
  <2>1. FinishCall(c, e) /\ c \in Handlers
    BY StreamAssumption DEF Put, PutAfterClose
  <2> QED BY <2>1, FinishBus
<1>2. bus.running \in [Handlers -> [Events -> Nat]] /\ Streams \subseteq Handlers
  BY StreamAssumption DEF CallsInv, BusRecord
<1>3. ASSUME NEW d \in Streams
      PROVE  CallsDue'[d] = [CallsDue EXCEPT ![c][e] = @ - 1][d]
  <2>1. CallsDue'[d] = bus'.running[d] /\ CallsDue[d] = bus.running[d]
        /\ CallsDue[c] = bus.running[c]
    BY DEF CallsDue
  <2> QED BY <1>1, <1>2, <2>1, DueShape
<1>4. CallsDue' = [CallsDue EXCEPT ![c][e] = @ - 1]
  <2>1. [CallsDue EXCEPT ![c][e] = @ - 1]
          = [d \in Streams |-> [CallsDue EXCEPT ![c][e] = @ - 1][d]]
    BY DEF CallsDue
  <2> QED BY <1>3, <2>1, DueShape, Zenon
<1>5. CallsDue[c][e] > 0
  BY <1>1 DEF CallsDue
<1>6. Feed!EndCall(c, e)
  BY <1>4, <1>5 DEF Feed!EndCall
<1>7. CASE Put(c, e)
  BY <1>6, <1>7 DEF Put, Feed!Put
<1>8. CASE PutAfterClose(c, e)
  BY <1>6, <1>8 DEF PutAfterClose, Feed!Discard, streamVars
<1> QED BY <1>7, <1>8

LEMMA FeedStep ==
  ASSUME ListedOn, CallsInv, CallsInv', LineInv, FeedTypes, [StreamNext]_allVars
  PROVE  [Feed!Next]_(Feed!vars)
<1>1. CASE OnBus(BusStep)
  BY <1>1, BusStepFeeds DEF Feed!Next
<1>2. ASSUME UNCHANGED <<active, inbox, sent>>, bus'.running = bus.running
      PROVE  UNCHANGED Feed!vars
  BY <1>2, DueSame DEF Feed!vars
<1>3. ASSUME Join PROVE UNCHANGED Feed!vars
  <2>1. PICK s : Subscribe(s) /\ UNCHANGED <<active, inbox, sent>>
    BY <1>3 DEF Join, streamVars
  <2> QED BY <1>2, <2>1, SubscribeBus
<1>4. ASSUME Leave PROVE UNCHANGED Feed!vars
  <2>1. PICK s : Unsubscribe(s) /\ UNCHANGED <<active, inbox, sent>>
    BY <1>4 DEF Leave, streamVars
  <2>2. bus' = [bus EXCEPT !.handlers = WithoutHandler(@, s.handler, s.keys)]
    BY <2>1 DEF Unsubscribe
  <2> QED BY <1>2, <2>1, <2>2, WithoutBus
<1>5. ASSUME Return PROVE UNCHANGED Feed!vars
  <2>1. PICK h \in Handlers \ Streams, e \in Events :
          FinishCall(h, e) /\ UNCHANGED <<active, inbox, sent>>
    BY <1>5 DEF Return, streamVars
  <2>2. /\ bus'.running = [bus.running EXCEPT ![h][e] = bus.running[h][e] - 1]
        /\ bus.running \in [Handlers -> [Events -> Nat]] /\ Streams \subseteq Handlers
    BY <2>1, FinishBus, StreamAssumption DEF CallsInv, BusRecord
  <2>3. \A c \in Streams : bus'.running[c] = bus.running[c]
    BY <2>1, <2>2
  <2>4. CallsDue' = CallsDue
    BY <2>3 DEF CallsDue
  <2> QED BY <2>1, <2>4 DEF Feed!vars
<1>6. ASSUME NEW c \in Streams, Open(c) PROVE Feed!Open(c)
  <2>1. CallsDue' = CallsDue
    BY <1>6, SubscribeBus, DueSame DEF Open
  <2> QED BY <1>6, <2>1 DEF Open, Feed!Open
<1>7. ASSUME NEW c \in Streams, Close(c) PROVE Feed!Close(c)
  <2>1. CallsDue' = CallsDue
    BY <1>7, WithoutBus, DueSame DEF Close
  <2> QED BY <1>7, <2>1 DEF Close, Feed!Close
<1>8. ASSUME NEW c \in Streams, Yield(c) PROVE Feed!Deliver(c)
  <2>1. CallsDue' = CallsDue
    BY <1>8, DueSame DEF Yield, busVars
  <2> QED BY <1>8, <2>1 DEF Yield, Feed!Deliver
<1>9. ASSUME NEW c \in Streams,
             Wake(c) \/ FindEmpty(c) \/ Park(c) \/ GetAgain(c) \/ Heartbeat(c)
      PROVE  UNCHANGED Feed!vars
  <2>1. UNCHANGED <<active, inbox, sent>> /\ bus' = bus
    BY <1>9 DEF Wake, GetterMoves, FindEmpty, Park, GetAgain, Heartbeat, busVars
  <2> QED BY <1>2, <2>1
<1>10. ASSUME UNCHANGED allVars PROVE UNCHANGED Feed!vars
  <2>1. UNCHANGED <<active, inbox, sent>> /\ bus' = bus
    BY <1>10 DEF allVars, busVars, streamVars
  <2> QED BY <1>2, <2>1
<1>11. ASSUME NEW c \in Streams, NEW e \in Events, Put(c, e) \/ PutAfterClose(c, e)
       PROVE  Feed!Put(c, e) \/ Feed!Discard(c, e)
  BY <1>11, PutFeeds
<1> QED BY <1>1, <1>3, <1>4, <1>5, <1>6, <1>7, <1>8, <1>9, <1>10, <1>11
        DEF StreamNext, Thread, Generator, Feed!Next

LEMMA FeedStart == StreamStart => ListedOn /\ Feed!Init
<1> SUFFICES ASSUME StreamStart PROVE ListedOn /\ Feed!Init
  OBVIOUS
<1>1. /\ bus.handlers = [k \in Keys |-> {}] /\ bus.running = Nobody
      /\ active = [c \in Streams |-> "off"]
      /\ inbox = [c \in Streams |-> <<>>] /\ sent = [c \in Streams |-> <<>>]
  BY DEF StreamStart, StreamInit, BusInit
<1>2. CallsDue = [c \in Streams |-> [e \in Events |-> 0]]
  BY <1>1, StreamAssumption DEF CallsDue, Nobody
<1> QED BY <1>1, <1>2 DEF ListedOn, Feed!Init

\* Whatever is published, batched, replayed or shut down, and however threads,
\* heartbeats and leaving clients fall together, a client is called while it is
\* there and not after, and is sent what was put for it once and in that order.
THEOREM FeedIsKept == StreamSpec => FeedKept
<1>1. StreamStart => LineInv /\ CallsInv /\ ListedOn /\ Feed!Init
  BY LineStart, CallsStart, FeedStart
<1>2. StreamTypeOK => FeedTypes
  BY DEF StreamTypeOK, FeedTypes
<1>3. LineInv /\ CallsInv /\ ListedOn /\ FeedTypes /\ [StreamNext]_allVars
        => LineInv' /\ CallsInv' /\ ListedOn' /\ [Feed!Next]_(Feed!vars)
  BY LineStep, CallsStep, ListedStep, FeedStep
<1> QED BY <1>1, <1>2, <1>3, StreamTypes, PTL DEF StreamSpec, FeedKept, Feed!Spec
-----------------------------------------------------------------------------
(* The group of consumers of the Redis event bus.                            *)


\* The group has handed out a prefix of the stream, in batches that do not meet.
BatchesApart ==
  /\ handedOut <= added
  /\ \A p \in Processes : 1 <= first[p] /\ last[p] <= handedOut
  /\ \A p, q \in Processes : \A n \in Entries :
       n \in Held(p) /\ n \in Held(q) => p = q

\* Nobody holds an entry that is acknowledged or was let go.
SettledApart ==
  /\ \A n \in acked \cup dropped :
       n <= handedOut /\ \A p \in Processes : n \notin Held(p)
  /\ \A n \in acked : n \notin dropped

\* Entries still to be begun have not been handled.
UnbegunIsFresh ==
  /\ \A n \in Entries, h \in StreamHandlers : n > handedOut => calls[n][h] = 0
  /\ \A p \in Processes : \A n \in Held(p) : \A h \in StreamHandlers :
       n # first[p] \/ ~begun[p] => calls[n][h] = 0

\* Of the entry in hand, exactly the handlers still to do have not been called.
EntryInHand ==
  \A p \in Processes :
    /\ ~begun[p] => todo[p] = {}
    /\ begun[p] =>
         /\ first[p] \in Held(p) /\ first[p] \notin Malformed
         /\ todo[p] \subseteq expected[first[p]]
         /\ \A h \in todo[p] : calls[first[p]][h] = 0
         /\ \A h \in expected[first[p]] \ todo[p] : calls[first[p]][h] = 1

\* No handler but those of the entry in hand was called for it, and they are
\* registered: one that is registered now has not been called.
HandlersKnown ==
  \A p \in Processes : begun[p] =>
    /\ expected[first[p]] \subseteq registered[p]
    /\ \A h \in StreamHandlers \ expected[first[p]] : calls[first[p]][h] = 0

RedisInv ==
  /\ RedisTypeOK
  /\ BatchesApart
  /\ SettledApart
  /\ UnbegunIsFresh
  /\ EntryInHand
  /\ HandlersKnown
  /\ HandledOnce
  /\ AckedWasHandled

-----------------------------------------------------------------------------
LEMMA RedisInitHolds == RedisInit => RedisInv
BY RedisAssumption
   DEF RedisInit, RedisInv, RedisTypeOK, BatchesApart, SettledApart,
       UnbegunIsFresh, EntryInHand, HandlersKnown, HandledOnce, AckedWasHandled,
       Held, Entries

\* What is held was handed out.
LEMMA HeldFacts ==
  ASSUME RedisInv, NEW p \in Processes
  PROVE  /\ Held(p) \subseteq Entries
         /\ \A n \in Held(p) : n <= handedOut /\ n \notin acked \cup dropped
         /\ Held(p) # {} => first[p] \in Held(p)
<1>1. /\ first[p] \in Nat /\ last[p] \in Nat /\ last[p] <= MaxEntries
      /\ 1 <= first[p] /\ last[p] <= handedOut /\ handedOut \in Nat
  BY RedisAssumption DEF RedisInv, RedisTypeOK, BatchesApart
<1>2. Held(p) \subseteq Entries
  BY <1>1, RedisAssumption DEF Held, Entries
<1>3. \A n \in Held(p) : n <= handedOut
  BY <1>1 DEF Held
<1>4. Held(p) # {} => first[p] \in Held(p)
  BY <1>1 DEF Held
<1> QED BY <1>2, <1>3, <1>4 DEF RedisInv, SettledApart

\* Publishing.
LEMMA AddEntryKeeps ==
  ASSUME RedisInv, AddEntry
  PROVE  RedisInv'
<1> USE DEF AddEntry, loopVars
<1>1. RedisTypeOK'
  BY RedisAssumption DEF RedisInv, RedisTypeOK
<1>2. BatchesApart'
  BY RedisAssumption DEF RedisInv, RedisTypeOK, BatchesApart, Held
<1>3. SettledApart' /\ UnbegunIsFresh' /\ EntryInHand' /\ HandledOnce' /\ AckedWasHandled'
  BY DEF RedisInv, SettledApart, UnbegunIsFresh, EntryInHand, HandledOnce,
         AckedWasHandled, Held
<1>4. HandlersKnown'
  BY DEF RedisInv, HandlersKnown
<1> QED BY <1>1, <1>2, <1>3, <1>4 DEF RedisInv

\* Starting a process or a loop, and a start that fails.
LEMMA ProcessStartKeeps ==
  ASSUME RedisInv, NEW p \in Processes,
         Boot(p) \/ StartLoop(p) \/ StartFails(p)
  PROVE  RedisInv'
<1>1. /\ UNCHANGED <<added, handedOut, acked, registered, first, last, todo, begun,
                     calls, expected, dropped>>
      /\ up' \in SUBSET Processes /\ running' \in SUBSET Processes
      /\ looping' \in SUBSET Processes /\ faults' \in 0..MaxFaults
  BY RedisAssumption
     DEF Boot, StartLoop, StartFails, Fault, streamVarsR, RedisInv, RedisTypeOK
<1>2. RedisTypeOK'
  BY <1>1 DEF RedisInv, RedisTypeOK
<1>3. BatchesApart'
  BY <1>1 DEF RedisInv, BatchesApart, Held
<1>4. SettledApart' /\ UnbegunIsFresh' /\ EntryInHand' /\ HandledOnce' /\ AckedWasHandled'
  BY <1>1 DEF RedisInv, SettledApart, UnbegunIsFresh, EntryInHand, HandledOnce,
              AckedWasHandled, Held
<1>5. HandlersKnown'
  BY <1>1 DEF RedisInv, HandlersKnown
<1> QED BY <1>2, <1>3, <1>4, <1>5 DEF RedisInv

\* A handler that joins the entry in hand has not been called for it.
LEMMA RegisterKeeps ==
  ASSUME RedisInv, NEW p \in Processes, NEW h \in StreamHandlers, Register(p, h)
  PROVE  RedisInv'
<1> DEFINE e == first[p]
<1>1. /\ UNCHANGED <<added, handedOut, acked, up, running, looping, first, last,
                     begun, calls, dropped, faults>>
      /\ h \notin registered[p]
      /\ registered' = [registered EXCEPT ![p] = @ \cup {h}]
  BY DEF Register, streamVarsR
<1>2. \A q \in Processes : Held(q)' = Held(q)
  BY <1>1 DEF Held
<1>3. registered' \in [Processes -> SUBSET StreamHandlers]
      /\ \A q \in Processes : registered[q] \subseteq registered'[q]
  BY <1>1 DEF RedisInv, RedisTypeOK
<1>4. h \in registered'[p]
  BY <1>1 DEF RedisInv, RedisTypeOK
<1>5. BatchesApart' /\ SettledApart' /\ UnbegunIsFresh' /\ HandledOnce'
  BY <1>1, <1>2 DEF RedisInv, BatchesApart, SettledApart, UnbegunIsFresh, HandledOnce
<1>6. CASE UNCHANGED <<todo, expected>>
  <2>1. RedisTypeOK'
    BY <1>1, <1>3, <1>6 DEF RedisInv, RedisTypeOK
  <2>2. EntryInHand' /\ AckedWasHandled'
    BY <1>1, <1>2, <1>6 DEF RedisInv, EntryInHand, AckedWasHandled
  <2>3. HandlersKnown'
    BY <1>1, <1>3, <1>6 DEF RedisInv, HandlersKnown
  <2> QED BY <1>5, <2>1, <2>2, <2>3 DEF RedisInv
<1>7. CASE /\ begun[p]
           /\ todo' = [todo EXCEPT ![p] = @ \cup {h}]
           /\ expected' = [expected EXCEPT ![e] = @ \cup {h}]
  <2>1. e \in Entries /\ e \in Held(p) /\ e \notin acked
    BY <1>7, HeldFacts DEF RedisInv, EntryInHand
  <2>2. /\ todo'[p] = todo[p] \cup {h} /\ expected'[e] = expected[e] \cup {h}
        /\ \A q \in Processes \ {p} : todo'[q] = todo[q]
        /\ \A n \in Entries \ {e} : expected'[n] = expected[n]
    BY <1>7, <2>1 DEF RedisInv, RedisTypeOK
  <2>3. h \notin expected[e] /\ calls[e][h] = 0
    BY <1>1, <1>7 DEF RedisInv, HandlersKnown
  <2>4. RedisTypeOK'
    BY <1>1, <1>3, <1>7, <2>1 DEF RedisInv, RedisTypeOK
  <2>5. \A q \in Processes \ {p} : begun[q] => first[q] \in Entries \ {e}
    BY <2>1, HeldFacts DEF RedisInv, EntryInHand, BatchesApart
  <2>6. EntryInHand'
    <3> SUFFICES ASSUME NEW q \in Processes
                 PROVE  /\ ~begun[q] => todo'[q] = {}
                        /\ begun[q] =>
                             /\ first[q] \in Held(q) /\ first[q] \notin Malformed
                             /\ todo'[q] \subseteq expected'[first[q]]
                             /\ \A g \in todo'[q] : calls[first[q]][g] = 0
                             /\ \A g \in expected'[first[q]] \ todo'[q] :
                                  calls[first[q]][g] = 1
      BY <1>1, <1>2 DEF EntryInHand
    <3>1. CASE q = p
      BY <1>7, <2>2, <2>3, <3>1 DEF RedisInv, EntryInHand
    <3>2. CASE q # p
      BY <2>2, <2>5, <3>2 DEF RedisInv, EntryInHand
    <3> QED BY <3>1, <3>2
  <2>7. HandlersKnown'
    <3> SUFFICES ASSUME NEW q \in Processes, begun[q]
                 PROVE  /\ expected'[first[q]] \subseteq registered'[q]
                        /\ \A g \in StreamHandlers \ expected'[first[q]] :
                             calls[first[q]][g] = 0
      BY <1>1 DEF HandlersKnown
    <3>1. CASE q = p
      BY <1>3, <1>4, <2>2, <3>1 DEF RedisInv, HandlersKnown
    <3>2. CASE q # p
      BY <1>3, <2>2, <2>5, <3>2 DEF RedisInv, HandlersKnown
    <3> QED BY <3>1, <3>2
  <2>8. AckedWasHandled'
    <3>1. \A n \in acked : n \in Entries \ {e}
      BY <2>1 DEF RedisInv, RedisTypeOK
    <3> QED BY <1>1, <2>2, <3>1 DEF RedisInv, AckedWasHandled
  <2> QED BY <1>5, <2>4, <2>6, <2>7, <2>8 DEF RedisInv
<1> QED BY <1>6, <1>7 DEF Register

\* A loop leaves entries of its batch behind, acknowledged or let go: what every
\* step that ends the processing of an entry does.
LEMMA LeavingKeeps ==
  ASSUME RedisInv, RedisTypeOK', NEW p \in Processes,
         UNCHANGED <<added, handedOut, calls, expected>>,
         1 <= first'[p], last'[p] <= handedOut,
         Held(p)' \subseteq Held(p),
         \A q \in Processes \ {p} :
           /\ first'[q] = first[q] /\ last'[q] = last[q]
           /\ todo'[q] = todo[q] /\ begun'[q] = begun[q]
           /\ registered'[q] = registered[q],
         begun'[p] = FALSE, todo'[p] = {},
         first[p] \notin Held(p)' \/ ~begun[p],
         \A n \in acked' \cup dropped' :
           n \in acked \cup dropped \/ (n \in Held(p) /\ n \notin Held(p)'),
         \A n \in acked' :
           /\ n \notin dropped'
           /\ n \in acked \/ (n = first[p] /\ begun[p] /\ todo[p] = {})
  PROVE  RedisInv'
<1>1. \A q \in Processes : Held(q)' \subseteq Held(q)
  BY DEF Held
<1>2. BatchesApart'
  <2>1. \A q \in Processes : 1 <= first'[q] /\ last'[q] <= handedOut'
    BY DEF RedisInv, BatchesApart
  <2> QED BY <1>1, <2>1 DEF RedisInv, BatchesApart
<1>3. SettledApart'
  <2>1. ASSUME NEW n \in acked' \cup dropped', NEW q \in Processes
        PROVE  n <= handedOut /\ n \notin Held(q)'
    <3>1. CASE n \in acked \cup dropped
      BY <1>1, <3>1 DEF RedisInv, SettledApart
    <3>2. CASE n \in Held(p) /\ n \notin Held(p)'
      <4>1. n \in Entries /\ n <= handedOut BY <3>2, HeldFacts
      <4> QED BY <1>1, <3>2, <4>1 DEF RedisInv, BatchesApart
    <3> QED BY <3>1, <3>2
  <2> QED BY <2>1 DEF SettledApart
<1>4. UnbegunIsFresh'
  <2>1. ASSUME NEW q \in Processes, NEW n \in Held(q)', NEW h \in StreamHandlers,
               n # first'[q] \/ ~begun'[q]
        PROVE  calls[n][h] = 0
    <3>1. CASE q = p
      <4>1. n # first[p] \/ ~begun[p] BY <2>1, <3>1
      <4> QED BY <1>1, <3>1, <4>1 DEF RedisInv, UnbegunIsFresh
    <3>2. CASE q # p
      BY <1>1, <2>1, <3>2 DEF RedisInv, UnbegunIsFresh
    <3> QED BY <3>1, <3>2
  <2> QED BY <2>1 DEF RedisInv, UnbegunIsFresh
<1>5. EntryInHand'
  <2>1. \A q \in Processes \ {p} : Held(q)' = Held(q) BY DEF Held
  <2> SUFFICES ASSUME NEW q \in Processes
               PROVE  /\ ~begun'[q] => todo'[q] = {}
                      /\ begun'[q] =>
                           /\ first'[q] \in Held(q)' /\ first'[q] \notin Malformed
                           /\ todo'[q] \subseteq expected[first'[q]]
                           /\ \A h \in todo'[q] : calls[first'[q]][h] = 0
                           /\ \A h \in expected[first'[q]] \ todo'[q] :
                                calls[first'[q]][h] = 1
    BY DEF EntryInHand
  <2>2. CASE q = p BY <2>2
  <2>3. CASE q # p BY <2>1, <2>3 DEF RedisInv, EntryInHand
  <2> QED BY <2>2, <2>3
<1>6. HandledOnce'
  BY DEF RedisInv, HandledOnce
<1>7. AckedWasHandled'
  <2> SUFFICES ASSUME NEW n \in acked'
               PROVE  n \notin dropped' /\ \A h \in expected[n] : calls[n][h] = 1
    BY DEF AckedWasHandled
  <2>1. CASE n \in acked
    BY <2>1 DEF RedisInv, AckedWasHandled
  <2>2. CASE n = first[p] /\ begun[p] /\ todo[p] = {}
    BY <2>2 DEF RedisInv, EntryInHand
  <2> QED BY <2>1, <2>2
<1>8. HandlersKnown'
  BY DEF RedisInv, HandlersKnown
<1> QED BY <1>2, <1>3, <1>4, <1>5, <1>6, <1>7, <1>8 DEF RedisInv

\* Letting go of the batch from its first entry on, or from the second.
LEMMA LetGoFacts ==
  ASSUME RedisInv, NEW p \in Processes, NEW n \in {first[p], first[p] + 1},
         LetGoFrom(p, n)
  PROVE  /\ first'[p] = 1 /\ last'[p] = 0 /\ todo'[p] = {} /\ begun'[p] = FALSE
         /\ \A q \in Processes \ {p} :
              /\ first'[q] = first[q] /\ last'[q] = last[q]
              /\ todo'[q] = todo[q] /\ begun'[q] = begun[q]
         /\ first' \in [Processes -> Nat] /\ last' \in [Processes -> 0 .. MaxEntries]
         /\ todo' \in [Processes -> SUBSET StreamHandlers]
         /\ begun' \in [Processes -> BOOLEAN]
         /\ dropped' \subseteq Entries
         /\ Held(p)' = {}
         /\ \A d \in dropped' : d \in dropped \/ (d \in Held(p) /\ n <= d)
<1>1. n .. last[p] \subseteq Held(p)
  BY RedisAssumption DEF RedisInv, RedisTypeOK, Held
<1>2. /\ first'[p] = 1 /\ last'[p] = 0 /\ todo'[p] = {} /\ begun'[p] = FALSE
      /\ \A q \in Processes \ {p} :
           /\ first'[q] = first[q] /\ last'[q] = last[q]
           /\ todo'[q] = todo[q] /\ begun'[q] = begun[q]
  BY DEF LetGoFrom, RedisInv, RedisTypeOK
<1>3. /\ first' \in [Processes -> Nat] /\ last' \in [Processes -> 0 .. MaxEntries]
      /\ todo' \in [Processes -> SUBSET StreamHandlers]
      /\ begun' \in [Processes -> BOOLEAN]
  BY RedisAssumption DEF LetGoFrom, RedisInv, RedisTypeOK
<1>4. dropped' = dropped \cup n .. last[p]
  BY DEF LetGoFrom
<1>5. dropped' \subseteq Entries
  BY <1>1, <1>4, HeldFacts DEF RedisInv, RedisTypeOK
<1>6. Held(p)' = {}
  BY <1>2 DEF Held
<1>7. \A d \in dropped' : d \in dropped \/ (d \in Held(p) /\ n <= d)
  BY <1>1, <1>4
<1> QED BY <1>2, <1>3, <1>5, <1>6, <1>7

LEMMA StopLoopKeeps ==
  ASSUME RedisInv, NEW p \in Processes,
         StopLoop(p) \/ Crash(p) \/ AbandonBatch(p)
  PROVE  RedisInv'
<1>1. LetGoFrom(p, first[p]) /\ UNCHANGED <<added, handedOut, calls, expected, acked>>
  BY DEF StopLoop, Crash, AbandonBatch, LetGo, streamVarsR
<1>2. /\ first'[p] = 1 /\ last'[p] = 0 /\ todo'[p] = {} /\ begun'[p] = FALSE
      /\ \A q \in Processes \ {p} :
           /\ first'[q] = first[q] /\ last'[q] = last[q]
           /\ todo'[q] = todo[q] /\ begun'[q] = begun[q]
      /\ first' \in [Processes -> Nat] /\ last' \in [Processes -> 0 .. MaxEntries]
      /\ todo' \in [Processes -> SUBSET StreamHandlers]
      /\ begun' \in [Processes -> BOOLEAN]
      /\ dropped' \subseteq Entries
      /\ Held(p)' = {}
      /\ \A d \in dropped' : d \in dropped \/ d \in Held(p)
  BY <1>1, LetGoFacts
<1>3. /\ up' \subseteq Processes
      /\ running' \subseteq Processes /\ looping' \subseteq Processes
      /\ registered' \in [Processes -> SUBSET StreamHandlers]
      /\ \A q \in Processes \ {p} : registered'[q] = registered[q]
      /\ faults' \in 0 .. MaxFaults
  BY RedisAssumption DEF StopLoop, Crash, AbandonBatch, Fault, RedisInv, RedisTypeOK
<1>4. RedisTypeOK'
  BY <1>1, <1>2, <1>3 DEF RedisInv, RedisTypeOK
<1>5. \A n \in acked : n \notin dropped'
  BY <1>2, HeldFacts DEF RedisInv, SettledApart
<1>6. 1 <= first'[p] /\ last'[p] <= handedOut
  BY <1>2 DEF RedisInv, RedisTypeOK
<1> QED BY <1>1, <1>2, <1>3, <1>4, <1>5, <1>6, LeavingKeeps

LEMMA AcknowledgeFailsKeeps ==
  ASSUME RedisInv, NEW p \in Processes, AcknowledgeFails(p)
  PROVE  RedisInv'
<1>1. /\ begun[p] /\ todo[p] = {}
      /\ UNCHANGED <<added, handedOut, up, registered, running, looping, calls, expected>>
      /\ faults' \in 0 .. MaxFaults
  BY RedisAssumption DEF AcknowledgeFails, Fault, RedisInv, RedisTypeOK
<1>2. first[p] \in Held(p) /\ first[p] \in Entries /\ first[p] \notin dropped
  BY <1>1, HeldFacts DEF RedisInv, EntryInHand
<1>3. PICK n \in {first[p], first[p] + 1} :
        /\ LetGoFrom(p, n)
        /\ \/ n = first[p] /\ acked' = acked
           \/ n = first[p] + 1 /\ acked' = acked \cup {first[p]}
  BY DEF AcknowledgeFails, LetGo
<1>4. /\ first'[p] = 1 /\ last'[p] = 0 /\ todo'[p] = {} /\ begun'[p] = FALSE
      /\ \A q \in Processes \ {p} :
           /\ first'[q] = first[q] /\ last'[q] = last[q]
           /\ todo'[q] = todo[q] /\ begun'[q] = begun[q]
      /\ first' \in [Processes -> Nat] /\ last' \in [Processes -> 0 .. MaxEntries]
      /\ todo' \in [Processes -> SUBSET StreamHandlers]
      /\ begun' \in [Processes -> BOOLEAN]
      /\ dropped' \subseteq Entries
      /\ Held(p)' = {}
      /\ \A d \in dropped' : d \in dropped \/ (d \in Held(p) /\ n <= d)
  BY <1>3, LetGoFacts
<1>5. RedisTypeOK'
  BY <1>1, <1>2, <1>3, <1>4 DEF RedisInv, RedisTypeOK
<1>6. \A d \in acked' : d \notin dropped' /\ (d \in acked \/ d = first[p])
  <2>1. first[p] \in Nat BY DEF RedisInv, RedisTypeOK
  <2>2. first[p] \in acked' => first[p] \notin dropped'
    BY <1>2, <1>3, <1>4, <2>1, HeldFacts
  <2>3. \A d \in acked : d \notin dropped'
    BY <1>4, HeldFacts DEF RedisInv, SettledApart
  <2> QED BY <1>3, <2>2, <2>3
<1>7. \A d \in acked' \cup dropped' : d \in acked \cup dropped \/ d \in Held(p)
  BY <1>2, <1>4, <1>6
<1>8. 1 <= first'[p] /\ last'[p] <= handedOut
  BY <1>4 DEF RedisInv, RedisTypeOK
<1> QED BY <1>1, <1>4, <1>5, <1>6, <1>7, <1>8, LeavingKeeps

\* The batch without its first entry.
LEMMA NextEntryFacts ==
  ASSUME RedisInv, NEW p \in Processes, first[p] \in Held(p),
         first' = [first EXCEPT ![p] = @ + 1], last' = last
  PROVE  /\ first' \in [Processes -> Nat] /\ 1 <= first'[p] /\ last'[p] <= handedOut
         /\ Held(p)' = Held(p) \ {first[p]}
<1>1. /\ first' \in [Processes -> Nat] /\ first'[p] = first[p] + 1
      /\ first[p] \in Nat /\ last[p] \in Nat
  BY RedisAssumption DEF RedisInv, RedisTypeOK
<1>2. Held(p)' = (first[p] + 1) .. last[p]
  BY <1>1 DEF Held
<1>3. 1 <= first[p] /\ last[p] <= handedOut
  BY DEF RedisInv, BatchesApart
<1> QED BY <1>1, <1>2, <1>3 DEF Held

LEMMA AcknowledgeKeeps ==
  ASSUME RedisInv, NEW p \in Processes, Acknowledge(p)
  PROVE  RedisInv'
<1>1. /\ begun[p] /\ todo[p] = {}
      /\ acked' = acked \cup {first[p]}
      /\ first' = [first EXCEPT ![p] = @ + 1]
      /\ begun' = [begun EXCEPT ![p] = FALSE]
      /\ UNCHANGED <<added, handedOut, calls, expected>>
      /\ UNCHANGED <<up, registered, running, looping, last, todo, dropped, faults>>
  BY DEF Acknowledge
<1>2. first[p] \in Held(p) /\ first[p] \in Entries /\ first[p] \notin dropped
  BY <1>1, HeldFacts DEF RedisInv, EntryInHand
<1>3. /\ first' \in [Processes -> Nat] /\ 1 <= first'[p] /\ last'[p] <= handedOut
      /\ Held(p)' = Held(p) \ {first[p]}
  BY <1>1, <1>2, NextEntryFacts
<1>4. RedisTypeOK'
  BY <1>1, <1>2, <1>3 DEF RedisInv, RedisTypeOK
<1>5. /\ begun'[p] = FALSE /\ todo'[p] = {}
      /\ \A q \in Processes \ {p} :
           /\ first'[q] = first[q] /\ last'[q] = last[q]
           /\ todo'[q] = todo[q] /\ begun'[q] = begun[q]
  BY <1>1 DEF RedisInv, RedisTypeOK
<1>6. \A n \in acked' : n \notin dropped' /\ (n \in acked \/ n = first[p])
  BY <1>1, <1>2 DEF RedisInv, SettledApart
<1> QED BY <1>1, <1>2, <1>3, <1>4, <1>5, <1>6, LeavingKeeps

LEMMA SkipMalformedKeeps ==
  ASSUME RedisInv, NEW p \in Processes, SkipMalformed(p)
  PROVE  RedisInv'
<1>1. /\ Held(p) # {} /\ first[p] \in Malformed
      /\ dropped' = dropped \cup {first[p]}
      /\ first' = [first EXCEPT ![p] = @ + 1]
      /\ UNCHANGED <<added, handedOut, calls, expected>>
      /\ UNCHANGED <<acked, up, registered, running, looping, last, todo, begun, faults>>
  BY DEF SkipMalformed, streamVarsR
<1>2. first[p] \in Held(p) /\ first[p] \in Entries /\ first[p] \notin acked
  BY <1>1, HeldFacts
<1>3. /\ first' \in [Processes -> Nat] /\ 1 <= first'[p] /\ last'[p] <= handedOut
      /\ Held(p)' = Held(p) \ {first[p]}
  BY <1>1, <1>2, NextEntryFacts
<1>4. RedisTypeOK'
  BY <1>1, <1>2, <1>3 DEF RedisInv, RedisTypeOK
<1>5. /\ begun'[p] = FALSE /\ todo'[p] = {}
      /\ \A q \in Processes \ {p} :
           /\ first'[q] = first[q] /\ last'[q] = last[q]
           /\ todo'[q] = todo[q] /\ begun'[q] = begun[q]
  BY <1>1 DEF RedisInv, RedisTypeOK, EntryInHand
<1>6. \A n \in acked' : n \notin dropped' /\ n \in acked
  BY <1>1, <1>2 DEF RedisInv, SettledApart
<1> QED BY <1>1, <1>2, <1>3, <1>4, <1>5, <1>6, LeavingKeeps

-----------------------------------------------------------------------------
(* Reading a batch, and handling an entry of it.                             *)

\* LastRead lies beyond what was handed out and within the stream.
LEMMA LastReadFacts ==
  ASSUME RedisInv, handedOut < added
  PROVE  /\ LastRead \in 0 .. MaxEntries /\ handedOut < LastRead /\ LastRead <= added
         /\ handedOut + 1 \in Nat
         /\ \A n \in (handedOut + 1) .. LastRead : n \in Entries /\ n > handedOut
<1>1. LastRead \in 0 .. MaxEntries /\ handedOut < LastRead /\ LastRead <= added
  BY RedisAssumption DEF LastRead, RedisInv, RedisTypeOK
<1> QED BY <1>1, RedisAssumption DEF RedisInv, RedisTypeOK, Entries

LEMMA ReadBatchKeeps ==
  ASSUME RedisInv, NEW p \in Processes, ReadBatch(p)
  PROVE  RedisInv'
<1>1. /\ Held(p) = {} /\ handedOut < added
      /\ first' = [first EXCEPT ![p] = handedOut + 1]
      /\ last' = [last EXCEPT ![p] = LastRead]
      /\ handedOut' = LastRead
      /\ UNCHANGED <<added, acked, up, registered, running, looping, todo, begun, calls,
                     expected, dropped, faults>>
  BY DEF ReadBatch
<1>2. /\ LastRead \in 0 .. MaxEntries /\ handedOut < LastRead /\ LastRead <= added
      /\ handedOut + 1 \in Nat /\ handedOut \in Nat
      /\ \A n \in (handedOut + 1) .. LastRead : n \in Entries /\ n > handedOut
  BY <1>1, LastReadFacts DEF RedisInv, RedisTypeOK
<1>3. /\ Held(p)' = (handedOut + 1) .. LastRead
      /\ first'[p] = handedOut + 1 /\ last'[p] = LastRead
      /\ \A q \in Processes \ {p} :
           first'[q] = first[q] /\ last'[q] = last[q] /\ Held(q)' = Held(q)
  BY <1>1 DEF RedisInv, RedisTypeOK, Held
<1>4. ~begun[p]
  BY <1>1 DEF RedisInv, EntryInHand
<1>5. \A q \in Processes : \A n \in Held(q) : n <= handedOut /\ n \in Entries
  BY HeldFacts
<1>6. RedisTypeOK'
  BY <1>1, <1>2 DEF RedisInv, RedisTypeOK
<1>7. BatchesApart'
  <2>1. \A q \in Processes : 1 <= first'[q] /\ last'[q] <= handedOut'
    BY <1>1, <1>2, <1>3, RedisAssumption DEF RedisInv, RedisTypeOK, BatchesApart
  <2>2. ASSUME NEW q \in Processes, NEW r \in Processes, NEW n \in Entries,
               n \in Held(q)', n \in Held(r)'
        PROVE  q = r
    <3>1. n \in Nat BY RedisAssumption DEF Entries
    <3> QED BY <1>2, <1>3, <1>5, <2>2, <3>1 DEF RedisInv, BatchesApart
  <2> QED BY <1>1, <1>2, <2>1, <2>2 DEF BatchesApart
<1>8. SettledApart'
  <2> SUFFICES ASSUME NEW n \in acked \cup dropped, NEW q \in Processes
               PROVE  n <= LastRead /\ n \notin Held(q)'
    BY <1>1 DEF RedisInv, SettledApart
  <2>1. n \in Nat BY RedisAssumption DEF RedisInv, RedisTypeOK, Entries
  <2>2. n <= handedOut /\ n \notin Held(q) BY DEF RedisInv, SettledApart
  <2>3. n <= LastRead BY <1>2, <2>1, <2>2
  <2>4. n \notin (handedOut + 1) .. LastRead BY <1>2, <2>1, <2>2
  <2> QED BY <1>3, <2>2, <2>3, <2>4
<1>9. UnbegunIsFresh'
  <2>1. ASSUME NEW n \in Entries, NEW h \in StreamHandlers, n > handedOut'
        PROVE  calls'[n][h] = 0
    <3>1. n \in Nat BY RedisAssumption DEF Entries
    <3>2. n > handedOut BY <1>1, <1>2, <2>1, <3>1
    <3> QED BY <1>1, <3>2 DEF RedisInv, UnbegunIsFresh
  <2>2. ASSUME NEW q \in Processes, NEW n \in Held(q)', NEW h \in StreamHandlers,
               n # first'[q] \/ ~begun'[q]
        PROVE  calls'[n][h] = 0
    <3>1. CASE q = p
      BY <1>1, <1>2, <1>3, <3>1 DEF RedisInv, UnbegunIsFresh
    <3>2. CASE q # p
      BY <1>1, <1>3, <2>2, <3>2 DEF RedisInv, UnbegunIsFresh
    <3> QED BY <3>1, <3>2
  <2> QED BY <2>1, <2>2 DEF UnbegunIsFresh
<1>10. EntryInHand'
  BY <1>1, <1>3, <1>4 DEF RedisInv, EntryInHand
<1>11. HandledOnce' /\ AckedWasHandled'
  BY <1>1 DEF RedisInv, HandledOnce, AckedWasHandled
<1>12. HandlersKnown'
  BY <1>1, <1>3, <1>4 DEF RedisInv, HandlersKnown
<1> QED BY <1>6, <1>7, <1>8, <1>9, <1>10, <1>11, <1>12 DEF RedisInv

LEMMA ReadFailsKeeps ==
  ASSUME RedisInv, NEW p \in Processes, ReadFails(p)
  PROVE  RedisInv'
<1>1. /\ UNCHANGED <<added, acked, up, registered, running, looping, first, last, todo, begun,
                     calls, expected>>
      /\ faults' \in 0 .. MaxFaults
  BY RedisAssumption DEF ReadFails, Fault, loopVars, RedisInv, RedisTypeOK
<1>2. \A q \in Processes :
        /\ Held(q)' = Held(q)
        /\ \A n \in Held(q) : n <= handedOut /\ n \in Entries
  BY <1>1, HeldFacts DEF Held
<1>3. CASE UNCHANGED <<handedOut, dropped>>
  <2>1. RedisTypeOK' BY <1>1, <1>3 DEF RedisInv, RedisTypeOK
  <2>2. BatchesApart' /\ SettledApart'
    BY <1>1, <1>3 DEF RedisInv, BatchesApart, SettledApart, Held
  <2>3. UnbegunIsFresh' /\ EntryInHand' /\ HandledOnce' /\ AckedWasHandled'
    BY <1>1, <1>3 DEF RedisInv, UnbegunIsFresh, EntryInHand, HandledOnce,
                      AckedWasHandled, Held
  <2>4. HandlersKnown' BY <1>1 DEF RedisInv, HandlersKnown
  <2> QED BY <2>1, <2>2, <2>3, <2>4 DEF RedisInv
<1>4. CASE /\ handedOut < added /\ handedOut' = LastRead
           /\ dropped' = dropped \cup (handedOut + 1) .. LastRead
  <2>1. /\ LastRead \in 0 .. MaxEntries /\ handedOut < LastRead /\ LastRead <= added
        /\ handedOut + 1 \in Nat /\ handedOut \in Nat
        /\ \A n \in (handedOut + 1) .. LastRead :
             n \in Entries /\ n > handedOut /\ n <= LastRead
    BY <1>4, LastReadFacts DEF RedisInv, RedisTypeOK
  <2>2. RedisTypeOK'
    BY <1>1, <1>4, <2>1 DEF RedisInv, RedisTypeOK
  <2>3. BatchesApart'
    BY <1>1, <1>2, <1>4, <2>1, RedisAssumption
       DEF RedisInv, RedisTypeOK, BatchesApart
  <2>4. \A n \in acked \cup dropped : n \in Nat /\ n <= handedOut
    BY RedisAssumption DEF RedisInv, RedisTypeOK, SettledApart, Entries
  <2>5. \A n \in acked \cup dropped' : n <= LastRead
    BY <1>4, <2>1, <2>4
  <2>6. ASSUME NEW n \in acked \cup dropped', NEW q \in Processes
        PROVE  n \notin Held(q)
    <3>1. CASE n \in acked \cup dropped
      BY <3>1 DEF RedisInv, SettledApart
    <3>2. CASE n \in (handedOut + 1) .. LastRead
      BY <1>2, <2>1, <3>2, RedisAssumption DEF Entries
    <3> QED BY <1>4, <3>1, <3>2
  <2>7. ASSUME NEW n \in acked PROVE n \notin dropped'
    BY <1>4, <2>1, <2>4 DEF RedisInv, SettledApart
  <2>8. SettledApart'
    BY <1>1, <1>2, <1>4, <2>5, <2>6, <2>7 DEF SettledApart
  <2>9. \A n \in Entries : n > handedOut' => n > handedOut
    BY <1>4, <2>1, RedisAssumption DEF Entries
  <2>10. UnbegunIsFresh'
    BY <1>1, <1>2, <2>9 DEF RedisInv, UnbegunIsFresh
  <2>11. EntryInHand' /\ HandledOnce'
    BY <1>1, <1>2 DEF RedisInv, EntryInHand, HandledOnce
  <2>12. AckedWasHandled'
    BY <1>1, <2>7 DEF RedisInv, AckedWasHandled
  <2>13. HandlersKnown' BY <1>1 DEF RedisInv, HandlersKnown
  <2> QED BY <2>2, <2>3, <2>8, <2>10, <2>11, <2>12, <2>13 DEF RedisInv
<1> QED BY <1>3, <1>4 DEF ReadFails

LEMMA BeginEntryKeeps ==
  ASSUME RedisInv, NEW p \in Processes, BeginEntry(p)
  PROVE  RedisInv'
<1> DEFINE e == first[p]
<1>1. /\ ~begun[p] /\ e \notin Malformed
      /\ begun' = [begun EXCEPT ![p] = TRUE]
      /\ todo' = [todo EXCEPT ![p] = registered[p] \cap Wanted[e]]
      /\ expected' = [expected EXCEPT ![e] = todo'[p]]
      /\ UNCHANGED <<added, handedOut, acked, up, registered, running, looping, first, last,
                     calls, dropped, faults>>
  BY DEF BeginEntry, streamVarsR
<1>2. e \in Held(p) /\ e \in Entries /\ e \notin acked
  BY HeldFacts DEF BeginEntry
<1>3. /\ begun'[p] = TRUE /\ expected'[e] = todo'[p]
      /\ \A q \in Processes \ {p} : begun'[q] = begun[q] /\ todo'[q] = todo[q]
      /\ \A n \in Entries \ {e} : expected'[n] = expected[n]
      /\ \A q \in Processes : Held(q)' = Held(q)
  BY <1>1, <1>2 DEF RedisInv, RedisTypeOK, Held
<1>4. todo' \in [Processes -> SUBSET StreamHandlers] /\ todo'[p] \subseteq StreamHandlers
  BY <1>1 DEF RedisInv, RedisTypeOK
<1>5. RedisTypeOK'
  BY <1>1, <1>2, <1>4 DEF RedisInv, RedisTypeOK
<1>6. BatchesApart' /\ SettledApart' /\ HandledOnce'
  BY <1>1, <1>3 DEF RedisInv, BatchesApart, SettledApart, HandledOnce
<1>7. UnbegunIsFresh'
  BY <1>1, <1>3 DEF RedisInv, UnbegunIsFresh
<1>8. \A h \in StreamHandlers : calls[e][h] = 0
  BY <1>1, <1>2 DEF RedisInv, UnbegunIsFresh
<1>9. EntryInHand'
  <2> SUFFICES ASSUME NEW q \in Processes
               PROVE  /\ ~begun'[q] => todo'[q] = {}
                      /\ begun'[q] =>
                           /\ first'[q] \in Held(q)' /\ first'[q] \notin Malformed
                           /\ todo'[q] \subseteq expected'[first'[q]]
                           /\ \A h \in todo'[q] : calls'[first'[q]][h] = 0
                           /\ \A h \in expected'[first'[q]] \ todo'[q] :
                                calls'[first'[q]][h] = 1
    BY DEF EntryInHand
  <2>1. CASE q = p
    BY <1>1, <1>2, <1>3, <1>4, <1>8, <2>1
  <2>2. CASE q # p
    <3>1. begun[q] => first[q] \in Entries /\ first[q] # e
      BY <1>2, <2>2, HeldFacts DEF RedisInv, EntryInHand, BatchesApart
    <3> QED BY <1>1, <1>3, <2>2, <3>1 DEF RedisInv, EntryInHand
  <2> QED BY <2>1, <2>2
<1>10. AckedWasHandled'
  <2>1. \A n \in acked : n \in Entries \ {e}
    BY <1>2 DEF RedisInv, RedisTypeOK
  <2> QED BY <1>1, <1>3, <2>1 DEF RedisInv, AckedWasHandled
<1>11. HandlersKnown'
  <2> SUFFICES ASSUME NEW q \in Processes, begun'[q]
               PROVE  /\ expected'[first[q]] \subseteq registered[q]
                      /\ \A h \in StreamHandlers \ expected'[first[q]] :
                           calls[first[q]][h] = 0
    BY <1>1 DEF HandlersKnown
  <2>1. CASE q = p
    <3>1. todo'[p] \subseteq registered[p]
      BY <1>1 DEF RedisInv, RedisTypeOK
    <3> QED BY <1>3, <1>8, <2>1, <3>1
  <2>2. CASE q # p
    <3>1. begun[q] /\ first[q] \in Entries /\ first[q] # e
      BY <1>2, <1>3, <2>2, HeldFacts DEF RedisInv, EntryInHand, BatchesApart
    <3> QED BY <1>3, <3>1 DEF RedisInv, HandlersKnown
  <2> QED BY <2>1, <2>2
<1> QED BY <1>5, <1>6, <1>7, <1>9, <1>10, <1>11 DEF RedisInv

LEMMA CallHandlerKeeps ==
  ASSUME RedisInv, NEW p \in Processes, NEW h \in StreamHandlers, CallHandler(p, h)
  PROVE  RedisInv'
<1> DEFINE e == first[p]
<1>1. /\ h \in todo[p]
      /\ calls' = [calls EXCEPT ![e][h] = @ + 1]
      /\ todo' = [todo EXCEPT ![p] = @ \ {h}]
      /\ UNCHANGED <<added, handedOut, acked, up, registered, running, looping, first, last,
                     begun, expected, dropped, faults>>
  BY DEF CallHandler, streamVarsR
<1>2. begun[p] /\ e \in Held(p) /\ calls[e][h] = 0
  BY <1>1 DEF RedisInv, EntryInHand
<1>3. e \in Entries /\ e \notin acked /\ e <= handedOut /\ e \in Nat /\ handedOut \in Nat
  BY <1>2, HeldFacts DEF RedisInv, RedisTypeOK
<1>4. \A n \in Entries, g \in StreamHandlers :
        calls'[n][g] = IF n = e /\ g = h THEN 1 ELSE calls[n][g]
  BY <1>1, <1>2, <1>3 DEF RedisInv, RedisTypeOK
<1>5. /\ todo'[p] = todo[p] \ {h}
      /\ \A q \in Processes \ {p} : todo'[q] = todo[q]
      /\ \A q \in Processes : Held(q)' = Held(q)
  BY <1>1 DEF RedisInv, RedisTypeOK, Held
<1>6. RedisTypeOK'
  BY <1>1, <1>3 DEF RedisInv, RedisTypeOK
<1>7. BatchesApart' /\ SettledApart'
  BY <1>1, <1>5 DEF RedisInv, BatchesApart, SettledApart
<1>8. \A q \in Processes : \A n \in Held(q) :
        n \in Entries /\ (n = e => q = p)
  BY <1>2, <1>3, HeldFacts DEF RedisInv, BatchesApart
<1>9. UnbegunIsFresh'
  <2>1. ASSUME NEW n \in Entries, NEW g \in StreamHandlers, n > handedOut'
        PROVE  calls'[n][g] = 0
    <3>1. n # e BY <1>1, <1>3, <2>1
    <3> QED BY <1>1, <1>4, <2>1, <3>1 DEF RedisInv, UnbegunIsFresh
  <2>2. ASSUME NEW q \in Processes, NEW n \in Held(q)', NEW g \in StreamHandlers,
               n # first'[q] \/ ~begun'[q]
        PROVE  calls'[n][g] = 0
    <3>1. n # e BY <1>1, <1>2, <1>5, <1>8, <2>2
    <3> QED BY <1>1, <1>4, <1>5, <1>8, <2>2, <3>1 DEF RedisInv, UnbegunIsFresh
  <2> QED BY <2>1, <2>2 DEF UnbegunIsFresh
<1>10. EntryInHand'
  <2>1. \A q \in Processes : todo[q] \subseteq StreamHandlers
    BY DEF RedisInv, RedisTypeOK
  <2>2. \A n \in Entries : expected[n] \subseteq StreamHandlers
    BY DEF RedisInv, RedisTypeOK
  <2> SUFFICES ASSUME NEW q \in Processes
               PROVE  /\ ~begun'[q] => todo'[q] = {}
                      /\ begun'[q] =>
                           /\ first'[q] \in Held(q)' /\ first'[q] \notin Malformed
                           /\ todo'[q] \subseteq expected'[first'[q]]
                           /\ \A g \in todo'[q] : calls'[first'[q]][g] = 0
                           /\ \A g \in expected'[first'[q]] \ todo'[q] :
                                calls'[first'[q]][g] = 1
    BY DEF EntryInHand
  <2>3. CASE q = p
    BY <1>1, <1>2, <1>3, <1>4, <1>5, <2>1, <2>2, <2>3 DEF RedisInv, EntryInHand
  <2>4. CASE q # p
    <3>1. begun[q] => first[q] \in Entries /\ first[q] # e
      BY <1>8, <2>4 DEF RedisInv, EntryInHand
    <3> QED BY <1>1, <1>4, <1>5, <2>1, <2>2, <2>4, <3>1 DEF RedisInv, EntryInHand
  <2> QED BY <2>3, <2>4
<1>11. HandledOnce'
  BY <1>4 DEF RedisInv, HandledOnce
<1>12. AckedWasHandled'
  <2>1. \A n \in acked : n \in Entries /\ n # e /\ expected[n] \subseteq StreamHandlers
    BY <1>3 DEF RedisInv, RedisTypeOK
  <2> QED BY <1>1, <1>4, <2>1 DEF RedisInv, AckedWasHandled
<1>13. HandlersKnown'
  <2> SUFFICES ASSUME NEW q \in Processes, begun[q]
               PROVE  /\ expected[first[q]] \subseteq registered[q]
                      /\ \A g \in StreamHandlers \ expected[first[q]] :
                           calls'[first[q]][g] = 0
    BY <1>1 DEF HandlersKnown
  <2>1. first[q] \in Entries /\ first[q] \in Held(q)
    BY HeldFacts DEF RedisInv, EntryInHand
  <2>2. first[q] = e => h \in expected[first[q]]
    BY <1>1, <1>2 DEF RedisInv, EntryInHand
  <2> QED BY <1>4, <2>1, <2>2 DEF RedisInv, HandlersKnown
<1> QED BY <1>6, <1>7, <1>9, <1>10, <1>11, <1>12, <1>13 DEF RedisInv

-----------------------------------------------------------------------------
LEMMA RedisStep ==
  ASSUME RedisInv, [RedisNext]_redisVars
  PROVE  RedisInv'
<1>1. CASE UNCHANGED redisVars
  <2>1. RedisTypeOK' /\ BatchesApart' /\ SettledApart'
    BY <1>1 DEF redisVars, streamVarsR, loopVars, RedisInv, RedisTypeOK,
                BatchesApart, SettledApart, Held
  <2>2. UnbegunIsFresh' /\ EntryInHand' /\ HandledOnce' /\ AckedWasHandled'
    BY <1>1 DEF redisVars, streamVarsR, loopVars, RedisInv, UnbegunIsFresh,
                EntryInHand, HandledOnce, AckedWasHandled, Held
  <2>3. HandlersKnown'
    BY <1>1 DEF redisVars, streamVarsR, loopVars, RedisInv, HandlersKnown
  <2> QED BY <2>1, <2>2, <2>3 DEF RedisInv
<1>2. CASE AddEntry
  BY <1>2, AddEntryKeeps
<1>3. ASSUME NEW p \in Processes,
             Boot(p) \/ StartLoop(p) \/ StartFails(p)
      PROVE  RedisInv'
  BY <1>3, ProcessStartKeeps
<1>6. ASSUME NEW p \in Processes, NEW h \in StreamHandlers, Register(p, h)
      PROVE  RedisInv'
  BY <1>6, RegisterKeeps
<1>4. ASSUME NEW p \in Processes, LoopRuns(p)
      PROVE  RedisInv'
  BY <1>4, ReadBatchKeeps, BeginEntryKeeps, AcknowledgeKeeps, SkipMalformedKeeps,
     StopLoopKeeps, CallHandlerKeeps DEF LoopRuns
<1>5. ASSUME NEW p \in Processes,
             StopLoop(p) \/ Crash(p) \/ AcknowledgeFails(p) \/ ReadFails(p)
      PROVE  RedisInv'
  BY <1>5, StopLoopKeeps, AcknowledgeFailsKeeps, ReadFailsKeeps
<1> QED BY <1>1, <1>2, <1>3, <1>4, <1>5, <1>6 DEF RedisNext

\* The types, and the consistency of batches, handed-out entries and calls.
THEOREM RedisConsistent == RedisSpec => []RedisInv
<1>1. RedisInit => RedisInv BY RedisInitHolds
<1>2. RedisInv /\ [RedisNext]_redisVars => RedisInv' BY RedisStep
<1> QED BY <1>1, <1>2, PTL DEF RedisSpec

\* Whatever crashes, stops and fails, and however many processes share the
\* group, no handler is called twice for an entry of the stream.
THEOREM NothingHandledTwice == RedisSpec => []HandledOnce
<1>1. RedisInv => HandledOnce BY DEF RedisInv
<1> QED BY <1>1, RedisConsistent, PTL

\* An acknowledged entry has been through all its handlers, and no entry a loop
\* let go is acknowledged.
THEOREM AcknowledgedIsHandled == RedisSpec => []AckedWasHandled
<1>1. RedisInv => AckedWasHandled BY DEF RedisInv
<1> QED BY <1>1, RedisConsistent, PTL
-----------------------------------------------------------------------------
(* No entry is lost from sight.                                              *)

\* Whatever the group has handed out is in the batch of a process, acknowledged,
\* or was let go by a fault or as malformed.
EntriesAccounted ==
  \A n \in Entries : n <= handedOut =>
    n \in acked \/ n \in dropped \/ \E p \in Processes : n \in Held(p)

\* Nothing but one process's batch, and what it turns into, is touched.
LEMMA AccountedElse ==
  ASSUME RedisInv, EntriesAccounted, NEW p \in Processes,
         handedOut' = handedOut, acked \subseteq acked', dropped \subseteq dropped',
         \A q \in Processes \ {p} : first'[q] = first[q] /\ last'[q] = last[q],
         \A n \in Held(p) : n \in acked' \/ n \in dropped' \/ n \in Held(p)'
  PROVE  EntriesAccounted'
<1> SUFFICES ASSUME NEW n \in Entries, n <= handedOut, n \notin acked', n \notin dropped'
             PROVE  \E q \in Processes : n \in Held(q)'
  BY DEF EntriesAccounted
<1>1. PICK q \in Processes : n \in Held(q)
  BY DEF EntriesAccounted
<1>2. CASE q = p
  BY <1>1, <1>2
<1>3. CASE q # p
  BY <1>1, <1>3 DEF Held
<1> QED BY <1>2, <1>3

LEMMA AccountedStep ==
  ASSUME RedisInv, EntriesAccounted, [RedisNext]_redisVars
  PROVE  EntriesAccounted'
<1>10. /\ handedOut \in Nat /\ added \in Nat
       /\ first \in [Processes -> Nat] /\ last \in [Processes -> Nat]
  BY RedisAssumption DEF RedisInv, RedisTypeOK
<1>1. ASSUME UNCHANGED <<handedOut, acked, dropped, first, last>>
      PROVE  EntriesAccounted'
  BY <1>1 DEF EntriesAccounted, Held
<1>2. ASSUME AddEntry PROVE UNCHANGED <<handedOut, acked, dropped, first, last>>
  BY <1>2 DEF AddEntry, loopVars
<1>3. ASSUME NEW p \in Processes,
             \/ Boot(p) \/ StartLoop(p) \/ StartFails(p) \/ BeginEntry(p)
             \/ \E h \in StreamHandlers : Register(p, h) \/ CallHandler(p, h)
      PROVE  UNCHANGED <<handedOut, acked, dropped, first, last>>
  BY <1>3 DEF Boot, StartLoop, StartFails, BeginEntry, Register, CallHandler,
              streamVarsR
<1>4. ASSUME NEW p \in Processes, StopLoop(p) \/ Crash(p) \/ AbandonBatch(p)
      PROVE  EntriesAccounted'
  <2>1. handedOut' = handedOut /\ acked' = acked /\ LetGo(p)
    BY <1>4 DEF StopLoop, Crash, AbandonBatch, streamVarsR
  <2>2. dropped' = dropped \cup Held(p)
    BY <2>1 DEF LetGo, LetGoFrom, Held
  <2>3. \A q \in Processes \ {p} : first'[q] = first[q] /\ last'[q] = last[q]
    BY <1>10, <2>1 DEF LetGo, LetGoFrom
  <2> QED BY <2>1, <2>2, <2>3, AccountedElse
<1>5. ASSUME NEW p \in Processes, Acknowledge(p) \/ SkipMalformed(p) PROVE EntriesAccounted'
  <2>1. /\ handedOut' = handedOut /\ last' = last /\ first' = [first EXCEPT ![p] = @ + 1]
        /\ acked \subseteq acked' /\ dropped \subseteq dropped'
        /\ first[p] \in acked' \cup dropped'
    BY <1>5 DEF Acknowledge, SkipMalformed, streamVarsR
  <2>2. first[p] \in Nat /\ last[p] \in Nat /\ first'[p] = first[p] + 1
    BY <1>10, <2>1
  <2>4. \A q \in Processes \ {p} : first'[q] = first[q] /\ last'[q] = last[q]
    BY <1>10, <2>1
  <2>3. \A n \in Held(p) : n = first[p] \/ n \in Held(p)'
    BY <2>1, <2>2 DEF Held
  <2>5. \A n \in Held(p) : n \in acked' \/ n \in dropped' \/ n \in Held(p)'
    BY <2>1, <2>3
  <2> QED BY <2>1, <2>4, <2>5, AccountedElse
<1>6. ASSUME NEW p \in Processes, AcknowledgeFails(p) PROVE EntriesAccounted'
  <2>1. PICK n \in {first[p], first[p] + 1} :
          /\ handedOut' = handedOut /\ LetGoFrom(p, n) /\ acked \subseteq acked'
          /\ n = first[p] \/ first[p] \in acked'
    BY <1>6 DEF AcknowledgeFails, LetGo
  <2>2. /\ dropped' = dropped \cup n .. last[p]
        /\ \A q \in Processes \ {p} : first'[q] = first[q] /\ last'[q] = last[q]
    BY <1>10, <2>1 DEF LetGoFrom
  <2>3. first[p] \in Nat /\ last[p] \in Nat
    BY <1>10
  <2>4. \A m \in Held(p) : m \in acked' \/ m \in n .. last[p]
    BY <2>1, <2>3 DEF Held
  <2> QED BY <2>1, <2>2, <2>4, AccountedElse
<1>7. ASSUME NEW p \in Processes, ReadBatch(p) PROVE EntriesAccounted'
  <2> SUFFICES ASSUME NEW n \in Entries, n <= handedOut', n \notin acked, n \notin dropped
               PROVE  \E q \in Processes : n \in Held(q)'
    BY <1>7 DEF ReadBatch, EntriesAccounted
  <2>1. /\ handedOut \in Nat /\ LastRead \in Nat /\ n \in Nat /\ handedOut' = LastRead
        /\ first'[p] = handedOut + 1 /\ last'[p] = LastRead /\ Held(p) = {}
    BY <1>7, <1>10, RedisAssumption DEF ReadBatch, LastRead, Entries
  <2>2. CASE n <= handedOut
    <3>1. PICK q \in Processes : n \in Held(q) /\ q # p
      BY <2>1, <2>2 DEF EntriesAccounted
    <3> QED BY <1>7, <1>10, <3>1 DEF ReadBatch, Held
  <2>3. CASE ~(n <= handedOut)
    BY <2>1, <2>3 DEF Held
  <2> QED BY <2>2, <2>3
<1>8. ASSUME NEW p \in Processes, ReadFails(p) PROVE EntriesAccounted'
  <2>1. UNCHANGED <<acked, first, last>>
    BY <1>8 DEF ReadFails, loopVars
  <2>2. CASE UNCHANGED <<handedOut, dropped>>
    BY <1>1, <2>1, <2>2
  <2>3. CASE /\ handedOut' = LastRead
             /\ dropped' = dropped \cup (handedOut + 1) .. LastRead
    <3>1. handedOut \in Nat /\ LastRead \in Nat
      BY <1>10, RedisAssumption DEF LastRead
    <3> QED BY <2>1, <2>3, <3>1 DEF EntriesAccounted, Held, Entries
  <2> QED BY <1>8, <2>2, <2>3 DEF ReadFails
<1>9. ASSUME UNCHANGED redisVars PROVE UNCHANGED <<handedOut, acked, dropped, first, last>>
  BY <1>9 DEF redisVars, streamVarsR, loopVars
<1> QED BY <1>1, <1>2, <1>3, <1>4, <1>5, <1>6, <1>7, <1>8, <1>9 DEF RedisNext, LoopRuns

\* However the processes crash, stop and fail, every entry the group has handed
\* out can be told from the pending entries: worked on, let go or acknowledged.
THEOREM EntriesAccountedHolds == RedisSpec => []EntriesAccounted
<1>1. RedisInit => RedisInv /\ EntriesAccounted
  <2>1. RedisInit => EntriesAccounted
    BY DEF RedisInit, EntriesAccounted, Entries
  <2> QED BY <2>1, RedisInitHolds
<1>2. RedisInv /\ EntriesAccounted /\ [RedisNext]_redisVars => RedisInv' /\ EntriesAccounted'
  BY RedisStep, AccountedStep
<1> QED BY <1>1, <1>2, PTL DEF RedisSpec
-----------------------------------------------------------------------------
(* The Redis event bus keeps what EntryDelivery promises of an entry.        *)

\* The entry a process has begun is begun by it alone, and nobody else has
\* handlers to call for it.
LEMMA BegunAlone ==
  ASSUME RedisInv, NEW p \in Processes, begun[p]
  PROVE  /\ first[p] \in Entries /\ BegunBy(first[p]) = {p}
         /\ Fate[first[p]] = "begun" /\ Due[first[p]] = todo[p]
<1>1. first[p] \in Held(p) /\ first[p] \in Entries
  BY HeldFacts DEF RedisInv, EntryInHand
<1>2. first[p] \notin acked /\ first[p] \notin dropped /\ first[p] <= handedOut
  BY <1>1, HeldFacts
<1>3. \A q \in Processes : begun[q] /\ first[q] = first[p] => q = p
  BY <1>1 DEF RedisInv, EntryInHand, BatchesApart
<1>4. BegunBy(first[p]) = {p}
  BY <1>3 DEF BegunBy
<1>5. first[p] \in Nat /\ handedOut \in Nat
  BY DEF RedisInv, RedisTypeOK
<1>6. Fate[first[p]] = "begun"
  BY <1>1, <1>2, <1>4, <1>5 DEF Fate
<1>7. Due[first[p]] = UNION {todo[q] : q \in {p}}
  BY <1>1, <1>4, Zenon DEF Due
<1> QED BY <1>1, <1>4, <1>6, <1>7

\* An entry a process holds is taken or begun.
LEMMA HeldFate ==
  ASSUME RedisInv, NEW p \in Processes, NEW n \in Held(p)
  PROVE  n \in Entries /\ Fate[n] \in {"taken", "begun"} /\ BegunBy(n) \subseteq {p}
<1>1. n \in Entries /\ n \notin acked /\ n \notin dropped /\ n <= handedOut
  BY HeldFacts
<1>2. n \in Nat /\ handedOut \in Nat
  BY <1>1 DEF RedisInv, RedisTypeOK, Entries
<1>3. BegunBy(n) \subseteq {p}
  BY <1>1 DEF BegunBy, RedisInv, EntryInHand, BatchesApart
<1> QED BY <1>1, <1>2, <1>3 DEF Fate

\* Fates and handlers due are functions on the entries, before and after a step.
LEMMA FateShape ==
  /\ Fate = [n \in Entries |-> Fate[n]] /\ Fate' = [n \in Entries |-> Fate'[n]]
  /\ Due = [n \in Entries |-> Due[n]] /\ Due' = [n \in Entries |-> Due'[n]]
BY DEF Fate, Due

\* A step that leaves the processing of every entry where it is.
LEMMA BegunSame ==
  ASSUME \A q \in Processes :
           /\ begun'[q] <=> begun[q]
           /\ begun[q] => first'[q] = first[q]
           /\ todo'[q] = todo[q]
  PROVE  (\A n \in Entries : BegunBy(n)' = BegunBy(n)) /\ Due' = Due
<1>1. \A n \in Entries : BegunBy(n)' = BegunBy(n)
  BY DEF BegunBy
<1>2. ASSUME NEW n \in Entries PROVE Due'[n] = Due[n]
  <2>1. Due'[n] = UNION {todo'[q] : q \in BegunBy(n)}
    BY <1>1, Zenon DEF Due
  <2>2. Due[n] = UNION {todo[q] : q \in BegunBy(n)}
    BY Zenon DEF Due
  <2>3. BegunBy(n) \subseteq Processes
    BY DEF BegunBy
  <2> QED BY <2>1, <2>2, <2>3
<1>3. Due' = Due
  BY <1>2, FateShape, Zenon
<1> QED BY <1>1, <1>3

LEMMA FateSame ==
  ASSUME UNCHANGED <<handedOut, acked, dropped>>,
         \A n \in Entries : BegunBy(n)' = BegunBy(n)
  PROVE  Fate' = Fate
<1>1. ASSUME NEW n \in Entries PROVE Fate'[n] = Fate[n]
  <2>1. BegunBy(n)' = BegunBy(n)
    OBVIOUS
  <2> QED BY <2>1 DEF Fate
<1> QED BY <1>1, FateShape, Zenon

\* The group hands out the entries up to LastRead, to a batch or into a failed call.
LEMMA TakeRefines ==
  ASSUME RedisInv, NEW as \in {"taken", "dropped"},
         handedOut < added, handedOut' = LastRead,
         UNCHANGED <<acked, todo, begun, calls>>,
         \A q \in Processes : begun[q] => first'[q] = first[q],
         dropped' = dropped \cup (IF as = "dropped" THEN (handedOut + 1)..LastRead ELSE {})
  PROVE  Delivery!Take((handedOut + 1)..LastRead, as) /\ (handedOut + 1)..LastRead \subseteq Entries
<1> DEFINE S == (handedOut + 1)..LastRead
<1>1. /\ handedOut \in Nat /\ LastRead \in Nat /\ handedOut < LastRead
      /\ \A n \in S : n \in Entries /\ n > handedOut
  BY LastReadFacts DEF RedisInv, RedisTypeOK
<1>2. \A n \in Entries : n \in Nat
  BY DEF Entries
<1>3. \A n \in Entries : n \in acked \/ n \in dropped \/ BegunBy(n) # {} => n <= handedOut
  BY HeldFacts DEF RedisInv, SettledApart, EntryInHand, BegunBy
<1>4. \A n \in Entries : Fate[n] = "unread" <=> n > handedOut
  BY <1>1, <1>2, <1>3 DEF Fate
<1>5. (\A n \in Entries : BegunBy(n)' = BegunBy(n)) /\ Due' = Due
  BY BegunSame
<1>6. ASSUME NEW n \in Entries PROVE Fate'[n] = IF n \in S THEN as ELSE Fate[n]
  <2>1. BegunBy(n)' = BegunBy(n) /\ n \in Nat
    BY <1>2, <1>5
  <2>2. CASE n \in S
    <3>1. n > handedOut /\ ~(n > LastRead) /\ n \notin acked /\ n \notin dropped /\ BegunBy(n) = {}
      BY <1>1, <1>3, <2>1, <2>2
    <3> QED BY <2>1, <2>2, <3>1 DEF Fate
  <2>3. CASE n \notin S
    <3>1. n > LastRead <=> n > handedOut
      BY <1>1, <2>1, <2>3
    <3>2. n \in dropped' <=> n \in dropped
      BY <2>3
    <3> QED BY <2>1, <2>3, <3>1, <3>2 DEF Fate
  <2> QED BY <2>2, <2>3
<1>7. Fate' = [n \in Entries |-> IF n \in S THEN as ELSE Fate[n]]
  BY <1>6, FateShape, Zenon
<1>8. \A n \in S : Fate[n] = "unread"
  BY <1>1, <1>4
<1>9. \A n \in S, m \in Entries : m < n => m \in S \/ Fate[m] # "unread"
  BY <1>1, <1>2, <1>4
<1> QED BY <1>1, <1>5, <1>7, <1>8, <1>9, Zenon DEF Delivery!Take

LEMMA BeginRefines ==
  ASSUME RedisInv, NEW p \in Processes, BeginEntry(p)
  PROVE  \E n \in Entries, hs \in SUBSET StreamHandlers : Delivery!Begin(n, hs)
<1> DEFINE e == first[p]
<1>1. /\ Held(p) # {} /\ ~begun[p]
      /\ begun' = [begun EXCEPT ![p] = TRUE]
      /\ todo' = [todo EXCEPT ![p] = registered[p] \cap Wanted[e]]
      /\ UNCHANGED <<handedOut, acked, first, calls, dropped>>
  BY DEF BeginEntry, streamVarsR
<1>2. e \in Held(p) /\ e \in Entries /\ e \notin acked /\ e \notin dropped /\ e <= handedOut
  BY <1>1, HeldFacts
<1>3. /\ begun'[p] = TRUE /\ todo'[p] \subseteq StreamHandlers
      /\ \A q \in Processes \ {p} : begun'[q] = begun[q] /\ todo'[q] = todo[q]
      /\ e \in Nat /\ handedOut \in Nat
  BY <1>1 DEF RedisInv, RedisTypeOK
<1>4. BegunBy(e) = {} /\ Fate[e] = "taken"
  <2>1. BegunBy(e) \subseteq {p} /\ Fate[e] \in {"taken", "begun"}
    BY <1>2, HeldFate
  <2>2. BegunBy(e) = {}
    BY <1>1, <2>1 DEF BegunBy
  <2> QED BY <1>2, <2>1, <2>2 DEF Fate
<1>5. \A n \in Entries : n = e => BegunBy(n)' = {p}
  <2>1. \A q \in Processes : begun'[q] /\ first'[q] = e => q = p
    BY <1>1, <1>3, <1>4 DEF BegunBy
  <2> QED BY <1>1, <1>3, <2>1 DEF BegunBy
<1>6. \A n \in Entries \ {e} : BegunBy(n)' = BegunBy(n) /\ p \notin BegunBy(n)
  BY <1>1, <1>3 DEF BegunBy
<1>7. ASSUME NEW n \in Entries
      PROVE  /\ Fate'[n] = [Fate EXCEPT ![e] = "begun"][n]
             /\ Due'[n] = [Due EXCEPT ![e] = todo'[p]][n]
  <2>1. CASE n = e
    <3>1. Fate'[n] = "begun"
      BY <1>1, <1>2, <1>3, <1>5, <2>1 DEF Fate
    <3>4. BegunBy(n)' = {p}
      BY <1>5, <2>1
    <3>2. Due'[n] = UNION {todo'[q] : q \in {p}}
      BY <3>4, Zenon DEF Due
    <3>3. Fate = [m \in Entries |-> Fate[m]] /\ Due = [m \in Entries |-> Due[m]]
      BY FateShape
    <3> QED BY <2>1, <3>1, <3>2, <3>3
  <2>2. CASE n # e
    <3>1. BegunBy(n)' = BegunBy(n) /\ p \notin BegunBy(n) /\ BegunBy(n) \subseteq Processes
      BY <1>6, <2>2 DEF BegunBy
    <3>2. Fate'[n] = Fate[n]
      BY <1>1, <3>1 DEF Fate
    <3>3. Due'[n] = UNION {todo'[q] : q \in BegunBy(n)}
      BY <3>1, Zenon DEF Due
    <3>4. Due[n] = UNION {todo[q] : q \in BegunBy(n)}
      BY Zenon DEF Due
    <3>5. Due'[n] = Due[n]
      BY <1>3, <3>1, <3>3, <3>4
    <3>6. Fate = [m \in Entries |-> Fate[m]] /\ Due = [m \in Entries |-> Due[m]]
      BY FateShape
    <3> QED BY <2>2, <3>2, <3>5, <3>6
  <2> QED BY <2>1, <2>2
<1>8. Fate' = [Fate EXCEPT ![e] = "begun"] /\ Due' = [Due EXCEPT ![e] = todo'[p]]
  <2>1. /\ [Fate EXCEPT ![e] = "begun"] = [n \in Entries |-> [Fate EXCEPT ![e] = "begun"][n]]
        /\ [Due EXCEPT ![e] = todo'[p]] = [n \in Entries |-> [Due EXCEPT ![e] = todo'[p]][n]]
    BY DEF Fate, Due
  <2> QED BY <1>7, <2>1, FateShape, Zenon
<1>9. Delivery!Begin(e, todo'[p])
  BY <1>1, <1>4, <1>8 DEF Delivery!Begin
<1> QED BY <1>2, <1>3, <1>9

LEMMA CallRefines ==
  ASSUME RedisInv, NEW p \in Processes, NEW h \in StreamHandlers, CallHandler(p, h)
  PROVE  Delivery!Call(first[p], h) /\ first[p] \in Entries
<1> DEFINE e == first[p]
<1>1. /\ h \in todo[p]
      /\ calls' = [calls EXCEPT ![e][h] = @ + 1]
      /\ todo' = [todo EXCEPT ![p] = @ \ {h}]
      /\ UNCHANGED <<handedOut, acked, first, begun, dropped>>
  BY DEF CallHandler, streamVarsR
<1>2. begun[p]
  BY <1>1 DEF RedisInv, EntryInHand
<1>3. e \in Entries /\ BegunBy(e) = {p} /\ Fate[e] = "begun" /\ Due[e] = todo[p]
  BY <1>2, BegunAlone
<1>4. \A n \in Entries : BegunBy(n)' = BegunBy(n)
  BY <1>1 DEF BegunBy
<1>5. Fate' = Fate
  BY <1>1, <1>4, FateSame
<1>6. todo'[p] = todo[p] \ {h} /\ \A q \in Processes \ {p} : todo'[q] = todo[q]
  BY <1>1 DEF RedisInv, RedisTypeOK
<1>7. ASSUME NEW n \in Entries PROVE Due'[n] = [Due EXCEPT ![e] = @ \ {h}][n]
  <2>1. Due = [m \in Entries |-> Due[m]]
    BY FateShape
  <2>2. CASE n = e
    <3>1. BegunBy(n)' = {p}
      BY <1>3, <1>4, <2>2
    <3>2. Due'[n] = UNION {todo'[q] : q \in {p}}
      BY <3>1, Zenon DEF Due
    <3> QED BY <1>3, <1>6, <2>1, <2>2, <3>2
  <2>3. CASE n # e
    <3>1. BegunBy(n)' = BegunBy(n) /\ p \notin BegunBy(n) /\ BegunBy(n) \subseteq Processes
      BY <1>4, <2>3 DEF BegunBy
    <3>2. Due'[n] = UNION {todo'[q] : q \in BegunBy(n)}
      BY <3>1, Zenon DEF Due
    <3>3. Due[n] = UNION {todo[q] : q \in BegunBy(n)}
      BY Zenon DEF Due
    <3>4. Due'[n] = Due[n]
      BY <1>6, <3>1, <3>2, <3>3
    <3> QED BY <2>1, <2>3, <3>4
  <2> QED BY <2>2, <2>3
<1>8. Due' = [Due EXCEPT ![e] = @ \ {h}]
  <2>1. [Due EXCEPT ![e] = @ \ {h}] = [n \in Entries |-> [Due EXCEPT ![e] = @ \ {h}][n]]
    BY DEF Due
  <2> QED BY <1>7, <2>1, FateShape, Zenon
<1> QED BY <1>1, <1>3, <1>5, <1>8 DEF Delivery!Call

\* The end of the processing of an entry, acknowledged (A) or let go with what is
\* left of the batch (D).
LEMMA SettleRefines ==
  ASSUME RedisInv, NEW p \in Processes, NEW A \in SUBSET {first[p]}, NEW D \in SUBSET Held(p),
         UNCHANGED <<handedOut, calls>>,
         acked' = acked \cup A, dropped' = dropped \cup D,
         \A q \in Processes \ {p} :
           first'[q] = first[q] /\ todo'[q] = todo[q] /\ begun'[q] = begun[q],
         begun'[p] = FALSE,
         A # {} => begun[p] /\ todo[p] = {},
         first[p] \in A => first[p] \notin D,
         begun[p] => first[p] \in A \cup D
  PROVE  Delivery!Settle(A, D) /\ A \subseteq Entries /\ D \subseteq Entries
<1>1. \A n \in A : n \in Entries /\ Fate[n] = "begun" /\ Due[n] = {} /\ n = first[p]
                   /\ n \notin D
  BY BegunAlone
<1>2. \A n \in D : n \in Entries /\ Fate[n] \in {"taken", "begun"} /\ BegunBy(n) \subseteq {p}
  BY HeldFate
<1>3. \A n \in Entries : BegunBy(n)' = BegunBy(n) \ {p}
  BY DEF BegunBy
<1>4. \A n \in Entries : p \in BegunBy(n) => n \in A \cup D
  BY DEF BegunBy
<1>5. ASSUME NEW n \in Entries
      PROVE  /\ Fate'[n] = IF n \in A THEN "acked" ELSE IF n \in D THEN "dropped" ELSE Fate[n]
             /\ Due'[n] = IF n \in D THEN {} ELSE Due[n]
  <2>0. /\ Due'[n] = UNION {todo'[q] : q \in BegunBy(n)'}
        /\ Due[n] = UNION {todo[q] : q \in BegunBy(n)}
    BY Zenon DEF Due
  <2>1. CASE n \in A
    <3>1. n \in acked' /\ begun[p]
      BY <2>1
    <3>2. BegunBy(n)' = {}
      BY <1>1, <1>3, <2>1, <3>1, BegunAlone
    <3>3. Fate'[n] = "acked"
      BY <3>1 DEF Fate
    <3>4. Due'[n] = {}
      BY <2>0, <3>2
    <3> QED BY <1>1, <2>1, <3>3, <3>4
  <2>2. CASE n \in D
    <3>1. n \notin A /\ n \notin acked
      BY <1>1, <2>2, HeldFacts
    <3>2. n \notin acked' /\ n \in dropped'
      BY <2>2, <3>1
    <3>3. Fate'[n] = "dropped"
      BY <3>2 DEF Fate
    <3>4. BegunBy(n)' = {}
      BY <1>2, <1>3, <2>2
    <3>5. Due'[n] = {}
      BY <2>0, <3>4
    <3> QED BY <2>2, <3>1, <3>3, <3>5
  <2>3. CASE n \notin A /\ n \notin D
    <3>1. BegunBy(n)' = BegunBy(n) /\ BegunBy(n) \subseteq Processes \ {p}
      BY <1>3, <1>4, <2>3 DEF BegunBy
    <3>2. (n \in acked' <=> n \in acked) /\ (n \in dropped' <=> n \in dropped)
      BY <2>3
    <3>3. Fate'[n] = Fate[n]
      BY <3>1, <3>2 DEF Fate
    <3>4. Due'[n] = UNION {todo'[q] : q \in BegunBy(n)}
      BY <2>0, <3>1, Zenon
    <3>5. Due'[n] = Due[n]
      BY <2>0, <3>1, <3>4
    <3> QED BY <2>3, <3>3, <3>5
  <2> QED BY <2>1, <2>2, <2>3
<1>6. Fate' = [n \in Entries |-> IF n \in A THEN "acked"
                                ELSE IF n \in D THEN "dropped" ELSE Fate[n]]
  BY <1>5, FateShape
<1>7. Due' = [n \in Entries |-> IF n \in D THEN {} ELSE Due[n]]
  BY <1>5, FateShape, Zenon
<1> QED BY <1>1, <1>2, <1>6, <1>7, Zenon DEF Delivery!Settle

LEMMA LeaveRefines ==
  ASSUME RedisInv, NEW p \in Processes,
         \/ StopLoop(p) \/ Crash(p) \/ AbandonBatch(p)
         \/ Acknowledge(p) \/ AcknowledgeFails(p) \/ SkipMalformed(p)
  PROVE  \E A, D \in SUBSET Entries : Delivery!Settle(A, D)
<1>1. /\ first \in [Processes -> Nat] /\ last \in [Processes -> Nat]
      /\ todo \in [Processes -> SUBSET StreamHandlers] /\ begun \in [Processes -> BOOLEAN]
  BY RedisAssumption DEF RedisInv, RedisTypeOK
<1>2. begun[p] => first[p] \in Held(p)
  BY DEF RedisInv, EntryInHand
<1>3. ASSUME NEW A \in SUBSET {first[p]}, NEW D \in SUBSET Held(p), Delivery!Settle(A, D),
             A # {} => begun[p]
      PROVE  \E B, C \in SUBSET Entries : Delivery!Settle(B, C)
  <2>1. A \subseteq Entries /\ D \subseteq Entries
    BY <1>2, <1>3, HeldFacts
  <2> QED BY <1>3, <2>1
<1>4. ASSUME StopLoop(p) \/ Crash(p) \/ AbandonBatch(p)
      PROVE  \E A, D \in SUBSET Entries : Delivery!Settle(A, D)
  <2>1. LetGoFrom(p, first[p]) /\ UNCHANGED <<handedOut, calls, acked>>
    BY <1>4 DEF StopLoop, Crash, AbandonBatch, LetGo, streamVarsR
  <2>2. /\ acked' = acked \cup {} /\ dropped' = dropped \cup Held(p)
        /\ begun'[p] = FALSE
        /\ \A q \in Processes \ {p} :
             first'[q] = first[q] /\ todo'[q] = todo[q] /\ begun'[q] = begun[q]
    BY <1>1, <2>1 DEF LetGoFrom, Held
  <2>3. Delivery!Settle({}, Held(p))
    BY <1>2, <2>1, <2>2, SettleRefines
  <2> QED BY <1>3, <2>3
<1>5. ASSUME AcknowledgeFails(p)
      PROVE  \E A, D \in SUBSET Entries : Delivery!Settle(A, D)
  <2>1. begun[p] /\ todo[p] = {} /\ UNCHANGED <<handedOut, calls>>
    BY <1>5 DEF AcknowledgeFails
  <2>2. CASE LetGo(p) /\ UNCHANGED acked
    <3>1. /\ acked' = acked \cup {} /\ dropped' = dropped \cup Held(p)
          /\ begun'[p] = FALSE
          /\ \A q \in Processes \ {p} :
               first'[q] = first[q] /\ todo'[q] = todo[q] /\ begun'[q] = begun[q]
      BY <1>1, <2>2 DEF LetGo, LetGoFrom, Held
    <3>2. Delivery!Settle({}, Held(p))
      BY <1>2, <2>1, <3>1, SettleRefines
    <3> QED BY <1>3, <3>2
  <2>3. CASE LetGoFrom(p, first[p] + 1) /\ acked' = acked \cup {first[p]}
    <3> DEFINE D == (first[p] + 1)..last[p]
    <3>1. D \subseteq Held(p) /\ first[p] \notin D
      BY <1>1 DEF Held
    <3>2. /\ dropped' = dropped \cup D /\ begun'[p] = FALSE
          /\ \A q \in Processes \ {p} :
               first'[q] = first[q] /\ todo'[q] = todo[q] /\ begun'[q] = begun[q]
      BY <1>1, <2>3 DEF LetGoFrom
    <3> HIDE DEF D
    <3>3. Delivery!Settle({first[p]}, D)
      BY <2>1, <2>3, <3>1, <3>2, SettleRefines
    <3> QED BY <1>3, <2>1, <3>1, <3>3
  <2> QED BY <1>5, <2>2, <2>3 DEF AcknowledgeFails
<1>6. ASSUME Acknowledge(p)
      PROVE  \E A, D \in SUBSET Entries : Delivery!Settle(A, D)
  <2>1. /\ begun[p] /\ todo[p] = {} /\ UNCHANGED <<handedOut, calls>>
        /\ acked' = acked \cup {first[p]} /\ dropped' = dropped \cup {}
        /\ first' = [first EXCEPT ![p] = @ + 1]
        /\ begun' = [begun EXCEPT ![p] = FALSE] /\ todo' = todo
    BY <1>6 DEF Acknowledge
  <2>2. /\ begun'[p] = FALSE
        /\ \A q \in Processes \ {p} :
             first'[q] = first[q] /\ todo'[q] = todo[q] /\ begun'[q] = begun[q]
    BY <1>1, <2>1
  <2>3. Delivery!Settle({first[p]}, {})
    BY <2>1, <2>2, SettleRefines
  <2> QED BY <1>3, <2>1, <2>3
<1>7. ASSUME SkipMalformed(p)
      PROVE  \E A, D \in SUBSET Entries : Delivery!Settle(A, D)
  <2>1. /\ UNCHANGED <<handedOut, calls, todo, begun>> /\ Held(p) # {}
        /\ first[p] \in Malformed
        /\ acked' = acked \cup {} /\ dropped' = dropped \cup {first[p]}
        /\ first' = [first EXCEPT ![p] = @ + 1]
    BY <1>7 DEF SkipMalformed, streamVarsR
  <2>2. ~begun[p] /\ first[p] \in Held(p)
    BY <2>1, HeldFacts DEF RedisInv, EntryInHand
  <2>3. /\ begun'[p] = FALSE /\ {first[p]} \subseteq Held(p)
        /\ \A q \in Processes \ {p} :
             first'[q] = first[q] /\ todo'[q] = todo[q] /\ begun'[q] = begun[q]
    BY <1>1, <2>1, <2>2
  <2>4. Delivery!Settle({}, {first[p]})
    BY <2>1, <2>2, <2>3, SettleRefines
  <2> QED BY <1>3, <2>3, <2>4
<1> QED BY <1>4, <1>5, <1>6, <1>7

\* A step that begins and ends no entry shows nothing.
LEMMA FateKept ==
  ASSUME RedisInv, UNCHANGED <<handedOut, acked, first, todo, begun, calls, dropped>>
  PROVE  UNCHANGED Delivery!vars
<1>1. (\A n \in Entries : BegunBy(n)' = BegunBy(n)) /\ Due' = Due
  BY BegunSame
<1>2. Fate' = Fate
  BY <1>1, FateSame
<1> QED BY <1>1, <1>2 DEF Delivery!vars

\* A handler that is registered joins the entry in hand, or nothing shows.
LEMMA RegisterRefines ==
  ASSUME RedisInv, NEW p \in Processes, NEW h \in StreamHandlers, Register(p, h)
  PROVE  \/ UNCHANGED Delivery!vars
         \/ \E n \in Entries : Delivery!Join(n, h)
<1> DEFINE e == first[p]
<1>1. UNCHANGED <<handedOut, acked, first, begun, calls, dropped>> /\ h \notin registered[p]
  BY DEF Register, streamVarsR
<1>2. CASE UNCHANGED <<todo, expected>>
  BY <1>1, <1>2, FateKept
<1>3. CASE begun[p] /\ todo' = [todo EXCEPT ![p] = @ \cup {h}]
  <2>1. e \in Entries /\ BegunBy(e) = {p} /\ Fate[e] = "begun" /\ Due[e] = todo[p]
    BY <1>3, BegunAlone
  <2>2. h \notin todo[p] /\ calls[e][h] = 0
    BY <1>1, <1>3 DEF RedisInv, EntryInHand, HandlersKnown
  <2>3. \A n \in Entries : BegunBy(n)' = BegunBy(n)
    BY <1>1 DEF BegunBy
  <2>4. Fate' = Fate
    BY <1>1, <2>3, FateSame
  <2>5. todo'[p] = todo[p] \cup {h} /\ \A q \in Processes \ {p} : todo'[q] = todo[q]
    BY <1>3 DEF RedisInv, RedisTypeOK
  <2>6. ASSUME NEW n \in Entries PROVE Due'[n] = [Due EXCEPT ![e] = @ \cup {h}][n]
    <3>1. Due = [m \in Entries |-> Due[m]]
      BY FateShape
    <3>2. CASE n = e
      <4>1. BegunBy(n)' = {p}
        BY <2>1, <2>3, <3>2
      <4>2. Due'[n] = UNION {todo'[q] : q \in {p}}
        BY <4>1, Zenon DEF Due
      <4> QED BY <2>1, <2>5, <3>1, <3>2, <4>2
    <3>3. CASE n # e
      <4>1. BegunBy(n)' = BegunBy(n) /\ p \notin BegunBy(n) /\ BegunBy(n) \subseteq Processes
        BY <2>3, <3>3 DEF BegunBy
      <4>2. Due'[n] = UNION {todo'[q] : q \in BegunBy(n)}
        BY <4>1, Zenon DEF Due
      <4>3. Due[n] = UNION {todo[q] : q \in BegunBy(n)}
        BY Zenon DEF Due
      <4>4. Due'[n] = Due[n]
        BY <2>5, <4>1, <4>2, <4>3
      <4> QED BY <3>1, <3>3, <4>4
    <3> QED BY <3>2, <3>3
  <2>7. Due' = [Due EXCEPT ![e] = @ \cup {h}]
    <3>1. [Due EXCEPT ![e] = @ \cup {h}] = [n \in Entries |-> [Due EXCEPT ![e] = @ \cup {h}][n]]
      BY DEF Due
    <3> QED BY <2>6, <3>1, FateShape, Zenon
  <2>8. Delivery!Join(e, h)
    BY <1>1, <2>1, <2>2, <2>4, <2>7 DEF Delivery!Join
  <2> QED BY <2>1, <2>8
<1> QED BY <1>2, <1>3 DEF Register

LEMMA DeliveryStep ==
  ASSUME RedisInv, [RedisNext]_redisVars
  PROVE  [Delivery!Next]_(Delivery!vars)
<1>1. ASSUME NEW p \in Processes, ReadBatch(p) PROVE Delivery!Next
  <2>1. /\ handedOut < added /\ handedOut' = LastRead /\ Held(p) = {}
        /\ first' = [first EXCEPT ![p] = handedOut + 1]
        /\ UNCHANGED <<acked, todo, begun, calls, dropped>>
    BY <1>1 DEF ReadBatch
  <2>2. ~begun[p]
    BY <2>1 DEF RedisInv, EntryInHand
  <2>3. \A q \in Processes : begun[q] => first'[q] = first[q]
    BY <2>1, <2>2 DEF RedisInv, RedisTypeOK
  <2>4. dropped' = dropped \cup (IF "taken" = "dropped" THEN (handedOut + 1)..LastRead ELSE {})
    BY <2>1
  <2>5. Delivery!Take((handedOut + 1)..LastRead, "taken") /\ (handedOut + 1)..LastRead \subseteq Entries
    BY <2>1, <2>3, <2>4, TakeRefines
  <2> QED BY <2>5 DEF Delivery!Next
<1>2. ASSUME NEW p \in Processes, ReadFails(p) PROVE Delivery!Next \/ UNCHANGED Delivery!vars
  <2>1. UNCHANGED <<acked, first, todo, begun, calls>>
    BY <1>2 DEF ReadFails, loopVars
  <2>2. CASE UNCHANGED <<handedOut, dropped>>
    BY <2>1, <2>2, FateKept
  <2>3. CASE /\ handedOut < added /\ handedOut' = LastRead
             /\ dropped' = dropped \cup (handedOut + 1)..LastRead
    <3>1. dropped' = dropped \cup (IF "dropped" = "dropped" THEN (handedOut + 1)..LastRead ELSE {})
      BY <2>3
    <3>2. Delivery!Take((handedOut + 1)..LastRead, "dropped")
          /\ (handedOut + 1)..LastRead \subseteq Entries
      BY <2>1, <2>3, <3>1, TakeRefines
    <3> QED BY <3>2 DEF Delivery!Next
  <2> QED BY <1>2, <2>2, <2>3 DEF ReadFails
<1>3. ASSUME NEW p \in Processes, BeginEntry(p) PROVE Delivery!Next
  BY <1>3, BeginRefines, Zenon DEF Delivery!Next
<1>4. ASSUME NEW p \in Processes, NEW h \in StreamHandlers, CallHandler(p, h)
      PROVE  Delivery!Next
  BY <1>4, CallRefines, Zenon DEF Delivery!Next
<1>5. ASSUME NEW p \in Processes,
             \/ StopLoop(p) \/ Crash(p) \/ AbandonBatch(p)
             \/ Acknowledge(p) \/ AcknowledgeFails(p) \/ SkipMalformed(p)
      PROVE  Delivery!Next
  BY <1>5, LeaveRefines, Zenon DEF Delivery!Next
<1>6. ASSUME NEW p \in Processes,
             Boot(p) \/ StartLoop(p) \/ StartFails(p)
      PROVE  UNCHANGED Delivery!vars
  <2>1. UNCHANGED <<handedOut, acked, first, todo, begun, calls, dropped>>
    BY <1>6 DEF Boot, StartLoop, StartFails, streamVarsR
  <2> QED BY <2>1, FateKept
<1>7. ASSUME AddEntry \/ UNCHANGED redisVars PROVE UNCHANGED Delivery!vars
  <2>1. UNCHANGED <<handedOut, acked, first, todo, begun, calls, dropped>>
    BY <1>7 DEF AddEntry, redisVars, streamVarsR, loopVars
  <2> QED BY <2>1, FateKept
<1>8. ASSUME NEW p \in Processes, NEW h \in StreamHandlers, Register(p, h)
      PROVE  [Delivery!Next]_(Delivery!vars)
  BY <1>8, RegisterRefines, Zenon DEF Delivery!Next
<1> QED BY <1>1, <1>2, <1>3, <1>4, <1>5, <1>6, <1>7, <1>8 DEF RedisNext, LoopRuns

LEMMA DeliveryStart == RedisInit => Delivery!Init
<1> SUFFICES ASSUME RedisInit PROVE Delivery!Init
  OBVIOUS
<1>1. ASSUME NEW n \in Entries PROVE Fate[n] = "unread" /\ Due[n] = {}
  <2>1. /\ n \notin acked /\ n \notin dropped /\ n > handedOut
        /\ \A p \in Processes : ~begun[p]
    BY DEF RedisInit, Entries
  <2>2. BegunBy(n) = {}
    BY <2>1 DEF BegunBy
  <2> QED BY <2>1, <2>2 DEF Fate, Due
<1>2. Fate = [n \in Entries |-> "unread"] /\ Due = [n \in Entries |-> {}]
  BY <1>1, FateShape, Zenon
<1> QED BY <1>2 DEF RedisInit, Delivery!Init

\* Crashes, stops and errors of Redis at any await, any number of processes and
\* any sharing of the batches included, an entry goes through the fates
\* EntryDelivery allows and no other: it is taken once and in order, each of its
\* handlers, those that join while it is handled included, is called once, and
\* XACK comes after all of them.
THEOREM DeliveryIsKept == RedisSpec => DeliveryKept
<1>1. RedisInit => Delivery!Init
  BY DeliveryStart
<1>2. RedisInv /\ [RedisNext]_redisVars => [Delivery!Next]_(Delivery!vars)
  BY DeliveryStep
<1> QED BY <1>1, <1>2, RedisConsistent, PTL DEF RedisSpec, DeliveryKept, Delivery!Spec

-----------------------------------------------------------------------------
(* The model that is checked, where one of the buses moves.                  *)

\* What MCEvents explores are behaviours of both buses: what is proved of them
\* holds there, and a bus that rests does nothing its code would not do.
THEOREM EventPartsKept == MCSpec => StreamSpec /\ RedisSpec
<1>1. MCInit => StreamStart /\ RedisInit
  <2>1. {} \in SUBSET Events /\ {e1, e2, e3} \in SUBSET Events /\ {e1, e2} \in SUBSET Events
        /\ {e3} \in SUBSET Events
    BY MCAssumption
  <2>2. {} \in SUBSET Subscriptions /\ {WaiterSub} \in SUBSET Subscriptions
        /\ {WaiterSub, LoggerSub} \in SUBSET Subscriptions
        /\ {ClientSub} \in SUBSET Subscriptions
    BY MCAssumption DEF MCSubscriptions
  <2>3. TRUE \in BOOLEAN /\ FALSE \in BOOLEAN
    OBVIOUS
  <2> QED BY <2>1, <2>2, <2>3, Zenon DEF MCInit, StreamStart
<1>2. [MCNext]_mcVars => [StreamNext]_allVars /\ [RedisNext]_redisVars
  BY DEF MCNext, mcVars
<1> QED BY <1>1, <1>2, PTL DEF MCSpec, StreamSpec, RedisSpec

\* Every variable of the model keeps its type.
THEOREM EventTypes == MCSpec => []EventsTypeOK
<1>1. RedisInv => RedisTypeOK
  BY DEF RedisInv
<1> QED BY <1>1, EventPartsKept, StreamTypes, RedisConsistent, PTL DEF EventsTypeOK
=============================================================================

------------------------- MODULE StudioEventsProofs -------------------------
(***************************************************************************)
(* Proofs about StudioEvents for any number of streams, events and ticks,  *)
(* and any page size and memory of a stream that PerTick stays below.      *)
(* The argument: the rows of an answer are not behind the cursor and what  *)
(* was sent is not ahead of it, so a row that was sent already has the     *)
(* cursor's own stamp; those rows are the last ones sent, fewer than the   *)
(* stream remembers, and are all remembered.                               *)
(***************************************************************************)
EXTENDS StudioEvents, FiniteSetTheorems, TLAPS

LEMMA EventType ==
  ASSUME TypeOK
  PROVE  /\ Event = 1..Len(created) /\ Len(created) \in Nat
         /\ \A e \in Event : created[e] \in Nat
         /\ IsFiniteSet(Event)
         /\ \A t : IsFiniteSet(Ties(t))
<1>1. Event = 1..Len(created) /\ Len(created) \in Nat /\ \A e \in Event : created[e] \in Nat
  BY DEF TypeOK, Event
<1>2. IsFiniteSet(Event)
  BY <1>1, FS_Interval
<1>3. \A t : Ties(t) \in SUBSET Event
  BY DEF Ties
<1>4. \A t : IsFiniteSet(Ties(t))
  BY <1>2, <1>3, FS_Subset
<1> QED
  BY <1>1, <1>2, <1>4

\* A stream's sequences, element by element.
LEMMA StreamType ==
  ASSUME TypeOK, NEW s \in Stream
  PROVE  /\ cursor[s] \in Int
         /\ seen[s] \in Seq(Event) /\ rows[s] \in Seq(Event) /\ sent[s] \in Seq(Event)
         /\ \A i \in DOMAIN rows[s] : rows[s][i] \in Event /\ created[rows[s][i]] \in Nat
         /\ \A i \in DOMAIN sent[s] : sent[s][i] \in Event /\ created[sent[s][i]] \in Nat
<1>1. /\ cursor[s] \in Int
      /\ seen[s] \in Seq(Event) /\ rows[s] \in Seq(Event) /\ sent[s] \in Seq(Event)
  BY DEF TypeOK
<1>2. \A i \in DOMAIN rows[s] : rows[s][i] \in Event
  BY <1>1
<1>3. \A i \in DOMAIN sent[s] : sent[s][i] \in Event
  BY <1>1
<1> QED
  BY <1>1, <1>2, <1>3, EventType

\* What was sent with the cursor's own stamp is remembered.
LEMMA TiesAreSeen ==
  ASSUME TypeOK, TiesOK, NEW s \in Stream, StreamOK(s),
         NEW i \in DOMAIN sent[s], created[sent[s][i]] = cursor[s]
  PROVE  sent[s][i] \in Items(seen[s])
<1>1. PICK n \in Nat, m \in Nat, h \in Nat :
        /\ n = Len(sent[s]) /\ DOMAIN sent[s] = 1..n /\ h \in 1..n /\ h = i
        /\ m = Len(seen[s]) /\ DOMAIN seen[s] = 1..m
  BY StreamType
<1>5. /\ m = IF n < SeenCap THEN n ELSE SeenCap
      /\ \A k \in 1..m : seen[s][k] = sent[s][n - m + k]
  BY <1>1 DEF StreamOK, IsEnd
<1>2. SeenCap \in Nat /\ PerTick \in Nat /\ PerTick <= SeenCap
  BY LimitAssumption, TickAssumption
<1>9. m = n \/ m = SeenCap
  BY <1>5
<1>6. created[sent[s][h]] = cursor[s]
  BY <1>1
<1>7. 1 <= h /\ h <= n
  BY <1>1
<1>3. CASE h > n - m
  <2>1. h - (n - m) \in 1..m
    BY <1>7, <1>3
  <2>2. seen[s][h - (n - m)] = sent[s][n - m + (h - (n - m))]
    BY <2>1, <1>5
  <2>3. n - m + (h - (n - m)) = h
    OBVIOUS
  <2> QED
    BY <2>1, <2>2, <2>3, <1>1 DEF Items
<1>4. CASE h <= n - m
  <2>1. m = SeenCap
    <3>1. m # n
      BY <1>4, <1>7
    <3> QED
      BY <1>9, <3>1
  <2> DEFINE T == Ties(cursor[s])
             f == [k \in h..n |-> sent[s][k]]
  <2>2. \A k \in h..n : sent[s][k] \in T
    <3> SUFFICES ASSUME NEW k \in h..n
                 PROVE  sent[s][k] \in T
      OBVIOUS
    <3>1. k \in DOMAIN sent[s] /\ sent[s][k] \in Event
      BY <1>1, <1>7, StreamType
    <3>2. created[sent[s][h]] <= created[sent[s][k]]
      <4>1. CASE h = k
        <5>1. created[sent[s][h]] \in Nat
          BY <1>1, StreamType
        <5> QED
          BY <4>1, <5>1
      <4>2. CASE h < k
        <5>1. h \in DOMAIN sent[s]
          BY <1>1
        <5> QED
          BY <4>2, <3>1, <5>1 DEF StreamOK, Ordered
      <4> QED
        BY <4>1, <4>2
    <3>3. created[sent[s][k]] <= cursor[s]
      BY <3>1 DEF StreamOK, CursorOK
    <3>4. created[sent[s][k]] = cursor[s]
      BY <3>1, <3>2, <3>3, <1>6, StreamType
    <3> QED
      BY <3>1, <3>4 DEF Ties
  <2>3. f \in Injection(h..n, T)
    <3>1. f \in [h..n -> T]
      BY <2>2
    <3>2. \A a, b \in h..n : f[a] = f[b] => a = b
      BY <1>1 DEF StreamOK, Distinct
    <3> QED
      BY <3>1, <3>2 DEF Injection, IsInjective
  <2>4. IsFiniteSet(T)
    BY EventType
  <2>5. Cardinality(h..n) <= Cardinality(T)
    BY <2>3, <2>4, FS_Injection
  <2>6. Cardinality(h..n) = n - h + 1
    BY <1>7, FS_Interval
  <2>7. cursor[s] \in Items(created)
    BY StreamType DEF Items, Event
  <2>8. Cardinality(T) <= PerTick
    BY <2>7 DEF TiesOK
  <2>9. Cardinality(T) \in Nat
    BY <2>4, FS_CardinalityType
  <2> QED
    BY <2>1, <2>5, <2>6, <2>8, <2>9, <1>2, <1>4
<1>8. h > n - m \/ h <= n - m
  OBVIOUS
<1> QED
  BY <1>3, <1>4, <1>8

-----------------------------------------------------------------------------
(* Typing. *)

LEMMA InitIInv == Init => IInv
<1> SUFFICES ASSUME Init
             PROVE  IInv
  OBVIOUS
<1>1. Event = {} /\ Items(created) = {}
  BY DEF Init, Event, Items
<1>2. TypeOK
  BY <1>1 DEF Init, TypeOK, Nothing
<1>3. TiesOK
  BY <1>1 DEF TiesOK
<1>4. ASSUME NEW s \in Stream
      PROVE  StreamOK(s) /\ PageOK(s)
  <2>1. rows[s] = <<>> /\ seen[s] = <<>> /\ sent[s] = <<>>
    BY DEF Init
  <2>2. StreamOK(s)
    BY <2>1, LimitAssumption, TickAssumption DEF StreamOK, FreshOK, CursorOK, IsEnd, Ordered, Distinct
  <2>3. PageOK(s)
    BY DEF Init, PageOK, Nothing
  <2> QED
    BY <2>2, <2>3
<1> QED
  BY <1>2, <1>3, <1>4 DEF IInv

LEMMA StampType ==
  ASSUME TypeOK, Stamp
  PROVE  TypeOK'
<1>1. created' \in Seq(Nat) /\ Event \subseteq Event'
  BY DEF TypeOK, Stamp, Event
<1>2. \A q \in Seq(Event) : q \in Seq(Event')
  BY <1>1
<1>3. /\ seen \in [Stream -> Seq(Event')] /\ rows \in [Stream -> Seq(Event')]
      /\ sent \in [Stream -> Seq(Event')]
  BY <1>2 DEF TypeOK
<1> QED
  BY <1>1, <1>3 DEF TypeOK, Stamp, stream, page

LEMMA ProducerType ==
  ASSUME TypeOK, Producer
  PROVE  TypeOK'
<1>1. CASE Write
  BY <1>1 DEF TypeOK, Write, stream, page, Event
<1>2. CASE Stamp
  BY <1>2, StampType
<1>3. CASE Tick
  BY <1>3 DEF TypeOK, Tick, log, stream, page, Event
<1>4. CASE \E e \in Event : Store(e)
  BY <1>4 DEF TypeOK, Store, stream, page, Event
<1> QED
  BY <1>1, <1>2, <1>3, <1>4 DEF Producer

LEMMA RememberType ==
  ASSUME NEW S, NEW q \in Seq(S), NEW e \in S
  PROVE  Remember(q, e) \in Seq(S)
<1>1. Append(q, e) \in Seq(S) /\ Len(Append(q, e)) = Len(q) + 1 /\ Len(q) \in Nat
  OBVIOUS
<1>2. Append(q, e) # <<>>
  BY <1>1
<1>3. Tail(Append(q, e)) \in Seq(S)
  BY <1>1, <1>2
<1> QED
  BY <1>1, <1>3 DEF Remember

LEMMA StreamStepType ==
  ASSUME TypeOK, NEW s \in Stream, Connect(s) \/ Pump(s) \/ Close(s)
  PROVE  TypeOK'
<1>1. CASE Connect(s)
  <2>1. clock - Window \in Int
    BY BoundAssumption DEF TypeOK
  <2> QED
    BY <1>1, <2>1 DEF TypeOK, Connect, log, page, Event
<1>2. CASE Poll(s)
  <2>1. PICK n \in 0..Limit : \E seq \in [1..n -> stored] : rows' = [rows EXCEPT ![s] = seq]
    BY <1>2 DEF Poll
  <2>2. PICK seq \in [1..n -> stored] : rows' = [rows EXCEPT ![s] = seq]
    BY <2>1
  <2>3. n \in Nat /\ stored \subseteq Event
    BY LimitAssumption DEF TypeOK
  <2>4. seq \in Seq(Event)
    BY <2>3
  <2> QED
    BY <1>2, <2>2, <2>4 DEF TypeOK, Poll, log, page, Event
<1>3. CASE Skip(s)
  <2>1. Tail(rows[s]) \in Seq(Event)
    BY <1>3, StreamType DEF Skip
  <2> QED
    BY <1>3, <2>1 DEF TypeOK, Skip, log, page, Event
<1>4. CASE Send(s)
  <2> DEFINE e == Head(rows[s])
  <2>1. e \in Event /\ Tail(rows[s]) \in Seq(Event)
    BY <1>4, StreamType DEF Send
  <2>2. Append(sent[s], e) \in Seq(Event) /\ Remember(seen[s], e) \in Seq(Event)
    <3>1. sent[s] \in Seq(Event) /\ seen[s] \in Seq(Event)
      BY StreamType
    <3>2. Append(sent[s], e) \in Seq(Event)
      BY <3>1, <2>1
    <3> QED
      BY <3>1, <3>2, <2>1, RememberType
  <2>3. Advance(cursor[s], e) \in Int
    BY <2>1, StreamType, EventType DEF Advance, Later
  <2> QED
    BY <1>4, <2>1, <2>2, <2>3 DEF TypeOK, Send, log, page, Event
<1>5. CASE Close(s)
  BY <1>5 DEF TypeOK, Close, log, page, Event
<1> QED
  BY <1>1, <1>2, <1>3, <1>4, <1>5 DEF Pump

LEMMA PageType ==
  ASSUME TypeOK, NEW s \in Stream, Page(s)
  PROVE  TypeOK'
<1>1. CASE Load(s)
  <2>1. <<>> \in Seq(Event)
    OBVIOUS
  <2>2. shown' \in [Stream -> Nat]
    BY <1>1 DEF TypeOK, Load, Nothing
  <2>3. loads' \in [Stream -> Nat] /\ fetch' \in [Stream -> SUBSET (Nat \cup {Asked})]
    BY <1>1 DEF TypeOK, Load
  <2> QED
    BY <1>1, <2>1, <2>2, <2>3 DEF TypeOK, Load, log, Event
<1>2. CASE Handle(s)
  <2>1. handled[s] + 1 \in Nat
    BY DEF TypeOK
  <2>2. handled' \in [Stream -> Nat] /\ shown' = shown /\ loads' = loads
    BY <1>2, <2>1 DEF TypeOK, Handle
  <2>3. fetch' \in [Stream -> SUBSET (Nat \cup {Asked})]
    BY <1>2 DEF TypeOK, Handle, Ask
  <2>4. UNCHANGED <<clock, row, created, stored, source, cursor, seen, rows, sent>>
    BY <1>2 DEF Handle, log, stream
  <2> QED
    BY <2>2, <2>3, <2>4 DEF TypeOK, Event
<1>3. CASE Refresh(s)
  BY <1>3 DEF TypeOK, Refresh, Ask, log, stream, Event
<1>4. CASE Read(s)
  BY <1>4 DEF TypeOK, Read, Nothing, log, stream, Event
<1>5. CASE Show(s)
  BY <1>5 DEF TypeOK, Show, log, stream, Event
<1>6. CASE Miss(s)
  BY <1>6 DEF TypeOK, Miss, log, stream, Event
<1> QED
  BY <1>1, <1>2, <1>3, <1>4, <1>5, <1>6 DEF Page

-----------------------------------------------------------------------------
(* Events.  A stamp is given to fewer events than PerTick before.          *)

LEMMA StampTies ==
  ASSUME TypeOK, TiesOK, Stamp
  PROVE  TiesOK'
<1> DEFINE new == Len(created) + 1
<1>1. /\ created \in Seq(Nat) /\ clock \in Nat /\ created' = Append(created, clock)
      /\ Event = 1..Len(created) /\ Event' = 1..new
  BY EventType DEF TypeOK, Stamp, Event
<1>2. \A e \in Event : created'[e] = created[e]
  BY <1>1
<1>3. created'[new] = clock
  BY <1>1
<1> SUFFICES ASSUME NEW t \in Items(created)'
             PROVE  Cardinality(Ties(t)') <= PerTick
  BY DEF TiesOK
<1>4. CASE t = clock
  <2>1. Ties(t)' = Ties(clock) \cup {new}
    BY <1>1, <1>2, <1>3, <1>4 DEF Ties
  <2>2. new \notin Ties(clock) /\ IsFiniteSet(Ties(clock))
    <3>1. Ties(clock) \subseteq 1..Len(created) /\ new \notin 1..Len(created)
      BY <1>1, EventType DEF Ties
    <3> QED
      BY <3>1, EventType
  <2>3. Cardinality(Ties(t)') = Cardinality(Ties(clock)) + 1
    BY <2>1, <2>2, FS_AddElement
  <2>4. Cardinality(Ties(clock)) < PerTick /\ Cardinality(Ties(clock)) \in Nat
    BY <2>2, FS_CardinalityType DEF Stamp
  <2> QED
    BY <2>3, <2>4, LimitAssumption
<1>5. CASE t # clock
  <2>1. Ties(t)' = Ties(t)
    BY <1>1, <1>2, <1>3, <1>5 DEF Ties
  <2>2. t \in Items(created)
    BY <1>1, <1>2, <1>3, <1>5 DEF Items, Event
  <2> QED
    BY <2>1, <2>2 DEF TiesOK
<1> QED
  BY <1>4, <1>5

LEMMA StampStream ==
  ASSUME TypeOK, Stamp, NEW s \in Stream, StreamOK(s)
  PROVE  StreamOK(s)'
<1>1. \A e \in Event : created'[e] = created[e]
  BY DEF TypeOK, Stamp, Event
<1>2. source' = source /\ cursor' = cursor /\ seen' = seen /\ rows' = rows /\ sent' = sent
  BY DEF Stamp, stream
<1>3. /\ \A i \in DOMAIN rows[s] : created'[rows[s][i]] = created[rows[s][i]]
      /\ \A i \in DOMAIN sent[s] : created'[sent[s][i]] = created[sent[s][i]]
  BY <1>1, StreamType
<1> QED
  BY <1>2, <1>3 DEF StreamOK, FreshOK, CursorOK, IsEnd, Ordered, Distinct

LEMMA ProducerIInv ==
  ASSUME IInv, Producer
  PROVE  IInv'
<1> USE DEF IInv
<1>1. TypeOK'
  BY ProducerType
<1>2. TiesOK'
  <2>1. CASE Stamp
    BY <2>1, StampTies
  <2>2. CASE created' = created
    BY <2>2 DEF TiesOK, Ties, Items, Event
  <2> QED
    BY <2>1, <2>2 DEF Producer, Write, Tick, Store, log
<1>3. ASSUME NEW s \in Stream
      PROVE  StreamOK(s)'
  <2>1. CASE Stamp
    BY <2>1, StampStream
  <2>2. CASE created' = created /\ UNCHANGED stream
    BY <2>2 DEF stream, StreamOK, FreshOK, CursorOK, IsEnd, Ordered, Distinct
  <2> QED
    BY <2>1, <2>2 DEF Producer, Write, Tick, Store, log
<1>4. ASSUME NEW s \in Stream
      PROVE  PageOK(s)'
  <2>1. row' >= row /\ row \in Nat /\ row' \in Nat /\ shown' = shown /\ fetch' = fetch
    BY DEF Producer, Write, Stamp, Tick, Store, log, page, TypeOK
  <2>2. PageOK(s) /\ shown[s] \in Nat /\ fetch[s] \subseteq Nat \cup {Asked}
    BY DEF TypeOK
  <2> QED
    BY <2>1, <2>2 DEF PageOK, Asked, Nothing
<1> QED
  BY <1>1, <1>2, <1>3, <1>4

-----------------------------------------------------------------------------
(* A stream.  What a step of it does to the sequences.                     *)

LEMMA PollStream ==
  ASSUME TypeOK, NEW s \in Stream, StreamOK(s), Poll(s)
  PROVE  StreamOK(s)'
<1>1. PICK seq : Answer(cursor[s], seq) /\ rows' = [rows EXCEPT ![s] = seq]
  BY DEF Poll
<1>2. /\ rows'[s] = seq /\ source'[s] = source[s] /\ source[s] = "open" /\ cursor' = cursor /\ seen' = seen /\ sent' = sent
      /\ created' = created
  BY <1>1 DEF Poll, TypeOK, log
<1>3. \A i \in DOMAIN seq : cursor[s] <= created[seq[i]]
  BY <1>1 DEF Answer, Items, Since
<1>4. Ordered(seq)
  BY <1>1 DEF Answer
<1> QED
  BY <1>2, <1>3, <1>4 DEF StreamOK, FreshOK, CursorOK, IsEnd, Ordered, Distinct

LEMMA TailOf ==
  ASSUME NEW S, NEW q \in Seq(S), q # <<>>
  PROVE  /\ DOMAIN Tail(q) = 1..(Len(q) - 1) /\ Len(q) \in Nat \ {0}
         /\ \A i \in DOMAIN Tail(q) : Tail(q)[i] = q[i + 1] /\ i + 1 \in DOMAIN q
         /\ 1 \in DOMAIN q /\ Head(q) = q[1]
OBVIOUS

LEMMA OrderedTail ==
  ASSUME NEW q \in Seq(Event), q # <<>>, Ordered(q)
  PROVE  Ordered(Tail(q))
<1> SUFFICES ASSUME NEW i \in DOMAIN Tail(q), NEW j \in DOMAIN Tail(q), i < j
             PROVE  created[Tail(q)[i]] <= created[Tail(q)[j]]
  BY DEF Ordered
<1>1. /\ DOMAIN Tail(q) = 1..(Len(q) - 1) /\ Len(q) \in Nat \ {0}
      /\ Tail(q)[i] = q[i + 1] /\ i + 1 \in DOMAIN q
      /\ Tail(q)[j] = q[j + 1] /\ j + 1 \in DOMAIN q
  BY TailOf
<1>2. i + 1 < j + 1
  BY <1>1
<1> QED
  BY <1>1, <1>2 DEF Ordered

LEMMA SkipStream ==
  ASSUME TypeOK, NEW s \in Stream, StreamOK(s), Skip(s)
  PROVE  StreamOK(s)'
<1> DEFINE q == rows[s]
<1>1. /\ rows'[s] = Tail(q) /\ source' = source /\ source[s] = "open" /\ cursor' = cursor /\ seen' = seen /\ sent' = sent
      /\ created' = created
  BY DEF Skip, TypeOK, log
<1>2. q \in Seq(Event) /\ q # <<>>
  BY StreamType DEF Skip
<1>3. \A i \in DOMAIN Tail(q) : cursor[s] <= created[Tail(q)[i]]
  BY <1>2, TailOf DEF StreamOK, CursorOK
<1>4. Ordered(Tail(q))
  BY <1>2, OrderedTail DEF StreamOK
<1> QED
  BY <1>1, <1>3, <1>4 DEF StreamOK, FreshOK, CursorOK, IsEnd, Ordered, Distinct

\* A remembered sequence stays the end of what is sent.
LEMMA RememberEnd ==
  ASSUME NEW S, NEW p \in Seq(S), NEW q \in Seq(S), NEW e \in S,
         IsEnd(q, p)
  PROVE  IsEnd(Remember(q, e), Append(p, e))
<1> DEFINE p1 == Append(p, e)
           q1 == Remember(q, e)
           a == Append(q, e)
<1>1. SeenCap \in Nat \ {0} /\ Len(p) \in Nat /\ Len(q) \in Nat
  BY LimitAssumption, TickAssumption
<1>2. /\ Len(p1) = Len(p) + 1 /\ \A i \in 1..Len(p) : p1[i] = p[i]
      /\ p1[Len(p) + 1] = e
  OBVIOUS
<1>3. /\ a \in Seq(S) /\ Len(a) = Len(q) + 1
      /\ \A i \in 1..Len(q) : a[i] = q[i]
      /\ a[Len(q) + 1] = e
  OBVIOUS
<1>6. /\ Len(q) = Len(p) \/ (Len(q) = SeenCap /\ SeenCap <= Len(p))
      /\ Len(q) <= SeenCap /\ (Len(q) < SeenCap => Len(q) = Len(p))
  BY <1>1 DEF IsEnd
<1>7. \A k \in 1..Len(q) : q[k] = p[Len(p) - Len(q) + k]
  BY DEF IsEnd
<1>4. CASE Len(q) < SeenCap
  <2>1. q1 = a /\ Len(q) = Len(p)
    BY <1>1, <1>4, <1>6 DEF Remember
  <2>2. Len(q1) = Len(p1) /\ Len(q1) <= SeenCap /\ DOMAIN q1 = 1..(Len(p) + 1)
    BY <1>1, <1>2, <1>3, <1>4, <2>1
  <2>3. ASSUME NEW k \in 1..(Len(p) + 1)
        PROVE  q1[k] = p1[Len(p1) - Len(q1) + k]
    <3>1. Len(p1) - Len(q1) + k = k /\ k \in 1..(Len(p) + 1)
      BY <1>1, <1>2, <2>2, <2>3
    <3>2. CASE k = Len(p) + 1
      BY <3>1, <3>2, <2>1, <1>2, <1>3
    <3>3. CASE k \in 1..Len(p)
      <4>1. q[k] = p[k]
        <5>1. k \in 1..Len(q) /\ Len(p) - Len(q) + k = k
          BY <3>3, <2>1, <1>1
        <5> QED
          BY <5>1, <1>7
      <4> QED
        BY <3>1, <3>3, <4>1, <2>1, <1>2, <1>3
    <3> QED
      BY <3>1, <3>2, <3>3, <1>1
  <2> QED
    BY <2>2, <2>3, <1>1, <1>2 DEF IsEnd
<1>5. CASE Len(q) = SeenCap
  <2>1. q1 = Tail(a)
    BY <1>1, <1>5 DEF Remember
  <2>2. Len(q1) = SeenCap /\ DOMAIN q1 = 1..SeenCap /\ Len(p) >= SeenCap
    BY <1>1, <1>3, <1>5, <1>6, <2>1
  <2>3. ASSUME NEW k \in 1..SeenCap
        PROVE  q1[k] = p1[Len(p1) - Len(q1) + k]
    <3>1. q1[k] = a[k + 1] /\ k \in 1..SeenCap
      BY <1>3, <2>1, <2>2, <2>3, TailOf
    <3>2. Len(p1) - Len(q1) + k = Len(p) - Len(q) + (k + 1)
      BY <1>1, <1>2, <1>5, <2>2, <3>1
    <3>3. CASE k = SeenCap
      <4>1. Len(p) - Len(q) + (k + 1) = Len(p) + 1 /\ k + 1 = Len(q) + 1
        BY <3>3, <1>1, <1>5
      <4> QED
        BY <3>1, <3>2, <4>1, <1>2, <1>3
    <3>4. CASE k < SeenCap
      <4>1. k + 1 \in 1..Len(q) /\ Len(p) - Len(q) + (k + 1) \in 1..Len(p)
        BY <3>1, <3>4, <1>1, <1>5, <2>2
      <4>2. q[k + 1] = p[Len(p) - Len(q) + (k + 1)]
        BY <4>1, <1>7
      <4> QED
        BY <3>1, <3>2, <4>1, <4>2, <1>2, <1>3
    <3>5. k = SeenCap \/ k < SeenCap
      BY <1>1
    <3> QED
      BY <3>3, <3>4, <3>5
  <2>4. Len(q1) = IF Len(p1) < SeenCap THEN Len(p1) ELSE SeenCap
    BY <2>2, <1>1, <1>2
  <2>5. \A k \in DOMAIN q1 : q1[k] = p1[Len(p1) - Len(q1) + k]
    BY <2>2, <2>3
  <2> QED
    BY <2>4, <2>5 DEF IsEnd
<1> QED
  BY <1>1, <1>4, <1>5, <1>6

LEMMA SendStream ==
  ASSUME TypeOK, TiesOK, NEW s \in Stream, StreamOK(s), Send(s)
  PROVE  StreamOK(s)'
<1> DEFINE q == rows[s]
           e == Head(q)
           p == sent[s]
           n == Len(p)
<1>1. /\ rows'[s] = Tail(q) /\ cursor'[s] = Advance(cursor[s], e)
      /\ seen'[s] = Remember(seen[s], e) /\ sent'[s] = Append(p, e)
      /\ created' = created /\ e \notin Items(seen[s])
  BY DEF Send, TypeOK, log
<1>2. q \in Seq(Event) /\ q # <<>> /\ p \in Seq(Event) /\ seen[s] \in Seq(Event)
  BY StreamType DEF Send
<1>3. e \in Event /\ e = q[1] /\ 1 \in DOMAIN q /\ created[e] \in Nat
  <2>1. e = q[1] /\ 1 \in DOMAIN q
    BY <1>2, TailOf
  <2>2. q[1] \in Event
    BY <2>1, StreamType
  <2> QED
    BY <2>1, <2>2, EventType
<1>4. cursor[s] <= created[e] /\ cursor[s] \in Int
  BY <1>3, StreamType DEF StreamOK, CursorOK
<1>5. cursor'[s] = created[e]
  BY <1>1, <1>3, <1>4 DEF Advance, Later
<1>6. \A i \in DOMAIN p : created[p[i]] <= created[e]
  BY <1>3, <1>4, StreamType DEF StreamOK, CursorOK
<1>7. \A i \in DOMAIN p : p[i] # e
  <2> SUFFICES ASSUME NEW i \in DOMAIN p, p[i] = e
               PROVE  FALSE
    OBVIOUS
  <2>1. created[p[i]] = cursor[s]
    BY <1>3, <1>4, StreamType DEF StreamOK, CursorOK
  <2> QED
    BY <2>1, <1>1, TiesAreSeen
<1>8. /\ DOMAIN sent'[s] = 1..(n + 1) /\ n \in Nat /\ DOMAIN p = 1..n
      /\ \A i \in 1..n : sent'[s][i] = p[i]
      /\ sent'[s][n + 1] = e
  BY <1>1, <1>2, <1>3
<1>9. \A i \in DOMAIN Tail(q) : created[e] <= created[Tail(q)[i]]
  <2>1. \A i \in DOMAIN Tail(q) : Tail(q)[i] = q[i + 1] /\ i + 1 \in DOMAIN q /\ 1 < i + 1
    BY <1>2, TailOf
  <2> QED
    BY <2>1, <1>3 DEF StreamOK, Ordered
<1>10. CursorOK(s)'
  <2>1. \A i \in DOMAIN sent'[s] : created[sent'[s][i]] <= created[e]
    BY <1>3, <1>6, <1>8
  <2> QED
    BY <1>1, <1>5, <1>9, <2>1 DEF CursorOK
<1>11. IsEnd(seen[s], sent[s])'
  <2>1. IsEnd(seen[s], p)
    BY DEF StreamOK
  <2>2. IsEnd(Remember(seen[s], e), Append(p, e))
    BY <1>2, <1>3, <2>1, RememberEnd
  <2> QED
    BY <1>1, <2>2 DEF IsEnd
<1>12. Ordered(rows[s])'
  <2>1. Ordered(Tail(q))
    BY <1>2, OrderedTail DEF StreamOK
  <2> QED
    BY <1>1, <2>1 DEF Ordered
<1>13. Ordered(sent[s])'
  <2>1. \A i, j \in 1..(n + 1) : i < j => created[sent'[s][i]] <= created[sent'[s][j]]
    <3> SUFFICES ASSUME NEW i \in 1..(n + 1), NEW j \in 1..(n + 1), i < j
                 PROVE  created[sent'[s][i]] <= created[sent'[s][j]]
      OBVIOUS
    <3>1. i \in 1..n /\ sent'[s][i] = p[i]
      BY <1>8
    <3>2. CASE j = n + 1
      BY <3>1, <3>2, <1>6, <1>8
    <3>3. CASE j \in 1..n
      BY <3>1, <3>3, <1>8 DEF StreamOK, Ordered
    <3> QED
      BY <3>2, <3>3, <1>8
  <2> QED
    BY <2>1, <1>1, <1>8 DEF Ordered
<1>14. Distinct(sent[s])'
  <2>1. \A i, j \in 1..n : p[i] = p[j] => i = j
    BY <1>8 DEF StreamOK, Distinct
  <2>2. \A i \in 1..n : p[i] # e
    BY <1>7, <1>8
  <2> QED
    BY <2>1, <2>2, <1>8 DEF Distinct
<1> QED
  <2>1. FreshOK(s)'
    BY DEF Send, FreshOK
  <2> QED
    BY <2>1, <1>10, <1>11, <1>12, <1>13, <1>14 DEF StreamOK

LEMMA StreamIInv ==
  ASSUME IInv, NEW s \in Stream, Connect(s) \/ Pump(s) \/ Close(s)
  PROVE  IInv'
<1> USE DEF IInv
<1>1. TypeOK'
  BY StreamStepType
<1>2. created' = created /\ row' = row /\ shown' = shown /\ fetch' = fetch
  BY DEF Connect, Pump, Poll, Skip, Send, Close, log, page
<1>3. TiesOK'
  BY <1>2 DEF TiesOK, Ties, Items, Event
<1>4. \A x \in Stream : PageOK(x)'
  BY <1>2 DEF PageOK
<1>5. ASSUME NEW x \in Stream
      PROVE  StreamOK(x)'
  <2>1. CASE x # s \/ Close(s)
    <3>1. /\ cursor'[x] = cursor[x] /\ seen'[x] = seen[x]
          /\ rows'[x] = rows[x] /\ sent'[x] = sent[x]
          /\ source'[x] \in {source[x], "closed"}
      BY <2>1 DEF Connect, Pump, Poll, Skip, Send, Close, TypeOK
    <3> QED
      BY <1>2, <3>1 DEF StreamOK, FreshOK, CursorOK, IsEnd, Ordered, Distinct
  <2>2. CASE x = s /\ Connect(s)
    <3>1. rows'[s] = <<>> /\ sent'[s] = <<>> /\ seen'[s] = <<>>
      BY <2>2 DEF Connect, StreamOK, FreshOK
    <3> QED
      BY <2>2, <3>1, LimitAssumption, TickAssumption
         DEF StreamOK, FreshOK, CursorOK, IsEnd, Ordered, Distinct
  <2>3. CASE x = s /\ Poll(s)
    BY <2>3, PollStream
  <2>4. CASE x = s /\ Skip(s)
    BY <2>4, SkipStream
  <2>5. CASE x = s /\ Send(s)
    BY <2>5, SendStream
  <2> QED
    BY <2>1, <2>2, <2>3, <2>4, <2>5 DEF Pump
<1> QED
  BY <1>1, <1>3, <1>4, <1>5

-----------------------------------------------------------------------------
(* The page.                                                               *)

LEMMA PageStep ==
  ASSUME TypeOK, NEW s \in Stream, PageOK(s), Page(s)
  PROVE  /\ PageOK(s)'
         /\ shown'[s] >= shown[s] \/ shown'[s] = Nothing
<1>1. /\ shown[s] \in Nat /\ row \in Nat /\ row' = row
      /\ fetch[s] \subseteq Nat \cup {Asked}
  BY DEF TypeOK, Page, Load, Handle, Refresh, Read, Show, Miss, log
<1>2. CASE Load(s)
  <2>1. PICK version \in {row, Nothing} : shown' = [shown EXCEPT ![s] = version]
    BY <1>2 DEF Load
  <2>2. shown'[s] = version /\ fetch'[s] = {}
    BY <1>2, <2>1 DEF Load, TypeOK
  <2> QED
    BY <1>1, <2>2 DEF PageOK, Nothing
<1>3. CASE Handle(s) \/ Refresh(s)
  <2>1. shown' = shown /\ (fetch'[s] = fetch[s] \/ fetch'[s] = {Asked})
    BY <1>3 DEF Handle, Refresh, Ask, TypeOK
  <2> QED
    BY <1>1, <2>1 DEF PageOK
<1>4. CASE Read(s)
  <2>1. PICK version \in {row, Nothing} : fetch'[s] = (fetch[s] \ {Asked}) \cup {version}
    BY <1>4 DEF Read, TypeOK
  <2>2. fetch'[s] = {version} /\ shown' = shown
    BY <1>4, <2>1 DEF Read, PageOK
  <2> QED
    BY <1>1, <2>2 DEF PageOK
<1>5. CASE Show(s)
  <2>1. PICK version \in fetch[s] \ {Asked} :
          fetch'[s] = fetch[s] \ {version} /\ shown'[s] = version
    BY <1>5 DEF Show, TypeOK
  <2>2. fetch'[s] = {}
    BY <2>1 DEF PageOK
  <2>3. version = Nothing \/ (shown[s] <= version /\ version <= row)
    BY <2>1 DEF PageOK
  <2>4. shown'[s] <= row
    BY <2>1, <2>3, <1>1 DEF Nothing
  <2> QED
    BY <1>1, <2>1, <2>2, <2>3, <2>4 DEF PageOK, Nothing
<1>6. CASE Miss(s)
  <2>1. fetch'[s] \subseteq fetch[s] /\ shown' = shown
    BY <1>6 DEF Miss, TypeOK
  <2> QED
    BY <1>1, <2>1 DEF PageOK
<1> QED
  BY <1>2, <1>3, <1>4, <1>5, <1>6 DEF Page

LEMMA PageIInv ==
  ASSUME IInv, NEW s \in Stream, Page(s)
  PROVE  IInv'
<1> USE DEF IInv
<1>1. TypeOK'
  BY PageType
<1>2. created' = created /\ row' = row /\ cursor' = cursor
  BY DEF Page, Load, Handle, Refresh, Read, Show, Miss, log, stream
<1>3. TiesOK'
  BY <1>2 DEF TiesOK, Ties, Items, Event
<1>4. ASSUME NEW x \in Stream
      PROVE  StreamOK(x)'
  <2>1. CASE x = s /\ Load(s)
    <3>1. rows'[s] = <<>> /\ sent'[s] = <<>> /\ seen'[s] = <<>>
      BY <2>1 DEF Load, TypeOK
    <3> QED
      BY <2>1, <3>1, LimitAssumption, TickAssumption
         DEF StreamOK, FreshOK, CursorOK, IsEnd, Ordered, Distinct
  <2>2. CASE x # s \/ ~Load(s)
    <3>1. /\ seen'[x] = seen[x] /\ rows'[x] = rows[x] /\ sent'[x] = sent[x]
          /\ source'[x] = source[x]
      BY <2>2 DEF Page, Load, Handle, Refresh, Read, Show, Miss, stream, TypeOK
    <3> QED
      BY <1>2, <3>1 DEF StreamOK, FreshOK, CursorOK, IsEnd, Ordered, Distinct
  <2> QED
    BY <2>1, <2>2
<1>5. ASSUME NEW x \in Stream
      PROVE  PageOK(x)'
  <2>1. CASE x = s
    BY <2>1, PageStep
  <2>2. CASE x # s
    <3>1. shown'[x] = shown[x] /\ fetch'[x] = fetch[x]
      BY <2>2 DEF Page, Load, Handle, Refresh, Ask, Read, Show, Miss, TypeOK
    <3> QED
      BY <1>2, <3>1 DEF PageOK
  <2> QED
    BY <2>1, <2>2
<1> QED
  BY <1>1, <1>3, <1>4, <1>5

-----------------------------------------------------------------------------
LEMMA NextIInv ==
  ASSUME IInv, [Next]_vars
  PROVE  IInv'
<1>1. CASE Producer
  BY <1>1, ProducerIInv
<1>2. CASE \E s \in Stream : Connect(s) \/ Pump(s) \/ Close(s)
  BY <1>2, StreamIInv
<1>3. CASE \E s \in Stream : Page(s)
  BY <1>3, PageIInv
<1>4. CASE UNCHANGED vars
  <2>1. TypeOK'
    BY <1>4 DEF vars, log, stream, page, IInv, TypeOK, Event
  <2>4. TiesOK'
    BY <1>4 DEF vars, log, IInv, TiesOK, Ties, Items, Event
  <2>2. ASSUME NEW s \in Stream
        PROVE  StreamOK(s)'
    BY <1>4 DEF vars, log, stream, IInv, StreamOK, FreshOK, CursorOK, IsEnd, Ordered, Distinct
  <2>3. ASSUME NEW s \in Stream
        PROVE  PageOK(s)'
    BY <1>4 DEF vars, log, page, IInv, PageOK
  <2> QED
    BY <2>1, <2>4, <2>2, <2>3 DEF IInv
<1> QED
  BY <1>1, <1>2, <1>3, <1>4 DEF Next

(* The strengthening holds in every reachable state.                       *)
THEOREM Invariance == Spec => []IInv
BY InitIInv, NextIInv, PTL DEF Spec

(* No stream of surreal-studio-events' rows sends one of them twice.       *)
THEOREM Once == Spec => []SentOnce
<1>1. IInv => SentOnce
  BY DEF IInv, StreamOK, SentOnce
<1> QED
  BY <1>1, Invariance, PTL

(* Streams send events in the order they were stamped, whatever the order  *)
(* their rows appear in.                                                   *)
THEOREM InOrder == Spec => []SentInOrder
<1>1. IInv => SentInOrder
  BY DEF IInv, StreamOK, SentInOrder
<1> QED
  BY <1>1, Invariance, PTL

(* refreshJobsState never replaces what a page shows by something older.   *)
THEOREM NeverBack == Spec => PageNeverGoesBack
<1>1. ASSUME IInv, [Next]_vars
      PROVE  [\A s \in Stream : shown'[s] >= shown[s] \/ shown'[s] = Nothing]_vars
  <2> SUFFICES ASSUME ~UNCHANGED vars, NEW s \in Stream
               PROVE  shown'[s] >= shown[s] \/ shown'[s] = Nothing
    OBVIOUS
  <2>1. shown[s] \in Nat
    BY <1>1 DEF IInv, TypeOK
  <2>2. CASE Page(s)
    BY <2>2, <1>1, PageStep DEF IInv
  <2>3. CASE ~Page(s)
    <3>1. shown'[s] = shown[s]
      BY <1>1, <2>3 DEF Next, Producer, Write, Stamp, Tick, Store, Connect, Pump, Poll,
         Skip, Send, Close, Page, Load, Handle, Refresh, Read, Show, Miss, page, IInv, TypeOK
    <3> QED
      BY <2>1, <3>1
  <2> QED
    BY <2>2, <2>3
<1> QED
  BY <1>1, Invariance, PTL DEF Spec, PageNeverGoesBack
-----------------------------------------------------------------------------
(* What a stream passes over.                                              *)

\* What is at or beyond the horizon is at or beyond the cursor and every row
\* of the answer.
LEMMA Beyond ==
  ASSUME NEW f \in Seq(Nat), NEW q \in Seq(DOMAIN f), NEW c \in Int, NEW x \in Int,
         \A i, j \in DOMAIN q : i < j => f[q[i]] <= f[q[j]]
  PROVE  x >= (IF q = <<>> THEN c ELSE Later(c, f[q[Len(q)]]))
           <=> x >= c /\ \A i \in DOMAIN q : x >= f[q[i]]
<1>1. \A i \in DOMAIN q : f[q[i]] \in Nat
  <2>1. \A i \in DOMAIN q : q[i] \in DOMAIN f
    OBVIOUS
  <2> QED
    BY <2>1
<1>2. CASE q = <<>>
  BY <1>2
<1>3. CASE q # <<>>
  <2>1. Len(q) \in DOMAIN q /\ DOMAIN q = 1..Len(q) /\ Len(q) \in Nat
    BY <1>3
  <2>2. \A i \in DOMAIN q : f[q[i]] <= f[q[Len(q)]]
    <3> SUFFICES ASSUME NEW i \in DOMAIN q
                 PROVE  f[q[i]] <= f[q[Len(q)]]
      OBVIOUS
    <3>1. i = Len(q) \/ i < Len(q)
      BY <2>1
    <3> QED
      BY <3>1, <2>1, <1>1
  <2>3. x >= Later(c, f[q[Len(q)]]) <=> x >= c /\ x >= f[q[Len(q)]]
    BY <2>1, <1>1 DEF Later
  <2>4. (\A i \in DOMAIN q : x >= f[q[i]]) <=> x >= f[q[Len(q)]]
    <3>1. ASSUME x >= f[q[Len(q)]], NEW i \in DOMAIN q PROVE x >= f[q[i]]
      <4>1. f[q[i]] \in Nat /\ f[q[Len(q)]] \in Nat /\ f[q[i]] <= f[q[Len(q)]]
        BY <1>1, <2>1, <2>2
      <4> QED
        BY <3>1, <4>1
    <3> QED
      BY <2>1, <3>1
  <2> QED
    BY <1>3, <2>3, <2>4
<1> QED
  BY <1>2, <1>3

\* The same for a stream, before and after a step.
Ahead(x, c, q, f) == x >= c /\ \A i \in DOMAIN q : x >= f[q[i]]

LEMMA AheadHere ==
  ASSUME IInv, NEW s \in Stream, NEW x \in Int
  PROVE  x >= Horizon(s) <=> Ahead(x, cursor[s], rows[s], created)
<1>1. created \in Seq(Nat) /\ rows[s] \in Seq(DOMAIN created) /\ cursor[s] \in Int
  BY DEF IInv, TypeOK, Event
<1>2. \A i, j \in DOMAIN rows[s] : i < j => created[rows[s][i]] <= created[rows[s][j]]
  BY DEF IInv, StreamOK, Ordered
<1> QED
  BY <1>1, <1>2, Beyond DEF Horizon, Ahead

LEMMA AheadThere ==
  ASSUME IInv', NEW s \in Stream, NEW x \in Int
  PROVE  x >= Horizon(s)' <=> Ahead(x, cursor'[s], rows'[s], created')
<1>1. created' \in Seq(Nat) /\ rows'[s] \in Seq(DOMAIN created') /\ cursor'[s] \in Int
  BY DEF IInv, TypeOK, Event
<1>2. \A i, j \in DOMAIN rows'[s] : i < j => created'[rows'[s][i]] <= created'[rows'[s][j]]
  BY DEF IInv, StreamOK, Ordered
<1> QED
  BY <1>1, <1>2, Beyond DEF Horizon, Ahead

\* What is remembered has been sent.
LEMMA SeenAreSent ==
  ASSUME IInv, NEW s \in Stream
  PROVE  Items(seen[s]) \subseteq Items(sent[s])
<1>1. IsEnd(seen[s], sent[s]) /\ seen[s] \in Seq(Event) /\ sent[s] \in Seq(Event)
  BY StreamType DEF IInv, StreamOK
<1>2. SeenCap \in Nat /\ Len(seen[s]) <= Len(sent[s])
  BY <1>1, LimitAssumption DEF IsEnd
<1>3. PICK n \in Nat, m \in Nat :
        /\ n = Len(sent[s]) /\ DOMAIN sent[s] = 1..n
        /\ m = Len(seen[s]) /\ DOMAIN seen[s] = 1..m
  BY <1>1
<1>4. m <= n /\ \A k \in 1..m : seen[s][k] = sent[s][n - m + k]
  BY <1>1, <1>2, <1>3 DEF IsEnd
<1>5. \A k \in 1..m : n - m + k \in 1..n
  BY <1>4
<1> QED
  BY <1>3, <1>4, <1>5 DEF Items

\* The rows after the first.
LEMMA TailItems ==
  ASSUME NEW S, NEW q \in Seq(S), q # <<>>
  PROVE  Items(q) = {Head(q)} \cup Items(Tail(q))
<1>1. /\ DOMAIN Tail(q) = 1..(Len(q) - 1) /\ Len(q) \in Nat \ {0}
      /\ \A i \in DOMAIN Tail(q) : Tail(q)[i] = q[i + 1] /\ i + 1 \in DOMAIN q
      /\ 1 \in DOMAIN q /\ Head(q) = q[1] /\ DOMAIN q = 1..Len(q)
  BY TailOf
<1>2. ASSUME NEW i \in DOMAIN q, i # 1 PROVE q[i] \in Items(Tail(q))
  <2>1. i - 1 \in DOMAIN Tail(q) /\ Tail(q)[i - 1] = q[i]
    BY <1>1, <1>2
  <2> QED
    BY <2>1 DEF Items
<1> QED
  BY <1>1, <1>2 DEF Items


LEMMA AppendItems ==
  ASSUME NEW S, NEW q \in Seq(S), NEW e \in S
  PROVE  Items(Append(q, e)) = Items(q) \cup {e}
<1>1. PICK n \in Nat : n = Len(q) /\ DOMAIN q = 1..n
  OBVIOUS
<1>2. /\ DOMAIN Append(q, e) = 1..(n + 1) /\ Append(q, e)[n + 1] = e
      /\ \A i \in 1..n : Append(q, e)[i] = q[i]
  BY <1>1
<1>3. ASSUME NEW x \in Items(Append(q, e)) PROVE x \in Items(q) \cup {e}
  <2>1. PICK i \in 1..(n + 1) : x = Append(q, e)[i]
    BY <1>2, <1>3 DEF Items
  <2> QED
    BY <1>1, <1>2, <2>1 DEF Items
<1>4. ASSUME NEW x \in Items(q) \cup {e} PROVE x \in Items(Append(q, e))
  <2>1. \E i \in 1..(n + 1) : x = Append(q, e)[i]
    BY <1>1, <1>2, <1>4 DEF Items
  <2> QED
    BY <1>2, <2>1 DEF Items
<1> QED
  BY <1>3, <1>4

\* The three steps that move a stream keep what is before it, or send it.
Kept(e, s) == Coming(e, s)' \/ e \in Items(sent'[s]) \/ source'[s] # "open"

LEMMA PollKeeps ==
  ASSUME IInv, IInv', NEW s \in Stream, Poll(s), NEW e \in Event, Coming(e, s)
  PROVE  Kept(e, s)
<1>1. /\ rows[s] = <<>> /\ cursor' = cursor /\ stored' = stored /\ sent' = sent
      /\ created' = created /\ source' = source
  BY DEF Poll, log
<1>2. PICK n \in 0..Limit : \E q \in [1..n -> stored] :
        Answer(cursor[s], q) /\ rows' = [rows EXCEPT ![s] = q]
  BY DEF Poll
<1>3. PICK q \in [1..n -> stored] :
        Answer(cursor[s], q) /\ rows' = [rows EXCEPT ![s] = q]
  BY <1>2
<1>4. rows'[s] = q /\ DOMAIN q = 1..n /\ created[e] \in Nat /\ cursor[s] \in Int
  BY <1>3, EventType, StreamType DEF IInv, TypeOK
<1>5. e \in Since(cursor[s])
  <2>1. e \notin Items(rows[s])
    BY <1>1 DEF Items
  <2>2. created[e] >= cursor[s]
    BY <1>1, <2>1 DEF Coming, Horizon
  <2> QED
    BY <2>2 DEF Coming, Since
<1>6. CASE e \in Items(q)
  BY <1>1, <1>4, <1>6 DEF Kept, Coming
<1>7. CASE e \notin Items(q)
  <2>1. \A i \in DOMAIN q : created[q[i]] <= created[e]
    BY <1>3, <1>5, <1>7 DEF Answer
  <2>2. Ahead(created[e], cursor'[s], rows'[s], created')
    <3>1. \A i \in DOMAIN q : q[i] \in Event
      BY <1>4 DEF IInv, TypeOK
    <3>2. \A i \in DOMAIN q : created[q[i]] \in Nat
      BY <3>1, EventType DEF IInv
    <3> QED
      BY <1>1, <1>4, <1>5, <2>1, <3>2 DEF Ahead, Since
  <2>3. created'[e] >= Horizon(s)'
    BY <1>1, <1>4, <2>2, AheadThere
  <2> QED
    BY <1>1, <2>3 DEF Kept, Coming
<1> QED
  BY <1>6, <1>7

LEMMA SkipKeeps ==
  ASSUME IInv, IInv', NEW s \in Stream, Skip(s), NEW e \in Event, Coming(e, s)
  PROVE  Kept(e, s)
<1>1. /\ cursor' = cursor /\ stored' = stored /\ sent' = sent /\ created' = created
      /\ source' = source /\ rows'[s] = Tail(rows[s]) /\ rows[s] # <<>>
      /\ Head(rows[s]) \in Items(seen[s]) /\ rows[s] \in Seq(Event)
  BY StreamType DEF Skip, log, IInv, TypeOK
<1>2. Items(rows[s]) = {Head(rows[s])} \cup Items(Tail(rows[s]))
  BY <1>1, TailItems
<1>3. e # Head(rows[s])
  BY <1>1, SeenAreSent DEF Coming
<1>4. CASE e \in Items(rows[s])
  <2>1. e \in Items(rows'[s])
    BY <1>1, <1>2, <1>3, <1>4
  <2> QED
    BY <1>1, <2>1 DEF Kept, Coming
<1>5. CASE created[e] >= Horizon(s)
  <2>0. created[e] \in Int
    BY EventType DEF IInv
  <2>1. Ahead(created[e], cursor[s], rows[s], created)
    BY <1>5, <2>0, AheadHere
  <2>2. \A i \in DOMAIN Tail(rows[s]) :
          Tail(rows[s])[i] = rows[s][i + 1] /\ i + 1 \in DOMAIN rows[s]
    BY <1>1, TailOf
  <2>3. Ahead(created[e], cursor'[s], rows'[s], created')
    BY <1>1, <2>1, <2>2 DEF Ahead
  <2>4. created'[e] >= Horizon(s)'
    BY <1>1, <2>0, <2>3, AheadThere
  <2> QED
    BY <1>1, <2>4 DEF Kept, Coming
<1> QED
  BY <1>4, <1>5 DEF Coming

LEMMA SendKeeps ==
  ASSUME IInv, IInv', NEW s \in Stream, Send(s), NEW e \in Event, Coming(e, s)
  PROVE  Kept(e, s)
<1> DEFINE h == Head(rows[s])
<1>1. /\ stored' = stored /\ created' = created /\ source' = source
      /\ rows'[s] = Tail(rows[s]) /\ rows[s] # <<>> /\ rows[s] \in Seq(Event)
      /\ sent'[s] = Append(sent[s], h) /\ cursor'[s] = Advance(cursor[s], h)
      /\ sent[s] \in Seq(Event) /\ cursor[s] \in Int
  BY StreamType DEF Send, log, IInv, TypeOK
<1>2. Items(rows[s]) = {h} \cup Items(Tail(rows[s]))
  BY <1>1, TailItems
<1>3. h \in Event /\ created[h] \in Nat /\ created[e] \in Nat /\ 1 \in DOMAIN rows[s] /\ h = rows[s][1]
  <2>1. 1 \in DOMAIN rows[s] /\ h = rows[s][1]
    BY <1>1, TailOf
  <2> QED
    BY <2>1, StreamType, EventType DEF IInv
<1>4. Items(sent'[s]) = Items(sent[s]) \cup {h}
  BY <1>1, <1>3, AppendItems
<1>5. CASE e = h
  BY <1>4, <1>5 DEF Kept
<1>6. CASE e # h /\ e \in Items(rows[s])
  <2>1. e \in Items(rows'[s]) /\ e \notin Items(sent'[s])
    BY <1>1, <1>2, <1>4, <1>6 DEF Coming
  <2> QED
    BY <1>1, <2>1 DEF Kept, Coming
<1>7. CASE e # h /\ created[e] >= Horizon(s)
  <2>1. Ahead(created[e], cursor[s], rows[s], created)
    BY <1>3, <1>7, AheadHere
  <2>2. \A i \in DOMAIN Tail(rows[s]) :
          Tail(rows[s])[i] = rows[s][i + 1] /\ i + 1 \in DOMAIN rows[s]
    BY <1>1, TailOf
  <2>3. created[e] >= cursor'[s]
    BY <1>1, <1>3, <2>1 DEF Ahead, Advance, Later
  <2>4. Ahead(created[e], cursor'[s], rows'[s], created')
    BY <1>1, <2>1, <2>2, <2>3 DEF Ahead
  <2>5. created'[e] >= Horizon(s)'
    BY <1>1, <1>3, <2>4, AheadThere
  <2>6. e \notin Items(sent'[s])
    BY <1>4, <1>7 DEF Coming
  <2> QED
    BY <1>1, <2>5, <2>6 DEF Kept, Coming
<1> QED
  BY <1>5, <1>6, <1>7 DEF Coming

\* Whatever leaves a stream alone keeps what is before it: events are stored
\* and stamped, none is taken back.
LEMMA OthersKeep ==
  ASSUME IInv, NEW s \in Stream, NEW e \in Event, Coming(e, s),
         cursor'[s] = cursor[s], rows'[s] = rows[s], sent'[s] = sent[s],
         source'[s] = source[s], stored \subseteq stored',
         \A x \in Event : created'[x] = created[x]
  PROVE  Kept(e, s)
<1>1. rows[s] \in Seq(Event)
  BY StreamType DEF IInv
<1>2. rows[s] # <<>> => rows[s][Len(rows[s])] \in Event
  BY <1>1
<1>3. Horizon(s)' = Horizon(s) /\ created'[e] = created[e]
  BY <1>2 DEF Horizon
<1> QED
  BY <1>3 DEF Kept, Coming

\* A new event comes after the others (createStudioEvent).
LEMMA StampAppends ==
  ASSUME TypeOK, Stamp
  PROVE  Len(created') = Len(created) + 1 /\ \A x \in Event : created'[x] = created[x]
<1>1. PICK n \in Nat : n = Len(created) /\ Event = 1..n /\ created \in Seq(Nat)
  BY DEF TypeOK, Event
<1>2. created' = Append(created, clock)
  BY DEF Stamp
<1> QED
  BY <1>1, <1>2

(* A stream passes over nothing it has before it: the events a page misses *)
(* are those stored behind its stream (listStudioEventsSince, pump).       *)
THEOREM SkipsNothing == Spec => NothingSkipped
<1>1. ASSUME IInv, IInv', [Next]_vars
      PROVE  [\A s \in Stream : \A e \in Event : Coming(e, s) =>
                Coming(e, s)' \/ e \in Items(sent'[s]) \/ source'[s] # "open"]_vars
  <2> SUFFICES ASSUME Next, NEW s \in Stream, NEW e \in Event, Coming(e, s)
               PROVE  Kept(e, s)
    BY <1>1 DEF Kept
  <2>0. TypeOK /\ source[s] = "open"
    BY <1>1 DEF IInv, Coming
  <2>1. CASE Poll(s)
    BY <1>1, <2>1, PollKeeps
  <2>2. CASE Skip(s)
    BY <1>1, <2>2, SkipKeeps
  <2>3. CASE Send(s)
    BY <1>1, <2>3, SendKeeps
  <2>4. CASE Close(s) \/ Load(s)
    BY <2>0, <2>4 DEF Close, Load, Kept, TypeOK
  <2>5. CASE Producer
    <3>1. \A x \in Event : created'[x] = created[x]
      <4>1. CASE Stamp
        BY <2>0, <4>1, StampAppends
      <4>2. CASE ~Stamp
        BY <2>5, <4>2 DEF Producer, Write, Tick, Store, log
      <4> QED
        BY <4>1, <4>2
    <3>2. /\ cursor' = cursor /\ rows' = rows /\ sent' = sent /\ source' = source
          /\ stored \subseteq stored'
      BY <2>5 DEF Producer, Write, Stamp, Tick, Store, log, stream
    <3> QED
      BY <1>1, <3>1, <3>2, OthersKeep
  <2>6. ASSUME NEW t \in Stream, Connect(t) \/ Pump(t) \/ Close(t) \/ Page(t),
               ~Poll(s), ~Skip(s), ~Send(s), ~Close(s), ~Load(s)
        PROVE  Kept(e, s)
    <3>1. /\ cursor'[s] = cursor[s] /\ rows'[s] = rows[s] /\ sent'[s] = sent[s]
          /\ source'[s] = source[s] /\ stored' = stored /\ created' = created
      <4>1. CASE t = s
        BY <2>0, <2>6, <4>1 DEF Connect, Pump, Page, Handle, Refresh, Read, Show, Miss,
           log, stream
      <4>2. CASE t # s
        BY <2>0, <2>6, <4>2 DEF Connect, Pump, Poll, Skip, Send, Close, Page, Load,
           Handle, Refresh, Read, Show, Miss, log, stream, TypeOK
      <4> QED
        BY <4>1, <4>2
    <3> QED
      BY <1>1, <3>1, OthersKeep
  <2> QED
    BY <2>1, <2>2, <2>3, <2>4, <2>5, <2>6 DEF Next
<1>2. IInv /\ [Next]_vars => IInv'
  BY NextIInv
<1> QED
  BY <1>1, <1>2, Invariance, PTL DEF Spec, NothingSkipped

-----------------------------------------------------------------------------
(* The refinement.                                                         *)

\* The rows of an answer are in the table.
RowsStored == \A s \in Stream : Items(rows[s]) \subseteq stored

LEMMA NextRowsStored ==
  ASSUME IInv, RowsStored, [Next]_vars
  PROVE  RowsStored'
<1> SUFFICES ASSUME NEW s \in Stream
             PROVE  Items(rows'[s]) \subseteq stored'
  BY DEF RowsStored, Items
<1>0. TypeOK /\ Items(rows[s]) \subseteq stored
  BY DEF IInv, RowsStored
<1>1. stored \subseteq stored'
  BY DEF Next, Producer, Write, Stamp, Tick, Store, Connect, Pump, Poll, Skip, Send,
     Close, Page, Load, Handle, Refresh, Read, Show, Miss, log, vars
<1>2. CASE rows'[s] = rows[s]
  BY <1>0, <1>1, <1>2
<1>3. CASE Skip(s) \/ Send(s)
  <2>1. rows'[s] = Tail(rows[s]) /\ rows[s] # <<>> /\ rows[s] \in Seq(Event)
    BY <1>0, <1>3, StreamType DEF Skip, Send, TypeOK
  <2> QED
    BY <1>0, <1>1, <2>1, TailItems
<1>4. CASE Poll(s)
  <2>1. PICK n \in 0..Limit : \E q \in [1..n -> stored] :
          rows' = [rows EXCEPT ![s] = q]
    BY <1>4 DEF Poll
  <2>2. PICK q \in [1..n -> stored] : rows'[s] = q
    BY <1>0, <2>1 DEF TypeOK
  <2> QED
    BY <1>1, <2>2 DEF Items
<1>5. CASE Load(s)
  BY <1>0, <1>5 DEF Load, Items, TypeOK
<1>6. CASE ~Skip(s) /\ ~Send(s) /\ ~Poll(s) /\ ~Load(s)
  <2>1. ASSUME NEW t \in Stream, Poll(t) \/ Skip(t) \/ Send(t) \/ Load(t)
        PROVE  rows'[s] = rows[s]
    <3>1. t # s
      BY <1>6, <2>1
    <3> QED
      BY <1>0, <2>1, <3>1 DEF Poll, Skip, Send, Load, TypeOK
  <2>2. ASSUME \A t \in Stream : ~Poll(t) /\ ~Skip(t) /\ ~Send(t) /\ ~Load(t)
        PROVE  rows'[s] = rows[s]
    BY <2>2 DEF Next, Producer, Write, Stamp, Tick, Store, Connect, Pump, Close,
       Page, Handle, Refresh, Read, Show, Miss, stream, vars
  <2> QED
    BY <1>2, <2>1, <2>2
<1> QED
  BY <1>3, <1>4, <1>5, <1>6

\* A row that is not remembered has not been sent, and nothing sent is later.
LEMMA SendMaps ==
  ASSUME IInv, RowsStored, NEW s \in Stream, Send(s)
  PROVE  Feed!Next
<1> DEFINE h == Head(rows[s])
<1>1. /\ created' = created /\ stored' = stored /\ h \notin Items(seen[s])
      /\ sent' = [sent EXCEPT ![s] = Append(@, h)]
      /\ rows[s] # <<>> /\ rows[s] \in Seq(Event)
  BY StreamType DEF Send, log, IInv
<1>2. 1 \in DOMAIN rows[s] /\ h = rows[s][1]
  BY <1>1, TailOf
<1>3. h \in Event /\ h \in stored /\ created[h] \in Nat
  BY <1>2, StreamType DEF IInv, RowsStored, Items
<1>4. ASSUME NEW i \in DOMAIN sent[s]
      PROVE  sent[s][i] # h /\ created[sent[s][i]] <= created[h]
  <2>1. /\ created[sent[s][i]] <= cursor[s] /\ cursor[s] <= created[h]
        /\ created[sent[s][i]] \in Nat /\ cursor[s] \in Int
    BY <1>2, StreamType DEF IInv, StreamOK, CursorOK
  <2>2. sent[s][i] = h => created[sent[s][i]] = cursor[s]
    BY <1>3, <2>1
  <2>3. sent[s][i] # h
    BY <1>1, <2>2, TiesAreSeen DEF IInv
  <2> QED
    BY <1>3, <2>1, <2>3
<1>5. Feed!Deliver(s, h)
  BY <1>1, <1>3, <1>4 DEF Feed!Deliver
<1> QED
  BY <1>3, <1>5 DEF Feed!Next, Feed!Event, Event

LEMMA StepMaps ==
  ASSUME IInv, RowsStored, [Next]_vars
  PROVE  [Feed!Next]_(Feed!vars)
<1>0. TypeOK
  BY DEF IInv
<1>1. CASE Stamp
  <2>1. Feed!Make
    BY <1>0, <1>1, StampAppends DEF Stamp, stream, Feed!Make, Feed!Event, Event
  <2> QED
    BY <2>1 DEF Feed!Next
<1>2. CASE \E e \in Event : Store(e)
  BY <1>2 DEF Store, stream, Feed!Next, Feed!Publish, Feed!Event, Event
<1>3. CASE \E s \in Stream : Send(s)
  BY <1>3, SendMaps
<1>4. CASE \E s \in Stream : Load(s)
  BY <1>4 DEF Load, log, Feed!Next, Feed!Reload
<1>5. CASE ~Stamp /\ (\A e \in Event : ~Store(e)) /\ \A s \in Stream : ~Send(s) /\ ~Load(s)
  <2>1. UNCHANGED <<created, stored, sent>>
    BY <1>5 DEF Next, Producer, Write, Tick, Connect, Pump, Poll, Skip,
       Close, Page, Handle, Refresh, Read, Show, Miss, log, stream, vars
  <2> QED
    BY <2>1 DEF Feed!vars
<1> QED
  BY <1>1, <1>2, <1>3, <1>4, <1>5

(* The stream's polls, its cursor and the ids it remembers implement the   *)
(* feed: each event at most once, in order, nothing taken back.            *)
THEOREM FeedRefinement == Spec => ImplementsFeed
<1>1. Init => Feed!Init
  BY DEF Init, Feed!Init
<1>2. Init => RowsStored
  BY DEF Init, RowsStored, Items
<1> QED
  BY <1>1, <1>2, NextRowsStored, StepMaps, Invariance, PTL DEF Spec, ImplementsFeed, Feed!Spec
=============================================================================

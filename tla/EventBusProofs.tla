--------------------------- MODULE EventBusProofs ---------------------------
(***************************************************************************)
(* The event bus, for every number of publishers, clients, kinds and every *)
(* pair of ring bounds: what it archives, and that a client gets an event  *)
(* at most once and resumes without a gap.                                 *)
(***************************************************************************)
EXTENDS EventBus, SequenceTheorems, WellFoundedInduction, TLAPS

\* What trimming keeps: a suffix within the ring's capacity.
LEMMA ArchiveSuffix ==
  ASSUME NEW S, NEW s \in Seq(S), NEW r \in Archive(s)
  PROVE  /\ r \in Seq(S)
         /\ Len(r) <= Len(s) /\ Len(r) <= RingCapacity
         /\ \A i \in 1..Len(r) : r[i] = s[Len(s) - Len(r) + i]
<1>1. PICK i \in KeptFrom(s) : r = SubSeq(s, i, Len(s))
  BY DEF Archive
<1>2. /\ Len(s) \in Nat /\ i \in 1..(Len(s) + 1)
      /\ i = Len(s) + 1 \/ Len(SubSeq(s, i, Len(s))) <= RingCapacity
  BY DEF KeptFrom, Fits
<1>3. /\ r \in Seq(S)
      /\ Len(r) = Len(s) - i + 1
      /\ \A j \in 1..Len(r) : r[j] = s[i + j - 1]
  <2>1. CASE i = Len(s) + 1
    <3>1. r = <<>>
      BY <1>1, <1>2, <2>1, SubSeqEmpty
    <3>. QED
      BY <3>1, <2>1, <1>2
  <2>2. CASE i # Len(s) + 1
    <3>1. i \in 1..Len(s) /\ i <= Len(s)
      BY <1>2, <2>2
    <3>2. \A k \in i..Len(s) : s[k] \in S
      BY <1>2
    <3>. QED
      BY <1>1, <1>2, <3>1, <3>2
  <2>. QED
    BY <2>1, <2>2
<1>4. i + Len(r) = Len(s) + 1
  BY <1>2, <1>3
<1>5. \A j \in 1..Len(r) : r[j] = s[Len(s) - Len(r) + j]
  BY <1>2, <1>3, <1>4
<1>6. Len(r) <= RingCapacity
  BY <1>1, <1>2, <1>3, EventBusAssumption
<1>. QED
  BY <1>2, <1>3, <1>4, <1>5, <1>6

\* The part of the state the archive depends on.
ArchiveInv ==
  /\ next_seq \in Nat \ {0}
  /\ ring \in Seq([seq : Nat, kind : Kinds, from : Nat, to : Nat])
  /\ kindOf \in Seq(Kinds) /\ Len(kindOf) = next_seq - 1
  /\ Len(ring) <= next_seq - 1
  /\ RingContiguous

\* The archive is empty at the start.
LEMMA ArchiveInit == Init => ArchiveInv
<1> SUFFICES ASSUME Init PROVE ArchiveInv
  OBVIOUS
<1>1. next_seq = 1 /\ ring = <<>> /\ kindOf = <<>>
  BY DEF Init
<1>. QED
  BY <1>1, EventBusAssumption DEF ArchiveInv, RingContiguous

\* What is stamped is archived behind what is there.
LEMMA ArchiveStamp ==
  ASSUME ArchiveInv, NEW p \in Publishers, NEW k \in Kinds, PublishStamp(p, k)
  PROVE  ArchiveInv'
<1> DEFINE Archived == [seq : Nat, kind : Kinds, from : Nat, to : Nat]
           s == Append(ring, Event(next_seq, k))
<1>1. /\ next_seq \in Nat \ {0} /\ ring \in Seq(Archived) /\ kindOf \in Seq(Kinds)
      /\ Len(kindOf) = next_seq - 1 /\ Len(ring) <= next_seq - 1
      /\ \A i \in DOMAIN ring : /\ ring[i].seq = next_seq - 1 - Len(ring) + i
                                /\ ring[i].kind = kindOf[ring[i].seq]
  BY DEF ArchiveInv, RingContiguous
<1>2. next_seq' = next_seq + 1 /\ ring' \in Archive(s) /\ kindOf' = Append(kindOf, k)
  BY DEF PublishStamp
<1>3. Event(next_seq, k) \in Archived /\ Event(next_seq, k).seq = next_seq
      /\ Event(next_seq, k).kind = k
  BY <1>1 DEF Event
<1>4. /\ s \in Seq(Archived) /\ Len(s) = Len(ring) + 1 /\ Len(ring) \in Nat
      /\ s[Len(ring) + 1] = Event(next_seq, k)
      /\ \A i \in 1..Len(ring) : s[i] = ring[i]
  BY <1>1, <1>3
<1>K. /\ kindOf'[next_seq] = k
      /\ \A n \in 1..(next_seq - 1) : kindOf'[n] = kindOf[n]
  BY <1>1, <1>2
<1> HIDE DEF s, Archived
<1>5. \A i \in 1..Len(s) : /\ s[i].seq = next_seq - Len(s) + i
                           /\ s[i].kind = kindOf'[s[i].seq]
  <2> SUFFICES ASSUME NEW i \in 1..Len(s)
               PROVE  s[i].seq = next_seq - Len(s) + i /\ s[i].kind = kindOf'[s[i].seq]
    OBVIOUS
  <2>1. CASE i = Len(ring) + 1
    BY <2>1, <1>1, <1>3, <1>4, <1>K
  <2>2. CASE i \in 1..Len(ring)
    <3>1. /\ s[i] = ring[i] /\ ring[i].seq = next_seq - 1 - Len(ring) + i
          /\ ring[i].kind = kindOf[ring[i].seq]
      BY <1>1, <1>4, <2>2
    <3>2. ring[i].seq \in 1..(next_seq - 1)
      BY <1>1, <1>4, <3>1, <2>2
    <3>3. ring[i].kind = kindOf'[ring[i].seq]
      BY <3>1, <3>2, <1>K
    <3>. QED
      BY <3>1, <3>3, <1>1, <1>4
  <2>. QED
    BY <2>1, <2>2, <1>4
<1>6. /\ ring' \in Seq(Archived) /\ Len(ring') <= Len(s) /\ Len(ring') <= RingCapacity
      /\ \A i \in 1..Len(ring') : ring'[i] = s[Len(s) - Len(ring') + i]
  BY <1>2, <1>4, ArchiveSuffix
<1>7. \A i \in DOMAIN ring' : /\ ring'[i].seq = next_seq' - 1 - Len(ring') + i
                              /\ ring'[i].kind = kindOf'[ring'[i].seq]
  <2> SUFFICES ASSUME NEW i \in DOMAIN ring'
               PROVE  /\ ring'[i].seq = next_seq' - 1 - Len(ring') + i
                      /\ ring'[i].kind = kindOf'[ring'[i].seq]
    OBVIOUS
  <2>1. Len(ring') \in Nat /\ Len(s) \in Nat /\ i \in 1..Len(ring')
    BY <1>6, <1>4
  <2>2. Len(s) - Len(ring') + i \in 1..Len(s)
    BY <2>1, <1>6
  <2>3. /\ ring'[i] = s[Len(s) - Len(ring') + i]
        /\ ring'[i].seq = next_seq - Len(s) + (Len(s) - Len(ring') + i)
        /\ ring'[i].kind = kindOf'[ring'[i].seq]
    BY <2>1, <2>2, <1>5, <1>6
  <2>4. next_seq \in Nat /\ next_seq' = next_seq + 1
    BY <1>1, <1>2
  <2>5. next_seq' - 1 - Len(ring') + i = next_seq - Len(s) + (Len(s) - Len(ring') + i)
    BY ONLY <2>1, <2>4
  <2>. QED
    BY ONLY <2>3, <2>5
<1>8. kindOf' \in Seq(Kinds) /\ Len(kindOf') = next_seq' - 1
  BY <1>1, <1>2
<1>9. Len(ring') <= next_seq' - 1
  BY <1>1, <1>2, <1>4, <1>6
<1>10. RingContiguous'
  BY <1>6, <1>7 DEF RingContiguous
<1>11. next_seq' \in Nat \ {0}
  BY <1>1, <1>2
<1>. QED
  BY <1>6, <1>8, <1>9, <1>10, <1>11 DEF ArchiveInv, Archived

\* No other step touches it, but for a restart.
LEMMA ArchiveNext == ArchiveInv /\ [Next]_vars => ArchiveInv'
<1> SUFFICES ASSUME ArchiveInv, [Next]_vars PROVE ArchiveInv'
  OBVIOUS
<1>1. ASSUME NEW p \in Publishers, NEW k \in Kinds, PublishStamp(p, k)
      PROVE  ArchiveInv'
  BY <1>1, ArchiveStamp
<1>2. CASE Restart
  <2>1. next_seq' = 1 /\ ring' = <<>> /\ kindOf' = <<>>
    BY <1>2 DEF Restart
  <2>. QED
    BY <2>1, EventBusAssumption DEF ArchiveInv, RingContiguous
<1>3. CASE UNCHANGED <<next_seq, ring, kindOf>>
  BY <1>3 DEF ArchiveInv, RingContiguous
<1>4. ASSUME NEW p \in Publishers, NEW id \in publishing[p].targets, PublishPush(p, id)
      PROVE  UNCHANGED <<next_seq, ring, kindOf>>
  BY <1>4 DEF PublishPush
<1>5. ASSUME NEW c \in Clients, Subscribe(c) \/ Forward(c) \/ Route(c) \/ Disconnect(c)
      PROVE  UNCHANGED <<next_seq, ring, kindOf>>
  BY <1>5 DEF Subscribe, Forward, Route, Disconnect
<1>. QED
  BY <1>1, <1>2, <1>3, <1>4, <1>5 DEF Next, vars

\* The replay ring never has a hole: after any interleaving of publishers,
\* subscriptions and restarts it is exactly the newest published events, in
\* order (publish stamps and archives under one lock).
THEOREM RingIsContiguous == Spec => []RingContiguous
<1>1. ArchiveInv => RingContiguous
  BY DEF ArchiveInv
<1>. QED
  BY <1>1, ArchiveInit, ArchiveNext, PTL DEF Spec

-----------------------------------------------------------------------------
(***************************************************************************)
(* Frames under way.                                                       *)
(***************************************************************************)
FrameType ==
  {f \in [seq : Nat, kind : Kinds \union {EventsDropped}, from : Nat, to : Nat] :
     f.seq # 0 <=> f.kind \in Kinds}
QueueType == [queue : Seq(FrameType), dropped : Nat, first : Nat, last : Nat]

\* The seqs in a sequence of frames; a marker has none.
Nums(s) == {s[i].seq : i \in DOMAIN s} \ {0}

Distinct(s) == \A i, j \in DOMAIN s : s[i].seq = s[j].seq /\ s[i].seq # 0 => i = j

\* A frame is queued behind the others.
LEMMA NumsAppend ==
  ASSUME NEW s \in Seq(FrameType), NEW e \in FrameType
  PROVE  /\ Append(s, e) \in Seq(FrameType) /\ Append(s, e) # <<>>
         /\ Len(Append(s, e)) = Len(s) + 1
         /\ Nums(Append(s, e)) = (Nums(s) \union {e.seq}) \ {0}
         /\ Distinct(s) /\ e.seq \notin Nums(s) => Distinct(Append(s, e))
<1> DEFINE u == Append(s, e)
<1>1. PICK n \in Nat : /\ n = Len(s) /\ DOMAIN s = 1..n /\ DOMAIN u = 1..(n + 1)
                       /\ \A i \in 1..n : u[i] = s[i]
                       /\ u[n + 1] = e /\ Len(u) = n + 1
                       /\ u \in Seq(FrameType) /\ u # <<>>
  BY AppendProperties, LenProperties
<1> HIDE DEF u
<1>2. Nums(u) = (Nums(s) \union {e.seq}) \ {0}
  <2>1. ASSUME NEW x \in Nums(u) PROVE x \in (Nums(s) \union {e.seq}) \ {0}
    <3>1. PICK i \in 1..(n + 1) : u[i].seq = x /\ x # 0
      BY <1>1, <2>1 DEF Nums
    <3>2. CASE i = n + 1
      BY <1>1, <3>1, <3>2
    <3>3. CASE i # n + 1
      <4>1. i \in DOMAIN s /\ s[i].seq = x
        BY <1>1, <3>1, <3>3
      <4> QED BY <3>1, <4>1 DEF Nums
    <3> QED BY <3>2, <3>3
  <2>2. ASSUME NEW x \in Nums(s) PROVE x \in Nums(u)
    <3>1. PICK i \in 1..n : s[i].seq = x /\ x # 0
      BY <1>1, <2>2 DEF Nums
    <3>2. i \in DOMAIN u /\ u[i].seq = x
      BY <1>1, <3>1
    <3> QED BY <3>1, <3>2 DEF Nums
  <2>3. e.seq # 0 => e.seq \in Nums(u)
    <3>1. n + 1 \in DOMAIN u /\ u[n + 1].seq = e.seq
      BY <1>1
    <3> QED BY <3>1 DEF Nums
  <2>4. 0 \notin Nums(u) /\ 0 \notin Nums(s)
    BY DEF Nums
  <2> QED BY <2>1, <2>2, <2>3, <2>4
<1>3. ASSUME Distinct(s), e.seq \notin Nums(s) PROVE Distinct(u)
  <2> SUFFICES ASSUME NEW i \in DOMAIN u, NEW j \in DOMAIN u,
                      u[i].seq = u[j].seq, u[i].seq # 0
               PROVE  i = j
    BY DEF Distinct
  <2>1. \A k \in 1..n : s[k].seq # 0 => s[k].seq # e.seq
    BY <1>1, <1>3 DEF Nums
  <2>2. i \in 1..n \/ i = n + 1
    BY <1>1
  <2>3. j \in 1..n \/ j = n + 1
    BY <1>1
  <2>4. CASE i \in 1..n /\ j \in 1..n
    BY <1>1, <1>3, <2>4 DEF Distinct
  <2>5. CASE i \in 1..n /\ j = n + 1
    BY <1>1, <2>1, <2>5
  <2>6. CASE i = n + 1 /\ j \in 1..n
    BY <1>1, <2>1, <2>6
  <2> QED BY <2>2, <2>3, <2>4, <2>5, <2>6
<1> QED BY <1>1, <1>2, <1>3 DEF u

\* The first frame is taken off.
LEMMA NumsTail ==
  ASSUME NEW s \in Seq(FrameType), s # <<>>
  PROVE  /\ Head(s) \in FrameType /\ Tail(s) \in Seq(FrameType)
         /\ Len(Tail(s)) = Len(s) - 1
         /\ Nums(s) = (Nums(Tail(s)) \union {Head(s).seq}) \ {0}
         /\ Distinct(s) => Distinct(Tail(s)) /\ Head(s).seq \notin Nums(Tail(s))
<1> DEFINE u == Tail(s)
           h == Head(s)
<1>1. PICK n \in Nat : /\ Len(u) = n /\ Len(s) = n + 1
                       /\ DOMAIN u = 1..n /\ DOMAIN s = 1..(n + 1)
                       /\ \A i \in 1..n : u[i] = s[i + 1]
                       /\ h = s[1] /\ h \in FrameType /\ u \in Seq(FrameType)
  <2>1. /\ u \in Seq(FrameType) /\ Len(u) = Len(s) - 1
        /\ \A i \in 1..Len(u) : u[i] = s[i + 1]
    BY HeadTailProperties
  <2>2. h = s[1] /\ h \in FrameType
    BY HeadTailProperties
  <2>3. Len(s) \in Nat /\ Len(s) # 0 /\ DOMAIN s = 1..Len(s)
    BY EmptySeq, LenProperties
  <2>4. Len(u) \in Nat /\ DOMAIN u = 1..Len(u)
    BY <2>1, LenProperties
  <2> HIDE DEF u, h
  <2>5. WITNESS Len(u) \in Nat
  <2> QED BY <2>1, <2>2, <2>3, <2>4
<1> HIDE DEF u, h
<1>2. Nums(s) = (Nums(u) \union {h.seq}) \ {0}
  <2>1. ASSUME NEW x \in Nums(s) PROVE x \in (Nums(u) \union {h.seq}) \ {0}
    <3>1. PICK i \in 1..(n + 1) : s[i].seq = x /\ x # 0
      BY <1>1, <2>1 DEF Nums
    <3>2. CASE i = 1
      BY <1>1, <3>1, <3>2
    <3>3. CASE i # 1
      <4>1. i - 1 \in DOMAIN u /\ u[i - 1].seq = x
        <5>1. i - 1 \in 1..n /\ (i - 1) + 1 = i
          BY <3>3
        <5> QED BY <1>1, <3>1, <5>1
      <4> QED BY <3>1, <4>1 DEF Nums
    <3> QED BY <3>2, <3>3
  <2>2. ASSUME NEW x \in Nums(u) PROVE x \in Nums(s)
    <3>1. PICK i \in 1..n : u[i].seq = x /\ x # 0
      BY <1>1, <2>2 DEF Nums
    <3>2. i + 1 \in DOMAIN s /\ s[i + 1].seq = x
      BY <1>1, <3>1
    <3> QED BY <3>1, <3>2 DEF Nums
  <2>3. h.seq # 0 => h.seq \in Nums(s)
    <3>1. 1 \in DOMAIN s /\ s[1].seq = h.seq
      BY <1>1
    <3> QED BY <3>1 DEF Nums
  <2>4. 0 \notin Nums(u) /\ 0 \notin Nums(s)
    BY DEF Nums
  <2> QED BY <2>1, <2>2, <2>3, <2>4
<1>3. ASSUME Distinct(s) PROVE Distinct(u) /\ h.seq \notin Nums(u)
  <2>1. Distinct(u)
    <3> SUFFICES ASSUME NEW i \in DOMAIN u, NEW j \in DOMAIN u,
                        u[i].seq = u[j].seq, u[i].seq # 0
                 PROVE  i = j
      BY DEF Distinct
    <3>1. /\ i \in 1..n /\ j \in 1..n
          /\ i + 1 \in DOMAIN s /\ j + 1 \in DOMAIN s
      BY <1>1
    <3>2. u[i] = s[i + 1] /\ u[j] = s[j + 1]
      BY <1>1, <3>1
    <3>3. i + 1 = j + 1
      BY <1>3, <3>1, <3>2 DEF Distinct
    <3> QED BY <3>1, <3>3
  <2>2. ASSUME h.seq \in Nums(u) PROVE FALSE
    <3>1. PICK i \in 1..n : u[i].seq = h.seq /\ h.seq # 0
      BY <1>1, <2>2 DEF Nums
    <3>2. i + 1 \in DOMAIN s /\ 1 \in DOMAIN s /\ s[i + 1].seq = s[1].seq /\ s[1].seq # 0
      BY <1>1, <3>1
    <3>3. i + 1 = 1
      BY <1>3, <3>2 DEF Distinct
    <3> QED BY <3>1, <3>3
  <2> QED BY <2>1, <2>2
<1> QED BY <1>1, <1>2, <1>3 DEF u, h

\* Nothing is in an empty sequence.
LEMMA NumsEmpty == Nums(<<>>) = {} /\ Distinct(<<>>) /\ <<>> \in Seq(FrameType)
BY DEF Nums, Distinct

\* push loses what it evicts, and no other event.
LEMMA PushNums ==
  ASSUME NEW q \in QueueType, NEW e \in FrameType, Distinct(q.queue), e.seq \notin Nums(q.queue)
  PROVE  /\ Push(q, e) \in QueueType
         /\ Distinct(Push(q, e).queue)
         /\ Nums(Push(q, e).queue) = ((Nums(q.queue) \ EvictedBy(q)) \union {e.seq}) \ {0}
<1> DEFINE r == MakeRoom(q)
<1>1. /\ q.queue \in Seq(FrameType) /\ q.dropped \in Nat /\ q.first \in Nat /\ q.last \in Nat
      /\ Len(q.queue) \in Nat
  BY DEF QueueType
<1>2. /\ r \in QueueType /\ Distinct(r.queue)
      /\ Nums(r.queue) = Nums(q.queue) \ EvictedBy(q)
  <2>1. CASE Len(q.queue) >= SubscriberCapacity
    <3>1. q.queue # <<>>
      BY <1>1, <2>1, EmptySeq, EventBusAssumption
    <3>2. /\ Head(q.queue) \in FrameType /\ Tail(q.queue) \in Seq(FrameType)
          /\ Nums(q.queue) = (Nums(Tail(q.queue)) \union {Head(q.queue).seq}) \ {0}
          /\ Distinct(Tail(q.queue)) /\ Head(q.queue).seq \notin Nums(Tail(q.queue))
      BY <1>1, <3>1, NumsTail
    <3>3. r = Evict(q) /\ EvictedBy(q) = {Head(q.queue).seq} \ {0}
      BY <2>1 DEF MakeRoom, EvictedBy
    <3>4. Head(q.queue).seq \in Nat
      BY <3>2 DEF FrameType
    <3>5. r.queue = Tail(q.queue) /\ r \in QueueType
      BY <1>1, <3>2, <3>3, <3>4 DEF Evict, QueueType
    <3>6. 0 \notin Nums(Tail(q.queue))
      BY DEF Nums
    <3> QED BY <3>2, <3>3, <3>5, <3>6
  <2>2. CASE ~(Len(q.queue) >= SubscriberCapacity) /\ q.dropped > 0
    <3> DEFINE m == Marker(q.first, q.last)
    <3>1. m \in FrameType /\ m.seq = 0
      BY <1>1, EventBusAssumption DEF Marker, FrameType
    <3>2. r = Report(q) /\ EvictedBy(q) = {}
      BY <2>2 DEF MakeRoom, EvictedBy
    <3>3. r.queue = Append(q.queue, m) /\ r \in QueueType
      <4>1. r = [q EXCEPT !.queue = Append(q.queue, m), !.dropped = 0]
        BY <3>2 DEF Report
      <4>2. Append(q.queue, m) \in Seq(FrameType)
        BY <1>1, <3>1
      <4> HIDE DEF r, m
      <4>3. q = [queue |-> q.queue, dropped |-> q.dropped, first |-> q.first, last |-> q.last]
        BY DEF QueueType
      <4>4. r = [queue |-> Append(q.queue, m), dropped |-> 0, first |-> q.first,
                 last |-> q.last]
        BY ONLY <4>1, <4>3
      <4> QED BY ONLY <1>1, <4>2, <4>4 DEF QueueType
    <3>4. 0 \notin Nums(q.queue)
      BY DEF Nums
    <3>5. Distinct(r.queue) /\ Nums(r.queue) = (Nums(q.queue) \union {0}) \ {0}
      <4> HIDE DEF m, r
      <4> QED BY <1>1, <3>1, <3>3, <3>4, NumsAppend
    <3> QED BY <3>2, <3>3, <3>4, <3>5
  <2>3. CASE ~(Len(q.queue) >= SubscriberCapacity) /\ ~(q.dropped > 0)
    <3>1. r = q /\ EvictedBy(q) = {}
      BY <2>3 DEF MakeRoom, EvictedBy
    <3> QED BY <3>1
  <2> QED BY <2>1, <2>2, <2>3
<1>3. Push(q, e) = [r EXCEPT !.queue = Append(r.queue, e)]
  BY DEF Push
<1> HIDE DEF r
<1>4. r.queue \in Seq(FrameType)
  BY <1>2 DEF QueueType
<1>5. e.seq \notin Nums(r.queue)
  BY <1>2
<1>6. /\ Append(r.queue, e) \in Seq(FrameType) /\ Distinct(Append(r.queue, e))
      /\ Nums(Append(r.queue, e)) = (Nums(r.queue) \union {e.seq}) \ {0}
  BY <1>2, <1>4, <1>5, NumsAppend
<1>7. Push(q, e).queue = Append(r.queue, e) /\ Push(q, e) \in QueueType
  BY <1>2, <1>3, <1>6 DEF QueueType
<1> QED BY <1>2, <1>6, <1>7

\* A queue with room, and nothing to report, takes the event and that is all.
LEMMA PushRoom ==
  ASSUME NEW q \in QueueType, NEW e \in FrameType, q.dropped = 0,
         Len(q.queue) < SubscriberCapacity
  PROVE  /\ Push(q, e).dropped = 0 /\ EvictedBy(q) = {}
         /\ Len(Push(q, e).queue) = Len(q.queue) + 1
<1>1. q.queue \in Seq(FrameType) /\ Len(q.queue) \in Nat /\ SubscriberCapacity \in Nat
  BY EventBusAssumption DEF QueueType
<1>2. MakeRoom(q) = q /\ EvictedBy(q) = {}
  BY <1>1 DEF MakeRoom, EvictedBy
<1>3. Push(q, e) = [q EXCEPT !.queue = Append(q.queue, e)]
  BY <1>2 DEF Push
<1>4. Push(q, e).dropped = q.dropped /\ Push(q, e).queue = Append(q.queue, e)
  BY <1>3 DEF QueueType
<1> QED BY <1>1, <1>2, <1>4, NumsAppend

\* What the ring holds: frames numbered without a hole, none from the future.
RingShape ==
  /\ next_seq \in Nat \ {0}
  /\ ring \in Seq(FrameType) /\ Len(ring) <= RingCapacity /\ Len(ring) <= next_seq - 1
  /\ \A i \in 1..Len(ring) : /\ ring[i].seq = next_seq - 1 - Len(ring) + i
                             /\ ring[i].kind \in Kinds /\ ring[i].kind = kindOf[ring[i].seq]

\* The archive, place by place.
LEMMA RingHasShape == ArchiveInv => RingShape
<1> SUFFICES ASSUME ArchiveInv PROVE RingShape
  OBVIOUS
<1>1. /\ ring \in Seq([seq : Nat, kind : Kinds, from : Nat, to : Nat])
      /\ Len(ring) <= RingCapacity /\ DOMAIN ring = 1..Len(ring)
      /\ \A i \in DOMAIN ring : /\ ring[i].seq = next_seq - 1 - Len(ring) + i
                                /\ ring[i].kind = kindOf[ring[i].seq]
  BY DEF ArchiveInv, RingContiguous
<1>2. \A i \in 1..Len(ring) : ring[i] \in FrameType /\ ring[i].kind \in Kinds
  <2> SUFFICES ASSUME NEW i \in 1..Len(ring) PROVE ring[i] \in FrameType /\ ring[i].kind \in Kinds
    OBVIOUS
  <2>1. ring[i] \in [seq : Nat, kind : Kinds, from : Nat, to : Nat]
    BY <1>1, ElementOfSeq
  <2>2. ring[i].seq # 0
    <3>1. ring[i].seq = next_seq - 1 - Len(ring) + i
      BY <1>1
    <3>2. next_seq \in Nat /\ Len(ring) \in Nat /\ Len(ring) <= next_seq - 1
      BY <1>1 DEF ArchiveInv
    <3> QED BY <3>1, <3>2
  <2> QED BY <2>1, <2>2 DEF FrameType
<1>3. ring \in Seq(FrameType)
  <2>1. Len(ring) \in Nat /\ ring = [i \in 1..Len(ring) |-> ring[i]]
    BY <1>1
  <2> QED BY <1>2, <2>1, IsASeq
<1> QED BY <1>1, <1>2, <1>3 DEF RingShape, ArchiveInv

\* A set of naturals that is not empty has a least member.
LEMMA Least ==
  ASSUME NEW T \in SUBSET Nat, T # {}
  PROVE  \E m \in T : \A k \in T : m <= k
<1> DEFINE R == {p \in Nat \X Nat : p[1] < p[2]}
<1>1. IsWellFoundedOn(R, Nat)
  BY NatLessThanWellFounded DEF OpToRel
<1> HIDE DEF R
<1>2. \E m \in T : \A k \in T : <<k, m>> \notin R
  BY <1>1, WFMin, Zenon
<1>3. PICK m \in T : \A k \in T : <<k, m>> \notin R
  BY <1>2
<1>4. ASSUME NEW k \in T PROVE m <= k
  <2>1. <<k, m>> \notin R /\ k \in Nat /\ m \in Nat
    BY <1>3
  <2>2. k < m => <<k, m>> \in R
    BY <2>1 DEF R
  <2> QED BY <2>1, <2>2
<1> QED BY <1>4

\* Induction over the naturals, of a set instead of an operator.
LEMMA SetInduction ==
  ASSUME NEW T, 0 \in T, \A n \in Nat : n \in T => n + 1 \in T
  PROVE  \A n \in Nat : n \in T
<1> SUFFICES ASSUME NEW n \in Nat, n \notin T PROVE FALSE
  OBVIOUS
<1> DEFINE B == {k \in Nat : k \notin T}
<1>1. PICK m \in B : \A k \in B : m <= k
  BY Least
<1>2. m \in Nat /\ m \notin T /\ m # 0 /\ m - 1 \in Nat
  BY <1>1
<1>3. m - 1 \in T
  BY <1>1, <1>2
<1>4. (m - 1) + 1 \in T
  BY <1>2, <1>3
<1> QED BY <1>2, <1>4

\* A replay is a run of pushes, one for each event in the ring that passes.
LEMMA ReplayRuns ==
  ASSUME NEW c, NEW since, Len(ring) \in Nat
  PROVE  \E g : /\ g = [i \in 0..Len(ring) |->
                          IF i = 0 THEN NewQueue
                          ELSE IF Missed(since, ring[i]) /\ admits(c, ring[i])
                          THEN Push(g[i - 1], ring[i]) ELSE g[i - 1]]
                /\ Replayed(c, since) = g[Len(ring)]
<1> DEFINE step(q, i) == IF Missed(since, ring[i]) /\ admits(c, ring[i])
                         THEN Push(q, ring[i]) ELSE q
           F(g, m) == g = [i \in 0..m |->
                             IF i = 0 THEN NewQueue
                             ELSE IF Missed(since, ring[i]) /\ admits(c, ring[i])
                             THEN Push(g[i - 1], ring[i]) ELSE g[i - 1]]
           T == {n \in Nat : \E g : F(g, n)}
<1>1. Replayed(c, since) = (CHOOSE g : F(g, Len(ring)))[Len(ring)]
  BY DEF Replayed
<1>2. 0 \in T
  <2> DEFINE g == [i \in 0..0 |-> NewQueue]
  <2>1. F(g, 0)
    OBVIOUS
  <2>2. \E h : F(h, 0)
    BY <2>1
  <2> QED BY <2>2
<1>3. ASSUME NEW n \in Nat, n \in T PROVE n + 1 \in T
  <2>1. PICK g : F(g, n)
    BY <1>3
  <2> DEFINE h == [i \in 0..(n + 1) |-> IF i = n + 1 THEN step(g[n], n + 1) ELSE g[i]]
  <2>2. ASSUME NEW i \in 0..(n + 1)
        PROVE  h[i] = IF i = 0 THEN NewQueue
                      ELSE IF Missed(since, ring[i]) /\ admits(c, ring[i])
                      THEN Push(h[i - 1], ring[i]) ELSE h[i - 1]
    <3>1. CASE i = n + 1
      <4>1. i - 1 = n /\ i - 1 \in 0..(n + 1) /\ i - 1 # n + 1 /\ i # 0
        BY <3>1
      <4>2. h[i - 1] = g[n]
        BY <4>1
      <4> QED BY <3>1, <4>1, <4>2
    <3>2. CASE i # n + 1
      <4>1. i \in 0..n /\ (i # 0 => i - 1 \in 0..(n + 1) /\ i - 1 # n + 1)
        BY <3>2
      <4>2. g[i] = IF i = 0 THEN NewQueue
                   ELSE IF Missed(since, ring[i]) /\ admits(c, ring[i])
                   THEN Push(g[i - 1], ring[i]) ELSE g[i - 1]
        BY <2>1, <4>1
      <4> QED BY <3>2, <4>1, <4>2
    <3> QED BY <3>1, <3>2
  <2>3. F(h, n + 1)
    BY <2>2
  <2>4. \E k : F(k, n + 1)
    BY <2>3
  <2> QED BY <2>4
<1>4. Len(ring) \in T
  <2> HIDE DEF T
  <2>1. \A n \in Nat : n \in T
    BY <1>2, <1>3, SetInduction
  <2> QED BY <2>1
<1>5. F(CHOOSE g : F(g, Len(ring)), Len(ring))
  BY <1>4
<1> QED BY <1>1, <1>5

\* A resume gets every event after since that the ring holds and the filter
\* admits, once, and no other.
LEMMA ReplayedIs ==
  ASSUME RingShape, NEW c \in Clients, NEW since \in Nat
  PROVE  /\ Replayed(c, since) \in QueueType /\ Distinct(Replayed(c, since).queue)
         /\ \A m \in Nums(Replayed(c, since).queue) : m > since /\ m \in 1..(next_seq - 1)
         /\ \A i \in 1..Len(ring) :
              ring[i].seq > since /\ ring[i].kind \in Wanted[c] =>
                ring[i].seq \in Nums(Replayed(c, since).queue)
<1> DEFINE Passes(i) == Missed(since, ring[i]) /\ admits(c, ring[i])
<1>1. PICK L \in Nat : L = Len(ring)
  BY DEF RingShape
<1>2. PICK g : /\ g = [i \in 0..L |->
                         IF i = 0 THEN NewQueue
                         ELSE IF Missed(since, ring[i]) /\ admits(c, ring[i])
                         THEN Push(g[i - 1], ring[i]) ELSE g[i - 1]]
               /\ Replayed(c, since) = g[L]
  BY <1>1, ReplayRuns
<1>3. /\ next_seq \in Nat \ {0} /\ L <= RingCapacity /\ L <= next_seq - 1
      /\ RingCapacity \in Nat /\ SubscriberCapacity \in Nat /\ RingCapacity <= SubscriberCapacity
  BY <1>1, EventBusAssumption DEF RingShape
<1>4. \A i \in 1..L : /\ ring[i].seq = next_seq - 1 - L + i /\ ring[i].kind \in Kinds
                      /\ ring[i] \in FrameType
  <2>1. \A i \in 1..L : ring[i] \in FrameType
    BY <1>1, ElementOfSeq DEF RingShape
  <2> QED BY <1>1, <2>1 DEF RingShape
<1> DEFINE Good(i) ==
      /\ g[i] \in QueueType /\ g[i].dropped = 0 /\ Len(g[i].queue) <= i
      /\ Distinct(g[i].queue)
      /\ \A m \in Nums(g[i].queue) : \E j \in 1..i : ring[j].seq = m /\ m > since
      /\ \A j \in 1..i : Passes(j) => ring[j].seq \in Nums(g[i].queue)
           T == {i \in Nat : i <= L => Good(i)}
<1>5. Good(0)
  <2>1. g[0] = NewQueue
    BY <1>2
  <2>2. NewQueue \in QueueType /\ NewQueue.dropped = 0 /\ NewQueue.queue = <<>>
    BY NumsEmpty DEF NewQueue, QueueType
  <2>3. Len(<<>>) <= 0
    OBVIOUS
  <2>4. \A j \in 1..0 : FALSE
    OBVIOUS
  <2> QED BY <2>1, <2>2, <2>3, <2>4, NumsEmpty
<1>6. ASSUME NEW i \in Nat, i + 1 <= L, Good(i) PROVE Good(i + 1)
  <2> DEFINE n == i + 1
  <2> SUFFICES Good(n)
    OBVIOUS
  <2>1. /\ n \in 1..L /\ n \in 0..L /\ n # 0 /\ n - 1 = i /\ n \in 1..n
        /\ \A j \in 1..n : j \in 1..i \/ j = n
        /\ \A j \in 1..i : j \in 1..n
    BY <1>6
  <2>2. g[n] = IF Passes(n) THEN Push(g[i], ring[n]) ELSE g[i]
    BY <1>2, <2>1
  <2>3. /\ g[i] \in QueueType /\ g[i].dropped = 0 /\ Len(g[i].queue) <= i
        /\ g[i].queue \in Seq(FrameType) /\ Len(g[i].queue) \in Nat
    BY <1>6 DEF QueueType
  <2>4. CASE ~Passes(n)
    <3>1. g[n] = g[i]
      BY <2>2, <2>4
    <3>2. Len(g[n].queue) <= n
      BY <2>3, <3>1
    <3>3. \A m \in Nums(g[n].queue) : \E j \in 1..n : ring[j].seq = m /\ m > since
      BY <1>6, <2>1, <3>1
    <3>4. \A j \in 1..n : Passes(j) => ring[j].seq \in Nums(g[n].queue)
      BY <1>6, <2>1, <2>4, <3>1
    <3> HIDE DEF Passes, n
    <3> QED BY <1>6, <2>3, <3>1, <3>2, <3>3, <3>4
  <2>5. CASE Passes(n)
    <3>1. g[n] = Push(g[i], ring[n])
      BY <2>2, <2>5
    <3>2. Len(g[i].queue) < SubscriberCapacity
      BY <1>3, <1>6, <2>3
    <3>3. ring[n] \in FrameType /\ ring[n].seq > since /\ ring[n].seq # 0
      <4>1. ring[n].seq = next_seq - 1 - L + n
        BY <1>4, <2>1
      <4>2. next_seq - 1 - L + n # 0
        BY <1>3, <2>1
      <4> QED BY <1>4, <2>1, <2>5, <4>1, <4>2 DEF Missed
    <3>4. ring[n].seq \notin Nums(g[i].queue)
      <4> SUFFICES ASSUME ring[n].seq \in Nums(g[i].queue) PROVE FALSE
        OBVIOUS
      <4>1. PICK j \in 1..i : ring[j].seq = ring[n].seq
        BY <1>6
      <4>2. j \in 1..L /\ j # n
        BY <1>6
      <4>3. ring[j].seq = next_seq - 1 - L + j /\ ring[n].seq = next_seq - 1 - L + n
        BY <1>4, <2>1, <4>2
      <4>4. next_seq - 1 - L + j = next_seq - 1 - L + n
        BY <4>1, <4>3
      <4>5. j \in Nat /\ n \in Nat /\ next_seq \in Nat
        BY <1>3
      <4> HIDE DEF n
      <4> QED BY ONLY L \in Nat, <4>2, <4>4, <4>5
    <3>5. /\ Push(g[i], ring[n]) \in QueueType /\ Distinct(Push(g[i], ring[n]).queue)
          /\ Nums(Push(g[i], ring[n]).queue) =
               ((Nums(g[i].queue) \ EvictedBy(g[i])) \union {ring[n].seq}) \ {0}
      BY <1>6, <2>3, <3>3, <3>4, PushNums
    <3>6. /\ Push(g[i], ring[n]).dropped = 0 /\ EvictedBy(g[i]) = {}
          /\ Len(Push(g[i], ring[n]).queue) = Len(g[i].queue) + 1
      BY <2>3, <3>2, <3>3, PushRoom
    <3>7. Nums(g[n].queue) = Nums(g[i].queue) \union {ring[n].seq}
      <4>1. 0 \notin Nums(g[i].queue)
        BY DEF Nums
      <4> QED BY <3>1, <3>3, <3>5, <3>6, <4>1
    <3>8. Len(g[n].queue) <= n
      BY <2>3, <3>1, <3>6
    <3> HIDE DEF Passes, n
    <3>9. \A m \in Nums(g[n].queue) : \E j \in 1..n : ring[j].seq = m /\ m > since
      BY <1>6, <2>1, <3>3, <3>7
    <3>10. \A j \in 1..n : Passes(j) => ring[j].seq \in Nums(g[n].queue)
      BY <1>6, <2>1, <3>7
    <3> QED BY <3>1, <3>5, <3>6, <3>8, <3>9, <3>10
  <2> QED BY <2>4, <2>5
<1>7. Good(L)
  <2>1. 0 \in T
    BY <1>5
  <2>2. ASSUME NEW i \in Nat, i \in T PROVE i + 1 \in T
    <3> HIDE DEF Good
    <3>1. i + 1 <= L => Good(i)
      BY <2>2
    <3>2. i + 1 <= L => Good(i + 1)
      BY <1>6, <3>1
    <3> QED BY <3>2
  <2> HIDE DEF T
  <2>3. \A i \in Nat : i \in T
    BY <2>1, <2>2, SetInduction
  <2>4. L \in T
    BY <2>3
  <2> USE DEF T
  <2> HIDE DEF Good
  <2> QED BY <2>4
<1>8. \A m \in Nums(g[L].queue) : m > since /\ m \in 1..(next_seq - 1)
  <2> SUFFICES ASSUME NEW m \in Nums(g[L].queue) PROVE m > since /\ m \in 1..(next_seq - 1)
    OBVIOUS
  <2>1. PICK j \in 1..L : ring[j].seq = m /\ m > since
    BY <1>7
  <2>2. m = next_seq - 1 - L + j
    BY <1>4, <2>1
  <2> QED BY <1>3, <2>1, <2>2
<1>9. ASSUME NEW i \in 1..L, ring[i].seq > since, ring[i].kind \in Wanted[c]
      PROVE  ring[i].seq \in Nums(g[L].queue)
  <2>1. Passes(i)
    BY <1>9 DEF Missed, admits
  <2> HIDE DEF Passes
  <2> QED BY <1>7, <2>1
<1> HIDE DEF Good, T
<1>10. g[L] \in QueueType /\ Distinct(g[L].queue)
  BY <1>7 DEF Good
<1> QED BY <1>1, <1>2, <1>8, <1>9, <1>10

-----------------------------------------------------------------------------
(***************************************************************************)
(* Where an event is on its way to a client.                               *)
(***************************************************************************)
\* The publishers that have yet to push to c's live queue, and their seqs.
Live(c) == {p \in Publishers : <<c, sub[c]>> \in publishing[p].targets}
Pushed(c) == {publishing[p].event.seq : p \in Live(c)}

FlowTypes ==
  /\ sub \in [Clients -> Nat] /\ connects \in [Clients -> Nat]
  /\ last_seq \in [Clients -> Nat] /\ base \in [Clients -> Nat] /\ restarts \in Nat
  /\ queues \in [Clients -> QueueType] /\ wire \in [Clients -> Seq(FrameType)]
  /\ seen \in [Clients -> SUBSET Nat] /\ evicted \in [Clients -> SUBSET Nat]
  /\ unreplayed \in [Clients -> SUBSET Nat] /\ overtaken \in [Clients -> SUBSET Nat]
  /\ publishing \in [Publishers -> [event : FrameType, targets : SUBSET (Clients \X Nat)]]

\* A queue is that of the last subscription, and none is left without one.
Subscriptions ==
  /\ \A c \in Clients :
       /\ sub[c] <= connects[c]
       /\ sub[c] = 0 => queues[c].queue = <<>> /\ wire[c] = <<>>
  /\ \A p \in Publishers : \A t \in publishing[p].targets : t[2] \in 1..connects[t[1]]

\* An event that is still to be pushed is one of the bus, and of one thread.
Publishing ==
  /\ \A p \in Publishers : publishing[p].targets # {} =>
       LET e == publishing[p].event
       IN  e.seq \in 1..(next_seq - 1) /\ e.kind \in Kinds /\ e.kind = kindOf[e.seq]
  /\ \A p, q \in Publishers :
       /\ publishing[p].targets # {} /\ publishing[q].targets # {}
       /\ publishing[p].event.seq = publishing[q].event.seq
       => p = q

\* No seq is in two of the places, and none is from the future.
Apart(q, w, S, R, n) ==
  /\ Distinct(q) /\ Distinct(w)
  /\ Nums(q) \intersect (Nums(w) \union S \union R) = {}
  /\ Nums(w) \intersect (S \union R) = {} /\ S \intersect R = {}
  /\ Nums(q) \union Nums(w) \union S \union R \subseteq 1..(n - 1)

Once(c) ==
  /\ \A m \in seen[c] : m <= last_seq[c]
  /\ Apart(queues[c].queue, wire[c], seen[c], Pushed(c), next_seq)

\* Every event c has asked for was routed, is on its way, is known to be lost
\* or is still to be replayed; and what is on its way behind a newer one that
\* was routed counts as overtaken.
OnItsWay(c) == Nums(queues[c].queue) \union Nums(wire[c]) \union Pushed(c)
Lost(c) == evicted[c] \union unreplayed[c] \union overtaken[c]
Covered(c) ==
  /\ last_seq[c] < next_seq
  /\ \A n \in (base[c] + 1)..(next_seq - 1) : kindOf[n] \in Wanted[c] =>
       \/ n \in OnItsWay(c) \union seen[c] \union Lost(c)
       \/ sub[c] = 0 /\ n > last_seq[c]
  /\ \A n \in OnItsWay(c) : n <= last_seq[c] => n \in overtaken[c]

DeliveryInv ==
  /\ ArchiveInv /\ FlowTypes /\ Subscriptions /\ Publishing
  /\ \A c \in Clients : Once(c)
  /\ restarts = 0 => \A c \in Clients : Covered(c)

\* Seqs are numbers, 0 is none.
LEMMA NumsAreNats ==
  ASSUME NEW s \in Seq(FrameType)
  PROVE  Nums(s) \subseteq Nat \ {0}
<1> SUFFICES ASSUME NEW i \in DOMAIN s PROVE s[i].seq \in Nat
  BY DEF Nums
<1>1. s[i] \in FrameType
  BY ElementOfSeq, LenProperties
<1> QED BY <1>1 DEF FrameType

\* Nothing is on its way at the start.
LEMMA DeliveryInit == Init => DeliveryInv
<1> SUFFICES ASSUME Init PROVE DeliveryInv
  OBVIOUS
<1> USE DEF Init
<1>1. NewQueue \in QueueType /\ NewQueue.queue = <<>>
  BY NumsEmpty DEF NewQueue, QueueType
<1>2. Idle \in [event : FrameType, targets : SUBSET (Clients \X Nat)] /\ Idle.targets = {}
  BY EventBusAssumption DEF Idle, Event, FrameType
<1>3. FlowTypes
  BY <1>1, <1>2, NumsEmpty DEF FlowTypes
<1>4. Subscriptions
  BY <1>1, <1>2 DEF Subscriptions
<1>5. Publishing
  BY <1>2 DEF Publishing
<1>6. \A c \in Clients : Pushed(c) = {}
  BY <1>2 DEF Pushed, Live
<1>7. \A c \in Clients : Once(c)
  BY <1>1, <1>6, NumsEmpty DEF Once, Apart
<1>8. \A c \in Clients : Covered(c)
  BY <1>1, <1>6, NumsEmpty DEF Covered, OnItsWay
<1> QED BY <1>3, <1>4, <1>5, <1>7, <1>8, ArchiveInit DEF DeliveryInv

\* Of a client nothing happens to.
LEMMA ClientStays ==
  ASSUME NEW c \in Clients, Once(c), restarts = 0 => Covered(c),
         Pushed(c)' = Pushed(c), restarts' = restarts, next_seq' = next_seq, kindOf' = kindOf,
         queues'[c] = queues[c], wire'[c] = wire[c], seen'[c] = seen[c], sub'[c] = sub[c],
         last_seq'[c] = last_seq[c], base'[c] = base[c], evicted'[c] = evicted[c],
         unreplayed'[c] = unreplayed[c], overtaken'[c] = overtaken[c]
  PROVE  Once(c)' /\ (restarts' = 0 => Covered(c)')
<1>1. OnItsWay(c)' = OnItsWay(c) /\ Lost(c)' = Lost(c)
  BY DEF OnItsWay, Lost
<1> QED BY <1>1 DEF Once, Apart, Covered

\* publish, under the lock: the new event is on its way to who is subscribed.
LEMMA DeliveryStamp ==
  ASSUME DeliveryInv, NEW p \in Publishers, NEW k \in Kinds, PublishStamp(p, k)
  PROVE  DeliveryInv'
<1> DEFINE n == next_seq
           e == Event(n, k)
<1>1. /\ FlowTypes /\ Subscriptions /\ Publishing /\ ArchiveInv /\ n \in Nat \ {0}
      /\ \A c \in Clients : Once(c)
      /\ restarts = 0 => \A c \in Clients : Covered(c)
      /\ kindOf \in Seq(Kinds) /\ Len(kindOf) = n - 1
  BY DEF DeliveryInv, ArchiveInv
<1>2. /\ publishing[p].targets = {} /\ next_seq' = n + 1
      /\ publishing' = [publishing EXCEPT ![p] = [event |-> e, targets |-> Registered]]
      /\ kindOf' = Append(kindOf, k)
      /\ UNCHANGED <<sub, queues, wire, last_seq, connects, restarts,
                     base, seen, evicted, unreplayed, overtaken>>
  BY DEF PublishStamp
<1>3. e \in FrameType /\ e.seq = n /\ e.kind = k
  BY <1>1 DEF Event, FrameType
<1>4. \A t \in Registered : /\ t \in Clients \X Nat /\ t[2] \in 1..connects[t[1]]
                            /\ t[2] = sub[t[1]]
  BY <1>1 DEF Registered, FlowTypes, Subscriptions
<1>5. \A c \in Clients : <<c, sub[c]>> \in Registered <=> sub[c] # 0
  BY DEF Registered
<1> HIDE DEF e
<1>6. /\ publishing'[p] = [event |-> e, targets |-> Registered]
      /\ \A x \in Publishers : x # p => publishing'[x] = publishing[x]
  BY <1>1, <1>2 DEF FlowTypes
<1>7. kindOf'[n] = k /\ \A m \in 1..(n - 1) : kindOf'[m] = kindOf[m]
  BY <1>1, <1>2
<1>8. FlowTypes'
  <2>1. [event |-> e, targets |-> Registered]
          \in [event : FrameType, targets : SUBSET (Clients \X Nat)]
    BY <1>3, <1>4
  <2> QED BY <1>1, <1>2, <2>1 DEF FlowTypes
<1>9. Subscriptions'
  BY <1>1, <1>2, <1>4, <1>6 DEF Subscriptions
<1>10. Publishing'
  <2>1. ASSUME NEW x \in Publishers, publishing'[x].targets # {}
        PROVE  /\ publishing'[x].event.seq \in 1..n /\ publishing'[x].event.kind \in Kinds
               /\ publishing'[x].event.kind = kindOf'[publishing'[x].event.seq]
               /\ x # p => publishing'[x].event.seq # n
    <3>1. CASE x = p
      BY <1>1, <1>3, <1>6, <1>7, <3>1
    <3>2. CASE x # p
      <4>1. publishing'[x] = publishing[x]
        BY <1>6, <3>2
      <4>2. /\ publishing[x].event.seq \in 1..(n - 1) /\ publishing[x].event.kind \in Kinds
            /\ publishing[x].event.kind = kindOf[publishing[x].event.seq]
        BY <1>1, <2>1, <4>1 DEF Publishing
      <4>3. publishing[x].event.seq \in 1..n /\ publishing[x].event.seq # n
        BY <1>1, <4>2
      <4> QED BY <1>7, <4>1, <4>2, <4>3
    <3> QED BY <3>1, <3>2
  <2>2. ASSUME NEW x \in Publishers, NEW y \in Publishers,
               publishing'[x].targets # {}, publishing'[y].targets # {},
               publishing'[x].event.seq = publishing'[y].event.seq
        PROVE  x = y
    <3>1. publishing'[p].event.seq = n
      BY <1>3, <1>6
    <3>2. x = p <=> y = p
      BY <2>1, <2>2, <3>1
    <3>3. CASE x # p /\ y # p
      BY <1>1, <1>6, <2>2, <3>3 DEF Publishing
    <3> QED BY <3>2, <3>3
  <2>3. (n + 1) - 1 = n
    BY <1>1
  <2> QED BY <1>2, <2>1, <2>2, <2>3 DEF Publishing
<1>11. ASSUME NEW c \in Clients PROVE Once(c)' /\ (restarts' = 0 => Covered(c)')
  <2>1. Pushed(c)' = Pushed(c) \union (IF sub[c] # 0 THEN {n} ELSE {})
    <3>1. Live(c)' = Live(c) \union (IF sub[c] # 0 THEN {p} ELSE {}) /\ p \notin Live(c)
      BY <1>2, <1>5, <1>6 DEF Live
    <3>2. \A x \in Live(c) : publishing'[x].event.seq = publishing[x].event.seq
      BY <1>6, <3>1 DEF Live
    <3>3. publishing'[p].event.seq = n
      BY <1>3, <1>6
    <3>4. Pushed(c)' = {publishing'[x].event.seq : x \in Live(c)'}
      BY DEF Pushed
    <3> QED BY <3>1, <3>2, <3>3, <3>4 DEF Pushed
  <2>2. Once(c) /\ (restarts = 0 => Covered(c))
    BY <1>1
  <2>3. Once(c)'
    <3>1. Apart(queues[c].queue, wire[c], seen[c], Pushed(c), n)
      BY <2>2 DEF Once
    <3>2. \A m \in Nums(queues[c].queue) \union Nums(wire[c]) \union seen[c] \union Pushed(c) :
            m \in 1..n /\ m # n
      BY <1>1, <3>1 DEF Apart
    <3>3. n \in 1..n /\ (n + 1) - 1 = n
      BY <1>1
    <3>4. Apart(queues[c].queue, wire[c], seen[c], Pushed(c)', n + 1)
      BY <2>1, <3>1, <3>2, <3>3 DEF Apart
    <3> QED BY <1>2, <2>2, <3>4 DEF Once
  <2>4. ASSUME restarts' = 0 PROVE Covered(c)'
    <3>1. Covered(c)
      BY <1>2, <2>2, <2>4
    <3>2. OnItsWay(c)' = OnItsWay(c) \union (IF sub[c] # 0 THEN {n} ELSE {})
      BY <1>2, <2>1 DEF OnItsWay
    <3>3. last_seq'[c] < next_seq' /\ last_seq[c] < n /\ last_seq[c] \in Nat /\ base[c] \in Nat
      BY <1>1, <1>2, <3>1 DEF Covered, FlowTypes
    <3>4. ASSUME NEW m \in (base[c] + 1)..n, kindOf'[m] \in Wanted[c]
          PROVE  \/ m \in OnItsWay(c)' \union seen[c] \union Lost(c)
                 \/ sub[c] = 0 /\ m > last_seq[c]
      <4>1. CASE m = n
        BY <3>2, <3>3, <4>1
      <4>2. CASE m # n
        <5>1. m \in (base[c] + 1)..(n - 1) /\ m \in 1..(n - 1)
          BY <1>1, <3>3, <3>4, <4>2
        <5>2. kindOf[m] \in Wanted[c]
          BY <1>7, <3>4, <5>1
        <5> QED BY <3>1, <3>2, <5>1, <5>2 DEF Covered
      <4> QED BY <4>1, <4>2
    <3>5. \A m \in OnItsWay(c)' : m <= last_seq[c] => m \in overtaken[c]
      BY <1>1, <3>1, <3>2, <3>3 DEF Covered
    <3>6. next_seq' - 1 = n /\ Lost(c)' = Lost(c)
      BY <1>1, <1>2 DEF Lost
    <3> QED BY <1>2, <3>3, <3>4, <3>5, <3>6 DEF Covered
  <2> QED BY <2>3, <2>4
<1>12. ArchiveInv'
  BY <1>1, ArchiveStamp
<1> QED BY <1>8, <1>9, <1>10, <1>11, <1>12 DEF DeliveryInv

\* publish, after the unlock: the event is in the queue, or the filter does
\* not want it.
LEMMA DeliveryPush ==
  ASSUME DeliveryInv, NEW p \in Publishers, NEW id \in publishing[p].targets, PublishPush(p, id)
  PROVE  DeliveryInv'
<1> DEFINE e == publishing[p].event
           takes == {c \in Clients : id = <<c, sub[c]>> /\ admits(c, e)}
<1>1. /\ FlowTypes /\ Subscriptions /\ Publishing /\ ArchiveInv
      /\ \A c \in Clients : Once(c)
      /\ restarts = 0 => \A c \in Clients : Covered(c)
  BY DEF DeliveryInv
<1>2. /\ publishing' = [publishing EXCEPT ![p].targets = @ \ {id}]
      /\ queues' = [c \in Clients |-> IF c \in takes THEN Push(queues[c], e) ELSE queues[c]]
      /\ evicted' = [c \in Clients |-> IF c \in takes
                                       THEN evicted[c] \union EvictedBy(queues[c])
                                       ELSE evicted[c]]
      /\ UNCHANGED <<next_seq, ring, kindOf, restarts, sub, wire,
                     last_seq, connects, base, seen, unreplayed, overtaken>>
  BY DEF PublishPush
<1>3. /\ e \in FrameType /\ e.seq \in 1..(next_seq - 1) /\ e.kind \in Kinds
      /\ e.kind = kindOf[e.seq] /\ id \in Clients \X Nat
  BY <1>1 DEF FlowTypes, Publishing
<1>4. /\ publishing'[p].event = e /\ publishing'[p].targets = publishing[p].targets \ {id}
      /\ \A x \in Publishers : x # p => publishing'[x] = publishing[x]
      /\ publishing' \in [Publishers -> [event : FrameType, targets : SUBSET (Clients \X Nat)]]
  BY <1>1, <1>2 DEF FlowTypes
<1>5. \A x \in Publishers : /\ publishing'[x].event = publishing[x].event
                            /\ publishing'[x].targets \subseteq publishing[x].targets
  BY <1>4
<1> HIDE DEF e, takes
<1>6. ASSUME NEW c \in Clients, c \in takes
      PROVE  /\ id = <<c, sub[c]>> /\ queues'[c] = Push(queues[c], e)
             /\ evicted'[c] = evicted[c] \union EvictedBy(queues[c])
             /\ EvictedBy(queues[c]) \subseteq Nat
             /\ Push(queues[c], e) \in QueueType /\ Distinct(Push(queues[c], e).queue)
             /\ Nums(Push(queues[c], e).queue) =
                  ((Nums(queues[c].queue) \ EvictedBy(queues[c])) \union {e.seq}) \ {0}
             /\ e.seq \in Pushed(c) /\ sub[c] # 0
  <2>1. id = <<c, sub[c]>> /\ queues'[c] = Push(queues[c], e)
        /\ evicted'[c] = evicted[c] \union EvictedBy(queues[c])
    BY <1>2, <1>6 DEF takes
  <2>2. e.seq \in Pushed(c)
    BY <2>1 DEF Pushed, Live, e
  <2>3. queues[c] \in QueueType /\ queues[c].queue \in Seq(FrameType)
    BY <1>1 DEF FlowTypes, QueueType
  <2>4. Distinct(queues[c].queue) /\ e.seq \notin Nums(queues[c].queue)
    BY <1>1, <2>2 DEF Once, Apart
  <2>5. EvictedBy(queues[c]) \subseteq Nat
    <3>1. CASE queues[c].queue = <<>>
      <4>1. ~(Len(queues[c].queue) >= SubscriberCapacity)
        BY <3>1, EventBusAssumption
      <4> QED BY <4>1 DEF EvictedBy
    <3>2. CASE queues[c].queue # <<>>
      <4>1. Head(queues[c].queue) \in FrameType
        BY <2>3, <3>2, NumsTail
      <4> QED BY <4>1 DEF EvictedBy, FrameType
    <3> QED BY <3>1, <3>2
  <2>6. sub[c] # 0
    <3>1. id[2] \in 1..connects[id[1]]
      BY <1>1 DEF Subscriptions
    <3>2. connects[c] \in Nat
      BY <1>1 DEF FlowTypes
    <3> QED BY <2>1, <3>1, <3>2
  <2> QED BY <1>3, <2>1, <2>2, <2>3, <2>4, <2>5, <2>6, PushNums
<1>7. ASSUME NEW c \in Clients, c \notin takes
      PROVE  queues'[c] = queues[c] /\ evicted'[c] = evicted[c]
  BY <1>2, <1>7
<1>8. FlowTypes'
  <2>1. queues' \in [Clients -> QueueType]
    <3>1. \A c \in Clients : queues'[c] \in QueueType
      BY <1>1, <1>6, <1>7 DEF FlowTypes
    <3> QED BY <1>2, <3>1
  <2>2. evicted' \in [Clients -> SUBSET Nat]
    <3>1. \A c \in Clients : evicted'[c] \in SUBSET Nat
      BY <1>1, <1>6, <1>7 DEF FlowTypes
    <3> QED BY <1>2, <3>1
  <2> QED BY <1>1, <1>2, <1>4, <2>1, <2>2 DEF FlowTypes
<1>9. Subscriptions'
  <2>1. ASSUME NEW c \in Clients
        PROVE  /\ sub'[c] <= connects'[c]
               /\ sub'[c] = 0 => queues'[c].queue = <<>> /\ wire'[c] = <<>>
    <3>1. sub[c] = 0 => c \notin takes
      BY <1>6
    <3> QED BY <1>1, <1>2, <1>7, <3>1 DEF Subscriptions
  <2>2. ASSUME NEW x \in Publishers, NEW t \in publishing'[x].targets
        PROVE  t[2] \in 1..connects'[t[1]]
    BY <1>1, <1>2, <1>5 DEF Subscriptions
  <2> QED BY <2>1, <2>2 DEF Subscriptions
<1>10. Publishing'
  BY <1>1, <1>2, <1>5 DEF Publishing
<1>11. ASSUME NEW c \in Clients PROVE Once(c)' /\ (restarts' = 0 => Covered(c)')
  <2>1. Once(c) /\ (restarts = 0 => Covered(c))
    BY <1>1
  <2>2. CASE id # <<c, sub[c]>>
    <3>1. c \notin takes
      BY <1>6, <2>2
    <3>2. Live(c)' = Live(c)
      <4>1. \A x \in Publishers : <<c, sub[c]>> \in publishing'[x].targets
                                    <=> <<c, sub[c]>> \in publishing[x].targets
        BY <1>4, <2>2
      <4> QED BY <1>2, <4>1 DEF Live
    <3>3. Pushed(c)' = Pushed(c)
      BY <1>5, <3>2 DEF Pushed, Live
    <3> QED BY <1>2, <1>7, <2>1, <3>1, <3>3, ClientStays
  <2>3. CASE id = <<c, sub[c]>>
    <3>1. Live(c)' = Live(c) \ {p} /\ p \in Live(c)
      <4>1. \A x \in Publishers : <<c, sub[c]>> \in publishing'[x].targets
                                    <=> <<c, sub[c]>> \in publishing[x].targets /\ x # p
        BY <1>4, <2>3
      <4> QED BY <1>2, <2>3, <4>1 DEF Live
    <3>2. Pushed(c)' = Pushed(c) \ {e.seq} /\ e.seq \in Pushed(c)
      <4>1. \A x \in Live(c) : publishing[x].event.seq = e.seq => x = p
        BY <1>1, <2>3, <3>1 DEF Publishing, Live, e
      <4>2. \A x \in Live(c) : publishing'[x].event.seq = publishing[x].event.seq
        BY <1>5 DEF Live
      <4>3. Pushed(c)' = {publishing'[x].event.seq : x \in Live(c)'}
        BY DEF Pushed
      <4>4. publishing[p].event.seq = e.seq
        BY DEF e
      <4> QED BY <3>1, <4>1, <4>2, <4>3, <4>4 DEF Pushed
    <3>3. Nums(wire[c]) \subseteq Nat \ {0} /\ e.seq # 0 /\ 0 \notin Nums(queues[c].queue)
      BY <1>1, <1>3, NumsAreNats DEF FlowTypes, Nums
    <3>4. CASE c \notin takes
      <4>1. queues'[c] = queues[c] /\ evicted'[c] = evicted[c]
        BY <1>7, <3>4
      <4>2. e.kind \notin Wanted[c]
        BY <2>3, <3>4 DEF takes, admits
      <4>3. Apart(queues[c].queue, wire[c], seen[c], Pushed(c)', next_seq)
        BY <2>1, <3>2 DEF Once, Apart
      <4>4. Once(c)'
        BY <1>2, <2>1, <4>1, <4>3 DEF Once
      <4>5. ASSUME restarts' = 0 PROVE Covered(c)'
        <5>1. Covered(c)
          BY <1>2, <2>1, <4>5
        <5>2. OnItsWay(c)' = OnItsWay(c) \ ({e.seq} \ (Nums(queues[c].queue) \union Nums(wire[c])))
          BY <1>2, <3>2, <4>1 DEF OnItsWay
        <5>3. Lost(c)' = Lost(c)
          BY <1>2, <4>1 DEF Lost
        <5>4. kindOf[e.seq] \notin Wanted[c]
          BY <1>3, <4>2
        <5> QED BY <1>2, <5>1, <5>2, <5>3, <5>4 DEF Covered
      <4> QED BY <4>4, <4>5
    <3>5. CASE c \in takes
      <4> DEFINE q == queues'[c].queue
                 E == EvictedBy(queues[c])
      <4>1. /\ Distinct(q) /\ Nums(q) = (Nums(queues[c].queue) \ E) \union {e.seq}
            /\ evicted'[c] = evicted[c] \union E
        BY <1>6, <3>3, <3>5
      <4> HIDE DEF q, E
      <4>2. Apart(q, wire[c], seen[c], Pushed(c)', next_seq)
        <5>1. Apart(queues[c].queue, wire[c], seen[c], Pushed(c), next_seq)
          BY <2>1 DEF Once
        <5> QED BY <3>2, <4>1, <5>1 DEF Apart
      <4>3. Once(c)'
        BY <1>2, <2>1, <4>2 DEF Once, q
      <4>4. ASSUME restarts' = 0 PROVE Covered(c)'
        <5>1. Covered(c)
          BY <1>2, <2>1, <4>4
        <5>2. OnItsWay(c) \subseteq OnItsWay(c)' \union evicted'[c] /\ OnItsWay(c)' \subseteq OnItsWay(c)
          <6>1. OnItsWay(c)' = Nums(q) \union Nums(wire[c]) \union Pushed(c)'
            BY <1>2 DEF OnItsWay, q
          <6> QED BY <3>2, <4>1, <6>1 DEF OnItsWay
        <5>3. Lost(c) \union evicted'[c] \subseteq Lost(c)'
          BY <1>2, <4>1 DEF Lost
        <5> QED BY <1>2, <5>1, <5>2, <5>3 DEF Covered
      <4> QED BY <4>3, <4>4
    <3> QED BY <3>4, <3>5
  <2> QED BY <2>2, <2>3
<1>12. ArchiveInv'
  BY <1>1, <1>2 DEF ArchiveInv, RingContiguous
<1> QED BY <1>8, <1>9, <1>10, <1>11, <1>12 DEF DeliveryInv

\* The forwarder takes a frame from the queue to the wire.
LEMMA DeliveryForward ==
  ASSUME DeliveryInv, NEW c \in Clients, Forward(c)
  PROVE  DeliveryInv'
<1> DEFINE h == Head(queues[c].queue)
           t == Tail(queues[c].queue)
<1>1. /\ FlowTypes /\ Subscriptions /\ Publishing /\ ArchiveInv
      /\ \A d \in Clients : Once(d)
      /\ restarts = 0 => \A d \in Clients : Covered(d)
  BY DEF DeliveryInv
<1>2. /\ sub[c] # 0 /\ queues[c].queue # <<>>
      /\ wire' = [wire EXCEPT ![c] = Append(@, h)]
      /\ queues' = [queues EXCEPT ![c].queue = t]
      /\ UNCHANGED <<next_seq, ring, publishing, sub, last_seq, connects, restarts,
                     kindOf, base, seen, evicted, unreplayed, overtaken>>
  BY DEF Forward
<1>3. queues[c] \in QueueType /\ queues[c].queue \in Seq(FrameType) /\ wire[c] \in Seq(FrameType)
  BY <1>1 DEF FlowTypes, QueueType
<1>4. /\ h \in FrameType /\ t \in Seq(FrameType)
      /\ Nums(queues[c].queue) = (Nums(t) \union {h.seq}) \ {0}
      /\ Distinct(queues[c].queue) => Distinct(t) /\ h.seq \notin Nums(t)
  BY <1>2, <1>3, NumsTail
<1> HIDE DEF h, t
<1>5. /\ Append(wire[c], h) \in Seq(FrameType)
      /\ Nums(Append(wire[c], h)) = (Nums(wire[c]) \union {h.seq}) \ {0}
      /\ Distinct(wire[c]) /\ h.seq \notin Nums(wire[c]) => Distinct(Append(wire[c], h))
  BY <1>3, <1>4, NumsAppend
<1>6. /\ wire'[c] = Append(wire[c], h) /\ queues'[c] = [queues[c] EXCEPT !.queue = t]
      /\ \A d \in Clients : d # c => wire'[d] = wire[d] /\ queues'[d] = queues[d]
  BY <1>1, <1>2 DEF FlowTypes
<1>7. queues'[c].queue = t /\ queues'[c] \in QueueType
  BY <1>3, <1>4, <1>6 DEF QueueType
<1>8. FlowTypes'
  <2>1. wire' \in [Clients -> Seq(FrameType)] /\ queues' \in [Clients -> QueueType]
    BY <1>1, <1>2, <1>5, <1>6, <1>7 DEF FlowTypes
  <2> QED BY <1>1, <1>2, <2>1 DEF FlowTypes
<1>9. Subscriptions' /\ Publishing'
  <2>1. Subscriptions'
    BY <1>1, <1>2, <1>6 DEF Subscriptions
  <2>2. Publishing'
    BY <1>1, <1>2 DEF Publishing
  <2> QED BY <2>1, <2>2
<1>10. ASSUME NEW d \in Clients PROVE Once(d)' /\ (restarts' = 0 => Covered(d)')
  <2>1. Pushed(d)' = Pushed(d)
    BY <1>2 DEF Pushed, Live
  <2>2. Once(d) /\ (restarts = 0 => Covered(d))
    BY <1>1
  <2>3. CASE d # c
    BY <1>2, <1>6, <2>1, <2>2, <2>3, ClientStays
  <2>4. CASE d = c
    <3>1. Apart(queues[c].queue, wire[c], seen[c], Pushed(c), next_seq)
      BY <2>2, <2>4 DEF Once
    <3>2. h.seq # 0 => h.seq \in Nums(queues[c].queue)
      BY <1>4
    <3>3. h.seq \notin Nums(wire[c]) /\ h.seq \notin Nums(t) /\ 0 \notin Nums(t) /\ 0 \notin Nums(wire[c])
      BY <1>4, <3>1, <3>2 DEF Apart, Nums
    <3>4. Apart(t, wire'[c], seen[c], Pushed(c), next_seq)
      BY <1>4, <1>5, <1>6, <3>1, <3>2, <3>3 DEF Apart
    <3>5. Once(c)'
      BY <1>2, <1>7, <2>1, <2>2, <2>4, <3>4 DEF Once
    <3>6. OnItsWay(c)' = OnItsWay(c)
      BY <1>4, <1>5, <1>6, <1>7, <2>1, <2>4, <3>3 DEF OnItsWay
    <3>7. restarts' = 0 => Covered(c)'
      BY <1>2, <2>2, <2>4, <3>6 DEF Covered, Lost
    <3> QED BY <2>4, <3>5, <3>7
  <2> QED BY <2>3, <2>4
<1>11. ArchiveInv'
  BY <1>1, <1>2 DEF ArchiveInv, RingContiguous
<1> QED BY <1>8, <1>9, <1>10, <1>11 DEF DeliveryInv

\* What Coming holds, but for the markers.
LEMMA ComingIs ==
  ASSUME FlowTypes, NEW c \in Clients
  PROVE  OnItsWay(c) \subseteq Coming(c) /\ Coming(c) \subseteq OnItsWay(c) \union {0}
<1> DEFINE q == queues[c].queue
           w == wire[c]
<1>1. q \in Seq(FrameType) /\ w \in Seq(FrameType)
  BY DEF FlowTypes, QueueType
<1>2. Pushed(c) = {publishing[p].event.seq :
                     p \in {x \in Publishers : <<c, sub[c]>> \in publishing[x].targets}}
  BY DEF Pushed, Live
<1>3. Coming(c) = {f.seq : f \in ToSet(q \o w)} \union Pushed(c)
  BY <1>2 DEF Coming
<1> HIDE DEF q, w
<1>4. PICK n, k \in Nat :
        /\ DOMAIN q = 1..n /\ DOMAIN w = 1..k /\ DOMAIN (q \o w) = 1..(n + k)
        /\ \A i \in 1..(n + k) : (q \o w)[i] = IF i <= n THEN q[i] ELSE w[i - n]
  <2>1. Len(q) \in Nat /\ Len(w) \in Nat /\ DOMAIN q = 1..Len(q) /\ DOMAIN w = 1..Len(w)
    BY <1>1, LenProperties
  <2>2. /\ Len(q \o w) = Len(q) + Len(w) /\ q \o w \in Seq(FrameType)
        /\ \A i \in 1..(Len(q) + Len(w)) :
             (q \o w)[i] = IF i <= Len(q) THEN q[i] ELSE w[i - Len(q)]
    BY <1>1, ConcatProperties
  <2>3. DOMAIN (q \o w) = 1..(Len(q) + Len(w))
    BY <2>2, LenProperties
  <2>4. WITNESS Len(q) \in Nat, Len(w) \in Nat
  <2> QED BY <2>1, <2>2, <2>3
<1>5. ToSet(q \o w) = {(q \o w)[i] : i \in 1..(n + k)}
  BY <1>4 DEF ToSet
<1>6. ToSet(q \o w) = {q[i] : i \in 1..n} \union {w[i] : i \in 1..k}
  <2>1. \A i \in 1..(n + k) : \/ i \in 1..n /\ (q \o w)[i] = q[i]
                              \/ i - n \in 1..k /\ (q \o w)[i] = w[i - n]
    BY <1>4
  <2>2. \A i \in 1..n : i \in 1..(n + k) /\ (q \o w)[i] = q[i]
    BY <1>4
  <2>3. \A i \in 1..k : n + i \in 1..(n + k) /\ (q \o w)[n + i] = w[i]
    <3> SUFFICES ASSUME NEW i \in 1..k
                 PROVE  n + i \in 1..(n + k) /\ (q \o w)[n + i] = w[i]
      OBVIOUS
    <3>1. n + i \in 1..(n + k) /\ ~(n + i <= n) /\ (n + i) - n = i
      OBVIOUS
    <3> QED BY <1>4, <3>1
  <2>4. ASSUME NEW f PROVE f \in ToSet(q \o w) <=>
                             \/ \E i \in 1..n : f = q[i]
                             \/ \E i \in 1..k : f = w[i]
    <3>1. ASSUME f \in ToSet(q \o w)
          PROVE  (\E i \in 1..n : f = q[i]) \/ \E i \in 1..k : f = w[i]
      <4>1. PICK i \in 1..(n + k) : f = (q \o w)[i]
        BY <1>5, <3>1
      <4> QED BY <2>1, <4>1
    <3>2. ASSUME NEW i \in 1..n, f = q[i] PROVE f \in ToSet(q \o w)
      BY <1>5, <2>2, <3>2
    <3>3. ASSUME NEW i \in 1..k, f = w[i] PROVE f \in ToSet(q \o w)
      BY <1>5, <2>3, <3>3
    <3> QED BY <3>1, <3>2, <3>3
  <2> HIDE DEF ToSet
  <2> QED BY <2>4
<1>7. /\ Nums(q) = {q[i].seq : i \in 1..n} \ {0}
      /\ Nums(w) = {w[i].seq : i \in 1..k} \ {0}
  BY <1>4 DEF Nums
<1>8. {f.seq : f \in ToSet(q \o w)} = {q[i].seq : i \in 1..n} \union {w[i].seq : i \in 1..k}
  BY <1>6
<1>9. OnItsWay(c) = Nums(q) \union Nums(w) \union Pushed(c)
  BY DEF OnItsWay, q, w
<1> QED BY <1>3, <1>7, <1>8, <1>9

\* The client routes the first frame on the wire.
LEMMA DeliveryRoute ==
  ASSUME DeliveryInv, NEW c \in Clients, Route(c)
  PROVE  DeliveryInv'
<1> DEFINE e == Head(wire[c])
           t == Tail(wire[c])
<1>1. /\ FlowTypes /\ Subscriptions /\ Publishing /\ ArchiveInv
      /\ \A d \in Clients : Once(d)
      /\ restarts = 0 => \A d \in Clients : Covered(d)
  BY DEF DeliveryInv
<1>2. /\ wire[c] # <<>>
      /\ wire' = [wire EXCEPT ![c] = t]
      /\ last_seq' = [last_seq EXCEPT ![c] = IF e.seq > @ THEN e.seq ELSE @]
      /\ seen' = [seen EXCEPT ![c] = IF IsMarker(e) THEN @ ELSE @ \union {e.seq}]
      /\ overtaken' = [overtaken EXCEPT ![c] = @ \union {n \in Coming(c) : n < e.seq}]
      /\ UNCHANGED <<next_seq, ring, publishing, sub, queues, connects, restarts,
                     kindOf, base, evicted, unreplayed>>
  BY DEF Route
<1>3. wire[c] \in Seq(FrameType)
  BY <1>1 DEF FlowTypes
<1>4. /\ e \in FrameType /\ t \in Seq(FrameType)
      /\ Nums(wire[c]) = (Nums(t) \union {e.seq}) \ {0}
      /\ Distinct(wire[c]) => Distinct(t) /\ e.seq \notin Nums(t)
  BY <1>2, <1>3, NumsTail
<1> HIDE DEF e, t
<1>5. e.seq \in Nat /\ (e.seq # 0 => e.seq \in Nums(wire[c])) /\ (e.seq # 0 <=> ~IsMarker(e))
  BY <1>4, EventBusAssumption DEF FrameType, IsMarker
<1>6. /\ OnItsWay(c) \subseteq Coming(c) /\ Coming(c) \subseteq OnItsWay(c) \union {0}
  BY <1>1, ComingIs
<1>7. /\ wire'[c] = t
      /\ last_seq'[c] = IF e.seq > last_seq[c] THEN e.seq ELSE last_seq[c]
      /\ seen'[c] = IF IsMarker(e) THEN seen[c] ELSE seen[c] \union {e.seq}
      /\ overtaken'[c] = overtaken[c] \union {n \in Coming(c) : n < e.seq}
      /\ \A d \in Clients : d # c => /\ wire'[d] = wire[d] /\ last_seq'[d] = last_seq[d]
                                     /\ seen'[d] = seen[d] /\ overtaken'[d] = overtaken[d]
  BY <1>1, <1>2 DEF FlowTypes
<1>8. Apart(queues[c].queue, wire[c], seen[c], Pushed(c), next_seq)
  BY <1>1 DEF Once
<1>9. last_seq[c] \in Nat /\ next_seq \in Nat /\ 0 \notin seen[c]
  <2>1. last_seq[c] \in Nat /\ next_seq \in Nat
    BY <1>1 DEF FlowTypes, ArchiveInv
  <2> QED BY <1>8, <2>1 DEF Apart
<1>10. OnItsWay(c) \subseteq Nat /\ seen[c] \subseteq Nat
  BY <1>8, <1>9 DEF Apart, OnItsWay
<1>11. FlowTypes'
  <2>1. last_seq'[c] \in Nat /\ seen'[c] \in SUBSET Nat /\ overtaken'[c] \in SUBSET Nat
    <3>1. overtaken[c] \subseteq Nat
      BY <1>1 DEF FlowTypes
    <3> QED BY <1>5, <1>6, <1>7, <1>9, <1>10, <3>1
  <2>2. /\ wire' \in [Clients -> Seq(FrameType)] /\ last_seq' \in [Clients -> Nat]
        /\ seen' \in [Clients -> SUBSET Nat] /\ overtaken' \in [Clients -> SUBSET Nat]
    BY <1>1, <1>2, <1>4, <1>7, <2>1 DEF FlowTypes
  <2> QED BY <1>1, <1>2, <2>2 DEF FlowTypes
<1>12. Subscriptions' /\ Publishing'
  <2>1. sub[c] # 0
    BY <1>1, <1>2 DEF Subscriptions
  <2>2. Subscriptions'
    BY <1>1, <1>2, <1>7, <2>1 DEF Subscriptions
  <2>3. Publishing'
    BY <1>1, <1>2 DEF Publishing
  <2> QED BY <2>2, <2>3
<1>13. ASSUME NEW d \in Clients PROVE Once(d)' /\ (restarts' = 0 => Covered(d)')
  <2>1. Pushed(d)' = Pushed(d)
    BY <1>2 DEF Pushed, Live
  <2>2. Once(d) /\ (restarts = 0 => Covered(d))
    BY <1>1
  <2>3. CASE d # c
    BY <1>2, <1>7, <2>1, <2>2, <2>3, ClientStays
  <2>4. CASE d = c
    <3>1. 0 \notin Nums(t) /\ e.seq \notin Nums(t)
      BY <1>4, <1>8 DEF Apart, Nums
    <3>2. Nums(t) \subseteq Nums(wire[c]) /\ Distinct(t)
      BY <1>4, <1>8, <3>1 DEF Apart
    <3>3. e.seq # 0 =>
            /\ e.seq \notin Nums(queues[c].queue) \union Pushed(c) \union Nums(t)
            /\ e.seq \in 1..(next_seq - 1)
      BY <1>5, <1>8, <3>1 DEF Apart
    <3>4. seen'[c] = seen[c] \union ({e.seq} \ {0}) /\ Nums(wire[c]) = Nums(t) \union ({e.seq} \ {0})
      BY <1>4, <1>5, <1>7, <3>1
    <3>5. Apart(queues[c].queue, t, seen'[c], Pushed(c), next_seq)
      BY <1>8, <3>1, <3>2, <3>3, <3>4 DEF Apart
    <3>6. \A m \in seen'[c] : m <= last_seq'[c]
      <4>1. \A m \in seen[c] : m \in Nat /\ m <= last_seq[c]
        BY <1>10, <2>2, <2>4 DEF Once
      <4> QED BY <1>5, <1>7, <1>9, <3>4, <4>1
    <3>7. Once(c)'
      BY <1>2, <1>7, <2>1, <2>4, <3>5, <3>6 DEF Once
    <3>8. ASSUME restarts' = 0 PROVE Covered(c)'
      <4>1. Covered(c)
        BY <1>2, <2>2, <2>4, <3>8
      <4>2. OnItsWay(c)' = Nums(queues[c].queue) \union Nums(t) \union Pushed(c)
        BY <1>2, <1>7, <2>1, <2>4 DEF OnItsWay
      <4>3. OnItsWay(c) = OnItsWay(c)' \union ({e.seq} \ {0}) /\ e.seq \notin OnItsWay(c)'
        BY <3>1, <3>3, <3>4, <4>2, <1>8, <1>9 DEF OnItsWay, Apart
      <4>4. last_seq'[c] < next_seq
        <5>1. e.seq # 0 => e.seq < next_seq
          BY <1>5, <1>9, <3>3
        <5>2. last_seq[c] < next_seq
          BY <4>1 DEF Covered
        <5> QED BY <1>5, <1>7, <1>9, <5>1, <5>2
      <4>5. Lost(c) \subseteq Lost(c)'
        BY <1>2, <1>7 DEF Lost
      <4>6. ASSUME NEW n \in (base[c] + 1)..(next_seq - 1), kindOf[n] \in Wanted[c]
            PROVE  n \in OnItsWay(c)' \union seen'[c] \union Lost(c)'
        <5>1. sub[c] # 0
          BY <1>1, <1>2 DEF Subscriptions
        <5>2. n \in OnItsWay(c) \union seen[c] \union Lost(c)
          BY <4>1, <4>6, <5>1 DEF Covered
        <5> QED BY <3>4, <4>3, <4>5, <5>2
      <4>7. ASSUME NEW n \in OnItsWay(c)', n <= last_seq'[c]
            PROVE  n \in overtaken'[c]
        <5>1. n \in OnItsWay(c) /\ n # e.seq /\ n \in Nat
          BY <1>10, <4>3
        <5>2. CASE n <= last_seq[c]
          BY <1>7, <4>1, <5>1, <5>2 DEF Covered
        <5>3. CASE ~(n <= last_seq[c])
          <6>1. n < e.seq
            BY <1>5, <1>7, <1>9, <4>7, <5>1, <5>3
          <6>2. n \in Coming(c)
            BY <1>6, <5>1
          <6> QED BY <1>7, <6>1, <6>2
        <5> QED BY <5>2, <5>3
      <4> QED BY <1>2, <4>4, <4>6, <4>7 DEF Covered
    <3> QED BY <2>4, <3>7, <3>8
  <2> QED BY <2>3, <2>4
<1>14. ArchiveInv'
  BY <1>1, <1>2 DEF ArchiveInv, RingContiguous
<1> QED BY <1>11, <1>12, <1>13, <1>14 DEF DeliveryInv

\* A client subscribes: what it missed and the ring still has is queued.
LEMMA DeliverySubscribe ==
  ASSUME DeliveryInv, NEW c \in Clients, Subscribe(c)
  PROVE  DeliveryInv'
<1> DEFINE since == last_seq[c]
           resume == since # 0
           held == {ring[i].seq : i \in DOMAIN ring}
           k == connects[c] + 1
           q == IF resume THEN Replayed(c, since) ELSE NewQueue
           missed == {n \in 1..(next_seq - 1) : n > since} \ held
<1>1. /\ FlowTypes /\ Subscriptions /\ Publishing /\ ArchiveInv /\ RingShape
      /\ \A d \in Clients : Once(d)
      /\ restarts = 0 => \A d \in Clients : Covered(d)
  BY RingHasShape DEF DeliveryInv
<1>2. /\ sub[c] = 0
      /\ connects' = [connects EXCEPT ![c] = @ + 1]
      /\ sub' = [sub EXCEPT ![c] = k]
      /\ queues' = [queues EXCEPT ![c] = q]
      /\ base' = [base EXCEPT ![c] = IF resume THEN @ ELSE next_seq - 1]
      /\ unreplayed' = [unreplayed EXCEPT ![c] = IF resume THEN @ \union missed ELSE @]
      /\ UNCHANGED <<next_seq, ring, publishing, wire, last_seq, restarts,
                     kindOf, seen, evicted, overtaken>>
  BY DEF Subscribe
<1>3. since \in Nat /\ connects[c] \in Nat /\ next_seq \in Nat \ {0}
  BY <1>1 DEF FlowTypes, RingShape
<1>4. /\ q \in QueueType /\ Distinct(q.queue)
      /\ \A m \in Nums(q.queue) : m > since /\ m \in 1..(next_seq - 1)
      /\ ~resume => Nums(q.queue) = {}
  <2>1. CASE resume
    BY <1>1, <1>3, <2>1, ReplayedIs
  <2>2. CASE ~resume
    <3>1. NewQueue \in QueueType /\ NewQueue.queue = <<>>
      BY NumsEmpty DEF NewQueue, QueueType
    <3> QED BY <2>2, <3>1, NumsEmpty
  <2> QED BY <2>1, <2>2
<1>5. resume => \A i \in 1..Len(ring) :
        ring[i].seq > since /\ ring[i].kind \in Wanted[c] => ring[i].seq \in Nums(q.queue)
  BY <1>1, <1>3, ReplayedIs
<1>6. missed \subseteq Nat
  OBVIOUS
<1>7. \A n \in held : \E i \in 1..Len(ring) : ring[i].seq = n /\ ring[i].kind = kindOf[n]
  <2>1. DOMAIN ring = 1..Len(ring)
    BY <1>1, LenProperties DEF RingShape
  <2> QED BY <1>1, <2>1 DEF RingShape
<1>8. \A n \in 1..(next_seq - 1) : n > since => n \in held \union missed
  OBVIOUS
<1> HIDE DEF q, missed, held, k
<1>9. /\ connects'[c] = k /\ sub'[c] = k /\ queues'[c] = q
      /\ base'[c] = (IF resume THEN base[c] ELSE next_seq - 1)
      /\ unreplayed'[c] = (IF resume THEN unreplayed[c] \union missed ELSE unreplayed[c])
      /\ k \in Nat /\ k # 0 /\ k > connects[c] /\ k <= k
      /\ \A d \in Clients : d # c =>
           /\ connects'[d] = connects[d] /\ sub'[d] = sub[d] /\ queues'[d] = queues[d]
           /\ base'[d] = base[d] /\ unreplayed'[d] = unreplayed[d]
  BY <1>1, <1>2, <1>3 DEF FlowTypes, k
<1>10. FlowTypes'
  <2>1. base'[c] \in Nat /\ unreplayed'[c] \in SUBSET Nat
    <3>1. base[c] \in Nat /\ unreplayed[c] \in SUBSET Nat /\ next_seq - 1 \in Nat
      BY <1>1, <1>3 DEF FlowTypes
    <3> QED BY <1>6, <1>9, <3>1
  <2>2. /\ connects' \in [Clients -> Nat] /\ sub' \in [Clients -> Nat]
        /\ queues' \in [Clients -> QueueType] /\ base' \in [Clients -> Nat]
        /\ unreplayed' \in [Clients -> SUBSET Nat]
    BY <1>1, <1>2, <1>4, <1>9, <2>1 DEF FlowTypes
  <2> QED BY <1>1, <1>2, <2>2 DEF FlowTypes
<1>11. Subscriptions'
  <2>1. \A d \in Clients : /\ sub'[d] <= connects'[d]
                           /\ sub'[d] = 0 => queues'[d].queue = <<>> /\ wire'[d] = <<>>
    BY <1>1, <1>2, <1>9 DEF Subscriptions
  <2>2. ASSUME NEW p \in Publishers, NEW t \in publishing[p].targets
        PROVE  t[2] \in 1..connects'[t[1]]
    <3>1. t \in Clients \X Nat
      BY <1>1 DEF FlowTypes
    <3>2. t[1] \in Clients /\ t[2] \in Nat /\ t[2] \in 1..connects[t[1]]
      BY <1>1, <3>1 DEF Subscriptions
    <3>3. CASE t[1] = c
      BY <1>3, <1>9, <3>2, <3>3
    <3>4. CASE t[1] # c
      BY <1>9, <3>2, <3>4
    <3> QED BY <3>3, <3>4
  <2> QED BY <1>2, <2>1, <2>2 DEF Subscriptions
<1>12. Publishing'
  BY <1>1, <1>2 DEF Publishing
<1>13. ASSUME NEW d \in Clients PROVE Once(d)' /\ (restarts' = 0 => Covered(d)')
  <2>1. Once(d) /\ (restarts = 0 => Covered(d))
    BY <1>1
  <2>2. CASE d # c
    <3>1. Pushed(d)' = Pushed(d)
      BY <1>2, <1>9, <2>2 DEF Pushed, Live
    <3> QED BY <1>2, <1>9, <2>1, <2>2, <3>1, ClientStays
  <2>3. CASE d = c
    <3>1. Pushed(c)' = {}
      <4>1. ASSUME NEW p \in Publishers, <<c, k>> \in publishing[p].targets PROVE FALSE
        <5>1. <<c, k>>[2] \in 1..connects[<<c, k>>[1]]
          BY <1>1, <4>1 DEF Subscriptions
        <5> QED BY <1>3, <1>9, <5>1
      <4> QED BY <1>2, <1>9, <4>1 DEF Pushed, Live
    <3>2. wire[c] = <<>> /\ queues[c].queue = <<>> /\ Nums(<<>>) = {} /\ Distinct(<<>>)
      BY <1>1, <1>2, NumsEmpty DEF Subscriptions
    <3>3. seen[c] \subseteq 1..(next_seq - 1) /\ \A m \in seen[c] : m <= since
      BY <2>1, <2>3 DEF Once, Apart
    <3>4. \A m \in Nums(q.queue) : m \notin seen[c]
      BY <1>3, <1>4, <3>3
    <3>5. Apart(q.queue, <<>>, seen[c], {}, next_seq)
      BY <1>4, <3>2, <3>3, <3>4 DEF Apart
    <3>6. Once(c)'
      BY <1>2, <1>9, <3>1, <3>2, <3>3, <3>5 DEF Once
    <3>7. ASSUME restarts' = 0 PROVE Covered(c)'
      <4>1. Covered(c)
        BY <1>2, <2>1, <2>3, <3>7
      <4>2. OnItsWay(c)' = Nums(q.queue)
        BY <1>2, <1>9, <3>1, <3>2 DEF OnItsWay
      <4>3. OnItsWay(c) = {}
        <5>1. Pushed(c) = {}
          <6>1. ASSUME NEW p \in Publishers, <<c, 0>> \in publishing[p].targets PROVE FALSE
            <7>1. <<c, 0>>[2] \in 1..connects[<<c, 0>>[1]]
              BY <1>1, <6>1 DEF Subscriptions
            <7> QED BY <1>3, <7>1
          <6> QED BY <1>2, <6>1 DEF Pushed, Live
        <5> QED BY <3>2, <5>1 DEF OnItsWay
      <4>4. last_seq'[c] < next_seq'
        BY <1>2, <4>1 DEF Covered
      <4>5. ASSUME NEW n \in (base'[c] + 1)..(next_seq - 1), kindOf[n] \in Wanted[c]
            PROVE  n \in OnItsWay(c)' \union seen[c] \union Lost(c)'
        <5>1. CASE ~resume
          BY <1>3, <1>9, <4>5, <5>1
        <5>2. CASE resume
          <6>1. base'[c] = base[c] /\ base[c] \in Nat /\ n \in 1..(next_seq - 1)
            BY <1>1, <1>9, <5>2 DEF FlowTypes
          <6>2. n \in seen[c] \union Lost(c) \/ n > since
            BY <4>1, <4>3, <4>5, <6>1 DEF Covered
          <6>3. Lost(c) \union missed \subseteq Lost(c)'
            BY <1>2, <1>9, <5>2 DEF Lost
          <6>4. n \in held /\ n > since => n \in Nums(q.queue)
            BY <1>5, <1>7, <4>5, <5>2
          <6> QED BY <1>8, <4>2, <6>1, <6>2, <6>3, <6>4
        <5> QED BY <5>1, <5>2
      <4>6. \A n \in OnItsWay(c)' : ~(n <= last_seq[c])
        BY <1>3, <1>4, <4>2
      <4> QED BY <1>2, <4>4, <4>5, <4>6 DEF Covered
    <3> QED BY <2>3, <3>6, <3>7
  <2> QED BY <2>2, <2>3
<1>14. ArchiveInv'
  BY <1>1, <1>2 DEF ArchiveInv, RingContiguous
<1> QED BY <1>10, <1>11, <1>12, <1>13, <1>14 DEF DeliveryInv

\* The connection of a client fails: what was on its way stays to be replayed,
\* but for what a newer event had overtaken.
LEMMA DeliveryDisconnect ==
  ASSUME DeliveryInv, NEW c \in Clients, Disconnect(c)
  PROVE  DeliveryInv'
<1>1. /\ FlowTypes /\ Subscriptions /\ Publishing /\ ArchiveInv
      /\ \A d \in Clients : Once(d)
      /\ restarts = 0 => \A d \in Clients : Covered(d)
  BY DEF DeliveryInv
<1>2. /\ sub[c] # 0
      /\ sub' = [sub EXCEPT ![c] = 0]
      /\ queues' = [queues EXCEPT ![c] = NewQueue]
      /\ wire' = [wire EXCEPT ![c] = <<>>]
      /\ UNCHANGED <<next_seq, ring, publishing, last_seq, connects, restarts,
                     kindOf, base, seen, evicted, unreplayed, overtaken>>
  BY DEF Disconnect
<1>3. NewQueue \in QueueType /\ NewQueue.queue = <<>>
  BY NumsEmpty DEF NewQueue, QueueType
<1>4. /\ sub'[c] = 0 /\ queues'[c] = NewQueue /\ wire'[c] = <<>>
      /\ \A d \in Clients : d # c => /\ sub'[d] = sub[d] /\ queues'[d] = queues[d]
                                     /\ wire'[d] = wire[d]
  BY <1>1, <1>2 DEF FlowTypes
<1>5. FlowTypes'
  BY <1>1, <1>2, <1>3, NumsEmpty DEF FlowTypes
<1>6. connects[c] \in Nat
  BY <1>1 DEF FlowTypes
<1>7. Subscriptions'
  BY <1>1, <1>2, <1>3, <1>4, <1>6 DEF Subscriptions
<1>8. Publishing'
  BY <1>1, <1>2 DEF Publishing
<1>9. ASSUME NEW d \in Clients PROVE Once(d)' /\ (restarts' = 0 => Covered(d)')
  <2>1. Once(d) /\ (restarts = 0 => Covered(d))
    BY <1>1
  <2>2. CASE d # c
    <3>1. Pushed(d)' = Pushed(d)
      BY <1>2, <1>4, <2>2 DEF Pushed, Live
    <3> QED BY <1>2, <1>4, <2>1, <2>2, <3>1, ClientStays
  <2>3. CASE d = c
    <3>1. Pushed(c)' = {}
      <4>1. ASSUME NEW p \in Publishers, <<c, 0>> \in publishing[p].targets PROVE FALSE
        <5>1. <<c, 0>>[2] \in 1..connects[<<c, 0>>[1]]
          BY <1>1, <4>1 DEF Subscriptions
        <5> QED BY <1>6, <5>1
      <4> QED BY <1>2, <1>4, <4>1 DEF Pushed, Live
    <3>2. Nums(<<>>) = {} /\ Distinct(<<>>)
      BY NumsEmpty
    <3>3. Apart(queues[c].queue, wire[c], seen[c], Pushed(c), next_seq)
      BY <2>1, <2>3 DEF Once
    <3>4. Apart(<<>>, <<>>, seen[c], {}, next_seq)
      BY <3>2, <3>3 DEF Apart
    <3>5. Once(c)'
      BY <1>2, <1>3, <1>4, <2>1, <2>3, <3>1, <3>4 DEF Once
    <3>6. ASSUME restarts' = 0 PROVE Covered(c)'
      <4>1. Covered(c) /\ last_seq[c] \in Nat
        BY <1>1, <1>2, <2>1, <2>3, <3>6 DEF FlowTypes
      <4>2. OnItsWay(c)' = {} /\ Lost(c)' = Lost(c)
        BY <1>2, <1>3, <1>4, <3>1, <3>2 DEF OnItsWay, Lost
      <4>3. ASSUME NEW n \in (base[c] + 1)..(next_seq - 1), kindOf[n] \in Wanted[c]
            PROVE  n \in seen[c] \union Lost(c) \/ n > last_seq[c]
        <5>1. n \in OnItsWay(c) \union seen[c] \union Lost(c)
          BY <1>2, <4>1, <4>3 DEF Covered
        <5>2. n \in OnItsWay(c) /\ n <= last_seq[c] => n \in Lost(c)
          BY <4>1 DEF Covered, Lost
        <5>3. n <= last_seq[c] \/ n > last_seq[c]
          <6>1. base[c] \in Nat /\ next_seq \in Nat
            BY <1>1 DEF FlowTypes, ArchiveInv
          <6> QED BY <4>1, <6>1
        <5> QED BY <5>1, <5>2, <5>3
      <4>4. last_seq'[c] < next_seq'
        BY <1>2, <4>1 DEF Covered
      <4> QED BY <1>2, <1>4, <4>2, <4>3, <4>4 DEF Covered
    <3> QED BY <2>3, <3>5, <3>6
  <2> QED BY <2>2, <2>3
<1>10. ArchiveInv'
  BY <1>1, <1>2 DEF ArchiveInv, RingContiguous
<1> QED BY <1>5, <1>7, <1>8, <1>9, <1>10 DEF DeliveryInv

\* The daemon restarts: nothing is on its way, and nobody has seen anything
\* of what the new one will number.
LEMMA DeliveryRestart ==
  ASSUME DeliveryInv, Restart
  PROVE  DeliveryInv'
<1>1. FlowTypes /\ Subscriptions /\ ArchiveInv
  BY DEF DeliveryInv
<1>2. /\ restarts' = restarts + 1 /\ next_seq' = 1 /\ ring' = <<>> /\ kindOf' = <<>>
      /\ publishing' = [p \in Publishers |-> Idle]
      /\ sub' = [c \in Clients |-> 0]
      /\ queues' = [c \in Clients |-> NewQueue]
      /\ wire' = [c \in Clients |-> <<>>]
      /\ base' = [c \in Clients |-> 0]
      /\ seen' = [c \in Clients |-> {}] /\ evicted' = [c \in Clients |-> {}]
      /\ unreplayed' = [c \in Clients |-> {}] /\ overtaken' = [c \in Clients |-> {}]
      /\ UNCHANGED <<last_seq, connects>>
  BY DEF Restart
<1>3. NewQueue \in QueueType /\ NewQueue.queue = <<>>
  BY NumsEmpty DEF NewQueue, QueueType
<1>4. Idle \in [event : FrameType, targets : SUBSET (Clients \X Nat)] /\ Idle.targets = {}
  BY EventBusAssumption DEF Idle, Event, FrameType
<1>5. restarts' \in Nat /\ restarts' # 0
  BY <1>1, <1>2 DEF FlowTypes
<1>6. FlowTypes'
  BY <1>1, <1>2, <1>3, <1>4, <1>5, NumsEmpty DEF FlowTypes
<1>7. Subscriptions'
  BY <1>1, <1>2, <1>3, <1>4 DEF Subscriptions, FlowTypes
<1>8. Publishing'
  BY <1>2, <1>4 DEF Publishing
<1>9. ASSUME NEW c \in Clients PROVE Once(c)'
  <2>1. Pushed(c)' = {}
    BY <1>2, <1>4 DEF Pushed, Live
  <2>2. queues'[c].queue = <<>> /\ wire'[c] = <<>> /\ seen'[c] = {}
    BY <1>2, <1>3
  <2> QED BY <2>1, <2>2, NumsEmpty DEF Once, Apart
<1>10. ArchiveInv'
  BY <1>2, EventBusAssumption DEF ArchiveInv, RingContiguous
<1> QED BY <1>5, <1>6, <1>7, <1>8, <1>9, <1>10 DEF DeliveryInv

\* Every step keeps what is on its way apart, and covered.
LEMMA DeliveryNext == DeliveryInv /\ [Next]_vars => DeliveryInv'
<1> SUFFICES ASSUME DeliveryInv, [Next]_vars PROVE DeliveryInv'
  OBVIOUS
<1>1. ASSUME NEW p \in Publishers, NEW k \in Kinds, PublishStamp(p, k)
      PROVE  DeliveryInv'
  BY <1>1, DeliveryStamp
<1>2. ASSUME NEW p \in Publishers, NEW id \in publishing[p].targets, PublishPush(p, id)
      PROVE  DeliveryInv'
  BY <1>2, DeliveryPush
<1>3. ASSUME NEW c \in Clients, Subscribe(c) PROVE DeliveryInv'
  BY <1>3, DeliverySubscribe
<1>4. ASSUME NEW c \in Clients, Forward(c) PROVE DeliveryInv'
  BY <1>4, DeliveryForward
<1>5. ASSUME NEW c \in Clients, Route(c) PROVE DeliveryInv'
  BY <1>5, DeliveryRoute
<1>6. ASSUME NEW c \in Clients, Disconnect(c) PROVE DeliveryInv'
  BY <1>6, DeliveryDisconnect
<1>7. CASE Restart
  BY <1>7, DeliveryRestart
<1>8. CASE UNCHANGED vars
  <2>1. ArchiveInv'
    BY <1>8 DEF DeliveryInv, ArchiveInv, RingContiguous, vars
  <2>2. FlowTypes' /\ Subscriptions' /\ Publishing'
    BY <1>8 DEF DeliveryInv, FlowTypes, Subscriptions, Publishing, vars
  <2>3. ASSUME NEW c \in Clients PROVE Once(c)' /\ (restarts' = 0 => Covered(c)')
    <3>1. Pushed(c)' = Pushed(c)
      BY <1>8 DEF Pushed, Live, vars
    <3>2. Once(c) /\ (restarts = 0 => Covered(c))
      BY DEF DeliveryInv
    <3> QED BY <1>8, <3>1, <3>2, ClientStays DEF vars
  <2> QED BY <2>1, <2>2, <2>3 DEF DeliveryInv
<1> QED BY <1>1, <1>2, <1>3, <1>4, <1>5, <1>6, <1>7, <1>8 DEF Next

\* So it always is.
LEMMA DeliveryInvariant == Spec => []DeliveryInv
  BY DeliveryInit, DeliveryNext, PTL DEF Spec

\* Replay and live push overlap in time, threads push in any order, clients
\* come and go and the daemon restarts: no event is in two places from which a
\* client could still route it, and none that a client has routed is in one
\* (subscribe replays and registers under the lock that stamps).
THEOREM DeliveredAtMostOnce == Spec => []AtMostOnce
<1>1. DeliveryInv => AtMostOnce
  <2> SUFFICES ASSUME DeliveryInv, NEW c \in Clients, NEW n \in 1..(next_seq - 1),
                      NEW x \in Places(c, n), NEW y \in Places(c, n)
               PROVE  x = y
    BY DEF AtMostOnce
  <2> DEFINE q == queues[c].queue
             w == wire[c]
             InQueue(z) == \E i \in DOMAIN q : z = <<"queue", i>> /\ q[i].seq = n
             OnWire(z) == \E i \in DOMAIN w : z = <<"wire", i>> /\ w[i].seq = n
             AtPublisher(z) == \E p \in Live(c) : /\ z = <<"publisher", p>>
                                                  /\ publishing[p].event.seq = n
             Routed(z) == z = <<"routed", n>> /\ n \in seen[c]
  <2>1. n # 0
    BY DEF DeliveryInv, ArchiveInv
  <2>2. /\ Distinct(q) /\ Distinct(w)
        /\ Nums(q) \intersect (Nums(w) \union seen[c] \union Pushed(c)) = {}
        /\ Nums(w) \intersect (seen[c] \union Pushed(c)) = {}
        /\ seen[c] \intersect Pushed(c) = {}
    BY DEF DeliveryInv, Once, Apart
  <2>3. ASSUME NEW z \in Places(c, n)
        PROVE  InQueue(z) \/ OnWire(z) \/ AtPublisher(z) \/ Routed(z)
    BY <2>3 DEF Places, Live
  <2>4. ASSUME NEW z PROVE /\ InQueue(z) => n \in Nums(q)
                           /\ OnWire(z) => n \in Nums(w)
                           /\ AtPublisher(z) => n \in Pushed(c)
                           /\ Routed(z) => n \in seen[c]
    BY <2>1 DEF Nums, Pushed
  <2>5. \/ InQueue(x) /\ InQueue(y)
        \/ OnWire(x) /\ OnWire(y)
        \/ AtPublisher(x) /\ AtPublisher(y)
        \/ Routed(x) /\ Routed(y)
    <3> HIDE DEF InQueue, OnWire, AtPublisher, Routed, q, w
    <3> QED BY <2>2, <2>3, <2>4
  <2>6. CASE InQueue(x) /\ InQueue(y)
    BY <2>1, <2>2, <2>6 DEF Distinct
  <2>7. CASE OnWire(x) /\ OnWire(y)
    BY <2>1, <2>2, <2>7 DEF Distinct
  <2>8. CASE AtPublisher(x) /\ AtPublisher(y)
    <3>1. \A p, r \in Live(c) : publishing[p].event.seq = publishing[r].event.seq => p = r
      BY DEF DeliveryInv, Publishing, Live
    <3> QED BY <2>8, <3>1
  <2>9. CASE Routed(x) /\ Routed(y)
    BY <2>9
  <2> QED BY <2>5, <2>6, <2>7, <2>8, <2>9
<1> QED BY <1>1, DeliveryInvariant, PTL

\* Reconnects are gapless: for every capacity of the ring and the queues, a
\* client of a daemon that has not restarted is past an event it asked for
\* and never got only if its own queue had evicted it, the ring had let it
\* go, or a newer event of a racing publisher had overtaken it.
THEOREM ResumesAreGapless == Spec => []GaplessResume
<1>1. DeliveryInv => GaplessResume
  <2> SUFFICES ASSUME DeliveryInv, restarts = 0, NEW c \in Clients, NEW n \in Skipped(c)
               PROVE  n \in Lost(c)
    BY DEF GaplessResume, Lost
  <2>1. FlowTypes /\ Covered(c)
    BY DEF DeliveryInv
  <2>2. /\ n \in (base[c] + 1)..(next_seq - 1) /\ n <= last_seq[c] /\ kindOf[n] \in Wanted[c]
        /\ n \notin seen[c] /\ n \notin Coming(c)
    BY DEF Skipped
  <2>3. n \notin OnItsWay(c)
    BY <2>1, <2>2, ComingIs
  <2>4. ~(n > last_seq[c])
    <3>1. base[c] \in Nat /\ last_seq[c] \in Nat /\ next_seq \in Nat
      BY <2>1 DEF FlowTypes, DeliveryInv, ArchiveInv
    <3> QED BY <2>2, <3>1
  <2> QED BY <2>1, <2>2, <2>3, <2>4 DEF Covered
<1> QED BY <1>1, DeliveryInvariant, PTL
=============================================================================

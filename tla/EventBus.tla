------------------------------ MODULE EventBus ------------------------------
(***************************************************************************)
(* The engine's event bus (diri-engine/src/events.rs), the forwarder that  *)
(* streams a subscription onto a control connection (control.rs,           *)
(* events_subscribe) and the reconnecting client that resumes from the     *)
(* highest seq it has routed (diri-client/src/client.rs).                  *)
(*                                                                         *)
(* publish stamps and archives an event under the bus lock, but pushes it  *)
(* to the subscriber queues after the lock is released: PublishStamp and   *)
(* PublishPush are two steps, and the threads that publish (control        *)
(* handlers, governor, registry watcher, PR monitor) interleave between    *)
(* them.                                                                   *)
(***************************************************************************)
EXTENDS Naturals, Sequences, SequencesExt, FiniteSets

CONSTANTS
  Publishers,         \* threads that call publish
  Clients,            \* control clients that subscribe
  Kinds,              \* event names
  Wanted,             \* Wanted[c]: the kinds c's filter admits
  Bytes,              \* Bytes[k]: storage_bytes of an archived event of kind k
  RingCapacity, RingByteCapacity, SubscriberCapacity,
  MaxSeq,             \* bound: events one daemon publishes
  MaxConnects,        \* bound: subscriptions one client opens
  MaxRestarts         \* bound: daemon restarts

EventsDropped == "events.dropped"

\* EventBus::new gives a subscriber's queue twice the ring's capacity, and no
\* caller publishes the marker's name.
ASSUME EventBusAssumption ==
  /\ RingCapacity \in Nat \ {0} /\ RingByteCapacity \in Nat \ {0}
  /\ SubscriberCapacity \in Nat /\ SubscriberCapacity >= RingCapacity
  /\ EventsDropped \notin Kinds
  /\ MaxSeq \in Nat /\ MaxConnects \in Nat /\ MaxRestarts \in Nat
  /\ Wanted \in [Clients -> SUBSET Kinds]
  /\ Bytes \in [Kinds -> Nat]

VARIABLES
  next_seq,     \* BusInner.next_seq
  ring,         \* BusInner.ring: archived events, oldest first
  publishing,   \* publishing[p]: the event p has stamped and the queues it
                \* still has to push it to (its clone of the list)
  sub,          \* sub[c]: number of c's live subscription, 0 when it has none
  queues,       \* queues[c]: QueueState of c's live subscription
  wire,         \* wire[c]: frames written by the forwarder, not yet routed
  last_seq,     \* ClientCore.last_seq
  connects, restarts,
  (* history *)
  kindOf,       \* kindOf[n]: the kind of the event with seq n
  base,         \* base[c]: c follows the events after this seq
  seen,         \* seen[c]: seqs c has routed
  evicted,      \* evicted[c]: seqs evicted from one of c's queues
  unreplayed,   \* unreplayed[c]: seqs the ring no longer held at a resume
  overtaken,    \* overtaken[c]: seqs still on their way to c when it routed
                \* a newer event
  told          \* told[c]: seqs the markers c has routed report as dropped

vars == <<next_seq, ring, publishing, sub, queues, wire, last_seq, connects,
          restarts, kindOf, base, seen, evicted, unreplayed, overtaken, told>>

(***************************************************************************)
(* Events, and the synthetic hole marker: seq 0 and the dropped range.     *)
(***************************************************************************)
Event(n, k) == [seq |-> n, kind |-> k, from |-> 0, to |-> 0]

Marker(from, to) == [seq |-> 0, kind |-> EventsDropped, from |-> from, to |-> to]

IsMarker(e) == e.kind = EventsDropped

admits(c, e) == IsMarker(e) \/ e.kind \in Wanted[c]

NewQueue == [queue |-> <<>>, dropped |-> 0, first |-> 0, last |-> 0]

\* BusInner.subscribers: the queues with a live stream. A subscription is
\* named by its client and its number among that client's subscriptions.
Registered == {<<c, sub[c]>> : c \in {d \in Clients : sub[d] # 0}}

Idle == [event |-> Event(0, EventsDropped), targets |-> {}]

(***************************************************************************)
(* SubscriberQueue::push, for an admitted event: a full queue evicts its   *)
(* oldest entry and remembers the hole, a queue with room first reports    *)
(* the hole.                                                               *)
(***************************************************************************)
Evict(q) ==
  LET e == Head(q.queue)
  IN  [queue   |-> Tail(q.queue),
       dropped |-> q.dropped + 1,
       first   |-> IF q.dropped = 0 THEN e.seq ELSE q.first,
       last    |-> e.seq]

Report(q) ==
  [q EXCEPT !.queue = Append(@, Marker(q.first, q.last)), !.dropped = 0]

MakeRoom(q) ==
  IF Len(q.queue) >= SubscriberCapacity THEN Evict(q)
  ELSE IF q.dropped > 0 THEN Report(q)
  ELSE q

Push(q, e) == LET r == MakeRoom(q) IN [r EXCEPT !.queue = Append(@, e)]

\* What pushing onto q throws away (the evicted marker has seq 0).
EvictedBy(q) ==
  IF Len(q.queue) >= SubscriberCapacity THEN {Head(q.queue).seq} \ {0} ELSE {}

(***************************************************************************)
(* The ring keeps the newest events that fit both of its bounds.           *)
(***************************************************************************)
StorageBytes(s) == FoldLeft(LAMBDA sum, e : sum + Bytes[e.kind], 0, s)

Fits(s) == Len(s) <= RingCapacity /\ StorageBytes(s) <= RingByteCapacity

\* Where the eviction loop stops: at the first suffix that fits, or at the end.
KeptFrom(s) ==
  {i \in 1..(Len(s) + 1) :
     /\ i = Len(s) + 1 \/ Fits(SubSeq(s, i, Len(s)))
     /\ \A j \in 1..(i - 1) : ~Fits(SubSeq(s, j, Len(s)))}

\* Mutant: the eviction loop pops the newest entries.
ArchiveEvictsNewest(s) == {SubSeq(s, 1, Len(s) - i + 1) : i \in KeptFrom(s)}

Archive(s) == {SubSeq(s, i, Len(s)) : i \in KeptFrom(s)}

-----------------------------------------------------------------------------
Init ==
  /\ next_seq = 1 /\ ring = <<>>
  /\ publishing = [p \in Publishers |-> Idle]
  /\ sub = [c \in Clients |-> 0]
  /\ queues = [c \in Clients |-> NewQueue]
  /\ wire = [c \in Clients |-> <<>>]
  /\ last_seq = [c \in Clients |-> 0]
  /\ connects = [c \in Clients |-> 0]
  /\ restarts = 0
  /\ kindOf = <<>>
  /\ base = [c \in Clients |-> 0]
  /\ seen = [c \in Clients |-> {}]
  /\ evicted = [c \in Clients |-> {}]
  /\ unreplayed = [c \in Clients |-> {}]
  /\ overtaken = [c \in Clients |-> {}]
  /\ told = [c \in Clients |-> {}]

\* publish, under the bus lock: stamp, archive, clone the subscriber list.
PublishStamp(p, k) ==
  /\ publishing[p].targets = {}
  /\ next_seq <= MaxSeq
  /\ next_seq' = next_seq + 1
  /\ ring' \in Archive(Append(ring, Event(next_seq, k)))
  /\ publishing' = [publishing EXCEPT ![p] =
                      [event |-> Event(next_seq, k), targets |-> Registered]]
  /\ kindOf' = Append(kindOf, k)
  /\ UNCHANGED <<sub, queues, wire, last_seq, connects, restarts,
                 base, seen, evicted, unreplayed, overtaken, told>>

\* publish, after the unlock: push to the next queue of the cloned list. A
\* queue whose stream is gone is closed and takes nothing.
PublishPush(p, id) ==
  LET e == publishing[p].event
      takes == {c \in Clients : id = <<c, sub[c]>> /\ admits(c, e)}
  IN  /\ id \in publishing[p].targets
      /\ publishing' = [publishing EXCEPT ![p].targets = @ \ {id}]
      /\ queues' = [c \in Clients |-> IF c \in takes THEN Push(queues[c], e)
                                      ELSE queues[c]]
      /\ evicted' = [c \in Clients |-> IF c \in takes
                                       THEN evicted[c] \union EvictedBy(queues[c])
                                       ELSE evicted[c]]
      /\ UNCHANGED <<next_seq, ring, kindOf, restarts, sub, wire,
                     last_seq, connects, base, seen, unreplayed, overtaken, told>>

(***************************************************************************)
(* The client connects and subscribes with sinceSeq = last_seq, or with no *)
(* sinceSeq while last_seq is 0. Replay and registration happen under one  *)
(* hold of the bus lock.                                                   *)
(***************************************************************************)
\* Mutants: the replay starts one event too early, or one too late.
MissedToo(since, e) == e.seq >= since
MissedAfterNext(since, e) == e.seq > since + 1

Missed(since, e) == e.seq > since

\* The queue of a resume: what was missed is pushed, oldest first.
Replayed(c, since) ==
  LET fed[i \in 0..Len(ring)] ==
        IF i = 0 THEN NewQueue
        ELSE IF Missed(since, ring[i]) /\ admits(c, ring[i]) THEN Push(fed[i - 1], ring[i])
        ELSE fed[i - 1]
  IN  fed[Len(ring)]

Subscribe(c) ==
  LET since == last_seq[c]
      resume == since # 0
      held == {ring[i].seq : i \in DOMAIN ring}
  IN  /\ sub[c] = 0
      /\ connects[c] < MaxConnects
      /\ connects' = [connects EXCEPT ![c] = @ + 1]
      /\ sub' = [sub EXCEPT ![c] = connects[c] + 1]
      /\ queues' = [queues EXCEPT ![c] = IF resume THEN Replayed(c, since)
                                         ELSE NewQueue]
      /\ base' = [base EXCEPT ![c] = IF resume THEN @ ELSE next_seq - 1]
      /\ unreplayed' = [unreplayed EXCEPT ![c] =
           IF resume THEN @ \union ({n \in 1..(next_seq - 1) : n > since} \ held)
           ELSE @]
      /\ UNCHANGED <<next_seq, ring, publishing, wire, last_seq, restarts,
                     kindOf, seen, evicted, overtaken, told>>

\* Mutant: a push onto an empty queue does not wake the forwarder.
ForwardUnwoken(c) ==
  /\ Len(queues[c].queue) > 1
  /\ wire' = [wire EXCEPT ![c] = Append(@, Head(queues[c].queue))]
  /\ queues' = [queues EXCEPT ![c].queue = Tail(@)]
  /\ UNCHANGED <<next_seq, ring, publishing, sub, last_seq, connects, restarts,
                 kindOf, base, seen, evicted, unreplayed, overtaken, told>>

\* The forwarder thread: EventStream::recv, then write_message.
Forward(c) ==
  /\ sub[c] # 0
  /\ queues[c].queue # <<>>
  /\ wire' = [wire EXCEPT ![c] = Append(@, Head(queues[c].queue))]
  /\ queues' = [queues EXCEPT ![c].queue = Tail(@)]
  /\ UNCHANGED <<next_seq, ring, publishing, sub, last_seq, connects, restarts,
                 kindOf, base, seen, evicted, unreplayed, overtaken, told>>

\* The events still on their way to c.
Coming(c) ==
  {e.seq : e \in ToSet(queues[c].queue \o wire[c])}
    \union {publishing[p].event.seq :
              p \in {x \in Publishers : <<c, sub[c]>> \in publishing[x].targets}}

\* ClientCore::route_message of an Event: last_seq.fetch_max(seq), broadcast.
Route(c) ==
  LET e == Head(wire[c])
  IN  /\ wire[c] # <<>>
      /\ wire' = [wire EXCEPT ![c] = Tail(@)]
      /\ last_seq' = [last_seq EXCEPT ![c] = IF e.seq > @ THEN e.seq ELSE @]
      /\ seen' = [seen EXCEPT ![c] = IF IsMarker(e) THEN @ ELSE @ \union {e.seq}]
      /\ told' = [told EXCEPT ![c] = IF IsMarker(e) THEN @ \union (e.from..e.to)
                                     ELSE @]
      /\ overtaken' = [overtaken EXCEPT ![c] = @ \union {n \in Coming(c) : n < e.seq}]
      /\ UNCHANGED <<next_seq, ring, publishing, sub, queues, connects, restarts,
                     kindOf, base, evicted, unreplayed>>

\* The connection fails: what is on the wire is lost, the forwarder's next
\* write fails and dropping its stream closes and unregisters the queue.
Disconnect(c) ==
  /\ sub[c] # 0
  /\ sub' = [sub EXCEPT ![c] = 0]
  /\ queues' = [queues EXCEPT ![c] = NewQueue]
  /\ wire' = [wire EXCEPT ![c] = <<>>]
  /\ UNCHANGED <<next_seq, ring, publishing, last_seq, connects, restarts,
                 kindOf, base, seen, evicted, unreplayed, overtaken, told>>

\* The daemon restarts: a new bus counts from 1 again, every connection is
\* gone, and the clients keep their last_seq.
Restart ==
  /\ restarts < MaxRestarts
  /\ restarts' = restarts + 1
  /\ next_seq' = 1 /\ ring' = <<>> /\ kindOf' = <<>>
  /\ publishing' = [p \in Publishers |-> Idle]
  /\ sub' = [c \in Clients |-> 0]
  /\ queues' = [c \in Clients |-> NewQueue]
  /\ wire' = [c \in Clients |-> <<>>]
  /\ base' = [c \in Clients |-> 0]
  /\ seen' = [c \in Clients |-> {}]
  /\ evicted' = [c \in Clients |-> {}]
  /\ unreplayed' = [c \in Clients |-> {}]
  /\ overtaken' = [c \in Clients |-> {}]
  /\ told' = [c \in Clients |-> {}]
  /\ UNCHANGED <<last_seq, connects>>

Next ==
  \/ \E p \in Publishers, k \in Kinds : PublishStamp(p, k)
  \/ \E p \in Publishers : \E id \in publishing[p].targets : PublishPush(p, id)
  \/ \E c \in Clients : Subscribe(c) \/ Forward(c) \/ Route(c) \/ Disconnect(c)
  \/ Restart

Spec == Init /\ [][Next]_vars

\* publish never waits for a consumer, the forwarder blocks only on an empty
\* queue and the client's reader task only on an empty socket.
Fairness ==
  /\ \A p \in Publishers :
       WF_vars(\E id \in publishing[p].targets : PublishPush(p, id))
  /\ \A c \in Clients : WF_vars(Forward(c)) /\ WF_vars(Route(c))

FairSpec == Spec /\ Fairness

-----------------------------------------------------------------------------
SeqNo == 0..MaxSeq
EventSet == [seq : SeqNo, kind : Kinds \union {EventsDropped}, from : SeqNo, to : SeqNo]

\* The variables hold values of their Rust types, and every seq that is in
\* flight or on record is one the current daemon has stamped.
TypeOK ==
  /\ next_seq \in 1..(MaxSeq + 1)
  /\ ring \in Seq(EventSet)
  /\ kindOf \in Seq(Kinds) /\ Len(kindOf) = next_seq - 1
  /\ \A p \in Publishers :
       /\ publishing[p].event.seq < next_seq
       /\ publishing[p].targets \subseteq Clients \X (1..MaxConnects)
  /\ sub \in [Clients -> 0..MaxConnects] /\ connects \in [Clients -> 0..MaxConnects]
  /\ \A c \in Clients :
       /\ queues[c].queue \in Seq(EventSet) /\ wire[c] \in Seq(EventSet)
       /\ queues[c].dropped \in Nat
       /\ queues[c].first \in SeqNo /\ queues[c].last \in SeqNo
       /\ base[c] \in 0..(next_seq - 1)
       /\ \A S \in {seen[c], evicted[c], unreplayed[c]} : S \subseteq 1..(next_seq - 1)
  /\ last_seq \in [Clients -> SeqNo] /\ restarts \in 0..MaxRestarts

\* The ring is exactly the newest events, in order and without a hole
\* (publish archives under the lock that stamps), so a resume that finds its
\* sinceSeq in the ring misses nothing.
RingContiguous ==
  /\ Len(ring) <= RingCapacity
  /\ \A i \in DOMAIN ring : ring[i].seq = next_seq - 1 - Len(ring) + i
  /\ \A i \in DOMAIN ring : ring[i].kind = kindOf[ring[i].seq]

\* Where the event with seq n is on its way to c, or was routed.
Places(c, n) ==
  {<<"queue", i>> : i \in {j \in DOMAIN queues[c].queue : queues[c].queue[j].seq = n}}
    \union {<<"wire", i>> : i \in {j \in DOMAIN wire[c] : wire[c][j].seq = n}}
    \union {<<"publisher", p>> : p \in {x \in Publishers :
                /\ publishing[x].event.seq = n
                /\ <<c, sub[c]>> \in publishing[x].targets}}
    \union {<<"routed", m>> : m \in seen[c] \intersect {n}}

\* An event reaches a client at most once: it is in no two places from which
\* it could still be, or already was, routed. Replay and live push overlap in
\* time, so this is what makes registering under the lock that stamps
\* necessary.
AtMostOnce ==
  \A c \in Clients : \A n \in 1..(next_seq - 1) : \A x, y \in Places(c, n) : x = y

\* The events c has asked for and is past, and never gets.
Skipped(c) ==
  {n \in (base[c] + 1)..(next_seq - 1) :
     n <= last_seq[c] /\ kindOf[n] \in Wanted[c]} \ (seen[c] \union Coming(c))

\* "gapless reconnect via sinceSeq": a client is past an event it never got
\* only if its own queue overflowed, the ring had already let it go, or a
\* racing publisher's newer event had overtaken it when the connection broke.
\* It resumes past whatever a restarted daemon published before.
GaplessResume ==
  restarts = 0 =>
    \A c \in Clients : Skipped(c) \subseteq evicted[c] \union unreplayed[c] \union overtaken[c]

\* The seqs that a marker still queued or on the wire, or the hole the queue
\* has yet to report, will tell c about.
ToBeTold(c) ==
  UNION {e.from..e.to : e \in {x \in ToSet(queues[c].queue \o wire[c]) : IsMarker(x)}}
    \union (IF queues[c].dropped > 0 THEN queues[c].first..queues[c].last ELSE {})

\* "The subscriber learns about the hole exactly once per burst via a
\* synthetic events.dropped marker, which makes the loss recoverable rather
\* than silent": while it is subscribed, every event c is past and that its
\* queue evicted is in the range of a marker it got or is going to get.
HolesAreReported ==
  \A c \in Clients :
    sub[c] # 0 =>
      (Skipped(c) \intersect evicted[c]) \ unreplayed[c] \subseteq told[c] \union ToBeTold(c)

\* "the newest state still gets through": the newest event c wants is routed
\* unless the connection fails, a newer event is published, the ring could
\* not hold it for the resume, or the client resumed with the seq of an
\* earlier daemon.
Newest(c, n) ==
  /\ n = next_seq - 1 /\ kindOf[n] \in Wanted[c]
  /\ n > base[c] /\ n > last_seq[c] /\ n \notin unreplayed[c]

NewestGetsThrough ==
  \A c \in Clients : \A n \in 1..MaxSeq :
    (sub[c] # 0 /\ Newest(c, n))
      ~> (n \in seen[c] \/ sub[c] = 0 \/ next_seq - 1 # n)
=============================================================================

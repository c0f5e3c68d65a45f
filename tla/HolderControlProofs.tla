------------------------ MODULE HolderControlProofs -------------------------
(***************************************************************************)
(* The Holders and who controls them.  First HolderLease: the Holder of a  *)
(* remote session implements the controller lease, for any number of       *)
(* Engines and connections, and no two Engines ever hold the same epoch.   *)
(*                                                                         *)
(* Then HolderManager: one manager of local Holders listens at a time and  *)
(* the socket path leads to it, and a manager that ends takes no session   *)
(* with it, for any number of launchers, sessions, managers and faults.    *)
(***************************************************************************)
EXTENDS HolderLease, HolderManager, SequenceTheorems, TLAPS

(***************************************************************************)
(* Type correctness.                                                       *)
(***************************************************************************)
LEMMA NoConnIsNoConnection == NoConn \notin Conns
BY HolderLeaseAssumption DEF Conns

\* The initial state is typed.
LEMMA TypeInit == Init => TypeOK
BY HolderLeaseAssumption
   DEF Init, TypeOK, HolderTypes, ChannelTypes, EngineTypes, Slot, Conns, UpMsg, DownMsg

\* Setting one entry of a Boolean table keeps it one.
LEMMA SetFlag ==
  ASSUME NEW S, NEW f \in [S -> BOOLEAN], NEW x \in S, NEW b \in BOOLEAN
  PROVE  [f EXCEPT ![x] = b] \in [S -> BOOLEAN]
BY Zenon

\* A sequence stays one when an element is queued or its head is taken.
LEMMA QueueTypes ==
  ASSUME NEW S, NEW T, NEW q \in [S -> Seq(T)], NEW x \in S, NEW s \in Seq(T)
  PROVE  [q EXCEPT ![x] = s] \in [S -> Seq(T)]
OBVIOUS

\* Closing connections keeps the types of the sockets.
LEMMA CloseTypes ==
  ASSUME ChannelTypes, NEW S, Close(S)
  PROVE  /\ sock' \in [Conns -> {"none", "open", "closed"}]
         /\ uplink' \in [Conns -> Seq(UpMsg)]
BY DEF Close, ChannelTypes

\* So do the messages they had queued.
LEMMA CloseQueues ==
  ASSUME HolderTypes, NEW S, Close(S)
  PROVE  outbound' \in [Conns -> Seq(DownMsg)]
BY DEF Close, HolderTypes

\* Messages passed on keep the types of those under way.
LEMMA PassedTypes ==
  ASSUME ChannelTypes, NEW c \in Conns, NEW msgs \in Seq(DownMsg)
  PROVE  /\ Passed(c, msgs) \in Seq(DownMsg)
         /\ downlink[c] \o Passed(c, msgs) \in Seq(DownMsg)
<1>1. downlink[c] \in Seq(DownMsg) /\ Passed(c, msgs) \in Seq(DownMsg)
  BY DEF Passed, ChannelTypes
<1> QED
  BY <1>1, ConcatProperties

\* Cutting the second of two sequences anywhere loses nothing.
LEMMA Regroup ==
  ASSUME NEW T, NEW p \in Seq(T), NEW q \in Seq(T), NEW k \in 0..Len(q)
  PROVE  (p \o SubSeq(q, 1, k)) \o SubSeq(q, k + 1, Len(q)) = p \o q
<1> DEFINE a == SubSeq(q, 1, k)
           b == SubSeq(q, k + 1, Len(q))
<1>1. /\ a \in Seq(T) /\ Len(a) = k
      /\ \A i \in 1..k : a[i] = q[i]
  BY SubSeqProperties
<1>2. /\ b \in Seq(T) /\ Len(b) = Len(q) - k
      /\ \A i \in 1..(Len(q) - k) : b[i] = q[k + i]
  BY SubSeqProperties
<1> HIDE DEF a, b
<1>a. Len(p) \in Nat /\ Len(q) \in Nat /\ k \in Nat /\ k <= Len(q)
  OBVIOUS
<1>b. /\ p \o q \in Seq(T) /\ Len(p \o q) = Len(p) + Len(q)
      /\ \A i \in 1..(Len(p) + Len(q)) :
           (p \o q)[i] = IF i <= Len(p) THEN p[i] ELSE q[i - Len(p)]
  BY ConcatProperties
<1>3. /\ p \o a \in Seq(T) /\ Len(p \o a) = Len(p) + Len(a)
      /\ \A i \in 1..(Len(p) + Len(a)) :
           (p \o a)[i] = IF i <= Len(p) THEN p[i] ELSE a[i - Len(p)]
  BY <1>1, ConcatProperties
<1>4. /\ (p \o a) \o b \in Seq(T) /\ Len((p \o a) \o b) = Len(p \o a) + Len(b)
      /\ \A i \in 1..(Len(p \o a) + Len(b)) : ((p \o a) \o b)[i]
           = IF i <= Len(p \o a) THEN (p \o a)[i] ELSE b[i - Len(p \o a)]
  <2> DEFINE r == p \o a
  <2>1. r \in Seq(T)
    BY <1>3
  <2> HIDE DEF r
  <2>2. /\ r \o b \in Seq(T) /\ Len(r \o b) = Len(r) + Len(b)
        /\ \A i \in 1..(Len(r) + Len(b)) :
             (r \o b)[i] = IF i <= Len(r) THEN r[i] ELSE b[i - Len(r)]
    BY <1>2, <2>1, ConcatProperties
  <2> QED
    BY <2>2 DEF r
<1>5. Len((p \o a) \o b) = Len(p \o q)
  BY <1>a, <1>b, <1>1, <1>2, <1>3, <1>4
<1> DEFINE pa == p \o a
           pq == p \o q
           all == pa \o b
<1> HIDE DEF pa, pq, all
<1>c. /\ Len(pq) = Len(p) + Len(q) /\ Len(pa) = Len(p) + k
      /\ \A i \in 1..(Len(p) + Len(q)) :
           pq[i] = IF i <= Len(p) THEN p[i] ELSE q[i - Len(p)]
      /\ \A i \in 1..(Len(p) + k) :
           pa[i] = IF i <= Len(p) THEN p[i] ELSE a[i - Len(p)]
      /\ \A i \in 1..(Len(p) + k + (Len(q) - k)) :
           all[i] = IF i <= Len(p) + k THEN pa[i] ELSE b[i - (Len(p) + k)]
  BY <1>1, <1>2, <1>b, <1>3, <1>4 DEF pa, pq, all
<1>6. ASSUME NEW i \in 1..Len(pq) PROVE all[i] = pq[i]
  <2>1. i \in 1..(Len(p) + Len(q))
    BY <1>c
  <2>2. CASE i <= Len(p)
    BY <1>a, <1>c, <2>1, <2>2
  <2>3. CASE i > Len(p) /\ i <= Len(p) + k
    <3>1. i - Len(p) \in 1..k /\ ~(i <= Len(p)) /\ i \in 1..(Len(p) + k)
          /\ i \in 1..(Len(p) + k + (Len(q) - k))
      BY <1>a, <2>1, <2>3
    <3>2. all[i] = pa[i] /\ pa[i] = a[i - Len(p)]
      BY <1>c, <2>3, <3>1
    <3>3. a[i - Len(p)] = q[i - Len(p)]
      BY <1>1, <3>1
    <3>4. pq[i] = q[i - Len(p)]
      BY <1>c, <2>1, <3>1
    <3> QED
      BY <3>2, <3>3, <3>4
  <2>4. CASE i > Len(p) + k
    <3>1. /\ i - (Len(p) + k) \in 1..(Len(q) - k)
          /\ k + (i - (Len(p) + k)) = i - Len(p)
          /\ ~(i <= Len(p)) /\ ~(i <= Len(p) + k)
          /\ i \in 1..(Len(p) + k + (Len(q) - k))
      BY <1>a, <2>1, <2>4
    <3>2. all[i] = b[i - (Len(p) + k)]
      BY <1>c, <3>1
    <3>3. b[i - (Len(p) + k)] = q[i - Len(p)]
      BY <1>2, <3>1
    <3>4. pq[i] = q[i - Len(p)]
      BY <1>c, <2>1, <3>1
    <3> QED
      BY <3>2, <3>3, <3>4
  <2> QED
    BY <1>a, <2>1, <2>2, <2>3, <2>4
<1>7. all = pq
  <2>1. all \in Seq(T) /\ pq \in Seq(T) /\ Len(all) = Len(pq)
    BY <1>4, <1>5, <1>b DEF all, pq, pa
  <2> QED
    BY <2>1, <1>6, SeqEqual
<1> QED
  BY <1>7 DEF a, b, pa, pq, all

\* The PTY takes the front of a queue of inputs.
LEMMA WritesTypes ==
  ASSUME HolderTypes, NEW q \in Seq(Typed), NEW k \in 0..Len(q), Writes(q, k)
  PROVE  /\ applied' \in Seq(Typed) /\ pending_input' \in Seq(Typed)
         /\ Len(applied') = Len(applied) + k
         /\ applied' \o pending_input' = applied \o q
         /\ applied' = SubSeq(applied' \o pending_input', 1, Len(applied'))
<1>1. applied \in Seq(Typed)
  BY DEF HolderTypes
<1>2. /\ SubSeq(q, 1, k) \in Seq(Typed) /\ Len(SubSeq(q, 1, k)) = k
      /\ \A i \in 1..k : SubSeq(q, 1, k)[i] = q[i]
  BY SubSeqProperties
<1>3. /\ SubSeq(q, k + 1, Len(q)) \in Seq(Typed)
      /\ Len(SubSeq(q, k + 1, Len(q))) = Len(q) - k
      /\ \A i \in 1..(Len(q) - k) : SubSeq(q, k + 1, Len(q))[i] = q[k + i]
  BY SubSeqProperties
<1>4. applied' = applied \o SubSeq(q, 1, k) /\ pending_input' = SubSeq(q, k + 1, Len(q))
  BY DEF Writes
<1>5. applied' \in Seq(Typed) /\ pending_input' \in Seq(Typed)
  BY <1>1, <1>2, <1>3, <1>4, ConcatProperties
<1>6. Len(applied') = Len(applied) + k
  BY <1>1, <1>2, <1>4, ConcatProperties
<1>7. applied' \o pending_input' = applied \o q
  BY <1>1, <1>4, Regroup
<1>8. applied' = SubSeq(applied' \o pending_input', 1, Len(applied'))
  BY <1>5, ConcatProperties
<1> QED
  BY <1>5, <1>6, <1>7, <1>8

\* So does taking a message off an uplink.
LEMMA ConsumeTypes ==
  ASSUME ChannelTypes, NEW c \in Conns, uplink[c] # <<>>, Consume(c)
  PROVE  uplink' \in [Conns -> Seq(UpMsg)]
<1>1. Tail(uplink[c]) \in Seq(UpMsg)
  BY DEF ChannelTypes
<1> QED
  BY <1>1, QueueTypes DEF Consume, ChannelTypes

\* So does opening a Bridge.
LEMMA OpenTypes ==
  ASSUME TypeOK, NEW first \in Seq(UpMsg), NEW last \in BOOLEAN, Open(first, last)
  PROVE  /\ HolderTypes' /\ ChannelTypes'
         /\ opened + 1 \in Conns /\ opened' \in 0..MaxConns /\ written' \in Nat
<1>1. opened + 1 \in Conns /\ opened' = opened + 1 /\ opened' \in 0..MaxConns
  BY HolderLeaseAssumption DEF Open, Conns, TypeOK, EngineTypes
<1>2. eof' \in [Conns -> BOOLEAN]
  BY <1>1, SetFlag DEF Open, TypeOK, ChannelTypes
<1>3. uplink' \in [Conns -> Seq(UpMsg)]
  BY <1>1, QueueTypes DEF Open, TypeOK, ChannelTypes
<1>4. backlog' \in Seq(Conns)
  BY <1>1 DEF Open, TypeOK, HolderTypes
<1>5. HolderTypes'
  BY <1>4 DEF Open, TypeOK, HolderTypes, inputVars
<1>6. ChannelTypes'
  BY <1>2, <1>3 DEF Open, TypeOK, ChannelTypes
<1> QED
  BY <1>1, <1>5, <1>6 DEF Open, TypeOK, EngineTypes

\* So does a Bridge that ends, whatever the Engine makes of it.
LEMMA HangupTypes ==
  ASSUME TypeOK, NEW e \in Engines, bridge[e] # NoConn, Hangup(e)
  PROVE  /\ bridge' \in [Engines -> Slot] /\ writer_epoch' \in [Engines -> Nat]
         /\ hello_accepted' \in [Engines -> BOOLEAN]
         /\ eof' \in [Conns -> BOOLEAN] /\ uplink' \in [Conns -> Seq(UpMsg)]
<1>1. bridge[e] \in Conns
  BY DEF TypeOK, EngineTypes, Slot
<1>2. eof' \in [Conns -> BOOLEAN]
  BY <1>1, SetFlag DEF Hangup, TypeOK, ChannelTypes
<1>3. hello_accepted' \in [Engines -> BOOLEAN]
  BY SetFlag DEF Hangup, TypeOK, EngineTypes
<1>4. PICK k \in 0..Len(uplink[bridge[e]]) :
        uplink' = [uplink EXCEPT ![bridge[e]] = SubSeq(@, 1, k)]
  <2>1. Len(uplink[bridge[e]]) \in Nat
    BY <1>1 DEF TypeOK, ChannelTypes
  <2>2. CASE sock[bridge[e]] = "open"
    BY <2>2 DEF Hangup
  <2>3. CASE sock[bridge[e]] # "open"
    <3>1. PICK k \in 0..0 : uplink' = [uplink EXCEPT ![bridge[e]] = SubSeq(@, 1, k)]
      BY <2>3 DEF Hangup
    <3>2. k \in 0..Len(uplink[bridge[e]])
      BY <2>1
    <3> QED
      BY <3>1, <3>2
  <2> QED
    BY <2>2, <2>3
<1>5. SubSeq(uplink[bridge[e]], 1, k) \in Seq(UpMsg)
  <2>1. uplink[bridge[e]] \in Seq(UpMsg)
    BY <1>1 DEF TypeOK, ChannelTypes
  <2> QED
    BY <1>4, <2>1, SubSeqProperties
<1>6. uplink' \in [Conns -> Seq(UpMsg)]
  BY <1>1, <1>4, <1>5, QueueTypes DEF TypeOK, ChannelTypes
<1>7. bridge' \in [Engines -> Slot] /\ writer_epoch' \in [Engines -> Nat]
  BY DEF Hangup, TypeOK, EngineTypes, Slot
<1> QED
  BY <1>2, <1>3, <1>6, <1>7

\* So does handling a message from the Holder.
LEMMA ReceivedTypes ==
  ASSUME TypeOK, NEW e \in Engines, Received(e)
  PROVE  /\ HolderTypes' /\ Down(e) \in DownMsg
         /\ downlink' \in [Conns -> Seq(DownMsg)]
         /\ bridge[e] \in Conns /\ bridge[e] # NoConn
<1>1. bridge[e] \in Conns /\ bridge[e] # NoConn
  BY DEF Received, TypeOK, EngineTypes, Slot
<1>2. downlink[bridge[e]] \in Seq(DownMsg) /\ downlink[bridge[e]] # <<>>
  BY <1>1 DEF Received, TypeOK, ChannelTypes
<1>3. Down(e) \in DownMsg /\ Tail(downlink[bridge[e]]) \in Seq(DownMsg)
  BY <1>2 DEF Down
<1>4. downlink' \in [Conns -> Seq(DownMsg)]
  BY <1>1, <1>3, QueueTypes DEF Received, TypeOK, ChannelTypes
<1>5. HolderTypes'
  BY DEF Received, holderVars, inputVars, TypeOK, HolderTypes
<1> QED
  BY <1>1, <1>3, <1>4, <1>5

\* Every step of the Holder, of a Bridge or of an Engine keeps the types.
LEMMA TypeNext == TypeOK /\ [Next]_vars => TypeOK'
<1> SUFFICES ASSUME TypeOK, [Next]_vars PROVE TypeOK'
  OBVIOUS
<1> USE NoConnIsNoConnection
<1>0. HolderTypes /\ ChannelTypes /\ EngineTypes
  BY DEF TypeOK
<1> USE <1>0
<1>1. CASE AcceptConnection
  <2>1. backlog[Len(backlog)] \in Conns
    BY <1>1 DEF AcceptConnection, HolderTypes
  <2>a. outbound' \in [Conns -> Seq(DownMsg)]
    BY <1>1, CloseQueues DEF AcceptConnection
  <2>b. pending_connection' \in Slot /\ backlog' \in Seq(Conns)
    BY <1>1, <2>1 DEF AcceptConnection, Last, Slot
  <2>2. HolderTypes'
    BY <1>1, <2>a, <2>b DEF AcceptConnection, HolderTypes, inputVars
  <2>3. ChannelTypes'
    BY <1>1, CloseTypes DEF AcceptConnection, ChannelTypes
  <2>4. EngineTypes'
    BY <1>1 DEF AcceptConnection, EngineTypes, engineVars
  <2> QED
    BY <2>2, <2>3, <2>4 DEF TypeOK
<1>2. CASE ReadConnection
  BY <1>2 DEF ReadConnection, TypeOK, HolderTypes, ChannelTypes, EngineTypes, Slot,
              inputVars, channelVars, engineVars
<1>3. CASE ReadPendingConnection
  BY <1>3 DEF ReadPendingConnection, TypeOK, HolderTypes, ChannelTypes, EngineTypes, Slot,
              inputVars, channelVars, engineVars
<1>4. CASE FlushConnection
  <2>1. connection \in Conns
    BY <1>4 DEF FlushConnection, HolderTypes, Slot
  <2>2. downlink[connection] \o Passed(connection, outbound[connection]) \in Seq(DownMsg)
    BY <2>1, PassedTypes DEF HolderTypes
  <2>3. HolderTypes'
    BY <1>4, <2>1, QueueTypes DEF FlushConnection, HolderTypes, Slot, inputVars
  <2>4. ChannelTypes'
    BY <1>4, <2>1, <2>2, QueueTypes DEF FlushConnection, ChannelTypes
  <2> QED
    BY <1>4, <2>3, <2>4 DEF FlushConnection, TypeOK, EngineTypes, engineVars
<1>5. ASSUME NEW c \in Conns, Handshake(c) PROVE TypeOK'
  <2> DEFINE n == controller_epoch + 1
             greeting == << [type |-> "HelloAck", epoch |-> n],
                            [type |-> "ControlGranted", epoch |-> n] >>
  <2>1. greeting \in Seq(DownMsg) /\ n \in Nat
    BY DEF HolderTypes, DownMsg
  <2>2. outbound[c] \o greeting \in Seq(DownMsg)
    <3> HIDE DEF greeting
    <3> QED
      BY <2>1 DEF HolderTypes
  <2>3. outbound' \in [Conns -> Seq(DownMsg)]
    BY <1>5, <2>2, QueueTypes DEF Handshake, HolderTypes
  <2>4. HolderTypes'
    BY <1>5, <2>1, <2>3 DEF Handshake, HolderTypes, Slot, inputVars
  <2>5. uplink' \in [Conns -> Seq(UpMsg)]
    BY <1>5, ConsumeTypes DEF Handshake, Message
  <2>6. ChannelTypes'
    BY <1>5, <2>5 DEF Handshake, ChannelTypes
  <2> QED
    BY <1>5, <2>4, <2>6 DEF Handshake, TypeOK, EngineTypes, engineVars
<1>6. ASSUME NEW c \in Conns, ApplyInput(c) PROVE TypeOK'
  <2> DEFINE queue == Append(pending_input, [conn |-> c, epoch |-> conn_epoch[c]])
  <2>a. queue \in Seq(Typed)
    BY DEF HolderTypes, Typed
  <2>b. PICK k \in 0..Len(queue) : Writes(queue, k)
    BY <1>6 DEF ApplyInput
  <2>c. applied' \in Seq(Typed) /\ pending_input' \in Seq(Typed)
    <3> HIDE DEF queue
    <3> QED
      BY <2>a, <2>b, WritesTypes
  <2>1. HolderTypes'
    BY <1>6, <2>c DEF ApplyInput, HolderTypes, Slot
  <2>2. ChannelTypes'
    BY <1>6, ConsumeTypes DEF ApplyInput, Message, ChannelTypes
  <2> QED
    BY <1>6, <2>1, <2>2 DEF ApplyInput, TypeOK, EngineTypes, engineVars
<1>7. ASSUME NEW c \in Conns, HandlePart(c) PROVE TypeOK'
  <2>1. ChannelTypes'
    BY <1>7, ConsumeTypes DEF HandlePart, Message, ChannelTypes
  <2> QED
    BY <1>7, <2>1
       DEF HandlePart, TypeOK, HolderTypes, EngineTypes, engineVars, holderVars, inputVars
<1>8. ASSUME NEW c \in Conns, Refuse(c) PROVE TypeOK'
  <2>1. << [type |-> "Fatal", epoch |-> 0] >> \in Seq(DownMsg)
    BY DEF DownMsg
  <2>2. downlink[c] \o Passed(c, << [type |-> "Fatal", epoch |-> 0] >>) \in Seq(DownMsg)
    BY <2>1, PassedTypes
  <2>3. HolderTypes'
    BY <1>8, CloseQueues DEF Refuse, HolderTypes, Slot, inputVars
  <2>4. ChannelTypes'
    BY <1>8, <2>2, CloseTypes, QueueTypes DEF Refuse, ChannelTypes
  <2> QED
    BY <1>8, <2>3, <2>4 DEF Refuse, TypeOK, EngineTypes, engineVars
<1>9. ASSUME NEW c \in Conns, EndOfStream(c) PROVE TypeOK'
  <2>1. ChannelTypes'
    BY <1>9, CloseTypes DEF EndOfStream, ChannelTypes
  <2> QED
    BY <1>9, <2>1, CloseQueues
       DEF EndOfStream, TypeOK, HolderTypes, EngineTypes, Slot, engineVars, inputVars
<1>10. ASSUME NEW c \in Conns, KeepLive(c) PROVE TypeOK'
  BY <1>10 DEF KeepLive, TypeOK, HolderTypes, ChannelTypes, EngineTypes, Slot,
               engineVars, channelVars, inputVars
<1>11. ASSUME NEW c \in Conns, KeepPending(c) PROVE TypeOK'
  BY <1>11 DEF KeepPending, TypeOK, HolderTypes, ChannelTypes, EngineTypes, Slot,
               engineVars, channelVars, inputVars
<1>12. ASSUME NEW c \in Conns, Promote(c) PROVE TypeOK'
  <2>1. \A d \in Conns : Append(outbound[d],
           [type |-> "ControlRevoked", epoch |-> conn_epoch[d]]) \in Seq(DownMsg)
    BY DEF DownMsg, HolderTypes
  <2>a. \A d \in Conns : downlink[d] \o Passed(d, Append(outbound[d],
           [type |-> "ControlRevoked", epoch |-> conn_epoch[d]])) \in Seq(DownMsg)
    BY <2>1, PassedTypes
  <2>2. downlink' \in [Conns -> Seq(DownMsg)]
    BY <1>12, <2>a DEF Promote, ChannelTypes
  <2>3. ChannelTypes'
    BY <1>12, <2>2, CloseTypes DEF Promote, ChannelTypes
  <2> QED
    BY <1>12, <2>3, CloseQueues
       DEF Promote, TypeOK, HolderTypes, EngineTypes, Slot, engineVars, inputVars
<1>13. ASSUME NEW c \in Conns, BridgeExit(c) PROVE TypeOK'
  <2>1. gone' \in [Conns -> BOOLEAN]
    BY <1>13, SetFlag DEF BridgeExit, ChannelTypes
  <2>2. ChannelTypes'
    BY <1>13, <2>1, QueueTypes DEF BridgeExit, ChannelTypes
  <2> QED
    BY <1>13, <2>2
       DEF BridgeExit, TypeOK, HolderTypes, EngineTypes, engineVars, holderVars, inputVars
<1>14. ASSUME NEW e \in Engines, Connect(e) PROVE TypeOK'
  <2>1. <<"Hello">> \in Seq(UpMsg)
    BY DEF UpMsg
  <2>2. /\ HolderTypes' /\ ChannelTypes' /\ opened + 1 \in Conns
        /\ opened' \in 0..MaxConns /\ written' \in Nat
    BY <1>14, <2>1, OpenTypes DEF Connect
  <2> QED
    BY <1>14, <2>2 DEF Connect, TypeOK, EngineTypes, Slot
<1>15. ASSUME NEW e \in Engines, Write(e) PROVE TypeOK'
  <2>1. bridge[e] \in Conns /\ "Input" \in UpMsg
    BY <1>15 DEF Write, EngineTypes, Slot, UpMsg
  <2>2. Append(uplink[bridge[e]], "Input") \in Seq(UpMsg)
    BY <2>1 DEF ChannelTypes
  <2>3. ChannelTypes'
    BY <1>15, <2>1, <2>2, QueueTypes DEF Write, ChannelTypes
  <2> QED
    BY <1>15, <2>3 DEF Write, TypeOK, HolderTypes, EngineTypes, holderVars, inputVars
<1>16. ASSUME NEW e \in Engines, LinkLost(e) PROVE TypeOK'
  <2>1. bridge[e] \in Conns /\ bridge[e] # NoConn
    BY <1>16 DEF LinkLost, EngineTypes, Slot
  <2>2. ChannelTypes'
    BY <1>16, <2>1, HangupTypes, QueueTypes DEF LinkLost, ChannelTypes
  <2>3. EngineTypes'
    BY <1>16, <2>1, HangupTypes DEF LinkLost, EngineTypes
  <2> QED
    BY <1>16, <2>2, <2>3 DEF LinkLost, TypeOK, HolderTypes, holderVars, inputVars
<1>17. ASSUME NEW e \in Engines, ReceiveHelloAck(e) PROVE TypeOK'
  <2>1. hello_accepted' \in [Engines -> BOOLEAN]
    BY <1>17, SetFlag DEF ReceiveHelloAck, EngineTypes
  <2>2. EngineTypes'
    BY <1>17, <2>1, ReceivedTypes DEF ReceiveHelloAck, Received, DownMsg, EngineTypes
  <2>3. ChannelTypes'
    BY <1>17, ReceivedTypes DEF ReceiveHelloAck, Received, ChannelTypes
  <2> QED
    BY <1>17, <2>2, <2>3, ReceivedTypes DEF ReceiveHelloAck, TypeOK
<1>18. ASSUME NEW e \in Engines, ReceiveControlGranted(e) PROVE TypeOK'
  <2>1. ChannelTypes'
    BY <1>18, ReceivedTypes, HangupTypes DEF ReceiveControlGranted, Received, ChannelTypes
  <2>2. EngineTypes'
    BY <1>18, ReceivedTypes, HangupTypes DEF ReceiveControlGranted, Received, EngineTypes
  <2> QED
    BY <1>18, <2>1, <2>2, ReceivedTypes DEF ReceiveControlGranted, TypeOK
<1>19. ASSUME NEW e \in Engines, ReceiveControlRevoked(e) PROVE TypeOK'
  <2>1. ChannelTypes'
    BY <1>19, ReceivedTypes, HangupTypes DEF ReceiveControlRevoked, Received, ChannelTypes
  <2>2. EngineTypes'
    BY <1>19, ReceivedTypes, HangupTypes DEF ReceiveControlRevoked, Received, EngineTypes
  <2> QED
    BY <1>19, <2>1, <2>2, ReceivedTypes DEF ReceiveControlRevoked, TypeOK
<1>20. ASSUME NEW e \in Engines, ReceiveFatal(e) PROVE TypeOK'
  <2>1. failed' \in [Engines -> BOOLEAN]
    BY <1>20, SetFlag DEF ReceiveFatal, EngineTypes
  <2>2. ChannelTypes'
    BY <1>20, ReceivedTypes, HangupTypes DEF ReceiveFatal, Received, ChannelTypes
  <2>3. EngineTypes'
    BY <1>20, <2>1, ReceivedTypes, HangupTypes DEF ReceiveFatal, Received, EngineTypes
  <2> QED
    BY <1>20, <2>2, <2>3, ReceivedTypes DEF ReceiveFatal, TypeOK
<1>21. ASSUME NEW e \in Engines, ReceiveEof(e) PROVE TypeOK'
  <2>1. bridge[e] # NoConn
    BY <1>21 DEF ReceiveEof
  <2>2. ChannelTypes'
    BY <1>21, <2>1, HangupTypes DEF ReceiveEof, ChannelTypes
  <2>3. EngineTypes'
    BY <1>21, <2>1, HangupTypes DEF ReceiveEof, EngineTypes
  <2> QED
    BY <1>21, <2>2, <2>3 DEF ReceiveEof, TypeOK, HolderTypes, holderVars, inputVars
<1>22. CASE StrangerConnects
  <2>1. PICK first \in {<<>>, <<"BadHello">>, <<"Part">>}, last \in BOOLEAN :
          Open(first, last)
    BY <1>22 DEF StrangerConnects
  <2>2. <<>> \in Seq(UpMsg) /\ <<"BadHello">> \in Seq(UpMsg) /\ <<"Part">> \in Seq(UpMsg)
    BY DEF UpMsg
  <2>3. /\ HolderTypes' /\ ChannelTypes' /\ opened' \in 0..MaxConns /\ written' \in Nat
    BY <2>1, <2>2, OpenTypes
  <2> QED
    BY <1>22, <2>3 DEF StrangerConnects, TypeOK, EngineTypes
<1>23. CASE UNCHANGED vars
  BY <1>23 DEF vars, holderVars, inputVars, channelVars, engineVars, TypeOK, HolderTypes,
               ChannelTypes, EngineTypes
<1>24. CASE FlushInput
  <2>1. pending_input \in Seq(Typed)
    BY DEF HolderTypes
  <2>2. PICK k \in 0..Len(pending_input) : Writes(pending_input, k)
    BY <1>24, <2>1 DEF FlushInput
  <2>3. applied' \in Seq(Typed) /\ pending_input' \in Seq(Typed)
    BY <2>1, <2>2, WritesTypes
  <2> QED
    BY <1>24, <2>3 DEF FlushInput, TypeOK, HolderTypes, ChannelTypes, EngineTypes, Slot,
                       channelVars, engineVars
<1> QED
  BY <1>1, <1>2, <1>3, <1>4, <1>5, <1>6, <1>7, <1>8, <1>9, <1>10, <1>11, <1>12, <1>13,
     <1>14, <1>15, <1>16, <1>17, <1>18, <1>19, <1>20, <1>21, <1>22, <1>23, <1>24
     DEF Next, Holder, Pump

\* The types of HolderLease are invariant.
THEOREM TypeCorrect == Spec => []TypeOK
BY TypeInit, TypeNext, PTL DEF Spec

(***************************************************************************)
(* Only a handshake opens an epoch, only ApplyInput accepts an input, and  *)
(* only it and FlushInput drive the PTY.                                   *)
(***************************************************************************)
LEMMA LeaseSteps ==
  ASSUME [Next]_vars
  PROVE  \/ \E c \in Conns : Handshake(c)
         \/ \E c \in Conns : ApplyInput(c)
         \/ FlushInput
         \/ UNCHANGED <<controller_epoch, conn_epoch, inputVars>>
<1> DEFINE Kept == UNCHANGED <<controller_epoch, conn_epoch, inputVars>>
<1>1. CASE AcceptConnection \/ ReadConnection \/ ReadPendingConnection \/ FlushConnection
  BY <1>1
     DEF AcceptConnection, ReadConnection, ReadPendingConnection, FlushConnection
<1>2. ASSUME NEW c \in Conns, HandlePart(c) \/ Refuse(c) \/ EndOfStream(c) PROVE Kept
  BY <1>2 DEF HandlePart, Refuse, EndOfStream, holderVars, inputVars, inputVars
<1>3. ASSUME NEW c \in Conns, KeepLive(c) \/ KeepPending(c) \/ Promote(c) \/ BridgeExit(c)
      PROVE  Kept
  BY <1>3 DEF KeepLive, KeepPending, Promote, BridgeExit, holderVars, inputVars
<1>4. ASSUME NEW e \in Engines, Connect(e) \/ Write(e) \/ LinkLost(e) PROVE Kept
  BY <1>4 DEF Connect, Write, LinkLost, Open, holderVars, inputVars
<1>5. ASSUME NEW e \in Engines,
             \/ ReceiveHelloAck(e) \/ ReceiveControlGranted(e) \/ ReceiveControlRevoked(e)
             \/ ReceiveFatal(e) \/ ReceiveEof(e)
      PROVE  Kept
  BY <1>5 DEF ReceiveHelloAck, ReceiveControlGranted, ReceiveControlRevoked, ReceiveFatal,
              ReceiveEof, Received, holderVars, inputVars
<1>6. CASE StrangerConnects \/ UNCHANGED vars
  BY <1>6 DEF StrangerConnects, Open, vars, holderVars, inputVars
<1> QED BY <1>1, <1>2, <1>3, <1>4, <1>5, <1>6 DEF Next, Holder, Pump

\* No epoch has been opened at the start.
LEMMA EpochsInit == Init => EpochsAreUnique
BY DEF Init, EpochsAreUnique

\* Only a handshake opens an epoch, and a new one.
LEMMA EpochsNext == TypeOK /\ EpochsAreUnique /\ [Next]_vars => EpochsAreUnique'
<1> SUFFICES ASSUME TypeOK, EpochsAreUnique, [Next]_vars PROVE EpochsAreUnique'
  OBVIOUS
<1>1. controller_epoch \in Nat /\ conn_epoch \in [Conns -> Nat]
  BY DEF TypeOK, HolderTypes
<1>2. ASSUME NEW c \in Conns, Handshake(c) PROVE EpochsAreUnique'
  BY <1>1, <1>2 DEF Handshake, EpochsAreUnique
<1>3. ASSUME NEW c \in Conns, ApplyInput(c) PROVE EpochsAreUnique'
  BY <1>3 DEF ApplyInput, EpochsAreUnique
<1>4. CASE UNCHANGED <<controller_epoch, conn_epoch, inputVars>>
  BY <1>4 DEF EpochsAreUnique
<1>5. CASE FlushInput
  BY <1>5 DEF FlushInput, EpochsAreUnique
<1> QED
  BY <1>2, <1>3, <1>4, <1>5, LeaseSteps

\* No two connections of a Holder share a controller epoch.
THEOREM UniqueEpochs == Spec => []EpochsAreUnique
<1>1. TypeOK /\ EpochsAreUnique /\ [Next]_vars => (TypeOK /\ EpochsAreUnique)'
  BY TypeNext, EpochsNext
<1> QED
  BY <1>1, TypeInit, EpochsInit, PTL DEF Spec

\* The connection whose epoch is the Holder's is the lease's owner.
LEMMA HolderIsOwner ==
  ASSUME TypeOK, EpochsAreUnique, NEW c \in Conns, Holds(c)
  PROVE  Owner = c
<1>1. \A d \in Conns : Holds(d) => d = c
  BY DEF Holds, EpochsAreUnique
<1> QED
  BY <1>1 DEF Owner

\* Whatever the PTY takes of the queue is a longer front of what was
\* accepted.
LEMMA TakesMore ==
  ASSUME TypeOK, NEW q \in Seq(Typed), NEW k \in 0..Len(q), Writes(q, k)
  PROVE  /\ (applied \o pending_input)' = applied \o q
         /\ Lease!Takes
<1>1. HolderTypes
  BY DEF TypeOK
<1>2. /\ applied' \in Seq(Typed) /\ pending_input' \in Seq(Typed)
      /\ Len(applied') = Len(applied) + k
      /\ applied' \o pending_input' = applied \o q
      /\ applied' = SubSeq(applied' \o pending_input', 1, Len(applied'))
  BY <1>1, WritesTypes
<1>3. applied \in Seq(Typed) /\ Len(applied) \in Nat
  BY <1>1 DEF HolderTypes
<1>4. Len(applied') \in Len(applied)..Len(applied' \o pending_input')
  BY <1>2, <1>3, ConcatProperties
<1>5. Lease!Takes
  BY <1>2, <1>4 DEF Lease!Takes
<1> QED
  BY <1>2, <1>5

\* The Holder's steps are lease steps: a handshake acquires, write_input
\* accepts, flush_input writes, and everything else leaves the lease alone.
THEOREM HolderImplementsLease == Spec => LeaseSpec
<1>1. Init => Lease!Init
  <2>1. <<>> \o <<>> = <<>>
    OBVIOUS
  <2> QED
    BY <2>1 DEF Init, Lease!Init, Owner, Holds
<1>2. TypeOK /\ EpochsAreUnique /\ EpochsAreUnique' /\ TypeOK' /\ [Next]_vars
        => [Lease!Next]_Lease!leaseVars
  <2> SUFFICES ASSUME TypeOK, EpochsAreUnique, EpochsAreUnique', TypeOK', [Next]_vars
               PROVE  [Lease!Next]_Lease!leaseVars
    OBVIOUS
  <2>1. ASSUME NEW c \in Conns, Handshake(c) PROVE Lease!Acquire(c)
    <3>1. Holds(c)'
      BY <2>1 DEF Handshake, Holds, TypeOK, HolderTypes
    <3>2. \A d \in Conns : Holds(d)' => d = c
      BY <3>1 DEF Holds, EpochsAreUnique
    <3>3. Owner' = c
      BY <3>1, <3>2 DEF Owner
    <3> QED
      BY <2>1, <3>3 DEF Handshake, inputVars, Lease!Acquire
  <2>2. ASSUME NEW c \in Conns, ApplyInput(c) PROVE Lease!Accept
    <3> DEFINE typed == [conn |-> c, epoch |-> conn_epoch[c]]
               queue == Append(pending_input, typed)
    <3>1. Holds(c)
      BY <2>2 DEF ApplyInput, MayDrive, Holds
    <3>2. Owner = c /\ c # NoConn
      BY <3>1, HolderIsOwner, NoConnIsNoConnection
    <3>3. Owner' = Owner /\ controller_epoch' = controller_epoch
      BY <2>2 DEF ApplyInput, Owner, Holds
    <3>4. /\ applied \in Seq(Typed) /\ pending_input \in Seq(Typed)
          /\ typed \in Typed /\ queue \in Seq(Typed)
      BY DEF TypeOK, HolderTypes, Typed
    <3>5. PICK k \in 0..Len(queue) : Writes(queue, k)
      BY <2>2 DEF ApplyInput
    <3>6. (applied \o pending_input)' = applied \o queue /\ Lease!Takes
      <4> HIDE DEF queue
      <4> QED
        BY <3>4, <3>5, TakesMore
    <3>7. applied \o queue = Append(applied \o pending_input, typed)
      <4> HIDE DEF typed
      <4> QED
        BY <3>4
    <3>8. typed = [conn |-> Owner, epoch |-> controller_epoch]
      BY <3>1, <3>2 DEF Holds
    <3> QED
      BY <3>2, <3>3, <3>6, <3>7, <3>8 DEF Lease!Accept
  <2>3. CASE UNCHANGED <<controller_epoch, conn_epoch, inputVars>>
    BY <2>3 DEF Lease!leaseVars, Owner, Holds, inputVars
  <2>4. ASSUME FlushInput PROVE Lease!Write
    <3>1. pending_input \in Seq(Typed)
      BY DEF TypeOK, HolderTypes
    <3>2. PICK k \in 0..Len(pending_input) : Writes(pending_input, k)
      BY <2>4, <3>1 DEF FlushInput
    <3>3. (applied \o pending_input)' = applied \o pending_input /\ Lease!Takes
      BY <3>1, <3>2, TakesMore
    <3>4. Owner' = Owner /\ controller_epoch' = controller_epoch
      BY <2>4 DEF FlushInput, Owner, Holds
    <3> QED
      BY <3>3, <3>4 DEF Lease!Write
  <2> QED
    BY <2>1, <2>2, <2>3, <2>4, LeaseSteps DEF Lease!Next
<1> QED
  BY <1>1, <1>2, TypeCorrect, UniqueEpochs, PTL DEF Spec, LeaseSpec, Lease!Spec

(***************************************************************************)
(* Where an Engine's epoch comes from. Every HelloAck on its way carries   *)
(* the epoch of its own connection; an Engine adopts it from the Bridge it *)
(* reads; and no two Engines read the same Bridge.                         *)
(***************************************************************************)
Greets(q, n) ==
  \A i \in 1..Len(q) : q[i].type = "HelloAck" => q[i].epoch = n /\ n # 0

EngineInv ==
  /\ \A c \in Conns :
          Greets(outbound[c], conn_epoch[c]) /\ Greets(downlink[c], conn_epoch[c])
  /\ \A e \in Engines : writer_epoch[e] # 0 =>
       bridge[e] # NoConn /\ writer_epoch[e] = conn_epoch[bridge[e]]
  /\ \A e \in Engines : bridge[e] # NoConn => bridge[e] <= opened
  /\ \A e, f \in Engines : e # f /\ bridge[e] = bridge[f] => bridge[e] = NoConn

\* No Engine has been granted an epoch at the start.
LEMMA EngineInit == Init => EngineInv
BY DEF Init, EngineInv, Greets

\* Appending, and dropping from the front, keep a queue's greetings right.
LEMMA GreetsAppend ==
  ASSUME TypeOK, NEW q \in Seq(DownMsg), NEW n \in Nat, Greets(q, n),
         NEW m \in DownMsg, m.type # "HelloAck"
  PROVE  Greets(Append(q, m), n)
BY DEF Greets

\* Messages flushed behind those under way.
LEMMA GreetsConcat ==
  ASSUME NEW q \in Seq(DownMsg), NEW r \in Seq(DownMsg), NEW n \in Nat,
         Greets(q, n), Greets(r, n)
  PROVE  Greets(q \o r, n)
BY ConcatProperties DEF Greets

\* The message at hand is taken off those under way.
LEMMA GreetsTail ==
  ASSUME NEW q \in Seq(DownMsg), q # <<>>, NEW n \in Nat, Greets(q, n)
  PROVE  Greets(Tail(q), n)
BY HeadTailProperties DEF Greets

\* Connections that are dropped lose the greetings they had queued.
LEMMA GreetsClosed ==
  ASSUME EngineInv, NEW S, Close(S), NEW c \in Conns
  PROVE  Greets(outbound'[c], conn_epoch[c])
<1>1. outbound'[c] = <<>> \/ outbound'[c] = outbound[c]
  BY DEF Close
<1>2. Greets(<<>>, conn_epoch[c]) /\ Greets(outbound[c], conn_epoch[c])
  BY DEF Greets, EngineInv
<1> QED
  BY <1>1, <1>2

\* What is passed on carries its connection's greeting.
LEMMA GreetsPassed ==
  ASSUME TypeOK, EngineInv, NEW c \in Conns, NEW msgs \in Seq(DownMsg),
         Greets(msgs, conn_epoch[c])
  PROVE  Greets(downlink[c] \o Passed(c, msgs), conn_epoch[c])
<1>1. /\ downlink[c] \in Seq(DownMsg) /\ conn_epoch[c] \in Nat
      /\ Greets(downlink[c], conn_epoch[c])
  BY DEF TypeOK, HolderTypes, ChannelTypes, EngineInv
<1>2. Passed(c, msgs) \in Seq(DownMsg) /\ Greets(Passed(c, msgs), conn_epoch[c])
  BY DEF Passed, Greets
<1> QED
  BY <1>1, <1>2, GreetsConcat

\* What hanging up does to the Engines' side of the invariant.
LEMMA HangupEngines ==
  ASSUME TypeOK, EngineInv, NEW e \in Engines, bridge[e] # NoConn, Hangup(e),
         UNCHANGED <<conn_epoch, opened>>
  PROVE  /\ \A f \in Engines : writer_epoch'[f] # 0 =>
              bridge'[f] # NoConn /\ writer_epoch'[f] = conn_epoch'[bridge'[f]]
         /\ \A f \in Engines : bridge'[f] # NoConn => bridge'[f] <= opened'
         /\ \A f, g \in Engines : f # g /\ bridge'[f] = bridge'[g] => bridge'[f] = NoConn
BY DEF Hangup, EngineInv, TypeOK, EngineTypes

\* An Engine learns of an epoch only from the connection it was granted to.
LEMMA EngineNext == TypeOK /\ TypeOK' /\ EngineInv /\ [Next]_vars => EngineInv'
<1> SUFFICES ASSUME TypeOK, TypeOK', EngineInv, [Next]_vars PROVE EngineInv'
  OBVIOUS
<1> USE NoConnIsNoConnection
<1>0. /\ \A c \in Conns : outbound[c] \in Seq(DownMsg) /\ downlink[c] \in Seq(DownMsg)
      /\ \A e \in Engines : bridge[e] \in Conns \cup {NoConn}
      /\ conn_epoch \in [Conns -> Nat] /\ controller_epoch \in Nat /\ opened \in Nat
      /\ bridge \in [Engines -> Slot] /\ writer_epoch \in [Engines -> Nat]
      /\ outbound \in [Conns -> Seq(DownMsg)] /\ downlink \in [Conns -> Seq(DownMsg)]
  <2>1. opened \in Nat
    BY HolderLeaseAssumption DEF TypeOK, EngineTypes
  <2>2. \A c \in Conns : outbound[c] \in Seq(DownMsg) /\ downlink[c] \in Seq(DownMsg)
    BY DEF TypeOK, HolderTypes, ChannelTypes
  <2>3. \A e \in Engines : bridge[e] \in Conns \cup {NoConn}
    BY DEF TypeOK, EngineTypes, Slot
  <2> QED
    BY <2>1, <2>2, <2>3 DEF TypeOK, HolderTypes, ChannelTypes, EngineTypes
\* A queue on which nothing but its connection's own greeting changed.
<1>a. ASSUME UNCHANGED <<bridge, writer_epoch, opened, conn_epoch>>,
             \A c \in Conns :
                     Greets(outbound'[c], conn_epoch[c]) /\ Greets(downlink'[c], conn_epoch[c])
      PROVE  EngineInv'
  BY <1>a DEF EngineInv, Greets
<1>1. CASE UNCHANGED <<bridge, writer_epoch, opened, conn_epoch, outbound, downlink>>
  BY <1>1, <1>a DEF EngineInv
<1>2. CASE FlushConnection
  <2>1. connection \in Conns
    BY <1>2 DEF FlushConnection, TypeOK, HolderTypes, Slot
  <2>2. Greets(downlink[connection] \o Passed(connection, outbound[connection]),
               conn_epoch[connection])
    BY <1>0, <2>1, GreetsPassed DEF EngineInv
  <2>3. Greets(<<>>, conn_epoch[connection])
    BY DEF Greets
  <2>4. \A c \in Conns :
          Greets(outbound'[c], conn_epoch[c]) /\ Greets(downlink'[c], conn_epoch[c])
    BY <1>0, <1>2, <2>1, <2>2, <2>3 DEF FlushConnection, EngineInv
  <2> QED
    BY <1>2, <1>a, <2>4 DEF FlushConnection, engineVars
<1>3. ASSUME NEW c \in Conns, Handshake(c) PROVE EngineInv'
  <2> DEFINE n == controller_epoch + 1
             greeting == << [type |-> "HelloAck", epoch |-> n],
                            [type |-> "ControlGranted", epoch |-> n] >>
  <2>1. /\ conn_epoch[c] = 0 /\ conn_epoch' = [conn_epoch EXCEPT ![c] = n]
        /\ outbound' = [outbound EXCEPT ![c] = @ \o greeting]
        /\ UNCHANGED <<downlink, bridge, writer_epoch, opened>>
    BY <1>3 DEF Handshake, engineVars
  <2>2. n \in Nat /\ n # 0 /\ conn_epoch'[c] = n
    BY <1>0, <2>1
  <2>3. \A d \in Conns : d # c => conn_epoch'[d] = conn_epoch[d]
    BY <1>0, <2>1
  <2>4. \A d \in Conns : Greets(downlink'[d], conn_epoch'[d])
    BY <2>1, <2>2, <2>3 DEF Greets, EngineInv
  <2>5. \A d \in Conns : d # c => Greets(outbound'[d], conn_epoch'[d])
    BY <1>0, <2>1, <2>3 DEF Greets, EngineInv
  <2>6. Greets(outbound'[c], conn_epoch'[c])
    <3>1. outbound'[c] = outbound[c] \o greeting
      BY <1>0, <2>1
    <3>2. /\ greeting \in Seq(DownMsg) /\ Len(greeting) = 2
          /\ greeting[1].epoch = n /\ greeting[2].type = "ControlGranted"
      BY <2>2 DEF DownMsg
    <3>3. \A i \in 1..Len(outbound[c]) : outbound[c][i].type # "HelloAck"
      BY <2>1 DEF EngineInv, Greets
    <3> HIDE DEF greeting
    <3>4. \A i \in 1..Len(outbound'[c]) :
            outbound'[c][i].type = "HelloAck" => outbound'[c][i].epoch = n
      BY <1>0, <3>1, <3>2, <3>3, ConcatProperties
    <3> QED
      BY <2>2, <3>4 DEF Greets
  <2>7. \A e \in Engines : writer_epoch'[e] # 0 =>
          bridge'[e] # NoConn /\ writer_epoch'[e] = conn_epoch'[bridge'[e]]
    BY <1>0, <2>1, <2>3 DEF EngineInv
  <2> QED
    BY <2>1, <2>4, <2>5, <2>6, <2>7 DEF EngineInv
<1>4. ASSUME NEW c \in Conns, Refuse(c) PROVE EngineInv'
  <2>1. << [type |-> "Fatal", epoch |-> 0] >> \in Seq(DownMsg)
    BY DEF DownMsg
  <2>a. Greets(<< [type |-> "Fatal", epoch |-> 0] >>, conn_epoch[c])
    BY DEF Greets
  <2>2. Greets(downlink[c] \o Passed(c, << [type |-> "Fatal", epoch |-> 0] >>),
               conn_epoch[c])
    BY <2>1, <2>a, GreetsPassed
  <2>b. \A d \in Conns : Greets(outbound'[d], conn_epoch[d])
    BY <1>4, GreetsClosed DEF Refuse
  <2>c. \A d \in Conns : Greets(downlink'[d], conn_epoch[d])
    BY <1>0, <1>4, <2>2 DEF Refuse, EngineInv
  <2>3. \A d \in Conns :
          Greets(outbound'[d], conn_epoch[d]) /\ Greets(downlink'[d], conn_epoch[d])
    BY <2>b, <2>c
  <2> QED
    BY <1>4, <1>a, <2>3 DEF Refuse, engineVars
<1>5. ASSUME NEW c \in Conns, Promote(c) PROVE EngineInv'
  <2>1. \A d \in Conns : [type |-> "ControlRevoked", epoch |-> conn_epoch[d]] \in DownMsg
    BY <1>0 DEF DownMsg
  <2>2. \A d \in Conns : Greets(Append(outbound[d],
           [type |-> "ControlRevoked", epoch |-> conn_epoch[d]]), conn_epoch[d])
    BY <1>0, <2>1, GreetsAppend DEF EngineInv
  <2>a. \A d \in Conns : Append(outbound[d],
           [type |-> "ControlRevoked", epoch |-> conn_epoch[d]]) \in Seq(DownMsg)
    BY <1>0, <2>1
  <2>3. \A d \in Conns : Greets(downlink[d] \o Passed(d, Append(outbound[d],
           [type |-> "ControlRevoked", epoch |-> conn_epoch[d]])), conn_epoch[d])
    BY <2>a, <2>2, GreetsPassed
  <2>b. \A d \in Conns : Greets(outbound'[d], conn_epoch[d])
    BY <1>5, GreetsClosed DEF Promote
  <2>c. \A d \in Conns : Greets(downlink'[d], conn_epoch[d])
    BY <1>0, <1>5, <2>3 DEF Promote, EngineInv
  <2>4. \A d \in Conns :
          Greets(outbound'[d], conn_epoch[d]) /\ Greets(downlink'[d], conn_epoch[d])
    BY <2>b, <2>c
  <2> QED
    BY <1>5, <1>a, <2>4 DEF Promote, engineVars
<1>6. ASSUME NEW e \in Engines, Connect(e) PROVE EngineInv'
  <2>1. /\ UNCHANGED <<conn_epoch, outbound, downlink, writer_epoch>>
        /\ bridge[e] = NoConn /\ opened' = opened + 1
        /\ bridge' = [bridge EXCEPT ![e] = opened + 1]
        /\ opened + 1 \in Conns
    BY <1>0, <1>6, HolderLeaseAssumption DEF Connect, Open, Conns
  <2>2. \A f \in Engines : writer_epoch'[f] # 0 =>
          bridge'[f] # NoConn /\ writer_epoch'[f] = conn_epoch'[bridge'[f]]
    BY <1>0, <2>1 DEF EngineInv
  <2>3. \A f \in Engines : bridge'[f] # NoConn => bridge'[f] <= opened'
    BY <1>0, <2>1 DEF EngineInv, Conns
  <2>4. \A f, g \in Engines : f # g /\ bridge'[f] = bridge'[g] => bridge'[f] = NoConn
    BY <1>0, <2>1 DEF EngineInv, Conns
  <2> QED
    BY <2>1, <2>2, <2>3, <2>4 DEF EngineInv, Greets
<1>7. ASSUME NEW e \in Engines, LinkLost(e) PROVE EngineInv'
  <2>1. \A c \in Conns :
          Greets(outbound'[c], conn_epoch'[c]) /\ Greets(downlink'[c], conn_epoch'[c])
    BY <1>0, <1>7 DEF LinkLost, holderVars, EngineInv, Greets
  <2> QED
    BY <1>7, <2>1, HangupEngines DEF LinkLost, holderVars, EngineInv
<1>8. ASSUME NEW e \in Engines, Received(e)
      PROVE  /\ \A c \in Conns :
              Greets(outbound'[c], conn_epoch'[c]) /\ Greets(downlink'[c], conn_epoch'[c])
             /\ bridge[e] \in Conns
             /\ Down(e).type = "HelloAck" => Down(e).epoch = conn_epoch[bridge[e]]
             /\ UNCHANGED <<conn_epoch, opened>>
  <2>1. bridge[e] \in Conns /\ downlink[bridge[e]] # <<>>
    BY <1>0, <1>8 DEF Received
  <2>2. Greets(Tail(downlink[bridge[e]]), conn_epoch[bridge[e]])
    BY <1>0, <2>1, GreetsTail DEF EngineInv
  <2>3. Down(e) = downlink[bridge[e]][1] /\ 1 \in 1..Len(downlink[bridge[e]])
    BY <1>0, <2>1 DEF Down
  <2>4. UNCHANGED <<outbound, conn_epoch, opened>>
    BY <1>8 DEF Received, holderVars
  <2>5. \A c \in Conns : Greets(downlink'[c], conn_epoch[c])
    BY <1>0, <1>8, <2>1, <2>2 DEF Received, EngineInv
  <2> QED
    BY <2>1, <2>3, <2>4, <2>5 DEF EngineInv, Greets
<1>9. ASSUME NEW e \in Engines, ReceiveHelloAck(e) PROVE EngineInv'
  <2>1. \A f \in Engines : writer_epoch'[f] # 0 =>
          bridge'[f] # NoConn /\ writer_epoch'[f] = conn_epoch'[bridge'[f]]
    BY <1>0, <1>8, <1>9 DEF ReceiveHelloAck, EngineInv
  <2> QED
    BY <1>8, <1>9, <2>1 DEF ReceiveHelloAck, EngineInv
<1>10. ASSUME NEW e \in Engines, ReceiveControlGranted(e) PROVE EngineInv'
  <2>1. CASE UNCHANGED <<bridge, writer_epoch>>
    BY <1>8, <1>10, <2>1 DEF ReceiveControlGranted, EngineInv
  <2>2. CASE Hangup(e)
    BY <1>8, <1>10, <2>2, HangupEngines DEF ReceiveControlGranted, EngineInv
  <2> QED
    BY <1>10, <2>1, <2>2 DEF ReceiveControlGranted
<1>11. ASSUME NEW e \in Engines, ReceiveControlRevoked(e) PROVE EngineInv'
  BY <1>8, <1>11, HangupEngines DEF ReceiveControlRevoked, EngineInv
<1>12. ASSUME NEW e \in Engines, ReceiveFatal(e) PROVE EngineInv'
  BY <1>8, <1>12, HangupEngines DEF ReceiveFatal, EngineInv
<1>13. ASSUME NEW e \in Engines, ReceiveEof(e) PROVE EngineInv'
  <2>1. \A c \in Conns :
          Greets(outbound'[c], conn_epoch'[c]) /\ Greets(downlink'[c], conn_epoch'[c])
    BY <1>13 DEF ReceiveEof, holderVars, EngineInv, Greets
  <2> QED
    BY <1>13, <2>1, HangupEngines DEF ReceiveEof, holderVars, EngineInv
<1>14. CASE StrangerConnects
  <2>1. /\ UNCHANGED <<conn_epoch, outbound, downlink, bridge, writer_epoch>>
        /\ opened' = opened + 1
    BY <1>14 DEF StrangerConnects, Open
  <2>2. \A e \in Engines : bridge'[e] # NoConn => bridge'[e] <= opened'
    BY <1>0, <2>1 DEF EngineInv, Conns
  <2> QED
    BY <2>1, <2>2 DEF EngineInv, Greets
<1>16. CASE AcceptConnection \/ \E c \in Conns : EndOfStream(c)
  <2>1. /\ UNCHANGED <<bridge, writer_epoch, opened, conn_epoch, downlink>>
        /\ \E S : Close(S)
    BY <1>16 DEF AcceptConnection, EndOfStream, engineVars
  <2>2. \A d \in Conns : Greets(outbound'[d], conn_epoch[d])
    BY <2>1, GreetsClosed
  <2>3. \A d \in Conns : Greets(downlink'[d], conn_epoch[d])
    BY <2>1 DEF EngineInv
  <2> QED
    BY <1>a, <2>1, <2>2, <2>3
<1>15. \/ UNCHANGED <<bridge, writer_epoch, opened, conn_epoch, outbound, downlink>>
       \/ FlushConnection \/ StrangerConnects
       \/ AcceptConnection \/ \E c \in Conns : EndOfStream(c)
       \/ \E c \in Conns : Handshake(c) \/ Refuse(c) \/ Promote(c)
       \/ \E e \in Engines : \/ Connect(e) \/ LinkLost(e) \/ ReceiveHelloAck(e)
                             \/ ReceiveControlGranted(e) \/ ReceiveControlRevoked(e)
                             \/ ReceiveFatal(e) \/ ReceiveEof(e)
  BY DEF Next, Holder, Pump, ReadConnection, ReadPendingConnection, FlushInput,
         ApplyInput, HandlePart, KeepLive, KeepPending, BridgeExit, Write,
         vars, holderVars, channelVars, engineVars
<1> QED
  BY <1>1, <1>2, <1>3, <1>4, <1>5, <1>6, <1>7, <1>9, <1>10, <1>11, <1>12, <1>13, <1>14,
     <1>15, <1>16

\* Two Engines attached to one Holder never believe in the same epoch, so
\* at most one of them believes it controls the Agent with the Holder's
\* consent.
THEOREM ControlIsExclusive == Spec => []OneEngineHoldsTheEpoch
<1>1. TypeOK /\ EpochsAreUnique /\ EngineInv => OneEngineHoldsTheEpoch
  BY DEF TypeOK, EngineTypes, Slot, EpochsAreUnique, EngineInv, OneEngineHoldsTheEpoch
<1>2. TypeOK /\ TypeOK' /\ EngineInv /\ [Next]_vars => EngineInv'
  BY EngineNext
<1> QED
  BY <1>1, <1>2, EngineInit, TypeCorrect, UniqueEpochs, PTL DEF Spec

-----------------------------------------------------------------------------
(***************************************************************************)
(* The manager of the Holders.                                             *)
(***************************************************************************)

Starting == {"unlink", "bind", "pid"}

\* What the steps need to know of the shape of the state.
Shape ==
  /\ lock \in Launchers \cup {None} /\ socket \in Managers \cup {0}
  /\ DOMAIN manager = Managers
  /\ \A m \in Managers : DOMAIN manager[m] =
       {"pc", "listening", "active", "idle", "shutting_down", "watchdog", "serving",
        "raced", "failed"}
  /\ DOMAIN holders = Managers
  /\ \A m \in Managers : DOMAIN holders[m] = Sessions
  /\ DOMAIN launcher = Launchers
  /\ \A l \in Launchers :
       /\ DOMAIN launcher[l] = {"stage", "session", "to"}
       /\ launcher[l].to \in Managers \cup {0}
       /\ launcher[l].stage # "idle" => launcher[l].session \in Sessions

\* A launcher asks a manager while it holds the launch lock, and only then.
LockDiscipline ==
  \A l \in Launchers :
    /\ launcher[l].stage \in Asking <=> lock = l
    /\ launcher[l].to # 0 => launcher[l].stage \in Asking

\* A manager listens from its bind to the end of its accept loop; the launcher
\* it is hosting a session for waits for its answer.
Phases ==
  \A m \in Managers :
    /\ manager[m].listening => manager[m].pc \in {"pid", "serve", "insert"}
    /\ manager[m].pc = "pid" => manager[m].listening
    /\ manager[m].pc = "insert" =>
         /\ manager[m].serving \in Launchers
         /\ launcher[manager[m].serving].to = m
         /\ launcher[manager[m].serving].stage \in {"launch", "retry"}
         /\ launcher[manager[m].serving].session \in Sessions

\* A manager that is starting is the only one, and the Engine that started it
\* waits for it with the lock held.
OneStarts ==
  \A m \in Managers : manager[m].pc \in Starting =>
    /\ lock # None /\ launcher[lock].stage \in {"ready", "retry"}
    /\ \A n \in Managers : manager[n].pc \in Starting => n = m

\* Until it has bound the socket nobody listens.
NobodyYet ==
  \A m \in Managers : manager[m].pc \in {"unlink", "bind"} =>
    \A n \in Managers : ~manager[n].listening

\* A request is with the manager the socket path leads to.
AsksTheSocket ==
  \A l \in Launchers : launcher[l].to # 0 =>
    /\ socket = launcher[l].to
    /\ \A m \in Managers : manager[m].pc \notin {"unlink", "bind"}

\* A manager that listens and has written the pid file is named in it.
PidIsListener ==
  \A m \in Managers :
    manager[m].listening /\ manager[m].pc # "pid" => pid_file = m

SocketInv ==
  /\ Shape /\ LockDiscipline /\ Phases
  /\ ~late => OneStarts
  /\ ~late => NobodyYet
  /\ ~late => AsksTheSocket
  /\ ~late => PidIsListener
  /\ ListenerIsReachable

-----------------------------------------------------------------------------
\* The lock, the launchers and the history stay, no manager starts or begins to
\* host a session, and a listener can only close.
Calm ==
  /\ UNCHANGED <<lock, socket, pid_file, launcher, late>>
  /\ \A m \in Managers :
       /\ manager'[m].listening => manager[m].listening
       /\ manager'[m].listening => manager'[m].pc \in {"pid", "serve", "insert"}
       /\ manager'[m].pc \in Starting =>
            manager'[m].pc = manager[m].pc /\ manager'[m].listening = manager[m].listening
       /\ manager'[m].pc = "insert" =>
            manager[m].pc = "insert" /\ manager'[m].serving = manager[m].serving
       /\ manager[m].pc = "pid" => manager'[m].pc = "pid" \/ ~manager'[m].listening

\* A calm step keeps the invariant.
LEMMA CalmKeeps == ASSUME SocketInv, Shape', Calm PROVE SocketInv'
<1> USE DEF SocketInv, Calm
<1>1. LockDiscipline'
  BY DEF LockDiscipline
<1>2. Phases'
  BY DEF Phases, Starting
<1>3. ~late' => OneStarts'
  BY DEF OneStarts
<1>4. ~late' => NobodyYet'
  BY DEF NobodyYet, Starting
<1>5. ~late' => AsksTheSocket'
  BY DEF AsksTheSocket, Starting
<1>6. ~late' => PidIsListener'
  BY DEF PidIsListener
<1>7. ListenerIsReachable'
  BY DEF ListenerIsReachable
<1> QED BY <1>1, <1>2, <1>3, <1>4, <1>5, <1>6, <1>7

\* The steps of a manager that do not touch the files, the lock or a launcher.
LEMMA QuietSteps ==
  ASSUME SocketInv, NEW m \in Managers,
         \/ ShutdownIfIdle(m) \/ EndLoop(m) \/ Watchdog(m) \/ Thread(m) \/ ManagerDies(m)
  PROVE  SocketInv'
<1> USE DEF SocketInv
<1>1. CASE ShutdownIfIdle(m)
  <2>1. Shape'
    BY <1>1 DEF ShutdownIfIdle, Shape
  <2>2. Calm
    BY <1>1 DEF ShutdownIfIdle, Shape, Calm, Phases, Starting
  <2> QED BY <2>1, <2>2, CalmKeeps
<1>2. CASE EndLoop(m)
  <2>1. Shape'
    BY <1>2 DEF EndLoop, Shape
  <2>2. Calm
    BY <1>2 DEF EndLoop, Shape, Calm, Phases, Starting
  <2> QED BY <2>1, <2>2, CalmKeeps
<1>3. CASE GracePasses(m)
  <2>1. Shape'
    BY <1>3 DEF GracePasses, Shape
  <2>2. Calm
    BY <1>3 DEF GracePasses, Shape, Calm, Phases, Starting
  <2> QED BY <2>1, <2>2, CalmKeeps
<1>4. CASE WatchIdle(m)
  <2>1. Shape'
    BY <1>4 DEF WatchIdle, Shape
  <2>2. Calm
    BY <1>4 DEF WatchIdle, Running, Shape, Calm, Phases, Starting
  <2> QED BY <2>1, <2>2, CalmKeeps
<1>5. CASE StopListener(m)
  <2>1. Shape'
    BY <1>5 DEF StopListener, Shape
  <2>2. Calm
    BY <1>5 DEF StopListener, Running, Shape, Calm, Phases, Starting
  <2> QED BY <2>1, <2>2, CalmKeeps
<1>6. CASE CloseListener(m)
  <2>1. Shape'
    BY <1>6 DEF CloseListener, Shape
  <2>2. /\ manager'[m].pc = manager[m].pc /\ manager'[m].serving = manager[m].serving
        /\ ~manager'[m].listening /\ manager'[m].pc \notin Starting
        /\ \A n \in Managers : n # m => manager'[n] = manager[n]
    BY <1>6 DEF CloseListener, Running, Shape, Starting
  <2>3. Calm
    <3>1. UNCHANGED <<lock, socket, pid_file, launcher, late>>
      BY <1>6 DEF CloseListener
    <3>2. \A n \in Managers : manager[n].listening => manager[n].pc \in {"pid", "serve", "insert"}
      BY DEF Phases
    <3> QED BY <2>2, <3>1, <3>2 DEF Calm, Starting
  <2> QED BY <2>1, <2>3, CalmKeeps
<1>7. ASSUME NEW s \in Sessions, HolderRuns(m, s) \/ ChildExits(m, s) PROVE SocketInv'
  <2>1. Shape'
    BY <1>7 DEF HolderRuns, ChildExits, Shape
  <2>2. Calm
    BY <1>7 DEF HolderRuns, ChildExits, Calm, Phases
  <2> QED BY <2>1, <2>2, CalmKeeps
<1>8. ASSUME NEW s \in Sessions, ThreadEnds(m, s) PROVE SocketInv'
  <2>1. Shape'
    BY <1>8 DEF ThreadEnds, Shape
  <2>2. Calm
    BY <1>8 DEF ThreadEnds, Shape, Calm, Phases, Starting
  <2> QED BY <2>1, <2>2, CalmKeeps
<1>9. CASE ManagerDies(m)
  <2>1. Shape'
    BY <1>9 DEF ManagerDies, Gone, Fresh, Shape
  <2>2. Calm
    BY <1>9 DEF ManagerDies, Gone, Fresh, Shape, Calm, Phases, Starting
  <2> QED BY <2>1, <2>2, CalmKeeps
<1> QED BY <1>1, <1>2, <1>3, <1>4, <1>5, <1>6, <1>7, <1>8, <1>9 DEF Watchdog, Thread

-----------------------------------------------------------------------------
\* Where a launcher stands after an answer.
LEMMA Moved ==
  ASSUME Shape, NEW l \in Launchers, NEW next,
         launcher' = [launcher EXCEPT ![l].stage = next, ![l].to = 0]
  PROVE  /\ DOMAIN launcher' = Launchers
         /\ \A k \in Launchers : DOMAIN launcher'[k] = {"stage", "session", "to"}
         /\ launcher'[l].stage = next /\ launcher'[l].to = 0
         /\ launcher'[l].session = launcher[l].session
         /\ \A k \in Launchers : k # l => launcher'[k] = launcher[k]
  BY DEF Shape

\* While a manager that is up has the request of a launcher no manager is
\* starting.
LEMMA UpAlone ==
  ASSUME SocketInv, ~late, NEW l \in Launchers, NEW m \in Managers,
         launcher[l].to = m, manager[m].pc \notin Starting
  PROVE  \A n \in Managers : manager[n].pc \notin Starting
<1> SUFFICES ASSUME NEW n \in Managers, manager[n].pc \in Starting PROVE FALSE
  OBVIOUS
<1>1. m # 0
  BY DEF Managers
<1>2. manager[n].pc = "pid" /\ socket = m
  BY <1>1 DEF SocketInv, AsksTheSocket, Starting
<1>3. manager[n].listening
  BY <1>2 DEF SocketInv, Phases
<1>4. socket = n
  BY <1>3 DEF SocketInv, ListenerIsReachable
<1> QED BY <1>2, <1>4

\* After an answer the managers are the ones the handler leaves.
LEMMA AnsweredOk ==
  ASSUME NEW l \in Launchers, NEW managers, NEW ok \in BOOLEAN, Answered(l, ok, managers),
         ok \/ launcher[l].stage \in {"launch", "retry"}
  PROVE  manager' = managers /\ Answered(l, ok, manager')
  BY DEF Answered

\* launch goes on after a manager answered it, or refused to launch; the manager
\* may have left the handler of this request.
LEMMA OkKeeps ==
  ASSUME SocketInv, NEW l \in Launchers, NEW m \in Managers, NEW ok \in BOOLEAN,
         launcher[l].to = m, manager[m].pc \in {"serve", "insert"},
         ok \/ launcher[l].stage \in {"launch", "retry"},
         Answered(l, ok, manager'), UNCHANGED <<socket, pid_file, late>>,
         DOMAIN manager' = Managers,
         \A n \in Managers : DOMAIN manager'[n] = DOMAIN manager[n],
         \A n \in Managers : n # m => manager'[n] = manager[n],
         manager'[m].pc = "serve", manager'[m].listening => manager[m].listening,
         DOMAIN holders' = Managers,
         \A n \in Managers : DOMAIN holders'[n] = Sessions
  PROVE  SocketInv'
<1> DEFINE next == StageAfter(launcher[l].stage, ok)
<1> USE DEF SocketInv
<1>1. m # 0 /\ launcher[l].stage \in Asking /\ lock = l /\ l # None
  BY HolderManagerAssumption DEF Managers, LockDiscipline
<1>2. next \in {"launch", "idle", "again", "retry"}
  BY <1>1 DEF StageAfter, Asking
<1>3. /\ launcher' = [launcher EXCEPT ![l].stage = next, ![l].to = 0]
      /\ lock' = IF next = "idle" THEN None ELSE lock
  BY DEF Answered
<1> HIDE DEF next
<1>4. /\ launcher'[l].stage = next /\ launcher'[l].to = 0
      /\ launcher'[l].session = launcher[l].session
      /\ \A k \in Launchers : k # l => launcher'[k] = launcher[k]
      /\ DOMAIN launcher' = Launchers
      /\ \A k \in Launchers : DOMAIN launcher'[k] = {"stage", "session", "to"}
  BY <1>3, Moved
<1>5. \A k \in Launchers : k # l => launcher[k].stage \notin Asking /\ launcher[k].to = 0
  BY <1>1 DEF LockDiscipline
<1>6. LockDiscipline'
  BY <1>1, <1>2, <1>3, <1>4, <1>5, HolderManagerAssumption DEF LockDiscipline, Asking
<1>7. \A n \in Managers : manager'[n].pc # "insert"
  <2> SUFFICES ASSUME NEW n \in Managers, n # m, manager[n].pc = "insert" PROVE FALSE
    BY <1>3
  <2>1. PICK k \in Launchers : launcher[k].to = n
    BY DEF Phases
  <2>2. n # 0
    BY DEF Managers
  <2> QED BY <1>5, <2>1, <2>2
<1>8. Phases'
  BY <1>3, <1>7 DEF Phases
<1>9. ~late => \A n \in Managers : manager'[n].pc \notin Starting
  BY <1>3, UpAlone DEF Starting
<1>10. ~late' => OneStarts' /\ NobodyYet'
  BY <1>9 DEF OneStarts, NobodyYet, Starting
<1>11. ~late' => AsksTheSocket'
  BY <1>4, <1>5 DEF AsksTheSocket
<1>12. ~late' => PidIsListener'
  BY <1>3 DEF PidIsListener
<1>13. ListenerIsReachable'
  BY <1>3 DEF ListenerIsReachable
<1>14. Shape'
  BY <1>1, <1>3, <1>4 DEF Shape, Asking
<1> QED BY <1>6, <1>8, <1>10, <1>11, <1>12, <1>13, <1>14


\* launch goes on after an error, which starts a manager only when is_alive
\* failed; then no manager listens.
LEMMA FailKeeps ==
  ASSUME SocketInv, NEW l \in Launchers, launcher[l].stage \in Asking,
         Answered(l, FALSE, manager), UNCHANGED <<socket, pid_file, holders, late>>,
         \A m \in Managers : manager[m].pc = "insert" => manager[m].serving # l,
         ~late /\ launcher[l].stage \in {"ping", "again"} =>
           \A m \in Managers : ~manager[m].listening
  PROVE  SocketInv'
<1> DEFINE stage == launcher[l].stage
           next == StageAfter(stage, FALSE)
<1> USE DEF SocketInv
<1>1. lock = l /\ l # None
  BY HolderManagerAssumption DEF LockDiscipline
<1>2. /\ next \in {"ready", "again", "retry"}
      /\ stage = "ready" => next = "ready"
      /\ stage = "retry" => next = "retry"
      /\ stage \in {"ping", "again"} => next \in {"ready", "retry"}
  BY DEF StageAfter, Asking
<1>3. /\ launcher' = [launcher EXCEPT ![l].stage = next, ![l].to = 0]
      /\ lock' = IF next = "idle" THEN None ELSE lock
  BY DEF Answered
<1> HIDE DEF next
<1>5. lock' = lock
  BY <1>2, <1>3
<1>6. /\ launcher'[l].stage = next /\ launcher'[l].to = 0
      /\ launcher'[l].session = launcher[l].session
      /\ \A k \in Launchers : k # l => launcher'[k] = launcher[k]
      /\ DOMAIN launcher' = Launchers
      /\ \A k \in Launchers : DOMAIN launcher'[k] = {"stage", "session", "to"}
  BY <1>3, Moved
<1>7. \A k \in Launchers : k # l => launcher[k].stage \notin Asking /\ launcher[k].to = 0
  BY <1>1 DEF LockDiscipline
<1>8. LockDiscipline'
  BY <1>1, <1>2, <1>5, <1>6, <1>7 DEF LockDiscipline, Asking
<1>9. \A m \in Managers : manager[m].pc # "insert"
  <2> SUFFICES ASSUME NEW m \in Managers, manager[m].pc = "insert" PROVE FALSE
    OBVIOUS
  <2>1. manager[m].serving \in Launchers /\ manager[m].serving # l
    BY DEF Phases
  <2>2. launcher[manager[m].serving].to = m /\ m # 0
    BY DEF Phases, Managers
  <2> QED BY <1>7, <2>1, <2>2
<1>10. ~late' => \A k \in Launchers : launcher'[k].to = 0
  BY <1>6, <1>7
<1>11. CASE stage \in {"ping", "again"}
  <2>1. PICK m \in Managers : Starts(m) /\ manager' = [manager EXCEPT ![m] = Fresh]
    BY <1>11 DEF Answered
  <2>2. /\ manager'[m] = Fresh /\ DOMAIN manager' = Managers
        /\ \A n \in Managers : n # m => manager'[n] = manager[n]
    BY <2>1 DEF Shape
  <2>3. manager'[m].pc = "unlink" /\ ~manager'[m].listening
    BY <2>2 DEF Fresh
  <2>4. Shape'
    BY <1>1, <1>5, <1>6, <2>2 DEF Shape, Fresh, Asking
  <2>5. Phases'
    BY <1>9, <2>2, <2>3 DEF Phases
  <2>6. ~late => \A n \in Managers : manager[n].pc \notin Starting
    BY <1>1, <1>11 DEF OneStarts
  <2>7. ~late' => OneStarts'
    BY <1>1, <1>2, <1>5, <1>6, <1>11, <2>2, <2>6 DEF OneStarts
  <2>8. ~late' => NobodyYet'
    BY <1>11, <2>2, <2>3 DEF NobodyYet
  <2>9. ~late' => AsksTheSocket'
    BY <1>10 DEF AsksTheSocket
  <2>10. ~late' => PidIsListener'
    BY <2>2, <2>3 DEF PidIsListener
  <2>11. ListenerIsReachable'
    BY <2>2, <2>3 DEF ListenerIsReachable
  <2> QED BY <1>8, <2>4, <2>5, <2>7, <2>8, <2>9, <2>10, <2>11
<1>12. CASE stage \notin {"ping", "again"}
  <2>1. manager' = manager
    BY <1>12 DEF Answered
  <2>2. Shape'
    BY <1>1, <1>5, <1>6, <2>1 DEF Shape, Asking
  <2>3. Phases'
    BY <1>9, <2>1 DEF Phases
  <2>4. ~late' => OneStarts'
    BY <1>1, <1>2, <1>5, <1>6, <2>1 DEF OneStarts
  <2>5. ~late' => NobodyYet'
    BY <2>1 DEF NobodyYet
  <2>6. ~late' => AsksTheSocket'
    BY <1>10 DEF AsksTheSocket
  <2>7. ~late' => PidIsListener'
    BY <2>1 DEF PidIsListener
  <2>8. ListenerIsReachable'
    BY <2>1 DEF ListenerIsReachable
  <2> QED BY <1>8, <2>2, <2>3, <2>4, <2>5, <2>6, <2>7, <2>8
<1> QED BY <1>11, <1>12


-----------------------------------------------------------------------------
\* The steps of launch.
LEMMA LaunchKeeps == ASSUME SocketInv, NEW l \in Launchers, Launch(l) PROVE SocketInv'
<1> USE DEF SocketInv
<1>1. ASSUME NEW s \in Sessions, Begin(l, s) PROVE SocketInv'
  <2>1. /\ launcher'[l] = [stage |-> "lock", session |-> s, to |-> 0]
        /\ \A k \in Launchers : k # l => launcher'[k] = launcher[k]
        /\ DOMAIN launcher' = Launchers
    BY <1>1 DEF Begin, Shape
  <2>2. UNCHANGED <<lock, socket, pid_file, manager, holders, late>>
    BY <1>1 DEF Begin
  <2>3. launcher[l].stage = "idle" /\ lock # l /\ launcher[l].to = 0
    BY <1>1 DEF Begin, LockDiscipline, Asking
  <2>4. Shape'
    BY <2>1, <2>2 DEF Shape
  <2>5. LockDiscipline'
    BY <2>1, <2>2, <2>3 DEF LockDiscipline, Asking
  <2>6. Phases'
    BY <2>1, <2>2, <2>3 DEF Phases
  <2>7. ~late' => OneStarts'
    BY <2>1, <2>2, <2>3 DEF OneStarts, Shape
  <2>8. ~late' => NobodyYet' /\ PidIsListener'
    BY <2>2 DEF NobodyYet, PidIsListener
  <2>9. ~late' => AsksTheSocket'
    BY <2>1, <2>2 DEF AsksTheSocket
  <2>10. ListenerIsReachable'
    BY <2>2 DEF ListenerIsReachable
  <2> QED BY <2>4, <2>5, <2>6, <2>7, <2>8, <2>9, <2>10
<1>2. CASE AcquireLock(l)
  <2>1. /\ launcher'[l].stage = "ping" /\ launcher'[l].to = launcher[l].to
        /\ launcher'[l].session = launcher[l].session
        /\ DOMAIN launcher'[l] = DOMAIN launcher[l]
        /\ \A k \in Launchers : k # l => launcher'[k] = launcher[k]
        /\ DOMAIN launcher' = Launchers
    BY <1>2 DEF AcquireLock, Shape
  <2>2. lock' = l /\ UNCHANGED <<socket, pid_file, manager, holders, late>>
    BY <1>2 DEF AcquireLock
  <2>3. launcher[l].stage = "lock" /\ lock = None /\ None \notin Launchers
    BY <1>2, HolderManagerAssumption DEF AcquireLock
  <2>4. \A k \in Launchers : launcher[k].stage \notin Asking /\ launcher[k].to = 0
    BY <2>3 DEF LockDiscipline
  <2>5. ~late => \A m \in Managers : manager[m].pc \notin Starting
    BY <2>3 DEF OneStarts
  <2>6. \A m \in Managers : manager[m].pc # "insert"
    BY <2>4 DEF Phases, Asking
  <2>7. Shape'
    BY <2>1, <2>2, <2>3 DEF Shape
  <2>8. LockDiscipline'
    BY <2>1, <2>2, <2>4 DEF LockDiscipline, Asking
  <2>9. Phases'
    BY <2>2, <2>6 DEF Phases
  <2>10. ~late' => OneStarts'
    BY <2>2, <2>5 DEF OneStarts
  <2>11. ~late' => NobodyYet' /\ PidIsListener'
    BY <2>2 DEF NobodyYet, PidIsListener
  <2>12. ~late' => AsksTheSocket'
    BY <2>1, <2>4 DEF AsksTheSocket
  <2>13. ListenerIsReachable'
    BY <2>2 DEF ListenerIsReachable
  <2> QED BY <2>7, <2>8, <2>9, <2>10, <2>11, <2>12, <2>13
<1>3. CASE Ask(l) /\ socket # 0 /\ manager[socket].listening
  <2>1. socket \in Managers /\ launcher' = [launcher EXCEPT ![l].to = socket]
    BY <1>3 DEF Ask, Shape
  <2>2. /\ launcher'[l].to = socket /\ launcher'[l].stage = launcher[l].stage
        /\ launcher'[l].session = launcher[l].session
        /\ DOMAIN launcher'[l] = DOMAIN launcher[l]
        /\ \A k \in Launchers : k # l => launcher'[k] = launcher[k]
        /\ DOMAIN launcher' = Launchers
    BY <2>1 DEF Shape
  <2>3. UNCHANGED <<lock, socket, pid_file, manager, holders, late>>
    BY <1>3 DEF Ask
  <2>4. launcher[l].stage \in Asking /\ launcher[l].to = 0
    BY <1>3 DEF Ask
  <2>5. Shape'
    BY <2>1, <2>2, <2>3 DEF Shape
  <2>6. LockDiscipline'
    BY <2>2, <2>3, <2>4 DEF LockDiscipline
  <2>7. Phases'
    BY <2>2, <2>3, <2>4 DEF Phases, Managers
  <2>8. ~late' => OneStarts'
    BY <2>2, <2>3 DEF OneStarts, Shape
  <2>9. ~late' => NobodyYet' /\ PidIsListener'
    BY <2>3 DEF NobodyYet, PidIsListener
  <2>10. ~late' => AsksTheSocket'
    BY <1>3, <2>1, <2>2, <2>3 DEF AsksTheSocket, NobodyYet
  <2>11. ListenerIsReachable'
    BY <2>3 DEF ListenerIsReachable
  <2> QED BY <2>5, <2>6, <2>7, <2>8, <2>9, <2>10, <2>11
<1>4. CASE Ask(l) /\ ~(socket # 0 /\ manager[socket].listening)
  <2>1. \A m \in Managers : manager[m].pc = "insert" => manager[m].serving # l
    BY <1>4 DEF Ask, Phases, Managers
  <2>2. ~late => \A m \in Managers : ~manager[m].listening
    BY <1>4 DEF ListenerIsReachable, Managers
  <2> QED BY <1>4, <2>1, <2>2, FailKeeps DEF Ask
<1>5. CASE AskRefused(l)
  <2>1. PICK m \in Managers : m = launcher[l].to
    BY <1>5 DEF AskRefused, Shape
  <2>2. m # 0 /\ ~manager[m].listening /\ launcher[l].stage \in Asking
    BY <1>5, <2>1 DEF AskRefused, LockDiscipline
  <2>3. \A n \in Managers : manager[n].pc = "insert" => manager[n].serving # l
    BY <1>5, <2>1 DEF AskRefused, Phases
  <2>4. ~late => \A n \in Managers : ~manager[n].listening
    BY <2>1, <2>2 DEF AsksTheSocket, ListenerIsReachable
  <2> QED BY <1>5, <2>2, <2>3, <2>4, FailKeeps DEF AskRefused
<1>6. CASE GiveUp(l)
  <2>1. /\ launcher'[l].stage = "idle" /\ launcher'[l].to = launcher[l].to
        /\ DOMAIN launcher'[l] = DOMAIN launcher[l]
        /\ \A k \in Launchers : k # l => launcher'[k] = launcher[k]
        /\ DOMAIN launcher' = Launchers
    BY <1>6 DEF GiveUp, Shape
  <2>2. lock' = None /\ UNCHANGED <<socket, pid_file, manager, holders>>
    BY <1>6 DEF GiveUp
  <2>3. lock = l /\ launcher[l].to = 0 /\ None \notin Launchers
    BY <1>6, HolderManagerAssumption DEF GiveUp, LockDiscipline
  <2>4. ~late' => ~late /\ \A m \in Managers : manager[m].pc \notin Starting
    BY <1>6 DEF GiveUp, Starting
  <2>5. \A k \in Launchers : k # l => launcher[k].stage \notin Asking /\ launcher[k].to = 0
    BY <2>3 DEF LockDiscipline
  <2>6. Shape'
    BY <2>1, <2>2 DEF Shape
  <2>7. LockDiscipline'
    BY <2>1, <2>2, <2>3, <2>5 DEF LockDiscipline, Asking
  <2>8. \A m \in Managers : manager[m].pc # "insert"
    BY <2>3, <2>5 DEF Phases, Managers
  <2>9. Phases'
    BY <2>2, <2>8 DEF Phases
  <2>10. ~late' => OneStarts' /\ NobodyYet'
    BY <2>2, <2>4 DEF OneStarts, NobodyYet, Starting
  <2>11. ~late' => AsksTheSocket'
    BY <2>1, <2>3, <2>5 DEF AsksTheSocket
  <2>12. ~late' => PidIsListener'
    BY <2>2, <2>4 DEF PidIsListener
  <2>13. ListenerIsReachable'
    BY <2>2, <2>4 DEF ListenerIsReachable
  <2> QED BY <2>6, <2>7, <2>9, <2>10, <2>11, <2>12, <2>13
<1> QED BY <1>1, <1>2, <1>3, <1>4, <1>5, <1>6 DEF Launch


-----------------------------------------------------------------------------
\* The requests a manager handles.
LEMMA HandleKeeps ==
  ASSUME SocketInv, NEW m \in Managers,
         \/ \E l \in Launchers : HandlePing(m, l) \/ HandleLaunch(m, l)
         \/ FinishLaunch(m)
  PROVE  SocketInv'
<1> USE DEF SocketInv
<1>1. ASSUME NEW l \in Launchers, HandlePing(m, l) PROVE SocketInv'
  <2>1. /\ launcher[l].to = m /\ manager[m].pc = "serve"
        /\ UNCHANGED <<socket, pid_file, holders, late>>
        /\ manager' = [manager EXCEPT ![m].idle = IF @ = "no" THEN @ ELSE "fresh"]
        /\ Answered(l, TRUE, manager')
    BY <1>1, AnsweredOk DEF HandlePing, Accepts
  <2>2. /\ DOMAIN manager' = Managers
        /\ \A n \in Managers : DOMAIN manager'[n] = DOMAIN manager[n]
        /\ \A n \in Managers : n # m => manager'[n] = manager[n]
        /\ manager'[m].pc = "serve" /\ (manager'[m].listening => manager[m].listening)
        /\ DOMAIN holders' = Managers /\ \A n \in Managers : DOMAIN holders'[n] = Sessions
    BY <2>1 DEF Shape
  <2> HIDE DEF SocketInv
  <2> QED BY <2>1, <2>2, OkKeeps
<1>2. ASSUME NEW l \in Launchers, HandleLaunch(m, l), Answered(l, TRUE, manager)
      PROVE  SocketInv'
  <2>1. /\ launcher[l].to = m /\ manager[m].pc = "serve"
        /\ UNCHANGED <<socket, pid_file, holders, late>>
        /\ UNCHANGED manager /\ Answered(l, TRUE, manager')
    BY <1>2, AnsweredOk DEF HandleLaunch, Accepts
  <2>2. /\ DOMAIN manager' = Managers
        /\ DOMAIN holders' = Managers /\ \A n \in Managers : DOMAIN holders'[n] = Sessions
    BY <2>1 DEF Shape
  <2> HIDE DEF SocketInv
  <2> QED BY <2>1, <2>2, OkKeeps
<1>3. ASSUME NEW l \in Launchers, HandleLaunch(m, l), Answered(l, FALSE, manager)
      PROVE  SocketInv'
  <2>1. /\ launcher[l].to = m /\ manager[m].pc = "serve"
        /\ launcher[l].stage \in {"launch", "retry"}
        /\ UNCHANGED <<socket, pid_file, holders, late>>
    BY <1>3 DEF HandleLaunch, Accepts
  <2>2. \A n \in Managers : manager[n].pc = "insert" => manager[n].serving # l
    BY <2>1 DEF Phases
  <2> QED BY <1>3, <2>1, <2>2, FailKeeps DEF Asking
<1>4. ASSUME NEW l \in Launchers, HandleLaunch(m, l), UNCHANGED <<lock, launcher>>,
             manager' = [manager EXCEPT ![m].pc = "insert", ![m].serving = l]
      PROVE  SocketInv'
  <2>1. /\ launcher[l].to = m /\ manager[m].pc = "serve"
        /\ launcher[l].stage \in {"launch", "retry"}
        /\ UNCHANGED <<lock, launcher, socket, pid_file, holders, late>>
    BY <1>4 DEF HandleLaunch, Accepts
  <2>2. /\ manager'[m].pc = "insert" /\ manager'[m].serving = l
        /\ manager'[m].listening = manager[m].listening
        /\ DOMAIN manager' = Managers /\ DOMAIN manager'[m] = DOMAIN manager[m]
        /\ \A n \in Managers : n # m => manager'[n] = manager[n]
    BY <1>4 DEF Shape
  <2>3. Shape'
    BY <2>1, <2>2 DEF Shape
  <2>4. LockDiscipline'
    BY <2>1 DEF LockDiscipline
  <2>5. launcher[l].session \in Sessions
    BY <2>1 DEF Shape
  <2>6. Phases'
    BY <2>1, <2>2, <2>5 DEF Phases
  <2>7. ~late' => OneStarts'
    BY <2>1, <2>2 DEF OneStarts, Starting
  <2>8. ~late' => NobodyYet'
    BY <2>1, <2>2 DEF NobodyYet
  <2>9. ~late' => AsksTheSocket'
    BY <2>1, <2>2 DEF AsksTheSocket
  <2>10. ~late' => PidIsListener'
    BY <2>1, <2>2 DEF PidIsListener
  <2>11. ListenerIsReachable'
    BY <2>1, <2>2 DEF ListenerIsReachable
  <2> QED BY <2>3, <2>4, <2>6, <2>7, <2>8, <2>9, <2>10, <2>11
<1>5. CASE FinishLaunch(m)
  <2>1. PICK l \in Launchers : l = manager[m].serving
    BY <1>5 DEF FinishLaunch, Phases
  <2>2. /\ manager[m].pc = "insert" /\ launcher[l].to = m
        /\ launcher[l].stage \in {"launch", "retry"}
        /\ UNCHANGED <<socket, pid_file, late>>
    BY <1>5, <2>1 DEF FinishLaunch, Phases
  <2>3. CASE /\ Answered(l, TRUE, [manager EXCEPT ![m].pc = "serve", ![m].serving = None])
             /\ UNCHANGED holders
    <3>1. /\ manager' = [manager EXCEPT ![m].pc = "serve", ![m].serving = None]
          /\ Answered(l, TRUE, manager')
      BY <2>3, AnsweredOk
    <3>2. /\ DOMAIN manager' = Managers
          /\ \A n \in Managers : DOMAIN manager'[n] = DOMAIN manager[n]
          /\ \A n \in Managers : n # m => manager'[n] = manager[n]
          /\ manager'[m].pc = "serve" /\ (manager'[m].listening => manager[m].listening)
          /\ DOMAIN holders' = Managers /\ \A n \in Managers : DOMAIN holders'[n] = Sessions
      BY <2>3, <3>1 DEF Shape
    <3> HIDE DEF SocketInv
    <3> QED BY <2>2, <3>1, <3>2, OkKeeps
  <2>4. ASSUME NEW s, NEW ok \in BOOLEAN, Answered(l, ok, Inserted(m, s)),
               holders' \in {holders, [holders EXCEPT ![m][s] = "starting"]}
        PROVE  SocketInv'
    <3>1. manager' = Inserted(m, s) /\ Answered(l, ok, manager')
      BY <2>2, <2>4, AnsweredOk
    <3>2. /\ DOMAIN manager' = Managers
          /\ \A n \in Managers : DOMAIN manager'[n] = DOMAIN manager[n]
          /\ \A n \in Managers : n # m => manager'[n] = manager[n]
          /\ manager'[m].pc = "serve" /\ (manager'[m].listening => manager[m].listening)
      BY <3>1 DEF Shape, Inserted
    <3>3. DOMAIN holders' = Managers /\ \A n \in Managers : DOMAIN holders'[n] = Sessions
      BY <2>4 DEF Shape
    <3> HIDE DEF SocketInv
    <3> QED BY <2>2, <3>1, <3>2, <3>3, OkKeeps
  <2> QED BY <1>5, <2>1, <2>3, <2>4 DEF FinishLaunch
<1> QED BY <1>1, <1>2, <1>3, <1>4, <1>5 DEF HandleLaunch

\* The steps of run that touch the control files.
LEMMA RunKeeps ==
  ASSUME SocketInv, NEW m \in Managers,
         Unlink(m) \/ Bind(m) \/ WritePidFile(m) \/ CleanupControlFiles(m)
  PROVE  SocketInv'
<1> USE DEF SocketInv
<1>1. CASE Unlink(m)
  <2>1. /\ manager[m].pc = "unlink" /\ socket' = 0
        /\ UNCHANGED <<lock, pid_file, holders, launcher, late>>
    BY <1>1 DEF Unlink
  <2>2. /\ manager'[m].pc = "bind" /\ manager'[m].listening = manager[m].listening
        /\ DOMAIN manager' = Managers /\ DOMAIN manager'[m] = DOMAIN manager[m]
        /\ \A n \in Managers : n # m => manager'[n] = manager[n]
    BY <1>1 DEF Unlink, Shape
  <2>3. ~late => \A n \in Managers : ~manager'[n].listening
    BY <2>1, <2>2 DEF NobodyYet
  <2>4. Shape' /\ LockDiscipline'
    BY <2>1, <2>2 DEF Shape, LockDiscipline
  <2>5. Phases'
    BY <2>1, <2>2 DEF Phases
  <2>6. ~late' => OneStarts'
    BY <2>1, <2>2 DEF OneStarts, Starting
  <2>7. ~late' => NobodyYet' /\ PidIsListener' /\ ListenerIsReachable'
    BY <2>1, <2>3 DEF NobodyYet, PidIsListener, ListenerIsReachable
  <2>8. ~late' => AsksTheSocket'
    BY <2>1 DEF AsksTheSocket
  <2> QED BY <2>1, <2>4, <2>5, <2>6, <2>7, <2>8 DEF ListenerIsReachable
<1>2. CASE Bind(m) /\ socket = 0
  <2>1. /\ manager[m].pc = "bind" /\ socket' = m
        /\ UNCHANGED <<lock, pid_file, holders, launcher, late>>
    BY <1>2 DEF Bind
  <2>2. /\ manager'[m].pc = "pid" /\ manager'[m].listening
        /\ DOMAIN manager' = Managers /\ DOMAIN manager'[m] = DOMAIN manager[m]
        /\ \A n \in Managers : n # m => manager'[n] = manager[n]
    BY <1>2 DEF Bind, Shape
  <2>3. ~late => \A n \in Managers : n # m => ~manager'[n].listening
    BY <2>1, <2>2 DEF NobodyYet
  <2>4. Shape' /\ LockDiscipline'
    BY <2>1, <2>2 DEF Shape, LockDiscipline
  <2>5. Phases'
    BY <2>1, <2>2 DEF Phases
  <2>6. ~late' => OneStarts'
    BY <2>1, <2>2 DEF OneStarts, Starting
  <2>7. ~late' => \A n \in Managers : manager'[n].pc \notin {"unlink", "bind"}
    BY <2>1, <2>2 DEF OneStarts, Starting
  <2>8. ~late' => NobodyYet' /\ PidIsListener' /\ ListenerIsReachable'
    BY <2>1, <2>2, <2>3, <2>7 DEF NobodyYet, PidIsListener, ListenerIsReachable
  <2>9. ~late' => AsksTheSocket'
    BY <2>1 DEF AsksTheSocket
  <2> QED BY <2>1, <2>4, <2>5, <2>6, <2>8, <2>9 DEF ListenerIsReachable
<1>3. CASE Bind(m) /\ socket # 0
  <2>1. Shape'
    BY <1>3 DEF Bind, Gone, Fresh, Shape
  <2>2. Calm
    BY <1>3 DEF Bind, Gone, Fresh, Shape, Calm, Phases, Starting
  <2> QED BY <2>1, <2>2, CalmKeeps
<1>4. CASE WritePidFile(m)
  <2>1. /\ manager[m].pc = "pid" /\ pid_file' = m
        /\ UNCHANGED <<lock, socket, holders, launcher, late>>
    BY <1>4 DEF WritePidFile
  <2>2. /\ manager'[m].pc = "serve" /\ manager'[m].listening = manager[m].listening
        /\ DOMAIN manager' = Managers /\ DOMAIN manager'[m] = DOMAIN manager[m]
        /\ \A n \in Managers : n # m => manager'[n] = manager[n]
    BY <1>4 DEF WritePidFile, Shape
  <2>3. manager[m].listening
    BY <2>1 DEF Phases
  <2>4. Shape' /\ LockDiscipline'
    BY <2>1, <2>2 DEF Shape, LockDiscipline
  <2>5. Phases'
    BY <2>1, <2>2 DEF Phases
  <2>6. ~late' => OneStarts'
    BY <2>1, <2>2 DEF OneStarts, Starting
  <2>7. ~late' => NobodyYet'
    BY <2>1, <2>2 DEF NobodyYet
  <2>8. ~late' => PidIsListener'
    BY <2>1, <2>2, <2>3 DEF PidIsListener, ListenerIsReachable
  <2>9. ~late' => AsksTheSocket'
    BY <2>1, <2>2 DEF AsksTheSocket
  <2>10. ListenerIsReachable'
    BY <2>1, <2>2 DEF ListenerIsReachable
  <2> QED BY <2>4, <2>5, <2>6, <2>7, <2>8, <2>9, <2>10
<1>5. CASE CleanupControlFiles(m)
  <2>1. /\ manager[m].pc = "join" /\ ~manager[m].listening
        /\ UNCHANGED <<lock, launcher, late>>
        /\ socket' \in {0, socket} /\ pid_file' \in {0, pid_file}
        /\ (lock = None /\ pid_file = m) \/ UNCHANGED <<socket, pid_file>>
    BY <1>5 DEF CleanupControlFiles, Phases
  <2>2. /\ manager'[m].pc = "gone" /\ ~manager'[m].listening
        /\ DOMAIN manager' = Managers /\ DOMAIN manager'[m] = DOMAIN manager[m]
        /\ \A n \in Managers : n # m => manager'[n] = manager[n]
    BY <1>5 DEF CleanupControlFiles, Gone, Fresh, Shape
  <2>3. Shape'
    BY <1>5, <2>1, <2>2 DEF CleanupControlFiles, Shape
  <2>4. CASE UNCHANGED <<socket, pid_file>>
    <3>1. Calm
      BY <2>1, <2>2, <2>4 DEF Calm, Phases, Starting
    <3> QED BY <2>3, <3>1, CalmKeeps
  <2>5. CASE lock = None /\ pid_file = m
    <3>1. \A l \in Launchers : launcher[l].to = 0
      BY <2>1, <2>5, HolderManagerAssumption DEF LockDiscipline
    <3>2. ~late => \A n \in Managers : manager'[n].pc \notin Starting
      BY <2>1, <2>2, <2>5 DEF OneStarts, Starting
    <3>3. ~late /\ pid_file = m => \A n \in Managers : ~manager'[n].listening
      BY <2>2, <3>2 DEF PidIsListener, Starting
    <3>4. LockDiscipline'
      BY <2>1 DEF LockDiscipline
    <3>5. Phases'
      BY <2>1, <2>2 DEF Phases
    <3>6. ~late' => OneStarts' /\ NobodyYet'
      BY <2>1, <3>2 DEF OneStarts, NobodyYet, Starting
    <3>7. ~late' => AsksTheSocket'
      BY <2>1, <3>1 DEF AsksTheSocket
    <3>8. ~late' => PidIsListener'
      BY <2>1, <2>2, <3>3 DEF PidIsListener
    <3>9. ListenerIsReachable'
      BY <2>1, <2>2, <3>3 DEF ListenerIsReachable
    <3> QED BY <2>3, <3>4, <3>5, <3>6, <3>7, <3>8, <3>9
  <2> QED BY <2>1, <2>4, <2>5
<1> QED BY <1>1, <1>2, <1>3, <1>4, <1>5

\* The inductive invariant holds in every state.
LEMMA SocketInvariant == ManagerSpec => []SocketInv
<1>1. ManagerInit => SocketInv
  <2> SUFFICES ASSUME ManagerInit PROVE SocketInv
    OBVIOUS
  <2>1. Shape
    BY DEF ManagerInit, Shape, Unborn, Fresh
  <2>2. \A m \in Managers : manager[m].pc = "none" /\ ~manager[m].listening
    BY DEF ManagerInit, Unborn, Fresh
  <2>3. \A l \in Launchers : launcher[l].stage = "idle" /\ launcher[l].to = 0
    BY DEF ManagerInit
  <2>4. lock = None /\ None \notin Launchers
    BY HolderManagerAssumption DEF ManagerInit
  <2> QED BY <2>1, <2>2, <2>3, <2>4
          DEF SocketInv, LockDiscipline, Phases, OneStarts, NobodyYet, AsksTheSocket,
              PidIsListener, ListenerIsReachable, Asking, Starting
<1>2. SocketInv /\ [ManagerNext]_managerVars => SocketInv'
  <2> SUFFICES ASSUME SocketInv, [ManagerNext]_managerVars PROVE SocketInv'
    OBVIOUS
  <2>1. CASE UNCHANGED managerVars
    BY <2>1, CalmKeeps DEF managerVars, SocketInv, Shape, Calm, Phases
  <2> QED BY <2>1, LaunchKeeps, HandleKeeps, RunKeeps, QuietSteps DEF ManagerNext, Handle, Run
<1> QED BY <1>1, <1>2, PTL DEF ManagerSpec

\* "whoever holds it either finds a live manager or starts exactly one" and the
\* pid check of cleanup_control_files: however launches, idle managers and
\* faults interleave, a manager that listens is the one the socket path leads
\* to, unless an Engine let go of the lock before the manager it had started
\* was up.
THEOREM OneListener == ManagerSpec => []ListenerIsReachable
<1>1. SocketInv => ListenerIsReachable
  BY DEF SocketInv
<1> QED BY <1>1, SocketInvariant, PTL

-----------------------------------------------------------------------------
\* What the idle clock, the watchdog and the flag say of the sessions of m: none
\* is active while the clock runs, and once the watchdog has looked or the
\* manager is ending, every one that is active came in afterwards.
EndOf(m) ==
  /\ \A s \in Sessions : holders[m][s] # "none" => s \in manager[m].active
  /\ manager[m].idle # "no" => manager[m].active = {}
  /\ ~manager[m].failed /\ (manager[m].watchdog # "asleep" \/ manager[m].shutting_down) =>
       manager[m].active \subseteq manager[m].raced
  /\ manager[m].watchdog = "stopping" => manager[m].shutting_down
  /\ manager[m].pc = "insert" /\ manager[m].shutting_down => manager[m].watchdog # "asleep"
  /\ manager[m].failed => manager[m].pc = "join"
  /\ manager[m].pc \in {"serve", "insert", "join"} /\ ~manager[m].listening =>
       manager[m].shutting_down
  /\ manager[m].pc \notin {"serve", "insert", "join"} => manager[m].active = {}

EndInv == \A m \in Managers : EndOf(m)

\* A manager that a step leaves alone.
LEMMA Untouched ==
  ASSUME NEW m \in Managers, EndOf(m), manager'[m] = manager[m], holders'[m] = holders[m]
  PROVE  EndOf(m)'
  BY DEF EndOf

\* A manager that has just been started, or has ended, hosts nothing.
LEMMA Empty ==
  ASSUME NEW m \in Managers, manager'[m] \in {Fresh, Gone},
         \A s \in Sessions : holders'[m][s] = "none"
  PROVE  EndOf(m)'
<1>1. /\ manager'[m].active = {} /\ ~manager'[m].failed
      /\ manager'[m].watchdog = "asleep" /\ manager'[m].pc \in {"unlink", "gone"}
  BY DEF Fresh, Gone
<1> QED BY <1>1 DEF EndOf

\* A launcher that goes on after an error may start a manager.
LEMMA EndFail ==
  ASSUME Shape, EndInv, NEW l \in Launchers, Answered(l, FALSE, manager), UNCHANGED holders
  PROVE  EndInv'
<1>1. CASE UNCHANGED manager
  BY <1>1, Untouched DEF EndInv
<1>2. ASSUME NEW m \in Managers, Starts(m), manager' = [manager EXCEPT ![m] = Fresh]
      PROVE  EndInv'
  <2>1. manager'[m] = Fresh /\ \A n \in Managers : n # m => manager'[n] = manager[n]
    BY <1>2 DEF Shape
  <2>2. manager[m].pc = "none"
    BY <1>2 DEF Starts
  <2>3. manager[m].active = {}
    BY <2>2 DEF EndInv, EndOf
  <2>4. \A s \in Sessions : holders'[m][s] = "none"
    BY <2>3 DEF EndInv, EndOf
  <2> QED BY <2>1, <2>4, Untouched, Empty DEF EndInv
<1> QED BY <1>1, <1>2 DEF Answered

\* The steps of a launcher.
LEMMA EndLaunch ==
  ASSUME SocketInv, EndInv, NEW l \in Launchers, Launch(l) PROVE EndInv'
<1>1. CASE UNCHANGED <<manager, holders>>
  BY <1>1, Untouched DEF EndInv
<1>2. CASE Ask(l) \/ AskRefused(l)
  BY <1>1, <1>2, EndFail DEF Ask, AskRefused, SocketInv
<1>3. CASE AcquireLock(l) \/ GiveUp(l) \/ \E s \in Sessions : Begin(l, s)
  BY <1>1, <1>3 DEF AcquireLock, GiveUp, Begin
<1> QED BY <1>2, <1>3 DEF Launch

\* A step that changes one manager.
OnlyTouches(m) ==
  \A n \in Managers : n # m => manager'[n] = manager[n] /\ holders'[n] = holders[n]

LEMMA OneTouched ==
  ASSUME EndInv, NEW m \in Managers, OnlyTouches(m), EndOf(m)' PROVE EndInv'
  BY Untouched DEF EndInv, OnlyTouches

\* The requests a manager handles.
LEMMA EndHandle ==
  ASSUME SocketInv, EndInv, NEW m \in Managers, Handle(m) PROVE EndInv'
<1>1. EndOf(m) /\ Shape /\ Phases
  BY DEF EndInv, SocketInv
<1>2. ASSUME NEW l \in Launchers, HandlePing(m, l) PROVE EndInv'
  <2>1. /\ manager' = [manager EXCEPT ![m].idle = IF @ = "no" THEN @ ELSE "fresh"]
        /\ holders' = holders
    BY <1>2, AnsweredOk DEF HandlePing
  <2>2. EndOf(m)' /\ OnlyTouches(m)
    BY <1>1, <2>1 DEF EndOf, OnlyTouches, Shape
  <2> QED BY <2>2, OneTouched
<1>3. ASSUME NEW l \in Launchers, HandleLaunch(m, l) PROVE EndInv'
  <2>1. holders' = holders /\ manager[m].pc = "serve"
    BY <1>3 DEF HandleLaunch, Accepts
  <2>2. CASE Answered(l, TRUE, manager)
    BY <2>1, <2>2, AnsweredOk, Untouched DEF EndInv
  <2>3. CASE Answered(l, FALSE, manager)
    BY <1>1, <2>1, <2>3, EndFail
  <2>4. CASE /\ manager' = [manager EXCEPT ![m].pc = "insert", ![m].serving = l]
             /\ ~manager[m].shutting_down
    <3>1. EndOf(m)' /\ OnlyTouches(m)
      BY <1>1, <2>1, <2>4 DEF EndOf, OnlyTouches, Shape
    <3> QED BY <3>1, OneTouched
  <2> QED BY <1>3, <2>2, <2>3, <2>4 DEF HandleLaunch
<1>4. CASE FinishLaunch(m)
  <2>1. PICK l \in Launchers : l = manager[m].serving
    BY <1>1, <1>4 DEF FinishLaunch, Phases
  <2>2. PICK s \in Sessions : s = launcher[l].session
    BY <1>1, <1>4, <2>1 DEF FinishLaunch, Phases
  <2>3. manager[m].pc = "insert"
    BY <1>4 DEF FinishLaunch
  <2>4. CASE /\ Answered(l, TRUE, [manager EXCEPT ![m].pc = "serve", ![m].serving = None])
             /\ UNCHANGED holders
    <3>1. manager' = [manager EXCEPT ![m].pc = "serve", ![m].serving = None]
      BY <2>4, AnsweredOk
    <3>2. EndOf(m)' /\ OnlyTouches(m)
      BY <1>1, <2>3, <2>4, <3>1 DEF EndOf, OnlyTouches, Shape
    <3> QED BY <3>2, OneTouched
  <2>5. ASSUME NEW ok \in BOOLEAN, Answered(l, ok, Inserted(m, s)),
               holders' \in {holders, [holders EXCEPT ![m][s] = "starting"]}
        PROVE  EndInv'
    <3>1. launcher[l].stage \in {"launch", "retry"}
      BY <1>1, <2>1, <2>3 DEF Phases
    <3>0. manager' = Inserted(m, s)
      BY <2>5, <3>1, AnsweredOk
    <3>2. OnlyTouches(m)
      BY <1>1, <2>5, <3>0 DEF OnlyTouches, Shape, Inserted
    <3>3. /\ manager'[m].pc = "serve" /\ manager'[m].idle = "no"
          /\ manager'[m].active = manager[m].active \cup {s}
          /\ manager'[m].watchdog = manager[m].watchdog
          /\ (manager'[m].shutting_down <=> manager[m].shutting_down)
          /\ (manager'[m].failed <=> manager[m].failed)
          /\ (manager'[m].listening <=> manager[m].listening)
      BY <1>1, <3>0 DEF Shape, Inserted
    <3>4. manager'[m].raced = IF manager[m].watchdog = "asleep" THEN manager[m].raced
                              ELSE manager[m].raced \cup {s}
      BY <1>1, <3>0 DEF Shape, Inserted
    <3>5. \A u \in Sessions : holders'[m][u] # "none" => u = s \/ holders[m][u] # "none"
      BY <1>1, <2>5 DEF Shape
    <3>6. ~manager[m].failed
      BY <1>1, <2>3 DEF EndOf
    <3>7. EndOf(m)'
      BY <1>1, <2>3, <3>3, <3>4, <3>5, <3>6 DEF EndOf
    <3> QED BY <3>2, <3>7, OneTouched
  <2> QED BY <1>4, <2>1, <2>2, <2>4, <2>5 DEF FinishLaunch
<1>5. CASE ShutdownIfIdle(m)
  <2>1. EndOf(m)' /\ OnlyTouches(m)
    BY <1>1, <1>5 DEF ShutdownIfIdle, EndOf, OnlyTouches, Shape
  <2> QED BY <2>1, OneTouched
<1> QED BY <1>2, <1>3, <1>4, <1>5 DEF Handle

\* The process, its watchdog and its threads.
LEMMA EndRun ==
  ASSUME SocketInv, EndInv, NEW m \in Managers,
         Run(m) \/ Watchdog(m) \/ Thread(m) \/ ManagerDies(m)
  PROVE  EndInv'
<1>1. EndOf(m) /\ Shape /\ Phases
  BY DEF EndInv, SocketInv
<1> SUFFICES EndOf(m)' /\ OnlyTouches(m)
  BY OneTouched
<1>2. CASE Unlink(m) \/ WritePidFile(m)
  BY <1>1, <1>2 DEF Unlink, WritePidFile, EndOf, OnlyTouches, Shape, Phases
<1>3. CASE Bind(m) /\ socket = 0
  BY <1>1, <1>3 DEF Bind, EndOf, OnlyTouches, Shape
<1>4. CASE Bind(m) /\ socket # 0
  <2>1. /\ manager'[m] = Gone /\ manager[m].pc = "bind"
        /\ holders' = holders /\ OnlyTouches(m)
    BY <1>1, <1>4 DEF Bind, OnlyTouches, Shape
  <2>2. \A s \in Sessions : holders'[m][s] = "none"
    BY <1>1, <2>1 DEF EndOf
  <2> QED BY <2>1, <2>2, Empty
<1>5. CASE EndLoop(m)
  BY <1>1, <1>5 DEF EndLoop, EndOf, OnlyTouches, Shape
<1>6. CASE CleanupControlFiles(m) \/ ManagerDies(m)
  <2>1. /\ manager'[m] = Gone /\ holders'[m] = [s \in Sessions |-> "none"]
        /\ OnlyTouches(m)
    BY <1>1, <1>6 DEF CleanupControlFiles, ManagerDies, OnlyTouches, Shape
  <2> QED BY <2>1, Empty
<1>7. CASE GracePasses(m)
  BY <1>1, <1>7 DEF GracePasses, EndOf, OnlyTouches, Shape
<1>8. CASE WatchIdle(m)
  BY <1>1, <1>8 DEF WatchIdle, EndOf, OnlyTouches, Shape
<1>9. CASE StopListener(m)
  BY <1>1, <1>9 DEF StopListener, EndOf, OnlyTouches, Shape
<1>10. CASE CloseListener(m)
  BY <1>1, <1>10 DEF CloseListener, EndOf, OnlyTouches, Shape
<1>11. ASSUME NEW s \in Sessions, HolderRuns(m, s) \/ ChildExits(m, s)
       PROVE  EndOf(m)' /\ OnlyTouches(m)
  BY <1>1, <1>11 DEF HolderRuns, ChildExits, EndOf, OnlyTouches, Shape
<1>12. ASSUME NEW s \in Sessions, ThreadEnds(m, s) PROVE EndOf(m)' /\ OnlyTouches(m)
  BY <1>1, <1>12 DEF ThreadEnds, EndOf, OnlyTouches, Shape
<1> QED BY <1>2, <1>3, <1>4, <1>5, <1>6, <1>7, <1>8, <1>9, <1>10, <1>11, <1>12
        DEF Run, Watchdog, Thread

\* "The manager exits only after every hosted child has exited and an idle
\* grace period has elapsed": whatever the order of pings, launches, ends of
\* children and looks of the watchdog, a manager whose accept loop has ended
\* hosts only sessions it took in after the watchdog had looked, unless accept
\* failed.
THEOREM NoSessionDiesWithItsManager == ManagerSpec => []EndsWithoutSessions
<1>1. ManagerInit => EndInv
  <2> SUFFICES ASSUME ManagerInit, NEW m \in Managers PROVE EndOf(m)
    BY DEF EndInv
  <2>1. /\ manager[m].pc = "none" /\ manager[m].active = {} /\ ~manager[m].failed
        /\ manager[m].watchdog = "asleep"
    BY DEF ManagerInit, Unborn, Fresh
  <2>2. \A s \in Sessions : holders[m][s] = "none"
    BY DEF ManagerInit
  <2> QED BY <2>1, <2>2 DEF EndOf
<1>2. SocketInv /\ EndInv /\ [ManagerNext]_managerVars => EndInv'
  <2> SUFFICES ASSUME SocketInv, EndInv, [ManagerNext]_managerVars PROVE EndInv'
    OBVIOUS
  <2>1. CASE UNCHANGED managerVars
    BY <2>1, Untouched DEF managerVars, EndInv
  <2> QED BY <2>1, EndLaunch, EndHandle, EndRun DEF ManagerNext
<1>3. SocketInv /\ EndInv => EndsWithoutSessions
  <2> SUFFICES ASSUME SocketInv, EndInv, NEW m \in Managers,
                      manager[m].pc = "join", ~manager[m].failed, NEW s \in Hosted(m)
               PROVE  s \in manager[m].raced
    BY DEF EndsWithoutSessions
  <2>1. s \in manager[m].active
    BY DEF Hosted, EndInv, EndOf
  <2>2. manager[m].shutting_down
    BY DEF EndInv, EndOf, SocketInv, Phases
  <2> QED BY <2>1, <2>2 DEF EndInv, EndOf
<1> QED BY <1>1, <1>2, <1>3, SocketInvariant, PTL DEF ManagerSpec
=============================================================================

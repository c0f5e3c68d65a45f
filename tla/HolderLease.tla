----------------------------- MODULE HolderLease -----------------------------
(***************************************************************************)
(* The controller lease of a remote Holder (diri-remote/src/holder.rs):    *)
(* which of the attach connections drives the PTY. Each connection reaches *)
(* the Holder through an SSH Bridge (diri-remote/src/bridge.rs) that an    *)
(* Engine opened (diri-engine/src/remote/client.rs, session.rs             *)
(* pump_remote); Bridges break, linger, and overlap.                       *)
(*                                                                         *)
(* The Holder is one thread. A connection it reads is taken out of its     *)
(* slot until the socket is drained (read_messages), so what the drained   *)
(* bytes held decides what happens to the slot. What a controller types is *)
(* queued (write_input) and reaches the PTY when the PTY takes it, in the  *)
(* same turn or in a later one (flush_input), whoever is in control then.  *)
(* Output, replay and snapshots are the business of RemoteStream.          *)
(***************************************************************************)
EXTENDS Naturals, Sequences, FiniteSets, SequencesExt

CONSTANTS
  Engines,      \* Engines that own this session's token
  MaxConns,     \* bound: attach connections ever opened
  Strangers,    \* TRUE: local processes without the token may connect too
  MaxWrites,    \* bound: inputs the Engines send
  InputLimit,   \* MAX_PENDING_INPUT_BYTES, in inputs
  NoConn

Conns == 1..MaxConns

ASSUME HolderLeaseAssumption ==
  /\ MaxConns \in Nat /\ MaxWrites \in Nat /\ InputLimit \in Nat
  /\ NoConn \notin Nat /\ Strangers \in BOOLEAN

VARIABLES
  controller_epoch,    \* SessionState.controller_epoch
  connection,          \* Holder.connection
  pending_connection,  \* Holder.pending_connection
  reading,             \* the connection inside read_messages, or NoConn
  slot,                \* the slot it was taken from: "live" or "pending"
  backlog,             \* connections the listener has not accepted yet
  conn_epoch,          \* Connection.epoch, 0 for None
  pending_input,       \* Holder.pending_input: accepted, not yet written
  outbound,            \* Connection.outbound: queued, not yet flushed
  sock,                \* "none", "open" or "closed": the Holder's end
  uplink,              \* messages on their way to the Holder
  eof,                 \* the Bridge has shut its write side down
  downlink,            \* messages on their way to the Engine
  gone,                \* the Bridge process has exited
  bridge,              \* bridge[e]: the Bridge pump_remote reads, or NoConn
  writer_epoch,        \* WriterState.controller_epoch, 0 for None
  hello_accepted,      \* pump_remote_connection's local
  failed,              \* mark_remote_transport_failed: shown as exited, 126
  opened, written,     \* connections opened and inputs sent so far
  applied              \* history: what the PTY took, in order

inputVars == <<pending_input, applied>>
holderVars == <<controller_epoch, connection, pending_connection, reading, slot,
                backlog, conn_epoch, outbound, inputVars>>
channelVars == <<sock, uplink, eof, downlink, gone>>
engineVars == <<bridge, writer_epoch, hello_accepted, failed, opened, written>>
vars == <<holderVars, channelVars, engineVars>>

\* What one message typed: the connection and the epoch it was accepted in.
Typed == [conn : Conns, epoch : Nat]

\* "Part" is the start of a frame whose rest has not arrived.
UpMsg == {"Hello", "BadHello", "Part", "Input"}
DownMsg == [type : {"HelloAck", "ControlGranted", "ControlRevoked", "Fatal"},
            epoch : Nat]

Init ==
  /\ controller_epoch = 0
  /\ connection = NoConn /\ pending_connection = NoConn
  /\ reading = NoConn /\ slot = "live" /\ backlog = <<>>
  /\ conn_epoch = [c \in Conns |-> 0]
  /\ outbound = [c \in Conns |-> <<>>]
  /\ sock = [c \in Conns |-> "none"]
  /\ uplink = [c \in Conns |-> <<>>]
  /\ eof = [c \in Conns |-> FALSE]
  /\ downlink = [c \in Conns |-> <<>>]
  /\ gone = [c \in Conns |-> FALSE]
  /\ bridge = [e \in Engines |-> NoConn]
  /\ writer_epoch = [e \in Engines |-> 0]
  /\ hello_accepted = [e \in Engines |-> FALSE]
  /\ failed = [e \in Engines |-> FALSE]
  /\ opened = 0 /\ written = 0
  /\ pending_input = <<>> /\ applied = <<>>

-----------------------------------------------------------------------------
(***************************************************************************)
(* The Holder.                                                             *)
(***************************************************************************)
Idle == reading = NoConn

\* The Holder drops these connections with what they had queued. Bytes it
\* has not read die with the socket.
Close(S) ==
  /\ sock' = [c \in Conns |-> IF c \in S THEN "closed" ELSE sock[c]]
  /\ uplink' = [c \in Conns |-> IF c \in S THEN <<>> ELSE uplink[c]]
  /\ outbound' = [c \in Conns |-> IF c \in S THEN <<>> ELSE outbound[c]]

\* accept_connection: every waiting connection takes the pending slot in
\* turn and drops the one before it.
AcceptConnection ==
  /\ Idle /\ backlog # <<>>
  /\ pending_connection' = Last(backlog)
  /\ Close(Range(Front(backlog)) \cup ({pending_connection} \cap Conns))
  /\ backlog' = <<>>
  /\ UNCHANGED <<controller_epoch, connection, reading, slot, conn_epoch, inputVars,
                 eof, downlink, gone, engineVars>>

\* What arrives of msgs at the other end: a Bridge whose Engine has left
\* passes nothing on.
Passed(c, msgs) == IF eof[c] THEN <<>> ELSE msgs

Readable(c) == c # NoConn /\ (uplink[c] # <<>> \/ eof[c])

ReadConnection ==
  /\ Idle /\ Readable(connection)
  /\ reading' = connection /\ slot' = "live"
  /\ connection' = NoConn
  /\ UNCHANGED <<controller_epoch, pending_connection, backlog, conn_epoch, outbound, inputVars,
                 channelVars, engineVars>>

ReadPendingConnection ==
  /\ Idle /\ Readable(pending_connection)
  /\ reading' = pending_connection /\ slot' = "pending"
  /\ pending_connection' = NoConn
  /\ UNCHANGED <<controller_epoch, connection, backlog, conn_epoch, outbound, inputVars,
                 channelVars, engineVars>>

Message(c, m) == reading = c /\ uplink[c] # <<>> /\ Head(uplink[c]) = m

Consume(c) == uplink' = [uplink EXCEPT ![c] = Tail(@)]

\* Mutant: a new attach shares the epoch of the one it replaces.
HandshakeKeepsEpoch(c) ==
  /\ Message(c, "Hello") /\ conn_epoch[c] = 0
  /\ controller_epoch' = IF controller_epoch = 0 THEN 1 ELSE controller_epoch
  /\ conn_epoch' = [conn_epoch EXCEPT ![c] = controller_epoch']
  /\ outbound' = [outbound EXCEPT ![c] =
       @ \o << [type |-> "HelloAck", epoch |-> controller_epoch'],
               [type |-> "ControlGranted", epoch |-> controller_epoch'] >>]
  /\ Consume(c)
  /\ UNCHANGED <<connection, pending_connection, reading, slot, backlog, inputVars,
                 sock, eof, downlink, gone, engineVars>>

Handshake(c) ==
  /\ Message(c, "Hello") /\ conn_epoch[c] = 0
  /\ controller_epoch' = controller_epoch + 1
  /\ conn_epoch' = [conn_epoch EXCEPT ![c] = controller_epoch + 1]
  /\ outbound' = [outbound EXCEPT ![c] =
       @ \o << [type |-> "HelloAck", epoch |-> controller_epoch + 1],
               [type |-> "ControlGranted", epoch |-> controller_epoch + 1] >>]
  /\ Consume(c)
  /\ UNCHANGED <<connection, pending_connection, reading, slot, backlog, inputVars,
                 sock, eof, downlink, gone, engineVars>>

\* Mutant: only the handshake is checked, not the epoch.
MayDriveOnceGreeted(c) == conn_epoch[c] # 0

\* Input, Resize, Scroll and Signal all pass the same epoch test first.
MayDrive(c) == conn_epoch[c] # 0 /\ conn_epoch[c] = controller_epoch

\* The PTY takes the oldest k of the queued inputs.
Writes(queue, k) ==
  /\ applied' = applied \o SubSeq(queue, 1, k)
  /\ pending_input' = SubSeq(queue, k + 1, Len(queue))

HasRoom == Len(pending_input) < InputLimit

\* write_input: the input is queued behind what is waiting already, and the
\* PTY takes as much of the queue as it has room for at that moment.
ApplyInput(c) ==
  /\ Message(c, "Input") /\ MayDrive(c) /\ HasRoom
  /\ LET queue == Append(pending_input, [conn |-> c, epoch |-> conn_epoch[c]])
     IN  \E k \in 0..Len(queue) : Writes(queue, k)
  /\ Consume(c)
  /\ UNCHANGED <<controller_epoch, connection, pending_connection, reading, slot,
                 backlog, conn_epoch, outbound, sock, eof, downlink, gone, engineVars>>

\* flush_input, from the poll loop once the PTY can take more.
FlushInput ==
  /\ Idle
  /\ \E k \in 1..Len(pending_input) : Writes(pending_input, k)
  /\ UNCHANGED <<controller_epoch, connection, pending_connection, reading, slot, backlog,
                 conn_epoch, outbound, channelVars, engineVars>>

HandlePart(c) ==
  /\ Message(c, "Part")
  /\ Consume(c)
  /\ UNCHANGED <<holderVars, sock, eof, downlink, gone, engineVars>>

\* Every refused message ends the connection with a fatal error, written
\* in place of whatever was still queued.
Refused(c) ==
  /\ reading = c /\ uplink[c] # <<>>
  /\ \/ Head(uplink[c]) = "BadHello"
     \/ conn_epoch[c] = 0 /\ Head(uplink[c]) = "Input"
     \/ conn_epoch[c] # 0 /\ Head(uplink[c]) = "Hello"
     \/ conn_epoch[c] # 0 /\ Head(uplink[c]) = "Input" /\ ~(MayDrive(c) /\ HasRoom)

Refuse(c) ==
  /\ Refused(c)
  /\ downlink' = [downlink EXCEPT ![c] =
       @ \o Passed(c, << [type |-> "Fatal", epoch |-> 0] >>)]
  /\ Close({c})
  /\ reading' = NoConn
  /\ UNCHANGED <<controller_epoch, connection, pending_connection, slot, backlog,
                 conn_epoch, inputVars, eof, gone, engineVars>>

\* read_messages returns closed: the connection is not put back.
EndOfStream(c) ==
  /\ reading = c /\ uplink[c] = <<>> /\ eof[c]
  /\ Close({c})
  /\ reading' = NoConn
  /\ UNCHANGED <<controller_epoch, connection, pending_connection, slot, backlog,
                 conn_epoch, inputVars, eof, downlink, gone, engineVars>>

Drained(c) == reading = c /\ uplink[c] = <<>> /\ ~eof[c]

KeepLive(c) ==
  /\ Drained(c) /\ slot = "live"
  /\ connection' = c /\ reading' = NoConn
  /\ UNCHANGED <<controller_epoch, pending_connection, slot, backlog, conn_epoch, outbound,
                 inputVars, channelVars, engineVars>>

KeepPending(c) ==
  /\ Drained(c) /\ slot = "pending" /\ conn_epoch[c] = 0
  /\ pending_connection' = c /\ reading' = NoConn
  /\ UNCHANGED <<controller_epoch, connection, slot, backlog, conn_epoch, outbound, inputVars,
                 channelVars, engineVars>>

\* Mutant: an authenticated connection is put back into the pending slot.
PromoteForgotten(c) ==
  /\ Drained(c) /\ slot = "pending" /\ conn_epoch[c] # 0
  /\ pending_connection' = c /\ reading' = NoConn
  /\ UNCHANGED <<controller_epoch, connection, slot, backlog, conn_epoch, outbound,
                 inputVars, channelVars, engineVars>>

\* The new controller takes the live slot. The previous one gets a single
\* non-blocking flush of its revocation, which may not go through, and is
\* dropped.
Promote(c) ==
  /\ Drained(c) /\ slot = "pending" /\ conn_epoch[c] # 0
  /\ connection' = c /\ reading' = NoConn
  /\ \E told \in BOOLEAN :
       downlink' = [d \in Conns |->
         IF told /\ d = connection
         THEN downlink[d] \o Passed(d, Append(outbound[d],
                [type |-> "ControlRevoked", epoch |-> conn_epoch[d]]))
         ELSE downlink[d]]
  /\ Close({connection} \cap Conns)
  /\ UNCHANGED <<controller_epoch, pending_connection, slot, backlog, conn_epoch,
                 inputVars, eof, gone, engineVars>>

\* flush_connection. Only the live connection is polled for writing.
FlushConnection ==
  /\ Idle /\ connection # NoConn /\ outbound[connection] # <<>>
  /\ downlink' = [downlink EXCEPT ![connection] =
       @ \o Passed(connection, outbound[connection])]
  /\ outbound' = [outbound EXCEPT ![connection] = <<>>]
  /\ UNCHANGED <<controller_epoch, connection, pending_connection, reading, slot,
                 backlog, conn_epoch, inputVars, sock, uplink, eof, gone, engineVars>>

-----------------------------------------------------------------------------
(***************************************************************************)
(* The Bridge. Its main thread copies stdin to the socket; when the Holder *)
(* closes, only the receiving thread ends, and the process (so the SSH     *)
(* channel) ends when the next copy fails. A Bridge whose Engine has left  *)
(* it ends unseen.                                                         *)
(***************************************************************************)
BridgeExit(c) ==
  /\ sock[c] = "closed" /\ ~gone[c] /\ ~eof[c] /\ uplink[c] # <<>>
  /\ gone' = [gone EXCEPT ![c] = TRUE]
  /\ uplink' = [uplink EXCEPT ![c] = <<>>]
  /\ UNCHANGED <<holderVars, sock, eof, downlink, engineVars>>

-----------------------------------------------------------------------------
(***************************************************************************)
(* The Engines.                                                            *)
(***************************************************************************)
Open(first, last) ==
  /\ opened < MaxConns
  /\ opened' = opened + 1
  /\ backlog' = Append(backlog, opened + 1)
  /\ sock' = [sock EXCEPT ![opened + 1] = "open"]
  /\ uplink' = [uplink EXCEPT ![opened + 1] = first]
  /\ eof' = [eof EXCEPT ![opened + 1] = last]
  /\ UNCHANGED <<controller_epoch, connection, pending_connection, reading, slot,
                 conn_epoch, outbound, inputVars, downlink, gone, written>>

\* RemoteSessionClient::connect, from the loop of pump_remote.
Connect(e) ==
  /\ bridge[e] = NoConn /\ ~failed[e]
  /\ Open(<<"Hello">>, FALSE)
  /\ bridge' = [bridge EXCEPT ![e] = opened + 1]
  /\ UNCHANGED <<writer_epoch, hello_accepted, failed>>

\* A local process that cannot authenticate: it says something wrong, says
\* nothing, or hangs up (a wrong Hello is refused either way).
StrangerConnects ==
  /\ Strangers
  /\ \E first \in {<<>>, <<"BadHello">>, <<"Part">>}, last \in BOOLEAN :
       (first = <<"BadHello">> => ~last) /\ Open(first, last)
  /\ UNCHANGED <<bridge, writer_epoch, hello_accepted, failed>>

\* RemoteSessionClient::write under the lease.
Write(e) ==
  LET c == bridge[e]
  IN  /\ c # NoConn /\ writer_epoch[e] # 0 /\ ~gone[c] /\ ~eof[c]
      /\ written < MaxWrites
      /\ written' = written + 1
      /\ uplink' = [uplink EXCEPT ![c] = Append(@, "Input")]
      /\ UNCHANGED <<holderVars, sock, eof, downlink, gone, bridge, writer_epoch,
                     hello_accepted, failed, opened>>

\* RemoteSessionClient::disconnect: the SSH process group is killed. Bytes
\* the Bridge has not passed on are lost with it.
Hangup(e) ==
  LET c == bridge[e]
  IN  /\ bridge' = [bridge EXCEPT ![e] = NoConn]
      /\ writer_epoch' = [writer_epoch EXCEPT ![e] = 0]
      /\ hello_accepted' = [hello_accepted EXCEPT ![e] = FALSE]
      /\ eof' = [eof EXCEPT ![c] = TRUE]
      /\ \E k \in 0..(IF sock[c] = "open" THEN Len(uplink[c]) ELSE 0) :
           uplink' = [uplink EXCEPT ![c] = SubSeq(@, 1, k)]

\* The transport breaks, or the Engine dies and its successor adopts the
\* session: what was on its way down is never read.
LinkLost(e) ==
  /\ bridge[e] # NoConn
  /\ Hangup(e)
  /\ downlink' = [downlink EXCEPT ![bridge[e]] = <<>>]
  /\ UNCHANGED <<holderVars, sock, gone, failed, opened, written>>

\* handle_remote_message, one action per disposition.
Down(e) == Head(downlink[bridge[e]])

Received(e) ==
  /\ bridge[e] # NoConn /\ downlink[bridge[e]] # <<>>
  /\ downlink' = [downlink EXCEPT ![bridge[e]] = Tail(@)]
  /\ UNCHANGED <<holderVars, sock, gone, opened, written>>

ReceiveHelloAck(e) ==
  /\ Received(e) /\ Down(e).type = "HelloAck" /\ ~hello_accepted[e]
  /\ hello_accepted' = [hello_accepted EXCEPT ![e] = TRUE]
  /\ writer_epoch' = [writer_epoch EXCEPT ![e] = Down(e).epoch]
  /\ UNCHANGED <<bridge, failed, uplink, eof>>

\* grant_control: a grant for another epoch than HelloAck's is an error.
ReceiveControlGranted(e) ==
  /\ Received(e) /\ Down(e).type = "ControlGranted" /\ hello_accepted[e]
  /\ IF Down(e).epoch = writer_epoch[e]
     THEN UNCHANGED <<bridge, writer_epoch, hello_accepted, uplink, eof>>
     ELSE Hangup(e)
  /\ UNCHANGED failed

ReceiveControlRevoked(e) ==
  /\ Received(e) /\ Down(e).type = "ControlRevoked" /\ hello_accepted[e]
  /\ Hangup(e)
  /\ UNCHANGED failed

\* A fatal error, a second HelloAck, or anything before the first one.
ReceiveFatal(e) ==
  /\ Received(e)
  /\ Down(e).type = "Fatal" \/ (hello_accepted[e] <=> Down(e).type = "HelloAck")
  /\ Hangup(e)
  /\ failed' = [failed EXCEPT ![e] = TRUE]

ReceiveEof(e) ==
  /\ bridge[e] # NoConn /\ gone[bridge[e]] /\ downlink[bridge[e]] = <<>>
  /\ Hangup(e)
  /\ UNCHANGED <<holderVars, sock, downlink, gone, failed, opened, written>>

-----------------------------------------------------------------------------
Holder ==
  \/ AcceptConnection \/ ReadConnection \/ ReadPendingConnection \/ FlushConnection
  \/ FlushInput
  \/ \E c \in Conns : \/ Handshake(c) \/ ApplyInput(c) \/ HandlePart(c) \/ Refuse(c)
                      \/ EndOfStream(c) \/ KeepLive(c) \/ KeepPending(c)
                      \/ Promote(c)

Pump(e) ==
  \/ Connect(e) \/ ReceiveHelloAck(e) \/ ReceiveControlGranted(e)
  \/ ReceiveControlRevoked(e) \/ ReceiveFatal(e) \/ ReceiveEof(e)

Next ==
  \/ Holder
  \/ \E c \in Conns : BridgeExit(c)
  \/ \E e \in Engines : Pump(e) \/ Write(e) \/ LinkLost(e)
  \/ StrangerConnects

Spec == Init /\ [][Next]_vars

\* The Holder's poll loop, the Bridge processes and the pump threads keep
\* running; users may stop typing, and nothing has to break.
Fairness ==
  /\ WF_vars(Holder)
  /\ \A c \in Conns : WF_vars(BridgeExit(c))
  /\ \A e \in Engines : WF_vars(Pump(e))

FairSpec == Spec /\ Fairness

-----------------------------------------------------------------------------
(***************************************************************************)
(* Properties.                                                             *)
(***************************************************************************)
Slot == Conns \cup {NoConn}

HolderTypes ==
  /\ controller_epoch \in Nat
  /\ connection \in Slot /\ pending_connection \in Slot /\ reading \in Slot
  /\ slot \in {"live", "pending"}
  /\ backlog \in Seq(Conns)
  /\ conn_epoch \in [Conns -> Nat]
  /\ outbound \in [Conns -> Seq(DownMsg)]
  /\ pending_input \in Seq(Typed) /\ applied \in Seq(Typed)

ChannelTypes ==
  /\ sock \in [Conns -> {"none", "open", "closed"}]
  /\ uplink \in [Conns -> Seq(UpMsg)]
  /\ eof \in [Conns -> BOOLEAN]
  /\ downlink \in [Conns -> Seq(DownMsg)]
  /\ gone \in [Conns -> BOOLEAN]

EngineTypes ==
  /\ bridge \in [Engines -> Slot]
  /\ writer_epoch \in [Engines -> Nat]
  /\ hello_accepted \in [Engines -> BOOLEAN]
  /\ failed \in [Engines -> BOOLEAN]
  /\ opened \in 0..MaxConns /\ written \in Nat

\* Every variable keeps its type.
TypeOK == HolderTypes /\ ChannelTypes /\ EngineTypes

\* A handshake opens an epoch of its own: no two connections share one, and
\* none is ahead of the Holder's.
EpochsAreUnique ==
  /\ \A c \in Conns : conn_epoch[c] <= controller_epoch
  /\ \A c, d \in Conns : c # d /\ conn_epoch[c] = conn_epoch[d] => conn_epoch[c] = 0

Holds(c) == conn_epoch[c] # 0 /\ conn_epoch[c] = controller_epoch

\* The connection that opened the current epoch.
Owner ==
  IF \E c \in Conns : Holds(c) THEN CHOOSE c \in Conns : Holds(c) ELSE NoConn

Lease == INSTANCE ControllerLease
  WITH epoch <- controller_epoch, owner <- Owner,
       accepted <- applied \o pending_input, applied <- applied

\* holder.rs's handshake, handle_message, write_input and flush_input
\* implement the lease: only the connection that acquired control last gets
\* an input accepted, and the PTY takes accepted inputs in the order of
\* their acceptance, whatever connections overlap, linger or break in the
\* middle of a read. An input accepted before a newer attach may still be
\* written after it (it is in pending_input), but never after an input of
\* the newer controller.
LeaseSpec == Lease!Spec

\* At most one Engine believes in the current epoch: two daemons attached to
\* one Agent cannot both write to it with the Holder's consent.
OneEngineHoldsTheEpoch ==
  \A e, f \in Engines :
    e # f /\ writer_epoch[e] = writer_epoch[f] => writer_epoch[e] = 0

\* "permits exactly one live attach/controller. A new attach atomically
\* increments the controller epoch and revokes the previous attach"
\* (REMOTE_PORT.md): between reads, the live connection holds the lease.
LiveHoldsTheLease ==
  Idle /\ connection # NoConn => conn_epoch[connection] = controller_epoch

\* Every attach is answered: pump_remote_connection waits for HelloAck
\* without a timeout, so the Holder must accept it, or drop it for a newer
\* connector, or the wait must end. (A Bridge is left before the next one is
\* opened, so each wait ends by itself.)
Waits(e) ==
  \E c \in Conns : bridge[e] = c /\ writer_epoch[e] = 0 /\ sock[c] # "closed"

AttachIsAnswered == \A e \in Engines : Waits(e) ~> ~Waits(e)

\* "a broken Bridge only advances this reconnect loop" (session.rs): once
\* the Holder has dropped an Engine's connection, the Engine leaves it.
DroppedBridgeIsLeft ==
  \A e \in Engines : \A c \in Conns :
    bridge[e] = c /\ sock[c] = "closed" ~> bridge[e] # c
=============================================================================

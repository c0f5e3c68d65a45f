---------------------------- MODULE RemoteStream ----------------------------
(***************************************************************************)
(* What one remote Holder streams to the Engine that controls it: output   *)
(* frames by offset, grid updates by sequence and the Agent's exit.        *)
(* Holder: diri-remote/src/holder.rs, output_log.rs and the diff baseline  *)
(* of diri-terminal-state. Engine: session.rs pump_remote and              *)
(* handle_remote_message, remote/client.rs, GridMirror.                    *)
(*                                                                         *)
(* The PTY's bytes come in chunks; a chunk's offset is its number. The     *)
(* terminal is a function of the bytes fed to it, so Screen[n] is what one *)
(* row of it shows after n chunks. Who controls the Holder is the business *)
(* of HolderLease: here one Engine reconnects to it.                       *)
(***************************************************************************)
EXTENDS Naturals, Sequences, FiniteSets, SequencesExt, FiniteSetsExt

CONSTANTS
  MaxOutput,        \* bound: chunks the Agent writes
  Screen,           \* Screen[n]: a row of the terminal after n chunks
  LogCapacity,      \* DISK_CAPACITY, in chunks
  ReplayBudget,     \* REPLAY_BUDGET_BYTES, in chunks
  MaxOutbound,      \* MAX_OUTBOUND_BYTES, in frames
  PersistInterval,  \* OFFSET_PERSIST_INTERVAL, in chunks
  MaxLosses,        \* bound: Bridges that break
  MaxRestarts,       \* bound: Engine restarts
  MaxResizes,       \* bound: Resize requests
  NoCells           \* no row at all

ASSUME RemoteStreamAssumption ==
  /\ MaxOutput \in Nat /\ LogCapacity \in Nat \ {0} /\ ReplayBudget \in Nat
  /\ PersistInterval \in Nat \ {0}
  /\ MaxLosses \in Nat /\ MaxRestarts \in Nat /\ MaxResizes \in Nat
  /\ DOMAIN Screen = 0..MaxOutput /\ \A n \in 0..MaxOutput : Screen[n] # NoCells
  /\ MaxOutbound \in Nat /\ MaxOutbound >= ReplayBudget + 5

VARIABLES
  (* Holder *)
  tail, base,         \* OutputLog: next offset, oldest offset on disk
  last_cells,         \* HeadlessScreen.last_cells; NoCells before the first
                      \* grid_update and after a resize (geometry changed)
  snapshot_sequence,  \* SessionState.snapshot_sequence
  dirty,              \* dirty_since is set
  exit_recorded,      \* SessionState.process_state is Exited
  conn,               \* Holder.connection: "none"; "linked" to the Bridge
                      \* the Engine reads; or "stale", its Bridge broken
  outbound,           \* Connection.outbound, the frames not written yet
  flushed, begun,     \* how much of the buffer was written: whole frames,
                      \* and whether any byte was (Connection.sent # 0)
  (* Bridge *)
  bridge,             \* "none", "hello" sent, or "up"
  down,               \* frames written by the Holder, not yet handled
  (* Engine *)
  offset,             \* Shared.remote_output_offset
  mirror,             \* GridMirror: sequence (0 for none) and cells
  hello_accepted,
  exited,             \* "no", "exit" as the Agent did, or "126"
  reconnects,         \* pump_remote's counter, modulo 3
  saved,              \* RemoteBinding.last_output_offset
  log,                \* offsets appended to the Engine's own output log
  losses, restarts, resizes,
  (* History *)
  discarded,          \* offsets the Holder gave up replaying
  ungreeted,          \* the buffer was replaced with HelloAck still in it
  shown,              \* the row the connection was last sent
  returned            \* the last diff sent nothing, of a row not shown

streamHistory == <<discarded, ungreeted, shown, returned>>
queueVars == <<conn, outbound, flushed, begun, streamHistory>>
holderVars == <<tail, base, last_cells, snapshot_sequence, dirty, exit_recorded,
                queueVars>>
engineVars == <<offset, mirror, hello_accepted, exited, reconnects, saved, log>>
streamCounts == <<losses, restarts, resizes>>
streamVars == <<holderVars, bridge, down, engineVars, streamCounts>>


(***************************************************************************)
(* Frames.                                                                 *)
(***************************************************************************)
HelloAck(ex) == [type |-> "HelloAck", exited |-> ex]
ControlGranted == [type |-> "ControlGranted"]
Output(n) == [type |-> "Output", offset |-> n]
FullSnapshot(s, cells) == [type |-> "FullSnapshot", sequence |-> s, cells |-> cells]
GridDelta(s, cells) == [type |-> "GridDelta", sequence |-> s, cells |-> cells]
Error == [type |-> "Error"]
ProcessExit == [type |-> "ProcessExit"]

Offsets(q) == {q[i].offset : i \in {j \in DOMAIN q : q[j].type = "Output"}}

StreamInit ==
  /\ tail = 0 /\ base = 0 /\ last_cells = NoCells /\ snapshot_sequence = 0
  /\ dirty = FALSE /\ exit_recorded = FALSE
  /\ conn = "none" /\ outbound = <<>> /\ flushed = 0 /\ begun = FALSE
  /\ bridge = "none" /\ down = <<>>
  /\ offset = 0 /\ mirror = [sequence |-> 0, cells |-> NoCells]
  /\ hello_accepted = FALSE /\ exited = "no" /\ reconnects = 0
  /\ saved = 0 /\ log = <<>>
  /\ losses = 0 /\ restarts = 0 /\ resizes = 0
  /\ discarded = {} /\ ungreeted = FALSE /\ shown = NoCells /\ returned = FALSE

-----------------------------------------------------------------------------
(***************************************************************************)
(* The Holder's connection.                                                *)
(***************************************************************************)
Fits(m) == flushed + Len(outbound) + 1 <= MaxOutbound

HasHelloAck(q) == \E i \in DOMAIN q : q[i].type = "HelloAck"
PaintsGrid(m) == m.type \in {"FullSnapshot", "GridDelta"}

\* History of queueing m while the terminal shows `cells`: the row that the
\* connection has been sent, and whether a diff that paints nothing was
\* taken of another row.
Presents(m, cells) ==
  \/ /\ conn # "none" /\ Fits(m) /\ PaintsGrid(m) /\ m.cells # NoCells
     /\ shown' = m.cells /\ returned' = FALSE
  \/ /\ conn # "none" /\ Fits(m) /\ PaintsGrid(m) /\ m.cells = NoCells
     /\ returned' = (shown # cells)
     /\ UNCHANGED shown
  \/ /\ conn # "none" /\ ~Fits(m) /\ ~begun
     /\ shown' = cells /\ returned' = FALSE
  \/ /\ conn = "none" \/ (Fits(m) /\ ~PaintsGrid(m)) \/ (~Fits(m) /\ begun)
     /\ UNCHANGED <<shown, returned>>

\* Holder::queue: a full buffer is replaced by a fresh snapshot, unless part
\* of it is already on the wire; then the connection is dropped.
Queue(m, seq, cells) ==
  /\ Presents(m, cells)
  /\ \/ /\ conn # "none" /\ Fits(m)
        /\ outbound' = Append(outbound, m) /\ snapshot_sequence' = seq
        /\ UNCHANGED <<conn, flushed, begun, discarded, ungreeted>>
     \/ /\ conn # "none" /\ ~Fits(m) /\ begun
        /\ conn' = "none" /\ outbound' = <<>> /\ flushed' = 0 /\ begun' = FALSE
        /\ snapshot_sequence' = seq
        /\ UNCHANGED <<discarded, ungreeted>>
     \/ /\ conn # "none" /\ ~Fits(m) /\ ~begun
        /\ outbound' = <<Error, FullSnapshot(seq + 1, cells)>>
        /\ discarded' = discarded \cup
             (IF conn = "linked" THEN Offsets(Append(outbound, m)) ELSE {})
        /\ ungreeted' = (ungreeted \/ (conn = "linked" /\ HasHelloAck(outbound)))
        /\ snapshot_sequence' = seq + 1
        /\ UNCHANGED <<conn, flushed, begun>>
     \/ /\ conn = "none" /\ snapshot_sequence' = seq
        /\ UNCHANGED <<conn, outbound, flushed, begun, discarded, ungreeted>>

\* drain_pty, for one chunk: logged, fed to the parser, queued.
DrainPty ==
  /\ ~exit_recorded /\ tail < MaxOutput
  /\ tail' = tail + 1
  /\ base' = IF tail + 1 - base > LogCapacity
             THEN tail + 1 - (LogCapacity \div 2) ELSE base
  /\ dirty' = TRUE
  /\ Queue(Output(tail), snapshot_sequence, Screen[tail + 1])
  /\ UNCHANGED <<last_cells, exit_recorded, bridge, down, engineVars, streamCounts>>

\* What grid_update(false) sends of the row: nothing when it equals the
\* baseline.
Changed(cells) == IF cells = last_cells THEN NoCells ELSE cells

\* Mutant: the sequence only advances with a full snapshot.
EmitGridDeltaUnnumbered ==
  /\ dirty /\ dirty' = FALSE
  /\ \/ /\ conn # "none"
        /\ last_cells' = Screen[tail]
        /\ IF last_cells = NoCells
           THEN Queue(FullSnapshot(snapshot_sequence + 1, Screen[tail]),
                      snapshot_sequence + 1, Screen[tail])
           ELSE Queue(GridDelta(snapshot_sequence, Changed(Screen[tail])),
                      snapshot_sequence, Screen[tail])
     \/ conn = "none" /\ UNCHANGED <<last_cells, snapshot_sequence, queueVars>>
  /\ UNCHANGED <<tail, base, exit_recorded, bridge, down, engineVars, streamCounts>>

\* emit_grid_delta: without a connection no diff is built, and the baseline
\* stays where it was.
EmitGridDelta ==
  /\ dirty /\ dirty' = FALSE
  /\ \/ /\ conn # "none"
        /\ last_cells' = Screen[tail]
        /\ LET s == snapshot_sequence + 1
           IN  Queue(IF last_cells = NoCells THEN FullSnapshot(s, Screen[tail])
                     ELSE GridDelta(s, Changed(Screen[tail])), s, Screen[tail])
     \/ conn = "none" /\ UNCHANGED <<last_cells, snapshot_sequence, queueVars>>
  /\ UNCHANGED <<tail, base, exit_recorded, bridge, down, engineVars, streamCounts>>

\* record_exit: the reader is closed, so nothing is drained afterwards.
RecordAgentExit ==
  /\ ~exit_recorded /\ exit_recorded' = TRUE
  /\ Queue(ProcessExit, snapshot_sequence, Screen[tail])
  /\ UNCHANGED <<tail, base, last_cells, dirty, bridge, down, engineVars, streamCounts>>

\* Connection::flush: some frames, and maybe a part of the next, go out.
FlushConnection ==
  /\ conn # "none" /\ outbound # <<>>
  /\ \E k \in 0..Len(outbound) :
       /\ begun => k > 0
       /\ down' = IF conn = "linked" THEN down \o SubSeq(outbound, 1, k) ELSE down
       /\ outbound' = SubSeq(outbound, k + 1, Len(outbound))
       /\ begun' = (k < Len(outbound))
       /\ flushed' = IF k < Len(outbound) THEN flushed + k ELSE 0
  /\ UNCHANGED <<tail, base, last_cells, snapshot_sequence, dirty, exit_recorded, conn,
                 streamHistory, bridge, engineVars, streamCounts>>

\* Mutant: the replay skips the first chunk the client is missing.
ReplayAfter(n) == Max({n + 1, base, IF tail > ReplayBudget THEN tail - ReplayBudget ELSE 0})

\* Where queue_replay starts, for a client that has acknowledged n.
ReplayFrom(n) == Max({n, base, IF tail > ReplayBudget THEN tail - ReplayBudget ELSE 0})

Replay(n) ==
  [i \in 1..(IF tail > ReplayFrom(n) THEN tail - ReplayFrom(n) ELSE 0) |->
     Output(ReplayFrom(n) + i - 1)]

\* Mutant: a client that has acknowledged the current sequence gets no snapshot.
GreetingTrustsTheAck(seq) ==
  <<HelloAck(exit_recorded)>> \o Replay(offset)
  \o (IF mirror.sequence + 1 = seq THEN <<>> ELSE <<FullSnapshot(seq, Screen[tail])>>)
  \o <<ControlGranted>>

\* Mutant: the snapshot is queued before the greeting.
GreetingSnapshotFirst(seq) ==
  <<FullSnapshot(seq, Screen[tail]), HelloAck(exit_recorded)>> \o Replay(offset)
  \o <<ControlGranted>>

\* Mutant: the greeting always reports a running Agent.
GreetingRunning(seq) ==
  <<HelloAck(FALSE)>> \o Replay(offset) \o <<FullSnapshot(seq, Screen[tail]), ControlGranted>>

\* What handshake queues: the greeting, the missed output, a fresh snapshot
\* and the grant.
Greeting(seq) ==
  <<HelloAck(exit_recorded)>> \o Replay(offset)
  \o <<FullSnapshot(seq, Screen[tail]), ControlGranted>>

\* handshake and the promotion that follows it (read_pending_connection).
Handshake ==
  /\ bridge = "hello" /\ bridge' = "up"
  /\ conn' = "linked" /\ flushed' = 0 /\ begun' = FALSE
  /\ snapshot_sequence' = snapshot_sequence + 1
  /\ outbound' = Greeting(snapshot_sequence + 1)
  /\ discarded' = discarded \cup
       {n \in 0..(tail - 1) : n >= offset /\ (n < base \/ n + ReplayBudget < tail)}
  /\ ungreeted' = FALSE /\ shown' = Screen[tail] /\ returned' = FALSE
  /\ UNCHANGED <<tail, base, last_cells, dirty, exit_recorded, down, engineVars, streamCounts>>

\* The Holder reads the end of a broken Bridge's stream.
DropStale ==
  /\ conn = "stale"
  /\ conn' = "none" /\ outbound' = <<>> /\ flushed' = 0 /\ begun' = FALSE
  /\ UNCHANGED <<tail, base, last_cells, snapshot_sequence, dirty, exit_recorded,
                 streamHistory, bridge, down, engineVars, streamCounts>>

\* A Resize from the controller (RemoteSessionClient::resize, then
\* handle_message): the new geometry is answered with a snapshot.
Resize ==
  /\ bridge = "up" /\ conn = "linked" /\ hello_accepted /\ resizes < MaxResizes
  /\ resizes' = resizes + 1
  /\ last_cells' = NoCells
  /\ snapshot_sequence' = snapshot_sequence + 1
  /\ outbound' = Append(outbound, FullSnapshot(snapshot_sequence + 1, Screen[tail]))
  /\ shown' = Screen[tail] /\ returned' = FALSE
  /\ UNCHANGED <<tail, base, dirty, exit_recorded, conn, flushed, begun, discarded, ungreeted,
                 bridge, down, engineVars, losses, restarts>>

-----------------------------------------------------------------------------
(***************************************************************************)
(* The Engine.                                                             *)
(***************************************************************************)
Unlink == IF conn = "linked" THEN "stale" ELSE conn

\* RemoteSessionClient::disconnect.
Disconnect ==
  /\ bridge' = "none" /\ down' = <<>> /\ hello_accepted' = FALSE
  /\ conn' = Unlink
  /\ UNCHANGED <<tail, base, last_cells, snapshot_sequence, dirty, exit_recorded,
                 outbound, flushed, begun, streamHistory>>

Connect ==
  /\ bridge = "none" /\ exited = "no"
  /\ bridge' = "hello"
  /\ UNCHANGED <<holderVars, down, engineVars, streamCounts>>

\* pump_remote on Reconnect: every third time it asks the Holder whether the
\* Agent has exited, and asking may fail.
Reconnect ==
  /\ Disconnect
  /\ reconnects' = (reconnects + 1) % 3
  /\ \/ exited' = exited
     \/ reconnects = 2 /\ exit_recorded /\ exited' = "exit"
  /\ UNCHANGED <<offset, mirror, saved, log>>

EndPump(how) ==
  /\ Disconnect
  /\ exited' = how
  /\ UNCHANGED <<offset, mirror, reconnects, saved, log>>

\* The Bridge breaks, or could not be opened.
LinkLost ==
  /\ exited = "no" /\ losses < MaxLosses
  /\ losses' = losses + 1
  /\ Reconnect
  /\ UNCHANGED <<restarts, resizes>>

\* observe_output_offset: the binding follows in steps of PersistInterval.
Observed(n) ==
  LET seen == Max({n + 1, offset})
  IN  IF seen >= saved + PersistInterval THEN seen ELSE saved

\* The Engine's process ends (std::process::exit runs no destructor, so the
\* observed offset is not saved), possibly between observe_output_offset and
\* the append of apply_remote_output, and its successor adopts the running
\* Agent from the binding. The output log survives.
EngineRestart ==
  /\ exited = "no" /\ ~exit_recorded /\ restarts < MaxRestarts
  /\ restarts' = restarts + 1
  /\ bridge' = "none" /\ down' = <<>> /\ hello_accepted' = FALSE /\ reconnects' = 0
  /\ conn' = Unlink
  /\ mirror' = [sequence |-> 0, cells |-> NoCells]
  /\ \/ saved' = saved
     \/ /\ down # <<>> /\ hello_accepted /\ Head(down).type = "Output"
        /\ saved' = Observed(Head(down).offset)
  /\ offset' = saved'
  /\ UNCHANGED <<tail, base, last_cells, snapshot_sequence, dirty, exit_recorded,
                 outbound, flushed, begun, streamHistory, exited, log, losses,
                 resizes>>

\* handle_remote_message, by the frame at hand.
Frame(type) == bridge = "up" /\ down # <<>> /\ Head(down).type = type

Handled ==
  /\ down' = Tail(down)
  /\ UNCHANGED <<holderVars, bridge, streamCounts>>

\* Anything but a HelloAck first, or a second HelloAck, is fatal.
ReceiveUnexpected ==
  /\ bridge = "up" /\ down # <<>> /\ hello_accepted = (Head(down).type = "HelloAck")
  /\ EndPump("126")
  /\ UNCHANGED streamCounts

ReceiveHelloAck ==
  /\ Frame("HelloAck") /\ ~hello_accepted
  /\ \/ /\ ~Head(down).exited
        /\ hello_accepted' = TRUE
        /\ Handled
        /\ UNCHANGED <<offset, mirror, exited, reconnects, saved, log>>
     \/ /\ Head(down).exited
        /\ EndPump("exit")
        /\ UNCHANGED streamCounts

\* Mutant: the offset is advanced to the frame instead of past it.
ReceiveOutputNoAdvance ==
  /\ Frame("Output") /\ hello_accepted
  /\ LET n == Head(down).offset
     IN  /\ saved' = Observed(n)
         /\ IF n + 1 <= offset
            THEN UNCHANGED <<offset, log>>
            ELSE offset' = n /\ log' = Append(log, n)
  /\ Handled
  /\ UNCHANGED <<mirror, hello_accepted, exited, reconnects>>

\* apply_remote_output: only what lies past the offset is appended.
ReceiveOutput ==
  /\ Frame("Output") /\ hello_accepted
  /\ LET n == Head(down).offset
     IN  /\ saved' = Observed(n)
         /\ IF n + 1 <= offset
            THEN UNCHANGED <<offset, log>>
            ELSE offset' = n + 1 /\ log' = Append(log, n)
  /\ Handled
  /\ UNCHANGED <<mirror, hello_accepted, exited, reconnects>>

ReceiveSnapshot ==
  /\ Frame("FullSnapshot") /\ hello_accepted
  /\ mirror' = [sequence |-> Head(down).sequence, cells |-> Head(down).cells]
  /\ Handled
  /\ UNCHANGED <<offset, hello_accepted, exited, reconnects, saved, log>>

DeltaApplies(m) == mirror.sequence # 0 /\ m.sequence = mirror.sequence + 1

\* GridMirror::apply_delta; a gap is left to the next connection's snapshot.
ReceiveDelta ==
  /\ Frame("GridDelta") /\ hello_accepted
  /\ LET m == Head(down)
     IN  IF DeltaApplies(m)
         THEN /\ mirror' = [sequence |-> m.sequence,
                            cells |-> IF m.cells = NoCells THEN mirror.cells ELSE m.cells]
              /\ Handled
              /\ UNCHANGED <<offset, hello_accepted, exited, reconnects, saved, log>>
         ELSE Reconnect /\ UNCHANGED streamCounts

ReceiveExit ==
  /\ Frame("ProcessExit") /\ hello_accepted
  /\ EndPump("exit")
  /\ UNCHANGED streamCounts

\* A grant or a non-fatal error changes nothing here.
ReceiveOther ==
  /\ hello_accepted /\ (Frame("ControlGranted") \/ Frame("Error"))
  /\ Handled
  /\ UNCHANGED engineVars

-----------------------------------------------------------------------------
Holder == Handshake \/ FlushConnection \/ EmitGridDelta \/ DropStale

Receive ==
  \/ ReceiveUnexpected \/ ReceiveHelloAck \/ ReceiveOutput \/ ReceiveSnapshot
  \/ ReceiveDelta \/ ReceiveExit \/ ReceiveOther

StreamNext ==
  \/ DrainPty \/ RecordAgentExit \/ Holder \/ Resize
  \/ Connect \/ Receive \/ LinkLost \/ EngineRestart

StreamSpec == StreamInit /\ [][StreamNext]_streamVars

\* The Holder's loop and the pump thread keep running. Nothing makes the
\* Agent write or exit, the user resize, or a Bridge break.
FairStreamSpec == StreamSpec /\ WF_streamVars(Handshake) /\ WF_streamVars(FlushConnection)
                 /\ WF_streamVars(EmitGridDelta) /\ WF_streamVars(Connect) /\ WF_streamVars(Receive)

-----------------------------------------------------------------------------
(***************************************************************************)
(* Properties.                                                             *)
(***************************************************************************)
Cells == {Screen[n] : n \in 0..MaxOutput} \cup {NoCells}

Frames ==
  {HelloAck(FALSE), HelloAck(TRUE), ControlGranted, Error, ProcessExit}
  \cup {Output(n) : n \in 0..(MaxOutput - 1)}
  \cup {FullSnapshot(s, c) : s \in 1..snapshot_sequence, c \in Cells}
  \cup {GridDelta(s, c) : s \in 1..snapshot_sequence, c \in Cells}

\* Every variable keeps its type, no sequence is ahead of the Holder's and no
\* offset ahead of the log's tail.
TypeOK ==
  /\ tail \in 0..MaxOutput /\ base \in 0..tail
  /\ last_cells \in Cells /\ snapshot_sequence \in Nat
  /\ dirty \in BOOLEAN /\ exit_recorded \in BOOLEAN
  /\ conn \in {"none", "linked", "stale"} /\ bridge \in {"none", "hello", "up"}
  /\ Range(outbound) \subseteq Frames /\ Range(down) \subseteq Frames
  /\ flushed \in Nat /\ begun \in BOOLEAN
  /\ offset \in 0..tail /\ saved \in 0..tail
  /\ mirror.sequence \in 0..snapshot_sequence /\ mirror.cells \in Cells
  /\ hello_accepted \in BOOLEAN /\ exited \in {"no", "exit", "126"}
  /\ reconnects \in 0..2
  /\ Range(log) \subseteq 0..(tail - 1) /\ discarded \subseteq 0..(tail - 1)
  /\ ungreeted \in BOOLEAN /\ shown \in Cells /\ returned \in BOOLEAN

\* What the Engine will still be sent on this connection.
Stream == down \o (IF conn = "linked" THEN outbound ELSE <<>>)

\* "Offsets and grid sequences make every retry idempotent." (session.rs,
\* pump_remote): however often the Bridge breaks, the Engine's log holds
\* every chunk at most once and in order, and nothing the Engine has passed
\* is missing from it except what the Holder gave up: more than the replay
\* budget, or a buffer it discarded.
LogIsFaithful ==
  /\ \A i, j \in DOMAIN log : i < j => log[i] < log[j]
  /\ \A n \in 0..(offset - 1) : n \in Range(log) \cup discarded

\* The grid frames of a connection follow each other: every delta the Engine
\* will see extends the frame before it, so apply_delta's gap never happens
\* on a connection the Holder has kept.
DeltasExtendTheMirror ==
  LET grid == {i \in DOMAIN Stream : Stream[i].type \in {"FullSnapshot", "GridDelta"}}
  IN  hello_accepted =>
        \A i \in grid : Stream[i].type = "GridDelta" =>
          \/ Stream[i].sequence = mirror.sequence + 1 /\ \A j \in grid : j >= i
          \/ \E j \in grid : /\ Stream[i].sequence = Stream[j].sequence + 1
                             /\ j < i /\ \A k \in grid : k <= j \/ k >= i

\* "On attach, the Holder sends a FullSnapshot, followed by sequenced
\* incremental updates" (REMOTE_PORT.md): once everything sent has been
\* applied, the Engine's mirror shows the Holder's authoritative terminal,
\* whatever was discarded, broken or resized on the way. The one exception:
\* the diff baseline belongs to the screen and not to the connection, so a
\* row that has returned to the baseline is not sent although the connection
\* was shown another; the mirror then keeps what it was shown.
QuiescentMirrorIsCurrent ==
  bridge = "up" /\ conn = "linked" /\ hello_accepted /\ Stream = <<>> /\ ~dirty
    => mirror.cells = IF returned THEN shown ELSE Screen[tail]

\* An Agent shown as exited has exited, or the Holder replaced a buffer that
\* still held HelloAck, so that another frame comes first: no other order of
\* overflow, reconnect, replay and restart makes the Engine give up a
\* running Agent. (REMOTE_PORT.md: "If an attached client falls behind, stale
\* updates are discarded and the connection is reseeded from a complete
\* snapshot after reconnect.")
ExitIsTruthful == exited # "no" => exit_recorded \/ ungreeted

\* "Normal exit, signal exit, external exit, and Holder failure are reported
\* distinctly so the desktop can detach" (REMOTE_PORT.md): a recorded exit
\* reaches the Engine.
ExitIsReported == exit_recorded ~> exited = "exit"

Missing == {n \in 0..(tail - 1) : n \notin Range(log) \cup discarded}

\* An Engine that keeps running ends up with the Agent's whole output, less
\* what the Holder gave up: whenever some is missing, a time comes when none
\* is. One that restarts may have saved the offset of a chunk it did not
\* append.
OutputArrives ==
  Missing # {} ~> (Missing = {} \/ exited # "no" \/ restarts > 0)
=============================================================================

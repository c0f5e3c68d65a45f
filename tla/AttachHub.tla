----------------------------- MODULE AttachHub -----------------------------
(***************************************************************************)
(* How the clients of one local session see its terminal: the attach       *)
(* connections and the broadcast pump of diri-engine/src/attach.rs, the    *)
(* wake source and attachment seed of session.rs, and the diff baseline    *)
(* that diri-terminal-state keeps for all of them together.                *)
(*                                                                         *)
(* Two locks order the steps. The Registry lock covers a seed (sample and  *)
(* write), the pump's observation, a resize, and the replacement of the    *)
(* session; the hub lock covers the table of sinks. The PTY reader takes   *)
(* neither: it changes the screen and notifies in two steps.               *)
(*                                                                         *)
(* Rows are diffed and applied one by one, so the terminal has one row:    *)
(* Screen[n] and Modes[n] are its cells and modes after n chunks.          *)
(***************************************************************************)
EXTENDS Naturals

CONSTANTS
  Clients,
  MaxOutput,      \* bound: chunks that a session's program writes
  Screen, Modes,
  MaxResizes,     \* bound: Resize frames
  MaxRespawns,    \* bound: replacements of the session
  MaxAttaches,    \* bound: attach connections
  None            \* no cells, no modes, no frame

ASSUME AttachHubAssumption ==
  /\ MaxOutput \in Nat /\ MaxResizes \in Nat
  /\ MaxRespawns \in Nat /\ MaxAttaches \in Nat
  /\ DOMAIN Screen = 0..MaxOutput /\ DOMAIN Modes = 0..MaxOutput
  /\ \A n \in 0..MaxOutput : Screen[n] # None /\ Modes[n] # None
  /\ None \notin (0..MaxOutput) \X {1, 2} \X {Modes[n] : n \in 0..MaxOutput}
  /\ None \notin [size : {1, 2}, row : {None} \cup {Screen[n] : n \in 0..MaxOutput}]

VARIABLES
  (* the Session in the Registry *)
  alive,            \* Registry::get finds it
  source,           \* which Session it is: the identity of its GridWake
  fed,              \* chunks its HeadlessScreen was fed
  content_seq, size,
  last_cells,       \* the diff baseline, with its geometry
  unnotified,       \* fed, and grid_wake.notify() still to come
  generation,       \* GridWakeState.generation
  (* the hub's entry for it *)
  sinks, pump_running,
  (* the pump thread *)
  pc,               \* "off", "wait", "observe", "send" or "check"
  signature, last_modes, wake, wake_generation, changed, frames,
  (* serve, one per client, and the client behind it *)
  serve,            \* "idle", "seeded" or "registered"
  seed,             \* the AttachmentSeed kept for the pump
  connected,
  view,             \* what the client has painted
  repainted,        \* history: a broadcast row reached the sink
  missed,           \* history: between the sink's seed and its registration
                    \* a pump moved on to another state of the screen, or it
                    \* found the terminal back where it had left it, which is
                    \* not what the sink was seeded with
  attaches, resizes

session == <<alive, source, fed, content_seq, size, last_cells, unnotified,
             generation>>
hub == <<sinks, pump_running>>
pump == <<pc, signature, last_modes, wake, wake_generation, changed, frames>>
clients == <<serve, seed, connected, view, repainted, missed>>
vars == <<session, hub, pump, clients, attaches, resizes>>

-----------------------------------------------------------------------------
Blank == [size |-> 0, row |-> None, modes |-> None]
NoSeed == [signature |-> None, modes |-> None, wake |-> 0, generation |-> 0]
NoFrames == [grid |-> None, modes |-> None]

\* A mutant: the signature leaves out the geometry.
SignatureWithoutSize == <<content_seq, 1, Modes[fed]>>

\* GridSignature: what grid_update_if_changed compares.
Signature == <<content_seq, size, Modes[fed]>>

\* HeadlessScreen's visible cells, with their geometry.
Cells == [size |-> size, row |-> Screen[fed]]

\* HeadlessScreen::grid_update(false): the rows that differ from the
\* baseline, every row after a change of geometry.
GridUpdate ==
  [size |-> size, row |-> IF last_cells = Cells THEN None ELSE Screen[fed]]

\* GridUpdate::apply: a buffer of another geometry is blanked first.
Apply(update, v) ==
  [size |-> update.size,
   row |-> CASE update.row # None -> update.row
             [] update.row = None /\ update.size = v.size -> v.row
             [] OTHER -> None,
   modes |-> v.modes]

\* The client's side of one broadcast: its grid frame, then its modes frame.
Paint(f, v) ==
  LET painted == IF f.grid = None THEN v ELSE Apply(f.grid, v)
  IN  IF f.modes = None THEN painted ELSE [painted EXCEPT !.modes = f.modes]

Init ==
  /\ alive = TRUE /\ source = 1 /\ fed = 0 /\ content_seq = 0 /\ size = 1
  /\ last_cells = None /\ unnotified = FALSE /\ generation = 0
  /\ sinks = {} /\ pump_running = FALSE
  /\ pc = "off" /\ signature = None /\ last_modes = None
  /\ wake = 0 /\ wake_generation = 0 /\ changed = FALSE /\ frames = NoFrames
  /\ serve = [c \in Clients |-> "idle"] /\ seed = [c \in Clients |-> NoSeed]
  /\ connected = [c \in Clients |-> FALSE]
  /\ view = [c \in Clients |-> Blank]
  /\ repainted = [c \in Clients |-> FALSE]
  /\ missed = [c \in Clients |-> FALSE]
  /\ attaches = 0 /\ resizes = 0

-----------------------------------------------------------------------------
(***************************************************************************)
(* The session.                                                            *)
(***************************************************************************)
\* The PTY reader feeds a chunk; content_seq counts changes of the cells.
Feed ==
  /\ alive /\ ~unnotified /\ fed < MaxOutput
  /\ fed' = fed + 1
  /\ content_seq' = IF Screen[fed + 1] = Screen[fed] THEN content_seq
                                                     ELSE content_seq + 1
  /\ unnotified' = TRUE
  /\ UNCHANGED <<alive, source, size, last_cells, generation, hub, pump,
                 clients, attaches, resizes>>

Notify ==
  /\ unnotified
  /\ unnotified' = FALSE /\ generation' = generation + 1
  /\ UNCHANGED <<alive, source, fed, content_seq, size, last_cells, hub, pump,
                 clients, attaches, resizes>>

\* handle_frame of a Resize: Session::resize, which notifies. (A size that waits
\* for a deferred launch, or that does not reach the Holder, changes nothing
\* here: SessionInput has both.)
Resize(c) ==
  /\ serve[c] = "registered" /\ connected[c] /\ alive
  /\ resizes < MaxResizes /\ resizes' = resizes + 1
  /\ size' = 3 - size /\ generation' = generation + 1
  /\ UNCHANGED <<alive, source, fed, content_seq, last_cells, unnotified, hub,
                 pump, clients, attaches>>

\* Registry::terminate: the Session leaves the table and joins its reader;
\* the sinks stay.
Terminate ==
  /\ alive
  /\ alive' = FALSE /\ unnotified' = FALSE
  /\ UNCHANGED <<source, fed, content_seq, size, last_cells, generation, hub,
                 pump, clients, attaches, resizes>>

\* Registry::respawn. A Session whose program exited on its own is still in
\* the table; resume evicts it under the same lock.
Respawn ==
  /\ source <= MaxRespawns
  /\ alive' = TRUE /\ source' = source + 1
  /\ fed' = 0 /\ content_seq' = 0 /\ size' = 1 /\ last_cells' = None
  /\ unnotified' = FALSE /\ generation' = 0
  /\ UNCHANGED <<hub, pump, clients, attaches, resizes>>

-----------------------------------------------------------------------------
(***************************************************************************)
(* AttachHub::serve.                                                       *)
(***************************************************************************)
\* attachment_seed samples the screen between two equal readings of the
\* generation: as good as all at once.
AttachmentSeed ==
  [signature |-> Signature, modes |-> Modes[fed], wake |-> source,
   generation |-> generation]

\* serve, up to its registration: the session is looked up, seeded, and the
\* snapshot and modes are written, all under the Registry lock.
Seed(c) ==
  /\ serve[c] = "idle" /\ attaches < MaxAttaches /\ attaches' = attaches + 1
  /\ alive
  /\ seed' = [seed EXCEPT ![c] = AttachmentSeed]
  /\ view' = [view EXCEPT ![c] = [size |-> size, row |-> Screen[fed],
                                  modes |-> Modes[fed]]]
  /\ serve' = [serve EXCEPT ![c] = "seeded"]
  /\ connected' = [connected EXCEPT ![c] = TRUE]
  /\ repainted' = [repainted EXCEPT ![c] = FALSE]
  /\ missed' = [missed EXCEPT ![c] = FALSE]
  /\ UNCHANGED <<session, hub, pump, resizes>>

\* A mutant: the generation is read when the pump starts.
StartPumpRereads(s) ==
  /\ pc' = "wait" /\ signature' = s.signature /\ last_modes' = s.modes
  /\ wake' = s.wake /\ wake_generation' = generation
  /\ changed' = FALSE /\ frames' = NoFrames

\* The pump thread begins with a sink's seed. (That it can be spawned is taken
\* for granted: the code drops the error and keeps the entry.)
StartPump(s) ==
  /\ pc' = "wait" /\ signature' = s.signature /\ last_modes' = s.modes
  /\ wake' = s.wake /\ wake_generation' = s.generation
  /\ changed' = FALSE /\ frames' = NoFrames

\* register: the sink joins the table; the first one starts the pump, with
\* its own seed.
Register(c) ==
  /\ serve[c] = "seeded"
  /\ serve' = [serve EXCEPT ![c] = "registered"]
  /\ seed' = [seed EXCEPT ![c] = NoSeed]
  /\ sinks' = sinks \cup {c} /\ pump_running' = TRUE
  /\ \/ /\ pump_running /\ UNCHANGED <<pump, missed>>
     \/ /\ ~pump_running /\ StartPump(seed[c])
        /\ missed' = [d \in Clients |->
             \/ missed[d]
             \/ /\ serve[d] = "seeded"
                /\ \/ seed[d].signature # seed[c].signature
                   \/ seed[d].wake # seed[c].wake]
  /\ UNCHANGED <<session, connected, view, repainted, attaches, resizes>>

\* The client goes away, wherever its serve is.
Leave(c) ==
  /\ connected[c]
  /\ connected' = [connected EXCEPT ![c] = FALSE]
  /\ UNCHANGED <<session, hub, pump, serve, seed, view, repainted, missed,
                 attaches, resizes>>

\* The read loop sees the end of the stream and deregisters.
Deregister(c) ==
  /\ serve[c] = "registered" /\ ~connected[c]
  /\ serve' = [serve EXCEPT ![c] = "idle"]
  /\ view' = [view EXCEPT ![c] = Blank]
  /\ repainted' = [repainted EXCEPT ![c] = FALSE]
  /\ sinks' = sinks \ {c}
  /\ UNCHANGED <<session, pump_running, pump, seed, connected, missed, attaches,
                 resizes>>

-----------------------------------------------------------------------------
(***************************************************************************)
(* AttachHub::pump.                                                        *)
(***************************************************************************)
\* wait_for_change returns, on a change or after its second, and the pump
\* compares its wake source with the session's.
Wait ==
  /\ pc = "wait"
  /\ \/ /\ alive /\ wake # source
        /\ wake' = source /\ wake_generation' = generation
        /\ signature' = None /\ last_modes' = None /\ changed' = TRUE
     \/ /\ wake = source
        /\ changed' = (generation # wake_generation)
        /\ wake_generation' = generation
        /\ UNCHANGED <<wake, signature, last_modes>>
     \/ /\ ~alive /\ wake # source
        /\ changed' = FALSE
        /\ UNCHANGED <<wake, wake_generation, signature, last_modes>>
  /\ pc' = "observe"
  /\ UNCHANGED <<session, hub, frames, clients, attaches, resizes>>

\* Background output is paced: the generation is read again after the pause.
Coalesce ==
  /\ pc = "observe" /\ changed /\ wake = source
  /\ generation # wake_generation /\ wake_generation' = generation
  /\ UNCHANGED <<session, hub, pc, signature, last_modes, wake, changed, frames,
                 clients, attaches, resizes>>

\* The terminal of the session that the pump follows is back at the cells or the
\* modes sent last, and the sink, seeded in between, has others.
Returned(c) ==
  /\ serve[c] # "idle" /\ wake = source
  /\ \/ /\ ~repainted[c] /\ (signature = Signature \/ last_cells = Cells)
        /\ [size |-> view[c].size, row |-> view[c].row] # Cells
     \/ last_modes = Modes[fed] /\ view[c].modes # Modes[fed]

\* grid_update_if_changed and modes, under one Registry lock; nothing when
\* the wait only timed out or the session is absent. (They lock the screen one
\* after the other. Output fed in between, whose modes are then sent ahead of its
\* row, is notified later, which makes the pump come round again.)
Observe ==
  /\ pc = "observe"
  /\ \/ /\ changed /\ alive
        /\ signature' = Signature /\ last_modes' = Modes[fed]
        /\ last_cells' = IF signature = Signature THEN last_cells ELSE Cells
        /\ frames' = [grid |-> IF signature = Signature THEN None ELSE GridUpdate,
                      modes |-> IF last_modes \in {None, Modes[fed]}
                                THEN None ELSE Modes[fed]]
     \/ /\ ~(changed /\ alive)
        /\ frames' = NoFrames
        /\ UNCHANGED <<signature, last_modes, last_cells>>
  /\ pc' = IF frames' = NoFrames THEN "check" ELSE "send"
  /\ changed' = FALSE
  /\ missed' = [c \in Clients |->
       \/ missed[c]
       \/ serve[c] = "seeded" /\ frames'.grid # None
       \/ changed /\ alive /\ Returned(c)]
  /\ UNCHANGED <<alive, source, fed, content_seq, size, unnotified, generation,
                 hub, wake, wake_generation, serve, seed, connected, view, repainted,
                 attaches, resizes>>

\* The frames go to every sink in the table; a failed write deregisters its
\* sink, though a write to a peer just gone may still succeed.
Send ==
  /\ pc = "send" /\ pc' = "check" /\ frames' = NoFrames
  /\ \E failed \in SUBSET {c \in sinks : ~connected[c]} : sinks' = sinks \ failed
  /\ view' = [c \in Clients |->
                IF c \in sinks THEN Paint(frames, view[c]) ELSE view[c]]
  /\ repainted' = [c \in Clients |->
       \/ repainted[c]
       \/ c \in sinks /\ frames.grid # None /\ frames.grid.row # None]
  /\ UNCHANGED <<session, pump_running, signature, last_modes, wake,
                 wake_generation, changed, serve, seed, connected, missed,
                 attaches, resizes>>

\* A mutant: the entry stays, with pump_running set.
EndPumpKeepsEntry ==
  /\ pc' = "off" /\ signature' = None /\ last_modes' = None
  /\ wake' = 0 /\ wake_generation' = 0
  /\ UNCHANGED pump_running

\* The entry is removed and the pump thread ends.
EndPump ==
  /\ pc' = "off" /\ signature' = None /\ last_modes' = None
  /\ wake' = 0 /\ wake_generation' = 0
  /\ pump_running' = FALSE

\* Without sinks the entry is removed and the pump ends, under the hub lock.
CheckEmpty ==
  /\ pc = "check"
  /\ \/ /\ sinks = {} /\ EndPump
     \/ /\ sinks # {} /\ pc' = "wait"
        /\ UNCHANGED <<pump_running, signature, last_modes, wake, wake_generation>>
  /\ UNCHANGED <<session, sinks, changed, frames, clients, attaches, resizes>>

-----------------------------------------------------------------------------
Next ==
  \/ Feed \/ Notify \/ Terminate \/ Respawn
  \/ Wait \/ Coalesce \/ Observe \/ Send \/ CheckEmpty
  \/ \E c \in Clients :
       Resize(c) \/ Seed(c) \/ Register(c) \/ Leave(c) \/ Deregister(c)

\* The threads run: the reader notifies after it fed, serve registers after
\* it seeded and notices the end of its stream, the pump goes round (its
\* wait is bounded). Output, clients and the session's end are the world's.
Fairness ==
  /\ WF_vars(Notify)
  /\ WF_vars(Wait) /\ WF_vars(Observe) /\ WF_vars(Send) /\ WF_vars(CheckEmpty)
  /\ \A c \in Clients : WF_vars(Register(c)) /\ WF_vars(Deregister(c))

Spec == Init /\ [][Next]_vars
FairSpec == Spec /\ Fairness

-----------------------------------------------------------------------------
(***************************************************************************)
(* Properties.                                                             *)
(***************************************************************************)
Rows == {Screen[n] : n \in 0..MaxOutput}
ModeSet == {Modes[n] : n \in 0..MaxOutput}
Signatures == {None} \cup ((0..MaxOutput) \X {1, 2} \X ModeSet)

\* Every variable stays in its type.
TypeOK ==
  /\ alive \in BOOLEAN /\ unnotified \in BOOLEAN /\ changed \in BOOLEAN
  /\ source \in 1..MaxRespawns + 1 /\ wake \in 0..source
  /\ fed \in 0..MaxOutput /\ content_seq \in 0..fed /\ size \in {1, 2}
  /\ generation \in 0..MaxOutput + MaxResizes
  /\ wake_generation \in 0..MaxOutput + MaxResizes
  /\ last_cells \in {None} \cup [size : {1, 2}, row : Rows]
  /\ sinks \subseteq Clients /\ pump_running \in BOOLEAN
  /\ pc \in {"off", "wait", "observe", "send", "check"}
  /\ signature \in Signatures /\ last_modes \in ModeSet \cup {None}
  /\ frames \in [grid : {None} \cup [size : {1, 2}, row : Rows \cup {None}],
                 modes : ModeSet \cup {None}]
  /\ serve \in [Clients -> {"idle", "seeded", "registered"}]
  /\ seed \in [Clients -> [signature : Signatures, modes : ModeSet \cup {None},
                           wake : 0..source,
                           generation : 0..MaxOutput + MaxResizes]]
  /\ connected \in [Clients -> BOOLEAN] /\ repainted \in [Clients -> BOOLEAN]
  /\ missed \in [Clients -> BOOLEAN]
  /\ view \in [Clients -> [size : {0, 1, 2}, row : Rows \cup {None},
                           modes : ModeSet \cup {None}]]
  /\ attaches \in 0..MaxAttaches /\ resizes \in 0..MaxResizes

\* The pump has seen everything and will send nothing until the next change.
Quiescent ==
  /\ alive /\ ~unnotified
  /\ pc = "wait" /\ wake = source /\ wake_generation = generation

GridIsCurrent(c) == view[c].size = size /\ view[c].row = Screen[fed]

Watching(c) == c \in sinks /\ connected[c]

\* pump: "One pump thread per session broadcasts to every sink attached to
\* it". A registered sink always has a pump, whatever the order in which
\* sinks came and went while the last pump was ending.
SinkIsServed == sinks # {} => pc # "off"

\* serve "seeds a fresh sink with a full grid snapshot" and "then streams
\* paced grid diffs", full_snapshot "does NOT disturb the diff baseline", and
\* "Fresh sinks get their initial modes at seed time; the pump only broadcasts
\* changes": whenever the pump is quiescent a sink has the terminal's grid and
\* modes, whatever other sinks were seeded, resized or left, unless a pump
\* moved on between its own seed and its registration, or found the terminal
\* back where it had left it before the seed; then it has the grid from the
\* first row that is broadcast. After the session was replaced this holds of
\* the grid only: the pump forgets the modes it sent last.
SinkIsCurrent ==
  Quiescent =>
    \A c \in Clients : Watching(c) =>
      /\ repainted[c] \/ ~missed[c] => GridIsCurrent(c)
      /\ ~missed[c] /\ source = 1 => view[c].modes = Modes[fed]

\* attachment_seed: "Sampling the generation on both sides closes the race
\* where output lands between the seed and pump registration." When the pump
\* is quiescent every sink shows what the terminal shows.
QuiescentGridIsCurrent ==
  Quiescent => \A c \in Clients : Watching(c) => GridIsCurrent(c)

\* Once output stops, every attached client ends up with the terminal's
\* grid and keeps it, however feed, notify, seed, register and the pump's
\* round interleaved.
SinksBecomeCurrent ==
  <>[](\A c \in Clients : alive /\ Watching(c) => GridIsCurrent(c))
=============================================================================

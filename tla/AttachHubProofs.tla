-------------------------- MODULE AttachHubProofs --------------------------
(***************************************************************************)
(* A registered sink always has a pump (attach.rs, register and the end of *)
(* pump), and when the pump rests it shows the terminal, for every number  *)
(* of clients, every output and any bound.                                 *)
(***************************************************************************)
EXTENDS AttachHub, TLAPS

\* The hub's entry says that a pump runs exactly when one does, and there
\* is no sink without it. Register tests the flag, not the thread, so
\* SinkIsServed alone is not inductive.
FlagInv ==
  /\ pump_running \in BOOLEAN
  /\ pump_running <=> pc # "off"
  /\ sinks # {} => pump_running

\* FlagInv holds before any client attaches.
LEMMA FlagInvInit == Init => FlagInv
BY DEF Init, FlagInv

\* Every step of a client, of the pump and of the session keeps FlagInv.
LEMMA FlagInvStep == FlagInv /\ [Next]_vars => FlagInv'
<1> SUFFICES ASSUME FlagInv, [Next]_vars PROVE FlagInv'
  OBVIOUS
<1>1. CASE Feed \/ Notify \/ Terminate \/ Respawn
  BY <1>1 DEF FlagInv, Feed, Notify, Terminate, Respawn, hub, pump
<1>2. CASE Wait
  BY <1>2 DEF FlagInv, Wait, hub
<1>3. CASE Coalesce
  BY <1>3 DEF FlagInv, Coalesce, hub
<1>4. CASE Observe
  BY <1>4 DEF FlagInv, Observe, hub
<1>5. CASE Send
  BY <1>5 DEF FlagInv, Send
<1>6. CASE CheckEmpty
  BY <1>6 DEF FlagInv, CheckEmpty, EndPump
<1>7. ASSUME NEW c \in Clients, Resize(c) \/ Seed(c) \/ Leave(c)
      PROVE  FlagInv'
  BY <1>7 DEF FlagInv, Resize, Seed, Leave, hub, pump
<1>8. ASSUME NEW c \in Clients, Register(c)
      PROVE  FlagInv'
  BY <1>8 DEF FlagInv, Register, StartPump, pump
<1>9. ASSUME NEW c \in Clients, Deregister(c)
      PROVE  FlagInv'
  BY <1>9 DEF FlagInv, Deregister, pump
<1>10. CASE UNCHANGED vars
  BY <1>10 DEF FlagInv, vars, hub, pump
<1> QED
  BY <1>1, <1>2, <1>3, <1>4, <1>5, <1>6, <1>7, <1>8, <1>9, <1>10 DEF Next

\* Whatever the order in which sinks register, leave and are dropped by a
\* failed write while the last pump is ending, no sink is left without one.
THEOREM SinksAreServed == Spec => []SinkIsServed
<1>1. FlagInv => SinkIsServed
  BY DEF FlagInv, SinkIsServed
<1> QED
  BY FlagInvInit, FlagInvStep, <1>1, PTL DEF Spec
-----------------------------------------------------------------------------
(***************************************************************************)
(* Sinks are current when the pump rests.                                  *)
(***************************************************************************)
\* What a sink shows once the frames that are on their way have been sent.
Shown(c) == IF pc = "send" /\ c \in sinks THEN Paint(frames, view[c]) ELSE view[c]

\* A row was sent, or is about to be.
RowIsSent == pc = "send" /\ frames.grid.row # None
Repainted(c) == c \in sinks /\ (repainted[c] \/ RowIsSent)

\* Who is in the table.
SinksInv ==
  /\ FlagInv
  /\ \A c \in Clients :
       /\ c \in sinks => serve[c] = "registered"
       /\ serve[c] = "seeded" => ~repainted[c]

\* A seed is a sample of the screen its client has; as long as the session is
\* the same and its content counter has not moved, it is the screen.
SeedOf(c) ==
  serve[c] = "seeded" =>
    /\ seed[c].signature # None /\ seed[c].wake # 0
    /\ seed[c].modes = seed[c].signature[3] /\ view[c].modes = seed[c].modes
    /\ view[c].size = seed[c].signature[2]
    /\ seed[c].wake = source =>
         /\ seed[c].signature[1] <= content_seq /\ seed[c].generation <= generation
         /\ seed[c].signature[1] = content_seq => view[c].row = Screen[fed]
         /\ alive /\ ~unnotified /\ seed[c].generation = generation =>
              seed[c].signature = Signature

\* The pump's signature and modes are of one observation. It has none only after
\* it turned to another session.
PumpInv ==
  pc # "off" =>
    /\ wake # 0 /\ (wake = source => wake_generation <= generation)
    /\ signature = None <=> last_modes = None
    /\ signature # None => last_modes = signature[3]
    /\ wake = 1 => signature # None

\* The frames on their way are of the last observation.
FramesInv ==
  pc = "send" =>
    /\ signature # None /\ frames.grid # None
    /\ frames.grid.size = signature[2] /\ frames.modes \in {None, signature[3]}
    /\ frames.grid.row # None /\ last_cells # None =>
         last_cells.size = frames.grid.size /\ last_cells.row = frames.grid.row

\* Once a row was sent the baseline is what the pump observed last, and what the
\* sinks have that were sent it.
Painted == RowIsSent \/ \E c \in sinks : repainted[c]
Baseline ==
  wake = source /\ signature # None =>
    /\ last_cells # None /\ last_cells.size = signature[2]
    /\ signature[1] <= content_seq
    /\ signature[1] = content_seq => last_cells.row = Screen[fed]
BaseInv ==
  /\ Painted => Baseline
  /\ \A c \in Clients : Repainted(c) /\ last_cells # None =>
       Shown(c).size = last_cells.size /\ Shown(c).row = last_cells.row

\* The pump has nothing to look at until the next notification.
Settled ==
  /\ alive /\ ~unnotified /\ pc # "off" /\ ~(pc = "observe" /\ changed)
  /\ wake = source /\ wake_generation = generation

\* Then it has seen the screen, and so have the sinks.
CurrentOf(c) ==
  /\ c \in sinks =>
       /\ Repainted(c) \/ ~missed[c] =>
            Shown(c).size = size /\ Shown(c).row = Screen[fed]
       /\ ~missed[c] /\ source = 1 => Shown(c).modes = Modes[fed]
  /\ serve[c] = "seeded" /\ ~missed[c] =>
       view[c].size = size /\ view[c].row = Screen[fed] /\ view[c].modes = Modes[fed]

CurrentInv == Settled => signature = Signature /\ \A c \in Clients : CurrentOf(c)

\* The parts of TypeOK that belong to the session, to the pump and to the clients.
\* The generation counts notifications: at most one for a chunk or a resize.
Triples == (0..MaxOutput) \X {1, 2} \X ModeSet
Grids == [size : {1, 2}, row : Rows \cup {None}]
Views == [size : {0, 1, 2}, row : Rows \cup {None}, modes : ModeSet \cup {None}]
Flags ==
  alive \in BOOLEAN /\ unnotified \in BOOLEAN /\ changed \in BOOLEAN /\ pump_running \in BOOLEAN
SessionType ==
  /\ source \in 1..MaxRespawns + 1
  /\ fed \in 0..MaxOutput /\ content_seq \in 0..fed /\ size \in {1, 2}
  /\ generation \in Nat /\ resizes \in 0..MaxResizes /\ generation <= fed + resizes
  /\ unnotified => generation < fed + resizes
  /\ last_cells \in {None} \cup [size : {1, 2}, row : Rows]
PumpType ==
  /\ sinks \subseteq Clients /\ pc \in {"off", "wait", "observe", "send", "check"}
  /\ wake \in 0..source /\ wake_generation \in 0..MaxOutput + MaxResizes
  /\ signature \in {None} \cup Triples /\ last_modes \in ModeSet \cup {None}
  /\ frames \in [grid : {None} \cup Grids, modes : ModeSet \cup {None}]
Seeds ==
  [signature : {None} \cup Triples, modes : ModeSet \cup {None}, wake : 0..source,
   generation : 0..MaxOutput + MaxResizes]
ClientType ==
  /\ serve \in [Clients -> {"idle", "seeded", "registered"}] /\ seed \in [Clients -> Seeds]
  /\ connected \in [Clients -> BOOLEAN] /\ repainted \in [Clients -> BOOLEAN]
  /\ missed \in [Clients -> BOOLEAN] /\ view \in [Clients -> Views]
  /\ attaches \in 0..MaxAttaches

TypeInv == Flags /\ SessionType /\ PumpType /\ ClientType

SinkInv ==
  /\ TypeInv /\ SinksInv /\ (\A c \in Clients : SeedOf(c))
  /\ PumpInv /\ FramesInv /\ BaseInv /\ CurrentInv

\* What is sampled of the screen is of its type, and never None.
LEMMA Samples ==
  ASSUME TypeOK
  PROVE  /\ Signature \in Triples /\ Signature # None
         /\ Signature[1] = content_seq /\ Signature[2] = size /\ Signature[3] = Modes[fed]
         /\ Cells \in [size : {1, 2}, row : Rows] /\ Cells # None
         /\ Cells.size = size /\ Cells.row = Screen[fed]
         /\ GridUpdate \in Grids /\ GridUpdate # None
         /\ GridUpdate.size = size /\ GridUpdate.row \in {None, Screen[fed]}
         /\ GridUpdate.row = None <=> last_cells = Cells
         /\ Screen[fed] \in Rows /\ Screen[fed] # None
         /\ Modes[fed] \in ModeSet /\ Modes[fed] # None
<1>1. fed \in 0..MaxOutput /\ content_seq \in 0..MaxOutput /\ size \in {1, 2}
  BY AttachHubAssumption DEF TypeOK
<1>2. Screen[fed] \in Rows /\ Screen[fed] # None /\ Modes[fed] \in ModeSet /\ Modes[fed] # None
  BY <1>1, AttachHubAssumption DEF Rows, ModeSet
<1>3. /\ Signature \in Triples
      /\ Signature[1] = content_seq /\ Signature[2] = size /\ Signature[3] = Modes[fed]
  BY <1>1, <1>2 DEF Signature, Triples
<1>4. Cells \in [size : {1, 2}, row : Rows] /\ Cells.size = size /\ Cells.row = Screen[fed]
  BY <1>1, <1>2 DEF Cells
<1>5. /\ GridUpdate \in Grids
      /\ GridUpdate.size = size /\ GridUpdate.row \in {None, Screen[fed]}
      /\ GridUpdate.row = None <=> last_cells = Cells
  BY <1>1, <1>2 DEF GridUpdate, Grids
<1>6. None \notin Triples /\ None \notin Grids
  BY AttachHubAssumption DEF Triples, Grids, ModeSet, Rows
<1>7. [size : {1, 2}, row : Rows] \subseteq Grids
  BY DEF Grids
<1> QED BY <1>2, <1>3, <1>4, <1>5, <1>6, <1>7

\* Applying frames to a view gives a view.
LEMMA Painting ==
  ASSUME NEW f \in [grid : {None} \cup Grids, modes : ModeSet \cup {None}],
         NEW v \in Views
  PROVE  /\ Paint(f, v) \in Views
         /\ f.grid = None => Paint(f, v).size = v.size /\ Paint(f, v).row = v.row
         /\ f.grid # None => Paint(f, v).size = f.grid.size
         /\ f.grid # None /\ f.grid.row # None => Paint(f, v).row = f.grid.row
         /\ f.grid # None /\ f.grid.row = None /\ f.grid.size = v.size => Paint(f, v).row = v.row
         /\ f.modes = None => Paint(f, v).modes = v.modes
         /\ f.modes # None => Paint(f, v).modes = f.modes
<1>1. ASSUME f.grid # None
      PROVE  /\ Apply(f.grid, v) \in Views
             /\ Apply(f.grid, v).size = f.grid.size /\ Apply(f.grid, v).modes = v.modes
             /\ f.grid.row # None => Apply(f.grid, v).row = f.grid.row
             /\ f.grid.row = None /\ f.grid.size = v.size => Apply(f.grid, v).row = v.row
  <2>1. f.grid \in Grids
    BY <1>1
  <2>2. f.grid.size \in {1, 2} /\ f.grid.row \in Rows \cup {None}
    BY <2>1 DEF Grids
  <2>3. CASE f.grid.row # None
    BY <2>2, <2>3 DEF Apply, Views
  <2>4. CASE f.grid.row = None /\ f.grid.size = v.size
    BY <2>2, <2>4 DEF Apply, Views
  <2>5. CASE f.grid.row = None /\ f.grid.size # v.size
    BY <2>2, <2>5 DEF Apply, Views
  <2> QED BY <2>3, <2>4, <2>5
<1>2. PICK p \in Views : p = IF f.grid = None THEN v ELSE Apply(f.grid, v)
  BY <1>1
<1>3. Paint(f, v) = IF f.modes = None THEN p ELSE [p EXCEPT !.modes = f.modes]
  BY <1>2 DEF Paint
<1>4. /\ Paint(f, v) \in Views /\ Paint(f, v).size = p.size /\ Paint(f, v).row = p.row
      /\ Paint(f, v).modes = IF f.modes = None THEN p.modes ELSE f.modes
  BY <1>3 DEF Views
<1>5. f.grid = None => p = v
  BY <1>2
<1>6. f.grid # None => p = Apply(f.grid, v)
  BY <1>2
<1> QED BY <1>1, <1>4, <1>5, <1>6

\* The parts make up TypeOK.
LEMMA TypeParts == TypeInv => TypeOK
<1> SUFFICES ASSUME TypeInv PROVE TypeOK
  OBVIOUS
<1>1. generation \in 0..MaxOutput + MaxResizes
  BY AttachHubAssumption DEF TypeInv, SessionType
<1> QED BY <1>1 DEF TypeInv, TypeOK, Flags, SessionType, PumpType, ClientType, Seeds, Signatures,
                    Triples, Grids, Views

\* The types hold before any client attaches.
LEMMA TypeInit == Init => TypeInv
<1> SUFFICES ASSUME Init PROVE TypeInv
  OBVIOUS
<1>0. Flags
  BY DEF Init, Flags
<1>1. SessionType
  BY AttachHubAssumption DEF Init, SessionType
<1>2. PumpType
  BY AttachHubAssumption DEF Init, PumpType, NoFrames
<1>3. NoSeed \in Seeds /\ Blank \in Views
  BY AttachHubAssumption DEF Init, NoSeed, Seeds, Blank, Views
<1>4. ClientType
  BY <1>3, AttachHubAssumption DEF Init, ClientType
<1> QED BY <1>0, <1>1, <1>2, <1>4 DEF TypeInv

\* Every step keeps the types.
LEMMA TypeStep == ASSUME TypeInv, [Next]_vars PROVE TypeInv'
<1>0. Flags'
  <2>1. Flags
    BY DEF TypeInv
  <2>2. CASE Feed \/ Notify \/ Terminate \/ Respawn \/ Wait
    BY <2>1, <2>2 DEF Flags, Feed, Notify, Terminate, Respawn, Wait, session, hub, pump
  <2>3. CASE Coalesce \/ Observe \/ Send \/ CheckEmpty \/ UNCHANGED vars
    BY <2>1, <2>3 DEF Flags, Coalesce, Observe, Send, CheckEmpty, EndPump, vars, session, hub, pump
  <2>4. ASSUME NEW c \in Clients,
               Resize(c) \/ Seed(c) \/ Register(c) \/ Leave(c) \/ Deregister(c)
        PROVE  Flags'
    BY <2>1, <2>4 DEF Flags, Resize, Seed, Register, StartPump, Leave, Deregister, session, hub, pump
  <2> QED BY <2>2, <2>3, <2>4 DEF Next
<1>1. SessionType /\ PumpType /\ ClientType /\ TypeOK
  BY TypeParts DEF TypeInv
<1>2. /\ Signature \in Triples /\ Cells \in [size : {1, 2}, row : Rows] /\ GridUpdate \in Grids
      /\ Screen[fed] \in Rows /\ Modes[fed] \in ModeSet
  BY <1>1, Samples
<1>3. generation \in 0..MaxOutput + MaxResizes
  BY <1>1, AttachHubAssumption DEF SessionType
<1>30. /\ source \in Nat /\ source >= 1 /\ source <= MaxRespawns + 1
       /\ fed \in Nat /\ content_seq \in Nat /\ content_seq <= fed
       /\ generation \in Nat /\ resizes \in Nat /\ generation <= fed + resizes
  BY <1>1, AttachHubAssumption DEF SessionType
<1>31. MaxOutput \in Nat /\ MaxResizes \in Nat /\ MaxRespawns \in Nat
  BY AttachHubAssumption
<1>4. ASSUME UNCHANGED session, UNCHANGED resizes PROVE SessionType'
  BY <1>1, <1>4 DEF SessionType, session
<1>5. ASSUME UNCHANGED <<hub, pump>>, source' >= source, source' \in Nat PROVE PumpType'
  BY <1>1, <1>5 DEF PumpType, hub, pump, SessionType
<1>6. ASSUME UNCHANGED <<clients, attaches>>, source' >= source, source' \in Nat PROVE ClientType'
  <2>1. Seeds \subseteq Seeds'
    BY <1>1, <1>6 DEF Seeds, SessionType
  <2> QED BY <1>1, <1>6, <2>1 DEF ClientType, clients
<1>7. CASE Feed
  <2>1. SessionType'
    <3>1. /\ fed' = fed + 1 /\ fed < MaxOutput /\ content_seq' \in {content_seq, content_seq + 1}
          /\ UNCHANGED <<source, size, last_cells, generation, resizes>>
      BY <1>7 DEF Feed
    <3>2. fed' \in 0..MaxOutput /\ content_seq' \in 0..fed' /\ generation' < fed' + resizes'
      BY <1>30, <1>31, <3>1
    <3> QED BY <1>1, <3>1, <3>2 DEF SessionType
  <2> QED BY <1>1, <1>5, <1>6, <1>7, <2>1, <1>0 DEF TypeInv, Feed, SessionType
<1>8. CASE Notify
  <2>1. SessionType'
    BY <1>1, <1>8 DEF Notify, SessionType
  <2> QED BY <1>1, <1>5, <1>6, <1>8, <2>1, <1>0 DEF TypeInv, Notify, SessionType
<1>9. CASE Terminate \/ Respawn
  <2>1. SessionType'
    <3>1. CASE Terminate
      BY <1>1, <3>1 DEF Terminate, SessionType
    <3>2. CASE Respawn
      <4>1. /\ source' = source + 1 /\ source <= MaxRespawns /\ fed' = 0 /\ content_seq' = 0
            /\ size' = 1 /\ last_cells' = None /\ generation' = 0
            /\ unnotified' = FALSE /\ resizes' = resizes
        BY <3>2 DEF Respawn
      <4>2. source' \in 1..MaxRespawns + 1 /\ fed' \in 0..MaxOutput /\ content_seq' \in 0..fed'
        BY <1>30, <1>31, <4>1
      <4>3. generation' \in Nat /\ generation' <= fed' + resizes'
        BY <1>30, <4>1
      <4> QED BY <1>1, <4>1, <4>2, <4>3 DEF SessionType
    <3> QED BY <1>9, <3>1, <3>2
  <2>2. /\ source' >= source /\ source' \in Nat
        /\ UNCHANGED <<hub, pump>> /\ UNCHANGED <<clients, attaches>>
    <3>1. CASE Terminate
      BY <1>30, <3>1 DEF Terminate
    <3>2. CASE Respawn
      BY <1>30, <3>2 DEF Respawn
    <3> QED BY <1>9, <3>1, <3>2
  <2> QED BY <1>0, <1>5, <1>6, <2>1, <2>2 DEF TypeInv
<1>10. CASE Wait
  <2>1. PumpType'
    BY <1>1, <1>3, <1>10 DEF Wait, PumpType, SessionType, session, hub
  <2> QED BY <1>1, <1>4, <1>6, <1>10, <2>1, <1>0 DEF TypeInv, Wait, SessionType, session
<1>11. CASE Coalesce
  <2>1. PumpType'
    BY <1>1, <1>3, <1>11 DEF Coalesce, PumpType, SessionType, session, hub
  <2> QED BY <1>1, <1>4, <1>6, <1>11, <2>1, <1>0 DEF TypeInv, Coalesce, SessionType, session
<1>12. CASE Observe
  <2>1. SessionType'
    BY <1>1, <1>2, <1>12 DEF Observe, SessionType
  <2>2. frames' \in [grid : {None} \cup Grids, modes : ModeSet \cup {None}]
    BY <1>2, <1>12 DEF Observe, NoFrames
  <2>3. PumpType'
    BY <1>1, <1>2, <1>12, <2>2 DEF Observe, PumpType, hub
  <2>4. missed' \in [Clients -> BOOLEAN]
    BY <1>12 DEF Observe
  <2>5. ClientType'
    BY <1>1, <1>12, <2>4 DEF Observe, ClientType, Seeds
  <2> QED BY <2>1, <2>3, <2>5, <1>0 DEF TypeInv
<1>13. CASE Send
  <2>1. PumpType'
    BY <1>1, <1>13 DEF Send, PumpType, session, NoFrames
  <2>2. \A c \in Clients : Paint(frames, view[c]) \in Views
    BY <1>1, Painting DEF PumpType, ClientType
  <2>3. view' \in [Clients -> Views] /\ repainted' \in [Clients -> BOOLEAN]
    BY <1>1, <1>13, <2>2 DEF Send, ClientType
  <2>4. ClientType'
    BY <1>1, <1>13, <2>3 DEF Send, ClientType, session, Seeds
  <2> QED BY <1>4, <1>13, <2>1, <2>4, <1>0 DEF TypeInv, Send
<1>14. CASE CheckEmpty
  <2>1. PumpType'
    <3>1. CASE EndPump
      <4>1. /\ pc' = "off" /\ signature' = None /\ last_modes' = None /\ wake' = 0
            /\ wake_generation' = 0 /\ UNCHANGED <<source, frames, sinks>>
        BY <1>14, <3>1 DEF CheckEmpty, EndPump, session
      <4>2. wake' \in 0..source' /\ wake_generation' \in 0..MaxOutput + MaxResizes
        BY <1>30, <1>31, <4>1
      <4> QED BY <1>1, <4>1, <4>2 DEF PumpType
    <3>2. CASE pc' = "wait" /\ UNCHANGED <<signature, last_modes, wake, wake_generation>>
      BY <1>1, <1>14, <3>2 DEF CheckEmpty, PumpType, session
    <3> QED BY <1>14, <3>1, <3>2 DEF CheckEmpty
  <2> QED BY <1>1, <1>4, <1>6, <1>14, <2>1, <1>0 DEF TypeInv, CheckEmpty, SessionType, session
<1>15. ASSUME NEW c \in Clients, Resize(c) PROVE TypeInv'
  <2>1. SessionType'
    <3>1. /\ size' = 3 - size /\ generation' = generation + 1
          /\ resizes < MaxResizes /\ resizes' = resizes + 1
          /\ UNCHANGED <<source, fed, content_seq, last_cells>> /\ unnotified' = unnotified
      BY <1>15 DEF Resize
    <3>2. /\ generation' \in Nat /\ resizes' \in 0..MaxResizes /\ generation' <= fed + resizes'
      BY <1>30, <1>31, <3>1
    <3>4. size' \in {1, 2}
      BY <1>1, <3>1 DEF SessionType
    <3>3. generation < fed + resizes => generation' < fed + resizes'
      BY <1>30, <3>1
    <3> QED BY <1>1, <3>1, <3>2, <3>3, <3>4 DEF SessionType
  <2> QED BY <1>1, <1>5, <1>6, <1>15, <2>1, <1>0 DEF TypeInv, Resize, SessionType
<1>16. ASSUME NEW c \in Clients, Seed(c) PROVE TypeInv'
  <2>1. AttachmentSeed \in Seeds
    BY <1>1, <1>2, <1>3 DEF AttachmentSeed, Seeds, SessionType
  <2>2. [size |-> size, row |-> Screen[fed], modes |-> Modes[fed]] \in Views
    BY <1>1, <1>2 DEF Views, SessionType
  <2>3. seed' \in [Clients -> Seeds] /\ view' \in [Clients -> Views] /\ UNCHANGED source
    BY <1>1, <1>16, <2>1, <2>2 DEF Seed, ClientType, session
  <2>4. ClientType'
    <3>1. /\ serve' = [serve EXCEPT ![c] = "seeded"] /\ connected' = [connected EXCEPT ![c] = TRUE]
          /\ repainted' = [repainted EXCEPT ![c] = FALSE] /\ missed' = [missed EXCEPT ![c] = FALSE]
          /\ attaches < MaxAttaches /\ attaches' = attaches + 1
      BY <1>16 DEF Seed
    <3>2. attaches' \in 0..MaxAttaches
      BY <1>1, <3>1, AttachHubAssumption DEF ClientType
    <3>3. Seeds' = Seeds
      BY <2>3 DEF Seeds
    <3> QED BY <1>1, <2>3, <3>1, <3>2, <3>3 DEF ClientType
  <2> QED BY <1>1, <1>4, <1>5, <1>16, <2>4, <1>0 DEF TypeInv, Seed, SessionType, session
<1>17. ASSUME NEW c \in Clients, Register(c) PROVE TypeInv'
  <2>1. NoSeed \in Seeds /\ seed[c] \in Seeds /\ UNCHANGED source
    <3>1. 0 \in 0..source /\ 0 \in 0..MaxOutput + MaxResizes
      BY <1>30, <1>31
    <3>2. NoSeed \in Seeds
      BY <3>1 DEF NoSeed, Seeds
    <3>3. seed[c] \in Seeds
      BY <1>1 DEF ClientType
    <3> QED BY <1>17, <3>2, <3>3 DEF Register, session
  <2>2. PumpType'
    <3>1. CASE UNCHANGED pump
      BY <1>1, <1>17, <2>1, <3>1 DEF Register, PumpType, pump
    <3>2. CASE StartPump(seed[c])
      BY <1>1, <1>17, <2>1, <3>2 DEF Register, StartPump, PumpType, Seeds, NoFrames
    <3> QED BY <1>17, <3>1, <3>2 DEF Register
  <2>3. seed' \in [Clients -> Seeds] /\ missed' \in [Clients -> BOOLEAN]
    BY <1>1, <1>17, <2>1 DEF Register, ClientType
  <2>4. ClientType'
    BY <1>1, <1>17, <2>1, <2>3 DEF Register, ClientType, Seeds
  <2> QED BY <1>4, <1>17, <2>2, <2>4, <1>0 DEF TypeInv, Register
<1>18. ASSUME NEW c \in Clients, Leave(c) \/ Deregister(c) PROVE TypeInv'
  <2>1. Blank \in Views
    BY DEF Blank, Views
  <2>2. PumpType'
    BY <1>1, <1>18 DEF Leave, Deregister, PumpType, hub, pump, session
  <2>3. ClientType'
    <3>1. Seeds' = Seeds
      BY <1>18 DEF Leave, Deregister, Seeds, session
    <3>2. CASE Leave(c)
      BY <1>1, <3>1, <3>2 DEF Leave, ClientType
    <3>3. CASE Deregister(c)
      BY <1>1, <2>1, <3>1, <3>3 DEF Deregister, ClientType
    <3> QED BY <1>18, <3>2, <3>3
  <2> QED BY <1>4, <1>18, <2>2, <2>3, <1>0 DEF TypeInv, Leave, Deregister
<1>19. CASE UNCHANGED vars
  BY <1>1, <1>4, <1>5, <1>6, <1>19, <1>0 DEF TypeInv, vars, SessionType, session
<1> QED
  BY <1>7, <1>8, <1>9, <1>10, <1>11, <1>12, <1>13, <1>14, <1>15, <1>16, <1>17, <1>18, <1>19 DEF Next

\* Only Register adds a sink, and only a seeded client registers.
LEMMA SinksStep == ASSUME SinkInv, [Next]_vars PROVE SinksInv'
<1>1. FlagInv /\ TypeInv
  BY DEF SinkInv, SinksInv
<1>2. FlagInv'
  BY <1>1, FlagInvStep
<1>3. \A c \in Clients :
        (c \in sinks => serve[c] = "registered") /\ (serve[c] = "seeded" => ~repainted[c])
  BY DEF SinkInv, SinksInv
<1>4. /\ serve \in [Clients -> {"idle", "seeded", "registered"}] /\ sinks \subseteq Clients
      /\ repainted \in [Clients -> BOOLEAN]
  BY <1>1 DEF TypeInv, ClientType, PumpType
<1>5. ASSUME UNCHANGED <<sinks, serve, repainted>> PROVE SinksInv'
  BY <1>2, <1>3, <1>5 DEF SinksInv
<1>6. CASE Feed \/ Notify \/ Terminate \/ Respawn \/ Wait \/ Coalesce
  BY <1>5, <1>6 DEF Feed, Notify, Terminate, Respawn, Wait, Coalesce, hub, clients
<1>7. CASE Observe \/ CheckEmpty \/ UNCHANGED vars
  BY <1>5, <1>7 DEF Observe, CheckEmpty, vars, hub, clients
<1>8. CASE Send
  <2>1. UNCHANGED serve /\ sinks' \subseteq sinks
    BY <1>8 DEF Send
  <2>2. \A c \in Clients : repainted'[c] => repainted[c] \/ c \in sinks
    BY <1>8 DEF Send
  <2> QED BY <1>2, <1>3, <2>1, <2>2 DEF SinksInv
<1>9. ASSUME NEW c \in Clients, Resize(c) \/ Leave(c) PROVE SinksInv'
  BY <1>5, <1>9 DEF Resize, Leave, hub, clients
<1>10. ASSUME NEW c \in Clients, Seed(c) PROVE SinksInv'
  <2>1. UNCHANGED sinks /\ serve[c] = "idle"
    BY <1>10 DEF Seed, hub
  <2>2. \A d \in Clients : serve'[d] = IF d = c THEN "seeded" ELSE serve[d]
    BY <1>4, <1>10 DEF Seed
  <2>3. \A d \in Clients : repainted'[d] = IF d = c THEN FALSE ELSE repainted[d]
    BY <1>4, <1>10 DEF Seed
  <2> QED BY <1>2, <1>3, <2>1, <2>2, <2>3 DEF SinksInv
<1>11. ASSUME NEW c \in Clients, Register(c) PROVE SinksInv'
  <2>1. sinks' = sinks \cup {c} /\ UNCHANGED repainted
    BY <1>11 DEF Register
  <2>2. \A d \in Clients : serve'[d] = IF d = c THEN "registered" ELSE serve[d]
    BY <1>4, <1>11 DEF Register
  <2> QED BY <1>2, <1>3, <2>1, <2>2 DEF SinksInv
<1>12. ASSUME NEW c \in Clients, Deregister(c) PROVE SinksInv'
  <2>1. sinks' = sinks \ {c}
    BY <1>12 DEF Deregister
  <2>2. \A d \in Clients : serve'[d] = IF d = c THEN "idle" ELSE serve[d]
    BY <1>4, <1>12 DEF Deregister
  <2>3. \A d \in Clients \ {c} : repainted'[d] = repainted[d]
    BY <1>4, <1>12 DEF Deregister
  <2> QED BY <1>2, <1>3, <2>1, <2>2, <2>3 DEF SinksInv
<1> QED BY <1>6, <1>7, <1>8, <1>9, <1>10, <1>11, <1>12 DEF Next

\* A seed stays a sample of its session: the counters only move up, and a
\* resize or a chunk moves one of them.
LEMMA SeedStep == ASSUME SinkInv, [Next]_vars PROVE \A c \in Clients : SeedOf(c)'
<1> SUFFICES ASSUME NEW d \in Clients, serve'[d] = "seeded" PROVE SeedOf(d)'
  BY DEF SeedOf
<1>1. /\ TypeInv /\ SinksInv /\ SeedOf(d)
      /\ Flags /\ SessionType /\ ClientType /\ TypeOK
  BY TypeParts DEF SinkInv, TypeInv
<1>2. /\ seed[d].wake \in 0..source /\ seed[d].generation \in Nat
      /\ seed[d].signature \in {None} \cup Triples
  <2>1. seed[d] \in Seeds /\ MaxOutput + MaxResizes \in Nat
    BY <1>1, AttachHubAssumption DEF ClientType
  <2> QED BY <2>1 DEF Seeds
<1>3. ASSUME serve[d] = "seeded",
             UNCHANGED <<alive, source, fed, content_seq, size, unnotified, generation>>,
             seed'[d] = seed[d], view'[d] = view[d]
      PROVE  SeedOf(d)'
  <2>1. Signature' = Signature
    BY <1>3 DEF Signature
  <2> QED BY <1>1, <1>3, <2>1 DEF SeedOf
<1>4. CASE Wait \/ Coalesce \/ CheckEmpty \/ Observe \/ UNCHANGED vars
  BY <1>3, <1>4 DEF Wait, Coalesce, CheckEmpty, Observe, vars, session, clients
<1>5. CASE Send
  <2>1. serve[d] = "seeded" /\ d \notin sinks
    BY <1>1, <1>5 DEF Send, SinksInv
  <2>2. view'[d] = view[d]
    BY <1>5, <2>1 DEF Send
  <2> QED BY <1>3, <1>5, <2>1, <2>2 DEF Send, session
<1>6. ASSUME NEW c \in Clients, Register(c) \/ Leave(c) \/ Deregister(c) PROVE SeedOf(d)'
  <2>1. serve[d] = "seeded" /\ (Register(c) \/ Deregister(c) => d # c)
    BY <1>1, <1>6 DEF Register, Leave, Deregister, ClientType
  <2>2. seed'[d] = seed[d] /\ view'[d] = view[d]
    BY <1>1, <1>6, <2>1 DEF Register, Leave, Deregister, ClientType
  <2> QED BY <1>3, <1>6, <2>1, <2>2 DEF Register, Leave, Deregister, session
<1>7. ASSUME serve[d] = "seeded", UNCHANGED <<seed, view>>, source' # seed[d].wake
      PROVE  SeedOf(d)'
  BY <1>1, <1>7 DEF SeedOf
<1>8. CASE Respawn
  BY <1>1, <1>2, <1>7, <1>8 DEF Respawn, clients, SessionType
<1>9. ASSUME serve[d] = "seeded", UNCHANGED <<seed, view, source>>, seed[d].wake = source,
             content_seq' >= content_seq, content_seq' \in Nat, generation' >= generation,
             generation' \in Nat,
             content_seq' = content_seq => Screen[fed'] = Screen[fed],
             ~alive' \/ unnotified' \/ generation' > generation
      PROVE  SeedOf(d)'
  <2>1. /\ seed[d].signature # None /\ seed[d].wake # 0
        /\ seed[d].modes = seed[d].signature[3] /\ view[d].modes = seed[d].modes
        /\ view[d].size = seed[d].signature[2]
        /\ seed[d].signature[1] <= content_seq /\ seed[d].generation <= generation
        /\ seed[d].signature[1] = content_seq => view[d].row = Screen[fed]
    BY <1>1, <1>9 DEF SeedOf
  <2>2. seed[d].signature[1] \in Nat /\ content_seq \in Nat /\ generation \in Nat
    BY <1>1, <1>2, <2>1, AttachHubAssumption DEF Triples, SessionType
  <2>3. /\ seed[d].signature[1] <= content_seq' /\ seed[d].generation <= generation'
        /\ seed[d].signature[1] = content_seq' => view[d].row = Screen[fed']
    BY <1>2, <1>9, <2>1, <2>2
  <2>4. ~(alive' /\ ~unnotified' /\ seed[d].generation = generation')
    BY <1>2, <1>9, <2>1, <2>2
  <2> QED BY <1>9, <2>1, <2>3, <2>4 DEF SeedOf
<1>10. CASE Feed \/ Notify \/ Terminate
  <2>1. serve[d] = "seeded" /\ UNCHANGED <<seed, view, source>>
    BY <1>10 DEF Feed, Notify, Terminate, clients
  <2>2. CASE seed[d].wake # source
    BY <1>7, <2>1, <2>2
  <2>3. content_seq \in Nat /\ generation \in Nat
    BY <1>1 DEF SessionType
  <2>4. CASE seed[d].wake = source /\ Feed
    <3>1. unnotified' /\ fed' = fed + 1 /\ UNCHANGED generation
      BY <2>4 DEF Feed
    <3>2. /\ content_seq' \in {content_seq, content_seq + 1}
          /\ content_seq' = content_seq => Screen[fed'] = Screen[fed]
      BY <2>3, <2>4 DEF Feed
    <3> QED BY <1>9, <2>1, <2>3, <2>4, <3>1, <3>2
  <2>5. CASE seed[d].wake = source /\ Notify
    <3>1. generation' = generation + 1 /\ UNCHANGED <<content_seq, fed>>
      BY <2>5 DEF Notify
    <3> QED BY <1>9, <2>1, <2>3, <2>5, <3>1
  <2>6. CASE seed[d].wake = source /\ Terminate
    <3>1. ~alive' /\ UNCHANGED <<content_seq, fed, generation>>
      BY <2>6 DEF Terminate
    <3> QED BY <1>9, <2>1, <2>3, <2>6, <3>1
  <2> QED BY <1>10, <2>2, <2>4, <2>5, <2>6
<1>11. ASSUME NEW c \in Clients, Resize(c) PROVE SeedOf(d)'
  <2>1. /\ serve[d] = "seeded" /\ UNCHANGED <<seed, view, source, content_seq, fed>>
        /\ generation' = generation + 1
    BY <1>11 DEF Resize, clients
  <2>2. content_seq \in Nat /\ generation \in Nat
    BY <1>1 DEF SessionType
  <2> QED BY <1>7, <1>9, <2>1, <2>2
<1>12. ASSUME NEW c \in Clients, Seed(c) PROVE SeedOf(d)'
  <2>1. CASE d # c
    BY <1>1, <1>3, <1>12, <2>1 DEF Seed, ClientType, session
  <2>2. CASE d = c
    <3>1. seed'[d] = AttachmentSeed /\ UNCHANGED session
      BY <1>1, <1>12, <2>2 DEF Seed, ClientType
    <3>2. view'[d] = [size |-> size, row |-> Screen[fed], modes |-> Modes[fed]]
      BY <1>1, <1>12, <2>2 DEF Seed, ClientType
    <3>3. /\ seed'[d].signature = Signature /\ seed'[d].modes = Modes[fed]
          /\ seed'[d].wake = source /\ seed'[d].generation = generation
      BY <3>1 DEF AttachmentSeed
    <3>4. Signature' = Signature
      BY <3>1 DEF Signature, session
    <3>5. /\ Signature # None /\ source # 0 /\ content_seq \in Nat /\ generation \in Nat
          /\ Signature[1] = content_seq /\ Signature[2] = size /\ Signature[3] = Modes[fed]
      BY <1>1, Samples DEF SessionType
    <3> QED BY <3>1, <3>2, <3>3, <3>4, <3>5 DEF SeedOf, session
  <2> QED BY <2>1, <2>2
<1> QED BY <1>4, <1>5, <1>6, <1>8, <1>10, <1>11, <1>12 DEF Next

\* Only Wait, Observe and a new pump's start change what the pump remembers.
LEMMA PumpStep == ASSUME SinkInv, [Next]_vars PROVE PumpInv'
<1> SUFFICES ASSUME pc' # "off" PROVE PumpInv'
  BY DEF PumpInv
<1>1. /\ TypeInv /\ FlagInv /\ PumpInv /\ Flags /\ SessionType /\ PumpType /\ ClientType /\ TypeOK
      /\ \A c \in Clients : SeedOf(c)
  BY TypeParts DEF SinkInv, TypeInv, SinksInv
<1>2. source \in Nat /\ wake \in 0..source /\ generation \in Nat /\ wake_generation \in Nat
  BY <1>1, AttachHubAssumption DEF SessionType, PumpType
<1>3. ASSUME UNCHANGED <<pc, wake, wake_generation, signature, last_modes>>,
             \/ source' = source /\ generation' \in Nat /\ generation' >= generation
             \/ source' = source + 1
      PROVE  PumpInv'
  BY <1>1, <1>2, <1>3 DEF PumpInv
<1>4. CASE Feed \/ Notify \/ Terminate \/ Respawn
  BY <1>2, <1>3, <1>4 DEF Feed, Notify, Terminate, Respawn, pump
<1>5. CASE Wait
  BY <1>1, <1>2, <1>5 DEF Wait, PumpInv, session
<1>6. CASE Coalesce
  BY <1>1, <1>2, <1>6 DEF Coalesce, PumpInv, session
<1>7. CASE Observe
  <2>1. pc # "off" /\ UNCHANGED <<wake, wake_generation, source, generation>>
    BY <1>7 DEF Observe
  <2>2. CASE signature' = Signature /\ last_modes' = Modes[fed]
    BY <1>1, <2>1, <2>2, Samples DEF PumpInv
  <2>3. CASE UNCHANGED <<signature, last_modes>>
    BY <1>1, <2>1, <2>3 DEF PumpInv
  <2> QED BY <1>7, <2>2, <2>3 DEF Observe
<1>8. CASE Send \/ CheckEmpty
  <2>1. pc # "off" /\ UNCHANGED <<wake, wake_generation, source, generation, signature, last_modes>>
    BY <1>8 DEF Send, CheckEmpty, EndPump, session
  <2> QED BY <1>1, <2>1 DEF PumpInv
<1>9. ASSUME NEW c \in Clients, Resize(c) \/ Seed(c) \/ Leave(c) \/ Deregister(c) PROVE PumpInv'
  BY <1>2, <1>3, <1>9 DEF Resize, Seed, Leave, Deregister, pump, session
<1>10. ASSUME NEW c \in Clients, Register(c) PROVE PumpInv'
  <2>1. CASE UNCHANGED pump
    BY <1>2, <1>3, <1>10, <2>1 DEF Register, pump, session
  <2>2. CASE StartPump(seed[c])
    <3>1. /\ signature' = seed[c].signature /\ last_modes' = seed[c].modes /\ wake' = seed[c].wake
          /\ wake_generation' = seed[c].generation /\ UNCHANGED <<source, generation>>
      BY <1>10, <2>2 DEF Register, StartPump, session
    <3>2. SeedOf(c) /\ serve[c] = "seeded" /\ seed[c].signature \in {None} \cup Triples
      BY <1>1, <1>10 DEF Register, ClientType, Seeds
    <3>3. \A t \in Triples : t[3] # None
      BY AttachHubAssumption DEF Triples, ModeSet
    <3>4. /\ seed[c].signature # None /\ seed[c].wake # 0 /\ seed[c].modes = seed[c].signature[3]
          /\ seed[c].wake = source => seed[c].generation <= generation
      BY <3>2 DEF SeedOf
    <3>5. seed[c].modes # None
      BY <3>2, <3>3, <3>4
    <3> QED BY <3>1, <3>4, <3>5 DEF PumpInv
  <2> QED BY <1>10, <2>1, <2>2 DEF Register
<1>11. CASE UNCHANGED vars
  BY <1>2, <1>3, <1>11 DEF vars, pump, session
<1> QED BY <1>4, <1>5, <1>6, <1>7, <1>8, <1>9, <1>10, <1>11 DEF Next

\* What an observation sends.
LEMMA Observing ==
  ASSUME SinkInv, Observe, changed, alive
  PROVE  /\ signature' = Signature /\ last_modes' = Modes[fed]
         /\ frames'.grid = (IF signature = Signature THEN None ELSE GridUpdate)
         /\ frames'.modes \in {None, Modes[fed]}
         /\ last_modes # None /\ last_modes # Modes[fed] => frames'.modes = Modes[fed]
         /\ pc' \in {"send", "check"} /\ (pc' = "send" <=> frames'.grid # None)
         /\ signature = Signature => last_cells' = last_cells /\ frames'.modes = None
         /\ signature # Signature => last_cells' = Cells
<1>1. PumpInv /\ TypeOK /\ pc = "observe"
  BY TypeParts DEF SinkInv, Observe
<1>2. /\ signature' = Signature /\ last_modes' = Modes[fed]
      /\ last_cells' = (IF signature = Signature THEN last_cells ELSE Cells)
      /\ frames' = [grid |-> IF signature = Signature THEN None ELSE GridUpdate,
                    modes |-> IF last_modes \in {None, Modes[fed]} THEN None ELSE Modes[fed]]
      /\ pc' = IF frames' = NoFrames THEN "check" ELSE "send"
  BY DEF Observe
<1>3. signature = Signature => last_modes = Modes[fed]
  BY <1>1, Samples DEF PumpInv
<1>4. GridUpdate # None
  BY <1>1, Samples
<1>5. frames'.grid = None <=> frames' = NoFrames
  BY <1>2, <1>3, <1>4 DEF NoFrames
<1> QED BY <1>2, <1>3, <1>5

\* Only Observe makes frames, and Send is the next step of the pump.
LEMMA FramesStep == ASSUME SinkInv, [Next]_vars PROVE FramesInv'
<1> SUFFICES ASSUME pc' = "send" PROVE FramesInv'
  BY DEF FramesInv
<1>1. TypeInv /\ FlagInv /\ FramesInv /\ TypeOK
  BY TypeParts DEF SinkInv, SinksInv
<1>2. ASSUME UNCHANGED <<pc, signature, frames>>, last_cells' \in {None, last_cells} PROVE FramesInv'
  BY <1>1, <1>2 DEF FramesInv
<1>3. CASE Feed \/ Notify \/ Terminate \/ Respawn \/ UNCHANGED vars
  BY <1>2, <1>3 DEF Feed, Notify, Terminate, Respawn, vars, pump, session
<1>4. ASSUME NEW c \in Clients, Resize(c) \/ Seed(c) \/ Leave(c) \/ Deregister(c) PROVE FramesInv'
  BY <1>2, <1>4 DEF Resize, Seed, Leave, Deregister, pump, session
<1>5. ASSUME NEW c \in Clients, Register(c) PROVE FramesInv'
  BY <1>2, <1>5 DEF Register, StartPump, pump, session
<1>6. CASE Observe
  <2>1. changed /\ alive
    BY <1>6 DEF Observe
  <2>2. frames'.grid = GridUpdate /\ signature # Signature
    BY <1>6, <2>1, Observing
  <2>3. signature' = Signature /\ last_cells' = Cells /\ frames'.modes \in {None, Modes[fed]}
    BY <1>6, <2>1, <2>2, Observing
  <2> QED BY <1>1, <2>2, <2>3, Samples DEF FramesInv
<1>7. ~(Wait \/ Coalesce \/ Send \/ CheckEmpty)
  BY DEF Wait, Coalesce, Send, CheckEmpty, EndPump
<1> QED BY <1>3, <1>4, <1>5, <1>6, <1>7 DEF Next

\* What is shown of a sink does not depend on the others.
LEMMA Showing ==
  ASSUME TypeInv, NEW c \in Clients
  PROVE  /\ view[c] \in Views
         /\ frames \in [grid : {None} \cup Grids, modes : ModeSet \cup {None}]
         /\ Shown(c) \in Views
         /\ pc # "send" \/ c \notin sinks => Shown(c) = view[c]
         /\ pc = "send" /\ c \in sinks => Shown(c) = Paint(frames, view[c])
<1>1. view[c] \in Views /\ frames \in [grid : {None} \cup Grids, modes : ModeSet \cup {None}]
  BY DEF TypeInv, ClientType, PumpType
<1>2. Paint(frames, view[c]) \in Views
  BY <1>1, Painting
<1> QED BY <1>1, <1>2 DEF Shown

\* A row that is sent is the baseline's.
LEMMA RowSent ==
  ASSUME TypeInv, FramesInv, RowIsSent, last_cells # None,
         NEW v \in Views
  PROVE  Paint(frames, v).size = last_cells.size /\ Paint(frames, v).row = last_cells.row
<1>1. frames \in [grid : {None} \cup Grids, modes : ModeSet \cup {None}]
  BY DEF TypeInv, PumpType
<1>2. /\ frames.grid # None /\ frames.grid.row # None
      /\ last_cells.size = frames.grid.size /\ last_cells.row = frames.grid.row
  BY DEF FramesInv, RowIsSent
<1> QED BY <1>1, <1>2, Painting

\* The baseline follows the pump's signature once a row was sent.
LEMMA BaselineStep == ASSUME SinkInv, [Next]_vars PROVE Painted' => Baseline'
<1>1. /\ TypeInv /\ FlagInv /\ SinksInv /\ SessionType /\ PumpType /\ ClientType /\ TypeOK
      /\ Painted => Baseline
  BY TypeParts DEF SinkInv, TypeInv, SinksInv, BaseInv
<1>2. source \in Nat /\ wake \in 0..source /\ content_seq \in Nat
  BY <1>1 DEF SessionType, PumpType
<1>3. ASSUME UNCHANGED <<wake, source, signature, last_cells, content_seq, fed>>, Painted' => Painted
      PROVE  Painted' => Baseline'
  BY <1>1, <1>3 DEF Baseline
<1>4. ASSUME UNCHANGED <<sinks, repainted>>, UNCHANGED <<pc, frames>> PROVE Painted' => Painted
  BY <1>4 DEF Painted, RowIsSent
<1>5. ASSUME UNCHANGED <<sinks, repainted>>, pc' # "send" PROVE Painted' => Painted
  BY <1>5 DEF Painted, RowIsSent
<1>6. CASE Notify \/ Terminate \/ UNCHANGED vars
  BY <1>3, <1>4, <1>6 DEF Notify, Terminate, vars, session, hub, pump, clients
<1>7. CASE Respawn
  <2>1. wake' # source'
    BY <1>2, <1>7 DEF Respawn, pump
  <2> QED BY <2>1 DEF Baseline
<1>8. CASE Feed
  <2>1. /\ UNCHANGED <<wake, source, signature, last_cells>> /\ (Painted' => Painted)
        /\ content_seq' \in {content_seq, content_seq + 1}
        /\ content_seq' = content_seq => Screen[fed'] = Screen[fed]
    BY <1>2, <1>4, <1>8 DEF Feed, hub, pump, clients
  <2>2. signature # None => signature[1] \in Nat
    BY <1>1, AttachHubAssumption DEF PumpType, Triples
  <2>3. Baseline => Baseline'
    BY <1>2, <2>1, <2>2 DEF Baseline
  <2> QED BY <1>1, <2>1, <2>3
<1>9. CASE Wait
  <2>1. UNCHANGED <<source, last_cells, content_seq, fed>> /\ (Painted' => Painted)
    BY <1>5, <1>9 DEF Wait, session, hub, clients
  <2>2. signature' = None \/ UNCHANGED <<wake, signature>>
    BY <1>9 DEF Wait
  <2> QED BY <1>3, <2>1, <2>2 DEF Baseline
<1>10. CASE Coalesce
  BY <1>3, <1>5, <1>10 DEF Coalesce, session, hub, clients
<1>11. CASE Observe
  <2>1. CASE changed /\ alive /\ signature # Signature
    <3>1. signature' = Signature /\ last_cells' = Cells
      BY <1>11, <2>1, Observing
    <3>2. UNCHANGED <<content_seq, fed>>
      BY <1>11 DEF Observe
    <3> QED BY <1>1, <1>2, <3>1, <3>2, Samples DEF Baseline
  <2>2. CASE changed /\ alive /\ signature = Signature
    <3>1. signature' = signature /\ last_cells' = last_cells /\ pc' # "send"
      BY <1>11, <2>2, Observing
    <3> QED BY <1>3, <1>5, <1>11, <3>1 DEF Observe, hub
  <2>3. CASE ~(changed /\ alive)
    <3>1. UNCHANGED <<signature, last_cells>> /\ pc' # "send"
      BY <1>11, <2>3 DEF Observe
    <3> QED BY <1>3, <1>5, <1>11, <3>1 DEF Observe, hub
  <2> QED BY <2>1, <2>2, <2>3
<1>12. CASE Send
  <2>1. UNCHANGED <<wake, source, signature, last_cells, content_seq, fed>>
    BY <1>12 DEF Send, session
  <2>2. pc = "send" /\ pc' = "check" /\ sinks' \subseteq sinks /\ sinks \subseteq Clients
    BY <1>1, <1>12 DEF Send, PumpType
  <2>3. \A c \in sinks : repainted'[c] => repainted[c] \/ RowIsSent
    BY <1>12, <2>2 DEF Send, RowIsSent
  <2>4. Painted' => Painted
    BY <2>2, <2>3 DEF Painted, RowIsSent
  <2> QED BY <1>3, <2>1, <2>4
<1>13. CASE CheckEmpty
  <2>1. UNCHANGED <<source, last_cells, content_seq, fed>> /\ (Painted' => Painted)
    BY <1>5, <1>13 DEF CheckEmpty, EndPump, session, clients
  <2>2. signature' = None \/ UNCHANGED <<wake, signature>>
    BY <1>13 DEF CheckEmpty, EndPump
  <2> QED BY <1>3, <2>1, <2>2 DEF Baseline
<1>14. ASSUME NEW c \in Clients, Resize(c) \/ Leave(c) PROVE Painted' => Baseline'
  BY <1>3, <1>4, <1>14 DEF Resize, Leave, session, hub, pump, clients
<1>15. ASSUME NEW c \in Clients, Seed(c) \/ Deregister(c) PROVE Painted' => Baseline'
  <2>1. /\ UNCHANGED <<wake, source, signature, last_cells, content_seq, fed, pc, frames>>
        /\ sinks' \subseteq sinks
    BY <1>15 DEF Seed, Deregister, session, pump, hub
  <2>2. c \notin sinks'
    BY <1>1, <1>15 DEF Seed, Deregister, hub, SinksInv
  <2>3. repainted' = [repainted EXCEPT ![c] = FALSE]
    BY <1>15 DEF Seed, Deregister
  <2>4. \A d \in sinks' : repainted'[d] = repainted[d]
    BY <1>1, <2>1, <2>2, <2>3 DEF ClientType, PumpType
  <2>5. Painted' => Painted
    BY <2>1, <2>4 DEF Painted, RowIsSent
  <2> QED BY <1>3, <2>1, <2>5
<1>16. ASSUME NEW c \in Clients, Register(c) PROVE Painted' => Baseline'
  <2>1. UNCHANGED repainted /\ sinks' = sinks \cup {c} /\ UNCHANGED session
    BY <1>16 DEF Register
  <2>2. ~repainted[c]
    BY <1>1, <1>16 DEF Register, SinksInv
  <2>3. CASE UNCHANGED pump
    <3>1. Painted' => Painted
      BY <2>1, <2>2, <2>3 DEF Painted, RowIsSent, pump
    <3> QED BY <1>3, <2>1, <2>3, <3>1 DEF pump, session
  <2>4. CASE ~pump_running /\ pc' = "wait"
    <3>1. sinks = {}
      BY <1>1, <2>4 DEF FlagInv
    <3> QED BY <2>1, <2>2, <2>4, <3>1 DEF Painted, RowIsSent
  <2> QED BY <1>16, <2>3, <2>4 DEF Register, StartPump
<1> QED BY <1>6, <1>7, <1>8, <1>9, <1>10, <1>11, <1>12, <1>13, <1>14, <1>15, <1>16 DEF Next

\* A sink to which a row was sent shows the baseline.
ShowsBase(c) ==
  Repainted(c) /\ last_cells # None =>
    Shown(c).size = last_cells.size /\ Shown(c).row = last_cells.row

\* A sink in the table gets every row that moves the baseline.
LEMMA ShowsBaseStep ==
  ASSUME SinkInv, TypeInv', FramesInv', [Next]_vars, NEW d \in Clients
  PROVE  ShowsBase(d)'
<1>1. /\ TypeInv /\ FlagInv /\ SinksInv /\ SessionType /\ PumpType /\ ClientType /\ TypeOK
      /\ ShowsBase(d) /\ FramesInv
  BY TypeParts DEF SinkInv, TypeInv, SinksInv, BaseInv, ShowsBase
<1>2. ASSUME last_cells' \in {None, last_cells}, d \in sinks' => d \in sinks,
             d \in sinks' => repainted'[d] = repainted[d] /\ view'[d] = view[d],
             UNCHANGED <<pc, frames>> \/ (pc # "send" /\ pc' # "send")
      PROVE  ShowsBase(d)'
  BY <1>1, <1>2 DEF ShowsBase, Repainted, RowIsSent, Shown
<1>3. CASE Feed \/ Notify \/ Terminate \/ Respawn \/ UNCHANGED vars
  BY <1>2, <1>3 DEF Feed, Notify, Terminate, Respawn, vars, session, hub, pump, clients
<1>4. CASE Wait \/ Coalesce \/ CheckEmpty
  BY <1>2, <1>4 DEF Wait, Coalesce, CheckEmpty, EndPump, session, hub, clients
<1>5. ASSUME NEW c \in Clients, Resize(c) \/ Leave(c) PROVE ShowsBase(d)'
  BY <1>2, <1>5 DEF Resize, Leave, session, hub, pump, clients
<1>6. ASSUME NEW c \in Clients, Seed(c) PROVE ShowsBase(d)'
  <2>1. c \notin sinks /\ UNCHANGED <<sinks, pc, frames, last_cells>>
    BY <1>1, <1>6 DEF Seed, SinksInv, hub, pump, session
  <2>2. d # c => repainted'[d] = repainted[d] /\ view'[d] = view[d]
    BY <1>1, <1>6 DEF Seed, ClientType
  <2> QED BY <1>2, <2>1, <2>2
<1>7. ASSUME NEW c \in Clients, Deregister(c) PROVE ShowsBase(d)'
  <2>1. sinks' = sinks \ {c} /\ UNCHANGED <<pc, frames, last_cells>>
    BY <1>7 DEF Deregister, pump, session
  <2>2. d # c => repainted'[d] = repainted[d] /\ view'[d] = view[d]
    BY <1>1, <1>7 DEF Deregister, ClientType
  <2> QED BY <1>2, <2>1, <2>2
<1>8. ASSUME NEW c \in Clients, Register(c) PROVE ShowsBase(d)'
  <2>1. UNCHANGED <<repainted, view, last_cells>> /\ sinks' = sinks \cup {c}
    BY <1>8 DEF Register, session
  <2>2. UNCHANGED <<pc, frames>> \/ (pc # "send" /\ pc' # "send")
    BY <1>1, <1>8 DEF Register, StartPump, pump, FlagInv
  <2>3. CASE d # c
    BY <1>2, <2>1, <2>2, <2>3
  <2>4. CASE d = c /\ ~RowIsSent'
    BY <1>1, <1>8, <2>1, <2>4 DEF ShowsBase, Repainted, Register, SinksInv
  <2>5. CASE d = c /\ RowIsSent'
    <3>1. RowIsSent /\ UNCHANGED <<pc, frames>> /\ pc = "send"
      BY <2>2, <2>5 DEF RowIsSent
    <3>2. view[d] \in Views
      BY <1>1 DEF ClientType
    <3>3. Shown(d)' = Paint(frames, view[d])
      BY <2>1, <2>5, <3>1 DEF Shown
    <3> QED BY <1>1, <2>1, <3>1, <3>2, <3>3, RowSent DEF ShowsBase
  <2> QED BY <2>3, <2>4, <2>5
<1>9. CASE Send
  <2>1. pc = "send" /\ pc' = "check" /\ sinks' \subseteq sinks /\ UNCHANGED last_cells
    BY <1>9 DEF Send, session
  <2>2. view'[d] = IF d \in sinks THEN Paint(frames, view[d]) ELSE view[d]
    BY <1>9 DEF Send
  <2>3. repainted'[d] => repainted[d] \/ (d \in sinks /\ RowIsSent)
    BY <1>9, <2>1 DEF Send, RowIsSent
  <2>4. Shown(d)' = Shown(d)
    BY <2>1, <2>2 DEF Shown
  <2>5. Repainted(d)' => Repainted(d)
    BY <2>1, <2>3 DEF Repainted, RowIsSent
  <2> QED BY <1>1, <2>1, <2>4, <2>5 DEF ShowsBase
<1>10. CASE Observe
  <2>1. pc = "observe" /\ UNCHANGED <<sinks, view, repainted>>
    BY <1>10 DEF Observe, hub
  <2>2. CASE ~(changed /\ alive)
    <3>1. pc' # "send" /\ UNCHANGED last_cells
      BY <1>10, <2>2 DEF Observe
    <3> QED BY <1>2, <2>1, <3>1
  <2>3. CASE changed /\ alive /\ signature = Signature
    <3>1. pc' # "send" /\ UNCHANGED last_cells
      BY <1>10, <2>3, Observing
    <3> QED BY <1>2, <2>1, <3>1
  <2>4. CASE changed /\ alive /\ signature # Signature
    <3>1. /\ frames'.grid = GridUpdate /\ pc' = "send" /\ last_cells' = Cells
      BY <1>1, <1>10, <2>4, Observing, Samples
    <3>2. ASSUME d \in sinks PROVE Shown(d)' = Paint(frames', view[d])
      BY <2>1, <3>1, <3>2 DEF Shown
    <3>3. /\ view[d] \in Views
          /\ frames' \in [grid : {None} \cup Grids, modes : ModeSet \cup {None}]
      BY <1>1 DEF TypeInv, ClientType, PumpType
    <3>4. CASE GridUpdate.row # None
      <4>1. GridUpdate # None /\ GridUpdate.size = Cells.size /\ GridUpdate.row = Cells.row
        BY <1>1, <3>4, Samples
      <4> QED BY <2>1, <3>1, <3>2, <3>3, <4>1, <3>4, Painting DEF ShowsBase, Repainted
    <3>5. CASE GridUpdate.row = None
      <4>1. last_cells = Cells /\ Cells # None /\ GridUpdate # None /\ GridUpdate.size = Cells.size
        BY <1>1, <3>5, Samples
      <4>2. Repainted(d)' => d \in sinks /\ repainted[d]
        BY <2>1, <3>1, <3>5 DEF Repainted, RowIsSent
      <4>3. d \in sinks /\ repainted[d] => view[d].size = Cells.size /\ view[d].row = Cells.row
        BY <1>1, <2>1, <4>1 DEF ShowsBase, Repainted, Shown
      <4> QED BY <2>1, <3>1, <3>2, <3>3, <3>5, <4>1, <4>2, <4>3, Painting DEF ShowsBase
    <3> QED BY <3>4, <3>5
  <2> QED BY <2>2, <2>3, <2>4
<1> QED BY <1>3, <1>4, <1>5, <1>6, <1>7, <1>8, <1>9, <1>10 DEF Next

\* An observation shows every sink the screen, or finds that it has it.
LEMMA ObserveCurrent ==
  ASSUME SinkInv, TypeInv', Observe, changed, alive, wake = source, NEW d \in Clients
  PROVE  CurrentOf(d)'
<1>1. /\ TypeInv /\ SinksInv /\ SessionType /\ PumpType /\ ClientType /\ TypeOK /\ PumpInv
      /\ ShowsBase(d) /\ (Painted => Baseline)
  BY TypeParts DEF SinkInv, TypeInv, BaseInv, ShowsBase
<1>2. pc = "observe" /\ UNCHANGED <<sinks, view, repainted, serve, source, fed, size>>
  BY DEF Observe, hub
<1>3. /\ missed[d] => missed'[d]
      /\ serve[d] = "seeded" /\ frames'.grid # None => missed'[d]
      /\ Returned(d) => missed'[d]
  BY DEF Observe
<1>4. /\ view[d] \in Views
      /\ frames' \in [grid : {None} \cup Grids, modes : ModeSet \cup {None}]
  BY <1>1 DEF TypeInv, ClientType, PumpType
<1>5. d \in sinks => serve[d] = "registered"
  BY <1>1 DEF SinksInv
<1>6. ASSUME ~missed'[d], serve[d] # "idle", signature = Signature \/ last_cells = Cells, ~repainted[d]
      PROVE  view[d].size = size /\ view[d].row = Screen[fed]
  <2>1. [size |-> view[d].size, row |-> view[d].row] = Cells
    BY <1>3, <1>6 DEF Returned
  <2> QED BY <2>1 DEF Cells
<1>7. ASSUME ~missed'[d], serve[d] # "idle", last_modes = Modes[fed]
      PROVE  view[d].modes = Modes[fed]
  BY <1>3, <1>7 DEF Returned
<1>8. CASE signature = Signature
  <2>0. /\ signature # None
        /\ signature[1] = content_seq /\ signature[2] = size /\ signature[3] = Modes[fed]
    BY <1>1, <1>8, Samples
  <2>1. /\ frames'.grid = None /\ frames'.modes = None /\ pc' # "send"
        /\ last_modes = Modes[fed] /\ signature # None
        /\ signature[1] = content_seq /\ signature[2] = size
    <3>1. frames'.grid = None /\ frames'.modes = None /\ pc' # "send"
      BY <1>8, Observing
    <3>2. last_modes = Modes[fed]
      BY <1>1, <1>2, <2>0 DEF PumpInv
    <3> QED BY <2>0, <3>1, <3>2
  <2>2. Shown(d)' = view[d] /\ ~RowIsSent'
    BY <1>2, <2>1 DEF Shown, RowIsSent
  <2>3. d \in sinks /\ repainted[d] => view[d].size = size /\ view[d].row = Screen[fed]
    <3>1. d \in sinks /\ repainted[d] => Baseline /\ Repainted(d) /\ Shown(d) = view[d]
      BY <1>1, <1>2 DEF Painted, Repainted, Shown
    <3> QED BY <1>1, <2>1, <3>1 DEF Baseline, ShowsBase
  <2>4. ~missed'[d] /\ serve[d] # "idle" /\ ~repainted[d] =>
          view[d].size = size /\ view[d].row = Screen[fed]
    BY <1>6, <1>8
  <2>5. ~missed'[d] /\ serve[d] # "idle" => view[d].modes = Modes[fed]
    BY <1>7, <2>1
  <2>6. d \in sinks /\ (repainted[d] \/ ~missed'[d]) => view[d].size = size /\ view[d].row = Screen[fed]
    BY <1>5, <2>3, <2>4
  <2>7. serve[d] = "seeded" => ~repainted[d]
    BY <1>1 DEF SinksInv
  <2> QED BY <1>2, <1>5, <2>2, <2>4, <2>5, <2>6, <2>7 DEF CurrentOf, Repainted
<1>9. CASE signature # Signature
  <2>1. /\ frames'.grid = GridUpdate /\ GridUpdate # None /\ pc' = "send" /\ GridUpdate.size = size
        /\ GridUpdate.row \in {None, Screen[fed]} /\ (GridUpdate.row = None <=> last_cells = Cells)
        /\ Modes[fed] # None /\ frames'.modes \in {None, Modes[fed]}
        /\ last_modes # None /\ last_modes # Modes[fed] => frames'.modes = Modes[fed]
    BY <1>1, <1>9, Observing, Samples
  <2>2. serve[d] # "seeded" \/ missed'[d]
    BY <1>3, <2>1
  <2>3. d \in sinks => Shown(d)' = Paint(frames', view[d])
    BY <1>2, <2>1 DEF Shown
  <2>4. ASSUME d \in sinks, Repainted(d)' \/ ~missed'[d]
        PROVE  Shown(d)'.size = size /\ Shown(d)'.row = Screen[fed]
    <3>1. CASE GridUpdate.row # None
      BY <1>4, <2>1, <2>3, <2>4, <3>1, Painting
    <3>2. CASE GridUpdate.row = None
      <4>1. last_cells = Cells /\ last_cells # None /\ Cells.size = size /\ Cells.row = Screen[fed]
        BY <1>1, <2>1, <3>2, Samples
      <4>2. Repainted(d)' => repainted[d]
        BY <1>2, <2>1, <3>2 DEF Repainted, RowIsSent
      <4>3. repainted[d] => view[d].size = size /\ view[d].row = Screen[fed]
        BY <1>1, <1>2, <2>4, <4>1 DEF ShowsBase, Repainted, Shown
      <4>4. view[d].size = size /\ view[d].row = Screen[fed]
        BY <1>5, <1>6, <2>4, <4>1, <4>2, <4>3
      <4> QED BY <1>4, <2>1, <2>3, <2>4, <3>2, <4>4, Painting
    <3> QED BY <3>1, <3>2
  <2>5. ASSUME d \in sinks, ~missed'[d], source = 1 PROVE Shown(d)'.modes = Modes[fed]
    <3>1. last_modes # None
      BY <1>1, <1>2, <2>5 DEF PumpInv
    <3>2. CASE last_modes = Modes[fed]
      <4>1. view[d].modes = Modes[fed]
        BY <1>5, <1>7, <2>5, <3>2
      <4> QED BY <1>4, <2>1, <2>3, <2>5, <4>1, Painting
    <3>3. CASE last_modes # Modes[fed]
      BY <1>4, <2>1, <2>3, <2>5, <3>1, <3>3, Painting
    <3> QED BY <3>2, <3>3
  <2> QED BY <1>2, <2>2, <2>4, <2>5 DEF CurrentOf
<1> QED BY <1>8, <1>9

\* A step after which the pump has nothing to look at leaves the sinks current:
\* it changes nothing they have, or it is the observation of the last notification.
LEMMA CurrentStep == ASSUME SinkInv, TypeInv', [Next]_vars PROVE CurrentInv'
<1> SUFFICES ASSUME Settled' PROVE signature' = Signature' /\ \A d \in Clients : CurrentOf(d)'
  BY DEF CurrentInv
<1>1. /\ TypeInv /\ FlagInv /\ SinksInv /\ Flags /\ SessionType /\ PumpType /\ ClientType /\ TypeOK
      /\ PumpInv /\ FramesInv /\ CurrentInv /\ (Painted => Baseline)
      /\ \A c \in Clients : SeedOf(c)
  BY TypeParts DEF SinkInv, TypeInv, SinksInv, BaseInv
<1>2. /\ source \in Nat /\ generation \in Nat /\ wake \in 0..source /\ wake_generation \in Nat
  BY <1>1, AttachHubAssumption DEF SessionType, PumpType
<1>3. /\ alive' /\ ~unnotified' /\ pc' # "off" /\ ~(pc' = "observe" /\ changed')
      /\ wake' = source' /\ wake_generation' = generation'
  BY DEF Settled
<1>4. ~Feed /\ ~Terminate /\ ~Coalesce
  <2>1. ~Feed
    BY <1>3 DEF Feed
  <2>2. ~Terminate
    BY <1>3 DEF Terminate
  <2>3. ~Coalesce
    BY <1>3 DEF Coalesce
  <2> QED BY <2>1, <2>2, <2>3
<1>5. ~Respawn
  BY <1>2, <1>3 DEF Respawn, pump
<1>6. CASE Notify
  <2>1. pc # "off" /\ wake = source /\ wake_generation = generation + 1
    BY <1>3, <1>6 DEF Notify, pump
  <2> QED BY <1>1, <1>2, <2>1 DEF PumpInv
<1>7. ASSUME NEW c \in Clients, Resize(c) PROVE FALSE
  <2>1. pc # "off" /\ wake = source /\ wake_generation = generation + 1
    BY <1>3, <1>7 DEF Resize, pump
  <2> QED BY <1>1, <1>2, <2>1 DEF PumpInv
<1>8. Settled => signature = Signature /\ \A d \in Clients : CurrentOf(d)
  BY <1>1 DEF CurrentInv
<1>9. ASSUME UNCHANGED <<source, fed, content_seq, size, signature>>, Settled, NEW d \in Clients,
             d \in sinks' => d \in sinks,
             d \in sinks' => Shown(d)' = Shown(d) /\ (Repainted(d)' => Repainted(d)),
             missed[d] => missed'[d],
             serve'[d] = "seeded" => serve[d] = "seeded" /\ view'[d] = view[d]
      PROVE  CurrentOf(d)'
  <2>1. CurrentOf(d)
    BY <1>8, <1>9
  <2> QED BY <1>9, <2>1 DEF CurrentOf
<1>20. ASSUME UNCHANGED <<source, fed, content_seq, size, signature>>, Settled
       PROVE  signature' = Signature'
  BY <1>8, <1>20 DEF Signature
<1>10. CASE Wait
  <2>1. UNCHANGED <<source, fed, content_seq, size, sinks, view, repainted, missed, serve>>
    BY <1>10 DEF Wait, session, hub, clients
  <2>2. wake = source /\ generation = wake_generation /\ UNCHANGED signature
    <3>1. pc' = "observe" /\ UNCHANGED <<alive, source, generation>>
      BY <1>10 DEF Wait, session
    <3>2. ASSUME changed' = TRUE PROVE FALSE
      BY <1>3, <3>1, <3>2
    <3>3. ~(alive /\ wake # source)
      <4> SUFFICES ASSUME alive, wake # source PROVE FALSE
        OBVIOUS
      <4>1. changed' = TRUE
        BY <1>10 DEF Wait
      <4> QED BY <3>2, <4>1
    <3>4. wake = source
      BY <1>3, <3>1, <3>3
    <3>5. changed' = (generation # wake_generation) /\ UNCHANGED signature
      BY <1>10, <3>4 DEF Wait
    <3> QED BY <3>2, <3>4, <3>5
  <2>3. Settled /\ pc # "send" /\ pc' # "send"
    BY <1>3, <1>10, <2>2 DEF Wait, Settled, session
  <2> QED BY <1>9, <1>20, <2>1, <2>2, <2>3 DEF Shown, Repainted, RowIsSent
<1>11. CASE CheckEmpty
  <2>1. UNCHANGED <<source, fed, content_seq, size, sinks, view, repainted, missed, serve>>
    BY <1>11 DEF CheckEmpty, session, clients
  <2>2. pc = "check" /\ pc' = "wait" /\ UNCHANGED <<signature, wake, wake_generation>>
    BY <1>3, <1>11 DEF CheckEmpty, EndPump
  <2>3. Settled
    BY <1>3, <1>11, <2>2 DEF CheckEmpty, Settled, session
  <2> QED BY <1>9, <1>20, <2>1, <2>2, <2>3 DEF Shown, Repainted, RowIsSent
<1>12. CASE Observe
  <2>1. UNCHANGED <<alive, source, fed, content_seq, size, wake>>
    BY <1>12 DEF Observe
  <2>2. CASE changed /\ alive
    <3>1. signature' = Signature /\ wake = source
      BY <1>3, <1>12, <2>1, <2>2, Observing
    <3>2. Signature' = Signature
      BY <2>1 DEF Signature
    <3> QED BY <1>12, <2>2, <3>1, <3>2, ObserveCurrent
  <2>3. CASE ~(changed /\ alive)
    <3>1. ~changed
      BY <1>3, <2>1, <2>3
    <3>2. /\ UNCHANGED <<sinks, view, repainted, serve, signature>>
          /\ pc = "observe" /\ pc' # "send"
      BY <1>12, <2>3 DEF Observe, hub
    <3>3. \A d \in Clients : missed[d] => missed'[d]
      BY <1>12 DEF Observe
    <3>4. Settled
      BY <1>3, <1>12, <3>1, <3>2 DEF Observe, Settled
    <3> QED BY <1>9, <1>20, <2>1, <3>2, <3>3, <3>4 DEF Shown, Repainted, RowIsSent
  <2> QED BY <2>2, <2>3
<1>13. CASE Send
  <2>1. /\ UNCHANGED <<source, fed, content_seq, size, signature, missed, serve>>
        /\ pc = "send" /\ pc' = "check" /\ sinks' \subseteq sinks
    BY <1>13 DEF Send, session
  <2>2. Settled
    BY <1>3, <1>13 DEF Send, Settled, session
  <2>3. ASSUME NEW d \in Clients
        PROVE  /\ view'[d] = IF d \in sinks THEN Paint(frames, view[d]) ELSE view[d]
               /\ repainted'[d] => repainted[d] \/ (d \in sinks /\ RowIsSent)
               /\ serve[d] = "seeded" => d \notin sinks
    BY <1>1, <1>13, <2>1 DEF Send, RowIsSent, SinksInv
  <2>4. ASSUME NEW d \in Clients, d \in sinks'
        PROVE  Shown(d)' = Shown(d) /\ (Repainted(d)' => Repainted(d))
    BY <2>1, <2>3, <2>4 DEF Shown, Repainted, RowIsSent
  <2> QED BY <1>9, <1>20, <2>1, <2>2, <2>3, <2>4
<1>14. ASSUME UNCHANGED <<session, pump>> PROVE Settled
  BY <1>3, <1>14 DEF Settled, session, pump
<1>15. ASSUME NEW c \in Clients, Leave(c) \/ Deregister(c)
       PROVE  signature' = Signature' /\ \A d \in Clients : CurrentOf(d)'
  <2>1. UNCHANGED <<session, pump>> /\ UNCHANGED missed /\ sinks' \subseteq sinks
    BY <1>15 DEF Leave, Deregister, hub
  <2>2. ASSUME NEW d \in Clients
        PROVE  \/ d = c /\ d \notin sinks' /\ serve'[d] # "seeded"
               \/ view'[d] = view[d] /\ repainted'[d] = repainted[d] /\ serve'[d] = serve[d]
    BY <1>1, <1>15 DEF Leave, Deregister, ClientType
  <2> QED BY <1>9, <1>20, <1>14, <2>1, <2>2 DEF Shown, Repainted, RowIsSent, session, pump
<1>16. ASSUME NEW c \in Clients, Seed(c)
       PROVE  signature' = Signature' /\ \A d \in Clients : CurrentOf(d)'
  <2>1. UNCHANGED <<session, pump>> /\ UNCHANGED sinks /\ c \notin sinks
    BY <1>1, <1>16 DEF Seed, hub, SinksInv
  <2>2. ASSUME NEW d \in Clients, d # c
        PROVE  /\ view'[d] = view[d] /\ repainted'[d] = repainted[d] /\ serve'[d] = serve[d]
               /\ missed'[d] = missed[d]
    BY <1>1, <1>16, <2>2 DEF Seed, ClientType
  <2>3. \A d \in Clients : d # c => CurrentOf(d)'
    BY <1>9, <1>14, <2>1, <2>2 DEF Shown, Repainted, RowIsSent, session, pump
  <2>4. CurrentOf(c)'
    <3>1. view'[c] = [size |-> size, row |-> Screen[fed], modes |-> Modes[fed]]
      BY <1>1, <1>16 DEF Seed, ClientType
    <3> QED BY <2>1, <3>1 DEF CurrentOf, session
  <2>5. signature' = Signature'
    BY <1>8, <1>14, <2>1 DEF Signature, session, pump
  <2> QED BY <2>3, <2>4, <2>5
<1>17. ASSUME NEW c \in Clients, Register(c)
       PROVE  signature' = Signature' /\ \A d \in Clients : CurrentOf(d)'
  <2>1. /\ UNCHANGED <<session, view, repainted>> /\ sinks' = sinks \cup {c} /\ serve[c] = "seeded"
        /\ ~repainted[c] /\ c \notin sinks
    BY <1>1, <1>17 DEF Register, SinksInv
  <2>2. ASSUME NEW d \in Clients
        PROVE  serve'[d] = (IF d = c THEN "registered" ELSE serve[d]) /\ (missed[d] => missed'[d])
    BY <1>1, <1>17 DEF Register, ClientType
  <2>3. CASE UNCHANGED pump
    <3>1. Settled /\ signature = Signature /\ \A d \in Clients : CurrentOf(d)
      BY <1>8, <1>14, <2>1, <2>3
    <3>2. \A d \in Clients : d # c => CurrentOf(d)'
      BY <1>9, <2>1, <2>2, <2>3, <3>1 DEF Shown, Repainted, RowIsSent, session, pump
    <3>3. signature' = Signature'
      BY <2>1, <2>3, <3>1 DEF Signature, session, pump
    <3>4. ~missed[c] => view[c].size = size /\ view[c].row = Screen[fed] /\ view[c].modes = Modes[fed]
      BY <2>1, <3>1 DEF CurrentOf
    <3>5. CASE pc # "send"
      <4>1. Shown(c)' = view[c] /\ ~Repainted(c)'
        BY <2>1, <2>3, <3>5 DEF Shown, Repainted, RowIsSent, pump
      <4>2. CurrentOf(c)'
        BY <2>1, <2>2, <3>4, <4>1 DEF CurrentOf, session
      <4> QED BY <3>2, <3>3, <4>2
    <3>6. CASE pc = "send"
      <4>1. Shown(c)' = Paint(frames, view[c]) /\ (Repainted(c)' => RowIsSent)
        BY <2>1, <2>3, <3>6 DEF Shown, Repainted, RowIsSent, pump
      <4>2. view[c] \in Views /\ frames \in [grid : {None} \cup Grids, modes : ModeSet \cup {None}]
        BY <1>1 DEF ClientType, PumpType
      <4>3. /\ signature # None /\ signature[1] = content_seq /\ signature[2] = size
            /\ signature[3] = Modes[fed] /\ wake = source
        BY <1>1, <3>1, Samples DEF Settled
      <4>4. frames.grid # None /\ frames.grid.size = size /\ frames.modes \in {None, Modes[fed]}
        BY <1>1, <3>6, <4>3 DEF FramesInv
      <4>5. RowIsSent => frames.grid.row = Screen[fed]
        BY <1>1, <3>6, <4>3 DEF Painted, Baseline, FramesInv, RowIsSent
      <4>6. ~RowIsSent => frames.grid.row = None
        BY <3>6 DEF RowIsSent
      <4>7. /\ Shown(c)'.size = size
            /\ RowIsSent \/ ~missed[c] => Shown(c)'.row = Screen[fed]
        <5>1. CASE RowIsSent
          <6>1. frames.grid.row # None
            BY <5>1 DEF RowIsSent
          <6> QED BY <4>1, <4>2, <4>4, <4>5, <5>1, <6>1, Painting
        <5>2. CASE ~RowIsSent
          BY <3>4, <4>1, <4>2, <4>4, <4>6, <5>2, Painting
        <5> QED BY <5>1, <5>2
      <4>8. ~missed[c] => Shown(c)'.modes = Modes[fed]
        BY <3>4, <4>1, <4>2, <4>4, Painting
      <4>9. CurrentOf(c)'
        BY <2>1, <2>2, <4>1, <4>7, <4>8 DEF CurrentOf, session
      <4> QED BY <3>2, <3>3, <4>9
    <3> QED BY <3>5, <3>6
  <2>4. CASE ~pump_running /\ StartPump(seed[c])
    <3>1. /\ sinks = {} /\ pc' = "wait" /\ signature' = seed[c].signature
          /\ seed[c].wake = source /\ seed[c].generation = generation /\ alive /\ ~unnotified
      BY <1>1, <1>3, <2>1, <2>4 DEF FlagInv, StartPump, session
    <3>2. seed[c].signature = Signature /\ Signature' = Signature
      BY <1>1, <2>1, <3>1 DEF SeedOf, Signature, session
    <3>3. ASSUME NEW d \in Clients, serve[d] = "seeded", ~missed'[d]
          PROVE  view[d].size = size /\ view[d].row = Screen[fed] /\ view[d].modes = Modes[fed]
      <4>1. d # c => seed[d].signature = seed[c].signature /\ seed[d].wake = seed[c].wake
        BY <1>17, <2>4, <3>3 DEF Register
      <4>2. seed[d].signature = Signature /\ seed[d].wake = source
        BY <3>1, <3>2, <4>1
      <4>3. Signature[1] = content_seq /\ Signature[2] = size /\ Signature[3] = Modes[fed]
        BY <1>1, Samples
      <4> QED BY <1>1, <3>3, <4>2, <4>3 DEF SeedOf
    <3>4. ASSUME NEW d \in Clients PROVE CurrentOf(d)'
      <4>1. Shown(d)' = view[d] /\ ~RowIsSent'
        BY <2>1, <3>1 DEF Shown, RowIsSent
      <4>2. d \in sinks' => d = c
        BY <2>1, <3>1
      <4>3. ~missed'[c] => view[c].size = size /\ view[c].row = Screen[fed] /\ view[c].modes = Modes[fed]
        BY <2>1, <3>3
      <4>4. d \in sinks' => ~Repainted(d)'
        BY <2>1, <4>1, <4>2 DEF Repainted
      <4> QED BY <2>1, <2>2, <3>3, <4>1, <4>2, <4>3, <4>4 DEF CurrentOf, session
    <3> QED BY <3>1, <3>2, <3>4
  <2> QED BY <1>17, <2>3, <2>4 DEF Register
<1>18. CASE UNCHANGED vars
  <2>1. UNCHANGED <<session, pump, hub, clients>>
    BY <1>18 DEF vars
  <2> QED BY <1>9, <1>20, <1>14, <2>1 DEF Shown, Repainted, RowIsSent, session, pump, hub, clients
<1> QED
  BY <1>4, <1>5, <1>6, <1>7, <1>10, <1>11, <1>12, <1>13, <1>15, <1>16, <1>17, <1>18 DEF Next

\* All parts together are inductive.
LEMMA SinkInvariant == Spec => []SinkInv
<1>1. Init => SinkInv
  <2> SUFFICES ASSUME Init PROVE SinkInv
    OBVIOUS
  <2>1. TypeInv /\ FlagInv
    BY TypeInit, FlagInvInit
  <2>2. pc = "off" /\ sinks = {} /\ \A c \in Clients : serve[c] = "idle"
    BY DEF Init
  <2>3. SinksInv /\ \A c \in Clients : SeedOf(c)
    BY <2>1, <2>2 DEF SinksInv, SeedOf
  <2>4. PumpInv /\ FramesInv
    BY <2>2 DEF PumpInv, FramesInv
  <2>5. BaseInv
    BY <2>2 DEF BaseInv, Painted, RowIsSent, Repainted
  <2>6. CurrentInv
    BY <2>2 DEF CurrentInv, Settled
  <2> QED BY <2>1, <2>3, <2>4, <2>5, <2>6 DEF SinkInv
<1>2. SinkInv /\ [Next]_vars => SinkInv'
  <2> SUFFICES ASSUME SinkInv, [Next]_vars PROVE SinkInv'
    OBVIOUS
  <2>1. TypeInv'
    BY TypeStep DEF SinkInv
  <2>2. SinksInv' /\ PumpInv' /\ FramesInv' /\ \A c \in Clients : SeedOf(c)'
    BY SinksStep, PumpStep, FramesStep, SeedStep
  <2>3. BaseInv'
    <3>1. \A d \in Clients : ShowsBase(d)'
      BY <2>1, <2>2, ShowsBaseStep
    <3> QED BY <3>1, BaselineStep DEF BaseInv, ShowsBase
  <2>4. CurrentInv'
    BY <2>1, CurrentStep
  <2> QED BY <2>1, <2>2, <2>3, <2>4 DEF SinkInv
<1> QED BY <1>1, <1>2, PTL DEF Spec

\* The session, the hub, the pump and the clients keep their types.
THEOREM TypeCorrect == Spec => []TypeOK
<1>1. SinkInv => TypeOK
  BY TypeParts DEF SinkInv
<1> QED BY <1>1, SinkInvariant, PTL

\* serve, register and pump: however seeds, registrations, output, resizes and
\* replacements of the session interleave with the pump's round, a sink has the
\* terminal's grid and modes when the pump rests, except a sink that a pump
\* passed over or came back to.
THEOREM SinksAreCurrent == Spec => []SinkIsCurrent
<1>1. SinkInv => SinkIsCurrent
  <2> SUFFICES ASSUME SinkInv, Quiescent, NEW c \in Clients, Watching(c)
               PROVE  /\ repainted[c] \/ ~missed[c] => GridIsCurrent(c)
                      /\ ~missed[c] /\ source = 1 => view[c].modes = Modes[fed]
    BY DEF SinkIsCurrent
  <2>1. Settled
    BY DEF Quiescent, Settled
  <2>2. CurrentOf(c) /\ c \in sinks /\ Shown(c) = view[c]
    BY <2>1 DEF SinkInv, CurrentInv, Watching, Quiescent, Shown
  <2> QED BY <2>2 DEF CurrentOf, Repainted, GridIsCurrent
<1> QED BY <1>1, SinkInvariant, PTL
============================================================================

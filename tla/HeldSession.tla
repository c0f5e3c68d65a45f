---------------------------- MODULE HeldSession -----------------------------
(***************************************************************************)
(* A local session behind its Holder: the Holder's threads drain the PTY   *)
(* into the output log, reap the child and leave an exit marker in the log *)
(* (holder/server.rs, log.rs); the Engine's pump tails the log, strips the *)
(* markers, feeds the screen and saves checkpoints (session.rs pump_held,  *)
(* checkpoint.rs); the session is resumed under the same id, and the       *)
(* Engine ends and comes back.                                             *)
(*                                                                         *)
(* An offset counts units: a chunk of output, or one of the two halves of  *)
(* an exit marker. The log file is rotated by renaming a shorter copy over *)
(* it, so a reader may hold an inode that is no longer the file.           *)
(***************************************************************************)
EXTENDS Integers, Sequences, FiniteSets, SequencesExt, FiniteSetsExt

CONSTANTS
  DiskCapacity,   \* disk_capacity: units in the file before it is halved
  ReadSize,       \* units the pump reads at once
  ReplayBudget,   \* units a new pump replays
  Watcher,        \* the platform tells of a replaced file (macOS)
  MaxOutput, MaxIncarnations, MaxStops, MaxFaults,   \* bounds
  None

ASSUME HeldSessionAssumption ==
  /\ {DiskCapacity, ReadSize} \subseteq Nat \ {0}
  /\ {ReplayBudget, MaxOutput, MaxIncarnations, MaxStops, MaxFaults} \subseteq Nat
  /\ DiskCapacity >= 4 /\ ReplayBudget \in 2..(DiskCapacity \div 2)
  /\ Watcher \in BOOLEAN /\ None \notin [how : {"marker", "unknown", "failed"}, inc : Nat]

VARIABLES
  written,     \* every unit that reached the log, offset 0 first
  files,       \* the log's inodes; the last one is at the path
  holder,      \* the Holder of the newest incarnation
  pty,         \* chunks in the PTY that are not drained
  engine,      \* the pump and what it knows of its session
  screen,      \* what was fed to the emulator, by offset, and what was not
  checkpoint,  \* the checkpoint file
  exit,        \* Shared::exit, by the marker it came from, if any
  produced, stops, faults   \* the bounded events so far

holderVars == <<written, files, holder, pty>>
engineVars == <<engine, screen, checkpoint, exit>>
counters == <<produced, stops, faults>>
vars == <<holderVars, engineVars, counters>>

Current == Len(files)
FileTail == files[Current].tail

Without(how) == [how |-> how, inc |-> 0]
Unit(kind) == [kind |-> kind, inc |-> holder.inc]
Marker == <<Unit("head"), Unit("end")>>

-----------------------------------------------------------------------------
(***************************************************************************)
(* The Holder.                                                             *)
(***************************************************************************)

\* The file and the Holder's file_bytes after a write of n units.
Lengthened(n, counted) == [files[Current] EXCEPT !.tail = @ + n, !.bytes = @ + counted]

\* A rotation keeps the newest unit.
GrownKeepsOne(n) ==
  LET f == Lengthened(n, n)
      rotated == [base |-> f.tail - 1, tail |-> f.tail, bytes |-> 1]
  IN  [files EXCEPT ![Current] = f]
        \o (IF f.bytes > DiskCapacity THEN <<rotated>> ELSE <<>>)

\* append_to_disk: the file grew by n units, and is halved when it outgrew its
\* capacity, by what the Holder counted.
Grown(n) ==
  LET f == Lengthened(n, n)
      base == f.base + f.bytes - DiskCapacity \div 2
      rotated == [base |-> base, tail |-> f.tail, bytes |-> f.tail - base]
  IN  [files EXCEPT ![Current] = f]
        \o (IF f.bytes > DiskCapacity THEN <<rotated>> ELSE <<>>)

\* append: the write may fail part way, with file_bytes left as it was, or be
\* whole and its sync fail; and a rotation that fails, before the rename or on
\* reopening the file after it, leaves the log without a write handle, after
\* which appends report success and write nothing.
AppendLog(units, h) ==
  \/ /\ ~h.writes
     /\ holder' = h /\ UNCHANGED <<written, files, faults>>
  \/ /\ h.writes
     /\ written' = written \o units /\ files' = Grown(Len(units))
     /\ holder' = h /\ UNCHANGED faults
  \/ /\ h.writes /\ faults < MaxFaults
     /\ faults' = faults + 1
     /\ \E n \in 0..Len(units) :
          /\ written' = written \o SubSeq(units, 1, n)
          /\ files' = [files EXCEPT
               ![Current] = Lengthened(n, IF n < Len(units) THEN 0 ELSE n)]
     /\ holder' = h
  \/ /\ h.writes /\ faults < MaxFaults /\ Len(Grown(Len(units))) > Current
     /\ faults' = faults + 1
     /\ written' = written \o units
     /\ files' \in {Grown(Len(units)),
                   [files EXCEPT ![Current] = Lengthened(Len(units), Len(units))]}
     /\ holder' = [h EXCEPT !.writes = FALSE]

\* The agent writes to its terminal.
ChildWrites ==
  /\ holder.phase = "running" /\ holder.child /\ produced < MaxOutput
  /\ pty' = pty + 1 /\ produced' = produced + 1
  /\ UNCHANGED <<written, files, holder, engineVars, stops, faults>>

\* The agent exits or is killed.
ChildExits ==
  /\ holder.phase = "running" /\ holder.child
  /\ holder' = [holder EXCEPT !.child = FALSE]
  /\ UNCHANGED <<written, files, pty, engineVars, counters>>

Drained(h) == AppendLog([i \in 1..pty |-> Unit("out")], h)

\* pump_pty; it may be past its look at finished.
PumpPty ==
  /\ holder.phase \in {"running", "finished"} /\ pty > 0
  /\ Drained(holder) /\ pty' = 0
  /\ UNCHANGED <<engineVars, produced, stops>>

\* watch_exit: waitpid, and finished is set, which is_alive looks at.
WatchExit ==
  /\ holder.phase = "running" /\ ~holder.child
  /\ holder' = [holder EXCEPT !.phase = "finished"]
  /\ UNCHANGED <<written, files, pty, engineVars, counters>>

\* The pump is joined and what the terminal still holds is drained.
FinalDrain ==
  /\ holder.phase = "finished"
  /\ pty' = 0
  /\ LET h == [holder EXCEPT !.phase = "drained"]
     IN  IF pty > 0 THEN Drained(h)
         ELSE holder' = h /\ UNCHANGED <<written, files, faults>>
  /\ UNCHANGED <<engineVars, produced, stops>>

WriteMarker ==
  /\ holder.phase = "drained"
  /\ AppendLog(Marker, [holder EXCEPT !.phase = "marked"])
  /\ UNCHANGED <<pty, engineVars, produced, stops>>

\* The control files go, and then the manager's entry.
Cleanup ==
  /\ holder.phase \in {"marked", "leaving"}
  /\ holder' = [holder EXCEPT !.phase = IF @ = "marked" THEN "leaving" ELSE "gone"]
  /\ UNCHANGED <<written, files, pty, engineVars, counters>>

\* The manager's process dies, and the terminal with it.
HolderDies ==
  /\ holder.phase \notin {"none", "gone"} /\ faults < MaxFaults
  /\ faults' = faults + 1
  /\ holder' = [holder EXCEPT !.phase = "gone", !.child = FALSE]
  /\ pty' = 0
  /\ UNCHANGED <<written, files, engineVars, produced, stops>>

\* What a stat that is answered says of the child.
Alive == holder.phase = "running"
\* stat answers
Answers == holder.phase \in {"running", "finished", "drained", "marked"}

-----------------------------------------------------------------------------
(***************************************************************************)
(* The Engine: launching and adopting.                                     *)
(***************************************************************************)
Blank == [shown |-> <<>>, gaps |-> {}, jumps |-> {}]

\* OutputLog::reader: the handle is kept, and the tail it found is taken for
\* the start of its ring.
Opened(pc) ==
  [pc |-> pc, inc |-> 0, ghost |-> FALSE, floor |-> 0, handle |-> Current, opened |-> FileTail,
   watched |-> 0, stale |-> FALSE, offset |-> 0, buffer |-> "empty",
   replaying |-> TRUE, dirty |-> FALSE]

\* A session is created again under its id (or for the first time).
Resume ==
  /\ engine.pc \in {"down", "exited"}
  /\ holder.inc < MaxIncarnations
  /\ engine' = Opened("launch")
  /\ screen' = Blank /\ exit' = None
  /\ UNCHANGED <<holderVars, checkpoint, counters>>

\* HolderLauncher::launch and HolderManagerServer's Launch: a Holder that is
\* alive is adopted, and one that is still finishing is taken for a launch
\* under way.
Launch ==
  /\ engine.pc = "launch"
  /\ engine' = [engine EXCEPT !.pc = "attach", !.floor = files[engine.handle].tail,
                              !.ghost = holder.phase \notin {"none", "running", "gone"}]
  /\ holder' = IF holder.phase \in {"none", "gone"}
               THEN [phase |-> "running", inc |-> holder.inc + 1, epoch |-> FileTail,
                     child |-> TRUE, writes |-> TRUE]
               ELSE holder
  /\ files' = IF holder'.inc = holder.inc THEN files
              ELSE [files EXCEPT ![Current].bytes = FileTail - files[Current].base]
  /\ UNCHANGED <<written, pty, screen, checkpoint, exit, counters>>

\* wait_for_holder: any stat attaches, and so does a log that grew.
Attach ==
  /\ engine.pc = "attach"
  /\ \/ /\ Answers
        /\ engine' = [engine EXCEPT !.pc = "start", !.inc = holder.inc, !.floor = holder.epoch]
        /\ UNCHANGED exit
     \/ /\ ~Answers /\ FileTail > engine.floor
        /\ engine' = [engine EXCEPT !.pc = "start", !.inc = holder.inc]
        /\ UNCHANGED exit
     \/ /\ ~Answers /\ FileTail <= engine.floor
        /\ engine' = [engine EXCEPT !.pc = "exited"]
        /\ exit' = Without("failed")
  /\ UNCHANGED <<holderVars, screen, checkpoint, counters>>

\* A restarted Engine adopts a Holder that says its child is alive.
Adopt ==
  /\ engine.pc = "down" /\ Alive
  /\ engine' = [Opened("start") EXCEPT !.inc = holder.inc, !.floor = holder.epoch]
  /\ screen' = Blank /\ exit' = None
  /\ UNCHANGED <<holderVars, checkpoint, counters>>

Usable(tail) == checkpoint # None /\ checkpoint.offset <= tail
                  /\ tail - checkpoint.offset <= ReplayBudget

\* pump_held, to its loop: the watcher is armed on the file at the path, and
\* a checkpoint that is near enough and decodes seeds the screen. A reader
\* knows no sync points.
StartPump ==
  /\ engine.pc = "start"
  /\ LET f == files[engine.handle]
         e == [engine EXCEPT !.pc = "read", !.watched = IF Watcher THEN Current ELSE 0,
                       !.stale = engine.handle # Current]
         start == Max({f.tail - ReplayBudget, f.base, 0})
     IN  \/ /\ Usable(f.tail)
            /\ engine' = [e EXCEPT !.offset = checkpoint.offset, !.buffer = checkpoint.buffer]
            /\ screen' = checkpoint.screen
         \/ /\ engine' = [e EXCEPT !.offset = start]
            /\ screen' = [Blank EXCEPT !.jumps = {start}, !.gaps = 0..(start - 1)]
  /\ UNCHANGED <<holderVars, checkpoint, exit, counters>>

-----------------------------------------------------------------------------
(***************************************************************************)
(* The Engine: tailing the log.                                            *)
(***************************************************************************)

\* reader_handle: the cached one, or the file at the path.
Handle == IF engine.handle = 0 THEN Current ELSE engine.handle

\* refresh_from_disk and read: [from, start, end), where from is what read
\* clamps to and start what read_from_disk clamps to.
Reading ==
  LET f == files[Handle]
      oldest == IF engine.opened < f.base THEN engine.opened ELSE f.base
      from == IF engine.offset < oldest THEN oldest ELSE engine.offset
  IN  [none |-> from >= f.tail,
       start |-> IF from < f.base THEN f.base ELSE from,
       end |-> IF f.tail < from + ReadSize THEN f.tail ELSE from + ReadSize]

Empty(r) == r.none \/ r.start = r.end
Underflows(r) == ~r.none /\ r.end < r.start

\* Every marker ends the session, one of an earlier incarnation too.
FeedEveryMarker(acc, o) ==
  LET u == written[o + 1]
      kept == acc.buffer # "empty"
  IN  [acc EXCEPT
        !.out = IF u.kind # "head" /\ ~kept THEN Append(@, o) ELSE @,
        !.buffer = IF u.kind = "end" THEN "empty"
                   ELSE IF kept THEN "junk"
                   ELSE IF u.kind = "head" THEN "marker" ELSE @,
        !.exit = IF u.kind = "end" /\ acc.buffer = "marker"
                 THEN [how |-> "marker", inc |-> u.inc] ELSE @]

\* HolderExitMarker::drain, one unit at a time. What follows the first half
\* of a marker is kept back until something ends it.
Feed(acc, o) ==
  LET u == written[o + 1]
      kept == acc.buffer # "empty"
      fed == [acc EXCEPT
        !.out = IF u.kind # "head" /\ ~kept THEN Append(@, o) ELSE @,
        !.buffer = IF u.kind = "end" THEN "empty"
                   ELSE IF kept THEN "junk"
                   ELSE IF u.kind = "head" THEN "marker" ELSE @,
        !.exit = IF u.kind = "end" /\ acc.buffer = "marker" /\ o >= engine.floor
                 THEN [how |-> "marker", inc |-> u.inc] ELSE @]
  IN  IF o = engine.floor - 1 THEN [fed EXCEPT !.buffer = "empty"] ELSE fed

\* What the pump has made of the units from start to end.
Fed(start, end) ==
  LET fed[o \in start..end] ==
        IF o = start
        THEN [out |-> <<>>, exit |-> None,
              buffer |-> IF start > engine.offset THEN "empty" ELSE engine.buffer]
        ELSE Feed(fed[o - 1], o - 1)
  IN  fed[end]

\* The checkpoint names the end of the log instead of the pump's place in it.
SavedAtTail(e, scr) == [offset |-> FileTail, screen |-> scr, buffer |-> e.buffer]

Saved(e, scr) == [offset |-> e.offset, screen |-> scr, buffer |-> e.buffer]

\* persist_checkpoint, whose write may fail.
PersistCheckpoint(e, scr) == checkpoint' \in {checkpoint, Saved(e, scr)}

\* A round of the loop that finds output.
ReadChunk ==
  /\ engine.pc = "read"
  /\ \E r \in {Reading} : ~Empty(r) /\ ~Underflows(r)
       /\ \E fed \in {Fed(r.start, r.end)} :
            /\ engine' = [engine EXCEPT
                 !.handle = Handle, !.offset = r.end, !.buffer = fed.buffer,
                 !.dirty = @ \/ fed.out # <<>>,
                 !.pc = IF fed.exit = None THEN "read" ELSE "exited"]
            /\ screen' = [
                 shown |-> screen.shown \o fed.out,
                 gaps |-> screen.gaps \cup engine.offset..(r.start - 1),
                 jumps |-> IF r.start > engine.offset THEN screen.jumps \cup {r.start}
                           ELSE screen.jumps]
            /\ exit' = IF fed.exit = None THEN exit ELSE fed.exit
  /\ IF engine'.pc = "exited" /\ engine'.dirty THEN PersistCheckpoint(engine', screen')
     ELSE UNCHANGED checkpoint
  /\ UNCHANGED <<holderVars, counters>>

\* The file's base is further ahead than a read: the length that
\* read_from_disk computes is negative and the thread panics.
Panic ==
  /\ engine.pc \in {"read", "look"} /\ Underflows(Reading)
  /\ engine' = [engine EXCEPT !.pc = "panicked", !.handle = Handle]
  /\ UNCHANGED <<holderVars, screen, checkpoint, exit, counters>>

\* A round that finds nothing: the replay is over, or the output settled.
Quiet ==
  /\ engine.pc = "read" /\ Empty(Reading)
  /\ \E settled \in BOOLEAN :
       LET saves == engine.dirty /\ (engine.replaying \/ settled)
       IN  /\ engine' = [engine EXCEPT !.pc = "wait", !.handle = Handle,
                         !.replaying = FALSE, !.dirty = engine.dirty /\ ~saves]
           /\ IF saves THEN PersistCheckpoint(engine, screen) ELSE UNCHANGED checkpoint
  /\ UNCHANGED <<holderVars, screen, exit, counters>>

\* The watcher's wait: rotation replaced the file it watched.
Waited(pc) ==
  LET replaced == engine.watched \in 1..(Current - 1)
  IN  [engine EXCEPT !.pc = pc, !.watched = IF replaced THEN Current ELSE @,
                     !.handle = IF replaced THEN 0 ELSE @, !.stale = @ /\ ~replaced]

Wait ==
  /\ engine.pc = "wait"
  /\ engine' = Waited("read")
  /\ UNCHANGED <<holderVars, screen, checkpoint, exit, counters>>

\* Nobody asks the Holder.
ProbeNever ==
  /\ engine.pc = "wait"
  /\ engine' = Waited("read")
  /\ UNCHANGED <<holderVars, screen, checkpoint, exit, counters>>

\* ... with the liveness probe of every few seconds without output: is_alive
\* takes any error of the stat for a Holder that is gone.
Probe ==
  /\ engine.pc = "wait"
  /\ \E answered \in BOOLEAN :
       engine' = Waited(IF Alive /\ answered THEN "read" ELSE "look")
  /\ UNCHANGED <<holderVars, screen, checkpoint, exit, counters>>

\* The probe found nobody and that is all it looks at.
LookNoMore ==
  /\ engine.pc = "look"
  /\ engine' = [engine EXCEPT !.pc = "exited"]
  /\ exit' = Without("unknown")
  /\ UNCHANGED <<holderVars, screen, checkpoint, counters>>

\* One last look for a marker.
Look ==
  /\ engine.pc = "look"
  /\ \E r \in {Reading} :
       \/ /\ Empty(r)
          /\ engine' = [engine EXCEPT !.pc = "exited"] /\ exit' = Without("unknown")
          /\ IF engine.dirty THEN PersistCheckpoint(engine, screen)
             ELSE UNCHANGED checkpoint
       \/ /\ ~Empty(r) /\ ~Underflows(r)
          /\ engine' = [engine EXCEPT !.pc = "read", !.handle = Handle]
          /\ UNCHANGED <<exit, checkpoint>>
  /\ UNCHANGED <<holderVars, screen, counters>>

\* The session is dropped or the Engine ends.
Stop ==
  /\ engine.pc # "down" /\ stops < MaxStops
  /\ stops' = stops + 1
  /\ engine' = [engine EXCEPT !.pc = "down"]
  /\ IF engine.pc \in {"read", "wait", "look"} /\ engine.dirty
     THEN PersistCheckpoint(engine, screen) ELSE UNCHANGED checkpoint
  /\ UNCHANGED <<holderVars, screen, exit, produced, faults>>

-----------------------------------------------------------------------------
Init ==
  /\ written = <<>> /\ files = <<[base |-> 0, tail |-> 0, bytes |-> 0]>>
  /\ holder = [phase |-> "none", inc |-> 0, epoch |-> 0, child |-> FALSE, writes |-> FALSE]
  /\ pty = 0
  /\ engine = [Opened("down") EXCEPT !.handle = 1]
  /\ screen = Blank /\ checkpoint = None /\ exit = None
  /\ produced = 0 /\ stops = 0 /\ faults = 0

Agent == ChildWrites \/ ChildExits
HolderStep == PumpPty \/ WatchExit \/ FinalDrain \/ WriteMarker \/ Cleanup
PumpStep == Attach \/ Launch \/ StartPump \/ ReadChunk \/ Panic \/ Quiet \/ Wait \/ Probe \/ Look

Next == Agent \/ HolderStep \/ HolderDies \/ Resume \/ Adopt \/ PumpStep \/ Stop

Spec == Init /\ [][Next]_vars

\* The Holder's threads and the pump run on; the probe's interval passes.
FairSpec == Spec /\ WF_holderVars(HolderStep) /\ WF_engine(PumpStep) /\ SF_engine(Probe)

-----------------------------------------------------------------------------
(***************************************************************************)
(* Properties.                                                             *)
(***************************************************************************)
Watching == engine.pc \in {"read", "wait", "look"}
Buffers == {"empty", "marker", "junk"}

\* Every variable stays in its type.
TypeOK ==
  /\ \A i \in DOMAIN files :
       /\ files[i].base \in 0..files[i].tail /\ files[i].tail \in 0..Len(written)
       /\ files[i].bytes \in 0..(files[i].tail - files[i].base)
  /\ holder.phase \in {"none", "running", "finished", "drained", "marked", "leaving", "gone"}
  /\ holder.inc \in 0..MaxIncarnations /\ holder.epoch \in 0..Len(written)
  /\ pty \in 0..MaxOutput
  /\ engine.pc \in {"down", "launch", "attach", "start", "read", "wait", "look", "exited",
                    "panicked"}
  /\ engine.handle \in 0..Current /\ engine.watched \in 0..Current
  /\ engine.offset \in 0..Len(written) /\ engine.floor \in 0..Len(written)
  /\ engine.buffer \in Buffers
  /\ screen.gaps \cup screen.jumps \cup Range(screen.shown) \subseteq 0..Len(written)
  /\ checkpoint # None => checkpoint.offset \in 0..Len(written) /\ checkpoint.buffer \in Buffers
  /\ exit \in [how : {"marker", "unknown", "failed"}, inc : 0..MaxIncarnations] \cup {None}

\* A write failed in the middle of a marker.
Torn ==
  \E i \in DOMAIN written :
    /\ written[i].kind = "head"
    /\ i = Len(written) \/ written[i + 1].kind # "end"

\* "readers are never handed a rewound tail", a checkpoint is "the exact
\* raw-log offset it represents" and the pump is "stripping exit markers before
\* the emulator sees them": through rotations, restarts and checkpoints the
\* screen gets every unit of output once and in order, less what was rotated
\* away or lay before the replay, and no part of a marker unless reading began
\* in the middle of it. (What follows a torn marker may be taken for the rest
\* of it.)
ScreenIsFaithful ==
  /\ \A o \in Range(screen.shown) : written[o + 1].kind = "out" \/ o \in screen.jumps
  /\ Watching =>
       /\ \A i, j \in DOMAIN screen.shown : i < j => screen.shown[i] < screen.shown[j]
       /\ \A o \in 0..(engine.offset - 1) :
            written[o + 1].kind = "out" =>
              o \in Range(screen.shown) \cup screen.gaps \/ Torn

\* "honoring only markers at or beyond exit_marker_floor": the exit shown is
\* the one of the incarnation that is watched.
ExitIsOwn == exit # None /\ exit.how = "marker" => exit.inc = engine.inc

\* A rotation the pump has not followed.
Blind == engine.handle # 0 /\ engine.handle < Current

\* The file begins a whole read or more beyond the pump.
Outrun == ~Reading.none /\ Reading.end <= Reading.start

\* "so wakeups are never lost": while the pump reads a file that was rotated
\* away, the watcher still has to tell it so, unless the rotation came between
\* opening the log and arming the watcher.
RotationIsFollowed ==
  Watching /\ Blind => engine.watched \in 1..(Current - 1) \/ engine.stale

\* "One last look for a marker that raced the probe": a session is not
\* reported to have died without a marker while its marker is in the log,
\* unless the log was rotated under the pump or outran it, a marker
\* was torn, or the session was resumed while its last Holder was finishing.
LastLookFinds ==
  [][exit' = Without("unknown") /\ exit # exit' =>
       \/ engine.ghost \/ Blind \/ Outrun \/ Torn
       \/ \A i \in DOMAIN written : written[i] # [kind |-> "end", inc |-> engine.inc]]_vars

\* "A rotation can move the readable floor past us; resynchronize": the pump
\* survives it, unless it was behind by more than what a rotation keeps and a
\* read together.
PumpSurvives ==
  engine.pc = "panicked" =>
    files[engine.handle].tail - engine.offset > DiskCapacity \div 2 + ReadSize

\* "A holder that dies without a marker is caught by a periodic liveness
\* probe": the exit of a session whose Holder is gone is recorded, unless the
\* Engine ends first, the session is resumed, or its pump panics on a file that
\* begins beyond its read (PumpSurvives says when): that session never exits.
EndIsNoticed ==
  (Watching /\ holder.phase = "gone") ~>
    (exit # None \/ engine.pc \in {"down", "panicked"} \/ holder.phase # "gone")
=============================================================================

# diri: a TLA+ verification project

diri runs coding agents in terminals that outlive the window that shows them. A
per-user **engine** daemon owns the sessions; the desktop app, scripts and MCP
clients talk to it over a control socket; the process of a session is kept alive
by a **Holder**, a small process on this machine (local Holder) or on another one
(remote Helper, reached over SSH). Losing the app, the engine or the network must
not lose the session. The modules here model the parts of the Rust workspace
(`diri/crates`) on which that promise rests.

Sections: 1 inventory, 2 modules and the code, 3 runs, 4 disagreements with the
documentation, 5 proofs, 6 what is not modelled, 7 plan.

## 1. Inventory

Paths are under `diri/crates`.

| Component | Source | State | Operations | What is hard | What makes it correct |
|---|---|---|---|---|---|
| Event bus, event clients | `diri-engine/src/events.rs`, `control.rs`, `diri-client/src/client.rs` | seq counter, replay ring, a bounded queue per subscriber; the client's `last_seq` | publish, subscribe with `sinceSeq`, forward, route, reconnect | publishers race after the bus lock is released; slow consumers; reconnects; daemon restart | the ring has no hole; nothing is delivered twice; a resume skips nothing silently; queues stay bounded |
| Remote Holder: lease | `diri-remote/src/holder.rs`, `bridge.rs`, `diri-engine/src/remote/client.rs`, `session.rs` | epoch, live and pending connection, their buffers, input the PTY has not taken; each Engine's Bridge and epoch | accept, read, handshake, promote, refuse, write, drop; connect, break, reconnect | attaches overlap, linger and break inside a read; local processes without the token connect too | only the newest controller gets input accepted, and the PTY takes it in that order; a broken transport is never shown as an exit; attaches are answered |
| Remote Holder: stream | `holder.rs`, `output_log.rs`, `diri-terminal-state`, `session.rs` | output log, outbound buffer, diff baseline, snapshot sequence; the Engine's offset, mirror and log | drain, replay, diff, snapshot, overflow, exit; apply output, snapshot, delta, exit; adopt | replay overlaps what was applied; overflow discards frames; the Engine restarts between two writes | the log has every chunk once and in order; the mirror equals the terminal; exits are true and reported |
| Attach hub | `diri-engine/src/attach.rs`, `session.rs`, `diri-terminal-state`, `registry.rs` | sinks, pump thread, wake generation, signature, diff baseline | seed, register, broadcast, deregister, resize, replace the session | seed, registration, feed and notify are separate steps under different locks; one baseline for all sinks | a sink always has a pump; clients end up showing the terminal |
| Status reducer and its application | `diri-engine/src/status/mod.rs`, `session.rs`, `registry.rs` | reducer state, shared status, state version, published record | hook, screen, output, tick and exit signals; apply; seed; poll | an outcome is applied after the reducer is released; the watcher compares versions, not records | a prompt on the screen is not lost; one stray frame does not make a working session idle; the record settles on what the reducer concluded; the exit reaches it |
| Input, launch, hibernation | `session.rs`, `attach.rs`, `remote/client.rs`, `registry.rs`, `governor.rs` | deferred launch, three input queues, hibernation flag and record, channel | type, resize, launch, hibernate, wake, sweep, connect, grant | queued input and input written directly overtake each other; the governor acts on what it read earlier | each key arrives once and in order; a stopped tree that is looked at can be woken; a terminated launch leaves no child |
| Local Holder, log, held pump | `diri-engine/src/holder/server.rs`, `log.rs`, `checkpoint.rs`, `session.rs` | log file and its inodes, offsets, exit marker, checkpoint, pump | drain, rotate, reap, mark; read, watch, probe, checkpoint; resume, adopt | reader and writer are different processes; rotation replaces the file; a marker is split between reads or torn | the screen gets every byte once; an exit is that of the session's own incarnation; a dead Holder is noticed |
| Holder manager and launcher | `diri-engine/src/holder/manager.rs`, `launcher.rs` | hosted sessions, listener, idle timer, socket and pid file, launch lock | launch, ping, shutdown if idle, idle watchdog, clean-up | a launch accepted while the manager is ending; a successor that is up before the clean-up | the socket leads to the manager that listens; a manager does not end under a session |
| Registry | `registry.rs`, `control.rs`, `events.rs`, `diri-app/src/store/mod.rs` | records, live sessions, state file, bindings, running agents; the App's list | spawn, kill, remove, reopen, archive, resume, poll, flush, load, reap, adopt, restore | requests look twice without the lock in between; the state file lags; the watcher publishes what it cloned; a call drops the session and then fails | a resume takes no live session away; no record without a session, no agent without a record; the App's list is right in the end |
| Remote launch | `diri-remote/src/{lib,holder,state}.rs`, `diri-engine/src/remote/manager.rs`, `session.rs`, `control.rs` | session directory, two locks, Holder, Agent, guard; the Engine's binding | launch, inspect, kill, gc; start, guard, record exit; retry, clean up, restore | a channel fails while the command goes on; liveness is asked by taking the lock | at most one Holder per session; a retried launch leaves no unknown Agent; an answer names a live Holder |
| Node service, updater | `diri-node`, `diri-updater` | checkpoints, staged bundle | create, restore; stage, swap | a crash between two file operations | the old state or the new one |
| Control server, MCP, hooks, app | `control.rs`, `dirijor-mcp`, `diri-app` ... | | dispatch, glue, rendering | | |

Components interact through calls under the Registry lock (control, attach,
governor), through the bus (everything that changes a record publishes), through
the Holder protocol (Engine and Holder), and through wake sources (PTY readers
and the attach pump), through the output log (local Holder and Engine) and
through the files of a remote session (Helper commands and Holder).

## 2. Modules and the code

`PROJECT.json` maps each definition to its lines. Actions are named after the
function they model; a mutant, named for what it gets wrong, stands before the
definition it distorts and is used by no specification. History variables
(`overtaken`, `crossed`, `lost`, `swept`, `missed`, `late` ...) record that a
known race happened, so that a property can say what holds when it did not.
Where a module has a `TypeOK` it documents the types; TLC confirms it on the
instances of section 3, and for HolderLease, AttachHub, Registry, SessionInput and
SessionStatus it is proved. HolderManager and RemoteStream name their specifications
`ManagerSpec` and `StreamSpec` (and so on), so that one module of proofs can extend
two components. Five formulas are stated for section 4 only: `EventBus!HolesAreReported`,
`HolderLease!LiveHoldsTheLease` and `DroppedBridgeIsLeft`,
`AttachHub!QuiescentGridIsCurrent`, `HeldSession!RotationIsFollowed`.

**EventBus.** `PublishStamp` is `publish` under the bus lock (stamp, archive,
trim, clone the list of subscribers); `PublishPush` pushes to one queue after the
lock is released. `Subscribe` is the replay and registration in one critical
section; `Forward` and `Route` are the forwarder thread and the client's reader.
An event is its seq and its name. `Disconnect` loses the wire and the queue;
`Restart` loses the daemon's bus and keeps the clients' `last_seq`. The size of
an archived event is a constant of its name (`Bytes`), and trimming keeps the
longest suffix within the ring's two bounds.

**ControllerLease** is the abstract promise: acquiring opens an epoch, only the
last to acquire gets input accepted, and the PTY takes what was accepted in that
order, at once or later. **HolderLease** is the detailed machine. The Holder is one
thread whose read loop takes a connection out of its slot while it drains the
socket, so `ReadConnection`, one step per message, and the end of the read are
separate actions with the slot empty in between. `ApplyInput` is `write_input`: the
input goes behind what is in `pending_input` already (up to `InputLimit`; beyond it the
connection is refused) and the PTY takes some of it; `FlushInput` is the poll loop's
`flush_input`, which may come after a newer attach. `applied` is what the PTY took. A
Bridge is two queues and an end-of-file flag. `StrangerConnects` is a local process without the token.
`Lease == INSTANCE ControllerLease WITH ...` gives the refinement: the owner is
the connection whose epoch is the Holder's, and what was accepted is what the PTY
took followed by `pending_input`.

**RemoteStream** follows one Engine and its Holder: `DrainPty` logs, feeds and
queues a chunk; `Handshake` queues HelloAck, replay and snapshot; `Queue` is the
outbound buffer with its two ways of overflowing; `EmitGridDelta` diffs against
`last_cells`; the `Receive*` actions are `handle_remote_message`. Offsets count
chunks; the terminal shows `Screen[n]` after n of them, and the configuration
chooses what it shows (`SpinnerScreen`, whose row returns; `FlatScreen`).
`EngineRestart` loses what the Engine had in memory, adopts from the saved
binding, and can fall between the save of the offset and the append to the log.
Two histories say where the known disagreements begin: `ungreeted`, that the Holder
replaced a full buffer with HelloAck still in it, and `returned`, that a row was back
at the diff baseline when it was compared; `shown` is the row the connection had then.

**AttachHub** follows one local session. `Feed` and `Notify` are the reader's two
steps. `Seed` holds the Registry lock from the sample to the write; `Register`
takes the hub lock later. The pump's round is `Wait` (bounded, and it looks for a
replaced session), `Coalesce` (the pause that paces background output),
`Observe`, `Send` and `CheckEmpty`. A terminal has one row because rows are
compared and applied one by one. Writes are applied to the client's view when
they are made: a sink's socket is in order and has one writer at a time. `missed`
marks a sink that a pump passed over between its seed and its registration, or
(`Returned`) for which the terminal is back at what the pump sent last.

**SessionStatus.** `ReduceFeed`, `ReduceActivity`, `ReduceScreen`, `ReduceTick`
and `ReduceExit` are the reducer's arms, as functions of its state. A thread
reduces in one step and applies in two (`ApplyStatus`, `ApplyDetail`), as
`apply` takes its locks; `SeedStatus` is adoption; the watcher reads the version
(`WatchVersion`) and later the view (`WatchView`). Clock readings are kept as the
comparisons made with them: `GraceExpires`, `CandidateRipens`, `FallsQuiet`.

**SessionInput.** A key is in one of five places: the deferred launch's queue,
the launcher's hand-off, the hibernation queue, the reconnect queue or the
channel. The registry lock makes requests atomic; the launcher thread
(`DecideSize`, `HolderReady`, `FinishLaunch`, `FlushLaunch`), the remote pump
(`Connect`, `AcceptHello`, `GrantControl`, `Disconnect`) and the governor's sweep
(`SweepRecord`, `SweepAttached`, `SweepFreeze`) work in separate steps.

**Registry.** A control method is one step under the registry lock, publication
included, with the ways in which it fails (`SpawnFails`, `RespawnFails`, `Kills`);
`ResumeLook` and `Resume` are the two looks of `session_resume`. `Poll` and
`WatcherPublish` are the watcher before and after it releases the lock; `Flush` is the
debounced writer. `Restart` loads the state file, adopts the local Holders that answer
and reaps; the thread that restores remote sessions runs beside the control methods
(`LoadBindings`, `RestoreRemote`). A session is its status and its version; `running`
has the ids whose agent runs, whatever the Engine knows, and `abandoned` those whose
record or binding was let go while it did.

**HeldSession.** Offsets count units: a chunk or half an exit marker. `PumpPty`,
`WatchExit`, `FinalDrain`, `WriteMarker`, `Cleanup` are the Holder's threads;
`AppendLog` may fail part way; rotation gives the file a new inode and the pump
keeps its handle until `Waited` tells it. `StartPump` loads the checkpoint,
`ReadChunk` reads, strips markers, feeds and may save one, `Probe` and `Look` are
the liveness probe and the last look after it.

**HolderManager.** A launcher holds the launch lock from `AcquireLock` to its
answer or `GiveUp`. The manager is its accept loop (`Accepts`, `Handle*`), a
thread per session, which may fail to start, and the watchdog, whose look (`WatchIdle`), `StopListener` and
`CloseListener` are three steps. `Unlink` and `Bind` are two: a socket path may
lead nowhere.

**RemoteLaunch.** Every Helper command, Holder and guard is a process of its own
that reads and changes the session's files step by step, one file at a time also
where it deletes them (a reset, gc: state and socket, the lock, at last the directory
unless a Holder has put something into it); `Probe` and `Release` are the two halves
of `holder_lock_held`, which takes the lock to ask whether it is taken (`KillPolls` is
the same for the wait of a kill, whose several polls are one). A Holder whose
directory is gone when it binds ends. The Engine waits for one command at a time; `ChannelFails` makes it
deaf to a command that goes on. Between a probe and the end of the command that
made it anything may happen. The Holder is a child of its launch command.
`overtaken` records that a launch reset a session whose Holder was alive, which
`AnswerIsLive` excepts; `stale` that inspect or kill wrote what they had read of
an earlier Holder over the state of a live one, which `LaunchIsRecovered` excepts
(section 5 says how both were found).

## 3. Runs

Twelve runs, all of which pass, each in a few minutes or less. The bounds use
the systems up: a state in which nothing more is allowed to happen is the end of
an instance and not a deadlock of the program, so deadlock is not checked.

| Run | Instance | Shows |
|---|---|---|
| `event_bus` | 2 publishers, a client that wants some of the events, ring and queue of 2, 4 events, 2 connections, a restart | the ring has no hole; no event is routed twice; what a client skips was evicted from its queue or the ring, or overtaken; the newest event gets through |
| `lease` | 2 Engines, 3 connections, strangers, 3 writes, 2 of them pending | the Holder implements the lease; no two Engines hold one epoch; every attach is answered or dropped for a newer one |
| `stream_log` | a row that returns, 3 chunks, log of 2, replay budget 1, buffer of 6, 2 broken Bridges, a resize | the log is faithful, deltas extend the mirror, a drained stream leaves it current (but for `returned`) and an exit shown is an exit (but for `ungreeted`), through overflow and truncation |
| `stream_arrives` | 2 chunks, log of 4, a buffer that does not overflow, 3 broken Bridges, a restart | output and exit arrive, also by the inspection of every third reconnect |
| `attach_fresh` | 2 clients, 2 attaches, 2 chunks, 2 resizes, a replacement | `SinkIsServed`: no sink without a pump; `SinkIsCurrent`: a sink shows the terminal unless it was passed over or the terminal returned |
| `attach_live` | 1 client, a spinner of 3 chunks, a resize | clients end up with the terminal's grid |
| `session_status` | a feeder and the pump, thresholds of 2, 3 signals, every authority, spawned and adopted | `BlockerHolds`, `NoFlicker`, `RecordIsReduced`, `StartingEnds`, `ExitReachesTheRecord` |
| `session_input` | a local or a remote session, 2 keys or sizes, a reconnect queue of 1, one visit, freeze, restart and broken channel | `InputIsFaithful`, `FrozenTreeCanWake`, `SizeIsCurrent`, `NoOrphan`, `KeysArrive` |
| `registry` | 1 id, local or hosted, 2 clients that resume, 5 requests, 2 restarts, each with its remote restore | `NoGhost`, `LiveSessionStays`, `NoLostProcess`, `ViewIsCurrent` |
| `holder_manager` | 2 launchers, 2 sessions, 2 managers, 3 launches, a shutdown request, a fault | `ListenerIsReachable`, `EndsWithoutSessions` |
| `held_session` | log of 4 units, reads of 2, replay of 2, 3 chunks, 2 incarnations, an Engine restart, a failing write or death | `ScreenIsFaithful`, `ExitIsOwn`, `PumpSurvives`, `LastLookFinds`, `EndIsNoticed` |
| `remote_launch` | 3 commands, 2 launches, an inspection or gc, 2 faults | `OneHolder`, `LaunchIsRecovered`, `AnswerIsLive` |

**Bounds.** Two publishers are the fewest that race; three connections are a live
one, a pending one and one that replaces the pending one; three writes are one the
PTY took, one that waits and one of the next controller; log, ring and queue
capacities are small enough to be passed within the run; two broken Bridges let a
replay be interrupted by the next, three reach the inspection. Two clients are the fewest that share a
baseline. Two outcomes in flight, one from a feeder and one from the pump, are the
fewest that cross. Two keys can be in the wrong order. Two incarnations share a
log. Three commands are a launch, its retry and one that interferes; two faults
are a channel that fails and a process that dies. Larger instances were run once
and pass: `event_bus` with 5 events (847,000 states), `registry` with 2 ids, one
request and one restart (3 million), `session_input` with 3 keys or sizes (3.7
million, safety), `attach_fresh` with 3 chunks, or with 3 attaches, of a spinner (4.6 and 24.4
million).

**Symmetry.** `attach_fresh` (clients) and `holder_manager` (launchers, sessions)
use symmetry; both check invariants only.

**Fairness.** Threads and poll loops keep running: the Holder's loop, the Bridge
process, the remote pump, the forwarder and the client's reader, the PTY reader
between its feed and its notify, the attach pump (its wait times out after a
second), the feeder and the pump between reducing and applying, the pump's tick,
the registry watcher, the launcher thread, the local Holder's threads and the held
pump. It is weak, because each waits only for its own input and nothing takes a
step away from it. One is strong: the held pump's liveness probe, which falls due
by the clock but only while there is nothing to read; the loop comes by it again
and again. Clock readings (`GraceExpires`, `CandidateRipens`) become true in the
end. The user, the Agent and the network are under no fairness: keys, output,
exits, resizes, attaches and failures may stop at any time.

**Restrictions that matter.** `stream_arrives` has a buffer that does not overflow,
`stream_log` no Engine restart, `attach_live` one attach, and `held_session` a watcher
(macOS). Without these the property fails, which is what section 4 is about.

## 4. Where code and documentation disagree

Each line is an instance of the project's modules in which TLC finds the property
violated; the change is relative to the configuration named. They are not kept as
runs.

| Property | Instance | What happens |
|---|---|---|
| `GaplessResume` without `restarts = 0` | `EventBus.cfg` | the client resumes with the old daemon's `last_seq` (`client.rs:205`), so the first events of a restarted daemon are not replayed; `events.rs:2` promises "gapless reconnect via `sinceSeq`" |
| `GaplessResume` without `overtaken` | `EventBus.cfg` | two publishers push out of seq order and the connection breaks in between: the client resumes past an event it never got |
| `HolesAreReported` | `EventBus.cfg`, 1 publisher, all kinds wanted, 1 connection, `MaxSeq = 6` | a second burst evicts the marker of the first |
| `LiveHoldsTheLease` | `HolderLease.cfg` under `Spec`, 2 connections, no strangers | Hello and end of stream come in one read: the epoch is taken by a connection that is never promoted |
| `DroppedBridgeIsLeft` | the same under `FairSpec`, `MaxWrites = 0` | the Holder drops a connection, but the Bridge's main thread goes on reading stdin and the Engine waits on it |
| `ExitIsTruthful` without `ungreeted` | `RemoteStreamLog.cfg` | an overflow before the first flush discards HelloAck, the Engine gets an Error first and shows a running Agent as exited with 126 (`holder.rs:1050`; `REMOTE_PORT.md:404` has it "reseeded from a complete snapshot after reconnect") |
| `ExitIsReported` | `RemoteStreamArrives.cfg`, 4 chunks, buffer of 7, no loss, no restart | the queued ProcessExit is discarded |
| `QuiescentMirrorIsCurrent` without `returned` | `RemoteStreamLog.cfg` | a row that changes while detached and changes back equals the stale baseline and is not sent to a connection that was shown another |
| `LogIsFaithful` | `RemoteStreamLog.cfg`, a restart, `PersistInterval = 3` | adoption starts from an offset that lags the log and appends the replay again |
| `QuiescentGridIsCurrent` | `AttachHubFresh.cfg` | a client seeded before, and registered after, a pump moved on is not sent the change (`attach.rs:97`; `session.rs:1060` "closes the race where output lands between the seed and pump registration") |
| `RotationIsFollowed` | `HeldSession.cfg`, `Watcher = FALSE` | where there is no watcher (`session.rs:2772`) a pump stays on the file that was rotated away |

The exceptions that properties make name the rest. They were each met as a
counterexample before they were written down:

- **SessionStatus.** "Exited is absorbing" (`status/mod.rs:223`) holds of the
  reducer; an outcome in flight, or the seed of an adopted session, can be applied
  over the exit. A session that ends or turns Unknown keeps the detail of its last
  prompt (`session.rs:1684`). A prompt set by a hook is not released by an idle
  screen.
- **SessionInput.** A key typed after `finish_launch` (`session.rs:875`) or
  between `accept_hello` and `grant_control` (`remote/client.rs:171`) overtakes
  those queued before; a late size undoes a newer one (`session.rs:878`).
  `grant_control` takes the queue before it writes it and loses it if the write
  fails. `wait_for_holder` giving up leaves a Holder nobody knows
  (`session.rs:862`). Input of the MCP host and the injector does not wake a
  hibernated session; a SIGCONT can be lost with its channel; the governor freezes
  on a record that is no longer true (`governor.rs:158`).
- **HolderLease.** Input that was accepted from one controller and that the PTY had
  no room for is written after the next one has acquired control (`holder.rs:578`),
  ahead of that one's own.
- **Registry.** A local Holder whose `stat` fails or that cannot be adopted leaves an
  agent that runs on behind a record that has exited (`registry.rs:338`, `:370`); a
  resume takes it over. `terminate` drops the error of `kill_tree`, so a local process
  may outlive a kill that was answered as a success (`session.rs:1513`). A spawn that
  fails may have started an agent for which no record is made. The remote restore may
  adopt a Holder over the session that a resume has started meanwhile, and a binding
  it retires goes though the kill failed. The watcher publishes after unlocking (`events.rs:399`), so an old
  update can follow a newer one or a removal; a resumed session may stand at the
  version published for its predecessor; a failed resume drops the session
  without a publication; `session_remove` drops the binding though the remote kill
  failed (`control.rs:1577`); a restart before the debounced flush loses or brings
  back a record.
- **HolderManager.** "The manager exits only after every hosted child has exited
  and an idle grace period has elapsed" (`manager.rs:5`): a launch accepted after
  the watchdog's look is hosted, answered, and ends with the manager; so do the
  sessions of a manager whose `accept` fails. A session whose thread cannot be
  started stays in `active` (`manager.rs:170`), so that the manager never ends and a
  second launch of it is answered as a success. An Engine that gives up after five
  seconds lets two managers come up.
- **HeldSession.** The length of a read is an unsigned difference: a pump outrun
  by a rotation panics (`log.rs:405`), where `session.rs:2464` means to
  resynchronise; its thread is gone and the session shows no exit, ever. A `stat` that
  fails for a live Holder ends the session as "unknown" while the agent runs on. A
  rotation between opening the log and arming the watcher is not
  noticed (`session.rs:2338`). A resume while the old Holder is finishing is
  answered as a success (`holder/manager.rs:150`). A rotation that fails, before its
  rename or after it, ends the log (`log.rs:371`, `:382`).
- **AttachHub.** After a replacement the pump forgets the modes it sent and sends
  none (`attach.rs:239`). A row, a size or a mode that changes back to what the
  pump sent last is not sent to a client that was seeded in between, because the
  baseline is shared by all sinks and the seed does not move it
  (`diri-terminal-state/src/lib.rs:469`). A session that replaces another may reach
  the signature that a seed took from its predecessor. The entry of a pump thread that
  could not be spawned is kept, and its sinks are sent nothing (`attach.rs:183`).
- **RemoteLaunch.** `RemoteManager::launch` says its retry "recovers that exact
  incarnation without spawning a duplicate or leaking an unknown Holder"
  (`remote/manager.rs:633`). It does unless: the first command still has the
  launch lock, and the retry is refused; the first command dies while its Holder
  starts, and the retry resets the files of a Holder that has the lock; the first
  command arrives after the retry; the Engine ends before it saved the binding; or
  a kill fails whose caller removes the binding anyway. An Agent that exits during
  the launch leaves a Holder that keeps the lock. A probe makes a dead Holder look
  alive, or turns a starting one away. inspect and kill may write the state of an
  old incarnation over a new one's. gc may delete the lock of a Holder that is
  starting (`lib.rs:439`), after which two can own the session.

## 5. Proofs

Checked by TLAPS, for every value of the constants that meets the modules'
assumptions: natural bounds, positive capacities and thresholds, placeholders
(`None`, `NoConn`) that are none of the values they stand beside, and three that come
from the code's own numbers: a subscriber's queue holds at least what the ring holds
(`EventBus::new` gives it twice that) and no event is called `events.dropped`; the
replay of a session is at least two units and at most half of its log; the Holder's
outbound buffer has room for a greeting with its replay. Every invariant that a
run checks is stated by a theorem (one of RemoteStream's, `LogIsFaithful`, for
`restarts = 0`), and so are the refinement and the action properties `NoFlicker`,
`LiveSessionStays` and `LastLookFinds`.

- **EventBusProofs**. `RingIsContiguous`: the ring is the newest events in order,
  with their kinds, and within its capacity (`ArchiveInv`; `ArchiveSuffix` says what
  trimming keeps). `DeliveredAtMostOnce` (`AtMostOnce`) and `ResumesAreGapless`
  (`GaplessResume`) follow an event from the bus to the client. `DeliveryInv` adds to
  the archive that no event is in two of the places from which it could still be
  routed, nor in one when it was (`Once`): a subscription starts with what the
  ring replays, and a publisher's targets are of the subscriptions it saw. And that
  everything a client asked for was routed, is on its way, is known to be lost, or is
  still to be replayed because nobody subscribes and `last_seq` is short of it
  (`Covered`); what is on its way behind `last_seq` counts as overtaken. What a replay
  returns is proved by an induction over the ring.
- **HolderControlProofs**, HolderLease. `TypeCorrect`; `UniqueEpochs`: a handshake is the only
  step that changes an epoch, and it takes one above all others;
  `HolderImplementsLease`: because epochs are unique the owner is well defined, a
  handshake is an `Acquire`, an input that is taken an `Accept`, a flush of
  `pending_input` a `Write`, everything else stutters. It says who gets input accepted
  and in which order the PTY takes it, not that the PTY has taken all of it when the
  next controller comes;
  `ControlIsExclusive`: what an Engine believes comes from a HelloAck, so
  `EngineInv` must say that every HelloAck queued or in flight carries the epoch of
  its own connection and that no two Engines read one Bridge.
- **HolderControlProofs**, HolderManager, for any numbers of launchers, sessions and managers.
  `OneListener`: the launch lock is all that keeps a second manager from coming
  up, so the invariant ties each phase of a launcher and of a manager that is
  starting to the lock, and the pid file to who may remove the control files.
  `NoSessionDiesWithItsManager`: what the watchdog saw stays true of the sessions
  that were there; the ones taken in later are in `raced`.
- **AttachHubProofs**, `SinksAreServed`. Register tests the entry's flag, not the
  thread, so `FlagInv` ties the flag to the thread as well as the sinks to it.
  `TypeCorrect` and `SinksAreCurrent` (`SinkIsCurrent`), for any screens and modes,
  repeating or not, and any number of clients, resizes and replacements, rest on
  `SinkInv`: the types; who is in the hub's table (`SinksInv`);
  what a seed that is not yet registered says of the terminal (`SeedOf`); that the
  pump is never ahead of the wake it follows and that its signature and modes are of
  one observation (`PumpInv`); what the frames in hand say (`FramesInv`); that a sink that got a
  broadcast row shows the shared baseline (`BaseInv`); and that when a round has
  seen the last wake every sink shows, or is about to be sent, what the terminal
  has (`CurrentInv`). The attempt showed that the property was false beyond the
  bounds of its run, for rows that return and for a second resize: `missed` did not
  record those cases. It does now, and the run has the second resize.
- **SessionStatusProofs**, `TypeCorrect`, `BlockerIsKept`, `RecordSettles` and
  `IdleIsEarned`, for any number of feeders and any thresholds. Lemmas say what each reduced signal may do to the
  status, the blocker and the outcome. `RecordedInv` has four parts:
  `ReducerInv` (types, and `BlockerHolds` itself); `SharedType`; `FlightInv`: while
  no two outcomes were in flight together, the session shows what the reducer
  concluded, or the one thread with an outcome is about to make it so;
  `RecordInv`: the record is what the session shows, or the version has moved, or
  a thread is still to move it. `IdleIsEarned` is the action property `NoFlicker`. It
  needs `Counted`: while the reducer says Working it has counted no more idle
  frames than the history saw since the last sign of work, and a strong idle is
  backed by evidence enough. A candidacy may be left over in a status that is not
  Working (Working turns Unknown and keeps it); the way back goes through
  `GoWorking`, which cancels it. Under `ProcessOnly`, where output alone says
  Working, there never is one.
- **RemoteProofs**, RemoteLaunch, for any number of commands and faults.
  `OneOwner`: `flock` excludes only those who have the same inode open, so
  `OneHolder` is not inductive: `OneLockFile` adds that every Holder that has
  opened the lock file and not ended has the one that is in the directory. Opening
  never replaces a lock file; only gc deletes one, and `swept` records when that
  happened under a Holder. `LaunchAnswersForTheLiving` (`AnswerIsLive`): an answer
  is made of a state file read earlier, a lock probed later and a socket looked
  for last. `AnswerInv` says that one Holder at a time is alive, that a state file
  that says "running" names it, that a launch that has read or is about to start
  has the launch lock, and that the Holders a command counts as gone stay gone. It
  splits the steps in two: the quiet ones, which start no Holder and write
  "running" only for a live one, and `StartHolder`, which is safe because the
  launch has reset the session and found nobody. The attempt to prove it without
  that last part failed for a reason: a Holder whose launch command has died may
  still be starting when the next launch resets the session; two Holders are then
  alive, the state file may name the one and the lock be held by the other, and a
  third launch answers for a Holder that is gone. It takes four commands and three
  faults, which the run's bounds exclude; `overtaken` now names it.
  `LaunchesAreRecovered` (`LaunchIsRecovered`) needs to know what every process
  knows. `KindInv` says which command is at which step and which one the Engine
  waits for. `RecoveryInv` has two parts, both under `~lost /\ ~stale`. On the
  host (`HostKnown`): the files are those of the Holder that is alive, a state
  names a Holder that has come up, and a launch or gc past its probe has found
  nobody. In the Engine (`EngineKnows`): a Holder whose Agent is not dead is bound,
  or of the launch the Engine is at, or being killed; a launch that waits for its
  Holder keeps a retry from the lock; "ok" and "error" say whom there is. Each
  step of a command either finishes, goes on or starts a Holder, and one lemma
  says for each what it must know to keep both parts. Two things came of the proof.
  An earlier form without `stale` is false beyond the run's bounds: a kill whose
  channel failed writes the end of the old Holder over the state of the new one,
  whose "ok" went unheard, and the retry answers "error" for it (four commands,
  three faults). And conditions the property once had, that gc had swept nothing
  and that no launch was still at work, turned out to follow; they were dropped.
  `TroubleStartsUnheard` states what follows besides: `swept` and `overtaken`, the
  exceptions of the other two theorems, come only after `lost` or `stale`.
- **RemoteProofs**, RemoteStream, for any number of chunks, losses, resizes and
  restarts. The four invariants speak of one sequence, `Stream`: the frames on the
  Bridge followed by those in the Holder's buffer, as the Engine will read them.
  `DeltasExtend`: from the mirror's sequence to the Holder's the grid frames form a
  chain (`GridInv`), which an overflow, a truncation or a lost link breaks only
  together with the stream. `MirrorIsCurrent`: the last frame that paints paints what
  the connection has been shown (`shown`), and that is the terminal's row unless the
  baseline is still behind, or was compared with a row that had returned to it
  (`CellsInv`). It holds of any screen.
  `LogKeepsTheOutput`: every chunk before the next output frame is in the log, given
  up or in the stream (`LogInv`); it is stated for `restarts = 0`, because adoption
  starts from an offset that lags the log. `ExitsAreTrue`: a stream that was not
  greeted begins with its greeting, or the buffer was replaced with the greeting still
  in it (`ExitInv`), which is what `ungreeted` records at the step that does it.
- **HeldSessionProofs**, for every log capacity, replay budget and number of
  chunks, incarnations, restarts and faults, with a watcher or without.
  `HeldInvariant` proves `HeldInv`: shapes of the log, the Holder, the Engine and the
  screen; markers are whole or torn, and no file or epoch ends inside one (`Markers`);
  the screen has what the pump has passed, once and in order (`Screens`); what lies
  beyond the epoch is of the incarnation that runs, and a pump reads from there or is
  stranded on a file that was rotated away (`Owned`); an end marker of the running
  incarnation is the last unit, and ahead of the pump (`LastMark`); a pump panics only
  when a rotation outran it (`Outran`). `ScreenShowsTheLog`, `ExitOfTheWatched`,
  `PumpFollowsRotation` and `LastLookIsTruthful` are the run's four invariants.
- **RegistryProofs**, for any set of ids and any number of requests and restarts.
  `TypeCorrect`, `NoGhosts` and `NoProcessLost` come from one invariant,
  `RegistryInv`: per id, `KeptOf` relates record, session, agent and binding, and
  `SavedOf` the record with the state file, from which a restart rebuilds the first two;
  `ClosedOf` says that a local record on the closed stack has exited, as a reopened one
  has no session. `abandoned` records the agents whose record or binding was let go while they ran, at
  each of the steps that do so; the theorem says that there is no other. `SessionsStay`
  (`LiveSessionStays`) goes through the steps that are no request and no restart. `ListSettles`
  (`ViewIsCurrent`) needs `ViewInv`: what is listed for an id is up to date, or
  the last event queued for it will make it so, or the watcher has still to look.
- **SessionInputProofs**, for every queue limit and any number of keys, sizes,
  freezes, losses, visits and restarts. `TypeCorrect` includes that the reconnect
  queue stays within its limit. `ChildInv` relates the launch, the child and the
  cancellation: no child before the Holder answers, a live one from then on until
  the session is removed, and a removal that finds the launch unfinished has
  cancelled it. `NoChildIsOrphaned` follows; `FrozenSessionsCanWake` needs it too,
  because a wake reaches a launched local session only if its tree is alive.
  `LastSizeWins` (`SizeIsCurrent`) needs `SizeInv`: where the size asked for last
  is at each moment (the pending size, the hand-off, the writer, the last size the
  channel carries, the terminal), and that a channel without an epoch carries
  nothing. `InputArrivesInOrder` (`InputIsFaithful`) needs `KeyInv`: which queues a
  session has at each phase of its launch (`Lanes`); terminal and queues, one behind
  the other, hold keys in the order typed but for those that overtook (`InLine`) and
  hold every key that was typed and not lost (`Accounted`); a local session loses keys
  only with its Engine (`Losses`).

Only model-checked, and why. Liveness under fairness (`NewestGetsThrough`,
`AttachIsAnswered`, `ExitIsReported`, `OutputArrives`, `SinksBecomeCurrent`,
`StartingEnds`, `ExitReachesTheRecord`, `KeysArrive`, `EndIsNoticed`) is out of the
prover's reach. The library's induction theorems take an operator as a parameter and
cannot be used; where a proof must know what a function computes for every input
(`EventBus!Replayed`, `HeldSession!Fed`), the function is local to its definition and the induction is
over a set of naturals (`SetInduction`), which the prover accepts.

## 6. Not modelled

Of the modelled components: payloads of events; a remote session as the source of
an attach hub's updates; scroll and signal frames; modes other than as one value;
the kernel's buffers at an exit; sessions on a direct PTY; process trees, memory
footprints and ports; titles, projects and pull-request fields of records, and the
limit of ten on the closed stack; a write of the state file or of the binding store
that fails; remote sessions of the transport before (`legacy_remote.rs`); when a deferred launch
happens, as the Registry sees it; a cell and a mode read on either side of a feed, since
the pump comes round again (`session.rs:1146`, `:1194`), and an attach pump whose thread
is not spawned; Holders run by the user's supervisor, the upload of the Helper and the persistence probe.
Of the rest: wire formats (pure encodings with round-trip tests), screen detection
(pattern matching), SSH and git (other programs), the Swift daemon (superseded)
and the desktop app, which is more than half of the workspace's lines: rendering,
layout, menus and text, whose state is local to one thread and redrawn from what
the Engine sends. What it keeps of the Engine's state, the session list, is in
Registry, and the grid in AttachHub. That is why the share of the repository's
lines the modules cover stays small.

## 7. Plan

1. AttachHub for remote sessions: their pending update is shared as the baseline is.
2. Supervised Holders and the bootstrap, on top of RemoteLaunch.
3. Worktrees and migration, Node checkpoints, the updater's swap: crash between
   two file operations.

Theorems worth having next: the theorems of RemoteStream across an Engine restart,
with the offset's lag stated; the types of EventBus, HeldSession and RemoteStream in
the form of their `TypeOK`.

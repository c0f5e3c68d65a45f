---------------------------- MODULE RemoteLaunch ----------------------------
(***************************************************************************)
(* How a remote session comes to have one Holder, and how the Engine       *)
(* learns of it: the Helper's one-shot commands launch, inspect, kill and  *)
(* gc (diri-remote/src/lib.rs, holder.rs), the Holder's start and end, the *)
(* guard that outlives it, and the Engine that runs the commands over SSH  *)
(* (remote/manager.rs, session.rs, control.rs).                            *)
(*                                                                         *)
(* A command goes on when its channel fails: the Engine no longer hears of *)
(* it. What a session has on the host is a handful of files; every command *)
(* and every Holder reads and changes them on its own, under two advisory  *)
(* locks. launch_lock is held by launch and gc; the Holder lock is held by *)
(* a Holder, and for an instant by whoever asks whether it is held.        *)
(*                                                                         *)
(* There is one session. The Holder that launch command c starts is called *)
(* c, and so is its incarnation. A token is the number of the launch it    *)
(* was made for. The Holder is a child of the command; the other form, a   *)
(* unit of the user's supervisor, is left out.                             *)
(***************************************************************************)
EXTENDS Naturals, FiniteSets

CONSTANTS
  MaxCommands,   \* bound: commands run on the host
  MaxLaunches,   \* bound: tokens, one per spawn or resume
  MaxAsides,     \* bound: inspections by the pump and runs of gc
  MaxFaults      \* bound: channels that fail, processes that die, restarts

ASSUME RemoteLaunchAssumption == 
  {MaxCommands, MaxLaunches, MaxAsides, MaxFaults} \subseteq Nat

Commands == 1..MaxCommands

VARIABLES
  files,        \* the session's directory, and its auth, state, socket and lock;
                \* 0 or NoState: absent
  launch_lock,  \* the command that holds it, or 0
  command,      \* the commands, in the order they were started
  holder,       \* holder[c]: the Holder that launch command c started
  agent,        \* agent[c]: its Agent, and guard[c] the process that guards it
  guard,
  engine,       \* the Engine and the command it waits for
  lost,         \* history: the Engine cannot know of a Holder a launch started
  swept,        \* history: gc deleted the lock of a Holder that was starting
  overtaken,    \* history: a launch reset a session whose Holder was alive
  stale,        \* history: inspect or kill wrote the state of an earlier Holder over
                \* that of one that was alive
  counts

hostVars == <<files, launch_lock>>
processVars == <<holder, agent, guard>>
historyVars == <<lost, swept, overtaken, stale, counts>>
vars == <<hostVars, command, processVars, engine, historyVars>>

-----------------------------------------------------------------------------
NoState == [inc |-> 0, process |-> "none"]

\* gone: the Holders that have ended when the command is started. fooled: it
\* took another command's probe for a Holder's lock.
Unstarted ==
  [type |-> "none", pc |-> "none", token |-> 0, expect |-> 0, read |-> NoState,
   probe |-> 0, answer |-> "none", inc |-> 0, gone |-> {}, fooled |-> FALSE]

Init ==
  /\ files = [dir |-> FALSE, auth |-> 0, state |-> NoState, socket |-> 0, lock |-> 0,
              inodes |-> 0]
  /\ launch_lock = 0
  /\ command = [c \in Commands |-> Unstarted]
  /\ holder = [c \in Commands |-> [pc |-> "none", token |-> 0, inode |-> 0]]
  /\ agent = [c \in Commands |-> "none"] /\ guard = [c \in Commands |-> "none"]
  /\ engine = [pc |-> "idle", token |-> 0, cmd |-> 0, attempt |-> 0, binding |-> 0,
               deaf |-> FALSE, removing |-> FALSE]
  /\ lost = FALSE /\ swept = FALSE /\ overtaken = FALSE /\ stale = FALSE
  /\ counts = [commands |-> 0, launches |-> 0, asides |-> 0, faults |-> 0]

\* The phases in which a Holder has the Holder lock.
Locked == {"chmod", "bind", "spawn", "guard", "write", "running", "exited"}
Owners == {h \in Commands : holder[h].pc \in Locked}

\* open_private_file creates the lock file when it is not there.
LockOpened ==
  IF files.lock # 0 THEN files
  ELSE [files EXCEPT !.lock = files.inodes + 1, !.inodes = @ + 1]

HeldByHolder(inode) == \E h \in Owners : holder[h].inode = inode
HeldByProbe(inode) == \E c \in Commands : command[c].probe = inode /\ inode # 0
LockHeld(inode) == HeldByHolder(inode) \/ HeldByProbe(inode)

-----------------------------------------------------------------------------
(***************************************************************************)
(* The Holder.                                                             *)
(***************************************************************************)
Ended(h) == [holder EXCEPT ![h].pc = "gone"]
At(h, pc) == [holder EXCEPT ![h].pc = pc]

\* paths.ensure, initialize_auth: a file that is there must be of the same token.
HolderAuth(h) ==
  /\ holder[h].pc = "auth"
  /\ \/ /\ files.auth \in {0, holder[h].token}
        /\ files' = [files EXCEPT !.dir = TRUE, !.auth = holder[h].token]
        /\ holder' = At(h, "open")
     \/ /\ files.auth \notin {0, holder[h].token}
        /\ holder' = Ended(h) /\ UNCHANGED files
  /\ UNCHANGED <<agent, guard>>

\* acquire_lock: open, flock, chmod by path. gc may have removed the directory.
OpenLock(h) ==
  /\ holder[h].pc = "open"
  /\ \/ /\ files.dir /\ files' = LockOpened
        /\ holder' = [holder EXCEPT ![h].pc = "flock", ![h].inode = files'.lock]
     \/ ~files.dir /\ holder' = Ended(h) /\ UNCHANGED files
  /\ UNCHANGED <<agent, guard>>

\* Mutant: the Holder waits for no lock.
FlockAlways(h) ==
  /\ holder[h].pc = "flock" /\ holder' = At(h, "chmod")
  /\ UNCHANGED <<files, agent, guard>>

Flock(h) ==
  /\ holder[h].pc = "flock"
  /\ holder' = IF LockHeld(holder[h].inode) THEN Ended(h) ELSE At(h, "chmod")
  /\ UNCHANGED <<files, agent, guard>>

ChmodLock(h) ==
  /\ holder[h].pc = "chmod"
  /\ holder' = IF files.lock = 0 THEN Ended(h) ELSE At(h, "bind")
  /\ UNCHANGED <<files, agent, guard>>

\* remove_stale_socket, UnixListener::bind.
Bind(h) ==
  /\ holder[h].pc = "bind"
  /\ \/ files.dir /\ files' = [files EXCEPT !.socket = h] /\ holder' = At(h, "spawn")
     \/ ~files.dir /\ holder' = Ended(h) /\ UNCHANGED files
  /\ UNCHANGED <<agent, guard>>

SpawnAgent(h) ==
  /\ holder[h].pc = "spawn"
  /\ agent' = [agent EXCEPT ![h] = "running"] /\ holder' = At(h, "guard")
  /\ UNCHANGED <<files, guard>>

SpawnGuard(h) ==
  /\ holder[h].pc = "guard"
  /\ guard' = [guard EXCEPT ![h] = "watching"] /\ holder' = At(h, "write")
  /\ UNCHANGED <<files, agent>>

\* The first write_state, and those of a handshake, a resize and the output.
WriteState(h) ==
  /\ holder[h].pc \in {"write", "running", "exited"}
  /\ \/ /\ files.dir
        /\ files' = [files EXCEPT !.state =
             [inc |-> h, process |-> IF holder[h].pc = "exited" THEN "exited" ELSE "running"]]
        /\ holder' = IF holder[h].pc = "write" THEN At(h, "running") ELSE holder
     \/ ~files.dir /\ holder' = Ended(h) /\ UNCHANGED files
  /\ UNCHANGED <<agent, guard>>

\* record_exit: the guard ends first, then the Agent is reaped.
RecordExit(h) ==
  /\ holder[h].pc = "running" /\ agent[h] = "dead"
  /\ guard' = [guard EXCEPT ![h] = "done"]
  /\ \/ /\ files.dir /\ holder' = At(h, "exited")
        /\ files' = [files EXCEPT !.state = [inc |-> h, process |-> "exited"]]
     \/ ~files.dir /\ holder' = Ended(h) /\ UNCHANGED files
  /\ UNCHANGED agent

HolderStep ==
  \E h \in Commands :
    /\ \/ HolderAuth(h) \/ OpenLock(h) \/ Flock(h) \/ ChmodLock(h) \/ Bind(h)
       \/ SpawnAgent(h) \/ SpawnGuard(h) \/ WriteState(h) \/ RecordExit(h)
    /\ UNCHANGED <<launch_lock, command, engine, historyVars>>

\* run_process_guard: the pipe from the Holder is closed.
Guard(h) ==
  /\ guard[h] = "watching" /\ holder[h].pc = "gone"
  /\ guard' = [guard EXCEPT ![h] = "done"] /\ agent' = [agent EXCEPT ![h] = "dead"]
  /\ UNCHANGED <<hostVars, command, holder, engine, historyVars>>

AgentExits(h) ==
  /\ agent[h] = "running"
  /\ agent' = [agent EXCEPT ![h] = "dead"]
  /\ UNCHANGED <<hostVars, command, holder, guard, engine, historyVars>>

-----------------------------------------------------------------------------
(***************************************************************************)
(* The commands. Each step sets the command's own record and may change    *)
(* the files; a command that ends lets go of its locks.                    *)
(***************************************************************************)
Goto(c, pc) == command' = [command EXCEPT ![c].pc = pc]

Finish(c, answer, inc) ==
  /\ command' = [command EXCEPT ![c].pc = "done", ![c].answer = answer, ![c].inc = inc,
                                ![c].probe = 0]
  /\ launch_lock' = IF launch_lock = c THEN 0 ELSE launch_lock

Ensured(c) == IF command[c].type = "launch" THEN [files EXCEPT !.dir = TRUE] ELSE files

\* Mutant: a retry starts a Holder of its own without a look at the session.
TakeLaunchLockAndReset(c) ==
  /\ command[c].pc = "lock"
  /\ \/ /\ launch_lock = 0 /\ launch_lock' = c
        /\ Goto(c, IF command[c].type = "launch" THEN "reset" ELSE "probe")
     \/ launch_lock # 0 /\ Finish(c, "busy", 0)
  /\ files' = Ensured(c) /\ UNCHANGED processVars

\* launch and gc: acquire_lock(launch_lock). launch has made the directory; gc
\* passes over a busy session.
TakeLaunchLock(c) ==
  /\ command[c].pc = "lock"
  /\ \/ /\ launch_lock = 0 /\ launch_lock' = c
        /\ Goto(c, IF command[c].type = "launch" THEN "look" ELSE "probe")
     \/ launch_lock # 0 /\ Finish(c, "busy", 0)
  /\ files' = Ensured(c) /\ UNCHANGED processVars

\* inspect and kill: authenticate.
Authenticate(c) ==
  /\ command[c].pc = "authenticate"
  /\ \/ files.auth = command[c].token /\ Goto(c, "look") /\ UNCHANGED launch_lock
     \/ files.auth # command[c].token /\ Finish(c, "error", 0)
  /\ UNCHANGED <<files, processVars>>

\* read_state, and validate_incarnation for inspect and kill.
ReadState(c) ==
  LET cmd == command[c]
      found == files.state # NoState /\ cmd.expect \in {0, files.state.inc}
  IN  /\ cmd.pc = "look"
      /\ \/ /\ found /\ ~(cmd.type = "inspect" /\ files.state.process = "exited")
            /\ command' = [command EXCEPT ![c].pc = "probe", ![c].read = files.state]
            /\ UNCHANGED launch_lock
         \/ /\ found /\ cmd.type = "inspect" /\ files.state.process = "exited"
            /\ Finish(c, "exited", files.state.inc)
         \/ ~found /\ cmd.type = "launch" /\ Goto(c, "reset") /\ UNCHANGED launch_lock
         \/ ~found /\ cmd.type # "launch" /\ Finish(c, "error", 0)
      /\ UNCHANGED <<files, processVars>>

\* holder_lock_held, first half: the lock is tried by taking it.
WhenHeld(type) ==
  CASE type = "launch" -> "found" [] type = "inspect" -> "running"
    [] type = "kill" -> "agent" [] type = "gc" -> "retain"
WhenFree(type) ==
  CASE type = "launch" -> "reset" [] type = "inspect" -> "record"
    [] type = "kill" -> "fail" [] type = "gc" -> "delete"

\* Mutant: the state file is taken for the Holder.
ProbeTrusting(c) ==
  /\ command[c].pc = "probe"
  /\ files' = LockOpened
  /\ Goto(c, WhenHeld(command[c].type))
  /\ UNCHANGED <<launch_lock, processVars>>

Probe(c) ==
  /\ command[c].pc = "probe" /\ files.dir
  /\ files' = LockOpened
  /\ \/ /\ LockHeld(files'.lock)
        /\ command' = [command EXCEPT ![c].pc = WhenHeld(command[c].type),
                                      ![c].fooled = ~HeldByHolder(files'.lock)]
     \/ /\ ~LockHeld(files'.lock)
        /\ command' = [command EXCEPT ![c].pc = "release", ![c].probe = files'.lock]
  /\ UNCHANGED <<launch_lock, processVars>>

\* Without a directory there is no lock to try. gc retains what it cannot try.
ProbeFails(c) ==
  /\ command[c].pc = "probe" /\ ~files.dir
  /\ Finish(c, IF command[c].type = "gc" THEN "ok" ELSE "error", 0)
  /\ UNCHANGED <<files, processVars>>

\* ... and second half: it is given back.
Release(c) ==
  /\ command[c].pc = "release"
  /\ command' = [command EXCEPT ![c].pc = WhenFree(command[c].type), ![c].probe = 0]
  /\ UNCHANGED <<hostVars, processVars>>

\* launch finds state and lock: it answers for the live Holder, unless the
\* socket is missing.
FindLive(c) ==
  LET cmd == command[c]
  IN  /\ cmd.pc = "found"
      /\ \/ files.socket = 0 /\ Goto(c, "reset") /\ UNCHANGED launch_lock
         \/ /\ files.socket # 0
            /\ IF files.auth = cmd.token /\ cmd.read.process = "running"
               THEN Finish(c, "ok", cmd.read.inc) ELSE Finish(c, "error", 0)
      /\ UNCHANGED <<files, processVars>>

\* reset_dead_session, file by file. The Holder of a launch that died may still
\* be on its way.
ResetDeadSession(c) ==
  /\ \/ /\ command[c].pc = "reset" /\ Goto(c, "reset_state")
        /\ files' = [files EXCEPT !.socket = 0]
     \/ /\ command[c].pc = "reset_state" /\ Goto(c, "reset_auth")
        /\ files' = [files EXCEPT !.state = NoState]
     \/ /\ command[c].pc = "reset_auth" /\ Goto(c, "start")
        /\ files' = [files EXCEPT !.auth = 0]
  /\ overtaken' = (overtaken \/ \E h \in Commands : holder[h].pc \notin {"none", "gone"})
  /\ UNCHANGED <<launch_lock, processVars, lost, swept, stale, counts>>

\* initialize_auth, then the Holder is forked and given its request.
StartHolder(c) ==
  /\ command[c].pc = "start"
  /\ \/ /\ files.auth \in {0, command[c].token}
        /\ files' = [files EXCEPT !.auth = command[c].token]
        /\ holder' = [holder EXCEPT ![c].pc = "auth", ![c].token = command[c].token]
        /\ Goto(c, "wait") /\ UNCHANGED launch_lock
     \/ /\ files.auth \notin {0, command[c].token}
        /\ Finish(c, "error", 0) /\ UNCHANGED <<files, holder>>
  /\ lost' = (lost \/ \E d \in Commands : d > c /\ command[d].type = "launch")
  /\ UNCHANGED <<agent, guard, swept, overtaken, stale, counts>>

\* The startup loop. At the deadline the Holder's group is killed.
AwaitHolder(c) ==
  LET ready == files.state.inc = c /\ files.socket # 0
  IN  /\ command[c].pc = "wait"
      /\ \/ /\ ready /\ Finish(c, IF files.state.process = "running" THEN "ok" ELSE "error", c)
            /\ UNCHANGED holder
         \/ ~ready /\ holder[c].pc = "gone" /\ Finish(c, "error", 0) /\ UNCHANGED holder
         \/ ~ready /\ holder[c].pc # "gone" /\ Finish(c, "error", 0) /\ holder' = Ended(c)
      /\ UNCHANGED <<files, agent, guard>>

\* What inspect and kill write is what they read, with the process exited. They
\* hold no lock, so that another Holder may have written its own since.
WritesBack(c) ==
  /\ files' = [files EXCEPT !.state = [command[c].read EXCEPT !.process = "exited"]]
  /\ stale' = (stale \/ \E h \in Commands \ {command[c].read.inc} :
                            holder[h].pc \notin {"none", "gone"})

\* inspect: "The Holder lock, not a reusable numeric PID, is the authority
\* for liveness."
InspectEnds(c) ==
  /\ \/ /\ command[c].pc = "running" /\ Finish(c, "running", command[c].read.inc)
        /\ UNCHANGED <<files, stale>>
     \/ /\ command[c].pc = "record" /\ ~files.dir /\ Finish(c, "error", 0)
        /\ UNCHANGED <<files, stale>>
     \/ /\ command[c].pc = "record" /\ files.dir /\ Finish(c, "exited", command[c].read.inc)
        /\ WritesBack(c)
  /\ UNCHANGED <<processVars, lost, swept, overtaken, counts>>

\* kill: the Agent's group, the state file, the Holder, and the wait for the
\* Holder lock, which may time out.
KillAgent(c) ==
  /\ command[c].pc = "agent"
  /\ agent' = IF command[c].read.process = "running"
              THEN [agent EXCEPT ![command[c].read.inc] = "dead"] ELSE agent
  /\ command' = [command EXCEPT ![c].pc = "write", ![c].read.process = "exited"]
  /\ UNCHANGED <<hostVars, holder, guard>>

KillWrites(c) ==
  /\ command[c].pc = "write"
  /\ \/ files.dir /\ WritesBack(c) /\ Goto(c, "term") /\ UNCHANGED launch_lock
     \/ ~files.dir /\ Finish(c, "error", 0) /\ UNCHANGED <<files, stale>>
  /\ UNCHANGED <<processVars, lost, swept, overtaken, counts>>

KillHolder(c) ==
  /\ command[c].pc = "term"
  /\ holder' = Ended(command[c].read.inc) /\ Goto(c, "unlocked")
  /\ UNCHANGED <<hostVars, agent, guard>>

\* The wait takes the lock that it finds free.
KillPolls(c) ==
  /\ command[c].pc = "unlocked" /\ files.dir
  /\ files' = LockOpened /\ ~LockHeld(files'.lock)
  /\ command' = [command EXCEPT ![c].pc = "ended", ![c].probe = files'.lock]
  /\ UNCHANGED <<launch_lock, processVars>>

KillEnds(c) ==
  /\ \/ /\ command[c].pc = "fail" \/ (command[c].pc = "unlocked" /\ ~files.dir)
        /\ Finish(c, "error", 0) /\ UNCHANGED files
     \/ /\ command[c].pc = "unlocked" /\ files.dir
        /\ files' = LockOpened /\ LockHeld(files'.lock)
        /\ Finish(c, "error", command[c].read.inc)
     \/ command[c].pc = "ended" /\ Finish(c, "ok", command[c].read.inc) /\ UNCHANGED files
  /\ UNCHANGED processVars

\* gc: of a session whose Holder lock is free every file is deleted, the lock last.
GcDeletes(c) ==
  /\ \/ /\ command[c].pc = "delete" /\ Goto(c, "delete_auth")
        /\ files' = [files EXCEPT !.socket = 0]
     \/ /\ command[c].pc = "delete_auth" /\ Goto(c, "delete_state")
        /\ files' = [files EXCEPT !.auth = 0]
     \/ /\ command[c].pc = "delete_state" /\ Goto(c, "delete_lock")
        /\ files' = [files EXCEPT !.state = NoState]
  /\ UNCHANGED <<launch_lock, processVars>>

GcDeletesLock(c) ==
  /\ command[c].pc = "delete_lock" /\ Goto(c, "remove")
  /\ files' = [files EXCEPT !.lock = 0]
  /\ swept' = \/ swept
              \/ \E h \in Commands : holder[h].pc \notin {"none", "auth", "open", "gone"}
  /\ UNCHANGED <<launch_lock, processVars, lost, overtaken, stale, counts>>

\* ... and then the directory, unless a Holder has put a file there.
Emptied == files.socket = 0 /\ files.auth = 0 /\ files.state = NoState /\ files.lock = 0

GcEnds(c) ==
  /\ \/ command[c].pc = "retain" /\ UNCHANGED files
     \/ command[c].pc = "remove" /\ files' = [files EXCEPT !.dir = @ /\ ~Emptied]
  /\ Finish(c, "ok", 0)
  /\ UNCHANGED processVars

CommandStep ==
  /\ \/ /\ \E c \in Commands :
             \/ TakeLaunchLock(c) \/ Authenticate(c) \/ ReadState(c) \/ Probe(c)
             \/ ProbeFails(c) \/ Release(c) \/ FindLive(c) \/ AwaitHolder(c)
             \/ KillAgent(c) \/ KillHolder(c) \/ KillPolls(c) \/ KillEnds(c)
             \/ GcDeletes(c) \/ GcEnds(c)
        /\ UNCHANGED historyVars
     \/ \E c \in Commands :
          \/ ResetDeadSession(c) \/ StartHolder(c) \/ InspectEnds(c) \/ KillWrites(c)
          \/ GcDeletesLock(c)
  /\ UNCHANGED engine

-----------------------------------------------------------------------------
(***************************************************************************)
(* The Engine, and the user who runs gc.                                   *)
(***************************************************************************)
\* The command that is started next.
Entry(type) ==
  CASE type \in {"launch", "gc"} -> "lock" [] type \in {"inspect", "kill"} -> "authenticate"

Run(type, token, inc) ==
  /\ counts.commands < MaxCommands
  /\ command' = [command EXCEPT ![counts.commands + 1] =
       [Unstarted EXCEPT !.type = type, !.pc = Entry(type), !.token = token, !.expect = inc,
                         !.gone = {h \in Commands : holder[h].pc = "gone"}]]

\* The Engine waits for the command it has just started.
Waits(pc) == [engine EXCEPT !.pc = pc, !.cmd = counts.commands + 1, !.deaf = FALSE]
Counted == [counts EXCEPT !.commands = @ + 1]
Answered(pc) == engine.pc = pc /\ (engine.deaf \/ command[engine.cmd].pc = "done")
Answer == IF engine.deaf THEN "none" ELSE command[engine.cmd].answer

\* The binding holds the token its Holder was launched with.
BoundToken == holder[engine.binding].token

\* The Engine may have recorded the exit of the Agent it is bound to.
MayKnowOfExit ==
  /\ engine.binding # 0
  /\ agent[engine.binding] = "dead" \/ holder[engine.binding].pc = "gone"

\* session.spawn and session.resume, with a new token.
Launch ==
  /\ engine.pc = "idle" /\ counts.launches < MaxLaunches
  /\ Run("launch", counts.launches + 1, 0)
  /\ engine' = [Waits("launching") EXCEPT !.token = counts.launches + 1, !.attempt = 1]
  /\ counts' = [Counted EXCEPT !.launches = @ + 1]
  /\ UNCHANGED <<lost, swept, overtaken, stale>>

\* spawn_remote saves the binding.
Launched ==
  /\ Answered("launching") /\ Answer = "ok"
  /\ engine' = [engine EXCEPT !.pc = "bound", !.binding = command[engine.cmd].inc]
  /\ UNCHANGED <<command, historyVars>>

\* When that or what follows fails, RemoteLaunchCleanup kills the Holder.
LaunchedInVain ==
  /\ Answered("launching") /\ Answer = "ok" /\ counts.faults < MaxFaults
  /\ Run("kill", engine.token, command[engine.cmd].inc)
  /\ engine' = [Waits("killing") EXCEPT !.removing = TRUE]
  /\ counts' = [Counted EXCEPT !.faults = @ + 1]
  /\ UNCHANGED <<lost, swept, overtaken, stale>>

\* RemoteManager::launch: "one fresh SSH command recovers that exact
\* incarnation without spawning a duplicate or leaking an unknown Holder."
Retry ==
  /\ Answered("launching") /\ Answer # "ok"
  /\ \/ /\ engine.attempt = 1
        /\ Run("launch", engine.token, 0)
        /\ engine' = [Waits("launching") EXCEPT !.attempt = 2]
        /\ counts' = Counted /\ UNCHANGED lost
     \/ /\ engine.attempt = 2
        /\ engine' = [engine EXCEPT !.pc = "idle"]
        /\ lost' = (lost \/ Answer \in {"none", "busy"})
        /\ UNCHANGED <<command, counts>>
  /\ UNCHANGED <<swept, overtaken, stale>>

\* Session::terminate of a bound session, for session.kill or session.remove.
\* The signal it sends first is one way for the Agent to exit.
Kill ==
  /\ engine.pc = "bound"
  /\ Run("kill", BoundToken, engine.binding)
  /\ \E removing \in BOOLEAN : engine' = [Waits("killing") EXCEPT !.removing = removing]
  /\ counts' = Counted
  /\ UNCHANGED <<lost, swept, overtaken, stale>>

\* session.kill removes the binding unless the command failed and no exit was
\* recorded; the others remove it whatever the command said.
Killed ==
  /\ Answered("killing")
  /\ \/ engine' = [engine EXCEPT !.pc = "idle",
                     !.binding = IF Answer = "ok" \/ engine.removing THEN 0 ELSE @]
     \/ MayKnowOfExit /\ engine' = [engine EXCEPT !.pc = "idle", !.binding = 0]
  /\ lost' = (lost \/ (engine.removing /\ Answer # "ok"))
  /\ UNCHANGED <<command, swept, overtaken, stale, counts>>

\* remote_inspection_exited, from the session's pump: nothing waits for it.
Inspect ==
  /\ engine.pc = "bound" /\ counts.asides < MaxAsides
  /\ Run("inspect", BoundToken, engine.binding)
  /\ counts' = [Counted EXCEPT !.asides = @ + 1]
  /\ UNCHANGED <<engine, lost, swept, overtaken, stale>>

\* restore_remote_bindings, in a new Engine: an Agent that has exited, or whose
\* record says so, is not adopted.
Restore ==
  /\ engine.pc = "down"
  /\ \/ /\ engine.binding # 0 /\ Run("inspect", BoundToken, engine.binding)
        /\ engine' = Waits("restoring") /\ counts' = Counted
     \/ /\ engine.binding = 0 /\ engine' = [engine EXCEPT !.pc = "idle"]
        /\ UNCHANGED <<command, counts>>
  /\ UNCHANGED <<lost, swept, overtaken, stale>>

Restored ==
  /\ Answered("restoring")
  /\ \/ /\ Answer = "exited" \/ (Answer = "running" /\ MayKnowOfExit)
        /\ Run("kill", BoundToken, engine.binding)
        /\ engine' = [Waits("killing") EXCEPT !.removing = TRUE] /\ counts' = Counted
     \/ /\ Answer # "exited"
        /\ engine' = [engine EXCEPT !.pc = IF Answer = "running" THEN "bound" ELSE "idle"]
        /\ UNCHANGED <<command, counts>>
  /\ UNCHANGED <<lost, swept, overtaken, stale>>

\* The sessions are those that have a directory.
Gc ==
  /\ files.dir /\ counts.asides < MaxAsides
  /\ Run("gc", 0, 0) /\ counts' = [Counted EXCEPT !.asides = @ + 1]
  /\ UNCHANGED <<engine, lost, swept, overtaken, stale>>

EngineStep ==
  /\ \/ Launch \/ Launched \/ LaunchedInVain \/ Retry \/ Kill \/ Killed
     \/ Inspect \/ Restore \/ Restored \/ Gc
  /\ UNCHANGED <<hostVars, processVars>>

-----------------------------------------------------------------------------
(***************************************************************************)
(* Faults.                                                                 *)
(***************************************************************************)
Faulty == counts.faults < MaxFaults /\ counts' = [counts EXCEPT !.faults = @ + 1]

\* SshExecutor::run fails or times out: the command goes on unheard.
ChannelFails ==
  /\ Faulty
  /\ engine.pc \in {"launching", "killing", "restoring"} /\ ~engine.deaf
  /\ engine' = [engine EXCEPT !.deaf = TRUE]
  /\ UNCHANGED <<hostVars, command, processVars, lost, swept, overtaken, stale>>

\* The Engine ends: only the binding is left.
EngineDies ==
  /\ Faulty
  /\ engine.pc # "down" /\ engine' = [engine EXCEPT !.pc = "down", !.removing = FALSE]
  /\ lost' = (lost \/ engine.pc = "launching" \/ (engine.pc = "killing" /\ engine.removing))
  /\ UNCHANGED <<hostVars, command, processVars, swept, overtaken, stale>>

\* A command is killed with its login session.
CommandDies ==
  /\ Faulty
  /\ \E c \in Commands :
       /\ command[c].pc \notin {"none", "done"} /\ Finish(c, "none", 0)
       /\ lost' = (lost \/ command[c].pc = "wait")
  /\ UNCHANGED <<files, processVars, engine, swept, overtaken, stale>>

\* A Holder fails or is killed. Without a guard its Agent sees a hang-up,
\* and may ignore it.
HolderDies ==
  /\ Faulty
  /\ \E h \in Commands :
       /\ holder[h].pc \notin {"none", "gone"} /\ holder' = Ended(h)
       /\ \/ UNCHANGED agent
          \/ guard[h] = "none" /\ agent[h] = "running" /\ agent' = [agent EXCEPT ![h] = "dead"]
  /\ UNCHANGED <<hostVars, command, guard, engine, lost, swept, overtaken, stale>>

Next ==
  \/ HolderStep \/ (\E h \in Commands : Guard(h) \/ AgentExits(h))
  \/ CommandStep \/ EngineStep
  \/ ChannelFails \/ EngineDies \/ CommandDies \/ HolderDies

Spec == Init /\ [][Next]_vars

-----------------------------------------------------------------------------
(***************************************************************************)
(* Properties.                                                             *)
(***************************************************************************)

\* "a Holder already owns this session": however launches, retries and gc
\* fall, one Holder at a time owns the session, unless gc deleted the lock of
\* a Holder that was starting.
OneHolder == ~swept => \A g, h \in Owners : g = h

\* RemoteManager::launch: while the Engine waits for no command, the only Agent
\* that a Holder runs is the one the Engine has the binding of, unless a launch
\* was given up whose outcome the Engine did not hear, or started its Holder
\* when the next one was under way, or inspect or kill wrote an earlier Holder's
\* end into the state of this one: a retry then answers "error" for it.
LaunchIsRecovered ==
  engine.pc \in {"idle", "bound"} /\ ~lost /\ ~stale
  => {h \in Owners : agent[h] = "running"} \subseteq {engine.binding}

\* launch answers for the Holder the state file names once the lock is held and
\* the socket is there. It names a Holder that had not ended before it was
\* asked, unless it took another command's probe for the Holder's lock, or a
\* launch had reset the session of a Holder that was alive: the one that has
\* the lock then need not be the one the state file names.
AnswerIsLive ==
  ~overtaken =>
    \A c \in Commands :
      command[c].type = "launch" /\ command[c].answer = "ok" /\ ~command[c].fooled =>
        command[c].inc \notin command[c].gone
=============================================================================

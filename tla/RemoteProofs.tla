---------------------------- MODULE RemoteProofs ----------------------------
(***************************************************************************)
(* Remote sessions.  First RemoteLaunch: one Holder at a time owns a       *)
(* remote session, a launch answers for a Holder that was there, and the   *)
(* Engine knows of every Agent that a Holder runs, for any number of       *)
(* commands, launches and faults.                                          *)
(*                                                                         *)
(* Then RemoteStream: whatever is written, lost, resized or reconnected,   *)
(* grid deltas extend what the Engine has, its mirror and its log end up   *)
(* with what the Agent wrote, and an exit it shows is one.                 *)
(***************************************************************************)
EXTENDS RemoteLaunch, RemoteStream, SequenceTheorems, TLAPS

\* What the steps need to know of the shape of the state.
Shape ==
  /\ DOMAIN files = {"dir", "auth", "state", "socket", "lock", "inodes"}
  /\ files.inodes \in Nat
  /\ DOMAIN holder = Commands
  /\ \A h \in Commands : DOMAIN holder[h] = {"pc", "token", "inode"}
  /\ swept \in BOOLEAN

\* A Holder that has opened the lock file and not ended.
HasOpened(h) == holder[h].pc \notin {"none", "auth", "open", "gone"}

\* Unless gc took it away under them, they all have the same lock file open,
\* the one that is in the directory: the locks they try are the same lock.
OneLockFile ==
  ~swept => \A h \in Commands : HasOpened(h) => files.lock # 0 /\ holder[h].inode = files.lock

OwnerInv == Shape /\ OneLockFile /\ OneHolder

-----------------------------------------------------------------------------
\* The lock file stays when it is there, and no Holder opens it or takes it.
Calm ==
  /\ swept' = swept
  /\ files.lock # 0 => files'.lock = files.lock
  /\ \A h \in Commands :
       /\ HasOpened(h)' => HasOpened(h) /\ holder'[h].inode = holder[h].inode
       /\ holder'[h].pc \in Locked => holder[h].pc \in Locked

\* A calm step keeps the invariant.
LEMMA CalmKeeps == ASSUME OwnerInv, Shape', Calm PROVE OwnerInv'
  BY DEF OwnerInv, OneLockFile, OneHolder, Owners, Calm

\* open_private_file never replaces a lock file, and makes one if there is none.
LEMMA Opening ==
  ASSUME Shape
  PROVE  /\ DOMAIN LockOpened = DOMAIN files /\ LockOpened.inodes \in Nat
         /\ LockOpened.lock # 0
         /\ files.lock # 0 => LockOpened.lock = files.lock
  BY DEF Shape, LockOpened

\* The lock is taken when no Holder has it, so the one that takes it is alone.
LEMMA FlockKeeps ==
  ASSUME OwnerInv, NEW h \in Commands, Flock(h), UNCHANGED swept PROVE OwnerInv'
<1> USE DEF OwnerInv, Flock
<1>1. Shape'
  BY DEF Shape, Ended, At
<1>2. CASE LockHeld(holder[h].inode)
  <2>1. Calm
    BY <1>2 DEF Shape, Ended, Calm, HasOpened, Locked
  <2> QED BY <1>1, <2>1, CalmKeeps
<1>3. CASE ~LockHeld(holder[h].inode)
  <2>1. holder' = At(h, "chmod") /\ HasOpened(h)
    BY <1>3 DEF HasOpened
  <2>2. OneLockFile'
    BY <2>1 DEF Shape, At, OneLockFile, HasOpened
  <2>3. ~swept => \A g \in Owners : g = h
    <3> SUFFICES ASSUME ~swept, NEW g \in Owners, g # h PROVE FALSE
      OBVIOUS
    <3>1. HasOpened(g) /\ g \in Commands
      BY DEF Owners, Locked, HasOpened
    <3>2. holder[g].inode = holder[h].inode
      BY <2>1, <3>1 DEF OneLockFile
    <3> QED BY <1>3, <3>2 DEF LockHeld, HeldByHolder
  <2>4. OneHolder'
    BY <2>1, <2>3 DEF Shape, At, OneHolder, Owners
  <2> QED BY <1>1, <2>2, <2>4
<1> QED BY <1>2, <1>3

\* A Holder that opens the lock file has the one the others have.
LEMMA OpenLockKeeps ==
  ASSUME OwnerInv, NEW h \in Commands, OpenLock(h), UNCHANGED swept PROVE OwnerInv'
<1> USE DEF OwnerInv, OpenLock
<1>1. CASE files.dir
  <2>1. /\ files' = LockOpened /\ files'.lock # 0
        /\ files.lock # 0 => files'.lock = files.lock
        /\ DOMAIN files' = DOMAIN files /\ files'.inodes \in Nat
    BY <1>1, Opening
  <2>2. Shape'
    BY <1>1, <2>1 DEF Shape
  <2>3. OneLockFile'
    BY <1>1, <2>1, <2>2 DEF Shape, OneLockFile, HasOpened
  <2>4. OneHolder'
    BY <1>1 DEF Shape, OneHolder, Owners, Locked
  <2> QED BY <2>2, <2>3, <2>4
<1>2. CASE ~files.dir
  BY <1>2, CalmKeeps DEF Shape, Ended, Calm, HasOpened, Locked
<1> QED BY <1>1, <1>2

\* The other steps of a Holder are calm.
LEMMA HolderKeeps ==
  ASSUME OwnerInv, NEW h \in Commands, UNCHANGED swept,
         \/ HolderAuth(h) \/ ChmodLock(h) \/ Bind(h)
         \/ SpawnAgent(h) \/ SpawnGuard(h) \/ WriteState(h) \/ RecordExit(h)
  PROVE  OwnerInv'
<1> USE DEF OwnerInv, Ended, At
<1>1. CASE HolderAuth(h)
  <2>1. Shape'
    BY <1>1 DEF HolderAuth, Shape
  <2>2. files'.lock = files.lock
    BY <1>1 DEF HolderAuth, Shape
  <2>3. PICK pc \in {"open", "gone"} : holder' = At(h, pc)
    BY <1>1 DEF HolderAuth
  <2>4. Calm
    BY <2>2, <2>3 DEF Shape, Calm, HasOpened, Locked
  <2> QED BY <2>1, <2>4, CalmKeeps
<1>2. CASE ChmodLock(h)
  BY <1>2, CalmKeeps DEF ChmodLock, Shape, Calm, HasOpened, Locked
<1>3. CASE Bind(h)
  <2>1. CASE files.dir
    BY <1>3, <2>1, CalmKeeps DEF Bind, Shape, Calm, HasOpened, Locked
  <2>2. CASE ~files.dir
    BY <1>3, <2>2, CalmKeeps DEF Bind, Shape, Calm, HasOpened, Locked
  <2> QED BY <2>1, <2>2
<1>4. CASE SpawnAgent(h)
  BY <1>4, CalmKeeps DEF SpawnAgent, Shape, Calm, HasOpened, Locked
<1>5. CASE SpawnGuard(h)
  BY <1>5, CalmKeeps DEF SpawnGuard, Shape, Calm, HasOpened, Locked
<1>6. CASE WriteState(h)
  BY <1>6, CalmKeeps DEF WriteState, Shape, Calm, HasOpened, Locked
<1>7. CASE RecordExit(h)
  BY <1>7, CalmKeeps DEF RecordExit, Shape, Calm, HasOpened, Locked
<1> QED BY <1>1, <1>2, <1>3, <1>4, <1>5, <1>6, <1>7

\* So are those of a command, but for the one that deletes the lock file.
LEMMA CommandKeeps ==
  ASSUME OwnerInv, NEW c \in Commands, UNCHANGED swept,
         \/ TakeLaunchLock(c) \/ Authenticate(c) \/ ReadState(c) \/ Probe(c)
         \/ ProbeFails(c) \/ Release(c) \/ FindLive(c) \/ ResetDeadSession(c) \/ AwaitHolder(c)
         \/ InspectEnds(c) \/ KillAgent(c) \/ KillWrites(c)
         \/ KillHolder(c) \/ KillPolls(c) \/ KillEnds(c) \/ StartHolder(c)
         \/ GcDeletes(c) \/ GcEnds(c)
  PROVE  OwnerInv'
<1> USE DEF OwnerInv
<1>1. CASE UNCHANGED <<files, holder>>
  BY <1>1, CalmKeeps DEF Shape, Calm, HasOpened
<1>2. CASE files' = LockOpened /\ UNCHANGED holder
  <2>1. Shape'
    BY <1>2, Opening DEF Shape
  <2>2. Calm
    BY <1>2, Opening DEF Calm, HasOpened
  <2> QED BY <2>1, <2>2, CalmKeeps
<1>3. CASE \/ Authenticate(c) \/ ReadState(c) \/ ProbeFails(c) \/ Release(c)
           \/ FindLive(c) \/ KillAgent(c)
  BY <1>1, <1>3 DEF Authenticate, ReadState, ProbeFails, Release, FindLive, KillAgent,
                    hostVars, processVars
<1>4. CASE Probe(c) \/ KillPolls(c) \/ KillEnds(c)
  BY <1>1, <1>2, <1>4 DEF Probe, KillPolls, KillEnds, processVars
<1>5. CASE ResetDeadSession(c)
  BY <1>5, CalmKeeps DEF ResetDeadSession, processVars, Shape, Calm, HasOpened
<1>6. CASE AwaitHolder(c)
  BY <1>6, CalmKeeps DEF AwaitHolder, Ended, Shape, Calm, HasOpened, Locked
<1>7. CASE InspectEnds(c)
  BY <1>7, CalmKeeps DEF InspectEnds, WritesBack, processVars, Shape, Calm, HasOpened
<1>8. CASE KillWrites(c)
  BY <1>8, CalmKeeps DEF KillWrites, WritesBack, processVars, Shape, Calm, HasOpened
<1>9. CASE KillHolder(c)
  BY <1>9, CalmKeeps DEF KillHolder, hostVars, Ended, Shape, Calm, HasOpened, Locked
<1>10. CASE StartHolder(c)
  BY <1>10, CalmKeeps DEF StartHolder, Shape, Calm, HasOpened, Locked
<1>11. CASE TakeLaunchLock(c)
  BY <1>11, CalmKeeps DEF TakeLaunchLock, Ensured, processVars, Shape, Calm, HasOpened
<1>12. CASE GcDeletes(c)
  BY <1>12, CalmKeeps DEF GcDeletes, processVars, Shape, Calm, HasOpened
<1>13. CASE GcEnds(c)
  BY <1>13, CalmKeeps DEF GcEnds, processVars, Shape, Calm, HasOpened
<1> QED BY <1>3, <1>4, <1>5, <1>6, <1>7, <1>8, <1>9, <1>10, <1>11, <1>12, <1>13

\* gc deletes the lock file, which is recorded if a Holder has it open.
LEMMA GcKeeps == ASSUME OwnerInv, NEW c \in Commands, GcDeletesLock(c) PROVE OwnerInv'
<1> USE DEF OwnerInv, GcDeletesLock, processVars
<1>1. Shape'
  BY DEF Shape
<1>2. OneLockFile'
  <2>1. swept' = (swept \/ \E h \in Commands : HasOpened(h))
    BY DEF HasOpened
  <2> QED BY <2>1 DEF Shape, OneLockFile, HasOpened
<1>3. OneHolder'
  <2>1. UNCHANGED holder
    OBVIOUS
  <2>2. ~swept' => ~swept
    BY DEF Shape
  <2> QED BY <2>1, <2>2 DEF OneHolder, Owners
<1> QED BY <1>1, <1>2, <1>3

LEMMA OwnerInvariant == Spec => []OwnerInv
<1>1. Init => OwnerInv
  <2> SUFFICES ASSUME Init PROVE OwnerInv
    OBVIOUS
  <2>1. Shape
    BY DEF Init, Shape
  <2>2. \A h \in Commands : holder[h].pc = "none"
    BY DEF Init
  <2> QED BY <2>1, <2>2 DEF OwnerInv, OneLockFile, HasOpened, OneHolder, Owners, Locked
<1>2. OwnerInv /\ [Next]_vars => OwnerInv'
  <2> SUFFICES ASSUME OwnerInv, [Next]_vars PROVE OwnerInv'
    OBVIOUS
  <2>1. CASE UNCHANGED <<files, holder, swept>>
    BY <2>1, CalmKeeps DEF OwnerInv, Shape, Calm, HasOpened
  <2>2. CASE HolderStep
    BY <2>2, FlockKeeps, OpenLockKeeps, HolderKeeps DEF HolderStep, historyVars
  <2>3. CASE \E h \in Commands : Guard(h) \/ AgentExits(h)
    BY <2>1, <2>3 DEF Guard, AgentExits, hostVars, historyVars
  <2>4. CASE CommandStep
    <3>1. ASSUME NEW c \in Commands,
                 StartHolder(c) \/ ResetDeadSession(c) \/ InspectEnds(c) \/ KillWrites(c)
          PROVE  OwnerInv'
      <4>1. UNCHANGED swept
        BY <3>1 DEF StartHolder, ResetDeadSession, InspectEnds, KillWrites
      <4> QED BY <3>1, <4>1, CommandKeeps
    <3> QED BY <2>4, <3>1, CommandKeeps, GcKeeps DEF CommandStep, historyVars
  <2>5. CASE EngineStep
    <3>1. UNCHANGED swept
      BY <2>5 DEF EngineStep, Launch, Launched, LaunchedInVain, Retry, Kill, Killed, Inspect,
                  Restore, Restored, Gc, historyVars
    <3> QED BY <2>1, <2>5, <3>1 DEF EngineStep, hostVars, processVars
  <2>6. CASE ChannelFails \/ EngineDies \/ CommandDies
    BY <2>1, <2>6 DEF ChannelFails, EngineDies, CommandDies, hostVars, processVars
  <2>7. CASE HolderDies
    <3>1. PICK h \in Commands : holder' = Ended(h)
      BY <2>7 DEF HolderDies
    <3>2. UNCHANGED <<files, swept>>
      BY <2>7 DEF HolderDies, hostVars
    <3>3. Shape' /\ Calm
      BY <3>1, <3>2 DEF OwnerInv, Shape, Ended, Calm, HasOpened, Locked
    <3> QED BY <3>3, CalmKeeps
  <2>8. CASE UNCHANGED vars
    BY <2>1, <2>8 DEF vars, hostVars, processVars, historyVars
  <2> QED BY <2>2, <2>3, <2>4, <2>5, <2>6, <2>7, <2>8 DEF Next
<1> QED BY <1>1, <1>2, PTL DEF Spec

\* However launches, retries, kills, inspections and runs of gc interleave,
\* and whichever processes die, no two Holders own the session at once,
\* unless gc deleted the lock of a Holder that was starting.
THEOREM OneOwner == Spec => []OneHolder
<1>1. OwnerInv => OneHolder
  BY DEF OwnerInv
<1> QED BY <1>1, OwnerInvariant, PTL

-----------------------------------------------------------------------------
(***************************************************************************)
(* What a launch answers.                                                  *)
(***************************************************************************)
Alive(h) == holder[h].pc \notin {"none", "gone"}
Started(h) == h # 0 => h \in Commands /\ holder[h].pc # "none"

\* The shape of a command, and where in its life it is.
CommandShape(c) ==
  /\ DOMAIN command[c] = {"type", "pc", "token", "expect", "read", "probe", "answer", "inc",
                          "gone", "fooled"}
  /\ DOMAIN command[c].read = {"inc", "process"}
  /\ c > counts.commands => command[c].pc = "none"
  /\ command[c].pc # "none" => command[c].type \in {"launch", "inspect", "kill", "gc"}
  /\ command[c].pc \in {"found", "reset", "reset_state", "reset_auth", "start", "wait"} =>
       command[c].type = "launch"
  /\ command[c].pc \in {"agent", "write", "term", "unlocked", "ended", "fail"} =>
       command[c].type = "kill"
  /\ command[c].pc = "write" => command[c].read.process = "exited"
  /\ command[c].pc # "done" => command[c].answer # "ok"

\* A launch holds the launch lock while it is at work, and has no Holder before
\* it waits for it. The Holders that were gone when it was asked are gone.
LaunchOf(c) ==
  /\ command[c].type = "launch" /\ command[c].pc \notin {"none", "lock", "done"} =>
       launch_lock = c
  /\ holder[c].pc # "none" => command[c].pc \in {"wait", "done"}
  /\ command[c].pc = "wait" => holder[c].pc # "none"
  /\ Started(command[c].read.inc)
  /\ c \notin command[c].gone
  /\ \A h \in command[c].gone : h \in Commands /\ holder[h].pc = "gone"

\* Unless a launch reset the session of a Holder that was alive: what a launch
\* read names the only Holder there is, and so does what it answers.
AnswerOf(c) ==
  /\ command[c].pc \in {"reset_auth", "start"} =>
       files.state.process # "running" /\ \A h \in Commands : ~Alive(h)
  /\ command[c].type = "launch" /\ command[c].pc \in {"probe", "found"}
       /\ command[c].read.process = "running" =>
       \A h \in Commands : Alive(h) => command[c].read.inc = h
  /\ command[c].pc = "found" /\ ~command[c].fooled /\ command[c].read.process = "running" =>
       command[c].read.inc \notin command[c].gone
  /\ command[c].type = "launch" /\ command[c].answer = "ok" /\ ~command[c].fooled =>
       command[c].inc \notin command[c].gone

\* One Holder is alive at a time, and a state file that says "running" is its.
OneAlive ==
  /\ \A g, h \in Commands : Alive(g) /\ Alive(h) => g = h
  /\ files.state.process = "running" => \A h \in Commands : Alive(h) => files.state.inc = h

HostShape ==
  /\ DOMAIN command = Commands
  /\ DOMAIN files.state = {"inc", "process"} /\ Started(files.state.inc)
  /\ DOMAIN counts = {"commands", "launches", "asides", "faults"} /\ counts.commands \in Nat
  /\ overtaken \in BOOLEAN

AnswerInv ==
  /\ HostShape
  /\ \A c \in Commands : CommandShape(c) /\ LaunchOf(c)
  /\ ~overtaken => OneAlive /\ \A c \in Commands : AnswerOf(c)

\* A step that starts no Holder, and writes "running" only for one that is alive.
Quiet ==
  /\ ~overtaken' => ~overtaken
  /\ \A h \in Commands :
       /\ Alive(h)' => Alive(h)
       /\ holder[h].pc = "gone" => holder'[h].pc = "gone"
       /\ holder'[h].pc = "none" <=> holder[h].pc = "none"
  /\ \/ files'.state = files.state
     \/ files'.state.process # "running"
     \/ files'.state.inc \in Commands /\ Alive(files'.state.inc)

\* It keeps what is known of the host and of the commands it leaves alone.
LEMMA QuietHost == ASSUME AnswerInv, Quiet PROVE ~overtaken' => OneAlive'
<1> SUFFICES ASSUME ~overtaken' PROVE OneAlive'
  OBVIOUS
<1>1. OneAlive /\ ~overtaken
  BY DEF AnswerInv, Quiet
<1>2. \A g, h \in Commands : Alive(g)' /\ Alive(h)' => g = h
  BY <1>1 DEF Quiet, OneAlive
<1>3. ASSUME files'.state.process = "running", NEW h \in Commands, Alive(h)'
      PROVE  files'.state.inc = h
  <2>1. Alive(h)
    BY <1>3 DEF Quiet
  <2> QED BY <1>1, <1>3, <2>1 DEF Quiet, OneAlive
<1> QED BY <1>2, <1>3 DEF OneAlive

CommandOf(c) == CommandShape(c) /\ LaunchOf(c) /\ (~overtaken => AnswerOf(c))

LEMMA QuietCommand ==
  ASSUME AnswerInv, Quiet, NEW d \in Commands, command'[d] = command[d],
         launch_lock = d => launch_lock' = d,
         d > counts'.commands => d > counts.commands
  PROVE  CommandOf(d)'
<1>1. CommandShape(d) /\ LaunchOf(d) /\ (~overtaken => AnswerOf(d))
  BY DEF AnswerInv
<1>2. CommandShape(d)'
  BY <1>1 DEF CommandShape
<1>3. LaunchOf(d)'
  BY <1>1 DEF LaunchOf, Started, Quiet
<1>4. ASSUME ~overtaken' PROVE AnswerOf(d)'
  <2>1. AnswerOf(d)
    BY <1>1, <1>4 DEF Quiet
  <2>2. \A h \in Commands : Alive(h)' => Alive(h)
    BY DEF Quiet
  <2>3. command[d].pc \in {"reset_auth", "start"} => files'.state.process # "running"
    BY <2>1 DEF AnswerOf, Quiet
  <2> QED BY <2>1, <2>2, <2>3 DEF AnswerOf
<1> QED BY <1>2, <1>3, <1>4 DEF CommandOf

\* A step of one command.
LEMMA QuietStep ==
  ASSUME AnswerInv, Quiet, HostShape', NEW c \in Commands,
         \A d \in Commands \ {c} :
           /\ command'[d] = command[d]
           /\ launch_lock = d => launch_lock' = d
           /\ d > counts'.commands => d > counts.commands,
         CommandOf(c)'
  PROVE  AnswerInv'
<1>1. \A d \in Commands : CommandOf(d)'
  BY QuietCommand
<1> QED BY <1>1, QuietHost DEF AnswerInv, CommandOf

\* A step of no command.
LEMMA QuietNone ==
  ASSUME AnswerInv, Quiet, HostShape', UNCHANGED <<command, launch_lock>>,
         counts'.commands = counts.commands
  PROVE  AnswerInv'
<1>1. \A d \in Commands : CommandOf(d)'
  BY QuietCommand
<1> QED BY <1>1, QuietHost DEF AnswerInv, CommandOf

LEMMA HostKept ==
  ASSUME AnswerInv, Quiet, DOMAIN command' = DOMAIN command, overtaken' \in BOOLEAN,
         DOMAIN counts' = DOMAIN counts, counts'.commands \in Nat,
         \/ files'.state = files.state
         \/ DOMAIN files'.state = {"inc", "process"} /\ Started(files'.state.inc)
  PROVE  HostShape'
  BY DEF AnswerInv, HostShape, Started, Quiet

\* A command that ends lets go of its lock; a launch that is answered names what
\* was not gone.
LEMMA FinishKeeps ==
  ASSUME AnswerInv, Quiet, NEW c \in Commands, NEW answer, NEW inc, Finish(c, answer, inc),
         command[c].pc # "none", overtaken' \in BOOLEAN,
         DOMAIN counts' = DOMAIN counts, counts'.commands = counts.commands,
         \/ files'.state = files.state
         \/ DOMAIN files'.state = {"inc", "process"} /\ Started(files'.state.inc),
         /\ ~overtaken' /\ command[c].type = "launch" /\ answer = "ok" /\ ~command[c].fooled
         => inc \notin command[c].gone
  PROVE  AnswerInv'
<1>1. CommandShape(c) /\ LaunchOf(c) /\ HostShape
  BY DEF AnswerInv
<1>2. /\ DOMAIN command' = DOMAIN command
      /\ \A d \in Commands \ {c} : command'[d] = command[d]
      /\ command'[c] = [command[c] EXCEPT !.pc = "done", !.answer = answer, !.inc = inc,
                                          !.probe = 0]
  BY <1>1 DEF Finish, HostShape
<1>3. /\ command'[c].pc = "done" /\ command'[c].type = command[c].type
      /\ command'[c].read = command[c].read /\ command'[c].gone = command[c].gone
      /\ command'[c].answer = answer /\ command'[c].inc = inc
      /\ command'[c].fooled = command[c].fooled
      /\ DOMAIN command'[c] = DOMAIN command[c]
  BY <1>1, <1>2 DEF CommandShape
<1>4. HostShape'
  BY <1>1, <1>2, HostKept DEF HostShape
<1>5. CommandOf(c)'
  <2>1. CommandShape(c)'
    BY <1>1, <1>3 DEF CommandShape
  <2>2. LaunchOf(c)'
    BY <1>1, <1>3 DEF LaunchOf, Started, Quiet
  <2>3. ~overtaken' => AnswerOf(c)'
    BY <1>3 DEF AnswerOf
  <2> QED BY <2>1, <2>2, <2>3 DEF CommandOf
<1>6. \A d \in Commands \ {c} : launch_lock = d => launch_lock' = d
  BY DEF Finish
<1> QED BY <1>2, <1>4, <1>5, <1>6, QuietStep

\* A command that goes on.
LEMMA GotoKeeps ==
  ASSUME AnswerInv, Quiet, NEW c \in Commands,
         NEW pc \in {"look", "probe", "reset", "reset_state", "term", "unlocked",
                     "delete_auth", "delete_state", "delete_lock", "remove"}, Goto(c, pc),
         command[c].pc \notin {"none", "wait", "done"}, UNCHANGED counts,
         overtaken' \in BOOLEAN,
         \/ files'.state = files.state
         \/ DOMAIN files'.state = {"inc", "process"} /\ Started(files'.state.inc),
         pc \in {"reset", "reset_state"} => command[c].type = "launch",
         pc = "probe" => command[c].type # "launch",
         pc \in {"term", "unlocked"} => command[c].type = "kill",
         command[c].type = "launch" => launch_lock' = c,
         \A d \in Commands \ {c} : launch_lock = d => launch_lock' = d
  PROVE  AnswerInv'
<1>1. CommandShape(c) /\ LaunchOf(c) /\ HostShape
  BY DEF AnswerInv
<1>2. /\ DOMAIN command' = DOMAIN command
      /\ \A d \in Commands \ {c} : command'[d] = command[d]
      /\ command'[c] = [command[c] EXCEPT !.pc = pc]
  BY <1>1 DEF Goto, HostShape
<1>3. /\ command'[c].pc = pc /\ command'[c].type = command[c].type
      /\ command'[c].read = command[c].read /\ command'[c].gone = command[c].gone
      /\ command'[c].answer = command[c].answer
      /\ DOMAIN command'[c] = DOMAIN command[c]
  BY <1>1, <1>2 DEF CommandShape
<1>4. HostShape'
  BY <1>1, <1>2, HostKept DEF HostShape
<1>5. CommandOf(c)'
  <2>1. CommandShape(c)'
    BY <1>1, <1>3 DEF CommandShape
  <2>2. LaunchOf(c)'
    BY <1>1, <1>3 DEF LaunchOf, Started, Quiet
  <2>3. AnswerOf(c)'
    BY <1>1, <1>3 DEF AnswerOf, CommandShape
  <2> QED BY <2>1, <2>2, <2>3 DEF CommandOf
<1> QED BY <1>2, <1>4, <1>5, QuietStep

\* A step that leaves the Holders and the state file alone.
LEMMA Silent ==
  ASSUME files'.state = files.state, holder' = holder, overtaken' = overtaken PROVE Quiet
  BY DEF Quiet, Alive

LEMMA LaunchLockAnswers ==
  ASSUME AnswerInv, Shape, NEW c \in Commands, TakeLaunchLock(c), UNCHANGED historyVars
  PROVE  AnswerInv'
<1>1. CommandShape(c) /\ LaunchOf(c) /\ HostShape
  BY DEF AnswerInv
<1>2. /\ files'.state = files.state /\ UNCHANGED <<holder, overtaken, counts>>
      /\ command[c].pc = "lock" /\ overtaken' \in BOOLEAN
  BY <1>1 DEF TakeLaunchLock, Ensured, Shape, processVars, historyVars, HostShape
<1>3. Quiet
  BY <1>2, Silent
<1>4. CASE launch_lock # 0 /\ Finish(c, "busy", 0)
  BY <1>2, <1>3, <1>4, FinishKeeps
<1>5. CASE launch_lock = 0 /\ launch_lock' = c /\ command[c].type = "launch" /\ Goto(c, "look")
  <2>1. \A d \in Commands \ {c} : launch_lock = d => launch_lock' = d
    BY <1>5 DEF Commands
  <2> QED BY <1>2, <1>3, <1>5, <2>1, GotoKeeps
<1>6. CASE launch_lock = 0 /\ command[c].type # "launch" /\ Goto(c, "probe")
  <2>1. \A d \in Commands \ {c} : launch_lock = d => launch_lock' = d
    BY <1>6 DEF Commands
  <2> QED BY <1>2, <1>3, <1>6, <2>1, GotoKeeps
<1> QED BY <1>4, <1>5, <1>6 DEF TakeLaunchLock

LEMMA AuthenticateAnswers ==
  ASSUME AnswerInv, Shape, NEW c \in Commands, Authenticate(c), UNCHANGED historyVars
  PROVE  AnswerInv'
<1>1. CommandShape(c) /\ LaunchOf(c) /\ HostShape
  BY DEF AnswerInv
<1>2. /\ files'.state = files.state /\ UNCHANGED <<holder, overtaken, counts>>
      /\ command[c].pc = "authenticate" /\ overtaken' \in BOOLEAN
  BY <1>1 DEF Authenticate, processVars, historyVars, HostShape
<1>3. Quiet
  BY <1>2, Silent
<1>4. CASE Finish(c, "error", 0)
  BY <1>2, <1>3, <1>4, FinishKeeps
<1>5. CASE Goto(c, "look") /\ UNCHANGED launch_lock
  <2>1. command[c].type = "launch" => launch_lock' = c
    BY <1>1, <1>2, <1>5 DEF LaunchOf
  <2> QED BY <1>2, <1>3, <1>5, <2>1, GotoKeeps
<1> QED BY <1>4, <1>5 DEF Authenticate

LEMMA ReadStateAnswers ==
  ASSUME AnswerInv, Shape, NEW c \in Commands, ReadState(c), UNCHANGED historyVars
  PROVE  AnswerInv'
<1>1. CommandShape(c) /\ LaunchOf(c) /\ HostShape /\ (~overtaken => OneAlive)
  BY DEF AnswerInv
<1>2. /\ files' = files /\ UNCHANGED <<holder, overtaken, counts>>
      /\ command[c].pc = "look" /\ overtaken' \in BOOLEAN
  BY <1>1 DEF ReadState, processVars, historyVars, HostShape
<1>3. Quiet
  BY <1>2, Silent
<1>4. CASE Finish(c, "exited", files.state.inc) \/ Finish(c, "error", 0)
  BY <1>2, <1>3, <1>4, FinishKeeps
<1>5. CASE command[c].type = "launch" /\ Goto(c, "reset") /\ UNCHANGED launch_lock
  <2>1. launch_lock' = c
    BY <1>1, <1>2, <1>5 DEF LaunchOf
  <2> QED BY <1>2, <1>3, <1>5, <2>1, GotoKeeps
<1>6. CASE /\ command' = [command EXCEPT ![c].pc = "probe", ![c].read = files.state]
           /\ UNCHANGED launch_lock
  <2>1. /\ DOMAIN command' = DOMAIN command
        /\ \A d \in Commands \ {c} : command'[d] = command[d]
        /\ command'[c] = [command[c] EXCEPT !.pc = "probe", !.read = files.state]
    BY <1>1, <1>6 DEF HostShape
  <2>2. /\ command'[c].pc = "probe" /\ command'[c].type = command[c].type
        /\ command'[c].read = files.state /\ command'[c].gone = command[c].gone
        /\ command'[c].answer = command[c].answer
        /\ DOMAIN command'[c] = DOMAIN command[c]
    BY <1>1, <2>1 DEF CommandShape
  <2>3. HostShape'
    BY <1>1, <1>2, <1>3, <2>1, HostKept DEF HostShape
  <2>4. CommandShape(c)'
    BY <1>1, <1>2, <2>2 DEF CommandShape, HostShape
  <2>5. LaunchOf(c)'
    BY <1>1, <1>2, <1>6, <2>2 DEF LaunchOf, Started, HostShape
  <2>6. ~overtaken' => AnswerOf(c)'
    BY <1>1, <1>2, <2>2 DEF AnswerOf, OneAlive, Alive, CommandShape
  <2>7. CommandOf(c)'
    BY <2>4, <2>5, <2>6 DEF CommandOf
  <2> QED BY <1>2, <1>3, <1>6, <2>1, <2>3, <2>7, QuietStep
<1> QED BY <1>4, <1>5, <1>6 DEF ReadState

\* The lock was held by a Holder that was alive, so by the one the launch read of.
LEMMA ProbeAnswers ==
  ASSUME AnswerInv, Shape, NEW c \in Commands, Probe(c), UNCHANGED historyVars
  PROVE  AnswerInv'
<1>1. CommandShape(c) /\ LaunchOf(c) /\ HostShape /\ (~overtaken => AnswerOf(c))
  BY DEF AnswerInv
<1>2. /\ files'.state = files.state /\ UNCHANGED <<launch_lock, holder, overtaken, counts>>
      /\ command[c].pc = "probe" /\ overtaken' \in BOOLEAN
  BY <1>1 DEF Probe, LockOpened, Shape, processVars, historyVars, HostShape
<1>3. Quiet
  BY <1>2, Silent
<1>4. command[c].type \in {"launch", "inspect", "kill", "gc"}
  BY <1>1, <1>2 DEF CommandShape
<1>5. CASE command' = [command EXCEPT ![c].pc = WhenHeld(command[c].type),
                                      ![c].fooled = ~HeldByHolder(files'.lock)]
  <2>1. /\ DOMAIN command' = DOMAIN command
        /\ \A d \in Commands \ {c} : command'[d] = command[d]
        /\ command'[c] = [command[c] EXCEPT !.pc = WhenHeld(command[c].type),
                                            !.fooled = ~HeldByHolder(files'.lock)]
    BY <1>1, <1>5 DEF HostShape
  <2>2. /\ command'[c].pc = WhenHeld(command[c].type) /\ command'[c].type = command[c].type
        /\ command'[c].read = command[c].read /\ command'[c].gone = command[c].gone
        /\ command'[c].answer = command[c].answer
        /\ command'[c].fooled = ~HeldByHolder(files'.lock)
        /\ DOMAIN command'[c] = DOMAIN command[c]
    BY <1>1, <2>1 DEF CommandShape
  <2>3. /\ command'[c].pc \in {"found", "running", "agent", "retain"}
        /\ command'[c].pc = "found" => command[c].type = "launch"
        /\ command'[c].pc = "agent" => command[c].type = "kill"
    BY <1>4, <2>2 DEF WhenHeld
  <2>4. HostShape'
    BY <1>1, <1>2, <1>3, <2>1, HostKept DEF HostShape
  <2>5. CommandShape(c)'
    BY <1>1, <1>2, <1>4, <2>2, <2>3 DEF CommandShape
  <2>6. LaunchOf(c)'
    BY <1>1, <1>2, <2>2, <2>3 DEF LaunchOf, Started
  <2>7. ASSUME ~overtaken', command'[c].pc = "found", ~command'[c].fooled,
               command[c].read.process = "running"
        PROVE  command[c].read.inc \notin command[c].gone
    <3>1. PICK h \in Owners : holder[h].inode = files'.lock
      BY <2>2, <2>7 DEF HeldByHolder
    <3>2. h \in Commands /\ Alive(h)
      BY DEF Owners, Locked, Alive
    <3>3. command[c].read.inc = h
      BY <1>1, <1>2, <2>3, <2>7, <3>2 DEF AnswerOf
    <3> QED BY <1>1, <3>2, <3>3 DEF LaunchOf, Alive
  <2>8. ~overtaken' => AnswerOf(c)'
    <3> SUFFICES ASSUME ~overtaken' PROVE AnswerOf(c)'
      OBVIOUS
    <3>1. AnswerOf(c)
      BY <1>1, <1>2
    <3>2. command'[c].type = "launch" /\ command'[c].pc \in {"probe", "found"}
            /\ command'[c].read.process = "running" =>
            \A h \in Commands : Alive(h)' => command'[c].read.inc = h
      BY <1>2, <2>2, <3>1 DEF AnswerOf, Alive
    <3>3. command'[c].answer # "ok"
      BY <1>1, <1>2, <2>2 DEF CommandShape
    <3> QED BY <2>2, <2>3, <2>7, <3>2, <3>3 DEF AnswerOf
  <2>9. CommandOf(c)'
    BY <2>5, <2>6, <2>8 DEF CommandOf
  <2> QED BY <1>2, <1>3, <2>1, <2>4, <2>9, QuietStep
<1>6. CASE command' = [command EXCEPT ![c].pc = "release", ![c].probe = files'.lock]
  <2>1. /\ DOMAIN command' = DOMAIN command
        /\ \A d \in Commands \ {c} : command'[d] = command[d]
        /\ command'[c] = [command[c] EXCEPT !.pc = "release", !.probe = files'.lock]
    BY <1>1, <1>6 DEF HostShape
  <2>2. /\ command'[c].pc = "release" /\ command'[c].type = command[c].type
        /\ command'[c].read = command[c].read /\ command'[c].gone = command[c].gone
        /\ command'[c].answer = command[c].answer
        /\ DOMAIN command'[c] = DOMAIN command[c]
    BY <1>1, <2>1 DEF CommandShape
  <2>3. HostShape'
    BY <1>1, <1>2, <1>3, <2>1, HostKept DEF HostShape
  <2>4. CommandShape(c)'
    BY <1>1, <1>2, <1>4, <2>2 DEF CommandShape
  <2>5. LaunchOf(c)'
    BY <1>1, <1>2, <2>2 DEF LaunchOf, Started
  <2>6. AnswerOf(c)'
    BY <1>1, <1>2, <2>2 DEF AnswerOf, CommandShape
  <2>7. CommandOf(c)'
    BY <2>4, <2>5, <2>6 DEF CommandOf
  <2> QED BY <1>2, <1>3, <2>1, <2>3, <2>7, QuietStep
<1> QED BY <1>5, <1>6 DEF Probe

LEMMA ReleaseAnswers ==
  ASSUME AnswerInv, NEW c \in Commands, Release(c), UNCHANGED historyVars
  PROVE  AnswerInv'
<1>1. CommandShape(c) /\ LaunchOf(c) /\ HostShape
  BY DEF AnswerInv
<1>2. /\ UNCHANGED <<files, launch_lock, holder, overtaken, counts>>
      /\ command[c].pc = "release" /\ overtaken' \in BOOLEAN
  BY <1>1 DEF Release, hostVars, processVars, historyVars, HostShape
<1>3. Quiet
  BY <1>2, Silent
<1>4. command[c].type \in {"launch", "inspect", "kill", "gc"}
  BY <1>1, <1>2 DEF CommandShape
<1>5. /\ DOMAIN command' = DOMAIN command
      /\ \A d \in Commands \ {c} : command'[d] = command[d]
      /\ command'[c] = [command[c] EXCEPT !.pc = WhenFree(command[c].type), !.probe = 0]
  BY <1>1 DEF Release, HostShape
<1>6. /\ command'[c].pc = WhenFree(command[c].type) /\ command'[c].type = command[c].type
      /\ command'[c].read = command[c].read /\ command'[c].gone = command[c].gone
      /\ command'[c].answer = command[c].answer
      /\ DOMAIN command'[c] = DOMAIN command[c]
  BY <1>1, <1>5 DEF CommandShape
<1>7. /\ command'[c].pc \in {"reset", "record", "fail", "delete"}
      /\ command'[c].pc = "reset" => command[c].type = "launch"
      /\ command'[c].pc = "fail" => command[c].type = "kill"
  BY <1>4, <1>6 DEF WhenFree
<1>8. HostShape'
  BY <1>1, <1>2, <1>3, <1>5, HostKept DEF HostShape
<1>9. CommandShape(c)'
  BY <1>1, <1>2, <1>4, <1>6, <1>7 DEF CommandShape
<1>10. LaunchOf(c)'
  BY <1>1, <1>2, <1>6, <1>7 DEF LaunchOf, Started
<1>11. AnswerOf(c)'
  BY <1>1, <1>2, <1>6, <1>7 DEF AnswerOf, CommandShape
<1>12. CommandOf(c)'
  BY <1>9, <1>10, <1>11 DEF CommandOf
<1> QED BY <1>2, <1>3, <1>5, <1>8, <1>12, QuietStep

LEMMA FindLiveAnswers ==
  ASSUME AnswerInv, NEW c \in Commands, FindLive(c), UNCHANGED historyVars
  PROVE  AnswerInv'
<1>1. CommandShape(c) /\ LaunchOf(c) /\ HostShape /\ (~overtaken => AnswerOf(c))
  BY DEF AnswerInv
<1>2. /\ UNCHANGED <<files, holder, overtaken, counts>>
      /\ command[c].pc = "found" /\ overtaken' \in BOOLEAN /\ command[c].type = "launch"
  BY <1>1 DEF FindLive, processVars, historyVars, HostShape, CommandShape
<1>3. Quiet
  BY <1>2, Silent
<1>4. CASE Goto(c, "reset") /\ UNCHANGED launch_lock
  <2>1. launch_lock' = c
    BY <1>1, <1>2, <1>4 DEF LaunchOf
  <2> QED BY <1>2, <1>3, <1>4, <2>1, GotoKeeps
<1>5. CASE Finish(c, "error", 0)
  BY <1>2, <1>3, <1>5, FinishKeeps
<1>6. CASE command[c].read.process = "running" /\ Finish(c, "ok", command[c].read.inc)
  <2>1. ~overtaken' /\ ~command[c].fooled => command[c].read.inc \notin command[c].gone
    BY <1>1, <1>2, <1>6 DEF AnswerOf
  <2> QED BY <1>2, <1>3, <1>6, <2>1, FinishKeeps
<1> QED BY <1>4, <1>5, <1>6 DEF FindLive

\* Unless one is alive, none is: the session is the launch's.
LEMMA ResetAnswers ==
  ASSUME AnswerInv, Shape, NEW c \in Commands, ResetDeadSession(c) PROVE AnswerInv'
<1>1. CommandShape(c) /\ LaunchOf(c) /\ HostShape
  BY DEF AnswerInv
<1>2. /\ UNCHANGED <<launch_lock, holder, counts>> /\ command[c].type = "launch"
      /\ command[c].pc \in {"reset", "reset_state", "reset_auth"}
      /\ files'.state = files.state \/ files'.state = NoState
  BY <1>1 DEF ResetDeadSession, Shape, processVars, CommandShape
<1>3. /\ overtaken' \in BOOLEAN
      /\ ~overtaken' => ~overtaken /\ \A h \in Commands : ~Alive(h)
  BY <1>1 DEF ResetDeadSession, HostShape, Alive
<1>4. Quiet
  BY <1>2, <1>3 DEF Quiet, Alive, NoState
<1>5. \/ files'.state = files.state
      \/ DOMAIN files'.state = {"inc", "process"} /\ Started(files'.state.inc)
  BY <1>2 DEF NoState, Started
<1>6. CASE command[c].pc = "reset" /\ Goto(c, "reset_state")
  <2>1. launch_lock' = c
    BY <1>1, <1>2, <1>6 DEF LaunchOf
  <2> QED BY <1>2, <1>3, <1>4, <1>5, <1>6, <2>1, GotoKeeps
<1>7. ASSUME NEW pc \in {"reset_auth", "start"}, Goto(c, pc),
             ~overtaken' => files'.state.process # "running"
      PROVE  AnswerInv'
  <2>1. /\ DOMAIN command' = DOMAIN command
        /\ \A d \in Commands \ {c} : command'[d] = command[d]
        /\ command'[c] = [command[c] EXCEPT !.pc = pc]
    BY <1>1, <1>7 DEF Goto, HostShape
  <2>2. /\ command'[c].pc = pc /\ command'[c].type = command[c].type
        /\ command'[c].read = command[c].read /\ command'[c].gone = command[c].gone
        /\ command'[c].answer = command[c].answer
        /\ DOMAIN command'[c] = DOMAIN command[c]
    BY <1>1, <2>1 DEF CommandShape
  <2>3. HostShape'
    BY <1>1, <1>2, <1>3, <1>4, <1>5, <2>1, HostKept DEF HostShape
  <2>4. CommandShape(c)'
    BY <1>1, <1>2, <2>2 DEF CommandShape
  <2>5. LaunchOf(c)'
    BY <1>1, <1>2, <2>2 DEF LaunchOf, Started
  <2>6. ~overtaken' => AnswerOf(c)'
    BY <1>1, <1>2, <1>3, <1>7, <2>2 DEF AnswerOf, CommandShape, Alive
  <2>7. CommandOf(c)'
    BY <2>4, <2>5, <2>6 DEF CommandOf
  <2> QED BY <1>2, <1>4, <2>1, <2>3, <2>7, QuietStep
<1>8. CASE command[c].pc = "reset_state" /\ Goto(c, "reset_auth") /\ files'.state = NoState
  BY <1>7, <1>8 DEF NoState
<1>9. CASE command[c].pc = "reset_auth" /\ Goto(c, "start") /\ files'.state = files.state
  <2>1. ~overtaken' => files'.state.process # "running"
    BY <1>3, <1>9 DEF AnswerInv, AnswerOf
  <2> QED BY <1>7, <1>9, <2>1
<1> QED BY <1>6, <1>8, <1>9 DEF ResetDeadSession, Shape

\* A Holder that ends, and a state file that does not say "running" because of it.
LEMMA EndingIsQuiet ==
  ASSUME Shape, NEW h, Started(h), holder' = Ended(h), overtaken' = overtaken,
         files'.state = files.state \/ files'.state.process # "running"
  PROVE  Quiet
<1>1. CASE h \in Commands
  <2>1. /\ holder[h].pc # "none" /\ holder'[h].pc = "gone"
        /\ \A g \in Commands \ {h} : holder'[g] = holder[g]
    BY <1>1 DEF Shape, Ended, Started, Commands
  <2> QED BY <2>1 DEF Quiet, Alive
<1>2. CASE h \notin Commands
  <2>1. \A g \in Commands : holder'[g] = holder[g]
    BY <1>2 DEF Shape, Ended
  <2> QED BY <2>1 DEF Quiet, Alive
<1> QED BY <1>1, <1>2

LEMMA ProbeFailsAnswers ==
  ASSUME AnswerInv, NEW c \in Commands, ProbeFails(c), UNCHANGED historyVars
  PROVE  AnswerInv'
<1>1. CommandShape(c) /\ LaunchOf(c) /\ HostShape
  BY DEF AnswerInv
<1>2. /\ UNCHANGED <<files, holder, overtaken, counts>>
      /\ command[c].pc = "probe" /\ overtaken' \in BOOLEAN
  BY <1>1 DEF ProbeFails, processVars, historyVars, HostShape
<1>3. Quiet
  BY <1>2, Silent
<1>4. CASE command[c].type = "gc" /\ Finish(c, "ok", 0)
  BY <1>2, <1>3, <1>4, FinishKeeps
<1>5. CASE Finish(c, "error", 0)
  BY <1>2, <1>3, <1>5, FinishKeeps
<1> QED BY <1>4, <1>5 DEF ProbeFails

\* The startup loop ends: with the launch's own Holder, or with its end.
LEMMA AwaitAnswers ==
  ASSUME AnswerInv, Shape, NEW c \in Commands, AwaitHolder(c), UNCHANGED historyVars
  PROVE  AnswerInv'
<1>1. CommandShape(c) /\ LaunchOf(c) /\ HostShape
  BY DEF AnswerInv
<1>2. /\ UNCHANGED <<files, overtaken, counts>>
      /\ command[c].pc = "wait" /\ overtaken' \in BOOLEAN
  BY <1>1 DEF AwaitHolder, historyVars, HostShape
<1>3. c \notin command[c].gone /\ Started(c)
  BY <1>1, <1>2 DEF LaunchOf, Started
<1>4. CASE UNCHANGED holder /\ (Finish(c, "ok", c) \/ Finish(c, "error", c))
  <2>1. Quiet
    BY <1>2, <1>4, Silent
  <2> QED BY <1>2, <1>3, <1>4, <2>1, FinishKeeps
<1>5. CASE UNCHANGED holder /\ Finish(c, "error", 0)
  <2>1. Quiet
    BY <1>2, <1>5, Silent
  <2> QED BY <1>2, <1>5, <2>1, FinishKeeps
<1>6. CASE holder' = Ended(c) /\ Finish(c, "error", 0)
  <2>1. Quiet
    BY <1>2, <1>3, <1>6, EndingIsQuiet
  <2> QED BY <1>2, <1>6, <2>1, FinishKeeps
<1> QED BY <1>4, <1>5, <1>6 DEF AwaitHolder

\* What inspect writes says that the Holder it read of has ended.
\* What inspect and kill write back says "exited".
LEMMA WritingBackIsQuiet ==
  ASSUME AnswerInv, Shape, NEW c \in Commands, WritesBack(c), UNCHANGED <<holder, overtaken>>
  PROVE  /\ Quiet
         /\ DOMAIN files'.state = {"inc", "process"} /\ Started(files'.state.inc)
<1>1. CommandShape(c) /\ LaunchOf(c)
  BY DEF AnswerInv
<1>2. files'.state = [command[c].read EXCEPT !.process = "exited"]
  BY DEF WritesBack, Shape
<1>3. /\ DOMAIN files'.state = {"inc", "process"} /\ files'.state.process = "exited"
      /\ files'.state.inc = command[c].read.inc
  BY <1>1, <1>2 DEF CommandShape
<1>4. Started(files'.state.inc)
  BY <1>1, <1>3 DEF LaunchOf
<1>5. Quiet
  BY <1>3 DEF Quiet, Alive
<1> QED BY <1>3, <1>4, <1>5

LEMMA InspectAnswers ==
  ASSUME AnswerInv, Shape, NEW c \in Commands, InspectEnds(c) PROVE AnswerInv'
<1>1. CommandShape(c) /\ LaunchOf(c) /\ HostShape
  BY DEF AnswerInv
<1>2. /\ UNCHANGED <<holder, overtaken, counts>>
      /\ command[c].pc \in {"running", "record"} /\ overtaken' \in BOOLEAN
  BY <1>1 DEF InspectEnds, processVars, HostShape
<1>3. CASE /\ UNCHANGED files
           /\ Finish(c, "running", command[c].read.inc) \/ Finish(c, "error", 0)
  <2>1. Quiet
    BY <1>2, <1>3, Silent
  <2> QED BY <1>2, <1>3, <2>1, FinishKeeps
<1>4. CASE Finish(c, "exited", command[c].read.inc) /\ WritesBack(c)
  BY <1>2, <1>4, WritingBackIsQuiet, FinishKeeps
<1> QED BY <1>3, <1>4 DEF InspectEnds

LEMMA KillAgentAnswers ==
  ASSUME AnswerInv, NEW c \in Commands, KillAgent(c), UNCHANGED historyVars
  PROVE  AnswerInv'
<1>1. CommandShape(c) /\ LaunchOf(c) /\ HostShape
  BY DEF AnswerInv
<1>2. /\ UNCHANGED <<files, launch_lock, holder, overtaken, counts>>
      /\ command[c].pc = "agent" /\ overtaken' \in BOOLEAN
  BY <1>1 DEF KillAgent, hostVars, historyVars, HostShape
<1>3. Quiet
  BY <1>2, Silent
<1>4. /\ DOMAIN command' = DOMAIN command
      /\ \A d \in Commands \ {c} : command'[d] = command[d]
      /\ command'[c] = [command[c] EXCEPT !.pc = "write", !.read.process = "exited"]
  BY <1>1 DEF KillAgent, HostShape
<1>5. /\ command'[c].pc = "write" /\ command'[c].type = command[c].type
      /\ command'[c].gone = command[c].gone /\ command'[c].answer = command[c].answer
      /\ DOMAIN command'[c] = DOMAIN command[c]
      /\ command'[c].read = [command[c].read EXCEPT !.process = "exited"]
  BY <1>1, <1>4 DEF CommandShape
<1>6. /\ DOMAIN command'[c].read = DOMAIN command[c].read
      /\ command'[c].read.inc = command[c].read.inc /\ command'[c].read.process = "exited"
  BY <1>1, <1>5 DEF CommandShape
<1>7. HostShape'
  BY <1>1, <1>2, <1>3, <1>4, HostKept DEF HostShape
<1>8. CommandShape(c)'
  BY <1>1, <1>2, <1>5, <1>6 DEF CommandShape
<1>9. LaunchOf(c)'
  BY <1>1, <1>2, <1>5, <1>6 DEF LaunchOf, Started
<1>10. AnswerOf(c)'
  BY <1>1, <1>2, <1>5, <1>6 DEF AnswerOf, CommandShape
<1>11. CommandOf(c)'
  BY <1>8, <1>9, <1>10 DEF CommandOf
<1> QED BY <1>2, <1>3, <1>4, <1>7, <1>11, QuietStep

LEMMA KillWritesAnswers ==
  ASSUME AnswerInv, Shape, NEW c \in Commands, KillWrites(c) PROVE AnswerInv'
<1>1. CommandShape(c) /\ LaunchOf(c) /\ HostShape
  BY DEF AnswerInv
<1>2. /\ UNCHANGED <<holder, overtaken, counts>>
      /\ command[c].pc = "write" /\ overtaken' \in BOOLEAN
  BY <1>1 DEF KillWrites, processVars, HostShape
<1>3. CASE Finish(c, "error", 0) /\ UNCHANGED files
  <2>1. Quiet
    BY <1>2, <1>3, Silent
  <2> QED BY <1>2, <1>3, <2>1, FinishKeeps
<1>4. CASE WritesBack(c) /\ Goto(c, "term") /\ UNCHANGED launch_lock
  <2>1. command[c].type = "kill"
    BY <1>1, <1>2 DEF CommandShape
  <2> QED BY <1>2, <1>4, <2>1, WritingBackIsQuiet, GotoKeeps
<1> QED BY <1>3, <1>4 DEF KillWrites

LEMMA KillHolderAnswers ==
  ASSUME AnswerInv, Shape, NEW c \in Commands, KillHolder(c), UNCHANGED historyVars
  PROVE  AnswerInv'
<1>1. CommandShape(c) /\ LaunchOf(c) /\ HostShape
  BY DEF AnswerInv
<1>2. /\ UNCHANGED <<files, launch_lock, overtaken, counts>>
      /\ command[c].pc = "term" /\ overtaken' \in BOOLEAN
      /\ holder' = Ended(command[c].read.inc) /\ Goto(c, "unlocked")
  BY <1>1 DEF KillHolder, hostVars, historyVars, HostShape
<1>3. Started(command[c].read.inc)
  BY <1>1 DEF LaunchOf
<1>4. Quiet
  BY <1>2, <1>3, EndingIsQuiet
<1>5. command[c].type = "kill"
  BY <1>1, <1>2 DEF CommandShape
<1> QED BY <1>2, <1>4, <1>5, GotoKeeps

LEMMA KillPollsAnswers ==
  ASSUME AnswerInv, Shape, NEW c \in Commands, KillPolls(c), UNCHANGED historyVars
  PROVE  AnswerInv'
<1>1. CommandShape(c) /\ LaunchOf(c) /\ HostShape
  BY DEF AnswerInv
<1>2. /\ files'.state = files.state /\ UNCHANGED <<launch_lock, holder, overtaken, counts>>
      /\ command[c].pc = "unlocked" /\ overtaken' \in BOOLEAN
  BY <1>1 DEF KillPolls, LockOpened, Shape, processVars, historyVars, HostShape
<1>3. Quiet
  BY <1>2, Silent
<1>4. /\ DOMAIN command' = DOMAIN command
      /\ \A d \in Commands \ {c} : command'[d] = command[d]
      /\ command'[c] = [command[c] EXCEPT !.pc = "ended", !.probe = files'.lock]
  BY <1>1 DEF KillPolls, HostShape
<1>5. /\ command'[c].pc = "ended" /\ command'[c].type = "kill"
      /\ command'[c].read = command[c].read /\ command'[c].gone = command[c].gone
      /\ command'[c].answer = command[c].answer
      /\ DOMAIN command'[c] = DOMAIN command[c]
  BY <1>1, <1>2, <1>4 DEF CommandShape
<1>6. HostShape'
  BY <1>1, <1>2, <1>3, <1>4, HostKept DEF HostShape
<1>7. CommandShape(c)'
  BY <1>1, <1>2, <1>5 DEF CommandShape
<1>8. LaunchOf(c)'
  BY <1>1, <1>2, <1>5 DEF LaunchOf, Started
<1>9. AnswerOf(c)'
  BY <1>1, <1>2, <1>5 DEF AnswerOf, CommandShape
<1>10. CommandOf(c)'
  BY <1>7, <1>8, <1>9 DEF CommandOf
<1> QED BY <1>2, <1>3, <1>4, <1>6, <1>10, QuietStep

LEMMA KillEndsAnswers ==
  ASSUME AnswerInv, Shape, NEW c \in Commands, KillEnds(c), UNCHANGED historyVars
  PROVE  AnswerInv'
<1>1. CommandShape(c) /\ LaunchOf(c) /\ HostShape
  BY DEF AnswerInv
<1>2. /\ files'.state = files.state /\ UNCHANGED <<holder, overtaken, counts>>
      /\ command[c].pc \in {"fail", "unlocked", "ended"} /\ overtaken' \in BOOLEAN
  BY <1>1 DEF KillEnds, LockOpened, Shape, processVars, historyVars, HostShape
<1>3. Quiet
  BY <1>2, Silent
<1>4. PICK answer, inc : Finish(c, answer, inc)
  BY DEF KillEnds
<1>5. command[c].type # "launch"
  BY <1>1, <1>2 DEF CommandShape
<1> QED BY <1>2, <1>3, <1>4, <1>5, FinishKeeps

LEMMA GcDeletesAnswers ==
  ASSUME AnswerInv, Shape, NEW c \in Commands, UNCHANGED counts, overtaken' = overtaken,
         GcDeletes(c) \/ GcDeletesLock(c)
  PROVE  AnswerInv'
<1>1. CommandShape(c) /\ LaunchOf(c) /\ HostShape
  BY DEF AnswerInv
<1>2. /\ UNCHANGED <<launch_lock, holder>> /\ overtaken' \in BOOLEAN
      /\ command[c].pc \in {"delete", "delete_auth", "delete_state", "delete_lock"}
      /\ files'.state = files.state \/ files'.state = NoState
  BY <1>1 DEF GcDeletes, GcDeletesLock, processVars, HostShape, Shape
<1>3. PICK pc \in {"delete_auth", "delete_state", "delete_lock", "remove"} : Goto(c, pc)
  BY DEF GcDeletes, GcDeletesLock
<1>4. Quiet
  BY <1>2 DEF Quiet, Alive, NoState
<1>5. \/ files'.state = files.state
      \/ DOMAIN files'.state = {"inc", "process"} /\ Started(files'.state.inc)
  BY <1>2 DEF NoState, Started
<1>6. command[c].type = "launch" => launch_lock' = c
  BY <1>1, <1>2 DEF LaunchOf
<1> QED BY <1>2, <1>3, <1>4, <1>5, <1>6, GotoKeeps

LEMMA GcEndsAnswers ==
  ASSUME AnswerInv, Shape, NEW c \in Commands, GcEnds(c), UNCHANGED historyVars
  PROVE  AnswerInv'
<1>1. CommandShape(c) /\ LaunchOf(c) /\ HostShape
  BY DEF AnswerInv
<1>2. /\ UNCHANGED <<holder, overtaken, counts>> /\ Finish(c, "ok", 0)
      /\ command[c].pc \in {"retain", "remove"} /\ overtaken' \in BOOLEAN
      /\ files'.state = files.state
  BY <1>1 DEF GcEnds, processVars, historyVars, HostShape, Shape
<1>3. Quiet
  BY <1>2, Silent
<1>4. 0 \notin command[c].gone
  BY <1>1 DEF LaunchOf, Commands
<1> QED BY <1>2, <1>3, <1>4, FinishKeeps

\* The launch that starts a Holder has the launch lock, so no other launch has
\* read of the session yet; and it has found the session without a Holder.
LEMMA StartAnswers ==
  ASSUME AnswerInv, Shape, NEW c \in Commands, StartHolder(c) PROVE AnswerInv'
<1>1. CommandShape(c) /\ LaunchOf(c) /\ HostShape /\ (~overtaken => AnswerOf(c) /\ OneAlive)
  BY DEF AnswerInv
<1>2. /\ UNCHANGED <<overtaken, counts>> /\ overtaken' \in BOOLEAN /\ files'.state = files.state
      /\ command[c].pc = "start" /\ command[c].type = "launch"
  BY <1>1 DEF StartHolder, HostShape, Shape, CommandShape
<1>3. CASE Finish(c, "error", 0) /\ UNCHANGED holder
  <2>1. Quiet
    BY <1>2, <1>3, Silent
  <2> QED BY <1>2, <1>3, <2>1, FinishKeeps
<1>4. CASE /\ holder' = [holder EXCEPT ![c].pc = "auth", ![c].token = command[c].token]
           /\ Goto(c, "wait") /\ UNCHANGED launch_lock
  <2>1. /\ holder[c].pc = "none" /\ launch_lock = c
    BY <1>1, <1>2 DEF LaunchOf
  <2>2. /\ holder'[c].pc = "auth"
        /\ \A h \in Commands \ {c} : holder'[h] = holder[h]
    BY <1>4 DEF Shape
  <2>3. /\ DOMAIN command' = DOMAIN command
        /\ \A d \in Commands \ {c} : command'[d] = command[d]
        /\ command'[c] = [command[c] EXCEPT !.pc = "wait"]
    BY <1>1, <1>4 DEF Goto, HostShape
  <2>4. /\ command'[c].pc = "wait" /\ command'[c].type = command[c].type
        /\ command'[c].read = command[c].read /\ command'[c].gone = command[c].gone
        /\ command'[c].answer = command[c].answer
        /\ DOMAIN command'[c] = DOMAIN command[c]
    BY <1>1, <2>3 DEF CommandShape
  <2>5. \A h : Started(h) => Started(h)'
    BY <2>2 DEF Started
  <2>6. HostShape'
    BY <1>1, <1>2, <2>3, <2>5 DEF HostShape
  <2>7. \A h \in Commands : holder[h].pc = "gone" => holder'[h].pc = "gone"
    BY <2>1, <2>2
  <2>8. CommandShape(c)' /\ LaunchOf(c)'
    <3>1. CommandShape(c)'
      BY <1>1, <1>2, <2>4 DEF CommandShape
    <3>2. LaunchOf(c)'
      BY <1>1, <1>4, <2>1, <2>2, <2>4, <2>5, <2>7 DEF LaunchOf
    <3> QED BY <3>1, <3>2
  <2>9. ASSUME NEW d \in Commands \ {c} PROVE CommandShape(d)' /\ LaunchOf(d)'
    <3>1. CommandShape(d) /\ LaunchOf(d)
      BY DEF AnswerInv
    <3>2. CommandShape(d)'
      BY <1>2, <2>3, <3>1 DEF CommandShape
    <3>3. LaunchOf(d)'
      BY <1>4, <2>2, <2>3, <2>5, <2>7, <3>1 DEF LaunchOf
    <3> QED BY <3>2, <3>3
  <2>10. ASSUME ~overtaken' PROVE OneAlive' /\ \A d \in Commands : AnswerOf(d)'
    <3>1. files.state.process # "running" /\ \A h \in Commands : ~Alive(h)
      BY <1>1, <1>2, <2>10 DEF AnswerOf
    <3>2. \A h \in Commands : Alive(h)' => h = c
      BY <2>2, <3>1 DEF Alive
    <3>3. OneAlive'
      BY <1>2, <3>1, <3>2 DEF OneAlive
    <3>4. AnswerOf(c)'
      BY <1>1, <1>2, <2>4 DEF AnswerOf, CommandShape
    <3>5. ASSUME NEW d \in Commands \ {c} PROVE AnswerOf(d)'
      <4>1. CommandShape(d) /\ LaunchOf(d) /\ AnswerOf(d)
        BY <1>2, <2>10 DEF AnswerInv
      <4>2. command[d].pc \notin {"reset_auth", "start"}
        BY <2>1, <4>1 DEF CommandShape, LaunchOf
      <4>3. ~(command[d].type = "launch" /\ command[d].pc \in {"probe", "found"})
        BY <2>1, <4>1 DEF LaunchOf
      <4> QED BY <2>3, <4>1, <4>2, <4>3 DEF AnswerOf
    <3> QED BY <3>3, <3>4, <3>5
  <2> QED BY <2>6, <2>8, <2>9, <2>10 DEF AnswerInv
<1> QED BY <1>3, <1>4 DEF StartHolder

\* A Holder writes a state that names itself.
LEMMA HolderAnswers ==
  ASSUME AnswerInv, Shape, HolderStep PROVE AnswerInv'
<1>1. HostShape
  BY DEF AnswerInv
<1>2. PICK h \in Commands :
        \/ HolderAuth(h) \/ OpenLock(h) \/ Flock(h) \/ ChmodLock(h) \/ Bind(h)
        \/ SpawnAgent(h) \/ SpawnGuard(h) \/ WriteState(h) \/ RecordExit(h)
  BY DEF HolderStep
<1>3. UNCHANGED <<launch_lock, command, overtaken, counts>>
  BY DEF HolderStep, historyVars
<1>4. /\ Alive(h) /\ holder'[h].pc # "none"
      /\ \A g \in Commands \ {h} : holder'[g] = holder[g]
  <2> USE DEF Alive, Shape, Ended, At
  <2>1. CASE HolderAuth(h)
    BY <2>1 DEF HolderAuth
  <2>2. CASE OpenLock(h)
    BY <2>2 DEF OpenLock
  <2>3. CASE Flock(h)
    BY <2>3 DEF Flock
  <2>4. CASE ChmodLock(h)
    BY <2>4 DEF ChmodLock
  <2>5. CASE Bind(h) \/ SpawnAgent(h) \/ SpawnGuard(h)
    BY <2>5 DEF Bind, SpawnAgent, SpawnGuard
  <2>6. CASE WriteState(h)
    BY <2>6 DEF WriteState
  <2>7. CASE RecordExit(h)
    BY <2>7 DEF RecordExit
  <2> QED BY <1>2, <2>1, <2>2, <2>3, <2>4, <2>5, <2>6, <2>7
<1>5. \/ files'.state = files.state
      \/ DOMAIN files'.state = {"inc", "process"} /\ files'.state.inc = h
  <2>1. CASE HolderAuth(h) \/ Flock(h) \/ ChmodLock(h) \/ Bind(h) \/ SpawnAgent(h) \/ SpawnGuard(h)
    BY <2>1 DEF HolderAuth, Flock, ChmodLock, Bind, SpawnAgent, SpawnGuard, Shape
  <2>2. CASE OpenLock(h)
    BY <2>2 DEF OpenLock, LockOpened, Shape
  <2>3. CASE WriteState(h)
    BY <2>3 DEF WriteState, Shape
  <2>4. CASE RecordExit(h)
    BY <2>4 DEF RecordExit, Shape
  <2> QED BY <1>2, <2>1, <2>2, <2>3, <2>4
<1>6. Quiet
  BY <1>3, <1>4, <1>5 DEF Quiet, Alive
<1>7. \/ files'.state = files.state
      \/ DOMAIN files'.state = {"inc", "process"} /\ Started(files'.state.inc)
  BY <1>4, <1>5 DEF Started, Alive
<1>8. HostShape'
  BY <1>1, <1>3, <1>6, <1>7, HostKept DEF HostShape
<1> QED BY <1>3, <1>6, <1>8, QuietNone

\* A command that is started knows of the Holders that are gone, and has none.
LEMMA RunAnswers ==
  ASSUME AnswerInv, NEW type \in {"launch", "inspect", "kill", "gc"}, NEW token, NEW inc,
         Run(type, token, inc), UNCHANGED <<files, launch_lock, holder, overtaken>>,
         DOMAIN counts' = DOMAIN counts, counts'.commands = counts.commands + 1
  PROVE  AnswerInv'
<1> DEFINE gone == {h \in Commands : holder[h].pc = "gone"}
<1>1. HostShape /\ MaxCommands \in Nat
  BY RemoteLaunchAssumption DEF AnswerInv
<1>2. PICK c \in Commands : c = counts.commands + 1
  BY <1>1 DEF Run, Commands, HostShape
<1>3. command[c].pc = "none" /\ holder[c].pc = "none"
  BY <1>1, <1>2 DEF AnswerInv, CommandShape, LaunchOf, HostShape
<1>4. /\ DOMAIN command' = DOMAIN command
      /\ \A d \in Commands \ {c} : command'[d] = command[d]
      /\ command'[c] = [Unstarted EXCEPT !.type = type, !.pc = Entry(type), !.token = token,
                                         !.expect = inc, !.gone = gone]
  BY <1>1, <1>2 DEF Run, HostShape
<1>5. /\ DOMAIN command'[c] = {"type", "pc", "token", "expect", "read", "probe", "answer", "inc",
                               "gone", "fooled"}
      /\ command'[c].type = type /\ command'[c].pc = Entry(type)
      /\ command'[c].read = NoState /\ command'[c].answer = "none"
      /\ command'[c].gone = gone
  BY <1>4 DEF Unstarted
<1>6. Entry(type) \in {"lock", "authenticate"} /\ (type = "launch" => Entry(type) = "lock")
  BY DEF Entry
<1>7. Quiet
  BY Silent
<1>8. HostShape'
  BY <1>1, <1>4, <1>7, HostKept DEF HostShape
<1>9. CommandShape(c)'
  BY <1>1, <1>2, <1>5, <1>6 DEF CommandShape, NoState, HostShape
<1>10. LaunchOf(c)'
  BY <1>3, <1>5, <1>6 DEF LaunchOf, NoState, Started
<1>11. AnswerOf(c)'
  BY <1>5, <1>6 DEF AnswerOf
<1>12. CommandOf(c)'
  BY <1>9, <1>10, <1>11 DEF CommandOf
<1>13. \A d \in Commands \ {c} : d > counts'.commands => d > counts.commands
  BY <1>1 DEF HostShape, Commands
<1> QED BY <1>2, <1>4, <1>7, <1>8, <1>12, <1>13, QuietStep

LEMMA EngineAnswers == ASSUME AnswerInv, EngineStep PROVE AnswerInv'
<1>1. HostShape
  BY DEF AnswerInv
<1>2. UNCHANGED <<files, launch_lock, holder, overtaken>>
  BY DEF EngineStep, hostVars, processVars, Launch, Launched, LaunchedInVain, Retry, Kill, Killed,
         Inspect, Restore, Restored, Gc, historyVars
<1>3. \/ UNCHANGED <<command, counts>>
      \/ /\ \E type \in {"launch", "inspect", "kill", "gc"} : \E token, inc : Run(type, token, inc)
         /\ DOMAIN counts' = DOMAIN counts /\ counts'.commands = counts.commands + 1
  <2> USE <1>1 DEF HostShape, Counted
  <2>1. CASE Launch
    BY <2>1 DEF Launch
  <2>2. CASE Launched \/ Killed
    BY <2>2 DEF Launched, Killed, historyVars
  <2>3. CASE LaunchedInVain
    BY <2>3 DEF LaunchedInVain
  <2>4. CASE Retry
    BY <2>4 DEF Retry
  <2>5. CASE Kill
    BY <2>5 DEF Kill
  <2>6. CASE Inspect \/ Gc
    BY <2>6 DEF Inspect, Gc
  <2>7. CASE Restore
    BY <2>7 DEF Restore
  <2>8. CASE Restored
    BY <2>8 DEF Restored
  <2> QED BY <2>1, <2>2, <2>3, <2>4, <2>5, <2>6, <2>7, <2>8 DEF EngineStep
<1>4. CASE UNCHANGED <<command, counts>>
  <2>1. Quiet
    BY <1>2, Silent
  <2>2. HostShape'
    BY <1>1, <1>2, <1>4, <2>1, HostKept DEF HostShape
  <2> QED BY <1>2, <1>4, <2>1, <2>2, QuietNone
<1> QED BY <1>2, <1>3, <1>4, RunAnswers

LEMMA FaultAnswers ==
  ASSUME AnswerInv, Shape, ChannelFails \/ EngineDies \/ CommandDies \/ HolderDies
  PROVE  AnswerInv'
<1>1. HostShape
  BY DEF AnswerInv
<1>2. /\ DOMAIN counts' = DOMAIN counts /\ counts'.commands = counts.commands
      /\ UNCHANGED <<files, overtaken>>
  BY <1>1 DEF ChannelFails, EngineDies, CommandDies, HolderDies, Faulty, HostShape, hostVars
<1>3. CASE ChannelFails \/ EngineDies
  <2>1. UNCHANGED <<launch_lock, command, holder>>
    BY <1>3 DEF ChannelFails, EngineDies, hostVars, processVars
  <2>2. Quiet
    BY <1>2, <2>1, Silent
  <2>3. HostShape'
    BY <1>1, <1>2, <2>1, <2>2, HostKept DEF HostShape
  <2> QED BY <1>2, <2>1, <2>2, <2>3, QuietNone
<1>4. CASE CommandDies
  <2>1. PICK c \in Commands : command[c].pc \notin {"none", "done"} /\ Finish(c, "none", 0)
    BY <1>4 DEF CommandDies
  <2>2. Quiet
    BY <1>2, <1>4, Silent DEF CommandDies, processVars
  <2> QED BY <1>1, <1>2, <2>1, <2>2, FinishKeeps DEF HostShape
<1>5. CASE HolderDies
  <2>1. PICK h \in Commands : holder[h].pc \notin {"none", "gone"} /\ holder' = Ended(h)
    BY <1>5 DEF HolderDies
  <2>2. UNCHANGED <<launch_lock, command>>
    BY <1>5 DEF HolderDies, hostVars
  <2>3. Quiet
    BY <1>2, <2>1, EndingIsQuiet DEF Started
  <2>4. HostShape'
    BY <1>1, <1>2, <2>2, <2>3, HostKept DEF HostShape
  <2> QED BY <1>2, <2>2, <2>3, <2>4, QuietNone
<1> QED BY <1>3, <1>4, <1>5

LEMMA CommandAnswers == ASSUME AnswerInv, Shape, CommandStep PROVE AnswerInv'
<1>1. CASE /\ \E c \in Commands :
                \/ TakeLaunchLock(c) \/ Authenticate(c) \/ ReadState(c) \/ Probe(c)
                \/ ProbeFails(c) \/ Release(c) \/ FindLive(c) \/ AwaitHolder(c)
                \/ KillAgent(c) \/ KillHolder(c) \/ KillPolls(c) \/ KillEnds(c)
                \/ GcDeletes(c) \/ GcEnds(c)
           /\ UNCHANGED historyVars
  BY <1>1, LaunchLockAnswers, AuthenticateAnswers, ReadStateAnswers, ProbeAnswers,
     ProbeFailsAnswers, ReleaseAnswers, FindLiveAnswers, AwaitAnswers,
     KillAgentAnswers, KillHolderAnswers, KillPollsAnswers, KillEndsAnswers,
     GcDeletesAnswers, GcEndsAnswers DEF historyVars
<1>2. CASE \E c \in Commands :
             \/ ResetDeadSession(c) \/ StartHolder(c) \/ InspectEnds(c) \/ KillWrites(c)
             \/ GcDeletesLock(c)
  BY <1>2, ResetAnswers, StartAnswers, InspectAnswers, KillWritesAnswers, GcDeletesAnswers
     DEF GcDeletesLock
<1> QED BY <1>1, <1>2 DEF CommandStep

LEMMA AnswerInvariant == Spec => []AnswerInv
<1>1. Init => AnswerInv
  <2> SUFFICES ASSUME Init PROVE AnswerInv
    OBVIOUS
  <2>1. /\ files.state = NoState /\ DOMAIN command = Commands /\ ~overtaken
        /\ counts = [commands |-> 0, launches |-> 0, asides |-> 0, faults |-> 0]
        /\ \A c \in Commands : command[c] = Unstarted /\ holder[c].pc = "none"
    BY DEF Init
  <2>2. HostShape
    <3>1. overtaken \in BOOLEAN
      BY DEF Init
    <3>2. DOMAIN files.state = {"inc", "process"} /\ Started(files.state.inc)
      BY <2>1 DEF NoState, Started
    <3> QED BY <2>1, <3>1, <3>2 DEF HostShape
  <2>3. OneAlive
    BY <2>1 DEF OneAlive, Alive, NoState
  <2>4. ASSUME NEW c \in Commands PROVE CommandShape(c) /\ LaunchOf(c) /\ AnswerOf(c)
    <3>1. CommandShape(c)
      BY <2>1 DEF CommandShape, Unstarted, NoState
    <3>2. LaunchOf(c)
      BY <2>1 DEF LaunchOf, Unstarted, NoState, Started
    <3>3. AnswerOf(c)
      BY <2>1 DEF AnswerOf, Unstarted
    <3> QED BY <3>1, <3>2, <3>3
  <2> QED BY <2>2, <2>3, <2>4 DEF AnswerInv
<1>2. OwnerInv /\ AnswerInv /\ [Next]_vars => AnswerInv'
  <2> SUFFICES ASSUME Shape, AnswerInv, [Next]_vars PROVE AnswerInv'
    BY DEF OwnerInv
  <2>1. ASSUME UNCHANGED <<files, launch_lock, command, holder, overtaken, counts>>
        PROVE  AnswerInv'
    <3>1. HostShape
      BY DEF AnswerInv
    <3>2. Quiet
      BY <2>1, Silent
    <3>3. HostShape'
      BY <2>1, <3>1, <3>2, HostKept DEF HostShape
    <3> QED BY <2>1, <3>2, <3>3, QuietNone
  <2>2. CASE \E h \in Commands : Guard(h) \/ AgentExits(h)
    BY <2>1, <2>2 DEF Guard, AgentExits, hostVars, historyVars
  <2>3. CASE UNCHANGED vars
    BY <2>1, <2>3 DEF vars, hostVars, processVars, historyVars
  <2> QED BY <2>2, <2>3, HolderAnswers, CommandAnswers, EngineAnswers, FaultAnswers DEF Next
<1> QED BY <1>1, <1>2, OwnerInvariant, PTL DEF Spec

\* A launch that answers "ok" names a Holder that had not ended before the
\* launch was asked, whatever was killed, lost or deleted on the way, unless
\* it took another command's probe for the lock or a launch had reset the
\* session of a Holder that was alive.
THEOREM LaunchAnswersForTheLiving == Spec => []AnswerIsLive
<1>1. AnswerInv => AnswerIsLive
  BY DEF AnswerInv, AnswerOf, AnswerIsLive
<1> QED BY <1>1, AnswerInvariant, PTL

-----------------------------------------------------------------------------
(***************************************************************************)
(* What a step of a command does to its record.                            *)
(***************************************************************************)
Moved(c, pc, answer, inc, read) ==
  /\ \A d \in Commands \ {c} :
       command'[d] = command[d] /\ (launch_lock = d => launch_lock' = d)
  /\ command'[c].type = command[c].type /\ command'[c].token = command[c].token
  /\ command'[c].expect = command[c].expect
  /\ command'[c].pc = pc /\ command'[c].answer = answer /\ command'[c].inc = inc
  /\ command'[c].read = read

\* It goes on, with what it read before.
Went(c, pc) == Moved(c, pc, command[c].answer, command[c].inc, command[c].read)
Done(c, answer, inc) == Moved(c, "done", answer, inc, command[c].read)

LEMMA FinishMoves ==
  ASSUME AnswerInv, NEW c \in Commands, NEW answer, NEW inc, Finish(c, answer, inc)
  PROVE  Done(c, answer, inc) /\ (launch_lock' = launch_lock \/ launch_lock = c)
<1>1. CommandShape(c) /\ HostShape
  BY DEF AnswerInv
<1>2. /\ \A d \in Commands \ {c} : command'[d] = command[d]
      /\ command'[c] = [command[c] EXCEPT !.pc = "done", !.answer = answer, !.inc = inc,
                                          !.probe = 0]
  BY <1>1 DEF Finish, HostShape
<1>3. /\ command'[c].pc = "done" /\ command'[c].type = command[c].type
      /\ command'[c].token = command[c].token /\ command'[c].expect = command[c].expect
      /\ command'[c].read = command[c].read
      /\ command'[c].answer = answer /\ command'[c].inc = inc
  BY <1>1, <1>2 DEF CommandShape
<1>4. /\ \A d \in Commands \ {c} : launch_lock = d => launch_lock' = d
      /\ launch_lock' = launch_lock \/ launch_lock = c
  BY DEF Finish
<1> QED BY <1>2, <1>3, <1>4 DEF Done, Moved

LEMMA GotoMoves ==
  ASSUME AnswerInv, NEW c \in Commands, NEW pc, Goto(c, pc),
         \A d \in Commands \ {c} : launch_lock = d => launch_lock' = d
  PROVE  Went(c, pc)
<1>1. CommandShape(c) /\ HostShape
  BY DEF AnswerInv
<1>2. /\ \A d \in Commands \ {c} : command'[d] = command[d]
      /\ command'[c] = [command[c] EXCEPT !.pc = pc]
  BY <1>1 DEF Goto, HostShape
<1>3. /\ command'[c].pc = pc /\ command'[c].type = command[c].type
      /\ command'[c].token = command[c].token /\ command'[c].expect = command[c].expect
      /\ command'[c].read = command[c].read
      /\ command'[c].answer = command[c].answer /\ command'[c].inc = command[c].inc
  BY <1>1, <1>2 DEF CommandShape
<1> QED BY <1>2, <1>3 DEF Went, Moved

LEMMA ReadStateMoves ==
  ASSUME AnswerInv, NEW c \in Commands, ReadState(c)
  PROVE  \/ /\ files.state # NoState
            /\ Moved(c, "probe", command[c].answer, command[c].inc, files.state)
            /\ UNCHANGED launch_lock
         \/ command[c].type = "inspect" /\ Done(c, "exited", files.state.inc)
         \/ /\ command[c].type = "launch" /\ Went(c, "reset") /\ UNCHANGED launch_lock
            /\ files.state = NoState \/ command[c].expect # 0
         \/ command[c].type # "launch" /\ Done(c, "error", 0)
<1>1. CommandShape(c) /\ HostShape
  BY DEF AnswerInv
<1>2. CASE /\ files.state # NoState /\ UNCHANGED launch_lock
           /\ command' = [command EXCEPT ![c].pc = "probe", ![c].read = files.state]
  <2>1. /\ \A d \in Commands \ {c} : command'[d] = command[d]
        /\ command'[c] = [command[c] EXCEPT !.pc = "probe", !.read = files.state]
    BY <1>1, <1>2 DEF HostShape
  <2>2. /\ command'[c].pc = "probe" /\ command'[c].type = command[c].type
        /\ command'[c].token = command[c].token /\ command'[c].expect = command[c].expect
        /\ command'[c].read = files.state
        /\ command'[c].answer = command[c].answer /\ command'[c].inc = command[c].inc
    BY <1>1, <2>1 DEF CommandShape
  <2> QED BY <1>2, <2>1, <2>2 DEF Moved
<1>3. CASE command[c].type = "inspect" /\ Finish(c, "exited", files.state.inc)
  BY <1>3, FinishMoves
<1>4. CASE /\ command[c].type = "launch" /\ Goto(c, "reset") /\ UNCHANGED launch_lock
           /\ files.state = NoState \/ command[c].expect # 0
  BY <1>4, GotoMoves
<1>5. CASE command[c].type # "launch" /\ Finish(c, "error", 0)
  BY <1>5, FinishMoves
<1> QED BY <1>2, <1>3, <1>4, <1>5 DEF ReadState

LEMMA ProbeMoves ==
  ASSUME AnswerInv, NEW c \in Commands, Probe(c)
  PROVE  \/ Went(c, WhenHeld(command[c].type)) /\ LockHeld(files'.lock)
         \/ Went(c, "release") /\ ~LockHeld(files'.lock)
<1>1. CommandShape(c) /\ HostShape /\ UNCHANGED launch_lock
  BY DEF AnswerInv, Probe
<1>2. CASE LockHeld(files'.lock)
  <2>1. /\ \A d \in Commands \ {c} : command'[d] = command[d]
        /\ command'[c] = [command[c] EXCEPT !.pc = WhenHeld(command[c].type),
                                            !.fooled = ~HeldByHolder(files'.lock)]
    BY <1>1, <1>2 DEF HostShape, Probe
  <2>2. /\ command'[c].pc = WhenHeld(command[c].type) /\ command'[c].type = command[c].type
        /\ command'[c].token = command[c].token /\ command'[c].expect = command[c].expect
        /\ command'[c].read = command[c].read
        /\ command'[c].answer = command[c].answer /\ command'[c].inc = command[c].inc
    BY <1>1, <2>1 DEF CommandShape
  <2> QED BY <1>1, <1>2, <2>1, <2>2 DEF Went, Moved
<1>3. CASE ~LockHeld(files'.lock)
  <2>1. /\ \A d \in Commands \ {c} : command'[d] = command[d]
        /\ command'[c] = [command[c] EXCEPT !.pc = "release", !.probe = files'.lock]
    BY <1>1, <1>3 DEF HostShape, Probe
  <2>2. /\ command'[c].pc = "release" /\ command'[c].type = command[c].type
        /\ command'[c].token = command[c].token /\ command'[c].expect = command[c].expect
        /\ command'[c].read = command[c].read
        /\ command'[c].answer = command[c].answer /\ command'[c].inc = command[c].inc
    BY <1>1, <2>1 DEF CommandShape
  <2> QED BY <1>1, <1>3, <2>1, <2>2 DEF Went, Moved
<1> QED BY <1>2, <1>3

LEMMA ReleaseMoves ==
  ASSUME AnswerInv, NEW c \in Commands, Release(c)
  PROVE  Went(c, WhenFree(command[c].type))
<1>1. CommandShape(c) /\ HostShape /\ UNCHANGED launch_lock
  BY DEF AnswerInv, Release, hostVars
<1>2. /\ \A d \in Commands \ {c} : command'[d] = command[d]
      /\ command'[c] = [command[c] EXCEPT !.pc = WhenFree(command[c].type), !.probe = 0]
  BY <1>1 DEF Release, HostShape
<1>3. /\ command'[c].pc = WhenFree(command[c].type) /\ command'[c].type = command[c].type
      /\ command'[c].token = command[c].token /\ command'[c].expect = command[c].expect
      /\ command'[c].read = command[c].read
      /\ command'[c].answer = command[c].answer /\ command'[c].inc = command[c].inc
  BY <1>1, <1>2 DEF CommandShape
<1> QED BY <1>1, <1>2, <1>3 DEF Went, Moved

LEMMA KillPollsMoves ==
  ASSUME AnswerInv, NEW c \in Commands, KillPolls(c)
  PROVE  Went(c, "ended")
<1>1. CommandShape(c) /\ HostShape /\ UNCHANGED launch_lock
  BY DEF AnswerInv, KillPolls
<1>2. /\ \A d \in Commands \ {c} : command'[d] = command[d]
      /\ command'[c] = [command[c] EXCEPT !.pc = "ended", !.probe = files'.lock]
  BY <1>1 DEF KillPolls, HostShape
<1>3. /\ command'[c].pc = "ended" /\ command'[c].type = command[c].type
      /\ command'[c].token = command[c].token /\ command'[c].expect = command[c].expect
      /\ command'[c].read = command[c].read
      /\ command'[c].answer = command[c].answer /\ command'[c].inc = command[c].inc
  BY <1>1, <1>2 DEF CommandShape
<1> QED BY <1>1, <1>2, <1>3 DEF Went, Moved

LEMMA KillAgentMoves ==
  ASSUME AnswerInv, NEW c \in Commands, KillAgent(c)
  PROVE  \E read : /\ Moved(c, "write", command[c].answer, command[c].inc, read)
                   /\ read.inc = command[c].read.inc /\ read.process = "exited"
<1>1. CommandShape(c) /\ HostShape /\ UNCHANGED launch_lock
  BY DEF AnswerInv, KillAgent, hostVars
<1>2. /\ \A d \in Commands \ {c} : command'[d] = command[d]
      /\ command'[c] = [command[c] EXCEPT !.pc = "write", !.read.process = "exited"]
  BY <1>1 DEF KillAgent, HostShape
<1>3. /\ command'[c].pc = "write" /\ command'[c].type = command[c].type
      /\ command'[c].token = command[c].token /\ command'[c].expect = command[c].expect
      /\ command'[c].read = [command[c].read EXCEPT !.process = "exited"]
      /\ command'[c].answer = command[c].answer /\ command'[c].inc = command[c].inc
  BY <1>1, <1>2 DEF CommandShape
<1>4. /\ command'[c].read.inc = command[c].read.inc /\ command'[c].read.process = "exited"
  BY <1>1, <1>3 DEF CommandShape
<1> QED BY <1>1, <1>2, <1>3, <1>4 DEF Moved

-----------------------------------------------------------------------------
(***************************************************************************)
(* Which command is at which step, and which one the Engine waits for.     *)
(***************************************************************************)
\* The steps that only gc takes.
OfGc == {"retain", "delete", "delete_auth", "delete_state", "delete_lock", "remove"}

Kind(c) ==
  /\ command[c].pc = "none" => command[c].type = "none"
  /\ command[c].pc = "lock" => command[c].type \in {"launch", "gc"}
  /\ command[c].pc = "authenticate" => command[c].type \in {"inspect", "kill"}
  /\ command[c].pc = "look" => command[c].type # "gc"
  /\ command[c].pc \in {"running", "record"} => command[c].type = "inspect"
  /\ command[c].pc \in OfGc => command[c].type = "gc"
  /\ command[c].type = "gc" /\ command[c].pc \notin {"none", "lock", "done"} => launch_lock = c
  /\ command[c].type = "launch" => command[c].expect = 0
  /\ command[c].type = "launch" /\ command[c].pc = "done" =>
       command[c].answer \in {"ok", "error", "busy", "none"}

\* The command the Engine waits for.
Cmd == command[engine.cmd]

EngineShape ==
  /\ DOMAIN engine = {"pc", "token", "cmd", "attempt", "binding", "deaf", "removing"}
  /\ engine.pc \in {"launching", "killing", "restoring"} =>
       engine.cmd \in Commands /\ engine.cmd <= counts.commands
  /\ engine.pc = "launching" => Cmd.type = "launch" /\ Cmd.token = engine.token
  /\ engine.pc = "killing" => Cmd.type = "kill"

KindInv ==
  /\ EngineShape
  /\ DOMAIN agent = Commands /\ lost \in BOOLEAN /\ stale \in BOOLEAN
  /\ \A c \in Commands : Kind(c)

\* What a step must say of the command it moves to keep it.
LEMMA KindKeeps ==
  ASSUME KindInv, NEW c \in Commands, NEW pc, NEW answer, NEW inc, NEW read,
         Moved(c, pc, answer, inc, read), UNCHANGED <<engine, counts>>,
         DOMAIN agent' = Commands, lost' \in BOOLEAN, stale' \in BOOLEAN,
         pc \notin {"none", "lock", "authenticate"},
         pc = "look" => command[c].type # "gc",
         pc \in {"running", "record"} => command[c].type = "inspect",
         pc \in OfGc => command[c].type = "gc",
         command[c].type = "gc" /\ pc # "done" => launch_lock' = c,
         command[c].type = "launch" /\ pc = "done" => answer \in {"ok", "error", "busy", "none"}
  PROVE  KindInv'
<1>1. Kind(c) /\ EngineShape
  BY DEF KindInv
<1>2. Kind(c)'
  BY <1>1 DEF Kind, Moved
<1>3. ASSUME NEW d \in Commands \ {c} PROVE Kind(d)'
  <2>1. Kind(d) /\ command'[d] = command[d] /\ (launch_lock = d => launch_lock' = d)
    BY DEF KindInv, Moved
  <2> QED BY <2>1 DEF Kind
<1>4. \A d \in Commands : command'[d].type = command[d].type /\ command'[d].token = command[d].token
  BY DEF Moved
<1>5. EngineShape'
  BY <1>1, <1>4 DEF EngineShape, Cmd
<1> QED BY <1>2, <1>3, <1>5 DEF KindInv

LEMMA CommandKinds == ASSUME AnswerInv, KindInv, CommandStep PROVE KindInv'
<1>1. PICK c \in Commands :
        \/ TakeLaunchLock(c) \/ Authenticate(c) \/ ReadState(c) \/ Probe(c)
        \/ ProbeFails(c) \/ Release(c) \/ FindLive(c) \/ AwaitHolder(c)
        \/ KillAgent(c) \/ KillHolder(c) \/ KillPolls(c) \/ KillEnds(c)
        \/ ResetDeadSession(c) \/ StartHolder(c) \/ InspectEnds(c) \/ KillWrites(c)
        \/ GcDeletes(c) \/ GcDeletesLock(c) \/ GcEnds(c)
  BY DEF CommandStep
<1>2. CommandShape(c) /\ LaunchOf(c) /\ Kind(c) /\ HostShape
  BY DEF AnswerInv, KindInv
<1>3. UNCHANGED engine /\ lost \in BOOLEAN /\ stale \in BOOLEAN
  BY DEF CommandStep, KindInv
<1>4. UNCHANGED counts
  BY DEF CommandStep, historyVars, ResetDeadSession, StartHolder, InspectEnds, KillWrites,
         GcDeletesLock
<1>5. DOMAIN agent' = Commands
  <2>1. CASE KillAgent(c)
    BY <2>1 DEF KillAgent, KindInv
  <2>2. CASE ~KillAgent(c)
    BY <1>1, <2>2 DEF TakeLaunchLock, Authenticate, ReadState, Probe, ProbeFails, Release, FindLive,
         AwaitHolder, KillHolder, KillPolls, KillEnds, ResetDeadSession, StartHolder, InspectEnds,
         KillWrites, GcDeletes, GcDeletesLock, GcEnds, processVars, KindInv
  <2> QED BY <2>1, <2>2
<1>6. lost' \in BOOLEAN
  BY <1>3 DEF CommandStep, historyVars, ResetDeadSession, StartHolder, InspectEnds, KillWrites,
              GcDeletesLock
<1>7. stale' \in BOOLEAN
  BY <1>3 DEF CommandStep, historyVars, ResetDeadSession, StartHolder, InspectEnds, KillWrites,
              GcDeletesLock, WritesBack
<1>8. ASSUME NEW answer, NEW inc, Finish(c, answer, inc),
             command[c].type = "launch" => answer \in {"ok", "error", "busy", "none"}
      PROVE  KindInv'
  <2>1. Done(c, answer, inc)
    BY <1>8, FinishMoves
  <2> QED BY <1>3, <1>4, <1>5, <1>6, <1>7, <1>8, <2>1, KindKeeps DEF Done, OfGc
<1>9. ASSUME NEW pc, Went(c, pc), pc \notin {"none", "lock", "authenticate", "done"},
             pc = "look" => command[c].type # "gc",
             pc \in {"running", "record"} => command[c].type = "inspect",
             pc \in OfGc => command[c].type = "gc",
             command[c].type = "gc" => launch_lock' = c
      PROVE  KindInv'
  BY <1>3, <1>4, <1>5, <1>6, <1>7, <1>9, KindKeeps DEF Went
<1>10. CASE TakeLaunchLock(c)
  <2>1. CASE Finish(c, "busy", 0)
    BY <1>8, <2>1
  <2>2. CASE /\ launch_lock = 0 /\ launch_lock' = c
             /\ Goto(c, IF command[c].type = "launch" THEN "look" ELSE "probe")
    <3>1. \A d \in Commands \ {c} : launch_lock = d => launch_lock' = d
      BY <2>2 DEF Commands
    <3>2. Went(c, IF command[c].type = "launch" THEN "look" ELSE "probe")
      BY <2>2, <3>1, GotoMoves
    <3> QED BY <1>9, <2>2, <3>2 DEF OfGc
  <2> QED BY <1>10, <2>1, <2>2 DEF TakeLaunchLock
<1>11. CASE Authenticate(c)
  <2>1. command[c].type \in {"inspect", "kill"}
    BY <1>2, <1>11 DEF Authenticate, Kind
  <2>2. CASE Finish(c, "error", 0)
    BY <1>8, <2>2
  <2>3. CASE Goto(c, "look") /\ UNCHANGED launch_lock
    BY <1>9, <2>1, <2>3, GotoMoves DEF OfGc
  <2> QED BY <1>11, <2>2, <2>3 DEF Authenticate
<1>12. CASE ReadState(c)
  <2>1. command[c].type # "gc"
    BY <1>2, <1>12 DEF ReadState, Kind
  <2>2. CASE Moved(c, "probe", command[c].answer, command[c].inc, files.state)
    BY <1>3, <1>4, <1>5, <1>6, <1>7, <2>1, <2>2, KindKeeps DEF OfGc
  <2>3. CASE command[c].type = "inspect" /\ Done(c, "exited", files.state.inc)
    BY <1>3, <1>4, <1>5, <1>6, <1>7, <2>3, KindKeeps DEF Done, OfGc
  <2>4. CASE Went(c, "reset")
    BY <1>9, <2>1, <2>4 DEF OfGc
  <2>5. CASE command[c].type # "launch" /\ Done(c, "error", 0)
    BY <1>3, <1>4, <1>5, <1>6, <1>7, <2>5, KindKeeps DEF Done, OfGc
  <2> QED BY <1>12, <2>2, <2>3, <2>4, <2>5, ReadStateMoves
<1>13. CASE Probe(c)
  <2>1. command[c].pc = "probe" /\ UNCHANGED launch_lock
    BY <1>13 DEF Probe
  <2>2. command[c].type \in {"launch", "inspect", "kill", "gc"}
    BY <1>2, <2>1 DEF CommandShape
  <2>3. command[c].type = "gc" => launch_lock' = c
    BY <1>2, <2>1 DEF Kind
  <2>4. CASE Went(c, "release")
    BY <1>9, <2>3, <2>4 DEF OfGc
  <2>5. CASE Went(c, WhenHeld(command[c].type))
    BY <1>9, <2>2, <2>3, <2>5 DEF WhenHeld, OfGc
  <2> QED BY <1>13, <2>4, <2>5, ProbeMoves
<1>14. CASE ProbeFails(c)
  BY <1>8, <1>14 DEF ProbeFails
<1>15. CASE Release(c)
  <2>1. command[c].pc = "release" /\ UNCHANGED launch_lock
    BY <1>15 DEF Release, hostVars
  <2>2. command[c].type \in {"launch", "inspect", "kill", "gc"}
    BY <1>2, <2>1 DEF CommandShape
  <2>3. command[c].type = "gc" => launch_lock' = c
    BY <1>2, <2>1 DEF Kind
  <2> QED BY <1>9, <1>15, <2>2, <2>3, ReleaseMoves DEF WhenFree, OfGc
<1>16. CASE FindLive(c)
  <2>1. command[c].type = "launch"
    BY <1>2, <1>16 DEF FindLive, CommandShape
  <2>2. CASE Goto(c, "reset") /\ UNCHANGED launch_lock
    BY <1>9, <2>1, <2>2, GotoMoves DEF OfGc
  <2>3. CASE Finish(c, "ok", command[c].read.inc) \/ Finish(c, "error", 0)
    BY <1>8, <2>3
  <2> QED BY <1>16, <2>2, <2>3 DEF FindLive
<1>17. CASE AwaitHolder(c)
  BY <1>8, <1>17 DEF AwaitHolder
<1>18. CASE KillAgent(c)
  <2>1. command[c].type = "kill"
    BY <1>2, <1>18 DEF KillAgent, CommandShape
  <2> QED BY <1>3, <1>4, <1>5, <1>6, <1>7, <1>18, <2>1, KillAgentMoves, KindKeeps DEF OfGc
<1>19. CASE KillHolder(c)
  <2>1. command[c].type = "kill" /\ Goto(c, "unlocked") /\ UNCHANGED launch_lock
    BY <1>2, <1>19 DEF KillHolder, CommandShape, hostVars
  <2> QED BY <1>9, <2>1, GotoMoves DEF OfGc
<1>20. CASE KillEnds(c)
  BY <1>8, <1>20 DEF KillEnds
<1>21. CASE ResetDeadSession(c)
  <2>1. command[c].type = "launch" /\ UNCHANGED launch_lock
    BY <1>2, <1>21 DEF ResetDeadSession, CommandShape
  <2>2. PICK pc \in {"reset_state", "reset_auth", "start"} : Goto(c, pc)
    BY <1>21 DEF ResetDeadSession
  <2> QED BY <1>9, <2>1, <2>2, GotoMoves DEF OfGc
<1>22. CASE StartHolder(c)
  <2>1. command[c].type = "launch"
    BY <1>2, <1>22 DEF StartHolder, CommandShape
  <2>2. CASE Finish(c, "error", 0)
    BY <1>8, <2>2
  <2>3. CASE Goto(c, "wait") /\ UNCHANGED launch_lock
    BY <1>9, <2>1, <2>3, GotoMoves DEF OfGc
  <2> QED BY <1>22, <2>2, <2>3 DEF StartHolder
<1>23. CASE InspectEnds(c)
  <2>1. command[c].type = "inspect"
    BY <1>2, <1>23 DEF InspectEnds, Kind
  <2> QED BY <1>8, <1>23, <2>1 DEF InspectEnds
<1>24. CASE KillWrites(c)
  <2>1. command[c].type = "kill"
    BY <1>2, <1>24 DEF KillWrites, CommandShape
  <2>2. CASE Finish(c, "error", 0)
    BY <1>8, <2>2
  <2>3. CASE Goto(c, "term") /\ UNCHANGED launch_lock
    BY <1>9, <2>1, <2>3, GotoMoves DEF OfGc
  <2> QED BY <1>24, <2>2, <2>3 DEF KillWrites
<1>25. CASE GcEnds(c)
  BY <1>8, <1>25 DEF GcEnds
<1>26. CASE GcDeletes(c) \/ GcDeletesLock(c)
  <2>1. command[c].pc \in OfGc /\ UNCHANGED launch_lock
    BY <1>26 DEF GcDeletes, GcDeletesLock, OfGc
  <2>2. command[c].type = "gc" /\ launch_lock' = c
    BY <1>2, <2>1 DEF Kind, OfGc
  <2>3. PICK pc \in {"delete_auth", "delete_state", "delete_lock", "remove"} : Goto(c, pc)
    BY <1>26 DEF GcDeletes, GcDeletesLock
  <2> QED BY <1>9, <2>1, <2>2, <2>3, GotoMoves
<1>27. CASE KillPolls(c)
  <2>1. command[c].type = "kill" /\ Went(c, "ended")
    BY <1>2, <1>27, KillPollsMoves DEF KillPolls, CommandShape
  <2> QED BY <1>9, <2>1 DEF OfGc
<1> QED BY <1>1, <1>10, <1>11, <1>12, <1>13, <1>14, <1>15, <1>16, <1>17, <1>18, <1>19, <1>20, <1>21,
           <1>22, <1>23, <1>24, <1>25, <1>26, <1>27

\* A command that is started is the next one.
Begun(type, token, inc) ==
  LET c == counts.commands + 1
  IN  /\ c \in Commands /\ command[c].pc = "none" /\ holder[c].pc = "none"
      /\ \A d \in Commands \ {c} : command'[d] = command[d]
      /\ command'[c].type = type /\ command'[c].pc = Entry(type)
      /\ command'[c].token = token /\ command'[c].expect = inc
      /\ command'[c].read = NoState /\ command'[c].answer = "none"

LEMMA RunBegins ==
  ASSUME AnswerInv, NEW type, NEW token, NEW inc, Run(type, token, inc)
  PROVE  Begun(type, token, inc)
<1>1. HostShape /\ MaxCommands \in Nat
  BY RemoteLaunchAssumption DEF AnswerInv
<1>2. PICK c \in Commands : c = counts.commands + 1
  BY <1>1 DEF Run, Commands, HostShape
<1>3. command[c].pc = "none" /\ holder[c].pc = "none"
  BY <1>1, <1>2 DEF AnswerInv, CommandShape, LaunchOf, HostShape
<1>4. /\ \A d \in Commands \ {c} : command'[d] = command[d]
      /\ command'[c] = [Unstarted EXCEPT !.type = type, !.pc = Entry(type), !.token = token,
                          !.expect = inc, !.gone = {h \in Commands : holder[h].pc = "gone"}]
  BY <1>1, <1>2 DEF Run, HostShape
<1>5. /\ command'[c].type = type /\ command'[c].pc = Entry(type)
      /\ command'[c].token = token /\ command'[c].expect = inc
      /\ command'[c].read = NoState /\ command'[c].answer = "none"
  BY <1>4 DEF Unstarted
<1> QED BY <1>2, <1>3, <1>4, <1>5 DEF Begun

\* It is of a kind, and so are those before it.
LEMMA BeginKinds ==
  ASSUME AnswerInv, KindInv, NEW type \in {"launch", "inspect", "kill", "gc"}, NEW token, NEW inc,
         Begun(type, token, inc), UNCHANGED launch_lock, type = "launch" => inc = 0
  PROVE  \A d \in Commands : Kind(d)'
<1>1. PICK c \in Commands : c = counts.commands + 1
  BY DEF Begun
<1>2. /\ \A d \in Commands \ {c} : command'[d] = command[d]
      /\ command'[c].type = type /\ command'[c].pc = Entry(type) /\ command'[c].expect = inc
  BY <1>1 DEF Begun
<1>3. /\ Entry(type) \in {"lock", "authenticate"}
      /\ Entry(type) = "lock" <=> type \in {"launch", "gc"}
  BY DEF Entry
<1>4. Kind(c)'
  BY <1>2, <1>3 DEF Kind, OfGc
<1>5. ASSUME NEW d \in Commands \ {c} PROVE Kind(d)'
  <2>1. Kind(d)
    BY DEF KindInv
  <2> QED BY <1>2, <2>1 DEF Kind
<1> QED BY <1>4, <1>5

\* The Engine that waits for the command it starts.
LEMMA WaitShape ==
  ASSUME AnswerInv, EngineShape, NEW type, NEW token, NEW inc, Begun(type, token, inc),
         counts'.commands = counts.commands + 1, NEW pc \in {"launching", "killing", "restoring"},
         pc = "launching" => type = "launch" /\ engine'.token = token,
         pc = "killing" => type = "kill",
         DOMAIN engine' = DOMAIN engine, engine'.pc = pc, engine'.cmd = counts.commands + 1
  PROVE  EngineShape'
<1>1. counts.commands \in Nat
  BY DEF AnswerInv, HostShape
<1>2. /\ engine'.cmd \in Commands /\ command'[engine'.cmd].type = type
      /\ command'[engine'.cmd].token = token
  BY DEF Begun
<1>3. engine'.cmd <= counts'.commands
  BY <1>1
<1> QED BY <1>2, <1>3 DEF EngineShape, Cmd

\* The Engine that waits on, or for nothing.
LEMMA StayShape ==
  ASSUME AnswerInv, EngineShape, DOMAIN engine' = DOMAIN engine,
         engine'.pc \in {"launching", "killing", "restoring"} =>
           engine'.pc = engine.pc /\ engine'.cmd = engine.cmd /\ engine'.token = engine.token,
         counts'.commands = counts.commands \/ counts'.commands = counts.commands + 1,
         \A c \in Commands : c <= counts.commands =>
           command'[c].type = command[c].type /\ command'[c].token = command[c].token
  PROVE  EngineShape'
<1>1. counts.commands \in Nat
  BY DEF AnswerInv, HostShape
<1>2. \A c \in Commands : c <= counts.commands => c <= counts'.commands
  BY <1>1 DEF Commands
<1> QED BY <1>2 DEF EngineShape, Cmd

LEMMA EngineKinds == ASSUME AnswerInv, KindInv, EngineStep PROVE KindInv'
<1>1. /\ HostShape /\ EngineShape /\ lost \in BOOLEAN /\ stale \in BOOLEAN
      /\ DOMAIN engine = {"pc", "token", "cmd", "attempt", "binding", "deaf", "removing"}
  BY DEF AnswerInv, KindInv, EngineShape
<1>2. UNCHANGED <<launch_lock, agent>> /\ DOMAIN agent = Commands
  BY DEF EngineStep, hostVars, processVars, KindInv
<1>3. UNCHANGED stale
  BY DEF EngineStep, Launch, Launched, LaunchedInVain, Retry, Kill, Killed,
         Inspect, Restore, Restored, Gc, historyVars
<1>4. lost' \in BOOLEAN
  BY <1>1 DEF EngineStep, Launch, Launched, LaunchedInVain, Retry, Kill, Killed,
         Inspect, Restore, Restored, Gc, historyVars
<1>5. ASSUME (\A d \in Commands : Kind(d)'), EngineShape' PROVE KindInv'
  BY <1>1, <1>2, <1>3, <1>4, <1>5 DEF KindInv
<1>6. ASSUME UNCHANGED <<command, counts>>, DOMAIN engine' = DOMAIN engine,
             engine'.pc \notin {"launching", "killing", "restoring"}
      PROVE  KindInv'
  <2>1. \A d \in Commands : Kind(d)'
    BY <1>2, <1>6 DEF KindInv, Kind
  <2>2. EngineShape'
    BY <1>1, <1>6, StayShape
  <2> QED BY <1>5, <2>1, <2>2
<1>7. ASSUME NEW type \in {"launch", "kill", "inspect", "gc"}, NEW token, NEW inc, Run(type, token, inc),
             counts'.commands = counts.commands + 1,
             NEW pc \in {"launching", "killing", "restoring"},
             pc = "launching" => type = "launch" /\ engine'.token = token,
             pc = "killing" => type = "kill", type = "launch" => inc = 0,
             DOMAIN engine' = DOMAIN engine, engine'.pc = pc, engine'.cmd = counts.commands + 1
      PROVE  KindInv'
  <2>1. Begun(type, token, inc)
    BY <1>7, RunBegins
  <2>2. \A d \in Commands : Kind(d)'
    BY <1>2, <1>7, <2>1, BeginKinds
  <2>3. EngineShape'
    BY <1>1, <1>7, <2>1, WaitShape
  <2> QED BY <1>5, <2>2, <2>3
<1>8. ASSUME NEW type \in {"inspect", "gc"}, NEW token, NEW inc, Run(type, token, inc),
             counts'.commands = counts.commands + 1, UNCHANGED engine
      PROVE  KindInv'
  <2>1. Begun(type, token, inc)
    BY <1>8, RunBegins
  <2>2. \A d \in Commands : Kind(d)'
    BY <1>2, <1>8, <2>1, BeginKinds
  <2>3. \A c \in Commands : c <= counts.commands => command'[c] = command[c]
    BY <1>1, <2>1 DEF Begun, Commands, HostShape
  <2>4. EngineShape'
    BY <1>1, <1>8, <2>3, StayShape
  <2> QED BY <1>5, <2>2, <2>4
<1>9. ASSUME NEW pc PROVE /\ DOMAIN Waits(pc) = DOMAIN engine /\ Waits(pc).pc = pc
                          /\ Waits(pc).cmd = counts.commands + 1 /\ Waits(pc).token = engine.token
  BY <1>1 DEF Waits
<1>10. Counted.commands = counts.commands + 1 /\ DOMAIN Counted = DOMAIN counts
  BY <1>1 DEF Counted, HostShape
<1>11. CASE Launch
  <2>1. /\ DOMAIN engine' = DOMAIN engine /\ engine'.pc = "launching"
        /\ engine'.cmd = counts.commands + 1 /\ engine'.token = counts.launches + 1
    BY <1>1, <1>9, <1>11 DEF Launch
  <2>2. counts'.commands = counts.commands + 1
    BY <1>1, <1>10, <1>11 DEF Launch, HostShape
  <2> QED BY <1>7, <1>11, <2>1, <2>2 DEF Launch
<1>12. CASE Launched
  BY <1>1, <1>6, <1>12 DEF Launched, historyVars
<1>13. CASE LaunchedInVain
  <2>1. /\ DOMAIN engine' = DOMAIN engine /\ engine'.pc = "killing"
        /\ engine'.cmd = counts.commands + 1
    BY <1>1, <1>9, <1>13 DEF LaunchedInVain
  <2>2. counts'.commands = counts.commands + 1
    BY <1>1, <1>10, <1>13 DEF LaunchedInVain, HostShape
  <2> QED BY <1>7, <1>13, <2>1, <2>2 DEF LaunchedInVain
<1>14. CASE Retry
  <2>1. CASE UNCHANGED <<command, counts>> /\ engine' = [engine EXCEPT !.pc = "idle"]
    BY <1>1, <1>6, <2>1
  <2>2. CASE /\ Run("launch", engine.token, 0) /\ counts' = Counted
             /\ engine' = [Waits("launching") EXCEPT !.attempt = 2]
    <3>1. /\ DOMAIN engine' = DOMAIN engine /\ engine'.pc = "launching"
          /\ engine'.cmd = counts.commands + 1 /\ engine'.token = engine.token
      BY <1>1, <1>9, <2>2
    <3> QED BY <1>7, <1>10, <2>2, <3>1
  <2> QED BY <1>14, <2>1, <2>2 DEF Retry
<1>15. CASE Kill
  <2>1. /\ DOMAIN engine' = DOMAIN engine /\ engine'.pc = "killing"
        /\ engine'.cmd = counts.commands + 1
    BY <1>1, <1>9, <1>15 DEF Kill
  <2> QED BY <1>7, <1>10, <1>15, <2>1 DEF Kill
<1>16. CASE Killed
  <2>1. DOMAIN engine' = DOMAIN engine /\ engine'.pc = "idle"
    BY <1>1, <1>16 DEF Killed
  <2> QED BY <1>6, <1>16, <2>1 DEF Killed
<1>17. CASE Inspect \/ Gc
  <2>1. counts'.commands = counts.commands + 1
    BY <1>1, <1>10, <1>17 DEF Inspect, Gc, HostShape
  <2> QED BY <1>8, <1>17, <2>1 DEF Inspect, Gc
<1>18. CASE Restore
  <2>1. CASE UNCHANGED <<command, counts>> /\ engine' = [engine EXCEPT !.pc = "idle"]
    BY <1>1, <1>6, <2>1
  <2>2. CASE /\ Run("inspect", BoundToken, engine.binding) /\ counts' = Counted
             /\ engine' = Waits("restoring")
    BY <1>7, <1>9, <1>10, <2>2
  <2> QED BY <1>18, <2>1, <2>2 DEF Restore
<1>19. CASE Restored
  <2>1. CASE /\ UNCHANGED <<command, counts>>
             /\ engine' = [engine EXCEPT !.pc = IF Answer = "running" THEN "bound" ELSE "idle"]
    BY <1>1, <1>6, <2>1
  <2>2. CASE /\ Run("kill", BoundToken, engine.binding) /\ counts' = Counted
             /\ engine' = [Waits("killing") EXCEPT !.removing = TRUE]
    <3>1. /\ DOMAIN engine' = DOMAIN engine /\ engine'.pc = "killing"
          /\ engine'.cmd = counts.commands + 1
      BY <1>1, <1>9, <2>2
    <3> QED BY <1>7, <1>10, <2>2, <3>1
  <2> QED BY <1>19, <2>1, <2>2 DEF Restored
<1> QED BY <1>11, <1>12, <1>13, <1>14, <1>15, <1>16, <1>17, <1>18, <1>19 DEF EngineStep

LEMMA FaultKinds ==
  ASSUME AnswerInv, KindInv, ChannelFails \/ EngineDies \/ CommandDies \/ HolderDies
  PROVE  KindInv'
<1>1. HostShape /\ EngineShape /\ lost \in BOOLEAN /\ stale \in BOOLEAN /\ DOMAIN agent = Commands
  BY DEF AnswerInv, KindInv
<1>2. lost' \in BOOLEAN /\ UNCHANGED stale
  BY <1>1 DEF ChannelFails, EngineDies, CommandDies, HolderDies
<1>3. DOMAIN agent' = Commands
  BY <1>1 DEF ChannelFails, EngineDies, CommandDies, HolderDies, processVars
<1>4. counts'.commands = counts.commands
  BY <1>1 DEF ChannelFails, EngineDies, CommandDies, HolderDies, Faulty, HostShape
<1>5. CASE ChannelFails \/ EngineDies \/ HolderDies
  <2>1. UNCHANGED <<command, launch_lock>>
    BY <1>5 DEF ChannelFails, EngineDies, HolderDies, hostVars
  <2>2. /\ DOMAIN engine' = DOMAIN engine
        /\ engine'.pc \in {"launching", "killing", "restoring"} =>
             engine'.pc = engine.pc /\ engine'.cmd = engine.cmd /\ engine'.token = engine.token
    BY <1>1, <1>5 DEF ChannelFails, EngineDies, HolderDies, EngineShape
  <2>3. EngineShape'
    BY <1>1, <1>4, <2>1, <2>2, StayShape
  <2>4. \A d \in Commands : Kind(d)'
    BY <2>1 DEF KindInv, Kind
  <2> QED BY <1>2, <1>3, <2>3, <2>4 DEF KindInv
<1>6. CASE CommandDies
  <2>1. PICK c \in Commands : Finish(c, "none", 0)
    BY <1>6 DEF CommandDies
  <2>2. Done(c, "none", 0) /\ UNCHANGED engine
    BY <1>6, <2>1, FinishMoves DEF CommandDies
  <2>3. \A d \in Commands :
          command'[d].type = command[d].type /\ command'[d].token = command[d].token
    BY <2>2 DEF Done, Moved
  <2>4. EngineShape'
    BY <1>1, <1>4, <2>2, <2>3, StayShape
  <2>5. ASSUME NEW d \in Commands PROVE Kind(d)'
    <3>1. Kind(d)
      BY DEF KindInv
    <3>2. CASE d = c
      BY <2>2, <3>1, <3>2 DEF Kind, OfGc, Done, Moved
    <3>3. CASE d # c
      BY <2>2, <3>1, <3>3 DEF Kind, Done, Moved
    <3> QED BY <3>2, <3>3
  <2> QED BY <1>2, <1>3, <2>4, <2>5 DEF KindInv
<1> QED BY <1>5, <1>6

LEMMA KindInvariant == Spec => []KindInv
<1>1. Init => KindInv
  <2> SUFFICES ASSUME Init PROVE KindInv
    OBVIOUS
  <2>1. /\ \A c \in Commands : command[c] = Unstarted
        /\ DOMAIN agent = Commands /\ lost = FALSE /\ stale = FALSE
        /\ engine = [pc |-> "idle", token |-> 0, cmd |-> 0, attempt |-> 0, binding |-> 0,
                     deaf |-> FALSE, removing |-> FALSE]
    BY DEF Init
  <2>2. \A c \in Commands : Kind(c)
    BY <2>1 DEF Kind, OfGc, Unstarted
  <2>3. EngineShape
    BY <2>1 DEF EngineShape
  <2> QED BY <2>1, <2>2, <2>3 DEF KindInv
<1>2. AnswerInv /\ KindInv /\ [Next]_vars => KindInv'
  <2> SUFFICES ASSUME AnswerInv, KindInv, [Next]_vars PROVE KindInv'
    OBVIOUS
  <2>1. ASSUME UNCHANGED <<command, launch_lock, engine, lost, stale, counts>>,
               DOMAIN agent' = Commands
        PROVE  KindInv'
    <3>1. EngineShape /\ \A c \in Commands : Kind(c)
      BY DEF KindInv
    <3>2. EngineShape' /\ \A c \in Commands : Kind(c)'
      BY <2>1, <3>1 DEF EngineShape, Cmd, Kind
    <3> QED BY <2>1, <3>2 DEF KindInv
  <2>2. DOMAIN agent = Commands
    BY DEF KindInv
  <2>3. CASE HolderStep
    <3>1. DOMAIN agent' = Commands
      BY <2>2, <2>3 DEF HolderStep, HolderAuth, OpenLock, Flock, ChmodLock, Bind, SpawnAgent,
                        SpawnGuard, WriteState, RecordExit
    <3> QED BY <2>1, <2>3, <3>1 DEF HolderStep, historyVars
  <2>4. CASE \E h \in Commands : Guard(h) \/ AgentExits(h)
    BY <2>1, <2>2, <2>4 DEF Guard, AgentExits, hostVars, historyVars
  <2>5. CASE UNCHANGED vars
    BY <2>1, <2>2, <2>5 DEF vars, hostVars, processVars, historyVars
  <2> QED BY <2>3, <2>4, <2>5, CommandKinds, EngineKinds, FaultKinds DEF Next
<1> QED BY <1>1, <1>2, AnswerInvariant, PTL DEF Spec

-----------------------------------------------------------------------------
(***************************************************************************)
(* What the Engine knows of the Holders, as long as no launch was given up *)
(* unheard and nothing stale was written.                                  *)
(***************************************************************************)
Clear == ~lost /\ ~stale
Nobody == \A h \in Commands : ~Alive(h)
Unended(h) == Alive(h) /\ agent[h] # "dead"
Unspawned == {"none", "auth", "open", "flock", "chmod", "bind", "spawn"}

\* The files of a Holder that is alive are its own, and the state file is from
\* the moment its launch has answered.
HolderOf(h) ==
  /\ holder[h].pc \in Unspawned => agent[h] = "none"
  /\ holder[h].pc = "exited" => agent[h] = "dead"
  /\ holder[h].pc \in {"spawn", "guard", "write", "running", "exited"} => files.socket # 0
  /\ Alive(h) => files.dir /\ files.auth = holder[h].token
  /\ Alive(h) /\ command[h].pc = "done" => files.state.inc = h

\* A state names a Holder that has come up, and says "exited" of one whose Agent
\* is dead or that is gone itself.
Seen(s) ==
  s.inc # 0 =>
    /\ holder[s.inc].pc \in {"running", "exited", "gone"}
    /\ s.process # "running" => agent[s.inc] = "dead" \/ holder[s.inc].pc = "gone"

\* The steps of a launch that resets and starts and of a gc that deletes.
Vacant == {"release", "reset", "reset_state", "reset_auth", "start",
           "delete", "delete_auth", "delete_state", "delete_lock", "remove"}

\* What a command knows where it is: a launch that will reset or start, and a gc
\* that will delete, have found nobody; a launch that has read has read of the
\* Holder that is alive; an inspection that found the lock free has read of one
\* that is gone.
Place(c) ==
  /\ Seen(command[c].read)
  /\ command[c].type = "launch" /\ command[c].pc \notin {"none", "lock", "done"} => files.dir
  /\ command[c].type \in {"launch", "gc"} /\ command[c].pc \in Vacant => Nobody
  /\ command[c].pc = "wait" => \A h \in Commands : Alive(h) => h = c
  /\ command[c].type = "launch" /\ command[c].pc \in {"probe", "found"} =>
       \A h \in Commands : Alive(h) => command[c].read.inc = h
  /\ command[c].type = "inspect" /\ command[c].pc \in {"release", "record"} =>
       command[c].read.inc = 0 \/ holder[command[c].read.inc].pc = "gone"

\* The launch the Engine waits for is the last one.
Newest(c) ==
  command[c].type = "launch" /\ command[c].pc # "done" =>
    \/ engine.pc = "launching" /\ engine.cmd = c
    \/ \E d \in Commands : d > c /\ command[d].type = "launch"

\* While a launch waits for its Holder, a retry of it gets nowhere.
Waiting(c) ==
  command[c].pc = "wait" =>
    /\ engine.pc = "launching"
    /\ \/ engine.cmd = c \/ Cmd.pc = "lock"
       \/ Cmd.pc = "done" /\ Cmd.answer \in {"busy", "none"}

\* A Holder whose Agent is not dead is bound, or of the launch that the Engine is
\* at, or being killed.
Known(h) ==
  Unended(h) =>
    \/ engine.binding = h
    \/ engine.pc = "launching" /\ engine.token = holder[h].token
    \/ engine.pc = "killing" /\ engine.removing

\* What an answer says: "ok" of a launch, whom the Engine will bind to; "error",
\* that there is only whom it is bound to; "ok" of a kill, that there is nobody, as
\* it has seen.
Telling ==
  /\ engine.pc = "launching" /\ Cmd.pc = "done" /\ Cmd.answer = "ok" =>
       \A h \in Commands : Unended(h) => h = Cmd.inc
  /\ engine.pc = "launching" /\ Cmd.pc = "done" /\ Cmd.answer = "error" =>
       \A h \in Commands : Unended(h) => h = engine.binding
  /\ engine.pc = "killing" /\ (Cmd.pc = "ended" \/ (Cmd.pc = "done" /\ Cmd.answer = "ok")) =>
       Nobody

HostKnown ==
  /\ ~swept /\ ~overtaken /\ Seen(files.state)
  /\ \A c \in Commands : HolderOf(c) /\ Place(c)
EngineKnows == Telling /\ \A c \in Commands : Newest(c) /\ Waiting(c) /\ Known(c)

RecoveryInv == Clear => HostKnown /\ EngineKnows

Facts == OwnerInv /\ AnswerInv /\ KindInv /\ Clear /\ HostKnown /\ EngineKnows

\* Holders end and Agents die, and nothing else happens to them.
Waning ==
  \A h \in Commands :
    /\ holder'[h] = holder[h] \/ (holder'[h].pc = "gone" /\ holder[h].pc # "none")
    /\ agent'[h] = agent[h] \/ (agent'[h] = "dead" /\ holder[h].pc \notin Unspawned)

LEMMA WaningHolders ==
  ASSUME Waning
  PROVE  \A h \in Commands :
           /\ Alive(h)' => Alive(h) /\ holder'[h] = holder[h]
           /\ Unended(h)' => Unended(h) /\ holder'[h] = holder[h]
           /\ holder[h].pc = "gone" => holder'[h].pc = "gone"
  BY DEF Waning, Alive, Unended

\* What was seen stays true.
LEMMA WaningSeen ==
  ASSUME Waning, NEW inc, NEW process, inc # 0 => inc \in Commands,
         inc # 0 =>
           /\ holder[inc].pc \in {"running", "exited", "gone"}
           /\ process # "running" => agent[inc] = "dead" \/ holder[inc].pc = "gone"
  PROVE  inc # 0 =>
           /\ holder'[inc].pc \in {"running", "exited", "gone"}
           /\ process # "running" => agent'[inc] = "dead" \/ holder'[inc].pc = "gone"
  BY DEF Waning

LEMMA WaningRead ==
  ASSUME Waning, NEW c \in Commands, LaunchOf(c), Seen(command[c].read),
         command'[c].read = command[c].read
  PROVE  Seen(command[c].read)'
<1> DEFINE inc == command[c].read.inc
           process == command[c].read.process
<1>1. inc # 0 => inc \in Commands
  BY DEF LaunchOf, Started
<1>2. inc # 0 =>
        /\ holder[inc].pc \in {"running", "exited", "gone"}
        /\ process # "running" => agent[inc] = "dead" \/ holder[inc].pc = "gone"
  BY DEF Seen
<1> HIDE DEF inc, process
<1>3. inc # 0 =>
        /\ holder'[inc].pc \in {"running", "exited", "gone"}
        /\ process # "running" => agent'[inc] = "dead" \/ holder'[inc].pc = "gone"
  BY <1>1, <1>2, WaningSeen
<1> QED BY <1>3 DEF inc, process, Seen

\* What the command knows that a step leaves alone.
LEMMA WaningPlace ==
  ASSUME Facts, Waning, NEW d \in Commands, command'[d] = command[d],
         command[d].type = "launch" /\ command[d].pc \notin {"none", "lock", "done"} => files'.dir
  PROVE  Place(d)'
<1>1. Place(d) /\ LaunchOf(d)
  BY DEF Facts, HostKnown, AnswerInv
<1>2. command[d].read.inc # 0 => command[d].read.inc \in Commands
  BY <1>1 DEF LaunchOf, Started
<1>3. Seen(command[d].read)'
  BY <1>1, WaningRead DEF Place
<1>4. \A h \in Commands : Alive(h)' => Alive(h)
  BY WaningHolders
<1>5. Nobody => Nobody'
  BY <1>4 DEF Nobody
<1>6. command[d].type = "inspect" /\ command[d].pc \in {"release", "record"} =>
        command[d].read.inc = 0 \/ holder'[command[d].read.inc].pc = "gone"
  BY <1>1, <1>2, WaningHolders DEF Place
<1> QED BY <1>1, <1>3, <1>4, <1>5, <1>6 DEF Place

\* A step of command c, or of none, that keeps the files of whoever is alive.
LEMMA WaningHost ==
  ASSUME Facts, Waning, ~swept', ~overtaken', NEW c \in Commands,
         \A d \in Commands \ {c} : command'[d] = command[d],
         \A d \in Commands \ {c} :
           command[d].type = "launch" /\ command[d].pc \notin {"none", "lock", "done"} => files'.dir,
         \A h \in Commands : Alive(h) =>
           files'.dir /\ files'.auth = files.auth /\ files'.socket = files.socket,
         \A h \in Commands : Alive(h)' /\ command'[h].pc = "done" => files'.state.inc = h,
         Seen(files.state)', Place(c)'
  PROVE  HostKnown'
<1>1. ASSUME NEW h \in Commands PROVE HolderOf(h)'
  <2>1. HolderOf(h)
    BY DEF Facts, HostKnown
  <2>2. holder'[h].pc \in Unspawned => agent'[h] = "none"
    BY <2>1 DEF HolderOf, Waning, Unspawned
  <2>3. holder'[h].pc = "exited" => agent'[h] = "dead"
    BY <2>1 DEF HolderOf, Waning
  <2>4. holder'[h].pc \in {"spawn", "guard", "write", "running", "exited"} => files'.socket # 0
    <3>1. holder'[h].pc \in {"spawn", "guard", "write", "running", "exited"} =>
            Alive(h) /\ holder'[h] = holder[h]
      BY DEF Waning, Alive
    <3> QED BY <2>1, <3>1 DEF HolderOf
  <2>5. Alive(h)' => files'.dir /\ files'.auth = holder'[h].token
    BY <2>1, WaningHolders DEF HolderOf
  <2> QED BY <2>2, <2>3, <2>4, <2>5 DEF HolderOf
<1>2. \A d \in Commands \ {c} : Place(d)'
  BY WaningPlace
<1> QED BY <1>1, <1>2 DEF HostKnown

\* Most steps leave the state file alone; a launch that ends the wait for its
\* Holder has seen its state, or the Holder is gone.
LEMMA StateKept ==
  ASSUME Facts, Waning, files'.state = files.state, NEW c \in Commands,
         \A d \in Commands \ {c} : command'[d] = command[d],
         command'[c].pc = "done" =>
           command[c].pc # "wait" \/ files.state.inc = c \/ holder'[c].pc = "gone"
  PROVE  /\ Seen(files.state)'
         /\ \A h \in Commands : Alive(h)' /\ command'[h].pc = "done" => files'.state.inc = h
<1>1. Seen(files.state) /\ HostShape /\ \A h \in Commands : HolderOf(h) /\ LaunchOf(h)
  BY DEF Facts, HostKnown, AnswerInv
<1>2. Seen(files.state)'
  <2>1. files.state.inc # 0 => files.state.inc \in Commands
    BY <1>1 DEF HostShape, Started
  <2> QED BY <1>1, <2>1, WaningSeen DEF Seen
<1>3. ASSUME NEW h \in Commands, Alive(h)', command'[h].pc = "done" PROVE files'.state.inc = h
  <2>1. Alive(h) /\ HolderOf(h) /\ LaunchOf(h)
    BY <1>1, <1>3, WaningHolders
  <2>2. CASE command[h].pc = "done"
    BY <2>1, <2>2 DEF HolderOf
  <2>3. CASE command[h].pc # "done"
    <3>1. h = c /\ command[c].pc = "wait"
      BY <1>3, <2>1, <2>3 DEF LaunchOf, Alive
    <3> QED BY <1>3, <3>1 DEF Alive
  <2> QED BY <2>2, <2>3
<1> QED BY <1>2, <1>3

\* A step that keeps the files.
FilesKept ==
  /\ files.dir => files'.dir
  /\ files'.auth = files.auth /\ files'.socket = files.socket /\ files'.state = files.state

LEMMA HostKeeps ==
  ASSUME Facts, Waning, FilesKept, ~swept', ~overtaken', NEW c \in Commands,
         \A d \in Commands \ {c} : command'[d] = command[d],
         command'[c].pc = "done" =>
           command[c].pc # "wait" \/ files.state.inc = c \/ holder'[c].pc = "gone",
         Place(c)'
  PROVE  HostKnown'
<1>1. \A h \in Commands : HolderOf(h) /\ Place(h)
  BY DEF Facts, HostKnown
<1>2. /\ Seen(files.state)'
      /\ \A h \in Commands : Alive(h)' /\ command'[h].pc = "done" => files'.state.inc = h
  BY StateKept DEF FilesKept
<1>3. \A h \in Commands : Alive(h) =>
        files'.dir /\ files'.auth = files.auth /\ files'.socket = files.socket
  BY <1>1 DEF HolderOf, FilesKept
<1>4. \A d \in Commands \ {c} :
        command[d].type = "launch" /\ command[d].pc \notin {"none", "lock", "done"} => files'.dir
  BY <1>1 DEF Place, FilesKept
<1> QED BY <1>2, <1>3, <1>4, WaningHost

\* What the Engine knows it knows after a step of a command that starts no
\* Holder, if the answer says what it should.
LEMMA EngineKeeps ==
  ASSUME Facts, Waning, UNCHANGED engine, NEW c \in Commands, NEW pc, NEW answer, NEW inc, NEW read,
         Moved(c, pc, answer, inc, read), command[c].pc \notin {"none", "done"}, pc # "wait",
         command[c].pc = "lock" /\ pc = "done" => answer \in {"busy", "none"},
         command[c].pc = "lock" /\ pc # "done" => launch_lock = 0,
         engine.pc = "launching" /\ engine.cmd = c /\ pc = "done" /\ answer = "ok" =>
           \A h \in Commands : Unended(h)' => h = inc,
         engine.pc = "launching" /\ engine.cmd = c /\ pc = "done" /\ answer = "error" =>
           \A h \in Commands : Unended(h)' => h = engine.binding,
         engine.pc = "killing" /\ engine.cmd = c /\ (pc = "ended" \/ (pc = "done" /\ answer = "ok")) =>
           Nobody'
  PROVE  EngineKnows'
<1>1. /\ \A d \in Commands \ {c} : command'[d] = command[d]
      /\ command'[c].pc = pc /\ command'[c].answer = answer /\ command'[c].inc = inc
      /\ \A d \in Commands : command'[d].type = command[d].type
  BY DEF Moved
<1>2. Telling /\ \A d \in Commands : Newest(d) /\ Waiting(d) /\ Known(d) /\ LaunchOf(d) /\ CommandShape(d)
  BY DEF Facts, EngineKnows, AnswerInv
<1>3. engine.pc \in {"launching", "killing"} => engine.cmd \in Commands
  BY DEF Facts, KindInv, EngineShape
<1>4. \A h \in Commands : (Unended(h)' => Unended(h) /\ holder'[h] = holder[h]) /\ (Alive(h)' => Alive(h))
  BY WaningHolders
<1>5. ASSUME NEW d \in Commands PROVE Newest(d)'
  <2>1. command'[d].pc # "done" => command[d].pc # "done"
    BY <1>1
  <2> QED BY <1>1, <1>2, <2>1 DEF Newest
<1>6. ASSUME NEW d \in Commands, command'[d].pc = "wait"
      PROVE  /\ engine.pc = "launching"
             /\ \/ engine.cmd = d \/ command'[engine.cmd].pc = "lock"
                \/ /\ command'[engine.cmd].pc = "done"
                   /\ command'[engine.cmd].answer \in {"busy", "none"}
  <2>1. d # c /\ command[d].pc = "wait" /\ Waiting(d)
    BY <1>1, <1>2, <1>6
  <2>2. launch_lock = d /\ d # 0
    BY <1>2, <2>1 DEF LaunchOf, CommandShape, Commands
  <2>3. CASE engine.cmd = c
    BY <1>1, <2>1, <2>2, <2>3 DEF Waiting, Cmd
  <2>4. CASE engine.cmd # c
    <3>1. engine.pc = "launching" /\ command'[engine.cmd] = command[engine.cmd]
      BY <1>1, <1>3, <2>1, <2>4 DEF Waiting
    <3> QED BY <2>1, <3>1 DEF Waiting, Cmd
  <2> QED BY <2>3, <2>4
<1>7. \A d \in Commands : Waiting(d)'
  BY <1>6 DEF Waiting, Cmd
<1>8. \A d \in Commands : Known(d)'
  BY <1>2, <1>4 DEF Known
<1>9. Telling'
  <2>1. CASE engine.cmd = c
    BY <1>1, <2>1 DEF Telling, Cmd
  <2>2. CASE engine.cmd # c /\ engine.pc \in {"launching", "killing"}
    <3>1. command'[engine.cmd] = command[engine.cmd]
      BY <1>1, <1>3, <2>2
    <3>2. Nobody => Nobody'
      BY <1>4 DEF Nobody
    <3> QED BY <1>2, <1>4, <3>1, <3>2 DEF Telling, Cmd
  <2>3. CASE engine.pc \notin {"launching", "killing"}
    BY <2>3 DEF Telling
  <2> QED BY <2>1, <2>2, <2>3
<1> QED BY <1>5, <1>7, <1>8, <1>9 DEF EngineKnows

\* A Holder whose launch does not wait for it any more has come up.
LEMMA Settled ==
  ASSUME Facts, NEW h \in Commands, Alive(h), command[h].pc # "wait"
  PROVE  /\ files.state.inc = h /\ files.dir /\ files.socket # 0 /\ files.lock # 0
         /\ holder[h].pc \in {"running", "exited"} /\ files.auth = holder[h].token
         /\ LockHeld(files.lock)
<1>1. HolderOf(h) /\ LaunchOf(h) /\ Seen(files.state) /\ OneLockFile /\ ~swept
  BY DEF Facts, HostKnown, AnswerInv, OwnerInv
<1>2. files.state.inc = h
  BY <1>1 DEF LaunchOf, HolderOf, Alive
<1>3. holder[h].pc \in {"running", "exited"}
  BY <1>1, <1>2 DEF Seen, Alive, Commands
<1>4. files.lock # 0 /\ holder[h].inode = files.lock
  BY <1>1, <1>3 DEF OneLockFile, HasOpened
<1>5. LockHeld(files.lock)
  BY <1>3, <1>4 DEF LockHeld, HeldByHolder, Owners, Locked
<1>6. files.socket # 0 /\ files.dir /\ files.auth = holder[h].token
  BY <1>1, <1>3 DEF HolderOf
<1> QED BY <1>2, <1>3, <1>4, <1>5, <1>6

\* While a command has the launch lock, no other is waiting for a Holder.
LEMMA LockedOut ==
  ASSUME Facts, NEW c \in Commands, launch_lock = c, command[c].pc # "wait",
         NEW h \in Commands
  PROVE  command[h].pc # "wait"
  BY DEF Facts, AnswerInv, LaunchOf, CommandShape

LEMMA FinishKnows ==
  ASSUME Facts, Waning, FilesKept, UNCHANGED engine, ~swept', ~overtaken',
         NEW c \in Commands, NEW answer, NEW inc, Finish(c, answer, inc),
         command[c].pc \notin {"none", "done"},
         command[c].pc = "wait" => files.state.inc = c \/ holder'[c].pc = "gone",
         command[c].pc = "lock" => answer \in {"busy", "none"},
         engine.pc = "launching" /\ engine.cmd = c /\ answer = "ok" =>
           \A h \in Commands : Unended(h)' => h = inc,
         engine.pc = "launching" /\ engine.cmd = c /\ answer = "error" =>
           \A h \in Commands : Unended(h)' => h = engine.binding,
         engine.pc = "killing" /\ engine.cmd = c /\ answer = "ok" => Nobody'
  PROVE  HostKnown' /\ EngineKnows'
<1>1. Done(c, answer, inc)
  BY FinishMoves DEF Facts
<1>2. /\ \A d \in Commands \ {c} : command'[d] = command[d]
      /\ command'[c].pc = "done" /\ command'[c].read = command[c].read
  BY <1>1 DEF Done, Moved
<1>3. Place(c)'
  <2>1. Place(c) /\ LaunchOf(c)
    BY DEF Facts, HostKnown, AnswerInv
  <2>2. Seen(command[c].read)'
    BY <1>2, <2>1, WaningRead DEF Place
  <2> QED BY <1>2, <2>2 DEF Place, Vacant
<1>4. HostKnown'
  BY <1>2, <1>3, HostKeeps
<1>5. EngineKnows'
  BY <1>1, EngineKeeps DEF Done
<1> QED BY <1>4, <1>5

LEMMA GoKnows ==
  ASSUME Facts, Waning, FilesKept, UNCHANGED engine, ~swept', ~overtaken',
         NEW c \in Commands, NEW pc, Went(c, pc),
         command[c].pc \notin {"none", "done"}, pc \notin {"wait", "done"},
         command[c].pc = "lock" => launch_lock = 0,
         command[c].type = "launch" => files'.dir,
         command[c].type \in {"launch", "gc"} /\ pc \in Vacant => Nobody',
         engine.pc = "killing" /\ engine.cmd = c /\ pc = "ended" => Nobody',
         command[c].type = "launch" /\ pc \in {"probe", "found"} =>
           \A h \in Commands : Alive(h)' => command[c].read.inc = h,
         command[c].type = "inspect" /\ pc \in {"release", "record"} =>
           command[c].read.inc = 0 \/ holder'[command[c].read.inc].pc = "gone"
  PROVE  HostKnown' /\ EngineKnows'
<1>1. /\ \A d \in Commands \ {c} : command'[d] = command[d]
      /\ command'[c].pc = pc /\ command'[c].read = command[c].read
      /\ command'[c].type = command[c].type
  BY DEF Went, Moved
<1>2. Place(c)'
  <2>1. Place(c) /\ LaunchOf(c)
    BY DEF Facts, HostKnown, AnswerInv
  <2>2. Seen(command[c].read)'
    BY <1>1, <2>1, WaningRead DEF Place
  <2> QED BY <1>1, <2>2 DEF Place
<1>3. HostKnown'
  BY <1>1, <1>2, HostKeeps
<1>4. EngineKnows'
  BY EngineKeeps DEF Went
<1> QED BY <1>3, <1>4

\* Steps that touch no process.
LEMMA Still == ASSUME UNCHANGED <<holder, agent>> PROVE Waning
  BY DEF Waning

LEMMA LaunchLockKnows ==
  ASSUME Facts, NEW c \in Commands, TakeLaunchLock(c), UNCHANGED <<engine, swept, overtaken>>
  PROVE  HostKnown' /\ EngineKnows'
<1>1. Shape /\ ~swept' /\ ~overtaken'
  BY DEF Facts, OwnerInv, HostKnown
<1>2. command[c].pc = "lock" /\ Waning
  BY Still DEF TakeLaunchLock, processVars
<1>3. FilesKept /\ (command[c].type = "launch" => files'.dir)
  BY <1>1 DEF TakeLaunchLock, Ensured, FilesKept, Shape
<1>4. CASE Finish(c, "busy", 0)
  BY <1>1, <1>2, <1>3, <1>4, FinishKnows
<1>5. CASE /\ launch_lock = 0 /\ launch_lock' = c
           /\ Goto(c, IF command[c].type = "launch" THEN "look" ELSE "probe")
  <2>1. \A d \in Commands \ {c} : launch_lock = d => launch_lock' = d
    BY <1>5 DEF Commands
  <2>2. Went(c, IF command[c].type = "launch" THEN "look" ELSE "probe")
    BY <1>5, <2>1, GotoMoves DEF Facts
  <2> QED BY <1>1, <1>2, <1>3, <1>5, <2>2, GoKnows DEF Vacant
<1> QED BY <1>4, <1>5 DEF TakeLaunchLock

LEMMA AuthenticateKnows ==
  ASSUME Facts, NEW c \in Commands, Authenticate(c), UNCHANGED <<engine, swept, overtaken>>
  PROVE  HostKnown' /\ EngineKnows'
<1>1. ~swept' /\ ~overtaken' /\ EngineShape /\ Kind(c)
  BY DEF Facts, HostKnown, KindInv
<1>2. command[c].pc = "authenticate" /\ Waning /\ FilesKept
  BY Still DEF Authenticate, processVars, FilesKept
<1>3. command[c].type \in {"inspect", "kill"}
  BY <1>1, <1>2 DEF Kind
<1>4. CASE Finish(c, "error", 0)
  <2>1. ~(engine.pc = "launching" /\ engine.cmd = c)
    BY <1>1, <1>3 DEF EngineShape, Cmd
  <2> QED BY <1>1, <1>2, <1>4, <2>1, FinishKnows
<1>5. CASE Goto(c, "look") /\ UNCHANGED launch_lock
  <2>1. Went(c, "look")
    BY <1>5, GotoMoves DEF Facts
  <2> QED BY <1>1, <1>2, <1>3, <2>1, GoKnows DEF Vacant
<1> QED BY <1>4, <1>5 DEF Authenticate

\* A launch that finds a state has read of the Holder that is alive; one that
\* finds none has found nobody.
LEMMA ReadStateKnows ==
  ASSUME Facts, NEW c \in Commands, ReadState(c), UNCHANGED <<engine, swept, overtaken>>
  PROVE  HostKnown' /\ EngineKnows'
<1>1. /\ ~swept' /\ ~overtaken' /\ EngineShape /\ Kind(c) /\ Place(c) /\ LaunchOf(c)
      /\ Seen(files.state)
  BY DEF Facts, HostKnown, KindInv, AnswerInv
<1>2. command[c].pc = "look" /\ Waning /\ FilesKept /\ UNCHANGED <<files, holder, agent>>
  BY Still DEF ReadState, processVars, FilesKept
<1>3. command[c].type = "launch" => files.dir
  BY <1>1, <1>2 DEF Place
<1>4. ASSUME command[c].type = "launch", NEW h \in Commands, Alive(h)
      PROVE  files.state.inc = h
  <2>1. launch_lock = c
    BY <1>1, <1>2, <1>4 DEF LaunchOf
  <2> QED BY <1>2, <1>4, <2>1, LockedOut, Settled
<1>5. ASSUME NEW answer, NEW inc, answer # "ok", Done(c, answer, inc), command[c].type # "launch"
      PROVE  HostKnown' /\ EngineKnows'
  <2>1. ~(engine.pc = "launching" /\ engine.cmd = c)
    BY <1>1, <1>5 DEF EngineShape, Cmd
  <2>2. /\ \A d \in Commands \ {c} : command'[d] = command[d]
        /\ command'[c].pc = "done" /\ command'[c].read = command[c].read
    BY <1>5 DEF Done, Moved
  <2>3. Place(c)'
    BY <1>1, <1>2, <2>2 DEF Place, Vacant, Seen
  <2>4. HostKnown'
    BY <1>1, <1>2, <2>2, <2>3, HostKeeps
  <2>5. EngineKnows'
    BY <1>2, <1>5, <2>1, EngineKeeps DEF Done
  <2> QED BY <2>4, <2>5
<1>6. CASE Moved(c, "probe", command[c].answer, command[c].inc, files.state)
  <2>1. /\ \A d \in Commands \ {c} : command'[d] = command[d]
        /\ command'[c].pc = "probe" /\ command'[c].read = files.state
        /\ command'[c].type = command[c].type
    BY <1>6 DEF Moved
  <2>2. Place(c)'
    <3>1. Seen(command[c].read)'
      BY <1>1, <1>2, <2>1 DEF Seen
    <3>2. command[c].type = "launch" => \A h \in Commands : Alive(h)' => files.state.inc = h
      BY <1>2, <1>4 DEF Alive
    <3> QED BY <1>2, <1>3, <2>1, <3>1, <3>2 DEF Place, Vacant
  <2>3. HostKnown'
    BY <1>1, <1>2, <2>1, <2>2, HostKeeps
  <2>4. EngineKnows'
    BY <1>2, <1>6, EngineKeeps
  <2> QED BY <2>3, <2>4
<1>7. CASE command[c].type = "launch" /\ Went(c, "reset") /\ (files.state = NoState \/ command[c].expect # 0)
  <2>1. files.state = NoState
    BY <1>1, <1>7 DEF Kind
  <2>2. Nobody
    BY <1>4, <1>7, <2>1 DEF Nobody, NoState, Commands
  <2>3. Nobody' /\ files'.dir
    BY <1>2, <1>3, <1>7, <2>2 DEF Nobody, Alive
  <2> QED BY <1>1, <1>2, <1>7, <2>3, GoKnows
<1> QED BY <1>5, <1>6, <1>7, ReadStateMoves DEF Facts

\* The lock is free only if nobody has come up, and nobody is on the way while
\* the launch lock is held.
LEMMA ProbeKnows ==
  ASSUME Facts, NEW c \in Commands, Probe(c), UNCHANGED <<engine, swept, overtaken>>
  PROVE  HostKnown' /\ EngineKnows'
<1>1. /\ ~swept' /\ ~overtaken' /\ Kind(c) /\ Place(c) /\ LaunchOf(c) /\ CommandShape(c) /\ Shape
      /\ OneLockFile /\ ~swept
  BY DEF Facts, HostKnown, KindInv, AnswerInv, OwnerInv
<1>2. command[c].pc = "probe" /\ Waning /\ UNCHANGED <<holder, agent>> /\ files' = LockOpened
  BY Still DEF Probe, processVars
<1>3. FilesKept
  BY <1>1, <1>2 DEF LockOpened, FilesKept, Shape
<1>4. command[c].type = "launch" => files'.dir
  BY <1>1, <1>2, <1>3 DEF Place, FilesKept
<1>5. files.lock # 0 => files'.lock = files.lock
  BY <1>1, <1>2, Opening
<1>6. command[c].type \in {"launch", "inspect", "kill", "gc"}
  BY <1>1, <1>2 DEF CommandShape
<1>7. CASE Went(c, WhenHeld(command[c].type))
  <2>1. command[c].type = "launch" => \A h \in Commands : Alive(h)' => command[c].read.inc = h
    BY <1>1, <1>2 DEF Place, Alive
  <2> QED BY <1>1, <1>2, <1>3, <1>4, <1>6, <1>7, <2>1, GoKnows DEF WhenHeld, Vacant
<1>8. CASE Went(c, "release") /\ ~LockHeld(files'.lock)
  <2>1. command[c].type \in {"launch", "gc"} => Nobody'
    <3> SUFFICES ASSUME command[c].type \in {"launch", "gc"}, NEW h \in Commands, Alive(h)
                 PROVE  FALSE
      BY <1>2 DEF Nobody, Alive
    <3>1. launch_lock = c
      BY <1>1, <1>2 DEF LaunchOf, Kind
    <3> QED BY <1>2, <1>5, <1>8, <3>1, LockedOut, Settled
  <2>2. command[c].read.inc = 0 \/ holder'[command[c].read.inc].pc = "gone"
    <3> SUFFICES ASSUME command[c].read.inc # 0, holder[command[c].read.inc].pc # "gone"
                 PROVE  FALSE
      BY <1>2
    <3>1. PICK h \in Commands : h = command[c].read.inc
      BY <1>1 DEF LaunchOf, Started
    <3>2. holder[h].pc \in {"running", "exited"}
      BY <1>1, <3>1 DEF Place, Seen
    <3>3. files.lock # 0 /\ holder[h].inode = files.lock
      BY <1>1, <3>2 DEF OneLockFile, HasOpened
    <3> QED BY <1>5, <1>8, <3>2, <3>3 DEF LockHeld, HeldByHolder, Owners, Locked
  <2> QED BY <1>1, <1>2, <1>3, <1>4, <1>8, <2>1, <2>2, GoKnows
<1> QED BY <1>7, <1>8, ProbeMoves DEF Facts

LEMMA ProbeFailsKnows ==
  ASSUME Facts, NEW c \in Commands, ProbeFails(c), UNCHANGED <<engine, swept, overtaken>>
  PROVE  HostKnown' /\ EngineKnows'
<1>1. ~swept' /\ ~overtaken' /\ EngineShape /\ Place(c)
  BY DEF Facts, HostKnown, KindInv
<1>2. command[c].pc = "probe" /\ ~files.dir /\ Waning /\ FilesKept
  BY Still DEF ProbeFails, processVars, FilesKept
<1>3. command[c].type # "launch"
  BY <1>1, <1>2 DEF Place
<1>4. PICK answer : Finish(c, answer, 0) /\ (answer = "ok" => command[c].type = "gc")
  BY DEF ProbeFails
<1>5. /\ ~(engine.pc = "launching" /\ engine.cmd = c)
      /\ ~(engine.pc = "killing" /\ engine.cmd = c /\ answer = "ok")
  BY <1>1, <1>3, <1>4 DEF EngineShape, Cmd
<1> QED BY <1>1, <1>2, <1>4, <1>5, FinishKnows

LEMMA ReleaseKnows ==
  ASSUME Facts, NEW c \in Commands, Release(c), UNCHANGED <<engine, swept, overtaken>>
  PROVE  HostKnown' /\ EngineKnows'
<1>1. ~swept' /\ ~overtaken' /\ Place(c) /\ CommandShape(c)
  BY DEF Facts, HostKnown, AnswerInv
<1>2. command[c].pc = "release" /\ Waning /\ FilesKept /\ UNCHANGED <<files, holder>>
  BY Still DEF Release, processVars, hostVars, FilesKept
<1>3. command[c].type \in {"launch", "inspect", "kill", "gc"}
  BY <1>1, <1>2 DEF CommandShape
<1>4. /\ command[c].type = "launch" => files'.dir
      /\ command[c].type \in {"launch", "gc"} => Nobody'
      /\ command[c].type = "inspect" =>
           command[c].read.inc = 0 \/ holder'[command[c].read.inc].pc = "gone"
  BY <1>1, <1>2 DEF Place, Vacant, Nobody, Alive
<1>5. Went(c, WhenFree(command[c].type))
  BY ReleaseMoves DEF Facts
<1> QED BY <1>1, <1>2, <1>3, <1>4, <1>5, GoKnows DEF WhenFree, Vacant

\* A launch that answers for a live Holder names it; one that does not has found
\* another launch's.
LEMMA FindLiveKnows ==
  ASSUME Facts, NEW c \in Commands, FindLive(c), UNCHANGED <<engine, swept, overtaken>>
  PROVE  HostKnown' /\ EngineKnows'
<1>1. /\ ~swept' /\ ~overtaken' /\ Place(c) /\ CommandShape(c) /\ LaunchOf(c) /\ EngineShape
      /\ \A h \in Commands : Known(h)
  BY DEF Facts, HostKnown, AnswerInv, KindInv, EngineKnows
<1>2. command[c].pc = "found" /\ Waning /\ FilesKept /\ UNCHANGED <<files, holder, agent>>
  BY Still DEF FindLive, processVars, FilesKept
<1>3. command[c].type = "launch" /\ launch_lock = c
  BY <1>1, <1>2 DEF CommandShape, LaunchOf
<1>4. \A h \in Commands : Alive(h) =>
        files.socket # 0 /\ files.auth = holder[h].token /\ command[c].read.inc = h
  BY <1>1, <1>2, <1>3, LockedOut, Settled DEF Place
<1>5. ~(engine.pc = "killing" /\ engine.cmd = c)
  BY <1>1, <1>3 DEF EngineShape, Cmd
<1>6. CASE files.socket = 0 /\ Goto(c, "reset") /\ UNCHANGED launch_lock
  <2>1. Went(c, "reset")
    BY <1>6, GotoMoves DEF Facts
  <2>2. Nobody' /\ files'.dir
    BY <1>1, <1>2, <1>3, <1>4, <1>6 DEF Nobody, Alive, Place
  <2> QED BY <1>1, <1>2, <2>1, <2>2, GoKnows
<1>7. CASE Finish(c, "ok", command[c].read.inc)
  <2>1. \A h \in Commands : Unended(h)' => h = command[c].read.inc
    BY <1>2, <1>4 DEF Unended, Alive
  <2> QED BY <1>1, <1>2, <1>5, <1>7, <2>1, FinishKnows
<1>8. CASE /\ ~(files.auth = command[c].token /\ command[c].read.process = "running")
           /\ Finish(c, "error", 0)
  <2>1. ASSUME engine.pc = "launching", engine.cmd = c, NEW h \in Commands, Unended(h)
        PROVE  h = engine.binding
    <3>1. Alive(h) /\ agent[h] # "dead"
      BY <2>1 DEF Unended
    <3>2. command[c].read.inc = h /\ files.auth = holder[h].token
      BY <1>4, <3>1
    <3>3. command[c].read.process = "running"
      BY <1>1, <3>1, <3>2 DEF Place, Seen, Alive, Commands
    <3>4. engine.token = command[c].token
      BY <1>1, <2>1 DEF EngineShape, Cmd
    <3> QED BY <1>1, <1>8, <2>1, <3>2, <3>3, <3>4 DEF Known
  <2>2. engine.pc = "launching" /\ engine.cmd = c => \A h \in Commands : Unended(h)' => h = engine.binding
    BY <1>2, <2>1 DEF Unended, Alive
  <2> QED BY <1>1, <1>2, <1>5, <1>8, <2>2, FinishKnows
<1> QED BY <1>6, <1>7, <1>8 DEF FindLive

LEMMA AwaitKnows ==
  ASSUME Facts, NEW c \in Commands, AwaitHolder(c), UNCHANGED <<engine, swept, overtaken>>
  PROVE  HostKnown' /\ EngineKnows'
<1>1. /\ ~swept' /\ ~overtaken' /\ Place(c) /\ CommandShape(c) /\ LaunchOf(c) /\ EngineShape
      /\ Seen(files.state) /\ Shape
  BY DEF Facts, HostKnown, AnswerInv, KindInv, OwnerInv
<1>2. command[c].pc = "wait" /\ FilesKept /\ UNCHANGED <<files, agent>>
  BY DEF AwaitHolder, FilesKept
<1>3. /\ command[c].type = "launch" /\ holder[c].pc # "none"
      /\ \A h \in Commands : Alive(h) => h = c
  BY <1>1, <1>2 DEF CommandShape, LaunchOf, Place
<1>4. ~(engine.pc = "killing" /\ engine.cmd = c)
  BY <1>1, <1>3 DEF EngineShape, Cmd
<1>5. CASE /\ files.state.inc = c /\ UNCHANGED holder
           /\ Finish(c, IF files.state.process = "running" THEN "ok" ELSE "error", c)
  <2>1. Waning
    BY <1>2, <1>5, Still
  <2>2. \A h \in Commands : Unended(h)' => h = c
    BY <1>2, <1>3, <1>5 DEF Unended, Alive
  <2>3. files.state.process # "running" => ~Unended(c)'
    BY <1>1, <1>2, <1>5 DEF Seen, Unended, Alive, Commands
  <2> QED BY <1>1, <1>2, <1>4, <1>5, <2>1, <2>2, <2>3, FinishKnows
<1>6. CASE holder'[c].pc = "gone" /\ Waning /\ Finish(c, "error", 0)
  <2>1. \A h \in Commands : ~Unended(h)'
    BY <1>3, <1>6, WaningHolders DEF Unended, Alive
  <2> QED BY <1>1, <1>2, <1>4, <1>6, <2>1, FinishKnows
<1>7. CASE holder[c].pc = "gone" /\ Finish(c, "error", 0) /\ UNCHANGED holder
  BY <1>2, <1>6, <1>7, Still
<1>8. CASE Finish(c, "error", 0) /\ holder' = Ended(c)
  <2>1. holder'[c].pc = "gone" /\ \A h \in Commands \ {c} : holder'[h] = holder[h]
    BY <1>1, <1>8 DEF Shape, Ended
  <2>2. Waning
    BY <1>2, <1>3, <2>1 DEF Waning
  <2> QED BY <1>6, <1>8, <2>1, <2>2
<1> QED BY <1>5, <1>7, <1>8 DEF AwaitHolder

\* What kill has read of is not on its way any more.
LEMMA KillAgentKnows ==
  ASSUME Facts, NEW c \in Commands, KillAgent(c), UNCHANGED <<engine, swept, overtaken>>
  PROVE  HostKnown' /\ EngineKnows'
<1>1. /\ ~swept' /\ ~overtaken' /\ Place(c) /\ CommandShape(c) /\ LaunchOf(c)
      /\ DOMAIN agent = Commands
  BY DEF Facts, HostKnown, AnswerInv, KindInv
<1>2. command[c].pc = "agent" /\ FilesKept /\ UNCHANGED <<files, holder>>
  BY DEF KillAgent, FilesKept, hostVars
<1>3. command[c].type = "kill" /\ (command[c].read.inc # 0 => command[c].read.inc \in Commands)
  BY <1>1, <1>2 DEF CommandShape, LaunchOf, Started
<1>4. PICK read : /\ Moved(c, "write", command[c].answer, command[c].inc, read)
                  /\ read.inc = command[c].read.inc /\ read.process = "exited"
  BY KillAgentMoves DEF Facts
<1>5. \A h \in Commands :
        /\ h # command[c].read.inc => agent'[h] = agent[h]
        /\ h = command[c].read.inc =>
             agent'[h] = "dead" \/ (agent'[h] = agent[h] /\ command[c].read.process # "running")
  BY <1>1 DEF KillAgent
<1>6. command[c].read.inc # 0 =>
        /\ holder[command[c].read.inc].pc \in {"running", "exited", "gone"}
        /\ agent'[command[c].read.inc] = "dead" \/ holder[command[c].read.inc].pc = "gone"
  BY <1>1, <1>3, <1>5 DEF Place, Seen
<1>7. Waning
  BY <1>2, <1>5, <1>6 DEF Waning, Unspawned, Commands
<1>8. /\ \A d \in Commands \ {c} : command'[d] = command[d]
      /\ command'[c].pc = "write" /\ command'[c].read = read /\ command'[c].type = "kill"
  BY <1>3, <1>4 DEF Moved
<1>9. Place(c)'
  <2>1. Seen(command[c].read)'
    BY <1>2, <1>4, <1>6, <1>8 DEF Seen
  <2> QED BY <1>8, <2>1 DEF Place
<1>10. HostKnown'
  BY <1>1, <1>2, <1>7, <1>8, <1>9, HostKeeps
<1>11. EngineKnows'
  BY <1>2, <1>4, <1>7, EngineKeeps
<1> QED BY <1>10, <1>11

LEMMA KillHolderKnows ==
  ASSUME Facts, NEW c \in Commands, KillHolder(c), UNCHANGED <<engine, swept, overtaken>>
  PROVE  HostKnown' /\ EngineKnows'
<1>1. ~swept' /\ ~overtaken' /\ Place(c) /\ CommandShape(c) /\ LaunchOf(c) /\ Shape
  BY DEF Facts, HostKnown, AnswerInv, OwnerInv
<1>2. /\ command[c].pc = "term" /\ FilesKept /\ UNCHANGED <<files, launch_lock, agent>>
      /\ holder' = Ended(command[c].read.inc) /\ Goto(c, "unlocked")
  BY DEF KillHolder, FilesKept, hostVars
<1>3. command[c].type = "kill" /\ (command[c].read.inc # 0 => command[c].read.inc \in Commands)
  BY <1>1, <1>2 DEF CommandShape, LaunchOf, Started
<1>4. \A h \in Commands :
        holder'[h] = holder[h] \/ (holder'[h].pc = "gone" /\ h = command[c].read.inc)
  BY <1>1, <1>2 DEF Ended, Shape
<1>5. \A h \in Commands : h = command[c].read.inc => holder[h].pc # "none"
  BY <1>1 DEF Place, Seen, Commands
<1>6. Waning
  BY <1>2, <1>4, <1>5 DEF Waning
<1>7. Went(c, "unlocked")
  BY <1>2, GotoMoves DEF Facts
<1> QED BY <1>1, <1>2, <1>3, <1>6, <1>7, GoKnows DEF Vacant

\* The lock that kill finds free is that of whoever came up, and nobody is on
\* the way while the Engine waits for a kill.
LEMMA KillPollsKnows ==
  ASSUME Facts, NEW c \in Commands, KillPolls(c), UNCHANGED <<engine, swept, overtaken>>
  PROVE  HostKnown' /\ EngineKnows'
<1>1. /\ ~swept' /\ ~overtaken' /\ CommandShape(c) /\ Shape
      /\ \A h \in Commands : Waiting(h)
  BY DEF Facts, HostKnown, AnswerInv, OwnerInv, EngineKnows
<1>2. /\ command[c].pc = "unlocked" /\ UNCHANGED <<holder, agent>> /\ Waning
      /\ files' = LockOpened /\ ~LockHeld(files'.lock)
  BY Still DEF KillPolls, processVars
<1>3. FilesKept
  BY <1>1, <1>2 DEF FilesKept, LockOpened, Shape
<1>4. command[c].type = "kill" /\ Went(c, "ended")
  BY <1>1, <1>2, KillPollsMoves DEF CommandShape, Facts
<1>5. files.lock # 0 => files'.lock = files.lock
  BY <1>1, <1>2, Opening
<1>6. engine.pc = "killing" => Nobody
  <2> SUFFICES ASSUME engine.pc = "killing" PROVE Nobody
    OBVIOUS
  <2>1. \A h \in Commands : command[h].pc # "wait"
    BY <1>1 DEF Waiting
  <2> QED BY <1>2, <1>5, <2>1, Settled DEF Nobody
<1>7. engine.pc = "killing" => Nobody'
  BY <1>2, <1>6 DEF Nobody, Alive
<1> QED BY <1>1, <1>2, <1>3, <1>4, <1>7, GoKnows DEF Vacant

LEMMA KillEndsKnows ==
  ASSUME Facts, NEW c \in Commands, KillEnds(c), UNCHANGED <<engine, swept, overtaken>>
  PROVE  HostKnown' /\ EngineKnows'
<1>1. ~swept' /\ ~overtaken' /\ CommandShape(c) /\ Shape /\ EngineShape /\ Telling
  BY DEF Facts, HostKnown, AnswerInv, OwnerInv, EngineKnows, KindInv
<1>2. /\ command[c].pc \in {"fail", "unlocked", "ended"} /\ UNCHANGED <<holder, agent>> /\ Waning
      /\ files' = files \/ files' = LockOpened
  BY Still DEF KillEnds, processVars
<1>3. FilesKept
  BY <1>1, <1>2 DEF FilesKept, LockOpened, Shape
<1>4. command[c].type = "kill"
  BY <1>1, <1>2 DEF CommandShape
<1>5. ~(engine.pc = "launching" /\ engine.cmd = c)
  BY <1>1, <1>4 DEF EngineShape, Cmd
<1>6. ASSUME NEW inc, Finish(c, "error", inc) PROVE HostKnown' /\ EngineKnows'
  BY <1>1, <1>2, <1>3, <1>5, <1>6, FinishKnows
<1>7. CASE command[c].pc = "ended" /\ Finish(c, "ok", command[c].read.inc)
  <2>1. engine.pc = "killing" /\ engine.cmd = c => Nobody'
    BY <1>1, <1>2, <1>7 DEF Telling, Cmd, Nobody, Alive
  <2> QED BY <1>1, <1>2, <1>3, <1>5, <1>7, <2>1, FinishKnows
<1> QED BY <1>6, <1>7 DEF KillEnds

\* A launch resets what it has found dead, a gc deletes it, and inspect and kill
\* write what has ended, so that the files of nobody who is alive are changed.
LEMMA ResetKnows ==
  ASSUME Facts, NEW c \in Commands, ResetDeadSession(c), UNCHANGED engine
  PROVE  HostKnown' /\ EngineKnows'
<1>1. /\ ~swept /\ ~overtaken /\ Place(c) /\ CommandShape(c) /\ LaunchOf(c) /\ Shape
      /\ Seen(files.state)
  BY DEF Facts, HostKnown, AnswerInv, OwnerInv
<1>2. /\ command[c].pc \in {"reset", "reset_state", "reset_auth"}
      /\ UNCHANGED <<launch_lock, holder, agent, swept>> /\ Waning
  BY Still DEF ResetDeadSession, processVars
<1>3. command[c].type = "launch"
  BY <1>1, <1>2 DEF CommandShape
<1>4. Nobody /\ files.dir
  BY <1>1, <1>2, <1>3 DEF Place, Vacant
<1>5. ~swept' /\ ~overtaken'
  <2>1. ~(\E h \in Commands : holder[h].pc \notin {"none", "gone"})
    BY <1>4 DEF Nobody, Alive
  <2>2. overtaken \in BOOLEAN
    BY DEF Facts, AnswerInv, HostShape
  <2>3. ~overtaken'
    BY <1>1, <2>1, <2>2 DEF ResetDeadSession
  <2> QED BY <1>1, <1>2, <2>3
<1>6. files'.dir /\ (files'.state = files.state \/ files'.state = NoState)
  BY <1>1, <1>4 DEF ResetDeadSession, Shape
<1>7. PICK pc \in {"reset_state", "reset_auth", "start"} : Went(c, pc)
  BY <1>2, GotoMoves DEF Facts, ResetDeadSession
<1>8. /\ \A d \in Commands \ {c} : command'[d] = command[d]
      /\ command'[c].pc = pc /\ command'[c].read = command[c].read
      /\ command'[c].type = "launch"
  BY <1>3, <1>7 DEF Went, Moved
<1>9. \A h \in Commands : ~Alive(h) /\ ~Alive(h)'
  BY <1>2, <1>4 DEF Nobody, Alive
<1>10. Place(c)'
  <2>1. Seen(command[c].read)'
    BY <1>1, <1>2, <1>8 DEF Place, Seen
  <2> QED BY <1>6, <1>8, <1>9, <2>1 DEF Place, Nobody
<1>11. Seen(files.state)'
  BY <1>1, <1>2, <1>6 DEF Seen, NoState
<1>12. HostKnown'
  BY <1>2, <1>5, <1>6, <1>8, <1>9, <1>10, <1>11, WaningHost
<1>13. EngineKnows'
  BY <1>2, <1>7, EngineKeeps DEF Went
<1> QED BY <1>12, <1>13

LEMMA GcDeletesKnows ==
  ASSUME Facts, NEW c \in Commands, GcDeletes(c) \/ GcDeletesLock(c),
         UNCHANGED <<engine, overtaken>>, GcDeletes(c) => UNCHANGED swept
  PROVE  HostKnown' /\ EngineKnows'
<1>1. /\ ~swept /\ ~overtaken /\ Place(c) /\ Kind(c) /\ Shape /\ Seen(files.state)
      /\ \A d \in Commands : LaunchOf(d)
  BY DEF Facts, HostKnown, AnswerInv, OwnerInv, KindInv
<1>2. /\ command[c].pc \in {"delete", "delete_auth", "delete_state", "delete_lock"}
      /\ UNCHANGED <<launch_lock, holder, agent>> /\ Waning
  BY Still DEF GcDeletes, GcDeletesLock, processVars
<1>3. command[c].type = "gc" /\ launch_lock = c
  BY <1>1, <1>2 DEF Kind, OfGc
<1>4. Nobody
  BY <1>1, <1>2, <1>3 DEF Place, Vacant
<1>5. ~swept' /\ ~overtaken'
  <2>1. ~(\E h \in Commands : holder[h].pc \notin {"none", "auth", "open", "gone"})
    BY <1>4 DEF Nobody, Alive
  <2>2. swept \in BOOLEAN
    BY <1>1 DEF Shape
  <2>3. ~swept'
    BY <1>1, <2>1, <2>2 DEF GcDeletesLock
  <2> QED BY <1>1, <2>3
<1>6. files'.state = files.state \/ files'.state = NoState
  BY <1>1 DEF GcDeletes, GcDeletesLock, Shape
<1>7. PICK pc \in {"delete_auth", "delete_state", "delete_lock", "remove"} : Went(c, pc)
  BY <1>2, GotoMoves DEF Facts, GcDeletes, GcDeletesLock
<1>8. /\ \A d \in Commands \ {c} : command'[d] = command[d]
      /\ command'[c].pc = pc /\ command'[c].read = command[c].read
      /\ command'[c].type = "gc"
  BY <1>3, <1>7 DEF Went, Moved
<1>9. \A h \in Commands : ~Alive(h) /\ ~Alive(h)'
  BY <1>2, <1>4 DEF Nobody, Alive
<1>10. \A d \in Commands \ {c} :
         ~(command[d].type = "launch" /\ command[d].pc \notin {"none", "lock", "done"})
  BY <1>1, <1>3 DEF LaunchOf
<1>11. Place(c)'
  <2>1. Seen(command[c].read)'
    BY <1>1, <1>2, <1>8 DEF Place, Seen
  <2> QED BY <1>8, <1>9, <2>1 DEF Place, Nobody
<1>12. Seen(files.state)'
  BY <1>1, <1>2, <1>6 DEF Seen, NoState
<1>13. HostKnown'
  BY <1>2, <1>5, <1>8, <1>9, <1>10, <1>11, <1>12, WaningHost
<1>14. EngineKnows'
  BY <1>2, <1>7, EngineKeeps DEF Went
<1> QED BY <1>13, <1>14

LEMMA GcEndsKnows ==
  ASSUME Facts, NEW c \in Commands, GcEnds(c), UNCHANGED <<engine, swept, overtaken>>
  PROVE  HostKnown' /\ EngineKnows'
<1>1. /\ ~swept' /\ ~overtaken' /\ Place(c) /\ Kind(c) /\ Shape /\ EngineShape
      /\ Seen(files.state) /\ \A d \in Commands : LaunchOf(d)
  BY DEF Facts, HostKnown, AnswerInv, OwnerInv, KindInv
<1>2. /\ command[c].pc \in {"retain", "remove"} /\ UNCHANGED <<holder, agent>> /\ Waning
      /\ Finish(c, "ok", 0)
  BY Still DEF GcEnds, processVars
<1>3. command[c].type = "gc" /\ launch_lock = c
  BY <1>1, <1>2 DEF Kind, OfGc
<1>4. /\ ~(engine.pc = "launching" /\ engine.cmd = c)
      /\ ~(engine.pc = "killing" /\ engine.cmd = c)
  BY <1>1, <1>3 DEF EngineShape, Cmd
<1>5. CASE UNCHANGED files
  BY <1>1, <1>2, <1>4, <1>5, FinishKnows DEF FilesKept
<1>6. CASE command[c].pc = "remove" /\ files' = [files EXCEPT !.dir = @ /\ ~Emptied]
  <2>1. files'.state = files.state
    BY <1>1, <1>6 DEF Shape
  <2>2. Done(c, "ok", 0)
    BY <1>2, FinishMoves DEF Facts
  <2>3. /\ \A d \in Commands \ {c} : command'[d] = command[d]
        /\ command'[c].pc = "done" /\ command'[c].read = command[c].read
        /\ command'[c].type = "gc"
    BY <1>3, <2>2 DEF Done, Moved
  <2>4. \A h \in Commands : ~Alive(h) /\ ~Alive(h)'
    BY <1>1, <1>2, <1>3, <1>6 DEF Place, Vacant, Nobody, Alive
  <2>5. \A d \in Commands \ {c} :
          ~(command[d].type = "launch" /\ command[d].pc \notin {"none", "lock", "done"})
    BY <1>1, <1>3 DEF LaunchOf
  <2>6. Place(c)'
    <3>1. Seen(command[c].read)'
      BY <1>1, <1>2, <2>3 DEF Place, Seen
    <3> QED BY <2>3, <3>1 DEF Place, Vacant
  <2>7. Seen(files.state)'
    BY <1>1, <1>2, <2>1 DEF Seen
  <2>8. HostKnown'
    BY <1>1, <1>2, <2>3, <2>4, <2>5, <2>6, <2>7, WaningHost
  <2>9. EngineKnows'
    BY <1>2, <1>4, <2>2, EngineKeeps DEF Done
  <2> QED BY <2>8, <2>9
<1> QED BY <1>2, <1>5, <1>6 DEF GcEnds

LEMMA WritesBackKnows ==
  ASSUME Facts, NEW c \in Commands, WritesBack(c), ~stale', UNCHANGED <<holder, agent, swept, overtaken>>,
         \A d \in Commands \ {c} : command'[d] = command[d],
         command[c].read.inc # 0 =>
           agent[command[c].read.inc] = "dead" \/ holder[command[c].read.inc].pc = "gone",
         Place(c)'
  PROVE  HostKnown'
<1>1. /\ ~swept' /\ ~overtaken' /\ Shape /\ CommandShape(c) /\ Place(c)
      /\ \A h \in Commands : HolderOf(h) /\ Place(h)
  BY DEF Facts, HostKnown, OwnerInv, AnswerInv
<1>2. Waning
  BY Still
<1>3. files' = [files EXCEPT !.state = [command[c].read EXCEPT !.process = "exited"]]
  BY DEF WritesBack
<1>4. files'.dir = files.dir /\ files'.auth = files.auth /\ files'.socket = files.socket
  BY <1>1, <1>3 DEF Shape
<1>5. files'.state = [command[c].read EXCEPT !.process = "exited"]
  BY <1>1, <1>3 DEF Shape
<1>6. files'.state.inc = command[c].read.inc /\ files'.state.process = "exited"
  BY <1>1, <1>5 DEF CommandShape
<1>7. \A h \in Commands : Alive(h) => h = command[c].read.inc
  BY DEF WritesBack, Alive
<1>8. \A h \in Commands : Alive(h)' => files'.state.inc = h
  BY <1>6, <1>7 DEF Alive
<1>9. Seen(files.state)'
  BY <1>1, <1>6 DEF Seen, Place
<1>10. \A h \in Commands : Alive(h) => files'.dir
  BY <1>1, <1>4 DEF HolderOf
<1>11. \A d \in Commands \ {c} :
         command[d].type = "launch" /\ command[d].pc \notin {"none", "lock", "done"} => files'.dir
  BY <1>1, <1>4 DEF Place
<1> QED BY <1>1, <1>2, <1>4, <1>8, <1>9, <1>10, <1>11, WaningHost

LEMMA InspectKnows ==
  ASSUME Facts, NEW c \in Commands, InspectEnds(c), ~stale', UNCHANGED engine
  PROVE  HostKnown' /\ EngineKnows'
<1>1. ~swept /\ ~overtaken /\ Place(c) /\ Kind(c) /\ EngineShape
  BY DEF Facts, HostKnown, KindInv
<1>2. /\ command[c].pc \in {"running", "record"} /\ UNCHANGED <<holder, agent, swept, overtaken>>
      /\ Waning
  BY Still DEF InspectEnds, processVars
<1>3. command[c].type = "inspect"
  BY <1>1, <1>2 DEF Kind
<1>4. /\ ~(engine.pc = "launching" /\ engine.cmd = c)
      /\ ~(engine.pc = "killing" /\ engine.cmd = c)
  BY <1>1, <1>3 DEF EngineShape, Cmd
<1>5. CASE /\ UNCHANGED files
           /\ Finish(c, "running", command[c].read.inc) \/ Finish(c, "error", 0)
  BY <1>1, <1>2, <1>4, <1>5, FinishKnows DEF FilesKept
<1>6. CASE /\ command[c].pc = "record" /\ WritesBack(c)
           /\ Finish(c, "exited", command[c].read.inc)
  <2>1. Done(c, "exited", command[c].read.inc)
    BY <1>6, FinishMoves DEF Facts
  <2>2. /\ \A d \in Commands \ {c} : command'[d] = command[d]
        /\ command'[c].pc = "done" /\ command'[c].read = command[c].read
    BY <2>1 DEF Done, Moved
  <2>3. Place(c)'
    <3>1. Seen(command[c].read)'
      BY <1>1, <1>2, <2>2 DEF Place, Seen
    <3> QED BY <2>2, <3>1 DEF Place, Vacant
  <2>4. command[c].read.inc # 0 => holder[command[c].read.inc].pc = "gone"
    BY <1>1, <1>3, <1>6 DEF Place
  <2>5. HostKnown'
    BY <1>2, <1>6, <2>2, <2>3, <2>4, WritesBackKnows
  <2>6. EngineKnows'
    BY <1>2, <1>4, <2>1, EngineKeeps DEF Done
  <2> QED BY <2>5, <2>6
<1> QED BY <1>5, <1>6 DEF InspectEnds

LEMMA KillWritesKnows ==
  ASSUME Facts, NEW c \in Commands, KillWrites(c), ~stale', UNCHANGED engine
  PROVE  HostKnown' /\ EngineKnows'
<1>1. ~swept /\ ~overtaken /\ Place(c) /\ CommandShape(c) /\ EngineShape
  BY DEF Facts, HostKnown, KindInv, AnswerInv
<1>2. command[c].pc = "write" /\ UNCHANGED <<holder, agent, swept, overtaken>> /\ Waning
  BY Still DEF KillWrites, processVars
<1>3. command[c].type = "kill" /\ command[c].read.process = "exited"
  BY <1>1, <1>2 DEF CommandShape
<1>4. ~(engine.pc = "launching" /\ engine.cmd = c)
  BY <1>1, <1>3 DEF EngineShape, Cmd
<1>5. CASE UNCHANGED files /\ Finish(c, "error", 0)
  BY <1>1, <1>2, <1>4, <1>5, FinishKnows DEF FilesKept
<1>6. CASE WritesBack(c) /\ Goto(c, "term") /\ UNCHANGED launch_lock
  <2>1. Went(c, "term")
    BY <1>6, GotoMoves DEF Facts
  <2>2. /\ \A d \in Commands \ {c} : command'[d] = command[d]
        /\ command'[c].pc = "term" /\ command'[c].read = command[c].read
        /\ command'[c].type = "kill"
    BY <1>3, <2>1 DEF Went, Moved
  <2>3. Place(c)'
    <3>1. Seen(command[c].read)'
      BY <1>1, <1>2, <2>2 DEF Place, Seen
    <3> QED BY <2>2, <3>1 DEF Place
  <2>4. command[c].read.inc # 0 =>
          agent[command[c].read.inc] = "dead" \/ holder[command[c].read.inc].pc = "gone"
    BY <1>1, <1>3 DEF Place, Seen
  <2>5. HostKnown'
    BY <1>2, <1>6, <2>2, <2>3, <2>4, WritesBackKnows
  <2>6. EngineKnows'
    BY <1>2, <2>1, EngineKeeps DEF Went
  <2> QED BY <2>5, <2>6
<1> QED BY <1>5, <1>6 DEF KillWrites

\* A launch that starts its Holder has found nobody, and is the one the Engine
\* waits for: another one would have been lost.
LEMMA StartKnows ==
  ASSUME Facts, NEW c \in Commands, StartHolder(c), ~lost', UNCHANGED engine
  PROVE  HostKnown' /\ EngineKnows'
<1>1. /\ ~swept /\ ~overtaken /\ Place(c) /\ CommandShape(c) /\ LaunchOf(c) /\ Shape /\ EngineShape
      /\ HolderOf(c) /\ Newest(c) /\ Seen(files.state) /\ lost \in BOOLEAN /\ HostShape
  BY DEF Facts, HostKnown, AnswerInv, OwnerInv, KindInv, EngineKnows
<1>2. command[c].pc = "start" /\ UNCHANGED <<agent, swept, overtaken>>
  BY DEF StartHolder
<1>3. command[c].type = "launch" /\ launch_lock = c
  BY <1>1, <1>2 DEF CommandShape, LaunchOf
<1>4. Nobody /\ files.dir /\ holder[c].pc = "none"
  BY <1>1, <1>2, <1>3 DEF Place, Vacant, LaunchOf
<1>5. engine.pc = "launching" /\ engine.cmd = c
  <2>1. ~(\E d \in Commands : d > c /\ command[d].type = "launch")
    BY <1>1 DEF StartHolder
  <2> QED BY <1>1, <1>2, <1>3, <2>1 DEF Newest
<1>6. CASE Finish(c, "error", 0) /\ UNCHANGED <<files, holder>>
  <2>1. Waning /\ FilesKept
    BY <1>2, <1>6, Still DEF FilesKept
  <2>2. \A h \in Commands : ~Unended(h)'
    BY <1>4, <2>1, WaningHolders DEF Nobody, Unended
  <2> QED BY <1>1, <1>2, <1>5, <1>6, <2>1, <2>2, FinishKnows
<1>7. CASE /\ files' = [files EXCEPT !.auth = command[c].token]
           /\ holder' = [holder EXCEPT ![c].pc = "auth", ![c].token = command[c].token]
           /\ Goto(c, "wait") /\ UNCHANGED launch_lock
  <2>1. /\ files'.dir = files.dir /\ files'.auth = command[c].token /\ files'.state = files.state
    BY <1>1, <1>7 DEF Shape
  <2>2. /\ holder'[c].pc = "auth" /\ holder'[c].token = command[c].token
        /\ \A h \in Commands \ {c} : holder'[h] = holder[h]
    BY <1>1, <1>7 DEF Shape
  <2>3. Went(c, "wait")
    BY <1>7, GotoMoves DEF Facts
  <2>4. /\ \A d \in Commands \ {c} : command'[d] = command[d]
        /\ command'[c].pc = "wait" /\ command'[c].read = command[c].read
        /\ \A d \in Commands : command'[d].type = command[d].type
    BY <2>3 DEF Went, Moved
  <2>5. \A h \in Commands : Alive(h)' => h = c
    BY <1>4, <2>2 DEF Nobody, Alive
  <2>6. ASSUME NEW h \in Commands PROVE HolderOf(h)'
    <3>1. CASE h = c
      BY <1>1, <1>2, <1>4, <2>1, <2>2, <2>4, <3>1 DEF HolderOf, Unspawned
    <3>2. CASE h # c
      <4>1. HolderOf(h) /\ ~Alive(h)'
        BY <2>5, <3>2 DEF Facts, HostKnown
      <4> QED BY <1>2, <2>2, <3>2, <4>1 DEF HolderOf, Alive
    <3> QED BY <3>1, <3>2
  <2>7. ASSUME NEW inc, inc # 0, inc \in Commands,
               holder[inc].pc \in {"running", "exited", "gone"}
        PROVE  holder'[inc] = holder[inc]
    BY <1>4, <2>2, <2>7
  <2>8. Seen(files.state)'
    <3>1. files.state.inc # 0 => files.state.inc \in Commands
      BY <1>1 DEF HostShape, Started
    <3> QED BY <1>1, <1>2, <2>1, <2>7, <3>1 DEF Seen
  <2>9. ASSUME NEW d \in Commands PROVE Seen(command[d].read)' /\ Place(d)
    <3>1. Place(d) /\ LaunchOf(d)
      BY DEF Facts, HostKnown, AnswerInv
    <3>2. command[d].read.inc # 0 => command[d].read.inc \in Commands
      BY <3>1 DEF LaunchOf, Started
    <3>3. command'[d].read = command[d].read
      BY <2>4
    <3> QED BY <1>2, <2>7, <3>1, <3>2, <3>3 DEF Place, Seen
  <2>10. Place(c)'
    BY <1>4, <2>1, <2>4, <2>5, <2>9 DEF Place, Vacant
  <2>11. ASSUME NEW d \in Commands \ {c} PROVE Place(d)' /\ command[d].pc # "wait"
    <3>1. /\ command'[d] = command[d] /\ LaunchOf(d) /\ CommandShape(d) /\ Kind(d)
          /\ Place(d) /\ Seen(command[d].read)'
      BY <2>4, <2>9 DEF Facts, AnswerInv, KindInv
    <3>2. command[d].type \in {"launch", "gc"} => command[d].pc \in {"none", "lock", "done"}
      BY <1>3, <3>1 DEF LaunchOf, Kind
    <3>3. command[d].pc # "wait"
      BY <3>1, <3>2 DEF CommandShape
    <3>4. command[d].type = "inspect" /\ command[d].pc \in {"release", "record"} =>
            command[d].read.inc = 0 \/ holder'[command[d].read.inc].pc = "gone"
      <4>1. command[d].read.inc # 0 => command[d].read.inc \in Commands
        BY <3>1 DEF LaunchOf, Started
      <4> QED BY <2>7, <3>1, <4>1 DEF Place
    <3> QED BY <3>1, <3>2, <3>3, <3>4 DEF Place, Vacant
  <2>12. HostKnown'
    BY <1>1, <1>2, <2>6, <2>8, <2>10, <2>11 DEF HostKnown
  <2>13. ASSUME NEW d \in Commands PROVE Newest(d)' /\ Waiting(d)' /\ Known(d)'
    <3>1. Newest(d)
      BY DEF Facts, EngineKnows
    <3>2. Newest(d)'
      BY <1>5, <2>4, <3>1 DEF Newest
    <3>3. Waiting(d)'
      BY <1>5, <2>4, <2>11 DEF Waiting
    <3>4. Known(d)'
      <4>1. engine.token = command[c].token
        BY <1>1, <1>5 DEF EngineShape, Cmd
      <4> QED BY <1>5, <2>2, <2>5, <4>1 DEF Known, Unended
    <3> QED BY <3>2, <3>3, <3>4
  <2>14. Telling'
    BY <1>5, <2>4 DEF Telling, Cmd
  <2> QED BY <2>12, <2>13, <2>14 DEF EngineKnows
<1> QED BY <1>6, <1>7 DEF StartHolder

\* A step of no command and not of the Engine.
LEMMA EngineRests ==
  ASSUME Facts, UNCHANGED <<engine, command>>,
         \A h \in Commands :
           /\ Alive(h)' => Alive(h)
           /\ Unended(h)' => Unended(h) /\ holder'[h].token = holder[h].token
  PROVE  EngineKnows'
<1>1. Telling /\ \A d \in Commands : Newest(d) /\ Waiting(d) /\ Known(d)
  BY DEF Facts, EngineKnows
<1>2. \A d \in Commands : Newest(d)' /\ Waiting(d)'
  BY <1>1 DEF Newest, Waiting, Cmd
<1>3. \A d \in Commands : Known(d)'
  BY <1>1 DEF Known
<1>4. Nobody => Nobody'
  BY DEF Nobody
<1>5. Telling'
  BY <1>1, <1>4 DEF Telling, Cmd
<1> QED BY <1>2, <1>3, <1>5 DEF EngineKnows

\* Holders and Agents that end.
LEMMA WaningKnows ==
  ASSUME Facts, Waning, UNCHANGED <<engine, command, files, swept, overtaken>>
  PROVE  HostKnown' /\ EngineKnows'
<1>1. EngineKnows'
  BY WaningHolders, EngineRests
<1>2. CASE Commands = {}
  <2>1. ~swept' /\ ~overtaken' /\ Seen(files.state)
    BY DEF Facts, HostKnown
  <2>2. files.state.inc = 0
    BY <1>2 DEF Facts, AnswerInv, HostShape, Started
  <2> QED BY <1>1, <1>2, <2>1, <2>2 DEF HostKnown, Seen
<1>3. ASSUME NEW c \in Commands PROVE HostKnown'
  <2>1. Place(c)' /\ ~swept' /\ ~overtaken'
    BY WaningPlace DEF Facts, HostKnown, Place
  <2>2. command'[c].pc = "done" => command[c].pc # "wait"
    OBVIOUS
  <2> QED BY <2>1, <2>2, HostKeeps DEF FilesKept
<1> QED BY <1>1, <1>2, <1>3

\* A Holder that goes on: it is the only one that is alive.
LEMMA HolderGoes ==
  ASSUME Facts, NEW h \in Commands, Alive(h), UNCHANGED <<command, engine, swept, overtaken>>,
         \A g \in Commands \ {h} : holder'[g] = holder[g] /\ agent'[g] = agent[g],
         holder'[h].token = holder[h].token, holder'[h].pc # "none",
         holder[h].pc \in {"running", "exited"} =>
           holder'[h].pc \in {"running", "exited", "gone"} /\ agent'[h] = agent[h],
         agent'[h] # "dead" => agent[h] # "dead",
         files.dir => files'.dir,
         \/ files'.state = files.state
         \/ /\ files'.state.inc = h /\ holder'[h].pc \in {"running", "exited"}
            /\ files'.state.process # "running" => agent'[h] = "dead",
         holder'[h].pc \in Unspawned => agent'[h] = "none",
         holder'[h].pc = "exited" => agent'[h] = "dead",
         holder'[h].pc \in {"spawn", "guard", "write", "running", "exited"} => files'.socket # 0,
         holder'[h].pc # "gone" => files'.auth = holder[h].token
  PROVE  HostKnown' /\ EngineKnows'
<1>1. /\ ~swept /\ ~overtaken /\ Seen(files.state) /\ HolderOf(h) /\ HostShape
      /\ \A g, k \in Commands : Alive(g) /\ Alive(k) => g = k
  BY DEF Facts, HostKnown, AnswerInv, OneAlive
<1>2. \A g \in Commands :
        /\ Alive(g)' => Alive(g)
        /\ Unended(g)' => Unended(g) /\ holder'[g].token = holder[g].token
  BY DEF Alive, Unended
<1>3. EngineKnows'
  BY <1>2, EngineRests
<1>4. ASSUME NEW inc, NEW process, inc # 0 => inc \in Commands,
             inc # 0 =>
               /\ holder[inc].pc \in {"running", "exited", "gone"}
               /\ process # "running" => agent[inc] = "dead" \/ holder[inc].pc = "gone"
      PROVE  inc # 0 =>
               /\ holder'[inc].pc \in {"running", "exited", "gone"}
               /\ process # "running" => agent'[inc] = "dead" \/ holder'[inc].pc = "gone"
  <2>1. CASE inc = h
    BY <1>4, <2>1 DEF Alive
  <2>2. CASE inc # h
    BY <1>4, <2>2
  <2> QED BY <2>1, <2>2
<1>5. Seen(files.state)'
  <2>1. files.state.inc # 0 => files.state.inc \in Commands
    BY <1>1 DEF HostShape, Started
  <2>2. CASE files'.state = files.state
    BY <1>1, <1>4, <2>1, <2>2 DEF Seen
  <2>3. CASE files'.state # files.state
    BY <2>3 DEF Seen
  <2> QED BY <2>2, <2>3
<1>6. ASSUME NEW g \in Commands PROVE HolderOf(g)'
  <2>1. CASE g = h
    <3>1. Alive(h)' => files'.dir /\ files'.auth = holder'[h].token
      BY <1>1 DEF HolderOf, Alive
    <3>2. command'[h].pc = "done" => files'.state.inc = h
      BY <1>1 DEF HolderOf
    <3> QED BY <2>1, <3>1, <3>2 DEF HolderOf
  <2>2. CASE g # h
    <3>1. HolderOf(g) /\ ~Alive(g) /\ holder'[g] = holder[g] /\ agent'[g] = agent[g]
      BY <1>1, <2>2 DEF Facts, HostKnown
    <3> QED BY <3>1 DEF HolderOf, Alive
  <2> QED BY <2>1, <2>2
<1>7. ASSUME NEW d \in Commands PROVE Place(d)'
  <2>1. Place(d) /\ LaunchOf(d)
    BY DEF Facts, HostKnown, AnswerInv
  <2>2. command[d].read.inc # 0 => command[d].read.inc \in Commands
    BY <2>1 DEF LaunchOf, Started
  <2>3. Seen(command[d].read)'
    <3>1. command[d].read.inc # 0 =>
            /\ holder[command[d].read.inc].pc \in {"running", "exited", "gone"}
            /\ command[d].read.process # "running" =>
                 agent[command[d].read.inc] = "dead" \/ holder[command[d].read.inc].pc = "gone"
      BY <2>1 DEF Place, Seen
    <3>2. command[d].read.inc # 0 =>
            /\ holder'[command[d].read.inc].pc \in {"running", "exited", "gone"}
            /\ command[d].read.process # "running" =>
                 agent'[command[d].read.inc] = "dead" \/ holder'[command[d].read.inc].pc = "gone"
      BY <1>4, <2>2, <3>1
    <3> QED BY <3>2 DEF Seen
  <2>4. Nobody => Nobody'
    BY <1>2 DEF Nobody
  <2>5. command[d].type = "inspect" /\ command[d].pc \in {"release", "record"} =>
          command[d].read.inc = 0 \/ holder'[command[d].read.inc].pc = "gone"
    BY <2>1, <2>2 DEF Place, Alive
  <2> QED BY <1>2, <2>1, <2>3, <2>4, <2>5 DEF Place
<1>8. HostKnown'
  BY <1>1, <1>5, <1>6, <1>7 DEF HostKnown
<1> QED BY <1>3, <1>8

LEMMA HolderKnows ==
  ASSUME Facts, HolderStep PROVE HostKnown' /\ EngineKnows'
<1>1. PICK h \in Commands :
        \/ HolderAuth(h) \/ OpenLock(h) \/ Flock(h) \/ ChmodLock(h) \/ Bind(h)
        \/ SpawnAgent(h) \/ SpawnGuard(h) \/ WriteState(h) \/ RecordExit(h)
  BY DEF HolderStep
<1>2. UNCHANGED <<command, engine, swept, overtaken>>
  BY DEF HolderStep, historyVars
<1>3. Shape /\ HolderOf(h) /\ DOMAIN agent = Commands
  BY DEF Facts, OwnerInv, HostKnown, KindInv
<1>4. \A pc : /\ \A g \in Commands \ {h} : At(h, pc)[g] = holder[g]
              /\ At(h, pc)[h].pc = pc /\ At(h, pc)[h].token = holder[h].token
  BY <1>3 DEF Shape, At
<1>5. Ended(h) = At(h, "gone")
  BY DEF Ended, At
<1>6. CASE HolderAuth(h)
  <2>1. Alive(h) /\ holder[h].pc = "auth" /\ UNCHANGED agent
    BY <1>6 DEF HolderAuth, Alive
  <2>2. CASE /\ files' = [files EXCEPT !.dir = TRUE, !.auth = holder[h].token]
             /\ holder' = At(h, "open")
    <3>1. files'.dir /\ files'.auth = holder[h].token /\ files'.state = files.state
      BY <1>3, <2>2 DEF Shape
    <3>2. agent[h] = "none"
      BY <1>3, <2>1 DEF HolderOf, Unspawned
    <3> QED BY <1>2, <1>4, <2>1, <2>2, <3>1, <3>2, HolderGoes DEF Unspawned
  <2>3. CASE holder' = Ended(h) /\ UNCHANGED files
    BY <1>2, <1>4, <1>5, <2>1, <2>3, HolderGoes DEF Unspawned
  <2> QED BY <1>6, <2>2, <2>3 DEF HolderAuth
<1>7. CASE OpenLock(h)
  <2>1. Alive(h) /\ holder[h].pc = "open" /\ UNCHANGED agent
    BY <1>7 DEF OpenLock, Alive
  <2>2. CASE /\ files' = LockOpened
             /\ holder' = [holder EXCEPT ![h].pc = "flock", ![h].inode = files'.lock]
    <3>1. /\ files'.dir = files.dir /\ files'.auth = files.auth /\ files'.state = files.state
      BY <1>3, <2>2 DEF Shape, LockOpened
    <3>2. /\ \A g \in Commands \ {h} : holder'[g] = holder[g]
          /\ holder'[h].pc = "flock" /\ holder'[h].token = holder[h].token
      BY <1>3, <2>2 DEF Shape
    <3>3. agent[h] = "none" /\ files.auth = holder[h].token
      BY <1>3, <2>1 DEF HolderOf, Unspawned
    <3> QED BY <1>2, <2>1, <3>1, <3>2, <3>3, HolderGoes DEF Unspawned
  <2>3. CASE holder' = Ended(h) /\ UNCHANGED files
    BY <1>2, <1>4, <1>5, <2>1, <2>3, HolderGoes DEF Unspawned
  <2> QED BY <1>7, <2>2, <2>3 DEF OpenLock
<1>8. CASE Flock(h) \/ ChmodLock(h)
  <2>1. /\ Alive(h) /\ holder[h].pc \in {"flock", "chmod"} /\ UNCHANGED <<files, agent>>
        /\ \E pc \in {"chmod", "bind", "gone"} : holder' = At(h, pc)
    BY <1>5, <1>8 DEF Flock, ChmodLock, Alive
  <2>2. agent[h] = "none" /\ files.auth = holder[h].token
    BY <1>3, <2>1 DEF HolderOf, Unspawned
  <2> QED BY <1>2, <1>4, <2>1, <2>2, HolderGoes DEF Unspawned
<1>9. CASE Bind(h)
  <2>1. Alive(h) /\ holder[h].pc = "bind" /\ UNCHANGED agent
    BY <1>9 DEF Bind, Alive
  <2>2. agent[h] = "none" /\ files.auth = holder[h].token
    BY <1>3, <2>1 DEF HolderOf, Unspawned
  <2>3. CASE files' = [files EXCEPT !.socket = h] /\ holder' = At(h, "spawn")
    <3>1. /\ files'.dir = files.dir /\ files'.auth = files.auth /\ files'.state = files.state
          /\ files'.socket # 0
      BY <1>3, <2>3 DEF Shape, Commands
    <3> QED BY <1>2, <1>4, <2>1, <2>2, <2>3, <3>1, HolderGoes DEF Unspawned
  <2>4. CASE holder' = Ended(h) /\ UNCHANGED files
    BY <1>2, <1>4, <1>5, <2>1, <2>2, <2>4, HolderGoes DEF Unspawned
  <2> QED BY <1>9, <2>3, <2>4 DEF Bind
<1>10. CASE SpawnAgent(h)
  <2>1. /\ Alive(h) /\ holder[h].pc = "spawn" /\ UNCHANGED files /\ holder' = At(h, "guard")
        /\ agent' = [agent EXCEPT ![h] = "running"]
    BY <1>10 DEF SpawnAgent, Alive
  <2>2. agent[h] = "none" /\ files.auth = holder[h].token /\ files.socket # 0
    BY <1>3, <2>1 DEF HolderOf, Unspawned
  <2>3. agent'[h] = "running" /\ \A g \in Commands \ {h} : agent'[g] = agent[g]
    BY <1>3, <2>1
  <2> QED BY <1>2, <1>4, <2>1, <2>2, <2>3, HolderGoes DEF Unspawned
<1>11. CASE SpawnGuard(h)
  <2>1. Alive(h) /\ holder[h].pc = "guard" /\ UNCHANGED <<files, agent>> /\ holder' = At(h, "write")
    BY <1>11 DEF SpawnGuard, Alive
  <2>2. files.auth = holder[h].token /\ files.socket # 0
    BY <1>3, <2>1 DEF HolderOf
  <2> QED BY <1>2, <1>4, <2>1, <2>2, HolderGoes DEF Unspawned
<1>12. CASE WriteState(h) \/ RecordExit(h)
  <2>1. /\ Alive(h) /\ holder[h].pc \in {"write", "running", "exited"} /\ UNCHANGED agent
    BY <1>12 DEF WriteState, RecordExit, Alive
  <2>2. /\ files.auth = holder[h].token /\ files.socket # 0
        /\ holder[h].pc = "exited" => agent[h] = "dead"
    BY <1>3, <2>1 DEF HolderOf
  <2>3. CASE holder' = Ended(h) /\ UNCHANGED files
    BY <1>2, <1>4, <1>5, <2>1, <2>3, HolderGoes DEF Unspawned
  <2>4. ASSUME NEW process, NEW pc \in {"running", "exited"},
               files' = [files EXCEPT !.state = [inc |-> h, process |-> process]],
               holder[h].pc = "exited" => pc = "exited",
               pc = "exited" => agent[h] = "dead", process # "running" => pc = "exited",
               \A g \in Commands \ {h} : holder'[g] = holder[g],
               holder'[h].pc = pc, holder'[h].token = holder[h].token
        PROVE  HostKnown' /\ EngineKnows'
    <3>1. /\ files'.dir = files.dir /\ files'.auth = files.auth /\ files'.socket = files.socket
          /\ files'.state = [inc |-> h, process |-> process]
      BY <1>3, <2>4 DEF Shape
    <3>2. files'.state.inc = h /\ files'.state.process = process
      BY <3>1
    <3> QED BY <1>2, <2>1, <2>2, <2>4, <3>1, <3>2, HolderGoes DEF Unspawned
  <2>5. CASE WriteState(h) /\ files.dir
    <3>1. CASE holder[h].pc = "write"
      BY <1>4, <2>4, <2>5, <3>1 DEF WriteState
    <3>2. CASE holder[h].pc \in {"running", "exited"}
      BY <2>2, <2>4, <2>5, <3>2 DEF WriteState
    <3> QED BY <2>1, <3>1, <3>2
  <2>6. CASE RecordExit(h) /\ files.dir
    BY <1>4, <2>4, <2>6 DEF RecordExit
  <2> QED BY <1>12, <2>3, <2>5, <2>6 DEF WriteState, RecordExit
<1> QED BY <1>1, <1>6, <1>7, <1>8, <1>9, <1>10, <1>11, <1>12

\* A command that is started knows nothing.
LEMMA BeginHost ==
  ASSUME Facts, NEW type \in {"launch", "inspect", "kill", "gc"}, NEW token, NEW inc,
         Begun(type, token, inc), UNCHANGED <<files, holder, agent, swept, overtaken>>
  PROVE  HostKnown'
<1>1. PICK c \in Commands : c = counts.commands + 1
  BY DEF Begun
<1>2. /\ \A d \in Commands \ {c} : command'[d] = command[d]
      /\ command'[c].pc = Entry(type) /\ command'[c].read = NoState
  BY <1>1 DEF Begun
<1>3. Entry(type) \in {"lock", "authenticate"}
  BY DEF Entry
<1>4. ~swept' /\ ~overtaken'
  BY DEF Facts, HostKnown
<1>5. Waning /\ FilesKept
  BY Still DEF FilesKept
<1>6. Place(c)'
  <2>1. command[c].type' = "launch" => command'[c].pc = "lock"
    BY <1>1, <1>2 DEF Begun, Entry
  <2> QED BY <1>2, <1>3, <2>1 DEF Place, Vacant, Seen, NoState
<1> QED BY <1>2, <1>3, <1>4, <1>5, <1>6, HostKeeps

\* The Engine waits for no launch, or has its answer.
Settling == engine.pc # "launching" \/ (Cmd.pc = "done" /\ Cmd.answer \in {"ok", "error"})

\* Then no launch waits for a Holder, and one that still runs is not the last.
LEMMA SettlingLaunches ==
  ASSUME Facts, Settling, NEW d \in Commands
  PROVE  /\ command[d].pc # "wait"
         /\ command[d].type = "launch" /\ command[d].pc # "done" =>
              \E e \in Commands : e > d /\ command[e].type = "launch"
<1>1. Newest(d) /\ Waiting(d)
  BY DEF Facts, EngineKnows
<1> QED BY <1>1 DEF Newest, Waiting, Settling, Cmd

\* The Engine turns to nothing, and knows whom it is bound to.
LEMMA EngineStops ==
  ASSUME Facts, Settling, UNCHANGED <<command, holder, agent>>,
         engine'.pc \notin {"launching", "killing"},
         \A h \in Commands : Unended(h) => h = engine'.binding
  PROVE  EngineKnows'
<1>1. \A d \in Commands : Newest(d)' /\ Waiting(d)'
  BY SettlingLaunches DEF Newest, Waiting
<1>2. \A h \in Commands : Known(h)'
  BY DEF Known, Unended, Alive
<1>3. Telling'
  BY DEF Telling
<1> QED BY <1>1, <1>2, <1>3 DEF EngineKnows

\* The commands there were before one is started.
LEMMA BeginLaunches ==
  ASSUME Facts, NEW type \in {"launch", "inspect", "kill", "gc"}, NEW token, NEW inc,
         Begun(type, token, inc), NEW d \in Commands, d # counts.commands + 1
  PROVE  /\ command'[d] = command[d]
         /\ (\E e \in Commands : e > d /\ command[e].type = "launch") =>
              \E e \in Commands : e > d /\ command'[e].type = "launch"
         /\ command[d].pc # "none" => counts.commands + 1 > d
<1>1. command'[d] = command[d]
  BY DEF Begun
<1>2. ASSUME NEW e \in Commands, e > d, command[e].type = "launch"
      PROVE  command'[e].type = "launch"
  <2>1. e # counts.commands + 1
    BY <1>2 DEF Begun, Facts, KindInv, Kind
  <2> QED BY <1>2, <2>1 DEF Begun
<1>3. command[d].pc # "none" => counts.commands + 1 > d
  <2>1. CommandShape(d) /\ counts.commands \in Nat
    BY DEF Facts, AnswerInv, HostShape
  <2> QED BY <2>1 DEF CommandShape, Commands
<1> QED BY <1>1, <1>2, <1>3

\* The Engine starts a launch.
LEMMA EngineLaunches ==
  ASSUME Facts, NEW token, Begun("launch", token, 0), UNCHANGED <<holder, agent>>,
         engine'.pc = "launching", engine'.cmd = counts.commands + 1,
         \A h \in Commands : Unended(h) =>
           engine'.binding = h \/ engine'.token = holder[h].token
  PROVE  EngineKnows'
<1>1. PICK c \in Commands : c = counts.commands + 1
  BY DEF Begun
<1>2. command'[c].pc = "lock" /\ command'[c].type = "launch"
  BY <1>1 DEF Begun, Entry
<1>3. ASSUME NEW d \in Commands PROVE Newest(d)' /\ Waiting(d)'
  <2>1. CASE d = c
    BY <1>1, <1>2, <2>1 DEF Newest, Waiting
  <2>2. CASE d # c
    <3>1. /\ command'[d] = command[d] /\ Kind(d)
          /\ command[d].pc # "none" => c > d
      BY <1>1, <2>2, BeginLaunches DEF Facts, KindInv
    <3> QED BY <1>1, <1>2, <3>1 DEF Newest, Waiting, Cmd, Kind
  <2> QED BY <2>1, <2>2
<1>4. \A h \in Commands : Known(h)'
  BY DEF Known, Unended, Alive
<1>5. Telling'
  BY <1>1, <1>2 DEF Telling, Cmd
<1> QED BY <1>3, <1>4, <1>5 DEF EngineKnows

\* The Engine starts a kill or an inspection.
LEMMA EngineAsks ==
  ASSUME Facts, Settling, NEW type \in {"inspect", "kill"}, NEW token, NEW inc,
         Begun(type, token, inc), UNCHANGED <<holder, agent>>,
         engine'.pc \in {"killing", "restoring"}, engine'.cmd = counts.commands + 1,
         \A h \in Commands : Unended(h) =>
           engine'.binding = h \/ (engine'.pc = "killing" /\ engine'.removing)
  PROVE  EngineKnows'
<1>1. PICK c \in Commands : c = counts.commands + 1
  BY DEF Begun
<1>2. command'[c].pc = "authenticate" /\ command'[c].type = type
  BY <1>1 DEF Begun, Entry
<1>3. ASSUME NEW d \in Commands PROVE Newest(d)' /\ Waiting(d)'
  <2>1. CASE d = c
    BY <1>2, <2>1 DEF Newest, Waiting
  <2>2. CASE d # c
    <3>1. /\ command'[d] = command[d]
          /\ (\E e \in Commands : e > d /\ command[e].type = "launch") =>
               \E e \in Commands : e > d /\ command'[e].type = "launch"
      BY <1>1, <2>2, BeginLaunches
    <3> QED BY <3>1, SettlingLaunches DEF Newest, Waiting
  <2> QED BY <2>1, <2>2
<1>4. \A h \in Commands : Known(h)'
  BY DEF Known, Unended, Alive
<1>5. Telling'
  BY <1>1, <1>2 DEF Telling, Cmd
<1> QED BY <1>3, <1>4, <1>5 DEF EngineKnows

\* A command is started that the Engine does not wait for.
LEMMA EngineWaitsOn ==
  ASSUME Facts, NEW type \in {"inspect", "gc"}, NEW token, NEW inc,
         Begun(type, token, inc), UNCHANGED <<holder, agent, engine>>
  PROVE  EngineKnows'
<1>1. PICK c \in Commands : c = counts.commands + 1
  BY DEF Begun
<1>2. /\ command'[c].pc \in {"lock", "authenticate"} /\ command'[c].type = type
      /\ \A d \in Commands \ {c} : command'[d] = command[d]
  BY <1>1 DEF Begun, Entry
<1>3. engine.pc \in {"launching", "killing"} => command'[engine.cmd] = command[engine.cmd]
  <2>1. EngineShape /\ counts.commands \in Nat
    BY DEF Facts, KindInv, AnswerInv, HostShape
  <2> QED BY <1>1, <1>2, <2>1 DEF EngineShape, Commands
<1>4. ASSUME NEW d \in Commands PROVE Newest(d)' /\ Waiting(d)'
  <2>1. CASE d = c
    BY <1>2, <2>1 DEF Newest, Waiting
  <2>2. CASE d # c
    <3>1. /\ command'[d] = command[d] /\ Newest(d) /\ Waiting(d)
          /\ (\E e \in Commands : e > d /\ command[e].type = "launch") =>
               \E e \in Commands : e > d /\ command'[e].type = "launch"
      BY <1>1, <2>2, BeginLaunches DEF Facts, EngineKnows
    <3>2. Newest(d)'
      BY <3>1 DEF Newest
    <3>3. Waiting(d)'
      BY <1>3, <3>1 DEF Waiting, Cmd
    <3> QED BY <3>2, <3>3
  <2> QED BY <2>1, <2>2
<1>5. \A h \in Commands : Known(h)'
  BY DEF Known, Unended, Alive, Facts, EngineKnows
<1>6. Telling'
  <2>1. Telling
    BY DEF Facts, EngineKnows
  <2>2. Nobody' <=> Nobody
    BY DEF Nobody, Alive
  <2>3. \A h : Unended(h)' <=> Unended(h)
    BY DEF Unended, Alive
  <2> QED BY <1>3, <2>1, <2>2, <2>3 DEF Telling, Cmd
<1> QED BY <1>4, <1>5, <1>6 DEF EngineKnows

LEMMA EngineStepKnows ==
  ASSUME Facts, EngineStep, ~lost' PROVE HostKnown' /\ EngineKnows'
<1>1. UNCHANGED <<files, holder, agent, swept, overtaken>>
  BY DEF EngineStep, hostVars, processVars, Launch, Launched, LaunchedInVain, Retry, Kill, Killed,
         Inspect, Restore, Restored, Gc, historyVars
<1>2. /\ EngineShape /\ Telling /\ lost \in BOOLEAN /\ ~swept' /\ ~overtaken'
      /\ \A h \in Commands : Known(h)
      /\ DOMAIN engine = {"pc", "token", "cmd", "attempt", "binding", "deaf", "removing"}
  BY <1>1 DEF Facts, KindInv, EngineKnows, HostKnown, EngineShape
<1>3. UNCHANGED command => HostKnown'
  <2>1. Waning
    BY <1>1, Still
  <2>2. HostKnown
    BY DEF Facts
  <2> QED BY <1>1, <1>2, <2>2 DEF HostKnown, HolderOf, Place, Seen, Nobody, Alive
<1>4. ASSUME NEW type \in {"launch", "inspect", "kill", "gc"}, NEW token, NEW inc, Run(type, token, inc)
      PROVE  Begun(type, token, inc) /\ HostKnown'
  BY <1>1, <1>4, RunBegins, BeginHost DEF Facts
<1>5. ASSUME NEW pc
      PROVE  /\ Waits(pc).pc = pc /\ Waits(pc).cmd = counts.commands + 1
             /\ Waits(pc).token = engine.token /\ Waits(pc).binding = engine.binding
             /\ DOMAIN Waits(pc) = DOMAIN engine
  BY <1>2 DEF Waits
<1>6. ASSUME engine.pc \notin {"launching", "killing"}
      PROVE  Settling /\ \A h \in Commands : Unended(h) => h = engine.binding
  BY <1>2, <1>6 DEF Settling, Known
<1>7. ASSUME NEW pc, Answered(pc), Answer # "none"
      PROVE  engine.pc = pc /\ Cmd.pc = "done" /\ Cmd.answer = Answer
  BY <1>7 DEF Answered, Answer, Cmd
<1>8. CASE Launch
  <2>1. engine.pc = "idle" /\ Begun("launch", counts.launches + 1, 0) /\ HostKnown'
    BY <1>4, <1>8 DEF Launch
  <2>2. /\ engine'.pc = "launching" /\ engine'.cmd = counts.commands + 1
        /\ engine'.binding = engine.binding
    BY <1>2, <1>5, <1>8 DEF Launch
  <2> QED BY <1>1, <1>6, <2>1, <2>2, EngineLaunches
<1>9. CASE Launched
  <2>1. engine.pc = "launching" /\ Cmd.pc = "done" /\ Cmd.answer = "ok"
    BY <1>7, <1>9 DEF Launched
  <2>2. engine'.pc = "bound" /\ engine'.binding = Cmd.inc /\ UNCHANGED command
    BY <1>2, <1>9 DEF Launched, Cmd
  <2>3. Settling /\ \A h \in Commands : Unended(h) => h = engine'.binding
    BY <1>2, <2>1, <2>2 DEF Settling, Telling
  <2> QED BY <1>1, <1>3, <2>2, <2>3, EngineStops
<1>10. CASE LaunchedInVain
  <2>1. engine.pc = "launching" /\ Cmd.pc = "done" /\ Cmd.answer = "ok"
    BY <1>7, <1>10 DEF LaunchedInVain
  <2>2. Begun("kill", engine.token, command[engine.cmd].inc) /\ HostKnown'
    BY <1>4, <1>10 DEF LaunchedInVain
  <2>3. engine'.pc = "killing" /\ engine'.cmd = counts.commands + 1 /\ engine'.removing
    BY <1>2, <1>5, <1>10 DEF LaunchedInVain
  <2>4. Settling
    BY <2>1 DEF Settling
  <2> QED BY <1>1, <2>2, <2>3, <2>4, EngineAsks
<1>11. CASE Retry
  <2>1. engine.pc = "launching" /\ Answered("launching") /\ Answer # "ok"
    BY <1>11 DEF Retry, Answered
  <2>2. CASE /\ Run("launch", engine.token, 0)
             /\ engine' = [Waits("launching") EXCEPT !.attempt = 2]
    <3>1. Begun("launch", engine.token, 0) /\ HostKnown'
      BY <1>4, <2>2
    <3>2. /\ engine'.pc = "launching" /\ engine'.cmd = counts.commands + 1
          /\ engine'.binding = engine.binding /\ engine'.token = engine.token
      BY <1>2, <1>5, <2>2
    <3>3. \A h \in Commands : Unended(h) =>
            engine.binding = h \/ engine.token = holder[h].token
      BY <1>2, <2>1 DEF Known
    <3> QED BY <1>1, <3>1, <3>2, <3>3, EngineLaunches
  <2>3. CASE /\ engine' = [engine EXCEPT !.pc = "idle"] /\ UNCHANGED command
             /\ lost' = (lost \/ Answer \in {"none", "busy"})
    <3>1. Answer \notin {"none", "busy"}
      BY <1>2, <2>3
    <3>2. Cmd.pc = "done" /\ Cmd.answer = Answer
      BY <1>7, <2>1, <3>1
    <3>3. Answer = "error"
      <4>1. engine.cmd \in Commands /\ Cmd.type = "launch"
        BY <1>2, <2>1 DEF EngineShape
      <4>2. Kind(engine.cmd)
        BY <4>1 DEF Facts, KindInv
      <4>3. Cmd.answer \in {"ok", "error", "busy", "none"}
        BY <3>2, <4>1, <4>2 DEF Kind, Cmd
      <4> QED BY <2>1, <3>1, <3>2, <4>3
    <3>4. Settling /\ \A h \in Commands : Unended(h) => h = engine.binding
      BY <1>2, <2>1, <3>2, <3>3 DEF Settling, Telling
    <3>5. engine'.pc = "idle" /\ engine'.binding = engine.binding
      BY <1>2, <2>3
    <3> QED BY <1>1, <1>3, <2>3, <3>4, <3>5, EngineStops
  <2> QED BY <1>11, <2>2, <2>3 DEF Retry
<1>12. CASE Kill
  <2>1. engine.pc = "bound" /\ Begun("kill", BoundToken, engine.binding) /\ HostKnown'
    BY <1>4, <1>12 DEF Kill
  <2>2. /\ engine'.pc = "killing" /\ engine'.cmd = counts.commands + 1
        /\ engine'.binding = engine.binding
    BY <1>2, <1>5, <1>12 DEF Kill
  <2> QED BY <1>1, <1>6, <2>1, <2>2, EngineAsks
<1>13. CASE Killed
  <2>1. Answered("killing") /\ engine.pc = "killing" /\ UNCHANGED command
    BY <1>13 DEF Killed, Answered
  <2>2. engine'.pc = "idle"
    BY <1>2, <1>13 DEF Killed
  <2>3. Answer = "ok" \/ ~engine.removing
    BY <1>2, <1>13 DEF Killed
  <2>4. \A h \in Commands : Unended(h) => h = engine'.binding
    <3>1. CASE Answer = "ok"
      <4>1. Nobody
        BY <1>2, <1>7, <2>1, <3>1 DEF Telling
      <4> QED BY <4>1 DEF Nobody, Unended
    <3>2. CASE Answer # "ok"
      <4>1. \A h \in Commands : Unended(h) => h = engine.binding
        BY <1>2, <2>1, <2>3, <3>2 DEF Known
      <4>2. CASE engine'.binding = engine.binding
        BY <4>1, <4>2
      <4>3. CASE MayKnowOfExit
        BY <4>1, <4>3 DEF MayKnowOfExit, Unended, Alive
      <4> QED BY <1>2, <1>13, <2>3, <3>2, <4>2, <4>3 DEF Killed
    <3> QED BY <3>1, <3>2
  <2>5. Settling
    BY <2>1 DEF Settling
  <2> QED BY <1>1, <1>3, <2>1, <2>2, <2>4, <2>5, EngineStops
<1>14. CASE Inspect \/ Gc
  <2>1. CASE Inspect
    <3>1. Begun("inspect", BoundToken, engine.binding) /\ HostKnown' /\ UNCHANGED engine
      BY <1>4, <2>1 DEF Inspect
    <3> QED BY <1>1, <3>1, EngineWaitsOn
  <2>2. CASE Gc
    <3>1. Begun("gc", 0, 0) /\ HostKnown' /\ UNCHANGED engine
      BY <1>4, <2>2 DEF Gc
    <3> QED BY <1>1, <3>1, EngineWaitsOn
  <2> QED BY <1>14, <2>1, <2>2
<1>15. CASE Restore
  <2>1. engine.pc = "down"
    BY <1>15 DEF Restore
  <2>2. CASE UNCHANGED command /\ engine' = [engine EXCEPT !.pc = "idle"]
    <3>1. engine'.pc = "idle" /\ engine'.binding = engine.binding
      BY <1>2, <2>2
    <3> QED BY <1>1, <1>3, <1>6, <2>1, <2>2, <3>1, EngineStops
  <2>3. CASE Run("inspect", BoundToken, engine.binding) /\ engine' = Waits("restoring")
    <3>1. Begun("inspect", BoundToken, engine.binding) /\ HostKnown'
      BY <1>4, <2>3
    <3> QED BY <1>1, <1>5, <1>6, <2>1, <2>3, <3>1, EngineAsks
  <2> QED BY <1>15, <2>2, <2>3 DEF Restore
<1>16. CASE Restored
  <2>1. engine.pc = "restoring"
    BY <1>16 DEF Restored, Answered
  <2>2. CASE /\ UNCHANGED command
             /\ engine' = [engine EXCEPT !.pc = IF Answer = "running" THEN "bound" ELSE "idle"]
    <3>1. engine'.pc \in {"bound", "idle"} /\ engine'.binding = engine.binding
      BY <1>2, <2>2
    <3> QED BY <1>1, <1>3, <1>6, <2>1, <2>2, <3>1, EngineStops
  <2>3. CASE /\ Run("kill", BoundToken, engine.binding)
             /\ engine' = [Waits("killing") EXCEPT !.removing = TRUE]
    <3>1. Begun("kill", BoundToken, engine.binding) /\ HostKnown'
      BY <1>4, <2>3
    <3>2. /\ engine'.pc = "killing" /\ engine'.cmd = counts.commands + 1
          /\ engine'.binding = engine.binding
      BY <1>2, <1>5, <2>3
    <3> QED BY <1>1, <1>6, <2>1, <3>1, <3>2, EngineAsks
  <2> QED BY <1>16, <2>2, <2>3 DEF Restored
<1> QED BY <1>8, <1>9, <1>10, <1>11, <1>12, <1>13, <1>14, <1>15, <1>16 DEF EngineStep

\* A Holder that has an Agent has spawned it.
LEMMA AgentWanes ==
  ASSUME Facts, NEW h \in Commands, agent[h] = "running" PROVE holder[h].pc \notin Unspawned
<1>1. HolderOf(h)
  BY DEF Facts, HostKnown
<1> QED BY <1>1 DEF HolderOf

LEMMA OthersKnow ==
  ASSUME Facts, \E h \in Commands : Guard(h) \/ AgentExits(h)
  PROVE  HostKnown' /\ EngineKnows'
<1>1. PICK h \in Commands : Guard(h) \/ AgentExits(h)
  OBVIOUS
<1>2. UNCHANGED <<engine, command, files, holder, swept, overtaken>>
  BY <1>1 DEF Guard, AgentExits, hostVars, historyVars
<1>3. holder[h].pc \notin Unspawned
  BY <1>1, AgentWanes DEF Guard, AgentExits, Unspawned
<1>4. agent' = [agent EXCEPT ![h] = "dead"] /\ DOMAIN agent = Commands
  BY <1>1 DEF Guard, AgentExits, Facts, KindInv
<1>5. Waning
  BY <1>2, <1>3, <1>4 DEF Waning
<1> QED BY <1>2, <1>5, WaningKnows

LEMMA FaultKnows ==
  ASSUME Facts, ~lost', ChannelFails \/ EngineDies \/ CommandDies \/ HolderDies
  PROVE  HostKnown' /\ EngineKnows'
<1>1. UNCHANGED <<files, swept, overtaken>>
  BY DEF ChannelFails, EngineDies, CommandDies, HolderDies, hostVars
<1>2. /\ EngineShape /\ HostKnown /\ EngineKnows /\ lost \in BOOLEAN /\ ~swept' /\ ~overtaken'
      /\ DOMAIN engine = {"pc", "token", "cmd", "attempt", "binding", "deaf", "removing"}
  BY <1>1 DEF Facts, KindInv, HostKnown, EngineShape
<1>3. UNCHANGED <<command, holder, agent>> => HostKnown'
  BY <1>1, <1>2 DEF HostKnown, HolderOf, Place, Seen, Nobody, Alive
<1>4. CASE ChannelFails
  <2>1. UNCHANGED <<command, holder, agent>>
    BY <1>4 DEF ChannelFails, processVars
  <2>2. /\ engine'.pc = engine.pc /\ engine'.cmd = engine.cmd /\ engine'.token = engine.token
        /\ engine'.binding = engine.binding /\ engine'.removing = engine.removing
    BY <1>2, <1>4 DEF ChannelFails
  <2>3. Telling'
    BY <1>2, <2>1, <2>2 DEF EngineKnows, Telling, Cmd, Nobody, Unended, Alive
  <2>4. \A d \in Commands : Newest(d)' /\ Waiting(d)'
    BY <1>2, <2>1, <2>2 DEF EngineKnows, Newest, Waiting, Cmd
  <2>5. \A d \in Commands : Known(d)'
    BY <1>2, <2>1, <2>2 DEF EngineKnows, Known, Unended, Alive
  <2> QED BY <1>3, <2>1, <2>3, <2>4, <2>5 DEF EngineKnows
<1>5. CASE EngineDies
  <2>1. UNCHANGED <<command, holder, agent>>
    BY <1>5 DEF EngineDies, processVars
  <2>2. engine'.pc = "down" /\ engine'.binding = engine.binding
    BY <1>2, <1>5 DEF EngineDies
  <2>3. engine.pc # "launching" /\ ~(engine.pc = "killing" /\ engine.removing)
    BY <1>2, <1>5 DEF EngineDies
  <2>4. Settling /\ \A h \in Commands : Unended(h) => h = engine'.binding
    BY <1>2, <2>2, <2>3 DEF Settling, EngineKnows, Known
  <2> QED BY <1>3, <2>1, <2>2, <2>4, EngineStops
<1>6. CASE CommandDies
  <2>1. PICK c \in Commands :
          /\ command[c].pc \notin {"none", "done"} /\ Finish(c, "none", 0)
          /\ lost' = (lost \/ command[c].pc = "wait")
    BY <1>6 DEF CommandDies
  <2>2. command[c].pc # "wait"
    BY <1>2, <2>1
  <2>3. Waning /\ FilesKept /\ UNCHANGED engine
    BY <1>1, <1>6, Still DEF CommandDies, processVars, FilesKept
  <2> QED BY <1>2, <2>1, <2>2, <2>3, FinishKnows
<1>7. CASE HolderDies
  <2>1. PICK h \in Commands :
          /\ holder[h].pc \notin {"none", "gone"} /\ holder' = Ended(h)
          /\ \/ UNCHANGED agent
             \/ agent[h] = "running" /\ agent' = [agent EXCEPT ![h] = "dead"]
    BY <1>7 DEF HolderDies
  <2>2. Shape /\ DOMAIN agent = Commands
    BY DEF Facts, OwnerInv, KindInv
  <2>3. \A g \in Commands :
          holder'[g] = holder[g] \/ (holder'[g].pc = "gone" /\ holder[g].pc # "none")
    BY <2>1, <2>2 DEF Ended, Shape
  <2>4. agent[h] = "running" => holder[h].pc \notin Unspawned
    BY AgentWanes
  <2>5. Waning
    BY <2>1, <2>2, <2>3, <2>4 DEF Waning
  <2> QED BY <1>1, <1>7, <2>5, WaningKnows DEF HolderDies
<1> QED BY <1>4, <1>5, <1>6, <1>7

LEMMA CommandKnows ==
  ASSUME Facts, CommandStep, ~lost', ~stale' PROVE HostKnown' /\ EngineKnows'
<1>1. UNCHANGED engine
  BY DEF CommandStep
<1>2. CASE /\ \E c \in Commands :
                \/ TakeLaunchLock(c) \/ Authenticate(c) \/ ReadState(c) \/ Probe(c)
                \/ ProbeFails(c) \/ Release(c) \/ FindLive(c) \/ AwaitHolder(c)
                \/ KillAgent(c) \/ KillHolder(c) \/ KillPolls(c) \/ KillEnds(c)
                \/ GcDeletes(c) \/ GcEnds(c)
           /\ UNCHANGED historyVars
  <2>1. UNCHANGED <<swept, overtaken>>
    BY <1>2 DEF historyVars
  <2> QED BY <1>1, <1>2, <2>1, LaunchLockKnows, AuthenticateKnows, ReadStateKnows, ProbeKnows,
             ProbeFailsKnows, ReleaseKnows, FindLiveKnows, AwaitKnows, KillAgentKnows,
             KillHolderKnows, KillPollsKnows, KillEndsKnows, GcDeletesKnows, GcEndsKnows
<1>3. CASE \E c \in Commands :
             \/ ResetDeadSession(c) \/ StartHolder(c) \/ InspectEnds(c) \/ KillWrites(c)
             \/ GcDeletesLock(c)
  <2>1. ASSUME NEW c \in Commands, GcDeletesLock(c) PROVE HostKnown' /\ EngineKnows'
    <3>1. ~GcDeletes(c) /\ UNCHANGED overtaken
      BY <2>1 DEF GcDeletesLock, GcDeletes
    <3> QED BY <1>1, <2>1, <3>1, GcDeletesKnows
  <2> QED BY <1>1, <1>3, <2>1, ResetKnows, StartKnows, InspectKnows, KillWritesKnows
<1> QED BY <1>2, <1>3 DEF CommandStep

\* What was lost or overwritten stays so.
LEMMA ClearBefore ==
  ASSUME KindInv, [Next]_vars, Clear' PROVE Clear
<1>1. lost \in BOOLEAN /\ stale \in BOOLEAN /\ ~lost' /\ ~stale'
  BY DEF KindInv, Clear
<1>2. ASSUME UNCHANGED <<lost, stale>> PROVE Clear
  BY <1>1, <1>2 DEF Clear
<1>3. CASE HolderStep \/ (\E h \in Commands : Guard(h) \/ AgentExits(h)) \/ UNCHANGED vars
  BY <1>2, <1>3 DEF HolderStep, Guard, AgentExits, historyVars, vars
<1>4. CASE CommandStep
  <2>1. CASE UNCHANGED historyVars
    BY <1>2, <2>1 DEF historyVars
  <2>2. PICK c \in Commands :
          \/ UNCHANGED historyVars \/ ResetDeadSession(c) \/ StartHolder(c) \/ InspectEnds(c)
          \/ KillWrites(c) \/ GcDeletesLock(c)
    BY <1>4 DEF CommandStep
  <2>3. CASE ResetDeadSession(c) \/ GcDeletesLock(c)
    BY <1>2, <2>3 DEF ResetDeadSession, GcDeletesLock
  <2>4. CASE StartHolder(c)
    BY <1>1, <2>4 DEF StartHolder, Clear
  <2>5. CASE InspectEnds(c) \/ KillWrites(c)
    BY <1>1, <2>5 DEF InspectEnds, KillWrites, WritesBack, Clear
  <2> QED BY <2>1, <2>2, <2>3, <2>4, <2>5
<1>5. CASE EngineStep
  <2>1. CASE Launch \/ Launched \/ LaunchedInVain \/ Kill \/ Inspect \/ Restore \/ Restored \/ Gc
    BY <1>2, <2>1 DEF Launch, Launched, LaunchedInVain, Kill, Inspect, Restore, Restored, Gc,
                      historyVars
  <2>2. CASE Retry \/ Killed
    BY <1>1, <2>2 DEF Retry, Killed, Clear
  <2> QED BY <1>5, <2>1, <2>2 DEF EngineStep
<1>6. CASE ChannelFails \/ EngineDies \/ CommandDies \/ HolderDies
  BY <1>1, <1>6 DEF ChannelFails, EngineDies, CommandDies, HolderDies, Clear
<1> QED BY <1>3, <1>4, <1>5, <1>6 DEF Next

LEMMA RecoveryInvariant == Spec => []RecoveryInv
<1>1. Init => RecoveryInv
  <2> SUFFICES ASSUME Init PROVE HostKnown /\ EngineKnows
    BY DEF RecoveryInv
  <2>1. /\ files.state = NoState /\ ~swept /\ ~overtaken /\ engine.pc = "idle"
        /\ \A c \in Commands :
             command[c] = Unstarted /\ holder[c].pc = "none" /\ agent[c] = "none"
    BY DEF Init
  <2>2. \A c \in Commands : ~Alive(c)
    BY <2>1 DEF Alive
  <2>3. \A c \in Commands : HolderOf(c) /\ Place(c)
    BY <2>1, <2>2 DEF HolderOf, Place, Seen, Unstarted, NoState
  <2>4. \A c \in Commands : Newest(c) /\ Waiting(c) /\ Known(c)
    BY <2>1, <2>2 DEF Newest, Waiting, Known, Unended, Unstarted
  <2>5. Telling
    BY <2>1 DEF Telling
  <2> QED BY <2>1, <2>3, <2>4, <2>5 DEF HostKnown, EngineKnows, Seen, NoState
<1>2. OwnerInv /\ AnswerInv /\ KindInv /\ RecoveryInv /\ [Next]_vars => RecoveryInv'
  <2> SUFFICES ASSUME OwnerInv, AnswerInv, KindInv, RecoveryInv, [Next]_vars, Clear'
               PROVE  HostKnown' /\ EngineKnows'
    BY DEF RecoveryInv
  <2>1. Facts
    BY ClearBefore DEF Facts, RecoveryInv
  <2>2. ~lost' /\ ~stale'
    BY DEF Clear
  <2>3. CASE UNCHANGED vars
    BY <2>1, <2>3, Still, WaningKnows DEF vars, hostVars, processVars, historyVars
  <2> QED BY <2>1, <2>2, <2>3, HolderKnows, OthersKnow, CommandKnows, EngineStepKnows, FaultKnows
          DEF Next
<1> QED BY <1>1, <1>2, OwnerInvariant, AnswerInvariant, KindInvariant, PTL DEF Spec

\* RemoteManager::launch and its retry: whatever channels fail and whatever
\* processes die, while the Engine waits for no command, the Agent that a Holder
\* runs is the one the Engine is bound to, unless a launch was given up unheard,
\* or started its Holder when the next one was under way, or an earlier Holder's
\* end was written over the state of a Holder that was alive.
THEOREM LaunchesAreRecovered == Spec => []LaunchIsRecovered
<1>1. RecoveryInv => LaunchIsRecovered
  <2> SUFFICES ASSUME RecoveryInv, engine.pc \in {"idle", "bound"}, ~lost, ~stale,
                      NEW h \in Owners, agent[h] = "running"
               PROVE  h = engine.binding
    BY DEF LaunchIsRecovered
  <2>1. h \in Commands /\ Unended(h)
    BY DEF Owners, Locked, Unended, Alive
  <2>2. Known(h)
    BY <2>1 DEF RecoveryInv, Clear, EngineKnows
  <2> QED BY <2>1, <2>2 DEF Known
<1> QED BY <1>1, RecoveryInvariant, PTL

\* Neither can two Holders own the session, nor does gc delete the lock file of a
\* Holder that is starting, nor a launch reset the session of one that is alive,
\* before a launch was given up unheard or something stale was written: the
\* exceptions of OneHolder and AnswerIsLive come only after those of
\* LaunchIsRecovered.
THEOREM TroubleStartsUnheard ==
  Spec => [](~lost /\ ~stale =>
               ~swept /\ ~overtaken /\ \A g, h \in Owners : g = h)
<1>1. OneHolder /\ RecoveryInv =>
        (~lost /\ ~stale => ~swept /\ ~overtaken /\ \A g, h \in Owners : g = h)
  BY DEF OneHolder, RecoveryInv, Clear, HostKnown
<1> QED BY <1>1, OneOwner, RecoveryInvariant, PTL

-----------------------------------------------------------------------------
(***************************************************************************)
(* What the Holder streams to the Engine that controls it.                 *)
(***************************************************************************)

-----------------------------------------------------------------------------
(***************************************************************************)
(* Streams of frames.                                                      *)
(***************************************************************************)
Grids(s) == {i \in DOMAIN s : s[i].type \in {"FullSnapshot", "GridDelta"}}

\* The deltas of s each extend the grid frame before them, the first one the
\* sequence q if a mirror is there (h).
Chained(s, h, q) ==
  \A i \in Grids(s) : s[i].type = "GridDelta" =>
    \/ h /\ s[i].sequence = q + 1 /\ \A j \in Grids(s) : j >= i
    \/ \E j \in Grids(s) : /\ s[i].sequence = s[j].sequence + 1
                           /\ j < i /\ \A k \in Grids(s) : k <= j \/ k >= i

\* ... and the last one has sequence n.
EndsAt(s, h, q, n) ==
  \/ \E i \in Grids(s) : s[i].sequence = n /\ \A j \in Grids(s) : j <= i
  \/ Grids(s) = {} /\ h /\ q = n

\* Once s is applied the mirror, which shows c if it is there, shows d.
Paints(s) == {i \in Grids(s) : s[i].cells # NoCells}
Shows(s, h, c, d) ==
  \/ \E i \in Paints(s) : s[i].cells = d /\ \A j \in Paints(s) : j <= i
  \/ Paints(s) = {} /\ h /\ c = d

\* Chunk m is before the offset o, was given up, or is in s before place i.
Reached(s, o, D, m, i) ==
  m < o \/ m \in D \/ \E j \in DOMAIN s : j < i /\ s[j] = Output(m)
Fed(s, o, D) ==
  \A i \in DOMAIN s : s[i].type = "Output" =>
    \A m \in 0..(s[i].offset - 1) : Reached(s, o, D, m, i)
Reaches(s, o, D, n) == \A m \in 0..(n - 1) : Reached(s, o, D, m, Len(s) + 1)

\* Places of a sequence that grows at its end, and of one that loses its head.
LEMMA AppendAt ==
  ASSUME NEW T, NEW s \in Seq(T), NEW m \in T
  PROVE  \E n \in Nat :
           /\ n = Len(s) /\ DOMAIN s = 1..n /\ DOMAIN Append(s, m) = 1..(n + 1)
           /\ Len(Append(s, m)) = n + 1 /\ Append(s, m) \in Seq(T)
           /\ \A i \in 1..n : Append(s, m)[i] = s[i]
           /\ Append(s, m)[n + 1] = m
  BY AppendProperties, LenProperties

\* A sequence without its head, place by place.
LEMMA TailAt ==
  ASSUME NEW T, NEW s \in Seq(T), s # <<>>
  PROVE  \E n \in Nat :
           /\ Len(s) = n + 1 /\ DOMAIN s = 1..(n + 1) /\ DOMAIN Tail(s) = 1..n
           /\ Len(Tail(s)) = n /\ Tail(s) \in Seq(T) /\ Head(s) = s[1] /\ Head(s) \in T
           /\ \A i \in 1..n : Tail(s)[i] = s[i + 1]
<1>1. PICK k \in Nat : k = Len(s) /\ k # 0 /\ DOMAIN s = 1..k
  BY EmptySeq, LenProperties
<1>2. PICK n \in Nat : k = n + 1
  BY <1>1
<1>3. /\ Tail(s) \in Seq(T) /\ Len(Tail(s)) = n /\ Head(s) \in T
      /\ \A i \in 1..n : Tail(s)[i] = s[i + 1]
  BY <1>1, <1>2, HeadTailProperties
<1>4. DOMAIN Tail(s) = 1..n
  BY <1>3, LenProperties
<1> QED BY <1>1, <1>2, <1>3, <1>4

\* Two sequences one after the other, place by place.
LEMMA JoinAt ==
  ASSUME NEW T, NEW s \in Seq(T), NEW t \in Seq(T), NEW n \in Nat, NEW k \in Nat,
         n = Len(s), k = Len(t)
  PROVE  /\ DOMAIN (s \o t) = 1..(n + k) /\ s \o t \in Seq(T) /\ Len(s \o t) = n + k
         /\ \A i \in 1..n : (s \o t)[i] = s[i]
         /\ \A i \in 1..k, j \in Nat : j = n + i => (s \o t)[j] = t[i]
<1>2. /\ s \o t \in Seq(T) /\ Len(s \o t) = n + k
      /\ \A i \in 1..(n + k) : (s \o t)[i] = IF i <= n THEN s[i] ELSE t[i - n]
  BY ConcatProperties
<1>3. DOMAIN (s \o t) = 1..(n + k)
  BY <1>2, LenProperties
<1>4. ASSUME NEW i \in 1..k, NEW j \in Nat, j = n + i
      PROVE  (s \o t)[j] = t[i]
  <2>1. j \in 1..(n + k) /\ ~(j <= n) /\ j - n = i
    BY <1>4
  <2> QED BY <1>2, <2>1
<1>5. \A i \in 1..n : (s \o t)[i] = s[i]
  BY <1>2
<1> QED BY <1>2, <1>3, <1>4, <1>5

\* A sequence is the front of what it is continued by.
LEMMA FrontAt ==
  ASSUME NEW T, NEW s \in Seq(T), NEW t \in Seq(T)
  PROVE  \E n, k \in Nat : /\ DOMAIN s = 1..n /\ DOMAIN (s \o t) = 1..(n + k)
                          /\ \A i \in 1..n : (s \o t)[i] = s[i]
<1>1. PICK n \in Nat : n = Len(s) /\ DOMAIN s = 1..n
  BY LenProperties
<1>2. PICK k \in Nat : k = Len(t)
  BY LenProperties
<1>3. DOMAIN (s \o t) = 1..(n + k) /\ \A i \in 1..n : (s \o t)[i] = s[i]
  BY <1>1, <1>2, JoinAt
<1> QED BY <1>1, <1>2, <1>3

\* A frame that is no delta joins a chain, and a delta that extends it does.
LEMMA ChainAppend ==
  ASSUME NEW T, NEW s \in Seq(T), NEW m \in T, NEW h, NEW q, Chained(s, h, q)
  PROVE  /\ m.type # "GridDelta" => Chained(Append(s, m), h, q)
         /\ \A n : EndsAt(s, h, q, n) /\ m.sequence = n + 1 => Chained(Append(s, m), h, q)
         /\ m.type \in {"FullSnapshot", "GridDelta"} => EndsAt(Append(s, m), h, q, m.sequence)
         /\ \A n : m.type \notin {"FullSnapshot", "GridDelta"} /\ EndsAt(s, h, q, n) =>
              EndsAt(Append(s, m), h, q, n)
<1> DEFINE u == Append(s, m)
<1>0. PICK k \in Nat :
        /\ DOMAIN s = 1..k /\ DOMAIN u = 1..(k + 1) /\ \A i \in 1..k : u[i] = s[i]
        /\ u[k + 1] = m
  BY ONLY AppendAt, s \in Seq(T), m \in T DEF u
<1> HIDE DEF u
<1>1. /\ \A i : i \in Grids(u) <=>
              i \in Grids(s) \/ (i = k + 1 /\ m.type \in {"FullSnapshot", "GridDelta"})
      /\ \A i \in Grids(s) : i \in Nat /\ i <= k /\ u[i] = s[i]
      /\ u[k + 1] = m
  BY <1>0 DEF Grids
<1>2. ASSUME NEW i \in Grids(s), s[i].type = "GridDelta"
      PROVE  \/ h /\ u[i].sequence = q + 1 /\ \A j \in Grids(u) : j >= i
             \/ \E j \in Grids(u) : /\ u[i].sequence = u[j].sequence + 1
                                    /\ j < i /\ \A l \in Grids(u) : l <= j \/ l >= i
  <2>1. \A j \in Grids(u) : j \in Grids(s) \/ j >= i
    BY <1>1
  <2>2. CASE h /\ s[i].sequence = q + 1 /\ \A j \in Grids(s) : j >= i
    BY <1>1, <2>1, <2>2
  <2>3. CASE \E j \in Grids(s) : /\ s[i].sequence = s[j].sequence + 1
                                 /\ j < i /\ \A l \in Grids(s) : l <= j \/ l >= i
    <3>1. PICK j \in Grids(s) : /\ s[i].sequence = s[j].sequence + 1
                                /\ j < i /\ \A l \in Grids(s) : l <= j \/ l >= i
      BY <2>3
    <3>2. u[i] = s[i] /\ u[j] = s[j] /\ j \in Grids(u)
      BY <1>1
    <3> QED BY <2>1, <3>1, <3>2
  <2> QED BY <1>2, <2>2, <2>3 DEF Chained
<1>3. ASSUME m.type # "GridDelta" PROVE Chained(u, h, q)
  BY <1>1, <1>2, <1>3 DEF Chained
<1>4. ASSUME NEW n, EndsAt(s, h, q, n), m.sequence = n + 1 PROVE Chained(u, h, q)
  <2>1. \/ h /\ m.sequence = q + 1 /\ Grids(s) = {}
        \/ \E j \in Grids(s) : m.sequence = s[j].sequence + 1 /\ \A l \in Grids(s) : l <= j
    BY <1>4 DEF EndsAt
  <2>2. ASSUME m.type = "GridDelta"
        PROVE  \/ h /\ m.sequence = q + 1 /\ \A j \in Grids(u) : j >= k + 1
               \/ \E j \in Grids(u) : /\ m.sequence = u[j].sequence + 1
                                      /\ j < k + 1 /\ \A l \in Grids(u) : l <= j \/ l >= k + 1
    <3>1. \A i : i \in Grids(u) <=> i \in Grids(s) \/ i = k + 1
      BY <1>1, <2>2
    <3> QED BY <1>1, <2>1, <3>1
  <2> QED BY <1>1, <1>2, <2>2 DEF Chained
<1>5. ASSUME m.type \in {"FullSnapshot", "GridDelta"} PROVE EndsAt(u, h, q, m.sequence)
  BY <1>1, <1>5 DEF EndsAt
<1>6. ASSUME NEW n, m.type \notin {"FullSnapshot", "GridDelta"}, EndsAt(s, h, q, n)
      PROVE  EndsAt(u, h, q, n)
  BY <1>1, <1>6 DEF EndsAt
<1> QED BY <1>3, <1>4, <1>5, <1>6 DEF u

\* A part of a chain from its beginning is one.
LEMMA ChainFront ==
  ASSUME NEW T, NEW s \in Seq(T), NEW t \in Seq(T), NEW h, NEW q, Chained(s \o t, h, q)
  PROVE  Chained(s, h, q)
<1> DEFINE u == s \o t
<1>1. PICK n, k \in Nat : /\ DOMAIN s = 1..n /\ DOMAIN u = 1..(n + k)
                          /\ \A i \in 1..n : u[i] = s[i]
  BY FrontAt
<1> HIDE DEF u
<1>2. Grids(s) = {i \in Grids(u) : i <= n} /\ \A i \in Grids(s) : u[i] = s[i]
  BY <1>1 DEF Grids
<1>3. \A i \in Grids(u) : i \in Nat
  BY <1>1 DEF Grids
<1>4. Chained(u, h, q)
  BY DEF u
<1> SUFFICES ASSUME NEW i \in Grids(s), s[i].type = "GridDelta"
             PROVE  \/ h /\ s[i].sequence = q + 1 /\ \A j \in Grids(s) : j >= i
                    \/ \E j \in Grids(s) : /\ s[i].sequence = s[j].sequence + 1
                                           /\ j < i /\ \A l \in Grids(s) : l <= j \/ l >= i
  BY DEF Chained
<1>5. CASE h /\ u[i].sequence = q + 1 /\ \A j \in Grids(u) : j >= i
  BY <1>2, <1>5
<1>6. CASE \E j \in Grids(u) : /\ u[i].sequence = u[j].sequence + 1
                               /\ j < i /\ \A l \in Grids(u) : l <= j \/ l >= i
  <2>1. PICK j \in Grids(u) : /\ u[i].sequence = u[j].sequence + 1
                              /\ j < i /\ \A l \in Grids(u) : l <= j \/ l >= i
    BY <1>6
  <2>2. j \in Grids(s)
    BY <1>2, <1>3, <2>1
  <2> QED BY <1>2, <2>1, <2>2
<1> QED BY <1>2, <1>4, <1>5, <1>6 DEF Chained

\* The head of a chain is handled: the rest extends what is there then.
LEMMA ChainTail ==
  ASSUME NEW T, NEW s \in Seq(T), s # <<>>, NEW h, NEW g, h => g, NEW q
  PROVE  /\ Chained(s, h, q) /\ Head(s).type \notin {"FullSnapshot", "GridDelta"} =>
              Chained(Tail(s), g, q)
         /\ \A n : EndsAt(s, h, q, n) /\ Head(s).type \notin {"FullSnapshot", "GridDelta"} =>
              EndsAt(Tail(s), g, q, n)
         /\ Chained(s, h, q) /\ Head(s).type \in {"FullSnapshot", "GridDelta"} =>
              Chained(Tail(s), TRUE, Head(s).sequence)
         /\ \A n : EndsAt(s, h, q, n) /\ Head(s).type \in {"FullSnapshot", "GridDelta"} =>
              EndsAt(Tail(s), TRUE, Head(s).sequence, n)
<1> DEFINE t == Tail(s)  m == Head(s)
<1>1. PICK k \in Nat :
        /\ DOMAIN s = 1..(k + 1) /\ DOMAIN t = 1..k /\ m = s[1] /\ \A i \in 1..k : t[i] = s[i + 1]
  BY TailAt
<1> HIDE DEF t, m
<1>2. /\ \A i \in Grids(t) : i \in 1..k /\ i + 1 \in Grids(s) /\ t[i] = s[i + 1]
      /\ \A i \in Grids(s) : i \in Nat /\ i >= 1
      /\ 1 \in Grids(s) <=> m.type \in {"FullSnapshot", "GridDelta"}
  BY <1>1 DEF Grids
<1>3. \A i \in Grids(s) : i # 1 => \E j \in Grids(t) : i = j + 1
  <2> SUFFICES ASSUME NEW i \in Grids(s), i # 1 PROVE \E j \in Grids(t) : i = j + 1
    OBVIOUS
  <2>1. i \in 1..(k + 1)
    BY <1>1 DEF Grids
  <2>2. PICK j \in 1..k : i = j + 1
    BY <2>1
  <2> QED BY <1>1, <2>2 DEF Grids
<1>4. ASSUME NEW f, NEW p, Chained(s, h, q),
             \/ 1 \notin Grids(s) /\ (h => f) /\ p = q
             \/ 1 \in Grids(s) /\ f = TRUE /\ p = m.sequence
      PROVE  Chained(t, f, p)
  <2> SUFFICES ASSUME NEW i \in Grids(t), t[i].type = "GridDelta"
               PROVE  \/ f /\ t[i].sequence = p + 1 /\ \A j \in Grids(t) : j >= i
                      \/ \E j \in Grids(t) : /\ t[i].sequence = t[j].sequence + 1
                                             /\ j < i /\ \A l \in Grids(t) : l <= j \/ l >= i
    BY DEF Chained
  <2>1. i \in 1..k /\ i + 1 \in Grids(s) /\ t[i] = s[i + 1]
    BY <1>2
  <2>2. CASE h /\ s[i + 1].sequence = q + 1 /\ \A j \in Grids(s) : j >= i + 1
    <3>1. 1 \notin Grids(s)
      BY <2>1, <2>2
    <3>2. \A j \in Grids(t) : j >= i
      BY <1>2, <2>1, <2>2
    <3> QED BY <1>4, <2>1, <2>2, <3>1, <3>2
  <2>3. CASE \E j \in Grids(s) : /\ s[i + 1].sequence = s[j].sequence + 1
                                 /\ j < i + 1 /\ \A l \in Grids(s) : l <= j \/ l >= i + 1
    <3>1. PICK j \in Grids(s) : /\ s[i + 1].sequence = s[j].sequence + 1
                                /\ j < i + 1 /\ \A l \in Grids(s) : l <= j \/ l >= i + 1
      BY <2>3
    <3>2. CASE j = 1
      <4>1. 1 \in Grids(s) /\ f = TRUE /\ p = m.sequence
        BY <1>4, <3>2
      <4>2. t[i].sequence = p + 1
        BY <1>1, <2>1, <3>1, <3>2, <4>1
      <4>3. \A l \in Grids(t) : l >= i
        BY <1>2, <2>1, <3>1, <3>2
      <4> QED BY <4>1, <4>2, <4>3
    <3>3. CASE j # 1
      <4>1. PICK a \in Grids(t) : j = a + 1
        BY <1>3, <3>3
      <4>2. a \in 1..k /\ t[a] = s[j] /\ a < i
        BY <1>2, <2>1, <3>1, <4>1
      <4>3. \A l \in Grids(t) : l <= a \/ l >= i
        BY <1>2, <2>1, <3>1, <4>1, <4>2
      <4> QED BY <2>1, <3>1, <4>2, <4>3
    <3> QED BY <3>2, <3>3
  <2> QED BY <1>4, <2>1, <2>2, <2>3 DEF Chained
<1>5. ASSUME NEW f, NEW p, NEW n, EndsAt(s, h, q, n),
             \/ 1 \notin Grids(s) /\ (h => f) /\ p = q
             \/ 1 \in Grids(s) /\ f = TRUE /\ p = m.sequence
      PROVE  EndsAt(t, f, p, n)
  <2>1. CASE \E i \in Grids(s) : s[i].sequence = n /\ \A j \in Grids(s) : j <= i
    <3>1. PICK i \in Grids(s) : s[i].sequence = n /\ \A j \in Grids(s) : j <= i
      BY <2>1
    <3>2. CASE i = 1
      <4>1. ASSUME NEW l \in Grids(t) PROVE FALSE
        <5>1. l \in 1..k /\ l + 1 \in Grids(s)
          BY <1>2
        <5>2. l + 1 <= 1
          BY <3>1, <3>2, <5>1
        <5> QED BY <5>1, <5>2
      <4>2. f /\ p = n
        BY <1>1, <1>5, <3>1, <3>2
      <4> QED BY <4>1, <4>2 DEF EndsAt
    <3>3. CASE i # 1
      <4>1. PICK a \in Grids(t) : i = a + 1
        BY <1>3, <3>3
      <4>2. a \in 1..k /\ t[a] = s[i] /\ \A l \in Grids(t) : l <= a
        BY <1>2, <3>1, <4>1
      <4> QED BY <3>1, <4>2 DEF EndsAt
    <3> QED BY <3>2, <3>3
  <2>2. CASE Grids(s) = {} /\ h /\ q = n
    <3>1. Grids(t) = {} /\ 1 \notin Grids(s)
      BY <1>2, <2>2
    <3>2. f /\ p = n
      BY <1>5, <2>2, <3>1
    <3> QED BY <3>1, <3>2 DEF EndsAt
  <2> QED BY <1>5, <2>1, <2>2 DEF EndsAt
<1>6. ASSUME Chained(s, h, q), m.type \notin {"FullSnapshot", "GridDelta"} PROVE Chained(t, g, q)
  <2>1. 1 \notin Grids(s)
    BY <1>2, <1>6
  <2> QED BY <1>4, <1>6, <2>1
<1>7. ASSUME NEW n, EndsAt(s, h, q, n), m.type \notin {"FullSnapshot", "GridDelta"}
      PROVE  EndsAt(t, g, q, n)
  <2>1. 1 \notin Grids(s)
    BY <1>2, <1>7
  <2> QED BY <1>5, <1>7, <2>1
<1>8. ASSUME Chained(s, h, q), m.type \in {"FullSnapshot", "GridDelta"}
      PROVE  Chained(t, TRUE, m.sequence)
  <2>1. 1 \in Grids(s)
    BY <1>2, <1>8
  <2> QED BY <1>4, <1>8, <2>1
<1>9. ASSUME NEW n, EndsAt(s, h, q, n), m.type \in {"FullSnapshot", "GridDelta"}
      PROVE  EndsAt(t, TRUE, m.sequence, n)
  <2>1. 1 \in Grids(s)
    BY <1>2, <1>9
  <2> QED BY <1>5, <1>9, <2>1
<1> QED BY <1>6, <1>7, <1>8, <1>9 DEF t, m

\* A frame that paints decides what the mirror will show, another one nothing.
LEMMA PaintAppend ==
  ASSUME NEW T, NEW s \in Seq(T), NEW m \in T, NEW h, NEW c, NEW d
  PROVE  /\ m.type \in {"FullSnapshot", "GridDelta"} /\ m.cells # NoCells /\ m.cells = d =>
              Shows(Append(s, m), h, c, d)
         /\ ~(m.type \in {"FullSnapshot", "GridDelta"} /\ m.cells # NoCells) /\ Shows(s, h, c, d) =>
              Shows(Append(s, m), h, c, d)
<1> DEFINE u == Append(s, m)
<1>0. PICK k \in Nat :
        /\ DOMAIN s = 1..k /\ DOMAIN u = 1..(k + 1) /\ \A i \in 1..k : u[i] = s[i]
        /\ u[k + 1] = m
  BY ONLY AppendAt, s \in Seq(T), m \in T
<1> HIDE DEF u
<1>1. /\ \A i : i \in Paints(u) <=>
              i \in Paints(s) \/ (i = k + 1 /\ m.type \in {"FullSnapshot", "GridDelta"} /\ m.cells # NoCells)
      /\ \A i \in Paints(s) : i \in Nat /\ i <= k /\ u[i] = s[i]
  BY <1>0 DEF Grids, Paints
<1>2. ASSUME m.type \in {"FullSnapshot", "GridDelta"}, m.cells # NoCells, m.cells = d
      PROVE  Shows(u, h, c, d)
  BY <1>0, <1>1, <1>2 DEF Shows
<1>3. ASSUME ~(m.type \in {"FullSnapshot", "GridDelta"} /\ m.cells # NoCells), Shows(s, h, c, d)
      PROVE  Shows(u, h, c, d)
  BY <1>1, <1>3 DEF Shows
<1> QED BY <1>2, <1>3 DEF u

\* The frame that is applied paints, or what paints is still there.
LEMMA PaintTail ==
  ASSUME NEW T, NEW s \in Seq(T), s # <<>>, NEW h, NEW g, h => g, NEW c, NEW d, Shows(s, h, c, d)
  PROVE  /\ ~(Head(s).type \in {"FullSnapshot", "GridDelta"} /\ Head(s).cells # NoCells) =>
              Shows(Tail(s), g, c, d)
         /\ Head(s).type \in {"FullSnapshot", "GridDelta"} /\ Head(s).cells # NoCells =>
              Shows(Tail(s), TRUE, Head(s).cells, d)
<1> DEFINE t == Tail(s)  m == Head(s)
<1>1. PICK k \in Nat :
        /\ DOMAIN s = 1..(k + 1) /\ DOMAIN t = 1..k /\ m = s[1] /\ \A i \in 1..k : t[i] = s[i + 1]
  BY TailAt
<1> HIDE DEF t, m
<1>2. /\ \A i \in Paints(t) : i \in 1..k /\ i + 1 \in Paints(s) /\ t[i] = s[i + 1]
      /\ \A i \in Paints(s) : i \in Nat /\ i >= 1
      /\ 1 \in Paints(s) <=> m.type \in {"FullSnapshot", "GridDelta"} /\ m.cells # NoCells
  BY <1>1 DEF Grids, Paints
<1>3. \A i \in Paints(s) : i # 1 => \E j \in Paints(t) : i = j + 1
  <2> SUFFICES ASSUME NEW i \in Paints(s), i # 1 PROVE \E j \in Paints(t) : i = j + 1
    OBVIOUS
  <2>1. i \in 1..(k + 1)
    BY <1>1 DEF Grids, Paints
  <2>2. PICK j \in 1..k : i = j + 1
    BY <2>1
  <2> QED BY <1>1, <2>2 DEF Grids, Paints
<1>4. ASSUME NEW f, NEW e,
             \/ 1 \notin Paints(s) /\ (h => f) /\ e = c
             \/ 1 \in Paints(s) /\ f = TRUE /\ e = m.cells
      PROVE  Shows(t, f, e, d)
  <2>1. CASE \E i \in Paints(s) : s[i].cells = d /\ \A j \in Paints(s) : j <= i
    <3>1. PICK i \in Paints(s) : s[i].cells = d /\ \A j \in Paints(s) : j <= i
      BY <2>1
    <3>2. CASE i = 1
      <4>1. ASSUME NEW l \in Paints(t) PROVE FALSE
        <5>1. l \in 1..k /\ l + 1 \in Paints(s)
          BY <1>2
        <5>2. l + 1 <= 1
          BY <3>1, <3>2, <5>1
        <5> QED BY <5>1, <5>2
      <4>2. f /\ e = d
        BY <1>1, <1>4, <3>1, <3>2
      <4> QED BY <4>1, <4>2 DEF Shows
    <3>3. CASE i # 1
      <4>1. PICK a \in Paints(t) : i = a + 1
        BY <1>3, <3>3
      <4>2. a \in 1..k /\ t[a] = s[i] /\ \A l \in Paints(t) : l <= a
        BY <1>2, <3>1, <4>1
      <4> QED BY <3>1, <4>2 DEF Shows
    <3> QED BY <3>2, <3>3
  <2>2. CASE Paints(s) = {} /\ h /\ c = d
    <3>1. Paints(t) = {} /\ 1 \notin Paints(s)
      BY <1>2, <2>2
    <3>2. f /\ e = d
      BY <1>4, <2>2, <3>1
    <3> QED BY <3>1, <3>2 DEF Shows
  <2> QED BY <2>1, <2>2 DEF Shows
<1>5. ASSUME ~(m.type \in {"FullSnapshot", "GridDelta"} /\ m.cells # NoCells) PROVE Shows(t, g, c, d)
  <2>1. 1 \notin Paints(s)
    BY <1>2, <1>5
  <2> QED BY <1>4, <2>1
<1>6. ASSUME m.type \in {"FullSnapshot", "GridDelta"}, m.cells # NoCells
      PROVE  Shows(t, TRUE, m.cells, d)
  <2>1. 1 \in Paints(s)
    BY <1>2, <1>6
  <2> QED BY <1>4, <2>1
<1> QED BY <1>5, <1>6 DEF t, m

\* Frames.
Rows == Cells \ {NoCells}
Sendable ==
  [type : {"HelloAck"}, exited : BOOLEAN]
  \cup [type : {"ControlGranted", "Error", "ProcessExit"}]
  \cup [type : {"Output"}, offset : Nat]
  \cup [type : {"FullSnapshot"}, sequence : Nat, cells : Rows]
  \cup [type : {"GridDelta"}, sequence : Nat, cells : Cells]

\* The frames of each kind carry what the Holder put into them.
LEMMA FrameKinds ==
  ASSUME NEW m \in Sendable
  PROVE  /\ m.type \in {"HelloAck", "ControlGranted", "Output", "FullSnapshot", "GridDelta",
                        "Error", "ProcessExit"}
         /\ m.type = "Output" => m.offset \in Nat /\ m = Output(m.offset)
         /\ m.type \in {"FullSnapshot", "GridDelta"} => m.sequence \in Nat /\ m.cells \in Cells
         /\ m.type = "FullSnapshot" => m.cells # NoCells
         /\ m.type = "HelloAck" => m.exited \in BOOLEAN
  BY DEF Sendable, Rows, HelloAck, ControlGranted, Error, ProcessExit, Output, FullSnapshot,
     GridDelta

\* A chunk goes out as the frame with its offset.
LEMMA OutputFrame ==
  ASSUME NEW n \in Nat
  PROVE  Output(n) \in Sendable /\ Output(n).type = "Output" /\ Output(n).offset = n
  BY DEF Sendable, Output

\* A snapshot goes out with its sequence and its row.
LEMMA SnapshotFrame ==
  ASSUME NEW n \in Nat, NEW c \in Rows
  PROVE  /\ FullSnapshot(n, c) \in Sendable /\ FullSnapshot(n, c).type = "FullSnapshot"
         /\ FullSnapshot(n, c).sequence = n /\ FullSnapshot(n, c).cells = c
  BY DEF Sendable, FullSnapshot

\* So does a delta.
LEMMA DeltaFrame ==
  ASSUME NEW n \in Nat, NEW c \in Cells
  PROVE  /\ GridDelta(n, c) \in Sendable /\ GridDelta(n, c).type = "GridDelta"
         /\ GridDelta(n, c).sequence = n /\ GridDelta(n, c).cells = c
  BY DEF Sendable, GridDelta

\* The frames that carry neither output nor grid.
LEMMA OtherFrames ==
  /\ Error \in Sendable /\ Error.type = "Error"
  /\ ProcessExit \in Sendable /\ ProcessExit.type = "ProcessExit"
  /\ ControlGranted \in Sendable /\ ControlGranted.type = "ControlGranted"
  /\ \A b \in BOOLEAN : HelloAck(b) \in Sendable /\ HelloAck(b).type = "HelloAck" /\ HelloAck(b).exited = b
  BY DEF Sendable, Error, ProcessExit, ControlGranted, HelloAck

\* What joins a stream leaves nothing behind it unreached.
LEMMA FedAppend ==
  ASSUME NEW s \in Seq(Sendable), NEW m \in Sendable, NEW o, NEW D, NEW n \in Nat
  PROVE  /\ m.type # "Output" /\ Fed(s, o, D) => Fed(Append(s, m), o, D)
         /\ Reaches(s, o, D, n) => Reaches(Append(s, m), o, D, n)
         /\ m = Output(n) /\ Reaches(s, o, D, n) => Reaches(Append(s, m), o, D, n + 1)
         /\ m = Output(n) /\ Fed(s, o, D) /\ Reaches(s, o, D, n) => Fed(Append(s, m), o, D)
<1> DEFINE u == Append(s, m)
<1>1. PICK k \in Nat :
        /\ k = Len(s) /\ Len(u) = k + 1
        /\ DOMAIN s = 1..k /\ DOMAIN u = 1..(k + 1) /\ \A i \in 1..k : u[i] = s[i]
        /\ u[k + 1] = m
  BY ONLY AppendAt, s \in Seq(Sendable), m \in Sendable DEF u
<1> HIDE DEF u
<1>2. ASSUME NEW x, NEW i \in Nat, i <= k + 1, NEW j \in Nat, i <= j, Reached(s, o, D, x, i)
      PROVE  Reached(u, o, D, x, j)
  <2>1. CASE \E a \in DOMAIN s : a < i /\ s[a] = Output(x)
    <3>1. PICK a \in DOMAIN s : a < i /\ s[a] = Output(x)
      BY <2>1
    <3>2. a \in DOMAIN u /\ a < j /\ u[a] = Output(x)
      BY <1>1, <1>2, <3>1
    <3> QED BY <3>2 DEF Reached
  <2> QED BY <1>2, <2>1 DEF Reached
<1>3. ASSUME Fed(s, o, D), NEW i \in DOMAIN s, u[i].type = "Output", NEW x \in 0..(u[i].offset - 1)
      PROVE  Reached(u, o, D, x, i)
  <2>1. i \in Nat /\ i <= k + 1 /\ u[i] = s[i]
    BY <1>1
  <2>2. Reached(s, o, D, x, i)
    BY <1>3, <2>1 DEF Fed
  <2> QED BY <1>2, <2>1, <2>2
<1>4. ASSUME m.type # "Output", Fed(s, o, D) PROVE Fed(u, o, D)
  <2> SUFFICES ASSUME NEW i \in DOMAIN u, u[i].type = "Output", NEW x \in 0..(u[i].offset - 1)
               PROVE  Reached(u, o, D, x, i)
    BY DEF Fed
  <2>1. i \in DOMAIN s
    BY <1>1, <1>4
  <2> QED BY <1>3, <1>4, <2>1
<1>5. ASSUME Reaches(s, o, D, n) PROVE Reaches(u, o, D, n)
  <2> SUFFICES ASSUME NEW x \in 0..(n - 1) PROVE Reached(u, o, D, x, k + 2)
    BY <1>1 DEF Reaches
  <2>1. Reached(s, o, D, x, k + 1)
    BY <1>1, <1>5 DEF Reaches
  <2> QED BY <1>1, <1>2, <2>1
<1>6. ASSUME m = Output(n), Reaches(s, o, D, n) PROVE Reaches(u, o, D, n + 1)
  <2> SUFFICES ASSUME NEW x \in 0..n PROVE Reached(u, o, D, x, k + 2)
    BY <1>1 DEF Reaches
  <2>1. CASE x = n
    <3>1. k + 1 \in DOMAIN u /\ k + 1 < k + 2 /\ u[k + 1] = Output(x)
      BY <1>1, <1>6, <2>1
    <3> QED BY <3>1 DEF Reached
  <2>2. CASE x # n
    <3>1. x \in 0..(n - 1)
      BY <2>2
    <3> QED BY <1>1, <1>5, <1>6, <3>1 DEF Reaches
  <2> QED BY <2>1, <2>2
<1>7. ASSUME m = Output(n), Fed(s, o, D), Reaches(s, o, D, n) PROVE Fed(u, o, D)
  <2> SUFFICES ASSUME NEW i \in DOMAIN u, u[i].type = "Output", NEW x \in 0..(u[i].offset - 1)
               PROVE  Reached(u, o, D, x, i)
    BY DEF Fed
  <2>1. CASE i \in DOMAIN s
    BY <1>3, <1>7, <2>1
  <2>2. CASE i = k + 1
    <3>1. u[i].offset = n
      BY <1>1, <1>7, <2>2, OutputFrame
    <3>2. Reached(s, o, D, x, k + 1)
      BY <1>1, <1>7, <3>1 DEF Reaches
    <3> QED BY <1>1, <1>2, <2>2, <3>2
  <2> QED BY <1>1, <2>1, <2>2
<1> QED BY <1>4, <1>5, <1>6, <1>7 DEF u

\* What is fed by a stream is by the front of it that is left.
LEMMA FedFront ==
  ASSUME NEW s \in Seq(Sendable), NEW t \in Seq(Sendable), NEW o, NEW D, Fed(s \o t, o, D)
  PROVE  Fed(s, o, D)
<1> DEFINE u == s \o t
<1>1. PICK n, k \in Nat : /\ DOMAIN s = 1..n /\ DOMAIN u = 1..(n + k)
                          /\ \A i \in 1..n : u[i] = s[i]
  BY FrontAt
<1>2. Fed(u, o, D)
  OBVIOUS
<1> HIDE DEF u
<1> SUFFICES ASSUME NEW i \in DOMAIN s, s[i].type = "Output", NEW x \in 0..(s[i].offset - 1)
             PROVE  Reached(s, o, D, x, i)
  BY DEF Fed
<1>3. i \in 1..n /\ i \in DOMAIN u /\ u[i] = s[i]
  BY <1>1
<1>4. Reached(u, o, D, x, i)
  BY <1>2, <1>3 DEF Fed
<1>5. ASSUME NEW j \in DOMAIN u, j < i, u[j] = Output(x)
      PROVE  j \in DOMAIN s /\ s[j] = Output(x)
  BY <1>1, <1>3, <1>5
<1> QED BY <1>4, <1>5 DEF Reached

\* More is given up, or the Engine is further.
LEMMA FedMore ==
  ASSUME NEW s, NEW o \in Nat, NEW D, NEW p \in Nat, o <= p, NEW E, D \subseteq E
  PROVE  /\ Fed(s, o, D) => Fed(s, p, E)
         /\ \A n \in Nat : Reaches(s, o, D, n) => Reaches(s, p, E, n)
<1>1. ASSUME NEW x \in Nat, NEW i, Reached(s, o, D, x, i) PROVE Reached(s, p, E, x, i)
  BY <1>1 DEF Reached
<1>2. ASSUME Fed(s, o, D) PROVE Fed(s, p, E)
  <2> SUFFICES ASSUME NEW i \in DOMAIN s, s[i].type = "Output", NEW x \in 0..(s[i].offset - 1)
               PROVE  Reached(s, p, E, x, i)
    BY DEF Fed
  <2> QED BY <1>1, <1>2 DEF Fed
<1>3. ASSUME NEW n \in Nat, Reaches(s, o, D, n) PROVE Reaches(s, p, E, n)
  BY <1>1, <1>3 DEF Reaches
<1> QED BY <1>2, <1>3

\* Giving up more chunks makes none missing.
LEMMA FedGivenUp ==
  ASSUME NEW s, NEW o, NEW D, NEW E, D \subseteq E, Fed(s, o, D)
  PROVE  Fed(s, o, E)
<1>1. ASSUME NEW x, NEW i, Reached(s, o, D, x, i) PROVE Reached(s, o, E, x, i)
  BY <1>1 DEF Reached
<1> QED BY <1>1 DEF Fed

\* The Engine handles the head, and is past it when it was output.
LEMMA FedTail ==
  ASSUME NEW s \in Seq(Sendable), s # <<>>, NEW o \in Nat, NEW p \in Nat, NEW D, o <= p,
         Head(s).type = "Output" => Head(s).offset < p
  PROVE  /\ Fed(s, o, D) => Fed(Tail(s), p, D)
         /\ \A n \in Nat : Reaches(s, o, D, n) => Reaches(Tail(s), p, D, n)
         /\ Fed(s, o, D) /\ Head(s).type = "Output" =>
              \A x \in 0..(Head(s).offset - 1) : x < o \/ x \in D
<1> DEFINE t == Tail(s)  h == Head(s)
<1>1. PICK k \in Nat :
        /\ Len(s) = k + 1 /\ DOMAIN s = 1..(k + 1) /\ DOMAIN t = 1..k /\ Len(t) = k
        /\ h = s[1] /\ h \in Sendable /\ \A i \in 1..k : t[i] = s[i + 1]
  BY TailAt
<1>2. h.type = "Output" => h.offset < p
  OBVIOUS
<1> HIDE DEF t, h
<1>3. ASSUME NEW x \in Nat, NEW i \in Nat, Reached(s, o, D, x, i + 1) PROVE Reached(t, p, D, x, i)
  <2>1. CASE \E a \in DOMAIN s : a < i + 1 /\ s[a] = Output(x)
    <3>1. PICK a \in DOMAIN s : a < i + 1 /\ s[a] = Output(x)
      BY <2>1
    <3>2. CASE a = 1
      <4>1. h.type = "Output" /\ h.offset = x
        BY <1>1, <3>1, <3>2, OutputFrame
      <4> QED BY <1>2, <4>1 DEF Reached
    <3>3. CASE a # 1
      <4>0. k \in Nat /\ a \in 1..(k + 1)
        BY <1>1, <3>1
      <4>1. \E b \in 1..k : a = b + 1
        <5>1. a - 1 \in 1..k /\ a = (a - 1) + 1
          BY <3>3, <4>0
        <5> QED BY <5>1
      <4>2. PICK b \in 1..k : a = b + 1
        BY <4>1
      <4>3. b \in DOMAIN t /\ b < i /\ t[b] = Output(x)
        BY <1>1, <3>1, <4>2
      <4> QED BY <4>3 DEF Reached
    <3> QED BY <3>2, <3>3
  <2> QED BY <1>3, <2>1 DEF Reached
<1>4. ASSUME Fed(s, o, D) PROVE Fed(t, p, D)
  <2> SUFFICES ASSUME NEW i \in DOMAIN t, t[i].type = "Output", NEW x \in 0..(t[i].offset - 1)
               PROVE  Reached(t, p, D, x, i)
    BY DEF Fed
  <2>1. i \in Nat /\ i + 1 \in DOMAIN s /\ t[i] = s[i + 1]
    BY <1>1
  <2>2. Reached(s, o, D, x, i + 1)
    BY <1>4, <2>1 DEF Fed
  <2> QED BY <1>3, <2>1, <2>2
<1>5. ASSUME NEW n \in Nat, Reaches(s, o, D, n) PROVE Reaches(t, p, D, n)
  <2> SUFFICES ASSUME NEW x \in 0..(n - 1) PROVE Reached(t, p, D, x, k + 1)
    BY <1>1 DEF Reaches
  <2>1. Reached(s, o, D, x, (k + 1) + 1)
    BY <1>1, <1>5 DEF Reaches
  <2> QED BY <1>3, <2>1
<1>6. ASSUME Fed(s, o, D), h.type = "Output", NEW x \in 0..(h.offset - 1) PROVE x < o \/ x \in D
  <2>1. 1 \in DOMAIN s
    BY <1>1
  <2>2. Reached(s, o, D, x, 1)
    BY <1>1, <1>6, <2>1 DEF Fed
  <2> QED BY <1>1, <2>2 DEF Reached
<1> QED BY <1>4, <1>5, <1>6 DEF t, h

-----------------------------------------------------------------------------
(***************************************************************************)
(* Types.                                                                  *)
(***************************************************************************)
Bounds ==
  /\ MaxOutput \in Nat /\ LogCapacity \in Nat /\ ReplayBudget \in Nat
  /\ \A n \in 0..MaxOutput : Screen[n] \in Rows

StreamTypes ==
  /\ tail \in 0..MaxOutput /\ base \in Nat /\ snapshot_sequence \in Nat
  /\ last_cells = NoCells \/ \E n \in 0..tail : last_cells = Screen[n]
  /\ dirty \in BOOLEAN /\ exit_recorded \in BOOLEAN
  /\ conn \in {"none", "linked", "stale"}
  /\ outbound \in Seq(Sendable) /\ down \in Seq(Sendable)
  /\ flushed \in Nat /\ begun \in BOOLEAN
  /\ offset \in Nat /\ saved \in Nat /\ log \in Seq(Nat) /\ restarts \in Nat
  /\ mirror.sequence \in Nat /\ mirror.cells \in Cells
  /\ hello_accepted \in BOOLEAN /\ ungreeted \in BOOLEAN

\* What the bounds and the terminal are, for the steps that follow.
LEMMA ScreenCells == Bounds
<1>1. RemoteStreamAssumption
  BY RemoteStreamAssumption DEF RemoteStreamAssumption
<1>2. \A n \in 0..MaxOutput : Screen[n] \in Rows
  BY <1>1 DEF Cells, Rows, RemoteStreamAssumption
<1> QED BY <1>1, <1>2 DEF Bounds, RemoteStreamAssumption

\* What a queued frame does to the connection's buffer.
LEMMA QueueTypes ==
  ASSUME StreamTypes, NEW m \in Sendable, NEW seq \in Nat, NEW cells \in Rows, Queue(m, seq, cells)
  PROVE  /\ conn' \in {"none", "linked", "stale"} /\ outbound' \in Seq(Sendable)
         /\ flushed' \in Nat /\ begun' \in BOOLEAN /\ snapshot_sequence' \in Nat
         /\ ungreeted' \in BOOLEAN /\ (ungreeted => ungreeted')
         /\ conn' = "linked" => conn = "linked"
<1>1. Append(outbound, m) \in Seq(Sendable)
  BY AppendProperties DEF StreamTypes
<1>2. <<Error, FullSnapshot(seq + 1, cells)>> \in Seq(Sendable) /\ <<>> \in Seq(Sendable)
  <2>1. FullSnapshot(seq + 1, cells) \in Sendable /\ Error \in Sendable
    BY SnapshotFrame, OtherFrames
  <2> QED BY <2>1
<1>3. CASE conn # "none" /\ Fits(m)
  <2>1. /\ UNCHANGED <<conn, flushed, begun, ungreeted>>
        /\ outbound' = Append(outbound, m) /\ snapshot_sequence' = seq
    BY <1>3 DEF Queue
  <2> QED BY <1>1, <2>1 DEF StreamTypes
<1>4. CASE conn # "none" /\ ~Fits(m) /\ begun
  <2>1. /\ conn' = "none" /\ outbound' = <<>> /\ flushed' = 0 /\ begun' = FALSE
        /\ snapshot_sequence' = seq /\ ungreeted' = ungreeted
    BY <1>4 DEF Queue
  <2> QED BY <1>2, <2>1 DEF StreamTypes
<1>5. CASE conn # "none" /\ ~Fits(m) /\ ~begun
  <2>1. /\ conn' = conn /\ outbound' = <<Error, FullSnapshot(seq + 1, cells)>>
        /\ flushed' = flushed /\ begun' = begun /\ snapshot_sequence' = seq + 1
        /\ ungreeted' = (ungreeted \/ (conn = "linked" /\ HasHelloAck(outbound)))
    BY <1>5 DEF Queue
  <2>2. conn \in {"none", "linked", "stale"} /\ flushed \in Nat /\ begun \in BOOLEAN
    BY DEF StreamTypes
  <2>3. seq + 1 \in Nat
    OBVIOUS
  <2>4. outbound' \in Seq(Sendable) /\ snapshot_sequence' \in Nat
    BY <1>2, <2>1, <2>3
  <2>5. conn' \in {"none", "linked", "stale"} /\ (conn' = "linked" => conn = "linked")
        /\ flushed' \in Nat /\ begun' \in BOOLEAN
    BY <2>1, <2>2
  <2>6. ungreeted' \in BOOLEAN /\ (ungreeted => ungreeted')
    BY <2>1, Zenon DEF StreamTypes
  <2> QED BY <2>4, <2>5, <2>6
<1>6. CASE conn = "none"
  BY <1>6 DEF Queue, StreamTypes
<1> QED BY <1>3, <1>4, <1>5, <1>6

\* A replay is the chunks from ReplayFrom on, in order.
LEMMA ReplayTypes ==
  ASSUME StreamTypes, NEW n \in Nat
  PROVE  /\ ReplayFrom(n) \in Nat /\ ReplayFrom(n) >= n /\ ReplayFrom(n) >= base
         /\ ReplayFrom(n) + ReplayBudget >= tail
         /\ ReplayFrom(n) = n \/ ReplayFrom(n) = base \/ ReplayFrom(n) + ReplayBudget = tail
         /\ Replay(n) \in Seq(Sendable)
         /\ \A r \in Nat : tail = ReplayFrom(n) + r => Len(Replay(n)) = r
         /\ tail <= ReplayFrom(n) => Len(Replay(n)) = 0
         /\ \A i \in DOMAIN Replay(n) : Replay(n)[i] = Output(ReplayFrom(n) + i - 1)
<1> DEFINE c == IF tail > ReplayBudget THEN tail - ReplayBudget ELSE 0
           f == ReplayFrom(n)
           r == IF tail > f THEN tail - f ELSE 0
<1>1. base \in Nat /\ tail \in Nat /\ ReplayBudget \in Nat
  BY ScreenCells DEF StreamTypes, Bounds
<1>2. c \in Nat /\ c + ReplayBudget >= tail /\ (c = 0 \/ c + ReplayBudget = tail)
  BY <1>1
<1> HIDE DEF c
<1>3. f = CHOOSE x \in {n, base, c} : \A y \in {n, base, c} : x >= y
  BY DEF ReplayFrom, Max, c
<1>4. f \in {n, base, c} /\ \A y \in {n, base, c} : f >= y
  <2>1. \E x \in {n, base, c} : \A y \in {n, base, c} : x >= y
    BY <1>1, <1>2
  <2> HIDE DEF f
  <2> QED BY <1>3, <2>1
<1> HIDE DEF f
<1>5. f \in Nat /\ f >= n /\ f >= base /\ f + ReplayBudget >= tail
      /\ (f = n \/ f = base \/ f + ReplayBudget = tail)
  BY <1>1, <1>2, <1>4
<1>6. r \in Nat /\ \A i \in 1..r : f + i - 1 \in Nat
  BY <1>1, <1>5
<1>7. Replay(n) = [i \in 1..r |-> Output(f + i - 1)]
  BY DEF Replay, f
<1> HIDE DEF r
<1>8. \A i \in 1..r : Output(f + i - 1) \in Sendable
  BY <1>6, OutputFrame
<1>9. Replay(n) \in Seq(Sendable) /\ Len(Replay(n)) = r /\ DOMAIN Replay(n) = 1..r
  <2>1. [i \in 1..r |-> Output(f + i - 1)] \in [1..r -> Sendable]
    BY <1>8
  <2>2. Replay(n) \in [1..r -> Sendable]
    BY <1>7, <2>1
  <2>3. Replay(n) \in Seq(Sendable)
    BY <1>6, <2>2, IsASeq, SeqDef
  <2> QED BY <1>6, <2>2, <2>3, LenProperties
<1>10. \A i \in 1..r : Replay(n)[i] = Output(f + i - 1)
  BY <1>7
<1>11. /\ \A x \in Nat : tail = f + x => r = x
       /\ tail <= f => r = 0
  BY <1>1, <1>5 DEF r
<1> QED BY <1>5, <1>9, <1>10, <1>11 DEF f

\* A connection needs a Bridge, and a Bridge that is not up carries nothing.
StreamShape ==
  /\ bridge # "up" => down = <<>> /\ hello_accepted = FALSE
  /\ conn = "linked" => bridge = "up"

\* The offset that is saved is a number.
LEMMA ObservedTypes ==
  ASSUME StreamTypes, NEW n \in Nat
  PROVE  Observed(n) \in Nat
<1> DEFINE seen == Max({n + 1, offset})
<1>1. offset \in Nat /\ saved \in Nat
  BY DEF StreamTypes
<1>2. seen = CHOOSE x \in {n + 1, offset} : \A y \in {n + 1, offset} : x >= y
  BY DEF Max
<1>3. \E x \in {n + 1, offset} : \A y \in {n + 1, offset} : x >= y
  BY <1>1
<1> HIDE DEF seen
<1>4. seen \in {n + 1, offset}
  BY <1>2, <1>3
<1>5. Observed(n) = IF seen >= saved + PersistInterval THEN seen ELSE saved
  BY DEF Observed, seen
<1> QED BY <1>1, <1>4, <1>5

\* The head of what is there is a frame, and the rest are frames.
LEMMA HeadTypes ==
  ASSUME StreamTypes, down # <<>>
  PROVE  Head(down) \in Sendable /\ Tail(down) \in Seq(Sendable)
<1>1. down \in Seq(Sendable)
  BY DEF StreamTypes
<1> QED BY <1>1, HeadTailProperties

\* Disconnecting only forgets.
LEMMA DisconnectTypes ==
  ASSUME StreamTypes, Disconnect
  PROVE  /\ down' \in Seq(Sendable) /\ conn' \in {"none", "linked", "stale"} /\ conn' # "linked"
         /\ hello_accepted' \in BOOLEAN
         /\ down' = <<>> /\ hello_accepted' = FALSE /\ bridge' = "none"
         /\ UNCHANGED <<tail, base, last_cells, snapshot_sequence, dirty, exit_recorded,
                        outbound, flushed, begun, streamHistory>>
  BY EmptySeq DEF Disconnect, Unlink, StreamTypes

\* A greeting is frames that can be sent.
LEMMA GreetingTypes ==
  ASSUME StreamTypes, NEW s \in Nat
  PROVE  Greeting(s) \in Seq(Sendable)
<1>1. Replay(offset) \in Seq(Sendable)
  BY ReplayTypes DEF StreamTypes
<1>2. HelloAck(exit_recorded) \in Sendable /\ ControlGranted \in Sendable
  BY OtherFrames DEF StreamTypes
<1>3. FullSnapshot(s, Screen[tail]) \in Sendable
  BY ScreenCells, SnapshotFrame DEF StreamTypes, Bounds
<1>4. /\ <<HelloAck(exit_recorded)>> \in Seq(Sendable)
      /\ <<FullSnapshot(s, Screen[tail]), ControlGranted>> \in Seq(Sendable)
  BY <1>2, <1>3
<1> QED BY <1>1, <1>4, ConcatProperties DEF Greeting

\* Engine fields that a Holder's step leaves alone keep their types.
LEMMA TypesStep ==
  ASSUME StreamTypes, StreamNext
  PROVE  StreamTypes'
<1>0. tail \in Nat /\ tail <= MaxOutput /\ tail + 1 \in Nat /\ snapshot_sequence + 1 \in Nat /\ offset \in Nat
      /\ restarts + 1 \in Nat
  BY ScreenCells DEF StreamTypes, Bounds
<1>s. Screen[tail] \in Rows
  BY ScreenCells DEF StreamTypes, Bounds
<1>1. CASE DrainPty
  <2>1. tail' = tail + 1 /\ tail + 1 \in 0..MaxOutput /\ Output(tail) \in Sendable
    BY <1>0, <1>1, ScreenCells, OutputFrame DEF DrainPty, Bounds
  <2>2. Screen[tail + 1] \in Rows
    BY <2>1, ScreenCells DEF Bounds
  <2>3. base' \in Nat
    <3>1. /\ LogCapacity \div 2 \in Nat /\ LogCapacity \in Nat
          /\ LogCapacity \div 2 <= LogCapacity
      BY ScreenCells DEF Bounds
    <3>2. base \in Nat /\ tail \in Nat
      BY <1>0 DEF StreamTypes
    <3>3. base' = IF tail + 1 - base > LogCapacity
                  THEN tail + 1 - (LogCapacity \div 2) ELSE base
      BY <1>1 DEF DrainPty
    <3>4. CASE tail + 1 - base > LogCapacity
      <4>1. base' = tail + 1 - (LogCapacity \div 2)
        BY <3>3, <3>4
      <4> QED BY ONLY <3>1, <3>2, <3>4, <4>1
    <3>5. CASE ~(tail + 1 - base > LogCapacity)
      BY ONLY <3>2, <3>3, <3>5
    <3> QED BY <3>4, <3>5
  <2>4. last_cells' = NoCells \/ \E n \in 0..tail' : last_cells' = Screen[n]
    BY <1>0, <1>1, <2>1 DEF DrainPty, StreamTypes
  <2>5. Queue(Output(tail), snapshot_sequence, Screen[tail + 1]) /\ snapshot_sequence \in Nat
    BY <1>1 DEF DrainPty, StreamTypes
  <2>6. /\ conn' \in {"none", "linked", "stale"} /\ outbound' \in Seq(Sendable)
        /\ flushed' \in Nat /\ begun' \in BOOLEAN /\ snapshot_sequence' \in Nat
        /\ ungreeted' \in BOOLEAN
    BY <2>1, <2>2, <2>5, QueueTypes
  <2>7. dirty' = TRUE /\ UNCHANGED <<exit_recorded, bridge, down, engineVars, streamCounts>>
    BY <1>1 DEF DrainPty
  <2> QED BY <2>1, <2>3, <2>4, <2>6, <2>7 DEF StreamTypes, engineVars, streamCounts
<1>2. CASE RecordAgentExit
  <2>1. Queue(ProcessExit, snapshot_sequence, Screen[tail]) /\ snapshot_sequence \in Nat
    BY <1>2 DEF RecordAgentExit, StreamTypes
  <2>2. /\ conn' \in {"none", "linked", "stale"} /\ outbound' \in Seq(Sendable)
        /\ flushed' \in Nat /\ begun' \in BOOLEAN /\ snapshot_sequence' \in Nat
        /\ ungreeted' \in BOOLEAN
    BY <1>s, <2>1, QueueTypes, OtherFrames
  <2>3. exit_recorded' = TRUE
        /\ UNCHANGED <<tail, base, last_cells, dirty, bridge, down, engineVars, streamCounts>>
    BY <1>2 DEF RecordAgentExit
  <2> QED BY <2>2, <2>3 DEF StreamTypes, engineVars, streamCounts
<1>3. CASE Handshake
  <2>1. outbound' \in Seq(Sendable) /\ snapshot_sequence' = snapshot_sequence + 1
    BY <1>0, <1>3, GreetingTypes DEF Handshake
  <2> QED BY <1>0, <1>3, <2>1 DEF Handshake, StreamTypes, engineVars, streamCounts
<1>4. CASE FlushConnection
  <2>1. PICK k \in 0..Len(outbound) :
          /\ down' = IF conn = "linked" THEN down \o SubSeq(outbound, 1, k) ELSE down
          /\ outbound' = SubSeq(outbound, k + 1, Len(outbound))
          /\ begun' = (k < Len(outbound))
          /\ flushed' = IF k < Len(outbound) THEN flushed + k ELSE 0
    BY <1>4 DEF FlushConnection
  <2>2. outbound \in Seq(Sendable) /\ down \in Seq(Sendable) /\ flushed \in Nat /\ Len(outbound) \in Nat
    BY LenProperties DEF StreamTypes
  <2>3. /\ SubSeq(outbound, 1, k) \in Seq(Sendable)
        /\ SubSeq(outbound, k + 1, Len(outbound)) \in Seq(Sendable)
    <3>1. \A i \in 1..Len(outbound) : outbound[i] \in Sendable
      BY <2>2, ElementOfSeq
    <3> QED BY ONLY k \in 0..Len(outbound), <2>2, <3>1, SubSeqProperties, SMTT(30)
  <2>4. /\ down' \in Seq(Sendable) /\ outbound' \in Seq(Sendable) /\ begun' \in BOOLEAN
        /\ flushed' \in Nat
    BY <2>1, <2>2, <2>3, ConcatProperties
  <2> QED BY <1>4, <2>4 DEF FlushConnection, StreamTypes, engineVars, streamCounts, streamHistory
<1>5. CASE EmitGridDelta
  <2>1. dirty' = FALSE
        /\ UNCHANGED <<tail, base, exit_recorded, bridge, down, engineVars, streamCounts>>
    BY <1>5 DEF EmitGridDelta
  <2>2. CASE conn = "none"
    BY <1>5, <2>1, <2>2 DEF EmitGridDelta, StreamTypes, engineVars, streamCounts, queueVars, streamHistory
  <2>3. CASE conn # "none"
    <3> DEFINE s == snapshot_sequence + 1
               m == IF last_cells = NoCells THEN FullSnapshot(s, Screen[tail])
                    ELSE GridDelta(s, Changed(Screen[tail]))
    <3>1. last_cells' = Screen[tail] /\ Queue(m, s, Screen[tail])
      BY <1>5, <2>3 DEF EmitGridDelta
    <3>2. Changed(Screen[tail]) \in Cells
      BY <1>s DEF Changed, Cells, Rows
    <3>3. m \in Sendable /\ s \in Nat
      BY <1>0, <1>s, <3>2, SnapshotFrame, DeltaFrame
    <3> HIDE DEF m, s
    <3>4. /\ conn' \in {"none", "linked", "stale"} /\ outbound' \in Seq(Sendable)
          /\ flushed' \in Nat /\ begun' \in BOOLEAN /\ snapshot_sequence' \in Nat
          /\ ungreeted' \in BOOLEAN
      BY <1>s, <3>1, <3>3, QueueTypes
    <3>5. \E n \in 0..tail' : last_cells' = Screen[n]
      BY <1>0, <2>1, <3>1
    <3> QED BY <2>1, <3>4, <3>5 DEF StreamTypes, engineVars, streamCounts
  <2> QED BY <2>2, <2>3
<1>6. CASE DropStale
  <2>1. <<>> \in Seq(Sendable)
    BY EmptySeq
  <2> QED BY <1>6, <2>1 DEF DropStale, StreamTypes, engineVars, streamCounts, streamHistory
<1>7. CASE Resize
  <2>1. outbound' \in Seq(Sendable)
    <3>1. FullSnapshot(snapshot_sequence + 1, Screen[tail]) \in Sendable
      BY <1>0, <1>s, SnapshotFrame
    <3>2. outbound' = Append(outbound, FullSnapshot(snapshot_sequence + 1, Screen[tail]))
      BY <1>7 DEF Resize
    <3> QED BY <3>1, <3>2, AppendProperties DEF StreamTypes
  <2> QED BY <1>0, <1>7, <2>1 DEF Resize, StreamTypes, engineVars
<1>8. CASE Connect
  BY <1>8 DEF Connect, StreamTypes, engineVars, streamCounts, holderVars, queueVars, streamHistory
<1>9. CASE LinkLost
  <2>1. Disconnect /\ UNCHANGED <<offset, mirror, saved, log, restarts>>
    BY <1>9 DEF LinkLost, Reconnect
  <2> QED BY <2>1, DisconnectTypes DEF StreamTypes, streamHistory
<1>10. CASE EngineRestart
  <2>1. conn' \in {"none", "linked", "stale"} /\ down' \in Seq(Sendable)
    BY <1>10, EmptySeq DEF EngineRestart, Unlink, StreamTypes
  <2>2. saved' \in Nat
    <3>1. CASE saved' = saved
      BY <3>1 DEF StreamTypes
    <3>2. CASE down # <<>> /\ Head(down).type = "Output" /\ saved' = Observed(Head(down).offset)
      BY <3>2, HeadTypes, FrameKinds, ObservedTypes
    <3> QED BY <1>10, <3>1, <3>2 DEF EngineRestart
  <2>3. mirror'.sequence = 0 /\ mirror'.cells = NoCells
    BY <1>10 DEF EngineRestart
  <2>4. mirror'.sequence \in Nat /\ mirror'.cells \in Cells
    BY <2>3 DEF Cells
  <2> QED BY <1>0, <1>10, <2>1, <2>2, <2>4 DEF EngineRestart, StreamTypes, streamHistory
<1>11. CASE Receive
  <2>1. down # <<>>
    BY <1>11 DEF Receive, ReceiveUnexpected, ReceiveHelloAck, ReceiveOutput, ReceiveSnapshot,
                 ReceiveDelta, ReceiveExit, ReceiveOther, Frame
  <2>2. Head(down) \in Sendable /\ Tail(down) \in Seq(Sendable)
    BY <2>1, HeadTypes
  <2>3. ASSUME Disconnect, UNCHANGED <<offset, mirror, saved, log, streamCounts>>
        PROVE  StreamTypes'
    BY <2>3, DisconnectTypes DEF StreamTypes, streamCounts, streamHistory
  <2>4. ASSUME Handled, UNCHANGED <<offset, mirror, saved, log>>, hello_accepted' \in BOOLEAN
        PROVE  StreamTypes'
    BY <2>2, <2>4 DEF Handled, StreamTypes, holderVars, queueVars, streamHistory, streamCounts
  <2>5. CASE ReceiveUnexpected
    BY <2>3, <2>5 DEF ReceiveUnexpected, EndPump
  <2>6. CASE ReceiveHelloAck
    BY <2>3, <2>4, <2>6 DEF ReceiveHelloAck, EndPump
  <2>7. CASE ReceiveOutput
    <3>1. Head(down).offset \in Nat
      BY <2>2, <2>7, FrameKinds DEF ReceiveOutput, Frame
    <3>2. saved' \in Nat
      BY <2>7, <3>1, ObservedTypes DEF ReceiveOutput
    <3>3. offset' \in Nat /\ log' \in Seq(Nat)
      <4>1. Append(log, Head(down).offset) \in Seq(Nat)
        BY <3>1, AppendProperties DEF StreamTypes
      <4>2. \/ offset' = offset /\ log' = log
            \/ offset' = Head(down).offset + 1 /\ log' = Append(log, Head(down).offset)
        BY <2>7 DEF ReceiveOutput
      <4>3. offset \in Nat /\ log \in Seq(Nat) /\ Head(down).offset + 1 \in Nat
        BY <3>1 DEF StreamTypes
      <4> QED BY <4>1, <4>2, <4>3
    <3> QED BY <2>2, <2>7, <3>2, <3>3
       DEF ReceiveOutput, Handled, StreamTypes, holderVars, queueVars, streamHistory, streamCounts
  <2>8. CASE ReceiveSnapshot
    <3>1. mirror'.sequence \in Nat /\ mirror'.cells \in Cells
      BY <2>2, <2>8, FrameKinds DEF ReceiveSnapshot, Frame
    <3> QED BY <2>2, <2>8, <3>1
       DEF ReceiveSnapshot, Handled, StreamTypes, holderVars, queueVars, streamHistory, streamCounts
  <2>9. CASE ReceiveDelta
    <3>1. CASE ~DeltaApplies(Head(down))
      BY <2>3, <2>9, <3>1 DEF ReceiveDelta, Reconnect
    <3>2. CASE DeltaApplies(Head(down))
      <4>1. mirror'.sequence \in Nat /\ mirror'.cells \in Cells
        BY <2>2, <2>9, <3>2, FrameKinds DEF ReceiveDelta, Frame, StreamTypes
      <4> QED BY <2>2, <2>9, <3>2, <4>1
         DEF ReceiveDelta, Handled, StreamTypes, holderVars, queueVars, streamHistory, streamCounts
    <3> QED BY <3>1, <3>2
  <2>10. CASE ReceiveExit
    BY <2>3, <2>10 DEF ReceiveExit, EndPump
  <2>11. CASE ReceiveOther
    BY <2>4, <2>11 DEF ReceiveOther, engineVars, StreamTypes
  <2> QED BY <1>11, <2>5, <2>6, <2>7, <2>8, <2>9, <2>10, <2>11 DEF Receive
<1> QED BY <1>1, <1>2, <1>3, <1>4, <1>5, <1>6, <1>7, <1>8, <1>9, <1>10, <1>11
   DEF StreamNext, Holder

\* Frames are under way only to an Engine whose Bridge is up.
LEMMA ShapeStep ==
  ASSUME StreamTypes, StreamShape, StreamNext
  PROVE  StreamShape'
<1>1. CASE DrainPty
  <2>1. UNCHANGED <<bridge, down, hello_accepted>>
    BY <1>1 DEF DrainPty, engineVars
  <2>2. conn' = "linked" => conn = "linked"
    BY <1>1 DEF DrainPty, Queue
  <2> QED BY <2>1, <2>2 DEF StreamShape
<1>2. CASE RecordAgentExit
  <2>1. UNCHANGED <<bridge, down, hello_accepted>>
    BY <1>2 DEF RecordAgentExit, engineVars
  <2>2. conn' = "linked" => conn = "linked"
    BY <1>2 DEF RecordAgentExit, Queue
  <2> QED BY <2>1, <2>2 DEF StreamShape
<1>3. CASE Handshake
  BY <1>3 DEF Handshake, StreamShape
<1>4. CASE FlushConnection
  <2>1. conn = "linked" \/ down' = down
    BY <1>4 DEF FlushConnection
  <2>2. UNCHANGED <<bridge, conn, hello_accepted>>
    BY <1>4 DEF FlushConnection, engineVars
  <2> QED BY <2>1, <2>2 DEF StreamShape
<1>5. CASE EmitGridDelta
  <2>1. UNCHANGED <<bridge, down, hello_accepted>>
    BY <1>5 DEF EmitGridDelta, engineVars
  <2>2. conn' = "linked" => conn = "linked"
    BY <1>5 DEF EmitGridDelta, Queue, queueVars
  <2> QED BY <2>1, <2>2 DEF StreamShape
<1>6. CASE DropStale
  BY <1>6 DEF DropStale, StreamShape, engineVars
<1>7. CASE Resize
  BY <1>7 DEF Resize, StreamShape, engineVars
<1>8. CASE Connect
  BY <1>8 DEF Connect, StreamShape, engineVars, holderVars, queueVars, streamHistory
<1>9. ASSUME Disconnect PROVE StreamShape'
  BY <1>9, DisconnectTypes DEF StreamShape
<1>10. CASE LinkLost
  BY <1>9, <1>10 DEF LinkLost, Reconnect
<1>11. CASE EngineRestart
  BY <1>11 DEF EngineRestart, StreamShape, Unlink
<1>12. CASE Receive
  <2>1. bridge = "up"
    BY <1>12 DEF Receive, ReceiveUnexpected, ReceiveHelloAck, ReceiveOutput, ReceiveSnapshot,
                 ReceiveDelta, ReceiveExit, ReceiveOther, Frame
  <2>2. Disconnect \/ (bridge' = bridge)
    BY <1>12 DEF Receive, ReceiveUnexpected, ReceiveHelloAck, ReceiveOutput, ReceiveSnapshot,
                 ReceiveDelta, ReceiveExit, ReceiveOther, EndPump, Reconnect, Handled
  <2> QED BY <1>9, <2>1, <2>2 DEF StreamShape
<1> QED BY <1>1, <1>2, <1>3, <1>4, <1>5, <1>6, <1>7, <1>8, <1>10, <1>11, <1>12
   DEF StreamNext, Holder

-----------------------------------------------------------------------------
(***************************************************************************)
(* What each step does to the stream.                                      *)
(***************************************************************************)
LEMMA StreamIs ==
  ASSUME StreamTypes
  PROVE  /\ Stream \in Seq(Sendable)
         /\ conn = "linked" => Stream = down \o outbound
         /\ conn # "linked" => Stream = down
         /\ \E t \in Seq(Sendable) : Stream = down \o t
<1>1. down \in Seq(Sendable) /\ outbound \in Seq(Sendable) /\ <<>> \in Seq(Sendable)
  BY EmptySeq DEF StreamTypes
<1>2. down \o <<>> = down /\ down \o outbound \in Seq(Sendable)
  BY <1>1, ConcatEmptySeq, ConcatProperties
<1>3. /\ conn = "linked" => Stream = down \o outbound
      /\ conn # "linked" => Stream = down \o <<>>
  BY DEF Stream
<1> QED BY <1>1, <1>2, <1>3

\* Queued last, a frame is last in the stream.
LEMMA AppendedFrame ==
  ASSUME NEW T, NEW s \in Seq(T), NEW t \in Seq(T), NEW m \in T
  PROVE  s \o Append(t, m) = Append(s \o t, m)
<1>1. Append(t, m) = t \o <<m>> /\ <<m>> \in Seq(T)
  BY AppendIsConcat
<1>2. s \o t \in Seq(T)
  BY ConcatProperties
<1>3. Append(s \o t, m) = (s \o t) \o <<m>>
  BY <1>2, AppendIsConcat
<1> QED BY <1>1, <1>3, ConcatAssociative

\* A connected Holder puts a frame it queues at the end of the stream.
LEMMA SentMove ==
  ASSUME StreamTypes, NEW m \in Sendable, conn = "linked", conn' = "linked", down' = down,
         outbound' = Append(outbound, m)
  PROVE  Stream' = Append(Stream, m)
<1>1. down \in Seq(Sendable) /\ outbound \in Seq(Sendable)
  BY DEF StreamTypes
<1>2. Stream = down \o outbound /\ Stream' = down \o Append(outbound, m)
  BY DEF Stream
<1> QED BY <1>1, <1>2, AppendedFrame

\* A frame is queued: it joins the stream, or what was queued is lost with
\* the connection, or is replaced by a snapshot.
Queued(m, seq, cells) ==
  \/ /\ conn = "linked" /\ conn' = "linked" /\ Stream' = Append(Stream, m)
     /\ snapshot_sequence' = seq /\ UNCHANGED <<discarded, ungreeted>> /\ Fits(m)
  \/ /\ conn = "linked" /\ conn' = "linked" /\ snapshot_sequence' = seq + 1
     /\ Stream' = Append(Append(down, Error), FullSnapshot(seq + 1, cells))
     /\ discarded' = discarded \cup Offsets(Append(outbound, m))
     /\ ungreeted' = (ungreeted \/ HasHelloAck(outbound))
     /\ ~begun /\ ~Fits(m)
  \/ conn' # "linked" /\ Stream' = down /\ UNCHANGED <<discarded, ungreeted>>

\* queue: the frame joins the stream, or the buffer is given up with it.
LEMMA QueueMoves ==
  ASSUME StreamTypes, StreamTypes', NEW m \in Sendable, NEW seq \in Nat, NEW cells \in Rows,
         Queue(m, seq, cells), down' = down
  PROVE  Queued(m, seq, cells)
<1>1. /\ conn = "linked" => Stream = down \o outbound
      /\ conn' = "linked" => Stream' = down \o outbound'
      /\ conn' # "linked" => Stream' = down
  <2>1. /\ conn = "linked" => Stream = down \o outbound
        /\ conn # "linked" => Stream = down
    BY StreamIs
  <2>2. /\ conn' = "linked" => Stream' = down' \o outbound'
        /\ conn' # "linked" => Stream' = down' \o <<>>
    BY DEF Stream
  <2>3. down \o <<>> = down
    BY ConcatEmptySeq DEF StreamTypes
  <2> QED BY <2>1, <2>2, <2>3
<1>2. down \in Seq(Sendable) /\ outbound \in Seq(Sendable)
  BY DEF StreamTypes
<1>3. down \o Append(outbound, m) = Append(down \o outbound, m)
  BY <1>2, AppendedFrame
<1>4. down \o <<Error, FullSnapshot(seq + 1, cells)>> = Append(Append(down, Error), FullSnapshot(seq + 1, cells))
  <2> DEFINE f == FullSnapshot(seq + 1, cells)
  <2>1. f \in Sendable /\ Error \in Sendable
    BY SnapshotFrame, OtherFrames
  <2> HIDE DEF f
  <2>2. <<Error>> \in Seq(Sendable) /\ <<f>> \in Seq(Sendable) /\ <<Error, f>> = <<Error>> \o <<f>>
    BY <2>1
  <2>3. Append(down, Error) = down \o <<Error>> /\ Append(down, Error) \in Seq(Sendable)
    BY <1>2, <2>1, AppendIsConcat, AppendProperties
  <2>4. Append(Append(down, Error), f) = Append(down, Error) \o <<f>>
    BY <2>1, <2>3, AppendIsConcat
  <2>5. (down \o <<Error>>) \o <<f>> = down \o (<<Error>> \o <<f>>)
    BY <1>2, <2>2, ConcatAssociative
  <2>6. down \o <<Error, f>> = Append(Append(down, Error), f)
    BY <2>2, <2>3, <2>4, <2>5
  <2> QED BY <2>6 DEF f
<1>5. CASE conn # "none" /\ Fits(m)
  <2>1. /\ outbound' = Append(outbound, m) /\ snapshot_sequence' = seq
        /\ UNCHANGED <<conn, discarded, ungreeted>>
    BY <1>5 DEF Queue
  <2> QED BY <1>1, <1>3, <1>5, <2>1 DEF Queued
<1>6. CASE conn # "none" /\ ~Fits(m) /\ begun
  <2>1. conn' = "none" /\ UNCHANGED <<discarded, ungreeted>>
    BY <1>6 DEF Queue
  <2> QED BY <1>1, <2>1 DEF Queued
<1>7. CASE conn # "none" /\ ~Fits(m) /\ ~begun
  <2>1. /\ conn' = conn /\ outbound' = <<Error, FullSnapshot(seq + 1, cells)>>
        /\ snapshot_sequence' = seq + 1
        /\ discarded' = discarded \cup
             (IF conn = "linked" THEN Offsets(Append(outbound, m)) ELSE {})
        /\ ungreeted' = (ungreeted \/ (conn = "linked" /\ HasHelloAck(outbound)))
    BY <1>7 DEF Queue
  <2>2. CASE conn = "linked"
    <3>1. ungreeted' = (ungreeted \/ HasHelloAck(outbound))
      BY <2>1, <2>2, Zenon
    <3> QED BY <1>1, <1>4, <1>7, <2>1, <2>2, <3>1 DEF Queued
  <2>3. CASE conn # "linked"
    <3>1. discarded' = discarded
      BY <2>1, <2>3
    <3>2. ungreeted' = ungreeted
      BY <2>1, <2>3, Zenon DEF StreamTypes
    <3> QED BY <1>1, <2>1, <2>3, <3>1, <3>2 DEF Queued
  <2> QED BY <2>2, <2>3
<1>8. CASE conn = "none"
  <2>1. UNCHANGED <<conn, discarded, ungreeted>>
    BY <1>8 DEF Queue
  <2> QED BY <1>1, <1>8, <2>1 DEF Queued
<1> QED BY <1>5, <1>6, <1>7, <1>8

\* Frames move from the buffer to the Bridge, a broken connection goes, a
\* Bridge is opened: the stream stays.
StreamQuiet ==
  /\ UNCHANGED <<hello_accepted, mirror, offset, log, exited, restarts>>
  /\ Stream' = Stream /\ UNCHANGED <<tail, exit_recorded, discarded, ungreeted, shown, returned>>
  /\ bridge' = bridge \/ exited = "no"
  /\ conn' = "linked" => conn = "linked" /\ UNCHANGED <<snapshot_sequence, dirty>>

\* The Engine gives the Bridge up.
Cleared ==
  /\ Stream' = <<>> /\ conn' # "linked" /\ hello_accepted' = FALSE
  /\ bridge' = "none" /\ UNCHANGED <<tail, exit_recorded, discarded, ungreeted, shown, returned>>

\* The Engine handles the head of the stream.
Popped ==
  /\ Stream # <<>> /\ Stream' = Tail(Stream) /\ Head(Stream) = Head(down)
  /\ UNCHANGED <<conn, bridge, tail, snapshot_sequence, dirty, exit_recorded, restarts,
                 discarded, ungreeted, shown, returned>>

\* ConcatAssociative, as a fact about one operator.
Associates(x, y, z) == (x \o y) \o z = x \o (y \o z)
LEMMA Associative == \A T : \A x, y, z \in Seq(T) : Associates(x, y, z)
  BY ConcatAssociative, Zenon DEF Associates

\* A buffer whose first k frames went on is what it was, after what is there.
LEMMA FlushedFrames ==
  ASSUME NEW s \in Seq(Sendable), NEW t \in Seq(Sendable), NEW k \in 0..Len(t)
  PROVE  (s \o SubSeq(t, 1, k)) \o SubSeq(t, k + 1, Len(t)) = s \o t
<1>1. PICK n \in Nat : n = Len(t) /\ k \in 0..n
  BY LenProperties
<1>2. SubSeq(t, 1, k) \o SubSeq(t, k + 1, n) = t
  <2>1. 1 \in 1..(n + 1) /\ k \in (1 - 1)..n /\ n \in k..n
    BY <1>1
  <2>2. SubSeq(t, 1, k) \o SubSeq(t, k + 1, n) = SubSeq(t, 1, n)
    BY <1>1, <2>1, ConcatAdjacentSubSeq
  <2> QED BY <1>1, <2>2, SubSeqFull
<1>3. PICK a, b \in Seq(Sendable) : a = SubSeq(t, 1, k) /\ b = SubSeq(t, k + 1, n)
  <2>1. \A i \in 1..n : t[i] \in Sendable
    BY <1>1, ElementOfSeq
  <2>2. SubSeq(t, 1, k) \in Seq(Sendable) /\ SubSeq(t, k + 1, n) \in Seq(Sendable)
    BY <1>1, <2>1, SubSeqProperties
  <2> QED BY <2>2
<1>4. (s \o a) \o b = s \o (a \o b)
  <2>1. Associates(s, a, b)
    BY ONLY s \in Seq(Sendable), a \in Seq(Sendable), b \in Seq(Sendable), Associative
  <2> QED BY <2>1 DEF Associates
<1> QED BY <1>1, <1>2, <1>3, <1>4

\* Writing to the socket, noticing a broken Bridge and connecting leave the stream alone.
LEMMA QuietSteps ==
  ASSUME StreamTypes, StreamTypes',
         FlushConnection \/ DropStale \/ Connect \/ (EmitGridDelta /\ conn = "none")
  PROVE  StreamQuiet
<1>1. /\ conn = "linked" => Stream = down \o outbound
      /\ conn # "linked" => Stream = down
  BY StreamIs
<1>2. /\ conn' = "linked" => Stream' = down' \o outbound'
      /\ conn' # "linked" => Stream' = down'
  <2>1. down' \o <<>> = down'
    BY ConcatEmptySeq DEF StreamTypes
  <2> QED BY <2>1 DEF Stream
<1>3. CASE FlushConnection
  <2>1. PICK k \in 0..Len(outbound) :
          /\ down' = IF conn = "linked" THEN down \o SubSeq(outbound, 1, k) ELSE down
          /\ outbound' = SubSeq(outbound, k + 1, Len(outbound))
    BY <1>3 DEF FlushConnection
  <2>2. outbound \in Seq(Sendable) /\ down \in Seq(Sendable)
    BY DEF StreamTypes
  <2>3. (down \o SubSeq(outbound, 1, k)) \o SubSeq(outbound, k + 1, Len(outbound)) = down \o outbound
    BY <2>2, FlushedFrames
  <2>7. conn' = conn
    BY <1>3 DEF FlushConnection
  <2>8. Stream' = Stream
    <3>1. CASE conn = "linked"
      BY <1>1, <1>2, <2>1, <2>3, <2>7, <3>1
    <3>2. CASE conn # "linked"
      BY <1>1, <1>2, <2>1, <2>7, <3>2
    <3> QED BY <3>1, <3>2
  <2> QED BY <1>3, <2>8 DEF FlushConnection, StreamQuiet, engineVars, streamCounts, streamHistory
<1>4. CASE DropStale
  BY <1>1, <1>2, <1>4 DEF DropStale, StreamQuiet, engineVars, streamCounts, streamHistory
<1>5. CASE Connect
  BY <1>1, <1>2, <1>5
  DEF Connect, StreamQuiet, engineVars, streamCounts, holderVars, queueVars, streamHistory
<1>6. CASE EmitGridDelta /\ conn = "none"
  <2>1. UNCHANGED <<tail, base, exit_recorded, bridge, down, engineVars, streamCounts>>
        /\ UNCHANGED <<conn, outbound, streamHistory>>
    BY <1>6 DEF EmitGridDelta, queueVars
  <2> QED BY <1>1, <1>2, <1>6, <2>1 DEF StreamQuiet, engineVars, streamCounts, streamHistory
<1> QED BY <1>3, <1>4, <1>5, <1>6

\* Disconnecting and restarting leave nothing under way.
LEMMA ClearingSteps ==
  ASSUME StreamTypes, Disconnect \/ EngineRestart
  PROVE  Cleared
<1>1. /\ down' = <<>> /\ conn' # "linked" /\ hello_accepted' = FALSE
      /\ bridge' = "none" /\ UNCHANGED <<tail, exit_recorded, discarded, ungreeted, shown, returned>>
  BY DEF Disconnect, EngineRestart, Unlink, streamHistory
<1>2. Stream' = <<>>
  <2>1. <<>> \in Seq(Sendable) /\ <<>> \o <<>> = <<>>
    BY EmptySeq, ConcatEmptySeq
  <2> QED BY <1>1, <2>1 DEF Stream
<1> QED BY <1>1, <1>2 DEF Cleared

\* Handling a frame takes it off the stream.
LEMMA PoppingSteps ==
  ASSUME StreamTypes, Handled, down # <<>>
  PROVE  Popped
<1>1. /\ down' = Tail(down)
      /\ UNCHANGED <<conn, bridge, outbound, tail, snapshot_sequence, dirty, exit_recorded,
                     restarts, discarded, ungreeted, shown, returned>>
  BY DEF Handled, holderVars, queueVars, streamHistory, streamCounts
<1>2. PICK t \in Seq(Sendable) : t = IF conn = "linked" THEN outbound ELSE <<>>
  BY EmptySeq DEF StreamTypes
<1>3. Stream = down \o t /\ Stream' = Tail(down) \o t
  BY <1>1, <1>2 DEF Stream
<1>4. down \in Seq(Sendable) /\ Head(down) \in Sendable /\ Tail(down) \in Seq(Sendable)
      /\ down = <<Head(down)>> \o Tail(down)
  <2>1. down \in Seq(Sendable)
    BY DEF StreamTypes
  <2>2. Head(down) \in Sendable /\ Tail(down) \in Seq(Sendable)
    BY <2>1, HeadTailProperties
  <2>3. down = <<Head(down)>> \o Tail(down)
    BY <2>1, <2>2
  <2> QED BY <2>1, <2>2, <2>3
<1>5. <<Head(down)>> \o Tail(down) \o t = <<Head(down)>> \o (Tail(down) \o t)
  <2>1. <<Head(down)>> \in Seq(Sendable)
    BY <1>4
  <2> QED BY <1>2, <1>4, <2>1, ConcatAssociative
<1>6. PICK u \in Seq(Sendable) : u = Tail(down) \o t
  BY <1>2, <1>4, ConcatProperties
<1>7. Stream = <<Head(down)>> \o u /\ Stream' = u
  BY <1>3, <1>4, <1>5, <1>6
<1>8. Stream # <<>> /\ Head(Stream) = Head(down) /\ Tail(Stream) = u
  <2> DEFINE h == Head(down)
  <2>1. h \in Sendable
    BY <1>4
  <2> HIDE DEF h
  <2>2. <<h>> \o u # <<>> /\ Head(<<h>> \o u) = h /\ Tail(<<h>> \o u) = u
    BY <2>1, <1>6
  <2> QED BY <1>7, <2>2 DEF h
<1> QED BY <1>1, <1>7, <1>8 DEF Popped

\* The frame the Engine has at hand is the first of the stream.
LEMMA HeadOfStream ==
  ASSUME StreamTypes, down # <<>>
  PROVE  Stream # <<>> /\ Head(Stream) = Head(down)
<1>1. PICK t \in Seq(Sendable) : Stream = down \o t
  BY StreamIs
<1>2. down \in Seq(Sendable) /\ Head(down) \in Sendable /\ Tail(down) \in Seq(Sendable)
      /\ down = <<Head(down)>> \o Tail(down)
  <2>1. down \in Seq(Sendable)
    BY DEF StreamTypes
  <2>2. Head(down) \in Sendable /\ Tail(down) \in Seq(Sendable)
    BY <2>1, HeadTailProperties
  <2>3. down = <<Head(down)>> \o Tail(down)
    BY <2>1, <2>2
  <2> QED BY <2>1, <2>2, <2>3
<1> DEFINE h == Head(down)  u == Tail(down) \o t
<1>3. <<h>> \in Seq(Sendable) /\ h \in Sendable /\ u \in Seq(Sendable)
  BY <1>1, <1>2, ConcatProperties
<1>4. Stream = <<h>> \o u
  <2>1. (<<h>> \o Tail(down)) \o t = <<h>> \o (Tail(down) \o t)
    BY <1>1, <1>2, <1>3, ConcatAssociative
  <2> QED BY <1>1, <1>2, <2>1
<1> HIDE DEF h, u
<1>5. <<h>> \o u # <<>> /\ Head(<<h>> \o u) = h
  BY <1>3
<1> QED BY <1>4, <1>5 DEF h

\* The greeting is all there is on a new connection.
LEMMA HandshakeMove ==
  ASSUME StreamTypes, StreamShape, Handshake
  PROVE  Stream' = Greeting(snapshot_sequence + 1) /\ conn' = "linked" /\ hello_accepted = FALSE
<1>1. down' = <<>> /\ conn' = "linked" /\ outbound' = Greeting(snapshot_sequence + 1)
      /\ hello_accepted = FALSE
  BY DEF Handshake, StreamShape
<1>2. Greeting(snapshot_sequence + 1) \in Seq(Sendable)
  BY GreetingTypes DEF StreamTypes
<1>3. <<>> \o Greeting(snapshot_sequence + 1) = Greeting(snapshot_sequence + 1)
  BY <1>2, ConcatEmptySeq
<1> QED BY <1>1, <1>3 DEF Stream

-----------------------------------------------------------------------------
(***************************************************************************)
(* Grid updates: a chain from the mirror to the Holder's sequence.         *)
(***************************************************************************)
GridInv ==
  /\ Chained(Stream, hello_accepted, mirror.sequence)
  /\ conn = "linked" => EndsAt(Stream, hello_accepted, mirror.sequence, snapshot_sequence)

\* What the Holder sends on leaves the mirror alone.
LEMMA GridQueued ==
  ASSUME StreamTypes, GridInv, NEW m \in Sendable, NEW seq \in Nat, NEW cells \in Rows,
         Queued(m, seq, cells), UNCHANGED <<hello_accepted, mirror>>,
         \/ m.type = "FullSnapshot" /\ m.sequence = seq
         \/ m.type = "GridDelta" /\ m.sequence = seq /\ seq = snapshot_sequence + 1
         \/ m.type \notin {"FullSnapshot", "GridDelta"} /\ seq = snapshot_sequence
  PROVE  GridInv'
<1> DEFINE h == hello_accepted  q == mirror.sequence
<1>1. Chained(Stream, h, q) /\ (conn = "linked" => EndsAt(Stream, h, q, snapshot_sequence))
  BY DEF GridInv
<1>2. Stream \in Seq(Sendable) /\ down \in Seq(Sendable)
  BY StreamIs DEF StreamTypes
<1>3. Chained(down, h, q)
  <2>1. PICK t \in Seq(Sendable) : Stream = down \o t
    BY StreamIs
  <2>2. Chained(down \o t, h, q)
    BY <1>1, <2>1
  <2> QED BY <1>2, <2>2, ChainFront
<1> SUFFICES Chained(Stream', h, q) /\ (conn' = "linked" => EndsAt(Stream', h, q, snapshot_sequence'))
  BY DEF GridInv
<1> HIDE DEF h, q
<1>4. CASE /\ conn = "linked" /\ conn' = "linked" /\ Stream' = Append(Stream, m)
           /\ snapshot_sequence' = seq
  <2>1. /\ m.type # "GridDelta" => Chained(Append(Stream, m), h, q)
        /\ \A n : EndsAt(Stream, h, q, n) /\ m.sequence = n + 1 => Chained(Append(Stream, m), h, q)
        /\ m.type \in {"FullSnapshot", "GridDelta"} => EndsAt(Append(Stream, m), h, q, m.sequence)
        /\ \A n : m.type \notin {"FullSnapshot", "GridDelta"} /\ EndsAt(Stream, h, q, n) =>
             EndsAt(Append(Stream, m), h, q, n)
    BY <1>1, <1>2, ChainAppend
  <2> QED BY <1>1, <1>4, <2>1
<1>5. CASE /\ conn = "linked" /\ conn' = "linked" /\ snapshot_sequence' = seq + 1
           /\ Stream' = Append(Append(down, Error), FullSnapshot(seq + 1, cells))
  <2> DEFINE f == FullSnapshot(seq + 1, cells)  e == Append(down, Error)
  <2>1. f \in Sendable /\ f.type = "FullSnapshot" /\ f.sequence = seq + 1
    BY SnapshotFrame
  <2>2. e \in Seq(Sendable) /\ Chained(e, h, q)
    <3>1. Error \in Sendable /\ Error.type # "GridDelta"
      BY OtherFrames
    <3> QED BY <1>2, <1>3, <3>1, ChainAppend, AppendProperties
  <2> HIDE DEF f, e
  <2>3. Chained(Append(e, f), h, q) /\ EndsAt(Append(e, f), h, q, f.sequence)
    BY <2>1, <2>2, ChainAppend
  <2> QED BY <1>5, <2>1, <2>3 DEF e, f
<1>6. CASE conn' # "linked" /\ Stream' = down
  BY <1>3, <1>6
<1> QED BY <1>4, <1>5, <1>6 DEF Queued

\* A sequence behind one element, place by place.
LEMMA Prefixed ==
  ASSUME NEW T, NEW h \in T, NEW b \in Seq(T), NEW r \in Nat, r = Len(b), NEW a, a = <<h>> \o b
  PROVE  /\ a \in Seq(T) /\ DOMAIN b = 1..r /\ DOMAIN a = 1..(r + 1) /\ Len(a) = r + 1
         /\ a[1] = h
         /\ \A i \in 1..r, j \in Nat : j = i + 1 => a[j] = b[i]
<1> DEFINE v == <<h>>
<1>1. v \in Seq(T) /\ Len(v) = 1 /\ v[1] = h /\ a = v \o b
  OBVIOUS
<1> HIDE DEF v
<1>2. /\ DOMAIN (v \o b) = 1..(1 + r) /\ v \o b \in Seq(T) /\ Len(v \o b) = 1 + r
      /\ \A i \in 1..1 : (v \o b)[i] = v[i]
      /\ \A i \in 1..r, j \in Nat : j = 1 + i => (v \o b)[j] = b[i]
  BY <1>1, JoinAt
<1>3. 1 + r = r + 1 /\ \A i \in 1..r : 1 + i = i + 1
  OBVIOUS
<1>4. DOMAIN b = 1..r
  BY LenProperties
<1> QED BY <1>1, <1>2, <1>3, <1>4

\* A greeting: the acknowledgement, the replay, a snapshot and the grant.
LEMMA GreetingShape ==
  ASSUME StreamTypes, NEW s \in Nat
  PROVE  \E a \in Seq(Sendable), r \in Nat :
           /\ Greeting(s) = Append(Append(a, FullSnapshot(s, Screen[tail])), ControlGranted)
           /\ DOMAIN a = 1..(r + 1) /\ Len(a) = r + 1
           /\ a[1] = HelloAck(exit_recorded)
           /\ \A i \in 1..r : a[i + 1] = Output(ReplayFrom(offset) + i - 1)
           /\ tail = ReplayFrom(offset) + r \/ (tail <= ReplayFrom(offset) /\ r = 0)
<1>1. offset \in Nat /\ tail \in Nat
  BY DEF StreamTypes
<1>2. /\ Replay(offset) \in Seq(Sendable) /\ ReplayFrom(offset) \in Nat
      /\ \A x \in Nat : tail = ReplayFrom(offset) + x => Len(Replay(offset)) = x
      /\ tail <= ReplayFrom(offset) => Len(Replay(offset)) = 0
      /\ \A i \in DOMAIN Replay(offset) : Replay(offset)[i] = Output(ReplayFrom(offset) + i - 1)
  BY <1>1, ReplayTypes
<1>3. PICK b \in Seq(Sendable) : b = Replay(offset)
  BY <1>2
<1>4. PICK f \in Nat : f = ReplayFrom(offset)
  BY <1>2
<1>5. /\ \A x \in Nat : tail = f + x => Len(b) = x
      /\ tail <= f => Len(b) = 0
      /\ \A i \in DOMAIN b : b[i] = Output(f + i - 1)
  BY <1>2, <1>3, <1>4
<1>6. PICK h \in Sendable : h = HelloAck(exit_recorded)
  BY OtherFrames DEF StreamTypes
<1>7. PICK r \in Nat : r = Len(b)
  BY <1>3, LenProperties
<1>a. PICK a : a = <<h>> \o b
  OBVIOUS
<1>b. /\ a \in Seq(Sendable) /\ DOMAIN b = 1..r /\ DOMAIN a = 1..(r + 1) /\ Len(a) = r + 1
      /\ a[1] = h
      /\ \A i \in 1..r, j \in Nat : j = i + 1 => a[j] = b[i]
  BY <1>3, <1>6, <1>7, <1>a, Prefixed
<1>8. tail = f + r \/ (tail <= f /\ r = 0)
  <2>1. CASE tail <= f
    BY <1>5, <1>7, <2>1
  <2>2. CASE ~(tail <= f)
    <3>1. PICK x \in Nat : tail = f + x
      <4>1. tail - f \in Nat /\ tail = f + (tail - f)
        BY <1>1, <1>4, <2>2
      <4> QED BY <4>1
    <3> QED BY <1>5, <1>7, <3>1
  <2> QED BY <2>1, <2>2
<1>9. PICK c \in Sendable : c = ControlGranted
  BY OtherFrames
<1>10. PICK g \in Sendable : g = FullSnapshot(s, Screen[tail])
  BY ScreenCells, SnapshotFrame DEF StreamTypes, Bounds
<1>11. Greeting(s) = <<h>> \o b \o <<g, c>>
  BY <1>3, <1>6, <1>9, <1>10 DEF Greeting
<1>12. a \o <<g, c>> = Append(Append(a, g), c)
  <2>1. <<g>> \in Seq(Sendable) /\ <<c>> \in Seq(Sendable) /\ <<g, c>> = <<g>> \o <<c>>
    BY <1>9, <1>10
  <2>2. Append(a, g) = a \o <<g>> /\ Append(a, g) \in Seq(Sendable)
    BY <1>7, <1>a, <1>b, <1>10, AppendIsConcat, AppendProperties
  <2>3. Append(Append(a, g), c) = Append(a, g) \o <<c>>
    BY <1>9, <2>2, AppendIsConcat
  <2>4. (a \o <<g>>) \o <<c>> = a \o (<<g>> \o <<c>>)
    BY <1>7, <1>a, <1>b, <2>1, ConcatAssociative
  <2> QED BY <2>1, <2>2, <2>3, <2>4
<1>13. \A i \in 1..r : a[i + 1] = Output(f + i - 1)
  <2> SUFFICES ASSUME NEW i \in 1..r PROVE a[i + 1] = Output(f + i - 1)
    OBVIOUS
  <2>1. r \in Nat /\ i \in DOMAIN b
    BY <1>7, <1>b
  <2>2. i + 1 \in Nat
    BY <2>1
  <2>3. a[i + 1] = b[i]
    BY <1>b, <2>2
  <2>4. b[i] = Output(f + i - 1)
    BY <1>5, <2>1
  <2> QED BY <2>3, <2>4
<1>14. Greeting(s) = Append(Append(a, FullSnapshot(s, Screen[tail])), ControlGranted)
  BY <1>7, <1>a, <1>b, <1>9, <1>10, <1>11, <1>12
<1>15. /\ a[1] = HelloAck(exit_recorded)
       /\ \A i \in 1..r : a[i + 1] = Output(ReplayFrom(offset) + i - 1)
       /\ tail = ReplayFrom(offset) + r \/ (tail <= ReplayFrom(offset) /\ r = 0)
  BY <1>4, <1>b, <1>8, <1>6, <1>13
<1> QED BY <1>7, <1>a, <1>b, <1>14, <1>15

\* A greeting carries one grid frame, the snapshot with the new sequence.
LEMMA GridGreeting ==
  ASSUME StreamTypes, NEW s \in Nat, NEW h, NEW q
  PROVE  Chained(Greeting(s), h, q) /\ EndsAt(Greeting(s), h, q, s)
<1> DEFINE f == FullSnapshot(s, Screen[tail])
<1>1. PICK a \in Seq(Sendable), r \in Nat :
           /\ Greeting(s) = Append(Append(a, f), ControlGranted)
           /\ DOMAIN a = 1..(r + 1)
           /\ a[1] = HelloAck(exit_recorded)
           /\ \A i \in 1..r : a[i + 1] = Output(ReplayFrom(offset) + i - 1)
  BY GreetingShape
<1>2. f \in Sendable /\ f.type = "FullSnapshot" /\ f.sequence = s
  BY ScreenCells, SnapshotFrame DEF StreamTypes, Bounds
<1> HIDE DEF f
<1>3. \A i \in DOMAIN a : a[i].type \in {"HelloAck", "Output"}
  <2> SUFFICES ASSUME NEW i \in DOMAIN a PROVE a[i].type \in {"HelloAck", "Output"}
    OBVIOUS
  <2>1. CASE i = 1
    BY <1>1, <2>1 DEF HelloAck
  <2>2. CASE i # 1
    <3>1. r \in Nat /\ i \in 1..(r + 1)
      BY <1>1
    <3>2. i - 1 \in 1..r /\ i = (i - 1) + 1
      BY <2>2, <3>1
    <3>3. a[i] = Output(ReplayFrom(offset) + (i - 1) - 1)
      BY <1>1, <3>2
    <3> QED BY <3>3 DEF Output
  <2> QED BY <2>1, <2>2
<1>4. Grids(a) = {}
  BY <1>3 DEF Grids
<1>5. Chained(a, h, q)
  BY <1>4 DEF Chained
<1>6. Append(a, f) \in Seq(Sendable) /\ Chained(Append(a, f), h, q) /\ EndsAt(Append(a, f), h, q, s)
  BY <1>1, <1>2, <1>5, ChainAppend, AppendProperties
<1>7. ControlGranted \in Sendable /\ ControlGranted.type \notin {"FullSnapshot", "GridDelta"}
      /\ ControlGranted.type # "GridDelta"
  BY OtherFrames
<1> DEFINE u == Append(a, f)  c == ControlGranted
<1> HIDE DEF u, c
<1>8. u \in Seq(Sendable) /\ Chained(u, h, q) /\ EndsAt(u, h, q, s)
      /\ c \in Sendable /\ c.type \notin {"FullSnapshot", "GridDelta"} /\ c.type # "GridDelta"
  BY <1>6, <1>7 DEF u, c
<1>9. Chained(Append(u, c), h, q) /\ EndsAt(Append(u, c), h, q, s)
  BY <1>8, ChainAppend
<1> QED BY <1>1, <1>9 DEF u, c

\* Every step keeps the chain of grid frames.
LEMMA GridStep ==
  ASSUME StreamTypes, StreamTypes', StreamShape, GridInv, StreamNext
  PROVE  GridInv'
<1>1. /\ Chained(Stream, hello_accepted, mirror.sequence)
      /\ conn = "linked" => EndsAt(Stream, hello_accepted, mirror.sequence, snapshot_sequence)
      /\ Stream \in Seq(Sendable)
  BY StreamIs DEF GridInv
<1>2. snapshot_sequence \in Nat /\ snapshot_sequence + 1 \in Nat /\ Screen[tail] \in Rows
  <2>1. Screen[tail] \in Rows
    BY ScreenCells DEF StreamTypes, Bounds
  <2> QED BY <2>1 DEF StreamTypes
<1>3. CASE DrainPty
  <2>1. /\ Queue(Output(tail), snapshot_sequence, Screen[tail + 1]) /\ tail + 1 \in 0..MaxOutput
        /\ UNCHANGED <<down, hello_accepted, mirror>>
    BY <1>3, ScreenCells DEF DrainPty, engineVars, StreamTypes, Bounds
  <2>2. /\ Output(tail) \in Sendable /\ Output(tail).type \notin {"FullSnapshot", "GridDelta"}
        /\ Screen[tail + 1] \in Rows
    <3>1. tail \in Nat
      BY DEF StreamTypes
    <3>2. Output(tail) \in Sendable /\ Output(tail).type \notin {"FullSnapshot", "GridDelta"}
      BY <3>1, OutputFrame
    <3> QED BY <2>1, <3>2, ScreenCells DEF Bounds
  <2>3. Queued(Output(tail), snapshot_sequence, Screen[tail + 1])
    BY <1>2, <2>1, <2>2, QueueMoves
  <2> QED BY <1>2, <2>1, <2>2, <2>3, GridQueued
<1>4. CASE RecordAgentExit
  <2>1. Queue(ProcessExit, snapshot_sequence, Screen[tail]) /\ UNCHANGED <<down, hello_accepted, mirror>>
    BY <1>4 DEF RecordAgentExit, engineVars
  <2>2. ProcessExit \in Sendable /\ ProcessExit.type \notin {"FullSnapshot", "GridDelta"}
    BY OtherFrames
  <2>3. Queued(ProcessExit, snapshot_sequence, Screen[tail])
    BY <1>2, <2>1, <2>2, QueueMoves
  <2> QED BY <1>2, <2>1, <2>2, <2>3, GridQueued
<1>5. CASE EmitGridDelta /\ conn # "none"
  <2> DEFINE s == snapshot_sequence + 1
             m == IF last_cells = NoCells THEN FullSnapshot(s, Screen[tail])
                  ELSE GridDelta(s, Changed(Screen[tail]))
  <2>1. Queue(m, s, Screen[tail]) /\ UNCHANGED <<down, hello_accepted, mirror>>
    BY <1>5 DEF EmitGridDelta, engineVars
  <2>2. Changed(Screen[tail]) \in Cells
    BY <1>2 DEF Changed, Cells, Rows
  <2>3. m \in Sendable /\ m.type \in {"FullSnapshot", "GridDelta"} /\ m.sequence = s /\ s \in Nat
        /\ s = snapshot_sequence + 1
    BY <1>2, <2>2, SnapshotFrame, DeltaFrame
  <2> HIDE DEF m, s
  <2>4. Queued(m, s, Screen[tail])
    BY <1>2, <2>1, <2>3, QueueMoves
  <2> QED BY <1>2, <2>1, <2>3, <2>4, GridQueued
<1>6. CASE Resize
  <2> DEFINE m == FullSnapshot(snapshot_sequence + 1, Screen[tail])
  <2>1. m \in Sendable /\ m.type = "FullSnapshot" /\ m.sequence = snapshot_sequence + 1
    BY <1>2, SnapshotFrame
  <2>2. /\ conn = "linked" /\ conn' = "linked" /\ outbound' = Append(outbound, m) /\ down' = down
        /\ snapshot_sequence' = snapshot_sequence + 1 /\ UNCHANGED <<hello_accepted, mirror>>
    BY <1>6 DEF Resize, engineVars
  <2> HIDE DEF m
  <2>3. Stream' = Append(Stream, m)
    BY <2>1, <2>2, SentMove
  <2>4. Chained(Append(Stream, m), hello_accepted, mirror.sequence)
        /\ EndsAt(Append(Stream, m), hello_accepted, mirror.sequence, snapshot_sequence + 1)
    <3>1. m.type # "GridDelta" /\ m.type \in {"FullSnapshot", "GridDelta"}
      BY <2>1
    <3> QED BY <1>1, <2>1, <3>1, ChainAppend
  <2> QED BY <2>2, <2>3, <2>4 DEF GridInv
<1>7. CASE StreamQuiet
  BY <1>1, <1>7 DEF StreamQuiet, GridInv
<1>8. CASE Handshake
  <2>1. Stream' = Greeting(snapshot_sequence + 1) /\ snapshot_sequence' = snapshot_sequence + 1
    BY <1>8, HandshakeMove DEF Handshake
  <2> QED BY <1>2, <2>1, GridGreeting DEF GridInv
<1>9. CASE Cleared
  <2>1. Grids(Stream') = {}
    BY <1>9 DEF Cleared, Grids
  <2> QED BY <1>9, <2>1 DEF Cleared, GridInv, Chained
<1>10. ASSUME Popped, hello_accepted => hello_accepted', mirror'.sequence = mirror.sequence,
              Head(down).type \notin {"FullSnapshot", "GridDelta"}
       PROVE  GridInv'
  <2> DEFINE h == hello_accepted  q == mirror.sequence  g == hello_accepted'
  <2>1. Stream # <<>> /\ Stream' = Tail(Stream) /\ conn' = conn /\ snapshot_sequence' = snapshot_sequence
        /\ Head(Stream).type \notin {"FullSnapshot", "GridDelta"}
    BY <1>10 DEF Popped
  <2>2. Chained(Stream, h, q) /\ (conn = "linked" => EndsAt(Stream, h, q, snapshot_sequence)) /\ (h => g)
    BY <1>1, <1>10
  <2> SUFFICES Chained(Tail(Stream), g, q) /\ (conn = "linked" => EndsAt(Tail(Stream), g, q, snapshot_sequence))
    BY <1>10, <2>1 DEF GridInv
  <2> HIDE DEF h, q, g
  <2> QED BY <1>1, <2>1, <2>2, ChainTail
<1>11. ASSUME Popped, hello_accepted' = TRUE, mirror'.sequence = Head(down).sequence,
              Head(down).type \in {"FullSnapshot", "GridDelta"}
       PROVE  GridInv'
  <2> DEFINE h == hello_accepted  q == mirror.sequence
  <2>1. Stream # <<>> /\ Stream' = Tail(Stream) /\ conn' = conn /\ snapshot_sequence' = snapshot_sequence
        /\ Head(Stream).type \in {"FullSnapshot", "GridDelta"} /\ mirror'.sequence = Head(Stream).sequence
    BY <1>11 DEF Popped
  <2>2. Chained(Stream, h, q) /\ (conn = "linked" => EndsAt(Stream, h, q, snapshot_sequence))
    BY <1>1
  <2> SUFFICES /\ Chained(Tail(Stream), TRUE, Head(Stream).sequence)
               /\ conn = "linked" => EndsAt(Tail(Stream), TRUE, Head(Stream).sequence, snapshot_sequence)
    BY <1>11, <2>1 DEF GridInv
  <2> HIDE DEF h, q
  <2> QED BY <1>1, <2>1, <2>2, ChainTail
<1>12. CASE Receive
  <2>1. CASE Disconnect
    BY <1>9, <2>1, ClearingSteps
  <2>2. CASE Handled /\ Receive
    <3>1. down # <<>>
      BY <2>2 DEF Receive, ReceiveUnexpected, ReceiveHelloAck, ReceiveOutput, ReceiveSnapshot,
                  ReceiveDelta, ReceiveExit, ReceiveOther, Frame
    <3>2. Popped
      BY <2>2, <3>1, PoppingSteps
    <3>3. \/ Disconnect
          \/ ReceiveHelloAck /\ hello_accepted' = TRUE /\ mirror' = mirror
          \/ ReceiveOutput \/ ReceiveSnapshot \/ ReceiveOther
          \/ ReceiveDelta /\ hello_accepted' = hello_accepted /\ mirror'.sequence = Head(down).sequence
      BY <2>2 DEF Receive, ReceiveUnexpected, ReceiveHelloAck, ReceiveDelta, ReceiveExit,
         EndPump, Reconnect
    <3>4. CASE ReceiveHelloAck /\ hello_accepted' = TRUE /\ mirror' = mirror
      BY <1>10, <3>2, <3>4 DEF ReceiveHelloAck, Frame
    <3>5. CASE ReceiveOutput
      BY <1>10, <3>2, <3>5 DEF ReceiveOutput, Frame
    <3>6. CASE ReceiveOther
      BY <1>10, <3>2, <3>6 DEF ReceiveOther, Frame, engineVars
    <3>7. CASE ReceiveSnapshot
      BY <1>11, <3>2, <3>7 DEF ReceiveSnapshot, Frame
    <3>8. CASE ReceiveDelta /\ hello_accepted' = hello_accepted /\ mirror'.sequence = Head(down).sequence
      BY <1>11, <3>2, <3>8 DEF ReceiveDelta, Frame
    <3> QED BY <2>1, <3>3, <3>4, <3>5, <3>6, <3>7, <3>8
  <2>3. Disconnect \/ Handled
    BY <1>12 DEF Receive, ReceiveUnexpected, ReceiveHelloAck, ReceiveOutput, ReceiveSnapshot,
                 ReceiveDelta, ReceiveExit, ReceiveOther, EndPump, Reconnect
  <2> QED BY <1>12, <2>1, <2>2, <2>3
<1>13. CASE LinkLost \/ EngineRestart
  <2>1. Disconnect \/ EngineRestart
    BY <1>13 DEF LinkLost, Reconnect
  <2> QED BY <1>9, <2>1, ClearingSteps
<1>14. CASE FlushConnection \/ DropStale \/ Connect \/ (EmitGridDelta /\ conn = "none")
  BY <1>7, <1>14, QuietSteps
<1> QED BY <1>3, <1>4, <1>5, <1>6, <1>8, <1>12, <1>13, <1>14 DEF StreamNext, Holder

-----------------------------------------------------------------------------
(***************************************************************************)
(* The row a mirror ends up with.                                          *)
(***************************************************************************)
\* What is under way ends in the row the connection was last sent: the
\* terminal's, when the last diff did not find it returned to the baseline.
CellsInv ==
  conn = "linked" =>
    /\ Shows(Stream, hello_accepted, mirror.cells, shown)
    /\ ~dirty => returned \/ shown = Screen[tail]

\* A queued frame that paints, or a snapshot in place of the buffer, is the
\* row sent last; one that paints nothing leaves that row.
LEMMA CellsQueued ==
  ASSUME StreamTypes, NEW m \in Sendable, NEW seq \in Nat, NEW d \in Rows,
         Queue(m, seq, d), Queued(m, seq, d), NEW h, NEW c,
         conn = "linked" => Shows(Stream, h, c, shown),
         m.type \in {"FullSnapshot", "GridDelta"} /\ m.cells # NoCells => m.cells = d
  PROVE  conn' = "linked" =>
           /\ conn = "linked" /\ Shows(Stream', h, c, shown')
           /\ m.type \in {"FullSnapshot", "GridDelta"} => returned' \/ shown' = d
           /\ (shown' = d /\ ~returned') \/ m.type \in {"FullSnapshot", "GridDelta"}
                \/ UNCHANGED <<shown, returned>>
<1>1. Stream \in Seq(Sendable) /\ down \in Seq(Sendable) /\ d # NoCells
  BY StreamIs DEF StreamTypes, Rows
<1>2. Presents(m, d)
  BY DEF Queue
<1>4. CASE conn = "linked" /\ conn' = "linked" /\ Stream' = Append(Stream, m) /\ Fits(m)
  <2>1. CASE m.type \in {"FullSnapshot", "GridDelta"} /\ m.cells # NoCells
    <3>1. shown' = m.cells /\ m.cells = d
      BY <1>2, <1>4, <2>1 DEF Presents, PaintsGrid
    <3>2. Shows(Append(Stream, m), h, c, d)
      BY <1>1, <2>1, <3>1, PaintAppend
    <3> QED BY <1>4, <2>1, <3>1, <3>2
  <2>2. CASE ~(m.type \in {"FullSnapshot", "GridDelta"} /\ m.cells # NoCells)
    <3>1. shown' = shown /\ (m.type \notin {"FullSnapshot", "GridDelta"} => returned' = returned)
      BY <1>2, <1>4, <2>2 DEF Presents, PaintsGrid
    <3>2. m.type \in {"FullSnapshot", "GridDelta"} => returned' = (shown # d)
      BY <1>2, <1>4, <2>2 DEF Presents, PaintsGrid
    <3>3. Shows(Append(Stream, m), h, c, shown)
      BY <1>1, <1>4, <2>2, PaintAppend
    <3> QED BY <1>4, <3>1, <3>2, <3>3
  <2> QED BY <2>1, <2>2
<1>5. CASE /\ conn = "linked" /\ conn' = "linked" /\ ~begun /\ ~Fits(m)
           /\ Stream' = Append(Append(down, Error), FullSnapshot(seq + 1, d))
  <2> DEFINE f == FullSnapshot(seq + 1, d)  e == Append(down, Error)
  <2>1. f \in Sendable /\ f.type = "FullSnapshot" /\ f.cells = d
    BY SnapshotFrame
  <2>2. e \in Seq(Sendable)
    BY <1>1, OtherFrames, AppendProperties
  <2>3. shown' = d /\ returned' = FALSE
    BY <1>2, <1>5 DEF Presents
  <2> HIDE DEF f, e
  <2>4. Shows(Append(e, f), h, c, d)
    BY <1>1, <2>1, <2>2, PaintAppend
  <2> QED BY <1>5, <2>3, <2>4 DEF e, f
<1> QED BY <1>4, <1>5 DEF Queued

\* The snapshot of a greeting shows the terminal.
LEMMA CellsGreeting ==
  ASSUME StreamTypes, NEW s \in Nat, NEW h, NEW c
  PROVE  Shows(Greeting(s), h, c, Screen[tail])
<1> DEFINE f == FullSnapshot(s, Screen[tail])  d == Screen[tail]
<1>1. PICK a \in Seq(Sendable) : Greeting(s) = Append(Append(a, f), ControlGranted)
  BY GreetingShape
<1>2. f \in Sendable /\ f.type = "FullSnapshot" /\ f.cells = d /\ d # NoCells
  BY ScreenCells, SnapshotFrame DEF StreamTypes, Bounds, Rows
<1>3. ControlGranted \in Sendable /\ ControlGranted.type \notin {"FullSnapshot", "GridDelta"}
  BY OtherFrames
<1> DEFINE u == Append(a, f)  g == ControlGranted
<1>4. Greeting(s) = Append(u, g) /\ g \in Sendable /\ g.type \notin {"FullSnapshot", "GridDelta"}
  BY <1>1, <1>3
<1> HIDE DEF f, d, g
<1>5. u \in Seq(Sendable) /\ Shows(u, h, c, d)
  BY <1>1, <1>2, PaintAppend, AppendProperties
<1> HIDE DEF u
<1>6. Shows(Append(u, g), h, c, d)
  BY <1>4, <1>5, PaintAppend
<1> QED BY <1>4, <1>6 DEF d

\* Every step keeps what the mirror will show.
LEMMA CellsStep ==
  ASSUME StreamTypes, StreamTypes', StreamShape, CellsInv, StreamNext
  PROVE  CellsInv'
<1>1. Stream \in Seq(Sendable)
  BY StreamIs
<1>2. Screen[tail] \in Rows /\ Screen[tail] # NoCells /\ Screen[tail] \in Cells
  BY ScreenCells DEF StreamTypes, Bounds, Rows
<1>a. snapshot_sequence \in Nat /\ snapshot_sequence + 1 \in Nat /\ tail \in Nat /\ tail <= MaxOutput /\ MaxOutput \in Nat
  BY ScreenCells DEF StreamTypes, Bounds
<1>b. conn = "linked" => Shows(Stream, hello_accepted, mirror.cells, shown)
  BY DEF CellsInv
<1>3. CASE DrainPty
  <2>1. /\ Queue(Output(tail), snapshot_sequence, Screen[tail + 1]) /\ tail + 1 \in 0..MaxOutput
        /\ UNCHANGED <<down, hello_accepted, mirror>> /\ dirty' = TRUE
    BY <1>3, ScreenCells DEF DrainPty, engineVars, StreamTypes, Bounds
  <2>2. /\ Output(tail) \in Sendable /\ Output(tail).type \notin {"FullSnapshot", "GridDelta"}
        /\ Screen[tail + 1] \in Rows
    BY <1>a, <2>1, ScreenCells, OutputFrame DEF Bounds
  <2>3. Queued(Output(tail), snapshot_sequence, Screen[tail + 1])
    BY <1>a, <2>1, <2>2, QueueMoves
  <2>4. conn' = "linked" => Shows(Stream', hello_accepted, mirror.cells, shown')
    BY <1>a, <1>b, <2>1, <2>2, <2>3, CellsQueued
  <2> QED BY <2>1, <2>4 DEF CellsInv
<1>4. CASE RecordAgentExit
  <2>1. /\ Queue(ProcessExit, snapshot_sequence, Screen[tail])
        /\ UNCHANGED <<down, hello_accepted, mirror, tail, dirty>>
    BY <1>4 DEF RecordAgentExit, engineVars
  <2>2. ProcessExit \in Sendable /\ ProcessExit.type \notin {"FullSnapshot", "GridDelta"}
    BY OtherFrames
  <2>3. Queued(ProcessExit, snapshot_sequence, Screen[tail])
    BY <1>2, <1>a, <2>1, <2>2, QueueMoves
  <2>4. conn' = "linked" =>
          /\ conn = "linked" /\ Shows(Stream', hello_accepted, mirror.cells, shown')
          /\ shown' = Screen[tail] \/ UNCHANGED <<shown, returned>>
    BY <1>2, <1>a, <1>b, <2>1, <2>2, <2>3, CellsQueued
  <2> QED BY <2>1, <2>4 DEF CellsInv
<1>5. CASE EmitGridDelta /\ conn # "none"
  <2> DEFINE s == snapshot_sequence + 1
             m == IF last_cells = NoCells THEN FullSnapshot(s, Screen[tail])
                  ELSE GridDelta(s, Changed(Screen[tail]))
  <2>1. /\ Queue(m, s, Screen[tail])
        /\ UNCHANGED <<down, hello_accepted, mirror, tail>>
    BY <1>5 DEF EmitGridDelta, engineVars
  <2>2. Changed(Screen[tail]) \in Cells
    BY <1>2 DEF Changed, Cells
  <2>3. m \in Sendable /\ s \in Nat /\ m.type \in {"FullSnapshot", "GridDelta"}
    BY <1>2, <1>a, <2>2, SnapshotFrame, DeltaFrame
  <2>4. m.cells # NoCells => m.cells = Screen[tail]
    <3>1. CASE last_cells = NoCells
      BY <1>2, <1>a, <3>1, SnapshotFrame
    <3>2. CASE last_cells # NoCells
      <4>1. m.cells = Changed(Screen[tail])
        BY <1>a, <2>2, <3>2, DeltaFrame
      <4> QED BY <1>2, <4>1 DEF Changed
    <3> QED BY <3>1, <3>2
  <2> HIDE DEF m, s
  <2>5. Queued(m, s, Screen[tail])
    BY <1>2, <2>1, <2>3, QueueMoves
  <2>6. conn' = "linked" =>
          /\ Shows(Stream', hello_accepted, mirror.cells, shown')
          /\ returned' \/ shown' = Screen[tail]
    BY <1>2, <1>b, <2>1, <2>3, <2>4, <2>5, CellsQueued
  <2> QED BY <2>1, <2>6 DEF CellsInv
<1>6. CASE Resize
  <2> DEFINE m == FullSnapshot(snapshot_sequence + 1, Screen[tail])
  <2>1. m \in Sendable /\ m.type = "FullSnapshot" /\ m.cells = Screen[tail]
    BY <1>2, <1>a, SnapshotFrame
  <2>2. /\ conn = "linked" /\ conn' = "linked" /\ outbound' = Append(outbound, m) /\ down' = down
        /\ UNCHANGED <<hello_accepted, mirror, tail>> /\ shown' = Screen[tail]
    BY <1>6 DEF Resize, engineVars
  <2> HIDE DEF m
  <2>3. Stream' = Append(Stream, m)
    BY <2>1, <2>2, SentMove
  <2>4. Shows(Append(Stream, m), hello_accepted, mirror.cells, Screen[tail])
    BY <1>1, <1>2, <2>1, PaintAppend
  <2> QED BY <2>2, <2>3, <2>4 DEF CellsInv
<1>7. CASE StreamQuiet
  BY <1>7 DEF StreamQuiet, CellsInv
<1>8. CASE Handshake
  <2>1. Stream' = Greeting(snapshot_sequence + 1) /\ tail' = tail /\ shown' = Screen[tail]
    BY <1>8, HandshakeMove DEF Handshake
  <2>2. Shows(Greeting(snapshot_sequence + 1), hello_accepted', mirror'.cells, Screen[tail])
    BY <1>a, CellsGreeting
  <2> QED BY <2>1, <2>2 DEF CellsInv
<1>9. CASE Cleared
  BY <1>9 DEF Cleared, CellsInv
<1>10. ASSUME Popped, hello_accepted => hello_accepted',
              \/ /\ mirror'.cells = mirror.cells
                 /\ ~(Head(down).type \in {"FullSnapshot", "GridDelta"} /\ Head(down).cells # NoCells)
              \/ /\ mirror'.cells = Head(down).cells /\ hello_accepted' = TRUE
                 /\ Head(down).type \in {"FullSnapshot", "GridDelta"} /\ Head(down).cells # NoCells
       PROVE  CellsInv'
  <2> DEFINE h == hello_accepted  c == mirror.cells  g == hello_accepted'  d == shown
             e == mirror'.cells
  <2>1. /\ Stream # <<>> /\ Stream' = Tail(Stream)
        /\ UNCHANGED <<conn, tail, dirty, shown, returned>>
        /\ Head(Stream) = Head(down)
    BY <1>10 DEF Popped
  <2> SUFFICES ASSUME conn = "linked"
               PROVE  Shows(Tail(Stream), g, e, d)
    BY <2>1 DEF CellsInv
  <2>2. Shows(Stream, h, c, d) /\ (h => g)
    BY <1>10 DEF CellsInv
  <2>3. \/ e = c /\ ~(Head(Stream).type \in {"FullSnapshot", "GridDelta"} /\ Head(Stream).cells # NoCells)
        \/ /\ e = Head(Stream).cells /\ g = TRUE
           /\ Head(Stream).type \in {"FullSnapshot", "GridDelta"} /\ Head(Stream).cells # NoCells
    BY <1>10, <2>1
  <2> HIDE DEF h, c, g, d, e
  <2> QED BY <1>1, <2>1, <2>2, <2>3, PaintTail
<1>12. CASE Receive
  <2>1. CASE Disconnect
    BY <1>9, <2>1, ClearingSteps
  <2>2. CASE Handled /\ Receive
    <3>1. down # <<>>
      BY <2>2 DEF Receive, ReceiveUnexpected, ReceiveHelloAck, ReceiveOutput, ReceiveSnapshot,
                  ReceiveDelta, ReceiveExit, ReceiveOther, Frame
    <3>2. Popped
      BY <2>2, <3>1, PoppingSteps
    <3>3. \/ Disconnect
          \/ ReceiveHelloAck /\ hello_accepted' = TRUE /\ mirror' = mirror
          \/ ReceiveOutput \/ ReceiveSnapshot \/ ReceiveOther
          \/ /\ ReceiveDelta /\ hello_accepted' = hello_accepted
             /\ mirror'.cells = IF Head(down).cells = NoCells THEN mirror.cells ELSE Head(down).cells
      BY <2>2 DEF Receive, ReceiveUnexpected, ReceiveHelloAck, ReceiveDelta, ReceiveExit,
         EndPump, Reconnect
    <3>4. CASE ReceiveHelloAck /\ hello_accepted' = TRUE /\ mirror' = mirror
      BY <1>10, <3>2, <3>4 DEF ReceiveHelloAck, Frame
    <3>5. CASE ReceiveOutput
      BY <1>10, <3>2, <3>5 DEF ReceiveOutput, Frame
    <3>6. CASE ReceiveOther
      BY <1>10, <3>2, <3>6 DEF ReceiveOther, Frame, engineVars
    <3>7. CASE ReceiveSnapshot
      <4>1. Head(down).type = "FullSnapshot" /\ Head(down).cells # NoCells
        BY <3>1, <3>7, HeadTypes, FrameKinds DEF ReceiveSnapshot, Frame
      <4> QED BY <1>10, <3>2, <3>7, <4>1 DEF ReceiveSnapshot
    <3>8. CASE /\ ReceiveDelta /\ hello_accepted' = hello_accepted
               /\ mirror'.cells = IF Head(down).cells = NoCells THEN mirror.cells ELSE Head(down).cells
      <4>1. Head(down).type = "GridDelta" /\ hello_accepted' = TRUE
        BY <3>8, HeadTypes DEF ReceiveDelta, Frame, StreamTypes
      <4>2. CASE Head(down).cells = NoCells
        BY <1>10, <3>2, <3>8, <4>1, <4>2
      <4>3. CASE Head(down).cells # NoCells
        BY <1>10, <3>2, <3>8, <4>1, <4>3
      <4> QED BY <4>2, <4>3
    <3> QED BY <2>1, <3>3, <3>4, <3>5, <3>6, <3>7, <3>8
  <2>3. Disconnect \/ Handled
    BY <1>12 DEF Receive, ReceiveUnexpected, ReceiveHelloAck, ReceiveOutput, ReceiveSnapshot,
                 ReceiveDelta, ReceiveExit, ReceiveOther, EndPump, Reconnect
  <2> QED BY <1>12, <2>1, <2>2, <2>3
<1>13. CASE LinkLost \/ EngineRestart
  <2>1. Disconnect \/ EngineRestart
    BY <1>13 DEF LinkLost, Reconnect
  <2> QED BY <1>9, <2>1, ClearingSteps
<1>14. CASE FlushConnection \/ DropStale \/ Connect \/ (EmitGridDelta /\ conn = "none")
  BY <1>7, <1>14, QuietSteps
<1> QED BY <1>3, <1>4, <1>5, <1>6, <1>8, <1>12, <1>13, <1>14 DEF StreamNext, Holder

-----------------------------------------------------------------------------
(***************************************************************************)
(* Output: nothing between what the Engine has and what the stream brings. *)
(***************************************************************************)
LogInv ==
  restarts = 0 =>
    /\ LogIsFaithful
    /\ \A i \in DOMAIN log : log[i] < offset
    /\ Fed(Stream, offset, discarded)
    /\ conn = "linked" => Reaches(Stream, offset, discarded, tail)

\* Frames given up with their buffer: their offsets are.
LEMMA FedCut ==
  ASSUME NEW s \in Seq(Sendable), NEW t \in Seq(Sendable), NEW o, NEW D, NEW E, D \subseteq E,
         Offsets(t) \subseteq E, NEW n \in Nat, Reaches(s \o t, o, D, n)
  PROVE  Reaches(s, o, E, n)
<1>1. PICK k \in Nat : k = Len(s) /\ DOMAIN s = 1..k
  BY LenProperties
<1>2. PICK l \in Nat : l = Len(t) /\ DOMAIN t = 1..l
  BY LenProperties
<1>3. /\ DOMAIN (s \o t) = 1..(k + l)
      /\ \A i \in 1..k : (s \o t)[i] = s[i]
      /\ \A i \in 1..l, j \in Nat : j = k + i => (s \o t)[j] = t[i]
  <2>1. DOMAIN (s \o t) = 1..(k + l)
    BY <1>1, <1>2, JoinAt
  <2>2. \A i \in 1..k : (s \o t)[i] = s[i]
    BY <1>1, <1>2, JoinAt
  <2>3. ASSUME NEW i \in 1..l, NEW j \in Nat, j = k + i PROVE (s \o t)[j] = t[i]
    BY <1>1, <1>2, <2>3, JoinAt
  <2> QED BY <2>1, <2>2, <2>3
<1> SUFFICES ASSUME NEW x \in 0..(n - 1) PROVE Reached(s, o, E, x, Len(s) + 1)
  BY DEF Reaches
<1>4. x < o \/ x \in D \/ \E j \in DOMAIN (s \o t) : (s \o t)[j] = Output(x)
  BY DEF Reaches, Reached
<1>5. ASSUME NEW j \in DOMAIN (s \o t), (s \o t)[j] = Output(x)
      PROVE  Reached(s, o, E, x, Len(s) + 1)
  <2>1. k \in Nat /\ l \in Nat /\ j \in 1..(k + l)
    BY <1>1, <1>2, <1>3
  <2>2. CASE j \in 1..k
    <3>1. s[j] = Output(x) /\ j < k + 1
      BY <1>3, <1>5, <2>1, <2>2
    <3> QED BY <1>1, <2>2, <3>1 DEF Reached
  <2>3. CASE j \notin 1..k
    <3>1. j - k \in 1..l /\ j = k + (j - k) /\ j \in Nat
      BY <2>1, <2>3
    <3>2. PICK i \in 1..l : j = k + i
      BY <3>1
    <3>3. t[i] = Output(x) /\ i \in DOMAIN t
      BY <1>2, <1>3, <1>5, <3>1, <3>2
    <3>4. t[i].type = "Output" /\ t[i].offset = x
      BY <3>3 DEF Output
    <3>5. x \in Offsets(t)
      BY <3>3, <3>4 DEF Offsets
    <3> QED BY <3>5 DEF Reached
  <2> QED BY <2>2, <2>3
<1> QED BY <1>4, <1>5 DEF Reached

\* A queued frame, with n chunks then behind the stream.
LEMMA LogQueued ==
  ASSUME StreamTypes, NEW m \in Sendable, NEW seq \in Nat, NEW cells \in Rows,
         Queued(m, seq, cells), NEW o \in Nat,
         Fed(Stream, o, discarded), conn = "linked" => Reaches(Stream, o, discarded, tail),
         NEW n \in Nat, \/ m = Output(tail) /\ n = tail + 1
                        \/ m.type # "Output" /\ n = tail
  PROVE  /\ Fed(Stream', o, discarded')
         /\ conn' = "linked" => Reaches(Stream', o, discarded', n)
         /\ discarded \subseteq discarded'
<1> DEFINE D == discarded  E == discarded'
<1>1. Stream \in Seq(Sendable) /\ down \in Seq(Sendable) /\ outbound \in Seq(Sendable) /\ tail \in Nat
  BY StreamIs, ScreenCells DEF StreamTypes, Bounds
<1>2. Fed(down, o, D)
  <2>1. PICK t \in Seq(Sendable) : Stream = down \o t
    BY StreamIs
  <2>2. Fed(down \o t, o, D)
    BY <2>1
  <2> QED BY <1>1, <2>2, FedFront
<1>3. CASE conn = "linked" /\ conn' = "linked" /\ Stream' = Append(Stream, m) /\ discarded' = discarded
  <2>1. Fed(Stream, o, D) /\ Reaches(Stream, o, D, tail)
    BY <1>3
  <2> HIDE DEF D
  <2>2. Fed(Append(Stream, m), o, D) /\ Reaches(Append(Stream, m), o, D, n)
    <3>1. CASE m = Output(tail) /\ n = tail + 1
      BY <1>1, <2>1, <3>1, FedAppend
    <3>2. CASE m.type # "Output" /\ n = tail
      BY <1>1, <2>1, <3>2, FedAppend
    <3> QED BY <3>1, <3>2
  <2> QED BY <1>3, <2>2 DEF D
<1>4. CASE /\ conn = "linked" /\ conn' = "linked"
           /\ Stream' = Append(Append(down, Error), FullSnapshot(seq + 1, cells))
           /\ discarded' = discarded \cup Offsets(Append(outbound, m))
  <2> DEFINE t == Append(outbound, m)  e == Error  f == FullSnapshot(seq + 1, cells)
  <2>1. D \subseteq E /\ Offsets(t) \subseteq E
    BY <1>4
  <2>2. t \in Seq(Sendable)
    BY <1>1, AppendProperties
  <2>3. Reaches(down \o t, o, D, n)
    <3>1. Stream = down \o outbound /\ Reaches(Stream, o, D, tail) /\ Fed(Stream, o, D)
      BY <1>4, StreamIs
    <3>2. down \o t = Append(Stream, m)
      BY <1>1, <3>1, AppendedFrame
    <3> HIDE DEF D, t
    <3>3. CASE m = Output(tail) /\ n = tail + 1
      BY <1>1, <3>1, <3>2, <3>3, FedAppend
    <3>4. CASE m.type # "Output" /\ n = tail
      BY <1>1, <3>1, <3>2, <3>4, FedAppend
    <3> QED BY <3>3, <3>4
  <2>4. e \in Sendable /\ f \in Sendable /\ e.type # "Output" /\ f.type # "Output"
    BY OtherFrames, SnapshotFrame
  <2> HIDE DEF D, E, t, e, f
  <2>5. Reaches(down, o, E, n)
    BY <1>1, <2>1, <2>2, <2>3, FedCut
  <2>6. Fed(down, o, E)
    BY <1>2, <2>1, FedGivenUp
  <2>7. Append(down, e) \in Seq(Sendable) /\ Fed(Append(down, e), o, E) /\ Reaches(Append(down, e), o, E, n)
    BY <1>1, <2>4, <2>5, <2>6, FedAppend, AppendProperties
  <2>8. Fed(Append(Append(down, e), f), o, E) /\ Reaches(Append(Append(down, e), f), o, E, n)
    BY <2>4, <2>7, FedAppend
  <2> QED BY <1>4, <2>1, <2>8 DEF D, E, e, f
<1>5. CASE conn' # "linked" /\ Stream' = down /\ discarded' = discarded
  BY <1>2, <1>5
<1> QED BY <1>3, <1>4, <1>5 DEF Queued

\* The replay starts where the client is, or what lies before it is given up.
LEMMA LogGreeting ==
  ASSUME StreamTypes, NEW s \in Nat, NEW D,
         \A n \in 0..(tail - 1) : n >= offset /\ (n < base \/ n + ReplayBudget < tail) => n \in D
  PROVE  Fed(Greeting(s), offset, D) /\ Reaches(Greeting(s), offset, D, tail)
<1> DEFINE F == ReplayFrom(offset)
<1>1. PICK a \in Seq(Sendable), r \in Nat :
           /\ Greeting(s) = Append(Append(a, FullSnapshot(s, Screen[tail])), ControlGranted)
           /\ DOMAIN a = 1..(r + 1) /\ Len(a) = r + 1
           /\ a[1] = HelloAck(exit_recorded)
           /\ \A i \in 1..r : a[i + 1] = Output(F + i - 1)
           /\ tail = F + r \/ (tail <= F /\ r = 0)
  BY GreetingShape
<1>2. /\ offset \in Nat /\ tail \in Nat /\ base \in Nat /\ ReplayBudget \in Nat
      /\ F \in Nat /\ F >= offset
      /\ F = offset \/ F = base \/ F + ReplayBudget = tail
  <2>1. offset \in Nat /\ tail \in Nat /\ base \in Nat /\ ReplayBudget \in Nat
    BY ScreenCells DEF StreamTypes, Bounds
  <2> QED BY <2>1, ReplayTypes
<1> HIDE DEF F
<1>3. ASSUME NEW x \in 0..(tail - 1), x < F PROVE x < offset \/ x \in D
  <2>1. x < offset \/ (x >= offset /\ (x < base \/ x + ReplayBudget < tail))
    BY <1>2, <1>3
  <2> QED BY <2>1
<1>4. ASSUME NEW x \in Nat, NEW i \in Nat, x < offset \/ x \in D \/ (x >= F /\ x < F + r /\ x + 2 - F < i)
      PROVE  Reached(a, offset, D, x, i)
  <2>1. CASE x < offset \/ x \in D
    BY <2>1 DEF Reached
  <2>2. CASE x >= F /\ x < F + r /\ x + 2 - F < i
    <3>1. x + 1 - F \in 1..r /\ F + (x + 1 - F) - 1 = x /\ (x + 1 - F) + 1 \in 1..(r + 1)
          /\ (x + 1 - F) + 1 < i
      BY <1>1, <1>2, <2>2
    <3>2. PICK j \in 1..r : F + j - 1 = x /\ j + 1 \in 1..(r + 1) /\ j + 1 < i
      BY <3>1
    <3>3. a[j + 1] = Output(x) /\ j + 1 \in DOMAIN a
      BY <1>1, <3>2
    <3> QED BY <3>2, <3>3 DEF Reached
  <2> QED BY <1>4, <2>1, <2>2
<1>5. Reaches(a, offset, D, tail)
  <2> SUFFICES ASSUME NEW x \in 0..(tail - 1) PROVE Reached(a, offset, D, x, r + 2)
    BY <1>1 DEF Reaches
  <2>1. x \in Nat /\ r + 2 \in Nat
    BY <1>1, <1>2
  <2>2. CASE x < F
    BY <1>3, <1>4, <2>1, <2>2
  <2>3. CASE x >= F
    <3>1. x < F + r /\ x + 2 - F < r + 2
      BY <1>1, <1>2, <2>3
    <3> QED BY <1>4, <2>1, <2>3, <3>1
  <2> QED BY <1>2, <2>2, <2>3
<1>6. Fed(a, offset, D)
  <2> SUFFICES ASSUME NEW i \in DOMAIN a, a[i].type = "Output", NEW x \in 0..(a[i].offset - 1)
               PROVE  Reached(a, offset, D, x, i)
    BY DEF Fed
  <2>1. i # 1
    BY <1>1 DEF HelloAck
  <2>2. r \in Nat /\ i \in 1..(r + 1)
    BY <1>1
  <2>3. i - 1 \in 1..r /\ i = (i - 1) + 1
    BY <2>1, <2>2
  <2>4. PICK j \in 1..r : i = j + 1
    BY <2>3
  <2>5. a[i] = Output(F + j - 1)
    BY <1>1, <2>4
  <2>6. a[i].offset = F + j - 1
    BY <2>5 DEF Output
  <2>7. x \in Nat /\ x < F + j - 1 /\ i \in Nat /\ j \in 1..r
    <3>1. x \in 0..((F + j - 1) - 1)
      BY <2>6, Zenon
    <3>2. F \in Nat /\ r \in Nat /\ j \in 1..r /\ i \in 1..(r + 1)
      BY <1>2, <2>2, <2>4
    <3> QED BY ONLY <3>1, <3>2
  <2>8. CASE x < F
    <3>1. x \in 0..(tail - 1)
      BY <1>1, <1>2, <2>2, <2>7, <2>8
    <3> QED BY <1>3, <1>4, <2>7, <2>8, <3>1
  <2>9. CASE x >= F
    <3>a. x \in Nat /\ F \in Nat /\ r \in Nat /\ j \in Nat /\ j <= r
      BY <1>2, <2>2, <2>7
    <3>1. x < F + r /\ x + 2 - F < i
      BY <2>4, <2>7, <3>a
    <3> QED BY <1>4, <2>7, <2>9, <3>1
  <2> QED BY <1>2, <2>7, <2>8, <2>9
<1> DEFINE f == FullSnapshot(s, Screen[tail])  g == ControlGranted
<1>7. f \in Sendable /\ g \in Sendable /\ f.type # "Output" /\ g.type # "Output"
  BY ScreenCells, OtherFrames, SnapshotFrame DEF StreamTypes, Bounds
<1>8. Greeting(s) = Append(Append(a, f), g)
  BY <1>1
<1> HIDE DEF f, g
<1>9. /\ Append(a, f) \in Seq(Sendable) /\ Fed(Append(a, f), offset, D)
      /\ Reaches(Append(a, f), offset, D, tail)
  BY <1>2, <1>5, <1>6, <1>7, FedAppend, AppendProperties
<1>10. Fed(Append(Append(a, f), g), offset, D) /\ Reaches(Append(Append(a, f), g), offset, D, tail)
  BY <1>2, <1>7, <1>9, FedAppend
<1> QED BY <1>8, <1>10

\* The Engine has no entry at or past its offset, in order, and none that is
\* lost below it.
LEMMA AppendToLog ==
  ASSUME NEW l \in Seq(Nat), NEW m \in Nat, NEW o \in Nat, o <= m, NEW D,
         \A i, j \in DOMAIN l : i < j => l[i] < l[j],
         \A i \in DOMAIN l : l[i] < o,
         \A n \in 0..(o - 1) : n \in Range(l) \cup D,
         \A n \in 0..(m - 1) : n < o \/ n \in D
  PROVE  /\ \A i, j \in DOMAIN Append(l, m) : i < j => Append(l, m)[i] < Append(l, m)[j]
         /\ \A i \in DOMAIN Append(l, m) : Append(l, m)[i] < m + 1
         /\ \A n \in 0..m : n \in Range(Append(l, m)) \cup D
<1> DEFINE u == Append(l, m)
<1>1. PICK k \in Nat :
        /\ k = Len(l) /\ DOMAIN l = 1..k /\ DOMAIN u = 1..(k + 1) /\ \A i \in 1..k : u[i] = l[i]
        /\ u[k + 1] = m
  BY ONLY AppendAt, l \in Seq(Nat), m \in Nat
<1>2. \A i \in 1..k : l[i] \in Nat
  BY <1>1, ElementOfSeq
<1> HIDE DEF u
<1>3. \A i, j \in DOMAIN u : i < j => u[i] < u[j]
  <2> SUFFICES ASSUME NEW i \in DOMAIN u, NEW j \in DOMAIN u, i < j PROVE u[i] < u[j]
    OBVIOUS
  <2>1. i \in 1..k /\ (j \in 1..k \/ j = k + 1)
    BY <1>1
  <2>2. CASE j \in 1..k
    BY <1>1, <2>1, <2>2
  <2>3. CASE j = k + 1
    BY <1>1, <1>2, <2>1, <2>3
  <2> QED BY <2>1, <2>2, <2>3
<1>4. \A i \in DOMAIN u : u[i] < m + 1
  <2> SUFFICES ASSUME NEW i \in DOMAIN u PROVE u[i] < m + 1
    OBVIOUS
  <2>1. i \in 1..k \/ i = k + 1
    BY <1>1
  <2>2. CASE i \in 1..k
    BY <1>1, <1>2, <2>2
  <2>3. CASE i = k + 1
    BY <1>1, <2>3
  <2> QED BY <2>1, <2>2, <2>3
<1>5. \A n \in 0..m : n \in Range(u) \cup D
  <2> SUFFICES ASSUME NEW n \in 0..m, n \notin D PROVE n \in Range(u)
    OBVIOUS
  <2>1. \A i \in DOMAIN u : u[i] \in Range(u)
    BY DEF Range
  <2>2. CASE n = m
    BY <1>1, <2>1, <2>2
  <2>3. CASE n # m
    <3>1. n \in 0..(m - 1)
      BY <2>3
    <3>2. n < o
      BY <3>1
    <3>3. n \in 0..(o - 1)
      BY <3>1, <3>2
    <3>4. n \in Range(l)
      BY <3>3
    <3>5. PICK i \in DOMAIN l : n = l[i]
      BY <3>4 DEF Range
    <3>6. i \in DOMAIN u /\ u[i] = n
      BY <1>1, <3>5
    <3> QED BY <2>1, <3>6
  <2> QED BY <2>2, <2>3
<1> QED BY <1>3, <1>4, <1>5 DEF u

\* The parts of the invariant, without the Engine's restarts.
LogFacts ==
  /\ LogIsFaithful
  /\ \A i \in DOMAIN log : log[i] < offset
  /\ Fed(Stream, offset, discarded)
  /\ conn = "linked" => Reaches(Stream, offset, discarded, tail)

\* Nothing is appended, and no chunk comes to be missing.
LEMMA LogKept ==
  ASSUME LogFacts, UNCHANGED <<log, offset>>, discarded \subseteq discarded'
  PROVE  /\ LogIsFaithful' /\ \A i \in DOMAIN log' : log'[i] < offset'
         /\ Fed(Stream', offset, discarded') /\
            (conn' = "linked" => Reaches(Stream', offset, discarded', tail')) => LogFacts'
<1>1. LogIsFaithful'
  <2> SUFFICES /\ \A i, j \in DOMAIN log : i < j => log[i] < log[j]
               /\ \A n \in 0..(offset - 1) : n \in Range(log) \cup discarded'
    BY DEF LogIsFaithful
  <2>1. /\ \A i, j \in DOMAIN log : i < j => log[i] < log[j]
        /\ \A n \in 0..(offset - 1) : n \in Range(log) \cup discarded
    BY DEF LogFacts, LogIsFaithful
  <2> QED BY <2>1
<1>2. \A i \in DOMAIN log' : log'[i] < offset'
  BY DEF LogFacts
<1> QED BY <1>1, <1>2 DEF LogFacts

\* Every step keeps the log, and what is under way for it.
LEMMA LogStep ==
  ASSUME StreamTypes, StreamTypes', StreamShape, LogInv, StreamNext
  PROVE  LogInv'
<1>0. restarts' = 0 => restarts = 0
  <2>1. restarts \in Nat
    BY DEF StreamTypes
  <2>2. restarts' = restarts \/ restarts' = restarts + 1
    BY DEF StreamNext, Holder, DrainPty, RecordAgentExit, Handshake, FlushConnection,
       EmitGridDelta, DropStale,
           Resize, Connect, LinkLost, EngineRestart, Receive, ReceiveUnexpected, ReceiveHelloAck,
           ReceiveOutput, ReceiveSnapshot, ReceiveDelta, ReceiveExit, ReceiveOther, Handled, streamCounts
  <2> QED BY <2>1, <2>2
<1> SUFFICES ASSUME LogFacts, restarts' = 0 PROVE LogFacts'
  BY <1>0 DEF LogInv, LogFacts
<1>1. /\ Stream \in Seq(Sendable) /\ offset \in Nat /\ tail \in Nat /\ tail + 1 \in Nat
      /\ snapshot_sequence \in Nat /\ snapshot_sequence + 1 \in Nat
  <2>1. tail \in Nat
    BY ScreenCells DEF StreamTypes, Bounds
  <2>2. Stream \in Seq(Sendable) /\ offset \in Nat /\ snapshot_sequence \in Nat
    BY StreamIs DEF StreamTypes
  <2> QED BY <2>1, <2>2
<1>2. Screen[tail] \in Rows /\ Screen[tail] \in Cells
  BY ScreenCells DEF StreamTypes, Bounds, Rows
<1>a. /\ Fed(Stream, offset, discarded)
      /\ conn = "linked" => Reaches(Stream, offset, discarded, tail)
  BY DEF LogFacts
<1>3. CASE DrainPty
  <2>1. /\ Queue(Output(tail), snapshot_sequence, Screen[tail + 1]) /\ tail + 1 \in 0..MaxOutput
        /\ UNCHANGED <<down, log, offset>> /\ tail' = tail + 1
    BY <1>3, ScreenCells DEF DrainPty, engineVars, StreamTypes, Bounds
  <2>2. Output(tail) \in Sendable /\ Screen[tail + 1] \in Rows
    BY <1>1, <2>1, ScreenCells, OutputFrame DEF Bounds
  <2>3. Queued(Output(tail), snapshot_sequence, Screen[tail + 1])
    BY <1>1, <2>1, <2>2, QueueMoves
  <2>4. /\ Fed(Stream', offset, discarded') /\ discarded \subseteq discarded'
        /\ conn' = "linked" => Reaches(Stream', offset, discarded', tail + 1)
    BY <1>1, <1>a, <2>2, <2>3, LogQueued
  <2> QED BY <2>1, <2>4, LogKept
<1>4. CASE RecordAgentExit
  <2>1. /\ Queue(ProcessExit, snapshot_sequence, Screen[tail])
        /\ UNCHANGED <<down, log, offset, tail>>
    BY <1>4 DEF RecordAgentExit, engineVars
  <2>2. ProcessExit \in Sendable /\ ProcessExit.type # "Output"
    BY OtherFrames
  <2>3. Queued(ProcessExit, snapshot_sequence, Screen[tail])
    BY <1>1, <1>2, <2>1, <2>2, QueueMoves
  <2>4. /\ Fed(Stream', offset, discarded') /\ discarded \subseteq discarded'
        /\ conn' = "linked" => Reaches(Stream', offset, discarded', tail)
    BY <1>1, <1>2, <1>a, <2>2, <2>3, LogQueued
  <2> QED BY <2>1, <2>4, LogKept
<1>5. CASE EmitGridDelta /\ conn # "none"
  <2> DEFINE s == snapshot_sequence + 1
             m == IF last_cells = NoCells THEN FullSnapshot(s, Screen[tail])
                  ELSE GridDelta(s, Changed(Screen[tail]))
  <2>1. Queue(m, s, Screen[tail]) /\ UNCHANGED <<down, log, offset, tail>>
    BY <1>5 DEF EmitGridDelta, engineVars
  <2>2. Changed(Screen[tail]) \in Cells
    BY <1>2 DEF Changed, Cells
  <2>3. m \in Sendable /\ s \in Nat /\ m.type # "Output"
    BY <1>1, <1>2, <2>2, SnapshotFrame, DeltaFrame
  <2> HIDE DEF m, s
  <2>4. Queued(m, s, Screen[tail])
    BY <1>2, <2>1, <2>3, QueueMoves
  <2>5. /\ Fed(Stream', offset, discarded') /\ discarded \subseteq discarded'
        /\ conn' = "linked" => Reaches(Stream', offset, discarded', tail)
    BY <1>1, <1>2, <1>a, <2>3, <2>4, LogQueued
  <2> QED BY <2>1, <2>5, LogKept
<1>6. CASE Resize
  <2> DEFINE m == FullSnapshot(snapshot_sequence + 1, Screen[tail])
  <2>1. m \in Sendable /\ m.type # "Output"
    BY <1>1, <1>2, SnapshotFrame
  <2>2. /\ conn = "linked" /\ conn' = "linked" /\ outbound' = Append(outbound, m) /\ down' = down
        /\ UNCHANGED <<log, offset, tail, discarded>>
    BY <1>6 DEF Resize, engineVars
  <2> HIDE DEF m
  <2>3. Stream' = Append(Stream, m)
    BY <2>1, <2>2, SentMove
  <2>4. Fed(Append(Stream, m), offset, discarded) /\ Reaches(Append(Stream, m), offset, discarded, tail)
    BY <1>1, <1>a, <2>1, <2>2, FedAppend
  <2> QED BY <2>2, <2>3, <2>4, LogKept
<1>7. CASE StreamQuiet
  <2>1. UNCHANGED <<log, offset, discarded, tail, Stream>> /\ (conn' = "linked" => conn = "linked")
    BY <1>7 DEF StreamQuiet
  <2> QED BY <1>a, <2>1, LogKept
<1>8. CASE Handshake
  <2>1. Stream' = Greeting(snapshot_sequence + 1) /\ UNCHANGED <<log, offset, tail>>
    BY <1>8, HandshakeMove DEF Handshake, engineVars
  <2>2. /\ discarded \subseteq discarded'
        /\ \A n \in 0..(tail - 1) : n >= offset /\ (n < base \/ n + ReplayBudget < tail) => n \in discarded'
    BY <1>8 DEF Handshake
  <2>3. /\ Fed(Greeting(snapshot_sequence + 1), offset, discarded')
        /\ Reaches(Greeting(snapshot_sequence + 1), offset, discarded', tail)
    BY <1>1, <2>2, LogGreeting
  <2> QED BY <2>1, <2>2, <2>3, LogKept
<1>9. ASSUME Cleared, UNCHANGED <<log, offset>> PROVE LogFacts'
  <2>1. Stream' = <<>> /\ conn' # "linked" /\ discarded' = discarded
    BY <1>9 DEF Cleared
  <2>2. Fed(Stream', offset, discarded')
    BY <2>1 DEF Fed
  <2> QED BY <1>9, <2>1, <2>2, LogKept
<1>10. ASSUME Popped, UNCHANGED <<log, offset>>,
              Head(down).type = "Output" => Head(down).offset < offset
       PROVE  LogFacts'
  <2>1. /\ Stream # <<>> /\ Stream' = Tail(Stream) /\ UNCHANGED <<conn, tail, discarded>>
        /\ Head(Stream) = Head(down)
    BY <1>10 DEF Popped
  <2>2. offset <= offset /\ (Head(Stream).type = "Output" => Head(Stream).offset < offset)
    BY <1>1, <1>10, <2>1
  <2>3. /\ Fed(Tail(Stream), offset, discarded)
        /\ conn = "linked" => Reaches(Tail(Stream), offset, discarded, tail)
    BY <1>1, <1>a, <2>1, <2>2, FedTail
  <2> QED BY <1>10, <2>1, <2>3, LogKept
<1>11. CASE ReceiveOutput
  <2>1. down # <<>> /\ Head(down).type = "Output" /\ Handled
    BY <1>11 DEF ReceiveOutput, Frame
  <2>2. Popped /\ Head(down).offset \in Nat
    BY <2>1, PoppingSteps, HeadTypes, FrameKinds
  <2> DEFINE n == Head(down).offset
  <2>3. CASE n + 1 <= offset
    <3>1. UNCHANGED <<log, offset>>
      BY <1>11, <2>3 DEF ReceiveOutput
    <3>2. n < offset
      BY <1>1, <2>2, <2>3
    <3> QED BY <1>10, <2>2, <3>1, <3>2
  <2>4. CASE ~(n + 1 <= offset)
    <3>1. offset' = n + 1 /\ log' = Append(log, n)
      BY <1>11, <2>4 DEF ReceiveOutput
    <3>2. /\ Stream # <<>> /\ Stream' = Tail(Stream) /\ UNCHANGED <<conn, tail, discarded>>
          /\ Head(Stream) = Head(down)
      BY <2>2 DEF Popped
    <3>3. n \in Nat /\ offset <= n /\ n + 1 \in Nat /\ offset <= n + 1 /\ n < n + 1
      BY <1>1, <2>2, <2>4
    <3>4. Head(Stream).type = "Output" /\ Head(Stream).offset = n
      BY <2>1, <3>2
    <3> DEFINE p == n + 1
    <3>5. p \in Nat /\ offset <= p /\ (Head(Stream).type = "Output" => Head(Stream).offset < p)
      BY <3>3, <3>4
    <3> HIDE DEF p, n
    <3>6. /\ Fed(Tail(Stream), p, discarded)
          /\ conn = "linked" => Reaches(Tail(Stream), p, discarded, tail)
          /\ \A x \in 0..(Head(Stream).offset - 1) : x < offset \/ x \in discarded
      BY <1>1, <1>a, <3>2, <3>4, <3>5, FedTail
    <3>7. /\ log \in Seq(Nat)
          /\ \A i, j \in DOMAIN log : i < j => log[i] < log[j]
          /\ \A i \in DOMAIN log : log[i] < offset
          /\ \A x \in 0..(offset - 1) : x \in Range(log) \cup discarded
          /\ \A x \in 0..(n - 1) : x < offset \/ x \in discarded
      BY <3>4, <3>6 DEF LogFacts, LogIsFaithful, StreamTypes
    <3>8. /\ \A i, j \in DOMAIN Append(log, n) : i < j => Append(log, n)[i] < Append(log, n)[j]
          /\ \A i \in DOMAIN Append(log, n) : Append(log, n)[i] < n + 1
          /\ \A x \in 0..n : x \in Range(Append(log, n)) \cup discarded
      BY <1>1, <3>3, <3>7, AppendToLog
    <3>9. \A x \in 0..(offset' - 1) : x \in Range(log') \cup discarded'
      <4>1. offset' - 1 = n
        BY <3>1, <3>3
      <4> QED BY <3>1, <3>2, <3>8, <4>1
    <3>10. LogIsFaithful'
      BY <3>1, <3>8, <3>9 DEF LogIsFaithful
    <3>11. offset' = p
      BY <3>1 DEF p
    <3> QED BY <3>1, <3>2, <3>6, <3>8, <3>10, <3>11 DEF LogFacts
  <2> QED BY <2>3, <2>4
<1>12. CASE Receive
  <2>1. CASE Disconnect /\ UNCHANGED <<log, offset>>
    BY <1>9, <2>1, ClearingSteps
  <2>2. CASE Handled /\ UNCHANGED <<log, offset>> /\ Receive /\ ~ReceiveOutput
    <3>1. down # <<>> /\ (Head(down).type # "Output" \/ Disconnect)
      BY <2>2 DEF Receive, ReceiveUnexpected, ReceiveHelloAck, ReceiveSnapshot,
                  ReceiveDelta, ReceiveExit, ReceiveOther, Frame, EndPump
    <3>2. Popped
      BY <2>2, <3>1, PoppingSteps
    <3> QED BY <1>10, <2>1, <2>2, <3>1, <3>2
  <2>3. ReceiveOutput \/ ((Disconnect \/ Handled) /\ UNCHANGED <<log, offset>>)
    BY <1>12 DEF Receive, ReceiveUnexpected, ReceiveHelloAck, ReceiveSnapshot,
                 ReceiveDelta, ReceiveExit, ReceiveOther, EndPump, Reconnect, engineVars
  <2> QED BY <1>11, <1>12, <2>1, <2>2, <2>3
<1>13. CASE LinkLost
  <2>1. Disconnect /\ UNCHANGED <<log, offset>>
    BY <1>13 DEF LinkLost, Reconnect
  <2> QED BY <1>9, <2>1, ClearingSteps
<1>14. CASE EngineRestart
  <2>1. restarts' = restarts + 1 /\ restarts \in Nat
    BY <1>14 DEF EngineRestart, StreamTypes
  <2> QED BY <2>1
<1>15. CASE FlushConnection \/ DropStale \/ Connect \/ (EmitGridDelta /\ conn = "none")
  BY <1>7, <1>15, QuietSteps
<1> QED BY <1>3, <1>4, <1>5, <1>6, <1>8, <1>12, <1>13, <1>14, <1>15 DEF StreamNext, Holder

-----------------------------------------------------------------------------
(***************************************************************************)
(* Exits: what the stream says of the Agent is so.                         *)
(***************************************************************************)
\* A stream the Engine has not been greeted on begins with the greeting, one
\* it has been greeted on has none, and no frame reports an exit but after e.
Exits(s, h, e) ==
  \A i \in DOMAIN s :
    /\ s[i].type = "HelloAck" => i = 1 /\ ~h /\ (s[i].exited => e)
    /\ s[i].type = "ProcessExit" => e
    /\ i = 1 /\ ~h => s[i].type = "HelloAck"

\* That holds while the greeting is not replaced with its buffer; an exit
\* ends the connection for good, so the next greeting finds none.
ExitInv ==
  /\ ~ungreeted => /\ conn = "linked" /\ ~hello_accepted => Stream # <<>>
                   /\ Exits(Stream, hello_accepted, exit_recorded)
  /\ bridge # "none" => exited = "no"
  /\ ExitIsTruthful

\* A frame queued stands behind the others.
LEMMA FrameAppended ==
  ASSUME NEW s \in Seq(Sendable), NEW m \in Sendable
  PROVE  /\ Len(s) \in Nat /\ DOMAIN s = 1..Len(s) /\ DOMAIN Append(s, m) = 1..(Len(s) + 1)
         /\ \A i \in 1..Len(s) : Append(s, m)[i] = s[i]
         /\ Append(s, m)[Len(s) + 1] = m
  BY AppendProperties, LenProperties

\* A frame queued behind the greeting reports an exit only if there was one.
LEMMA ExitsAppend ==
  ASSUME NEW s \in Seq(Sendable), NEW m \in Sendable, NEW h \in BOOLEAN, NEW e \in BOOLEAN,
         Exits(s, h, e), m.type # "HelloAck", m.type = "ProcessExit" => e, h \/ s # <<>>
  PROVE  Exits(Append(s, m), h, e) /\ Append(s, m) # <<>>
<1> DEFINE u == Append(s, m)
<1> DEFINE k == Len(s)
<1>1. /\ k \in Nat /\ DOMAIN s = 1..k /\ DOMAIN u = 1..(k + 1)
      /\ \A i \in 1..k : u[i] = s[i]
      /\ u[k + 1] = m
  BY ONLY s \in Seq(Sendable), m \in Sendable, FrameAppended
<1>2. s # <<>> => k # 0
  BY EmptySeq
<1>3. u # <<>>
  BY AppendProperties
<1> HIDE DEF u, k
<1>4. Exits(u, h, e)
  <2> SUFFICES ASSUME NEW i \in DOMAIN u
               PROVE  /\ u[i].type = "HelloAck" => i = 1 /\ ~h /\ (u[i].exited => e)
                      /\ u[i].type = "ProcessExit" => e
                      /\ i = 1 /\ ~h => u[i].type = "HelloAck"
    BY DEF Exits
  <2>1. CASE i \in 1..k
    BY <1>1, <2>1 DEF Exits
  <2>2. CASE i = k + 1
    BY <1>1, <1>2, <2>2
  <2> QED BY <1>1, <2>1, <2>2
<1> QED BY <1>3, <1>4 DEF u

\* The front of a truthful stream is truthful.
LEMMA ExitsFront ==
  ASSUME NEW s \in Seq(Sendable), NEW t \in Seq(Sendable), NEW h, NEW e, Exits(s \o t, h, e)
  PROVE  Exits(s, h, e)
<1>1. PICK n, k \in Nat : /\ DOMAIN s = 1..n /\ DOMAIN (s \o t) = 1..(n + k)
                          /\ \A i \in 1..n : (s \o t)[i] = s[i]
  BY FrontAt
<1>2. \A i \in 1..n : i \in DOMAIN (s \o t)
  BY <1>1
<1> QED BY <1>1, <1>2 DEF Exits

\* What the Engine has at hand is truthful, and so is what is left.
LEMMA ExitsPopped ==
  ASSUME StreamTypes, ExitInv, Stream # <<>>, ~ungreeted
  PROVE  /\ Exits(Tail(Stream), TRUE, exit_recorded)
         /\ Head(Stream).type = "HelloAck" => ~hello_accepted /\ (Head(Stream).exited => exit_recorded)
         /\ Head(Stream).type = "ProcessExit" => exit_recorded
         /\ ~hello_accepted => Head(Stream).type = "HelloAck"
<1> DEFINE s == Stream  h == hello_accepted  e == exit_recorded
<1>0. s \in Seq(Sendable) /\ s # <<>> /\ Exits(s, h, e)
  BY StreamIs DEF ExitInv
<1> HIDE DEF s
<1>1. PICK k \in Nat :
        /\ DOMAIN s = 1..(k + 1) /\ DOMAIN Tail(s) = 1..k /\ Head(s) = s[1]
        /\ \A i \in 1..k : Tail(s)[i] = s[i + 1]
  BY <1>0, TailAt
<1>2. ASSUME NEW i \in DOMAIN Tail(s)
      PROVE  Tail(s)[i].type # "HelloAck" /\ (Tail(s)[i].type = "ProcessExit" => e)
  <2>1. i \in 1..k /\ i + 1 \in DOMAIN s /\ i + 1 # 1
    BY <1>1
  <2> QED BY <1>0, <1>1, <2>1 DEF Exits
<1>3. 1 \in DOMAIN s
  BY <1>1
<1>4. Exits(Tail(s), TRUE, e)
  BY <1>2 DEF Exits
<1>5. /\ s[1].type = "HelloAck" => ~h /\ (s[1].exited => e)
      /\ s[1].type = "ProcessExit" => e
      /\ ~h => s[1].type = "HelloAck"
  BY <1>0, <1>3 DEF Exits
<1> QED BY <1>1, <1>4, <1>5 DEF s

\* A greeting comes first and says whether the Agent has exited.
LEMMA ExitsGreeting ==
  ASSUME StreamTypes, NEW s \in Nat
  PROVE  Exits(Greeting(s), FALSE, exit_recorded) /\ Greeting(s) # <<>>
<1> DEFINE f == FullSnapshot(s, Screen[tail])  g == ControlGranted  F == ReplayFrom(offset)
<1>1. PICK a \in Seq(Sendable), r \in Nat :
           /\ Greeting(s) = Append(Append(a, f), g)
           /\ DOMAIN a = 1..(r + 1) /\ Len(a) = r + 1
           /\ a[1] = HelloAck(exit_recorded)
           /\ \A i \in 1..r : a[i + 1] = Output(F + i - 1)
  BY GreetingShape
<1>2. f \in Sendable /\ g \in Sendable /\ f.type = "FullSnapshot" /\ g.type = "ControlGranted"
  <2>1. tail \in 0..MaxOutput
    BY DEF StreamTypes
  <2>2. Screen[tail] \in Rows
    BY <2>1, ScreenCells DEF Bounds
  <2> QED BY ONLY s \in Nat, <2>2, SnapshotFrame, OtherFrames
<1> HIDE DEF f, g, F
<1>3. a # <<>>
  BY <1>1, EmptySeq
<1>4. Exits(a, FALSE, exit_recorded)
  <2> SUFFICES ASSUME NEW i \in DOMAIN a
               PROVE  /\ a[i].type = "HelloAck" => i = 1 /\ (a[i].exited => exit_recorded)
                      /\ a[i].type = "ProcessExit" => exit_recorded
                      /\ i = 1 => a[i].type = "HelloAck"
    BY DEF Exits
  <2>1. CASE i = 1
    BY <1>1, <2>1 DEF HelloAck
  <2>2. CASE i # 1
    <3>1. r \in Nat /\ i \in 1..(r + 1)
      BY <1>1
    <3>2. i - 1 \in 1..r /\ i = (i - 1) + 1
      BY <2>2, <3>1
    <3>3. PICK j \in 1..r : i = j + 1
      BY <3>2
    <3>4. a[j + 1] = Output(F + j - 1)
      BY <1>1, <3>3
    <3>5. a[i].type = "Output"
      BY <3>3, <3>4 DEF Output
    <3> QED BY <2>2, <3>5
  <2> QED BY <2>1, <2>2
<1>5. exit_recorded \in BOOLEAN /\ FALSE \in BOOLEAN
  BY DEF StreamTypes
<1>6. Append(a, f) \in Seq(Sendable) /\ Exits(Append(a, f), FALSE, exit_recorded) /\ Append(a, f) # <<>>
  BY <1>2, <1>3, <1>4, <1>5, ExitsAppend, AppendProperties
<1>7. Exits(Append(Append(a, f), g), FALSE, exit_recorded) /\ Append(Append(a, f), g) # <<>>
  BY <1>2, <1>5, <1>6, ExitsAppend
<1> QED BY <1>1, <1>7

\* A frame queued, with the greeting not given up, leaves the stream truthful.
LEMMA ExitsQueued ==
  ASSUME StreamTypes, ExitInv, NEW m \in Sendable, NEW seq \in Nat, NEW cells \in Rows,
         Queued(m, seq, cells), m.type # "HelloAck", NEW e \in BOOLEAN, exit_recorded => e,
         m.type = "ProcessExit" => e
  PROVE  /\ ~ungreeted' => /\ conn' = "linked" /\ ~hello_accepted => Stream' # <<>>
                           /\ Exits(Stream', hello_accepted, e)
         /\ ungreeted => ungreeted'
<1>a. ungreeted => ungreeted'
  BY DEF Queued
<1> SUFFICES ASSUME ~ungreeted'
             PROVE  /\ conn' = "linked" /\ ~hello_accepted => Stream' # <<>>
                    /\ Exits(Stream', hello_accepted, e)
  BY <1>a
<1> DEFINE h == hello_accepted
<1>1. /\ Stream \in Seq(Sendable) /\ down \in Seq(Sendable) /\ outbound \in Seq(Sendable)
      /\ h \in BOOLEAN
  BY StreamIs DEF StreamTypes
<1>2. Exits(Stream, h, e) /\ (conn = "linked" => h \/ Stream # <<>>)
  BY <1>a DEF ExitInv, Exits
<1>3. Exits(down, h, e)
  <2>1. PICK t \in Seq(Sendable) : Stream = down \o t
    BY StreamIs
  <2>2. Exits(down \o t, h, e)
    BY <1>2, <2>1
  <2> QED BY <1>1, <2>2, ExitsFront
<1>4. CASE conn = "linked" /\ conn' = "linked" /\ Stream' = Append(Stream, m)
  <2> HIDE DEF h
  <2>1. Exits(Append(Stream, m), h, e) /\ Append(Stream, m) # <<>>
    BY <1>1, <1>2, <1>4, ExitsAppend
  <2> QED BY <1>4, <2>1 DEF h
<1>5. CASE /\ conn = "linked" /\ conn' = "linked"
           /\ Stream' = Append(Append(down, Error), FullSnapshot(seq + 1, cells))
           /\ ungreeted' = (ungreeted \/ HasHelloAck(outbound))
  <2>1. h \/ down # <<>>
    <3> SUFFICES ASSUME ~h, down = <<>> PROVE FALSE
      OBVIOUS
    <3>1. Stream = outbound /\ Stream # <<>>
      <4>1. Stream = <<>> \o outbound
        BY <1>5, StreamIs
      <4> QED BY <1>1, <1>2, <1>5, <4>1, ConcatEmptySeq
    <3>2. Stream[1].type = "HelloAck" /\ 1 \in DOMAIN Stream
      <4>1. Head(Stream).type = "HelloAck"
        BY <1>a, <3>1, ExitsPopped
      <4>2. Head(Stream) = Stream[1] /\ 1 \in DOMAIN Stream
        BY <1>1, <3>1, TailAt
      <4> QED BY <4>1, <4>2
    <3>3. HasHelloAck(outbound)
      BY <3>1, <3>2 DEF HasHelloAck
    <3> QED BY <1>5, <3>3
  <2> DEFINE u == Append(down, Error)  f == FullSnapshot(seq + 1, cells)
  <2>2. f \in Sendable /\ f.type = "FullSnapshot" /\ Error \in Sendable /\ Error.type = "Error"
    BY SnapshotFrame, OtherFrames
  <2> HIDE DEF h, f
  <2>3. Exits(u, h, e) /\ u # <<>> /\ u \in Seq(Sendable)
    BY <1>1, <1>3, <2>1, <2>2, ExitsAppend, AppendProperties
  <2> HIDE DEF u
  <2>4. Exits(Append(u, f), h, e) /\ Append(u, f) # <<>>
    BY <1>1, <2>2, <2>3, ExitsAppend
  <2> QED BY <1>5, <2>4 DEF h, u, f
<1>6. CASE conn' # "linked" /\ Stream' = down
  BY <1>3, <1>6
<1> QED BY <1>4, <1>5, <1>6 DEF Queued

\* Every step keeps the stream truthful about the exit.
LEMMA ExitStep ==
  ASSUME StreamTypes, StreamTypes', StreamShape, ExitInv, StreamNext
  PROVE  ExitInv'
<1>1. /\ Stream \in Seq(Sendable) /\ hello_accepted \in BOOLEAN /\ exit_recorded \in BOOLEAN
      /\ snapshot_sequence \in Nat /\ snapshot_sequence + 1 \in Nat
  <2>1. snapshot_sequence \in Nat
    BY DEF StreamTypes
  <2>2. Stream \in Seq(Sendable) /\ hello_accepted \in BOOLEAN /\ exit_recorded \in BOOLEAN
    BY StreamIs DEF StreamTypes
  <2> QED BY <2>1, <2>2
<1>2. Screen[tail] \in Rows /\ Screen[tail] \in Cells
  BY ScreenCells DEF StreamTypes, Bounds, Rows
<1>a. /\ ~ungreeted => /\ conn = "linked" /\ ~hello_accepted => Stream # <<>>
                       /\ Exits(Stream, hello_accepted, exit_recorded)
      /\ exited # "no" => exit_recorded \/ ungreeted
      /\ bridge # "none" => exited = "no"
  BY DEF ExitInv, ExitIsTruthful
<1>3. CASE DrainPty
  <2>1. /\ Queue(Output(tail), snapshot_sequence, Screen[tail + 1]) /\ tail + 1 \in 0..MaxOutput
        /\ UNCHANGED <<down, hello_accepted, exit_recorded, exited, bridge>>
    BY <1>3, ScreenCells DEF DrainPty, engineVars, StreamTypes, Bounds
  <2>2. Output(tail) \in Sendable /\ Output(tail).type = "Output" /\ Screen[tail + 1] \in Rows
    <3>1. tail \in Nat
      BY ScreenCells DEF StreamTypes, Bounds
    <3> QED BY <2>1, <3>1, ScreenCells, OutputFrame DEF Bounds
  <2>3. Queued(Output(tail), snapshot_sequence, Screen[tail + 1])
    BY <1>1, <2>1, <2>2, QueueMoves
  <2>4. /\ ~ungreeted' => /\ conn' = "linked" /\ ~hello_accepted => Stream' # <<>>
                          /\ Exits(Stream', hello_accepted, exit_recorded)
        /\ ungreeted => ungreeted'
    BY <1>1, <2>2, <2>3, ExitsQueued
  <2> QED BY <1>a, <2>1, <2>4 DEF ExitInv, ExitIsTruthful
<1>4. CASE RecordAgentExit
  <2>1. /\ Queue(ProcessExit, snapshot_sequence, Screen[tail])
        /\ UNCHANGED <<down, hello_accepted, exited, bridge>> /\ exit_recorded' = TRUE
    BY <1>4 DEF RecordAgentExit, engineVars
  <2>2. ProcessExit \in Sendable /\ ProcessExit.type = "ProcessExit"
    BY OtherFrames
  <2>3. Queued(ProcessExit, snapshot_sequence, Screen[tail])
    BY <1>1, <1>2, <2>1, <2>2, QueueMoves
  <2>4. /\ ~ungreeted' => /\ conn' = "linked" /\ ~hello_accepted => Stream' # <<>>
                          /\ Exits(Stream', hello_accepted, TRUE)
        /\ ungreeted => ungreeted'
    BY <1>1, <1>2, <2>2, <2>3, ExitsQueued
  <2> QED BY <1>a, <2>1, <2>4 DEF ExitInv, ExitIsTruthful
<1>5. CASE EmitGridDelta /\ conn # "none"
  <2> DEFINE s == snapshot_sequence + 1
             m == IF last_cells = NoCells THEN FullSnapshot(s, Screen[tail])
                  ELSE GridDelta(s, Changed(Screen[tail]))
  <2>1. /\ Queue(m, s, Screen[tail])
        /\ UNCHANGED <<down, hello_accepted, exit_recorded, exited, bridge>>
    BY <1>5 DEF EmitGridDelta, engineVars
  <2>2. Changed(Screen[tail]) \in Cells
    BY <1>2 DEF Changed, Cells
  <2>3. m \in Sendable /\ s \in Nat /\ m.type \in {"FullSnapshot", "GridDelta"}
    BY <1>1, <1>2, <2>2, SnapshotFrame, DeltaFrame
  <2> HIDE DEF m, s
  <2>4. Queued(m, s, Screen[tail])
    BY <1>2, <2>1, <2>3, QueueMoves
  <2>5. /\ ~ungreeted' => /\ conn' = "linked" /\ ~hello_accepted => Stream' # <<>>
                          /\ Exits(Stream', hello_accepted, exit_recorded)
        /\ ungreeted => ungreeted'
    BY <1>1, <1>2, <2>3, <2>4, ExitsQueued
  <2> QED BY <1>a, <2>1, <2>5 DEF ExitInv, ExitIsTruthful
<1>6. CASE Resize
  <2> DEFINE m == FullSnapshot(snapshot_sequence + 1, Screen[tail])
  <2>1. m \in Sendable /\ m.type = "FullSnapshot"
    BY <1>1, <1>2, SnapshotFrame
  <2>2. /\ conn = "linked" /\ conn' = "linked" /\ outbound' = Append(outbound, m) /\ down' = down
        /\ hello_accepted /\ UNCHANGED <<hello_accepted, exit_recorded, exited, bridge, ungreeted>>
    BY <1>6 DEF Resize, engineVars
  <2> HIDE DEF m
  <2>3. Stream' = Append(Stream, m)
    BY <2>1, <2>2, SentMove
  <2>4. ~ungreeted => Exits(Append(Stream, m), hello_accepted, exit_recorded)
                      /\ Append(Stream, m) # <<>>
    BY <1>1, <1>a, <2>1, <2>2, ExitsAppend
  <2> QED BY <1>a, <2>2, <2>3, <2>4 DEF ExitInv, ExitIsTruthful
<1>7. CASE StreamQuiet
  BY <1>7 DEF StreamQuiet, ExitInv, ExitIsTruthful
<1>8. CASE Handshake
  <2>1. /\ Stream' = Greeting(snapshot_sequence + 1) /\ hello_accepted = FALSE
        /\ UNCHANGED <<hello_accepted, exit_recorded, exited>> /\ bridge = "hello"
    BY <1>8, HandshakeMove DEF Handshake, engineVars
  <2> QED BY <1>1, <1>a, <2>1, ExitsGreeting DEF ExitInv, ExitIsTruthful
<1>9. ASSUME Cleared, exited' # "no" => exit_recorded \/ ungreeted PROVE ExitInv'
  <2>1. Exits(<<>>, FALSE, exit_recorded)
    BY DEF Exits
  <2> QED BY <1>9, <2>1 DEF Cleared, ExitInv, ExitIsTruthful
<1>10. ASSUME Popped, hello_accepted' = TRUE, exited' = exited PROVE ExitInv'
  <2>1. /\ Stream # <<>> /\ Stream' = Tail(Stream)
        /\ UNCHANGED <<exit_recorded, bridge, ungreeted>>
    BY <1>10 DEF Popped
  <2>2. ~ungreeted => Exits(Tail(Stream), TRUE, exit_recorded)
    BY <2>1, ExitsPopped
  <2> QED BY <1>10, <1>a, <2>1, <2>2 DEF ExitInv, ExitIsTruthful
<1>11. ASSUME down # <<>>, ~ungreeted
       PROVE  /\ Head(down).type = "HelloAck" => ~hello_accepted /\ (Head(down).exited => exit_recorded)
              /\ Head(down).type = "ProcessExit" => exit_recorded
              /\ ~hello_accepted => Head(down).type = "HelloAck"
  <2>1. Stream # <<>> /\ Head(Stream) = Head(down)
    BY <1>11, HeadOfStream
  <2> QED BY <1>11, <2>1, ExitsPopped
<1>12. ASSUME Reconnect PROVE ExitInv'
  <2>1. Disconnect /\ (exited' = exited \/ exit_recorded)
    BY <1>12 DEF Reconnect
  <2>2. Cleared
    BY <2>1, ClearingSteps
  <2> QED BY <1>9, <1>a, <2>1, <2>2
<1>13. ASSUME NEW how, EndPump(how), exit_recorded \/ ungreeted PROVE ExitInv'
  <2>1. Disconnect
    BY <1>13 DEF EndPump
  <2>2. Cleared
    BY <2>1, ClearingSteps
  <2> QED BY <1>9, <1>13, <2>2
<1>14. CASE Receive
  <2>1. down # <<>>
    BY <1>14 DEF Receive, ReceiveUnexpected, ReceiveHelloAck, ReceiveOutput, ReceiveSnapshot,
                 ReceiveDelta, ReceiveExit, ReceiveOther, Frame
  <2>2. CASE ReceiveUnexpected
    <3>1. EndPump("126") /\ hello_accepted = (Head(down).type = "HelloAck")
      BY <2>2 DEF ReceiveUnexpected
    <3>2. ungreeted
      BY <1>1, <1>11, <2>1, <3>1
    <3> QED BY <1>13, <3>1, <3>2
  <2>3. CASE ReceiveHelloAck
    <3>1. Head(down).exited => exit_recorded \/ ungreeted
      BY <1>11, <2>1, <2>3 DEF ReceiveHelloAck, Frame
    <3>2. CASE Head(down).exited
      <4>1. EndPump("exit")
        BY <2>3, <3>2 DEF ReceiveHelloAck
      <4> QED BY <1>13, <3>1, <3>2, <4>1
    <3>3. CASE ~Head(down).exited
      <4>1. Handled /\ hello_accepted' = TRUE /\ exited' = exited
        BY <2>3, <3>3 DEF ReceiveHelloAck
      <4> QED BY <1>10, <2>1, <4>1, PoppingSteps
    <3> QED BY <3>2, <3>3
  <2>4. CASE ReceiveOutput \/ ReceiveSnapshot \/ ReceiveOther \/ (ReceiveDelta /\ Handled)
    <3>1. Handled /\ hello_accepted = TRUE
      BY <1>1, <2>4 DEF ReceiveOutput, ReceiveSnapshot, ReceiveOther, ReceiveDelta
    <3>2. UNCHANGED <<hello_accepted, exited>> \/ Reconnect
      BY <2>4 DEF ReceiveOutput, ReceiveSnapshot, ReceiveOther, ReceiveDelta, engineVars
    <3> QED BY <1>10, <1>12, <2>1, <3>1, <3>2, PoppingSteps
  <2>5. CASE ReceiveDelta /\ ~Handled
    BY <1>12, <2>5 DEF ReceiveDelta
  <2>6. CASE ReceiveExit
    <3>1. EndPump("exit") /\ Head(down).type = "ProcessExit"
      BY <2>6 DEF ReceiveExit, Frame
    <3> QED BY <1>11, <1>13, <2>1, <3>1
  <2> QED BY <1>14, <2>2, <2>3, <2>4, <2>5, <2>6 DEF Receive
<1>15. CASE LinkLost
  BY <1>12, <1>15 DEF LinkLost
<1>16. CASE EngineRestart
  <2>1. exited' = exited
    BY <1>16 DEF EngineRestart
  <2> QED BY <1>9, <1>16, <1>a, <2>1, ClearingSteps
<1>17. CASE FlushConnection \/ DropStale \/ Connect \/ (EmitGridDelta /\ conn = "none")
  BY <1>7, <1>17, QuietSteps
<1> QED BY <1>3, <1>4, <1>5, <1>6, <1>8, <1>14, <1>15, <1>16, <1>17 DEF StreamNext, Holder

-----------------------------------------------------------------------------
(***************************************************************************)
(* The theorems.                                                           *)
(***************************************************************************)
StreamInv == StreamTypes /\ StreamShape

\* Nothing is under way at the start.
LEMMA EmptyStream ==
  /\ DOMAIN <<>> = {}
  /\ StreamInit => Stream = <<>> /\ DOMAIN Stream = {} /\ conn # "linked"
<1>1. DOMAIN <<>> = {}
  OBVIOUS
<1>2. StreamInit => Stream = <<>>
  BY DEF StreamInit, Stream
<1> QED BY <1>1, <1>2 DEF StreamInit

\* A step that changes nothing changes no part of the invariant.
LEMMA Stutters ==
  ASSUME UNCHANGED streamVars
  PROVE  /\ StreamInv <=> StreamInv'
         /\ GridInv <=> GridInv'
         /\ CellsInv <=> CellsInv'
         /\ LogInv <=> LogInv'
         /\ ExitInv <=> ExitInv'
<1> USE DEF streamVars, holderVars, queueVars, streamHistory, engineVars, streamCounts
<1>1. Stream' = Stream
  BY DEF Stream
<1>2. StreamInv <=> StreamInv'
  BY DEF StreamInv, StreamTypes, StreamShape
<1>3. GridInv <=> GridInv'
  BY <1>1 DEF GridInv
<1>4. CellsInv <=> CellsInv'
  BY <1>1 DEF CellsInv
<1>5. LogInv <=> LogInv'
  BY <1>1 DEF LogInv, LogIsFaithful
<1>6. ExitInv <=> ExitInv'
  BY <1>1 DEF ExitInv, ExitIsTruthful
<1> QED BY <1>2, <1>3, <1>4, <1>5, <1>6

\* The shape of the state is kept.
LEMMA StreamInvariant == StreamSpec => []StreamInv
<1>1. StreamInit => StreamInv
  <2> SUFFICES ASSUME StreamInit PROVE StreamInv
    OBVIOUS
  <2>1. NoCells \in Cells /\ <<>> \in Seq(Sendable)
    BY DEF Cells
  <2>2. RemoteStreamAssumption
    BY RemoteStreamAssumption DEF RemoteStreamAssumption
  <2>3. StreamTypes
    BY <2>1, <2>2 DEF StreamInit, StreamTypes, RemoteStreamAssumption
  <2> QED BY <2>3 DEF StreamInv, StreamShape, StreamInit
<1>2. StreamInv /\ [StreamNext]_streamVars => StreamInv'
  BY TypesStep, ShapeStep, Stutters DEF StreamInv
<1> QED BY <1>1, <1>2, PTL DEF StreamSpec

\* Every delta under way extends the grid frame before it, or the mirror: no
\* overflow, reseed, resize or reconnect makes the Engine see a gap.
THEOREM DeltasExtend == StreamSpec => []DeltasExtendTheMirror
<1>1. StreamInit => GridInv
  BY EmptyStream DEF GridInv, Chained, Grids
<1>2. StreamInv /\ StreamInv' /\ GridInv /\ [StreamNext]_streamVars => GridInv'
  BY GridStep, Stutters DEF StreamInv
<1>3. GridInv => DeltasExtendTheMirror
  BY DEF GridInv, Chained, Grids, DeltasExtendTheMirror
<1> QED BY <1>1, <1>2, <1>3, StreamInvariant, PTL DEF StreamSpec

\* An Engine that has applied everything sent shows the row the Holder's
\* terminal shows, or, of a row that had returned to the diff baseline, the
\* row its connection was sent: nothing lost, discarded or resized on the way
\* makes it show another.
THEOREM MirrorIsCurrent == StreamSpec => []QuiescentMirrorIsCurrent
<1>1. StreamInit => CellsInv
  BY DEF StreamInit, CellsInv
<1>2. StreamInv /\ StreamInv' /\ CellsInv /\ [StreamNext]_streamVars => CellsInv'
  BY CellsStep, Stutters DEF StreamInv
<1>3. CellsInv => QuiescentMirrorIsCurrent
  <2> SUFFICES ASSUME CellsInv, conn = "linked", Stream = <<>>, ~dirty
               PROVE  mirror.cells = shown /\ (returned \/ shown = Screen[tail])
    BY DEF QuiescentMirrorIsCurrent
  <2>1. Shows(Stream, hello_accepted, mirror.cells, shown) /\ (returned \/ shown = Screen[tail])
    BY DEF CellsInv
  <2>2. Paints(Stream) = {}
    BY EmptyStream DEF Paints, Grids
  <2> QED BY <2>1, <2>2 DEF Shows
<1> QED BY <1>1, <1>2, <1>3, StreamInvariant, PTL DEF StreamSpec

\* While no Engine restarts, its output log is the Agent's output in order,
\* less what the Holder gave up: no chunk twice, none lost on a connection.
THEOREM LogKeepsTheOutput == StreamSpec => [](restarts = 0 => LogIsFaithful)
<1>1. StreamInit => LogInv
  <2> SUFFICES ASSUME StreamInit PROVE LogInv
    OBVIOUS
  <2>1. log = <<>> /\ DOMAIN log = {} /\ 0..(offset - 1) = {}
    BY EmptyStream DEF StreamInit
  <2>2. LogIsFaithful
    BY <2>1 DEF LogIsFaithful
  <2> QED BY <2>1, <2>2, EmptyStream DEF LogInv, Fed
<1>2. StreamInv /\ StreamInv' /\ LogInv /\ [StreamNext]_streamVars => LogInv'
  BY LogStep, Stutters DEF StreamInv
<1>3. LogInv => (restarts = 0 => LogIsFaithful)
  BY DEF LogInv
<1> QED BY <1>1, <1>2, <1>3, StreamInvariant, PTL DEF StreamSpec

\* The Engine shows an Agent as exited only if it has, or if the Holder
\* replaced a buffer with its greeting still in it: no other order of
\* overflow, loss, replay and restart makes it give up a running Agent.
THEOREM ExitsAreTrue == StreamSpec => []ExitIsTruthful
<1>1. StreamInit => ExitInv
  <2> SUFFICES ASSUME StreamInit PROVE ExitInv
    OBVIOUS
  <2>1. exited = "no"
    BY DEF StreamInit
  <2> QED BY <2>1, EmptyStream DEF ExitInv, ExitIsTruthful, Exits
<1>2. StreamInv /\ StreamInv' /\ ExitInv /\ [StreamNext]_streamVars => ExitInv'
  BY ExitStep, Stutters DEF StreamInv
<1>3. ExitInv => ExitIsTruthful
  BY DEF ExitInv
<1> QED BY <1>1, <1>2, <1>3, StreamInvariant, PTL DEF StreamSpec
=============================================================================

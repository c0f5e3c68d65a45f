--------------------------- MODULE HolderManager ---------------------------
(***************************************************************************)
(* The shared manager of local Holders and the Engines that launch into    *)
(* it (diri-engine/src/holder/manager.rs, launcher.rs).                     *)
(*                                                                         *)
(* One manager process hosts a Holder thread per session; all of them die  *)
(* with it.  A manager that hosts nothing ends after an idle grace period: *)
(* its watchdog thread looks at idle_since, and stops the listener later.  *)
(* The accept loop then ends and removes the control files under the launch *)
(* lock, unless the pid file shows that a successor owns them.  An Engine   *)
(* holds the same lock while it finds a manager that answers, or starts     *)
(* one, and asks it to host a session.                                      *)
(*                                                                         *)
(* A request waits in the listener's backlog until the accept loop takes    *)
(* it, and fails when the listener is closed first.  Times are passed or   *)
(* not; what a Holder does between its start and its end is in HeldSession. *)
(***************************************************************************)
EXTENDS Naturals, FiniteSets

CONSTANTS
  Launchers,     \* threads of Engines that launch sessions
  Sessions,
  None,
  MaxManagers,   \* bound: manager processes
  MaxLaunches,   \* bound: calls of launch
  MaxShutdowns,  \* bound: Engines that end and ask the manager to end too
  MaxFaults      \* bound: managers killed, failures of accept, of a thread's
                 \* spawn and of the lock file

ASSUME HolderManagerAssumption ==
  /\ {MaxManagers, MaxLaunches, MaxShutdowns, MaxFaults} \subseteq Nat
  /\ None \notin Launchers \cup Sessions

Managers == 1..MaxManagers

VARIABLES
  lock,      \* the launcher that holds the launch lock, or None
  socket,    \* the manager whose listener the socket path leads to, or 0
  pid_file,  \* the manager named in the pid file, or 0
  manager,   \* the manager processes
  holders,   \* holders[m][s]: the Holder thread of session s in manager m
  launcher,  \* launcher[l]: where launch stands, for which session, and the
             \* manager that owes it an answer (to), or 0
  late,      \* history: an Engine gave up on a manager that was still starting
  counts     \* spent bounds

managerVars == <<lock, socket, pid_file, manager, holders, launcher, late, counts>>

-----------------------------------------------------------------------------
\* State, as run() creates it: idle from the start.
Fresh ==
  [pc |-> "unlink", listening |-> FALSE, active |-> {}, idle |-> "fresh",
   shutting_down |-> FALSE, watchdog |-> "asleep", serving |-> None,
   raced |-> {}, failed |-> FALSE]

Unborn == [Fresh EXCEPT !.pc = "none"]
Gone == [Fresh EXCEPT !.pc = "gone"]

\* HolderClient::is_alive
IsAlive(s) == \E m \in Managers : holders[m][s] = "alive"

Hosted(m) == {s \in Sessions : holders[m][s] \in {"starting", "alive"}}

ManagerInit ==
  /\ lock = None /\ socket = 0 /\ pid_file = 0 /\ late = FALSE
  /\ manager = [m \in Managers |-> Unborn]
  /\ holders = [m \in Managers |-> [s \in Sessions |-> "none"]]
  /\ launcher = [l \in Launchers |-> [stage |-> "idle", session |-> None, to |-> 0]]
  /\ counts = [launches |-> 0, shutdowns |-> 0, faults |-> 0]

-----------------------------------------------------------------------------
(***************************************************************************)
(* HolderLauncher::launch.  The stages that ask a manager something:       *)
(* "ping" (is_alive), "ready" (is_alive until the started manager answers), *)
(* "launch", "again" (is_alive after a launch failed) and "retry" (launch   *)
(* until the fresh manager accepts).                                        *)
(***************************************************************************)
Asking == {"ping", "ready", "launch", "again", "retry"}

\* Adopt the Holder that serves the session, or go on to the lock.
Begin(l, s) ==
  /\ launcher[l].stage = "idle" /\ ~IsAlive(s)
  /\ counts.launches < MaxLaunches
  /\ counts' = [counts EXCEPT !.launches = @ + 1]
  /\ launcher' = [launcher EXCEPT ![l] = [stage |-> "lock", session |-> s, to |-> 0]]
  /\ UNCHANGED <<lock, socket, pid_file, manager, holders, late>>

\* LaunchLock::acquire
AcquireLock(l) ==
  /\ launcher[l].stage = "lock" /\ lock = None
  /\ lock' = l /\ launcher' = [launcher EXCEPT ![l].stage = "ping"]
  /\ UNCHANGED <<socket, pid_file, manager, holders, late, counts>>

\* What an answer, or the lack of one, leads to.
StageAfter(stage, ok) ==
  CASE stage \in {"ping", "ready"} -> IF ok THEN "launch" ELSE "ready"
    [] stage = "launch"            -> IF ok THEN "idle" ELSE "again"
    [] stage = "again"             -> IF ok THEN "idle" ELSE "retry"
    [] stage = "retry"             -> IF ok THEN "idle" ELSE "retry"

\* spawn_manager: the next process.
Starts(m) ==
  manager[m].pc = "none" /\ \A n \in 1..(m - 1) : manager[n].pc # "none"

\* launch goes on after an answer (ok) or an error, with the managers as they
\* are then.  Returning drops the lock; no answer to is_alive starts a manager.
Answered(l, ok, managers) ==
  LET stage == launcher[l].stage
      next == StageAfter(stage, ok)
  IN  /\ launcher' = [launcher EXCEPT ![l].stage = next, ![l].to = 0]
      /\ lock' = IF next = "idle" THEN None ELSE lock
      /\ IF ~ok /\ stage \in {"ping", "again"}
         THEN \E m \in Managers :
                Starts(m) /\ manager' = [managers EXCEPT ![m] = Fresh]
         ELSE manager' = managers

\* HolderManagerClient::request: connect, and wait for the answer.
Ask(l) ==
  /\ launcher[l].stage \in Asking /\ launcher[l].to = 0
  /\ IF socket # 0 /\ manager[socket].listening
     THEN /\ launcher' = [launcher EXCEPT ![l].to = socket]
          /\ UNCHANGED <<lock, manager>>
     ELSE Answered(l, FALSE, manager)
  /\ UNCHANGED <<socket, pid_file, holders, late, counts>>

\* The listener was closed, or the process ended, before the request was
\* answered.
AskRefused(l) ==
  LET m == launcher[l].to
  IN  /\ m # 0 /\ ~manager[m].listening
      /\ ~(manager[m].pc = "insert" /\ manager[m].serving = l)
      /\ Answered(l, FALSE, manager)
      /\ UNCHANGED <<socket, pid_file, holders, late, counts>>

\* The attempts of a readiness loop are used up. (An Engine that ends between
\* two requests leaves the same behind.)
GiveUp(l) ==
  /\ launcher[l].stage \in Asking /\ launcher[l].to = 0
  /\ launcher' = [launcher EXCEPT ![l].stage = "idle"]
  /\ lock' = None
  /\ late' = (late \/ \E m \in Managers : manager[m].pc \in {"unlink", "bind", "pid"})
  /\ UNCHANGED <<socket, pid_file, manager, holders, counts>>

-----------------------------------------------------------------------------
(***************************************************************************)
(* HolderManagerServer::run.                                               *)
(***************************************************************************)

\* socket::listen removes the file that is there
Unlink(m) ==
  /\ manager[m].pc = "unlink"
  /\ socket' = 0 /\ manager' = [manager EXCEPT ![m].pc = "bind"]
  /\ UNCHANGED <<lock, pid_file, holders, launcher, late, counts>>

\* and binds; a path that is taken again ends the process.
Bind(m) ==
  /\ manager[m].pc = "bind"
  /\ IF socket = 0
     THEN /\ socket' = m
          /\ manager' = [manager EXCEPT ![m].pc = "pid", ![m].listening = TRUE]
     ELSE /\ UNCHANGED socket
          /\ manager' = [manager EXCEPT ![m] = Gone]
  /\ UNCHANGED <<lock, pid_file, holders, launcher, late, counts>>

WritePidFile(m) ==
  /\ manager[m].pc = "pid"
  /\ pid_file' = m /\ manager' = [manager EXCEPT ![m].pc = "serve"]
  /\ UNCHANGED <<lock, socket, holders, launcher, late, counts>>

\* accept_raw hands the loop a request of l that asks for one of the stages.
Accepts(m, l, stages) ==
  /\ manager[m].pc = "serve" /\ manager[m].listening
  /\ launcher[l].to = m /\ launcher[l].stage \in stages

\* "A ping while idle restarts the grace period".
HandlePing(m, l) ==
  /\ Accepts(m, l, {"ping", "ready", "again"})
  /\ Answered(l, TRUE, [manager EXCEPT ![m].idle = IF @ = "no" THEN @ ELSE "fresh"])
  /\ UNCHANGED <<socket, pid_file, holders, late, counts>>

\* A launch first looks for a Holder that serves the session, then whether
\* the manager is ending.
HandleLaunch(m, l) ==
  /\ Accepts(m, l, {"launch", "retry"})
  /\ \/ IsAlive(launcher[l].session) /\ Answered(l, TRUE, manager)
     \/ /\ ~IsAlive(launcher[l].session) /\ manager[m].shutting_down
        /\ Answered(l, FALSE, manager)
     \/ /\ ~IsAlive(launcher[l].session) /\ ~manager[m].shutting_down
        /\ manager' = [manager EXCEPT ![m].pc = "insert", ![m].serving = l]
        /\ UNCHANGED <<lock, launcher>>
  /\ UNCHANGED <<socket, pid_file, holders, late, counts>>

\* The idle clock is left running.
InsertedIdle(m, s) ==
  [manager EXCEPT ![m].pc = "serve", ![m].serving = None,
                  ![m].active = @ \cup {s},
                  ![m].raced = IF manager[m].watchdog = "asleep" THEN @ ELSE @ \cup {s}]

\* The manager with s inserted into active.
Inserted(m, s) ==
  [manager EXCEPT ![m].pc = "serve", ![m].serving = None,
                  ![m].active = @ \cup {s}, ![m].idle = "no",
                  ![m].raced = IF manager[m].watchdog = "asleep" THEN @ ELSE @ \cup {s}]

\* The rest of the handler: a session that is active already is left alone,
\* any other one gets a thread. If that cannot be spawned the session stays
\* active, and is taken for hosted from then on.
FinishLaunch(m) ==
  LET l == manager[m].serving
      s == launcher[l].session
  IN  /\ manager[m].pc = "insert"
      /\ IF s \in manager[m].active
         THEN /\ Answered(l, TRUE, [manager EXCEPT ![m].pc = "serve", ![m].serving = None])
              /\ UNCHANGED <<holders, counts>>
         ELSE \/ /\ Answered(l, TRUE, Inserted(m, s))
                 /\ holders' = [holders EXCEPT ![m][s] = "starting"]
                 /\ UNCHANGED counts
              \/ /\ counts.faults < MaxFaults
                 /\ counts' = [counts EXCEPT !.faults = @ + 1]
                 /\ Answered(l, FALSE, Inserted(m, s))
                 /\ UNCHANGED holders
      /\ UNCHANGED <<socket, pid_file, late>>

\* ShutdownIfIdle, from an Engine that ends, without the launch lock.
ShutdownIfIdle(m) ==
  /\ manager[m].pc = "serve" /\ manager[m].listening /\ manager[m].active = {}
  /\ ~manager[m].shutting_down
  /\ counts.shutdowns < MaxShutdowns
  /\ counts' = [counts EXCEPT !.shutdowns = @ + 1]
  /\ manager' = [manager EXCEPT ![m].shutting_down = TRUE, ![m].listening = FALSE]
  /\ UNCHANGED <<lock, socket, pid_file, holders, launcher, late>>

\* The Holder thread: HolderServer::run refuses to run beside a live Holder of
\* the session, and may fail to spawn the child.
HolderRuns(m, s) ==
  /\ holders[m][s] = "starting"
  /\ \/ ~IsAlive(s) /\ holders' = [holders EXCEPT ![m][s] = "alive"]
     \/ holders' = [holders EXCEPT ![m][s] = "over"]
  /\ UNCHANGED <<lock, socket, pid_file, manager, launcher, late, counts>>

ChildExits(m, s) ==
  /\ holders[m][s] = "alive"
  /\ holders' = [holders EXCEPT ![m][s] = "over"]
  /\ UNCHANGED <<lock, socket, pid_file, manager, launcher, late, counts>>

\* The end of the thread starts the idle clock if it was the last one.
ThreadEnds(m, s) ==
  /\ holders[m][s] = "over"
  /\ holders' = [holders EXCEPT ![m][s] = "none"]
  /\ manager' = [manager EXCEPT ![m].active = @ \ {s},
                                ![m].idle = IF manager[m].active = {s} THEN "fresh" ELSE @]
  /\ UNCHANGED <<lock, socket, pid_file, launcher, late, counts>>

-----------------------------------------------------------------------------
(***************************************************************************)
(* watch_idle and stop_listener, and the end of the process.               *)
(***************************************************************************)
Running(m) == manager[m].pc \in {"serve", "insert", "join"}

GracePasses(m) ==
  /\ manager[m].pc \in {"serve", "insert"} /\ manager[m].idle = "fresh"
  /\ manager' = [manager EXCEPT ![m].idle = "expired"]
  /\ UNCHANGED <<lock, socket, pid_file, holders, launcher, late, counts>>

\* One look of the watchdog that makes it act or end.
WatchIdle(m) ==
  /\ Running(m) /\ manager[m].watchdog = "asleep"
  /\ \/ /\ manager[m].shutting_down
        /\ manager' = [manager EXCEPT ![m].watchdog = "done"]
     \/ /\ ~manager[m].shutting_down /\ manager[m].idle = "expired"
        /\ manager' = [manager EXCEPT ![m].watchdog = "expired"]
  /\ UNCHANGED <<lock, socket, pid_file, holders, launcher, late, counts>>

\* stop_listener: whoever sets the flag
StopListener(m) ==
  /\ Running(m) /\ manager[m].watchdog = "expired"
  /\ manager' = [manager EXCEPT ![m].watchdog =
                                  IF manager[m].shutting_down THEN "done" ELSE "stopping",
                                ![m].shutting_down = TRUE]
  /\ UNCHANGED <<lock, socket, pid_file, holders, launcher, late, counts>>

\* closes the listener.
CloseListener(m) ==
  /\ Running(m) /\ manager[m].watchdog = "stopping"
  /\ manager' = [manager EXCEPT ![m].watchdog = "done", ![m].listening = FALSE]
  /\ UNCHANGED <<lock, socket, pid_file, holders, launcher, late, counts>>

\* accept_raw finds the listener closed, or fails; the loop closes it then.
EndLoop(m) ==
  /\ manager[m].pc = "serve"
  /\ \/ /\ ~manager[m].listening
        /\ manager' = [manager EXCEPT ![m].pc = "join"]
        /\ UNCHANGED counts
     \/ /\ manager[m].listening /\ counts.faults < MaxFaults
        /\ counts' = [counts EXCEPT !.faults = @ + 1]
        /\ manager' = [manager EXCEPT ![m].pc = "join", ![m].listening = FALSE,
                                      ![m].shutting_down = TRUE, ![m].failed = TRUE]
  /\ UNCHANGED <<lock, socket, pid_file, holders, launcher, late>>

\* The control files are removed whoever they belong to.
CleanupUnchecked(m) ==
  /\ manager[m].pc = "join" /\ manager[m].watchdog = "done" /\ lock = None
  /\ socket' = 0 /\ pid_file' = 0
  /\ manager' = [manager EXCEPT ![m] = Gone]
  /\ holders' = [holders EXCEPT ![m] = [s \in Sessions |-> "none"]]
  /\ UNCHANGED <<lock, launcher, late, counts>>

\* cleanup_control_files, once the watchdog is joined, in one hold of the
\* launch lock, or not at all if the lock's file fails; then run returns, main
\* returns, and every thread is gone.
CleanupControlFiles(m) ==
  /\ manager[m].pc = "join" /\ manager[m].watchdog = "done"
  /\ \/ /\ lock = None
        /\ IF pid_file = m THEN socket' = 0 /\ pid_file' = 0
                           ELSE UNCHANGED <<socket, pid_file>>
        /\ UNCHANGED counts
     \/ /\ counts.faults < MaxFaults
        /\ counts' = [counts EXCEPT !.faults = @ + 1]
        /\ UNCHANGED <<socket, pid_file>>
  /\ manager' = [manager EXCEPT ![m] = Gone]
  /\ holders' = [holders EXCEPT ![m] = [s \in Sessions |-> "none"]]
  /\ UNCHANGED <<lock, launcher, late>>

\* The process is killed: its files stay.
ManagerDies(m) ==
  /\ manager[m].pc \notin {"none", "gone"} /\ counts.faults < MaxFaults
  /\ counts' = [counts EXCEPT !.faults = @ + 1]
  /\ manager' = [manager EXCEPT ![m] = Gone]
  /\ holders' = [holders EXCEPT ![m] = [s \in Sessions |-> "none"]]
  /\ UNCHANGED <<lock, socket, pid_file, launcher, late>>

-----------------------------------------------------------------------------
Launch(l) ==
  \/ \E s \in Sessions : Begin(l, s)
  \/ AcquireLock(l) \/ Ask(l) \/ AskRefused(l) \/ GiveUp(l)

Handle(m) ==
  \/ \E l \in Launchers : HandlePing(m, l) \/ HandleLaunch(m, l)
  \/ FinishLaunch(m) \/ ShutdownIfIdle(m)

Run(m) == Unlink(m) \/ Bind(m) \/ WritePidFile(m) \/ EndLoop(m) \/ CleanupControlFiles(m)

Watchdog(m) == GracePasses(m) \/ WatchIdle(m) \/ StopListener(m) \/ CloseListener(m)

Thread(m) == \E s \in Sessions : HolderRuns(m, s) \/ ChildExits(m, s) \/ ThreadEnds(m, s)

ManagerNext ==
  \/ \E l \in Launchers : Launch(l)
  \/ \E m \in Managers : Handle(m) \/ Run(m) \/ Watchdog(m) \/ Thread(m) \/ ManagerDies(m)

ManagerSpec == ManagerInit /\ [][ManagerNext]_managerVars

-----------------------------------------------------------------------------
(***************************************************************************)
(* Properties.                                                             *)
(***************************************************************************)

\* "whoever holds it either finds a live manager or starts exactly one", and
\* cleanup_control_files' "pid check prevents an old process from unlinking a
\* successor's fresh socket": the socket path leads to every manager that
\* listens, so there is one at most, unless an Engine let go of the lock
\* while the manager it had started was not up yet.
ListenerIsReachable ==
  ~late => \A m \in Managers : manager[m].listening => socket = m

\* "The manager exits only after every hosted child has exited and an idle
\* grace period has elapsed": a manager that ends takes no session with it,
\* except one it took in after its watchdog had looked, or when accept failed.
EndsWithoutSessions ==
  \A m \in Managers :
    manager[m].pc = "join" /\ ~manager[m].failed => Hosted(m) \subseteq manager[m].raced
=============================================================================

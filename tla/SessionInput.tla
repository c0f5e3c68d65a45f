---------------------------- MODULE SessionInput ----------------------------
(***************************************************************************)
(* What a user types into one session, from the data channel to the PTY of *)
(* the agent, past everything that may hold it up:                         *)
(*                                                                         *)
(*   - the deferred launch (session.rs, DeferredLaunch): until a client    *)
(*     proposed a size there is no child and input queues;                 *)
(*   - hibernation (registry.rs, governor.rs): input queues while the tree *)
(*     is stopped, and a keystroke wakes it;                               *)
(*   - a remote session's SSH channel (remote/client.rs): input queues     *)
(*     between two channels, and what a dying channel carried is lost.     *)
(*                                                                         *)
(* The registry lock makes Type, TypeQuietly, Resize, the attach handshake,*)
(* Hibernate, Wake and the terminate of a session atomic; the launcher     *)
(* thread and the remote pump work without it. Keys are numbered as they   *)
(* are typed and sizes as they are proposed. Size 0 is the estimate a      *)
(* session starts with.                                                    *)
(***************************************************************************)
EXTENDS Naturals, Sequences, SequencesExt

CONSTANTS
  QueueLimit,   \* MAX_QUEUED_INPUT, in keys
  MaxInputs,    \* bound: keys and sizes
  MaxFreezes, MaxLosses, MaxRestarts, MaxVisits   \* bounds

ASSUME InputAssumption ==
  /\ QueueLimit \in Nat \ {0}
  /\ {MaxInputs, MaxFreezes, MaxLosses, MaxRestarts, MaxVisits} \subseteq Nat

VARIABLES
  transport,     \* "held" or "remote"
  tree,          \* the agent's processes: "none", "running", "stopped", "dead"
  pty,           \* the keys the terminal has received, in order
  size,          \* the size the terminal has
  launch,        \* the launcher thread of a held session
  deferred,      \* DeferredState: the queue, the pending size, cancelled
  handoff,       \* LaunchHandoff, in the launcher's hands
  hibernated,    \* Shared::hibernated
  queued_input,  \* Shared::queued_input
  hibernation,   \* the record says hibernated
  saved,         \* ... and so does the state file
  client,        \* an App: "away", "waking" (no sink yet) or "attached"
  governor,      \* the sweep: "asleep", "record" or "candidate"
  writer,        \* WriterState of the remote client
  pipe,          \* what the SSH channel carries to the Holder
  removed,       \* terminate took the session out of the registry
  typed, wanted, \* keys typed and sizes proposed so far
  history,       \* see NoHistory
  counts         \* the bounded events so far

sessionVars == <<hibernated, queued_input, hibernation>>
remoteVars == <<writer, pipe>>
launchVars == <<launch, deferred, handoff>>
appVars == <<client, governor>>
childVars == <<tree, pty, size>>
inputVars == <<typed, wanted>>
vars == <<transport, childVars, launchVars, sessionVars, saved, appVars,
          remoteVars, removed, inputVars, history, counts>>

\* lost: keys dropped. overtook: keys that passed a queue whose flush was
\* pending. quiet: keys of a writer that wakes nobody. resized: a size was lost
\* or passed an older one that was waiting.
NoHistory == [lost |-> {}, overtook |-> {}, quiet |-> {}, resized |-> FALSE]
NoSize == 0

Held == transport = "held"
Remote == transport = "remote"
Unlaunched == Held /\ launch \in {"waiting", "launching", "ready", "failed"}
Alive == tree \in {"running", "stopped"}

\* RemoteSessionClient: writes go to the channel once HelloAck named an epoch.
Through == writer.channel = "epoch"
Input(k) == [type |-> "input", value |-> k]
Signal(s) == [type |-> s, value |-> 0]
Size(s) == [type |-> "resize", value |-> s]
Inputs(keys) == [i \in DOMAIN keys |-> Input(keys[i])]

\* queue_input: bytes that do not fit are refused.
QueueInput(queue, bytes) ==
  IF Len(queue) + Len(bytes) > QueueLimit THEN queue ELSE queue \o bytes

\* terminate_current
Cut(w) == [w EXCEPT !.channel = "down", !.granted = FALSE, !.broken = FALSE]

-----------------------------------------------------------------------------
(***************************************************************************)
(* Signals and input, by transport.                                        *)
(***************************************************************************)

\* signal_tree: the local Holder has to answer; the remote client needs an
\* epoch and a channel that takes the message.
CanSignal == IF Held THEN Alive ELSE Through /\ ~writer.broken

\* A flush is pending that what is written now will get ahead of.
Overtaking ==
  \/ Held /\ launch = "flushing" /\ handoff.keys # <<>>
  \/ Remote /\ Through /\ ~writer.granted /\ ~writer.broken /\ writer.queue # <<>>

\* Two writes, the hibernation queue and then the new keys, through
\* deferred.queue_input, the Holder's client or RemoteSessionClient::write,
\* which cuts a Bridge that takes nothing once it has queued the keys. woken: a
\* SIGCONT went first.
Transmit(woken, flush, keys, quiet) ==
  LET all == flush \o keys
      requeued == QueueInput(QueueInput(writer.queue, flush), keys)
      direct == Remote /\ Through /\ ~writer.broken
  IN  /\ deferred' = IF Unlaunched THEN [deferred EXCEPT !.queue = @ \o all] ELSE deferred
      /\ pty' = IF Held /\ ~Unlaunched THEN pty \o all ELSE pty
      /\ tree' = IF Held /\ woken /\ tree = "stopped" THEN "running" ELSE tree
      /\ pipe' = IF direct
                 THEN pipe \o (IF woken THEN <<Signal("CONT")>> ELSE <<>>) \o Inputs(all)
                 ELSE pipe
      /\ writer' = IF Held \/ direct \/ requeued = writer.queue THEN writer
                   ELSE [IF Through THEN Cut(writer) ELSE writer EXCEPT !.queue = requeued]
      /\ history' = [history EXCEPT
           !.lost = IF Held \/ direct THEN @ ELSE @ \cup (ToSet(all) \ ToSet(requeued)),
           !.overtook = IF Overtaking THEN @ \cup ToSet(all) ELSE @,
           !.quiet = @ \cup quiet]

\* The key that woke the session is written before the queue is flushed.
WakeAndWriteKeysFirst(wake, keys, quiet) ==
  LET awake == wake /\ CanSignal
      waits == hibernated /\ ~awake /\ ~Unlaunched
  IN  /\ hibernated' = (hibernated /\ ~awake) /\ hibernation' = (hibernation /\ ~awake)
      /\ queued_input' = IF awake THEN <<>>
                         ELSE IF waits THEN queued_input \o keys ELSE queued_input
      /\ Transmit(awake, IF waits THEN <<>> ELSE keys,
                  IF awake THEN queued_input ELSE <<>>, quiet)

\* wake_session / ensure_session_awake and then write_input: SIGCONT if
\* asked to, which fails without changing anything; the flush; the keys,
\* which queue if the session is still hibernated.
WakeAndWrite(wake, keys, quiet) ==
  LET awake == wake /\ CanSignal
      asleep == hibernated /\ ~awake
      waits == asleep /\ ~Unlaunched
  IN  /\ hibernated' = asleep
      /\ hibernation' = (hibernation /\ ~awake)
      /\ queued_input' = IF awake THEN <<>>
                         ELSE IF waits THEN queued_input \o keys ELSE queued_input
      /\ Transmit(awake, IF awake THEN queued_input ELSE <<>>,
                  IF waits THEN <<>> ELSE keys, quiet)

KnownHibernated == hibernated \/ hibernation
MayInput == ~removed /\ typed + wanted < MaxInputs

\* AttachHub::handle_frame and session_send_text: wake_session, write_input.
Type ==
  /\ MayInput
  /\ typed' = typed + 1
  /\ WakeAndWrite(KnownHibernated, <<typed + 1>>, {})
  /\ UNCHANGED <<transport, size, launch, handoff, saved, appVars, removed, wanted,
                 counts>>

\* The MCP host and the prompt injector: write_input alone.
TypeQuietly ==
  /\ MayInput
  /\ typed' = typed + 1
  /\ WakeAndWrite(FALSE, <<typed + 1>>, {typed + 1})
  /\ UNCHANGED <<transport, size, launch, handoff, saved, appVars, removed, wanted,
                 counts>>

\* session_wake
Wake ==
  /\ ~removed /\ KnownHibernated
  /\ WakeAndWrite(TRUE, <<>>, {})
  /\ UNCHANGED <<transport, size, launch, handoff, saved, appVars, removed, inputVars,
                 counts>>

\* A size that finds no channel is dropped.
ResizeOnline ==
  /\ MayInput
  /\ wanted' = wanted + 1
  /\ deferred' = IF Unlaunched THEN [deferred EXCEPT !.pending = wanted + 1] ELSE deferred
  /\ size' = IF Held /\ ~Unlaunched THEN wanted + 1 ELSE size
  /\ pipe' = IF Remote /\ Through THEN Append(pipe, Size(wanted + 1)) ELSE pipe
  /\ UNCHANGED <<transport, tree, pty, launch, handoff, sessionVars, saved, appVars,
                 writer, history, removed, typed, counts>>

\* Session::resize: a proposal before the exec, a resize afterwards; the
\* remote client keeps the last one while it has no channel.
Resize ==
  LET s == wanted + 1
      direct == Remote /\ Through /\ ~writer.broken
      passes == \/ launch = "flushing" /\ handoff.size # NoSize
                \/ direct /\ ~writer.granted /\ writer.resize # NoSize
  IN  /\ MayInput
      /\ wanted' = s
      /\ deferred' = IF Unlaunched THEN [deferred EXCEPT !.pending = s] ELSE deferred
      /\ size' = IF Held /\ ~Unlaunched THEN s ELSE size
      /\ pipe' = IF direct THEN Append(pipe, Size(s)) ELSE pipe
      /\ writer' = IF Held \/ direct THEN writer
                   ELSE [IF Through THEN Cut(writer) ELSE writer EXCEPT !.resize = s]
      /\ history' = [history EXCEPT !.resized = @ \/ passes]
      /\ UNCHANGED <<transport, tree, pty, launch, handoff, sessionVars, saved, appVars,
                     removed, typed, counts>>

-----------------------------------------------------------------------------
(***************************************************************************)
(* The deferred launch.                                                    *)
(***************************************************************************)

\* wait_for_launch_size returned: the deadline passed, or the session was
\* cancelled.
DecideSize ==
  /\ launch = "waiting"
  /\ launch' = IF deferred.cancelled THEN "over" ELSE "launching"
  /\ size' = IF deferred.cancelled THEN size ELSE deferred.pending
  /\ UNCHANGED <<transport, tree, pty, deferred, handoff, sessionVars, saved, appVars,
                 remoteVars, removed, inputVars, history, counts>>

\* The Holder answers.
HolderReady ==
  /\ launch = "launching"
  /\ launch' = "ready" /\ tree' = "running"
  /\ UNCHANGED <<transport, pty, size, deferred, handoff, sessionVars, saved, appVars,
                 remoteVars, removed, inputVars, history, counts>>

\* The launch failed, or wait_for_holder gave up on a Holder that is only slow.
LaunchFails ==
  /\ launch = "launching"
  /\ launch' = "failed" /\ tree' \in {"none", "running"}
  /\ UNCHANGED <<transport, pty, size, deferred, handoff, sessionVars, saved, appVars,
                 remoteVars, removed, inputVars, history, counts>>

\* finish_launch does not look at the cancellation again.
FinishLaunchUnchecked ==
  /\ launch = "ready" /\ launch' = "flushing"
  /\ handoff' = [keys |-> deferred.queue,
                 size |-> IF deferred.pending # size THEN deferred.pending ELSE NoSize]
  /\ deferred' = [deferred EXCEPT !.queue = <<>>]
  /\ UNCHANGED <<transport, childVars, sessionVars, saved, appVars, remoteVars, removed,
                 inputVars, history, counts>>

\* finish_launch, and the kill of a child that a terminate raced.
FinishLaunch ==
  /\ launch = "ready"
  /\ IF deferred.cancelled
     THEN /\ launch' = "over" /\ tree' = "dead"
          /\ UNCHANGED <<deferred, handoff>>
     ELSE /\ launch' = "flushing"
          /\ handoff' = [keys |-> deferred.queue,
                         size |-> IF deferred.pending # size THEN deferred.pending
                                  ELSE NoSize]
          /\ deferred' = [deferred EXCEPT !.queue = <<>>]
          /\ UNCHANGED tree
  /\ UNCHANGED <<transport, pty, size, sessionVars, saved, appVars, remoteVars, removed,
                 inputVars, history, counts>>

\* The launcher, after finish_launch let go of the lock.
FlushLaunch ==
  /\ launch = "flushing"
  /\ launch' = "pumping"
  /\ pty' = IF Alive THEN pty \o handoff.keys ELSE pty
  /\ size' = IF handoff.size # NoSize THEN handoff.size ELSE size
  /\ handoff' = [keys |-> <<>>, size |-> NoSize]
  /\ UNCHANGED <<transport, tree, deferred, sessionVars, saved, appVars, remoteVars,
                 removed, inputVars, history, counts>>

\* Registry::terminate holds the lock until Session::terminate joined the
\* launcher or the pump. Cancelled before the exec, nobody kills anything;
\* afterwards the Holder kills the tree, if a remote one can be reached.
Terminate ==
  /\ ~removed
  /\ removed' = TRUE
  /\ deferred' = IF Unlaunched THEN [deferred EXCEPT !.cancelled = TRUE] ELSE deferred
  /\ tree' \in CASE Unlaunched -> {tree}
                 [] Held /\ ~Unlaunched -> {"dead"}
                 [] Remote -> {"dead", tree}
  /\ UNCHANGED <<transport, pty, size, launch, handoff, sessionVars, saved, appVars,
                 remoteVars, inputVars, history, counts>>

-----------------------------------------------------------------------------
(***************************************************************************)
(* Hibernation, the governor and the App.                                  *)
(***************************************************************************)

\* Registry::hibernate
Hibernate ==
  /\ ~removed /\ CanSignal /\ counts.freezes < MaxFreezes
  /\ counts' = [counts EXCEPT !.freezes = @ + 1]
  /\ tree' = IF Held THEN "stopped" ELSE tree
  /\ pipe' = IF Remote THEN Append(pipe, Signal("STOP")) ELSE pipe
  /\ hibernated' = TRUE /\ hibernation' = TRUE
  /\ UNCHANGED <<transport, pty, size, launchVars, queued_input, saved, writer, removed,
                 inputVars, history>>

\* session_hibernate
HibernateRequest == Hibernate /\ UNCHANGED appVars

\* sweep, on the records it copied under the lock: this one is idle. A remote
\* session has no local process and is never a candidate.
SweepRecord ==
  /\ governor = "asleep" /\ ~removed
  /\ Held /\ Alive /\ launch # "failed" /\ ~hibernation
  /\ governor' = "record"
  /\ UNCHANGED <<transport, childVars, launchVars, sessionVars, saved, client,
                 remoteVars, removed, inputVars, history, counts>>

\* ... has_sinks, asked of the hub
SweepAttached ==
  /\ governor = "record"
  /\ governor' = IF client = "attached" THEN "asleep" ELSE "candidate"
  /\ UNCHANGED <<transport, childVars, launchVars, sessionVars, saved, client,
                 remoteVars, removed, inputVars, history, counts>>

\* ... and the freeze, on what it knew then
SweepFreeze ==
  /\ governor = "candidate" /\ governor' = "asleep"
  /\ Hibernate
  /\ UNCHANGED client

\* The session is gone, or the thresholds are not met.
SweepPasses ==
  /\ governor = "candidate" /\ governor' = "asleep"
  /\ UNCHANGED <<transport, childVars, launchVars, sessionVars, saved, client,
                 remoteVars, removed, inputVars, history, counts>>

\* A fresh attach wakes only what the record calls hibernated.
AttachIfKnown ==
  /\ client = "away" /\ ~removed /\ counts.visits < MaxVisits
  /\ client' = "waking"
  /\ WakeAndWrite(KnownHibernated, <<>>, {})
  /\ counts' = [counts EXCEPT !.visits = @ + 1]
  /\ UNCHANGED <<transport, size, launch, handoff, saved, governor, removed,
                 inputVars>>

\* A data channel's first line: ensure_session_awake, whatever is recorded.
Attach ==
  /\ client = "away" /\ ~removed /\ counts.visits < MaxVisits
  /\ client' = "waking"
  /\ WakeAndWrite(TRUE, <<>>, {})
  /\ counts' = [counts EXCEPT !.visits = @ + 1]
  /\ UNCHANGED <<transport, size, launch, handoff, saved, governor, removed,
                 inputVars>>

\* AttachHub::register
Register ==
  /\ client = "waking" /\ client' = "attached"
  /\ UNCHANGED <<transport, childVars, launchVars, sessionVars, saved, governor,
                 remoteVars, removed, inputVars, history, counts>>

Detach ==
  /\ client = "attached" /\ client' = "away"
  /\ UNCHANGED <<transport, childVars, launchVars, sessionVars, saved, governor,
                 remoteVars, removed, inputVars, history, counts>>

\* persist, now or when the flusher gets to it
Persist ==
  /\ saved # hibernation
  /\ saved' = hibernation
  /\ UNCHANGED <<transport, childVars, launchVars, sessionVars, appVars, remoteVars,
                 removed, inputVars, history, counts>>

\* The Engine dies and another one adopts the session: what was queued in
\* memory is gone, the record is the saved one, and only a local session is
\* told that it is hibernated.
Restart ==
  /\ ~removed /\ Alive /\ counts.restarts < MaxRestarts
  /\ counts' = [counts EXCEPT !.restarts = @ + 1]
  /\ hibernation' = saved /\ hibernated' = (saved /\ Held)
  /\ queued_input' = <<>>
  /\ launch' = "pumping"
  /\ deferred' = [queue |-> <<>>, pending |-> NoSize, cancelled |-> FALSE]
  /\ handoff' = [keys |-> <<>>, size |-> NoSize]
  /\ writer' = [Cut(writer) EXCEPT !.queue = <<>>, !.resize = NoSize]
  /\ pipe' = <<>>
  /\ client' = "away" /\ governor' = "asleep"
  /\ history' = [history EXCEPT !.lost = (1..typed) \ ToSet(pty), !.resized = TRUE]
  /\ UNCHANGED <<transport, childVars, saved, removed, inputVars>>

-----------------------------------------------------------------------------
(***************************************************************************)
(* The remote channel.                                                     *)
(***************************************************************************)
remoteOnly == <<transport, launchVars, sessionVars, saved, appVars, removed, inputVars>>

Connect ==
  /\ Remote /\ ~removed /\ writer.channel = "down"
  /\ writer' = [writer EXCEPT !.channel = "open"]
  /\ UNCHANGED <<remoteOnly, childVars, pipe, history, counts>>

AcceptHello ==
  /\ ~removed /\ writer.channel = "open" /\ ~writer.broken
  /\ writer' = [writer EXCEPT !.channel = "epoch"]
  /\ UNCHANGED <<remoteOnly, childVars, pipe, history, counts>>

\* The keys queued while there was no channel stay where they are.
GrantControlWithoutFlush ==
  /\ ~removed /\ Through /\ ~writer.granted /\ ~writer.broken
  /\ writer' = [writer EXCEPT !.granted = TRUE, !.resize = NoSize]
  /\ pipe' = IF writer.resize # NoSize THEN Append(pipe, Size(writer.resize)) ELSE pipe
  /\ UNCHANGED <<remoteOnly, childVars, history, counts>>

\* grant_control takes the resize and then the queue before it writes them:
\* a write that fails loses what it took, and the pump reconnects.
GrantControl ==
  LET resize == IF writer.resize # NoSize THEN <<Size(writer.resize)>> ELSE <<>>
      taken == [writer EXCEPT !.granted = TRUE, !.queue = <<>>, !.resize = NoSize]
      failed == IF resize # <<>> THEN [Cut(writer) EXCEPT !.resize = NoSize]
                ELSE [Cut(writer) EXCEPT !.queue = <<>>]
      flushes == resize # <<>> \/ writer.queue # <<>>
  IN  /\ ~removed /\ Through /\ ~writer.granted
      /\ IF writer.broken /\ flushes
         THEN /\ writer' = failed
              /\ history' = [history EXCEPT
                   !.lost = @ \cup (ToSet(writer.queue) \ ToSet(failed.queue)),
                   !.resized = @ \/ resize # <<>>]
              /\ UNCHANGED pipe
         ELSE /\ writer' = taken
              /\ pipe' = pipe \o resize \o Inputs(writer.queue)
              /\ UNCHANGED history
      /\ UNCHANGED <<remoteOnly, childVars, counts>>

\* The Holder reads the channel.
Deliver ==
  LET m == Head(pipe)
  IN  /\ pipe # <<>> /\ ~removed
      /\ pipe' = Tail(pipe)
      /\ pty' = IF m.type = "input" THEN Append(pty, m.value) ELSE pty
      /\ size' = IF m.type = "resize" THEN m.value ELSE size
      /\ tree' = CASE m.type = "STOP" -> "stopped"
                   [] m.type = "CONT" -> "running"
                   [] OTHER -> tree
      /\ UNCHANGED <<remoteOnly, writer, history, counts>>

\* The channel dies with what it carries.
Break ==
  /\ Remote /\ ~removed /\ writer.channel # "down" /\ ~writer.broken
  /\ counts.losses < MaxLosses
  /\ counts' = [counts EXCEPT !.losses = @ + 1]
  /\ writer' = [writer EXCEPT !.broken = TRUE]
  /\ pipe' = <<>>
  /\ history' = [history EXCEPT
       !.lost = @ \cup {pipe[i].value : i \in {j \in DOMAIN pipe : pipe[j].type = "input"}},
       !.resized = @ \/ \E i \in DOMAIN pipe : pipe[i].type = "resize"]
  /\ UNCHANGED <<remoteOnly, childVars>>

\* The pump reads the end of the stream.
Disconnect ==
  /\ ~removed /\ writer.broken
  /\ writer' = Cut(writer)
  /\ UNCHANGED <<remoteOnly, childVars, pipe, history, counts>>

-----------------------------------------------------------------------------
Init ==
  /\ transport \in {"held", "remote"}
  /\ tree = IF Held THEN "none" ELSE "running"
  /\ launch = IF Held THEN "waiting" ELSE "pumping"
  /\ pty = <<>> /\ size = 0
  /\ deferred = [queue |-> <<>>, pending |-> NoSize, cancelled |-> FALSE]
  /\ handoff = [keys |-> <<>>, size |-> NoSize]
  /\ queued_input = <<>> /\ hibernated = FALSE /\ hibernation = FALSE /\ saved = FALSE
  /\ client = "away" /\ governor = "asleep"
  /\ writer = [channel |-> "down", granted |-> FALSE, broken |-> FALSE,
               queue |-> <<>>, resize |-> NoSize]
  /\ pipe = <<>> /\ removed = FALSE
  /\ typed = 0 /\ wanted = 0 /\ history = NoHistory
  /\ counts = [freezes |-> 0, losses |-> 0, restarts |-> 0, visits |-> 0]

Launcher == DecideSize \/ HolderReady \/ LaunchFails \/ FinishLaunch \/ FlushLaunch
Sweep == SweepRecord \/ SweepAttached \/ SweepFreeze \/ SweepPasses
App == Attach \/ Register \/ Detach \/ Type \/ TypeQuietly \/ Resize
         \/ Wake \/ HibernateRequest \/ Terminate
RemotePump == Connect \/ AcceptHello \/ GrantControl \/ Disconnect

Next == Launcher \/ Sweep \/ App \/ RemotePump \/ Deliver \/ Break
          \/ Persist \/ Restart

Spec == Init /\ [][Next]_vars

\* The launcher's waits are bounded; the remote pump reconnects for as long
\* as the session is there; the Holder reads its channel.
Fairness == WF_vars(Launcher) /\ WF_vars(RemotePump) /\ WF_vars(Deliver)
FairSpec == Spec /\ Fairness

-----------------------------------------------------------------------------
(***************************************************************************)
(* Properties.                                                             *)
(***************************************************************************)
Keys == 1..MaxInputs
Sizes == 0..MaxInputs
Message == [type : {"input"}, value : Keys] \cup [type : {"resize", "STOP", "CONT"}, value : Sizes]

\* Every variable stays in its type; the reconnect queue never exceeds its
\* limit.
TypeOK ==
  /\ transport \in {"held", "remote"} /\ tree \in {"none", "running", "stopped", "dead"}
  /\ pty \in Seq(Keys) /\ size \in Sizes
  /\ launch \in {"waiting", "launching", "ready", "flushing", "pumping", "failed", "over"}
  /\ deferred \in [queue : Seq(Keys), pending : Sizes, cancelled : BOOLEAN]
  /\ handoff \in [keys : Seq(Keys), size : Sizes]
  /\ {hibernated, hibernation, saved, removed} \subseteq BOOLEAN
  /\ queued_input \in Seq(Keys)
  /\ client \in {"away", "waking", "attached"}
  /\ governor \in {"asleep", "record", "candidate"}
  /\ writer \in [channel : {"down", "open", "epoch"}, granted : BOOLEAN,
                 broken : BOOLEAN, queue : Seq(Keys), resize : Sizes]
  /\ Len(writer.queue) <= QueueLimit
  /\ pipe \in Seq(Message)
  /\ {typed, wanted} \subseteq Sizes
  /\ history \in [lost : SUBSET Keys, overtook : SUBSET Keys, quiet : SUBSET Keys,
                  resized : BOOLEAN]

\* Everywhere key k is: in the terminal, or where it waits.
Places(k) ==
  LET At(queue) == {i \in DOMAIN queue : queue[i] = k}
  IN  UNION {{"terminal"} \X At(pty), {"launch"} \X At(deferred.queue),
             {"handoff"} \X At(handoff.keys), {"hibernation"} \X At(queued_input),
             {"reconnect"} \X At(writer.queue),
             {"channel"} \X {i \in DOMAIN pipe : pipe[i] = Input(k)}}

\* write_input, set_hibernated ("flushes in order"), the launch flush and the
\* reconnect queue: a key that was typed is in exactly one place, so no queue
\* is flushed twice and none is forgotten, and keys reach the terminal in the
\* order they were typed, except that one typed after finish_launch or
\* accept_hello may pass the queue whose flush is still to come. Without a
\* restart a local session loses none.
InputIsFaithful ==
  /\ \A i, j \in DOMAIN pty : i < j => pty[i] < pty[j] \/ pty[i] \in history.overtook
  /\ ~removed =>
       /\ \A k \in Keys :
            IF k \in (1..typed) \ history.lost
            THEN \E p \in Places(k) : Places(k) = {p}
            ELSE Places(k) = {}
       /\ Held /\ counts.restarts = 0 => history.lost = {}

\* ensure_session_awake: "it repairs the otherwise permanent 'live record,
\* stopped process' state". A local session somebody looks at is stopped only
\* when record and session say so, and what waits in its hibernation queue was
\* written by the MCP host or the injector: handle_frame's "Input to a frozen
\* session wakes it".
FrozenTreeCanWake ==
  Held =>
    /\ client # "away" /\ tree = "stopped" => hibernated /\ hibernation
    /\ ToSet(queued_input) \subseteq history.quiet

\* Everything flushed and delivered.
Quiet ==
  /\ ~removed /\ launch = "pumping" /\ pipe = <<>>
  /\ Remote => Through /\ writer.granted /\ ~writer.broken

\* propose_size, late_size and queued_resize: once everything is flushed the
\* terminal has the size asked for last, unless that one passed another or
\* was lost on the way.
SizeIsCurrent == Quiet /\ ~history.resized => size = wanted

\* terminate: "Cancel wakes the launcher (which double-checks under the same
\* lock, killing a child it raced into existence)". Once the launcher is done
\* no child of a terminated local session is left, unless wait_for_holder
\* gave up on it.
NoOrphan ==
  Held /\ removed /\ launch \in {"over", "flushing", "pumping"} =>
    tree \in {"none", "dead"}

\* What is typed arrives, or is lost with a channel, a launch or the session:
\* it waits for ever only in a queue nobody woke the session for.
KeysArrive ==
  \A k \in Keys :
    typed >= k ~> \/ k \in ToSet(pty) \cup history.lost
                  \/ removed \/ launch = "failed"
                  \/ hibernated /\ k \in ToSet(queued_input)
=============================================================================

--------------------------- MODULE SessionStatus ---------------------------
(***************************************************************************)
(* The status of one session, from evidence to the App:                    *)
(*                                                                         *)
(*   - StatusReducer (status/mod.rs) folds hooks, screen observations,     *)
(*     output, ticks and the exit into one status;                         *)
(*   - the session's threads (session.rs) reduce under the reducer lock    *)
(*     and apply the outcome to the shared status after they released it;  *)
(*   - the registry's watcher (Registry::changed_since) copies what is     *)
(*     shared into the record it publishes when the state version moved.   *)
(*                                                                         *)
(* Clock readings are kept as the comparisons the reducer makes with them: *)
(* is the startup grace over, has an idle candidate been open for the cap, *)
(* has a working session been quiet for longer than the timeout. Details   *)
(* of a prompt are their kind. turn_completed, active_subagents and        *)
(* responding_since are written and never read by the Engine.              *)
(***************************************************************************)
EXTENDS Naturals, FiniteSets

CONSTANTS
  Feeders,             \* threads that call Session::feed_signal
  IdleConfirmations,   \* ReducerTiming::idle_confirmations
  BlockerClearScans,   \* ReducerTiming::blocker_clear_scans
  NeedsInput,          \* NeedsInputKind
  SeedStatuses,        \* the statuses an adopted record may have
  MaxSignals,          \* bound: hooks, keystrokes and chunks of output
  None

ASSUME StatusAssumption ==
  /\ IdleConfirmations \in Nat \ {0} /\ BlockerClearScans \in Nat \ {0}
  /\ MaxSignals \in Nat
  /\ "pump" \notin Feeders
  /\ NeedsInput \subseteq {"Permission", "Question"}
  /\ SeedStatuses \subseteq {"Starting", "Working", "Idle", "Unknown"} \cup NeedsInput
  /\ None \notin {"Starting", "Working", "Idle", "Unknown", "Exited", "Skip"}
       \cup NeedsInput

VARIABLES
  authority,    \* which source of truth leads
  reducer,      \* the status machine, behind its lock
  status,       \* Shared::status
  needs_input,  \* Shared::needs_input
  exited,       \* Shared::exited
  outcome,      \* per thread: the outcome it reduced and has not applied yet
  pc,           \* per thread: "idle", "status" or "detail" (inside apply)
  changed,      \* per thread: apply found something to change
  pump,         \* "running", "exiting" or "done"
  seeding,      \* adoption has still to copy the record into the session
  unpublished,  \* the state version is not the one the watcher published
  watcher,      \* "poll", or "view": it has read the version
  record,       \* the registry's record, as the watcher folds it
  signals,      \* signals so far
  crossed,      \* history: two outcomes were in flight together
  evidence      \* history: idle frames since the last sign of work, an end
                \* of turn counting as enough

reducerVars == <<authority, reducer, evidence, signals>>
sharedVars == <<status, needs_input, exited>>
threadVars == <<outcome, pc, changed>>
watchVars == <<watcher, record>>
vars == <<reducerVars, sharedVars, threadVars, pump, seeding, unpublished,
          watchVars, crossed>>

Authorities == {"HooksPrimary", "ScreenPrimary", "ProcessOnly"}
Statuses == {"Starting", "Working", "Idle", "Unknown", "Exited"} \cup NeedsInput
\* ManifestState: a blocker is named by the kind of input it asks for.
Screens == {"Working", "Idle", "Skip"} \cup NeedsInput
\* The signals that reach feed_signal, by what the reducer makes of them.
\* Work: UserPromptSubmit, PreToolUse. Stop: Stop, agent_completed and
\* CodexTurnComplete. Permission, Question: PermissionRequest and the
\* notifications. Note: a keystroke, SessionEnd, another notification and
\* every hook of a subagent.
Feeds == {"SessionStart", "Work", "Stop", "Note"} \cup NeedsInput
Threads == Feeders \cup {"pump"}
NoOutcome == [change |-> None, detail |-> None]

-----------------------------------------------------------------------------
(***************************************************************************)
(* StatusReducer. Every operator maps a reducer state to the next one.     *)
(***************************************************************************)

\* InternalState::new
NewReducer(graceOver) ==
  [status |-> "Starting", grace_over |-> graceOver, quiet |-> FALSE,
   candidate |-> "none", idle_confirms |-> 0, idle_strong |-> FALSE,
   blocker |-> FALSE, misses |-> 0, belief |-> None, skip |-> FALSE]

Seen(r) == [r EXCEPT !.quiet = FALSE]

CancelIdleCandidacy(r) ==
  [r EXCEPT !.candidate = "none", !.idle_confirms = 0, !.idle_strong = FALSE]

\* Work seen between two idle frames does not start the count again.
GoWorkingKeepingCount(r, clearBlocker) ==
  [Seen(r) EXCEPT !.status = "Working", !.blocker = @ /\ ~clearBlocker,
                  !.misses = IF clearBlocker THEN 0 ELSE @]

GoWorking(r, clearBlocker) ==
  [CancelIdleCandidacy(Seen(r)) EXCEPT
     !.status = "Working",
     !.blocker = @ /\ ~clearBlocker,
     !.misses = IF clearBlocker THEN 0 ELSE @]

CommitIdle(r) == [CancelIdleCandidacy(Seen(r)) EXCEPT !.status = "Idle"]

\* idle_candidate_since, set when there is none
Opened(candidate) == IF candidate = "none" THEN "open" ELSE candidate

\* An end of turn ends a prompt as well.
HandleStrongIdleAny(r) ==
  LET candidate == [r EXCEPT !.idle_strong = TRUE, !.candidate = Opened(@)]
  IN  IF r.status = "Starting" THEN [r EXCEPT !.status = "Idle"]
      ELSE IF r.belief = "Idle" THEN CommitIdle(candidate) ELSE candidate

HandleStrongIdle(r) ==
  LET candidate == [r EXCEPT !.idle_strong = TRUE, !.candidate = Opened(@)]
  IN  CASE r.status = "Starting" -> [r EXCEPT !.status = "Idle"]
        [] r.status = "Working"  ->
             IF r.belief = "Idle" THEN CommitIdle(candidate) ELSE candidate
        [] OTHER -> r

ConfirmIdle(r) ==
  LET confirms == IF r.candidate = "none" THEN 1 ELSE r.idle_confirms + 1
      confirmed == [r EXCEPT !.candidate = Opened(@), !.idle_confirms = confirms]
      required == IF r.idle_strong THEN 1 ELSE IdleConfirmations
  IN  IF confirmed.idle_confirms >= required \/ confirmed.candidate = "ripe"
      THEN CommitIdle(confirmed) ELSE confirmed

Ask(r, kind) == [CancelIdleCandidacy(r) EXCEPT !.status = kind]

\* handle_claude_hook and handle_notification; CodexTurnComplete is a Stop
\* and UserKeystroke a Note.
HandleFeed(r, feed) ==
  LET seen == Seen(r)
  IN  CASE feed = "SessionStart" ->
             IF r.status = "Starting" THEN [seen EXCEPT !.status = "Idle"] ELSE seen
        [] feed = "Work"         -> GoWorking(seen, TRUE)
        [] feed \in NeedsInput   -> Ask(seen, feed)
        [] feed = "Stop"         -> HandleStrongIdle(seen)
        [] feed = "Note"         -> seen

ApplyNonBlockerScreen(r, screen, cleared) ==
  CASE screen = "Working" -> GoWorking(r, FALSE)
    [] screen = "Idle" /\ r.status = "Working" -> ConfirmIdle(r)
    [] screen = "Idle" /\ r.status = "Starting" -> [r EXCEPT !.status = "Idle"]
    [] screen = "Idle" /\ cleared /\ r.status \in NeedsInput ->
         [CancelIdleCandidacy(r) EXCEPT !.status = "Idle"]
    [] OTHER -> r

\* A non-blocker frame while a blocker is on record: only enough consecutive
\* misses release it.
MissBlocker(r, screen) ==
  IF r.misses + 1 < BlockerClearScans
  THEN [r EXCEPT !.misses = @ + 1]
  ELSE ApplyNonBlockerScreen([r EXCEPT !.blocker = FALSE, !.misses = 0],
                             screen, TRUE)

\* Startup grace: starting is held unless the frame is definitive.
HeldByGrace(r, screen) ==
  /\ r.status = "Starting" /\ ~r.grace_over
  /\ ~(authority = "ScreenPrimary" /\ screen = "Working")

\* fresh: the observation's content_seq is not the one judged last.
HandleScreen(r, screen, fresh) ==
  LET seen == [Seen(r) EXCEPT !.skip = FALSE]
      believed == [seen EXCEPT !.belief = screen]
  IN  CASE screen = "Skip" -> [Seen(r) EXCEPT !.skip = TRUE]
        [] screen # "Skip" /\ ~fresh -> seen
        [] fresh /\ screen \in NeedsInput ->
             Ask([believed EXCEPT !.blocker = TRUE, !.misses = 0], screen)
        [] fresh /\ screen \in {"Working", "Idle"} /\ r.blocker ->
             MissBlocker(believed, screen)
        [] fresh /\ screen \in {"Working", "Idle"} /\ ~r.blocker ->
             IF HeldByGrace(r, screen) THEN believed
             ELSE ApplyNonBlockerScreen(believed, screen, FALSE)

\* A frame held back by the grace is forgotten.
NoReconsider(r) == r

\* The remembered frame, reconsidered once the grace is over.
Reconsider(r) ==
  IF r.status = "Starting" /\ ~r.skip /\ r.grace_over
  THEN CASE r.belief = "Working" -> GoWorking(r, FALSE)
         [] r.belief = "Idle"    -> [r EXCEPT !.status = "Idle"]
         [] OTHER                -> r
  ELSE r

HandleTick(r) ==
  LET first == Reconsider(r)
  IN  IF first.status = "Working" /\ first.quiet
        THEN [first EXCEPT !.status = "Unknown"]
      ELSE IF first.status = "Working" /\ first.idle_strong /\ first.candidate # "none"
        THEN CommitIdle(first)
      ELSE first

\* reduce, before its match: exited is absorbing, and a process-only agent
\* moves with its first output and with its exit.
Absorbed(r) == r.status = "Exited"

ReduceFeed(r, feed) ==
  IF Absorbed(r) \/ authority = "ProcessOnly" THEN r ELSE HandleFeed(r, feed)

ReduceActivity(r) ==
  CASE Absorbed(r) -> r
    [] ~Absorbed(r) /\ authority = "ProcessOnly" /\ r.status = "Starting" ->
         [Seen(r) EXCEPT !.status = "Working"]
    [] OTHER -> Seen(r)

ReduceScreen(r, screen, fresh) ==
  IF Absorbed(r) \/ authority = "ProcessOnly" THEN r
  ELSE HandleScreen(r, screen, fresh)

ReduceTick(r) ==
  IF Absorbed(r) \/ authority = "ProcessOnly" THEN r ELSE HandleTick(r)

\* An exit is final only for a session that had started.
ReduceExitOfStarted(r) == IF r.status = "Starting" THEN r ELSE [r EXCEPT !.status = "Exited"]

ReduceExit(r) == [r EXCEPT !.status = "Exited"]

\* ReducerOutcome: the change set_status noted, and the detail of a prompt.
Outcome(before, after, asked) ==
  [change |-> IF after.status # before.status THEN after.status ELSE None,
   detail |-> IF Absorbed(before) \/ authority = "ProcessOnly" THEN None ELSE asked]

-----------------------------------------------------------------------------
(***************************************************************************)
(* The session's threads.                                                  *)
(***************************************************************************)
Settled == \A t \in Threads : pc[t] = "idle"

\* The reducer's lock is released with an outcome in hand: t has yet to
\* apply it, and another outcome may be in the same position.
Reduced(t, after, asked) ==
  LET result == Outcome(reducer, after, asked)
      alone == \A u \in Threads \ {t} : pc[u] = "idle"
  IN  /\ pc[t] = "idle"
      /\ reducer' = after
      /\ outcome' = [outcome EXCEPT ![t] = result]
      /\ pc' = [pc EXCEPT ![t] = IF result = NoOutcome THEN "idle" ELSE "status"]
      /\ changed' = [changed EXCEPT ![t] = FALSE]
      /\ crossed' = \/ result # NoOutcome /\ ~alone
                    \/ crossed /\ ~(result.change # None /\ alone)
      /\ UNCHANGED <<authority, sharedVars, seeding, unpublished, watchVars>>

\* History: n more signs of idle in a session that works.
Add(n) ==
  IF reducer.status # "Working" THEN 0
  ELSE IF evidence + n < IdleConfirmations THEN evidence + n ELSE IdleConfirmations

\* feed_signal (a hook, a notify, a keystroke), up to the unlock. The
\* session is in the registry only once its adoption is over.
FeedSignal(t, feed) ==
  /\ ~seeding /\ signals < MaxSignals
  /\ signals' = signals + 1
  /\ Reduced(t, ReduceFeed(reducer, feed), IF feed \in NeedsInput THEN feed ELSE None)
  /\ evidence' = CASE feed = "Stop" -> Add(IdleConfirmations)
                   [] feed \in {"Note", "SessionStart"} -> Add(0)
                   [] OTHER -> 0
  /\ UNCHANGED pump

\* A chunk of output: the activity (not while a replayed tail is drained) and
\* the observation of the new screen, if a rule matched, are reduced under
\* one lock. A reconnected remote pump judges an unchanged screen again.
PumpOutput(activity, screen, fresh) ==
  LET active == IF activity THEN ReduceActivity(reducer) ELSE reducer
  IN  /\ pump = "running" /\ signals < MaxSignals
      /\ signals' = signals + 1
      /\ screen = None => fresh
      /\ ~fresh => screen = reducer.belief /\ ~reducer.skip
      /\ Reduced("pump",
                 IF screen = None THEN active ELSE ReduceScreen(active, screen, fresh),
                 IF screen \in NeedsInput /\ fresh THEN screen ELSE None)
      /\ evidence' = CASE fresh /\ screen = "Idle" -> Add(1)
                       [] ~fresh \/ screen \in {"Skip", None} -> Add(0)
                       [] OTHER -> 0
      /\ UNCHANGED pump

PumpTick ==
  /\ pump = "running"
  /\ Reduced("pump", ReduceTick(reducer), None)
  /\ UNCHANGED <<pump, evidence, signals>>

\* The stream ended, the exit marker was read, the remote Holder reported the
\* exit, or the launch failed: the last thing the pump reduces.
PumpExit ==
  /\ pump = "running"
  /\ Reduced("pump", ReduceExit(reducer), None)
  /\ pump' = "exiting"
  /\ UNCHANGED <<evidence, signals>>

\* apply, the status
ApplyStatus(t) ==
  LET change == outcome[t].change
  IN  /\ pc[t] = "status"
      /\ pc' = [pc EXCEPT ![t] = "detail"]
      /\ changed' = [changed EXCEPT ![t] = change # None /\ status # change]
      /\ status' = IF change # None THEN change ELSE status
      /\ exited' = (exited \/ change = "Exited")
      /\ UNCHANGED <<reducerVars, needs_input, outcome, pump, seeding, unpublished,
                     watchVars, crossed>>

\* apply, the detail (every new one carries its time, so it always differs)
\* and the version.
DetailAfter(t) ==
  CASE outcome[t].detail # None -> outcome[t].detail
    [] outcome[t].detail = None /\ outcome[t].change \in {"Working", "Idle"} -> None
    [] OTHER -> needs_input

\* Only a new status moves the version.
ApplyDetailUnnoticed(t) ==
  /\ pc[t] = "detail"
  /\ pc' = [pc EXCEPT ![t] = "idle"]
  /\ outcome' = [outcome EXCEPT ![t] = NoOutcome]
  /\ changed' = [changed EXCEPT ![t] = FALSE]
  /\ needs_input' = DetailAfter(t)
  /\ unpublished' = (unpublished \/ changed[t])
  /\ pump' = IF t = "pump" /\ pump = "exiting" THEN "done" ELSE pump
  /\ UNCHANGED <<reducerVars, status, exited, seeding, watchVars, crossed>>

ApplyDetail(t) ==
  LET bump == changed[t] \/ outcome[t].detail # None \/ DetailAfter(t) # needs_input
  IN  /\ pc[t] = "detail"
      /\ pc' = [pc EXCEPT ![t] = "idle"]
      /\ outcome' = [outcome EXCEPT ![t] = NoOutcome]
      /\ changed' = [changed EXCEPT ![t] = FALSE]
      /\ needs_input' = DetailAfter(t)
      /\ unpublished' = (unpublished \/ bump)
      /\ pump' = IF t = "pump" /\ pump = "exiting" THEN "done" ELSE pump
      /\ UNCHANGED <<reducerVars, status, exited, seeding, watchVars, crossed>>

-----------------------------------------------------------------------------
(***************************************************************************)
(* Time, adoption and the watcher.                                         *)
(***************************************************************************)
GraceExpires ==
  /\ ~reducer.grace_over
  /\ reducer' = [reducer EXCEPT !.grace_over = TRUE]
  /\ UNCHANGED <<authority, evidence, signals, sharedVars, threadVars, pump, seeding,
                 unpublished, watchVars, crossed>>

CandidateRipens ==
  /\ reducer.candidate = "open"
  /\ reducer' = [reducer EXCEPT !.candidate = "ripe"]
  /\ UNCHANGED <<authority, evidence, signals, sharedVars, threadVars, pump, seeding,
                 unpublished, watchVars, crossed>>

FallsQuiet ==
  /\ reducer.status = "Working" /\ ~reducer.quiet
  /\ reducer' = [reducer EXCEPT !.quiet = TRUE]
  /\ UNCHANGED <<authority, evidence, signals, sharedVars, threadVars, pump, seeding,
                 unpublished, watchVars, crossed>>

\* adopt_with_status writes the record's status after attach started the pump.
SeedStatus ==
  /\ seeding
  /\ seeding' = FALSE
  /\ status' = record.status /\ needs_input' = record.detail
  /\ crossed' = (crossed \/ reducer.status # "Starting")
  /\ UNCHANGED <<reducerVars, exited, threadVars, pump, unpublished, watchVars>>

\* changed_since, under the registry lock: the version, then view()
WatchVersion ==
  /\ watcher = "poll" /\ ~seeding /\ unpublished
  /\ watcher' = "view" /\ unpublished' = FALSE
  /\ UNCHANGED <<reducerVars, sharedVars, threadVars, pump, seeding, record,
                 crossed>>

WatchView ==
  /\ watcher = "view"
  /\ watcher' = "poll" /\ record' = [status |-> status, detail |-> needs_input]
  /\ UNCHANGED <<reducerVars, sharedVars, threadVars, pump, seeding, unpublished,
                 crossed>>

-----------------------------------------------------------------------------
\* A record that can be adopted: its detail goes with its status.
Seeds == {[status |-> s, detail |-> IF s \in NeedsInput THEN s ELSE None] :
            s \in SeedStatuses}

\* A session is spawned with a record that says Starting, adopted from a local
\* Holder (seeded later), or adopted from a remote one (seeded at once, and
\* finish_startup_grace called).
Init ==
  /\ authority \in Authorities
  /\ \E origin \in {"spawn", "held", "remote"} :
       /\ record \in Seeds \cup {[status |-> "Starting", detail |-> None]}
       /\ origin = "spawn" => record.status = "Starting"
       /\ reducer = NewReducer(origin = "remote")
       /\ seeding = (origin = "held")
       /\ status = IF origin = "held" THEN "Starting" ELSE record.status
       /\ needs_input = IF origin = "held" THEN None ELSE record.detail
  /\ exited = FALSE
  /\ outcome = [t \in Threads |-> NoOutcome] /\ pc = [t \in Threads |-> "idle"]
  /\ changed = [t \in Threads |-> FALSE]
  /\ pump = "running"
  /\ unpublished = TRUE /\ watcher = "poll"
  /\ crossed = FALSE /\ signals = 0
  /\ evidence = 0

Feed == \E t \in Feeders, feed \in Feeds : FeedSignal(t, feed)
Output == \E activity, fresh \in BOOLEAN, screen \in Screens \cup {None} :
            PumpOutput(activity, screen, fresh)
Apply(t) == ApplyStatus(t) \/ ApplyDetail(t)
Watch == WatchVersion \/ WatchView

Next ==
  \/ Feed \/ Output \/ PumpTick \/ PumpExit
  \/ \E t \in Threads : Apply(t)
  \/ GraceExpires \/ CandidateRipens \/ FallsQuiet
  \/ SeedStatus \/ Watch

Spec == Init /\ [][Next]_vars

\* The pump's wait is bounded by the tick, a thread that holds an outcome
\* applies it, adoption returns, the watcher polls, and time passes.
Fairness ==
  /\ WF_vars(PumpTick) /\ WF_vars(GraceExpires) /\ WF_vars(SeedStatus)
  /\ WF_vars(Watch)
  /\ \A t \in Threads : WF_vars(Apply(t))

FairSpec == Spec /\ Fairness

-----------------------------------------------------------------------------
(***************************************************************************)
(* Properties.                                                             *)
(***************************************************************************)
ReducerType ==
  [status : Statuses, grace_over : BOOLEAN, quiet : BOOLEAN,
   candidate : {"none", "open", "ripe"}, idle_confirms : 0..(IdleConfirmations - 1),
   idle_strong : BOOLEAN, blocker : BOOLEAN, misses : 0..(BlockerClearScans - 1),
   belief : Screens \cup {None}, skip : BOOLEAN]
Details == NeedsInput \cup {None}

\* Every variable stays in its type; the debounce counters stay below the
\* thresholds at which they are spent.
TypeOK ==
  /\ authority \in Authorities /\ reducer \in ReducerType
  /\ status \in Statuses /\ needs_input \in Details /\ exited \in BOOLEAN
  /\ outcome \in [Threads -> [change : Statuses \cup {None}, detail : Details]]
  /\ pc \in [Threads -> {"idle", "status", "detail"}]
  /\ changed \in [Threads -> BOOLEAN]
  /\ pump \in {"running", "exiting", "done"}
  /\ seeding \in BOOLEAN
  /\ unpublished \in BOOLEAN /\ watcher \in {"poll", "view"}
  /\ record \in [status : Statuses, detail : Details]
  /\ crossed \in BOOLEAN /\ signals \in 0..MaxSignals
  /\ evidence \in 0..IdleConfirmations

\* handle_screen: "A visible blocker beats everything except process exit."
\* While one is on record the session asks for input, whatever hooks, ticks
\* and stray frames came in between; only work hooks take it off the record.
BlockerHolds ==
  reducer.blocker => reducer.status \in NeedsInput \cup {"Exited"}

\* "a single idle-looking frame mid-turn must not flip the session to idle":
\* a working session turns idle only after enough idle frames in a row, an
\* end-of-turn signal, or a candidacy that lasted, all since the last sign of
\* work or of a prompt.
NoFlicker ==
  [][reducer.status = "Working" /\ reducer'.status = "Idle" =>
       evidence' >= IdleConfirmations \/ reducer.candidate = "ripe"]_vars

\* changed_since compares versions instead of records, and feeders and the
\* pump apply their outcomes after they have released the reducer: once all is
\* applied and nothing is left to publish, the record is what the session
\* shows, and that is what the reducer concluded (before it has concluded
\* anything an adopted session shows its record), with a prompt exactly while
\* the session asks for one. Only outcomes in flight together may leave it
\* behind the reducer.
RecordIsReduced ==
  Settled /\ ~seeding /\ ~unpublished /\ watcher = "poll" =>
    /\ record = [status |-> status, detail |-> needs_input]
    /\ ~crossed =>
         /\ reducer.status # "Starting" => status = reducer.status
         /\ status \in NeedsInput => needs_input = status
         /\ status \in {"Working", "Idle"} => needs_input = None

\* handle_tick: "If the screen then stays unchanged there is no second frame
\* to revisit, so the session used to remain Starting forever." A session
\* whose screen was read leaves Starting, in the record too.
StartingEnds ==
  (reducer.status = "Starting" /\ reducer.belief \in {"Working", "Idle"}
     /\ pump = "running" /\ authority # "ProcessOnly")
    ~> (record.status # "Starting" \/ reducer.skip \/ crossed)

\* The end of the process reaches the record, unless an outcome that was
\* already in flight is applied over it.
ExitReachesTheRecord ==
  pump # "running" ~> (exited /\ (record.status = "Exited" \/ crossed))
=============================================================================

------------------------ MODULE SessionStatusProofs ------------------------
(***************************************************************************)
(* What holds of SessionStatus for any number of feeder threads and any    *)
(* debounce thresholds: the reducer keeps a visible blocker, and the       *)
(* record settles on what the reducer concluded.                           *)
(***************************************************************************)
EXTENDS SessionStatus, TLAPS

\* What every operator of the reducer keeps.
Sound(r) ==
  /\ r \in ReducerType
  /\ r.blocker => r.status \in NeedsInput \cup {"Exited"}

\* What a signal that asks for the prompt asked (None: for none) makes of r:
\* Starting is not entered again, a session asks for input only when the
\* signal does, and then exactly for that.
Follows(r, after, asked) ==
  /\ Sound(after)
  /\ after.status = "Starting" => r.status = "Starting"
  /\ after.status \in NeedsInput /\ after.status # r.status =>
       asked = after.status /\ ~Absorbed(r) /\ authority # "ProcessOnly"
  /\ asked # None /\ ~Absorbed(r) /\ authority # "ProcessOnly" => after.status = asked

-----------------------------------------------------------------------------
(***************************************************************************)
(* The reducer.                                                            *)
(***************************************************************************)

\* The kinds of input are not among the other statuses.
LEMMA Kinds ==
  /\ NeedsInput \cap {"Starting", "Working", "Idle", "Unknown", "Exited", "Skip", None} = {}
  /\ None \notin Statuses
  BY StatusAssumption DEF Statuses

\* Seen, CancelIdleCandidacy, GoWorking and CommitIdle touch only their own
\* fields.
LEMMA Steps ==
  ASSUME NEW r \in ReducerType, NEW clear \in BOOLEAN
  PROVE  /\ Seen(r) \in ReducerType /\ Seen(r).status = r.status
         /\ Seen(r).blocker = r.blocker
         /\ CancelIdleCandidacy(r) \in ReducerType
         /\ CancelIdleCandidacy(r).status = r.status
         /\ CancelIdleCandidacy(r).blocker = r.blocker
         /\ GoWorking(r, clear) \in ReducerType
         /\ GoWorking(r, clear).status = "Working"
         /\ GoWorking(r, clear).blocker = (r.blocker /\ ~clear)
         /\ CommitIdle(r) \in ReducerType
         /\ CommitIdle(r).status = "Idle"
         /\ CommitIdle(r).blocker = r.blocker
  <1>1. "Working" \in Statuses /\ "Idle" \in Statuses
    BY DEF Statuses
  <1>2. 0 \in 0..(IdleConfirmations - 1) /\ 0 \in 0..(BlockerClearScans - 1)
    BY StatusAssumption
  <1>3. Seen(r) \in ReducerType /\ Seen(r).status = r.status /\ Seen(r).blocker = r.blocker
    BY DEF Seen, ReducerType
  <1>4. ASSUME NEW q \in ReducerType
        PROVE  /\ CancelIdleCandidacy(q) \in ReducerType
               /\ CancelIdleCandidacy(q).status = q.status
               /\ CancelIdleCandidacy(q).blocker = q.blocker
    BY <1>2 DEF CancelIdleCandidacy, ReducerType
  <1>5. /\ GoWorking(r, clear) \in ReducerType
        /\ GoWorking(r, clear).status = "Working"
        /\ GoWorking(r, clear).blocker = (r.blocker /\ ~clear)
    BY <1>1, <1>2, <1>3, <1>4 DEF GoWorking, ReducerType
  <1>6. /\ CommitIdle(r) \in ReducerType
        /\ CommitIdle(r).status = "Idle"
        /\ CommitIdle(r).blocker = r.blocker
    BY <1>1, <1>3, <1>4 DEF CommitIdle, ReducerType
  <1> QED
    BY <1>3, <1>4, <1>5, <1>6

\* A hook, a notification or a keystroke.
LEMMA FeedFollows ==
  ASSUME NEW r, Sound(r), NEW feed \in Feeds
  PROVE  Follows(r, ReduceFeed(r, feed), IF feed \in NeedsInput THEN feed ELSE None)
  <1> DEFINE seen == Seen(r)
  <1>1. CASE Absorbed(r) \/ authority = "ProcessOnly"
    BY <1>1, Kinds DEF Follows, ReduceFeed, Absorbed
  <1>2. CASE ~Absorbed(r) /\ authority # "ProcessOnly"
    <2>1. ReduceFeed(r, feed) = HandleFeed(r, feed)
      BY <1>2 DEF ReduceFeed
    <2>2. r \in ReducerType /\ r.status # "Exited" /\ seen \in ReducerType
          /\ seen.status = r.status /\ seen.blocker = r.blocker /\ Sound(seen)
      BY <1>2, Steps, TRUE \in BOOLEAN DEF Sound, Absorbed
    <2>3. CASE feed = "SessionStart"
      <3>1. HandleFeed(r, feed) =
              IF r.status = "Starting" THEN [seen EXCEPT !.status = "Idle"] ELSE seen
        BY <2>3, StatusAssumption DEF HandleFeed, Feeds
      <3>2. feed \notin NeedsInput /\ "Idle" \in Statuses
        BY <2>3, StatusAssumption DEF Statuses
      <3>3. /\ [seen EXCEPT !.status = "Idle"] \in ReducerType
            /\ [seen EXCEPT !.status = "Idle"].status = "Idle"
            /\ [seen EXCEPT !.status = "Idle"].blocker = r.blocker
        BY <2>2, <3>2 DEF ReducerType
      <3> HIDE DEF seen
      <3> QED
        BY <2>1, <2>2, <3>1, <3>2, <3>3, Kinds DEF Follows, Sound
    <2>4. CASE feed = "Work"
      <3>1. HandleFeed(r, feed) = GoWorking(seen, TRUE)
        BY <2>4, StatusAssumption DEF HandleFeed, Feeds
      <3>2. GoWorking(seen, TRUE) \in ReducerType
            /\ GoWorking(seen, TRUE).status = "Working" /\ ~GoWorking(seen, TRUE).blocker
        BY <2>2, Steps, TRUE \in BOOLEAN
      <3>3. feed \notin NeedsInput
        BY <2>4, StatusAssumption
      <3> QED
        BY <2>1, <3>1, <3>2, <3>3, Kinds DEF Follows, Sound
    <2>5. CASE feed \in NeedsInput
      <3>1. HandleFeed(r, feed) = Ask(seen, feed)
        BY <2>5, StatusAssumption DEF HandleFeed, Feeds
      <3>2. CancelIdleCandidacy(seen) \in ReducerType
        BY <2>2, Steps, TRUE \in BOOLEAN
      <3>3. Ask(seen, feed) \in ReducerType /\ Ask(seen, feed).status = feed
        BY <2>5, <3>2 DEF Ask, ReducerType, Statuses
      <3> QED
        BY <1>2, <2>1, <2>5, <3>1, <3>3, Kinds DEF Follows, Sound
    <2>6. CASE feed = "Stop"
      <3> DEFINE candidate == [seen EXCEPT !.idle_strong = TRUE, !.candidate = Opened(@)]
      <3>1. HandleFeed(r, feed) = HandleStrongIdle(seen) /\ feed \notin NeedsInput
        BY <2>6, StatusAssumption DEF HandleFeed, Feeds
      <3>2. candidate \in ReducerType /\ candidate.status = r.status
            /\ candidate.blocker = r.blocker
        BY <2>2 DEF ReducerType, Opened
      <3>3. CommitIdle(candidate) \in ReducerType /\ CommitIdle(candidate).status = "Idle"
            /\ CommitIdle(candidate).blocker = r.blocker
        BY <3>2, Steps, TRUE \in BOOLEAN
      <3>4. CASE seen.status = "Starting"
        <4>1. HandleStrongIdle(seen) = [seen EXCEPT !.status = "Idle"]
          BY <3>4 DEF HandleStrongIdle
        <4> QED
          BY <2>1, <2>2, <3>1, <3>4, <4>1, Kinds DEF Follows, Sound, ReducerType, Statuses
      <3>5. CASE seen.status = "Working"
        <4>1. HandleStrongIdle(seen) \in {candidate, CommitIdle(candidate)}
          BY <3>5 DEF HandleStrongIdle
        <4> QED
          BY <2>1, <2>2, <3>1, <3>2, <3>3, <3>5, <4>1, Kinds DEF Follows, Sound
      <3>6. CASE seen.status \notin {"Starting", "Working"}
        <4>1. HandleStrongIdle(seen) = seen
          BY <3>6 DEF HandleStrongIdle
        <4> QED
          BY <2>1, <2>2, <3>1, <4>1, Kinds DEF Follows, Sound
      <3> QED
        BY <3>4, <3>5, <3>6
    <2>7. CASE feed = "Note"
      <3>1. HandleFeed(r, feed) = seen /\ feed \notin NeedsInput
        BY <2>7, StatusAssumption DEF HandleFeed, Feeds
      <3> QED
        BY <2>1, <2>2, <3>1, Kinds DEF Follows
    <2> QED
      BY <2>3, <2>4, <2>5, <2>6, <2>7 DEF Feeds
  <1> QED
    BY <1>1, <1>2

\* Idle frames are counted below the threshold, or committed.
LEMMA IdleIsCounted ==
  ASSUME NEW r \in ReducerType, r.status = "Working"
  PROVE  /\ ConfirmIdle(r) \in ReducerType
         /\ ConfirmIdle(r).status \in {"Working", "Idle"}
         /\ ConfirmIdle(r).blocker = r.blocker
  <1> DEFINE confirms == IF r.candidate = "none" THEN 1 ELSE r.idle_confirms + 1
             confirmed == [r EXCEPT !.candidate = Opened(@), !.idle_confirms = confirms]
             required == IF r.idle_strong THEN 1 ELSE IdleConfirmations
  <1>1. r.idle_confirms \in 0..(IdleConfirmations - 1) /\ r.candidate \in {"none", "open", "ripe"}
    BY DEF ReducerType
  <1>2. confirms \in Nat /\ confirmed.idle_confirms = confirms
    BY <1>1, StatusAssumption DEF ReducerType
  <1>3. CASE confirms >= required \/ Opened(r.candidate) = "ripe"
    <2>1. ConfirmIdle(r) = CommitIdle(confirmed)
      BY <1>2, <1>3 DEF ConfirmIdle, ReducerType
    <2> DEFINE done == [r EXCEPT !.quiet = FALSE, !.candidate = "none",
                                 !.idle_confirms = 0, !.idle_strong = FALSE,
                                 !.status = "Idle"]
    <2>2. CommitIdle(confirmed) = done
      BY DEF CommitIdle, CancelIdleCandidacy, Seen, ReducerType
    <2>3. 0 \in 0..(IdleConfirmations - 1) /\ "Idle" \in Statuses
      BY StatusAssumption DEF Statuses
    <2>4. done \in ReducerType /\ done.status = "Idle" /\ done.blocker = r.blocker
      BY <2>3 DEF ReducerType
    <2> HIDE DEF done, confirmed
    <2> QED
      BY <2>1, <2>2, <2>4
  <1>4. CASE ~(confirms >= required \/ Opened(r.candidate) = "ripe")
    <2>1. ConfirmIdle(r) = confirmed
      BY <1>2, <1>4 DEF ConfirmIdle, ReducerType
    <2>2. required = IdleConfirmations /\ confirms \in 0..(IdleConfirmations - 1)
      BY <1>1, <1>2, <1>4, StatusAssumption DEF ReducerType
    <2> HIDE DEF confirms
    <2> QED
      BY <1>1, <2>1, <2>2 DEF ReducerType, Opened
  <1> QED
    BY <1>3, <1>4

\* A frame without a blocker, judged.
LEMMA FrameFollows ==
  ASSUME NEW r, Sound(r), ~r.blocker, NEW screen \in {"Working", "Idle"},
         NEW cleared \in BOOLEAN
  PROVE  /\ Sound(ApplyNonBlockerScreen(r, screen, cleared))
         /\ \/ ApplyNonBlockerScreen(r, screen, cleared).status = r.status
            \/ ApplyNonBlockerScreen(r, screen, cleared).status \in {"Working", "Idle"}
  <1>1. r \in ReducerType /\ "Idle" \in Statuses
    BY DEF Sound, Statuses
  <1>2. /\ GoWorking(r, FALSE) \in ReducerType /\ GoWorking(r, FALSE).status = "Working"
        /\ ~GoWorking(r, FALSE).blocker
        /\ CancelIdleCandidacy(r) \in ReducerType
        /\ ~CancelIdleCandidacy(r).blocker
    BY <1>1, Steps, FALSE \in BOOLEAN
  <1>3. ASSUME NEW q \in ReducerType, ~q.blocker
        PROVE  LET idle == [q EXCEPT !.status = "Idle"]
               IN  idle \in ReducerType /\ idle.status = "Idle" /\ ~idle.blocker
    BY <1>1, <1>3 DEF ReducerType
  <1>4. CASE screen = "Working"
    <2>1. ApplyNonBlockerScreen(r, screen, cleared) = GoWorking(r, FALSE)
      BY <1>4 DEF ApplyNonBlockerScreen
    <2> QED
      BY <1>2, <2>1 DEF Sound
  <1>5. CASE screen = "Idle" /\ r.status = "Working"
    <2>1. ApplyNonBlockerScreen(r, screen, cleared) = ConfirmIdle(r)
      BY <1>5, Kinds DEF ApplyNonBlockerScreen
    <2> QED
      BY <1>1, <1>5, <2>1, IdleIsCounted DEF Sound
  <1>6. CASE screen = "Idle" /\ r.status = "Starting"
    <2>1. ApplyNonBlockerScreen(r, screen, cleared) = [r EXCEPT !.status = "Idle"]
      BY <1>6, Kinds DEF ApplyNonBlockerScreen
    <2> QED
      BY <1>1, <1>3, <2>1 DEF Sound
  <1>7. CASE screen = "Idle" /\ cleared /\ r.status \in NeedsInput
    <2>1. ApplyNonBlockerScreen(r, screen, cleared) =
            [CancelIdleCandidacy(r) EXCEPT !.status = "Idle"]
      BY <1>7, Kinds DEF ApplyNonBlockerScreen
    <2> QED
      BY <1>2, <1>3, <2>1 DEF Sound
  <1>8. CASE screen = "Idle" /\ r.status \notin {"Starting", "Working"}
               /\ ~(cleared /\ r.status \in NeedsInput)
    <2>1. ApplyNonBlockerScreen(r, screen, cleared) = r
      BY <1>8 DEF ApplyNonBlockerScreen
    <2> QED
      BY <2>1
  <1> QED
    BY <1>4, <1>5, <1>6, <1>7, <1>8

\* An observation of the screen.
LEMMA ScreenFollows ==
  ASSUME NEW r, Sound(r), NEW screen \in Screens, NEW fresh \in BOOLEAN
  PROVE  Follows(r, ReduceScreen(r, screen, fresh),
                 IF screen \in NeedsInput /\ fresh THEN screen ELSE None)
  <1>1. CASE Absorbed(r) \/ authority = "ProcessOnly"
    BY <1>1, Kinds DEF Follows, ReduceScreen, Absorbed
  <1>2. CASE ~Absorbed(r) /\ authority # "ProcessOnly"
    <2> DEFINE seen == [Seen(r) EXCEPT !.skip = FALSE]
               believed == [seen EXCEPT !.belief = screen]
               skipped == [Seen(r) EXCEPT !.skip = TRUE]
               Same(q) == q \in ReducerType /\ q.status = r.status /\ q.blocker = r.blocker
    <2>1. ReduceScreen(r, screen, fresh) = HandleScreen(r, screen, fresh)
      BY <1>2 DEF ReduceScreen
    <2>2. r \in ReducerType /\ r.status # "Exited" /\ Same(Seen(r))
      BY <1>2, Steps, TRUE \in BOOLEAN DEF Sound, Absorbed
    <2>3. Same(seen) /\ Same(skipped)
      BY <2>2 DEF ReducerType
    <2>4. Same(believed)
      BY <2>3 DEF ReducerType
    <2>5. ASSUME NEW q, Same(q) PROVE Follows(r, q, None)
      BY <2>5, Kinds DEF Follows, Sound
    <2>6. CASE screen = "Skip"
      <3>1. HandleScreen(r, screen, fresh) = skipped /\ screen \notin NeedsInput
        BY <2>6, Kinds DEF HandleScreen
      <3> HIDE DEF skipped, Same
      <3> QED
        BY <2>1, <2>3, <2>5, <3>1
    <2>7. CASE screen # "Skip" /\ ~fresh
      <3>1. HandleScreen(r, screen, fresh) = seen
        BY <2>7 DEF HandleScreen
      <3> HIDE DEF seen, Same
      <3> QED
        BY <2>1, <2>3, <2>5, <2>7, <3>1
    <2>8. CASE fresh /\ screen \in NeedsInput
      <3> DEFINE blocked == [believed EXCEPT !.blocker = TRUE, !.misses = 0]
      <3>1. HandleScreen(r, screen, fresh) = Ask(blocked, screen)
        BY <2>8, Kinds DEF HandleScreen
      <3>2. 0 \in 0..(BlockerClearScans - 1)
        BY StatusAssumption
      <3>3. blocked \in ReducerType
        <4> HIDE DEF believed
        <4> QED BY <2>4, <3>2 DEF ReducerType
      <3>4. Ask(blocked, screen) \in ReducerType /\ Ask(blocked, screen).status = screen
        <4> HIDE DEF blocked
        <4>1. CancelIdleCandidacy(blocked) \in ReducerType
          BY <3>3, Steps, TRUE \in BOOLEAN
        <4> QED
          BY <2>8, <4>1 DEF Ask, ReducerType, Statuses
      <3> HIDE DEF blocked
      <3> QED
        BY <1>2, <2>1, <2>8, <3>1, <3>4, Kinds DEF Follows, Sound
    <2>9. CASE fresh /\ screen \in {"Working", "Idle"} /\ r.blocker
      <3> DEFINE miss == [believed EXCEPT !.misses = @ + 1]
                 released == [believed EXCEPT !.blocker = FALSE, !.misses = 0]
      <3>1. HandleScreen(r, screen, fresh) = MissBlocker(believed, screen)
            /\ screen \notin NeedsInput
        BY <2>9, Kinds DEF HandleScreen
      <3>2. 0 \in 0..(BlockerClearScans - 1)
        BY StatusAssumption
      <3>3. CASE believed.misses + 1 < BlockerClearScans
        <4>1. MissBlocker(believed, screen) = miss
          BY <3>3 DEF MissBlocker
        <4>2. Same(miss)
          <5> HIDE DEF believed
          <5>1. believed.misses \in 0..(BlockerClearScans - 1)
            BY <2>4 DEF ReducerType
          <5>2. believed.misses + 1 \in 0..(BlockerClearScans - 1)
            BY <3>3, <5>1, StatusAssumption
          <5> QED BY <2>4, <5>2 DEF ReducerType
        <4> HIDE DEF miss, Same
        <4> QED BY <2>1, <2>5, <3>1, <4>1, <4>2
      <3>4. CASE ~(believed.misses + 1 < BlockerClearScans)
        <4>1. MissBlocker(believed, screen) = ApplyNonBlockerScreen(released, screen, TRUE)
          BY <3>4 DEF MissBlocker
        <4>2. released \in ReducerType /\ released.status = r.status /\ ~released.blocker
          <5> HIDE DEF believed
          <5> QED BY <2>4, <3>2 DEF ReducerType
        <4> HIDE DEF released
        <4>3. Sound(released)
          BY <4>2 DEF Sound
        <4> DEFINE result == ApplyNonBlockerScreen(released, screen, TRUE)
        <4>4. Sound(result) /\ (result.status = r.status \/ result.status \in {"Working", "Idle"})
          BY <2>9, <4>2, <4>3, FrameFollows, TRUE \in BOOLEAN
        <4> HIDE DEF result, believed
        <4>5. ReduceScreen(r, screen, fresh) = result
          BY <2>1, <3>1, <4>1 DEF result
        <4> QED
          BY <3>1, <4>4, <4>5, Kinds DEF Follows
      <3> QED
        BY <3>3, <3>4
    <2>10. CASE fresh /\ screen \in {"Working", "Idle"} /\ ~r.blocker
      <3>1. HandleScreen(r, screen, fresh) =
              IF HeldByGrace(r, screen) THEN believed
              ELSE ApplyNonBlockerScreen(believed, screen, FALSE)
        BY <2>10, Kinds DEF HandleScreen
      <3>2. screen \notin NeedsInput
        BY <2>10, Kinds
      <3> HIDE DEF believed
      <3>3. CASE HeldByGrace(r, screen)
        <4> HIDE DEF Same
        <4> QED BY <2>1, <2>4, <2>5, <3>1, <3>2, <3>3
      <3>4. CASE ~HeldByGrace(r, screen)
        <4>1. Sound(believed) /\ ~believed.blocker /\ believed.status = r.status
          BY <2>4, <2>10 DEF Sound
        <4> QED
          BY <2>1, <2>10, <3>1, <3>2, <3>4, <4>1, FrameFollows, FALSE \in BOOLEAN, Kinds
             DEF Follows
      <3> QED
        BY <3>3, <3>4
    <2> QED
      BY <2>6, <2>7, <2>8, <2>9, <2>10 DEF Screens
  <1> QED
    BY <1>1, <1>2

\* The pump's tick, a chunk of output and the exit ask for nothing.
LEMMA TickFollows ==
  ASSUME NEW r, Sound(r)
  PROVE  Follows(r, ReduceTick(r), None)
  <1>1. CASE Absorbed(r) \/ authority = "ProcessOnly"
    BY <1>1, Kinds DEF Follows, ReduceTick, Absorbed
  <1>2. CASE ~Absorbed(r) /\ authority # "ProcessOnly"
    <2> DEFINE first == Reconsider(r)
               Moved(q) ==
                 /\ Sound(q)
                 /\ q.status = r.status \/ q.status \in {"Working", "Idle", "Unknown"}
    <2>1. r \in ReducerType /\ "Idle" \in Statuses /\ "Unknown" \in Statuses
      BY DEF Sound, Statuses
    <2>2. Moved(first)
      <3>1. CASE r.status = "Starting"
        <4>1. ~r.blocker
          BY <3>1, Kinds DEF Sound
        <4>2. GoWorking(r, FALSE) \in ReducerType /\ ~GoWorking(r, FALSE).blocker
              /\ GoWorking(r, FALSE).status = "Working"
          BY <2>1, <4>1, Steps, FALSE \in BOOLEAN
        <4>3. /\ [r EXCEPT !.status = "Idle"] \in ReducerType
              /\ ~[r EXCEPT !.status = "Idle"].blocker
              /\ [r EXCEPT !.status = "Idle"].status = "Idle"
          BY <2>1, <4>1 DEF ReducerType
        <4>4. first \in {r, GoWorking(r, FALSE), [r EXCEPT !.status = "Idle"]}
          BY DEF Reconsider
        <4> HIDE DEF first
        <4> QED
          BY <4>2, <4>3, <4>4 DEF Sound
      <3>2. CASE r.status # "Starting"
        BY <3>2 DEF Reconsider
      <3> QED
        BY <3>1, <3>2
    <2> HIDE DEF first
    <2>3. CASE first.status = "Working"
      <3>1. first \in ReducerType /\ ~first.blocker
        BY <2>2, <2>3, Kinds DEF Sound
      <3>2. CommitIdle(first) \in ReducerType /\ CommitIdle(first).status = "Idle"
            /\ ~CommitIdle(first).blocker
        BY <3>1, Steps, TRUE \in BOOLEAN
      <3>3. /\ [first EXCEPT !.status = "Unknown"] \in ReducerType
            /\ [first EXCEPT !.status = "Unknown"].status = "Unknown"
            /\ ~[first EXCEPT !.status = "Unknown"].blocker
        BY <2>1, <3>1 DEF ReducerType
      <3>4. HandleTick(r) \in {first, CommitIdle(first), [first EXCEPT !.status = "Unknown"]}
        BY DEF HandleTick, first
      <3>5. Moved(HandleTick(r))
        BY <2>2, <3>2, <3>3, <3>4 DEF Sound
      <3> QED
        BY <1>2, <3>5, Kinds DEF Follows, ReduceTick
    <2>4. CASE first.status # "Working"
      <3>1. HandleTick(r) = first
        BY <2>4 DEF HandleTick, first
      <3> QED
        BY <1>2, <2>2, <3>1, Kinds DEF Follows, ReduceTick
    <2> QED
      BY <2>3, <2>4
  <1> QED
    BY <1>1, <1>2

LEMMA ActivityFollows ==
  ASSUME NEW r, Sound(r)
  PROVE  /\ Follows(r, ReduceActivity(r), None)
         /\ \/ ReduceActivity(r).status = r.status
            \/ authority = "ProcessOnly" /\ ReduceActivity(r).status = "Working"
  <1>1. r \in ReducerType /\ "Working" \in Statuses
    BY DEF Sound, Statuses
  <1>2. Seen(r) \in ReducerType /\ Seen(r).status = r.status /\ Seen(r).blocker = r.blocker
    BY <1>1, Steps, TRUE \in BOOLEAN
  <1>3. CASE ~Absorbed(r) /\ authority = "ProcessOnly" /\ r.status = "Starting"
    <2>1. ReduceActivity(r) = [Seen(r) EXCEPT !.status = "Working"]
      BY <1>3 DEF ReduceActivity
    <2>2. ~r.blocker
      BY <1>3, Kinds DEF Sound
    <2>3. /\ ReduceActivity(r) \in ReducerType /\ ReduceActivity(r).status = "Working"
          /\ ~ReduceActivity(r).blocker
      BY <1>1, <1>2, <2>1, <2>2 DEF ReducerType
    <2> QED
      BY <1>3, <2>3, Kinds DEF Follows, Sound
  <1>4. CASE ~(~Absorbed(r) /\ authority = "ProcessOnly" /\ r.status = "Starting")
    <2>1. ReduceActivity(r) \in {r, Seen(r)}
      BY <1>4 DEF ReduceActivity
    <2> QED
      BY <1>2, <2>1, Kinds DEF Follows, Sound
  <1> QED
    BY <1>3, <1>4

LEMMA ExitFollows ==
  ASSUME NEW r, Sound(r)
  PROVE  Follows(r, ReduceExit(r), None)
  <1>1. r \in ReducerType /\ "Exited" \in Statuses
    BY DEF Sound, Statuses
  <1>2. ReduceExit(r) \in ReducerType /\ ReduceExit(r).status = "Exited"
    BY <1>1 DEF ReduceExit, ReducerType
  <1> QED
    BY <1>2, Kinds DEF Follows, Sound

\* The activity and the observation of one chunk of output.
LEMMA OutputFollows ==
  ASSUME NEW r, Sound(r), NEW activity \in BOOLEAN, NEW fresh \in BOOLEAN,
         NEW screen \in Screens \cup {None},
         NEW active, active = IF activity THEN ReduceActivity(r) ELSE r
  PROVE  Follows(r, IF screen = None THEN active ELSE ReduceScreen(active, screen, fresh),
                 IF screen \in NeedsInput /\ fresh THEN screen ELSE None)
  <1>1. Follows(r, active, None)
    BY ActivityFollows, Kinds DEF Follows
  <1>2. Sound(active)
    BY <1>1 DEF Follows
  <1>3. \/ active.status = r.status
        \/ authority = "ProcessOnly" /\ active.status = "Working"
    BY ActivityFollows
  <1>4. CASE screen = None
    <2>1. /\ (IF screen = None THEN active ELSE ReduceScreen(active, screen, fresh)) = active
          /\ (IF screen \in NeedsInput /\ fresh THEN screen ELSE None) = None
      BY <1>4
    <2> QED
      BY <1>1, <2>1
  <1>5. CASE screen # None
    <2>1. Follows(active, ReduceScreen(active, screen, fresh),
                  IF screen \in NeedsInput /\ fresh THEN screen ELSE None)
      BY <1>2, <1>5, ScreenFollows
    <2>2. authority = "ProcessOnly" => ReduceScreen(active, screen, fresh) = active
      BY DEF ReduceScreen
    <2> QED
      BY <1>1, <1>3, <1>5, <2>1, <2>2, Kinds DEF Follows, Absorbed
  <1> QED
    BY <1>4, <1>5

-----------------------------------------------------------------------------
(***************************************************************************)
(* The reducer in the session: it stays sound, whatever is fed to it.      *)
(***************************************************************************)
ReducerInv == authority \in Authorities /\ Sound(reducer)

\* Every step that takes the reducer's lock, with the prompt it asks for.
Reduces(t, after, asked) ==
  /\ t \in Threads /\ asked \in NeedsInput \cup {None}
  /\ Follows(reducer, after, asked)
  /\ Reduced(t, after, asked)

\* A step reduces a signal, applies an outcome, or does neither.
LEMMA StepKinds ==
  ASSUME ReducerInv, Next
  PROVE  \/ \E t, after, asked : Reduces(t, after, asked)
         \/ \E t \in Threads : ApplyStatus(t) \/ ApplyDetail(t)
         \/ GraceExpires \/ CandidateRipens \/ FallsQuiet
         \/ SeedStatus \/ WatchVersion \/ WatchView
  <1> SUFFICES ASSUME Feed \/ Output \/ PumpTick \/ PumpExit
               PROVE  \E t, after, asked : Reduces(t, after, asked)
    BY DEF Next, Apply, Watch
  <1>0. Sound(reducer) /\ "pump" \in Threads
    BY DEF ReducerInv, Threads
  <1>1. CASE Feed
    <2>1. PICK t \in Feeders, feed \in Feeds : FeedSignal(t, feed)
      BY <1>1 DEF Feed
    <2> DEFINE asked == IF feed \in NeedsInput THEN feed ELSE None
    <2>2. Follows(reducer, ReduceFeed(reducer, feed), asked)
      BY <1>0, FeedFollows
    <2>3. Reduced(t, ReduceFeed(reducer, feed), asked)
      BY <2>1 DEF FeedSignal
    <2>4. t \in Threads /\ asked \in NeedsInput \cup {None}
      BY DEF Threads
    <2> HIDE DEF asked
    <2> QED
      BY <2>2, <2>3, <2>4 DEF Reduces
  <1>2. CASE Output
    <2>1. PICK activity \in BOOLEAN, fresh \in BOOLEAN, screen \in Screens \cup {None} :
            PumpOutput(activity, screen, fresh)
      BY <1>2 DEF Output
    <2> DEFINE active == IF activity THEN ReduceActivity(reducer) ELSE reducer
               after == IF screen = None THEN active ELSE ReduceScreen(active, screen, fresh)
               asked == IF screen \in NeedsInput /\ fresh THEN screen ELSE None
    <2>2. Follows(reducer, after, asked)
      BY <1>0, OutputFollows
    <2>3. Reduced("pump", after, asked)
      BY <2>1 DEF PumpOutput
    <2>4. asked \in NeedsInput \cup {None}
      OBVIOUS
    <2> HIDE DEF asked, after
    <2> QED
      BY <1>0, <2>2, <2>3, <2>4 DEF Reduces
  <1>3. CASE PumpTick
    BY <1>0, <1>3, TickFollows DEF Reduces, PumpTick
  <1>4. CASE PumpExit
    BY <1>0, <1>4, ExitFollows DEF Reduces, PumpExit
  <1> QED
    BY <1>1, <1>2, <1>3, <1>4

LEMMA ReducerStep ==
  ASSUME ReducerInv, [Next]_vars
  PROVE  ReducerInv'
  <1>1. CASE UNCHANGED vars
    BY <1>1 DEF ReducerInv, vars, reducerVars, Sound
  <1>2. ASSUME NEW t, NEW after, NEW asked, Reduces(t, after, asked)
        PROVE  ReducerInv'
    BY <1>2 DEF Reduces, Reduced, Follows, ReducerInv, Sound
  <1>3. ASSUME NEW t \in Threads, ApplyStatus(t) \/ ApplyDetail(t)
        PROVE  ReducerInv'
    BY <1>3 DEF ApplyStatus, ApplyDetail, ReducerInv, Sound, reducerVars
  <1>4. CASE SeedStatus \/ WatchVersion \/ WatchView
    BY <1>4 DEF SeedStatus, WatchVersion, WatchView, ReducerInv, Sound, reducerVars
  <1>5. CASE GraceExpires
    BY <1>5 DEF GraceExpires, ReducerInv, Sound, ReducerType
  <1>6. CASE CandidateRipens
    BY <1>6 DEF CandidateRipens, ReducerInv, Sound, ReducerType
  <1>7. CASE FallsQuiet
    BY <1>7 DEF FallsQuiet, ReducerInv, Sound, ReducerType
  <1> QED
    BY <1>1, <1>2, <1>3, <1>4, <1>5, <1>6, <1>7, StepKinds

LEMMA ReducerInit == Init => ReducerInv
  <1> SUFFICES ASSUME Init PROVE ReducerInv
    OBVIOUS
  <1>1. PICK origin \in {"spawn", "held", "remote"} : reducer = NewReducer(origin = "remote")
    BY DEF Init
  <1>2. /\ "Starting" \in Statuses /\ (origin = "remote") \in BOOLEAN
        /\ 0 \in 0..(IdleConfirmations - 1) /\ 0 \in 0..(BlockerClearScans - 1)
    BY StatusAssumption DEF Statuses
  <1>3. reducer \in ReducerType /\ ~reducer.blocker
    BY <1>1, <1>2 DEF NewReducer, ReducerType
  <1> QED
    BY <1>3 DEF Init, ReducerInv, Sound

\* handle_screen: "A visible blocker beats everything except process exit."
\* Whatever hooks, frames, ticks and output come in, from any number of
\* threads and with any thresholds, a session with a blocker on record asks
\* for input until it exits.
THEOREM BlockerIsKept == Spec => []BlockerHolds
  <1>1. ReducerInv => BlockerHolds
    BY DEF ReducerInv, Sound, BlockerHolds
  <1> QED
    BY <1>1, ReducerInit, ReducerStep, PTL DEF Spec

-----------------------------------------------------------------------------
(***************************************************************************)
(* The debounce.                                                           *)
(***************************************************************************)

\* The reducer r rests on the evidence e: while it says Working, it counts no
\* more idle frames than there were, and takes an end of turn for granted only
\* when there is evidence enough. Before it first says Working, and under an
\* authority that never says Idle, it counts nothing.
Counted(r, e) ==
  /\ r.status = "Starting" \/ authority = "ProcessOnly" =>
       r.candidate = "none" /\ ~r.idle_strong
  /\ r.status = "Working" =>
       /\ r.idle_strong => e >= IdleConfirmations
       /\ r.candidate # "none" => r.idle_confirms <= e

\* The step from r to after, with the evidence e at its end.
Debounced(r, after, e) ==
  /\ Counted(after, e)
  /\ r.status = "Working" /\ after.status = "Idle" =>
       e >= IdleConfirmations \/ r.candidate = "ripe"

\* What the candidacy of r and of q have in common: everything.
Alike(r, q) ==
  /\ q.candidate = r.candidate /\ q.idle_confirms = r.idle_confirms
  /\ q.idle_strong = r.idle_strong

\* r has no candidacy.
Fresh(r) == r.candidate = "none" /\ ~r.idle_strong

\* Seen keeps the candidacy; CancelIdleCandidacy, GoWorking and CommitIdle end
\* it.
LEMMA Candidacies ==
  ASSUME NEW r \in ReducerType, NEW clear \in BOOLEAN
  PROVE  /\ Alike(r, Seen(r))
         /\ Fresh(CancelIdleCandidacy(r)) /\ Fresh(GoWorking(r, clear)) /\ Fresh(CommitIdle(r))
  <1>1. /\ Seen(r) \in ReducerType /\ Alike(r, Seen(r))
    BY Steps DEF Seen, ReducerType, Alike
  <1>2. ASSUME NEW q \in ReducerType PROVE Fresh(CancelIdleCandidacy(q))
    BY DEF CancelIdleCandidacy, ReducerType, Fresh
  <1> DEFINE cancelled == CancelIdleCandidacy(Seen(r))
  <1>3. cancelled \in ReducerType /\ Fresh(cancelled)
    BY <1>1, <1>2, Steps
  <1>4. /\ GoWorking(r, clear) = [cancelled EXCEPT
             !.status = "Working", !.blocker = cancelled.blocker /\ ~clear,
             !.misses = IF clear THEN 0 ELSE cancelled.misses]
        /\ CommitIdle(r) = [cancelled EXCEPT !.status = "Idle"]
    BY <1>3 DEF GoWorking, CommitIdle
  <1>5. Fresh(GoWorking(r, clear)) /\ Fresh(CommitIdle(r))
    <2> HIDE DEF cancelled
    <2>1. Fresh(GoWorking(r, clear))
      BY <1>3, <1>4 DEF Fresh, ReducerType
    <2>2. Fresh(CommitIdle(r))
      BY <1>3, <1>4 DEF Fresh, ReducerType
    <2> QED
      BY <2>1, <2>2
  <1> QED
    BY <1>1, <1>2, <1>5

\* Without a candidacy there is nothing to account for.
LEMMA FreshIsCounted ==
  ASSUME NEW r, NEW e, Fresh(r)
  PROVE  Counted(r, e)
  BY DEF Fresh, Counted

\* A candidacy outlives a step that finds no sign of work.
LEMMA AlikeIsDebounced ==
  ASSUME NEW r, Sound(r), NEW e \in Nat, Counted(r, e), NEW q, Alike(r, q),
         NEW f \in Nat, q.status = "Working" => f >= e,
         \/ q.status = r.status
         \/ q.status \notin {"Working", "Starting"} /\ r.status # "Working"
  PROVE  Debounced(r, q, f)
  <1>1. r.idle_confirms \in Nat
    BY StatusAssumption DEF Sound, ReducerType
  <1>2. IdleConfirmations \in Nat
    BY StatusAssumption
  <1>3. r.status = "Working" /\ q.status = "Idle" => FALSE
    OBVIOUS
  <1>4. CASE q.status = "Working"
    <2>1. r.status = "Working" /\ f >= e
      BY <1>4
    <2> QED
      BY <1>1, <1>2, <1>4, <2>1 DEF Counted, Alike, Debounced
  <1>5. CASE q.status # "Working"
    BY <1>3, <1>5 DEF Counted, Alike, Debounced
  <1> QED
    BY <1>4, <1>5

\* An idle frame of a working session counts, or commits.
LEMMA ConfirmDebounces ==
  ASSUME NEW r, Sound(r), r.status = "Working", authority # "ProcessOnly",
         NEW e \in Nat, Counted(r, e), NEW f \in Nat, f >= e, f >= e + 1 \/ f >= IdleConfirmations
  PROVE  Debounced(r, ConfirmIdle(r), f)
  <1> DEFINE confirms == IF r.candidate = "none" THEN 1 ELSE r.idle_confirms + 1
             confirmed == [r EXCEPT !.candidate = Opened(@), !.idle_confirms = confirms]
             required == IF r.idle_strong THEN 1 ELSE IdleConfirmations
  <1>1. /\ r \in ReducerType /\ r.idle_confirms \in 0..(IdleConfirmations - 1)
        /\ r.candidate \in {"none", "open", "ripe"}
    BY DEF Sound, ReducerType
  <1>2. /\ confirms \in Nat /\ confirmed.idle_confirms = confirms
        /\ confirmed.candidate = Opened(r.candidate) /\ confirmed.idle_strong = r.idle_strong
        /\ confirmed.status = "Working"
    BY <1>1, StatusAssumption DEF ReducerType
  <1>3. /\ Opened(r.candidate) = "ripe" => r.candidate = "ripe"
        /\ Opened(r.candidate) # "none"
    BY <1>1 DEF Opened
  <1>4. /\ r.candidate # "none" => r.idle_confirms <= e
        /\ r.idle_strong => e >= IdleConfirmations
    BY DEF Counted
  <1>5. confirms <= e + 1
    BY <1>1, <1>4, StatusAssumption
  <1> HIDE DEF confirms
  <1>6. CASE confirms >= required \/ Opened(r.candidate) = "ripe"
    <2>1. ConfirmIdle(r) = CommitIdle(confirmed)
      BY <1>2, <1>6 DEF ConfirmIdle, confirms
    <2>2. Fresh(CommitIdle(confirmed))
      BY <1>1 DEF CommitIdle, CancelIdleCandidacy, Seen, ReducerType, Fresh
    <2>3. f >= IdleConfirmations \/ r.candidate = "ripe"
      <3>1. CASE confirms >= required /\ ~r.idle_strong
        BY <1>2, <1>5, <3>1, StatusAssumption
      <3>2. CASE r.idle_strong
        BY <1>4, <3>2, StatusAssumption
      <3> QED
        BY <1>3, <1>6, <3>1, <3>2
    <2> QED
      BY ONLY <2>1, <2>2, <2>3, FreshIsCounted DEF Debounced
  <1>7. CASE ~(confirms >= required \/ Opened(r.candidate) = "ripe")
    <2>1. ConfirmIdle(r) = confirmed
      BY <1>2, <1>7 DEF ConfirmIdle, confirms
    <2>2. ~r.idle_strong
      <3>1. confirms >= 1
        BY <1>1 DEF confirms
      <3> QED
        BY <1>7, <3>1
    <2>3. confirms <= f
      BY <1>2, <1>5, <1>7, <2>2, StatusAssumption
    <2> HIDE DEF confirmed
    <2> QED
      BY <1>2, <2>1, <2>2, <2>3 DEF Counted, Debounced
  <1> QED
    BY <1>6, <1>7

\* A frame without a blocker, judged: an idle one counts.
LEMMA FrameDebounces ==
  ASSUME NEW r, Sound(r), authority # "ProcessOnly", NEW screen \in {"Working", "Idle"},
         NEW cleared \in BOOLEAN, NEW e \in Nat, Counted(r, e), NEW f \in Nat,
         screen = "Idle" /\ r.status = "Working" =>
           f >= e /\ (f >= e + 1 \/ f >= IdleConfirmations)
  PROVE  Debounced(r, ApplyNonBlockerScreen(r, screen, cleared), f)
  <1> DEFINE after == ApplyNonBlockerScreen(r, screen, cleared)
  <1> SUFFICES Debounced(r, after, f)
    OBVIOUS
  <1>1. r \in ReducerType
    BY DEF Sound
  <1>2. CASE screen = "Working"
    <2>1. after = GoWorking(r, FALSE)
      BY <1>2 DEF ApplyNonBlockerScreen
    <2>2. Fresh(after) /\ after.status = "Working"
      BY <1>1, <2>1, Candidacies, Steps, FALSE \in BOOLEAN
    <2> HIDE DEF after
    <2> QED
      BY <2>2, FreshIsCounted DEF Debounced
  <1>3. CASE screen = "Idle" /\ r.status = "Working"
    <2>1. after = ConfirmIdle(r)
      BY <1>3, Kinds DEF ApplyNonBlockerScreen
    <2> QED
      BY <1>3, <2>1, ConfirmDebounces
  <1>4. CASE screen = "Idle" /\ r.status # "Working"
    <2>1. after.status \notin {"Working", "Starting"} \/ after = r
      <3>1. ASSUME NEW q \in ReducerType
            PROVE  [q EXCEPT !.status = "Idle"].status = "Idle"
        BY DEF ReducerType
      <3>2. CancelIdleCandidacy(r) \in ReducerType
        BY <1>1, Steps, TRUE \in BOOLEAN
      <3>3. after \in {r, [r EXCEPT !.status = "Idle"],
                       [CancelIdleCandidacy(r) EXCEPT !.status = "Idle"]}
        BY <1>4, Kinds DEF ApplyNonBlockerScreen
      <3> HIDE DEF after
      <3> QED
        BY <1>1, <3>1, <3>2, <3>3
    <2> HIDE DEF after
    <2> QED
      BY <1>4, <2>1 DEF Counted, Debounced
  <1> QED
    BY <1>2, <1>3, <1>4

\* A hook, a notification or a keystroke: an end of turn is evidence enough,
\* and only work and prompts take evidence away.
LEMMA FeedDebounces ==
  ASSUME NEW r, Sound(r), NEW feed \in Feeds, NEW e \in Nat, Counted(r, e), NEW f \in Nat,
         feed = "Stop" /\ r.status = "Working" => f >= e /\ f >= IdleConfirmations,
         feed \in {"Note", "SessionStart"} /\ r.status = "Working" => f >= e
  PROVE  Debounced(r, ReduceFeed(r, feed), f)
  <1> DEFINE seen == Seen(r)
             after == HandleFeed(r, feed)
  <1>1. CASE Absorbed(r) \/ authority = "ProcessOnly"
    <2>1. ReduceFeed(r, feed) = r
      BY <1>1 DEF ReduceFeed
    <2>2. r.status # "Working" \/ Fresh(r)
      BY <1>1 DEF Absorbed, Counted, Fresh
    <2> QED
      BY <2>1, <2>2 DEF Counted, Debounced, Fresh
  <1>2. CASE ~Absorbed(r) /\ authority # "ProcessOnly"
    <2>1. ReduceFeed(r, feed) = after
      BY <1>2 DEF ReduceFeed
    <2> SUFFICES Debounced(r, after, f)
      BY <2>1
    <2>2. /\ r \in ReducerType /\ seen \in ReducerType /\ seen.status = r.status
          /\ Alike(r, seen)
      BY Steps, Candidacies, TRUE \in BOOLEAN DEF Sound
    <2>3. CASE feed = "SessionStart"
      <3>1. after = IF r.status = "Starting" THEN [seen EXCEPT !.status = "Idle"] ELSE seen
        BY <2>3, StatusAssumption DEF HandleFeed, Feeds
      <3>2. [seen EXCEPT !.status = "Idle"].status = "Idle"
        BY <2>2 DEF ReducerType
      <3> HIDE DEF after, seen
      <3>3. CASE r.status = "Starting"
        BY <1>2, <3>1, <3>2, <3>3 DEF Counted, Debounced
      <3>4. CASE r.status # "Starting"
        BY <2>2, <2>3, <3>1, <3>4, AlikeIsDebounced
      <3> QED
        BY <3>3, <3>4
    <2>4. CASE feed = "Work"
      <3>1. after = GoWorking(seen, TRUE)
        BY <2>4, StatusAssumption DEF HandleFeed, Feeds
      <3>2. Fresh(after) /\ after.status = "Working"
        <4> HIDE DEF seen, after
        <4>1. Fresh(GoWorking(seen, TRUE))
          BY <2>2, Candidacies, TRUE \in BOOLEAN
        <4>2. GoWorking(seen, TRUE).status = "Working"
          BY <2>2, Steps, TRUE \in BOOLEAN
        <4> QED BY <3>1, <4>1, <4>2
      <3> HIDE DEF after
      <3> QED
        BY <3>2, FreshIsCounted DEF Debounced
    <2>5. CASE feed \in NeedsInput
      <3>1. after = Ask(seen, feed)
        BY <2>5, StatusAssumption DEF HandleFeed, Feeds
      <3>2. CancelIdleCandidacy(seen) \in ReducerType
        BY <2>2, Steps, TRUE \in BOOLEAN
      <3>3. after.status = feed
        BY <3>1, <3>2 DEF Ask, ReducerType
      <3> HIDE DEF after
      <3> QED
        BY <1>2, <2>5, <3>3, Kinds DEF Counted, Debounced
    <2>6. CASE feed = "Stop"
      <3> DEFINE candidate == [seen EXCEPT !.idle_strong = TRUE, !.candidate = Opened(@)]
      <3>1. after = HandleStrongIdle(seen)
        BY <2>6, StatusAssumption DEF HandleFeed, Feeds
      <3>2. candidate \in ReducerType /\ candidate.status = r.status
            /\ candidate.idle_confirms = r.idle_confirms
            /\ (r.candidate # "none" => candidate.candidate = r.candidate)
        BY <2>2 DEF ReducerType, Opened, Alike
      <3>3. CommitIdle(candidate).status = "Idle"
        BY <3>2, Steps, TRUE \in BOOLEAN
      <3>4. CASE r.status = "Starting"
        <4>1. after = [seen EXCEPT !.status = "Idle"]
          BY <2>2, <3>1, <3>4 DEF HandleStrongIdle
        <4>2. after.status = "Idle"
          BY <2>2, <4>1 DEF ReducerType
        <4> HIDE DEF after
        <4> QED
          BY <1>2, <3>4, <4>2 DEF Counted, Debounced
      <3>5. CASE r.status = "Working"
        <4>1. after \in {candidate, CommitIdle(candidate)}
          BY <2>2, <3>1, <3>5, Kinds DEF HandleStrongIdle
        <4>2. f >= e /\ f >= IdleConfirmations
          BY <2>6, <3>5
        <4>3. r.idle_confirms \in 0..(IdleConfirmations - 1) /\ IdleConfirmations \in Nat
          BY <2>2, StatusAssumption DEF ReducerType
        <4>4. r.idle_confirms <= f
          BY <4>2, <4>3
        <4> HIDE DEF after, candidate
        <4>5. Counted(candidate, f)
          BY <1>2, <3>2, <3>5, <4>2, <4>4 DEF Counted
        <4>6. Counted(CommitIdle(candidate), f)
          BY <3>2, Candidacies, FreshIsCounted, TRUE \in BOOLEAN
        <4> QED
          BY <4>1, <4>2, <4>5, <4>6 DEF Debounced
      <3>6. CASE r.status \notin {"Starting", "Working"}
        <4>1. after = seen
          BY <2>2, <3>1, <3>6 DEF HandleStrongIdle
        <4> HIDE DEF after, seen
        <4> QED
          BY <2>2, <3>6, <4>1, AlikeIsDebounced
      <3> QED
        BY <3>4, <3>5, <3>6
    <2>7. CASE feed = "Note"
      <3>1. after = seen
        BY <2>7, StatusAssumption DEF HandleFeed, Feeds
      <3> HIDE DEF after, seen
      <3> QED
        BY <2>2, <2>7, <3>1, AlikeIsDebounced
    <2> QED
      BY <2>3, <2>4, <2>5, <2>6, <2>7 DEF Feeds
  <1> QED
    BY <1>1, <1>2

\* An observation of the screen: a fresh idle frame is evidence, a stale or a
\* skipped one takes none away.
LEMMA ScreenDebounces ==
  ASSUME NEW r, Sound(r), NEW screen \in Screens, NEW fresh \in BOOLEAN,
         NEW e \in Nat, Counted(r, e), NEW f \in Nat,
         fresh /\ screen = "Idle" /\ r.status = "Working" =>
           f >= e /\ (f >= e + 1 \/ f >= IdleConfirmations),
         (~fresh \/ screen = "Skip") /\ r.status = "Working" => f >= e
  PROVE  Debounced(r, ReduceScreen(r, screen, fresh), f)
  <1>1. CASE Absorbed(r) \/ authority = "ProcessOnly"
    <2>1. ReduceScreen(r, screen, fresh) = r
      BY <1>1 DEF ReduceScreen
    <2>2. r.status # "Working" \/ Fresh(r)
      BY <1>1 DEF Absorbed, Counted, Fresh
    <2> QED
      BY <2>1, <2>2 DEF Counted, Debounced, Fresh
  <1>2. CASE ~Absorbed(r) /\ authority # "ProcessOnly"
    <2> DEFINE after == HandleScreen(r, screen, fresh)
               seen == [Seen(r) EXCEPT !.skip = FALSE]
               believed == [seen EXCEPT !.belief = screen]
               skipped == [Seen(r) EXCEPT !.skip = TRUE]
               Same(q) == /\ q \in ReducerType /\ q.status = r.status /\ q.blocker = r.blocker
                          /\ Alike(r, q)
    <2>1. ReduceScreen(r, screen, fresh) = after
      BY <1>2 DEF ReduceScreen
    <2> SUFFICES Debounced(r, after, f)
      BY <2>1
    <2>2. r \in ReducerType /\ Same(Seen(r))
      BY Steps, Candidacies, TRUE \in BOOLEAN DEF Sound
    <2>3. Same(seen) /\ Same(skipped)
      BY <2>2 DEF ReducerType, Alike
    <2>4. Same(believed)
      <3> HIDE DEF seen
      <3> QED BY <2>3 DEF ReducerType, Alike
    <2>5. ASSUME NEW q, Same(q), r.status = "Working" => f >= e
          PROVE  Debounced(r, q, f)
      BY <2>5, AlikeIsDebounced
    <2>6. ASSUME NEW q, Same(q)
          PROVE  Counted(q, e) /\ (Debounced(q, after, f) => Debounced(r, after, f))
      BY <1>2, <2>6 DEF Counted, Debounced, Alike
    <2>7. CASE screen = "Skip" \/ ~fresh
      <3>1. after \in {skipped, seen}
        BY <2>7, Kinds DEF HandleScreen
      <3> HIDE DEF skipped, seen, Same, after
      <3> QED
        BY <2>3, <2>5, <2>7, <3>1
    <2>8. CASE fresh /\ screen \in NeedsInput
      <3> DEFINE blocked == [believed EXCEPT !.blocker = TRUE, !.misses = 0]
      <3>1. after = Ask(blocked, screen)
        BY <2>8, Kinds DEF HandleScreen
      <3>2. 0 \in 0..(BlockerClearScans - 1)
        BY StatusAssumption
      <3>3. blocked \in ReducerType
        <4> HIDE DEF believed
        <4> QED BY <2>4, <3>2 DEF ReducerType
      <3>4. after.status = screen
        <4> HIDE DEF blocked
        <4>1. CancelIdleCandidacy(blocked) \in ReducerType
          BY <3>3, Steps, TRUE \in BOOLEAN
        <4> QED
          BY <3>1, <4>1 DEF Ask, ReducerType
      <3> HIDE DEF after
      <3> QED
        BY <1>2, <2>8, <3>4, Kinds DEF Counted, Debounced
    <2>9. CASE fresh /\ screen \in {"Working", "Idle"} /\ r.blocker
      <3> DEFINE miss == [believed EXCEPT !.misses = @ + 1]
                 released == [believed EXCEPT !.blocker = FALSE, !.misses = 0]
      <3>0. r.status \notin {"Working", "Starting"}
        BY <2>9, Kinds DEF Sound
      <3>1. after = MissBlocker(believed, screen)
        BY <2>9, Kinds DEF HandleScreen
      <3>2. 0 \in 0..(BlockerClearScans - 1)
        BY StatusAssumption
      <3>3. CASE believed.misses + 1 < BlockerClearScans
        <4>1. after = miss
          BY <3>1, <3>3 DEF MissBlocker
        <4>2. miss.status = r.status
          <5> HIDE DEF believed
          <5> QED BY <2>4 DEF ReducerType
        <4> HIDE DEF miss, after
        <4> QED BY <1>2, <3>0, <4>1, <4>2 DEF Counted, Debounced
      <3>4. CASE ~(believed.misses + 1 < BlockerClearScans)
        <4>1. after = ApplyNonBlockerScreen(released, screen, TRUE)
          BY <3>1, <3>4 DEF MissBlocker
        <4>2. released \in ReducerType /\ released.status = r.status /\ ~released.blocker
          <5> HIDE DEF believed
          <5> QED BY <2>4, <3>2 DEF ReducerType
        <4> HIDE DEF released
        <4>3. Sound(released) /\ Counted(released, e)
          BY <1>2, <3>0, <4>2 DEF Sound, Counted
        <4>4. Debounced(released, after, f)
          BY <1>2, <2>9, <3>0, <4>1, <4>2, <4>3, FrameDebounces, TRUE \in BOOLEAN
        <4> HIDE DEF after
        <4> QED
          BY <3>0, <4>4 DEF Debounced
      <3> QED
        BY <3>3, <3>4
    <2>10. CASE fresh /\ screen \in {"Working", "Idle"} /\ ~r.blocker
      <3>1. after = IF HeldByGrace(r, screen) THEN believed
                    ELSE ApplyNonBlockerScreen(believed, screen, FALSE)
        BY <2>10, Kinds DEF HandleScreen
      <3> HIDE DEF believed
      <3>2. CASE HeldByGrace(r, screen)
        <4>1. r.status # "Working" /\ after = believed
          BY <3>1, <3>2 DEF HeldByGrace
        <4> HIDE DEF Same, after
        <4> QED BY <2>4, <2>5, <4>1
      <3>3. CASE ~HeldByGrace(r, screen)
        <4>1. /\ Sound(believed) /\ believed.status = r.status
              /\ Counted(believed, e)
          BY <2>4, <2>6, <2>10 DEF Sound
        <4>2. Debounced(believed, after, f)
          BY <1>2, <2>10, <3>1, <3>3, <4>1, FrameDebounces, FALSE \in BOOLEAN
        <4> HIDE DEF after, Same
        <4> QED
          BY <2>4, <2>6, <4>2
      <3> QED
        BY <3>2, <3>3
    <2> QED
      BY <2>7, <2>8, <2>9, <2>10 DEF Screens
  <1> QED
    BY <1>1, <1>2

\* The tick concludes nothing that the evidence does not bear.
LEMMA TickDebounces ==
  ASSUME NEW r, Sound(r), NEW e \in Nat, Counted(r, e)
  PROVE  Debounced(r, ReduceTick(r), e)
  <1>1. CASE Absorbed(r) \/ authority = "ProcessOnly"
    <2>1. ReduceTick(r) = r
      BY <1>1 DEF ReduceTick
    <2> QED
      BY <2>1 DEF Debounced
  <1>2. CASE ~Absorbed(r) /\ authority # "ProcessOnly"
    <2> DEFINE first == Reconsider(r)
               after == HandleTick(r)
    <2>1. ReduceTick(r) = after
      BY <1>2 DEF ReduceTick
    <2> SUFFICES Debounced(r, after, e)
      BY <2>1
    <2>2. r \in ReducerType
      BY DEF Sound
    <2>3. CASE r.status = "Starting"
      <3>1. first \in {r, GoWorking(r, FALSE), [r EXCEPT !.status = "Idle"]}
        BY DEF Reconsider
      <3>2. Fresh(r) /\ Fresh([r EXCEPT !.status = "Idle"])
        BY <2>2, <2>3 DEF Counted, Fresh, ReducerType
      <3>3. GoWorking(r, FALSE) \in ReducerType /\ Fresh(GoWorking(r, FALSE))
        BY <2>2, Steps, Candidacies, FALSE \in BOOLEAN
      <3>4. [r EXCEPT !.status = "Idle"] \in ReducerType
        BY <2>2 DEF ReducerType, Statuses
      <3> HIDE DEF first
      <3>5. first \in ReducerType /\ Fresh(first)
        BY <2>2, <3>1, <3>2, <3>3, <3>4
      <3>6. after \in {first, [first EXCEPT !.status = "Unknown"]}
        BY <3>5 DEF HandleTick, Fresh, first
      <3>7. Fresh([first EXCEPT !.status = "Unknown"])
        BY <3>5 DEF Fresh, ReducerType
      <3> HIDE DEF after
      <3> QED
        BY <2>3, <3>5, <3>6, <3>7, FreshIsCounted DEF Debounced
    <2>4. CASE r.status # "Starting"
      <3>1. first = r
        BY <2>4 DEF Reconsider
      <3>2. CASE r.status = "Working" /\ r.quiet
        <4>1. after = [r EXCEPT !.status = "Unknown"]
          BY <3>1, <3>2 DEF HandleTick
        <4>2. after.status = "Unknown"
          BY <2>2, <4>1 DEF ReducerType
        <4> HIDE DEF after
        <4> QED
          BY <1>2, <4>2 DEF Counted, Debounced
      <3>3. CASE r.status = "Working" /\ ~r.quiet /\ r.idle_strong /\ r.candidate # "none"
        <4>1. after = CommitIdle(r)
          BY <3>1, <3>3 DEF HandleTick
        <4>2. Fresh(after)
          BY <2>2, <4>1, Candidacies, TRUE \in BOOLEAN
        <4>3. e >= IdleConfirmations
          BY <3>3 DEF Counted
        <4> HIDE DEF after
        <4> QED
          BY <4>2, <4>3, FreshIsCounted DEF Debounced
      <3>4. CASE /\ ~(r.status = "Working" /\ r.quiet)
                 /\ ~(r.status = "Working" /\ r.idle_strong /\ r.candidate # "none")
        <4>1. after = r
          BY <3>1, <3>4 DEF HandleTick
        <4> QED
          BY <4>1 DEF Debounced
      <3> QED
        BY <3>2, <3>3, <3>4
    <2> QED
      BY <2>3, <2>4
  <1> QED
    BY <1>1, <1>2

\* Output alone moves only an agent that is never idle.
LEMMA ActivityKeeps ==
  ASSUME NEW r, Sound(r), NEW e \in Nat, Counted(r, e)
  PROVE  LET active == ReduceActivity(r)
         IN  /\ Counted(active, e) /\ Alike(r, active)
             /\ active.status = r.status \/ authority = "ProcessOnly"
  <1> DEFINE active == ReduceActivity(r)
  <1>1. /\ r \in ReducerType /\ Seen(r) \in ReducerType /\ Seen(r).status = r.status
        /\ Alike(r, Seen(r))
    BY Steps, Candidacies, TRUE \in BOOLEAN DEF Sound
  <1>2. CASE ~Absorbed(r) /\ authority = "ProcessOnly" /\ r.status = "Starting"
    <2>1. active = [Seen(r) EXCEPT !.status = "Working"]
      BY <1>2 DEF ReduceActivity
    <2>2. Alike(r, active)
      BY <1>1, <2>1 DEF Alike, ReducerType
    <2> HIDE DEF active
    <2>3. Fresh(active)
      BY <1>2, <2>2 DEF Counted, Alike, Fresh
    <2> QED
      BY <1>2, <2>2, <2>3, FreshIsCounted DEF active
  <1>3. CASE ~(~Absorbed(r) /\ authority = "ProcessOnly" /\ r.status = "Starting")
    <2>1. active \in {r, Seen(r)}
      BY <1>3 DEF ReduceActivity
    <2>2. Alike(r, active) /\ active.status = r.status
      BY <1>1, <2>1 DEF Alike
    <2> HIDE DEF active
    <2>3. Counted(active, e)
      BY <2>2 DEF Alike, Counted
    <2> QED
      BY <2>2, <2>3 DEF active
  <1> QED
    BY <1>2, <1>3

\* The activity and the observation of one chunk of output.
LEMMA OutputDebounces ==
  ASSUME NEW r, Sound(r), NEW activity \in BOOLEAN, NEW fresh \in BOOLEAN,
         NEW screen \in Screens \cup {None}, screen = None => fresh,
         NEW active, active = IF activity THEN ReduceActivity(r) ELSE r,
         NEW e \in Nat, Counted(r, e), NEW f \in Nat,
         fresh /\ screen = "Idle" /\ r.status = "Working" =>
           f >= e /\ (f >= e + 1 \/ f >= IdleConfirmations),
         (~fresh \/ screen \in {"Skip", None}) /\ r.status = "Working" => f >= e
  PROVE  Debounced(r, IF screen = None THEN active ELSE ReduceScreen(active, screen, fresh), f)
  <1> DEFINE after == IF screen = None THEN active ELSE ReduceScreen(active, screen, fresh)
  <1> SUFFICES Debounced(r, after, f)
    OBVIOUS
  <1>1. /\ Counted(active, e) /\ Alike(r, active) /\ Sound(active)
        /\ active.status = r.status \/ authority = "ProcessOnly"
    BY ActivityKeeps, ActivityFollows DEF Alike, Follows
  <1>2. CASE authority = "ProcessOnly"
    <2>1. after = active
      BY <1>2 DEF ReduceScreen
    <2>2. Fresh(active)
      BY <1>1, <1>2 DEF Counted, Fresh
    <2>3. r.status = "Working" => active.status # "Idle"
      <3>1. active.status = r.status \/ active.status = "Working"
        BY ActivityFollows
      <3> QED
        BY <3>1
    <2> QED
      BY <2>1, <2>2, <2>3, FreshIsCounted DEF Debounced
  <1>3. CASE authority # "ProcessOnly" /\ screen = None
    <2>1. after = active /\ active.status = r.status
      BY <1>1, <1>3
    <2> HIDE DEF after
    <2> QED
      BY <1>1, <1>3, <2>1, AlikeIsDebounced
  <1>4. CASE authority # "ProcessOnly" /\ screen # None
    <2>1. after = ReduceScreen(active, screen, fresh) /\ active.status = r.status
      BY <1>1, <1>4
    <2>2. Debounced(active, after, f)
      BY <1>1, <1>4, <2>1, ScreenDebounces
    <2> HIDE DEF after
    <2> QED
      BY <1>1, <2>1, <2>2 DEF Debounced, Alike
  <1> QED
    BY <1>2, <1>3, <1>4

\* The session's reducer rests on the evidence of its history.
DebounceInv == ReducerInv /\ evidence \in 0..IdleConfirmations /\ Counted(reducer, evidence)

\* The evidence grows by what is added and stays within its bound.
LEMMA EvidenceAdds ==
  ASSUME evidence \in 0..IdleConfirmations, NEW n \in Nat
  PROVE  /\ Add(n) \in 0..IdleConfirmations
         /\ reducer.status = "Working" =>
              Add(n) >= evidence /\ (Add(n) >= evidence + n \/ Add(n) >= IdleConfirmations)
  BY StatusAssumption DEF Add

LEMMA DebounceStep ==
  ASSUME DebounceInv, [Next]_vars
  PROVE  DebounceInv' /\ Debounced(reducer, reducer', evidence')
  <1> DEFINE Rests == evidence' \in 0..IdleConfirmations /\ Debounced(reducer, reducer', evidence')
  <1>0. /\ ReducerInv /\ ReducerInv' /\ Sound(reducer) /\ authority' = authority
        /\ evidence \in 0..IdleConfirmations /\ evidence \in Nat /\ Counted(reducer, evidence)
        /\ 0 \in Nat /\ 1 \in Nat /\ IdleConfirmations \in Nat /\ 0..IdleConfirmations \subseteq Nat
        /\ 0 \in 0..IdleConfirmations
    <2>1. ASSUME NEW t, NEW after, NEW asked, Reduces(t, after, asked)
          PROVE  authority' = authority
      BY <2>1 DEF Reduces, Reduced
    <2>2. ASSUME NEW t \in Threads, ApplyStatus(t) \/ ApplyDetail(t)
          PROVE  authority' = authority
      BY <2>2 DEF ApplyStatus, ApplyDetail, reducerVars
    <2>3. ASSUME \/ GraceExpires \/ CandidateRipens \/ FallsQuiet
                 \/ SeedStatus \/ WatchVersion \/ WatchView \/ UNCHANGED vars
          PROVE  authority' = authority
      BY <2>3 DEF GraceExpires, CandidateRipens, FallsQuiet, SeedStatus, WatchVersion,
                  WatchView, vars, reducerVars
    <2>4. authority' = authority
      BY <2>1, <2>2, <2>3, StepKinds DEF DebounceInv
    <2> QED
      BY <2>4, ReducerStep, StatusAssumption DEF DebounceInv, ReducerInv
  <1> SUFFICES Rests
    BY <1>0 DEF DebounceInv, Debounced, Counted
  <1>1. CASE Feed
    <2>1. PICK t \in Feeders, feed \in Feeds : FeedSignal(t, feed)
      BY <1>1 DEF Feed
    <2>2. /\ reducer' = ReduceFeed(reducer, feed)
          /\ evidence' = CASE feed = "Stop" -> Add(IdleConfirmations)
                           [] feed \in {"Note", "SessionStart"} -> Add(0)
                           [] OTHER -> 0
      BY <2>1 DEF FeedSignal, Reduced
    <2>3. /\ evidence' \in 0..IdleConfirmations
          /\ feed = "Stop" /\ reducer.status = "Working" =>
               evidence' >= evidence /\ evidence' >= IdleConfirmations
          /\ feed \in {"Note", "SessionStart"} /\ reducer.status = "Working" =>
               evidence' >= evidence
      <3>1. CASE feed = "Stop"
        BY <1>0, <2>2, <3>1, EvidenceAdds
      <3>2. CASE feed \in {"Note", "SessionStart"}
        BY <1>0, <2>2, <3>2, EvidenceAdds
      <3>3. CASE feed \notin {"Stop", "Note", "SessionStart"}
        BY <1>0, <2>2, <3>3
      <3> QED
        BY <3>1, <3>2, <3>3
    <2>4. Debounced(reducer, ReduceFeed(reducer, feed), evidence')
      BY <1>0, <2>3, FeedDebounces
    <2> QED
      BY <2>2, <2>3, <2>4
  <1>2. CASE Output
    <2>1. PICK activity \in BOOLEAN, fresh \in BOOLEAN, screen \in Screens \cup {None} :
            PumpOutput(activity, screen, fresh)
      BY <1>2 DEF Output
    <2> DEFINE active == IF activity THEN ReduceActivity(reducer) ELSE reducer
               after == IF screen = None THEN active ELSE ReduceScreen(active, screen, fresh)
    <2>2. /\ reducer' = after
          /\ screen = None => fresh
          /\ evidence' = CASE fresh /\ screen = "Idle" -> Add(1)
                           [] ~fresh \/ screen \in {"Skip", None} -> Add(0)
                           [] OTHER -> 0
      BY <2>1 DEF PumpOutput, Reduced
    <2> HIDE DEF active
    <2>3. /\ evidence' \in 0..IdleConfirmations
          /\ fresh /\ screen = "Idle" /\ reducer.status = "Working" =>
               /\ evidence' >= evidence
               /\ evidence' >= evidence + 1 \/ evidence' >= IdleConfirmations
          /\ (~fresh \/ screen \in {"Skip", None}) /\ reducer.status = "Working" =>
               evidence' >= evidence
      <3>1. CASE fresh /\ screen = "Idle"
        <4>1. evidence' = Add(1) /\ screen \notin {"Skip", None}
          BY <2>2, <3>1, StatusAssumption
        <4> QED
          BY ONLY <1>0, <3>1, <4>1, EvidenceAdds
      <3>2. CASE ~fresh \/ screen \in {"Skip", None}
        <4>1. evidence' = Add(0)
          BY <2>2, <3>2, Kinds, StatusAssumption
        <4>2. ~(fresh /\ screen = "Idle")
          BY <3>2, StatusAssumption
        <4> QED
          BY <1>0, <4>1, <4>2, EvidenceAdds
      <3>3. CASE ~(fresh /\ screen = "Idle") /\ ~(~fresh \/ screen \in {"Skip", None})
        BY <1>0, <2>2, <3>3
      <3> QED
        BY <3>1, <3>2, <3>3
    <2>4. Debounced(reducer, after, evidence')
      BY <1>0, <2>2, <2>3, OutputDebounces DEF active
    <2> HIDE DEF after
    <2> QED
      BY <2>2, <2>3, <2>4
  <1>3. CASE PumpTick
    <2>1. reducer' = ReduceTick(reducer) /\ evidence' = evidence
      BY <1>3 DEF PumpTick, Reduced
    <2> QED
      BY <1>0, <2>1, TickDebounces
  <1>4. CASE PumpExit
    <2>1. evidence' = evidence /\ reducer' = [reducer EXCEPT !.status = "Exited"]
      BY <1>4 DEF PumpExit, Reduced, ReduceExit
    <2>2. reducer'.status = "Exited" /\ Alike(reducer, reducer')
      BY <1>0, <2>1 DEF Sound, ReducerType, Alike
    <2> QED
      BY <1>0, <2>1, <2>2 DEF Counted, Debounced, Alike
  <1>5. CASE GraceExpires \/ CandidateRipens \/ FallsQuiet
    <2>1. /\ evidence' = evidence /\ reducer'.status = reducer.status
          /\ reducer'.idle_confirms = reducer.idle_confirms
          /\ reducer'.idle_strong = reducer.idle_strong
          /\ reducer'.candidate = reducer.candidate \/ reducer.candidate # "none"
      BY <1>0, <1>5 DEF GraceExpires, CandidateRipens, FallsQuiet, Sound, ReducerType
    <2> QED
      BY <1>0, <2>1 DEF Counted, Debounced
  <1>6. CASE \/ \E t \in Threads : Apply(t)
             \/ SeedStatus \/ Watch \/ UNCHANGED vars
    <2>1. reducer' = reducer /\ evidence' = evidence
      BY <1>6 DEF Apply, ApplyStatus, ApplyDetail, SeedStatus, Watch, WatchVersion, WatchView,
                  vars, reducerVars
    <2> QED
      BY <1>0, <2>1 DEF Debounced
  <1> QED
    BY <1>1, <1>2, <1>3, <1>4, <1>5, <1>6 DEF Next

LEMMA DebounceInit == Init => DebounceInv
  <1> SUFFICES ASSUME Init PROVE DebounceInv
    OBVIOUS
  <1>1. PICK origin \in {"spawn", "held", "remote"} : reducer = NewReducer(origin = "remote")
    BY DEF Init
  <1>2. Counted(reducer, evidence)
    BY <1>1 DEF NewReducer, Counted
  <1> QED
    BY <1>2, ReducerInit, StatusAssumption DEF Init, DebounceInv

\* "a single idle-looking frame mid-turn must not flip the session to idle":
\* for any thresholds and whatever hooks, frames, ticks and threads come in
\* between, a working session turns idle on enough idle frames since the last
\* sign of work, on an end of turn, or on a candidacy that lasted.
THEOREM IdleIsEarned == Spec => NoFlicker
  <1>1. DebounceInv /\ [Next]_vars =>
          [reducer.status = "Working" /\ reducer'.status = "Idle" =>
             evidence' >= IdleConfirmations \/ reducer.candidate = "ripe"]_vars
    BY DebounceStep DEF Debounced
  <1> QED
    BY <1>1, DebounceInit, DebounceStep, PTL DEF Spec, NoFlicker

-----------------------------------------------------------------------------
(***************************************************************************)
(* From the reducer to the record.                                         *)
(***************************************************************************)
SharedType ==
  /\ status \in Statuses /\ needs_input \in Details
  /\ outcome \in [Threads -> [change : Statuses \cup {None}, detail : Details]]
  /\ pc \in [Threads -> {"idle", "status", "detail"}]
  /\ changed \in [Threads -> BOOLEAN]
  /\ seeding \in BOOLEAN /\ unpublished \in BOOLEAN /\ crossed \in BOOLEAN
  /\ watcher \in {"poll", "view"}
  /\ record \in [status : Statuses, detail : Details]

\* The status s and the detail d are what a reducer in the status r concluded.
Concluded(r, s, d) ==
  /\ r # "Starting" => s = r
  /\ s \in NeedsInput => d = s
  /\ s \in {"Working", "Idle"} => d = None

\* What t is about to make the session show.
StatusAfter(t) == IF outcome[t].change # None THEN outcome[t].change ELSE status

\* An outcome comes from a reducer that has left Starting. While no two are in
\* flight, the session shows what the reducer concluded or the one thread
\* with an outcome is about to make it so.
FlightInv ==
  /\ \A t \in Threads : pc[t] # "idle" => reducer.status # "Starting"
  /\ ~crossed =>
       /\ \A t, u \in Threads : pc[t] # "idle" /\ pc[u] # "idle" => t = u
       /\ Settled => Concluded(reducer.status, status, needs_input)
       /\ \A t \in Threads :
            /\ pc[t] = "status" => Concluded(reducer.status, StatusAfter(t), DetailAfter(t))
            /\ pc[t] = "detail" => Concluded(reducer.status, status, DetailAfter(t))

\* A record that is still to be copied into its session is one that can be
\* adopted, and unpublished; otherwise the record is up to date, or the
\* version is still to move.
RecordInv ==
  /\ seeding =>
       /\ unpublished /\ watcher = "poll"
       /\ record.detail = IF record.status \in NeedsInput THEN record.status ELSE None
  /\ ~seeding /\ ~unpublished /\ watcher = "poll" =>
       /\ record.detail = needs_input
       /\ record.status = status \/ \E t \in Threads : pc[t] = "detail" /\ changed[t]

RecordedInv == ReducerInv /\ SharedType /\ FlightInv /\ RecordInv

\* What a reduced signal leaves its thread with: the new status if it is new,
\* and the prompt exactly when the reducer asks for one.
LEMMA OutcomeIsOwed ==
  ASSUME ReducerInv, NEW after, NEW asked \in NeedsInput \cup {None},
         Follows(reducer, after, asked),
         NEW result, result = Outcome(reducer, after, asked)
  PROVE  /\ result \in [change : Statuses \cup {None}, detail : Details]
         /\ result # NoOutcome => after.status # "Starting"
         /\ result.change = None => after.status = reducer.status
         /\ result.change # None => result.change = after.status
         /\ result.change \in NeedsInput => result.detail = result.change
         /\ result.detail # None => result.detail = after.status /\ result.detail \in NeedsInput
  <1>1. reducer.status \in Statuses /\ after.status \in Statuses
    BY DEF ReducerInv, Follows, Sound, ReducerType
  <1>2. /\ result.change = IF after.status # reducer.status THEN after.status ELSE None
        /\ result.detail = IF Absorbed(reducer) \/ authority = "ProcessOnly"
                           THEN None ELSE asked
        /\ result = [change |-> result.change, detail |-> result.detail]
    BY DEF Outcome
  <1>3. after.status # None
    BY <1>1, Kinds
  <1>4. result.detail # None => result.detail = after.status /\ result.detail \in NeedsInput
    BY <1>2 DEF Follows
  <1>5. result.change \in NeedsInput => result.detail = result.change
    BY <1>2, Kinds DEF Follows
  <1>6. result \in [change : Statuses \cup {None}, detail : Details]
    BY <1>1, <1>2 DEF Details
  <1>7. result # NoOutcome => result.change # None \/ result.detail # None
    BY <1>2 DEF NoOutcome
  <1> QED
    BY <1>2, <1>3, <1>4, <1>5, <1>6, <1>7, Kinds DEF Follows

\* feed_signal or the pump, between the reducer's unlock and apply.
LEMMA ReducesStep ==
  ASSUME RecordedInv, NEW t, NEW after, NEW asked, Reduces(t, after, asked)
  PROVE  SharedType' /\ FlightInv' /\ RecordInv'
  <1> DEFINE result == Outcome(reducer, after, asked)
  <1>1. /\ t \in Threads /\ pc[t] = "idle" /\ reducer' = after
        /\ outcome' = [outcome EXCEPT ![t] = result]
        /\ pc' = [pc EXCEPT ![t] = IF result = NoOutcome THEN "idle" ELSE "status"]
        /\ changed' = [changed EXCEPT ![t] = FALSE]
        /\ crossed' = \/ result # NoOutcome /\ ~(\A u \in Threads \ {t} : pc[u] = "idle")
                      \/ /\ crossed
                         /\ ~(result.change # None /\ \A u \in Threads \ {t} : pc[u] = "idle")
        /\ UNCHANGED <<status, needs_input, seeding, unpublished, watcher, record>>
    BY DEF Reduces, Reduced, sharedVars, watchVars
  <1>2. /\ result \in [change : Statuses \cup {None}, detail : Details]
        /\ result # NoOutcome => after.status # "Starting"
        /\ result.change = None => after.status = reducer.status
        /\ result.change # None => result.change = after.status
        /\ result.change \in NeedsInput => result.detail = result.change
        /\ result.detail # None => result.detail = after.status /\ result.detail \in NeedsInput
    BY OutcomeIsOwed DEF Reduces, RecordedInv
  <1>3. after.status = "Starting" => reducer.status = "Starting"
    BY DEF Reduces, Follows
  <1> HIDE DEF result
  <1>4. SharedType'
    BY <1>1, <1>2 DEF RecordedInv, SharedType
  <1>5. RecordInv'
    BY <1>1 DEF RecordedInv, SharedType, RecordInv
  <1>6. ASSUME NEW u \in Threads PROVE pc'[u] # "idle" => reducer'.status # "Starting"
    BY <1>1, <1>2, <1>3 DEF RecordedInv, SharedType, FlightInv
  <1>7. CASE result = NoOutcome
    <2>1. result.change = None /\ result.detail = None
      BY <1>7 DEF NoOutcome
    <2>2. pc' = pc /\ crossed' = crossed /\ after.status = reducer.status
      BY <1>1, <1>2, <1>7, <2>1 DEF RecordedInv, SharedType
    <2>3. ASSUME NEW u \in Threads, pc[u] # "idle"
          PROVE  StatusAfter(u)' = StatusAfter(u) /\ DetailAfter(u)' = DetailAfter(u)
      <3>1. u # t /\ outcome'[u] = outcome[u]
        BY <1>1, <2>3 DEF RecordedInv, SharedType
      <3> QED
        BY <1>1, <3>1 DEF StatusAfter, DetailAfter
    <2>4. ASSUME ~crossed', NEW u \in Threads
          PROVE  /\ pc'[u] = "status" =>
                      Concluded(reducer'.status, StatusAfter(u)', DetailAfter(u)')
                 /\ pc'[u] = "detail" =>
                      Concluded(reducer'.status, status', DetailAfter(u)')
      <3>1. /\ pc[u] = "status" => Concluded(reducer.status, StatusAfter(u), DetailAfter(u))
            /\ pc[u] = "detail" => Concluded(reducer.status, status, DetailAfter(u))
        BY <2>2, <2>4 DEF RecordedInv, FlightInv
      <3> QED
        BY <1>1, <2>2, <2>3, <3>1
    <2>5. ~crossed' =>
            /\ \A v, u \in Threads : pc'[v] # "idle" /\ pc'[u] # "idle" => v = u
            /\ Settled' => Concluded(reducer'.status, status', needs_input')
      <3>1. ~crossed =>
              /\ \A v, u \in Threads : pc[v] # "idle" /\ pc[u] # "idle" => v = u
              /\ Settled => Concluded(reducer.status, status, needs_input)
        BY DEF RecordedInv, FlightInv
      <3>2. (Settled' => Settled) /\ (~crossed' => ~crossed)
        BY <2>2 DEF Settled
      <3>3. /\ reducer'.status = reducer.status
            /\ status' = status /\ needs_input' = needs_input
        BY <1>1, <2>2
      <3> QED
        BY <2>2, <3>1, <3>2, <3>3
    <2> QED
      BY <1>4, <1>5, <1>6, <2>4, <2>5 DEF FlightInv
  <1>8. CASE result # NoOutcome
    <2> SUFFICES ASSUME ~crossed'
                 PROVE  /\ \A u \in Threads \ {t} : pc'[u] = "idle"
                        /\ pc'[t] = "status"
                        /\ Concluded(after.status, StatusAfter(t)', DetailAfter(t)')
      BY <1>1, <1>4, <1>5, <1>6 DEF FlightInv, Settled
    <2>1. \A u \in Threads \ {t} : pc[u] = "idle"
      BY <1>1, <1>8
    <2>2. (\A u \in Threads \ {t} : pc'[u] = "idle") /\ pc'[t] = "status"
      BY <1>1, <1>8, <2>1 DEF RecordedInv, SharedType
    <2>3. /\ outcome'[t] = result
          /\ StatusAfter(t)' = IF result.change # None THEN result.change ELSE status
      BY <1>1 DEF RecordedInv, SharedType, StatusAfter
    <2>4. /\ result.detail # None => DetailAfter(t)' = result.detail
          /\ result.detail = None /\ result.change \in {"Working", "Idle"} =>
               DetailAfter(t)' = None
          /\ result.detail = None /\ result.change \notin {"Working", "Idle"} =>
               DetailAfter(t)' = needs_input
      BY <1>1, <2>3 DEF DetailAfter
    <2>5. CASE result.change # None
      BY <1>2, <2>2, <2>3, <2>4, <2>5, Kinds DEF Concluded
    <2>6. CASE result.change = None
      <3>1. result.detail # None
        <4>1. result = [change |-> result.change, detail |-> result.detail]
          BY <1>2
        <4> QED
          BY <1>8, <2>6, <4>1 DEF NoOutcome
      <3>2. Concluded(reducer.status, status, needs_input)
        BY <1>1, <2>1, <2>6 DEF RecordedInv, FlightInv, Settled
      <3> QED
        BY <1>2, <2>2, <2>3, <2>4, <2>6, <3>1, <3>2, Kinds DEF Concluded
    <2> QED
      BY <2>5, <2>6
  <1> QED
    BY <1>7, <1>8

\* Session::apply: the status, then the detail and the version.
LEMMA ApplyStep ==
  ASSUME RecordedInv, NEW t \in Threads, ApplyStatus(t) \/ ApplyDetail(t)
  PROVE  SharedType' /\ FlightInv' /\ RecordInv'
  <1>1. CASE ApplyStatus(t)
    <2>1. /\ pc[t] = "status" /\ pc' = [pc EXCEPT ![t] = "detail"]
          /\ changed' = [changed EXCEPT ![t] =
                           outcome[t].change # None /\ status # outcome[t].change]
          /\ status' = StatusAfter(t)
          /\ UNCHANGED <<reducer, needs_input, outcome, seeding, unpublished, watcher,
                         record, crossed>>
      BY <1>1 DEF ApplyStatus, StatusAfter, reducerVars, watchVars
    <2>2. SharedType'
      <3>1. outcome[t].change \in Statuses \cup {None}
        BY DEF RecordedInv, SharedType
      <3>2. (outcome[t].change # None /\ status # outcome[t].change) \in BOOLEAN
        OBVIOUS
      <3>3. status' \in Statuses
        BY <2>1, <3>1 DEF StatusAfter, RecordedInv, SharedType
      <3> QED
        BY <2>1, <3>2, <3>3 DEF RecordedInv, SharedType
    <2>3. \A u \in Threads : DetailAfter(u)' = DetailAfter(u)
      BY <2>1 DEF DetailAfter
    <2>4. \A u \in Threads : pc'[u] # "idle" => reducer'.status # "Starting"
      BY <2>1 DEF RecordedInv, SharedType, FlightInv
    <2>5. ASSUME ~crossed'
          PROVE  /\ \A u \in Threads \ {t} : pc'[u] = "idle"
                 /\ pc'[t] = "detail"
                 /\ Concluded(reducer'.status, status', DetailAfter(t)')
      <3>1. Concluded(reducer.status, StatusAfter(t), DetailAfter(t))
        BY <2>1, <2>5 DEF RecordedInv, FlightInv
      <3> QED
        BY <2>1, <2>3, <2>5, <3>1 DEF RecordedInv, SharedType, FlightInv
    <2>6. FlightInv'
      BY <2>4, <2>5 DEF FlightInv, Settled
    <2>7. RecordInv'
      <3>1. status' # status => pc'[t] = "detail" /\ changed'[t]
        BY <2>1 DEF StatusAfter, RecordedInv, SharedType
      <3>2. \A u \in Threads : pc[u] = "detail" /\ changed[u] => pc'[u] = "detail" /\ changed'[u]
        BY <2>1 DEF RecordedInv, SharedType
      <3> QED
        BY <2>1, <3>1, <3>2 DEF RecordedInv, RecordInv
    <2> QED
      BY <2>2, <2>6, <2>7
  <1>2. CASE ApplyDetail(t)
    <2>1. /\ pc[t] = "detail" /\ pc' = [pc EXCEPT ![t] = "idle"]
          /\ outcome' = [outcome EXCEPT ![t] = NoOutcome]
          /\ changed' = [changed EXCEPT ![t] = FALSE]
          /\ needs_input' = DetailAfter(t)
          /\ unpublished' = (unpublished
                               \/ (changed[t] \/ outcome[t].detail # None
                                    \/ DetailAfter(t) # needs_input))
          /\ UNCHANGED <<reducer, status, seeding, watcher, record, crossed>>
      BY <1>2 DEF ApplyDetail, reducerVars, watchVars
    <2>2. SharedType'
      <3>1. outcome[t].detail \in Details /\ None \in Details
        BY DEF RecordedInv, SharedType, Details
      <3>2. DetailAfter(t) \in Details
        BY <3>1 DEF DetailAfter, RecordedInv, SharedType
      <3>3. NoOutcome \in [change : Statuses \cup {None}, detail : Details]
        BY <3>1 DEF NoOutcome
      <3>4. unpublished' \in BOOLEAN
        BY <2>1
      <3> QED
        BY <2>1, <3>2, <3>3, <3>4 DEF RecordedInv, SharedType
    <2>3. \A u \in Threads : pc'[u] # "idle" => reducer'.status # "Starting"
      BY <2>1 DEF RecordedInv, SharedType, FlightInv
    <2>4. ASSUME ~crossed'
          PROVE  /\ \A u \in Threads : pc'[u] = "idle"
                 /\ Concluded(reducer'.status, status', needs_input')
      <3>1. Concluded(reducer.status, status, DetailAfter(t))
        BY <2>1, <2>4 DEF RecordedInv, FlightInv
      <3> QED
        BY <2>1, <2>4, <3>1 DEF RecordedInv, SharedType, FlightInv
    <2>5. FlightInv'
      BY <2>3, <2>4 DEF FlightInv, Settled
    <2>6. RecordInv'
      <3>1. seeding => unpublished'
        BY <2>1 DEF RecordedInv, RecordInv
      <3>2. ~unpublished' => ~unpublished /\ ~changed[t] /\ needs_input' = needs_input
        BY <2>1
      <3>3. \A u \in Threads : u # t /\ pc[u] = "detail" /\ changed[u]
                               => pc'[u] = "detail" /\ changed'[u]
        BY <2>1 DEF RecordedInv, SharedType
      <3> QED
        BY <2>1, <3>1, <3>2, <3>3 DEF RecordedInv, RecordInv
    <2> QED
      BY <2>2, <2>5, <2>6
  <1> QED
    BY <1>1, <1>2

\* The clock, adoption and the watcher.
LEMMA OtherStep ==
  ASSUME RecordedInv,
         \/ GraceExpires \/ CandidateRipens \/ FallsQuiet
         \/ SeedStatus \/ WatchVersion \/ WatchView \/ UNCHANGED vars
  PROVE  SharedType' /\ FlightInv' /\ RecordInv'
  <1> DEFINE kept == <<status, needs_input, outcome, pc, changed, crossed>>
  <1>1. ASSUME UNCHANGED kept, reducer'.status = reducer.status
        PROVE  FlightInv'
    <2>1. \A t \in Threads : StatusAfter(t)' = StatusAfter(t) /\ DetailAfter(t)' = DetailAfter(t)
      BY <1>1 DEF StatusAfter, DetailAfter
    <2>2. Settled' = Settled
      BY <1>1 DEF Settled
    <2> QED
      BY <1>1, <2>1, <2>2 DEF RecordedInv, FlightInv
  <1>2. CASE GraceExpires \/ CandidateRipens \/ FallsQuiet \/ UNCHANGED vars
    <2>1. UNCHANGED <<kept, seeding, unpublished, watcher, record>>
      BY <1>2 DEF GraceExpires, CandidateRipens, FallsQuiet, vars, sharedVars, threadVars,
                  watchVars
    <2>2. reducer'.status = reducer.status
      BY <1>2 DEF GraceExpires, CandidateRipens, FallsQuiet, vars, reducerVars,
                  RecordedInv, ReducerInv, Sound, ReducerType
    <2> QED
      BY <1>1, <2>1, <2>2 DEF RecordedInv, SharedType, RecordInv
  <1>3. CASE SeedStatus
    <2>1. /\ seeding /\ seeding' = FALSE /\ status' = record.status /\ needs_input' = record.detail
          /\ crossed' = (crossed \/ reducer.status # "Starting")
          /\ UNCHANGED <<reducer, outcome, pc, changed, unpublished, watcher, record>>
      BY <1>3 DEF SeedStatus, reducerVars, threadVars, watchVars, RecordedInv, SharedType
    <2>2. SharedType'
      <3>1. crossed' \in BOOLEAN
        BY <2>1
      <3>2. record.status \in Statuses /\ record.detail \in Details
        BY DEF RecordedInv, SharedType
      <3> QED
        BY <2>1, <3>1, <3>2 DEF RecordedInv, SharedType
    <2>3. RecordInv'
      BY <2>1 DEF RecordedInv, RecordInv
    <2>4. ASSUME ~crossed'
          PROVE  /\ \A t \in Threads : pc'[t] = "idle"
                 /\ Concluded(reducer'.status, status', needs_input')
      <3>1. reducer.status = "Starting"
        BY <2>1, <2>4
      <3>2. \A t \in Threads : pc[t] = "idle"
        BY <3>1 DEF RecordedInv, FlightInv
      <3>3. record.detail = IF record.status \in NeedsInput THEN record.status ELSE None
        BY <2>1 DEF RecordedInv, RecordInv
      <3> QED
        BY <2>1, <3>1, <3>2, <3>3, Kinds DEF Concluded
    <2>5. \A t \in Threads : pc'[t] # "idle" => reducer'.status # "Starting"
      BY <2>1 DEF RecordedInv, FlightInv
    <2> QED
      BY <2>2, <2>3, <2>4, <2>5 DEF FlightInv, Settled
  <1>4. CASE WatchVersion \/ WatchView
    <2>1. UNCHANGED <<kept, reducer, seeding>>
      BY <1>4 DEF WatchVersion, WatchView, reducerVars, sharedVars, threadVars
    <2>2. FlightInv'
      BY <1>1, <2>1
    <2>3. CASE WatchVersion
      <3>1. ~seeding' /\ unpublished' = FALSE /\ watcher' = "view" /\ record' = record
        BY <2>1, <2>3 DEF WatchVersion
      <3>2. SharedType'
        BY <2>1, <3>1 DEF RecordedInv, SharedType
      <3>3. RecordInv'
        BY <3>1 DEF RecordInv
      <3> QED
        BY <2>2, <3>2, <3>3
    <2>4. CASE WatchView
      BY <2>1, <2>2, <2>4 DEF WatchView, RecordedInv, SharedType, RecordInv
    <2> QED
      BY <1>4, <2>3, <2>4
  <1> QED
    BY <1>2, <1>3, <1>4

LEMMA RecordedInit == Init => RecordedInv
  <1> SUFFICES ASSUME Init PROVE RecordedInv
    OBVIOUS
  <1>1. PICK origin \in {"spawn", "held", "remote"} :
          /\ record \in Seeds \cup {[status |-> "Starting", detail |-> None]}
          /\ reducer = NewReducer(origin = "remote")
          /\ seeding = (origin = "held")
          /\ status = IF origin = "held" THEN "Starting" ELSE record.status
          /\ needs_input = IF origin = "held" THEN None ELSE record.detail
    BY DEF Init
  <1>2. reducer.status = "Starting"
    BY <1>1 DEF NewReducer
  <1>3. /\ record \in [status : Statuses, detail : Details]
        /\ record.detail = IF record.status \in NeedsInput THEN record.status ELSE None
    BY <1>1, StatusAssumption DEF Seeds, Statuses, Details
  <1>4. \A t \in Threads : pc[t] = "idle"
    BY DEF Init
  <1>5. "Starting" \in Statuses /\ None \in Details /\ "Starting" \notin NeedsInput
        /\ NoOutcome \in [change : Statuses \cup {None}, detail : Details]
    BY Kinds DEF Statuses, Details, NoOutcome
  <1>6. SharedType
    <2>1. status \in Statuses /\ needs_input \in Details /\ seeding \in BOOLEAN
      BY <1>1, <1>3, <1>5
    <2> QED
      BY <1>3, <1>5, <2>1 DEF Init, SharedType
  <1>7. Concluded(reducer.status, status, needs_input)
    BY <1>1, <1>2, <1>3, <1>5, Kinds DEF Concluded
  <1>8. FlightInv
    BY <1>4, <1>7 DEF FlightInv
  <1>9. RecordInv
    BY <1>1, <1>3 DEF Init, RecordInv
  <1> QED
    BY <1>6, <1>8, <1>9, ReducerInit DEF RecordedInv

LEMMA RecordedStep ==
  ASSUME RecordedInv, [Next]_vars
  PROVE  RecordedInv'
  <1>1. ReducerInv'
    BY ReducerStep DEF RecordedInv
  <1>2. SharedType' /\ FlightInv' /\ RecordInv'
    <2>1. ASSUME NEW t, NEW after, NEW asked, Reduces(t, after, asked)
          PROVE  SharedType' /\ FlightInv' /\ RecordInv'
      BY <2>1, ReducesStep
    <2>2. ASSUME NEW t \in Threads, ApplyStatus(t) \/ ApplyDetail(t)
          PROVE  SharedType' /\ FlightInv' /\ RecordInv'
      BY <2>2, ApplyStep
    <2> QED
      BY <2>1, <2>2, StepKinds, OtherStep DEF RecordedInv
  <1> QED
    BY <1>1, <1>2 DEF RecordedInv

\* changed_since compares versions and apply works outside the reducer's lock:
\* for any number of threads, once everything is applied and published the
\* record is what the session shows, and that is what the reducer concluded,
\* unless outcomes were in flight together.
THEOREM RecordSettles == Spec => []RecordIsReduced
  <1>1. RecordedInv => RecordIsReduced
    <2> SUFFICES ASSUME RecordedInv, Settled, ~seeding, ~unpublished, watcher = "poll"
                 PROVE  /\ record = [status |-> status, detail |-> needs_input]
                        /\ ~crossed => Concluded(reducer.status, status, needs_input)
      BY DEF RecordIsReduced, Concluded
    <2>1. record.detail = needs_input /\ record.status = status
      BY DEF RecordedInv, RecordInv, Settled
    <2>2. record = [status |-> record.status, detail |-> record.detail]
      BY DEF RecordedInv, SharedType
    <2>3. ~crossed => Concluded(reducer.status, status, needs_input)
      BY DEF RecordedInv, FlightInv
    <2> QED
      BY <2>1, <2>2, <2>3
  <1> QED
    BY <1>1, RecordedInit, RecordedStep, PTL DEF Spec

-----------------------------------------------------------------------------
(***************************************************************************)
(* Types.                                                                  *)
(***************************************************************************)

\* Every variable keeps its type, and the counters of the debounce stay below
\* the thresholds at which ConfirmIdle and MissBlocker spend them.
THEOREM TypeCorrect == Spec => []TypeOK
  <1> DEFINE Rest == /\ exited \in BOOLEAN /\ pump \in {"running", "exiting", "done"}
                     /\ signals \in 0..MaxSignals
             Inv == RecordedInv /\ DebounceInv /\ Rest
  <1>1. Init => Inv
    <2> SUFFICES ASSUME Init PROVE Inv
      OBVIOUS
    <2>1. exited = FALSE /\ pump = "running" /\ signals = 0
      BY DEF Init
    <2>2. 0 \in 0..MaxSignals
      BY StatusAssumption
    <2> QED
      BY <2>1, <2>2, RecordedInit, DebounceInit
  <1>2. Inv /\ [Next]_vars => Inv'
    <2> SUFFICES ASSUME Inv, [Next]_vars PROVE Inv'
      OBVIOUS
    <2>1. RecordedInv' /\ DebounceInv'
      BY RecordedStep, DebounceStep
    <2>2. Rest'
      <3>1. CASE Feed
        BY <3>1, StatusAssumption DEF Feed, FeedSignal, Reduced, sharedVars
      <3>2. CASE Output
        BY <3>2, StatusAssumption DEF Output, PumpOutput, Reduced, sharedVars
      <3>3. CASE PumpTick \/ PumpExit
        BY <3>3 DEF PumpTick, PumpExit, Reduced, sharedVars
      <3>4. ASSUME NEW t \in Threads, Apply(t) PROVE Rest'
        BY <3>4 DEF Apply, ApplyStatus, ApplyDetail, reducerVars
      <3>5. CASE \/ GraceExpires \/ CandidateRipens \/ FallsQuiet \/ SeedStatus \/ Watch
                 \/ UNCHANGED vars
        BY <3>5 DEF GraceExpires, CandidateRipens, FallsQuiet, SeedStatus, Watch,
                    WatchVersion, WatchView, sharedVars, reducerVars, vars
      <3> QED
        BY <3>1, <3>2, <3>3, <3>4, <3>5 DEF Next
    <2> QED
      BY <2>1, <2>2
  <1>3. Inv => TypeOK
    BY DEF RecordedInv, DebounceInv, ReducerInv, Sound, SharedType, TypeOK
  <1> QED
    BY <1>1, <1>2, <1>3, PTL DEF Spec
=============================================================================

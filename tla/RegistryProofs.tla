--------------------------- MODULE RegistryProofs ---------------------------
(***************************************************************************)
(* What the registry owes its sessions, for any number of ids, requests,   *)
(* connections, changes and restarts: no record claims a session that is   *)
(* not there, no resume takes a live session away, no agent that was not   *)
(* given up is lost, and the App's list settles on the truth.              *)
(***************************************************************************)
EXTENDS Registry, FiniteSetTheorems, SequenceTheorems, TLAPS

\* What is known of one id: a session has its record, a local record that has
\* not exited its session, and a running agent that was not given up has its
\* record and its binding.
KeptOf(id) ==
  /\ sessions[id] # None => records[id] # None
  /\ id \notin hosted /\ records[id] # None /\ records[id].status # "Exited" =>
       sessions[id] # None
  /\ id \in running \ abandoned => records[id] # None /\ (id \in hosted => id \in bindings)

\* What was not put off is in the state file, and no hosted record exits there
\* before its session does.
SavedOf(id) ==
  ~dirty /\ records[id] # None =>
    /\ disk[id] # None
    /\ id \in hosted /\ Listed(records, sessions, id) # "Exited" => disk[id].status # "Exited"

\* A closed local record has exited.
ClosedOf(entry) == entry.id \notin hosted => entry.record.status = "Exited"

KeptInv ==
  /\ \A id \in Ids : KeptOf(id) /\ SavedOf(id)
  /\ \A i \in DOMAIN closed : ClosedOf(closed[i])

RegistryInv == TypeOK /\ KeptInv

-----------------------------------------------------------------------------
\* What the App lists, or will list once the outbox is empty.
UpToDate(id) ==
  /\ \A i \in DOMAIN outbox :
       outbox[i].id = id => outbox[i].status = Listed(records, sessions, id)
  /\ (\E i \in DOMAIN outbox : outbox[i].id = id) \/ view[id] = Listed(records, sessions, id)

\* The watcher has published this version, or there is none to publish.
Seen(id) ==
  sessions[id] = None \/ (id \notin respawned /\ sessions[id].version = published[id])

\* An id that is not late is up to date once its version was seen, and versions
\* only grow past the one that was published, unless the session was respawned.
ViewOf(id) ==
  /\ id \notin late /\ Seen(id) => UpToDate(id)
  /\ sessions[id] # None /\ id \notin respawned /\ published[id] # None =>
       published[id] <= sessions[id].version
  /\ id \notin counts.spawned =>
       published[id] = None /\ records[id] = None /\ disk[id] = None

ViewInv ==
  /\ DOMAIN counts = {"spawned", "spawns", "requests", "restarts"}
  /\ \A id \in Ids : ViewOf(id)
  /\ \A i \in DOMAIN closed : closed[i].id \in counts.spawned

-----------------------------------------------------------------------------
(***************************************************************************)
(* The operators of the module.                                            *)
(***************************************************************************)
Records == [Ids -> RecordType \cup {None}]
LiveSessions == [Ids -> SessionType \cup {None}]

\* A record is a record whatever its status.
LEMMA Restated ==
  ASSUME NEW r \in RecordType, NEW s \in Statuses
  PROVE  /\ [r EXCEPT !.status = s] \in RecordType
         /\ [r EXCEPT !.status = s].status = s
  BY DEF RecordType

\* fold_session_status lists what is recorded, with what is live.
LEMMA FoldedFacts ==
  ASSUME NEW recs \in Records, NEW live \in LiveSessions
  PROVE  /\ Folded(recs, live) \in Records
         /\ \A id \in Ids :
              /\ Folded(recs, live)[id] = None <=> recs[id] = None
              /\ live[id] = None => Folded(recs, live)[id] = recs[id]
              /\ recs[id] # None /\ live[id] # None =>
                   Folded(recs, live)[id].status = live[id].status
<1>1. ASSUME NEW id \in Ids, recs[id] # None, live[id] # None
      PROVE  /\ Folded(recs, live)[id] \in RecordType
             /\ Folded(recs, live)[id].status = live[id].status
  <2>1. recs[id] \in RecordType /\ live[id].status \in Statuses
    BY <1>1 DEF Records, LiveSessions, SessionType
  <2>2. Folded(recs, live)[id] = [recs[id] EXCEPT !.status = live[id].status]
    BY <1>1 DEF Folded
  <2> QED BY <2>1, <2>2, Restated
<1>2. ASSUME NEW id \in Ids, ~(recs[id] # None /\ live[id] # None)
      PROVE  Folded(recs, live)[id] = recs[id]
  BY <1>2 DEF Folded
<1>3. \A id \in Ids : Folded(recs, live)[id] = None <=> recs[id] = None
  BY <1>1, <1>2, NoneAssumption
<1>4. Folded(recs, live) \in Records
  <2>1. \A id \in Ids : Folded(recs, live)[id] \in RecordType \cup {None}
    BY <1>1, <1>2 DEF Records
  <2> QED BY <2>1 DEF Folded, Records
<1> QED BY <1>1, <1>2, <1>3, <1>4

LEMMA ListedFacts ==
  ASSUME NEW recs \in Records, NEW live \in LiveSessions, NEW id \in Ids
  PROVE  /\ Listed(recs, live, id) \in Statuses \cup {None}
         /\ recs[id] = None => Listed(recs, live, id) = None
         /\ recs[id] # None /\ live[id] = None => Listed(recs, live, id) = recs[id].status
         /\ recs[id] # None /\ live[id] # None => Listed(recs, live, id) = live[id].status
<1>1. Folded(recs, live)[id] \in RecordType \cup {None}
  BY FoldedFacts DEF Records
<1> QED BY <1>1, FoldedFacts DEF Listed, RecordType

\* Whenever persist writes it, the state file holds records.
LEMMA PersistType ==
  ASSUME TypeOK, NEW recs \in Records, NEW live \in LiveSessions, Persist(recs, live)
  PROVE  disk' \in Records /\ dirty' \in BOOLEAN
<1>1. Folded(recs, live) \in Records /\ disk \in Records
  BY FoldedFacts DEF TypeOK, Records
<1> QED BY <1>1 DEF Persist

LEMMA PublishType ==
  ASSUME TypeOK, NEW recs \in Records, NEW live \in LiveSessions, NEW id \in Ids,
         Publish(id, recs, live)
  PROVE  view' \in [Ids -> Statuses \cup {None}] /\ late' \subseteq Ids
  BY ListedFacts DEF Publish, TypeOK

\* What terminate leaves of a session: the error of a local one is dropped.
LEMMA KillFacts ==
  ASSUME NEW id \in Ids, NEW kill \in KillsIfLive(id)
  PROVE  /\ kill.left => id \in running
         /\ sessions[id] = None => ~kill.ok /\ (id \in running => kill.left)
         /\ ~kill.ok /\ sessions[id] # None => id \in hosted /\ sessions[id].status # "Exited"
<1>1. CASE sessions[id] = None
  <2>1. kill = [ok |-> FALSE, left |-> id \in running]
    BY <1>1 DEF KillsIfLive
  <2>2. ~kill.ok /\ kill.left = (id \in running)
    BY <2>1
  <2> QED BY <1>1, <2>2, Zenon
<1>2. CASE sessions[id] # None
  <2>1. kill \in Kills(id)
    BY <1>2 DEF KillsIfLive
  <2>2. CASE kill = [ok |-> TRUE, left |-> FALSE]
    BY <1>2, <2>2
  <2>3. CASE kill = [ok |-> id \notin hosted \/ sessions[id].status = "Exited",
                     left |-> id \in running]
    <3>1. kill.ok = (id \notin hosted \/ sessions[id].status = "Exited")
      BY <2>3
    <3>2. kill.left = (id \in running)
      BY <2>3
    <3> QED BY <1>2, <3>1, <3>2, Zenon
  <2> QED BY <2>1, <2>2, <2>3 DEF Kills
<1> QED BY <1>1, <1>2

LEMMA AfterType ==
  ASSUME TypeOK, NEW id \in Ids, records[id] # None, NEW kill
  PROVE  /\ After(id, kill) \in RecordType
         /\ kill.ok => After(id, kill).status = "Exited"
         /\ ~kill.ok => After(id, kill) = records[id]
<1>1. records[id] \in RecordType
  BY DEF TypeOK
<1>2. "Exited" \in Statuses
  BY DEF Statuses
<1> QED BY <1>1, <1>2, Restated DEF After

LEMMA Element == ASSUME NEW S, NEW s \in Seq(S), NEW i \in DOMAIN s PROVE s[i] \in S
  OBVIOUS

LEMMA LargerSeq == ASSUME NEW S, NEW T, S \subseteq T, NEW s \in Seq(S) PROVE s \in Seq(T)
<1>1. Len(s) \in Nat /\ s \in [1..Len(s) -> T]
  BY LenProperties
<1> QED BY <1>1

\* What is left under the top of a stack.
LEMMA FrontFacts ==
  ASSUME NEW S, NEW s \in Seq(S), s # <<>>
  PROVE  /\ Front(s) \in Seq(S)
         /\ \A i \in DOMAIN Front(s) : i \in DOMAIN s /\ Front(s)[i] = s[i]
<1> DEFINE n == Len(s) - 1
<1>1. n \in Nat /\ DOMAIN s = 1..(n + 1)
  OBVIOUS
<1>2. \A i \in 1..n : s[i] \in S
  BY <1>1, Element
<1>3. /\ SubSeq(s, 1, n) \in Seq(S) /\ Len(SubSeq(s, 1, n)) = n
      /\ \A i \in 1..n : SubSeq(s, 1, n)[i] = s[i]
  BY <1>1, <1>2, SubSeqProperties
<1> QED BY <1>1, <1>3 DEF Front

\* SetToSeq lists a finite set.
LEMMA SetToSeqFacts ==
  ASSUME NEW S, IsFiniteSet(S)
  PROVE  /\ SetToSeq(S) \in Seq(S)
         /\ \A x \in S : \E i \in DOMAIN SetToSeq(S) : SetToSeq(S)[i] = x
<1> DEFINE n == Cardinality(S)
<1>1. n \in Nat /\ ExistsBijection(1..n, S)
  BY FS_CardinalityType
<1>2. \E f \in [1..n -> S] : IsInjective(f)
  BY <1>1 DEF ExistsBijection, Bijection, Injection, IsInjective
<1>3. SetToSeq(S) \in [1..n -> S] /\ IsInjective(SetToSeq(S))
  BY <1>2 DEF SetToSeq
<1>4. SetToSeq(S) \in Injection(1..n, S)
  BY <1>3 DEF Injection
<1>5. Cardinality(1..n) = n
  BY <1>1, FS_Interval
<1>6. SetToSeq(S) \in Surjection(1..n, S)
  BY <1>4, <1>5, FS_Injection
<1> QED BY <1>1, <1>3, <1>6 DEF Surjection

-----------------------------------------------------------------------------
(***************************************************************************)
(* Every variable stays in its type.                                       *)
(***************************************************************************)

\* The part of a control method that every one of them has.
LEMMA SavedAndPublished ==
  ASSUME TypeOK, records' \in Records, sessions' \in LiveSessions, NEW id \in Ids,
         Persist(records', sessions') \/ UNCHANGED diskVars,
         Publish(id, records', sessions') \/ Silently(id)
  PROVE  /\ disk' \in Records /\ dirty' \in BOOLEAN
         /\ view' \in [Ids -> Statuses \cup {None}] /\ late' \subseteq Ids
<1>1. disk' \in Records /\ dirty' \in BOOLEAN
  <2>1. CASE UNCHANGED diskVars
    BY <2>1 DEF diskVars, TypeOK, Records
  <2> QED BY <2>1, PersistType
<1>2. view' \in [Ids -> Statuses \cup {None}] /\ late' \subseteq Ids
  <2>1. CASE Silently(id)
    BY <2>1 DEF Silently, TypeOK
  <2> QED BY <2>1, PublishType
<1> QED BY <1>1, <1>2

-----------------------------------------------------------------------------
(***************************************************************************)
(* Records, sessions and processes.                                        *)
(***************************************************************************)

\* persist: what is saved at once is what is listed.
LEMMA SavedNow ==
  ASSUME records' \in Records, sessions' \in LiveSessions, Persist(records', sessions'),
         NEW id \in Ids
  PROVE  SavedOf(id)'
<1> SUFFICES ASSUME ~dirty', records'[id] # None
             PROVE  /\ disk'[id] # None
                    /\ Listed(records', sessions', id) = disk'[id].status
  BY DEF SavedOf
<1>1. disk' = Folded(records', sessions')
  BY DEF Persist
<1>2. disk'[id] # None
  BY <1>1, FoldedFacts
<1>3. Listed(records', sessions', id) = disk'[id].status
  BY <1>1 DEF Listed
<1> QED BY <1>2, <1>3

\* What was not saved may exit, and must not come into being.
LEMMA SavedStill ==
  ASSUME NEW id \in Ids, SavedOf(id), UNCHANGED diskVars, hosted' = hosted,
         records'[id] # None => records[id] # None,
         records'[id] # None /\ Listed(records', sessions', id) # "Exited" =>
           Listed(records, sessions, id) # "Exited"
  PROVE  SavedOf(id)'
  BY DEF SavedOf, diskVars

LEMMA ListedOfSame ==
  ASSUME NEW id \in Ids, NEW recs, NEW live, NEW recs2, NEW live2,
         recs2[id] = recs[id], live2[id] = live[id]
  PROVE  Listed(recs2, live2, id) = Listed(recs, live, id)
  BY DEF Listed, Folded

\* A step about one id keeps what is known of the others.
LEMMA OneChanged ==
  ASSUME KeptInv, records' \in Records, sessions' \in LiveSessions,
         closed \in Seq([id : Ids, record : RecordType]),
         NEW id \in Ids, KeptOf(id)', hosted' = hosted,
         \A k \in Ids \ {id} :
           /\ sessions'[k] = sessions[k] /\ records'[k] = records[k]
           /\ k \in running' => k \in running
           /\ k \in bindings => k \in bindings'
           /\ k \in abandoned => k \in abandoned',
         Persist(records', sessions') \/ (UNCHANGED diskVars /\ SavedOf(id)'),
         \A i \in DOMAIN closed' :
           (\E j \in DOMAIN closed : closed'[i] = closed[j]) \/ ClosedOf(closed[i])'
  PROVE  KeptInv'
<1>1. ASSUME NEW k \in Ids PROVE KeptOf(k)'
  <2>1. CASE k # id
    BY <2>1 DEF KeptInv, KeptOf
  <2> QED BY <2>1
<1>2. ASSUME NEW k \in Ids PROVE SavedOf(k)'
  <2>1. CASE Persist(records', sessions')
    BY <2>1, SavedNow
  <2>2. CASE UNCHANGED diskVars /\ SavedOf(id)'
    <3>1. CASE k # id
      <4>1. records'[k] = records[k] /\ sessions'[k] = sessions[k] /\ SavedOf(k)
        BY <3>1 DEF KeptInv
      <4>2. Listed(records', sessions', k) = Listed(records, sessions, k)
        BY <4>1, ListedOfSame
      <4> QED BY <2>2, <4>1, <4>2, SavedStill
    <3> QED BY <2>2, <3>1
  <2> QED BY <2>1, <2>2
<1>3. ASSUME NEW i \in DOMAIN closed' PROVE ClosedOf(closed[i])'
  <2>1. CASE \E j \in DOMAIN closed : closed'[i] = closed[j]
    <3>1. PICK j \in DOMAIN closed : closed'[i] = closed[j]
      BY <2>1
    <3>2. ClosedOf(closed[j])
      BY DEF KeptInv
    <3> QED BY <3>1, <3>2 DEF ClosedOf
  <2> QED BY <2>1
<1> QED BY <1>1, <1>2, <1>3 DEF KeptInv

\* A step that leaves the registry and the agents alone.
LEMMA NothingMoves ==
  ASSUME KeptInv,
         UNCHANGED <<hosted, running, bindings, sessions, records, closed, disk, dirty,
                     abandoned>>
  PROVE  KeptInv'
  BY DEF KeptInv, KeptOf, SavedOf, ClosedOf

\* Marked and GivenUp are about one id.
LEMMA MarkedFacts ==
  ASSUME TypeOK, NEW id \in Ids, NEW in
  PROVE  /\ Marked(running, id, in) \subseteq Ids
         /\ id \in Marked(running, id, in) <=> in
         /\ \A k : k # id => (k \in Marked(running, id, in) <=> k \in running)
  BY DEF Marked, TypeOK

LEMMA GivenUpFacts ==
  ASSUME TypeOK, NEW id \in Ids, NEW left
  PROVE  /\ GivenUp(id, left) \subseteq Ids
         /\ left => id \in GivenUp(id, left)
         /\ abandoned \subseteq GivenUp(id, left)
  BY DEF GivenUp, TypeOK

LEMMA SpawnKeeps == ASSUME RegistryInv, NEW id \in Ids, Spawn(id) PROVE RegistryInv'
<1> USE DEF watchVars
<1>1. TypeOK /\ KeptInv /\ records \in Records /\ sessions \in LiveSessions
  BY DEF RegistryInv, TypeOK, Records, LiveSessions
<1>2. /\ records' \in Records /\ records'[id] # None
      /\ \A k \in Ids \ {id} : records'[k] = records[k]
  <2>1. [status |-> "Starting", archived |-> FALSE] \in RecordType
    BY DEF RecordType, Statuses
  <2> QED BY <1>1, <2>1, NoneAssumption DEF Spawn, Records
<1>3. /\ sessions' \in LiveSessions /\ sessions'[id] # None
      /\ \A k \in Ids \ {id} : sessions'[k] = sessions[k]
  BY <1>1, RegistryAssumption, NoneAssumption DEF Spawn, LiveSessions, SessionType, Statuses
<1>4. /\ disk' \in Records /\ dirty' \in BOOLEAN
      /\ view' \in [Ids -> Statuses \cup {None}] /\ late' \subseteq Ids
  BY <1>1, <1>2, <1>3, SavedAndPublished DEF Spawn
<1>5. running' \subseteq Ids /\ bindings' \subseteq hosted
  BY <1>1 DEF Spawn, TypeOK
<1>6. TypeOK'
  BY <1>1, <1>2, <1>3, <1>4, <1>5 DEF Spawn, TypeOK, Records, LiveSessions
<1>7. KeptOf(id)'
  BY <1>1, <1>2, <1>3, <1>5 DEF Spawn, KeptOf, TypeOK
<1>8. KeptInv'
  BY <1>1, <1>2, <1>3, <1>7, OneChanged DEF Spawn, TypeOK
<1> QED BY <1>6, <1>8 DEF RegistryInv

LEMMA SpawnFailsKeeps ==
  ASSUME RegistryInv, NEW id \in Ids, SpawnFails(id) PROVE RegistryInv'
<1>1. TypeOK /\ KeptInv
  BY DEF RegistryInv
<1>2. /\ UNCHANGED <<hosted, bindings, restore, sessions, records, closed, disk, dirty,
                     published, outbox, view, late, resuming, respawned>>
      /\ running' = running \cup {id} /\ abandoned' = abandoned \cup {id}
  BY DEF SpawnFails, storeVars, diskVars, watchVars, viewVars
<1>3. TypeOK'
  BY <1>1, <1>2 DEF TypeOK
<1>4. KeptInv'
  BY <1>1, <1>2 DEF KeptInv, KeptOf, SavedOf, ClosedOf
<1> QED BY <1>3, <1>4 DEF RegistryInv

LEMMA KillKeeps == ASSUME RegistryInv, NEW id \in Ids, Kill(id) PROVE RegistryInv'
<1> USE DEF watchVars
<1>1. /\ TypeOK /\ KeptInv /\ records \in Records /\ sessions \in LiveSessions
      /\ KeptOf(id) /\ SavedOf(id) /\ sessions[id] # None /\ records[id] # None
  BY DEF RegistryInv, TypeOK, Records, LiveSessions, KeptInv, KeptOf, Kill
<1>2. PICK kill \in Kills(id) :
        /\ running' = Marked(running, id, kill.left)
        /\ records' = [records EXCEPT ![id] = After(id, kill)]
        /\ bindings' = IF kill.ok THEN bindings \ {id} ELSE bindings
        /\ abandoned' = GivenUp(id, id \in hosted /\ kill.ok /\ kill.left)
        /\ IF kill.ok THEN Persist(records', sessions') /\ Publish(id, records', sessions')
           ELSE UNCHANGED diskVars /\ Silently(id)
  BY DEF Kill
<1>3. /\ kill.left => id \in running
      /\ ~kill.ok => id \in hosted /\ sessions[id].status # "Exited"
  BY <1>1, KillFacts DEF KillsIfLive
<1>4. /\ After(id, kill) \in RecordType
      /\ kill.ok => After(id, kill).status = "Exited"
      /\ ~kill.ok => After(id, kill) = records[id]
  BY <1>1, AfterType
<1>5. /\ records' \in Records /\ records'[id] = After(id, kill) /\ records'[id] # None
      /\ \A k \in Ids \ {id} : records'[k] = records[k]
  BY <1>1, <1>2, <1>4, NoneAssumption DEF Records
<1>6. /\ sessions' \in LiveSessions /\ sessions'[id] = None
      /\ \A k \in Ids \ {id} : sessions'[k] = sessions[k]
  BY <1>1 DEF Kill, Dropped, LiveSessions
<1>7. /\ disk' \in Records /\ dirty' \in BOOLEAN
      /\ view' \in [Ids -> Statuses \cup {None}] /\ late' \subseteq Ids
  BY <1>1, <1>2, <1>5, <1>6, SavedAndPublished
<1>8. /\ running' \subseteq Ids /\ (id \in running' <=> kill.left)
      /\ \A k \in Ids \ {id} : k \in running' => k \in running
  BY <1>1, <1>2, MarkedFacts
<1>9. /\ abandoned' \subseteq Ids /\ abandoned \subseteq abandoned'
      /\ id \in hosted /\ kill.ok /\ kill.left => id \in abandoned'
  BY <1>1, <1>2, GivenUpFacts
<1>10. UNCHANGED <<hosted, closed>>
  BY DEF Kill
<1>11. TypeOK'
  BY <1>1, <1>2, <1>5, <1>6, <1>7, <1>8, <1>9 DEF Kill, TypeOK, Records, LiveSessions
<1>12. KeptOf(id)'
  BY <1>1, <1>2, <1>3, <1>4, <1>5, <1>6, <1>8, <1>9, <1>10 DEF KeptOf
<1>13. Persist(records', sessions') \/ (UNCHANGED diskVars /\ SavedOf(id)')
  <2>1. CASE kill.ok
    BY <1>2, <2>1
  <2>2. CASE ~kill.ok
    <3>1. Listed(records, sessions, id) # "Exited"
      BY <1>1, <1>3, <2>2, ListedFacts
    <3> QED BY <1>1, <1>2, <1>10, <2>2, <3>1, SavedStill
  <2> QED BY <2>1, <2>2
<1>14. KeptInv'
  <2>1. \A k \in Ids \ {id} : k \in bindings => k \in bindings'
    BY <1>2
  <2>2. closed \in Seq([id : Ids, record : RecordType])
    BY <1>1 DEF TypeOK
  <2> QED BY <1>1, <1>5, <1>6, <1>8, <1>9, <1>10, <1>12, <1>13, <2>1, <2>2, OneChanged
<1> QED BY <1>11, <1>14 DEF RegistryInv

LEMMA SessionRemoveKeeps ==
  ASSUME RegistryInv, NEW id \in Ids, SessionRemove(id) PROVE RegistryInv'
<1> USE DEF watchVars
<1>1. /\ TypeOK /\ KeptInv /\ records \in Records /\ sessions \in LiveSessions
      /\ KeptOf(id) /\ records[id] # None
  BY DEF RegistryInv, TypeOK, Records, LiveSessions, KeptInv, SessionRemove
<1>2. PICK kill \in KillsIfLive(id) :
        /\ running' = Marked(running, id, kill.left)
        /\ closed' = Append(closed, [id |-> id, record |-> After(id, kill)])
        /\ abandoned' = GivenUp(id, kill.left)
  BY DEF SessionRemove
<1>3. ~kill.ok /\ sessions[id] # None => id \in hosted
  BY <1>1, KillFacts
<1>4. /\ After(id, kill) \in RecordType
      /\ kill.ok => After(id, kill).status = "Exited"
      /\ ~kill.ok => After(id, kill) = records[id]
  BY <1>1, AfterType
<1>5. /\ records' \in Records /\ records'[id] = None
      /\ \A k \in Ids \ {id} : records'[k] = records[k]
  BY <1>1 DEF SessionRemove, Dropped, Records
<1>6. /\ sessions' \in LiveSessions /\ sessions'[id] = None
      /\ \A k \in Ids \ {id} : sessions'[k] = sessions[k]
  BY <1>1 DEF SessionRemove, Dropped, LiveSessions
<1>7. /\ disk' \in Records /\ dirty' \in BOOLEAN
      /\ view' \in [Ids -> Statuses \cup {None}] /\ late' \subseteq Ids
  BY <1>1, <1>5, <1>6, SavedAndPublished DEF SessionRemove
<1>8. /\ running' \subseteq Ids /\ (id \in running' <=> kill.left)
      /\ \A k \in Ids \ {id} : k \in running' => k \in running
  BY <1>1, <1>2, MarkedFacts
<1>9. /\ abandoned' \subseteq Ids /\ abandoned \subseteq abandoned'
      /\ kill.left => id \in abandoned'
  BY <1>1, <1>2, GivenUpFacts
<1>10. closed \in Seq([id : Ids, record : RecordType])
  BY <1>1 DEF TypeOK
<1>11. closed' \in Seq([id : Ids, record : RecordType])
  BY <1>2, <1>4, <1>10
<1>12. bindings' = bindings \ {id} /\ hosted' = hosted /\ Persist(records', sessions')
  BY DEF SessionRemove
<1>13. TypeOK'
  BY <1>1, <1>2, <1>5, <1>6, <1>7, <1>8, <1>9, <1>11, <1>12
     DEF SessionRemove, TypeOK, Records, LiveSessions
<1>14. id \notin hosted => After(id, kill).status = "Exited"
  BY <1>1, <1>3, <1>4 DEF KeptOf
<1>15. KeptOf(id)'
  BY <1>5, <1>6, <1>8, <1>9 DEF KeptOf
<1>16. ASSUME NEW i \in DOMAIN closed'
       PROVE  (\E j \in DOMAIN closed : closed'[i] = closed[j]) \/ ClosedOf(closed[i])'
  <2>1. CASE i \in DOMAIN closed
    BY <1>2, <1>10, <2>1
  <2>2. CASE i = Len(closed) + 1
    <3>1. closed'[i].id = id /\ closed'[i].record = After(id, kill)
      BY <1>2, <1>10, <2>2
    <3> QED BY <1>12, <1>14, <3>1 DEF ClosedOf
  <2> QED BY <1>2, <1>10, <2>1, <2>2
<1>17. KeptInv'
  <2>1. \A k \in Ids \ {id} : k \in bindings => k \in bindings'
    BY <1>12
  <2>2. \A i \in DOMAIN closed' :
          (\E j \in DOMAIN closed : closed'[i] = closed[j]) \/ ClosedOf(closed[i])'
    BY <1>16
  <2> QED BY <1>1, <1>5, <1>6, <1>8, <1>9, <1>10, <1>12, <1>15, <2>1, <2>2, OneChanged
<1> QED BY <1>13, <1>17 DEF RegistryInv

LEMMA ArchiveKeeps == ASSUME RegistryInv, NEW id \in Ids, Archive(id) PROVE RegistryInv'
<1> USE DEF watchVars
<1>1. /\ TypeOK /\ KeptInv /\ records \in Records /\ sessions \in LiveSessions
      /\ KeptOf(id) /\ records[id] # None
  BY DEF RegistryInv, TypeOK, Records, LiveSessions, KeptInv, Archive
<1>2. PICK kill \in KillsIfLive(id) : running' = Marked(running, id, kill.left)
  BY DEF Archive
<1>3. kill.left => id \in running
  BY KillFacts
<1>4. /\ records' \in Records /\ records'[id] # None /\ records'[id].status = "Exited"
      /\ \A k \in Ids \ {id} : records'[k] = records[k]
  <2>1. [status |-> "Exited", archived |-> TRUE] \in RecordType
    BY DEF RecordType, Statuses
  <2> QED BY <1>1, <2>1, NoneAssumption DEF Archive, Records
<1>5. /\ sessions' \in LiveSessions /\ sessions'[id] = None
      /\ \A k \in Ids \ {id} : sessions'[k] = sessions[k]
  BY <1>1 DEF Archive, Dropped, LiveSessions
<1>6. /\ disk' \in Records /\ dirty' \in BOOLEAN
      /\ view' \in [Ids -> Statuses \cup {None}] /\ late' \subseteq Ids
  BY <1>1, <1>4, <1>5, SavedAndPublished DEF Archive
<1>7. /\ running' \subseteq Ids /\ (id \in running' <=> kill.left)
      /\ \A k \in Ids \ {id} : k \in running' => k \in running
  BY <1>1, <1>2, MarkedFacts
<1>8. UNCHANGED <<hosted, bindings, abandoned, closed>> /\ Persist(records', sessions')
  BY DEF Archive
<1>9. TypeOK'
  BY <1>1, <1>4, <1>5, <1>6, <1>7, <1>8 DEF Archive, TypeOK, Records, LiveSessions
<1>10. KeptOf(id)'
  BY <1>1, <1>3, <1>4, <1>5, <1>7, <1>8 DEF KeptOf
<1>11. KeptInv'
  <2>1. closed \in Seq([id : Ids, record : RecordType])
    BY <1>1 DEF TypeOK
  <2> QED BY <1>1, <1>4, <1>5, <1>7, <1>8, <1>10, <2>1, OneChanged
<1> QED BY <1>9, <1>11 DEF RegistryInv

LEMMA UnarchiveKeeps == ASSUME RegistryInv, NEW id \in Ids, Unarchive(id) PROVE RegistryInv'
<1> USE DEF watchVars
<1>1. /\ TypeOK /\ KeptInv /\ records \in Records /\ sessions \in LiveSessions
      /\ KeptOf(id) /\ records[id] # None
  BY DEF RegistryInv, TypeOK, Records, LiveSessions, KeptInv, Unarchive
<1>2. /\ records' \in Records /\ records'[id] # None
      /\ records'[id].status = records[id].status
      /\ \A k \in Ids \ {id} : records'[k] = records[k]
  <2>1. records[id] \in RecordType
    BY <1>1 DEF Records
  <2>2. /\ [records[id] EXCEPT !.archived = FALSE] \in RecordType
        /\ [records[id] EXCEPT !.archived = FALSE].status = records[id].status
    BY <2>1 DEF RecordType
  <2>3. records' = [records EXCEPT ![id] = [records[id] EXCEPT !.archived = FALSE]]
    BY DEF Unarchive
  <2> QED BY <1>1, <2>2, <2>3, NoneAssumption DEF Records
<1>3. UNCHANGED <<hosted, running, bindings, sessions, closed, abandoned>>
  BY DEF Unarchive
<1>4. Persist(records', sessions') /\ Publish(id, records', sessions')
  BY <1>3 DEF Unarchive
<1>5. /\ disk' \in Records /\ dirty' \in BOOLEAN
      /\ view' \in [Ids -> Statuses \cup {None}] /\ late' \subseteq Ids
  BY <1>1, <1>2, <1>3, <1>4, SavedAndPublished
<1>6. TypeOK'
  BY <1>1, <1>2, <1>3, <1>5 DEF Unarchive, TypeOK, Records, LiveSessions
<1>7. KeptOf(id)'
  BY <1>1, <1>2, <1>3 DEF KeptOf
<1>8. KeptInv'
  <2>1. closed \in Seq([id : Ids, record : RecordType])
    BY <1>1 DEF TypeOK
  <2> QED BY <1>1, <1>2, <1>3, <1>4, <1>7, <2>1, OneChanged
<1> QED BY <1>6, <1>8 DEF RegistryInv

LEMMA ReopenKeeps == ASSUME RegistryInv, Reopen PROVE RegistryInv'
<1> USE DEF watchVars
<1>1. /\ TypeOK /\ KeptInv /\ records \in Records /\ sessions \in LiveSessions
      /\ closed \in Seq([id : Ids, record : RecordType]) /\ closed # <<>>
  BY DEF RegistryInv, TypeOK, Records, LiveSessions, Reopen
<1>2. /\ Last(closed) \in [id : Ids, record : RecordType] /\ ClosedOf(Last(closed))
      /\ Front(closed) \in Seq([id : Ids, record : RecordType])
      /\ \A i \in DOMAIN Front(closed) : i \in DOMAIN closed /\ Front(closed)[i] = closed[i]
  <2>1. Len(closed) \in DOMAIN closed /\ Last(closed) = closed[Len(closed)]
    BY <1>1 DEF Last
  <2>2. Last(closed) \in [id : Ids, record : RecordType] /\ ClosedOf(Last(closed))
    BY <1>1, <2>1, Element DEF KeptInv
  <2> QED BY <1>1, <2>2, FrontFacts
<1>3. PICK id \in Ids : id = Last(closed).id
  BY <1>2
<1>4. Last(closed).record \in RecordType
  BY <1>2
<1>5. KeptOf(id)
  BY <1>1 DEF KeptInv
<1>6. /\ records' \in Records /\ records'[id] = Last(closed).record /\ records'[id] # None
      /\ \A k \in Ids \ {id} : records'[k] = records[k]
  BY <1>1, <1>3, <1>4, NoneAssumption DEF Reopen, Records
<1>7. UNCHANGED <<hosted, running, bindings, sessions, abandoned>> /\ closed' = Front(closed)
  BY DEF Reopen
<1>8. Persist(records', sessions') /\ Publish(id, records', sessions')
  BY <1>3, <1>7 DEF Reopen
<1>9. /\ disk' \in Records /\ dirty' \in BOOLEAN
      /\ view' \in [Ids -> Statuses \cup {None}] /\ late' \subseteq Ids
  BY <1>1, <1>6, <1>7, <1>8, SavedAndPublished
<1>10. TypeOK'
  BY <1>1, <1>2, <1>6, <1>7, <1>9 DEF Reopen, TypeOK, Records, LiveSessions
<1>11. KeptOf(id)'
  BY <1>2, <1>3, <1>5, <1>6, <1>7 DEF KeptOf, ClosedOf
<1>12. KeptInv'
  BY <1>1, <1>2, <1>6, <1>7, <1>8, <1>11, OneChanged
<1> QED BY <1>10, <1>12 DEF RegistryInv

LEMMA RestoreType ==
  ASSUME TypeOK, NEW id \in Ids
  PROVE  Superseded(id) \in [pc : {"due", "loaded", "done"}, found : SUBSET hosted]
<1>1. restore \in [pc : {"due", "loaded", "done"}, found : SUBSET hosted]
  BY DEF TypeOK
<1>2. restore.found \ {id} \in SUBSET hosted
  BY <1>1
<1> QED BY <1>1, <1>2 DEF Superseded

LEMMA RespawnKeeps ==
  ASSUME RegistryInv, NEW id \in Ids, records[id] # None, Respawn(id),
         resuming' \in [Resumers -> Ids \cup {None}]
  PROVE  RegistryInv'
<1> USE DEF watchVars
<1>1. /\ TypeOK /\ KeptInv /\ records \in Records /\ sessions \in LiveSessions /\ KeptOf(id)
  BY DEF RegistryInv, TypeOK, Records, LiveSessions, KeptInv
<1>2. /\ records' \in Records /\ records'[id] # None
      /\ \A k \in Ids \ {id} : records'[k] = records[k]
  <2>1. [records[id] EXCEPT !.status = "Starting"] \in RecordType
    <3>1. records[id] \in RecordType /\ "Starting" \in Statuses
      BY <1>1 DEF Records, Statuses
    <3> QED BY <3>1, Restated
  <2>2. records' = [records EXCEPT ![id] = [records[id] EXCEPT !.status = "Starting"]]
    BY DEF Respawn
  <2> QED BY <1>1, <2>1, <2>2, NoneAssumption DEF Records
<1>3. /\ sessions' \in LiveSessions /\ sessions'[id] # None
      /\ \A k \in Ids \ {id} : sessions'[k] = sessions[k]
  BY <1>1, RegistryAssumption, NoneAssumption DEF Respawn, LiveSessions, SessionType, Statuses
<1>4. Persist(records', sessions') /\ Publish(id, records', sessions')
  BY DEF Respawn
<1>5. /\ disk' \in Records /\ dirty' \in BOOLEAN
      /\ view' \in [Ids -> Statuses \cup {None}] /\ late' \subseteq Ids
  BY <1>1, <1>2, <1>3, <1>4, SavedAndPublished
<1>6. /\ UNCHANGED <<hosted, closed>>
      /\ running' = running \cup {id} /\ abandoned' = abandoned \ {id}
  BY DEF Respawn
<1>7. /\ bindings' \subseteq hosted /\ (id \in hosted => id \in bindings')
      /\ \A k \in Ids : k \in bindings => k \in bindings'
  BY <1>1 DEF Respawn, TypeOK
<1>8. restore' \in [pc : {"due", "loaded", "done"}, found : SUBSET hosted]
  BY <1>1, RestoreType DEF Respawn
<1>9. respawned' \subseteq Ids
  BY <1>1 DEF Respawn, TypeOK
<1>10. UNCHANGED <<published, outbox>>
  BY DEF Respawn
<1>11. TypeOK'
  BY <1>1, <1>2, <1>3, <1>5, <1>6, <1>7, <1>8, <1>9, <1>10 DEF TypeOK, Records, LiveSessions
<1>12. KeptOf(id)'
  BY <1>2, <1>3, <1>6, <1>7 DEF KeptOf
<1>13. KeptInv'
  <2>1. closed \in Seq([id : Ids, record : RecordType])
    BY <1>1 DEF TypeOK
  <2> QED BY <1>1, <1>2, <1>3, <1>4, <1>6, <1>7, <1>12, <2>1, OneChanged
<1> QED BY <1>11, <1>13 DEF RegistryInv

LEMMA RespawnFailsKeeps ==
  ASSUME RegistryInv, NEW id \in Ids, records[id] # None, RespawnFails(id),
         resuming' \in [Resumers -> Ids \cup {None}]
  PROVE  RegistryInv'
<1> USE DEF watchVars
<1>1. /\ TypeOK /\ KeptInv /\ records \in Records /\ sessions \in LiveSessions
      /\ KeptOf(id) /\ SavedOf(id)
  BY DEF RegistryInv, TypeOK, Records, LiveSessions, KeptInv
<1>2. PICK kill \in KillsIfLive(id), started \in BOOLEAN :
        /\ records' = [records EXCEPT ![id] = After(id, kill)]
        /\ IF started /\ id \in hosted
           THEN /\ bindings' = bindings \ {id} /\ restore' = Superseded(id)
                /\ \E left \in BOOLEAN :
                     running' = Marked(running, id, left) /\ abandoned' = GivenUp(id, left)
           ELSE /\ running' = Marked(running, id, started \/ kill.left)
                /\ UNCHANGED <<bindings, restore, abandoned>>
  BY DEF RespawnFails
<1>3. /\ kill.left => id \in running
      /\ ~kill.ok /\ sessions[id] # None => id \in hosted /\ sessions[id].status # "Exited"
  BY KillFacts
<1>4. /\ After(id, kill) \in RecordType
      /\ kill.ok => After(id, kill).status = "Exited"
      /\ ~kill.ok => After(id, kill) = records[id]
  BY <1>1, AfterType
<1>5. /\ records' \in Records /\ records'[id] = After(id, kill) /\ records'[id] # None
      /\ \A k \in Ids \ {id} : records'[k] = records[k]
  BY <1>1, <1>2, <1>4, NoneAssumption DEF Records
<1>6. /\ sessions' \in LiveSessions /\ sessions'[id] = None
      /\ \A k \in Ids \ {id} : sessions'[k] = sessions[k]
  BY <1>1 DEF RespawnFails, Dropped, LiveSessions
<1>7. UNCHANGED <<hosted, closed, published, outbox, respawned>> /\ UNCHANGED diskVars
      /\ Silently(id)
  BY DEF RespawnFails
<1>8. /\ disk' \in Records /\ dirty' \in BOOLEAN
      /\ view' \in [Ids -> Statuses \cup {None}] /\ late' \subseteq Ids
  BY <1>1, <1>5, <1>6, <1>7, SavedAndPublished
<1>9. /\ running' \subseteq Ids /\ bindings' \subseteq hosted /\ abandoned' \subseteq Ids
      /\ restore' \in [pc : {"due", "loaded", "done"}, found : SUBSET hosted]
      /\ abandoned \subseteq abandoned'
      /\ \A k \in Ids \ {id} :
           (k \in running' => k \in running) /\ (k \in bindings => k \in bindings')
      /\ id \in hosted /\ id \in running' \ abandoned' =>
           id \in bindings' /\ id \in running \ abandoned
  <2>1. CASE started /\ id \in hosted
    <3>1. PICK left \in BOOLEAN :
            running' = Marked(running, id, left) /\ abandoned' = GivenUp(id, left)
      BY <1>2, <2>1
    <3>2. /\ running' \subseteq Ids /\ (id \in running' <=> left)
          /\ \A k \in Ids \ {id} : k \in running' => k \in running
      BY <1>1, <3>1, MarkedFacts
    <3>3. /\ abandoned' \subseteq Ids /\ abandoned \subseteq abandoned'
          /\ left => id \in abandoned'
      BY <1>1, <3>1, GivenUpFacts
    <3>4. bindings' = bindings \ {id} /\ restore' = Superseded(id)
      BY <1>2, <2>1
    <3>5. bindings' \subseteq hosted
      BY <1>1, <3>4 DEF TypeOK
    <3> QED BY <1>1, <3>2, <3>3, <3>4, <3>5, RestoreType
  <2>2. CASE ~(started /\ id \in hosted)
    <3>1. /\ running' = Marked(running, id, started \/ kill.left)
          /\ UNCHANGED <<bindings, restore, abandoned>>
      BY <1>2, <2>2
    <3>2. /\ running' \subseteq Ids /\ (id \in running' <=> started \/ kill.left)
          /\ \A k \in Ids \ {id} : k \in running' => k \in running
      BY <1>1, <3>1, MarkedFacts
    <3>3. id \in hosted /\ id \in running' => id \in running
      BY <1>3, <2>2, <3>2
    <3> QED BY <1>1, <3>1, <3>2, <3>3 DEF TypeOK, KeptOf
  <2> QED BY <2>1, <2>2
<1>10. TypeOK'
  BY <1>1, <1>5, <1>6, <1>7, <1>8, <1>9 DEF TypeOK, Records, LiveSessions
<1>11. id \notin hosted => records'[id].status = "Exited"
  BY <1>1, <1>3, <1>4, <1>5 DEF KeptOf
<1>12. KeptOf(id)'
  BY <1>5, <1>6, <1>7, <1>9, <1>11 DEF KeptOf
<1>13. SavedOf(id)'
  <2>1. ~kill.ok => Listed(records, sessions, id) # "Exited" \/ Listed(records, sessions, id) = records[id].status
    BY <1>1, <1>3, ListedFacts
  <2>2. Listed(records', sessions', id) = records'[id].status
    BY <1>5, <1>6, ListedFacts
  <2>3. Listed(records', sessions', id) # "Exited" => Listed(records, sessions, id) # "Exited"
    BY <1>4, <1>5, <2>1, <2>2
  <2> QED BY <1>1, <1>7, <2>3, SavedStill
<1>14. KeptInv'
  <2>1. closed \in Seq([id : Ids, record : RecordType])
    BY <1>1 DEF TypeOK
  <2> QED BY <1>1, <1>5, <1>6, <1>7, <1>9, <1>12, <1>13, <2>1, OneChanged
<1> QED BY <1>10, <1>14 DEF RegistryInv

LEMMA ResumeKeeps == ASSUME RegistryInv, NEW r \in Resumers, Resume(r) PROVE RegistryInv'
<1> DEFINE id == resuming[r]
<1>1. TypeOK /\ KeptInv /\ id \in Ids
  BY DEF RegistryInv, TypeOK, Resume
<1>2. resuming' \in [Resumers -> Ids \cup {None}]
  BY <1>1 DEF Resume, TypeOK
<1>3. CASE records[id] # None /\ ~Live(id)
  <2>1. Respawn(id) \/ RespawnFails(id)
    BY <1>3 DEF Resume
  <2> HIDE DEF id
  <2> QED BY <1>1, <1>2, <1>3, <2>1, RespawnKeeps, RespawnFailsKeeps
<1>4. CASE ~(records[id] # None /\ ~Live(id))
  <2>1. UNCHANGED <<hosted, running, bindings, restore, sessions, storeVars, diskVars,
                    watchVars, viewVars, respawned, abandoned>>
    BY <1>4 DEF Resume
  <2>2. UNCHANGED <<hosted, running, bindings, restore, sessions, records, closed, disk,
                    dirty, published, outbox, view, late, respawned, abandoned>>
    BY <2>1 DEF storeVars, diskVars, watchVars, viewVars
  <2>3. TypeOK'
    BY <1>1, <1>2, <2>2 DEF TypeOK
  <2> QED BY <1>1, <2>2, <2>3, NothingMoves DEF RegistryInv
<1> QED BY <1>3, <1>4

LEMMA ResumeLookKeeps ==
  ASSUME RegistryInv, NEW r \in Resumers, NEW id \in Ids, ResumeLook(r, id)
  PROVE  RegistryInv'
<1>1. TypeOK /\ KeptInv
  BY DEF RegistryInv
<1>2. UNCHANGED <<hosted, running, bindings, restore, sessions, records, closed, disk, dirty,
                  published, outbox, view, late, respawned, abandoned>>
  BY DEF ResumeLook, storeVars, diskVars, watchVars, viewVars
<1>3. TypeOK'
  BY <1>1, <1>2 DEF TypeOK, ResumeLook
<1> QED BY <1>1, <1>2, <1>3, NothingMoves DEF RegistryInv

LEMMA ProcessDiesKeeps ==
  ASSUME RegistryInv, NEW id \in Ids, ProcessDies(id) PROVE RegistryInv'
<1>1. TypeOK /\ KeptInv
  BY DEF RegistryInv
<1>2. /\ UNCHANGED <<hosted, bindings, restore, sessions, records, closed, disk, dirty,
                     published, outbox, view, late, resuming, respawned>>
      /\ running' = running \ {id} /\ abandoned' = abandoned \ {id}
  BY DEF ProcessDies, storeVars, diskVars, watchVars, viewVars
<1>3. TypeOK'
  BY <1>1, <1>2 DEF TypeOK
<1>4. KeptInv'
  BY <1>1, <1>2 DEF KeptInv, KeptOf, SavedOf, ClosedOf
<1> QED BY <1>3, <1>4 DEF RegistryInv

LEMMA SessionChangesKeeps ==
  ASSUME RegistryInv, NEW id \in Ids, SessionChanges(id) PROVE RegistryInv'
<1>1. /\ TypeOK /\ KeptInv /\ KeptOf(id) /\ SavedOf(id)
      /\ records \in Records /\ sessions \in LiveSessions
      /\ sessions[id] # None /\ sessions[id] \in SessionType /\ sessions[id].status # "Exited"
  BY DEF RegistryInv, KeptInv, TypeOK, SessionChanges, Live, Records, LiveSessions
<1>2. UNCHANGED <<hosted, running, bindings, restore, records, closed, disk, dirty, published,
                  outbox, view, late, resuming, respawned, abandoned>>
  BY DEF SessionChanges, storeVars, diskVars, watchVars, viewVars
<1>3. PICK s \in {"Working", "Exited"} :
        sessions' = [sessions EXCEPT ![id] =
                       [status |-> s, version |-> sessions[id].version + 1]]
  BY DEF SessionChanges
<1>4. [status |-> s, version |-> sessions[id].version + 1] \in SessionType
  BY <1>1, RegistryAssumption DEF SessionChanges, SessionType, Statuses
<1>5. /\ sessions' \in LiveSessions /\ sessions'[id] # None
      /\ \A k \in Ids \ {id} : sessions'[k] = sessions[k]
  BY <1>1, <1>3, <1>4, NoneAssumption DEF LiveSessions
<1>6. TypeOK'
  BY <1>1, <1>2, <1>5 DEF TypeOK, LiveSessions
<1>7. KeptOf(id)'
  BY <1>1, <1>2, <1>5 DEF KeptOf
<1>8. SavedOf(id)'
  <2>1. Listed(records, sessions, id) # "Exited"
    BY <1>1, ListedFacts DEF KeptOf
  <2> QED BY <1>1, <1>2, <2>1, SavedStill DEF diskVars
<1>9. KeptInv'
  <2>1. closed \in Seq([id : Ids, record : RecordType])
    BY <1>1 DEF TypeOK
  <2>2. UNCHANGED diskVars /\ records' \in Records
    BY <1>1, <1>2 DEF diskVars
  <2> QED BY <1>1, <1>2, <1>5, <1>7, <1>8, <2>1, <2>2, OneChanged
<1> QED BY <1>6, <1>9 DEF RegistryInv

\* What the watcher clones is a sequence of changed ids with their statuses.
Clones == {[id |-> k, status |-> sessions[k].status] : k \in Changed}

LEMMA ClonesFacts ==
  ASSUME TypeOK
  PROVE  /\ SetToSeq(Clones) \in Seq([id : Ids, status : Statuses])
         /\ \A i \in DOMAIN SetToSeq(Clones) :
              \E k \in Changed :
                SetToSeq(Clones)[i] = [id |-> k, status |-> sessions[k].status]
         /\ \A k \in Changed :
              \E i \in DOMAIN SetToSeq(Clones) :
                SetToSeq(Clones)[i] = [id |-> k, status |-> sessions[k].status]
<1> DEFINE f == [k \in Changed |-> [id |-> k, status |-> sessions[k].status]]
<1>1. IsFiniteSet(Changed)
  BY RegistryAssumption, FS_Subset DEF Changed
<1>2. f \in Surjection(Changed, Clones)
  BY DEF Surjection, Clones
<1>3. IsFiniteSet(Clones)
  BY <1>1, <1>2, FS_Surjection
<1>4. Clones \subseteq [id : Ids, status : Statuses]
  BY DEF Clones, Changed, TypeOK, SessionType
<1>5. /\ SetToSeq(Clones) \in Seq(Clones)
      /\ \A x \in Clones : \E i \in DOMAIN SetToSeq(Clones) : SetToSeq(Clones)[i] = x
  BY <1>3, SetToSeqFacts
<1>6. \A i \in DOMAIN SetToSeq(Clones) : SetToSeq(Clones)[i] \in Clones
  BY <1>5, Element
<1>7. SetToSeq(Clones) \in Seq([id : Ids, status : Statuses])
  BY <1>4, <1>5, LargerSeq
<1> QED BY <1>5, <1>6, <1>7 DEF Clones

LEMMA PollKeeps == ASSUME RegistryInv, Poll PROVE RegistryInv'
<1>1. TypeOK /\ KeptInv /\ records \in Records /\ sessions \in LiveSessions
  BY DEF RegistryInv, TypeOK, Records, LiveSessions
<1>2. UNCHANGED <<hosted, running, bindings, restore, sessions, closed, disk, dirty, view,
                  resuming, abandoned>>
  BY DEF Poll, diskVars
<1>3. records' = [k \in Ids |-> IF k \in Changed THEN Folded(records, sessions)[k]
                                ELSE records[k]]
  BY DEF Poll
<1>4. /\ records' \in Records
      /\ \A k \in Ids : records'[k] = None <=> records[k] = None
      /\ \A k \in Ids : sessions[k] = None => records'[k] = records[k]
  BY <1>1, <1>3, FoldedFacts DEF Records, Changed
<1>5. published' \in [Ids -> 0..MaxVersion \cup {None}]
  BY <1>1 DEF Poll, TypeOK, SessionType
<1>6. outbox' \in Seq([id : Ids, status : Statuses])
  BY <1>1, ClonesFacts DEF Poll, Clones
<1>7. TypeOK'
  BY <1>1, <1>2, <1>4, <1>5, <1>6 DEF Poll, TypeOK, Records
<1>8. ASSUME NEW k \in Ids PROVE KeptOf(k)' /\ SavedOf(k)'
  <2>1. KeptOf(k) /\ SavedOf(k)
    BY <1>1 DEF KeptInv
  <2>2. KeptOf(k)'
    BY <1>2, <1>4, <2>1 DEF KeptOf
  <2>3. records[k] # None => Listed(records', sessions', k) = Listed(records, sessions, k)
    BY <1>1, <1>2, <1>4, ListedFacts
  <2>4. SavedOf(k)'
    BY <1>2, <1>4, <2>1, <2>3, SavedStill DEF diskVars
  <2> QED BY <2>2, <2>4
<1>9. KeptInv'
  BY <1>1, <1>2, <1>8 DEF KeptInv, ClosedOf
<1> QED BY <1>7, <1>9 DEF RegistryInv

LEMMA WatcherPublishKeeps == ASSUME RegistryInv, WatcherPublish PROVE RegistryInv'
<1>1. TypeOK /\ KeptInv
  BY DEF RegistryInv
<1>2. UNCHANGED <<hosted, running, bindings, restore, sessions, records, closed, disk, dirty,
                  published, late, resuming, respawned, abandoned>>
  BY DEF WatcherPublish, storeVars, diskVars
<1>3. /\ Head(outbox) \in [id : Ids, status : Statuses]
      /\ Tail(outbox) \in Seq([id : Ids, status : Statuses])
  BY <1>1, HeadTailProperties DEF TypeOK, WatcherPublish
<1>4. TypeOK'
  BY <1>1, <1>2, <1>3 DEF TypeOK, WatcherPublish
<1> QED BY <1>1, <1>2, <1>4, NothingMoves DEF RegistryInv

LEMMA FlushKeeps == ASSUME RegistryInv, Flush PROVE RegistryInv'
<1>1. TypeOK /\ KeptInv /\ records \in Records /\ sessions \in LiveSessions
  BY DEF RegistryInv, TypeOK, Records, LiveSessions
<1>2. UNCHANGED <<hosted, running, bindings, restore, sessions, records, closed, published,
                  outbox, view, late, resuming, respawned, abandoned>>
  BY DEF Flush, storeVars, watchVars, viewVars
<1>3. disk' \in Records /\ dirty' = FALSE
  BY <1>1, FoldedFacts DEF Flush
<1>4. TypeOK'
  BY <1>1, <1>2, <1>3 DEF TypeOK, Records
<1>5. Persist(records', sessions')
  BY <1>2 DEF Flush, Persist
<1>6. \A k \in Ids : SavedOf(k)'
  BY <1>1, <1>2, <1>5, SavedNow
<1>7. KeptInv'
  BY <1>1, <1>2, <1>6 DEF KeptInv, KeptOf, ClosedOf
<1> QED BY <1>4, <1>7 DEF RegistryInv

\* A seeded session has not exited.
LEMMA SeededFacts ==
  ASSUME NEW r \in RecordType
  PROVE  /\ Seeded(r) \in SessionType /\ Seeded(r) # None
         /\ Seeded(r).status # "Exited" /\ Seeded(r).version = 0
<1>1. Seeded(r) \in SessionType /\ Seeded(r).status # "Exited" /\ Seeded(r).version = 0
  BY RegistryAssumption DEF Seeded, RecordType, SessionType, Statuses
<1> QED BY <1>1, NoneAssumption

\* A restart: the local records that are not adopted have exited, and an agent
\* without a saved record is given up.
LEMMA RestartKeeps == ASSUME RegistryInv, Restart PROVE RegistryInv'
<1>1. TypeOK /\ KeptInv /\ disk \in Records
  BY DEF RegistryInv, TypeOK, Records
<1>2. PICK adopted \in SUBSET {id \in running \ hosted : disk[id] # None} :
        /\ records' = ReapOrphans(adopted)
        /\ sessions' = [id \in Ids |-> IF id \in adopted THEN Seeded(disk[id]) ELSE None]
        /\ abandoned' = (abandoned \ adopted) \cup {id \in running : disk[id] = None}
  BY DEF Restart
<1>3. /\ UNCHANGED <<hosted, running, bindings>>
      /\ closed' = <<>> /\ outbox' = <<>> /\ late' = {} /\ respawned' = {}
      /\ dirty' = FALSE
      /\ disk' = IF records' = disk THEN disk ELSE Folded(records', sessions')
      /\ restore' = [pc |-> "due", found |-> {}]
      /\ published' = [id \in Ids |-> None] /\ resuming' = [r \in Resumers |-> None]
      /\ view' = [id \in Ids |-> Listed(records', sessions', id)]
  BY DEF Restart
<1>4. ASSUME NEW id \in Ids, disk[id] # None, id \notin hosted \cup adopted
      PROVE  records'[id] \in RecordType /\ records'[id].status = "Exited"
  <2>1. disk[id] \in RecordType /\ "Exited" \in Statuses
    BY <1>1, <1>4 DEF Records, Statuses
  <2>2. records'[id] = [disk[id] EXCEPT !.status = "Exited"]
    BY <1>2, <1>4 DEF ReapOrphans
  <2> QED BY <2>1, <2>2, Restated
<1>5. ASSUME NEW id \in Ids, ~(disk[id] # None /\ id \notin hosted \cup adopted)
      PROVE  records'[id] = disk[id]
  BY <1>2, <1>5 DEF ReapOrphans
<1>6. \A id \in Ids : records'[id] = None <=> disk[id] = None
  BY <1>4, <1>5, NoneAssumption
<1>7. records' \in Records
  <2>1. \A id \in Ids : records'[id] \in RecordType \cup {None}
    BY <1>1, <1>4, <1>5 DEF Records
  <2> QED BY <1>2, <2>1 DEF ReapOrphans, Records
<1>8. /\ sessions' \in LiveSessions
      /\ \A id \in Ids : sessions'[id] # None <=> id \in adopted
  <2>1. \A id \in adopted : disk[id] \in RecordType
    BY <1>1, <1>2 DEF Records, TypeOK
  <2>2. \A id \in adopted : Seeded(disk[id]) \in SessionType /\ Seeded(disk[id]) # None
    BY <2>1, SeededFacts
  <2> QED BY <1>2, <2>2 DEF LiveSessions
<1>9. disk' \in Records /\ \A id \in Ids : disk'[id] = None <=> disk[id] = None
  <2>1. CASE records' = disk
    BY <1>1, <1>3, <2>1
  <2>2. CASE records' # disk
    BY <1>3, <1>6, <1>7, <1>8, <2>2, FoldedFacts
  <2> QED BY <2>1, <2>2
<1>10. TypeOK'
  <2>1. \A id \in Ids : view'[id] \in Statuses \cup {None}
    BY <1>3, <1>7, <1>8, ListedFacts
  <2>2. view' \in [Ids -> Statuses \cup {None}]
    BY <1>3, <2>1
  <2>3. abandoned' \subseteq Ids
    BY <1>1, <1>2 DEF TypeOK
  <2>4. /\ closed' \in Seq([id : Ids, record : RecordType])
        /\ outbox' \in Seq([id : Ids, status : Statuses])
    BY <1>3, EmptySeq
  <2> QED BY <1>1, <1>3, <1>7, <1>8, <1>9, <2>2, <2>3, <2>4 DEF TypeOK, Records, LiveSessions
<1>11. ASSUME NEW id \in Ids PROVE KeptOf(id)'
  <2>1. KeptOf(id)
    BY <1>1 DEF KeptInv
  <2>2. id \in adopted => disk[id] # None /\ id \notin hosted
    BY <1>2
  <2>3. id \notin hosted /\ records'[id] # None /\ records'[id].status # "Exited" =>
          sessions'[id] # None
    BY <1>4, <1>6, <1>8
  <2>4. id \in running \ abandoned' => records'[id] # None /\ (id \in hosted => id \in bindings)
    BY <1>2, <1>6, <2>1, <2>2 DEF KeptOf
  <2> QED BY <1>3, <1>6, <1>8, <2>2, <2>3, <2>4 DEF KeptOf
<1>12. ASSUME NEW id \in Ids PROVE SavedOf(id)'
  <2>1. CASE id \in hosted
    <3>1. sessions'[id] = None /\ records'[id] = disk[id]
      BY <1>2, <1>5, <1>8, <2>1
    <3>2. disk'[id] = records'[id]
      <4>1. CASE records' = disk
        BY <1>3, <4>1
      <4>2. CASE records' # disk
        BY <1>3, <1>7, <1>8, <3>1, <4>2, FoldedFacts
      <4> QED BY <4>1, <4>2
    <3>3. records'[id] # None => Listed(records', sessions', id) = records'[id].status
      BY <1>7, <1>8, <3>1, ListedFacts
    <3> QED BY <3>2, <3>3 DEF SavedOf
  <2>2. CASE id \notin hosted
    BY <1>3, <1>6, <1>9, <2>2 DEF SavedOf
  <2> QED BY <2>1, <2>2
<1>13. KeptInv'
  BY <1>3, <1>11, <1>12 DEF KeptInv
<1> QED BY <1>10, <1>13 DEF RegistryInv

LEMMA LoadBindingsKeeps == ASSUME RegistryInv, LoadBindings PROVE RegistryInv'
<1>1. TypeOK /\ KeptInv
  BY DEF RegistryInv
<1>2. UNCHANGED <<hosted, running, bindings, sessions, records, closed, disk, dirty,
                  published, outbox, view, late, resuming, respawned, abandoned>>
  BY DEF LoadBindings, storeVars, diskVars, watchVars, viewVars
<1>3. restore' = [pc |-> "loaded", found |-> bindings]
  BY DEF LoadBindings
<1>4. TypeOK'
  BY <1>1, <1>2, <1>3 DEF TypeOK
<1> QED BY <1>1, <1>2, <1>4, NothingMoves DEF RegistryInv

\* The restore adopts what has a record that has not exited, and gives up what
\* it retires and cannot kill.
LEMMA RestoreRemoteKeeps == ASSUME RegistryInv, RestoreRemote PROVE RegistryInv'
<1>1. TypeOK /\ KeptInv /\ records \in Records /\ sessions \in LiveSessions
  BY DEF RegistryInv, TypeOK, Records, LiveSessions
<1>2. PICK retired \in SUBSET Retirable, adopted \in SUBSET Adoptable :
      \E killed \in SUBSET retired :
        /\ sessions' = [id \in Ids |-> IF id \in adopted THEN Seeded(records[id])
                                       ELSE sessions[id]]
        /\ bindings' = bindings \ retired
        /\ running' = running \ killed
        /\ abandoned' = abandoned \cup ((retired \ killed) \cap running)
        /\ respawned' = respawned \cup {id \in adopted : published[id] # None}
  BY DEF RestoreRemote
<1>3. PICK killed \in SUBSET retired :
        /\ sessions' = [id \in Ids |-> IF id \in adopted THEN Seeded(records[id])
                                       ELSE sessions[id]]
        /\ bindings' = bindings \ retired
        /\ running' = running \ killed
        /\ abandoned' = abandoned \cup ((retired \ killed) \cap running)
        /\ respawned' = respawned \cup {id \in adopted : published[id] # None}
  BY <1>2
<1>4. UNCHANGED <<hosted, records, closed, disk, dirty, published, outbox, view, late,
                  resuming>>
  BY DEF RestoreRemote, storeVars, diskVars, watchVars, viewVars
<1>5. restore' = [pc |-> "done", found |-> {}]
  BY DEF RestoreRemote
<1>6. /\ adopted \subseteq Ids
      /\ \A id \in adopted : records[id] # None /\ Listed(records, sessions, id) # "Exited"
  BY <1>1, <1>2 DEF Adoptable, TypeOK
<1>7. \A id \in adopted : Seeded(records[id]) \in SessionType /\ Seeded(records[id]) # None
  <2>1. \A id \in adopted : records[id] \in RecordType
    BY <1>1, <1>6 DEF Records
  <2> QED BY <2>1, SeededFacts
<1>8. sessions' \in LiveSessions
  BY <1>1, <1>3, <1>7 DEF LiveSessions
<1>9. TypeOK'
  <2>1. /\ running' \subseteq Ids /\ bindings' \subseteq hosted /\ abandoned' \subseteq Ids
        /\ respawned' \subseteq Ids
    BY <1>1, <1>3, <1>6 DEF TypeOK
  <2> QED BY <1>1, <1>4, <1>5, <1>8, <2>1 DEF TypeOK, LiveSessions
<1>10. ASSUME NEW id \in Ids PROVE KeptOf(id)' /\ SavedOf(id)'
  <2>1. KeptOf(id) /\ SavedOf(id)
    BY <1>1 DEF KeptInv
  <2>2. /\ id \in adopted => sessions'[id] # None /\ records[id] # None
        /\ id \notin adopted => sessions'[id] = sessions[id]
    BY <1>3, <1>6, <1>7
  <2>3. KeptOf(id)'
    BY <1>3, <1>4, <2>1, <2>2 DEF KeptOf
  <2>4. id \notin adopted => Listed(records', sessions', id) = Listed(records, sessions, id)
    BY <1>4, <2>2, ListedOfSame
  <2>5. SavedOf(id)'
    BY <1>4, <1>6, <2>1, <2>4, SavedStill DEF diskVars
  <2> QED BY <2>3, <2>5
<1>11. KeptInv'
  BY <1>1, <1>4, <1>10 DEF KeptInv, ClosedOf
<1> QED BY <1>9, <1>11 DEF RegistryInv

-----------------------------------------------------------------------------
(***************************************************************************)
(* The registry's theorems.                                                *)
(***************************************************************************)
LEMMA RegistryInvariant == Spec => []RegistryInv
<1>1. Init => RegistryInv
  <2> SUFFICES ASSUME Init PROVE RegistryInv
    OBVIOUS
  <2>1. TypeOK
    BY EmptySeq DEF Init, TypeOK
  <2>2. KeptInv
    BY DEF Init, KeptInv, KeptOf, SavedOf
  <2> QED BY <2>1, <2>2 DEF RegistryInv
<1>2. RegistryInv /\ [Next]_vars => RegistryInv'
  <2> SUFFICES ASSUME RegistryInv, [Next]_vars PROVE RegistryInv'
    OBVIOUS
  <2>1. CASE Control
    BY <2>1, SpawnKeeps, SpawnFailsKeeps, KillKeeps, SessionRemoveKeeps, ArchiveKeeps,
       UnarchiveKeeps, ReopenKeeps, ResumeKeeps, ResumeLookKeeps DEF Control
  <2>2. CASE Agents
    BY <2>2, ProcessDiesKeeps, SessionChangesKeeps DEF Agents
  <2>3. CASE Watch
    BY <2>3, PollKeeps, WatcherPublishKeeps DEF Watch
  <2>4. CASE UNCHANGED vars
    <3>1. UNCHANGED <<hosted, running, bindings, restore, sessions, records, closed, disk,
                      dirty, published, outbox, view, late, resuming, respawned, abandoned>>
      BY <2>4 DEF vars, storeVars, diskVars, watchVars, viewVars
    <3>2. TypeOK'
      BY <3>1 DEF RegistryInv, TypeOK
    <3> QED BY <3>1, <3>2, NothingMoves DEF RegistryInv
  <2> QED BY <2>1, <2>2, <2>3, <2>4, FlushKeeps, RestartKeeps, LoadBindingsKeeps,
             RestoreRemoteKeeps DEF Next
<1> QED BY <1>1, <1>2, PTL DEF Spec

\* The variables stay in their types: what the watcher queues, the stack of
\* closed sessions and the state file hold nothing but sessions and records.
THEOREM TypeCorrect == Spec => []TypeOK
<1>1. RegistryInv => TypeOK
  BY DEF RegistryInv
<1> QED BY <1>1, RegistryInvariant, PTL

\* reap_orphans and Registry::terminate: however calls, exits, unsaved changes
\* and restarts fall, a local record that has not exited has its session.
THEOREM NoGhosts == Spec => []NoGhost
<1>1. RegistryInv => NoGhost
  BY DEF RegistryInv, KeptInv, KeptOf, NoGhost
<1> QED BY <1>1, RegistryInvariant, PTL

\* terminate, remove, resume, restart and the remote restore: a running agent
\* whose record and binding were not given up is found again, by a resume and,
\* once it is saved, by the next Engine.
THEOREM NoProcessLost == Spec => []NoLostProcess
<1>1. RegistryInv => NoLostProcess
  BY DEF RegistryInv, TypeOK, KeptInv, KeptOf, SavedOf, NoLostProcess
<1> QED BY <1>1, RegistryInvariant, PTL

-----------------------------------------------------------------------------
(***************************************************************************)
(* Live sessions stay.                                                     *)
(***************************************************************************)
CountsOK == counts \in [spawned : SUBSET Ids, spawns : Nat, requests : Nat, restarts : Nat]

Spawning == \E id \in Ids :
              counts' = [counts EXCEPT !.spawned = @ \cup {id}, !.spawns = @ + 1]
Restarting == counts' = [counts EXCEPT !.restarts = @ + 1]

\* A bounded event is counted.
LEMMA Counted ==
  ASSUME CountsOK, Spawning \/ Request \/ Restarting
  PROVE  CountsOK' /\ counts' # counts
<1>1. /\ counts.spawned \subseteq Ids /\ counts.spawns \in Nat /\ counts.requests \in Nat
      /\ counts.restarts \in Nat
  BY DEF CountsOK
<1>2. CASE Spawning
  <2>1. PICK id \in Ids : counts' = [counts EXCEPT !.spawned = @ \cup {id}, !.spawns = @ + 1]
    BY <1>2 DEF Spawning
  <2>2. CountsOK'
    <3>1. counts.spawned \cup {id} \in SUBSET Ids /\ counts.spawns + 1 \in Nat
      BY <1>1
    <3> QED BY <2>1, <3>1 DEF CountsOK
  <2>3. counts'.spawns = counts.spawns + 1
    BY <2>1 DEF CountsOK
  <2> QED BY <1>1, <2>2, <2>3
<1>3. CASE Request
  <2>1. counts' = [counts EXCEPT !.requests = @ + 1]
    BY <1>3 DEF Request
  <2>2. CountsOK'
    BY <1>1, <2>1 DEF CountsOK
  <2>3. counts'.requests = counts.requests + 1
    BY <2>1 DEF CountsOK
  <2> QED BY <1>1, <2>2, <2>3
<1>4. CASE Restarting
  <2>1. counts' = [counts EXCEPT !.restarts = @ + 1]
    BY <1>4 DEF Restarting
  <2>2. CountsOK'
    BY <1>1, <2>1 DEF CountsOK
  <2>3. counts'.restarts = counts.restarts + 1
    BY <2>1 DEF CountsOK
  <2> QED BY <1>1, <2>2, <2>3
<1> QED BY <1>2, <1>3, <1>4

\* Everything else counts nothing.
LEMMA Uncounted ==
  ASSUME [Next]_vars, ~(Spawning \/ Request \/ Restarting)
  PROVE  /\ counts' = counts
         /\ \/ \E r \in Resumers : Resume(r)
            \/ Agents \/ Watch \/ Flush \/ LoadBindings \/ RestoreRemote
            \/ UNCHANGED vars
<1>1. ASSUME NEW id \in Ids,
             \/ Spawn(id) \/ SpawnFails(id) \/ Kill(id) \/ SessionRemove(id)
             \/ Archive(id) \/ Unarchive(id)
      PROVE  FALSE
  BY <1>1 DEF Spawn, SpawnFails, Kill, SessionRemove, Archive, Unarchive, Spawning
<1>2. ~Reopen
  BY DEF Reopen
<1>3. \A r \in Resumers, id \in Ids : ~ResumeLook(r, id)
  BY DEF ResumeLook
<1>4. ~Restart
  BY DEF Restart, Restarting
<1>5. \/ \E r \in Resumers : Resume(r)
      \/ Agents \/ Watch \/ Flush \/ LoadBindings \/ RestoreRemote
      \/ UNCHANGED vars
  BY <1>1, <1>2, <1>3, <1>4 DEF Next, Control
<1>6. \A r \in Resumers : Resume(r) => counts' = counts
  BY DEF Resume
<1>7. Agents \/ Watch \/ Flush => counts' = counts
  BY DEF Agents, ProcessDies, SessionChanges, Watch, Poll, WatcherPublish, Flush
<1>8. LoadBindings \/ RestoreRemote \/ UNCHANGED vars => counts' = counts
  BY DEF LoadBindings, RestoreRemote, vars
<1> QED BY <1>5, <1>6, <1>7, <1>8

LEMMA CountsInvariant == Spec => []CountsOK
<1>1. Init => CountsOK
  BY DEF Init, CountsOK
<1>2. CountsOK /\ [Next]_vars => CountsOK'
  BY Counted, Uncounted DEF CountsOK
<1> QED BY <1>1, <1>2, PTL DEF Spec

\* A resume is about one id, which no live session has.
LEMMA ResumeSpares ==
  ASSUME TypeOK, NEW r \in Resumers, Resume(r), NEW id \in Ids, Live(id)
  PROVE  sessions'[id] = sessions[id] /\ (id \in running => id \in running')
<1> DEFINE k == resuming[r]
<1>1. k \in Ids /\ sessions \in LiveSessions
  BY DEF TypeOK, Resume, LiveSessions
<1>2. CASE records[k] # None /\ ~Live(k)
  <2>1. Respawn(k) \/ RespawnFails(k)
    BY <1>2 DEF Resume
  <2>2. k # id
    BY <1>2
  <2> HIDE DEF k
  <2>3. sessions'[id] = sessions[id]
    BY <1>1, <2>1, <2>2 DEF Respawn, RespawnFails, Dropped, LiveSessions
  <2>4. (\E in : running' = Marked(running, k, in)) \/ running' = running \cup {k}
    BY <2>1 DEF Respawn, RespawnFails
  <2>5. id \in running => id \in running'
    BY <1>1, <2>2, <2>4, MarkedFacts
  <2> QED BY <2>3, <2>5
<1>3. CASE ~(records[k] # None /\ ~Live(k))
  BY <1>3 DEF Resume
<1> QED BY <1>2, <1>3

\* session_resume's second look, under the lock, is enough for any number of
\* connections that resume: no live session is taken away by a resume, or by
\* anything else that was not asked to.
THEOREM SessionsStay == Spec => LiveSessionStays
<1>1. ASSUME TypeOK, CountsOK, [Next]_vars, NEW id \in Ids, Live(id), UNCHANGED counts,
             restore'.pc = restore.pc
      PROVE  /\ sessions'[id] # None /\ sessions'[id].version >= sessions[id].version
             /\ id \in running \ running' => UNCHANGED sessions
  <2>1. /\ sessions \in LiveSessions /\ sessions[id] # None
        /\ sessions[id] \in SessionType /\ sessions[id].version \in Nat
    BY <1>1, RegistryAssumption DEF TypeOK, LiveSessions, SessionType, Live
  <2>2. ~(Spawning \/ Request \/ Restarting)
    BY <1>1, Counted
  <2>3. ASSUME sessions'[id] = sessions[id], id \in running => id \in running'
        PROVE  /\ sessions'[id] # None /\ sessions'[id].version >= sessions[id].version
               /\ id \in running \ running' => UNCHANGED sessions
    BY <2>1, <2>3
  <2>4. CASE \E r \in Resumers : Resume(r)
    BY <1>1, <2>3, <2>4, ResumeSpares
  <2>5. ASSUME NEW k \in Ids, ProcessDies(k)
        PROVE  UNCHANGED sessions
    BY <2>5 DEF ProcessDies
  <2>6. ASSUME NEW k \in Ids, SessionChanges(k)
        PROVE  /\ sessions'[id] # None /\ sessions'[id].version >= sessions[id].version
               /\ running' = running
    <3>1. PICK s \in {"Working", "Exited"} :
            sessions' = [sessions EXCEPT ![k] =
                           [status |-> s, version |-> sessions[k].version + 1]]
      BY <2>6 DEF SessionChanges
    <3>2. running' = running
      BY <2>6 DEF SessionChanges
    <3>3. CASE k = id
      <4>1. sessions'[id] = [status |-> s, version |-> sessions[id].version + 1]
        BY <2>1, <3>1, <3>3 DEF LiveSessions
      <4>2. sessions'[id] \in SessionType
        BY <2>1, <2>6, <3>3, <4>1, RegistryAssumption DEF SessionChanges, SessionType, Statuses
      <4> QED BY <2>1, <3>2, <4>1, <4>2, NoneAssumption
    <3>4. CASE k # id
      BY <2>1, <3>1, <3>2, <3>4 DEF LiveSessions
    <3> QED BY <3>3, <3>4
  <2>7. CASE Agents
    BY <2>1, <2>5, <2>6, <2>7 DEF Agents
  <2>8. CASE Watch \/ Flush \/ UNCHANGED vars
    <3>1. UNCHANGED <<sessions, running>>
      BY <2>8 DEF Watch, Poll, WatcherPublish, Flush, vars
    <3> QED BY <2>1, <3>1
  <2>9. ~LoadBindings /\ ~RestoreRemote
    <3>1. LoadBindings => restore'.pc = "loaded" /\ restore.pc = "due"
      BY DEF LoadBindings
    <3>2. RestoreRemote => restore'.pc = "done" /\ restore.pc = "loaded"
      BY DEF RestoreRemote
    <3> QED BY <1>1, <3>1, <3>2
  <2> QED BY <1>1, <2>2, <2>4, <2>7, <2>8, <2>9, Uncounted
<1>2. TypeOK /\ CountsOK /\ [Next]_vars =>
        [\A id \in Ids :
           Live(id) /\ UNCHANGED counts /\ restore'.pc = restore.pc =>
             /\ sessions'[id] # None /\ sessions'[id].version >= sessions[id].version
             /\ id \in running \ running' => UNCHANGED sessions]_vars
  BY <1>1
<1> QED BY <1>2, TypeCorrect, CountsInvariant, PTL DEF Spec, LiveSessionStays

-----------------------------------------------------------------------------
(***************************************************************************)
(* What the App lists.                                                     *)
(***************************************************************************)
\* A control method's bookkeeping: what is counted stays counted.
LEMMA RequestCounts ==
  ASSUME ViewInv, Request
  PROVE  DOMAIN counts' = DOMAIN counts /\ counts'.spawned = counts.spawned
  BY DEF ViewInv, Request

\* A session that is recorded was spawned.
LEMMA RecordedWasSpawned ==
  ASSUME ViewInv, NEW id \in Ids, records[id] # None PROVE id \in counts.spawned
  BY DEF ViewInv, ViewOf

\* An id that a step leaves alone is listed as before.
LEMMA OthersSeen ==
  ASSUME ViewInv, NEW k \in Ids, records'[k] = records[k], sessions'[k] = sessions[k],
         UNCHANGED watchVars, view'[k] = view[k], k \in late => k \in late',
         k \in respawned <=> k \in respawned',
         k \notin counts'.spawned => k \notin counts.spawned /\ disk'[k] = None
  PROVE  ViewOf(k)'
<1>1. ViewOf(k) /\ published' = published /\ outbox' = outbox
  BY DEF ViewInv, watchVars
<1>2. Listed(records', sessions', k) = Listed(records, sessions, k)
  BY ListedOfSame
<1>3. Seen(k)' <=> Seen(k)
  BY <1>1 DEF Seen
<1>4. UpToDate(k) => UpToDate(k)'
  BY <1>1, <1>2 DEF UpToDate
<1> QED BY <1>1, <1>3, <1>4 DEF ViewOf

\* persist writes no record of an id that has none.
LEMMA NoneSaved ==
  ASSUME records' \in Records, sessions' \in LiveSessions, NEW k \in Ids,
         records'[k] = None, disk[k] = None,
         Persist(records', sessions') \/ UNCHANGED diskVars
  PROVE  disk'[k] = None
  BY FoldedFacts DEF Persist, diskVars

\* The control methods: the id they are about is listed as it is, or is late.
LEMMA ControlSeen ==
  ASSUME RegistryInv, RegistryInv', ViewInv, NEW id \in Ids, UNCHANGED watchVars,
         \A k \in Ids \ {id} : records'[k] = records[k] /\ sessions'[k] = sessions[k],
         Persist(records', sessions') \/ UNCHANGED diskVars,
         Publish(id, records', sessions') \/ Silently(id),
         \A k \in Ids \ {id} : k \in respawned <=> k \in respawned',
         sessions'[id] # None /\ id \notin respawned' /\ published[id] # None =>
           published[id] <= sessions'[id].version,
         DOMAIN counts' = DOMAIN counts, counts.spawned \subseteq counts'.spawned,
         id \in counts'.spawned,
         \A i \in DOMAIN closed' : closed'[i].id \in counts'.spawned
  PROVE  ViewInv'
<1>1. /\ records' \in Records /\ sessions' \in LiveSessions
      /\ view \in [Ids -> Statuses \cup {None}]
  BY DEF RegistryInv, TypeOK, Records, LiveSessions
<1>2. ASSUME NEW k \in Ids \ {id} PROVE ViewOf(k)'
  <2>1. view'[k] = view[k]
    BY <1>1 DEF Publish, Silently
  <2>2. k \in late => k \in late'
    BY DEF Publish, Silently
  <2>3. k \notin counts'.spawned => k \notin counts.spawned /\ disk'[k] = None
    <3> SUFFICES ASSUME k \notin counts'.spawned
                 PROVE  k \notin counts.spawned /\ disk'[k] = None
      OBVIOUS
    <3>1. k \notin counts.spawned
      OBVIOUS
    <3>2. records'[k] = None /\ disk[k] = None
      BY <3>1 DEF ViewInv, ViewOf
    <3> QED BY <1>1, <3>1, <3>2, NoneSaved
  <2> QED BY <2>1, <2>2, <2>3, OthersSeen
<1>3. id \notin late' => UpToDate(id)'
  <2> SUFFICES ASSUME id \notin late' PROVE UpToDate(id)'
    OBVIOUS
  <2>1. Publish(id, records', sessions')
    BY DEF Silently
  <2>2. ~\E i \in DOMAIN outbox : outbox[i].id = id
    BY <2>1 DEF Publish
  <2>3. view'[id] = Listed(records', sessions', id)
    BY <1>1, <2>1 DEF Publish
  <2> QED BY <2>2, <2>3 DEF UpToDate, watchVars
<1>4. ViewOf(id)'
  BY <1>3 DEF ViewOf, watchVars
<1>5. DOMAIN counts' = {"spawned", "spawns", "requests", "restarts"}
  BY DEF ViewInv
<1> QED BY <1>2, <1>4, <1>5 DEF ViewInv

LEMMA SpawnSeen ==
  ASSUME RegistryInv, RegistryInv', ViewInv, NEW id \in Ids, Spawn(id) PROVE ViewInv'
<1>1. /\ records \in Records /\ sessions \in LiveSessions
  BY DEF RegistryInv, TypeOK, Records, LiveSessions
<1>2. /\ \A k \in Ids \ {id} : records'[k] = records[k] /\ sessions'[k] = sessions[k]
  BY <1>1 DEF Spawn, Records, LiveSessions
<1>3. /\ DOMAIN counts' = DOMAIN counts /\ counts'.spawned = counts.spawned \cup {id}
  BY DEF Spawn, ViewInv
<1>4. published[id] = None
  BY DEF Spawn, ViewInv, ViewOf
<1>5. UNCHANGED <<watchVars, respawned, closed>>
  BY DEF Spawn
<1>6. Persist(records', sessions') /\ Publish(id, records', sessions')
  BY DEF Spawn
<1>7. \A i \in DOMAIN closed' : closed'[i].id \in counts'.spawned
  BY <1>3, <1>5 DEF ViewInv
<1> QED BY <1>2, <1>3, <1>4, <1>5, <1>6, <1>7, ControlSeen

LEMMA KillSeen ==
  ASSUME RegistryInv, RegistryInv', ViewInv, NEW id \in Ids, Kill(id) PROVE ViewInv'
<1>1. records \in Records /\ sessions \in LiveSessions /\ records[id] # None
  BY DEF RegistryInv, TypeOK, Records, LiveSessions, KeptInv, KeptOf, Kill
<1>2. /\ \A k \in Ids \ {id} : records'[k] = records[k] /\ sessions'[k] = sessions[k]
      /\ sessions'[id] = None
  BY <1>1 DEF Kill, Dropped, Records, LiveSessions
<1>3. DOMAIN counts' = DOMAIN counts /\ counts'.spawned = counts.spawned
  BY RequestCounts DEF Kill
<1>4. id \in counts.spawned
  BY <1>1, RecordedWasSpawned
<1>5. UNCHANGED <<watchVars, respawned, closed>>
  BY DEF Kill
<1>6. /\ Persist(records', sessions') \/ UNCHANGED diskVars
      /\ Publish(id, records', sessions') \/ Silently(id)
  BY DEF Kill
<1>7. \A i \in DOMAIN closed' : closed'[i].id \in counts'.spawned
  BY <1>3, <1>5 DEF ViewInv
<1> QED BY <1>2, <1>3, <1>4, <1>5, <1>6, <1>7, ControlSeen

LEMMA SessionRemoveSeen ==
  ASSUME RegistryInv, RegistryInv', ViewInv, NEW id \in Ids, SessionRemove(id)
  PROVE  ViewInv'
<1>1. /\ records \in Records /\ sessions \in LiveSessions /\ records[id] # None
      /\ closed \in Seq([id : Ids, record : RecordType])
  BY DEF RegistryInv, TypeOK, Records, LiveSessions, SessionRemove
<1>2. /\ \A k \in Ids \ {id} : records'[k] = records[k] /\ sessions'[k] = sessions[k]
      /\ sessions'[id] = None
  BY <1>1 DEF SessionRemove, Dropped, Records, LiveSessions
<1>3. DOMAIN counts' = DOMAIN counts /\ counts'.spawned = counts.spawned
  BY RequestCounts DEF SessionRemove
<1>4. id \in counts.spawned
  BY <1>1, RecordedWasSpawned
<1>5. UNCHANGED <<watchVars, respawned>>
  BY DEF SessionRemove
<1>6. Persist(records', sessions') /\ Publish(id, records', sessions')
  BY DEF SessionRemove
<1>7. ASSUME NEW i \in DOMAIN closed' PROVE closed'[i].id \in counts'.spawned
  <2>1. PICK kill : closed' = Append(closed, [id |-> id, record |-> After(id, kill)])
    BY DEF SessionRemove
  <2>2. CASE i \in DOMAIN closed
    <3>1. closed'[i] = closed[i]
      BY <1>1, <2>1, <2>2
    <3> QED BY <1>3, <2>2, <3>1 DEF ViewInv
  <2>3. CASE i = Len(closed) + 1
    <3>1. closed'[i].id = id
      BY <1>1, <2>1, <2>3
    <3> QED BY <1>3, <1>4, <3>1
  <2> QED BY <1>1, <2>1, <2>2, <2>3
<1> QED BY <1>2, <1>3, <1>4, <1>5, <1>6, <1>7, ControlSeen

LEMMA ArchiveSeen ==
  ASSUME RegistryInv, RegistryInv', ViewInv, NEW id \in Ids, Archive(id) PROVE ViewInv'
<1>1. records \in Records /\ sessions \in LiveSessions /\ records[id] # None
  BY DEF RegistryInv, TypeOK, Records, LiveSessions, Archive
<1>2. /\ \A k \in Ids \ {id} : records'[k] = records[k] /\ sessions'[k] = sessions[k]
      /\ sessions'[id] = None
  BY <1>1 DEF Archive, Dropped, Records, LiveSessions
<1>3. DOMAIN counts' = DOMAIN counts /\ counts'.spawned = counts.spawned
  BY RequestCounts DEF Archive
<1>4. id \in counts.spawned
  BY <1>1, RecordedWasSpawned
<1>5. UNCHANGED <<watchVars, respawned, closed>>
  BY DEF Archive
<1>6. Persist(records', sessions') /\ Publish(id, records', sessions')
  BY DEF Archive
<1>7. \A i \in DOMAIN closed' : closed'[i].id \in counts'.spawned
  BY <1>3, <1>5 DEF ViewInv
<1> QED BY <1>2, <1>3, <1>4, <1>5, <1>6, <1>7, ControlSeen

LEMMA UnarchiveSeen ==
  ASSUME RegistryInv, RegistryInv', ViewInv, NEW id \in Ids, Unarchive(id) PROVE ViewInv'
<1>1. records \in Records /\ sessions' = sessions /\ records[id] # None
  BY DEF RegistryInv, TypeOK, Records, Unarchive
<1>2. \A k \in Ids \ {id} : records'[k] = records[k]
  BY <1>1 DEF Unarchive, Records
<1>3. DOMAIN counts' = DOMAIN counts /\ counts'.spawned = counts.spawned
  BY RequestCounts DEF Unarchive
<1>4. id \in counts.spawned
  BY <1>1, RecordedWasSpawned
<1>5. UNCHANGED <<watchVars, respawned, closed>>
  BY DEF Unarchive
<1>6. Persist(records', sessions') /\ Publish(id, records', sessions')
  BY <1>1 DEF Unarchive
<1>7. \A i \in DOMAIN closed' : closed'[i].id \in counts'.spawned
  BY <1>3, <1>5 DEF ViewInv
<1>8. sessions'[id] # None /\ id \notin respawned' /\ published[id] # None =>
        published[id] <= sessions'[id].version
  BY <1>1, <1>5 DEF ViewInv, ViewOf
<1> QED BY <1>1, <1>2, <1>3, <1>4, <1>5, <1>6, <1>7, <1>8, ControlSeen

LEMMA ReopenSeen == ASSUME RegistryInv, RegistryInv', ViewInv, Reopen PROVE ViewInv'
<1>1. /\ records \in Records /\ sessions' = sessions /\ closed # <<>>
      /\ closed \in Seq([id : Ids, record : RecordType]) /\ closed' = Front(closed)
  BY DEF RegistryInv, TypeOK, Records, Reopen
<1>2. /\ Len(closed) \in DOMAIN closed /\ Last(closed) = closed[Len(closed)]
      /\ closed[Len(closed)] \in [id : Ids, record : RecordType]
  <2>1. Len(closed) \in DOMAIN closed /\ Last(closed) = closed[Len(closed)]
    BY <1>1 DEF Last
  <2> QED BY <1>1, <2>1, Element
<1>3. PICK id \in Ids : id = Last(closed).id
  BY <1>2
<1>4. \A k \in Ids \ {id} : records'[k] = records[k]
  BY <1>1, <1>3 DEF Reopen, Records
<1>5. DOMAIN counts' = DOMAIN counts /\ counts'.spawned = counts.spawned
  BY RequestCounts DEF Reopen
<1>6. id \in counts.spawned
  BY <1>2, <1>3 DEF ViewInv
<1>7. UNCHANGED <<watchVars, respawned>>
  BY DEF Reopen
<1>8. Persist(records', sessions') /\ Publish(id, records', sessions')
  BY <1>1, <1>3 DEF Reopen
<1>9. \A i \in DOMAIN closed' : closed'[i].id \in counts'.spawned
  <2>1. \A i \in DOMAIN closed' : i \in DOMAIN closed /\ closed'[i] = closed[i]
    BY <1>1, FrontFacts
  <2> QED BY <1>5, <2>1 DEF ViewInv
<1>10. sessions'[id] # None /\ id \notin respawned' /\ published[id] # None =>
         published[id] <= sessions'[id].version
  BY <1>1, <1>7 DEF ViewInv, ViewOf
<1> QED BY <1>1, <1>4, <1>5, <1>6, <1>7, <1>8, <1>9, <1>10, ControlSeen

LEMMA ResumeSeen ==
  ASSUME RegistryInv, RegistryInv', ViewInv, NEW r \in Resumers, Resume(r) PROVE ViewInv'
<1>1. PICK id \in Ids : id = resuming[r]
  BY DEF RegistryInv, TypeOK, Resume
<1>2. records \in Records /\ sessions \in LiveSessions /\ counts' = counts
  BY DEF RegistryInv, TypeOK, Records, LiveSessions, Resume
<1>3. CASE records[id] # None /\ ~Live(id)
  <2>1. Respawn(id) \/ RespawnFails(id)
    BY <1>1, <1>3 DEF Resume
  <2>2. \A k \in Ids \ {id} : records'[k] = records[k] /\ sessions'[k] = sessions[k]
    BY <1>2, <2>1 DEF Respawn, RespawnFails, Dropped, Records, LiveSessions
  <2>3. id \in counts.spawned
    BY <1>3, RecordedWasSpawned
  <2>4. UNCHANGED <<watchVars, closed>>
    BY <2>1 DEF Respawn, RespawnFails
  <2>5. \A k \in Ids \ {id} : k \in respawned <=> k \in respawned'
    BY <2>1 DEF Respawn, RespawnFails
  <2>6. /\ Persist(records', sessions') \/ UNCHANGED diskVars
        /\ Publish(id, records', sessions') \/ Silently(id)
    BY <2>1 DEF Respawn, RespawnFails
  <2>7. \A i \in DOMAIN closed' : closed'[i].id \in counts'.spawned
    BY <1>2, <2>4 DEF ViewInv
  <2>8. sessions'[id] # None /\ id \notin respawned' => published[id] = None
    BY <1>2, <2>1 DEF Respawn, RespawnFails, Dropped, LiveSessions
  <2> QED BY <1>2, <2>2, <2>3, <2>4, <2>5, <2>6, <2>7, <2>8, ControlSeen
<1>4. CASE ~(records[id] # None /\ ~Live(id))
  <2>1. UNCHANGED <<records, sessions, closed, disk, published, outbox, view, late, respawned,
                    counts>>
    BY <1>1, <1>4 DEF Resume, storeVars, diskVars, watchVars, viewVars
  <2> QED BY <2>1 DEF ViewInv, ViewOf, UpToDate, Seen
<1> QED BY <1>3, <1>4

LEMMA UnlistedSeen ==
  ASSUME ViewInv, UNCHANGED <<records, sessions, closed, disk, published, outbox, view, late,
                              respawned>>,
         DOMAIN counts' = DOMAIN counts, counts'.spawned = counts.spawned
  PROVE  ViewInv'
  BY DEF ViewInv, ViewOf, UpToDate, Seen

LEMMA ResumeLookSeen ==
  ASSUME ViewInv, NEW r \in Resumers, NEW id \in Ids, ResumeLook(r, id) PROVE ViewInv'
<1>1. UNCHANGED <<records, sessions, closed, disk, published, outbox, view, late, respawned>>
  BY DEF ResumeLook, storeVars, diskVars, watchVars, viewVars
<1>2. DOMAIN counts' = DOMAIN counts /\ counts'.spawned = counts.spawned
  BY RequestCounts DEF ResumeLook
<1> QED BY <1>1, <1>2, UnlistedSeen

LEMMA LoadBindingsSeen == ASSUME ViewInv, LoadBindings PROVE ViewInv'
<1>1. UNCHANGED <<records, sessions, closed, disk, published, outbox, view, late, respawned,
                  counts>>
  BY DEF LoadBindings, storeVars, diskVars, watchVars, viewVars
<1> QED BY <1>1, UnlistedSeen

LEMMA SpawnFailsSeen ==
  ASSUME ViewInv, NEW id \in Ids, SpawnFails(id) PROVE ViewInv'
<1>1. UNCHANGED <<records, sessions, closed, disk, published, outbox, view, late, respawned>>
  BY DEF SpawnFails, storeVars, diskVars, watchVars, viewVars
<1>2. DOMAIN counts' = DOMAIN counts /\ counts'.spawned = counts.spawned \cup {id}
  BY DEF SpawnFails, ViewInv
<1> QED BY <1>1, <1>2 DEF ViewInv, ViewOf, UpToDate, Seen

\* An adopted session starts at version zero, which is not published, or is
\* its predecessor's.
LEMMA RestoreRemoteSeen ==
  ASSUME RegistryInv, ViewInv, RestoreRemote PROVE ViewInv'
<1>1. /\ TypeOK /\ records \in Records /\ sessions \in LiveSessions
      /\ \A id \in Ids : published[id] # None => published[id] \in Nat
  BY RegistryAssumption DEF RegistryInv, TypeOK, Records, LiveSessions
<1>2. UNCHANGED <<records, closed, disk, published, outbox, view, late, counts>>
  BY DEF RestoreRemote, storeVars, diskVars, watchVars, viewVars
<1>3. PICK adopted \in SUBSET Adoptable :
        /\ sessions' = [id \in Ids |-> IF id \in adopted THEN Seeded(records[id])
                                       ELSE sessions[id]]
        /\ respawned' = respawned \cup {id \in adopted : published[id] # None}
  BY DEF RestoreRemote
<1>4. ASSUME NEW id \in Ids PROVE ViewOf(id)'
  <2>1. ViewOf(id)
    BY DEF ViewInv
  <2>2. CASE id \in adopted
    <3>1. records[id] # None /\ records[id] \in RecordType
      BY <1>1, <1>3, <2>2 DEF Adoptable, Records
    <3>2. sessions'[id] # None /\ sessions'[id].version = 0
      BY <1>3, <2>2, <3>1, SeededFacts
    <3>3. published[id] # None => id \in respawned'
      BY <1>3, <2>2
    <3>4. ~Seen(id)'
      BY <1>2, <3>2, <3>3, NoneAssumption DEF Seen
    <3>5. id \notin counts'.spawned =>
            published'[id] = None /\ records'[id] = None /\ disk'[id] = None
      BY <1>2, <2>1 DEF ViewOf
    <3> QED BY <1>2, <3>3, <3>4, <3>5 DEF ViewOf
  <2>3. CASE id \notin adopted
    <3>1. sessions'[id] = sessions[id] /\ (id \in respawned' <=> id \in respawned)
      BY <1>3, <2>3
    <3>2. id \notin counts'.spawned => id \notin counts.spawned /\ disk'[id] = None
      BY <1>2, <2>1 DEF ViewOf
    <3> QED BY <1>2, <3>1, <3>2, OthersSeen DEF watchVars
  <2> QED BY <2>2, <2>3
<1> QED BY <1>2, <1>4 DEF ViewInv

LEMMA ProcessDiesSeen == ASSUME ViewInv, NEW id \in Ids, ProcessDies(id) PROVE ViewInv'
<1>1. UNCHANGED <<records, sessions, closed, disk, published, outbox, view, late, respawned,
                  counts>>
  BY DEF ProcessDies, storeVars, diskVars, watchVars, viewVars
<1> QED BY <1>1, UnlistedSeen

\* A new version is one the watcher has not published.
LEMMA SessionChangesSeen ==
  ASSUME RegistryInv, ViewInv, NEW id \in Ids, SessionChanges(id) PROVE ViewInv'
<1>1. /\ sessions \in LiveSessions /\ sessions[id] \in SessionType /\ sessions[id] # None
      /\ published \in [Ids -> 0..MaxVersion \cup {None}]
  BY DEF RegistryInv, TypeOK, LiveSessions, SessionChanges, Live
<1>2. UNCHANGED <<records, closed, disk, published, outbox, view, late, respawned, counts>>
  BY DEF SessionChanges, storeVars, diskVars, watchVars, viewVars
<1>3. /\ \A k \in Ids \ {id} : sessions'[k] = sessions[k]
      /\ sessions'[id].version = sessions[id].version + 1 /\ sessions'[id] # None
  <2>1. PICK s \in {"Working", "Exited"} :
          sessions' = [sessions EXCEPT ![id] =
                         [status |-> s, version |-> sessions[id].version + 1]]
    BY DEF SessionChanges
  <2>2. [status |-> s, version |-> sessions[id].version + 1] \in SessionType
    BY <1>1, RegistryAssumption DEF SessionChanges, SessionType, Statuses
  <2> QED BY <1>1, <2>1, <2>2, NoneAssumption DEF LiveSessions
<1>4. ASSUME NEW k \in Ids \ {id} PROVE ViewOf(k)'
  <2>1. k \notin counts.spawned => disk'[k] = None
    BY <1>2 DEF ViewInv, ViewOf
  <2>2. UNCHANGED watchVars
    BY <1>2 DEF watchVars
  <2> QED BY <1>2, <1>3, <2>1, <2>2, OthersSeen
<1>5. ViewOf(id)'
  <2>1. ViewOf(id) /\ sessions[id].version \in Nat
    BY <1>1, RegistryAssumption DEF ViewInv, SessionType
  <2>2. ~Seen(id)'
    <3> SUFFICES ASSUME Seen(id)' PROVE FALSE
      OBVIOUS
    <3>1. id \notin respawned /\ sessions[id].version + 1 = published[id]
      BY <1>2, <1>3 DEF Seen
    <3>2. published[id] # None
      BY <2>1, <3>1, NoneAssumption
    <3>3. published[id] <= sessions[id].version
      BY <1>1, <2>1, <3>1, <3>2 DEF ViewOf
    <3> QED BY <2>1, <3>1, <3>3
  <2>3. sessions'[id] # None /\ id \notin respawned' /\ published'[id] # None =>
          published'[id] <= sessions'[id].version
    <3> SUFFICES ASSUME id \notin respawned, published[id] # None
                 PROVE  published[id] <= sessions[id].version + 1
      BY <1>2, <1>3
    <3>1. published[id] \in Int
      BY <1>1
    <3> QED BY <1>1, <2>1, <3>1 DEF ViewOf
  <2>4. id \notin counts'.spawned =>
          published'[id] = None /\ records'[id] = None /\ disk'[id] = None
    BY <1>2, <2>1 DEF ViewOf
  <2> QED BY <2>2, <2>3, <2>4 DEF ViewOf
<1> QED BY <1>2, <1>4, <1>5 DEF ViewInv

LEMMA PollSeen == ASSUME RegistryInv, RegistryInv', ViewInv, Poll PROVE ViewInv'
<1>1. TypeOK /\ KeptInv /\ records \in Records /\ sessions \in LiveSessions
  BY DEF RegistryInv, TypeOK, Records, LiveSessions
<1>2. UNCHANGED <<sessions, closed, disk, view, counts>> /\ outbox = <<>>
  BY DEF Poll, diskVars
<1>3. outbox' = SetToSeq(Clones)
  BY DEF Poll, Clones
<1>4. ASSUME NEW i \in DOMAIN outbox'
      PROVE  outbox'[i].id \in Changed /\ outbox'[i].status = sessions[outbox'[i].id].status
  BY <1>1, <1>3, ClonesFacts
<1>5. \A k \in Changed : \E i \in DOMAIN outbox' : outbox'[i].id = k
  BY <1>1, <1>3, ClonesFacts
<1>6. ASSUME NEW id \in Ids PROVE ViewOf(id)'
  <2>1. ViewOf(id) /\ KeptOf(id)
    BY <1>1 DEF ViewInv, KeptInv
  <2>2. published'[id] = IF sessions[id] = None THEN None ELSE sessions[id].version
    BY DEF Poll
  <2>3. sessions'[id] # None => published'[id] <= sessions'[id].version
    <3>1. sessions[id] # None => sessions[id].version \in Nat
      BY <1>1, RegistryAssumption DEF LiveSessions, SessionType
    <3> QED BY <1>2, <2>2, <3>1
  <2>4. id \notin counts'.spawned =>
          published'[id] = None /\ records'[id] = None /\ disk'[id] = None
    <3>1. records[id] = None => sessions[id] = None /\ id \notin Changed
      BY <2>1 DEF KeptOf, Changed
    <3>2. id \notin Changed => records'[id] = records[id]
      BY DEF Poll
    <3> QED BY <1>2, <2>1, <2>2, <3>1, <3>2 DEF ViewOf
  <2>5. CASE id \in Changed
    <3>1. sessions[id] # None /\ records[id] # None
      BY <2>1, <2>5 DEF Changed, KeptOf
    <3>2. records' \in Records /\ records'[id] # None
      <4>1. records' \in Records
        BY DEF RegistryInv, TypeOK, Records
      <4>2. records'[id] = Folded(records, sessions)[id]
        BY <2>5 DEF Poll
      <4> QED BY <1>1, <3>1, <4>1, <4>2, FoldedFacts
    <3>3. Listed(records', sessions', id) = sessions[id].status
      BY <1>1, <1>2, <3>1, <3>2, ListedFacts
    <3>4. UpToDate(id)'
      <4>1. \A i \in DOMAIN outbox' : outbox'[i].id = id =>
              outbox'[i].status = Listed(records', sessions', id)
        BY <1>4, <3>3
      <4>2. \E i \in DOMAIN outbox' : outbox'[i].id = id
        BY <1>5, <2>5
      <4> QED BY <4>1, <4>2 DEF UpToDate
    <3> QED BY <2>3, <2>4, <3>4 DEF ViewOf
  <2>6. CASE id \notin Changed
    <3>1. records'[id] = records[id]
      BY <2>6 DEF Poll
    <3>2. Listed(records', sessions', id) = Listed(records, sessions, id)
      BY <1>2, <3>1, ListedOfSame
    <3>3. UpToDate(id) => UpToDate(id)'
      BY <1>2, <1>4, <2>6, <3>2 DEF UpToDate
    <3>4. id \notin late' /\ Seen(id)' => id \notin late /\ Seen(id)
      BY <1>2, <2>2, <2>6 DEF Poll, Seen, Changed
    <3> QED BY <2>1, <2>3, <2>4, <3>3, <3>4 DEF ViewOf
  <2> QED BY <2>5, <2>6
<1> QED BY <1>2, <1>6 DEF ViewInv

LEMMA WatcherPublishSeen == ASSUME RegistryInv, ViewInv, WatcherPublish PROVE ViewInv'
<1>1. /\ outbox \in Seq([id : Ids, status : Statuses]) /\ outbox # <<>>
      /\ view \in [Ids -> Statuses \cup {None}]
  BY DEF RegistryInv, TypeOK, WatcherPublish
<1>2. UNCHANGED <<sessions, records, closed, disk, published, late, respawned, counts>>
  BY DEF WatcherPublish, storeVars, diskVars
<1>3. view' = [view EXCEPT ![Head(outbox).id] = Head(outbox).status] /\ outbox' = Tail(outbox)
  BY DEF WatcherPublish
<1>4. /\ 1 \in DOMAIN outbox /\ Head(outbox) = outbox[1]
      /\ Head(outbox) \in [id : Ids, status : Statuses]
      /\ \A i \in DOMAIN outbox' : i + 1 \in DOMAIN outbox /\ outbox'[i] = outbox[i + 1]
      /\ \A i \in DOMAIN outbox : i # 1 => i - 1 \in DOMAIN outbox' /\ outbox'[i - 1] = outbox[i]
  <2>1. /\ Tail(outbox) \in Seq([id : Ids, status : Statuses])
        /\ Len(Tail(outbox)) = Len(outbox) - 1
        /\ \A i \in 1..Len(Tail(outbox)) : Tail(outbox)[i] = outbox[i + 1]
    BY <1>1, HeadTailProperties
  <2>2. /\ Len(outbox) \in Nat \ {0} /\ DOMAIN outbox = 1..Len(outbox)
        /\ DOMAIN outbox' = 1..(Len(outbox) - 1)
    BY <1>1, <1>3, <2>1, EmptySeq, LenProperties
  <2>3. \A i \in 1..(Len(outbox) - 1) : outbox'[i] = outbox[i + 1]
    BY <1>3, <2>1, <2>2
  <2>4. Head(outbox) = outbox[1]
    BY <1>1
  <2>5. Head(outbox) \in [id : Ids, status : Statuses]
    BY <1>1, HeadTailProperties
  <2>6. \A i \in DOMAIN outbox : i # 1 => i - 1 \in DOMAIN outbox' /\ outbox'[i - 1] = outbox[i]
    BY <2>2, <2>3
  <2> QED BY <2>2, <2>3, <2>4, <2>5, <2>6
<1>5. ASSUME NEW id \in Ids PROVE ViewOf(id)'
  <2>1. ViewOf(id)
    BY DEF ViewInv
  <2>2. Seen(id)' <=> Seen(id)
    BY <1>2 DEF Seen
  <2>3. UpToDate(id) => UpToDate(id)'
    <3> SUFFICES ASSUME UpToDate(id) PROVE UpToDate(id)'
      OBVIOUS
    <3>1. \A i \in DOMAIN outbox' :
            outbox'[i].id = id => outbox'[i].status = Listed(records, sessions, id)
      BY <1>4 DEF UpToDate
    <3>2. CASE Head(outbox).id = id
      <4>1. view'[id] = Head(outbox).status
        BY <1>1, <1>3, <3>2
      <4>2. Head(outbox).status = Listed(records, sessions, id)
        BY <1>4, <3>2 DEF UpToDate
      <4> QED BY <1>2, <3>1, <4>1, <4>2 DEF UpToDate
    <3>3. CASE Head(outbox).id # id
      <4>1. view'[id] = view[id]
        BY <1>1, <1>3, <3>3
      <4>2. (\E i \in DOMAIN outbox : outbox[i].id = id) =>
              \E i \in DOMAIN outbox' : outbox'[i].id = id
        BY <1>4, <3>3
      <4> QED BY <1>2, <3>1, <4>1, <4>2 DEF UpToDate
    <3> QED BY <3>2, <3>3
  <2> QED BY <1>2, <2>1, <2>2, <2>3 DEF ViewOf
<1> QED BY <1>2, <1>5 DEF ViewInv

LEMMA FlushSeen == ASSUME RegistryInv, ViewInv, Flush PROVE ViewInv'
<1>1. records \in Records /\ sessions \in LiveSessions
  BY DEF RegistryInv, TypeOK, Records, LiveSessions
<1>2. UNCHANGED <<records, sessions, closed, watchVars, view, late, respawned, counts>>
  BY DEF Flush, storeVars, viewVars
<1>3. \A id \in Ids : records[id] = None => disk'[id] = None
  BY <1>1, FoldedFacts DEF Flush
<1>4. ASSUME NEW id \in Ids PROVE ViewOf(id)'
  <2>1. id \notin counts.spawned => disk'[id] = None
    BY <1>3 DEF ViewInv, ViewOf
  <2> QED BY <1>2, <2>1, OthersSeen
<1> QED BY <1>2, <1>4 DEF ViewInv

\* The next Engine's watcher has published nothing, and the App asks for the
\* list.
LEMMA RestartSeen == ASSUME RegistryInv, RegistryInv', ViewInv, Restart PROVE ViewInv'
<1>1. /\ records' \in Records /\ sessions' \in LiveSessions
  BY DEF RegistryInv, TypeOK, Records, LiveSessions
<1>2. /\ closed' = <<>> /\ outbox' = <<>>
      /\ disk' = IF records' = disk THEN disk ELSE Folded(records', sessions')
      /\ published' = [id \in Ids |-> None]
      /\ view' = [id \in Ids |-> Listed(records', sessions', id)]
  BY DEF Restart
<1>3. DOMAIN counts' = DOMAIN counts /\ counts'.spawned = counts.spawned
  BY DEF Restart, ViewInv
<1>4. \A id \in Ids : disk[id] = None => records'[id] = None
  BY DEF Restart, ReapOrphans
<1>5. ASSUME NEW id \in Ids PROVE ViewOf(id)'
  <2>1. UpToDate(id)' /\ published'[id] = None
    BY <1>2 DEF UpToDate
  <2>2. id \notin counts'.spawned => records'[id] = None /\ disk'[id] = None
    BY <1>1, <1>2, <1>3, <1>4, FoldedFacts DEF ViewInv, ViewOf
  <2> QED BY <2>1, <2>2 DEF ViewOf
<1> QED BY <1>2, <1>3, <1>5 DEF ViewInv

LEMMA ViewInvariant == Spec => []ViewInv
<1>1. Init => ViewInv
  BY DEF Init, ViewInv, ViewOf, UpToDate, Listed
<1>2. RegistryInv /\ RegistryInv' /\ ViewInv /\ [Next]_vars => ViewInv'
  <2> SUFFICES ASSUME RegistryInv, RegistryInv', ViewInv, [Next]_vars PROVE ViewInv'
    OBVIOUS
  <2>1. CASE Control
    BY <2>1, SpawnSeen, SpawnFailsSeen, KillSeen, SessionRemoveSeen, ArchiveSeen, UnarchiveSeen,
       ReopenSeen, ResumeSeen, ResumeLookSeen DEF Control
  <2>2. CASE Agents
    BY <2>2, ProcessDiesSeen, SessionChangesSeen DEF Agents
  <2>3. CASE Watch
    BY <2>3, PollSeen, WatcherPublishSeen DEF Watch
  <2>4. CASE UNCHANGED vars
    <3>1. UNCHANGED <<records, sessions, closed, disk, published, outbox, view, late,
                      respawned, counts>>
      BY <2>4 DEF vars, storeVars, diskVars, watchVars, viewVars
    <3> QED BY <3>1, UnlistedSeen
  <2> QED BY <2>1, <2>2, <2>3, <2>4, FlushSeen, RestartSeen, LoadBindingsSeen,
             RestoreRemoteSeen DEF Next
<1> QED BY <1>1, <1>2, RegistryInvariant, PTL DEF Spec

\* changed_since and the App's upsert_session: once the watcher has nothing
\* left to publish, every id that no older record overtook is listed with the
\* status it has.
THEOREM ListSettles == Spec => []ViewIsCurrent
<1>1. ViewInv => ViewIsCurrent
  BY DEF ViewInv, ViewOf, Seen, UpToDate, Changed, ViewIsCurrent
<1> QED BY <1>1, ViewInvariant, PTL
=============================================================================

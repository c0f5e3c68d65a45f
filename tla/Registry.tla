------------------------------ MODULE Registry ------------------------------
(***************************************************************************)
(* The Engine's registry (registry.rs), with the control methods that      *)
(* change it (control.rs), the watcher that publishes what changed on its  *)
(* own (events.rs), the state file, restarts, and the App's list of        *)
(* sessions (store/mod.rs), which follows session.updated and              *)
(* session.removed.                                                        *)
(*                                                                         *)
(* A control method runs under the registry lock and publishes before it   *)
(* lets go of it; the watcher publishes afterwards what it cloned under    *)
(* the lock. A session is what the registry sees of it: its status and     *)
(* its state version (SessionStatus says how they come about). A local     *)
(* session's process is owned by a Holder and survives the Engine: a       *)
(* restart adopts it, if the Holder answers, and a resume takes it over. A *)
(* hosted one is found again through its binding, by a thread that the     *)
(* restarted Engine runs beside the control methods.                       *)
(***************************************************************************)
EXTENDS Integers, Sequences, FiniteSets, SequencesExt

CONSTANTS
  Ids,         \* session ids
  Resumers,    \* connections that may call session.resume
  MaxVersion,  \* bound: state changes of one incarnation of a session
  MaxSpawns, MaxRequests, MaxRestarts,   \* bounds
  None

ASSUME RegistryAssumption ==
  /\ IsFiniteSet(Ids) /\ None \notin Ids
  /\ {MaxVersion, MaxSpawns, MaxRequests, MaxRestarts} \subseteq Nat

VARIABLES
  hosted,     \* the ids whose sessions live on another machine
  running,    \* the ids whose agent process runs
  bindings,   \* the remote binding store
  restore,    \* the remote restore: where it is, and the bindings it loaded
  sessions,   \* Registry::sessions
  records,    \* Registry::records
  closed,     \* Registry::recently_closed, newest last
  disk,       \* the state file
  dirty,      \* a persist was put off
  published,  \* the watcher: the versions it published
  outbox,     \* ... and the records it cloned and has still to publish
  view,       \* the App: the status it lists a session with, or None
  resuming,   \* per connection: the id session.resume looked at, or None
  late,       \* history: ids the App lists, or is to list, with an older record
  respawned,  \* history: published[id] is the version of a predecessor
  abandoned,  \* history: ids whose record or binding went while the process ran
  counts      \* the bounded events so far

storeVars == <<records, closed>>
diskVars == <<disk, dirty>>
watchVars == <<published, outbox>>
viewVars == <<view, late>>
vars == <<hosted, running, bindings, restore, sessions, storeVars, diskVars, watchVars,
          viewVars, resuming, respawned, abandoned, counts>>

Statuses == {"Starting", "Working", "Exited"}

\* fold_session_status: a live session knows better than its record.
Folded(recs, live) ==
  [id \in Ids |-> IF recs[id] # None /\ live[id] # None
                  THEN [recs[id] EXCEPT !.status = live[id].status] ELSE recs[id]]

Listed(recs, live, id) == IF recs[id] = None THEN None ELSE Folded(recs, live)[id].status

\* persist: at once, or within the debounce window by the flusher.
Persist(recs, live) ==
  \/ disk' = Folded(recs, live) /\ dirty' = FALSE
  \/ disk' = disk /\ dirty' = TRUE

\* publish_updated or session.removed, under the lock: the App applies events
\* in the order of the bus, and a record in the outbox is still to come.
Publish(id, recs, live) ==
  /\ view' = [view EXCEPT ![id] = Listed(recs, live, id)]
  /\ late' = IF \E i \in DOMAIN outbox : outbox[i].id = id
             THEN late \cup {id} ELSE late \ {id}

\* A call that fails after it dropped the session publishes nothing.
Silently(id) ==
  /\ UNCHANGED view
  /\ late' = late \cup {id}

\* Session::terminate, by what it returns and whether the agent still runs:
\* the error of a local kill_tree is dropped, a remote Holder that is out of
\* reach is an error unless the agent has exited.
Kills(id) ==
  {[ok |-> TRUE, left |-> FALSE],
   [ok |-> id \notin hosted \/ sessions[id].status = "Exited", left |-> id \in running]}

\* ... of a session that may not be live
KillsIfLive(id) ==
  IF sessions[id] = None THEN {[ok |-> FALSE, left |-> id \in running]} ELSE Kills(id)

\* Registry::terminate leaves the record alone unless the session ended.
After(id, kill) ==
  IF kill.ok THEN [records[id] EXCEPT !.status = "Exited"] ELSE records[id]

Request ==
  /\ counts.requests < MaxRequests
  /\ counts' = [counts EXCEPT !.requests = @ + 1]

Dropped(f, id) == [f EXCEPT ![id] = None]

\* The set with the id, or without it.
Marked(S, id, in) == IF in THEN S \cup {id} ELSE S \ {id}

\* An agent goes on while the Engine lets go of its record or its binding.
GivenUp(id, left) == IF left THEN abandoned \cup {id} ELSE abandoned

-----------------------------------------------------------------------------
(***************************************************************************)
(* Control methods.                                                        *)
(***************************************************************************)

\* session_spawn, session_spawn_remote: ids are never used twice.
Spawn(id) ==
  /\ id \notin counts.spawned /\ counts.spawns < MaxSpawns
  /\ counts' = [counts EXCEPT !.spawned = @ \cup {id}, !.spawns = @ + 1]
  /\ running' = running \cup {id}
  /\ bindings' = IF id \in hosted THEN bindings \cup {id} ELSE bindings
  /\ sessions' = [sessions EXCEPT ![id] = [status |-> "Starting", version |-> 0]]
  /\ records' = [records EXCEPT ![id] = [status |-> "Starting", archived |-> FALSE]]
  /\ Persist(records', sessions') /\ Publish(id, records', sessions')
  /\ UNCHANGED <<hosted, restore, closed, watchVars, resuming, respawned, abandoned>>

\* The Holder may have started its agent before the spawn failed: a local one
\* that is not awaited, a remote one whose kill failed. No record is made.
SpawnFails(id) ==
  /\ id \notin counts.spawned /\ counts.spawns < MaxSpawns
  /\ counts' = [counts EXCEPT !.spawned = @ \cup {id}, !.spawns = @ + 1]
  /\ running' = running \cup {id} /\ abandoned' = abandoned \cup {id}
  /\ UNCHANGED <<hosted, bindings, restore, sessions, storeVars, diskVars, watchVars,
                 viewVars, resuming, respawned>>

\* session_kill
Kill(id) ==
  /\ sessions[id] # None /\ Request
  /\ \E kill \in Kills(id) :
       /\ running' = Marked(running, id, kill.left)
       /\ sessions' = Dropped(sessions, id)
       /\ records' = [records EXCEPT ![id] = After(id, kill)]
       /\ bindings' = IF kill.ok THEN bindings \ {id} ELSE bindings
       /\ abandoned' = GivenUp(id, id \in hosted /\ kill.ok /\ kill.left)
       /\ IF kill.ok THEN Persist(records', sessions') /\ Publish(id, records', sessions')
          ELSE UNCHANGED diskVars /\ Silently(id)
  /\ UNCHANGED <<hosted, restore, closed, watchVars, resuming, respawned>>

\* The record goes and the process stays.
RemoveOnly(id) ==
  /\ records[id] # None /\ Request
  /\ sessions' = Dropped(sessions, id) /\ records' = Dropped(records, id)
  /\ closed' = Append(closed, [id |-> id, record |-> records[id]])
  /\ bindings' = bindings \ {id}
  /\ Persist(records', sessions') /\ Publish(id, records', sessions')
  /\ UNCHANGED <<hosted, running, restore, watchVars, resuming, respawned, abandoned>>

\* session_remove: whatever the terminate returned, the record and the
\* binding go; the closed stack keeps ten.
SessionRemove(id) ==
  /\ records[id] # None /\ Request
  /\ \E kill \in KillsIfLive(id) :
       /\ running' = Marked(running, id, kill.left)
       /\ closed' = Append(closed, [id |-> id, record |-> After(id, kill)])
       /\ abandoned' = GivenUp(id, kill.left)
  /\ sessions' = Dropped(sessions, id) /\ records' = Dropped(records, id)
  /\ bindings' = bindings \ {id}
  /\ Persist(records', sessions') /\ Publish(id, records', sessions')
  /\ UNCHANGED <<hosted, restore, watchVars, resuming, respawned>>

\* session_reopen_last
Reopen ==
  /\ closed # <<>> /\ Request
  /\ closed' = Front(closed)
  /\ records' = [records EXCEPT ![Last(closed).id] = Last(closed).record]
  /\ Persist(records', sessions) /\ Publish(Last(closed).id, records', sessions)
  /\ UNCHANGED <<hosted, running, bindings, restore, sessions, watchVars, resuming,
                 respawned, abandoned>>

\* session_archive: the binding stays, for the next Engine to clean up.
Archive(id) ==
  /\ records[id] # None /\ Request
  /\ \E kill \in KillsIfLive(id) : running' = Marked(running, id, kill.left)
  /\ sessions' = Dropped(sessions, id)
  /\ records' = [records EXCEPT ![id] = [status |-> "Exited", archived |-> TRUE]]
  /\ Persist(records', sessions') /\ Publish(id, records', sessions')
  /\ UNCHANGED <<hosted, bindings, restore, closed, watchVars, resuming, respawned,
                 abandoned>>

Unarchive(id) ==
  /\ records[id] # None /\ records[id].archived /\ Request
  /\ records' = [records EXCEPT ![id].archived = FALSE]
  /\ Persist(records', sessions) /\ Publish(id, records', sessions)
  /\ UNCHANGED <<hosted, running, bindings, restore, sessions, closed, watchVars,
                 resuming, respawned, abandoned>>

\* A live session is not resumed; one that exited on its own is still there.
Live(id) == sessions[id] # None /\ sessions[id].status # "Exited"

\* session_resume, the first look; the spec is built without the lock.
ResumeLook(r, id) ==
  /\ resuming[r] = None /\ records[id] # None /\ ~Live(id) /\ Request
  /\ resuming' = [resuming EXCEPT ![r] = id]
  /\ UNCHANGED <<hosted, running, bindings, restore, sessions, storeVars, diskVars,
                 watchVars, viewVars, respawned, abandoned>>

\* A remote Holder that is there refuses the id; a launch replaces the binding,
\* and what the restore loaded names an incarnation that is gone.
Relaunches(id, kill) == id \in hosted => ~kill.left
Superseded(id) == [restore EXCEPT !.found = @ \ {id}]

\* respawn under the same id, with a corpse evicted first. A local Holder that
\* is still alive is taken over, with the agent it has.
Respawn(id) ==
  /\ \E kill \in KillsIfLive(id) : Relaunches(id, kill)
  /\ running' = running \cup {id} /\ abandoned' = abandoned \ {id}
  /\ bindings' = IF id \in hosted THEN bindings \cup {id} ELSE bindings
  /\ restore' = Superseded(id)
  /\ sessions' = [sessions EXCEPT ![id] = [status |-> "Starting", version |-> 0]]
  /\ records' = [records EXCEPT ![id].status = "Starting"]
  /\ respawned' = IF published[id] # None THEN respawned \cup {id} ELSE respawned
  /\ Persist(records', sessions') /\ Publish(id, records', sessions')
  /\ UNCHANGED <<hosted, closed, watchVars>>

\* The spawn failed after the corpse was evicted: nothing is saved or
\* published. Either no Holder was started, or a local one was not awaited, or
\* a remote launch was undone with its binding and a kill that may have failed.
RespawnFails(id) ==
  /\ \E kill \in KillsIfLive(id), started \in BOOLEAN :
       /\ started => Relaunches(id, kill)
       /\ records' = [records EXCEPT ![id] = After(id, kill)]
       /\ IF started /\ id \in hosted
          THEN /\ bindings' = bindings \ {id} /\ restore' = Superseded(id)
               /\ \E left \in BOOLEAN :
                    running' = Marked(running, id, left) /\ abandoned' = GivenUp(id, left)
          ELSE /\ running' = Marked(running, id, started \/ kill.left)
               /\ UNCHANGED <<bindings, restore, abandoned>>
  /\ sessions' = Dropped(sessions, id)
  /\ Silently(id)
  /\ UNCHANGED <<hosted, closed, diskVars, watchVars, respawned>>

\* The second look is left out: the session that is there is evicted.
ResumeBlindly(r) ==
  LET id == resuming[r]
  IN  /\ id # None
      /\ resuming' = [resuming EXCEPT ![r] = None]
      /\ records[id] # None
      /\ Respawn(id) \/ RespawnFails(id)
      /\ UNCHANGED counts

\* session_resume, under the lock again
Resume(r) ==
  LET id == resuming[r]
  IN  /\ id # None
      /\ resuming' = [resuming EXCEPT ![r] = None]
      /\ IF records[id] # None /\ ~Live(id)
         THEN Respawn(id) \/ RespawnFails(id)
         ELSE UNCHANGED <<hosted, running, bindings, restore, sessions, storeVars, diskVars,
                          watchVars, viewVars, respawned, abandoned>>
      /\ UNCHANGED counts

-----------------------------------------------------------------------------
(***************************************************************************)
(* Sessions, the watcher and the flusher.                                  *)
(***************************************************************************)

\* An agent ends.
ProcessDies(id) ==
  /\ id \in running
  /\ running' = running \ {id} /\ abandoned' = abandoned \ {id}
  /\ UNCHANGED <<hosted, bindings, restore, sessions, storeVars, diskVars, watchVars,
                 viewVars, resuming, respawned, counts>>

\* A pump applies an outcome: the status and its version. A remote stream that
\* fails in its handshake shows the exit of an agent that runs (RemoteStream).
SessionChanges(id) ==
  /\ Live(id) /\ sessions[id].version < MaxVersion
  /\ \E s \in {"Working", "Exited"} \ {sessions[id].status} :
       /\ s = "Exited" => id \notin running \/ id \in hosted
       /\ sessions' = [sessions EXCEPT ![id] = [status |-> s, version |-> @.version + 1]]
  /\ UNCHANGED <<hosted, running, bindings, restore, storeVars, diskVars, watchVars,
                 viewVars, resuming, respawned, abandoned, counts>>

Changed == {id \in Ids : sessions[id] # None /\ sessions[id].version # published[id]}

\* The records are cloned before the session's state is folded in.
PollUnfolded ==
  /\ outbox = <<>> /\ Changed # {}
  /\ published' = [id \in Ids |-> IF sessions[id] = None THEN None
                                  ELSE sessions[id].version]
  /\ outbox' = SetToSeq({[id |-> id, status |-> records[id].status] : id \in Changed})
  /\ late' = late \ Changed /\ respawned' = respawned \ Changed
  /\ UNCHANGED <<hosted, running, bindings, restore, sessions, storeVars, diskVars, view,
                 resuming, abandoned, counts>>

\* changed_since
Poll ==
  /\ outbox = <<>>
  /\ Changed # {} \/ \E id \in Ids : sessions[id] = None /\ published[id] # None
  /\ published' = [id \in Ids |-> IF sessions[id] = None THEN None
                                  ELSE sessions[id].version]
  /\ records' = [id \in Ids |-> IF id \in Changed THEN Folded(records, sessions)[id]
                                ELSE records[id]]
  /\ outbox' = SetToSeq({[id |-> id, status |-> sessions[id].status] : id \in Changed})
  /\ late' = late \ Changed
  /\ respawned' = respawned \ (Changed \cup {id \in Ids : sessions[id] = None})
  /\ UNCHANGED <<hosted, running, bindings, restore, sessions, closed, diskVars, view,
                 resuming, abandoned, counts>>

\* The watcher's loop after the lock: upsert_session lists the id, known or
\* not.
WatcherPublish ==
  /\ outbox # <<>>
  /\ view' = [view EXCEPT ![Head(outbox).id] = Head(outbox).status]
  /\ outbox' = Tail(outbox)
  /\ UNCHANGED <<hosted, running, bindings, restore, sessions, storeVars, diskVars,
                 published, late, resuming, respawned, abandoned, counts>>

\* spawn_persist_flusher
Flush ==
  /\ dirty
  /\ disk' = Folded(records, sessions) /\ dirty' = FALSE
  /\ UNCHANGED <<hosted, running, bindings, restore, sessions, storeVars, watchVars,
                 viewVars, resuming, respawned, abandoned, counts>>

-----------------------------------------------------------------------------
(***************************************************************************)
(* The Engine ends, and another one loads the state file.                  *)
(***************************************************************************)

\* adopt_with_status and adopt_remote: an exited record seeds nothing.
Seeded(record) ==
  [status |-> IF record.status = "Exited" THEN "Starting" ELSE record.status,
   version |-> 0]

\* No record is looked at once the holders were adopted.
ReapNothing(adopted) == disk

\* reap_orphans: what no live session backs has exited.
ReapOrphans(adopted) ==
  [id \in Ids |-> IF disk[id] # None /\ id \notin hosted \cup adopted
                  THEN [disk[id] EXCEPT !.status = "Exited"] ELSE disk[id]]

\* load and restore. A local agent is adopted if its Holder answers the stat
\* and the adoption succeeds; its record has exited otherwise, and it runs on.
\* Only a reaped record is saved.
Restart ==
  /\ counts.restarts < MaxRestarts
  /\ counts' = [counts EXCEPT !.restarts = @ + 1]
  /\ \E adopted \in SUBSET {id \in running \ hosted : disk[id] # None} :
       /\ records' = ReapOrphans(adopted)
       /\ sessions' = [id \in Ids |-> IF id \in adopted THEN Seeded(disk[id]) ELSE None]
       /\ abandoned' = (abandoned \ adopted) \cup {id \in running : disk[id] = None}
  /\ disk' = IF records' = disk THEN disk ELSE Folded(records', sessions')
  /\ dirty' = FALSE /\ closed' = <<>>
  /\ restore' = [pc |-> "due", found |-> {}]
  /\ published' = [id \in Ids |-> None] /\ outbox' = <<>>
  /\ view' = [id \in Ids |-> Listed(records', sessions', id)]
  /\ resuming' = [r \in Resumers |-> None]
  /\ late' = {} /\ respawned' = {}
  /\ UNCHANGED <<hosted, running, bindings>>

\* spawn_remote_restore: the bindings are loaded before the lock is taken ...
LoadBindings ==
  /\ restore.pc = "due"
  /\ restore' = [pc |-> "loaded", found |-> bindings]
  /\ UNCHANGED <<hosted, running, bindings, sessions, storeVars, diskVars, watchVars,
                 viewVars, resuming, respawned, abandoned, counts>>

\* A binding whose record or whose agent has exited is retired, one whose agent
\* runs by both is adopted, also over the session that a resume has started
\* meanwhile.
Retirable == {id \in restore.found :
                records[id] # None /\ (Listed(records, sessions, id) = "Exited" \/ id \notin running)}
Adoptable == {id \in restore.found \cap running :
                records[id] # None /\ Listed(records, sessions, id) # "Exited"}

\* ... and restore_remote_bindings goes through them under it. A host that is
\* out of reach and an adoption that fails are passed over, and the error of
\* the kill is dropped. Nothing is saved or published.
RestoreRemote ==
  /\ restore.pc = "loaded"
  /\ restore' = [pc |-> "done", found |-> {}]
  /\ \E retired \in SUBSET Retirable, adopted \in SUBSET Adoptable :
     \E killed \in SUBSET retired :
       /\ sessions' = [id \in Ids |-> IF id \in adopted THEN Seeded(records[id])
                                      ELSE sessions[id]]
       /\ bindings' = bindings \ retired
       /\ running' = running \ killed
       /\ abandoned' = abandoned \cup ((retired \ killed) \cap running)
       /\ respawned' = respawned \cup {id \in adopted : published[id] # None}
  /\ UNCHANGED <<hosted, storeVars, diskVars, watchVars, viewVars, resuming, counts>>

-----------------------------------------------------------------------------
Init ==
  /\ hosted \in SUBSET Ids
  /\ running = {} /\ bindings = {} /\ restore = [pc |-> "done", found |-> {}]
  /\ sessions = [id \in Ids |-> None] /\ records = [id \in Ids |-> None]
  /\ closed = <<>> /\ disk = [id \in Ids |-> None] /\ dirty = FALSE
  /\ published = [id \in Ids |-> None] /\ outbox = <<>>
  /\ view = [id \in Ids |-> None] /\ late = {}
  /\ resuming = [r \in Resumers |-> None]
  /\ respawned = {} /\ abandoned = {}
  /\ counts = [spawned |-> {}, spawns |-> 0, requests |-> 0, restarts |-> 0]

Control ==
  \/ \E id \in Ids :
       \/ Spawn(id) \/ SpawnFails(id)
       \/ Kill(id) \/ SessionRemove(id) \/ Archive(id) \/ Unarchive(id)
  \/ Reopen
  \/ \E r \in Resumers : Resume(r) \/ \E id \in Ids : ResumeLook(r, id)
Agents == \E id \in Ids : ProcessDies(id) \/ SessionChanges(id)
Watch == Poll \/ WatcherPublish

Next == Control \/ Agents \/ Watch \/ Flush \/ Restart \/ LoadBindings \/ RestoreRemote

Spec == Init /\ [][Next]_vars

-----------------------------------------------------------------------------
(***************************************************************************)
(* Properties.                                                             *)
(***************************************************************************)
RecordType == [status : Statuses, archived : BOOLEAN]
SessionType == [status : Statuses, version : 0..MaxVersion]

\* Option::None is none of the values it stands in for.
ASSUME NoneAssumption ==
  None \notin Nat /\ None \notin Statuses /\ None \notin RecordType /\ None \notin SessionType

\* Every variable stays in its type.
TypeOK ==
  /\ hosted \subseteq Ids /\ running \subseteq Ids /\ bindings \subseteq hosted
  /\ restore \in [pc : {"due", "loaded", "done"}, found : SUBSET hosted]
  /\ sessions \in [Ids -> SessionType \cup {None}]
  /\ records \in [Ids -> RecordType \cup {None}] /\ disk \in [Ids -> RecordType \cup {None}]
  /\ closed \in Seq([id : Ids, record : RecordType]) /\ dirty \in BOOLEAN
  /\ published \in [Ids -> 0..MaxVersion \cup {None}]
  /\ outbox \in Seq([id : Ids, status : Statuses])
  /\ view \in [Ids -> Statuses \cup {None}]
  /\ resuming \in [Resumers -> Ids \cup {None}]
  /\ late \cup respawned \cup abandoned \subseteq Ids

\* reap_orphans: "a record can never go on claiming a status only a live
\* holder could report". A local record that has not exited has a session.
NoGhost ==
  \A id \in Ids \ hosted :
    records[id] # None /\ records[id].status # "Exited" => sessions[id] # None

\* session_resume looks twice: whatever came between its looks, a live session
\* is ended, dropped or replaced only by a request to do so, by the end of the
\* Engine, or by the restore of its binding.
LiveSessionStays ==
  [][\A id \in Ids :
       Live(id) /\ UNCHANGED counts /\ restore'.pc = restore.pc =>
         /\ sessions'[id] # None /\ sessions'[id].version >= sessions[id].version
         /\ id \in running \ running' => UNCHANGED sessions]_vars

\* A running agent can be found again: it has a record that a resume starts
\* from, a hosted one has its binding; and once the persist that was put off
\* has been made, the next Engine finds the record too, and does not take a
\* hosted agent for one to retire. Otherwise the record or the binding was let
\* go while the agent ran, in one of the ways that put it among the abandoned.
NoLostProcess ==
  \A id \in running \ abandoned :
    /\ records[id] # None
    /\ id \in hosted => id \in bindings
    /\ ~dirty => disk[id] # None
    /\ ~dirty /\ id \in hosted /\ Listed(records, sessions, id) # "Exited" =>
         disk[id].status # "Exited"

\* Once the watcher has nothing left to publish the App lists every session
\* with the status it has, unless an older record was published over a newer
\* one, a call that failed dropped the session before its last change was
\* published, or a successor reached its predecessor's published version.
ViewIsCurrent ==
  Changed = {} /\ outbox = <<>> =>
    \A id \in Ids \ (late \cup respawned) : view[id] = Listed(records, sessions, id)
=============================================================================

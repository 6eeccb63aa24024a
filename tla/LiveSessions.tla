----------------------------- MODULE LiveSessions -----------------------------
(***************************************************************************)
(* Which sessions are in use: the registry ~/.forge/sessions/active.json   *)
(* (session/active.py), the launches that register in it (resume and start *)
(* in cli/session.py, track_active_session), and the age-based cleanup     *)
(* that relies on it (session/cleanup.py), run at every CLI start-up.      *)
(*                                                                         *)
(* Each registry operation runs under the lock of the file and is a step;  *)
(* reading an entry, probing whether it is live and pruning it are three   *)
(* steps.  A launcher process has a pid, which the system reuses; a        *)
(* sidecar launch also has a container, named after the session without    *)
(* its project, that outlives a launcher killed.                           *)
(***************************************************************************)
EXTENDS Integers

CONSTANTS
    Calls,        \* calls of forge session start, resume and delete, made once
    Cleaners,     \* start-ups of the CLI that clean up old sessions, once
    Sessions,     \* sessions, by name and project
    ContainerOf,  \* ContainerOf[s]: "forge-<name>"
    Sidecar,      \* sessions whose intent is to run in a container
    Pids, None,
    MaxFaults,    \* bound: registry operations that raise
    MaxBlind,     \* bound: passes in which docker ps does not answer
    MaxCrashes    \* bound: launchers that are killed

ASSUME LiveSessionsAssumption ==
    /\ None \notin Calls \cup Sessions \cup Pids
    /\ Sidecar \subseteq Sessions
    /\ DOMAIN ContainerOf = Sessions
    /\ MaxFaults \in Nat /\ MaxBlind \in Nat /\ MaxCrashes \in Nat

Containers == {ContainerOf[s] : s \in Sessions}

VARIABLES
    known,      \* sessions with a manifest and an index entry
    old,        \* those not accessed for longer than the retention period
    confirmed,  \* those with evidence of a Claude conversation
    entry,      \* the registry: [pid, sidecar, by] or None, by session
    box,        \* the launch whose Claude runs in each container, or None
    foreign,    \* pids of processes that have nothing to do with Forge
    goal,       \* calls: "start", "resume", "delete" or None
    pc, ses, pid, peek,   \* calls: place, session, pid, entry looked at
    at, cand, seen,       \* cleaners: place, sessions to delete, entries read
    gone,                 \* cleaners: the session just deleted, or None
    watched,    \* history: calls running and registered when a cleaner read,
                \* whose entry no command has replaced or cleared since
    faults, blind, crashes

stores == <<known, old, confirmed>>
made == <<goal, ses, pid>>
calls == <<made, pc, peek>>
scan == <<at, cand, seen, gone>>
cleaners == <<scan, watched>>
bounds == <<faults, blind, crashes>>
vars == <<stores, entry, box, foreign, calls, cleaners, bounds>>

Entry == [pid : Pids, sidecar : BOOLEAN, by : Calls]

ASSUME EntryAssumption == None \notin Entry

Ended == {"done", "killed"}
NoEntries == [s \in Sessions |-> None]

Init ==
    /\ known \in SUBSET Sessions
    /\ old \in SUBSET known /\ confirmed \in SUBSET known
    /\ entry = NoEntries
    /\ box = [b \in Containers |-> None]
    /\ foreign = {}
    /\ goal = [l \in Calls |-> None]
    /\ pc = [l \in Calls |-> "idle"] /\ ses = [l \in Calls |-> None]
    /\ pid = [l \in Calls |-> None] /\ peek = [l \in Calls |-> None]
    /\ at = [c \in Cleaners |-> "idle"] /\ cand = [c \in Cleaners |-> {}]
    /\ seen = [c \in Cleaners |-> NoEntries] /\ gone = [c \in Cleaners |-> None]
    /\ watched = [c \in Cleaners |-> {}]
    /\ faults = 0 /\ blind = 0 /\ crashes = 0

Goto(l, to) == pc' = [pc EXCEPT ![l] = to]
At(c, to) == at' = [at EXCEPT ![c] = to]
Fault == faults < MaxFaults /\ faults' = faults + 1 /\ UNCHANGED <<blind, crashes>>

-----------------------------------------------------------------------------
(* Liveness (_entry_is_live).                                              *)

Taken == foreign \cup {pid[l] : l \in {m \in Calls : pc[m] \notin Ended \cup {"idle"}}}

\* The container answers for a sidecar entry, or the launcher for any.  When
\* docker cannot be asked (sighted is FALSE) the container counts as stopped.
Live(s, e, sighted) ==
    \/ sighted /\ e.sidecar /\ box[ContainerOf[s]] # None
    \/ e.pid \in Taken

Listed(entries) == {s \in Sessions : entries[s] # None}

StaleIn(entries, sighted) == {s \in Listed(entries) : ~Live(s, entries[s], sighted)}

\* A pass over the registry asks docker, in vain or not.
Sight(sighted) ==
    \/ sighted /\ UNCHANGED bounds
    \/ ~sighted /\ blind < MaxBlind /\ blind' = blind + 1 /\ UNCHANGED <<faults, crashes>>

Forget(s) ==
    /\ known' = known \ {s}
    /\ old' = old \ {s}
    /\ confirmed' = confirmed \ {s}

\* Another entry, or none, takes the place of the one s has.
SetEntry(s, e) ==
    /\ entry' = [entry EXCEPT ![s] = e]
    /\ watched' = [c \in Cleaners |-> {l \in watched[c] : ses[l] # s}]

\* clear_session(): by name, whoever registered it.
ClearSession(s) == SetEntry(s, None)

-----------------------------------------------------------------------------
(* Launches and deletes.                                                   *)

Begin(l, what, s, to) ==
    /\ pc[l] = "idle"
    /\ goal' = [goal EXCEPT ![l] = what]
    /\ \E q \in Pids \ Taken : pid' = [pid EXCEPT ![l] = q]
    /\ ses' = [ses EXCEPT ![l] = s]
    /\ Goto(l, to)
    /\ UNCHANGED <<entry, box, foreign, peek, cleaners, bounds>>

\* start: a new session.
Start(l, s) ==
    /\ s \notin known
    /\ Begin(l, "start", s, "register")
    /\ known' = known \cup {s}
    /\ UNCHANGED <<old, confirmed>>

\* resume: a session never used is launched in place, without a look at the
\* registry; one with a conversation is reconnected when it is not active.
Resume(l, s) ==
    /\ s \in known
    /\ Begin(l, "resume", s, IF s \in confirmed THEN "look" ELSE "switch")
    /\ UNCHANGED stores

\* delete: also looks at the registry first.
Delete(l, s) ==
    /\ s \in known
    /\ Begin(l, "delete", s, "look")
    /\ UNCHANGED stores

\* An active session is not resumed; for a delete it is only a warning.
IfActive(l) == IF goal[l] = "delete" THEN "forget" ELSE "done"
IfFree(l) == IF goal[l] = "delete" THEN "forget" ELSE "switch"

\* _get_active_session_entry(): an error counts as "not active".
Look(l) ==
    /\ pc[l] = "look"
    /\ \/ /\ peek' = [peek EXCEPT ![l] = entry[ses[l]]]
          /\ Goto(l, IF entry[ses[l]] = None THEN IfFree(l) ELSE "probe")
          /\ UNCHANGED bounds
       \/ /\ Fault
          /\ Goto(l, IfFree(l))
          /\ UNCHANGED peek
    /\ UNCHANGED <<stores, entry, box, foreign, made, cleaners>>

Probe(l) ==
    /\ pc[l] = "probe"
    /\ \E sighted \in BOOLEAN :
         /\ Sight(sighted)
         /\ Goto(l, IF Live(ses[l], peek[l], sighted) THEN IfActive(l) ELSE "drop")
    /\ peek' = [peek EXCEPT ![l] = None]
    /\ UNCHANGED <<stores, entry, box, foreign, made, cleaners>>

\* get_session() looks again under the lock before it prunes.
DropStale(l) ==
    /\ pc[l] = "drop"
    /\ \/ \E sighted \in BOOLEAN :
            LET s == ses[l]
                alive == s \in Listed(entry) \ StaleIn(entry, sighted)
            IN  /\ Sight(sighted)
                /\ entry' = IF alive THEN entry ELSE [entry EXCEPT ![s] = None]
                /\ Goto(l, IF alive THEN IfActive(l) ELSE IfFree(l))
       \/ /\ Fault
          /\ Goto(l, IfFree(l))
          /\ UNCHANGED entry
    /\ UNCHANGED <<stores, box, foreign, made, peek, cleaners>>

\* switch_session() stamps the access time.
Switch(l) ==
    /\ pc[l] = "switch"
    /\ \/ /\ ses[l] \in known
          /\ old' = old \ {ses[l]}
          /\ Goto(l, "register")
       \/ /\ ses[l] \notin known
          /\ Goto(l, "done")
          /\ UNCHANGED old
    /\ UNCHANGED <<known, confirmed, entry, box, foreign, made, peek, cleaners, bounds>>

\* upsert_session() replaces whatever entry the session has; an error is logged.
Register(l) ==
    /\ pc[l] = "register"
    /\ \/ /\ SetEntry(ses[l], [pid |-> pid[l], sidecar |-> ses[l] \in Sidecar, by |-> l])
          /\ UNCHANGED bounds
       \/ /\ Fault
          /\ UNCHANGED <<entry, watched>>
    /\ Goto(l, "launch")
    /\ UNCHANGED <<stores, box, foreign, made, peek, scan>>

\* The runner: Claude on the host, or docker run, which fails when a container
\* of that name exists.
Run(l) ==
    /\ pc[l] = "launch"
    /\ \/ /\ ses[l] \notin Sidecar
          /\ Goto(l, "running")
          /\ UNCHANGED box
       \/ /\ ses[l] \in Sidecar /\ box[ContainerOf[ses[l]]] = None
          /\ box' = [box EXCEPT ![ContainerOf[ses[l]]] = l]
          /\ Goto(l, "running")
       \/ /\ ses[l] \in Sidecar /\ box[ContainerOf[ses[l]]] # None
          /\ Goto(l, "clear")
          /\ UNCHANGED box
    /\ UNCHANGED <<stores, entry, foreign, made, peek, cleaners, bounds>>

\* The SessionStart hook, when it gets the manifest's lock in time.
Confirm(l) ==
    /\ pc[l] = "running"
    /\ ses[l] \in known
    /\ confirmed' = confirmed \cup {ses[l]}
    /\ UNCHANGED <<known, old, entry, box, foreign, calls, cleaners, bounds>>

Exit(l) ==
    /\ pc[l] = "running"
    /\ box' = [b \in Containers |-> IF box[b] = l THEN None ELSE box[b]]
    /\ Goto(l, "clear")
    /\ UNCHANGED <<stores, entry, foreign, made, peek, cleaners, bounds>>

\* delete_session(), all of it but the end; it fails on a session that is gone.
ForgetSession(l) ==
    /\ pc[l] = "forget"
    /\ \/ /\ ses[l] \in known
          /\ Forget(ses[l])
          /\ Goto(l, "clear")
       \/ /\ ses[l] \notin known
          /\ Goto(l, "done")
          /\ UNCHANGED stores
    /\ UNCHANGED <<entry, box, foreign, made, peek, cleaners, bounds>>

\* The end of a launch (finally) and of a delete clear the session's entry,
\* whoever wrote it.
ClearOwn(l) ==
    /\ pc[l] = "clear"
    /\ \/ /\ ClearSession(ses[l])
          /\ UNCHANGED bounds
       \/ /\ Fault
          /\ UNCHANGED <<entry, watched>>
    /\ Goto(l, "done")
    /\ UNCHANGED <<stores, box, foreign, made, peek, scan>>

\* The launcher is killed; the container, if it has one, goes on.
Kill(l) ==
    /\ pc[l] \notin Ended \cup {"idle"}
    /\ crashes < MaxCrashes
    /\ crashes' = crashes + 1
    /\ Goto(l, "killed")
    /\ UNCHANGED <<stores, entry, box, foreign, made, peek, cleaners, faults, blind>>

StopContainer(b) ==
    /\ box[b] # None
    /\ pc[box[b]] = "killed"
    /\ box' = [box EXCEPT ![b] = None]
    /\ UNCHANGED <<stores, entry, foreign, calls, cleaners, bounds>>

-----------------------------------------------------------------------------
(* clean_old_sessions().                                                   *)

Runs(l) == pc[l] = "running" \/ \E b \in Containers : box[b] = l

Registered(l) == entry[ses[l]] # None /\ entry[ses[l]].by = l

ListOld(c) ==
    /\ at[c] = "idle"
    /\ known \cap old # {}
    /\ cand' = [cand EXCEPT ![c] = known \cap old]
    /\ At(c, "read")
    /\ UNCHANGED <<stores, entry, box, foreign, calls, seen, gone, watched, bounds>>

\* Mutant: an unreadable registry is taken for an empty one.
ReadRegistryFailOpen(c) ==
    /\ at[c] = "read"
    /\ watched' = [watched EXCEPT ![c] = {l \in Calls : Runs(l) /\ Registered(l)}]
    /\ \/ /\ seen' = [seen EXCEPT ![c] = entry]
          /\ At(c, "probe")
          /\ UNCHANGED bounds
       \/ /\ Fault
          /\ At(c, "delete")
          /\ UNCHANGED seen
    /\ UNCHANGED <<stores, entry, box, foreign, calls, cand, gone>>

\* list_sessions(); "Fail-closed": an error ends the cleanup.
ReadRegistry(c) ==
    /\ at[c] = "read"
    /\ watched' = [watched EXCEPT ![c] = {l \in Calls : Runs(l) /\ Registered(l)}]
    /\ \/ /\ seen' = [seen EXCEPT ![c] = entry]
          /\ At(c, "probe")
          /\ UNCHANGED bounds
       \/ /\ Fault
          /\ At(c, "done")
          /\ UNCHANGED seen
    /\ UNCHANGED <<stores, entry, box, foreign, calls, cand, gone>>

\* Nothing to prune: the entries read are the active sessions.
ProbeAll(c) ==
    /\ at[c] = "probe"
    /\ \E sighted \in BOOLEAN :
         LET stale == StaleIn(seen[c], sighted) IN
         /\ Sight(sighted)
         /\ seen' = [seen EXCEPT ![c] =
                        [s \in Sessions |-> IF s \in stale THEN @[s] ELSE None]]
         /\ \/ /\ stale = {}
               /\ cand' = [cand EXCEPT ![c] = @ \ Listed(seen[c])]
               /\ At(c, "delete")
            \/ /\ stale # {}
               /\ At(c, "prune")
               /\ UNCHANGED cand
    /\ UNCHANGED <<stores, entry, box, foreign, calls, gone, watched>>

\* Mutant: the prune drops what it listed, live or not.
PruneAllUnchecked(c) ==
    /\ at[c] = "prune"
    /\ entry' = [s \in Sessions |-> IF s \in Listed(seen[c]) THEN None ELSE entry[s]]
    /\ cand' = [cand EXCEPT ![c] = @ \ Listed(entry')]
    /\ At(c, "delete")
    /\ UNCHANGED <<stores, box, foreign, calls, seen, gone, watched, bounds>>

\* The stale keys are probed again under the lock; what is left is active.
PruneAll(c) ==
    /\ at[c] = "prune"
    /\ \/ \E sighted \in BOOLEAN :
            /\ Sight(sighted)
            /\ entry' = [s \in Sessions |->
                            IF s \in Listed(seen[c]) \cap StaleIn(entry, sighted)
                            THEN None ELSE entry[s]]
            /\ cand' = [cand EXCEPT ![c] = @ \ Listed(entry')]
            /\ At(c, "delete")
       \/ /\ Fault
          /\ At(c, "done")
          /\ UNCHANGED <<entry, cand>>
    /\ seen' = [seen EXCEPT ![c] = NoEntries]
    /\ UNCHANGED <<stores, box, foreign, calls, gone, watched>>

\* delete_session() of one candidate; one that is gone is reported as failed.
DeleteOld(c) ==
    /\ at[c] = "delete"
    /\ \/ /\ cand[c] = {}
          /\ At(c, "done")
          /\ UNCHANGED <<stores, cand, gone>>
       \/ \E s \in cand[c] :
            /\ cand' = [cand EXCEPT ![c] = @ \ {s}]
            /\ \/ /\ s \in known
                  /\ Forget(s)
                  /\ gone' = [gone EXCEPT ![c] = s]
                  /\ At(c, "clear")
               \/ /\ s \notin known
                  /\ UNCHANGED <<stores, at, gone>>
    /\ UNCHANGED <<entry, box, foreign, calls, seen, watched, bounds>>

\* The end of its delete_session(): clear_session(), best effort.
ClearDeleted(c) ==
    /\ at[c] = "clear"
    /\ \/ /\ ClearSession(gone[c])
          /\ UNCHANGED bounds
       \/ /\ Fault
          /\ UNCHANGED <<entry, watched>>
    /\ gone' = [gone EXCEPT ![c] = None]
    /\ At(c, "delete")
    /\ UNCHANGED <<stores, box, foreign, calls, cand, seen>>

-----------------------------------------------------------------------------
(* Time and the rest of the system.                                        *)

\* The retention period of a session passes, while no command works on it.
Age(s) ==
    /\ s \in known \ old
    /\ \A l \in Calls : ses[l] = s => pc[l] \in Ended \cup {"running"}
    /\ old' = old \cup {s}
    /\ UNCHANGED <<known, confirmed, entry, box, foreign, calls, cleaners, bounds>>

\* A pid that was a launcher's is given to another process, which may exit.
ReusePid(q) ==
    /\ q \notin Taken
    /\ \E l \in Calls : pid[l] = q
    /\ foreign' = foreign \cup {q}
    /\ UNCHANGED <<stores, entry, box, calls, cleaners, bounds>>

FreePid(q) ==
    /\ q \in foreign
    /\ foreign' = foreign \ {q}
    /\ UNCHANGED <<stores, entry, box, calls, cleaners, bounds>>

Next ==
    \/ \E l \in Calls :
          \/ \E s \in Sessions : Start(l, s) \/ Resume(l, s) \/ Delete(l, s)
          \/ Look(l) \/ Probe(l) \/ DropStale(l) \/ Switch(l)
          \/ Register(l) \/ Run(l) \/ Confirm(l) \/ Exit(l) \/ Kill(l)
          \/ ForgetSession(l) \/ ClearOwn(l)
    \/ \E c \in Cleaners :
          \/ ListOld(c) \/ ReadRegistry(c) \/ ProbeAll(c) \/ PruneAll(c)
          \/ DeleteOld(c) \/ ClearDeleted(c)
    \/ \E b \in Containers : StopContainer(b)
    \/ \E s \in Sessions : Age(s)
    \/ \E q \in Pids : ReusePid(q) \/ FreePid(q)

Spec == Init /\ [][Next]_vars

-----------------------------------------------------------------------------

\* The shape of the state.
TypeOK ==
    /\ old \cup confirmed \subseteq known /\ known \subseteq Sessions
    /\ entry \in [Sessions -> Entry \cup {None}]
    /\ box \in [Containers -> Calls \cup {None}]
    /\ foreign \subseteq Pids
    /\ pid \in [Calls -> Pids \cup {None}]
    /\ ses \in [Calls -> Sessions \cup {None}]
    /\ peek \in [Calls -> Entry \cup {None}]
    /\ cand \in [Cleaners -> SUBSET Sessions]
    /\ seen \in [Cleaners -> [Sessions -> Entry \cup {None}]]
    /\ gone \in [Cleaners -> Sessions \cup {None}]
    /\ watched \in [Cleaners -> SUBSET Calls]

\* Pruning drops no entry that is live when it is dropped, whatever was read or
\* probed before and whoever registers meanwhile (unless docker does not
\* answer): any other entry goes with the end of a launch of its session or
\* with its session.
PruneOnlyDead ==
    [][\A s \in Sessions : entry[s] # None /\ entry'[s] = None =>
          \/ ~Live(s, entry[s], TRUE)
          \/ blind' > blind
          \/ \E l \in Calls : ses[l] = s /\ pc[l] = "clear" /\ pc'[l] = "done"
          \/ \E c \in Cleaners : gone[c] = s /\ gone'[c] = None]_vars

\* The sessions c deletes in a step for their age.
Cleans(c) == IF at[c] = "delete" /\ cand'[c] # cand[c] THEN known \ known' ELSE {}

\* "Active sessions (per ActiveSessionStore) are always skipped"
\* (clean_old_sessions): cleanup deletes no session whose Claude was registered
\* and running when it read the registry and still runs, though launchers are
\* killed, pids reused and registry operations fail.  Docker must answer, and no
\* other launch or delete of the session may replace or clear its entry meanwhile.
CleanupSparesTheRunning ==
    [][\A c \in Cleaners : \A l \in watched[c] :
          ses[l] \in Cleans(c) => ~Runs(l) \/ blind > 0]_vars

\* The registry is well formed, and what readers prune from it was dead.
RegistryIsSound == []TypeOK /\ PruneOnlyDead
=============================================================================

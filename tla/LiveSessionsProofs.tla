-------------------------- MODULE LiveSessionsProofs --------------------------
(***************************************************************************)
(* Proofs about LiveSessions for any set of sessions, calls, cleaners and  *)
(* pids, and any bounds.                                                   *)
(***************************************************************************)
EXTENDS LiveSessions, TLAPS

\* The parts of the inductive invariant that no run checks by themselves.

CallPoints == {"idle", "look", "probe", "drop", "switch", "register", "launch",
               "running", "forget", "clear", "done", "killed"}
CleanerPoints == {"idle", "read", "probe", "prune", "delete", "clear", "done"}

\* A call that has begun has a session and a pid; one that probes has read an
\* entry, and a cleaner that clears has deleted a session.
PlacesOK ==
    /\ pc \in [Calls -> CallPoints] /\ at \in [Cleaners -> CleanerPoints]
    /\ DOMAIN goal = Calls /\ faults \in Nat /\ blind \in Nat /\ crashes \in Nat
    /\ \A l \in Calls : pc[l] # "idle" => ses[l] \in Sessions /\ pid[l] \in Pids
    /\ \A l \in Calls : pc[l] = "probe" => peek[l] # None
    /\ \A c \in Cleaners : at[c] = "clear" => gone[c] \in Sessions

\* An entry tells the session, the pid and the kind of the launch that wrote it.
EntryDescribes(s, e) ==
    /\ ses[e.by] = s /\ e.pid = pid[e.by] /\ e.sidecar = (s \in Sidecar)
    /\ pc[e.by] # "idle"

EntriesDescribe ==
    /\ \A s \in Sessions : entry[s] # None => EntryDescribes(s, entry[s])
    /\ \A c \in Cleaners, s \in Sessions : seen[c][s] # None => EntryDescribes(s, seen[c][s])

\* A container belongs to the launch of a sidecar session of its name that
\* runs or was killed.
BoxesAreOwned ==
    \A b \in Containers : box[b] # None =>
        /\ ses[box[b]] \in Sidecar /\ ContainerOf[ses[box[b]]] = b
        /\ pc[box[b]] \in {"running", "killed"}

\* What a cleaner read stays true of a launch it must spare, as long as that
\* runs and docker answers: it keeps its entry, and is no candidate once the
\* registry has been looked at.
WatchedIsSpared ==
    \A c \in Cleaners : \A l \in watched[c] :
        /\ ses[l] \in Sessions /\ pc[l] \in {"running", "clear", "done", "killed"}
        /\ Runs(l) /\ blind = 0 =>
              /\ Registered(l)
              /\ at[c] = "probe" => seen[c][ses[l]] # None /\ seen[c][ses[l]].by = l
              /\ at[c] \in {"delete", "clear"} => ses[l] \notin cand[c]

Inv ==
    /\ TypeOK /\ PlacesOK /\ EntriesDescribe /\ BoxesAreOwned /\ WatchedIsSpared

-----------------------------------------------------------------------------
(* The steps, one definition for those of a call and one for those of a    *)
(* cleaner.                                                                *)

CallStep(l) ==
    \/ \E s \in Sessions : Start(l, s) \/ Resume(l, s) \/ Delete(l, s)
    \/ Look(l) \/ Probe(l) \/ DropStale(l) \/ Switch(l)
    \/ Register(l) \/ Run(l) \/ Confirm(l) \/ Exit(l) \/ Kill(l)
    \/ ForgetSession(l) \/ ClearOwn(l)

CleanerStep(c) ==
    \/ ListOld(c) \/ ReadRegistry(c) \/ ProbeAll(c) \/ PruneAll(c)
    \/ DeleteOld(c) \/ ClearDeleted(c)

WorldStep ==
    \/ \E b \in Containers : StopContainer(b)
    \/ \E s \in Sessions : Age(s)
    \/ \E q \in Pids : ReusePid(q) \/ FreePid(q)

\* The next-state relation is those three.
LEMMA NextSplits ==
    Next <=> (\E l \in Calls : CallStep(l)) \/ (\E c \in Cleaners : CleanerStep(c)) \/ WorldStep
  BY DEF Next, CallStep, CleanerStep, WorldStep

\* A container is named after its session.
LEMMA ContainerIsOne == \A s \in Sessions : ContainerOf[s] \in Containers
  BY DEF Containers

-----------------------------------------------------------------------------
(* Type correctness.                                                       *)

Typed == TypeOK /\ PlacesOK

\* Type correctness through a step of a call, ...
LEMMA CallStepTyped == ASSUME Typed, NEW l \in Calls, CallStep(l) PROVE Typed'
<1> USE LiveSessionsAssumption, ContainerIsOne
    DEF Typed, TypeOK, PlacesOK, CallPoints, CleanerPoints, Goto, Fault, Sight, stores,
        made, scan, cleaners, calls, bounds
<1>1. ASSUME NEW s \in Sessions, Start(l, s) PROVE Typed'
  BY <1>1 DEF Start, Begin, Taken
<1>2. ASSUME NEW s \in Sessions, Resume(l, s) PROVE Typed'
  BY <1>2 DEF Resume, Begin
<1>3. ASSUME NEW s \in Sessions, Delete(l, s) PROVE Typed'
  BY <1>3 DEF Delete, Begin
<1>4. ASSUME Look(l) PROVE Typed'
  <2>1. ses[l] \in Sessions /\ entry[ses[l]] \in Entry \cup {None}
    BY <1>4 DEF Look
  <2>2. peek' \in [Calls -> Entry \cup {None}]
    BY <2>1, <1>4 DEF Look
  <2>3. pc' = [pc EXCEPT ![l] = pc'[l]] /\ pc'[l] \in {"forget", "switch", "probe"}
    BY <1>4 DEF Look, IfFree
  <2>4. pc'[l] = "probe" => peek'[l] # None
    BY <2>1, <1>4 DEF Look, IfFree
  <2>5. \A m \in Calls \ {l} : peek'[m] = peek[m]
    BY <1>4 DEF Look
  <2>6. QED
    BY <1>4, <2>2, <2>3, <2>4, <2>5 DEF Look
<1>5. ASSUME Probe(l) PROVE Typed'
  BY <1>5 DEF Probe, IfActive
<1>6. ASSUME DropStale(l) PROVE Typed'
  <2>1. ses[l] \in Sessions
    BY <1>6 DEF DropStale
  <2>2. entry' \in [Sessions -> Entry \cup {None}]
    BY <2>1, <1>6 DEF DropStale
  <2>3. pc' = [pc EXCEPT ![l] = pc'[l]] /\ pc'[l] \in {"forget", "switch", "done"}
    BY <1>6 DEF DropStale, IfActive, IfFree
  <2>4. QED
    BY SMTT(30), <1>6, <2>2, <2>3 DEF DropStale
<1>7. ASSUME Switch(l) PROVE Typed'
  BY <1>7 DEF Switch
<1>8. ASSUME Register(l) PROVE Typed'
  <2>1. ses[l] \in Sessions /\ pid[l] \in Pids
    BY <1>8 DEF Register
  <2>2. [pid |-> pid[l], sidecar |-> ses[l] \in Sidecar, by |-> l] \in Entry
    BY <2>1 DEF Entry
  <2>3. entry' \in [Sessions -> Entry \cup {None}]
    BY <2>1, <2>2, <1>8 DEF Register, SetEntry
  <2>4. watched' \in [Cleaners -> SUBSET Calls]
    BY <1>8 DEF Register, SetEntry
  <2>5. QED
    BY <1>8, <2>3, <2>4 DEF Register
<1>9. ASSUME Run(l) PROVE Typed'
  <2>1. box' \in [Containers -> Calls \cup {None}]
    BY <1>9 DEF Run
  <2>2. /\ pc' = [pc EXCEPT ![l] = pc'[l]] /\ pc'[l] \in {"running", "clear"}
        /\ pc[l] = "launch"
        /\ UNCHANGED <<stores, entry, foreign, made, peek, cleaners, bounds>>
    BY <1>9 DEF Run
  <2>3. TypeOK'
    BY <2>1, <2>2
  <2>4. PlacesOK'
    BY <2>2
  <2>5. QED
    BY <2>3, <2>4
<1>10. ASSUME Confirm(l) PROVE Typed'
  BY <1>10 DEF Confirm
<1>11. ASSUME Exit(l) PROVE Typed'
  BY <1>11 DEF Exit
<1>12. ASSUME Kill(l) PROVE Typed'
  BY <1>12 DEF Kill
<1>13. ASSUME ForgetSession(l) PROVE Typed'
  BY <1>13 DEF ForgetSession, Forget
<1>14. ASSUME ClearOwn(l) PROVE Typed'
  BY SMTT(30), <1>14 DEF ClearOwn, ClearSession, SetEntry
<1>15. QED
  BY <1>1, <1>2, <1>3, <1>4, <1>5, <1>6, <1>7, <1>8, <1>9, <1>10, <1>11, <1>12, <1>13, <1>14 DEF CallStep

\* ... of a cleanup, ...
LEMMA CleanerStepTyped == ASSUME Typed, NEW c \in Cleaners, CleanerStep(c) PROVE Typed'
<1> USE LiveSessionsAssumption
    DEF Typed, TypeOK, PlacesOK, CallPoints, CleanerPoints, At, Fault, Sight, stores,
        made, scan, cleaners, calls, bounds
<1>1. CASE ListOld(c)
  BY <1>1 DEF ListOld
<1>2. CASE ReadRegistry(c)
  <2>1. watched' \in [Cleaners -> SUBSET Calls]
    BY <1>2 DEF ReadRegistry
  <2>2. seen' \in [Cleaners -> [Sessions -> Entry \cup {None}]]
    BY SMTT(30), <1>2 DEF ReadRegistry
  <2>3. at' = [at EXCEPT ![c] = at'[c]] /\ at'[c] \in {"probe", "done"}
    BY <1>2 DEF ReadRegistry
  <2>4. faults' \in Nat /\ blind' \in Nat /\ crashes' \in Nat
    BY <1>2 DEF ReadRegistry
  <2>5. UNCHANGED <<stores, entry, box, foreign, calls, cand, gone>>
    BY <1>2 DEF ReadRegistry
  <2>6. QED
    BY ZenonT(40), <2>1, <2>2, <2>3, <2>4, <2>5
<1>3. CASE ProbeAll(c)
  <2> DEFINE left(sighted) ==
               [s \in Sessions |-> IF s \in StaleIn(seen[c], sighted) THEN seen[c][s] ELSE None]
  <2>1. PICK sighted \in BOOLEAN : seen' = [seen EXCEPT ![c] = left(sighted)]
    BY <1>3 DEF ProbeAll
  <2>2. left(sighted) \in [Sessions -> Entry \cup {None}]
    OBVIOUS
  <2>3. seen' \in [Cleaners -> [Sessions -> Entry \cup {None}]]
    BY <2>1, <2>2
  <2>4. cand' \in [Cleaners -> SUBSET Sessions]
    BY SMTT(30), <1>3 DEF ProbeAll
  <2>5. at' = [at EXCEPT ![c] = at'[c]] /\ at'[c] \in {"delete", "prune"}
    BY <1>3 DEF ProbeAll
  <2>6. faults' \in Nat /\ blind' \in Nat /\ crashes' \in Nat
    BY <1>3 DEF ProbeAll
  <2>7. UNCHANGED <<stores, entry, box, foreign, calls, gone, watched>>
    BY <1>3 DEF ProbeAll
  <2>8. QED
    BY ZenonT(40), <2>3, <2>4, <2>5, <2>6, <2>7
<1>4. CASE PruneAll(c)
  <2>1. NoEntries \in [Sessions -> Entry \cup {None}]
    BY DEF NoEntries
  <2>2. seen' \in [Cleaners -> [Sessions -> Entry \cup {None}]]
    BY <1>4, <2>1 DEF PruneAll
  <2>3. cand' \in [Cleaners -> SUBSET Sessions]
    BY <1>4 DEF PruneAll
  <2>4. entry' \in [Sessions -> Entry \cup {None}]
    BY <1>4 DEF PruneAll
  <2>5. at' = [at EXCEPT ![c] = at'[c]] /\ at'[c] \in {"delete", "done"}
    BY <1>4 DEF PruneAll
  <2>6. faults' \in Nat /\ blind' \in Nat /\ crashes' \in Nat
    BY <1>4 DEF PruneAll
  <2>7. UNCHANGED <<stores, box, foreign, calls, gone, watched>>
    BY <1>4 DEF PruneAll
  <2>8. QED
    BY ZenonT(40), <2>2, <2>3, <2>4, <2>5, <2>6, <2>7
<1>5. CASE DeleteOld(c)
  <2>1. cand' \in [Cleaners -> SUBSET Sessions]
    BY SMTT(30), <1>5 DEF DeleteOld
  <2>2. known' \subseteq Sessions /\ old' \cup confirmed' \subseteq known'
    BY <1>5 DEF DeleteOld, Forget
  <2>3. gone' \in [Cleaners -> Sessions \cup {None}]
    BY SMTT(30), <1>5 DEF DeleteOld
  <2>4. /\ at' = [at EXCEPT ![c] = at'[c]] /\ at'[c] \in {"delete", "done", "clear"}
        /\ at'[c] = "clear" => gone'[c] \in Sessions
        /\ \A d \in Cleaners \ {c} : gone'[d] = gone[d]
    BY <1>5 DEF DeleteOld
  <2>5. UNCHANGED <<entry, box, foreign, calls, seen, watched, bounds>>
    BY <1>5 DEF DeleteOld
  <2>6. TypeOK'
    BY <2>1, <2>2, <2>3, <2>5
  <2>7. at' \in [Cleaners -> CleanerPoints]
    BY <2>4
  <2>8. ASSUME NEW d \in Cleaners, at'[d] = "clear" PROVE gone'[d] \in Sessions
    BY <2>4, <2>8
  <2>9. QED
    BY <2>5, <2>6, <2>7, <2>8
<1>6. CASE ClearDeleted(c)
  <2>1. gone[c] \in Sessions
    BY <1>6 DEF ClearDeleted
  <2>2. /\ entry' = [entry EXCEPT ![gone[c]] = None] \/ entry' = entry
        /\ watched' = [d \in Cleaners |-> {l \in watched[d] : ses[l] # gone[c]}] \/ watched' = watched
    BY <1>6 DEF ClearDeleted, ClearSession, SetEntry
  <2>7. entry' \in [Sessions -> Entry \cup {None}] /\ watched' \in [Cleaners -> SUBSET Calls]
    BY <2>1, <2>2
  <2>3. gone' \in [Cleaners -> Sessions \cup {None}] /\ gone' = [gone EXCEPT ![c] = None]
    BY <1>6 DEF ClearDeleted
  <2>4. at' = [at EXCEPT ![c] = "delete"]
    BY <1>6 DEF ClearDeleted
  <2>5. faults' \in Nat /\ blind' \in Nat /\ crashes' \in Nat
    BY <1>6 DEF ClearDeleted
  <2>6. UNCHANGED <<stores, box, foreign, calls, cand, seen>>
    BY <1>6 DEF ClearDeleted
  <2>8. QED
    BY ZenonT(40), <2>3, <2>4, <2>5, <2>6, <2>7
<1>7. QED
  BY <1>1, <1>2, <1>3, <1>4, <1>5, <1>6 DEF CleanerStep

\* ... and of the rest of the system.
LEMMA WorldStepTyped == Typed /\ WorldStep => Typed'
<1> USE DEF Typed, TypeOK, PlacesOK, stores, made, scan, cleaners, calls, bounds
<1>1. ASSUME NEW b \in Containers, StopContainer(b), Typed PROVE Typed'
  BY <1>1 DEF StopContainer
<1>2. ASSUME NEW s \in Sessions, Age(s), Typed PROVE Typed'
  BY <1>2 DEF Age
<1>3. ASSUME NEW q \in Pids, ReusePid(q) \/ FreePid(q), Typed PROVE Typed'
  BY <1>3 DEF ReusePid, FreePid
<1>4. QED
  BY <1>1, <1>2, <1>3 DEF WorldStep
-----------------------------------------------------------------------------
(* What a step does to the calls, to the containers and to the entries.    *)

Begun == {"running", "clear", "done", "killed"}

\* A call that has begun keeps its session and its pid, and one that has been
\* launched is not launched again.
CallsGoOn ==
    /\ \A m \in Calls : pc[m] # "idle" =>
          ses'[m] = ses[m] /\ pid'[m] = pid[m] /\ pc'[m] # "idle"
    /\ \A m \in Calls : pc[m] \in Begun =>
          pc'[m] \in Begun /\ (pc'[m] = "running" => pc[m] = "running")
    /\ blind' >= blind

\* No cleaner watches a launch of s any more.
Unwatched(s) == \A c \in Cleaners : \A m \in watched'[c] : ses[m] # s

\* What can happen to the entry of s in a step.
Dropped(s) ==
    /\ entry[s] # None /\ entry'[s] = None
    /\ \E sighted \in BOOLEAN : ~Live(s, entry[s], sighted) /\ (sighted \/ blind' > blind)

Written(s) ==
    /\ Unwatched(s)
    /\ \E l \in Calls : /\ s = ses[l] /\ pc[l] = "register"
                        /\ entry'[s] = [pid |-> pid[l], sidecar |-> s \in Sidecar, by |-> l]

Cleared(s) ==
    /\ Unwatched(s) /\ entry'[s] = None
    /\ \/ \E l \in Calls : ses[l] = s /\ pc[l] = "clear" /\ pc'[l] = "done"
       \/ \E c \in Cleaners : gone[c] = s /\ gone'[c] = None

EntryFates == \A s \in Sessions :
    entry'[s] = entry[s] \/ Dropped(s) \/ Written(s) \/ Cleared(s)

\* A container is taken by the launch of its session.
BoxFates == \A b \in Containers :
    \/ box'[b] = box[b] \/ box'[b] = None
    \/ /\ box'[b] \in Calls /\ pc[box'[b]] = "launch" /\ pc'[box'[b]] = "running"
       /\ ses[box'[b]] \in Sidecar /\ ContainerOf[ses[box'[b]]] = b

\* A step of a call begins it or moves it on.
LEMMA CallStepGoesOn == ASSUME Typed, NEW l \in Calls, CallStep(l) PROVE CallsGoOn
<1> USE DEF Typed, TypeOK, PlacesOK, CallPoints, CallsGoOn, Begun, Goto, Fault, Sight,
            made, calls, bounds
<1>1. ASSUME NEW s \in Sessions, Start(l, s) \/ Resume(l, s) \/ Delete(l, s) PROVE CallsGoOn
  <2>1. /\ pc[l] = "idle" /\ blind' = blind
        /\ \A m \in Calls \ {l} : pc'[m] = pc[m] /\ ses'[m] = ses[m] /\ pid'[m] = pid[m]
    BY <1>1 DEF Start, Resume, Delete, Begin
  <2>2. QED
    BY <2>1
<1>2. CASE Look(l)
  BY <1>2 DEF Look, IfFree
<1>3. CASE Probe(l)
  BY <1>3 DEF Probe, IfActive
<1>4. CASE DropStale(l)
  <2>1. /\ pc' = [pc EXCEPT ![l] = pc'[l]] /\ pc[l] = "drop" /\ pc'[l] # "idle"
        /\ UNCHANGED made
    BY <1>4 DEF DropStale, IfFree, IfActive
  <2>2. blind' >= blind
    BY <1>4 DEF DropStale
  <2>3. QED
    BY <2>1, <2>2
<1>5. CASE Switch(l) \/ Register(l) \/ Run(l) \/ Confirm(l) \/ Exit(l) \/ Kill(l)
  <2>1. CASE Switch(l)
    BY <2>1 DEF Switch
  <2>2. CASE Register(l)
    BY <2>2 DEF Register
  <2>3. CASE Run(l)
    BY <2>3 DEF Run
  <2>4. CASE Confirm(l)
    BY <2>4 DEF Confirm
  <2>5. CASE Exit(l)
    BY <2>5 DEF Exit
  <2>6. CASE Kill(l)
    BY <2>6 DEF Kill
  <2>7. QED
    BY <1>5, <2>1, <2>2, <2>3, <2>4, <2>5, <2>6
<1>6. CASE ForgetSession(l)
  BY <1>6 DEF ForgetSession
<1>7. CASE ClearOwn(l)
  BY <1>7 DEF ClearOwn
<1>8. QED
  BY <1>1, <1>2, <1>3, <1>4, <1>5, <1>6, <1>7 DEF CallStep

\* Cleanups and the rest of the system leave the calls alone.
LEMMA OtherStepGoesOn ==
  ASSUME Typed, (\E c \in Cleaners : CleanerStep(c)) \/ WorldStep
  PROVE  CallsGoOn /\ UNCHANGED calls
<1> USE DEF Typed, PlacesOK, CallsGoOn, Fault, Sight, made, calls, bounds
<1>1. ASSUME NEW c \in Cleaners, CleanerStep(c) PROVE UNCHANGED calls /\ blind' >= blind
  BY <1>1 DEF CleanerStep, ListOld, ReadRegistry, ProbeAll, PruneAll, DeleteOld, ClearDeleted
<1>2. ASSUME WorldStep PROVE UNCHANGED calls /\ blind' >= blind
  BY <1>2 DEF WorldStep, StopContainer, Age, ReusePid, FreePid
<1>3. QED
  BY <1>1, <1>2

\* A call writes, clears or prunes the entry of its session.
LEMMA CallStepEntries ==
  ASSUME Typed, NEW l \in Calls, CallStep(l)
  PROVE  EntryFates /\ \A c \in Cleaners : watched'[c] \subseteq watched[c]
<1> USE DEF Typed, TypeOK, PlacesOK, EntryFates, cleaners, scan
<1>1. CASE DropStale(l)
  <2>1. UNCHANGED watched /\ ses[l] \in Sessions
    BY <1>1 DEF DropStale
  <2>2. ASSUME NEW s \in Sessions, entry'[s] # entry[s] PROVE Dropped(s)
    <3>1. CASE Fault /\ UNCHANGED entry
      BY <2>2, <3>1
    <3>2. CASE ~(Fault /\ UNCHANGED entry)
      <4>1. PICK sighted \in BOOLEAN :
              /\ Sight(sighted)
              /\ entry' = IF ses[l] \in Listed(entry) \ StaleIn(entry, sighted)
                          THEN entry ELSE [entry EXCEPT ![ses[l]] = None]
        BY <1>1, <3>2 DEF DropStale
      <4>2. /\ s = ses[l] /\ entry'[s] = None /\ entry[s] # None
            /\ ses[l] \notin Listed(entry) \ StaleIn(entry, sighted)
        BY <4>1, <2>2, <2>1
      <4>3. ~Live(s, entry[s], sighted)
        BY <4>2, <2>1 DEF Listed, StaleIn
      <4>4. sighted \/ blind' > blind
        BY <4>1 DEF Sight, bounds
      <4>5. QED
        BY <4>2, <4>3, <4>4 DEF Dropped
    <3>3. QED
      BY <3>1, <3>2
  <2>3. QED
    BY <2>1, <2>2
<1>2. CASE Register(l)
  <2>1. ses[l] \in Sessions /\ pc[l] = "register"
    BY <1>2 DEF Register
  <2>2. CASE SetEntry(ses[l], [pid |-> pid[l], sidecar |-> ses[l] \in Sidecar, by |-> l])
    <3>1. Unwatched(ses[l]) /\ \A c \in Cleaners : watched'[c] \subseteq watched[c]
      BY <2>2 DEF SetEntry, Unwatched
    <3>2. Written(ses[l])
      BY <2>1, <2>2, <3>1 DEF SetEntry, Written
    <3>3. \A s \in Sessions \ {ses[l]} : entry'[s] = entry[s]
      BY <2>2 DEF SetEntry
    <3>4. QED
      BY <3>1, <3>2, <3>3
  <2>3. CASE UNCHANGED <<entry, watched>>
    BY <2>3
  <2>4. QED
    BY <1>2, <2>2, <2>3 DEF Register
<1>3. CASE ClearOwn(l)
  <2>1. ses[l] \in Sessions /\ pc[l] = "clear" /\ pc'[l] = "done"
    BY <1>3 DEF ClearOwn, Goto
  <2>2. CASE ClearSession(ses[l])
    <3>1. Unwatched(ses[l]) /\ \A c \in Cleaners : watched'[c] \subseteq watched[c]
      BY <2>2 DEF ClearSession, SetEntry, Unwatched
    <3>2. Cleared(ses[l])
      BY <2>1, <2>2, <3>1 DEF ClearSession, SetEntry, Cleared
    <3>3. \A s \in Sessions \ {ses[l]} : entry'[s] = entry[s]
      BY <2>2 DEF ClearSession, SetEntry
    <3>4. QED
      BY <3>1, <3>2, <3>3
  <2>3. CASE UNCHANGED <<entry, watched>>
    BY <2>3
  <2>4. QED
    BY <1>3, <2>2, <2>3 DEF ClearOwn
<1>4. CASE ~(DropStale(l) \/ Register(l) \/ ClearOwn(l))
  <2>1. UNCHANGED <<entry, watched>>
    BY <1>4 DEF CallStep, Start, Resume, Delete, Begin, Look, Probe, Switch, Run, Confirm,
                Exit, Kill, ForgetSession
  <2>2. QED
    BY <2>1
<1>5. QED
  BY <1>1, <1>2, <1>3, <1>4

\* A cleanup prunes entries, or clears that of the session it deleted.
LEMMA CleanerStepEntries == ASSUME Typed, NEW c \in Cleaners, CleanerStep(c) PROVE EntryFates
<1> USE DEF Typed, TypeOK, PlacesOK, EntryFates
<1>1. CASE PruneAll(c)
  <2>1. ASSUME NEW s \in Sessions, entry'[s] # entry[s] PROVE Dropped(s)
    <3>1. PICK sighted \in BOOLEAN :
            /\ Sight(sighted)
            /\ entry' = [r \in Sessions |->
                            IF r \in Listed(seen[c]) \cap StaleIn(entry, sighted)
                            THEN None ELSE entry[r]]
      BY <1>1, <2>1 DEF PruneAll
    <3>2. s \in StaleIn(entry, sighted) /\ entry'[s] = None
      BY <3>1, <2>1
    <3>3. entry[s] # None /\ ~Live(s, entry[s], sighted)
      BY <3>2 DEF StaleIn, Listed
    <3>4. sighted \/ blind' > blind
      BY <3>1 DEF Sight, bounds
    <3>5. QED
      BY <3>2, <3>3, <3>4 DEF Dropped
  <2>2. QED
    BY <2>1
<1>2. CASE ClearDeleted(c)
  <2>1. gone[c] \in Sessions /\ gone'[c] = None
    BY <1>2 DEF ClearDeleted
  <2>2. CASE ClearSession(gone[c])
    <3>1. Cleared(gone[c])
      BY <2>1, <2>2 DEF ClearSession, SetEntry, Cleared, Unwatched
    <3>2. \A s \in Sessions \ {gone[c]} : entry'[s] = entry[s]
      BY <2>2 DEF ClearSession, SetEntry
    <3>3. QED
      BY <3>1, <3>2
  <2>3. CASE UNCHANGED entry
    BY <2>3
  <2>4. QED
    BY <1>2, <2>2, <2>3 DEF ClearDeleted
<1>3. CASE ~(PruneAll(c) \/ ClearDeleted(c))
  BY <1>3 DEF CleanerStep, ListOld, ReadRegistry, ProbeAll, DeleteOld
<1>4. QED
  BY <1>1, <1>2, <1>3

\* Nothing else touches the registry.
LEMMA WorldStepEntries == WorldStep => EntryFates /\ UNCHANGED cleaners
  BY DEF WorldStep, StopContainer, Age, ReusePid, FreePid, EntryFates, cleaners, scan

\* A call takes the container of its session or gives back what it has.
LEMMA CallStepBoxes ==
  ASSUME Typed, BoxesAreOwned, NEW l \in Calls, CallStep(l)
  PROVE  /\ BoxFates
         /\ \A b \in Containers : box'[b] = l => pc'[l] \in {"running", "killed"}
<1> USE DEF Typed, TypeOK, PlacesOK, BoxFates
<1>1. CASE Run(l)
  <2>1. pc[l] = "launch" /\ ses[l] \in Sessions /\ ~\E b \in Containers : box[b] = l
    BY ZenonT(40), <1>1, LiveSessionsAssumption DEF Run, BoxesAreOwned
  <2>2. CASE UNCHANGED box
    BY <2>1, <2>2
  <2>3. CASE ~UNCHANGED box
    BY <1>1, <2>1, <2>3, ContainerIsOne DEF Run, Goto
  <2>4. QED
    BY <2>2, <2>3
<1>2. CASE Exit(l)
  BY <1>2, LiveSessionsAssumption DEF Exit
<1>3. CASE Kill(l)
  BY <1>3 DEF Kill, Goto
<1>4. CASE ~(Run(l) \/ Exit(l) \/ Kill(l))
  <2>1. UNCHANGED box /\ (pc[l] \in {"running", "killed"} => pc'[l] = pc[l])
    BY <1>4 DEF CallStep, Start, Resume, Delete, Begin, Look, Probe, DropStale, Switch,
                Register, Confirm, ForgetSession, ClearOwn, Ended, calls
  <2>2. QED
    BY <2>1, LiveSessionsAssumption DEF BoxesAreOwned
<1>5. QED
  BY <1>1, <1>2, <1>3, <1>4
-----------------------------------------------------------------------------
(* The inductive invariant.                                                *)

SeenFates == \A c \in Cleaners, s \in Sessions : seen'[c][s] \in {seen[c][s], entry[s], None}

\* What is written or read describes a launch; what it describes does not change.
LEMMA EntriesStayDescribed ==
  ASSUME Inv, CallsGoOn, EntryFates, SeenFates PROVE EntriesDescribe'
<1> USE DEF Inv, TypeOK, PlacesOK, EntriesDescribe, CallsGoOn
<1>1. ASSUME NEW s \in Sessions, NEW e \in Entry, EntryDescribes(s, e) PROVE EntryDescribes(s, e)'
  <2>1. e.by \in Calls
    BY DEF Entry
  <2>2. QED
    BY <1>1, <2>1 DEF EntryDescribes
<1>2. ASSUME NEW s \in Sessions, entry'[s] # None PROVE EntryDescribes(s, entry[s])'
  <2>1. CASE entry'[s] = entry[s]
    BY <1>1, <1>2, <2>1
  <2>2. CASE Written(s)
    BY <2>2 DEF Written, EntryDescribes
  <2>3. CASE Dropped(s) \/ Cleared(s)
    BY <1>2, <2>3 DEF Dropped, Cleared
  <2>4. QED
    BY <2>1, <2>2, <2>3 DEF EntryFates
<1>3. ASSUME NEW c \in Cleaners, NEW s \in Sessions, seen'[c][s] # None
      PROVE EntryDescribes(s, seen[c][s])'
  BY <1>1, <1>3 DEF SeenFates
<1>4. QED
  BY <1>2, <1>3 DEF EntryDescribes

\* A container keeps belonging to a launch that runs or was killed.
LEMMA BoxesStayOwned ==
  ASSUME Inv, CallsGoOn, BoxFates,
         \A b \in Containers : box'[b] # None => pc'[box'[b]] \in {"running", "killed"}
  PROVE  BoxesAreOwned'
  BY LiveSessionsAssumption DEF Inv, TypeOK, BoxesAreOwned, CallsGoOn, BoxFates

\* A launch that runs after a step ran before it.
LEMMA RunningIsOld ==
  ASSUME Inv, CallsGoOn, BoxFates, NEW l \in Calls, pc[l] \in Begun, Runs(l)'
  PROVE  Runs(l)
  BY LiveSessionsAssumption DEF CallsGoOn, BoxFates, Begun, Runs, Containers

\* The entry of a launch that runs is live, when docker answers.
LEMMA RunningIsLive ==
  ASSUME Inv, NEW l \in Calls, Runs(l), ses[l] \in Sessions,
         NEW e \in Entry, EntryDescribes(ses[l], e), e.by = l
  PROVE  Live(ses[l], e, TRUE)
<1>1. CASE pc[l] = "running"
  BY <1>1 DEF EntryDescribes, Live, Taken, Ended
<1>2. CASE pc[l] # "running"
  <2>1. PICK b \in Containers : box[b] = l
    BY <1>2 DEF Runs
  <2>2. ses[l] \in Sidecar /\ ContainerOf[ses[l]] = b
    BY <2>1, LiveSessionsAssumption DEF Inv, BoxesAreOwned
  <2>3. QED
    BY <2>1, <2>2, LiveSessionsAssumption DEF EntryDescribes, Live
<1>3. QED
  BY <1>1, <1>2

\* A step prunes no entry of a launch that runs.
LEMMA RunningStaysRegistered ==
  ASSUME Inv, CallsGoOn, EntryFates, NEW c \in Cleaners, NEW l \in watched'[c], l \in Calls,
         ses[l] \in Sessions, pc[l] \in Begun, Runs(l), Registered(l), blind = 0, blind' = 0
  PROVE  Registered(l)'
<1> USE DEF Inv
<1>1. /\ entry[ses[l]] \in Entry /\ EntryDescribes(ses[l], entry[ses[l]])
      /\ entry[ses[l]].by = l
  BY DEF TypeOK, EntriesDescribe, Registered
<1>2. Live(ses[l], entry[ses[l]], TRUE)
  BY <1>1, RunningIsLive
<1>3. ~Dropped(ses[l])
  <2>1. SUFFICES ASSUME NEW sighted \in BOOLEAN, sighted \/ blind' > blind
                 PROVE Live(ses[l], entry[ses[l]], sighted)
    BY DEF Dropped
  <2>2. sighted = TRUE
    BY <2>1
  <2>3. QED
    BY <1>2, <2>2
<1>4. ~Written(ses[l]) /\ ~Cleared(ses[l])
  BY DEF Written, Cleared, Unwatched
<1>5. entry'[ses[l]] = entry[ses[l]]
  BY <1>3, <1>4 DEF EntryFates
<1>6. ses'[l] = ses[l]
  BY DEF CallsGoOn, Begun
<1>7. QED
  BY <1>5, <1>6 DEF Registered

\* A step that leaves the cleaners where they are.
LEMMA WatchedStaySpared ==
  ASSUME Inv, CallsGoOn, EntryFates, BoxFates, UNCHANGED <<at, cand, seen>>,
         \A c \in Cleaners : watched'[c] \subseteq watched[c]
  PROVE  WatchedIsSpared'
<1> SUFFICES ASSUME NEW c \in Cleaners, NEW l \in watched'[c]
    PROVE /\ ses'[l] \in Sessions /\ pc'[l] \in Begun
          /\ Runs(l)' /\ blind' = 0 =>
               /\ Registered(l)'
               /\ at'[c] = "probe" => seen'[c][ses'[l]] # None /\ seen'[c][ses'[l]].by = l
               /\ at'[c] \in {"delete", "clear"} => ses'[l] \notin cand'[c]
  BY DEF WatchedIsSpared, Begun
<1>1. l \in Calls /\ l \in watched[c] /\ ses[l] \in Sessions /\ pc[l] \in Begun
  BY DEF Inv, TypeOK, WatchedIsSpared, Begun
<1>2. ses'[l] = ses[l] /\ pc'[l] \in Begun
  BY <1>1 DEF CallsGoOn, Begun
<1>3. ASSUME Runs(l)', blind' = 0 PROVE Runs(l) /\ blind = 0
  BY <1>1, <1>3, RunningIsOld DEF Inv, PlacesOK, CallsGoOn
<1>4. ASSUME Runs(l)', blind' = 0 PROVE Registered(l)'
  BY <1>1, <1>3, <1>4, RunningStaysRegistered DEF Inv, WatchedIsSpared
<1>5. QED
  BY <1>1, <1>2, <1>3, <1>4 DEF Inv, WatchedIsSpared

\* An empty registry with nobody at work is a good start.
LEMMA InitInv == Init => Inv
<1> SUFFICES ASSUME Init PROVE Inv
  OBVIOUS
<1>1. NoEntries \in [Sessions -> Entry \cup {None}]
  BY DEF NoEntries
<1>2. TypeOK /\ PlacesOK
  BY <1>1 DEF Init, TypeOK, PlacesOK, CallPoints, CleanerPoints
<1>3. EntriesDescribe /\ BoxesAreOwned /\ WatchedIsSpared
  BY DEF Init, NoEntries, EntriesDescribe, BoxesAreOwned, WatchedIsSpared
<1>4. QED
  BY <1>2, <1>3 DEF Inv

\* A call, the rest of the system and a cleanup keep the invariant.
LEMMA CallStepInv == ASSUME Inv, NEW l \in Calls, CallStep(l) PROVE Inv'
<1>1. Typed /\ Typed'
  BY CallStepTyped DEF Inv, Typed
<1>2. CallsGoOn /\ EntryFates /\ BoxFates /\ \A c \in Cleaners : watched'[c] \subseteq watched[c]
  BY <1>1, CallStepGoesOn, CallStepEntries, CallStepBoxes DEF Inv
<1>3. UNCHANGED <<at, cand, seen>>
  BY DEF CallStep, Start, Resume, Delete, Begin, Look, Probe, DropStale, Switch, Register, Run,
         Confirm, Exit, Kill, ForgetSession, ClearOwn, cleaners, scan
<1>4. SeenFates
  BY <1>3 DEF SeenFates
<1>5. ASSUME NEW b \in Containers, box'[b] # None PROVE pc'[box'[b]] \in {"running", "killed"}
  <2>1. CASE box'[b] = l
    BY <1>1, <2>1, CallStepBoxes DEF Inv
  <2>2. CASE box'[b] # l
    <3>1. box'[b] \in Calls \ {l}
      BY <1>1, <1>5, <2>2 DEF Typed, TypeOK
    <3>2. pc'[box'[b]] = pc[box'[b]]
      BY <1>1, <3>1 DEF CallStep, Start, Resume, Delete, Begin, Look, Probe, DropStale, Switch,
           Register, Run, Confirm, Exit, Kill, ForgetSession, ClearOwn, calls, Goto, Typed, PlacesOK
    <3>3. QED
      BY <1>2, <1>5, <3>1, <3>2 DEF BoxFates, Inv, BoxesAreOwned
  <2>3. QED
    BY <2>1, <2>2
<1>6. EntriesDescribe' /\ BoxesAreOwned' /\ WatchedIsSpared'
  BY <1>2, <1>3, <1>4, <1>5, EntriesStayDescribed, BoxesStayOwned, WatchedStaySpared
<1>7. QED
  BY <1>1, <1>6 DEF Inv, Typed

\* So do the passing of time, the system and its containers, ...
LEMMA WorldStepInv == Inv /\ WorldStep => Inv'
<1> SUFFICES ASSUME Inv, WorldStep PROVE Inv'
  OBVIOUS
<1>1. Typed /\ Typed'
  BY WorldStepTyped DEF Inv, Typed
<1>2. CallsGoOn /\ EntryFates /\ UNCHANGED <<calls, cleaners>>
  BY <1>1, OtherStepGoesOn, WorldStepEntries
<1>3. \A b \in Containers : box'[b] = box[b] \/ box'[b] = None
  BY <1>1 DEF WorldStep, StopContainer, Age, ReusePid, FreePid, Typed, TypeOK
<1>4. BoxFates /\ SeenFates
  BY <1>2, <1>3 DEF BoxFates, SeenFates, cleaners, scan
<1>5. \A b \in Containers : box'[b] # None => pc'[box'[b]] \in {"running", "killed"}
  BY <1>2, <1>3 DEF Inv, BoxesAreOwned, calls
<1>6. EntriesDescribe' /\ BoxesAreOwned'
  BY <1>2, <1>4, <1>5, EntriesStayDescribed, BoxesStayOwned
<1>7. WatchedIsSpared'
  BY <1>2, <1>4, WatchedStaySpared DEF cleaners, scan
<1>8. QED
  BY <1>1, <1>6, <1>7 DEF Inv, Typed

\* What a cleaner reads of a launch that runs is live when it is probed.
LEMMA CleanerStepSpares ==
  ASSUME Inv, NEW c \in Cleaners, CleanerStep(c), CallsGoOn, EntryFates, BoxFates, TypeOK'
  PROVE  WatchedIsSpared'
<1> USE DEF Inv, TypeOK, PlacesOK, At
<1>0. UNCHANGED <<calls, box>>
  BY DEF CleanerStep, ListOld, ReadRegistry, ProbeAll, PruneAll, DeleteOld, ClearDeleted
<1>. DEFINE Spared(d, l) ==
       /\ ses'[l] \in Sessions /\ pc'[l] \in Begun
       /\ Runs(l)' /\ blind' = 0 =>
            /\ Registered(l)'
            /\ at'[d] = "probe" => seen'[d][ses'[l]] # None /\ seen'[d][ses'[l]].by = l
            /\ at'[d] \in {"delete", "clear"} => ses'[l] \notin cand'[d]
<1>. SUFFICES ASSUME NEW d \in Cleaners, NEW l \in watched'[d] PROVE Spared(d, l)
  BY DEF WatchedIsSpared, Begun
<1>1. l \in Calls /\ ses' = ses /\ pc' = pc /\ (Runs(l)' <=> Runs(l))
  BY <1>0 DEF calls, made, Runs
<1>2. ASSUME l \in watched[d],
             Runs(l) /\ blind = 0 /\ blind' = 0 /\ at'[d] = "probe" =>
                seen'[d][ses[l]] # None /\ seen'[d][ses[l]].by = l,
             Runs(l) /\ blind = 0 /\ blind' = 0 /\ at'[d] \in {"delete", "clear"} =>
                ses[l] \notin cand'[d]
      PROVE Spared(d, l)
  <2>1. ses[l] \in Sessions /\ pc[l] \in Begun
    BY <1>2 DEF WatchedIsSpared, Begun
  <2>2. ASSUME Runs(l), blind' = 0 PROVE blind = 0 /\ Registered(l)'
    <3>1. blind = 0
      BY <2>2 DEF CallsGoOn
    <3>2. QED
      BY <1>1, <1>2, <2>1, <2>2, <3>1, RunningStaysRegistered DEF WatchedIsSpared
  <2>3. QED
    BY <1>1, <1>2, <2>1, <2>2
<1>3. ASSUME d # c \/ ListOld(c) \/ DeleteOld(c) \/ ClearDeleted(c) PROVE Spared(d, l)
  <2>1. l \in watched[d]
    BY <1>3 DEF CleanerStep, ListOld, ReadRegistry, ProbeAll, PruneAll, DeleteOld, ClearDeleted,
                ClearSession, SetEntry
  <2>2. CASE d # c
    <3>1. at'[d] = at[d] /\ seen'[d] = seen[d] /\ cand'[d] = cand[d]
      BY <2>2 DEF CleanerStep, ListOld, ReadRegistry, ProbeAll, PruneAll, DeleteOld, ClearDeleted
    <3>2. QED
      BY <1>2, <2>1, <3>1 DEF WatchedIsSpared
  <2>3. CASE d = c /\ ListOld(c)
    BY <1>2, <2>1, <2>3 DEF ListOld
  <2>4. CASE d = c /\ (DeleteOld(c) \/ ClearDeleted(c))
    <3>1. /\ at[c] \in {"delete", "clear"} /\ at'[c] \in {"delete", "clear", "done"}
          /\ cand'[c] \subseteq cand[c]
      BY <2>4 DEF DeleteOld, ClearDeleted
    <3>2. QED
      BY <1>2, <2>1, <2>4, <3>1 DEF WatchedIsSpared
  <2>5. QED
    BY <1>3, <2>2, <2>3, <2>4
<1>4. CASE d = c /\ ReadRegistry(c)
  <2>1. Runs(l) /\ Registered(l) /\ UNCHANGED entry
    BY <1>4 DEF ReadRegistry
  <2>2. ses[l] \in Sessions /\ pc[l] \in Begun
    BY <2>1, LiveSessionsAssumption DEF Runs, BoxesAreOwned, Begun
  <2>3. at'[c] # "done" => at'[c] = "probe" /\ seen'[c] = entry
    BY <1>4 DEF ReadRegistry
  <2>4. at'[c] \notin {"delete", "clear"}
    BY <1>4 DEF ReadRegistry
  <2>5. at'[d] = "probe" => seen'[d][ses'[l]] # None /\ seen'[d][ses'[l]].by = l
    BY <1>1, <1>4, <2>1, <2>3 DEF Registered
  <2>6. Registered(l)'
    BY <1>1, <2>1 DEF Registered
  <2>7. QED
    BY <1>1, <1>4, <2>2, <2>4, <2>5, <2>6
<1>5. CASE d = c /\ ProbeAll(c)
  <2>1. l \in watched[c] /\ at[c] = "probe"
    BY <1>5 DEF ProbeAll
  <2>2. ses[l] \in Sessions
    BY <2>1 DEF WatchedIsSpared
  <2>3. at'[c] # "probe" /\ at'[c] # "clear"
    BY <1>5 DEF ProbeAll
  <2>4. ASSUME Runs(l), blind = 0, blind' = 0, at'[c] = "delete" PROVE ses[l] \notin cand'[c]
    <3>1. seen[c][ses[l]] # None
      BY <2>1, <2>4 DEF WatchedIsSpared
    <3>2. cand'[c] = cand[c] \ Listed(seen[c])
      BY <1>5, <2>4 DEF ProbeAll
    <3>3. QED
      BY <2>2, <3>1, <3>2 DEF Listed
  <2>5. QED
    BY <1>2, <1>5, <2>1, <2>3, <2>4
<1>6. CASE d = c /\ PruneAll(c)
  <2>1. l \in watched[c] /\ at'[c] # "probe" /\ at'[c] # "clear"
    BY <1>6 DEF PruneAll
  <2>2. ses[l] \in Sessions /\ pc[l] \in Begun
    BY <2>1 DEF WatchedIsSpared, Begun
  <2>3. ASSUME Runs(l), blind = 0, blind' = 0, at'[c] = "delete" PROVE ses[l] \notin cand'[c]
    <3>1. Registered(l)'
      BY <1>6, <2>1, <2>2, <2>3, RunningStaysRegistered DEF WatchedIsSpared
    <3>2. cand'[c] = cand[c] \ Listed(entry')
      BY <1>6, <2>3 DEF PruneAll
    <3>3. QED
      BY <1>1, <2>2, <3>1, <3>2 DEF Listed, Registered
  <2>4. QED
    BY <1>2, <1>6, <2>1, <2>3
<1>7. QED
  BY <1>3, <1>4, <1>5, <1>6 DEF CleanerStep

\* ... and a cleanup.
LEMMA CleanerStepInv == ASSUME Inv, NEW c \in Cleaners, CleanerStep(c) PROVE Inv'
<1>1. Typed /\ Typed'
  BY CleanerStepTyped DEF Inv, Typed
<1>2. CallsGoOn /\ EntryFates /\ UNCHANGED calls
  BY <1>1, OtherStepGoesOn, CleanerStepEntries
<1>3. UNCHANGED box
  BY DEF CleanerStep, ListOld, ReadRegistry, ProbeAll, PruneAll, DeleteOld, ClearDeleted
<1>4. BoxFates /\ \A b \in Containers : box'[b] # None => pc'[box'[b]] \in {"running", "killed"}
  BY <1>2, <1>3 DEF BoxFates, Inv, BoxesAreOwned, calls
<1>5. SeenFates
  <2>1. ASSUME NEW d \in Cleaners, NEW s \in Sessions
        PROVE seen'[d][s] \in {seen[d][s], entry[s], None}
    <3>1. CASE d # c
      BY <1>1, <3>1 DEF CleanerStep, ListOld, ReadRegistry, ProbeAll, PruneAll, DeleteOld,
                        ClearDeleted, Typed, TypeOK
    <3>2. CASE d = c /\ ReadRegistry(c)
      BY <1>1, <3>2 DEF ReadRegistry, Typed, TypeOK
    <3>3. CASE d = c /\ ProbeAll(c)
      BY <1>1, <3>3 DEF ProbeAll, Typed, TypeOK
    <3>4. CASE d = c /\ PruneAll(c)
      BY <1>1, <3>4 DEF PruneAll, NoEntries, Typed, TypeOK
    <3>5. CASE ListOld(c) \/ DeleteOld(c) \/ ClearDeleted(c)
      BY <3>5 DEF ListOld, DeleteOld, ClearDeleted
    <3>6. QED
      BY <3>1, <3>2, <3>3, <3>4, <3>5 DEF CleanerStep
  <2>2. QED
    BY <2>1 DEF SeenFates
<1>6. WatchedIsSpared'
  BY <1>1, <1>2, <1>4, CleanerStepSpares DEF Typed
<1>7. EntriesDescribe' /\ BoxesAreOwned'
  BY <1>2, <1>4, <1>5, EntriesStayDescribed, BoxesStayOwned
<1>8. QED
  BY <1>1, <1>6, <1>7 DEF Inv, Typed

\* The invariant is inductive.
LEMMA InvStep == Inv /\ [Next]_vars => Inv'
<1>1. Inv /\ Next => Inv'
  BY NextSplits, CallStepInv, CleanerStepInv, WorldStepInv
<1>2. Inv /\ UNCHANGED vars => Inv'
  BY DEF Inv, TypeOK, PlacesOK, EntriesDescribe, EntryDescribes, BoxesAreOwned, WatchedIsSpared,
         Runs, Registered, vars, stores, calls, made, cleaners, scan, bounds
<1>3. QED
  BY <1>1, <1>2

\* The registry, the containers and what the cleaners read describe the
\* launches they name, and a cleaner keeps its hands off what it must spare.
THEOREM Invariance == Spec => []Inv
  BY InitInv, InvStep, PTL DEF Spec

-----------------------------------------------------------------------------

\* A step that drops an entry drops a dead one, or ends a launch or a session.
LEMMA PruneStep ==
  Inv /\ [Next]_vars =>
     \A s \in Sessions : entry[s] # None /\ entry'[s] = None =>
        \/ ~Live(s, entry[s], TRUE)
        \/ blind' > blind
        \/ \E l \in Calls : ses[l] = s /\ pc[l] = "clear" /\ pc'[l] = "done"
        \/ \E c \in Cleaners : gone[c] = s /\ gone'[c] = None
<1> SUFFICES ASSUME Inv, [Next]_vars, NEW s \in Sessions, entry[s] # None, entry'[s] = None,
                    ~(blind' > blind)
             PROVE  \/ ~Live(s, entry[s], TRUE)
                    \/ \E l \in Calls : ses[l] = s /\ pc[l] = "clear" /\ pc'[l] = "done"
                    \/ \E c \in Cleaners : gone[c] = s /\ gone'[c] = None
  OBVIOUS
<1>1. Next
  BY DEF vars
<1>2. EntryFates
  BY <1>1, NextSplits, CallStepEntries, CleanerStepEntries, WorldStepEntries DEF Inv, Typed
<1>3. CASE Dropped(s)
  <2>1. PICK sighted \in BOOLEAN : ~Live(s, entry[s], sighted) /\ (sighted \/ blind' > blind)
    BY <1>3 DEF Dropped
  <2>2. sighted = TRUE
    BY <2>1
  <2>3. QED
    BY <2>1, <2>2
<1>4. CASE Cleared(s)
  BY <1>4 DEF Cleared
<1>5. ~Written(s)
  <2>1. ASSUME Written(s) PROVE FALSE
    <3>1. PICK l \in Calls : /\ s = ses[l] /\ pc[l] = "register"
                             /\ entry'[s] = [pid |-> pid[l], sidecar |-> s \in Sidecar, by |-> l]
      BY <2>1 DEF Written
    <3>2. entry'[s] \in Entry
      <4>1. pid[l] \in Pids
        BY <3>1 DEF Inv, PlacesOK
      <4>2. [pid |-> pid[l], sidecar |-> s \in Sidecar, by |-> l] \in Entry
        BY <4>1 DEF Entry
      <4>3. QED
        BY <3>1, <4>2
    <3>3. QED
      BY <3>2, EntryAssumption
  <2>2. QED
    BY <2>1
<1>6. QED
  BY <1>2, <1>3, <1>4, <1>5 DEF EntryFates

\* The registry is well formed and what is pruned is dead: list_sessions() and
\* get_session() look at the entry again under the lock, so a launch that
\* registers or a pid that is reused between the read, the probe and the prune
\* loses nothing (RegistryIsSound).
THEOREM RegistrySound == Spec => RegistryIsSound
<1>1. Inv => TypeOK
  BY DEF Inv
<1>2. QED
  BY <1>1, Invariance, PruneStep, PTL DEF RegistryIsSound, PruneOnlyDead, Spec

\* A deletion for age takes a candidate, and no launch that must be spared is one.
LEMMA CleanStep ==
  Inv /\ [Next]_vars =>
     \A c \in Cleaners : \A l \in watched[c] : ses[l] \in Cleans(c) => ~Runs(l) \/ blind > 0
<1> SUFFICES ASSUME Inv, [Next]_vars, NEW c \in Cleaners, NEW l \in watched[c],
                    ses[l] \in Cleans(c), Runs(l), ~(blind > 0)
             PROVE  FALSE
  OBVIOUS
<1> USE DEF Inv, TypeOK, PlacesOK
<1>1. at[c] = "delete" /\ cand'[c] # cand[c] /\ ses[l] \in known \ known'
  BY DEF Cleans
<1>2. Next
  BY <1>1 DEF vars, cleaners, scan
<1>3. ~WorldStep /\ ~\E k \in Calls : CallStep(k)
  BY ZenonT(40), <1>1 DEF WorldStep, StopContainer, Age, ReusePid, FreePid, CallStep, Start,
      Resume, Delete, Begin, Look, Probe, DropStale, Switch, Register, Run, Confirm, Exit, Kill, ForgetSession,
      ClearOwn, cleaners, scan
<1>4. PICK d \in Cleaners : CleanerStep(d)
  BY <1>2, <1>3, NextSplits
<1>5. d = c
  BY <1>1, <1>4 DEF CleanerStep, ListOld, ReadRegistry, ProbeAll, PruneAll, DeleteOld, ClearDeleted
<1>6. DeleteOld(c)
  BY <1>1, <1>4, <1>5 DEF CleanerStep, ListOld, ReadRegistry, ProbeAll, PruneAll, ClearDeleted
<1>7. ses[l] \in cand[c]
  BY <1>1, <1>6 DEF DeleteOld, Forget, stores
<1>8. blind = 0
  OBVIOUS
<1>9. QED
  BY <1>1, <1>7, <1>8 DEF WatchedIsSpared

\* A cleanup deletes no session whose Claude it must have seen running, however
\* many launches, cleanups, reused pids, killed launchers and failed registry
\* operations there are (clean_old_sessions in session/cleanup.py).
THEOREM RunningSpared == Spec => CleanupSparesTheRunning
  BY Invariance, CleanStep, PTL DEF CleanupSparesTheRunning, Spec

=============================================================================

--------------------------- MODULE GarbageCollection ----------------------------
(***************************************************************************)
(* `forge clean --yes` (core/ops/gc.py): one process that lists the roots  *)
(* in its scope, then the sessions of the index, then what is on disk, and *)
(* deletes what belongs to no session, while sessions start, end and are   *)
(* deleted.  A session is its name in its forge root.                      *)
(***************************************************************************)
EXTENDS Forge

CONSTANTS
    GcSessions, GcRoots,
    RootOf,       \* the forge root of each session; its worktree is there too
    ProjectOf,    \* the git repository of each root
    Inside,       \* the pairs <<a, b>> where root a is or lies in the root or repository b
    Contexts,     \* where the command may run: a root, or None, and a repository
    MaxGcEvents   \* bound: what sessions do while it runs

ASSUME GcAssumption ==
    /\ RootOf \in [GcSessions -> GcRoots] /\ MaxGcEvents \in Nat
    /\ None \notin GcRoots \cup GcSessions
    /\ Contexts \subseteq [root : Opt(GcRoots), project : {here.project : here \in Contexts}]
    \* find_forge_root() stops at the boundary of a repository.
    /\ \A here \in Contexts : here.root # None => ProjectOf[here.root] = here.project
    /\ \A r \in GcRoots : <<r, r>> \in Inside

VARIABLES
    present,      \* the roots whose directory exists
    indexed,      \* the sessions in the index
    starting,     \* those whose start has written a manifest and not the index yet
    dirs, handoffs, gcMarkers, docs,  \* those with a directory, handoff, queue marker,
                                    \* search document
    transcripts,  \* those whose transcript exists
    active,       \* the entry of each in the registry: of a process "live" or "dead"
    installs,     \* the roots in installed.json
    clean,        \* the command: its step, and what it has read
    stable,       \* history: sessions it must know of, indexed since it began
    lived,        \* history: sessions live since it began
    unwanted,     \* history: directories that were orphaned when it began
    gcEvents

worldVars == <<present, indexed, starting, dirs, handoffs, gcMarkers, docs, transcripts, active, installs>>
gcVars == <<worldVars, clean, stable, lived, unwanted, gcEvents>>

Categories == <<"dirs", "handoffs", "active", "markers", "docs", "installs">>
NothingFound == [dirs |-> {}, handoffs |-> {}, active |-> {}, markers |-> {}, docs |-> {},
                 installs |-> {}]
Idle == [pc |-> "idle", here |-> None, scope |-> "repo", roots |-> {}, refs |-> {}, found |-> NothingFound,
         category |-> 0, failed |-> FALSE]

\* Each session is running, was left behind in part or whole, or never was.
GcInit ==
    \E running \in SUBSET GcSessions, whole \in BOOLEAN : \E left \in SUBSET (GcSessions \ running) :
        /\ present = GcRoots
        /\ installs = (IF whole THEN GcRoots ELSE {})
        /\ indexed = running /\ starting = {} /\ dirs = running \cup left
        /\ handoffs = (IF whole THEN left ELSE {})
        /\ gcMarkers = running \cup left /\ docs = running \cup left
        /\ transcripts = running
        /\ active = [s \in GcSessions |-> IF s \in running THEN "live"
                                          ELSE IF s \in left THEN "dead" ELSE None]
        /\ clean = Idle /\ stable = {} /\ lived = {} /\ unwanted = {} /\ gcEvents = 0

-----------------------------------------------------------------------------
(* The command.                                                            *)

\* Mutant: no roots stand for all of them.
InRootsOrAll(r, roots) == roots = {} \/ \E q \in roots : <<r, q>> \in Inside

\* _path_in_roots
InRoots(r, roots) == \E q \in roots : <<r, q>> \in Inside

\* list_sessions drops the entries without a worktree or a manifest from the index.
Healed == {s \in indexed : RootOf[s] \in present /\ s \in dirs}

\* Mutant: the sessions of the root the command runs in, whatever the scope.
ReferredHere(here, scope) == {s \in Healed : RootOf[s] = here.root}

\* The sessions listed for a scope.
Referred(here, scope) ==
    {s \in Healed : /\ scope = "project" => RootOf[s] = here.root
                    /\ scope = "repo" => ProjectOf[RootOf[s]] = here.project}

\* _resolve_tracked_roots: those of the sessions, the current one, and the installed ones
\* that lie in the repository's directory or are known.
TrackedRoots(here, scope) ==
    LET known == {RootOf[s] : s \in Referred(here, scope)} \cup ({here.root} \ {None})
        BelongsToProject(r) == r \in known \/ <<r, here.project>> \in Inside
    IN  IF scope = "project" THEN {here.root}
        ELSE known \cup {r \in installs \cap present : scope = "repo" => BelongsToProject(r)}

ResolveRoots(here, scope) ==
    /\ clean.pc = "idle"
    /\ scope = "project" => here.root # None
    /\ indexed' = Healed
    /\ clean' = [Idle EXCEPT !.pc = "refer", !.here = here, !.scope = scope,
                              !.roots = TrackedRoots(here, scope)]
    /\ stable' = {s \in Healed : \/ scope = "all" \/ RootOf[s] = here.root
                                 \/ scope = "repo" /\ ProjectOf[RootOf[s]] = here.project}
    /\ lived' = {s \in GcSessions : active[s] = "live"}
    /\ unwanted' = {s \in dirs \ (indexed \cup starting) : RootOf[s] \in clean'.roots}
    /\ UNCHANGED <<present, starting, dirs, handoffs, gcMarkers, docs, transcripts, active, installs,
                   gcEvents>>

\* _build_reference_set and _build_worktree_reference_set
ReadReferences ==
    /\ clean.pc = "refer"
    /\ indexed' = Healed
    /\ clean' = [clean EXCEPT !.pc = "detect", !.refs = Referred(clean.here, clean.scope)]
    /\ UNCHANGED <<present, starting, dirs, handoffs, gcMarkers, docs, transcripts, active, installs,
                   stable, lived, unwanted, gcEvents>>

\* Mutant: an entry is stale unless its session is listed.
StaleEntriesUnlisted == {s \in GcSessions : active[s] # None /\ s \notin clean.refs}

StaleEntries == {s \in GcSessions : active[s] = "dead"}

\* What lies in the roots that are scanned, and in or below them.
Scanned(S) == {s \in S : RootOf[s] \in clean.roots \cap present}
Covered(S) == {s \in S : InRoots(RootOf[s], clean.roots)}

OrphanDirs == Scanned(dirs \ clean.refs)
OrphanHandoffs == Scanned(handoffs \ clean.refs)
OrphanMarkers == Covered(gcMarkers \ clean.refs)
OrphanDocs == Scanned(docs \ transcripts)
DeadInstallations == installs \ present

Detect ==
    /\ clean.pc = "detect"
    /\ clean' = [clean EXCEPT !.pc = "delete", !.category = 1, !.found =
          [dirs |-> OrphanDirs, handoffs |-> OrphanHandoffs, active |-> Covered(StaleEntries),
           markers |-> OrphanMarkers, docs |-> OrphanDocs, installs |-> DeadInstallations]]
    /\ UNCHANGED <<worldVars, stable, lived, unwanted, gcEvents>>

\* The next category, whether or not there is something of it.
\* Mutant: the first one without orphans is the last.
AfterCategoryStop(k) ==
    IF k < Len(Categories) /\ clean.found[Categories[k]] # {} THEN k + 1 ELSE 0

AfterCategory(k) == IF k < Len(Categories) THEN k + 1 ELSE 0

\* Every document without a transcript, in the roots of those found.
Pruned(found) ==
    {s \in docs : s \notin transcripts /\ \E f \in found : RootOf[f] = RootOf[s]}

\* One category is deleted as it was found, without another look, except that search
\* documents are pruned anew; a file or directory may fail to be.
Delete ==
    LET category == Categories[clean.category]
        found == clean.found[category]
    IN  /\ clean.pc = "delete"
        /\ \E kept \in Opt(IF category \in {"dirs", "handoffs", "markers"} THEN found ELSE {}) :
              LET gone == found \ {kept}
                  Without(c, S) == IF category = c THEN S \ gone ELSE S
              IN  /\ dirs' = Without("dirs", dirs)
                  /\ handoffs' = Without("handoffs", handoffs)
                  /\ active' = IF category = "active"
                               THEN [s \in GcSessions |-> IF s \in gone THEN None ELSE active[s]]
                               ELSE active
                  /\ gcMarkers' = Without("markers", gcMarkers)
                  /\ docs' = IF category = "docs" THEN docs \ Pruned(gone) ELSE docs
                  /\ installs' = Without("installs", installs)
                  /\ clean' = [clean EXCEPT !.category = AfterCategory(@),
                         !.pc = IF AfterCategory(clean.category) = 0 THEN "done" ELSE @,
                         !.failed = @ \/ kept # None]
        /\ UNCHANGED <<present, indexed, starting, transcripts, stable, lived, unwanted, gcEvents>>

CleanStep ==
    \/ \E here \in Contexts, scope \in {"repo", "project", "all"} : ResolveRoots(here, scope)
    \/ ReadReferences \/ Detect \/ Delete

-----------------------------------------------------------------------------
(* What sessions do meanwhile.                                             *)

Meanwhile ==
    /\ clean.pc # "done" /\ gcEvents < MaxGcEvents
    /\ gcEvents' = gcEvents + 1

\* A start writes the manifest, then the index and the registry.
WriteSession(s) ==
    /\ Meanwhile /\ s \notin dirs /\ s \notin indexed /\ RootOf[s] \in present
    /\ dirs' = dirs \cup {s} /\ starting' = starting \cup {s}
    /\ unwanted' = unwanted \ {s}
    /\ UNCHANGED <<present, indexed, handoffs, gcMarkers, docs, transcripts, active, installs,
                   clean, stable, lived>>

IndexSession(s) ==
    /\ Meanwhile /\ s \in starting
    /\ starting' = starting \ {s}
    /\ indexed' = indexed \cup {s} /\ transcripts' = transcripts \cup {s}
    /\ active' = [active EXCEPT ![s] = "live"]
    /\ UNCHANGED <<present, dirs, handoffs, gcMarkers, docs, installs, clean, stable, lived, unwanted>>

\* A launched Claude dies without clearing its entry, or it ends and leaves a marker.
GcEnd(s, died) ==
    /\ Meanwhile /\ active[s] = "live"
    /\ active' = [active EXCEPT ![s] = IF died THEN "dead" ELSE None]
    /\ gcMarkers' = IF died THEN gcMarkers ELSE gcMarkers \cup {s}
    /\ lived' = lived \ {s} /\ unwanted' = unwanted \ {s}
    /\ UNCHANGED <<present, indexed, starting, dirs, handoffs, docs, transcripts, installs, clean,
                   stable>>

Resume(s) ==
    /\ Meanwhile /\ s \in indexed /\ active[s] # "live"
    /\ active' = [active EXCEPT ![s] = "live"]
    /\ UNCHANGED <<present, indexed, starting, dirs, handoffs, gcMarkers, docs, transcripts, installs,
                   clean, stable, lived, unwanted>>

\* `forge session delete` leaves the handoff, the marker, the document and the transcript.
DeleteSession(s) ==
    /\ Meanwhile /\ s \in indexed
    /\ indexed' = indexed \ {s} /\ dirs' = dirs \ {s}
    /\ active' = [active EXCEPT ![s] = None]
    /\ stable' = stable \ {s} /\ lived' = lived \ {s}
    /\ UNCHANGED <<present, starting, handoffs, gcMarkers, docs, transcripts, installs, clean,
                   unwanted>>

\* A worktree is removed, with all that is in it.
RemoveRoot(r) ==
    LET Outside(S) == {s \in S : RootOf[s] # r}
    IN  /\ Meanwhile /\ r \in present /\ \A here \in Contexts : r # here.root
        /\ present' = present \ {r}
        /\ dirs' = Outside(dirs) /\ handoffs' = Outside(handoffs) /\ docs' = Outside(docs)
        /\ transcripts' = Outside(transcripts) /\ starting' = Outside(starting)
        /\ stable' = Outside(stable) /\ unwanted' = Outside(unwanted)
        /\ UNCHANGED <<indexed, gcMarkers, active, installs, clean, lived>>

GcNext ==
    \/ CleanStep
    \/ \E s \in GcSessions :
          \/ WriteSession(s) \/ IndexSession(s) \/ Resume(s) \/ DeleteSession(s)
          \/ \E died \in BOOLEAN : GcEnd(s, died)
    \/ \E r \in GcRoots : RemoveRoot(r)

-----------------------------------------------------------------------------
GcTypeOK ==
    /\ present \subseteq GcRoots /\ installs \subseteq GcRoots
    /\ \A S \in {indexed, starting, dirs, handoffs, gcMarkers, docs, transcripts, stable, lived, unwanted,
                 clean.refs} : S \subseteq GcSessions
    /\ active \in [GcSessions -> {None, "live", "dead"}]
    /\ clean.roots \subseteq GcRoots /\ DOMAIN clean.found = DOMAIN NothingFound
    /\ clean.category \in 0..Len(Categories)
    /\ clean.pc \in {"idle", "refer", "detect", "delete", "done"}

Deletes == clean.pc = "delete" /\ clean' # clean
Keeps(s, before, after) == s \in before => s \in after

\* A session that the index has had since the command began, and that its scope covers,
\* loses nothing (gc.py: "Session directories not in the global index").
IndexedSessionsKeepState ==
    [][Deletes => \A s \in stable :
          Keeps(s, dirs, dirs') /\ Keeps(s, handoffs, handoffs') /\ Keeps(s, gcMarkers, gcMarkers')]_gcVars

\* The entry of a process that has lived since the command began is not cleared.
LiveEntriesSurvive == [][Deletes => \A s \in lived : active'[s] = "live"]_gcVars

\* No scope widens to roots that are not below one of its own, not even an empty one.
OnlyTheScopeIsTouched ==
    [][Deletes => \A s \in GcSessions : ~(\E q \in clean.roots : <<RootOf[s], q>> \in Inside) =>
          /\ Keeps(s, dirs, dirs') /\ Keeps(s, handoffs, handoffs') /\ Keeps(s, gcMarkers, gcMarkers')
          /\ active'[s] = active[s]]_gcVars

\* What was orphaned when the command began is gone when it is done, if nothing failed.
CleanIsComplete ==
    clean.pc = "done" /\ ~clean.failed =>
        unwanted \cap dirs = {} /\ unwanted \cap handoffs = {} /\ unwanted \cap gcMarkers = {}

\* A clean takes all that is orphaned in its scope and nothing else: not the state of an
\* indexed session, not the entry of a live one, nothing out of scope.
CleanIsSafe ==
    /\ [](GcTypeOK /\ CleanIsComplete)
    /\ IndexedSessionsKeepState /\ LiveEntriesSurvive /\ OnlyTheScopeIsTouched
=============================================================================

-------------------------- MODULE ProjectFilesProofs --------------------------
(***************************************************************************)
(* Proofs about GarbageCollection for any sessions, roots, projects,       *)
(* contexts of the command, and any number of things that happen           *)
(* meanwhile.                                                              *)
(*                                                                         *)
(* The command reads the roots, then the index, then what is on disk, and  *)
(* deletes without another look.  The argument follows a session through   *)
(* these readings: one that stayed indexed is among the references         *)
(* (StableIsSpared), the registry's entry of one that stayed live is none  *)
(* that was found dead (LivedIsSpared), what was found lies below a root   *)
(* of the scope (FoundInScope), and what nobody wanted from the start is   *)
(* among what was found until its category is through (UnwantedIsFound).   *)
(***************************************************************************)
EXTENDS GarbageCollection, BackendLifecycle, Installer, TLAPS

GcSpec == GcInit /\ [][GcNext]_gcVars

Found == [dirs : SUBSET GcSessions, handoffs : SUBSET GcSessions, active : SUBSET GcSessions,
          markers : SUBSET GcSessions, docs : SUBSET GcSessions, installs : SUBSET GcRoots]

Commands == [pc : {"idle", "refer", "detect", "delete", "done"}, here : Contexts \cup {None},
             scope : {"repo", "project", "all"}, roots : SUBSET GcRoots, refs : SUBSET GcSessions,
             found : Found, category : 0..6, failed : BOOLEAN]

\* The shape of the state; a category is at hand when the command deletes.
World ==
    /\ present \subseteq GcRoots /\ installs \subseteq GcRoots
    /\ indexed \subseteq GcSessions /\ starting \subseteq GcSessions /\ dirs \subseteq GcSessions
    /\ handoffs \subseteq GcSessions /\ gcMarkers \subseteq GcSessions /\ docs \subseteq GcSessions
    /\ transcripts \subseteq GcSessions
    /\ active \in [GcSessions -> {None, "live", "dead"}]
    /\ stable \subseteq GcSessions /\ lived \subseteq GcSessions /\ unwanted \subseteq GcSessions
    /\ gcEvents \in Nat

AtWork ==
    /\ clean \in Commands
    /\ clean.pc # "idle" => clean.here \in Contexts
    /\ clean.pc = "delete" => clean.category \in 1..6

\* A session that stayed indexed is one the command refers to, and nothing of it is found.
StableIsSpared ==
    /\ clean.pc = "refer" => stable \subseteq Referred(clean.here, clean.scope)
    /\ clean.pc = "detect" => stable \subseteq clean.refs
    /\ clean.pc = "delete" => stable \cap (clean.found.dirs \cup clean.found.handoffs \cup clean.found.markers) = {}

\* An entry that stayed live is not one that was found dead.
LivedIsSpared ==
    /\ \A s \in lived : active[s] = "live"
    /\ clean.pc = "delete" => lived \cap clean.found.active = {}

FoundInScope ==
    clean.pc = "delete" =>
        \A s \in clean.found.dirs \cup clean.found.handoffs \cup clean.found.active \cup clean.found.markers :
            InRoots(RootOf[s], clean.roots)

\* What one category, the k-th, found of what nobody wants.
Caught(k, what, found) ==
    /\ clean.pc = "delete" /\ clean.category <= k => unwanted \cap what \subseteq found
    /\ clean.pc = "delete" /\ clean.category > k /\ ~clean.failed => unwanted \cap what = {}
    /\ clean.pc = "done" /\ ~clean.failed => unwanted \cap what = {}

UnwantedIsFound ==
    /\ unwanted \cap (indexed \cup starting) = {}
    /\ \A s \in unwanted : RootOf[s] \in clean.roots \cap present
    /\ clean.pc = "detect" => unwanted \cap clean.refs = {}
    /\ Caught(1, dirs, clean.found.dirs)
    /\ Caught(2, handoffs, clean.found.handoffs)
    /\ Caught(4, gcMarkers, clean.found.markers)

DirsAreSomewhere == \A s \in dirs : RootOf[s] \in present

GcInv ==
    /\ World /\ AtWork /\ DirsAreSomewhere
    /\ StableIsSpared /\ LivedIsSpared /\ FoundInScope /\ UnwantedIsFound

-----------------------------------------------------------------------------
(* What the command reads.                                                 *)

\* The categories, in their order.
LEMMA CategoryOrder ==
  /\ Len(Categories) = 6
  /\ Categories[1] = "dirs" /\ Categories[2] = "handoffs" /\ Categories[3] = "active"
  /\ Categories[4] = "markers" /\ Categories[5] = "docs" /\ Categories[6] = "installs"
  BY DEF Categories

\* Healing the index drops entries only.
LEMMA HealedIsIndexed == Healed \subseteq indexed
  BY DEF Healed

\* Every root the command covers is a root.
LEMMA RootsAreRoots ==
  ASSUME World, NEW here \in Contexts, NEW scope, scope = "project" => here.root # None
  PROVE  TrackedRoots(here, scope) \subseteq GcRoots
<1>1. here.root \in GcRoots \cup {None}
  BY GcAssumption DEF Opt
<1>2. Referred(here, scope) \subseteq GcSessions
  BY DEF Referred, Healed, World
<1>3. \A s \in GcSessions : RootOf[s] \in GcRoots
  BY GcAssumption
<1>4. {RootOf[s] : s \in Referred(here, scope)} \subseteq GcRoots
  BY <1>2, <1>3
<1>5. QED
  BY <1>1, <1>4 DEF TrackedRoots, World

\* A root of the scope is within it.
LEMMA RootsAreInside == ASSUME NEW r \in GcRoots, NEW roots, r \in roots PROVE InRoots(r, roots)
  BY GcAssumption DEF InRoots

\* The sessions a scope must know of are those it refers to: the root the command runs in is
\* one of the project's.
LEMMA StableIsReferred ==
  ASSUME NEW here \in Contexts, NEW scope \in {"repo", "project", "all"},
         scope = "project" => here.root # None,
         NEW s \in Healed,
         \/ scope = "all" \/ RootOf[s] = here.root
         \/ scope = "repo" /\ ProjectOf[RootOf[s]] = here.project,
         s \in GcSessions
  PROVE  s \in Referred(here, scope)
<1>1. RootOf[s] \in GcRoots /\ RootOf[s] # None
  BY GcAssumption
<1>2. RootOf[s] = here.root => ProjectOf[RootOf[s]] = here.project
  BY <1>1, GcAssumption
<1>3. scope = "project" => RootOf[s] = here.root
  OBVIOUS
<1>4. QED
  BY <1>2, <1>3 DEF Referred

\* Nothing is found of a command that has just begun.
LEMMA IdleTyped == Idle \in Commands
  BY DEF Idle, Commands, NothingFound, Found

\* The roots and the index are read for the first time.
LEMMA ResolveStep ==
  ASSUME GcInv, NEW here \in Contexts, NEW scope \in {"repo", "project", "all"}, ResolveRoots(here, scope)
  PROVE  GcInv'
<1> DEFINE roots == TrackedRoots(here, scope)
<1>0. World /\ AtWork /\ DirsAreSomewhere /\ Healed \subseteq indexed
  BY HealedIsIndexed DEF GcInv
<1>1. /\ UNCHANGED <<present, starting, dirs, handoffs, gcMarkers, docs, transcripts, active, installs,
                     gcEvents>>
      /\ scope = "project" => here.root # None
      /\ indexed' = Healed
      /\ clean' = [Idle EXCEPT !.pc = "refer", !.here = here, !.scope = scope, !.roots = roots]
      /\ lived' = {s \in GcSessions : active[s] = "live"}
  BY DEF ResolveRoots
<1>2. stable' = {s \in Healed : \/ scope = "all" \/ RootOf[s] = here.root
                                \/ scope = "repo" /\ ProjectOf[RootOf[s]] = here.project}
  BY DEF ResolveRoots
<1>3. unwanted' = {s \in dirs \ (indexed \cup starting) : RootOf[s] \in clean'.roots}
  BY DEF ResolveRoots
<1>4. roots \in SUBSET GcRoots
  BY <1>0, <1>1, RootsAreRoots
<1> HIDE DEF roots
<1>5. /\ clean'.pc = "refer" /\ clean'.here = here /\ clean'.scope = scope /\ clean'.roots = roots
      /\ clean' \in Commands
  <2>1. clean' = [pc |-> "refer", here |-> here, scope |-> scope, roots |-> roots, refs |-> {},
                  found |-> NothingFound, category |-> 0, failed |-> FALSE]
    BY <1>1 DEF Idle
  <2>2. NothingFound \in Found
    BY DEF NothingFound, Found
  <2>3. QED
    BY <1>4, <2>1, <2>2 DEF Commands
<1>6. World'
  BY <1>0, <1>1, <1>2, <1>3 DEF World
<1>7. AtWork' /\ DirsAreSomewhere'
  BY <1>0, <1>1, <1>5 DEF AtWork, DirsAreSomewhere
<1>8. StableIsSpared'
  <2>1. ASSUME NEW s \in stable' PROVE s \in Referred(here, scope)
    BY <1>0, <1>1, <1>2, <2>1, StableIsReferred DEF World
  <2>2. Healed' = Healed
    BY <1>1 DEF Healed
  <2>3. stable' \subseteq Referred(clean.here, clean.scope)'
    BY <1>5, <2>1, <2>2 DEF Referred
  <2>4. QED
    BY <1>5, <2>3 DEF StableIsSpared
<1>9. LivedIsSpared' /\ FoundInScope'
  BY <1>1, <1>5 DEF LivedIsSpared, FoundInScope
<1>10. UnwantedIsFound'
  <2>1. unwanted' \cap (indexed \cup starting)' = {}
    BY <1>0, <1>1, <1>3
  <2>2. \A s \in unwanted' : RootOf[s] \in clean'.roots \cap present'
    BY <1>0, <1>1, <1>3 DEF DirsAreSomewhere
  <2>3. QED
    BY <1>5, <2>1, <2>2 DEF UnwantedIsFound, Caught
<1>11. QED
  BY <1>6, <1>7, <1>8, <1>9, <1>10 DEF GcInv

\* The references are read.
LEMMA ReferencesStep == ASSUME GcInv, ReadReferences PROVE GcInv'
<1> DEFINE refs == Referred(clean.here, clean.scope)
<1>0. World /\ AtWork /\ DirsAreSomewhere /\ Healed \subseteq indexed
  BY HealedIsIndexed DEF GcInv
<1>1. /\ UNCHANGED <<present, starting, dirs, handoffs, gcMarkers, docs, transcripts, active, installs,
                     stable, lived, unwanted, gcEvents>>
      /\ clean.pc = "refer" /\ indexed' = Healed
      /\ clean' = [clean EXCEPT !.pc = "detect", !.refs = refs]
  BY DEF ReadReferences
<1>2. refs \subseteq Healed /\ refs \in SUBSET GcSessions
  BY <1>0 DEF Referred, World
<1>3. stable \subseteq refs
  BY <1>1 DEF GcInv, StableIsSpared
<1> HIDE DEF refs
<1>4. /\ clean'.pc = "detect" /\ clean'.here = clean.here /\ clean'.roots = clean.roots
      /\ clean'.refs = refs /\ clean' \in Commands
  BY <1>0, <1>1, <1>2 DEF AtWork, Commands
<1>5. World' /\ AtWork' /\ DirsAreSomewhere'
  BY <1>0, <1>1, <1>4 DEF World, AtWork, DirsAreSomewhere
<1>6. StableIsSpared' /\ LivedIsSpared' /\ FoundInScope'
  BY <1>1, <1>3, <1>4 DEF GcInv, StableIsSpared, LivedIsSpared, FoundInScope
<1>7. UnwantedIsFound'
  <2>1. unwanted \cap (indexed \cup starting) = {} /\ \A s \in unwanted : RootOf[s] \in clean.roots \cap present
    BY DEF GcInv, UnwantedIsFound
  <2>2. unwanted \cap refs = {}
    BY <1>0, <1>2, <2>1
  <2>3. QED
    BY <1>0, <1>1, <1>4, <2>1, <2>2 DEF UnwantedIsFound, Caught
<1>8. QED
  BY <1>5, <1>6, <1>7 DEF GcInv

\* What is on disk is read.
LEMMA DetectStep == ASSUME GcInv, Detect PROVE GcInv'
<1> DEFINE found == [dirs |-> OrphanDirs, handoffs |-> OrphanHandoffs, active |-> Covered(StaleEntries),
                     markers |-> OrphanMarkers, docs |-> OrphanDocs, installs |-> DeadInstallations]
<1>0. World /\ AtWork /\ DirsAreSomewhere
  BY DEF GcInv
<1>1. /\ UNCHANGED <<present, indexed, starting, dirs, handoffs, gcMarkers, docs, transcripts, active,
                     installs, stable, lived, unwanted, gcEvents>>
      /\ clean.pc = "detect"
      /\ clean' = [clean EXCEPT !.pc = "delete", !.category = 1, !.found = found]
  BY DEF Detect, worldVars
<1>2. found \in Found
  BY <1>0 DEF Found, OrphanDirs, OrphanHandoffs, OrphanMarkers, OrphanDocs, DeadInstallations,
     Covered, Scanned, StaleEntries, World
<1>3. /\ found.dirs = OrphanDirs /\ found.handoffs = OrphanHandoffs
      /\ found.active = Covered(StaleEntries) /\ found.markers = OrphanMarkers
  OBVIOUS
<1> HIDE DEF found
<1>4. /\ clean'.pc = "delete" /\ clean'.here = clean.here /\ clean'.roots = clean.roots
      /\ clean'.category = 1 /\ clean'.found = found /\ clean' \in Commands
  <2>1. clean \in Commands
    BY <1>0 DEF AtWork
  <2>2. clean' = [pc |-> "delete", here |-> clean.here, scope |-> clean.scope, roots |-> clean.roots,
                  refs |-> clean.refs, found |-> found, category |-> 1, failed |-> clean.failed]
    BY <1>1, <2>1 DEF Commands
  <2>3. QED
    BY <1>2, <2>1, <2>2 DEF Commands
<1>5. World' /\ AtWork' /\ DirsAreSomewhere'
  BY <1>0, <1>1, <1>4 DEF World, AtWork, DirsAreSomewhere
<1>6. StableIsSpared'
  <2>1. stable \subseteq clean.refs
    BY <1>1 DEF GcInv, StableIsSpared
  <2>2. stable \cap (found.dirs \cup found.handoffs \cup found.markers) = {}
    BY <1>3, <2>1 DEF OrphanDirs, OrphanHandoffs, OrphanMarkers, Covered, Scanned
  <2>3. QED
    BY <1>1, <1>4, <2>2 DEF StableIsSpared
<1>7. LivedIsSpared'
  <2>1. \A s \in lived : active[s] = "live"
    BY DEF GcInv, LivedIsSpared
  <2>2. lived \cap found.active = {}
    BY <1>3, <2>1 DEF Covered, StaleEntries
  <2>3. QED
    BY <1>1, <1>4, <2>1, <2>2 DEF LivedIsSpared
<1>8. FoundInScope'
  <2>1. \A s \in found.dirs \cup found.handoffs : RootOf[s] \in clean.roots /\ s \in GcSessions
    BY <1>0, <1>3 DEF OrphanDirs, OrphanHandoffs, Scanned, World
  <2>2. \A s \in found.active \cup found.markers : InRoots(RootOf[s], clean.roots)
    BY <1>3 DEF OrphanMarkers, Covered
  <2>3. \A s \in found.dirs \cup found.handoffs : InRoots(RootOf[s], clean.roots)
    <3>1. \A s \in GcSessions : RootOf[s] \in GcRoots
      BY GcAssumption
    <3>2. QED
      BY <2>1, <3>1, RootsAreInside
  <2>4. QED
    BY <1>4, <2>2, <2>3 DEF FoundInScope, InRoots
<1>9. UnwantedIsFound'
  <2>1. /\ unwanted \cap (indexed \cup starting) = {} /\ unwanted \cap clean.refs = {}
        /\ \A s \in unwanted : RootOf[s] \in clean.roots \cap present
    BY <1>1 DEF GcInv, UnwantedIsFound
  <2>2. \A s \in unwanted : InRoots(RootOf[s], clean.roots)
    <3>1. \A s \in unwanted : RootOf[s] \in GcRoots
      BY <1>0, GcAssumption DEF World
    <3>2. QED
      BY <2>1, <3>1, RootsAreInside
  <2>3. /\ unwanted \cap dirs \subseteq found.dirs /\ unwanted \cap handoffs \subseteq found.handoffs
        /\ unwanted \cap gcMarkers \subseteq found.markers
    BY <1>3, <2>1, <2>2 DEF OrphanDirs, OrphanHandoffs, OrphanMarkers, Scanned, Covered
  <2>4. Caught(1, dirs, clean.found.dirs)' /\ Caught(2, handoffs, clean.found.handoffs)'
        /\ Caught(4, gcMarkers, clean.found.markers)'
    BY <1>1, <1>4, <2>3 DEF Caught
  <2>5. QED
    BY <1>1, <1>4, <2>1, <2>4 DEF UnwantedIsFound
<1>10. QED
  BY <1>5, <1>6, <1>7, <1>8, <1>9 DEF GcInv

\* What the deletion of one category does: it takes what was found of it and nothing else,
\* and all of it unless something failed.
LEMMA DeleteEffects ==
  ASSUME GcInv, Delete
  PROVE  /\ UNCHANGED <<present, indexed, starting, transcripts, stable, lived, unwanted, gcEvents>>
         /\ clean' \in Commands /\ clean.pc = "delete" /\ clean'.pc \in {"delete", "done"}
         /\ clean'.here = clean.here /\ clean'.roots = clean.roots /\ clean'.found = clean.found
         /\ clean.failed => clean'.failed
         /\ clean.category < 6 => clean'.pc = "delete" /\ clean'.category = clean.category + 1
         /\ clean.category = 6 => clean'.pc = "done"
         /\ dirs \ clean.found.dirs \subseteq dirs' /\ dirs' \subseteq dirs
         /\ handoffs \ clean.found.handoffs \subseteq handoffs' /\ handoffs' \subseteq handoffs
         /\ gcMarkers \ clean.found.markers \subseteq gcMarkers' /\ gcMarkers' \subseteq gcMarkers
         /\ docs' \subseteq docs /\ installs' \subseteq installs
         /\ active' \in [GcSessions -> {None, "live", "dead"}]
         /\ \A s \in GcSessions \ clean.found.active : active'[s] = active[s]
         /\ clean.category = 1 /\ ~clean'.failed => dirs' \cap clean.found.dirs = {}
         /\ clean.category = 2 /\ ~clean'.failed => handoffs' \cap clean.found.handoffs = {}
         /\ clean.category = 4 /\ ~clean'.failed => gcMarkers' \cap clean.found.markers = {}
<1> DEFINE category == Categories[clean.category]
           found == clean.found[category]
<1>1. /\ UNCHANGED <<present, indexed, starting, transcripts, stable, lived, unwanted, gcEvents>>
      /\ clean.pc = "delete" /\ clean \in Commands /\ clean.category \in 1..6 /\ World
  BY DEF Delete, GcInv, AtWork
<1>2. PICK kept \in Opt(IF category \in {"dirs", "handoffs", "markers"} THEN found ELSE {}) :
         /\ dirs' = (IF category = "dirs" THEN dirs \ (found \ {kept}) ELSE dirs)
         /\ handoffs' = (IF category = "handoffs" THEN handoffs \ (found \ {kept}) ELSE handoffs)
         /\ active' = IF category = "active"
                      THEN [s \in GcSessions |-> IF s \in found \ {kept} THEN None ELSE active[s]]
                      ELSE active
         /\ gcMarkers' = (IF category = "markers" THEN gcMarkers \ (found \ {kept}) ELSE gcMarkers)
         /\ docs' = IF category = "docs" THEN docs \ Pruned(found \ {kept}) ELSE docs
         /\ installs' = (IF category = "installs" THEN installs \ (found \ {kept}) ELSE installs)
         /\ clean' = [clean EXCEPT !.category = AfterCategory(clean.category),
                         !.pc = IF AfterCategory(clean.category) = 0 THEN "done" ELSE clean.pc,
                         !.failed = clean.failed \/ kept # None]
  BY Zenon DEF Delete
<1>3. AfterCategory(clean.category) = IF clean.category < 6 THEN clean.category + 1 ELSE 0
  BY CategoryOrder DEF AfterCategory
<1>4. AfterCategory(clean.category) \in 0..6
      /\ (clean.category < 6 => AfterCategory(clean.category) = clean.category + 1 /\ AfterCategory(clean.category) # 0)
      /\ (clean.category = 6 => AfterCategory(clean.category) = 0)
  BY <1>1, <1>3
<1>5. clean' = [pc |-> IF AfterCategory(clean.category) = 0 THEN "done" ELSE "delete", here |-> clean.here,
                scope |-> clean.scope, roots |-> clean.roots, refs |-> clean.refs, found |-> clean.found,
                category |-> AfterCategory(clean.category), failed |-> (clean.failed \/ kept # None)]
  BY <1>1, <1>2 DEF Commands
<1>6. /\ clean' \in Commands /\ clean'.pc \in {"delete", "done"}
      /\ clean'.here = clean.here /\ clean'.roots = clean.roots /\ clean'.found = clean.found
  BY <1>1, <1>4, <1>5 DEF Commands
<1>7. /\ clean.failed => clean'.failed
      /\ ~clean'.failed => kept = None
      /\ clean.category < 6 => clean'.pc = "delete" /\ clean'.category = clean.category + 1
      /\ clean.category = 6 => clean'.pc = "done"
  BY <1>1, <1>4, <1>5
<1>8. clean.found \in Found /\ None \notin GcSessions
  BY <1>1, GcAssumption DEF Commands
<1>9. /\ dirs \ clean.found.dirs \subseteq dirs' /\ dirs' \subseteq dirs
      /\ clean.category = 1 /\ ~clean'.failed => dirs' \cap clean.found.dirs = {}
  BY <1>1, <1>2, <1>7, <1>8, CategoryOrder DEF Found
<1>10. /\ handoffs \ clean.found.handoffs \subseteq handoffs' /\ handoffs' \subseteq handoffs
       /\ clean.category = 2 /\ ~clean'.failed => handoffs' \cap clean.found.handoffs = {}
  BY <1>1, <1>2, <1>7, <1>8, CategoryOrder DEF Found
<1>11. /\ gcMarkers \ clean.found.markers \subseteq gcMarkers' /\ gcMarkers' \subseteq gcMarkers
       /\ clean.category = 4 /\ ~clean'.failed => gcMarkers' \cap clean.found.markers = {}
  BY <1>1, <1>2, <1>7, <1>8, CategoryOrder DEF Found
<1>12. docs' \subseteq docs /\ installs' \subseteq installs
  BY <1>1, <1>2
<1>13. /\ active' \in [GcSessions -> {None, "live", "dead"}]
       /\ \A s \in GcSessions \ clean.found.active : active'[s] = active[s]
  BY <1>1, <1>2, <1>8, CategoryOrder DEF Found, World
<1>14. QED
  BY <1>1, <1>6, <1>7, <1>9, <1>10, <1>11, <1>12, <1>13

\* What was found and not deleted yet is still what it was.
LEMMA DeleteStep == ASSUME GcInv, Delete PROVE GcInv'
<1>0. World /\ AtWork /\ DirsAreSomewhere /\ StableIsSpared /\ LivedIsSpared /\ FoundInScope /\ UnwantedIsFound
  BY DEF GcInv
<1>1. /\ UNCHANGED <<present, indexed, starting, transcripts, stable, lived, unwanted, gcEvents>>
      /\ clean' \in Commands /\ clean.pc = "delete" /\ clean'.pc \in {"delete", "done"}
      /\ clean'.here = clean.here /\ clean'.roots = clean.roots /\ clean'.found = clean.found
      /\ clean.category \in 1..6 /\ clean.here \in Contexts
  BY <1>0, DeleteEffects DEF AtWork
<1>2. /\ dirs' \subseteq dirs /\ handoffs' \subseteq handoffs /\ gcMarkers' \subseteq gcMarkers
      /\ docs' \subseteq docs /\ installs' \subseteq installs
      /\ active' \in [GcSessions -> {None, "live", "dead"}]
      /\ \A s \in GcSessions \ clean.found.active : active'[s] = active[s]
  BY DeleteEffects
<1>3. /\ clean.failed => clean'.failed
      /\ clean.category < 6 => clean'.pc = "delete" /\ clean'.category = clean.category + 1
      /\ clean.category = 6 => clean'.pc = "done"
  BY DeleteEffects
<1>4. World'
  BY <1>0, <1>1, <1>2 DEF World
<1>5. AtWork' /\ DirsAreSomewhere'
  <2>1. clean'.pc = "delete" => clean'.category \in 1..6
    BY <1>1, <1>3
  <2>2. QED
    BY <1>0, <1>1, <1>2, <2>1 DEF AtWork, DirsAreSomewhere
<1>6. StableIsSpared' /\ FoundInScope'
  BY <1>0, <1>1 DEF StableIsSpared, FoundInScope, InRoots
<1>7. LivedIsSpared'
  <2>1. \A s \in lived : s \in GcSessions \ clean.found.active /\ active[s] = "live"
    BY <1>0, <1>1 DEF LivedIsSpared, World
  <2>2. \A s \in lived : active'[s] = "live"
    BY <1>2, <2>1
  <2>3. QED
    BY <1>0, <1>1, <2>2 DEF LivedIsSpared
<1>8. UnwantedIsFound'
  <2>1. Caught(1, dirs, clean.found.dirs)'
    <3>1. clean.category = 1 /\ ~clean'.failed => dirs' \cap clean.found.dirs = {}
      BY DeleteEffects
    <3>2. clean.category <= 1 => unwanted \cap dirs \subseteq clean.found.dirs
      BY <1>0, <1>1 DEF UnwantedIsFound, Caught
    <3>3. clean.category > 1 /\ ~clean.failed => unwanted \cap dirs = {}
      BY <1>0, <1>1 DEF UnwantedIsFound, Caught
    <3>4. ~clean'.failed => unwanted \cap dirs' = {}
      BY <1>1, <1>2, <1>3, <3>1, <3>2, <3>3
    <3>5. ~(clean'.pc = "delete" /\ clean'.category <= 1)
      BY <1>1, <1>3
    <3>6. QED
      BY <1>1, <3>4, <3>5 DEF Caught
  <2>2. Caught(2, handoffs, clean.found.handoffs)'
    <3>1. clean.category = 2 /\ ~clean'.failed => handoffs' \cap clean.found.handoffs = {}
      BY DeleteEffects
    <3>2. clean.category <= 2 => unwanted \cap handoffs \subseteq clean.found.handoffs
      BY <1>0, <1>1 DEF UnwantedIsFound, Caught
    <3>3. clean.category > 2 /\ ~clean.failed => unwanted \cap handoffs = {}
      BY <1>0, <1>1 DEF UnwantedIsFound, Caught
    <3>4. clean.category >= 2 /\ ~clean'.failed => unwanted \cap handoffs' = {}
      BY <1>1, <1>2, <1>3, <3>1, <3>2, <3>3
    <3>5. clean'.pc = "delete" /\ clean'.category <= 2 => clean.category <= 2
      BY <1>1, <1>3
    <3>6. clean'.pc = "done" \/ clean'.category > 2 => clean.category >= 2
      BY <1>1, <1>3
    <3>7. QED
      BY <1>1, <1>2, <3>2, <3>4, <3>5, <3>6 DEF Caught
  <2>3. Caught(4, gcMarkers, clean.found.markers)'
    <3>1. clean.category = 4 /\ ~clean'.failed => gcMarkers' \cap clean.found.markers = {}
      BY DeleteEffects
    <3>2. clean.category <= 4 => unwanted \cap gcMarkers \subseteq clean.found.markers
      BY <1>0, <1>1 DEF UnwantedIsFound, Caught
    <3>3. clean.category > 4 /\ ~clean.failed => unwanted \cap gcMarkers = {}
      BY <1>0, <1>1 DEF UnwantedIsFound, Caught
    <3>4. clean.category >= 4 /\ ~clean'.failed => unwanted \cap gcMarkers' = {}
      BY <1>1, <1>2, <1>3, <3>1, <3>2, <3>3
    <3>5. clean'.pc = "delete" /\ clean'.category <= 4 => clean.category <= 4
      BY <1>1, <1>3
    <3>6. clean'.pc = "done" \/ clean'.category > 4 => clean.category >= 4
      BY <1>1, <1>3
    <3>7. QED
      BY <1>1, <1>2, <3>2, <3>4, <3>5, <3>6 DEF Caught
  <2>4. /\ unwanted' \cap (indexed \cup starting)' = {}
        /\ \A s \in unwanted' : RootOf[s] \in clean'.roots \cap present'
        /\ clean'.pc # "detect"
    BY <1>0, <1>1 DEF UnwantedIsFound
  <2>5. QED
    BY <2>1, <2>2, <2>3, <2>4 DEF UnwantedIsFound
<1>9. QED
  BY <1>4, <1>5, <1>6, <1>7, <1>8 DEF GcInv

-----------------------------------------------------------------------------
(* What sessions do meanwhile.                                             *)

\* The command's view and what belongs to it stay as they are, if the sessions that are
\* stable, live or unwanted only become fewer, the unwanted gain nothing, and what they are
\* judged by stays.
LEMMA OutsideStep ==
  ASSUME GcInv, World', clean' = clean, DirsAreSomewhere',
         stable' \subseteq stable, lived' \subseteq lived, unwanted' \subseteq unwanted,
         \A s \in stable' : s \in Healed => s \in Healed',
         \A s \in lived' : active'[s] = "live",
         unwanted' \cap (indexed' \cup starting') = {},
         \A s \in unwanted' : RootOf[s] \in present',
         unwanted' \cap dirs' \subseteq dirs, unwanted' \cap handoffs' \subseteq handoffs,
         unwanted' \cap gcMarkers' \subseteq gcMarkers
  PROVE  GcInv'
<1>0. World /\ AtWork /\ StableIsSpared /\ LivedIsSpared /\ FoundInScope /\ UnwantedIsFound
  BY DEF GcInv
<1>1. AtWork'
  BY <1>0 DEF AtWork
<1>2. StableIsSpared'
  <2>1. clean.pc = "refer" => stable' \subseteq Referred(clean.here, clean.scope)'
    BY <1>0 DEF StableIsSpared, Referred
  <2>2. QED
    BY <1>0, <2>1 DEF StableIsSpared
<1>3. LivedIsSpared' /\ FoundInScope'
  BY <1>0 DEF LivedIsSpared, FoundInScope, InRoots
<1>4. UnwantedIsFound'
  <2>1. Caught(1, dirs, clean.found.dirs)' /\ Caught(2, handoffs, clean.found.handoffs)'
        /\ Caught(4, gcMarkers, clean.found.markers)'
    BY <1>0 DEF UnwantedIsFound, Caught
  <2>2. QED
    BY <1>0, <2>1 DEF UnwantedIsFound
<1>5. QED
  BY <1>1, <1>2, <1>3, <1>4 DEF GcInv

\* A session starts: it was not indexed, so it is none the command must know of.
LEMMA WriteStep == ASSUME GcInv, NEW s \in GcSessions, WriteSession(s) PROVE GcInv'
<1>0. World /\ DirsAreSomewhere /\ UnwantedIsFound
  BY DEF GcInv
<1>1. /\ dirs' = dirs \cup {s} /\ starting' = starting \cup {s} /\ unwanted' = unwanted \ {s}
      /\ UNCHANGED <<present, indexed, handoffs, gcMarkers, docs, transcripts, active, installs,
                     clean, stable, lived>>
      /\ gcEvents' = gcEvents + 1 /\ RootOf[s] \in present
  BY DEF WriteSession, Meanwhile
<1>2. World' /\ DirsAreSomewhere'
  BY <1>0, <1>1 DEF World, DirsAreSomewhere
<1>3. QED
  BY <1>0, <1>1, <1>2, OutsideStep DEF GcInv, LivedIsSpared, UnwantedIsFound, Healed

\* Its start is through.
LEMMA IndexStep == ASSUME GcInv, NEW s \in GcSessions, IndexSession(s) PROVE GcInv'
<1>0. World /\ DirsAreSomewhere /\ UnwantedIsFound /\ LivedIsSpared
  BY DEF GcInv
<1>1. /\ starting' = starting \ {s} /\ indexed' = indexed \cup {s} /\ transcripts' = transcripts \cup {s}
      /\ active' = [active EXCEPT ![s] = "live"] /\ s \in starting
      /\ UNCHANGED <<present, dirs, handoffs, gcMarkers, docs, installs, clean, stable, lived, unwanted>>
      /\ gcEvents' = gcEvents + 1
  BY DEF IndexSession, Meanwhile
<1>2. World' /\ DirsAreSomewhere'
  BY <1>0, <1>1 DEF World, DirsAreSomewhere
<1>3. \A t \in lived' : active'[t] = "live"
  BY <1>0, <1>1 DEF World, LivedIsSpared
<1>4. QED
  BY <1>0, <1>1, <1>2, <1>3, OutsideStep DEF UnwantedIsFound, Healed

\* A Claude ends, and its session is no longer one that stayed live.
LEMMA EndStep == ASSUME GcInv, NEW s \in GcSessions, NEW died \in BOOLEAN, GcEnd(s, died) PROVE GcInv'
<1>0. World /\ DirsAreSomewhere /\ UnwantedIsFound /\ LivedIsSpared
  BY DEF GcInv
<1>1. /\ active' = [active EXCEPT ![s] = IF died THEN "dead" ELSE None]
      /\ gcMarkers' = IF died THEN gcMarkers ELSE gcMarkers \cup {s}
      /\ lived' = lived \ {s} /\ unwanted' = unwanted \ {s}
      /\ UNCHANGED <<present, indexed, starting, dirs, handoffs, docs, transcripts, installs, clean, stable>>
      /\ gcEvents' = gcEvents + 1
  BY DEF GcEnd, Meanwhile
<1>2. World' /\ DirsAreSomewhere'
  BY <1>0, <1>1 DEF World, DirsAreSomewhere
<1>3. \A t \in lived' : active'[t] = "live"
  BY <1>0, <1>1 DEF World, LivedIsSpared
<1>4. unwanted' \cap gcMarkers' \subseteq gcMarkers
  BY <1>1
<1>5. QED
  BY <1>0, <1>1, <1>2, <1>3, <1>4, OutsideStep DEF UnwantedIsFound, Healed

\* A session is resumed.
LEMMA ResumeStep == ASSUME GcInv, NEW s \in GcSessions, Resume(s) PROVE GcInv'
<1>0. World /\ DirsAreSomewhere /\ UnwantedIsFound /\ LivedIsSpared
  BY DEF GcInv
<1>1. /\ active' = [active EXCEPT ![s] = "live"] /\ gcEvents' = gcEvents + 1
      /\ UNCHANGED <<present, indexed, starting, dirs, handoffs, gcMarkers, docs, transcripts, installs,
                     clean, stable, lived, unwanted>>
  BY DEF Resume, Meanwhile
<1>2. World' /\ DirsAreSomewhere'
  BY <1>0, <1>1 DEF World, DirsAreSomewhere
<1>3. \A t \in lived' : active'[t] = "live"
  BY <1>0, <1>1 DEF World, LivedIsSpared
<1>4. QED
  BY <1>0, <1>1, <1>2, <1>3, OutsideStep DEF UnwantedIsFound, Healed

\* A session is deleted, and is none of those that stayed.
LEMMA DeleteSessionStep == ASSUME GcInv, NEW s \in GcSessions, DeleteSession(s) PROVE GcInv'
<1>0. World /\ DirsAreSomewhere /\ UnwantedIsFound /\ LivedIsSpared
  BY DEF GcInv
<1>1. /\ indexed' = indexed \ {s} /\ dirs' = dirs \ {s} /\ active' = [active EXCEPT ![s] = None]
      /\ stable' = stable \ {s} /\ lived' = lived \ {s} /\ gcEvents' = gcEvents + 1
      /\ UNCHANGED <<present, starting, handoffs, gcMarkers, docs, transcripts, installs, clean, unwanted>>
  BY DEF DeleteSession, Meanwhile
<1>2. World' /\ DirsAreSomewhere'
  BY <1>0, <1>1 DEF World, DirsAreSomewhere
<1>3. \A t \in lived' : active'[t] = "live"
  BY <1>0, <1>1 DEF World, LivedIsSpared
<1>4. \A t \in stable' : t \in Healed => t \in Healed'
  BY <1>1 DEF Healed
<1>5. QED
  BY <1>0, <1>1, <1>2, <1>3, <1>4, OutsideStep DEF UnwantedIsFound

\* A worktree is removed, and no session in it is one of those that stayed.
LEMMA RemoveRootStep == ASSUME GcInv, NEW r \in GcRoots, RemoveRoot(r) PROVE GcInv'
<1>0. World /\ DirsAreSomewhere /\ UnwantedIsFound /\ LivedIsSpared
  BY DEF GcInv
<1>1. /\ present' = present \ {r}
      /\ dirs' = {s \in dirs : RootOf[s] # r} /\ handoffs' = {s \in handoffs : RootOf[s] # r}
      /\ docs' = {s \in docs : RootOf[s] # r} /\ transcripts' = {s \in transcripts : RootOf[s] # r}
      /\ starting' = {s \in starting : RootOf[s] # r} /\ stable' = {s \in stable : RootOf[s] # r}
      /\ unwanted' = {s \in unwanted : RootOf[s] # r} /\ gcEvents' = gcEvents + 1
      /\ UNCHANGED <<indexed, gcMarkers, active, installs, clean, lived>>
  BY DEF RemoveRoot, Meanwhile
<1>2. World' /\ DirsAreSomewhere'
  BY <1>0, <1>1 DEF World, DirsAreSomewhere
<1>3. \A t \in stable' : t \in Healed => t \in Healed'
  BY <1>1 DEF Healed
<1>4. /\ unwanted' \cap (indexed' \cup starting') = {}
      /\ \A s \in unwanted' : RootOf[s] \in present'
  BY <1>0, <1>1 DEF UnwantedIsFound
<1>5. \A t \in lived' : active'[t] = "live"
  BY <1>0, <1>1 DEF LivedIsSpared
<1>6. QED
  BY <1>1, <1>2, <1>3, <1>4, <1>5, OutsideStep

-----------------------------------------------------------------------------
(* The theorems.                                                           *)

\* The world is in order before the command begins.
LEMMA GcInitInv == ASSUME GcInit PROVE GcInv
<1>1. PICK running \in SUBSET GcSessions, whole \in BOOLEAN : \E left \in SUBSET (GcSessions \ running) :
        /\ present = GcRoots
        /\ installs = (IF whole THEN GcRoots ELSE {})
        /\ indexed = running /\ starting = {} /\ dirs = running \cup left
        /\ handoffs = (IF whole THEN left ELSE {})
        /\ gcMarkers = running \cup left /\ docs = running \cup left
        /\ transcripts = running
        /\ active = [s \in GcSessions |-> IF s \in running THEN "live"
                                          ELSE IF s \in left THEN "dead" ELSE None]
        /\ clean = Idle /\ stable = {} /\ lived = {} /\ unwanted = {} /\ gcEvents = 0
  BY DEF GcInit
<1>2. PICK left \in SUBSET (GcSessions \ running) :
        /\ present = GcRoots
        /\ installs = (IF whole THEN GcRoots ELSE {})
        /\ indexed = running /\ starting = {} /\ dirs = running \cup left
        /\ handoffs = (IF whole THEN left ELSE {})
        /\ gcMarkers = running \cup left /\ docs = running \cup left
        /\ transcripts = running
        /\ active = [s \in GcSessions |-> IF s \in running THEN "live"
                                          ELSE IF s \in left THEN "dead" ELSE None]
        /\ clean = Idle /\ stable = {} /\ lived = {} /\ unwanted = {} /\ gcEvents = 0
  BY <1>1
<1>3. World /\ DirsAreSomewhere
  BY <1>2, GcAssumption DEF World, DirsAreSomewhere
<1>4. clean.pc = "idle" /\ AtWork
  BY <1>2, IdleTyped DEF AtWork, Idle
<1>5. StableIsSpared /\ LivedIsSpared /\ FoundInScope /\ UnwantedIsFound
  BY <1>2, <1>4 DEF StableIsSpared, LivedIsSpared, FoundInScope, UnwantedIsFound, Caught
<1>6. QED
  BY <1>3, <1>4, <1>5 DEF GcInv

\* Every step keeps the invariant.
LEMMA GcInvStep == GcInv /\ [GcNext]_gcVars => GcInv'
<1> SUFFICES ASSUME GcInv, [GcNext]_gcVars PROVE GcInv'
  OBVIOUS
<1>1. CASE CleanStep
  BY <1>1, ResolveStep, ReferencesStep, DetectStep, DeleteStep DEF CleanStep
<1>2. ASSUME NEW s \in GcSessions, WriteSession(s) \/ IndexSession(s) \/ Resume(s) \/ DeleteSession(s)
      PROVE  GcInv'
  BY <1>2, WriteStep, IndexStep, ResumeStep, DeleteSessionStep
<1>3. ASSUME NEW s \in GcSessions, NEW died \in BOOLEAN, GcEnd(s, died) PROVE GcInv'
  BY <1>3, EndStep
<1>4. ASSUME NEW r \in GcRoots, RemoveRoot(r) PROVE GcInv'
  BY <1>4, RemoveRootStep
<1>5. CASE UNCHANGED gcVars
  BY <1>5 DEF gcVars, worldVars, GcInv, World, AtWork, DirsAreSomewhere, StableIsSpared, LivedIsSpared,
     FoundInScope, InRoots, UnwantedIsFound, Caught, Referred, Healed
<1>6. QED
  BY <1>1, <1>2, <1>3, <1>4, <1>5 DEF GcNext

\* The inductive invariant: what the command has read of the sessions that stay indexed,
\* stay live or are wanted by nobody stays true of them until it is done.
THEOREM GcInvariance == GcSpec => []GcInv
<1>1. GcInit => GcInv
  BY GcInitInv
<1>2. QED
  BY <1>1, GcInvStep, PTL DEF GcSpec

\* Each category is complete when the command is done with it.
LEMMA InvIsComplete == GcInv => GcTypeOK /\ CleanIsComplete
<1> SUFFICES ASSUME GcInv PROVE GcTypeOK /\ CleanIsComplete
  OBVIOUS
<1>1. World /\ AtWork /\ clean \in Commands
  BY DEF GcInv, AtWork
<1>2. /\ clean.found \in Found /\ clean.category \in 0..6 /\ clean.roots \subseteq GcRoots
      /\ clean.refs \subseteq GcSessions /\ clean.pc \in {"idle", "refer", "detect", "delete", "done"}
  BY <1>1 DEF Commands
<1>3. DOMAIN clean.found = DOMAIN NothingFound
  BY <1>2 DEF Found, NothingFound
<1>4. GcTypeOK
  BY <1>1, <1>2, <1>3, CategoryOrder DEF GcTypeOK, World
<1>5. CleanIsComplete
  BY DEF GcInv, UnwantedIsFound, Caught, CleanIsComplete
<1>6. QED
  BY <1>4, <1>5

\* The steps that delete are those of Delete.
LEMMA DeletesByDelete == ASSUME GcInv, [GcNext]_gcVars, Deletes PROVE Delete
<1>1. clean.pc = "delete" /\ clean' # clean
  BY DEF Deletes
<1>2. UNCHANGED gcVars => clean' = clean
  BY DEF gcVars
<1>3. ASSUME NEW s \in GcSessions,
             WriteSession(s) \/ IndexSession(s) \/ Resume(s) \/ DeleteSession(s) \/ \E died \in BOOLEAN : GcEnd(s, died)
      PROVE  clean' = clean
  BY <1>3 DEF WriteSession, IndexSession, Resume, DeleteSession, GcEnd
<1>4. ASSUME NEW r \in GcRoots, RemoveRoot(r) PROVE clean' = clean
  BY <1>4 DEF RemoveRoot
<1>5. CleanStep
  BY <1>1, <1>2, <1>3, <1>4 DEF GcNext
<1>6. QED
  BY <1>1, <1>5 DEF CleanStep, ResolveRoots, ReadReferences, Detect

\* No deletion touches a session that stayed indexed, an entry that stayed live, or what is
\* out of scope.
LEMMA DeletesSafely ==
  ASSUME GcInv, [GcNext]_gcVars, Deletes
  PROVE  /\ \A s \in stable :
               Keeps(s, dirs, dirs') /\ Keeps(s, handoffs, handoffs') /\ Keeps(s, gcMarkers, gcMarkers')
         /\ \A s \in lived : active'[s] = "live"
         /\ \A s \in GcSessions : ~(\E q \in clean.roots : <<RootOf[s], q>> \in Inside) =>
               /\ Keeps(s, dirs, dirs') /\ Keeps(s, handoffs, handoffs') /\ Keeps(s, gcMarkers, gcMarkers')
               /\ active'[s] = active[s]
<1>0. Delete /\ clean.pc = "delete"
  BY DeletesByDelete DEF Deletes
<1>1. /\ dirs \ clean.found.dirs \subseteq dirs'
      /\ handoffs \ clean.found.handoffs \subseteq handoffs'
      /\ gcMarkers \ clean.found.markers \subseteq gcMarkers'
      /\ \A s \in GcSessions \ clean.found.active : active'[s] = active[s]
  BY <1>0, DeleteEffects
<1>2. stable \cap (clean.found.dirs \cup clean.found.handoffs \cup clean.found.markers) = {}
  BY <1>0 DEF GcInv, StableIsSpared
<1>3. lived \subseteq GcSessions /\ lived \cap clean.found.active = {} /\ \A s \in lived : active[s] = "live"
  BY <1>0 DEF GcInv, LivedIsSpared, World
<1>4. \A s \in clean.found.dirs \cup clean.found.handoffs \cup clean.found.active \cup clean.found.markers :
         \E q \in clean.roots : <<RootOf[s], q>> \in Inside
  BY <1>0 DEF GcInv, FoundInScope, InRoots
<1>5. \A s \in stable :
         Keeps(s, dirs, dirs') /\ Keeps(s, handoffs, handoffs') /\ Keeps(s, gcMarkers, gcMarkers')
  BY <1>1, <1>2 DEF Keeps
<1>6. \A s \in lived : active'[s] = "live"
  BY <1>1, <1>3
<1>7. ASSUME NEW s \in GcSessions, ~(\E q \in clean.roots : <<RootOf[s], q>> \in Inside)
      PROVE  /\ Keeps(s, dirs, dirs') /\ Keeps(s, handoffs, handoffs') /\ Keeps(s, gcMarkers, gcMarkers')
             /\ active'[s] = active[s]
  BY <1>1, <1>4, <1>7 DEF Keeps
<1>8. QED
  BY <1>5, <1>6, <1>7

\* CleanIsSafe: a clean takes all that is orphaned in its scope, and nothing of a session
\* that stayed indexed, no entry of a live one, and nothing out of scope.
THEOREM CleanSafe == GcSpec => CleanIsSafe
<1>1. GcInv /\ [GcNext]_gcVars =>
        [Deletes => \A s \in stable : Keeps(s, dirs, dirs') /\ Keeps(s, handoffs, handoffs')
                                      /\ Keeps(s, gcMarkers, gcMarkers')]_gcVars
  BY DeletesSafely
<1>2. GcInv /\ [GcNext]_gcVars => [Deletes => \A s \in lived : active'[s] = "live"]_gcVars
  BY DeletesSafely
<1>3. GcInv /\ [GcNext]_gcVars =>
        [Deletes => \A s \in GcSessions : ~(\E q \in clean.roots : <<RootOf[s], q>> \in Inside) =>
           /\ Keeps(s, dirs, dirs') /\ Keeps(s, handoffs, handoffs') /\ Keeps(s, gcMarkers, gcMarkers')
           /\ active'[s] = active[s]]_gcVars
  BY DeletesSafely
<1>4. QED
  BY <1>1, <1>2, <1>3, GcInvariance, InvIsComplete, PTL
  DEF GcSpec, CleanIsSafe, IndexedSessionsKeepState, LiveEntriesSurvive, OnlyTheScopeIsTouched

-----------------------------------------------------------------------------
(***************************************************************************)
(* Proofs about BackendLifecycle for any managers, ports and services, and *)
(* any number of commands, faults and crashes.                             *)
(*                                                                         *)
(* Two commands that meet may leave a service nobody can stop: what can be *)
(* promised is for a command that met no other, and, as long as none has   *)
(* met another, for the whole.  The invariant says what such a command     *)
(* knows at each of its places although it never looks twice: of services  *)
(* on its way (NoStrangers), of its port (Tidy), of what a delete has      *)
(* still to stop (Pending).                                                *)
(***************************************************************************)
BackendSpec == BackendInit /\ [][BackendNext]_backendVars

EnsurePlaces == {"check", "removeDead", "spawn", "wait", "register"}

Jobs == [op : {None, "ensure", "stop", "delete"},
         at : {"idle", "signal", "unlist", "stopping"} \cup EnsurePlaces,
         port : Opt(BackendPorts), pid : Opt(Services), todo : SUBSET BackendPorts]

Typed ==
    /\ config \in BOOLEAN /\ backends \in [BackendPorts -> Opt(Services)]
    /\ service \in [Services -> [port : Opt(BackendPorts),
                                 phase : {"unborn", "starting", "listening", "ending", "dead"}]]
    /\ job \in [Managers -> Jobs]
    /\ alone \subseteq Managers /\ muddled \in BOOLEAN

\* What a command holds where it is.
Placed(c) ==
    /\ job[c].at \in EnsurePlaces => job[c].op = "ensure" /\ job[c].port \in BackendPorts
    /\ job[c].at \in {"signal", "unlist"} => job[c].op \in {"stop", "delete"} /\ job[c].port \in BackendPorts
    /\ job[c].at = "stopping" => job[c].op = "delete"
    /\ job[c].at \in {"wait", "register", "signal", "unlist"} => job[c].pid \in Services
    /\ job[c].at \in {"wait", "register"} => service[job[c].pid].port = job[c].port

\* No service comes or goes but the one that the command has started.
NoStrangers(c) ==
    \A s \in Services :
        /\ service[s].phase # "ending"
        /\ service[s].phase = "starting" => job[c].at \in {"wait", "register"} /\ job[c].pid = s

\* What a delete has still to stop.
Pending(c) == job[c].todo \cup (IF job[c].at \in {"signal", "unlist"} THEN {job[c].port} ELSE {})

\* What a command knows while no two have met.
Tidy(c) ==
    /\ job[c].at \in {"removeDead", "spawn"} => Answering(job[c].port) = {}
    /\ job[c].at \in {"wait", "register"} => Answering(job[c].port) \subseteq {job[c].pid}
    /\ job[c].at = "register" => service[job[c].pid].phase # "starting"
    /\ job[c].at = "register" /\ c \in alone => service[job[c].pid].phase = "listening"
    /\ job[c].at \in {"signal", "unlist"} => backends[job[c].port] = job[c].pid
    /\ job[c].at = "unlist" => service[job[c].pid].phase # "listening"

Serving(p) == \E s \in Services : service[s] = [port |-> p, phase |-> "listening"]

\* What a command that met no other can count on.
Sole(c) == \A b \in Managers : job[b].at # "idle" => b = c

Sure(c) ==
    /\ job[c].op = "ensure" => NoStrangers(c)
    /\ c \in alone /\ job[c].at = "register" => Serving(job[c].port)
    /\ c \in alone /\ job[c].op = "delete" => Listed \subseteq Pending(c)
    /\ ~muddled => Tidy(c)

Undisturbed == \A c \in Managers : job[c].at # "idle" /\ (c \in alone \/ ~muddled) => Sole(c) /\ Sure(c)

\* As long as no two commands have met, what runs is listed and what starts is waited for.
Known ==
    ~muddled => \A s \in Services :
        /\ service[s].phase \in {"starting", "listening"} => service[s].port \in BackendPorts
        /\ service[s].phase = "listening" =>
              \/ backends[service[s].port] = s
              \/ \E c \in Managers : job[c].pid = s /\ job[c].at \in {"wait", "register"}
        /\ service[s].phase = "starting" => \E c \in Managers : job[c].pid = s /\ job[c].at = "wait"

BackendInv ==
    /\ Typed /\ \A c \in Managers : Placed(c)
    /\ Undisturbed /\ Known /\ EnsuredIsServed /\ DeletedIsStopped

-----------------------------------------------------------------------------
(* Steps of any kind.                                                      *)

\* A step that completes nothing keeps what was promised of completions.
LEMMA Incomplete ==
  ASSUME Typed', \A c \in Managers : Placed(c)', Undisturbed', Known', done' = None
  PROVE  BackendInv'
  BY DEF BackendInv, EnsuredIsServed, DeletedIsStopped

\* Under an undisturbed command nothing else is under way.
LEMMA Watched ==
  ASSUME BackendInv, NEW c \in Managers, job[c].at # "idle", c \in alone \/ ~muddled
  PROVE  Sole(c) /\ Sure(c)
  BY DEF BackendInv, Undisturbed

\* A command's step leaves the others as they are, and an undisturbed command has no other.
LEMMA GoKeeps ==
  ASSUME BackendInv, NEW c \in Managers, NEW x \in Jobs, job' = [job EXCEPT ![c] = x], job[c].at # "idle",
         config' \in BOOLEAN, backends' \in [BackendPorts -> Opt(Services)],
         service' \in [Services -> [port : Opt(BackendPorts),
                                    phase : {"unborn", "starting", "listening", "ending", "dead"}]],
         alone' = alone, muddled' = muddled, Placed(c)',
         \A s \in Services : service[s].port # None => service'[s].port = service[s].port,
         x.at # "idle" /\ (c \in alone \/ ~muddled) => Sure(c)'
  PROVE  Typed' /\ (\A d \in Managers : Placed(d)') /\ Undisturbed'
<1>0. Typed /\ (\A d \in Managers : Placed(d)) /\ Undisturbed
  BY DEF BackendInv
<1>1. \A d \in Managers \ {c} : job'[d] = job[d]
  BY <1>0 DEF Typed
<1>2. job'[c] = x
  BY <1>0 DEF Typed
<1>3. Typed'
  BY <1>0 DEF Typed
<1>4. ASSUME NEW d \in Managers \ {c} PROVE Placed(d)'
  <2>1. Placed(d) /\ job'[d] = job[d]
    BY <1>0, <1>1
  <2>2. job[d].at \in {"wait", "register"} => service'[job[d].pid].port = job[d].port
    <3>1. SUFFICES ASSUME job[d].at \in {"wait", "register"} PROVE service'[job[d].pid].port = job[d].port
      OBVIOUS
    <3>2. job[d].pid \in Services /\ service[job[d].pid].port = job[d].port /\ job[d].port \in BackendPorts
      BY <2>1, <3>1 DEF Placed, EnsurePlaces
    <3>3. QED
      BY <3>2, BackendAssumption
  <2>3. QED
    BY <2>1, <2>2 DEF Placed
<1>5. ASSUME NEW d \in Managers, job'[d].at # "idle", d \in alone' \/ ~muddled' PROVE Sole(d)' /\ Sure(d)'
  <2>1. CASE d = c
    <3>1. Sole(c)
      BY <1>5, <2>1, Watched
    <3>2. Sole(c)'
      BY <1>1, <3>1 DEF Sole
    <3>3. QED
      BY <1>2, <1>5, <2>1, <3>2
  <2>2. CASE d # c
    <3>1. Sole(d)
      BY <1>1, <1>5, <2>2, Watched
    <3>2. QED
      BY <2>2, <3>1 DEF Sole
  <2>3. QED
    BY <2>1, <2>2
<1>6. Undisturbed'
  BY <1>5 DEF Undisturbed
<1>7. QED
  BY <1>3, <1>4, <1>6 DEF Placed

\* A command that begins knows that nothing is under way, or is not watched.
LEMMA BeginKeeps ==
  ASSUME BackendInv, NEW c \in Managers, NEW op, NEW p, NEW at, NEW fields, Begin(c, op, p, at, fields),
         [fields EXCEPT !.op = op, !.port = p, !.at = at] \in Jobs, config' \in BOOLEAN,
         Placed(c)',
         c \in alone' /\ (\A s \in Services : service[s].phase \notin {"starting", "ending"}) => Sure(c)'
  PROVE  BackendInv'
<1> DEFINE x == [fields EXCEPT !.op = op, !.port = p, !.at = at]
<1>0. Typed /\ (\A d \in Managers : Placed(d)) /\ Undisturbed /\ Known
  BY DEF BackendInv
<1>1. /\ job' = [job EXCEPT ![c] = x] /\ job[c].at = "idle" /\ done' = None
      /\ muddled' = (muddled \/ c \notin alone')
      /\ UNCHANGED <<backends, service, backendFaults, serviceCrashes>>
  BY DEF Begin
<1>2. alone' = IF /\ {b \in Managers : job[b].at # "idle"} = {}
                  /\ \A s \in Services : service[s].phase \notin {"starting", "ending"}
               THEN {c} ELSE {}
  BY DEF Begin
<1> HIDE DEF x
<1>3. x \in Jobs
  BY DEF x
<1>4. \A d \in Managers \ {c} : job'[d] = job[d]
  BY <1>0, <1>1 DEF Typed
<1>5. Typed'
  BY <1>0, <1>1, <1>2, <1>3 DEF Typed
<1>6. \A d \in Managers \ {c} : Placed(d)'
  BY <1>0, <1>1, <1>4 DEF Placed
<1>7. ASSUME NEW d \in Managers, job'[d].at # "idle", d \in alone' \/ ~muddled' PROVE Sole(d)' /\ Sure(d)'
  <2>1. c \in alone' /\ \A b \in Managers : job[b].at = "idle"
    BY <1>1, <1>2, <1>7
  <2>2. \A s \in Services : service[s].phase \notin {"starting", "ending"}
    BY <1>2, <2>1
  <2>3. d = c
    BY <1>4, <1>7, <2>1
  <2>4. Sole(c)'
    BY <1>4, <2>1 DEF Sole
  <2>5. QED
    BY <2>1, <2>2, <2>3, <2>4
<1>8. Undisturbed'
  BY <1>7 DEF Undisturbed
<1>9. Known'
  <2>1. SUFFICES ASSUME ~muddled' PROVE \A s \in Services :
          /\ service[s].phase = "listening" => backends[service[s].port] = s /\ service[s].port \in BackendPorts
          /\ service[s].phase # "starting"
    BY <1>1 DEF Known
  <2>2. ~muddled /\ c \in alone'
    BY <1>1, <2>1
  <2>3. \A b \in Managers : job[b].at = "idle"
    BY <1>2, <2>2
  <2>4. QED
    BY <1>0, <1>2, <2>2, <2>3 DEF Known
<1>10. QED
  BY <1>1, <1>5, <1>6, <1>8, <1>9, Incomplete

\* A fault muddles what follows.
LEMMA FaultKeeps ==
  ASSUME BackendInv, Typed', \A c \in Managers : Placed(c)', BackendFault
  PROVE  BackendInv'
<1>1. muddled' = TRUE /\ alone' = {} /\ done' = None
  BY DEF BackendFault
<1>2. Undisturbed' /\ Known'
  BY <1>1 DEF Undisturbed, Known
<1>3. QED
  BY <1>1, <1>2, Incomplete

-----------------------------------------------------------------------------

(* Services.                                                               *)

\* A service that ends leaves nothing to be known of it.
LEMMA ServiceEnds ==
  ASSUME BackendInv, NEW s \in Services, Phase(s, "dead"), alone' = {} \/ (alone' = alone /\ service[s].phase # "listening")
  PROVE  BackendInv'
<1>0. Typed /\ (\A d \in Managers : Placed(d)) /\ Undisturbed /\ Known
  BY DEF BackendInv
<1>1. /\ service' = [service EXCEPT ![s].phase = "dead"] /\ done' = None
      /\ UNCHANGED <<config, backends, job, muddled, managed, backendFaults>>
  BY DEF Phase
<1>2. \A t \in Services : /\ service'[t].port = service[t].port
                          /\ t # s => service'[t] = service[t]
                          /\ t = s => service'[t].phase = "dead"
  BY <1>0, <1>1 DEF Typed
<1>3. Typed'
  BY <1>0, <1>1 DEF Typed
<1>4. \A d \in Managers : Placed(d)'
  BY <1>0, <1>1, <1>2 DEF Placed
<1>5. ASSUME NEW c \in Managers, job'[c].at # "idle", c \in alone' \/ ~muddled' PROVE Sole(c)' /\ Sure(c)'
  <2>1. Sole(c) /\ Sure(c) /\ Placed(c)
    BY <1>0, <1>1, <1>5, Watched
  <2>2. Sole(c)'
    BY <1>1, <2>1 DEF Sole
  <2>3. job[c].op = "ensure" => NoStrangers(c)'
    BY <1>1, <1>2, <2>1 DEF Sure, NoStrangers
  <2>4. c \in alone' /\ job[c].at = "register" => Serving(job[c].port)'
    BY <1>1, <1>2, <2>1 DEF Sure, Serving
  <2>5. c \in alone' /\ job[c].op = "delete" => Listed \subseteq Pending(c)
    BY <2>1 DEF Sure
  <2>6. ~muddled => Tidy(c)'
    BY <1>1, <1>2, <2>1 DEF Sure, Tidy, Answering, Placed
  <2>7. QED
    BY <1>1, <2>2, <2>3, <2>4, <2>5, <2>6 DEF Sure, Listed, Pending
<1>6. Undisturbed'
  BY <1>5 DEF Undisturbed
<1>7. Known'
  BY <1>0, <1>1, <1>2 DEF Known
<1>8. QED
  BY <1>1, <1>3, <1>4, <1>6, <1>7, Incomplete

\* A service that binds its port is the one an undisturbed command waits for.
LEMMA ServiceBinds ==
  ASSUME BackendInv, NEW s \in Services, Phase(s, "listening"), service[s].phase = "starting", alone' = alone
  PROVE  BackendInv'
<1>0. Typed /\ (\A d \in Managers : Placed(d)) /\ Undisturbed /\ Known
  BY DEF BackendInv
<1>1. /\ service' = [service EXCEPT ![s].phase = "listening"] /\ done' = None
      /\ UNCHANGED <<config, backends, job, muddled, managed, backendFaults>>
  BY DEF Phase
<1>2. \A t \in Services : /\ service'[t].port = service[t].port
                          /\ t # s => service'[t] = service[t]
                          /\ t = s => service'[t].phase = "listening"
  BY <1>0, <1>1 DEF Typed
<1>3. Typed'
  BY <1>0, <1>1 DEF Typed
<1>4. \A d \in Managers : Placed(d)'
  BY <1>0, <1>1, <1>2 DEF Placed
<1>5. ASSUME NEW c \in Managers, job'[c].at # "idle", c \in alone' \/ ~muddled' PROVE Sole(c)' /\ Sure(c)'
  <2>1. Sole(c) /\ Sure(c) /\ Placed(c)
    BY <1>0, <1>1, <1>5, Watched
  <2>2. Sole(c)'
    BY <1>1, <2>1 DEF Sole
  <2>3. job[c].op = "ensure" => NoStrangers(c)'
    BY <1>1, <1>2, <2>1 DEF Sure, NoStrangers
  <2>4. c \in alone' /\ job[c].at = "register" => Serving(job[c].port)'
    <3>1. SUFFICES ASSUME c \in alone, job[c].at = "register" PROVE Serving(job[c].port)'
      BY <1>1
    <3>2. PICK t \in Services : service[t] = [port |-> job[c].port, phase |-> "listening"]
      BY <2>1, <3>1 DEF Sure, Serving
    <3>3. t # s
      BY <3>2
    <3>4. QED
      BY <1>1, <1>2, <3>2, <3>3 DEF Serving
  <2>5. c \in alone' /\ job[c].op = "delete" => Listed \subseteq Pending(c)
    BY <2>1 DEF Sure
  <2>6. ~muddled => Tidy(c)'
    <3>1. SUFFICES ASSUME ~muddled PROVE Tidy(c)'
      OBVIOUS
    <3>2. PICK d \in Managers : job[d].pid = s /\ job[d].at = "wait"
      BY <1>0, <3>1 DEF Known
    <3>3. d = c
      BY <2>1, <3>2 DEF Sole
    <3>4. Answering(job[c].port)' \subseteq Answering(job[c].port) \cup {s}
      BY <1>1, <1>2 DEF Answering
    <3>5. QED
      BY <1>1, <2>1, <3>1, <3>2, <3>3, <3>4 DEF Sure, Tidy
  <2>7. QED
    BY <1>1, <2>2, <2>3, <2>4, <2>5, <2>6 DEF Sure, Listed, Pending
<1>6. Undisturbed'
  BY <1>5 DEF Undisturbed
<1>7. Known'
  <2>1. SUFFICES ASSUME ~muddled PROVE Known'
    BY <1>1 DEF Known
  <2>2. PICK d \in Managers : job[d].pid = s /\ job[d].at = "wait"
    BY <1>0, <2>1 DEF Known
  <2>3. QED
    BY <1>0, <1>1, <1>2, <2>1, <2>2 DEF Known
<1>8. QED
  BY <1>1, <1>3, <1>4, <1>6, <1>7, Incomplete

\* Services bind their ports, end and crash.
LEMMA ServiceStep ==
  ASSUME BackendInv, NEW s \in Services, BindPort(s) \/ HandleTerm(s) \/ ServiceCrashes(s)
  PROVE  BackendInv'
<1>1. CASE BindPort(s)
  <2>1. CASE Answering(service[s].port) = {}
    BY <1>1, <2>1, ServiceBinds DEF BindPort
  <2>2. CASE Answering(service[s].port) # {}
    BY <1>1, <2>2, ServiceEnds DEF BindPort
  <2>3. QED
    BY <2>1, <2>2
<1>2. CASE HandleTerm(s)
  BY <1>2, ServiceEnds DEF HandleTerm
<1>3. CASE ServiceCrashes(s)
  <2>1. Phase(s, "dead") /\ alone' = {}
    BY <1>3 DEF ServiceCrashes
  <2>2. QED
    BY <2>1, ServiceEnds
<1>4. QED
  BY <1>1, <1>2, <1>3

-----------------------------------------------------------------------------
(* Commands begin, and break off.                                          *)

\* The config is created.
LEMMA CreateStep == ASSUME BackendInv, CreateBackend PROVE BackendInv'
<1>1. /\ config' = TRUE /\ done' = None
      /\ UNCHANGED <<backends, service, job, alone, muddled, managed, backendFaults, serviceCrashes>>
  BY DEF CreateBackend
<1>2. Typed' /\ Known' /\ \A c \in Managers : Placed(c)'
  BY <1>1 DEF BackendInv, Typed, Known, Placed
<1>3. Undisturbed'
  BY <1>1 DEF BackendInv, Undisturbed, Sole, Sure, NoStrangers, Serving, Listed, Pending, Tidy, Answering
<1>4. QED
  BY <1>1, <1>2, <1>3, Incomplete

\* Nothing a command may begin with is out of type.
LEMMA NoJobTyped == NoJob \in Jobs
  BY DEF NoJob, Jobs, EnsurePlaces, Opt

\* An ensure begins.
LEMMA BeginEnsureStep == ASSUME BackendInv, NEW c \in Managers, NEW p \in BackendPorts, BeginEnsure(c, p) PROVE BackendInv'
<1> DEFINE at == IF backends[p] = None THEN "spawn" ELSE "check"
<1>a. PICK x : x = [NoJob EXCEPT !.op = "ensure", !.port = p, !.at = at]
  OBVIOUS
<1>0. Typed /\ Known /\ Undisturbed
  BY DEF BackendInv
<1>1. Begin(c, "ensure", p, at, NoJob) /\ config' = TRUE
  BY DEF BeginEnsure
<1>2. /\ job' = [job EXCEPT ![c] = x] /\ service' = service /\ backends' = backends
      /\ muddled' = (muddled \/ c \notin alone')
      /\ c \in alone' => \A b \in Managers : job[b].at = "idle"
  BY <1>1, <1>a DEF Begin
<1>3. x = [op |-> "ensure", at |-> at, port |-> p, pid |-> None, todo |-> {}]
  BY <1>a DEF NoJob
<1>4. at \in {"check", "spawn"} /\ (at = "spawn" => backends[p] = None)
  OBVIOUS
<1> HIDE DEF at
<1>5. x \in Jobs
  BY <1>3, <1>4 DEF Jobs, EnsurePlaces, Opt
<1>6. job'[c] = [op |-> "ensure", at |-> at, port |-> p, pid |-> None, todo |-> {}]
  BY <1>0, <1>2, <1>3 DEF Typed
<1>7. Placed(c)'
  BY <1>4, <1>6 DEF Placed, EnsurePlaces
<1>8. ASSUME c \in alone', \A s \in Services : service[s].phase \notin {"starting", "ending"} PROVE Sure(c)'
  <2>1. NoStrangers(c)'
    BY <1>2, <1>8 DEF NoStrangers
  <2>2. ~muddled' => Tidy(c)'
    <3>1. SUFFICES ASSUME ~muddled, at = "spawn" PROVE Answering(p) = {}
      <4>1. ~muddled' => ~muddled
        BY <1>0, <1>2 DEF Typed
      <4>2. Answering(p)' = Answering(p)
        BY <1>2 DEF Answering
      <4>3. QED
        BY <1>4, <1>6, <3>1, <4>1, <4>2 DEF Tidy
    <3>2. \A s \in Services : service[s].phase = "listening" => backends[service[s].port] = s
      BY <1>0, <1>2, <1>8, <3>1 DEF Known
    <3>3. QED
      BY <1>4, <1>8, <3>1, <3>2, BackendAssumption DEF Answering
  <2>3. QED
    BY <1>4, <1>6, <2>1, <2>2 DEF Sure
<1>9. QED
  BY <1>a, <1>1, <1>5, <1>7, <1>8, BeginKeeps

\* A stop begins with the entry it was given.
LEMMA BeginStopStep == ASSUME BackendInv, NEW c \in Managers, NEW p \in BackendPorts, BeginStop(c, p) PROVE BackendInv'
<1>a. PICK fields : fields = [NoJob EXCEPT !.pid = backends[p]]
  OBVIOUS
<1>b. PICK x : x = [fields EXCEPT !.op = "stop", !.port = p, !.at = "signal"]
  OBVIOUS
<1>0. Typed
  BY DEF BackendInv
<1>1. Begin(c, "stop", p, "signal", fields) /\ config' = config /\ backends[p] \in Services
  BY <1>a, <1>0 DEF BeginStop, Listed, Typed, Opt
<1>2. job' = [job EXCEPT ![c] = x] /\ service' = service /\ backends' = backends
  BY <1>1, <1>b DEF Begin
<1>3. x = [op |-> "stop", at |-> "signal", port |-> p, pid |-> backends[p], todo |-> {}]
  BY <1>a, <1>b DEF NoJob
<1>4. x \in Jobs
  BY <1>1, <1>3 DEF Jobs, EnsurePlaces, Opt
<1>5. job'[c] = [op |-> "stop", at |-> "signal", port |-> p, pid |-> backends[p], todo |-> {}]
  BY <1>0, <1>2, <1>3 DEF Typed
<1>6. Placed(c)' /\ Sure(c)'
  BY <1>1, <1>2, <1>5 DEF Placed, EnsurePlaces, Sure, Tidy
<1>7. QED
  BY <1>b, <1>0, <1>1, <1>4, <1>6, BeginKeeps DEF Typed

\* A delete begins with what is listed.
LEMMA BeginDeleteStep == ASSUME BackendInv, NEW c \in Managers, BeginDelete(c) PROVE BackendInv'
<1>a. PICK fields : fields = [NoJob EXCEPT !.todo = Listed]
  OBVIOUS
<1>b. PICK x : x = [fields EXCEPT !.op = "delete", !.port = None, !.at = "stopping"]
  OBVIOUS
<1>0. Typed
  BY DEF BackendInv
<1>1. Begin(c, "delete", None, "stopping", fields) /\ config' = config
  BY <1>a DEF BeginDelete
<1>2. job' = [job EXCEPT ![c] = x] /\ service' = service /\ backends' = backends
  BY <1>1, <1>b DEF Begin
<1>3. x = [op |-> "delete", at |-> "stopping", port |-> None, pid |-> None, todo |-> Listed]
  BY <1>a, <1>b DEF NoJob
<1>4. x \in Jobs
  BY <1>3 DEF Jobs, EnsurePlaces, Opt, Listed
<1>5. job'[c] = [op |-> "delete", at |-> "stopping", port |-> None, pid |-> None, todo |-> Listed]
  BY <1>0, <1>2, <1>3 DEF Typed
<1>6. Placed(c)' /\ Sure(c)'
  BY <1>1, <1>2, <1>5 DEF Placed, EnsurePlaces, Sure, Tidy, Pending, Listed
<1>7. QED
  BY <1>b, <1>0, <1>1, <1>4, <1>6, BeginKeeps DEF Typed

\* A command breaks off, or takes a live backend for dead.
LEMMA FaultStep == ASSUME BackendInv, NEW c \in Managers, BreakOff(c) \/ FindMute(c) PROVE BackendInv'
<1>0. Typed /\ \A d \in Managers : Placed(d)
  BY DEF BackendInv
<1>1. UNCHANGED <<config, backends, service>> /\ muddled' = TRUE /\ alone' = {} /\ BackendFault
  BY DEF BreakOff, FindMute, BackendFault
<1>2. CASE BreakOff(c)
  <2>1. job' = [job EXCEPT ![c] = NoJob]
    BY <1>2 DEF BreakOff
  <2>2. Typed' /\ \A d \in Managers : Placed(d)'
    BY <1>0, <1>1, <2>1, NoJobTyped DEF Typed, Placed, NoJob, EnsurePlaces
  <2>3. QED
    BY <1>1, <2>2, FaultKeeps
<1>3. CASE FindMute(c)
  <2>1. job' = [job EXCEPT ![c].at = "removeDead"] /\ job[c].at = "check"
    BY <1>3 DEF FindMute
  <2>2. \A d \in Managers : /\ d # c => job'[d] = job[d]
                            /\ d = c => job'[d] = [job[d] EXCEPT !.at = "removeDead"]
    BY <1>0, <2>1 DEF Typed
  <2>3. [job[c] EXCEPT !.at = "removeDead"] \in Jobs
    BY <1>0 DEF Typed, Jobs, EnsurePlaces
  <2>4. Typed'
    BY <1>0, <1>1, <2>1, <2>2, <2>3 DEF Typed
  <2>5. \A d \in Managers : Placed(d)'
    BY <1>0, <1>1, <2>1, <2>2 DEF Placed, EnsurePlaces, Typed, Jobs
  <2>6. QED
    BY <1>1, <2>4, <2>5, FaultKeeps
<1>4. QED
  BY <1>2, <1>3

-----------------------------------------------------------------------------

(* The steps of an ensure.                                                 *)

Phases == {"unborn", "starting", "listening", "ending", "dead"}

\* What a command finds in a state.
LEMMA At ==
  ASSUME BackendInv, NEW c \in Managers
  PROVE  /\ Typed /\ Placed(c) /\ Known
         /\ job[c] \in Jobs
         /\ service \in [Services -> [port : Opt(BackendPorts), phase : Phases]]
         /\ job[c].at # "idle" /\ ~muddled => Sole(c) /\ Sure(c)
         /\ job[c].at # "idle" /\ c \in alone => Sole(c) /\ Sure(c)
<1>1. Typed /\ Placed(c) /\ Known
  BY DEF BackendInv
<1>2. job[c] \in Jobs /\ service \in [Services -> [port : Opt(BackendPorts), phase : Phases]]
  BY <1>1 DEF Typed, Phases
<1>3. QED
  BY <1>1, <1>2, Watched

\* The port of an entry does not answer.
LEMMA FindDeadStep == ASSUME BackendInv, NEW c \in Managers, FindDead(c) PROVE BackendInv'
<1> DEFINE x == [job[c] EXCEPT !.at = "removeDead"]
<1>0. Typed /\ Placed(c) /\ Known /\ job[c] \in Jobs
  BY At
<1>1. /\ job[c].at = "check" /\ Answering(job[c].port) = {} /\ done' = None
      /\ job' = [job EXCEPT ![c] = x]
      /\ UNCHANGED <<config, backends, service, alone, muddled>>
  BY DEF FindDead, Go
<1>2. x \in Jobs
  BY <1>0 DEF Jobs, EnsurePlaces
<1>3. job'[c] = x
  BY <1>0, <1>1 DEF Typed
<1>4. x.at = "removeDead" /\ x.op = job[c].op /\ x.port = job[c].port
  BY <1>0 DEF Jobs
<1> HIDE DEF x
<1>5. Placed(c)'
  BY <1>0, <1>1, <1>3, <1>4 DEF Placed, EnsurePlaces
<1>6. ASSUME c \in alone \/ ~muddled PROVE Sure(c)'
  <2>1. Sure(c)
    BY <1>1, <1>6, Watched
  <2>2. Answering(job[c].port)' = {}
    BY <1>1, <1>3, <1>4 DEF Answering
  <2>3. job[c].op = "ensure"
    BY <1>0, <1>1 DEF Placed, EnsurePlaces
  <2>4. NoStrangers(c)'
    BY <1>1, <2>1, <2>3 DEF Sure, NoStrangers
  <2>5. QED
    BY <1>3, <1>4, <2>2, <2>3, <2>4 DEF Sure, Tidy
<1>7. Known'
  BY <1>0, <1>1, <1>3, <1>4 DEF Known, Typed
<1>8. QED
  BY <1>0, <1>1, <1>2, <1>5, <1>6, <1>7, GoKeeps, Incomplete DEF Typed

\* The entry that answered nothing is removed: nothing listens on its port.
LEMMA RemoveDeadStep == ASSUME BackendInv, NEW c \in Managers, RemoveDead(c) PROVE BackendInv'
<1> DEFINE x == [job[c] EXCEPT !.at = "spawn"]
<1>0. Typed /\ Placed(c) /\ Known /\ job[c] \in Jobs
  BY At
<1>1. /\ job[c].at = "removeDead" /\ done' = None
      /\ backends' = [backends EXCEPT ![job[c].port] = None]
      /\ job' = [job EXCEPT ![c] = x]
      /\ UNCHANGED <<config, service, alone, muddled>>
  BY DEF RemoveDead, Go
<1>2. x \in Jobs
  BY <1>0 DEF Jobs, EnsurePlaces
<1>3. job'[c] = x
  BY <1>0, <1>1 DEF Typed
<1>4. x.at = "spawn" /\ x.op = job[c].op /\ x.port = job[c].port
  BY <1>0 DEF Jobs
<1> HIDE DEF x
<1>5. Placed(c)'
  BY <1>0, <1>1, <1>3, <1>4 DEF Placed, EnsurePlaces
<1>6. ASSUME c \in alone \/ ~muddled PROVE Sure(c)'
  <2>1. Sure(c)
    BY <1>1, <1>6, Watched
  <2>2. ~muddled => Answering(job[c].port)' = {}
    BY <1>1, <1>3, <1>4, <2>1 DEF Answering, Sure, Tidy
  <2>3. job[c].op = "ensure"
    BY <1>0, <1>1 DEF Placed, EnsurePlaces
  <2>4. NoStrangers(c)'
    BY <1>1, <2>1, <2>3 DEF Sure, NoStrangers
  <2>5. QED
    BY <1>1, <1>3, <1>4, <2>2, <2>3, <2>4 DEF Sure, Tidy
<1>7. Known'
  <2>1. SUFFICES ASSUME ~muddled PROVE Known'
    BY <1>1 DEF Known
  <2>2. Sole(c) /\ Answering(job[c].port) = {}
    BY <1>1, <2>1, Watched DEF Sure, Tidy
  <2>3. \A s \in Services : service[s].phase = "listening" => service[s].port # job[c].port
    BY <2>2 DEF Answering
  <2>4. \A d \in Managers : job[d].at \notin {"wait", "register"}
    BY <1>1, <2>2 DEF Sole
  <2>5. QED
    BY <1>0, <1>1, <2>1, <2>3, <2>4 DEF Known, Typed
<1>8. backends' \in [BackendPorts -> Opt(Services)]
  BY <1>0, <1>1 DEF Typed, Opt
<1>9. QED
  BY <1>0, <1>1, <1>2, <1>5, <1>6, <1>7, <1>8, GoKeeps, Incomplete DEF Typed

\* A command without a config gives up.
LEMMA NoConfigStep ==
  ASSUME BackendInv, NEW c \in Managers, job[c].at \notin {"idle", "wait", "register"}, Go(c, NoJob),
         UNCHANGED <<config, backends, service>>
  PROVE  BackendInv'
<1>0. Typed /\ Placed(c) /\ Known /\ job[c] \in Jobs
  BY At
<1>1. /\ job' = [job EXCEPT ![c] = NoJob] /\ done' = None /\ UNCHANGED <<alone, muddled>>
  BY DEF Go
<1>2. job'[c] = NoJob
  BY <1>0, <1>1 DEF Typed
<1>3. Placed(c)' /\ NoJob.at = "idle"
  BY <1>2 DEF Placed, NoJob, EnsurePlaces
<1>4. Known'
  BY <1>0, <1>1, <1>2 DEF Known, Typed
<1>5. QED
  BY <1>0, <1>1, <1>3, <1>4, NoJobTyped, GoKeeps, Incomplete DEF Typed

\* A process is started on a port where, if nothing is muddled, nothing answers.
LEMMA SpawnStep == ASSUME BackendInv, NEW c \in Managers, SpawnService(c), config PROVE BackendInv'
<1>0. Typed /\ Placed(c) /\ Known /\ job[c] \in Jobs
  BY At
<1>1. PICK s \in Services :
        /\ service[s] = NoService
        /\ service' = [service EXCEPT ![s] = [port |-> job[c].port, phase |-> "starting"]]
        /\ Go(c, [job[c] EXCEPT !.at = "wait", !.pid = s])
  BY DEF SpawnService
<1> DEFINE x == [job[c] EXCEPT !.at = "wait", !.pid = s]
<1>2. /\ job[c].at = "spawn" /\ done' = None /\ job' = [job EXCEPT ![c] = x]
      /\ UNCHANGED <<config, backends, alone, muddled>>
  BY <1>1 DEF SpawnService, Go
<1>3. x \in Jobs
  BY <1>0 DEF Jobs, EnsurePlaces, Opt
<1>4. job'[c] = x
  BY <1>0, <1>2 DEF Typed
<1>5. x.at = "wait" /\ x.op = job[c].op /\ x.port = job[c].port /\ x.pid = s
  BY <1>0 DEF Jobs
<1> HIDE DEF x
<1>6. job[c].op = "ensure" /\ job[c].port \in BackendPorts
  BY <1>0, <1>2 DEF Placed, EnsurePlaces
<1>7. /\ service'[s] = [port |-> job[c].port, phase |-> "starting"]
      /\ \A t \in Services \ {s} : service'[t] = service[t]
      /\ service[s].port = None /\ service[s].phase = "unborn"
  BY <1>0, <1>1 DEF Typed, NoService
<1>8. service' \in [Services -> [port : Opt(BackendPorts),
                                phase : {"unborn", "starting", "listening", "ending", "dead"}]]
  BY <1>0, <1>1, <1>6 DEF Typed, Opt
<1>9. Placed(c)'
  BY <1>4, <1>5, <1>6, <1>7 DEF Placed, EnsurePlaces
<1>10. ASSUME c \in alone \/ ~muddled PROVE Sure(c)'
  <2>1. Sure(c)
    BY <1>2, <1>10, Watched
  <2>2. \A t \in Services : service[t].phase \notin {"ending", "starting"}
    BY <1>2, <1>6, <2>1 DEF Sure, NoStrangers
  <2>3. NoStrangers(c)'
    BY <1>4, <1>5, <1>7, <2>2 DEF NoStrangers
  <2>4. ~muddled => Answering(job[c].port)' = {}
    BY <1>2, <1>4, <1>5, <1>7, <2>1 DEF Answering, Sure, Tidy
  <2>5. QED
    BY <1>2, <1>4, <1>5, <1>6, <2>3, <2>4 DEF Sure, Tidy
<1>11. Known'
  <2>1. SUFFICES ASSUME ~muddled PROVE Known'
    BY <1>2 DEF Known
  <2>2. Sole(c) /\ NoStrangers(c)
    BY <1>2, <1>6, <2>1, Watched DEF Sure
  <2>3. \A d \in Managers : job[d].at \notin {"wait", "register"}
    BY <1>2, <2>2 DEF Sole
  <2>4. \A t \in Services : service[t].phase = "listening" =>
           backends[service[t].port] = t /\ service[t].port \in BackendPorts
    BY <1>0, <2>1, <2>3 DEF Known
  <2>5. \A t \in Services \ {s} : service[t].phase # "starting"
    BY <1>2, <2>2 DEF NoStrangers
  <2>6. QED
    BY <1>2, <1>4, <1>5, <1>6, <1>7, <2>4, <2>5 DEF Known
<1>12. QED
  BY <1>0, <1>2, <1>3, <1>7, <1>8, <1>9, <1>10, <1>11, GoKeeps, Incomplete DEF Typed

\* The port answers: the process an undisturbed command waits for.
LEMMA FindHealthyStep == ASSUME BackendInv, NEW c \in Managers, FindHealthy(c) PROVE BackendInv'
<1> DEFINE x == [job[c] EXCEPT !.at = "register"]
<1>0. Typed /\ Placed(c) /\ Known /\ job[c] \in Jobs
  BY At
<1>1. /\ job[c].at = "wait" /\ Answering(job[c].port) # {} /\ done' = None
      /\ job' = [job EXCEPT ![c] = x]
      /\ UNCHANGED <<config, backends, service, alone, muddled>>
  BY DEF FindHealthy, Go
<1>2. x \in Jobs
  BY <1>0 DEF Jobs, EnsurePlaces
<1>3. job'[c] = x
  BY <1>0, <1>1 DEF Typed
<1>4. x.at = "register" /\ x.op = job[c].op /\ x.port = job[c].port /\ x.pid = job[c].pid
  BY <1>0 DEF Jobs
<1> HIDE DEF x
<1>5. Placed(c)'
  BY <1>0, <1>1, <1>3, <1>4 DEF Placed, EnsurePlaces
<1>6. job[c].op = "ensure"
  BY <1>0, <1>1 DEF Placed, EnsurePlaces
<1>7. ASSUME c \in alone \/ ~muddled PROVE Sure(c)'
  <2>1. Sure(c) /\ NoStrangers(c)
    BY <1>1, <1>6, <1>7, Watched DEF Sure
  <2>2. PICK s \in Services : service[s].port = job[c].port /\ service[s].phase \in {"listening", "ending"}
    BY <1>1 DEF Answering
  <2>3. service[s].phase = "listening"
    BY <2>1, <2>2 DEF NoStrangers
  <2>4. service[s] = [port |-> job[c].port, phase |-> "listening"]
    BY <1>0, <2>2, <2>3 DEF Typed
  <2>5. Serving(job[c].port)'
    BY <1>1, <1>3, <1>4, <2>4 DEF Serving
  <2>6. NoStrangers(c)'
    BY <1>1, <1>3, <1>4, <2>1 DEF NoStrangers
  <2>7. ~muddled => Tidy(c)'
    <3>1. SUFFICES ASSUME ~muddled PROVE Tidy(c)'
      OBVIOUS
    <3>2. Answering(job[c].port) \subseteq {job[c].pid}
      BY <1>1, <2>1, <3>1 DEF Sure, Tidy
    <3>3. s = job[c].pid
      BY <2>2, <3>2 DEF Answering
    <3>4. Answering(job[c].port)' = Answering(job[c].port)
      BY <1>1, <1>3, <1>4 DEF Answering
    <3>5. QED
      BY <1>1, <1>3, <1>4, <2>3, <3>2, <3>3, <3>4 DEF Tidy
  <2>8. QED
    BY <1>1, <1>3, <1>4, <1>6, <2>5, <2>6, <2>7 DEF Sure
<1>8. Known'
  <2>1. SUFFICES ASSUME ~muddled PROVE Known'
    BY <1>1 DEF Known
  <2>2. Sole(c) /\ NoStrangers(c) /\ Answering(job[c].port) \subseteq {job[c].pid}
    BY <1>1, <1>6, <2>1, Watched DEF Sure, Tidy
  <2>3. service[job[c].pid].phase # "starting"
    BY <1>1, <2>2 DEF Answering
  <2>4. \A t \in Services : service[t].phase # "starting"
    BY <1>1, <2>2, <2>3 DEF NoStrangers
  <2>5. \A d \in Managers : /\ d # c => job'[d] = job[d]
                            /\ job[d].at \in {"wait", "register"} =>
                                 job'[d].pid = job[d].pid /\ job'[d].at \in {"wait", "register"}
    BY <1>0, <1>1, <1>3, <1>4 DEF Typed
  <2>6. QED
    BY <1>0, <1>1, <2>1, <2>4, <2>5 DEF Known
<1>9. QED
  BY <1>0, <1>1, <1>2, <1>5, <1>7, <1>8, GoKeeps, Incomplete DEF Typed

-----------------------------------------------------------------------------

(* The end of an ensure.                                                   *)

\* A child that does not answer in time is killed.
LEMMA GiveUpStep == ASSUME BackendInv, NEW c \in Managers, GiveUp(c) PROVE BackendInv'
<1>0. Typed /\ Placed(c) /\ Known /\ job[c] \in Jobs
  BY At
<1>1. /\ job[c].at = "wait" /\ done' = None /\ job' = [job EXCEPT ![c] = NoJob]
      /\ service' = [service EXCEPT ![job[c].pid].phase = "dead"]
      /\ UNCHANGED <<config, backends, alone, muddled>>
  BY DEF GiveUp, Go
<1>2. job'[c] = NoJob /\ NoJob.at = "idle"
  BY <1>0, <1>1 DEF Typed, NoJob
<1>3. job[c].op = "ensure" /\ job[c].pid \in Services
  BY <1>0, <1>1 DEF Placed, EnsurePlaces
<1>4. \A t \in Services : /\ service'[t].port = service[t].port
                          /\ t # job[c].pid => service'[t] = service[t]
                          /\ t = job[c].pid => service'[t].phase = "dead"
  BY <1>0, <1>1 DEF Typed
<1>5. service' \in [Services -> [port : Opt(BackendPorts),
                                phase : {"unborn", "starting", "listening", "ending", "dead"}]]
  BY <1>0, <1>1 DEF Typed
<1>6. Placed(c)'
  BY <1>2 DEF Placed, EnsurePlaces
<1>7. Known'
  <2>1. SUFFICES ASSUME ~muddled PROVE Known'
    BY <1>1 DEF Known
  <2>2. Sole(c)
    BY <1>1, <2>1, Watched
  <2>3. \A d \in Managers : job[d].at \in {"wait", "register"} => job[d].pid = job[c].pid
    BY <2>2 DEF Sole
  <2>4. QED
    BY <1>0, <1>1, <1>4, <2>1, <2>3 DEF Known
<1>8. QED
  BY <1>0, <1>1, <1>2, <1>4, <1>5, <1>6, <1>7, NoJobTyped, GoKeeps, Incomplete DEF Typed

\* Whoever answers is taken for the registered process, and serves its port.
LEMMA ReuseStep == ASSUME BackendInv, NEW c \in Managers, Reuse(c) PROVE BackendInv'
<1>0. Typed /\ Placed(c) /\ Known /\ job[c] \in Jobs
  BY At
<1>1. /\ job[c].at = "check" /\ Answering(job[c].port) # {} /\ job' = [job EXCEPT ![c] = NoJob]
      /\ done' = [op |-> job[c].op, port |-> job[c].port, alone |-> c \in alone]
      /\ UNCHANGED <<config, backends, service, alone, muddled>>
  BY DEF Reuse, Complete
<1>2. job'[c] = NoJob /\ NoJob.at = "idle"
  BY <1>0, <1>1 DEF Typed, NoJob
<1>3. Placed(c)'
  BY <1>2 DEF Placed, EnsurePlaces
<1>4. job[c].op = "ensure"
  BY <1>0, <1>1 DEF Placed, EnsurePlaces
<1>5. Typed' /\ (\A d \in Managers : Placed(d)') /\ Undisturbed'
  BY <1>0, <1>1, <1>2, <1>3, NoJobTyped, GoKeeps DEF Typed
<1>6. Known'
  BY <1>0, <1>1, <1>2 DEF Known, Typed
<1>7. EnsuredIsServed'
  <2>1. SUFFICES ASSUME c \in alone
                 PROVE  \E s \in Services :
                          /\ service[s] = [port |-> job[c].port, phase |-> "listening"]
                          /\ muddled \/ backends[job[c].port] = s
    BY <1>1 DEF EnsuredIsServed
  <2>2. Sole(c) /\ NoStrangers(c)
    BY <1>1, <1>4, <2>1, Watched DEF Sure
  <2>3. PICK s \in Services : service[s].port = job[c].port /\ service[s].phase \in {"listening", "ending"}
    BY <1>1 DEF Answering
  <2>4. service[s] = [port |-> job[c].port, phase |-> "listening"]
    BY <1>0, <2>2, <2>3 DEF Typed, NoStrangers
  <2>5. \A d \in Managers : job[d].at \notin {"wait", "register"}
    BY <1>1, <2>2 DEF Sole
  <2>6. ~muddled => backends[job[c].port] = s
    BY <1>0, <2>3, <2>4, <2>5 DEF Known
  <2>7. QED
    BY <2>4, <2>6
<1>8. DeletedIsStopped'
  BY <1>1, <1>4 DEF DeletedIsStopped
<1>9. QED
  BY <1>5, <1>6, <1>7, <1>8 DEF BackendInv

\* The process that serves the port is registered.
LEMMA RegisterStep == ASSUME BackendInv, NEW c \in Managers, RegisterService(c) PROVE BackendInv'
<1>0. Typed /\ Placed(c) /\ Known /\ job[c] \in Jobs
  BY At
<1>1. /\ job[c].at = "register" /\ job' = [job EXCEPT ![c] = NoJob]
      /\ backends' = [backends EXCEPT ![job[c].port] = job[c].pid]
      /\ done' = [op |-> job[c].op, port |-> job[c].port, alone |-> c \in alone]
      /\ UNCHANGED <<config, service, alone, muddled>>
  BY DEF RegisterService, Complete
<1>2. job'[c] = NoJob /\ NoJob.at = "idle"
  BY <1>0, <1>1 DEF Typed, NoJob
<1>3. Placed(c)'
  BY <1>2 DEF Placed, EnsurePlaces
<1>4. /\ job[c].op = "ensure" /\ job[c].pid \in Services /\ job[c].port \in BackendPorts
      /\ service[job[c].pid].port = job[c].port
  BY <1>0, <1>1 DEF Placed, EnsurePlaces
<1>5. backends' \in [BackendPorts -> Opt(Services)] /\ backends'[job[c].port] = job[c].pid
  BY <1>0, <1>1, <1>4 DEF Typed, Opt
<1>6. Typed' /\ (\A d \in Managers : Placed(d)') /\ Undisturbed'
  BY <1>0, <1>1, <1>2, <1>3, <1>5, NoJobTyped, GoKeeps DEF Typed
<1>7. Known'
  <2>1. SUFFICES ASSUME ~muddled PROVE Known'
    BY <1>1 DEF Known
  <2>2. Sole(c) /\ NoStrangers(c) /\ Tidy(c)
    BY <1>1, <1>4, <2>1, Watched DEF Sure
  <2>3. \A s \in Services : service[s].phase # "starting"
    BY <1>1, <2>2 DEF NoStrangers, Tidy
  <2>4. \A d \in Managers : job[d].at \in {"wait", "register"} => job[d].pid = job[c].pid
    BY <2>2 DEF Sole
  <2>5. ASSUME NEW s \in Services, service[s].phase = "listening"
        PROVE  backends'[service[s].port] = s /\ service[s].port \in BackendPorts
    <3>1. CASE service[s].port = job[c].port
      <4>1. s = job[c].pid
        BY <1>1, <2>2, <2>5, <3>1 DEF Tidy, Answering
      <4>2. QED
        BY <1>4, <1>5, <4>1
    <3>2. CASE service[s].port # job[c].port
      <4>1. service[s].port \in BackendPorts
        BY <1>0, <2>1, <2>5 DEF Known
      <4>2. backends[service[s].port] = s
        BY <1>0, <1>4, <2>1, <2>4, <2>5, <3>2 DEF Known
      <4>3. QED
        BY <1>0, <1>1, <3>2, <4>1, <4>2 DEF Typed
    <3>3. QED
      BY <3>1, <3>2
  <2>6. QED
    BY <1>1, <2>3, <2>5 DEF Known
<1>8. EnsuredIsServed'
  <2>1. SUFFICES ASSUME c \in alone
                 PROVE  \E s \in Services :
                          /\ service[s] = [port |-> job[c].port, phase |-> "listening"]
                          /\ muddled \/ backends'[job[c].port] = s
    BY <1>1 DEF EnsuredIsServed
  <2>2. Sure(c)
    BY <1>1, <2>1, Watched
  <2>3. CASE muddled
    BY <1>1, <2>1, <2>2, <2>3 DEF Sure, Serving
  <2>4. CASE ~muddled
    <3>1. service[job[c].pid].phase = "listening"
      BY <1>1, <2>1, <2>2, <2>4 DEF Sure, Tidy
    <3>2. service[job[c].pid] = [port |-> job[c].port, phase |-> "listening"]
      BY <1>0, <1>4, <3>1 DEF Typed
    <3>3. QED
      BY <1>4, <1>5, <3>2
  <2>5. QED
    BY <2>3, <2>4
<1>9. DeletedIsStopped'
  BY <1>1, <1>4 DEF DeletedIsStopped
<1>10. QED
  BY <1>6, <1>7, <1>8, <1>9 DEF BackendInv

-----------------------------------------------------------------------------
(* The steps of a stop and of a delete.                                    *)

\* The process of the entry is told to end.
LEMMA SignalStep == ASSUME BackendInv, NEW c \in Managers, SignalService(c) PROVE BackendInv'
<1> DEFINE x == [job[c] EXCEPT !.at = "unlist"]
<1>0. Typed /\ Placed(c) /\ Known /\ job[c] \in Jobs
  BY At
<1>1. /\ job[c].at = "signal" /\ done' = None /\ job' = [job EXCEPT ![c] = x]
      /\ service' = [service EXCEPT ![job[c].pid].phase = IF @ = "dead" THEN @ ELSE "ending"]
      /\ UNCHANGED <<config, backends, alone, muddled>>
  BY DEF SignalService, Go
<1>2. x \in Jobs
  BY <1>0 DEF Jobs, EnsurePlaces
<1>3. job'[c] = x
  BY <1>0, <1>1 DEF Typed
<1>4. x.at = "unlist" /\ x.op = job[c].op /\ x.port = job[c].port /\ x.pid = job[c].pid /\ x.todo = job[c].todo
  BY <1>0 DEF Jobs
<1> HIDE DEF x
<1>5. job[c].op \in {"stop", "delete"} /\ job[c].pid \in Services /\ job[c].port \in BackendPorts
  BY <1>0, <1>1 DEF Placed, EnsurePlaces
<1>6. \A t \in Services : /\ service'[t].port = service[t].port
                          /\ t # job[c].pid => service'[t] = service[t]
                          /\ t = job[c].pid => service'[t].phase \in {"dead", "ending"}
  BY <1>0, <1>1 DEF Typed
<1>7. service' \in [Services -> [port : Opt(BackendPorts),
                                phase : {"unborn", "starting", "listening", "ending", "dead"}]]
  BY <1>0, <1>1 DEF Typed
<1>8. Placed(c)'
  BY <1>3, <1>4, <1>5 DEF Placed, EnsurePlaces
<1>9. ASSUME c \in alone \/ ~muddled PROVE Sure(c)'
  <2>1. Sure(c)
    BY <1>1, <1>9, Watched
  <2>2. c \in alone /\ job[c].op = "delete" => (Listed \subseteq Pending(c))'
    BY <1>1, <1>3, <1>4, <2>1 DEF Sure, Listed, Pending
  <2>3. ~muddled => Tidy(c)'
    BY <1>1, <1>3, <1>4, <1>5, <1>6, <2>1 DEF Sure, Tidy
  <2>4. QED
    BY <1>1, <1>3, <1>4, <1>5, <2>2, <2>3 DEF Sure
<1>10. Known'
  <2>1. SUFFICES ASSUME ~muddled PROVE Known'
    BY <1>1 DEF Known
  <2>2. \A d \in Managers : job[d].at \notin {"wait", "register"}
    BY <1>1, <2>1, Watched DEF Sole
  <2>3. QED
    BY <1>0, <1>1, <1>6, <2>1, <2>2 DEF Known
<1>11. QED
  BY <1>0, <1>1, <1>2, <1>6, <1>7, <1>8, <1>9, <1>10, GoKeeps, Incomplete DEF Typed

\* Its entry is removed.
LEMMA UnlistStep == ASSUME BackendInv, NEW c \in Managers, Unlist(c) PROVE BackendInv'
<1> DEFINE x == [job[c] EXCEPT !.at = "stopping"]
           y == IF job[c].op = "delete" THEN x ELSE NoJob
<1>0. Typed /\ Placed(c) /\ Known /\ job[c] \in Jobs
  BY At
<1>1. /\ job[c].at = "unlist" /\ job' = [job EXCEPT ![c] = y]
      /\ backends' = [backends EXCEPT ![job[c].port] = None]
      /\ UNCHANGED <<config, service, alone, muddled>>
  BY DEF Unlist, Go, Complete
<1>2. job[c].op \in {"stop", "delete"} /\ job[c].port \in BackendPorts
  BY <1>0, <1>1 DEF Placed, EnsurePlaces
<1>3. done' = None \/ done'.op = "stop"
  BY <1>2 DEF Unlist, Go, Complete
<1>4. x \in Jobs
  BY <1>0 DEF Jobs, EnsurePlaces
<1>5. x.at = "stopping" /\ x.op = job[c].op /\ x.port = job[c].port /\ x.todo = job[c].todo
  BY <1>0 DEF Jobs
<1>6. NoJob.at = "idle"
  BY DEF NoJob
<1> HIDE DEF x
<1>7. y \in Jobs /\ y.at \in {"stopping", "idle"} /\ (y.at = "stopping" => y = x /\ job[c].op = "delete")
  BY <1>4, <1>5, <1>6, NoJobTyped
<1> HIDE DEF y
<1>8. job'[c] = y
  BY <1>0, <1>1 DEF Typed
<1>9. Placed(c)'
  BY <1>5, <1>7, <1>8 DEF Placed, EnsurePlaces
<1>10. backends' \in [BackendPorts -> Opt(Services)]
  BY <1>0, <1>1 DEF Typed, Opt
<1>11. ASSUME y.at # "idle", c \in alone \/ ~muddled PROVE Sure(c)'
  <2>1. Sure(c)
    BY <1>1, <1>11, Watched
  <2>2. c \in alone => (Listed \subseteq Pending(c))'
    <3>1. SUFFICES ASSUME c \in alone PROVE (Listed \subseteq Pending(c))'
      OBVIOUS
    <3>2. Listed \subseteq Pending(c)
      BY <1>7, <1>11, <2>1, <3>1 DEF Sure
    <3>3. Pending(c)' = job[c].todo
      BY <1>5, <1>7, <1>8, <1>11 DEF Pending
    <3>4. Pending(c) = job[c].todo \cup {job[c].port}
      BY <1>1 DEF Pending
    <3>5. Listed' = Listed \ {job[c].port}
      BY <1>0, <1>1, <1>2 DEF Listed, Typed
    <3>6. QED
      BY <3>2, <3>3, <3>4, <3>5
  <2>3. QED
    BY <1>1, <1>5, <1>7, <1>8, <1>11, <2>2 DEF Sure, Tidy
<1>12. Known'
  <2>1. SUFFICES ASSUME ~muddled PROVE Known'
    BY <1>1 DEF Known
  <2>2. Sole(c) /\ Tidy(c)
    BY <1>1, <2>1, Watched DEF Sure
  <2>3. \A d \in Managers : job[d].at \notin {"wait", "register"}
    BY <1>1, <2>2 DEF Sole
  <2>4. \A s \in Services : service[s].phase = "listening" => service[s].port # job[c].port
    BY <1>0, <1>1, <2>1, <2>2, <2>3 DEF Known, Tidy
  <2>5. QED
    BY <1>0, <1>1, <2>1, <2>3, <2>4 DEF Known, Typed
<1>13. Typed' /\ (\A d \in Managers : Placed(d)') /\ Undisturbed'
  BY <1>0, <1>1, <1>7, <1>9, <1>10, <1>11, GoKeeps DEF Typed
<1>14. EnsuredIsServed' /\ DeletedIsStopped'
  BY <1>3 DEF EnsuredIsServed, DeletedIsStopped
<1>15. QED
  BY <1>12, <1>13, <1>14 DEF BackendInv

\* A delete turns to the next of its list.
LEMMA StopNextStep == ASSUME BackendInv, NEW c \in Managers, StopNext(c) PROVE BackendInv'
<1>0. Typed /\ Placed(c) /\ Known /\ job[c] \in Jobs
  BY At
<1>1. job[c].at = "stopping" /\ UNCHANGED <<config, backends, service>>
  BY DEF StopNext
<1>2. PICK p \in job[c].todo :
        Go(c, IF backends[p] = None THEN NoJob
              ELSE [job[c] EXCEPT !.at = "signal", !.port = p, !.pid = backends[p], !.todo = @ \ {p}])
  BY DEF StopNext
<1>3. CASE backends[p] = None
  BY <1>1, <1>2, <1>3, NoConfigStep
<1>4. CASE backends[p] # None
  <2>1. PICK x : x = [job[c] EXCEPT !.at = "signal", !.port = p, !.pid = backends[p], !.todo = @ \ {p}]
    OBVIOUS
  <2>2. job' = [job EXCEPT ![c] = x] /\ done' = None /\ UNCHANGED <<alone, muddled>>
    BY <1>2, <1>4, <2>1 DEF Go
  <2>3. p \in BackendPorts /\ backends[p] \in Services /\ job[c].op = "delete"
    BY <1>0, <1>1, <1>4 DEF Jobs, Typed, Opt, Placed
  <2>4. x = [op |-> job[c].op, at |-> "signal", port |-> p, pid |-> backends[p], todo |-> job[c].todo \ {p}]
    BY <1>0, <2>1 DEF Jobs
  <2>5. x \in Jobs
    BY <1>0, <2>3, <2>4 DEF Jobs, EnsurePlaces, Opt
  <2>6. job'[c] = [op |-> "delete", at |-> "signal", port |-> p, pid |-> backends[p], todo |-> job[c].todo \ {p}]
    BY <1>0, <2>2, <2>3, <2>4 DEF Typed
  <2>7. Placed(c)'
    BY <2>3, <2>6 DEF Placed, EnsurePlaces
  <2>8. ASSUME c \in alone \/ ~muddled PROVE Sure(c)'
    <3>1. Sure(c)
      BY <1>1, <2>8, Watched
    <3>2. c \in alone => Listed \subseteq job[c].todo
      BY <1>1, <2>3, <3>1 DEF Sure, Pending
    <3>3. Listed' = Listed /\ Pending(c)' = (job[c].todo \ {p}) \cup {p}
      BY <1>1, <2>6 DEF Listed, Pending
    <3>4. QED
      BY <1>1, <2>2, <2>6, <3>2, <3>3 DEF Sure, Tidy
  <2>9. Known'
    BY <1>0, <1>1, <2>2, <2>6 DEF Known, Typed
  <2>10. QED
    BY <1>0, <1>1, <2>2, <2>5, <2>7, <2>8, <2>9, GoKeeps, Incomplete DEF Typed
<1>5. QED
  BY <1>3, <1>4

\* The delete has stopped all of its list, and removes the config.
LEMMA RemoveConfigStep == ASSUME BackendInv, NEW c \in Managers, RemoveConfig(c) PROVE BackendInv'
<1>0. Typed /\ Placed(c) /\ Known /\ job[c] \in Jobs
  BY At
<1>1. /\ job[c].at = "stopping" /\ job[c].todo = {} /\ config' = FALSE
      /\ job' = [job EXCEPT ![c] = NoJob]
      /\ done' = [op |-> job[c].op, port |-> job[c].port, alone |-> c \in alone]
      /\ UNCHANGED <<backends, service, alone, muddled>>
  BY DEF RemoveConfig, Complete
<1>2. job'[c] = NoJob /\ NoJob.at = "idle"
  BY <1>0, <1>1 DEF Typed, NoJob
<1>3. Placed(c)'
  BY <1>2 DEF Placed, EnsurePlaces
<1>4. job[c].op = "delete"
  BY <1>0, <1>1 DEF Placed
<1>5. Typed' /\ (\A d \in Managers : Placed(d)') /\ Undisturbed'
  BY <1>0, <1>1, <1>2, <1>3, NoJobTyped, GoKeeps DEF Typed
<1>6. Known'
  BY <1>0, <1>1, <1>2 DEF Known, Typed
<1>7. DeletedIsStopped'
  <2>1. SUFFICES ASSUME c \in alone
                 PROVE  Listed = {} /\ (muddled \/ \A s \in Services : service[s].phase # "listening")
    BY <1>1 DEF DeletedIsStopped, Listed
  <2>2. Sole(c) /\ Listed \subseteq Pending(c)
    BY <1>1, <1>4, <2>1, Watched DEF Sure
  <2>3. Listed = {}
    BY <1>1, <2>2 DEF Pending
  <2>4. \A d \in Managers : job[d].at \notin {"wait", "register"}
    BY <1>1, <2>2 DEF Sole
  <2>5. ASSUME ~muddled, NEW s \in Services PROVE service[s].phase # "listening"
    BY <1>0, <2>3, <2>4, <2>5, BackendAssumption DEF Known, Listed
  <2>6. QED
    BY <2>3, <2>5
<1>8. EnsuredIsServed'
  BY <1>1, <1>4 DEF EnsuredIsServed
<1>9. QED
  BY <1>5, <1>6, <1>7, <1>8 DEF BackendInv

-----------------------------------------------------------------------------
(* The theorems.                                                           *)

\* At first nothing runs and nothing is listed.
LEMMA BackendInitInv == ASSUME BackendInit PROVE BackendInv
<1>1. /\ config \in BOOLEAN /\ backends = [p \in BackendPorts |-> None]
      /\ service = [s \in Services |-> NoService] /\ job = [c \in Managers |-> NoJob]
      /\ done = None /\ alone = {} /\ muddled = FALSE
  BY DEF BackendInit
<1>2. Typed
  <2>1. NoService \in [port : Opt(BackendPorts), phase : {"unborn", "starting", "listening", "ending", "dead"}]
    BY DEF NoService, Opt
  <2>2. QED
    BY <1>1, <2>1, NoJobTyped DEF Typed, Opt
<1>3. \A c \in Managers : job[c].at = "idle"
  BY <1>1 DEF NoJob
<1>4. \A s \in Services : service[s].phase = "unborn"
  BY <1>1 DEF NoService
<1>5. (\A c \in Managers : Placed(c)) /\ Undisturbed
  BY <1>3 DEF Placed, EnsurePlaces, Undisturbed
<1>6. Known
  BY <1>4 DEF Known
<1>7. EnsuredIsServed /\ DeletedIsStopped
  BY <1>1 DEF EnsuredIsServed, DeletedIsStopped
<1>8. QED
  BY <1>2, <1>5, <1>6, <1>7 DEF BackendInv

\* A step of a command, begun or under way.
LEMMA CommandStep ==
  ASSUME BackendInv, NEW c \in Managers,
         \/ BreakOff(c) \/ Reuse(c) \/ FindDead(c) \/ FindMute(c) \/ RemoveDead(c) \/ SpawnService(c)
         \/ FindHealthy(c) \/ GiveUp(c) \/ RegisterService(c)
         \/ SignalService(c) \/ Unlist(c) \/ BeginDelete(c) \/ StopNext(c) \/ RemoveConfig(c)
  PROVE  BackendInv'
<1>1. CASE SpawnService(c)
  <2>1. CASE config
    BY <1>1, <2>1, SpawnStep
  <2>2. CASE ~config
    BY <1>1, <2>2, NoConfigStep DEF SpawnService
  <2>3. QED
    BY <2>1, <2>2
<1>2. CASE BreakOff(c) \/ Reuse(c) \/ FindDead(c) \/ FindMute(c) \/ RemoveDead(c)
  BY <1>2, FaultStep, ReuseStep, FindDeadStep, RemoveDeadStep
<1>3. CASE FindHealthy(c) \/ GiveUp(c) \/ RegisterService(c) \/ SignalService(c)
  BY <1>3, FindHealthyStep, GiveUpStep, RegisterStep, SignalStep
<1>4. CASE Unlist(c) \/ BeginDelete(c) \/ StopNext(c) \/ RemoveConfig(c)
  BY <1>4, UnlistStep, BeginDeleteStep, StopNextStep, RemoveConfigStep
<1>5. QED
  BY <1>1, <1>2, <1>3, <1>4

\* A step that changes nothing.
LEMMA Stutter == ASSUME BackendInv, UNCHANGED backendVars PROVE BackendInv'
<1>1. UNCHANGED <<config, backends, service, job, done, alone, muddled>>
  BY DEF backendVars
<1>2. Typed' /\ Known' /\ (\A c \in Managers : Placed(c)')
  BY <1>1 DEF BackendInv, Typed, Known, Placed
<1>3. Undisturbed'
  BY <1>1 DEF BackendInv, Undisturbed, Sole, Sure, NoStrangers, Serving, Listed, Pending, Tidy, Answering
<1>4. EnsuredIsServed' /\ DeletedIsStopped'
  BY <1>1 DEF BackendInv, EnsuredIsServed, DeletedIsStopped, Listed
<1>5. QED
  BY <1>2, <1>3, <1>4 DEF BackendInv

\* Every step keeps the invariant.
LEMMA BackendInvStep == BackendInv /\ [BackendNext]_backendVars => BackendInv'
<1> SUFFICES ASSUME BackendInv, [BackendNext]_backendVars PROVE BackendInv'
  OBVIOUS
<1>1. CASE CreateBackend
  BY <1>1, CreateStep
<1>2. ASSUME NEW s \in Services, BindPort(s) \/ HandleTerm(s) \/ ServiceCrashes(s) PROVE BackendInv'
  BY <1>2, ServiceStep
<1>3. ASSUME NEW c \in Managers, NEW p \in BackendPorts, BeginEnsure(c, p) \/ BeginStop(c, p) PROVE BackendInv'
  BY <1>3, BeginEnsureStep, BeginStopStep
<1>4. CASE UNCHANGED backendVars
  BY <1>4, Stutter
<1>5. QED
  BY <1>1, <1>2, <1>3, <1>4, CommandStep DEF BackendNext

\* The inductive invariant: what an undisturbed command knows without looking again.
THEOREM BackendInvariance == BackendSpec => []BackendInv
<1>1. BackendInit => BackendInv
  BY BackendInitInv
<1>2. QED
  BY <1>1, BackendInvStep, PTL DEF BackendSpec

\* BackendsAreReachable: as long as no two commands met and none was cut short what runs is
\* listed; an undisturbed ensure is served and an undisturbed delete leaves nothing.
THEOREM Reachable == BackendSpec => []BackendsAreReachable
<1>1. BackendInv => BackendsAreReachable
  <2> SUFFICES ASSUME BackendInv PROVE BackendsAreReachable
    OBVIOUS
  <2>1. Typed /\ (\A c \in Managers : Placed(c)) /\ Known
    BY DEF BackendInv
  <2>2. \A c \in Managers : job[c] \in Jobs
    BY <2>1 DEF Typed
  <2>3. ASSUME NEW c \in Managers
        PROVE  /\ job[c].at \in {"idle", "check", "removeDead", "spawn", "wait", "register", "signal",
                                 "unlist", "stopping"}
               /\ job[c].pid \in Opt(Services) /\ job[c].todo \subseteq BackendPorts
               /\ (job[c].at \in {"wait", "register", "signal"}) => job[c].pid # None
    BY <2>1, <2>2, BackendAssumption DEF Jobs, EnsurePlaces, Placed
  <2>4. BackendTypeOK
    BY <2>1, <2>3 DEF Typed, BackendTypeOK
  <2>5. RunningIsListed
    BY <2>1 DEF Known, RunningIsListed
  <2>6. QED
    BY <2>4, <2>5 DEF BackendInv, BackendsAreReachable
<1>2. QED
  BY <1>1, BackendInvariance, PTL DEF BackendSpec

-----------------------------------------------------------------------------
(***************************************************************************)
(* Proofs about Installer for any scopes, files, entries and releases, and *)
(* any number of commands and edits.                                       *)
(*                                                                         *)
(* An entry of the user's is in no list of what Forge added (OwnIsNotAdded), *)
(* so neither way of unmerging takes it; what Forge put on disk is on      *)
(* record with what was put there (Recorded), so a stale file that is not  *)
(* taken away is another scope's; and after one enable the settings are    *)
(* those it found merged with what .forge.added holds (Undoable).          *)
(***************************************************************************)

InstallSpec == InstallInit /\ [][InstallNext]_installVars

\* What the user added is nowhere recorded as Forge's.
OwnIsNotAdded ==
    \A s \in Scopes :
        /\ own[s] \subseteq Read(s).entries
        /\ added[s] # None => own[s] \cap added[s].entries = {}
        /\ record[s] # None => own[s] \cap record[s].entered.entries = {}

\* Records are of what Forge installs.
RecordsForge ==
    \A s \in Scopes : record[s] # None => \A t \in TrackedBy(s) : record[s].files[t] # "user"

\* What Forge put on disk is on the record of the scope that put it there.
Recorded ==
    ~orphaned => \A t \in Targets :
        \/ disk[t] \in {None, "user"}
        \/ \E s \in Scopes : t \in TrackedBy(s) /\ record[s].files[t] = disk[t]

\* What a single enable leaves to undo it.
Undoable ==
    \A s \in Scopes : before[s] # None =>
        /\ record[s] # None /\ added[s] # None
        /\ record[s].entered = added[s]
        /\ before[s].entries \cap added[s].entries = {}
        /\ Read(s) = Merged(before[s], added[s])
        /\ backup[s] = before[s] \/ (backup[s] = None /\ before[s] = Empty)

\* The counts, and what the last command was.
DidOK == did \in [commands : Nat, edits : Nat, last : {"edit", "disable", "forced", "unforced"}]

InstallInv == InstallTypeOK /\ DidOK /\ OwnIsNotAdded /\ RecordsForge /\ Recorded /\ Undoable

\* What a run writes, and what it finds stale.
Wrote(s, profile, mode, force) ==
    {t \in Planned(s, profile) : FileAction(s, t, mode, force) \in {"install", "update"}}
Outdated(s, profile) == {t \in TrackedBy(s) \ Planned(s, profile) : Owned(s, t)}
Entered(s) == IF record[s] = None THEN Empty ELSE record[s].entered

\* Nothing is no settings.
LEMMA NoneIsNothing ==
    /\ None \notin Settings /\ None \notin Records /\ None \notin Contents /\ None \notin Values
    /\ Empty \in Settings /\ Empty.entries = {} /\ Empty.env = None /\ Empty.line = None
  BY InstallRecordAssumption DEF Empty, Settings, Opt

\* Settings have their parts.
LEMMA SettingsParts ==
  ASSUME NEW x \in Settings
  PROVE  /\ x.entries \subseteq Entries /\ x.env \in Opt(Values) /\ x.line \in Opt(Values)
         /\ x = [entries |-> x.entries, env |-> x.env, line |-> x.line]
  BY DEF Settings

\* What is in a settings file.
LEMMA ReadTyped == ASSUME InstallTypeOK, NEW s \in Scopes PROVE Read(s) \in Settings
  BY NoneIsNothing DEF InstallTypeOK, Read, Opt

\* What a run adds.
LEMMA AddedIs ==
  ASSUME InstallTypeOK, NEW cur \in Settings, NEW profile
  PROVE  /\ Added(cur, profile) \in Settings
         /\ Added(cur, profile).entries \cap cur.entries = {}
         /\ Added(cur, profile).env \in {"forge", None}
         /\ Added(cur, profile).line \in {"forge", None}
<1> DEFINE w == IF profile # "minimal" THEN "forge" ELSE None
           n == [entries |-> Template[version] \ cur.entries, env |-> IF PresetEnv THEN "forge" ELSE None,
                 line |-> IF w = cur.line THEN None ELSE w]
<1>1. Added(cur, profile) = n
  <2>1. PICK x : x = Wanted(profile)
    OBVIOUS
  <2>2. x = [entries |-> Template[version], env |-> IF PresetEnv THEN "forge" ELSE None, line |-> w]
    BY <2>1 DEF Wanted
  <2>3. Added(cur, profile) =
           [x EXCEPT !.entries = @ \ cur.entries, !.line = IF @ = cur.line THEN None ELSE @]
    BY <2>1 DEF Added
  <2> HIDE DEF w
  <2>4. QED
    BY <2>2, <2>3
<1>2. Template[version] \subseteq Entries
  BY InstallerAssumption DEF InstallTypeOK, Opt
<1>3. n \in Settings
  BY <1>2 DEF Settings, Opt, Values
<1>4. QED
  BY <1>1, <1>3

\* What is merged are settings.
LEMMA MergedTyped ==
  ASSUME NEW x \in Settings, NEW y \in Settings
  PROVE  /\ Merged(x, y) \in Settings /\ Merged(x, y).entries = x.entries \cup y.entries
         /\ Merged(x, y).env = Over(x.env, y.env) /\ Merged(x, y).line = Over(x.line, y.line)
  BY SettingsParts DEF Merged, Over, Settings

\* What is left of settings: entries that were there and are not among those taken out.
LEMMA UnmergedTyped ==
  ASSUME InstallTypeOK, NEW s \in Scopes, record[s] # None
  PROVE  /\ Unmerged(s) \in Opt(Settings)
         /\ \A e \in Read(s).entries :
               /\ e \notin record[s].entered.entries
               /\ added[s] # None => e \notin added[s].entries
               => Unmerged(s) # None /\ e \in Unmerged(s).entries
<1> DEFINE old == IF backup[s] = None THEN Empty ELSE backup[s]
           cur == Read(s)
<1>1. cur \in Settings /\ old \in Settings /\ record[s] \in Records /\ record[s].entered \in Settings
  <2>1. record[s] \in Records
    BY DEF InstallTypeOK, Opt
  <2>2. record[s].entered \in Settings
    BY <2>1 DEF Records
  <2>3. QED
    BY <2>1, <2>2, ReadTyped, NoneIsNothing DEF InstallTypeOK, Opt
<1> HIDE DEF old, cur
<1>2. CASE added[s] \in {None, Empty}
  <2>1. Unmerged(s) = Unmerge(cur, record[s].entered)
    BY <1>2 DEF Unmerged, cur
  <2>2. Unmerge(cur, record[s].entered) \in Settings
    BY <1>1, SettingsParts DEF Unmerge, Settings, Opt
  <2>3. Unmerge(cur, record[s].entered).entries = cur.entries \ record[s].entered.entries
    BY DEF Unmerge
  <2>4. QED
    BY <2>1, <2>2, <2>3, NoneIsNothing DEF Opt, cur
<1>3. CASE added[s] \notin {None, Empty}
  <2> DEFINE r == SmartUnmerge(cur, old, added[s])
  <2>1. added[s] \in Settings
    BY <1>3 DEF InstallTypeOK, Opt
  <2>2. r \in Settings /\ r.entries = cur.entries \ added[s].entries
    BY <1>1, <2>1, SettingsParts DEF SmartUnmerge, Restored, Settings
  <2>3. Unmerged(s) = IF r = old /\ (backup[s] = None \/ old = Empty) THEN None ELSE r
    BY <1>3 DEF Unmerged, cur, old
  <2>4. backup[s] = None => old = Empty
    BY DEF old
  <2>5. CASE r = old /\ old = Empty
    <3>1. r.entries = {} /\ Unmerged(s) = None
      BY <2>3, <2>5, NoneIsNothing
    <3>2. QED
      BY <1>3, <2>2, <3>1 DEF Opt, cur
  <2>6. CASE ~(r = old /\ old = Empty)
    <3>1. Unmerged(s) = r
      BY <2>3, <2>4, <2>6
    <3>2. QED
      BY <1>3, <2>2, <3>1, NoneIsNothing DEF Opt, cur
  <2>7. QED
    BY <2>5, <2>6
<1>4. QED
  BY <1>2, <1>3

\* A run, in the words above.
LEMMA ExecuteIs ==
  ASSUME NEW s, NEW profile, NEW mode, NEW force, NEW reached, Execute(s, profile, mode, force, reached)
  PROVE  /\ "record" \in reached \/ ~orphaned
         /\ disk' = [t \in Targets |->
              IF t \in Wrote(s, profile, mode, force) THEN Content(mode)
              ELSE IF "stale" \in reached /\ t \in Outdated(s, profile) THEN None ELSE disk[t]]
         /\ backup' = IF settings[s] = None THEN backup ELSE [backup EXCEPT ![s] = settings[s]]
         /\ settings' = IF "settings" \in reached
                        THEN [settings EXCEPT ![s] = Merged(Read(s), Added(Read(s), profile))] ELSE settings
         /\ added' = IF "added" \in reached THEN [added EXCEPT ![s] = Added(Read(s), profile)] ELSE added
         /\ record' = IF "record" \in reached
                      THEN [record EXCEPT ![s] =
                              [files |-> FilesAfter(s, Planned(s, profile), Wrote(s, profile, mode, force), mode),
                               entered |-> Merged(Entered(s), Added(Read(s), profile)),
                               profile |-> profile, mode |-> mode]]
                      ELSE record
         /\ before' = [before EXCEPT ![s] =
               IF "record" \in reached /\ record[s] = None /\ added[s] = None
                  /\ (settings[s] # None \/ backup[s] = None)
               THEN Read(s) ELSE None]
         /\ orphaned' = (orphaned \/ "record" \notin reached)
         /\ UNCHANGED <<version, own>>
  BY DEF Execute, Wrote, Outdated, Entered

\* What a run that wrote `written` has on record after it.
RunFiles(s, profile, mode, written, after) ==
    /\ Content(mode) \in Contents \ {"user"} /\ Planned(s, profile) \subseteq Targets
    /\ Planned(s, profile) \subseteq Sources[version]
    /\ DOMAIN after = written \cup (TrackedBy(s) \cap Planned(s, profile))
    /\ \A t \in DOMAIN after : after[t] = IF t \in written THEN Content(mode) ELSE record[s].files[t]
    /\ after \in UNION {[F -> Contents] : F \in SUBSET Targets}

\* A run's files.
LEMMA FilesAfterIs ==
  ASSUME InstallTypeOK, NEW s \in Scopes, NEW profile, NEW mode \in Modes, NEW written,
         written \subseteq Planned(s, profile)
  PROVE  RunFiles(s, profile, mode, written, FilesAfter(s, Planned(s, profile), written, mode))
<1> DEFINE P == Planned(s, profile)
           after == FilesAfter(s, P, written, mode)
           D == written \cup (TrackedBy(s) \cap P)
<1>1. Content(mode) \in Contents \ {"user"}
  BY InstallerAssumption DEF Content, Contents, InstallTypeOK, Modes
<1>2. P \subseteq Targets /\ P \subseteq Sources[version]
  BY InstallerAssumption DEF Planned, InstallTypeOK
<1>a. P = Planned(s, profile)
  OBVIOUS
<1> HIDE DEF P
<1>3. after = [t \in D |-> IF t \in written THEN Content(mode) ELSE record[s].files[t]]
  BY DEF FilesAfter
<1>4. \A t \in TrackedBy(s) : record[s].files[t] \in Contents
  <2>1. CASE record[s] = None
    BY <2>1 DEF TrackedBy
  <2>2. CASE record[s] # None
    <3>1. record[s] \in Records
      BY <2>2 DEF InstallTypeOK, Opt
    <3>2. PICK F \in SUBSET Targets : record[s].files \in [F -> Contents]
      BY <3>1 DEF Records
    <3>3. QED
      BY <2>2, <3>2 DEF TrackedBy
  <2>3. QED
    BY <2>1, <2>2
<1>5. D \in SUBSET Targets
  BY <1>2 DEF P
<1>6. after \in [D -> Contents]
  BY <1>1, <1>3, <1>4
<1> HIDE DEF after
<1>7. RunFiles(s, profile, mode, written, after)
  BY <1>1, <1>2, <1>3, <1>5, <1>6, <1>a DEF RunFiles
<1>8. QED
  BY <1>7 DEF after, P

\* What is on record is of Forge, and settings.
LEMMA RecordParts ==
  ASSUME InstallTypeOK, NEW s \in Scopes
  PROVE  /\ Entered(s) \in Settings
         /\ TrackedBy(s) \subseteq Targets
         /\ record[s] # None => record[s].entered = Entered(s) /\ TrackedBy(s) = DOMAIN record[s].files
<1>1. CASE record[s] = None
  BY <1>1, NoneIsNothing DEF Entered, TrackedBy
<1>2. CASE record[s] # None
  <2>1. record[s] \in Records
    BY <1>2 DEF InstallTypeOK, Opt
  <2>2. record[s].entered \in Settings /\ \E F \in SUBSET Targets : record[s].files \in [F -> Contents]
    BY <2>1 DEF Records
  <2>3. QED
    BY <1>2, <2>2 DEF Entered, TrackedBy
<1>3. QED
  BY <1>1, <1>2

\* A run keeps the shape of things.
LEMMA ExecuteTyped ==
  ASSUME InstallTypeOK, NEW s \in Scopes, NEW profile \in Profiles, NEW mode \in Modes, NEW force,
         NEW reached, Execute(s, profile, mode, force, reached)
  PROVE  InstallTypeOK'
<1> DEFINE new == Added(Read(s), profile)
           W == Wrote(s, profile, mode, force)
<1>1. Read(s) \in Settings /\ new \in Settings /\ Merged(Read(s), new) \in Settings
      /\ Merged(Entered(s), new) \in Settings
  BY ReadTyped, AddedIs, MergedTyped, RecordParts
<1>2. W \subseteq Planned(s, profile)
  BY DEF Wrote
<1> HIDE DEF new, W
<1>a. PICK after : after = FilesAfter(s, Planned(s, profile), W, mode)
  OBVIOUS
<1>b. RunFiles(s, profile, mode, W, after)
  BY <1>2, <1>a, FilesAfterIs
<1>3. disk' \in [Targets -> Opt(Contents)]
  <2>1. Content(mode) \in Contents
    BY <1>b DEF RunFiles
  <2>2. QED
    BY <2>1, ExecuteIs DEF InstallTypeOK, Opt
<1>4. settings' \in [Scopes -> Opt(Settings)]
  BY <1>1, ExecuteIs DEF InstallTypeOK, Opt, new
<1>5. backup' \in [Scopes -> Opt(Settings)] /\ before' \in [Scopes -> Opt(Settings)]
  BY <1>1, ExecuteIs DEF InstallTypeOK, Opt
<1>6. added' \in [Scopes -> Opt(Settings)]
  BY <1>1, ExecuteIs DEF InstallTypeOK, Opt, new
<1>7. DOMAIN record' = Scopes /\ \A x \in Scopes : record'[x] = None \/ record'[x] \in Records
  <2> DEFINE r == [files |-> after, entered |-> Merged(Entered(s), new), profile |-> profile, mode |-> mode]
  <2>1. after \in UNION {[F -> Contents] : F \in SUBSET Targets}
    BY <1>b DEF RunFiles
  <2>2. r \in Records
    BY <1>1, <2>1 DEF Records
  <2>3. record' = record \/ record' = [record EXCEPT ![s] = r]
    BY <1>a, ExecuteIs DEF W, new
  <2> HIDE DEF r
  <2>4. QED
    BY <2>2, <2>3 DEF InstallTypeOK, Opt
<1>8. QED
  BY <1>3, <1>4, <1>5, <1>6, <1>7, ExecuteIs DEF InstallTypeOK, Opt

\* What a run did before it wrote the record.
LEMMA RecordIsLast ==
  ASSUME NEW reached \in Prefixes, "record" \in reached 
  PROVE  "settings" \in reached /\ "added" \in reached /\ "stale" \in reached
<1>1. PICK i \in 1..5 : reached = {Stages[j] : j \in 1..i}
  BY DEF Prefixes, Stages
<1>2. PICK j \in 1..i : Stages[j] = "record"
  BY <1>1
<1>3. j = 5
  BY <1>2 DEF Stages
<1>4. /\ Stages[2] = "settings" /\ Stages[3] = "added" /\ Stages[4] = "stale"
      /\ 2 \in 1..i /\ 3 \in 1..i /\ 4 \in 1..i
  BY <1>2, <1>3 DEF Stages
<1>5. QED
  BY <1>1, <1>4

\* A run takes no entry of the user's for its own.
LEMMA ExecuteOwn ==
  ASSUME InstallInv, NEW s \in Scopes, NEW profile \in Profiles, NEW mode \in Modes, NEW force,
         NEW reached, Execute(s, profile, mode, force, reached)
  PROVE  OwnIsNotAdded'
<1> DEFINE new == Added(Read(s), profile)
<1>1. /\ Read(s) \in Settings /\ new \in Settings /\ new.entries \cap Read(s).entries = {}
      /\ Merged(Read(s), new) \in Settings
      /\ Merged(Read(s), new).entries = Read(s).entries \cup new.entries
      /\ Merged(Entered(s), new) \in Settings
      /\ Merged(Entered(s), new).entries = Entered(s).entries \cup new.entries
  BY ReadTyped, AddedIs, MergedTyped, RecordParts DEF InstallInv
<1> HIDE DEF new
<1>2. own' = own /\ \A x \in Scopes \ {s} :
         settings'[x] = settings[x] /\ added'[x] = added[x] /\ record'[x] = record[x]
  BY ExecuteIs DEF InstallInv, InstallTypeOK
<1>3. /\ settings'[s] = settings[s] \/ settings'[s] = Merged(Read(s), new)
      /\ added'[s] = added[s] \/ added'[s] = new
  BY ExecuteIs DEF InstallInv, InstallTypeOK, new
<1>4. record'[s] = record[s] \/ record'[s].entered = Merged(Entered(s), new)
  BY ExecuteIs DEF InstallInv, InstallTypeOK, new
<1>5. own[s] \subseteq Read(s).entries /\ own[s] \cap Entered(s).entries = {}
  BY NoneIsNothing DEF InstallInv, OwnIsNotAdded, Entered
<1>6. own[s] \subseteq Read(s)'.entries
  <2>1. CASE settings'[s] = settings[s]
    BY <1>5, <2>1 DEF Read
  <2>2. CASE settings'[s] = Merged(Read(s), new)
    <3>1. Read(s)' = Merged(Read(s), new)
      BY <1>1, <2>2, NoneIsNothing DEF Read
    <3>2. QED
      BY <1>1, <1>5, <3>1
  <2>3. QED
    BY <1>3, <2>1, <2>2
<1>7. own[s] \cap new.entries = {}
  BY <1>1, <1>5
<1>8. /\ added'[s] # None => own[s] \cap added'[s].entries = {}
      /\ record'[s] # None => own[s] \cap record'[s].entered.entries = {}
  <2>1. added'[s] # None => own[s] \cap added'[s].entries = {}
    BY <1>3, <1>7 DEF InstallInv, OwnIsNotAdded
  <2>2. record'[s] # None => own[s] \cap record'[s].entered.entries = {}
    BY <1>1, <1>4, <1>5, <1>7 DEF InstallInv, OwnIsNotAdded
  <2>3. QED
    BY <2>1, <2>2
<1>9. QED
  BY <1>2, <1>6, <1>8 DEF InstallInv, OwnIsNotAdded, Read

\* It puts on record what it puts on disk.
LEMMA ExecuteRecords ==
  ASSUME InstallInv, NEW s \in Scopes, NEW profile \in Profiles, NEW mode \in Modes, NEW force,
         NEW reached \in Prefixes, Execute(s, profile, mode, force, reached)
  PROVE  /\ RecordsForge' /\ Recorded'
         /\ \A x \in Scopes : record[x] # None => record'[x] # None
<1> DEFINE W == Wrote(s, profile, mode, force)
           P == Planned(s, profile)
<1>0. InstallTypeOK /\ RecordsForge /\ Recorded
  BY DEF InstallInv
<1>1. W \subseteq P
  BY DEF Wrote
<1> HIDE DEF W
<1>a. PICK after : after = FilesAfter(s, P, W, mode)
  OBVIOUS
<1>b. RunFiles(s, profile, mode, W, after)
  BY <1>0, <1>1, <1>a, FilesAfterIs
<1>2. /\ Content(mode) \in Contents \ {"user"}
      /\ DOMAIN after = W \cup (TrackedBy(s) \cap P)
      /\ \A t \in DOMAIN after : after[t] = IF t \in W THEN Content(mode) ELSE record[s].files[t]
  BY <1>b DEF RunFiles
<1>3. \A x \in Scopes \ {s} : record'[x] = record[x] /\ TrackedBy(x)' = TrackedBy(x)
  BY <1>0, ExecuteIs DEF InstallTypeOK, TrackedBy
<1>4. "record" \notin reached => record' = record /\ orphaned'
  BY ExecuteIs
<1>5. "record" \in reached => record'[s] # None /\ record'[s].files = after /\ TrackedBy(s)' = DOMAIN after
  <2>1. ASSUME "record" \in reached PROVE record'[s] # None /\ record'[s].files = after
    <3>1. InstallTypeOK'
      BY <1>0, ExecuteTyped
    <3> DEFINE r == [files |-> after, entered |-> Merged(Entered(s), Added(Read(s), profile)),
                     profile |-> profile, mode |-> mode]
    <3>2. record' = [record EXCEPT ![s] = r]
      BY <1>a, <2>1, ExecuteIs DEF W
    <3>3. r \in Records
      <4>1. Merged(Entered(s), Added(Read(s), profile)) \in Settings
        BY <1>0, ReadTyped, AddedIs, MergedTyped, RecordParts
      <4>2. after \in UNION {[F -> Contents] : F \in SUBSET Targets}
        BY <1>b DEF RunFiles
      <4>3. QED
        BY <4>1, <4>2 DEF Records
    <3>4. record'[s] = r /\ r.files = after
      BY <1>0, <3>2 DEF InstallTypeOK
    <3> HIDE DEF r
    <3>5. QED
      BY <3>3, <3>4, NoneIsNothing
  <2>2. QED
    BY <2>1 DEF TrackedBy
<1>6. \A t \in Targets :
         disk'[t] = IF t \in W THEN Content(mode)
                    ELSE IF "stale" \in reached /\ t \in Outdated(s, profile) THEN None ELSE disk[t]
  BY ExecuteIs DEF W
<1>7. TrackedBy(s) # {} => record[s] # None
  BY DEF TrackedBy
<1> HIDE DEF P
<1>8. RecordsForge'
  <2>1. CASE "record" \notin reached
    BY <1>0, <1>4, <2>1 DEF RecordsForge, TrackedBy
  <2>2. CASE "record" \in reached
    BY <1>0, <1>2, <1>3, <1>5, <1>7, <2>2 DEF RecordsForge
  <2>3. QED
    BY <2>1, <2>2
<1>9. Recorded'
  <2> SUFFICES ASSUME ~orphaned', NEW t \in Targets, disk'[t] \notin {None, "user"}
               PROVE  \E x \in Scopes : t \in TrackedBy(x)' /\ record'[x].files[t] = disk'[t]
    BY DEF Recorded
  <2>1. ~orphaned /\ "record" \in reached /\ "stale" \in reached
    <3>1. ~orphaned /\ "record" \in reached
      BY ExecuteIs
    <3>2. QED
      BY <3>1, RecordIsLast
  <2>2. CASE t \in W
    BY <1>2, <1>5, <1>6, <2>1, <2>2
  <2>3. CASE t \notin W
    <3>1. disk'[t] = disk[t] /\ t \notin Outdated(s, profile)
      BY <1>6, <2>1, <2>3
    <3>2. PICK x \in Scopes : t \in TrackedBy(x) /\ record[x].files[t] = disk[t]
      BY <1>0, <2>1, <3>1 DEF Recorded
    <3>3. CASE x # s
      BY <1>3, <3>1, <3>2, <3>3
    <3>4. CASE x = s
      <4>1. t \in P
        BY <3>1, <3>2, <3>4 DEF Outdated, Owned, P
      <4>2. QED
        BY <1>2, <1>5, <2>1, <2>3, <3>1, <3>2, <3>4, <4>1
    <3>5. QED
      BY <3>3, <3>4
  <2>4. QED
    BY <2>2, <2>3
<1>10. ASSUME NEW x \in Scopes, record[x] # None PROVE record'[x] # None
  BY <1>3, <1>4, <1>5, <1>10
<1>11. QED
  BY <1>8, <1>9, <1>10

\* After it, a first enable can be undone.
LEMMA ExecuteUndoable ==
  ASSUME InstallInv, NEW s \in Scopes, NEW profile \in Profiles, NEW mode \in Modes, NEW force,
         NEW reached \in Prefixes, Execute(s, profile, mode, force, reached)
  PROVE  Undoable'
<1> DEFINE cur == Read(s)
           new == Added(cur, profile)
<1>0. InstallTypeOK /\ Undoable
  BY DEF InstallInv
<1>1. /\ cur \in Settings /\ new \in Settings /\ new.entries \cap cur.entries = {}
      /\ Merged(cur, new) \in Settings
  BY <1>0, ReadTyped, AddedIs, MergedTyped
<1>2. Merged(Empty, new) = new
  <2>1. new = [entries |-> new.entries, env |-> new.env, line |-> new.line]
    BY <1>1, SettingsParts
  <2> HIDE DEF new
  <2>2. Over(None, new.env) = new.env /\ Over(None, new.line) = new.line
    BY DEF Over
  <2>3. Merged(Empty, new) = [entries |-> {} \cup new.entries, env |-> new.env, line |-> new.line]
    BY <2>2, NoneIsNothing DEF Merged
  <2>4. QED
    BY <2>1, <2>3
<1>3. \A x \in Scopes \ {s} : /\ settings'[x] = settings[x] /\ added'[x] = added[x] /\ record'[x] = record[x]
                              /\ backup'[x] = backup[x] /\ before'[x] = before[x]
  BY <1>0, ExecuteIs DEF InstallTypeOK
<1>4. ASSUME before'[s] # None
      PROVE  /\ record'[s] # None /\ added'[s] # None
             /\ record'[s].entered = added'[s]
             /\ before'[s].entries \cap added'[s].entries = {}
             /\ Read(s)' = Merged(before'[s], added'[s])
             /\ backup'[s] = before'[s] \/ (backup'[s] = None /\ before'[s] = Empty)
  <2>1. /\ "record" \in reached /\ record[s] = None
        /\ (settings[s] # None \/ backup[s] = None)
        /\ before'[s] = cur
    BY <1>0, <1>4, ExecuteIs DEF InstallTypeOK
  <2>2. "settings" \in reached /\ "added" \in reached
    BY <2>1, RecordIsLast
  <2>3. added'[s] = new /\ settings'[s] = Merged(cur, new)
    BY <1>0, <2>2, ExecuteIs DEF InstallTypeOK
  <2>4. record'[s] # None /\ record'[s].entered = new
    <3> DEFINE r == [files |-> FilesAfter(s, Planned(s, profile), Wrote(s, profile, mode, force), mode),
                     entered |-> Merged(Entered(s), new), profile |-> profile, mode |-> mode]
    <3>1. record' = [record EXCEPT ![s] = r]
      BY <2>1, ExecuteIs
    <3>2. r.entered = new
      BY <1>2, <2>1 DEF Entered
    <3>3. record'[s] = r
      BY <1>0, <3>1 DEF InstallTypeOK
    <3>4. r \in Records
      <4>1. Wrote(s, profile, mode, force) \subseteq Planned(s, profile)
        BY DEF Wrote
      <4>2. PICK W : W = Wrote(s, profile, mode, force)
        OBVIOUS
      <4>3. RunFiles(s, profile, mode, W, FilesAfter(s, Planned(s, profile), W, mode))
        BY <1>0, <4>1, <4>2, FilesAfterIs
      <4>4. r.files \in UNION {[F -> Contents] : F \in SUBSET Targets}
        BY <4>2, <4>3 DEF RunFiles
      <4>5. QED
        BY <1>1, <3>2, <4>4 DEF Records
    <3> HIDE DEF r
    <3>5. QED
      BY <3>2, <3>3, <3>4, NoneIsNothing
  <2>5. backup'[s] = cur \/ (backup'[s] = None /\ cur = Empty)
    <3>1. CASE settings[s] = None
      BY <2>1, <3>1, ExecuteIs DEF Read
    <3>2. CASE settings[s] # None
      BY <1>0, <3>2, ExecuteIs DEF Read, InstallTypeOK
    <3>3. QED
      BY <3>1, <3>2
  <2>6. Read(s)' = Merged(cur, new)
    BY <1>1, <2>3, NoneIsNothing DEF Read
  <2>7. QED
    BY <1>1, <2>1, <2>3, <2>4, <2>5, <2>6, NoneIsNothing
<1>5. QED
  BY <1>0, <1>3, <1>4 DEF Undoable, Read

\* Counting keeps the counts, and says what was counted.
LEMMA Counted ==
  ASSUME DidOK, NEW event \in {"commands", "edits"}, NEW bound,
         NEW what \in {"edit", "disable", "forced", "unforced"}, Counts(event, bound, what)
  PROVE  DidOK' /\ did'.last = what
<1>1. did' = [did EXCEPT ![event] = @ + 1, !.last = what]
  BY DEF Counts
<1>2. CASE event = "commands"
  <2>1. did' = [commands |-> did.commands + 1, edits |-> did.edits, last |-> what]
    BY <1>1, <1>2 DEF DidOK
  <2>2. QED
    BY <2>1 DEF DidOK
<1>3. CASE event = "edits"
  <2>1. did' = [commands |-> did.commands, edits |-> did.edits + 1, last |-> what]
    BY <1>1, <1>3 DEF DidOK
  <2>2. QED
    BY <2>1 DEF DidOK
<1>4. QED
  BY <1>2, <1>3

\* A disable takes what the record names, and keeps the rest as it should be.
LEMMA DisableKeeps == ASSUME InstallInv, NEW s \in Scopes, Disable(s) PROVE InstallInv'
<1>0. InstallTypeOK /\ OwnIsNotAdded /\ RecordsForge /\ Recorded /\ Undoable
  BY DEF InstallInv
<1>1. PICK result : result = Unmerged(s)
  OBVIOUS
<1>2. /\ record[s] # None
      /\ disk' = [t \in Targets |-> IF t \in TrackedBy(s) THEN None ELSE disk[t]]
      /\ settings' = [settings EXCEPT ![s] = result]
      /\ added' = [added EXCEPT ![s] = None] /\ record' = [record EXCEPT ![s] = None]
      /\ before' = [before EXCEPT ![s] = None]
      /\ UNCHANGED <<version, backup, own, orphaned>>
  BY <1>1 DEF Disable
<1>3. /\ result \in Opt(Settings)
      /\ \A e \in Read(s).entries :
            /\ e \notin record[s].entered.entries
            /\ added[s] # None => e \notin added[s].entries
            => result # None /\ e \in result.entries
  BY <1>0, <1>1, <1>2, UnmergedTyped
<1>4. /\ settings'[s] = result /\ added'[s] = None /\ record'[s] = None /\ before'[s] = None
      /\ \A x \in Scopes \ {s} :
            /\ settings'[x] = settings[x] /\ added'[x] = added[x] /\ record'[x] = record[x]
            /\ before'[x] = before[x] /\ TrackedBy(x)' = TrackedBy(x) /\ Read(x)' = Read(x)
  BY <1>0, <1>2 DEF InstallTypeOK, TrackedBy, Read
<1>5. InstallTypeOK'
  BY <1>0, <1>2, <1>3, <1>4 DEF InstallTypeOK, Opt
<1>6. OwnIsNotAdded'
  <2>1. own[s] \subseteq Read(s)'.entries
    <3>1. ASSUME NEW e \in own[s] PROVE e \in Read(s)'.entries
      <4>1. /\ e \in Read(s).entries /\ e \notin record[s].entered.entries
            /\ added[s] # None => e \notin added[s].entries
        BY <1>0, <1>2 DEF OwnIsNotAdded
      <4>2. result # None /\ e \in result.entries
        BY <1>3, <4>1
      <4>3. QED
        BY <1>4, <4>2 DEF Read
    <3>2. QED
      BY <3>1
  <2>2. QED
    BY <1>0, <1>2, <1>4, <2>1 DEF OwnIsNotAdded
<1>7. RecordsForge'
  BY <1>0, <1>4 DEF RecordsForge
<1>8. Recorded'
  <2> SUFFICES ASSUME ~orphaned, NEW t \in Targets, disk'[t] \notin {None, "user"}
               PROVE  \E x \in Scopes : t \in TrackedBy(x)' /\ record'[x].files[t] = disk'[t]
    BY <1>2 DEF Recorded
  <2>1. t \notin TrackedBy(s) /\ disk'[t] = disk[t]
    BY <1>2
  <2>2. PICK x \in Scopes : t \in TrackedBy(x) /\ record[x].files[t] = disk[t]
    BY <1>0, <2>1 DEF Recorded
  <2>3. QED
    BY <1>4, <2>1, <2>2
<1>9. Undoable'
  BY <1>0, <1>2, <1>4 DEF Undoable
<1>10. DidOK'
  BY Counted DEF Disable, InstallInv
<1>11. QED
  BY <1>5, <1>6, <1>7, <1>8, <1>9, <1>10 DEF InstallInv

\* After one enable, it leaves the settings that the enable found.
LEMMA DisableUndoes ==
  ASSUME InstallInv, NEW s \in Scopes, Disable(s), before[s] # None PROVE Read(s)' = before[s]
<1>1. PICK b \in Settings : b = before[s]
  BY DEF InstallInv, InstallTypeOK, Opt
<1>2. PICK n \in Settings : n = added[s]
  BY DEF InstallInv, InstallTypeOK, Undoable, Opt
<1>3. /\ record[s].entered = n /\ b.entries \cap n.entries = {} /\ Read(s) = Merged(b, n)
      /\ backup[s] = b \/ (backup[s] = None /\ b = Empty)
      /\ added[s] # None
  BY <1>1, <1>2 DEF InstallInv, Undoable
<1>4. PICK cur \in Settings : cur = Read(s)
  BY ReadTyped DEF InstallInv
<1>5. cur.entries = b.entries \cup n.entries /\ cur.env = Over(b.env, n.env) /\ cur.line = Over(b.line, n.line)
  BY <1>3, <1>4, MergedTyped
<1>6. b = [entries |-> b.entries, env |-> b.env, line |-> b.line]
  BY SettingsParts
<1>7. (IF backup[s] = None THEN Empty ELSE backup[s]) = b
  BY <1>3, NoneIsNothing
<1>8. settings'[s] = Unmerged(s)
  BY DEF Disable, InstallInv, InstallTypeOK
<1>9. CASE n = Empty
  <2>1. Unmerged(s) = Unmerge(cur, n)
    BY <1>2, <1>3, <1>4, <1>9 DEF Unmerged
  <2>2. Unmerge(cur, n) = [entries |-> cur.entries \ {}, env |-> cur.env, line |-> cur.line]
    BY <1>9, NoneIsNothing DEF Unmerge
  <2>3. cur.entries \ {} = b.entries /\ cur.env = b.env /\ cur.line = b.line
    BY <1>5, <1>9, NoneIsNothing DEF Over
  <2>4. Unmerged(s) = b
    BY <1>6, <2>1, <2>2, <2>3
  <2>5. QED
    BY <1>1, <1>8, <2>4, NoneIsNothing DEF Read
<1>10. CASE n # Empty
  <2>1. SmartUnmerge(cur, b, n) = b
    <3>1. cur.entries \ n.entries = b.entries
      BY <1>3, <1>5
    <3>2. Restored(cur.env, b.env, n.env) = b.env /\ Restored(cur.line, b.line, n.line) = b.line
      BY <1>5 DEF Restored, Over
    <3>3. QED
      BY <1>6, <3>1, <3>2 DEF SmartUnmerge
  <2>2. Unmerged(s) = IF b = b /\ (backup[s] = None \/ b = Empty) THEN None ELSE b
    BY <1>2, <1>3, <1>4, <1>7, <1>10, <2>1 DEF Unmerged
  <2>3. CASE backup[s] = None \/ b = Empty
    <3>1. b = Empty /\ Unmerged(s) = None
      BY <1>3, <2>2, <2>3, NoneIsNothing
    <3>2. QED
      BY <1>1, <1>8, <3>1 DEF Read
  <2>4. CASE ~(backup[s] = None \/ b = Empty)
    BY <1>1, <1>8, <2>2, <2>4, NoneIsNothing DEF Read
  <2>5. QED
    BY <2>3, <2>4
<1>11. QED
  BY <1>9, <1>10

\* So does a run of enable or sync.
LEMMA ExecuteKeeps ==
  ASSUME InstallInv, NEW s \in Scopes, NEW profile \in Profiles, NEW mode \in Modes, NEW force \in BOOLEAN,
         NEW reached \in Prefixes, Execute(s, profile, mode, force, reached),
         Counts("commands", MaxCommands, Forced(force))
  PROVE  InstallInv'
<1>1. DidOK'
  BY Counted DEF Forced, InstallInv
<1>2. InstallTypeOK'
  BY ExecuteTyped DEF InstallInv
<1>3. QED
  BY <1>1, <1>2, ExecuteOwn, ExecuteRecords, ExecuteUndoable DEF InstallInv

\* It leaves a file of the user's alone, unless it was forced or the file lies where it
\* has one of its own.
LEMMA ExecuteSpares ==
  ASSUME InstallInv, NEW s \in Scopes, NEW profile, NEW mode, NEW reached, NEW force,
         ~force, Execute(s, profile, mode, force, reached), ~Conflicts(s, profile, mode),
         NEW t \in Targets, disk[t] = "user", disk'[t] # "user"
  PROVE  t \in TrackedBy(s) /\ t \in Sources[version]
<1>1. \A x \in Targets :
         disk'[x] = IF x \in Wrote(s, profile, mode, force) THEN Content(mode)
                    ELSE IF "stale" \in reached /\ x \in Outdated(s, profile) THEN None ELSE disk[x]
  BY ExecuteIs
<1>2. t \notin Outdated(s, profile)
  BY DEF Outdated, Owned, InstallInv, RecordsForge, TrackedBy
<1>3. t \in Planned(s, profile)
  BY <1>1, <1>2 DEF Wrote
<1>4. FileAction(s, t, mode, FALSE) # "conflict"
  BY <1>3 DEF Conflicts
<1>5. t \in TrackedBy(s)
  BY <1>4, NoneIsNothing DEF FileAction, Contents
<1>6. QED
  BY <1>3, <1>5 DEF Planned

\* An edit of the user's settings keeps everything as it should be.
LEMMA SavesKeep ==
  ASSUME InstallInv, NEW s \in Scopes, NEW new \in Settings, UserSaves(s, new),
         NEW mine \in SUBSET Entries, own' = [own EXCEPT ![s] = mine], mine \subseteq new.entries,
         added[s] # None => mine \cap added[s].entries = {},
         record[s] # None => mine \cap record[s].entered.entries = {}
  PROVE  InstallInv'
<1>0. InstallTypeOK /\ DidOK /\ OwnIsNotAdded /\ RecordsForge /\ Recorded /\ Undoable
  BY DEF InstallInv
<1>1. /\ Counts("edits", MaxUserEdits, "edit")
      /\ settings' = [settings EXCEPT ![s] = new] /\ before' = [before EXCEPT ![s] = None]
      /\ UNCHANGED <<version, disk, backup, added, record, orphaned>>
  BY DEF UserSaves
<1>2. InstallTypeOK'
  BY <1>0, <1>1 DEF InstallTypeOK, Opt
<1>3. /\ own'[s] = mine /\ Read(s)' = new /\ before'[s] = None
      /\ \A x \in Scopes \ {s} : own'[x] = own[x] /\ Read(x)' = Read(x) /\ before'[x] = before[x]
  BY <1>0, <1>1, NoneIsNothing DEF InstallTypeOK, Read
<1>4. OwnIsNotAdded'
  BY <1>0, <1>1, <1>3 DEF OwnIsNotAdded
<1>5. RecordsForge' /\ Recorded'
  BY <1>0, <1>1 DEF RecordsForge, Recorded, TrackedBy
<1>6. Undoable'
  BY <1>0, <1>1, <1>3 DEF Undoable
<1>7. DidOK'
  BY <1>0, <1>1, Counted
<1>8. QED
  BY <1>2, <1>4, <1>5, <1>6, <1>7 DEF InstallInv

\* The three edits.
LEMMA EditKeeps == ASSUME InstallInv, NEW s \in Scopes, UserEdit(s) PROVE InstallInv'
<1>0. InstallTypeOK /\ OwnIsNotAdded
  BY DEF InstallInv
<1>1. PICK cur \in Settings : cur = Read(s)
  BY <1>0, ReadTyped
<1>2. /\ cur.entries \subseteq Entries /\ cur.env \in Opt(Values) /\ cur.line \in Opt(Values)
      /\ cur = [entries |-> cur.entries, env |-> cur.env, line |-> cur.line]
  BY SettingsParts
<1>3. /\ own[s] \subseteq cur.entries
      /\ added[s] # None => own[s] \cap added[s].entries = {}
      /\ record[s] # None => own[s] \cap record[s].entered.entries = {}
  BY <1>0, <1>1 DEF OwnIsNotAdded
<1>4. own = [own EXCEPT ![s] = own[s]] /\ own[s] \subseteq Entries
  BY <1>0 DEF InstallTypeOK
<1>5. ASSUME NEW e \in Entries, UserAddsEntry(s, e) PROVE InstallInv'
  <2>1. PICK new : new = [cur EXCEPT !.entries = @ \cup {e}]
    OBVIOUS
  <2>2. new \in Settings /\ new.entries = cur.entries \cup {e}
    BY <1>2, <2>1 DEF Settings
  <2>3. UserSaves(s, new)
    BY <1>1, <1>5, <2>1 DEF UserAddsEntry
  <2>4. CASE \/ added[s] # None /\ e \in added[s].entries
             \/ record[s] # None /\ e \in record[s].entered.entries
    <3>1. own' = own
      BY <1>5, <2>4 DEF UserAddsEntry
    <3>2. QED
      BY <1>3, <1>4, <2>2, <2>3, <3>1, SavesKeep
  <2>5. CASE ~(\/ added[s] # None /\ e \in added[s].entries
               \/ record[s] # None /\ e \in record[s].entered.entries)
    <3>1. own' = [own EXCEPT ![s] = own[s] \cup {e}]
      BY <1>5, <2>5 DEF UserAddsEntry
    <3>2. PICK mine : mine = own[s] \cup {e}
      OBVIOUS
    <3>3. /\ mine \in SUBSET Entries /\ mine \subseteq new.entries
          /\ added[s] # None => mine \cap added[s].entries = {}
          /\ record[s] # None => mine \cap record[s].entered.entries = {}
      BY <1>3, <1>4, <2>2, <2>5, <3>2
    <3>4. QED
      BY <2>2, <2>3, <3>1, <3>2, <3>3, SavesKeep
  <2>6. QED
    BY <2>4, <2>5
<1>6. ASSUME NEW e \in Entries, UserRemovesEntry(s, e) PROVE InstallInv'
  <2>1. PICK new : new = [cur EXCEPT !.entries = @ \ {e}]
    OBVIOUS
  <2>2. new \in Settings /\ new.entries = cur.entries \ {e}
    BY <1>2, <2>1 DEF Settings
  <2>3. UserSaves(s, new) /\ own' = [own EXCEPT ![s] = own[s] \ {e}]
    BY <1>1, <1>6, <2>1 DEF UserRemovesEntry
  <2>4. PICK mine : mine = own[s] \ {e}
    OBVIOUS
  <2>5. /\ mine \in SUBSET Entries /\ mine \subseteq new.entries
        /\ added[s] # None => mine \cap added[s].entries = {}
        /\ record[s] # None => mine \cap record[s].entered.entries = {}
    BY <1>3, <1>4, <2>2, <2>4
  <2>6. QED
    BY ZenonT(40), <2>2, <2>3, <2>4, <2>5, SavesKeep
<1>7. ASSUME NEW key \in {"env", "line"}, NEW value \in Opt(Values), UserSets(s, key, value)
      PROVE  InstallInv'
  <2>1. PICK new : new = [cur EXCEPT ![key] = value]
    OBVIOUS
  <2>2. new \in Settings /\ new.entries = cur.entries
    BY <1>2, <2>1 DEF Settings
  <2>3. UserSaves(s, new) /\ own' = own
    BY <1>1, <1>7, <2>1 DEF UserSets
  <2>4. QED
    BY <1>3, <1>4, <2>2, <2>3, SavesKeep
<1>8. QED
  BY <1>5, <1>6, <1>7 DEF UserEdit

\* Writing a file and upgrading touch no settings and no record.
LEMMA FileEditKeeps == ASSUME InstallInv, NEW t \in Targets, UserWritesFile(t) PROVE InstallInv'
<1>1. /\ Counts("edits", MaxUserEdits, "edit") /\ disk' = [disk EXCEPT ![t] = "user"]
      /\ UNCHANGED <<version, settings, backup, added, record, own, before, orphaned>>
  BY DEF UserWritesFile
<1>2. InstallTypeOK' /\ DidOK'
  BY <1>1, Counted DEF InstallInv, InstallTypeOK, Contents, Opt
<1>3. OwnIsNotAdded' /\ RecordsForge' /\ Undoable'
  BY <1>1 DEF InstallInv, OwnIsNotAdded, RecordsForge, Undoable, Read, TrackedBy
<1>4. Recorded'
  BY <1>1 DEF InstallInv, InstallTypeOK, Recorded, TrackedBy
<1>5. QED
  BY <1>2, <1>3, <1>4 DEF InstallInv

LEMMA UpgradeKeeps == ASSUME InstallInv, Upgrade PROVE InstallInv'
<1>1. version' \in Versions /\ UNCHANGED <<disk, settings, backup, added, record, own, before, orphaned, did>>
  <2>1. PICK i \in 2..Len(Releases) : version' = Releases[i]
    BY DEF Upgrade
  <2>2. QED
    BY <2>1, InstallerAssumption DEF Upgrade, Versions
<1>2. QED
  BY <1>1 DEF InstallInv, InstallTypeOK, DidOK, OwnIsNotAdded, RecordsForge, Recorded, Undoable, Read, TrackedBy

LEMMA InstallInitInv == ASSUME InstallInit PROVE InstallInv
<1>1. /\ version = Releases[1] /\ disk = [t \in Targets |-> None]
      /\ settings = [s \in Scopes |-> None]
      /\ backup = [s \in Scopes |-> None] /\ added = [s \in Scopes |-> None]
      /\ record = [s \in Scopes |-> None] /\ before = [s \in Scopes |-> None]
      /\ own = [s \in Scopes |-> {}]
      /\ orphaned = FALSE /\ did = [commands |-> 0, edits |-> 0, last |-> "edit"]
  BY DEF InstallInit
<1>2. version \in Versions
  BY <1>1, InstallerAssumption DEF Versions
<1>3. InstallTypeOK /\ DidOK
  BY <1>1, <1>2 DEF InstallTypeOK, DidOK, Opt
<1>4. OwnIsNotAdded /\ RecordsForge /\ Recorded /\ Undoable
  BY <1>1 DEF OwnIsNotAdded, RecordsForge, Recorded, Undoable
<1>5. QED
  BY <1>3, <1>4 DEF InstallInv

\* A run of enable or sync is a run with some profile and some mode.
LEMMA CommandIs ==
  ASSUME InstallInv, NEW s \in Scopes, InstallCommand(s), ~Disable(s)
  PROVE  \E profile \in Profiles, mode \in Modes, force \in BOOLEAN, reached \in Prefixes :
            /\ Counts("commands", MaxCommands, Forced(force))
            /\ force <=> Conflicts(s, profile, mode)
            /\ Execute(s, profile, mode, force, reached)
<1>1. ASSUME NEW force \in BOOLEAN, NEW reached \in Prefixes, Sync(s, force, reached)
      PROVE  \E profile \in Profiles, mode \in Modes :
                /\ Counts("commands", MaxCommands, Forced(force))
                /\ force <=> Conflicts(s, profile, mode)
                /\ Execute(s, profile, mode, force, reached)
  <2>1. record[s] \in Records
    BY <1>1 DEF Sync, InstallInv, InstallTypeOK, Opt
  <2>2. record[s].profile \in Profiles /\ record[s].mode \in Modes
    BY <2>1 DEF Records
  <2>3. QED
    BY <1>1, <2>2 DEF Sync
<1>2. ASSUME NEW profile \in Profiles, NEW mode \in Modes, NEW force \in BOOLEAN,
             NEW reached \in Prefixes, Enable(s, profile, mode, force, reached)
      PROVE  /\ Counts("commands", MaxCommands, Forced(force))
             /\ force <=> Conflicts(s, profile, mode)
             /\ Execute(s, profile, mode, force, reached)
  BY <1>2 DEF Enable
<1>3. QED
  BY <1>1, <1>2 DEF InstallCommand

\* Every step keeps the invariant.
LEMMA InstallInvStep == ASSUME InstallInv, [InstallNext]_installVars PROVE InstallInv'
<1>1. ASSUME NEW s \in Scopes, InstallCommand(s) PROVE InstallInv'
  <2>1. CASE Disable(s)
    BY <2>1, DisableKeeps
  <2>2. CASE ~Disable(s)
    BY <1>1, <2>2, CommandIs, ExecuteKeeps
  <2>3. QED
    BY <2>1, <2>2
<1>2. CASE UNCHANGED installVars
  BY <1>2 DEF installVars, InstallInv, InstallTypeOK, DidOK, OwnIsNotAdded, RecordsForge, Recorded,
              Undoable, Read, TrackedBy
<1>3. QED
  BY <1>1, <1>2, EditKeeps, FileEditKeeps, UpgradeKeeps DEF InstallNext

\* The invariant holds: what the user added is recorded nowhere as Forge's, what Forge put
\* on disk is on record with what was put there, and a single enable left what undoes it.
THEOREM InstallInvariance == InstallSpec => []InstallInv
<1>1. InstallInit => InstallInv
  BY InstallInitInv
<1>2. InstallInv /\ [InstallNext]_installVars => InstallInv'
  BY InstallInvStep
<1>3. QED
  BY <1>1, <1>2, PTL DEF InstallSpec

\* Whatever is enabled, synced, upgraded, disabled and edited in whatever order, under any
\* number of scopes and releases, the entries the user put into a settings file stay there,
\* and a file of the user's goes only by --force or where Forge has one of its own.
THEOREM UserThingsStay == InstallSpec => UserThingsSurvive
<1>1. InstallInv => InstallTypeOK /\ UserEntriesSurvive
  BY DEF InstallInv, OwnIsNotAdded, UserEntriesSurvive
<1> DEFINE Spared == \A t \in Targets :
                        disk[t] = "user" /\ disk'[t] # "user" /\ did'.last # "forced" =>
                            \E s \in Scopes : t \in TrackedBy(s) /\ (record'[s] = None \/ t \in Sources[version])
<1>2. InstallInv /\ [InstallNext]_installVars => [Spared]_installVars
  <2> SUFFICES ASSUME InstallInv, InstallNext, NEW t \in Targets,
                      disk[t] = "user", disk'[t] # "user", did'.last # "forced"
               PROVE  \E s \in Scopes : t \in TrackedBy(s) /\ (record'[s] = None \/ t \in Sources[version])
    OBVIOUS
  <2>1. ASSUME NEW s \in Scopes, InstallCommand(s)
        PROVE  \E x \in Scopes : t \in TrackedBy(x) /\ (record'[x] = None \/ t \in Sources[version])
    <3>1. CASE Disable(s)
      <4>1. t \in TrackedBy(s)
        BY <3>1 DEF Disable
      <4>2. record'[s] = None
        BY <3>1 DEF Disable, InstallInv, InstallTypeOK
      <4>3. QED
        BY <4>1, <4>2
    <3>2. CASE ~Disable(s)
      <4>1. PICK profile \in Profiles, mode \in Modes, force \in BOOLEAN, reached \in Prefixes :
               /\ Counts("commands", MaxCommands, Forced(force))
               /\ force <=> Conflicts(s, profile, mode)
               /\ Execute(s, profile, mode, force, reached)
        BY <2>1, <3>2, CommandIs
      <4>2. ~force
        <5>1. did'.last = Forced(force)
          BY <4>1, Counted DEF Forced, InstallInv
        <5>2. QED
          BY <5>1 DEF Forced
      <4>3. QED
        BY <4>1, <4>2, ExecuteSpares
    <3>3. QED
      BY <3>1, <3>2
  <2>2. ASSUME NEW s \in Scopes, UserEdit(s) PROVE disk' = disk
    BY <2>2 DEF UserEdit, UserAddsEntry, UserRemovesEntry, UserSets, UserSaves
  <2>3. ASSUME NEW x \in Targets, UserWritesFile(x) PROVE disk'[t] = "user"
    BY <2>3 DEF UserWritesFile, InstallInv, InstallTypeOK
  <2>4. Upgrade => disk' = disk
    BY DEF Upgrade
  <2>5. QED
    BY <2>1, <2>2, <2>3, <2>4 DEF InstallNext
<1>3. QED
  BY <1>1, <1>2, InstallInvariance, PTL DEF InstallSpec, UserThingsSurvive, UserFilesSurvive

\* And what Forge installs it can take away: while no run was cut short, every file it put
\* on disk is on somebody's record, and a disable after a single enable brings back the
\* settings that the enable found.
THEOREM NothingStays == InstallSpec => NothingIsLeftBehind
<1>1. InstallInv => NoFileIsOrphaned
  BY DEF InstallInv, Recorded, NoFileIsOrphaned
<1> DEFINE Undone == \A s \in Scopes :
                        before[s] # None /\ record[s] # None /\ record'[s] = None => Read(s)' = before[s]
<1>2. InstallInv /\ [InstallNext]_installVars => [Undone]_installVars
  <2> SUFFICES ASSUME InstallInv, InstallNext, NEW s \in Scopes,
                      before[s] # None, record[s] # None, record'[s] = None
               PROVE  Read(s)' = before[s]
    OBVIOUS
  <2>1. ASSUME NEW x \in Scopes, InstallCommand(x) PROVE Read(s)' = before[s]
    <3>1. CASE Disable(x)
      <4>1. x = s
        BY <3>1 DEF Disable, InstallInv, InstallTypeOK
      <4>2. QED
        BY <3>1, <4>1, DisableUndoes
    <3>2. CASE ~Disable(x)
      BY <2>1, <3>2, CommandIs, ExecuteRecords
    <3>3. QED
      BY <3>1, <3>2
  <2>2. ASSUME NEW x \in Scopes, UserEdit(x) PROVE record' = record
    BY <2>2 DEF UserEdit, UserAddsEntry, UserRemovesEntry, UserSets, UserSaves
  <2>3. ASSUME NEW x \in Targets, UserWritesFile(x) PROVE record' = record
    BY <2>3 DEF UserWritesFile
  <2>4. Upgrade => record' = record
    BY DEF Upgrade
  <2>5. QED
    BY <2>1, <2>2, <2>3, <2>4 DEF InstallNext
<1>3. QED
  BY <1>1, <1>2, InstallInvariance, PTL DEF InstallSpec, NothingIsLeftBehind, OneEnableIsUndone

================================================================================

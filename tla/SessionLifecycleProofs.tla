------------------------- MODULE SessionLifecycleProofs -------------------------
(***************************************************************************)
(* Proofs about SessionLifecycle for any set of calls, names and sessions  *)
(* that exist.  The first part is about calls that interleave without a    *)
(* bound on how many do.                                                   *)
(***************************************************************************)
EXTENDS SessionLifecycle, TLAPS

Points == {"idle", "get", "stat", "prune", "pruneList", "probe", "parent", "name", "exists", "judge",
           "tree", "swap", "stale", "write", "add", "collide", "undo", "undoTree", "restore",
           "restoreEntry", "examine", "cleanup", "retry", "remove", "unlink", "clear"} \cup Ended

Locals == [op : {"none", "start", "resume", "relaunch", "fork", "delete", "list", "orphan"},
           key : Keys \cup {None}, wkey : Keys \cup {None}, par : Keys \cup {None},
           at : Keys \cup {None}, ret : {"none", "parent", "judge", "remove", "examine"},
           mode : {"none", "same", "worktree", "into"}, tree : Roots,
           hold : {"none", "owner", "guest"}, auto : BOOLEAN, force : BOOLEAN, keep : BOOLEAN,
           made : BOOLEAN, old : Manifest \cup {None}, oldEntry : Entry \cup {None},
           stale : SUBSET Keys]

Creators == {"start", "resume", "relaunch", "fork"}

\* The operations that get to a place.
OpsAt == [get |-> {"resume", "relaunch", "fork", "delete"},
          stat |-> {"resume", "relaunch", "fork", "delete"},
          prune |-> {"resume", "relaunch", "fork", "delete"},
          probe |-> {"start"}, parent |-> {"resume", "relaunch", "fork"}, name |-> {"resume"},
          exists |-> {"resume", "relaunch"}, judge |-> {"fork"}, tree |-> {"start", "fork"},
          swap |-> {"fork"}, stale |-> {"fork"}, write |-> Creators, add |-> Creators,
          collide |-> {"resume"}, undo |-> {"start", "fork"}, undoTree |-> {"start", "fork"},
          restore |-> {"fork"}, restoreEntry |-> {"fork"}, examine |-> {"delete"},
          cleanup |-> {"delete"}, retry |-> {"delete"}, remove |-> {"fork", "delete"},
          unlink |-> {"fork", "delete", "orphan"}, clear |-> {"fork", "delete", "orphan"}]

Working == Points \ (Ended \cup {"idle", "pruneList"})

\* What a call at place w knows.
Shape(w, l) ==
    w \in Working =>
      /\ l.op \in OpsAt[w]
      /\ l.key # None /\ l.wkey # None
      /\ l.op \in {"resume", "relaunch", "fork"} => l.par # None
      /\ w \in {"get", "stat", "prune"} =>
            /\ l.at # None
            /\ \/ l.ret = "parent" /\ l.op \in {"resume", "relaunch", "fork"}
               \/ l.ret \in {"judge", "remove"} /\ l.op = "fork"
               \/ l.ret = "examine" /\ l.op = "delete"
      /\ l.made => l.op \in {"start", "fork"}
      /\ l.old # None => l.op = "fork"
      /\ l.auto => l.op = "resume"
      /\ w \in {"restore", "restoreEntry"} => l.old # None

PlacesOK ==
    /\ pc \in [Calls -> Points] /\ loc \in [Calls -> Locals]
    /\ \A c \in Calls : Shape(pc[c], loc[c])

\* Uncommitted work is somewhere.
WorkIsThere == uncommitted \subseteq dirs \X Kinds

Inv == TypeOK /\ PlacesOK /\ WorkIsThere

-----------------------------------------------------------------------------
(* Where calls are.                                                        *)

\* A call goes on to a place with what it knows there.
Moves(c) == \E l \in Locals, to \in Points : Go(c, l, to) /\ Shape(to, l)

\* No locals are locals.
LEMMA BlankTyped == Blank \in Locals
  BY DEF Blank, Locals, Roots

\* A call that moves takes no other along, and ends with next to nothing.
LEMMA GoStep ==
  ASSUME PlacesOK, NEW c \in Calls, NEW l \in Locals, NEW to \in Points, Go(c, l, to)
  PROVE  /\ pc' \in [Calls -> Points] /\ loc' \in [Calls -> Locals]
         /\ pc'[c] = to /\ loc'[c].op = l.op /\ loc'[c].key = l.key /\ loc'[c].wkey = l.wkey
         /\ loc'[c].force = l.force
         /\ to \notin Ended => loc'[c] = l
         /\ \A d \in Calls \ {c} : pc'[d] = pc[d] /\ loc'[d] = loc[d]
<1>1. PICK e : e = [Blank EXCEPT !.op = l.op, !.key = l.key, !.wkey = l.wkey, !.force = l.force]
  OBVIOUS
<1>2. e = [op |-> l.op, key |-> l.key, wkey |-> l.wkey, par |-> None, at |-> None,
              ret |-> "none", mode |-> "none", tree |-> Main, hold |-> "none", auto |-> FALSE,
              force |-> l.force, keep |-> FALSE, made |-> FALSE, old |-> None,
              oldEntry |-> None, stale |-> {}]
  BY <1>1 DEF Blank
<1>3. e \in Locals /\ e.op = l.op /\ e.key = l.key /\ e.wkey = l.wkey /\ e.force = l.force
  BY <1>2 DEF Locals, Roots
<1> DEFINE m == IF to \in Ended THEN e ELSE l
<1>4. m \in Locals /\ m.op = l.op /\ m.key = l.key /\ m.wkey = l.wkey /\ m.force = l.force
  BY <1>3
<1>5. pc' = [pc EXCEPT ![c] = to] /\ loc' = [loc EXCEPT ![c] = m]
  BY <1>1 DEF Go
<1>6. to \notin Ended => m = l
  OBVIOUS
<1> HIDE DEF m
<1>7. QED
  BY <1>4, <1>5, <1>6 DEF PlacesOK

\* It leaves every call where it can be.
LEMMA MovesPlaces == ASSUME PlacesOK, NEW c \in Calls, Moves(c) PROVE PlacesOK'
<1>1. PICK l \in Locals, to \in Points : Go(c, l, to) /\ Shape(to, l)
  BY DEF Moves
<1>2. /\ pc' \in [Calls -> Points] /\ loc' \in [Calls -> Locals]
      /\ pc'[c] = to
      /\ to \notin Ended => loc'[c] = l
      /\ \A d \in Calls \ {c} : pc'[d] = pc[d] /\ loc'[d] = loc[d]
  BY <1>1, GoStep
<1>3. Shape(pc'[c], loc'[c])
  <2>1. CASE to \in Ended
    BY <1>2, <2>1 DEF Shape, Working
  <2>2. CASE to \notin Ended
    BY <1>1, <1>2, <2>2
  <2>3. QED
    BY <2>1, <2>2
<1>4. QED
  BY <1>2, <1>3 DEF PlacesOK

\* A call that keeps its locals.
LEMMA GotoMoves ==
  ASSUME PlacesOK, NEW c \in Calls, NEW to \in Points, Goto(c, to), Shape(to, loc[c]) PROVE Moves(c)
  BY DEF Goto, Moves, PlacesOK

\* A field of the locals is set to a value it can have.
LEMMA LocalsUpdate ==
  ASSUME NEW x \in Locals
  PROVE  /\ \A v \in Keys \cup {None} : [x EXCEPT !.at = v] \in Locals
         /\ \A v \in Roots : [x EXCEPT !.tree = v] \in Locals
         /\ \A v \in Entry \cup {None} : [x EXCEPT !.oldEntry = v] \in Locals
         /\ \A v \in Manifest \cup {None} : [x EXCEPT !.old = v] \in Locals
         /\ \A v \in BOOLEAN : [x EXCEPT !.made = v] \in Locals
         /\ \A v \in Keys : [x EXCEPT !.key = v, !.wkey = v] \in Locals
         /\ \A v \in Keys : [x EXCEPT !.key = v, !.wkey = v, !.auto = FALSE] \in Locals
         /\ \A v \in Roots, k \in Keys : [x EXCEPT !.tree = v, !.wkey = k] \in Locals
         /\ \A v \in Keys, r \in {"none", "parent", "judge", "remove", "examine"} :
               [x EXCEPT !.at = v, !.ret = r] \in Locals
<1>1. \A v \in Keys \cup {None} : [x EXCEPT !.at = v] \in Locals
  BY DEF Locals
<1>2. \A v \in Roots : [x EXCEPT !.tree = v] \in Locals
  BY DEF Locals
<1>3. \A v \in Entry \cup {None} : [x EXCEPT !.oldEntry = v] \in Locals
  BY DEF Locals
<1>4. \A v \in Manifest \cup {None} : [x EXCEPT !.old = v] \in Locals
  BY DEF Locals
<1>5. \A v \in BOOLEAN : [x EXCEPT !.made = v] \in Locals
  BY DEF Locals
<1>6. \A v \in Keys : [x EXCEPT !.key = v, !.wkey = v] \in Locals
  BY DEF Locals
<1>7. \A v \in Keys : [x EXCEPT !.key = v, !.wkey = v, !.auto = FALSE] \in Locals
  BY DEF Locals
<1>8. \A v \in Roots, k \in Keys : [x EXCEPT !.tree = v, !.wkey = k] \in Locals
  BY DEF Locals
<1>9. \A v \in Keys, r \in {"none", "parent", "judge", "remove", "examine"} :
          [x EXCEPT !.at = v, !.ret = r] \in Locals
  BY DEF Locals
<1>10. QED
  BY <1>1, <1>2, <1>3, <1>4, <1>5, <1>6, <1>7, <1>8, <1>9

\* The lookups.
LEMMA LookupMoves ==
  ASSUME TypeOK, PlacesOK, NEW c \in Calls, Lookup(c) \/ Stat(c) \/ Prune(c) PROVE Moves(c)
<1> DEFINE l == loc[c]
<1>0. /\ l \in Locals /\ Shape(pc[c], l) /\ pc[c] \in {"get", "stat", "prune"}
      /\ l.key # None /\ l.wkey # None /\ l.at # None
      /\ l.op \in {"resume", "relaunch", "fork"} => l.par # None
      /\ \/ l.ret = "parent" /\ l.op \in {"resume", "relaunch", "fork"}
         \/ l.ret \in {"judge", "remove"} /\ l.op = "fork"
         \/ l.ret = "examine" /\ l.op = "delete"
      /\ (l.made => l.op \in {"start", "fork"}) /\ (l.old # None => l.op = "fork")
      /\ (l.auto => l.op = "resume")
  BY DEF PlacesOK, Lookup, Stat, Prune, Shape, Working, Points, Ended
<1> HIDE DEF l
<1>1. CASE NotFound(c)
  <2>1. PICK to \in {"judge", "stale", "failed"} :
           Goto(c, to) /\ (to # "failed" => l.op = "fork")
    BY <1>0, <1>1 DEF NotFound, l
  <2>2. Shape(to, l) /\ to \in Points
    BY <1>0, <2>1 DEF Shape, Working, Points, Ended, OpsAt
  <2>3. QED
    BY <2>1, <2>2, GotoMoves DEF l
<1>2. CASE Found(c)
  <2>1. index[l.at] \in Entry \cup {None}
    BY <1>0 DEF TypeOK, Locals
  <2>2. PICK m : /\ Go(c, m, l.ret)
                 /\ \/ m = l
                    \/ m = [l EXCEPT !.oldEntry = index[l.at]]
                    \/ index[l.at] # None /\ m = [l EXCEPT !.tree = index[l.at].tree]
    <3>1. CASE l.ret = "judge"
      BY <1>2, <3>1 DEF Found, l
    <3>2. CASE l.ret # "judge" /\ l.op \in {"resume", "relaunch"} /\ index[l.at] # None
      BY <1>2, <3>2 DEF Found, l
    <3>3. CASE l.ret # "judge" /\ ~(l.op \in {"resume", "relaunch"} /\ index[l.at] # None)
      BY <1>2, <3>3 DEF Found, l
    <3>4. QED
      BY <3>1, <3>2, <3>3
  <2>3. index[l.at] # None => index[l.at].tree \in Roots
    BY <2>1 DEF Entry
  <2>4. /\ m \in Locals /\ m.op = l.op /\ m.key = l.key /\ m.wkey = l.wkey /\ m.par = l.par
        /\ m.made = l.made /\ m.old = l.old /\ m.at = l.at /\ m.ret = l.ret /\ m.auto = l.auto
    <3>1. m \in Locals
      BY <1>0, <2>1, <2>2, <2>3, LocalsUpdate
    <3>2. CASE m = l
      BY <3>1, <3>2
    <3>3. CASE m = [l EXCEPT !.oldEntry = index[l.at]]
      BY <1>0, <3>1, <3>3 DEF Locals
    <3>4. CASE m = [l EXCEPT !.tree = index[l.at].tree]
      BY <1>0, <3>1, <3>4 DEF Locals
    <3>5. QED
      BY <2>2, <3>2, <3>3, <3>4
  <2>5. Shape(l.ret, m) /\ l.ret \in Points
    BY <1>0, <2>4 DEF Shape, Working, Points, Ended, OpsAt
  <2>6. QED
    BY <2>2, <2>4, <2>5 DEF Moves
<1>3. CASE Goto(c, "stat") \/ Goto(c, "prune")
  <2>1. Shape("stat", l) /\ Shape("prune", l) /\ {"stat", "prune"} \subseteq Points
    BY <1>0 DEF Shape, Working, Points, Ended, OpsAt
  <2>2. QED
    BY <1>3, <2>1, GotoMoves DEF l
<1>4. QED
  BY <1>1, <1>2, <1>3 DEF Lookup, Stat, Prune

\* The steps that leave the locals alone.
LEMMA PlainMoves ==
  ASSUME TypeOK, PlacesOK, NEW c \in Calls,
         \/ ProbeManifest(c) \/ CheckNameFree(c) \/ ClearStale(c) \/ WriteManifest(c) \/ AddToIndex(c)
         \/ UndoManifest(c) \/ UndoWorktree(c) \/ RestoreTarget(c) \/ RestoreEntry(c)
         \/ CleanupWorktree(c) \/ RetryCleanup(c) \/ RemoveFromIndex(c) \/ UnlinkManifest(c) \/ ClearActive(c)
         \/ PruneList(c) \/ Crash(c)
  PROVE  Moves(c)
<1> DEFINE l == loc[c]
<1>0. l \in Locals /\ Shape(pc[c], l) /\ pc[c] \in Points
  BY DEF PlacesOK
<1> HIDE DEF l
<1>1. SUFFICES ASSUME NEW to \in Points, Goto(c, to) PROVE Shape(to, l)
  <2>1. \E to \in Points : Goto(c, to)
    <3>1. CASE ProbeManifest(c)
      BY <3>1 DEF ProbeManifest, Points, Ended
    <3>2. CASE CheckNameFree(c)
      BY <3>2 DEF CheckNameFree, Points, Ended
    <3>3. CASE WriteManifest(c)
      BY <3>3 DEF WriteManifest, AfterUndo, Points, Ended
    <3>4. CASE AddToIndex(c)
      BY <3>4 DEF AddToIndex, Points, Ended
    <3>5. CASE UndoManifest(c)
      BY <3>5 DEF UndoManifest, AfterUndo, Points, Ended
    <3>6. CASE RestoreTarget(c)
      BY <3>6 DEF RestoreTarget, Points, Ended
    <3>7. CASE ClearActive(c)
      BY <3>7 DEF ClearActive, Points, Ended
    <3>8. CASE ClearStale(c) \/ UndoWorktree(c) \/ RestoreEntry(c) \/ PruneList(c) \/ Crash(c)
      BY <3>8 DEF ClearStale, UndoWorktree, RestoreEntry, PruneList, Crash, Points, Ended
    <3>9. CASE CleanupWorktree(c) \/ RetryCleanup(c) \/ RemoveFromIndex(c) \/ UnlinkManifest(c)
      BY <3>9 DEF CleanupWorktree, RetryCleanup, TryRemove, RemoveFromIndex, UnlinkManifest, Points, Ended
    <3>10. QED
      BY <3>1, <3>2, <3>3, <3>4, <3>5, <3>6, <3>7, <3>8, <3>9
  <2>2. QED
    BY <2>1, GotoMoves DEF l
<1>2. pc'[c] = to
  BY <1>1, GoStep DEF Goto, PlacesOK
<1>3. pc[c] \in Working => /\ l.op \in OpsAt[pc[c]] /\ l.key # None /\ l.wkey # None
                           /\ l.op \in {"resume", "relaunch", "fork"} => l.par # None
                           /\ l.made => l.op \in {"start", "fork"}
                           /\ l.old # None => l.op = "fork"
                           /\ l.auto => l.op = "resume"
  BY <1>0 DEF Shape
<1>4. \A w \in {"probe", "exists", "stale", "write", "add", "undo", "undoTree", "restore", "restoreEntry",
                "cleanup", "retry", "remove", "unlink", "clear"} : w \in Working
  BY DEF Working, Points, Ended
<1>5. CASE ProbeManifest(c)
  <2>1. pc[c] = "probe" /\ to \in {"write", "undoTree", "failed"}
    BY <1>2, <1>5, GoStep DEF ProbeManifest, Goto, Go, PlacesOK
  <2>2. QED
    BY <1>3, <1>4, <2>1 DEF Shape, OpsAt, Creators, Working, Ended
<1>6. CASE CheckNameFree(c)
  <2>1. pc[c] = "exists" /\ to \in {"write", "failed"}
    BY <1>2, <1>6 DEF CheckNameFree, Goto, Go, PlacesOK
  <2>2. QED
    BY <1>3, <1>4, <2>1 DEF Shape, OpsAt, Creators, Working, Ended
<1>7. CASE ClearStale(c)
  <2>1. pc[c] = "stale" /\ to = "write"
    BY <1>2, <1>7 DEF ClearStale, Goto, Go, PlacesOK
  <2>2. QED
    BY <1>3, <1>4, <2>1 DEF Shape, OpsAt, Creators, Working, Ended
<1>8. CASE WriteManifest(c) \/ UndoManifest(c)
  <2>1. pc[c] \in {"write", "undo"} /\ ((to = "add" /\ pc[c] = "write") \/ to = AfterUndo(l))
    BY <1>2, <1>8 DEF WriteManifest, UndoManifest, Goto, Go, PlacesOK, l
  <2>2. QED
    BY <1>3, <1>4, <2>1 DEF Shape, OpsAt, Creators, Working, Ended, AfterUndo
<1>9. CASE AddToIndex(c)
  <2>1. pc[c] = "add" /\ \/ to \in {"done", "failed"}
                         \/ (to = "collide" /\ l.op = "resume")
                         \/ (to = "undo" /\ l.op \notin {"resume", "relaunch"})
    <3>1. pc[c] = "add"
      BY <1>9 DEF AddToIndex
    <3>2. PICK w \in Points : /\ Goto(c, w)
                              /\ \/ w \in {"done", "failed"}
                                 \/ (w = "collide" /\ l.op = "resume")
                                 \/ (w = "undo" /\ l.op \notin {"resume", "relaunch"})
      BY <1>9 DEF AddToIndex, Points, Ended, l
    <3>3. pc'[c] = w
      BY <3>2 DEF Goto, Go, PlacesOK
    <3>4. QED
      BY <1>2, <3>1, <3>2, <3>3
  <2>2. QED
    BY <1>3, <1>4, <2>1 DEF Shape, OpsAt, Creators, Working, Ended
<1>10. CASE UndoWorktree(c) \/ RestoreEntry(c) \/ Crash(c) \/ PruneList(c)
  <2>1. to \in Ended
    BY <1>2, <1>10 DEF UndoWorktree, RestoreEntry, Crash, PruneList, Goto, Go, PlacesOK, Ended
  <2>2. QED
    BY <2>1 DEF Shape, Working
<1>11. CASE RestoreTarget(c)
  <2>1. pc[c] = "restore" /\ to \in {"failed", "restoreEntry"} /\ l.old # None
    BY <1>0, <1>2, <1>4, <1>11 DEF RestoreTarget, Goto, Go, PlacesOK, Shape
  <2>2. QED
    BY <1>3, <1>4, <2>1 DEF Shape, OpsAt, Creators, Working, Ended
<1>12. CASE CleanupWorktree(c) \/ RetryCleanup(c) \/ RemoveFromIndex(c) \/ UnlinkManifest(c)
  <2>1. \/ pc[c] \in {"cleanup", "retry"} /\ to \in {"remove", "failed", "retry"}
        \/ pc[c] = "remove" /\ (to \in {"unlink", "failed"} \/ (to = "undoTree" /\ l.made))
        \/ pc[c] = "unlink" /\ to \in {"clear", "failed"}
    BY <1>2, <1>12 DEF CleanupWorktree, RetryCleanup, TryRemove, RemoveFromIndex, UnlinkManifest, Goto, Go, PlacesOK, l
  <2>2. QED
    BY <1>3, <1>4, <2>1 DEF Shape, OpsAt, Creators, Working, Ended
<1>13. CASE ClearActive(c)
  <2>1. pc[c] = "clear" /\ ((to = "stale" /\ l.op = "fork") \/ to = "done")
    BY <1>2, <1>13 DEF ClearActive, Goto, Go, PlacesOK, l
  <2>2. QED
    BY <1>3, <1>4, <2>1 DEF Shape, OpsAt, Creators, Working, Ended
<1>14. QED
  BY <1>5, <1>6, <1>7, <1>8, <1>9, <1>10, <1>11, <1>12, <1>13

\* Keys are pairs.
LEMMA KeyParts == ASSUME NEW k \in Keys PROVE k[1] \in Names /\ k[2] \in Roots
  BY DEF Keys

\* A generated name is a key of the parent's project.
LEMMA GeneratedIsKey ==
  ASSUME NEW par \in Keys, NEW roots, NEW k \in GeneratedKeys(par, roots) PROVE k \in Keys
<1>1. par[1] \in Names /\ par[2] \in Roots
  BY KeyParts
<1>2. Resumed[par[1]] \in Names /\ Suffixed[par[1]] \subseteq Names
  BY <1>1, SessionLifecycleAssumption
<1>3. PICK n \in Names : k = <<n, par[2]>>
  BY <1>2 DEF GeneratedKeys
<1>4. QED
  BY <1>1, <1>3 DEF Keys

\* The steps that learn something.
LEMMA LearningMoves ==
  ASSUME TypeOK, PlacesOK, NEW c \in Calls,
         ReadParent(c) \/ GenerateResumeName(c) \/ ResumeCollides(c) \/ JudgeTarget(c)
           \/ CreateWorktree(c) \/ SwapTarget(c) \/ Examine(c)
  PROVE  Moves(c) \/ UNCHANGED <<pc, loc>>
<1> DEFINE l == loc[c]
<1>0. l \in Locals /\ Shape(pc[c], l) /\ pc[c] \in Working
  BY DEF PlacesOK, ReadParent, GenerateResumeName, ResumeCollides, JudgeTarget, CreateWorktree, SwapTarget,
     Examine, Working, Points, Ended
<1>1. /\ l.op \in OpsAt[pc[c]] /\ l.key \in Keys /\ l.wkey \in Keys
      /\ l.op \in {"resume", "relaunch", "fork"} => l.par \in Keys
      /\ l.made => l.op \in {"start", "fork"}
      /\ l.old # None => l.op = "fork"
      /\ l.auto => l.op = "resume"
  BY <1>0 DEF Shape, Locals
<1>2. l.op = "fork" => /\ Shape("tree", l) /\ Shape("write", l) /\ Shape("swap", l)
  BY <1>0, <1>1, RecordAssumption DEF Shape, Creators, OpsAt, Working, Ended
<1> HIDE DEF l
<1>3. ASSUME NEW to \in Ended, Goto(c, to) PROVE Moves(c)
  BY <1>0, <1>3, GotoMoves DEF Shape, Working, Points, l
<1>4. CASE ReadParent(c)
  <2> DEFINE m == manifest[l.par]
  <2>0. l.op \in {"resume", "relaunch", "fork"} /\ l.par \in Keys
    BY <1>1, <1>4 DEF ReadParent, OpsAt
  <2>1. CASE Goto(c, "failed")
    BY <1>3, <2>1 DEF Ended
  <2>2. CASE m # None /\ l.op = "fork" /\
             Go(c, [(IF l.mode = "same" THEN SameCheckout(l, m.tree) ELSE l) EXCEPT !.at = l.key, !.ret = "judge"], "get")
    <3>1. m \in Manifest
      BY <2>0, <2>2 DEF TypeOK
    <3>2. m.tree \in Roots
      BY <3>1 DEF Manifest
    <3> DEFINE k == <<l.key[1], m.tree>>
               x == IF l.mode = "same" THEN SameCheckout(l, m.tree) ELSE l
               y == [x EXCEPT !.at = l.key, !.ret = "judge"]
    <3>3. k \in Keys
      BY <1>1, <3>2, KeyParts DEF Keys
    <3>4. /\ x \in Locals /\ x.op = l.op /\ x.key = l.key /\ x.wkey \in Keys /\ x.par = l.par
          /\ x.made = l.made /\ x.old = l.old /\ x.auto = l.auto
      <4>1. CASE l.mode = "same"
        <5>1. x = [l EXCEPT !.tree = m.tree, !.wkey = k]
          BY <4>1 DEF SameCheckout
        <5> HIDE DEF x, k, m
        <5>2. x \in Locals
          BY <1>0, <3>2, <3>3, <5>1, LocalsUpdate
        <5>3. QED
          BY <1>0, <3>3, <5>1, <5>2 DEF Locals
      <4>2. CASE l.mode # "same"
        BY <1>0, <1>1, <4>2
      <4>3. QED
        BY <4>1, <4>2
    <3>5. Go(c, y, "get")
      BY <2>2
    <3> HIDE DEF x
    <3>6. y \in Locals
      BY <1>1, <3>4, LocalsUpdate
    <3>7. /\ y.op = l.op /\ y.key = l.key /\ y.wkey \in Keys /\ y.par = l.par
          /\ y.made = l.made /\ y.old = l.old /\ y.auto = l.auto /\ y.at = l.key /\ y.ret = "judge"
      BY <3>4, <3>6 DEF Locals
    <3> HIDE DEF y
    <3>8. Shape("get", y)
      BY <1>1, <2>0, <2>2, <3>7, RecordAssumption DEF Shape, OpsAt
    <3>9. QED
      BY <3>5, <3>6, <3>8 DEF Moves, Points
  <2>3. CASE l.op # "fork" /\ Goto(c, IF l.auto THEN "name" ELSE "exists")
    <3>1. CASE l.auto
      <4>1. Shape("name", l)
        BY <1>1, <2>0, <3>1, RecordAssumption DEF Shape, OpsAt
      <4>2. QED
        BY <2>3, <3>1, <4>1, GotoMoves DEF Points, l
    <3>2. CASE ~l.auto
      <4>1. Shape("exists", l)
        BY <1>1, <2>0, <2>3, <3>2, RecordAssumption DEF Shape, OpsAt
      <4>2. QED
        BY <2>3, <3>2, <4>1, GotoMoves DEF Points, l
    <3>3. QED
      BY <3>1, <3>2
  <2>4. QED
    BY <1>4, <2>1, <2>2, <2>3 DEF ReadParent, l
<1>5. CASE GenerateResumeName(c) \/ ResumeCollides(c)
  <2>0. l.op = "resume" /\ l.par \in Keys
    <3>1. pc[c] = "name" \/ pc[c] = "collide"
      BY <1>5 DEF GenerateResumeName, ResumeCollides
    <3>2. OpsAt["name"] = {"resume"} /\ OpsAt["collide"] = {"resume"}
      BY DEF OpsAt
    <3>3. QED
      BY <1>1, <3>1, <3>2
  <2>1. CASE Goto(c, "failed")
    BY <1>3, <2>1 DEF Ended
  <2>2. ASSUME NEW k \in Keys,
               \/ Go(c, [l EXCEPT !.key = k, !.wkey = k], "exists")
               \/ Go(c, [l EXCEPT !.key = k, !.wkey = k, !.auto = FALSE], "write")
        PROVE  Moves(c)
    <3>1. PICK y, to : /\ Go(c, y, to) /\ to \in {"exists", "write"}
                       /\ \/ y = [l EXCEPT !.key = k, !.wkey = k]
                          \/ y = [l EXCEPT !.key = k, !.wkey = k, !.auto = FALSE]
      BY <2>2
    <3>2. y \in Locals
      BY ZenonT(40), <1>0, <3>1, LocalsUpdate
    <3>3. /\ y.op = l.op /\ y.key = k /\ y.wkey = k /\ y.par = l.par /\ y.made = l.made /\ y.old = l.old
      BY <1>0, <3>1 DEF Locals
    <3>4. Shape(to, y)
      BY <1>1, <2>0, <3>1, <3>3, RecordAssumption DEF Shape, OpsAt, Creators
    <3>5. QED
      BY <3>1, <3>2, <3>4 DEF Moves, Points
  <2>3. CASE GenerateResumeName(c)
    <3>1. PICK k \in GeneratedKeys(l.par, {l.par[2]}) : Go(c, [l EXCEPT !.key = k, !.wkey = k], "exists")
      BY <2>3 DEF GenerateResumeName, l
    <3>2. QED
      BY <2>0, <2>2, <3>1, GeneratedIsKey
  <2>4. CASE ResumeCollides(c) /\ ~Goto(c, "failed")
    <3>1. PICK k \in GeneratedKeys(l.par, Roots) :
             Go(c, [l EXCEPT !.key = k, !.wkey = k, !.auto = FALSE], "write")
      BY <2>4 DEF ResumeCollides, l
    <3>2. QED
      BY <2>0, <2>2, <3>1, GeneratedIsKey
  <2>5. QED
    BY <1>5, <2>1, <2>3, <2>4
<1>6. CASE JudgeTarget(c)
  <2>0. l.op = "fork" /\ {"tree", "write", "swap"} \subseteq Points
    BY <1>1, <1>6 DEF JudgeTarget, OpsAt, Points
  <2>1. CASE Goto(c, "failed")
    BY <1>3, <2>1 DEF Ended
  <2>2. CASE Goto(c, IF l.mode = "worktree" THEN "tree" ELSE "write")
    BY <1>2, <2>0, <2>2, GotoMoves DEF l
  <2>3. CASE CanForceReplace(l, manifest[l.key]) /\
             Go(c, [l EXCEPT !.old = manifest[l.key]], IF l.mode = "worktree" THEN "tree" ELSE "swap")
    <3> DEFINE y == [l EXCEPT !.old = manifest[l.key]]
    <3>1. manifest[l.key] \in Manifest
      BY <1>1, <2>3 DEF CanForceReplace, TypeOK
    <3>2. y \in Locals
      BY <1>0, <3>1, LocalsUpdate
    <3>3. /\ y.op = l.op /\ y.key = l.key /\ y.wkey = l.wkey /\ y.par = l.par /\ y.made = l.made
          /\ y.auto = l.auto
      BY <1>0, <3>2 DEF Locals
    <3>4. PICK to \in {"tree", "swap"} : Go(c, y, to)
      BY <2>3
    <3> HIDE DEF y
    <3>5. Shape(to, y)
      BY <1>1, <2>0, <3>3, <3>4, RecordAssumption DEF Shape, OpsAt
    <3>6. QED
      BY <2>0, <3>2, <3>4, <3>5 DEF Moves
  <2>4. QED
    BY <1>6, <2>1, <2>2, <2>3 DEF JudgeTarget, l
<1>7. CASE CreateWorktree(c)
  <2>1. CASE Goto(c, "failed")
    BY <1>3, <2>1 DEF Ended
  <2>2. CASE UNCHANGED <<pc, loc>>
    BY <2>2
  <2>3. CASE Go(c, [l EXCEPT !.made = TRUE],
                IF l.op = "start" THEN "probe" ELSE IF l.old # None THEN "swap" ELSE "write")
    <3> DEFINE y == [l EXCEPT !.made = TRUE]
    <3>0. l.op \in {"start", "fork"}
      BY <1>1, <1>7 DEF CreateWorktree, OpsAt
    <3>1. y \in Locals
      BY <1>0, LocalsUpdate
    <3>2. /\ y.op = l.op /\ y.key = l.key /\ y.wkey = l.wkey /\ y.par = l.par /\ y.old = l.old
          /\ y.auto = l.auto
      BY <1>0, <3>1 DEF Locals
    <3>3. PICK to \in {"probe", "swap", "write"} :
             Go(c, y, to) /\ (to = "probe" <=> l.op = "start")
      BY <2>3, <3>0
    <3> HIDE DEF y
    <3>4. Shape(to, y)
      BY <1>1, <3>0, <3>2, <3>3, RecordAssumption DEF Shape, OpsAt, Creators
    <3>5. QED
      BY <3>1, <3>3, <3>4 DEF Moves, Points
  <2>4. QED
    BY <1>7, <2>1, <2>2, <2>3 DEF CreateWorktree, l
<1>8. CASE SwapTarget(c)
  <2> DEFINE y == [l EXCEPT !.at = l.wkey, !.ret = "remove"]
  <2>1. Go(c, y, "get") /\ l.op = "fork"
    BY <1>1, <1>8 DEF SwapTarget, OpsAt, l
  <2>2. y \in Locals
    BY <1>0, <1>1, LocalsUpdate
  <2>3. /\ y.op = l.op /\ y.key = l.key /\ y.wkey = l.wkey /\ y.par = l.par /\ y.made = l.made
        /\ y.old = l.old /\ y.auto = l.auto /\ y.at = l.wkey /\ y.ret = "remove"
    BY <1>0, <2>2 DEF Locals
  <2> HIDE DEF y
  <2>4. Shape("get", y)
    BY <1>1, <2>1, <2>3, RecordAssumption DEF Shape, OpsAt
  <2>5. QED
    BY <2>1, <2>2, <2>4 DEF Moves, Points
<1>9. CASE Examine(c)
  <2>0. l.op = "delete"
    <3>1. pc[c] = "examine"
      BY <1>9 DEF Examine
    <3>2. QED
      BY <1>1, <3>1 DEF OpsAt
  <2>1. CASE Goto(c, "failed")
    BY <1>3, <2>1 DEF Ended
  <2>2. CASE Goto(c, "remove")
    <3>1. Shape("remove", l)
      BY <1>1, <2>0, RecordAssumption DEF Shape, OpsAt
    <3>2. QED
      BY <2>2, <3>1, GotoMoves DEF Points, l
  <2>3. CASE manifest[l.key] # None /\ Go(c, [l EXCEPT !.tree = manifest[l.key].tree], "cleanup")
    <3> DEFINE y == [l EXCEPT !.tree = manifest[l.key].tree]
    <3>1. manifest[l.key].tree \in Roots
      <4>1. manifest[l.key] \in Manifest
        BY <1>1, <2>3 DEF TypeOK
      <4>2. QED
        BY <4>1 DEF Manifest
    <3>2. y \in Locals
      BY <1>0, <3>1, LocalsUpdate
    <3>3. /\ y.op = l.op /\ y.key = l.key /\ y.wkey = l.wkey /\ y.par = l.par /\ y.made = l.made
          /\ y.old = l.old /\ y.auto = l.auto
      BY <1>0, <3>2 DEF Locals
    <3> HIDE DEF y
    <3>4. Shape("cleanup", y)
      BY <1>1, <2>0, <3>3, RecordAssumption DEF Shape, OpsAt
    <3>5. QED
      BY <2>3, <3>2, <3>4 DEF Moves, Points, y
  <2>4. QED
    BY <1>9, <2>1, <2>2, <2>3 DEF Examine, l
<1>10. QED
  BY <1>4, <1>5, <1>6, <1>7, <1>8, <1>9

\* The calls that begin.
LEMMA BeginMoves == ASSUME TypeOK, PlacesOK, NEW c \in Calls, BeginCall(c) PROVE Moves(c)
<1>0. /\ {"done", "pruneList", "unlink", "tree", "probe", "get"} \subseteq Points
      /\ {"unlink", "tree", "probe", "get"} \subseteq Working
      /\ "done" \notin Working /\ "pruneList" \notin Working
  BY DEF Points, Working, Ended
<1>1. CASE ListSessions(c)
  <2>1. PICK x \in SUBSET Keys, to \in {"done", "pruneList"} :
           Go(c, [Blank EXCEPT !.op = "list", !.stale = x], to)
    BY <1>1 DEF ListSessions, Begin
  <2>2. [Blank EXCEPT !.op = "list", !.stale = x] \in Locals
    BY DEF Blank, Locals, Roots
  <2>3. QED
    BY <1>0, <2>1, <2>2 DEF Moves, Shape
<1>2. ASSUME NEW n \in Names, DeleteOrphan(c, n) PROVE Moves(c)
  <2> DEFINE k == <<n, Main>>
             y == [Blank EXCEPT !.op = "orphan", !.key = k, !.wkey = k]
  <2>1. Go(c, y, "unlink") /\ k \in Keys
    BY <1>2 DEF DeleteOrphan, Begin, Keys, Roots
  <2>2. y \in Locals
    BY <2>1 DEF Blank, Locals, Roots
  <2>3. Shape("unlink", y)
    BY <2>1, RecordAssumption DEF Shape, Blank, OpsAt
  <2>4. QED
    BY <1>0, <2>1, <2>2, <2>3 DEF Moves
<1>3. ASSUME NEW n \in Names, NEW wt \in BOOLEAN, StartSession(c, n, wt) PROVE Moves(c)
  <2> DEFINE k == <<n, Main>>
             t == IF wt THEN n ELSE Main
             h == IF wt THEN "owner" ELSE "none"
             to == IF wt THEN "tree" ELSE "probe"
             y == [Blank EXCEPT !.op = "start", !.key = k, !.wkey = k, !.tree = t, !.hold = h]
  <2>1. Go(c, y, to)
    BY <1>3 DEF StartSession, Begin
  <2>2. k \in Keys /\ t \in Roots /\ h \in {"none", "owner"} /\ to \in {"tree", "probe"}
    BY DEF Keys, Roots
  <2> HIDE DEF k, t, h, to
  <2>3. y \in Locals
    BY <2>2 DEF Blank, Locals
  <2>4. Shape(to, y)
    BY <2>2, RecordAssumption DEF Shape, Blank, OpsAt
  <2>5. QED
    BY <1>0, <2>1, <2>2, <2>3, <2>4 DEF Moves
<1>4. ASSUME NEW n \in Names, NEW par \in Keys, NEW auto \in BOOLEAN, ResumeSession(c, par, n, auto)
      PROVE  Moves(c)
  <2> DEFINE k == <<n, par[2]>>
             y == [Blank EXCEPT !.op = "resume", !.key = k, !.wkey = k, !.par = par,
                                !.at = par, !.ret = "parent", !.auto = auto]
  <2>1. Go(c, y, "get")
    BY <1>4 DEF ResumeSession, Begin
  <2>2. k \in Keys
    BY KeyParts DEF Keys
  <2> HIDE DEF k
  <2>3. y \in Locals
    BY <2>2 DEF Blank, Locals, Roots
  <2>4. Shape("get", y)
    BY <2>2, RecordAssumption DEF Shape, Blank, OpsAt
  <2>5. QED
    BY <1>0, <2>1, <2>3, <2>4 DEF Moves
<1>5. ASSUME NEW n \in Names, NEW par \in Keys, RelaunchSession(c, par, n) PROVE Moves(c)
  <2> DEFINE k == <<n, par[2]>>
             y == [Blank EXCEPT !.op = "relaunch", !.key = k, !.wkey = k, !.par = par,
                                !.at = par, !.ret = "parent"]
  <2>1. Go(c, y, "get")
    BY <1>5 DEF RelaunchSession, Begin
  <2>2. k \in Keys
    BY KeyParts DEF Keys
  <2> HIDE DEF k
  <2>3. y \in Locals
    BY <2>2 DEF Blank, Locals, Roots
  <2>4. Shape("get", y)
    BY <2>2, RecordAssumption DEF Shape, Blank, OpsAt
  <2>5. QED
    BY <1>0, <2>1, <2>3, <2>4 DEF Moves
<1>6. ASSUME NEW n \in Names, NEW par \in Keys, NEW mode \in Modes, NEW force \in BOOLEAN,
             NEW t \in ForkRoots(par, n, mode), ForkSession(c, par, n, mode, t, force)
      PROVE  Moves(c)
  <2> DEFINE k == <<n, t>>
             h == CASE mode = "same" -> "none" [] mode = "worktree" -> "owner" [] OTHER -> "guest"
             y == [Blank EXCEPT !.op = "fork", !.mode = mode, !.key = k, !.wkey = k, !.par = par,
                                !.at = par, !.ret = "parent", !.tree = t, !.force = force, !.hold = h]
  <2>1. Go(c, y, "get")
    BY <1>6 DEF ForkSession, Begin
  <2>2. t \in Roots
    BY KeyParts DEF ForkRoots, TypeOK, Roots
  <2>3. k \in Keys /\ h \in {"none", "owner", "guest"} /\ mode \in {"same", "worktree", "into"}
    BY <2>2, SessionLifecycleAssumption DEF Keys
  <2> HIDE DEF k, h
  <2>4. y \in Locals
    BY <2>2, <2>3 DEF Blank, Locals
  <2>5. Shape("get", y)
    BY <2>3, RecordAssumption DEF Shape, Blank, OpsAt
  <2>6. QED
    BY <1>0, <2>1, <2>4, <2>5 DEF Moves
<1>7. ASSUME NEW k \in Keys, NEW keep \in BOOLEAN, NEW force \in BOOLEAN, DeleteSession(c, k, keep, force)
      PROVE  Moves(c)
  <2> DEFINE y == [Blank EXCEPT !.op = "delete", !.key = k, !.wkey = k, !.at = k,
                                !.ret = "examine", !.keep = keep, !.force = force]
  <2>1. Go(c, y, "get")
    BY <1>7 DEF DeleteSession, Begin
  <2>2. y \in Locals
    BY DEF Blank, Locals, Roots
  <2>3. Shape("get", y)
    BY RecordAssumption DEF Shape, Blank, OpsAt
  <2>4. QED
    BY <1>0, <2>1, <2>2, <2>3 DEF Moves
<1>8. QED
  BY <1>1, <1>2, <1>3, <1>4, <1>5, <1>6, <1>7 DEF BeginCall

\* Every step moves a call or none.
LEMMA EveryMove == ASSUME Inv, NEW c \in Calls, BeginCall(c) \/ Step(c) \/ Crash(c)
                   PROVE  Moves(c) \/ UNCHANGED <<pc, loc>>
  BY LookupMoves, PlainMoves, LearningMoves, BeginMoves DEF Inv, Step

-----------------------------------------------------------------------------
(* What is on disk.                                                        *)

Disk ==
    /\ manifest \in [Keys -> Manifest \cup {None}] /\ index \in [Keys -> Entry \cup {None}]
    /\ dirs \subseteq Names /\ uncommitted \subseteq dirs \X Kinds /\ active \subseteq Keys
    /\ faults \in Nat /\ crashes \in Nat

\* The disk and the calls are the state.
LEMMA DiskIsTyped == PlacesOK => (Disk <=> TypeOK /\ WorkIsThere)
<1>1. ASSUME PlacesOK PROVE DOMAIN pc = Calls /\ DOMAIN loc = Calls
                            /\ \A c \in Calls : loc[c].tree \in Roots /\ loc[c].stale \subseteq Keys
  <2>1. \A c \in Calls : loc[c] \in Locals
    BY <1>1 DEF PlacesOK
  <2>2. \A x \in Locals : x.tree \in Roots /\ x.stale \subseteq Keys
    BY DEF Locals
  <2>3. QED
    BY <1>1, <2>1, <2>2 DEF PlacesOK
<1>2. QED
  BY <1>1 DEF Disk, TypeOK, WorkIsThere

\* One that fails counts.
LEMMA FaultTyped == ASSUME Disk, Fault \/ UNCHANGED bounds PROVE faults' \in Nat /\ crashes' \in Nat
<1>1. CASE Fault
  BY <1>1 DEF Disk, Fault
<1>2. CASE UNCHANGED bounds
  BY <1>2 DEF Disk, bounds
<1>3. QED
  BY <1>1, <1>2

\* A worktree goes with what is in it.
LEMMA RemoveTreeTyped ==
  ASSUME Disk, NEW t \in Roots, RemoveTree(t)
  PROVE  manifest' \in [Keys -> Manifest \cup {None}] /\ dirs' \subseteq Names /\ uncommitted' \subseteq dirs' \X Kinds
<1>1. manifest' \in [Keys -> Manifest \cup {None}]
  BY DEF Disk, RemoveTree
<1>2. dirs' \subseteq Names
  BY DEF Disk, RemoveTree
<1>3. uncommitted' \subseteq dirs' \X Kinds
  <2>1. \A u \in dirs \X Kinds : u[1] \in dirs /\ u[2] \in Kinds /\ u = <<u[1], u[2]>>
    OBVIOUS
  <2>2. \A u \in uncommitted : u \in {t} \X Kinds \/ u \in dirs' \X Kinds
    BY <2>1 DEF Disk, RemoveTree
  <2>3. QED
    BY <2>2 DEF RemoveTree
<1>4. QED
  BY <1>1, <1>2, <1>3

\* A manifest is written into its directory.
LEMMA SetManifestTyped ==
  ASSUME Disk, NEW k \in Keys, NEW m \in Manifest, SetManifest(k, m)
  PROVE  manifest' \in [Keys -> Manifest \cup {None}] /\ dirs' \subseteq Names /\ dirs \subseteq dirs'
<1>1. k[2] \in Roots
  BY KeyParts
<1>2. QED
  BY <1>1 DEF Disk, SetManifest, Roots

\* Beginning a call writes no file.
LEMMA BeginWrites == ASSUME NEW c \in Calls, BeginCall(c) PROVE UNCHANGED <<disk, bounds>>
<1>1. CASE ListSessions(c) \/ \E n \in Names : DeleteOrphan(c, n)
  BY <1>1 DEF ListSessions, DeleteOrphan
<1>2. CASE \E n \in Names, wt \in BOOLEAN : StartSession(c, n, wt)
  BY <1>2 DEF StartSession
<1>3. CASE \E n \in Names, par \in Keys, auto \in BOOLEAN : ResumeSession(c, par, n, auto)
  BY <1>3 DEF ResumeSession
<1>4. CASE \E n \in Names, par \in Keys : RelaunchSession(c, par, n)
  BY <1>4 DEF RelaunchSession
<1>5. CASE \E n \in Names, par \in Keys, mode \in Modes, force \in BOOLEAN :
              \E t \in ForkRoots(par, n, mode) : ForkSession(c, par, n, mode, t, force)
  BY <1>5 DEF ForkSession
<1>6. CASE \E k \in Keys, keep, force \in BOOLEAN : DeleteSession(c, k, keep, force)
  BY <1>6 DEF DeleteSession
<1>7. QED
  BY <1>1, <1>2, <1>3, <1>4, <1>5, <1>6 DEF BeginCall

\* The steps that write no file.
LEMMA QuietSteps ==
  ASSUME Disk, NEW c \in Calls,
         \/ Lookup(c) \/ Stat(c) \/ ProbeManifest(c) \/ ReadParent(c) \/ GenerateResumeName(c)
         \/ CheckNameFree(c) \/ JudgeTarget(c) \/ SwapTarget(c) \/ Crash(c) \/ BeginCall(c)
  PROVE  Disk'
<1>1. CASE Lookup(c) \/ Stat(c) \/ ProbeManifest(c) \/ ReadParent(c)
  BY <1>1 DEF Lookup, Stat, ProbeManifest, ReadParent, bounds, disk, Disk
<1>2. CASE GenerateResumeName(c) \/ CheckNameFree(c) \/ JudgeTarget(c) \/ SwapTarget(c)
  BY <1>2 DEF GenerateResumeName, CheckNameFree, JudgeTarget, SwapTarget, bounds, disk, Disk
<1>3. CASE Crash(c)
  BY <1>3 DEF Crash, disk, Disk
<1>4. CASE BeginCall(c)
  <2>1. UNCHANGED <<disk, bounds>>
    BY <1>4, BeginWrites
  <2>2. QED
    BY <2>1 DEF bounds, disk, Disk
<1>5. QED
  BY <1>1, <1>2, <1>3, <1>4

\* The steps that write the index or the registry of live sessions.
LEMMA IndexSteps ==
  ASSUME Disk, PlacesOK, NEW c \in Calls,
         \/ Prune(c) \/ PruneList(c) \/ AddToIndex(c) \/ RestoreEntry(c) \/ Examine(c)
         \/ RemoveFromIndex(c) \/ ClearActive(c)
  PROVE  Disk'
<1> DEFINE l == loc[c]
<1>0. l \in Locals /\ Shape(pc[c], l)
  BY DEF PlacesOK
<1>1. UNCHANGED <<manifest, dirs, uncommitted>>
  BY DEF Prune, PruneList, AddToIndex, RestoreEntry, Examine, RemoveFromIndex, ClearActive
<1>2. Fault \/ UNCHANGED bounds
  BY DEF Prune, PruneList, AddToIndex, RestoreEntry, Examine, RemoveFromIndex, ClearActive
<1>3. active' \subseteq Keys
  BY DEF Disk, Prune, PruneList, AddToIndex, RestoreEntry, Examine, RemoveFromIndex, ClearActive
<1> HIDE DEF l
<1>4. index' \in [Keys -> Entry \cup {None}]
  <2>1. CASE Prune(c) \/ RemoveFromIndex(c)
    <3>1. UNCHANGED index \/ \E k : index' = [index EXCEPT ![k] = None]
      BY <2>1 DEF Prune, RemoveFromIndex
    <3>2. QED
      BY <3>1 DEF Disk
  <2>2. CASE PruneList(c)
    BY <2>2 DEF Disk, PruneList
  <2>3. CASE Examine(c)
    <3>1. \A k \in Keys : index'[k] \in Entry \cup {None}
      BY <2>3 DEF Disk, Examine
    <3>2. index' = [k \in Keys |-> index'[k]]
      BY <2>3 DEF Examine
    <3>3. QED
      BY <3>1, <3>2
  <2>4. CASE ClearActive(c)
    BY <2>4 DEF Disk, ClearActive
  <2>5. CASE AddToIndex(c)
    <3>1. [by |-> c, tree |-> l.tree] \in Entry
      BY <1>0 DEF Entry, Locals
    <3>2. UNCHANGED index \/ index' = [index EXCEPT ![l.wkey] = [by |-> c, tree |-> l.tree]]
      BY <2>5 DEF AddToIndex, l
    <3>3. QED
      BY <3>1, <3>2 DEF Disk
  <2>6. CASE RestoreEntry(c)
    <3>1. l.old \in Manifest
      <4>1. pc[c] = "restoreEntry"
        BY <2>6 DEF RestoreEntry
      <4>2. QED
        BY <1>0, <4>1 DEF Shape, Working, Points, Ended, Locals
    <3>2. [by |-> l.old.by, tree |-> l.old.tree] \in Entry
      BY <3>1 DEF Manifest, Entry
    <3>3. UNCHANGED index \/ index' = [index EXCEPT ![l.key] = [by |-> l.old.by, tree |-> l.old.tree]]
      BY <2>6 DEF RestoreEntry, l
    <3>4. QED
      BY <3>2, <3>3 DEF Disk
  <2>7. QED
    BY <2>1, <2>2, <2>3, <2>4, <2>5, <2>6
<1>5. faults' \in Nat /\ crashes' \in Nat
  BY <1>2, FaultTyped
<1>6. QED
  BY <1>1, <1>3, <1>4, <1>5 DEF Disk

\* The steps that write or remove a manifest.
LEMMA ManifestSteps ==
  ASSUME Disk, PlacesOK, NEW c \in Calls,
         ClearStale(c) \/ ResumeCollides(c) \/ UndoManifest(c) \/ UnlinkManifest(c)
  PROVE  Disk'
<1>1. UNCHANGED manifest \/ manifest' = [manifest EXCEPT ![loc[c].wkey] = None]
  BY DEF ClearStale, ResumeCollides, UndoManifest, UnlinkManifest
<1>2. UNCHANGED <<index, dirs, uncommitted>> /\ active' \subseteq active
  BY DEF ClearStale, ResumeCollides, UndoManifest, UnlinkManifest
<1>3. Fault \/ UNCHANGED bounds
  BY DEF ClearStale, ResumeCollides, UndoManifest, UnlinkManifest
<1>4. manifest' \in [Keys -> Manifest \cup {None}]
  BY <1>1 DEF Disk
<1>5. faults' \in Nat /\ crashes' \in Nat
  BY <1>3, FaultTyped
<1>6. QED
  BY <1>2, <1>4, <1>5 DEF Disk

\* The steps that write a manifest where its directory may be gone, and those that make or
\* remove a worktree.
LEMMA TreeSteps ==
  ASSUME Disk, PlacesOK, NEW c \in Calls,
         WriteManifest(c) \/ RestoreTarget(c) \/ CreateWorktree(c) \/ UndoWorktree(c) \/ CleanupWorktree(c) \/ RetryCleanup(c)
  PROVE  Disk'
<1> DEFINE l == loc[c]
<1>0. l \in Locals /\ Shape(pc[c], l)
      /\ pc[c] \in Working
  BY DEF PlacesOK, WriteManifest, RestoreTarget, CreateWorktree, UndoWorktree, CleanupWorktree, RetryCleanup, TryRemove,
     Working, Points, Ended
<1>1. l.key \in Keys /\ l.wkey \in Keys /\ l.tree \in Roots /\ l.key[1] \in Names
  <2>1. l.key \in Keys /\ l.wkey \in Keys /\ l.tree \in Roots
    BY <1>0 DEF Shape, Locals
  <2>2. QED
    BY <2>1, KeyParts
<1>2. UNCHANGED <<index, active>>
  BY DEF WriteManifest, RestoreTarget, CreateWorktree, UndoWorktree, CleanupWorktree, RetryCleanup, TryRemove
<1>3. Fault \/ UNCHANGED bounds
  BY DEF WriteManifest, RestoreTarget, CreateWorktree, UndoWorktree, CleanupWorktree, RetryCleanup, TryRemove
<1>4. faults' \in Nat /\ crashes' \in Nat
  BY <1>3, FaultTyped
<1> HIDE DEF l
<1>5. manifest' \in [Keys -> Manifest \cup {None}] /\ dirs' \subseteq Names /\ uncommitted' \subseteq dirs' \X Kinds
  <2>1. CASE UNCHANGED <<manifest, dirs, uncommitted>>
    BY <2>1 DEF Disk
  <2>2. CASE \E t \in Roots : RemoveTree(t)
    BY <2>2, RemoveTreeTyped
  <2>3. CASE UNCHANGED uncommitted /\ \E k \in Keys, m \in Manifest : SetManifest(k, m)
    <3>1. PICK k \in Keys, m \in Manifest : SetManifest(k, m)
      BY <2>3
    <3>2. QED
      BY <2>3, <3>1, SetManifestTyped DEF Disk
  <2>4. CASE /\ UNCHANGED manifest
             /\ \E n \in Names : /\ dirs' = dirs \cup {n}
                                /\ uncommitted' = uncommitted \cup ({n} \X CopiedConfig)
    <3>1. CopiedConfig \subseteq Kinds
      BY SessionLifecycleAssumption DEF Kinds
    <3>2. QED
      BY <2>4, <3>1 DEF Disk
  <2>5. CASE WriteManifest(c)
    <3> DEFINE m == [by |-> c, parent |-> IF l.par = None THEN None ELSE l.par[1],
                     fork |-> l.op \in {"fork", "relaunch"}, tree |-> l.tree, hold |-> l.hold]
    <3>1. m \in Manifest
      <4>1. (IF l.par = None THEN None ELSE l.par[1]) \in Names \cup {None}
        <5>1. l.par \in Keys \cup {None}
          BY <1>0 DEF Locals
        <5>2. QED
          BY <5>1, KeyParts
      <4>2. l.hold \in {"none", "owner", "guest"} /\ (l.op \in {"fork", "relaunch"}) \in BOOLEAN
        BY <1>0 DEF Locals
      <4>3. QED
        BY <1>1, <4>1, <4>2 DEF Manifest
    <3>2. UNCHANGED uncommitted /\ (SetManifest(l.wkey, m) \/ UNCHANGED <<manifest, dirs>>)
      BY <2>5 DEF WriteManifest, l
    <3>3. QED
      BY <1>1, <2>1, <2>3, <3>1, <3>2
  <2>6. CASE RestoreTarget(c)
    <3>1. pc[c] = "restore"
      BY <2>6 DEF RestoreTarget
    <3>2. l.old \in Manifest
      BY <1>0, <3>1 DEF Shape, Locals
    <3>3. UNCHANGED uncommitted /\ (SetManifest(l.key, l.old) \/ UNCHANGED <<manifest, dirs>>)
      BY <2>6 DEF RestoreTarget, l
    <3>4. QED
      BY <1>1, <2>1, <2>3, <3>2, <3>3
  <2>7. CASE CreateWorktree(c)
    <3>1. \/ RemoveTree(l.key[1])
          \/ UNCHANGED <<manifest, dirs, uncommitted>>
          \/ /\ UNCHANGED manifest /\ dirs' = dirs \cup {l.key[1]}
             /\ uncommitted' = uncommitted \cup ({l.key[1]} \X CopiedConfig)
      BY <2>7 DEF CreateWorktree, l
    <3>2. QED
      BY <1>1, <2>1, <2>2, <2>4, <3>1 DEF Roots
  <2>8. CASE UndoWorktree(c) \/ CleanupWorktree(c) \/ RetryCleanup(c)
    <3>1. \/ RemoveTree(l.tree) \/ UNCHANGED <<manifest, dirs, uncommitted>>
          \/ UNCHANGED <<manifest, dirs>> /\ uncommitted' \subseteq uncommitted
      BY <2>8 DEF UndoWorktree, CleanupWorktree, RetryCleanup, TryRemove, l
    <3>2. CASE UNCHANGED <<manifest, dirs>> /\ uncommitted' \subseteq uncommitted
      BY <3>2 DEF Disk
    <3>3. QED
      BY <1>1, <2>1, <2>2, <3>1, <3>2
  <2>9. QED
    BY <2>5, <2>6, <2>7, <2>8
<1>6. QED
  BY <1>2, <1>4, <1>5 DEF Disk

-----------------------------------------------------------------------------
(* Invariance, for any number of calls at once.                            *)

\* Nothing has begun: the sessions that exist have their manifests and entries.
LEMMA InitInv == Init => Inv
<1> SUFFICES ASSUME Init PROVE Inv
  OBVIOUS
<1>1. \A k \in DOMAIN Existing : k \in Keys /\ Existing[k] \in Manifest /\ Existing[k].tree \in Roots
  BY ExistingAssumption DEF Manifest
<1>2. PlacesOK
  <2>1. pc \in [Calls -> Points] /\ loc \in [Calls -> Locals]
    BY BlankTyped DEF Init, Points
  <2>2. \A c \in Calls : pc[c] = "idle"
    BY DEF Init
  <2>3. QED
    BY <2>1, <2>2 DEF PlacesOK, Shape, Working
<1>3. Disk
  <2>1. manifest \in [Keys -> Manifest \cup {None}]
    BY <1>1 DEF Init
  <2>2. index \in [Keys -> Entry \cup {None}]
    BY <1>1 DEF Init, Entry
  <2>3. dirs \subseteq Names
    BY <1>1 DEF Init, Roots
  <2>4. uncommitted \subseteq dirs \X Kinds
    BY SessionLifecycleAssumption DEF Init, Kinds
  <2>5. active \subseteq Keys /\ faults \in Nat /\ crashes \in Nat
    BY ExistingAssumption DEF Init
  <2>6. QED
    BY <2>1, <2>2, <2>3, <2>4, <2>5 DEF Disk
<1>4. QED
  BY <1>2, <1>3, DiskIsTyped DEF Inv

\* One step of anyone.
LEMMA InvStep == Inv /\ [Next]_vars => Inv'
<1> SUFFICES ASSUME Inv, [Next]_vars PROVE Inv'
  OBVIOUS
<1>0. PlacesOK /\ Disk
  BY DiskIsTyped DEF Inv
<1>1. ASSUME NEW c \in Calls, BeginCall(c) \/ Step(c) \/ Crash(c) PROVE Inv'
  <2>1. PlacesOK'
    <3>1. CASE Moves(c)
      BY <1>0, <3>1, MovesPlaces
    <3>2. CASE UNCHANGED <<pc, loc>>
      BY <1>0, <3>2 DEF PlacesOK
    <3>3. QED
      BY <1>1, <3>1, <3>2, EveryMove
  <2>2. Disk'
    BY <1>0, <1>1, QuietSteps, IndexSteps, ManifestSteps, TreeSteps DEF Step
  <2>3. (TypeOK /\ WorkIsThere)'
    BY <2>1, <2>2 DEF Disk, TypeOK, WorkIsThere, PlacesOK, Locals
  <2>4. QED
    BY <2>1, <2>3 DEF Inv
<1>2. ASSUME NEW t \in Names, NEW kind \in Kinds, Edit(t, kind) PROVE Inv'
  <2>1. /\ UNCHANGED <<manifest, index, dirs, active, pc, loc, faults, crashes>>
        /\ uncommitted' \subseteq dirs \X Kinds
    BY <1>2 DEF Edit, bounds, Inv, WorkIsThere
  <2>2. QED
    BY <2>1 DEF Inv, TypeOK, PlacesOK, WorkIsThere
<1>3. CASE UNCHANGED vars
  BY <1>3 DEF vars, disk, bounds, Inv, TypeOK, PlacesOK, WorkIsThere
<1>4. QED
  BY <1>1, <1>2, <1>3 DEF Next

\* However calls interleave, fail and die, the files keep their shape, every call is where
\* its operation can be, and uncommitted work is in a worktree that exists.
THEOREM Invariance == Spec => []Inv
<1>1. QED
  BY InitInv, InvStep, PTL DEF Spec

-----------------------------------------------------------------------------
(* What may go.                                                            *)

\* A step that takes an entry out of the index is one of those that prune, and of a stale entry,
\* or the removal of a delete.
LEMMA IndexLoss ==
  ASSUME Inv, NEW c \in Calls, BeginCall(c) \/ Step(c) \/ Crash(c),
         NEW k \in Keys, index[k] # None, index'[k] = None
  PROVE  Stale(k) \/ (pc[c] = "remove" /\ loc[c].wkey = k /\ pc'[c] = "unlink")
<1> DEFINE l == loc[c]
<1>0. /\ index \in [Keys -> Entry \cup {None}] /\ l \in Locals /\ Shape(pc[c], l)
      /\ pc \in [Calls -> Points]
  BY DEF Inv, TypeOK, PlacesOK
<1>1. index' # index
  OBVIOUS
<1>2. ASSUME NEW x, NEW e \in Entry, index' = [index EXCEPT ![x] = e] PROVE FALSE
  BY <1>0, <1>2, RecordAssumption
<1> HIDE DEF l
<1>3. CASE BeginCall(c) \/ Crash(c) \/ Lookup(c) \/ Stat(c) \/ ProbeManifest(c) \/ ReadParent(c)
             \/ GenerateResumeName(c) \/ CheckNameFree(c) \/ JudgeTarget(c) \/ SwapTarget(c)
  <2>1. CASE Lookup(c) \/ Stat(c) \/ ProbeManifest(c) \/ ReadParent(c)
    BY <1>1, <2>1 DEF Lookup, Stat, ProbeManifest, ReadParent, disk
  <2>2. CASE GenerateResumeName(c) \/ CheckNameFree(c) \/ JudgeTarget(c) \/ SwapTarget(c) \/ Crash(c)
    BY <1>1, <2>2 DEF GenerateResumeName, CheckNameFree, JudgeTarget, SwapTarget, Crash, disk
  <2>3. CASE BeginCall(c)
    BY <1>1, <2>3, BeginWrites DEF disk
  <2>4. QED
    BY <1>3, <2>1, <2>2, <2>3
<1>4. CASE ClearStale(c) \/ ResumeCollides(c) \/ UndoManifest(c) \/ UnlinkManifest(c) \/ ClearActive(c)
  BY <1>1, <1>4 DEF ClearStale, ResumeCollides, UndoManifest, UnlinkManifest, ClearActive
<1>5. CASE WriteManifest(c) \/ RestoreTarget(c) \/ CreateWorktree(c) \/ UndoWorktree(c) \/ CleanupWorktree(c) \/ RetryCleanup(c)
  BY <1>1, <1>5 DEF WriteManifest, RestoreTarget, CreateWorktree, UndoWorktree, CleanupWorktree, RetryCleanup, TryRemove
<1>6. CASE Prune(c)
  <2>1. k = l.at /\ (index[l.at] = None \/ manifest[l.at] = None)
    BY <1>0, <1>1, <1>6 DEF Prune, l
  <2>2. QED
    BY <2>1 DEF Stale
<1>7. CASE PruneList(c)
  BY <1>7 DEF PruneList
<1>8. CASE Examine(c)
  BY <1>8 DEF Examine
<1>9. CASE AddToIndex(c)
  <2>1. index' = [index EXCEPT ![l.wkey] = [by |-> c, tree |-> l.tree]]
    BY <1>1, <1>9 DEF AddToIndex, l
  <2>2. [by |-> c, tree |-> l.tree] \in Entry
    BY <1>0 DEF Entry, Locals
  <2>3. QED
    BY <1>2, <2>1, <2>2
<1>10. CASE RestoreEntry(c)
  <2>1. index' = [index EXCEPT ![l.key] = [by |-> l.old.by, tree |-> l.old.tree]] /\ pc[c] = "restoreEntry"
    BY <1>1, <1>10 DEF RestoreEntry, l
  <2>2. l.old \in Manifest
    BY <1>0, <2>1 DEF Shape, Working, Points, Ended, Locals
  <2>3. [by |-> l.old.by, tree |-> l.old.tree] \in Entry
    BY <2>2 DEF Entry, Manifest
  <2>4. QED
    BY <1>2, <2>1, <2>3
<1>11. CASE RemoveFromIndex(c)
  <2>1. /\ pc[c] = "remove" /\ index' = [index EXCEPT ![l.wkey] = None] /\ Goto(c, "unlink")
    BY <1>1, <1>11 DEF RemoveFromIndex, l
  <2>2. k = l.wkey /\ pc'[c] = "unlink"
    BY <1>0, <2>1 DEF Goto, Go
  <2>3. QED
    BY <2>1, <2>2 DEF l
<1>12. QED
  BY <1>3, <1>4, <1>5, <1>6, <1>7, <1>8, <1>9, <1>10, <1>11 DEF Step

\* PruneOnlyStale for any number of calls at once: what get_session and list_sessions drop is
\* stale at that moment; every other entry goes with a delete.
THEOREM OnlyStaleIsPruned == Spec => PruneOnlyStale
<1>1. Inv /\ [Next]_vars =>
        [\A k \in Keys : index[k] # None /\ index'[k] = None =>
           \/ Stale(k)
           \/ \E c \in Calls : pc[c] = "remove" /\ loc[c].wkey = k /\ pc'[c] = "unlink"]_vars
  <2> SUFFICES ASSUME Inv, Next, NEW k \in Keys, index[k] # None, index'[k] = None
               PROVE  \/ Stale(k)
                      \/ \E c \in Calls : pc[c] = "remove" /\ loc[c].wkey = k /\ pc'[c] = "unlink"
    OBVIOUS
  <2>1. CASE \E t \in Names, kind \in Kinds : Edit(t, kind)
    BY <2>1 DEF Edit
  <2>2. CASE \E c \in Calls : BeginCall(c) \/ Step(c) \/ Crash(c)
    BY <2>2, IndexLoss
  <2>3. QED
    BY <2>1, <2>2 DEF Next
<1>2. QED
  BY <1>1, Invariance, PTL DEF Spec, PruneOnlyStale

\* The work of worktree t stays, and so do its configuration files, unless they go with
\* it or git has refused to remove it.
Spares(c, t) ==
    /\ <<t, "work">> \in uncommitted => t \in dirs' /\ <<t, "work">> \in uncommitted'
    /\ \A kind \in ConfigFiles :
          <<t, kind>> \in uncommitted /\ <<t, kind>> \notin uncommitted' =>
          t \notin dirs' \/ (pc[c] = "cleanup" /\ pc'[c] = "retry" /\ IsDirty(t))

\* Nothing goes in a step that takes neither a worktree nor a file of one.
LEMMA NothingGoes ==
  ASSUME Inv, NEW c, NEW t, dirs \subseteq dirs', uncommitted \subseteq uncommitted' PROVE Spares(c, t)
  BY DEF Spares, Inv, WorkIsThere

\* A removal that git does not refuse finds no work in the worktree.
LEMMA RemovalSpares ==
  ASSUME Inv, NEW c \in Calls, NEW t, ~Refused(c), ~loc[c].force, RemoveTree(loc[c].tree)
  PROVE  Spares(c, t)
<1>1. <<loc[c].tree, "work">> \notin uncommitted
  BY DEF Refused, IsDirty, Kinds
<1>2. CASE t = loc[c].tree
  <2>1. t \notin dirs'
    BY <1>2 DEF RemoveTree
  <2>2. QED
    BY <1>1, <1>2, <2>1 DEF Spares
<1>3. CASE t # loc[c].tree
  <2>1. \A kind : <<t, kind>> \notin {loc[c].tree} \X Kinds
    BY <1>3
  <2>2. \A kind : <<t, kind>> \in uncommitted => <<t, kind>> \in uncommitted' /\ t \in dirs
    BY <2>1 DEF RemoveTree, Inv, WorkIsThere
  <2>3. QED
    BY <1>3, <2>2 DEF RemoveTree, Spares
<1>4. QED
  BY <1>2, <1>3

\* A worktree that git refuses to remove loses configuration files only.
LEMMA RefusalSpares ==
  ASSUME Inv, NEW c \in Calls, NEW t, Refused(c), UNCHANGED dirs,
         uncommitted' = uncommitted \ ({loc[c].tree} \X ConfigFiles),
         pc[c] = "cleanup", Goto(c, "retry")
  PROVE  Spares(c, t)
<1>1. pc'[c] = "retry" /\ IsDirty(loc[c].tree)
  BY DEF Goto, Go, Inv, PlacesOK, Refused
<1>2. "work" \notin ConfigFiles
  BY DEF ConfigFiles
<1>3. <<t, "work">> \in uncommitted => t \in dirs' /\ <<t, "work">> \in uncommitted'
  BY <1>2 DEF Inv, WorkIsThere
<1>4. ASSUME NEW kind \in ConfigFiles, <<t, kind>> \in uncommitted, <<t, kind>> \notin uncommitted'
      PROVE  t = loc[c].tree
  BY <1>4
<1>5. QED
  BY <1>1, <1>3, <1>4 DEF Spares

\* A step of a delete without --force takes no uncommitted work.
LEMMA DeleteSpares ==
  ASSUME Inv, NEW c \in Calls, BeginCall(c) \/ Step(c) \/ Crash(c), loc[c].op = "delete",
         ~loc[c].force, NEW t
  PROVE  Spares(c, t)
<1> DEFINE l == loc[c]
<1>0. dirs \subseteq Names /\ l \in Locals /\ Shape(pc[c], l)
  BY DEF Inv, TypeOK, PlacesOK
<1>1. CASE dirs \subseteq dirs' /\ uncommitted \subseteq uncommitted'
  BY <1>1, NothingGoes
<1> HIDE DEF l
<1>2. CASE BeginCall(c)
  BY <1>1, <1>2, BeginWrites DEF disk
<1>3. CASE Lookup(c) \/ Stat(c) \/ ProbeManifest(c) \/ ReadParent(c)
  BY <1>1, <1>3 DEF Lookup, Stat, ProbeManifest, ReadParent, disk
<1>4. CASE GenerateResumeName(c) \/ CheckNameFree(c) \/ JudgeTarget(c) \/ SwapTarget(c) \/ Crash(c)
  BY <1>1, <1>4 DEF GenerateResumeName, CheckNameFree, JudgeTarget, SwapTarget, Crash, disk
<1>5. CASE ClearStale(c) \/ ResumeCollides(c) \/ UndoManifest(c) \/ UnlinkManifest(c) \/ ClearActive(c)
  BY <1>1, <1>5 DEF ClearStale, ResumeCollides, UndoManifest, UnlinkManifest, ClearActive
<1>6. CASE Prune(c) \/ PruneList(c) \/ Examine(c) \/ AddToIndex(c) \/ RestoreEntry(c) \/ RemoveFromIndex(c)
  BY <1>1, <1>6 DEF Prune, PruneList, Examine, AddToIndex, RestoreEntry, RemoveFromIndex
<1>7. CASE WriteManifest(c) \/ RestoreTarget(c)
  BY <1>1, <1>7 DEF WriteManifest, RestoreTarget, SetManifest
<1>8. CASE CreateWorktree(c) \/ UndoWorktree(c)
  <2>1. pc[c] = "tree" \/ pc[c] = "undoTree"
    BY <1>8 DEF CreateWorktree, UndoWorktree
  <2>2. l.op \in {"start", "fork"}
    BY <1>0, <2>1 DEF Shape, Working, Points, Ended, OpsAt
  <2>3. QED
    BY <2>2 DEF l
<1>9. CASE TryRemove(c)
  BY <1>1, <1>9, RemovalSpares DEF TryRemove
<1>10. CASE CleanupWorktree(c)
  <2>1. CASE UNCHANGED <<dirs, uncommitted>>
    BY <1>1, <2>1
  <2>2. QED
    BY <1>9, <1>10, <2>1, RefusalSpares DEF CleanupWorktree
<1>11. CASE RetryCleanup(c)
  BY <1>1, <1>9, <1>11 DEF RetryCleanup
<1>12. QED
  BY <1>2, <1>3, <1>4, <1>5, <1>6, <1>7, <1>8, <1>10, <1>11 DEF Step

\* DirtyNeverLost for any number of calls at once: whatever a delete without --force saw when
\* it looked, the work that is uncommitted when it removes the worktree keeps it, and only a
\* refusal of git costs configuration files of a worktree that stays.
THEOREM WorkIsKept == Spec => DirtyNeverLost
<1>1. Inv /\ [Next]_vars =>
        [\A c \in Calls, t \in Names :
            loc[c].op = "delete" /\ ~loc[c].force /\ pc'[c] # pc[c] => Spares(c, t)]_vars
  <2> SUFFICES ASSUME Inv, Next, NEW c \in Calls, NEW t \in Names, loc[c].op = "delete",
                      ~loc[c].force, pc'[c] # pc[c]
               PROVE  Spares(c, t)
    OBVIOUS
  <2>1. CASE \E u \in Names, kind \in Kinds : Edit(u, kind)
    BY <2>1 DEF Edit
  <2>2. ASSUME NEW d \in Calls, BeginCall(d) \/ Step(d) \/ Crash(d) PROVE Spares(c, t)
    <3>1. d = c
      <4>1. Moves(d) \/ UNCHANGED <<pc, loc>>
        BY <2>2, EveryMove
      <4>2. CASE Moves(d)
        BY <4>2, GoStep DEF Moves, Inv
      <4>3. QED
        BY <4>1, <4>2
    <3>2. QED
      BY <2>2, <3>1, DeleteSpares
  <2>3. QED
    BY <2>1, <2>2 DEF Next
<1>2. QED
  BY <1>1, Invariance, PTL DEF Spec, DirtyNeverLost, Spares

-----------------------------------------------------------------------------
(* Who wins a name.                                                        *)

\* A creation that replaces nothing.
Simple(l) == l.op \in Creators /\ ~l.force

Replacing == {"swap", "stale", "remove", "unlink", "clear", "restore", "restoreEntry", "pruneList"}

\* It never turns to what stands where it writes.
Fresh(w, l) == Simple(l) => w \notin Replacing /\ l.old = None /\ l.ret # "remove"

Freshness == \A c \in Calls : Fresh(pc[c], loc[c])

\* Before a creation writes.
Early == {"idle", "get", "stat", "prune", "parent", "name", "exists", "judge", "tree", "probe"}

Settled == {"add", "done"}

\* c and d are the only calls so far, and each creates without --force if it does anything.
Duel(c, d) ==
    /\ \A e \in Calls \ {c, d} : pc[e] = "idle"
    /\ \A e \in {c, d} : pc[e] # "idle" => Simple(loc[e])

\* The entry of a creation that is done is its own; its manifest is there as long as the
\* other might still find the entry stale.
Stands(c, d) ==
    /\ pc[c] = "done" => index[loc[c].wkey] # None /\ index[loc[c].wkey].by = c
    /\ pc[c] \in Settled => /\ loc[c].wkey \in Keys
                            /\ pc[d] \in Early => manifest[loc[c].wkey] # None

Winners == \A c, d \in Calls : c # d /\ Duel(c, d) => Stands(c, d)

\* A call goes on with the operation it began.
Advances(c) ==
    \E m, to : /\ Go(c, m, to) /\ m \in Locals /\ to \in Points \ {"idle"}
               /\ m.op = loc[c].op /\ m.force = loc[c].force
               /\ Fresh(to, m)
               /\ Simple(m) /\ to \in Early => pc[c] \in Early

\* What it knows where it is.
LEMMA WhereItIs ==
  ASSUME Inv, NEW c \in Calls
  PROVE  /\ loc[c] \in Locals /\ pc[c] \in Points
         /\ pc[c] \in Working => /\ loc[c].op \in OpsAt[pc[c]] /\ loc[c].key \in Keys /\ loc[c].wkey \in Keys
                                 /\ loc[c].op \in {"resume", "relaunch", "fork"} => loc[c].par \in Keys
                                 /\ pc[c] \in {"get", "stat", "prune"} => loc[c].at \in Keys
<1>1. loc[c] \in Locals /\ pc[c] \in Points /\ Shape(pc[c], loc[c])
  BY DEF Inv, PlacesOK
<1>2. QED
  BY <1>1 DEF Shape, Locals

\* The steps that keep the locals.
LEMMA PlainAdvances ==
  ASSUME Inv, Freshness, NEW c \in Calls,
         \/ ProbeManifest(c) \/ CheckNameFree(c) \/ ClearStale(c) \/ WriteManifest(c) \/ AddToIndex(c)
         \/ UndoManifest(c) \/ UndoWorktree(c) \/ RestoreTarget(c) \/ RestoreEntry(c)
         \/ CleanupWorktree(c) \/ RetryCleanup(c) \/ RemoveFromIndex(c) \/ UnlinkManifest(c) \/ ClearActive(c)
         \/ PruneList(c) \/ Crash(c)
  PROVE  Advances(c)
<1> DEFINE l == loc[c]
<1>0. l \in Locals /\ Fresh(pc[c], l) /\ pc[c] \in Points
  BY WhereItIs DEF Freshness
<1>1. PICK to : /\ Go(c, l, to) /\ to \in Points \ (Early \cup {"idle"})
                /\ Simple(l) => to \notin Replacing
  <2>1. CASE ProbeManifest(c) \/ CheckNameFree(c)
    BY <2>1 DEF ProbeManifest, CheckNameFree, Goto, Points, Ended, Early, Replacing
  <2>2. CASE ClearStale(c) \/ RemoveFromIndex(c) \/ UnlinkManifest(c) \/ ClearActive(c)
    <3>1. pc[c] \in Replacing
      BY <2>2 DEF ClearStale, RemoveFromIndex, UnlinkManifest, ClearActive, Replacing
    <3>2. ~Simple(l)
      BY <1>0, <3>1 DEF Fresh
    <3>3. QED
      BY <2>2, <3>2 DEF ClearStale, RemoveFromIndex, UnlinkManifest, ClearActive, Goto, Points, Ended, Early
  <2>3. CASE RestoreTarget(c) \/ RestoreEntry(c) \/ PruneList(c)
    <3>1. pc[c] \in Replacing
      BY <2>3 DEF RestoreTarget, RestoreEntry, PruneList, Replacing
    <3>2. ~Simple(l)
      BY <1>0, <3>1 DEF Fresh
    <3>3. QED
      BY <2>3, <3>2 DEF RestoreTarget, RestoreEntry, PruneList, Goto, Points, Ended, Early
  <2>4. CASE WriteManifest(c) \/ UndoManifest(c)
    <3>1. PICK w : Go(c, l, w) /\ (w = "add" \/ w = AfterUndo(l))
      BY <2>4 DEF WriteManifest, UndoManifest, Goto
    <3>2. w \in {"add", "undoTree", "failed"} \/ (w = "restore" /\ l.old # None)
      BY <3>1 DEF AfterUndo
    <3>3. QED
      BY <1>0, <3>1, <3>2 DEF Points, Ended, Early, Replacing, Fresh
  <2>5. CASE AddToIndex(c)
    BY <2>5 DEF AddToIndex, Goto, Points, Ended, Early, Replacing
  <2>6. CASE UndoWorktree(c) \/ Crash(c)
    BY <2>6 DEF UndoWorktree, Crash, Goto, Points, Ended, Early, Replacing
  <2>7. CASE CleanupWorktree(c) \/ RetryCleanup(c)
    <3>1. pc[c] \in {"cleanup", "retry"}
      BY <2>7 DEF CleanupWorktree, RetryCleanup, TryRemove
    <3>2. {"cleanup", "retry"} \subseteq Working /\ OpsAt["cleanup"] = {"delete"} /\ OpsAt["retry"] = {"delete"}
      BY DEF Working, Points, Ended, OpsAt
    <3>3. ~Simple(l)
      BY <3>1, <3>2, WhereItIs DEF Simple, Creators
    <3>4. QED
      BY <2>7, <3>3 DEF CleanupWorktree, RetryCleanup, TryRemove, Goto, Points, Ended, Early
  <2>8. QED
    BY <2>1, <2>2, <2>3, <2>4, <2>5, <2>6, <2>7
<1>2. QED
  BY <1>0, <1>1 DEF Advances, Fresh

\* The lookups.
LEMMA LookupAdvances ==
  ASSUME Inv, Freshness, NEW c \in Calls, Lookup(c) \/ Stat(c) \/ Prune(c)
  PROVE  Advances(c)
<1> DEFINE l == loc[c]
<1>0. l \in Locals /\ Fresh(pc[c], l) /\ pc[c] \in {"get", "stat", "prune"}
  BY WhereItIs DEF Freshness, Lookup, Stat, Prune
<1>1. l.ret \in {"parent", "judge", "remove", "examine"} /\ {"get", "stat", "prune"} \subseteq Working
  <2>1. Shape(pc[c], l) /\ pc[c] \in Working
    BY <1>0 DEF Inv, PlacesOK, Working, Points, Ended
  <2>2. QED
    BY <1>0, <2>1 DEF Shape, Working, Points, Ended
<1>2. l.ret = "remove" => ~Simple(l)
  BY <1>0 DEF Fresh
<1>3. l.ret = "examine" => ~Simple(l)
  <2>1. Shape(pc[c], l) /\ pc[c] \in Working
    BY <1>0, <1>1 DEF Inv, PlacesOK
  <2>2. QED
    BY <1>0, <2>1 DEF Shape, Simple, Creators
<1>4. PICK m, to : /\ Go(c, m, to) /\ m \in Locals /\ m.op = l.op /\ m.force = l.force /\ m.old = l.old
                   /\ m.ret = l.ret
                   /\ to \in {"failed", "stat", "prune", "stale", l.ret}
                   /\ to = "stale" => l.ret = "remove"
  <2>1. CASE Found(c)
    <3>1. PICK m : /\ Go(c, m, l.ret)
                   /\ \/ m = l
                      \/ m = [l EXCEPT !.oldEntry = index[l.at]]
                      \/ index[l.at] # None /\ m = [l EXCEPT !.tree = index[l.at].tree]
      <4>1. CASE l.ret = "judge"
        BY <2>1, <4>1 DEF Found
      <4>2. CASE l.ret # "judge" /\ l.op \in {"resume", "relaunch"} /\ index[l.at] # None
        BY <2>1, <4>2 DEF Found
      <4>3. CASE l.ret # "judge" /\ ~(l.op \in {"resume", "relaunch"} /\ index[l.at] # None)
        BY <2>1, <4>3 DEF Found
      <4>4. QED
        BY <4>1, <4>2, <4>3
    <3>2. l.at \in Keys
      BY <1>0, <1>1, WhereItIs
    <3>3. index[l.at] \in Entry \cup {None} /\ (index[l.at] # None => index[l.at].tree \in Roots)
      <4>1. index[l.at] \in Entry \cup {None}
        BY <3>2 DEF Inv, TypeOK
      <4>2. QED
        BY <4>1 DEF Entry
    <3> HIDE DEF l
    <3>4. m \in Locals
      BY <1>0, <3>1, <3>3, LocalsUpdate
    <3>5. m.op = l.op /\ m.force = l.force /\ m.old = l.old /\ m.ret = l.ret
      BY <1>0, <3>1 DEF Locals
    <3>6. QED
      BY <1>1, <3>1, <3>4, <3>5
  <2>2. CASE NotFound(c)
    <3>1. PICK w : /\ Go(c, l, w) /\ w \in {"failed", "stale", l.ret}
                   /\ w = "stale" => l.ret = "remove"
      BY <2>2 DEF NotFound, Goto
    <3>2. QED
      BY <1>0, <3>1
  <2>3. CASE Goto(c, "stat") \/ Goto(c, "prune")
    BY <1>0, <2>3 DEF Goto
  <2>4. QED
    BY <2>1, <2>2, <2>3 DEF Lookup, Stat, Prune
<1>5. to \in Points \ {"idle"} /\ (Simple(l) => to \in {"failed", "stat", "prune", "parent", "judge"})
  BY <1>1, <1>2, <1>3, <1>4 DEF Points, Ended
<1>6. Fresh(to, m)
  BY <1>0, <1>4, <1>5 DEF Fresh, Simple, Replacing
<1>7. pc[c] \in Early
  BY <1>0 DEF Early
<1>8. QED
  BY <1>4, <1>5, <1>6, <1>7 DEF Advances

\* The steps that learn something.
LEMMA LearningAdvances ==
  ASSUME Inv, Freshness, NEW c \in Calls,
         \/ ReadParent(c) \/ GenerateResumeName(c) \/ ResumeCollides(c) \/ JudgeTarget(c)
         \/ CreateWorktree(c) \/ SwapTarget(c) \/ Examine(c)
  PROVE  Advances(c) \/ UNCHANGED <<pc, loc>>
<1> DEFINE l == loc[c]
<1>0. l \in Locals /\ Fresh(pc[c], l) /\ pc[c] \in Working /\ l.op \in OpsAt[pc[c]] /\ l.key \in Keys
      /\ l.wkey \in Keys
  <2>1. pc[c] \in Working
    BY DEF ReadParent, GenerateResumeName, ResumeCollides, JudgeTarget, CreateWorktree, SwapTarget, Examine,
       Working, Points, Ended
  <2>2. QED
    BY <2>1, WhereItIs DEF Freshness
<1> HIDE DEF l
<1>1. ASSUME NEW m \in Locals, NEW to \in Points \ (Replacing \cup {"idle"}), Go(c, m, to),
             m.op = l.op, m.force = l.force, m.old = l.old, m.ret = l.ret \/ m.ret = "judge",
             to \in Early => pc[c] \in Early
      PROVE  Advances(c)
  BY <1>0, <1>1 DEF Advances, Fresh, Simple, l
<1>2. ASSUME NEW m \in Locals, NEW to \in Points \ {"idle"}, Go(c, m, to),
             m.op = l.op, m.force = l.force, ~Simple(l)
      PROVE  Advances(c)
  BY <1>0, <1>2 DEF Advances, Fresh, Simple, l
<1>3. \A to \in {"failed", "name", "exists", "get", "tree", "probe", "write"} :
         to \in Points \ (Replacing \cup {"idle"})
  BY DEF Points, Ended, Replacing
<1>4. \A to \in Ended : Goto(c, to) => Advances(c)
  <2>1. \A to \in Ended : to \in Points \ (Replacing \cup {"idle"}) /\ to \notin Early
    BY DEF Points, Ended, Replacing, Early
  <2>2. QED
    BY <1>0, <1>1, <2>1 DEF Goto, l
<1>5. CASE ReadParent(c)
  <2>0. pc[c] = "parent" /\ pc[c] \in Early /\ l.par \in Keys
    <3>1. pc[c] = "parent"
      BY <1>5 DEF ReadParent
    <3>2. OpsAt["parent"] = {"resume", "relaunch", "fork"}
      BY DEF OpsAt
    <3>3. QED
      BY <1>0, <3>1, <3>2, WhereItIs DEF Early, l
  <2>1. CASE Goto(c, "failed")
    BY <1>4, <2>1 DEF Ended
  <2>2. CASE Goto(c, "name") \/ Goto(c, "exists")
    BY <1>0, <1>1, <1>3, <2>0, <2>2 DEF Goto, l
  <2>3. CASE /\ manifest[l.par] # None
             /\ Go(c, [(IF l.mode = "same" THEN SameCheckout(l, manifest[l.par].tree) ELSE l)
                         EXCEPT !.at = l.key, !.ret = "judge"], "get")
    <3> DEFINE t == manifest[l.par].tree
    <3>1. t \in Roots
      <4>1. manifest[l.par] \in Manifest
        BY <2>0, <2>3 DEF Inv, TypeOK
      <4>2. QED
        BY <4>1 DEF Manifest
    <3> HIDE DEF t
    <3>2. PICK x : x = IF l.mode = "same" THEN SameCheckout(l, t) ELSE l
      OBVIOUS
    <3>3. x \in Locals /\ x.op = l.op /\ x.force = l.force /\ x.old = l.old
      <4>1. CASE x = [l EXCEPT !.tree = t, !.wkey = <<l.key[1], t>>]
        <5>1. <<l.key[1], t>> \in Keys
          BY <1>0, <3>1, KeyParts DEF Keys
        <5>2. x \in Locals
          BY <1>0, <3>1, <4>1, <5>1, LocalsUpdate
        <5>3. QED
          BY <1>0, <4>1, <5>2 DEF Locals
      <4>2. QED
        BY <1>0, <3>2, <4>1 DEF SameCheckout
    <3>4. PICK m : m = [x EXCEPT !.at = l.key, !.ret = "judge"]
      OBVIOUS
    <3>5. m \in Locals /\ m.op = l.op /\ m.force = l.force /\ m.old = l.old /\ m.ret = "judge"
      <4>1. m \in Locals
        BY <1>0, <3>3, <3>4, LocalsUpdate
      <4>2. QED
        BY <3>3, <3>4, <4>1 DEF Locals
    <3>6. Go(c, m, "get")
      BY <2>3, <3>2, <3>4 DEF t
    <3>7. QED
      BY <1>1, <1>3, <2>0, <3>5, <3>6
  <2>4. QED
    BY <1>5, <2>1, <2>2, <2>3 DEF ReadParent, l
<1>6. CASE GenerateResumeName(c) \/ ResumeCollides(c)
  <2>0. l.op = "resume" /\ l.par \in Keys /\ pc[c] \in {"name", "collide"}
    <3>1. pc[c] \in {"name", "collide"}
      BY <1>6 DEF GenerateResumeName, ResumeCollides
    <3>2. OpsAt["name"] = {"resume"} /\ OpsAt["collide"] = {"resume"}
      BY DEF OpsAt
    <3>3. QED
      BY <1>0, <3>1, <3>2, WhereItIs DEF l
  <2>1. CASE Goto(c, "failed")
    BY <1>4, <2>1 DEF Ended
  <2>2. ASSUME NEW k \in Keys,
               \/ Go(c, [l EXCEPT !.key = k, !.wkey = k], "exists") /\ pc[c] = "name"
               \/ Go(c, [l EXCEPT !.key = k, !.wkey = k, !.auto = FALSE], "write")
        PROVE  Advances(c)
    <3>1. PICK y, to : /\ Go(c, y, to) /\ to \in {"exists", "write"} /\ (to = "exists" => pc[c] = "name")
                       /\ \/ y = [l EXCEPT !.key = k, !.wkey = k]
                          \/ y = [l EXCEPT !.key = k, !.wkey = k, !.auto = FALSE]
      BY <2>2
    <3>2. y \in Locals
      BY <1>0, <3>1, LocalsUpdate
    <3>3. y.op = l.op /\ y.force = l.force /\ y.old = l.old /\ y.ret = l.ret
      BY <1>0, <3>1 DEF Locals
    <3>4. to \in Early => pc[c] \in Early
      BY <3>1 DEF Early
    <3>5. QED
      BY <1>1, <1>3, <3>1, <3>2, <3>3, <3>4
  <2>3. CASE GenerateResumeName(c)
    <3>1. PICK k \in GeneratedKeys(l.par, {l.par[2]}) : Go(c, [l EXCEPT !.key = k, !.wkey = k], "exists")
      BY <2>3 DEF GenerateResumeName, l
    <3>2. pc[c] = "name"
      BY <2>3 DEF GenerateResumeName
    <3>3. QED
      BY <2>0, <2>2, <3>1, <3>2, GeneratedIsKey
  <2>4. CASE ResumeCollides(c) /\ ~Goto(c, "failed")
    <3>1. PICK k \in GeneratedKeys(l.par, Roots) :
             Go(c, [l EXCEPT !.key = k, !.wkey = k, !.auto = FALSE], "write")
      BY <2>4 DEF ResumeCollides, l
    <3>2. QED
      BY <2>0, <2>2, <3>1, GeneratedIsKey
  <2>5. QED
    BY <1>6, <2>1, <2>3, <2>4
<1>7. CASE JudgeTarget(c)
  <2>0. pc[c] \in Early
    BY <1>7 DEF JudgeTarget, Early
  <2>1. CASE Goto(c, "failed")
    BY <1>4, <2>1 DEF Ended
  <2>2. CASE Goto(c, "tree") \/ Goto(c, "write")
    BY <1>0, <1>1, <1>3, <2>0, <2>2 DEF Goto, l
  <2>3. CASE /\ l.force /\ manifest[l.key] # None
             /\ Go(c, [l EXCEPT !.old = manifest[l.key]], "tree") \/ Go(c, [l EXCEPT !.old = manifest[l.key]], "swap")
    <3>1. PICK m : m = [l EXCEPT !.old = manifest[l.key]]
      OBVIOUS
    <3>2. manifest[l.key] \in Manifest \cup {None}
      BY <1>0 DEF Inv, TypeOK
    <3>3. m \in Locals
      BY <1>0, <3>1, <3>2, LocalsUpdate
    <3>4. m.op = l.op /\ m.force = l.force
      BY <1>0, <3>1 DEF Locals
    <3>5. ~Simple(l) /\ {"tree", "swap"} \subseteq Points \ {"idle"}
      BY <2>3 DEF Simple, Points
    <3>6. QED
      BY <1>2, <2>3, <3>1, <3>3, <3>4, <3>5
  <2>4. QED
    BY <1>7, <2>1, <2>2, <2>3 DEF JudgeTarget, CanForceReplace, l
<1>8. CASE CreateWorktree(c)
  <2>0. pc[c] \in Early
    BY <1>8 DEF CreateWorktree, Early
  <2>1. CASE Goto(c, "failed") \/ UNCHANGED <<pc, loc>>
    BY <1>4, <2>1 DEF Ended
  <2>2. CASE Go(c, [l EXCEPT !.made = TRUE],
                IF l.op = "start" THEN "probe" ELSE IF l.old # None THEN "swap" ELSE "write")
    <3>1. PICK m : m = [l EXCEPT !.made = TRUE]
      OBVIOUS
    <3>2. m \in Locals
      BY <1>0, <3>1, LocalsUpdate
    <3>3. m.op = l.op /\ m.force = l.force /\ m.old = l.old /\ m.ret = l.ret
      BY <1>0, <3>1 DEF Locals
    <3>4. PICK to \in {"probe", "swap", "write"} : Go(c, m, to) /\ (to = "swap" => l.old # None)
      BY <2>2, <3>1
    <3>5. CASE to = "swap"
      <4>1. ~Simple(l) /\ "swap" \in Points \ {"idle"}
        BY <1>0, <3>4, <3>5 DEF Fresh, Points
      <4>2. QED
        BY <1>2, <3>2, <3>3, <3>4, <3>5, <4>1
    <3>6. CASE to # "swap"
      BY <1>1, <1>3, <2>0, <3>2, <3>3, <3>4, <3>6
    <3>7. QED
      BY <3>5, <3>6
  <2>3. QED
    BY <1>8, <2>1, <2>2 DEF CreateWorktree, l
<1>9. CASE SwapTarget(c)
  <2>1. PICK m : m = [l EXCEPT !.at = l.wkey, !.ret = "remove"]
    OBVIOUS
  <2>2. m \in Locals
    BY <1>0, <2>1, LocalsUpdate
  <2>3. m.op = l.op /\ m.force = l.force
    BY <1>0, <2>1 DEF Locals
  <2>4. ~Simple(l) /\ "get" \in Points \ {"idle"}
    <3>1. pc[c] \in Replacing
      BY <1>9 DEF SwapTarget, Replacing
    <3>2. QED
      BY <1>0, <3>1 DEF Fresh, Points
  <2>5. Go(c, m, "get")
    BY <1>9, <2>1 DEF SwapTarget, l
  <2>6. QED
    BY <1>2, <2>2, <2>3, <2>4, <2>5
<1>10. CASE Examine(c)
  <2>0. ~Simple(l) /\ {"remove", "failed", "cleanup"} \subseteq Points \ {"idle"}
    <3>1. pc[c] = "examine" /\ OpsAt["examine"] = {"delete"}
      BY <1>10 DEF Examine, OpsAt
    <3>2. QED
      BY <1>0, <3>1 DEF Simple, Creators, Points, Ended
  <2>1. CASE Goto(c, "failed") \/ Goto(c, "remove")
    BY <1>0, <1>2, <2>0, <2>1 DEF Goto, l
  <2>2. CASE manifest[l.key] # None /\ Go(c, [l EXCEPT !.tree = manifest[l.key].tree], "cleanup")
    <3>1. manifest[l.key].tree \in Roots
      <4>1. manifest[l.key] \in Manifest
        BY <1>0, <2>2 DEF Inv, TypeOK
      <4>2. QED
        BY <4>1 DEF Manifest
    <3>2. PICK m : m = [l EXCEPT !.tree = manifest[l.key].tree]
      OBVIOUS
    <3>3. m \in Locals
      BY <1>0, <3>1, <3>2, LocalsUpdate
    <3>4. m.op = l.op /\ m.force = l.force
      BY <1>0, <3>2 DEF Locals
    <3>5. QED
      BY <1>2, <2>0, <2>2, <3>2, <3>3, <3>4
  <2>3. QED
    BY <1>10, <2>1, <2>2 DEF Examine, l
<1>11. QED
  BY <1>5, <1>6, <1>7, <1>8, <1>9, <1>10

\* Every step of a call that has begun.
LEMMA StepAdvances ==
  ASSUME Inv, Freshness, NEW c \in Calls, Step(c) \/ Crash(c) PROVE Advances(c) \/ UNCHANGED <<pc, loc>>
  BY PlainAdvances, LookupAdvances, LearningAdvances DEF Step

\* A call that begins replaces nothing yet, and is not done when it creates.
LEMMA BeginFresh ==
  ASSUME Inv, NEW c \in Calls, BeginCall(c)
  PROVE  /\ pc[c] = "idle" /\ pc'[c] # "idle" /\ Fresh(pc'[c], loc'[c])
         /\ Simple(loc'[c]) => pc'[c] \notin Settled
<1> DEFINE Begins(op) ==
      \E m, to : /\ pc[c] = "idle" /\ Go(c, m, to) /\ m.op = op /\ m.old = None /\ m.ret \in {"none", "parent", "examine"}
                 /\ to \in {"done", "pruneList", "unlink", "tree", "probe", "get"}
                 /\ op \in Creators => to \in {"tree", "probe", "get"}
<1>1. \E op : Begins(op)
  <2>1. CASE ListSessions(c)
    <3>1. PICK x, to : /\ pc[c] = "idle" /\ Go(c, [Blank EXCEPT !.op = "list", !.stale = x], to)
                       /\ to \in {"done", "pruneList"}
      BY <2>1 DEF ListSessions, Begin
    <3>2. PICK m : m = [Blank EXCEPT !.op = "list", !.stale = x]
      OBVIOUS
    <3>3. m.op = "list" /\ m.old = None /\ m.ret = "none"
      BY <3>2 DEF Blank
    <3>4. Begins("list")
      BY <3>1, <3>2, <3>3 DEF Creators
    <3>5. QED
      BY <3>4
  <2>2. ASSUME NEW n \in Names, DeleteOrphan(c, n) PROVE Begins("orphan")
    <3>1. PICK k : pc[c] = "idle" /\ Go(c, [Blank EXCEPT !.op = "orphan", !.key = k, !.wkey = k], "unlink")
      BY <2>2 DEF DeleteOrphan, Begin
    <3>2. PICK m : m = [Blank EXCEPT !.op = "orphan", !.key = k, !.wkey = k]
      OBVIOUS
    <3>3. m.op = "orphan" /\ m.old = None /\ m.ret = "none"
      BY <3>2 DEF Blank
    <3>4. QED
      BY <3>1, <3>2, <3>3 DEF Creators
  <2>3. ASSUME NEW n \in Names, NEW wt \in BOOLEAN, StartSession(c, n, wt) PROVE Begins("start")
    <3>1. PICK k, t, h, to : /\ pc[c] = "idle" /\ to \in {"tree", "probe"}
                             /\ Go(c, [Blank EXCEPT !.op = "start", !.key = k, !.wkey = k, !.tree = t, !.hold = h],
                                    to)
      BY <2>3 DEF StartSession, Begin
    <3>2. PICK m : m = [Blank EXCEPT !.op = "start", !.key = k, !.wkey = k, !.tree = t, !.hold = h]
      OBVIOUS
    <3>3. m.op = "start" /\ m.old = None /\ m.ret = "none"
      BY <3>2 DEF Blank
    <3>4. QED
      BY <3>1, <3>2, <3>3
  <2>4. ASSUME NEW n \in Names, NEW par \in Keys, NEW auto \in BOOLEAN, ResumeSession(c, par, n, auto)
        PROVE  Begins("resume")
    <3>1. PICK k : pc[c] = "idle" /\ Go(c, [Blank EXCEPT !.op = "resume", !.key = k, !.wkey = k, !.par = par,
                                                !.at = par, !.ret = "parent", !.auto = auto], "get")
      BY <2>4 DEF ResumeSession, Begin
    <3>2. PICK m : m = [Blank EXCEPT !.op = "resume", !.key = k, !.wkey = k, !.par = par,
                                     !.at = par, !.ret = "parent", !.auto = auto]
      OBVIOUS
    <3>3. m.op = "resume" /\ m.old = None /\ m.ret = "parent"
      BY <3>2 DEF Blank
    <3>4. QED
      BY <3>1, <3>2, <3>3
  <2>5. ASSUME NEW n \in Names, NEW par \in Keys, RelaunchSession(c, par, n) PROVE Begins("relaunch")
    <3>1. PICK k : pc[c] = "idle" /\ Go(c, [Blank EXCEPT !.op = "relaunch", !.key = k, !.wkey = k, !.par = par,
                                                !.at = par, !.ret = "parent"], "get")
      BY <2>5 DEF RelaunchSession, Begin
    <3>2. PICK m : m = [Blank EXCEPT !.op = "relaunch", !.key = k, !.wkey = k, !.par = par,
                                     !.at = par, !.ret = "parent"]
      OBVIOUS
    <3>3. m.op = "relaunch" /\ m.old = None /\ m.ret = "parent"
      BY <3>2 DEF Blank
    <3>4. QED
      BY <3>1, <3>2, <3>3
  <2>6. ASSUME NEW n \in Names, NEW par \in Keys, NEW mode \in Modes, NEW force \in BOOLEAN,
               NEW t \in ForkRoots(par, n, mode), ForkSession(c, par, n, mode, t, force)
        PROVE  Begins("fork")
    <3>1. PICK k, h : pc[c] = "idle" /\ Go(c, [Blank EXCEPT !.op = "fork", !.mode = mode, !.key = k, !.wkey = k,
                                                   !.par = par, !.at = par, !.ret = "parent", !.tree = t,
                                                   !.force = force, !.hold = h], "get")
      BY <2>6 DEF ForkSession, Begin
    <3>2. PICK m : m = [Blank EXCEPT !.op = "fork", !.mode = mode, !.key = k, !.wkey = k,
                                     !.par = par, !.at = par, !.ret = "parent", !.tree = t,
                                     !.force = force, !.hold = h]
      OBVIOUS
    <3>3. m.op = "fork" /\ m.old = None /\ m.ret = "parent"
      BY <3>2 DEF Blank
    <3>4. QED
      BY <3>1, <3>2, <3>3
  <2>7. ASSUME NEW k \in Keys, NEW keep \in BOOLEAN, NEW force \in BOOLEAN, DeleteSession(c, k, keep, force)
        PROVE  Begins("delete")
    <3>1. pc[c] = "idle" /\ Go(c, [Blank EXCEPT !.op = "delete", !.key = k, !.wkey = k, !.at = k,
                                       !.ret = "examine", !.keep = keep, !.force = force], "get")
      BY <2>7 DEF DeleteSession, Begin
    <3>2. PICK m : m = [Blank EXCEPT !.op = "delete", !.key = k, !.wkey = k, !.at = k,
                                     !.ret = "examine", !.keep = keep, !.force = force]
      OBVIOUS
    <3>3. m.op = "delete" /\ m.old = None /\ m.ret = "examine"
      BY <3>2 DEF Blank
    <3>4. QED
      BY <3>1, <3>2, <3>3
  <2> HIDE DEF Begins
  <2>8. QED
    BY <2>1, <2>2, <2>3, <2>4, <2>5, <2>6, <2>7 DEF BeginCall
<1>2. PICK op : Begins(op)
  BY <1>1
<1>3. PICK m, to : /\ pc[c] = "idle" /\ Go(c, m, to) /\ m.op = op /\ m.old = None
                   /\ m.ret \in {"none", "parent", "examine"}
                   /\ to \in {"done", "pruneList", "unlink", "tree", "probe", "get"}
                   /\ op \in Creators => to \in {"tree", "probe", "get"}
  BY <1>2
<1>4. pc'[c] = to /\ loc'[c].op = op /\ (to # "done" => loc'[c] = m)
  <2>1. PICK x : x = [Blank EXCEPT !.op = m.op, !.key = m.key, !.wkey = m.wkey, !.force = m.force]
    OBVIOUS
  <2>2. x.op = op
    BY <1>3, <2>1 DEF Blank
  <2>3. pc'[c] = to /\ loc'[c] = IF to \in Ended THEN x ELSE m
    BY <1>3, <2>1 DEF Go, Inv, PlacesOK
  <2>4. to # "done" => to \notin Ended
    BY <1>3 DEF Ended
  <2>5. QED
    BY <1>3, <2>2, <2>3, <2>4
<1>5. CASE op \in Creators
  BY <1>3, <1>4, <1>5 DEF Fresh, Replacing, Settled
<1>6. CASE op \notin Creators
  BY <1>3, <1>4, <1>6 DEF Fresh, Simple
<1>7. QED
  BY <1>5, <1>6

\* Calls begin with nothing; nobody starts to replace something without being asked.
LEMMA FreshStep == Inv /\ Freshness /\ [Next]_vars => Freshness'
<1> SUFFICES ASSUME Inv, Freshness, [Next]_vars PROVE Freshness'
  OBVIOUS
<1>1. ASSUME NEW c \in Calls, BeginCall(c) \/ Step(c) \/ Crash(c) PROVE Freshness'
  <2>1. \A d \in Calls \ {c} : pc'[d] = pc[d] /\ loc'[d] = loc[d]
    <3>1. Moves(c) \/ UNCHANGED <<pc, loc>>
      BY <1>1, EveryMove
    <3>2. QED
      BY <3>1, GoStep DEF Moves, Inv
  <2>2. Fresh(pc'[c], loc'[c])
    <3>1. CASE BeginCall(c)
      BY <3>1, BeginFresh
    <3>2. CASE UNCHANGED <<pc, loc>>
      BY <3>2 DEF Freshness
    <3>3. CASE Advances(c)
      <4>1. PICK m \in Locals, to \in Points : Go(c, m, to) /\ Fresh(to, m)
        BY <3>3 DEF Advances
      <4>2. /\ pc'[c] = to /\ loc'[c].op = m.op /\ loc'[c].force = m.force
            /\ to \notin Ended => loc'[c] = m
        BY <4>1, GoStep DEF Inv
      <4>3. to \in Ended => loc'[c].old = None /\ loc'[c].ret = "none" /\ to \notin Replacing
        <5>1. PICK x : x = [Blank EXCEPT !.op = m.op, !.key = m.key, !.wkey = m.wkey, !.force = m.force]
          OBVIOUS
        <5>2. x.old = None /\ x.ret = "none"
          BY <5>1 DEF Blank
        <5>3. to \in Ended => loc'[c] = x
          BY <4>1, <5>1 DEF Go, Inv, PlacesOK
        <5>4. QED
          BY <5>2, <5>3 DEF Ended, Replacing
      <4>4. QED
        BY <4>1, <4>2, <4>3 DEF Fresh, Simple
    <3>4. QED
      BY <1>1, <3>1, <3>2, <3>3, StepAdvances
  <2>3. QED
    BY <2>1, <2>2 DEF Freshness
<1>2. CASE (\E t \in Names, kind \in Kinds : Edit(t, kind)) \/ UNCHANGED vars
  BY <1>2 DEF Edit, vars, Freshness
<1>3. QED
  BY <1>1, <1>2 DEF Next

\* What a creation without --force does to the files: before it writes it takes nothing but
\* what it found stale, and it never takes an entry once it writes.
LEMMA SimpleEffects ==
  ASSUME Inv, Freshness, NEW d \in Calls, Simple(loc[d]), Step(d) \/ Crash(d), NEW k \in Keys
  PROVE  /\ index[k] # None /\ (manifest[k] # None \/ pc[d] \notin Early) => index'[k] = index[k]
         /\ pc[d] \in Early /\ manifest[k] # None => manifest'[k] # None
<1> DEFINE l == loc[d]
<1>0. /\ index \in [Keys -> Entry \cup {None}] /\ manifest \in [Keys -> Manifest \cup {None}]
      /\ pc[d] \notin Replacing /\ l.old = None /\ l.op \notin {"delete", "list"}
      /\ pc[d] \in Working => l.op \in OpsAt[pc[d]] /\ l.wkey \in Keys
  BY WhereItIs DEF Inv, TypeOK, Freshness, Fresh, Simple, Creators
<1>1. CASE Lookup(d) \/ Stat(d) \/ ProbeManifest(d) \/ ReadParent(d)
  BY <1>1 DEF Lookup, Stat, ProbeManifest, ReadParent, disk
<1>2. CASE GenerateResumeName(d) \/ CheckNameFree(d) \/ JudgeTarget(d) \/ SwapTarget(d) \/ Crash(d)
  BY <1>2 DEF GenerateResumeName, CheckNameFree, JudgeTarget, SwapTarget, Crash, disk
<1>3. CASE Prune(d)
  BY <1>0, <1>3 DEF Prune, Early
<1>4. CASE PruneList(d) \/ ClearStale(d) \/ RestoreTarget(d) \/ RestoreEntry(d)
  BY <1>0, <1>4 DEF PruneList, ClearStale, RestoreTarget, RestoreEntry, Replacing
<1>5. CASE RemoveFromIndex(d) \/ UnlinkManifest(d) \/ ClearActive(d)
  BY <1>0, <1>5 DEF RemoveFromIndex, UnlinkManifest, ClearActive, Replacing
<1>6. CASE Examine(d) \/ CleanupWorktree(d) \/ RetryCleanup(d)
  <2>1. pc[d] \in {"examine", "cleanup", "retry"}
    BY <1>6 DEF Examine, CleanupWorktree, RetryCleanup, TryRemove
  <2>2. {"examine", "cleanup", "retry"} \subseteq Working /\ OpsAt["examine"] = {"delete"}
      /\ OpsAt["cleanup"] = {"delete"} /\ OpsAt["retry"] = {"delete"}
    BY DEF Working, Points, Ended, OpsAt
  <2>3. QED
    BY <1>0, <2>1, <2>2
<1>7. CASE WriteManifest(d) \/ ResumeCollides(d) \/ UndoManifest(d) \/ UndoWorktree(d)
  <2>1. pc[d] \notin Early /\ UNCHANGED index
    BY <1>7 DEF WriteManifest, ResumeCollides, UndoManifest, UndoWorktree, Early
  <2>2. QED
    BY <2>1
<1>8. CASE AddToIndex(d)
  <2>1. pc[d] \notin Early /\ pc[d] = "add"
    BY <1>8 DEF AddToIndex, Early
  <2>2. UNCHANGED index \/ (index[l.wkey] = None /\ \E e : index' = [index EXCEPT ![l.wkey] = e])
    BY <1>8 DEF AddToIndex
  <2>3. QED
    BY <1>0, <2>1, <2>2
<1>9. CASE CreateWorktree(d)
  <2>1. UNCHANGED <<manifest, index>>
    BY <1>0, <1>9 DEF CreateWorktree
  <2>2. QED
    BY <2>1
<1>10. QED
  BY <1>1, <1>2, <1>3, <1>4, <1>5, <1>6, <1>7, <1>8, <1>9 DEF Step

\* How one comes to have written its manifest, or to be done.
LEMMA Settling ==
  ASSUME Inv, Freshness, NEW c \in Calls, Simple(loc[c]), Step(c) \/ Crash(c), pc'[c] \in Settled
  PROVE  /\ loc'[c].wkey = loc[c].wkey /\ loc[c].wkey \in Keys
         /\ \/ pc'[c] = "add" /\ manifest'[loc[c].wkey] # None
            \/ /\ pc[c] = "add" /\ UNCHANGED manifest
               /\ index'[loc[c].wkey] # None /\ index'[loc[c].wkey].by = c
<1> DEFINE l == loc[c]
<1>0. /\ index \in [Keys -> Entry \cup {None}] /\ manifest \in [Keys -> Manifest \cup {None}]
      /\ pc[c] \notin Replacing /\ l.old = None /\ l.op \notin {"delete", "list"} /\ l \in Locals
      /\ pc[c] \in Working => l.op \in OpsAt[pc[c]] /\ l.wkey \in Keys
      /\ PlacesOK
  BY WhereItIs DEF Inv, TypeOK, Freshness, Fresh, Simple, Creators
<1>a. "add" \in Points /\ "done" \in Points /\ {"write", "add", "get", "stat", "prune"} \subseteq Working
  BY DEF Points, Working, Ended
<1>b. {"examine", "cleanup", "retry"} \subseteq Working /\ OpsAt["examine"] = {"delete"}
      /\ OpsAt["cleanup"] = {"delete"} /\ OpsAt["retry"] = {"delete"}
  BY DEF Working, Points, Ended, OpsAt
<1>1. CASE WriteManifest(c)
  <2>1. pc[c] = "write"
    BY <1>1 DEF WriteManifest
  <2>2. pc'[c] = "add" /\ Goto(c, "add") /\ \E m \in Manifest : manifest' = [manifest EXCEPT ![l.wkey] = m]
    <3>1. CASE Goto(c, AfterUndo(l))
      <4>1. pc'[c] = AfterUndo(l)
        BY <1>0, <3>1 DEF Goto, Go, PlacesOK
      <4>2. QED
        BY <4>1 DEF AfterUndo, Settled
    <3>2. CASE ~Goto(c, AfterUndo(l))
      <4> DEFINE m == [by |-> c, parent |-> IF l.par = None THEN None ELSE l.par[1],
                       fork |-> l.op \in {"fork", "relaunch"}, tree |-> l.tree, hold |-> l.hold]
      <4>1. Goto(c, "add") /\ SetManifest(l.wkey, m)
        BY <1>1, <3>2 DEF WriteManifest
      <4>2. pc'[c] = "add"
        BY <1>0, <4>1 DEF Goto, Go, PlacesOK
      <4>3. m \in Manifest
        <5>1. (IF l.par = None THEN None ELSE l.par[1]) \in Names \cup {None}
          <6>1. l.par \in Keys \cup {None}
            BY <1>0 DEF Locals
          <6>2. QED
            BY <6>1, KeyParts
        <5>2. /\ l.hold \in {"none", "owner", "guest"} /\ (l.op \in {"fork", "relaunch"}) \in BOOLEAN
              /\ l.tree \in Roots
          BY <1>0 DEF Locals
        <5>3. QED
          BY <5>1, <5>2 DEF Manifest
      <4> HIDE DEF m
      <4>4. QED
        BY <4>1, <4>2, <4>3 DEF SetManifest
    <3>3. QED
      BY <3>1, <3>2
  <2>3. manifest'[l.wkey] # None
    BY <1>0, <1>a, <2>1, <2>2, RecordAssumption
  <2>4. QED
    BY <1>0, <1>a, <2>1, <2>2, <2>3, GoStep DEF Goto
<1>2. CASE AddToIndex(c)
  <2>1. pc[c] = "add" /\ UNCHANGED manifest
    BY <1>2 DEF AddToIndex
  <2>2. /\ Goto(c, "done") /\ pc'[c] = "done" /\ index' = [index EXCEPT ![l.wkey] = [by |-> c, tree |-> l.tree]]
    <3>1. CASE \E w \in {"collide", "failed", "undo"} : Goto(c, w)
      BY <1>0, <3>1 DEF Goto, Go, PlacesOK, Settled
    <3>2. CASE ~\E w \in {"collide", "failed", "undo"} : Goto(c, w)
      <4>1. Goto(c, "done") /\ index' = [index EXCEPT ![l.wkey] = [by |-> c, tree |-> l.tree]]
        BY <1>2, <3>2 DEF AddToIndex
      <4>2. QED
        BY <1>0, <4>1 DEF Goto, Go, PlacesOK
    <3>3. QED
      BY <3>1, <3>2
  <2>3. [by |-> c, tree |-> l.tree] \in Entry /\ [by |-> c, tree |-> l.tree].by = c
    BY <1>0 DEF Entry, Locals
  <2>4. index'[l.wkey] = [by |-> c, tree |-> l.tree] /\ index'[l.wkey] # None
    BY <1>0, <1>a, <2>1, <2>2, <2>3, RecordAssumption
  <2>5. QED
    BY <1>0, <1>a, <2>1, <2>2, <2>3, <2>4, GoStep DEF Goto
<1>3. CASE ~WriteManifest(c) /\ ~AddToIndex(c)
  <2>1. (\E m, w : Go(c, m, w) /\ w \notin Settled) \/ (pc[c] = "tree" /\ UNCHANGED pc)
    <3>1. CASE Lookup(c) \/ Stat(c) \/ Prune(c)
      <4>1. l.ret \notin Settled
        BY <1>0 DEF Locals, Settled
      <4>2. CASE Found(c)
        BY <4>1, <4>2 DEF Found
      <4>3. CASE NotFound(c) \/ Goto(c, "stat") \/ Goto(c, "prune")
        BY <4>3 DEF NotFound, Goto, Settled
      <4>4. QED
        BY <3>1, <4>2, <4>3 DEF Lookup, Stat, Prune
    <3>2. CASE ProbeManifest(c) \/ CheckNameFree(c) \/ UndoWorktree(c) \/ Crash(c)
      BY <3>2 DEF ProbeManifest, CheckNameFree, UndoWorktree, Crash, Goto, Settled
    <3>3. CASE UndoManifest(c)
      BY <3>3 DEF UndoManifest, AfterUndo, Goto, Settled
    <3>4. CASE ReadParent(c)
      BY <3>4 DEF ReadParent, Goto, Settled
    <3>5. CASE GenerateResumeName(c) \/ ResumeCollides(c)
      <4>1. "failed" \notin Settled /\ "exists" \notin Settled /\ "write" \notin Settled
        BY DEF Settled
      <4>2. CASE GenerateResumeName(c)
        <5>1. \E m : Go(c, m, "exists")
          BY <4>2 DEF GenerateResumeName
        <5>2. QED
          BY <4>1, <5>1
      <4>3. CASE ResumeCollides(c)
        <5>1. \E m : Go(c, m, "write") \/ Go(c, m, "failed")
          BY <4>3 DEF ResumeCollides, Goto
        <5>2. QED
          BY <4>1, <5>1
      <4>4. QED
        BY <3>5, <4>2, <4>3
    <3>6. CASE JudgeTarget(c)
      BY <3>6 DEF JudgeTarget, Goto, Settled
    <3>7. CASE CreateWorktree(c)
      BY <3>7 DEF CreateWorktree, Goto, Settled
    <3>8. CASE SwapTarget(c) \/ ClearStale(c) \/ RestoreTarget(c) \/ RestoreEntry(c)
      BY <1>0, <3>8 DEF SwapTarget, ClearStale, RestoreTarget, RestoreEntry, Replacing
    <3>9. CASE PruneList(c) \/ RemoveFromIndex(c) \/ UnlinkManifest(c) \/ ClearActive(c)
      BY <1>0, <3>9 DEF PruneList, RemoveFromIndex, UnlinkManifest, ClearActive, Replacing
    <3>10. CASE Examine(c) \/ CleanupWorktree(c) \/ RetryCleanup(c)
      BY <1>0, <1>b, <3>10 DEF Examine, CleanupWorktree, RetryCleanup, TryRemove
    <3>11. QED
      BY <1>3, <3>1, <3>2, <3>3, <3>4, <3>5, <3>6, <3>7, <3>8, <3>9, <3>10 DEF Step
  <2>2. QED
    BY <1>0, <2>1 DEF Go, PlacesOK, Settled
<1>4. QED
  BY <1>1, <1>2, <1>3

\* The duel goes on as it began.
LEMMA WinnersStep == Inv /\ Freshness /\ Winners /\ [Next]_vars => Winners'
<1> SUFFICES ASSUME Inv, Freshness, Winners, [Next]_vars,
                    NEW c \in Calls, NEW d \in Calls, c # d, Duel(c, d)'
             PROVE  Stands(c, d)'
  BY DEF Winners
<1>0. PlacesOK
  BY DEF Inv
<1>1. CASE (\E t \in Names, kind \in Kinds : Edit(t, kind)) \/ UNCHANGED vars
  <2>1. UNCHANGED <<manifest, index, pc, loc>>
    BY <1>1 DEF Edit, vars, disk
  <2>2. Stands(c, d)
    BY <2>1 DEF Winners, Duel
  <2>3. QED
    BY <2>1, <2>2 DEF Stands
<1>2. ASSUME NEW e \in Calls, BeginCall(e) \/ Step(e) \/ Crash(e) PROVE Stands(c, d)'
  <2>1. \A x \in Calls \ {e} : pc'[x] = pc[x] /\ loc'[x] = loc[x]
    <3>1. Moves(e) \/ UNCHANGED <<pc, loc>>
      BY <1>2, EveryMove
    <3>2. QED
      BY <1>0, <3>1, GoStep DEF Moves
  <2>2. CASE BeginCall(e)
    <3>1. /\ pc[e] = "idle" /\ pc'[e] # "idle" /\ UNCHANGED <<manifest, index>>
          /\ Simple(loc'[e]) => pc'[e] \notin Settled
      BY <2>2, BeginFresh, BeginWrites DEF disk
    <3>2. e \in {c, d} /\ Simple(loc'[e])
      BY <3>1 DEF Duel
    <3>3. Duel(c, d)
      BY <2>1, <3>1, <3>2 DEF Duel
    <3>4. Stands(c, d)
      BY <3>3 DEF Winners
    <3>5. CASE e = c
      BY <3>1, <3>2, <3>5 DEF Stands, Settled
    <3>6. CASE e = d
      <4>1. pc'[c] = pc[c] /\ loc'[c] = loc[c] /\ pc[d] \in Early
        BY <2>1, <3>1, <3>6 DEF Early
      <4>2. QED
        BY <3>1, <3>4, <4>1 DEF Stands
    <3>7. QED
      BY <3>2, <3>5, <3>6
  <2>3. CASE Step(e) \/ Crash(e)
    <3>1. /\ pc'[e] # "idle" /\ loc'[e].op = loc[e].op /\ loc'[e].force = loc[e].force
          /\ Simple(loc'[e]) /\ pc'[e] \in Early => pc[e] \in Early
      <4>1. CASE Advances(e)
        <5>1. PICK m \in Locals, to \in Points \ {"idle"} :
                 /\ Go(e, m, to) /\ m.op = loc[e].op /\ m.force = loc[e].force
                 /\ Simple(m) /\ to \in Early => pc[e] \in Early
          BY <4>1 DEF Advances
        <5>2. pc'[e] = to /\ loc'[e].op = m.op /\ loc'[e].force = m.force
          BY <1>0, <5>1, GoStep
        <5>3. QED
          BY <5>1, <5>2 DEF Simple
      <4>2. CASE UNCHANGED <<pc, loc>>
        <5>1. pc[e] # "idle"
          BY <2>3 DEF Step, Crash, Open, Lookup, Stat, Prune, PruneList, ProbeManifest, ReadParent,
             GenerateResumeName, CheckNameFree, JudgeTarget, CreateWorktree, SwapTarget, ClearStale,
             WriteManifest, AddToIndex, ResumeCollides, UndoManifest, UndoWorktree, RestoreTarget,
             RestoreEntry, Examine, CleanupWorktree, RetryCleanup, TryRemove, RemoveFromIndex, UnlinkManifest, ClearActive
        <5>2. QED
          BY <4>2, <5>1
      <4>3. QED
        BY <2>3, <4>1, <4>2, StepAdvances
    <3>2. e \in {c, d} /\ Simple(loc'[e]) /\ Simple(loc[e])
      BY <3>1 DEF Duel, Simple
    <3>3. Duel(c, d)
      <4>1. \A x \in Calls \ {c, d} : pc[x] = "idle"
        BY <2>1, <3>2 DEF Duel
      <4>2. \A x \in {c, d} : pc[x] # "idle" => Simple(loc[x])
        BY <2>1, <3>2 DEF Duel
      <4>3. QED
        BY <4>1, <4>2 DEF Duel
    <3>4. Stands(c, d)
      BY <3>3 DEF Winners
    <3>5. CASE e = c /\ pc'[c] \notin Settled
      BY <3>5 DEF Stands, Settled
    <3>6. CASE e = c /\ pc'[c] \in Settled
      <4>1. /\ loc'[c].wkey = loc[c].wkey /\ loc[c].wkey \in Keys
            /\ \/ pc'[c] = "add" /\ manifest'[loc[c].wkey] # None
               \/ /\ pc[c] = "add" /\ UNCHANGED manifest
                  /\ index'[loc[c].wkey] # None /\ index'[loc[c].wkey].by = c
        BY <2>3, <3>2, <3>6, Settling
      <4>2. pc'[d] = pc[d]
        BY <2>1, <3>6
      <4>3. CASE pc'[c] = "add" /\ manifest'[loc[c].wkey] # None
        BY <4>1, <4>3 DEF Stands
      <4>4. CASE /\ pc[c] = "add" /\ UNCHANGED manifest
                 /\ index'[loc[c].wkey] # None /\ index'[loc[c].wkey].by = c
        BY <3>4, <4>1, <4>2, <4>4 DEF Stands, Settled
      <4>5. QED
        BY <4>1, <4>3, <4>4
    <3>7. CASE e = d
      <4>1. pc'[c] = pc[c] /\ loc'[c] = loc[c]
        BY <2>1, <3>7
      <4>2. CASE pc[c] \in Settled
        <5> DEFINE k == loc[c].wkey
        <5>1. k \in Keys /\ (pc[d] \in Early => manifest[k] # None)
          BY <3>4, <4>2 DEF Stands
        <5>2. /\ index[k] # None => index'[k] = index[k]
              /\ pc[d] \in Early => manifest'[k] # None
          BY <2>3, <3>2, <3>7, <5>1, SimpleEffects
        <5>3. pc'[d] \in Early => pc[d] \in Early
          BY <3>1, <3>2, <3>7
        <5>4. QED
          BY <3>4, <4>1, <4>2, <5>1, <5>2, <5>3 DEF Stands
      <4>3. CASE pc[c] \notin Settled
        BY <4>1, <4>3 DEF Stands, Settled
      <4>4. QED
        BY <4>2, <4>3
    <3>8. QED
      BY <3>2, <3>5, <3>6, <3>7
  <2>4. QED
    BY <1>2, <2>2, <2>3
<1>3. QED
  BY <1>1, <1>2 DEF Next

\* NameWonOnce for any number of calls at once: whatever two creations of one session found when
\* they looked, the entry of the one that is done is its own and the other never takes it for stale.
THEOREM OneWins == Spec => []NameWonOnce
<1>1. Init => Freshness /\ Winners
  <2> SUFFICES ASSUME Init PROVE Freshness /\ Winners
    OBVIOUS
  <2>1. \A c \in Calls : pc[c] = "idle" /\ loc[c] = Blank
    BY DEF Init
  <2>2. ~Simple(Blank)
    BY DEF Simple, Blank, Creators
  <2>3. QED
    BY <2>1, <2>2 DEF Freshness, Fresh, Winners, Stands, Settled
<1>2. Inv /\ Winners => NameWonOnce
  <2> SUFFICES ASSUME Inv, Winners, NEW c \in Calls, NEW d \in Calls, pc[c] = "done", pc[d] = "done",
                      {loc[c].op, loc[d].op} \subseteq {"start", "resume", "relaunch", "fork"},
                      loc[c].wkey = loc[d].wkey, ~loc[c].force, ~loc[d].force,
                      \A e \in Calls \ {c, d} : pc[e] = "idle", c # d
               PROVE  FALSE
    BY DEF NameWonOnce
  <2>1. Duel(c, d) /\ Duel(d, c)
    BY DEF Duel, Simple, Creators
  <2>2. index[loc[c].wkey].by = c /\ index[loc[d].wkey].by = d
    BY <2>1 DEF Winners, Stands
  <2>3. QED
    BY <2>2
<1>3. Spec => [](Freshness /\ Winners)
  BY <1>1, FreshStep, WinnersStep, Invariance, PTL DEF Spec
<1>4. QED
  BY <1>2, <1>3, Invariance, PTL

================================================================================

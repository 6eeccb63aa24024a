------------------------- MODULE SequentialSessionProofs -------------------------
(***************************************************************************)
(* Proofs about SessionLifecycle when calls follow one another             *)
(* (MaxOpen = 1), for any number of calls, names and sessions that exist,  *)
(* and any number of calls that die and writes that fail: what a call that *)
(* runs alone knows of the files at each place it reaches, and so what it  *)
(* leaves behind.                                                          *)
(***************************************************************************)
EXTENDS SessionLifecycleProofs, FiniteSetTheorems

Alone == \A c, d \in Open : c = d

-----------------------------------------------------------------------------
(* The files.                                                              *)

\* A session of a worktree works in it, which exists; what is held is a worktree.
TreesFit ==
    \A k \in Keys :
        /\ manifest[k] # None => /\ Exists(k[2])
                                 /\ k[2] # Main => manifest[k].tree = k[2]
                                 /\ manifest[k].hold # "none" => manifest[k].tree # Main
        /\ index[k] # None /\ k[2] # Main => index[k].tree = k[2]

Files == TreesFit /\ IndexNeverDangles

-----------------------------------------------------------------------------
(* The call that runs: l are its locals at place w.                        *)

Looking == {"get", "stat", "prune"}
PastParent(w, l) == w # "parent" /\ (w \in Looking => l.ret # "parent")

\* Where it works: a start in the main checkout or a worktree of its own, a resume beside
\* its parent, a fork in the checkout it is written to.
PlaceFits(l) ==
    /\ l.op \in {"start", "resume", "relaunch", "delete", "orphan"} => l.wkey = l.key
    /\ l.op = "orphan" => l.key[2] = Main
    /\ l.op = "start" => /\ l.key[2] = Main
                         /\ \/ l.hold = "none" /\ l.tree = Main
                            \/ l.hold = "owner" /\ l.tree = l.key[1]
    /\ l.op \in {"resume", "relaunch"} => l.key[2] = l.par[2] /\ l.hold = "none"
    /\ l.op = "fork" =>
          /\ l.tree = l.wkey[2] /\ l.wkey[1] = l.key[1]
          /\ \/ l.mode = "same" /\ l.hold = "none" /\ l.key[2] = l.par[2]
             \/ l.mode = "worktree" /\ l.hold = "owner" /\ l.wkey = l.key /\ l.tree = l.key[1]
             \/ l.mode = "into" /\ l.hold = "guest" /\ l.wkey = l.key /\ l.tree # Main
          /\ l.wkey # l.key => l.mode = "same" /\ l.key[2] = Main /\ l.wkey[2] # Main

\* What it has made and what it replaces.
WorkFits(w, l) ==
    /\ w = "tree" => ~l.made /\ l.hold = "owner"
    /\ l.made => l.hold = "owner"
    /\ w = "undoTree" => l.made
    /\ l.op = "start" /\ l.hold = "owner" /\ w \in {"probe", "write", "add", "undo"} => l.made
    /\ l.op = "fork" /\ l.mode = "worktree" =>
          /\ w \in {"swap", "stale", "write", "add", "undo"} \/ (w \in Looking /\ l.ret = "remove")
                => l.made
          /\ w \notin {"restore", "restoreEntry", "remove", "unlink", "clear"}
    /\ w \in Looking => l.at = CASE l.ret = "parent" -> l.par [] l.ret = "remove" -> l.wkey
                                 [] OTHER -> l.key
    /\ w = "judge" \/ ~PastParent(w, l) \/ (w \in Looking /\ l.ret = "judge") =>
          l.old = None /\ ~l.made
    /\ ~PastParent(w, l) \/ (w \in Looking /\ l.ret = "judge") => l.oldEntry = None
    /\ l.op = "fork" =>
          (w \in {"swap", "remove", "unlink", "clear", "stale"} \/ (w \in Looking /\ l.ret = "remove")
              => l.old # None)
    /\ l.old # None => /\ l.force /\ l.old.fork /\ l.old.parent = l.par[1]
                       /\ l.old.tree = l.tree /\ l.old.hold = l.hold

\* What is in the index: nothing under the name it writes.
NameFree(w, l) ==
    \/ w \in {"unlink", "clear", "stale"}
    \/ l.op = "start" /\ w \in {"tree", "probe"}
    \/ l.op = "fork" /\ l.old = None /\ w = "tree"
    \/ w \in {"write", "add", "undo"} /\ (l.wkey = l.key \/ l.old # None)
    \/ w \in {"restore", "restoreEntry"} /\ l.wkey = l.key

\* What it has seen is still so.
IndexKnown(w, l) ==
    /\ w \in {"stat", "prune"} => index[l.at] # None
    /\ w = "judge" => l.oldEntry = index[l.key]
    /\ NameFree(w, l) => index[l.wkey] = None
    /\ l.op \in {"resume", "relaunch"} /\ (w = "parent" \/ PastParent(w, l)) =>
          index[l.par] # None /\ index[l.par].tree = l.tree
    /\ l.wkey # l.key => index[l.par] # None

ManifestKnown(w, l) ==
    /\ l.op \in {"resume", "relaunch"} /\ PastParent(w, l) => manifest[l.par] # None
    /\ l.wkey # l.key => manifest[l.par] # None /\ manifest[l.par].tree = l.tree
    /\ l.op = "fork" /\ l.old = None /\ w \in {"tree", "write"} /\ l.wkey = l.key =>
          manifest[l.key] = None
    /\ w = "add" => manifest[l.wkey] # None /\ manifest[l.wkey].tree = l.tree
    /\ w = "restoreEntry" => manifest[l.key] = l.old \/ faults >= 2

\* The fork it replaces, which no one runs.
TargetKnown(w, l) ==
    l.old # None =>
      /\ l.key \notin active
      /\ l.mode # "worktree" =>
            /\ l.wkey # l.key \/ w \in {"swap", "remove"} \cup Looking =>
                  manifest[l.key] = l.old /\ index[l.key] = l.oldEntry
            /\ w = "unlink" => manifest[l.key] = l.old
      /\ l.mode = "worktree" /\ w \in {"swap"} \cup Looking => manifest[l.wkey] = None

\* Where it works exists.
TreeKnown(w, l) ==
    /\ w \in {"cleanup", "retry"} => l.tree # Main
    /\ l.made => l.tree \in dirs
    /\ l.op = "fork" /\ l.mode = "into" => Exists(l.key[2])
    /\ l.op = "fork" /\ l.mode = "same" /\ l.wkey = l.key /\ PastParent(w, l) => Exists(l.key[2])

\* It rolls back only what failed.
FaultKnown(w, l) ==
    /\ w # "collide"
    /\ w = "undo" /\ (l.wkey = l.key \/ l.old # None) => faults >= 1
    /\ w \in {"restore", "restoreEntry"} => faults >= 1

Knows(w, l) ==
    /\ w = "pruneList" => l.op = "list"
    /\ w \in Working =>
          /\ PlaceFits(l) /\ WorkFits(w, l)
          /\ IndexKnown(w, l) /\ ManifestKnown(w, l) /\ TargetKnown(w, l) /\ TreeKnown(w, l)
          /\ FaultKnown(w, l)

Known == \A c \in Calls : Knows(pc[c], loc[c])

SeqInv == Inv /\ Alone /\ Files /\ Known

-----------------------------------------------------------------------------
(* What is whose.                                                          *)

NothingBy(c) == \A k \in Keys : /\ index[k] # None => index[k].by # c
                                /\ manifest[k] # None => manifest[k].by # c

Limit(l) == IF l.wkey = l.key THEN 2 ELSE 1

CleanlyFailed(c) ==
    pc[c] = "failed" /\ loc[c].op \in {"start", "fork"} /\ faults < Limit(loc[c])

\* A call that has done nothing, or undone it.
NoTrace(c) == pc[c] = "idle" \/ CleanlyFailed(c)

RollsBack == {"undoTree", "restore", "restoreEntry"}

\* A call that runs, l at w, has written at most its manifest; what it replaces was
\* not written by one that left no trace.
Wrote(c, w, l) ==
    /\ \A k \in Keys : index[k] # None => index[k].by # c
    /\ \A k \in Keys : manifest[k] # None /\ manifest[k].by = c =>
          /\ k = l.wkey /\ w \in {"add", "undo"} \cup RollsBack
          /\ w \in RollsBack => faults >= Limit(l)
    /\ l.old # None => l.old.by # c /\ (l.old.by \in Calls => ~NoTrace(l.old.by))

Ownership ==
    \A c \in Calls : /\ NoTrace(c) => NothingBy(c)
                     /\ pc[c] \in Working => Wrote(c, pc[c], loc[c])

-----------------------------------------------------------------------------
(* What keeps a worktree.                                                  *)

\* A delete may leave the worktree, a call that dies or fails twice leaves what it has made.
Exempt ==
    \/ \E c \in Calls : pc[c] # "idle" /\ loc[c].op = "delete"
    \/ faults >= 2 \/ crashes > 0

\* A call that works answers for the worktree it has made or where it replaces a fork; the
\* session it writes is nobody's before it is in the index.
Covers(w, l) == w \in Working /\ (l.made \/ (l.old # None /\ l.mode # "worktree" /\ l.wkey = l.key))

Writing(w, l, k) == w \in {"add", "undo"} /\ l.wkey = k

Keeps(k, t) == manifest[k] # None /\ manifest[k].tree = t /\ (k[2] = t \/ index[k] # None)

Saved(w, l, t) ==
    \/ \E k \in Keys : Keeps(k, t) /\ ~Writing(w, l, k)
    \/ Covers(w, l) /\ l.tree = t

Kept(w, l) == \A t \in dirs : Saved(w, l, t)

\* A session and its entry agree about the worktree.
Agree == \A k \in Keys : manifest[k] # None /\ index[k] # None => manifest[k].tree = index[k].tree

\* In the main checkout only what has failed, or the call that runs at w with l, leaves a
\* manifest without an entry, or an entry without its worktree.
Listed(w, l) ==
    \A k \in Keys : k[2] = Main /\ manifest[k] # None /\ index[k] = None =>
       faults >= 1 \/ (w \in {"unlink", "add", "undo"} /\ l.wkey = k)

There(w, l) ==
    \A k \in Keys : k[2] = Main /\ index[k] # None /\ ~Exists(index[k].tree) =>
       faults >= 1 \/ (w = "tree" /\ l.old # None /\ l.tree = index[k].tree)

TidyAt(w, l) ==
    /\ Agree /\ Listed(w, l) /\ There(w, l) /\ Kept(w, l)
    /\ w = "undoTree" => faults >= 1

Tidy ==
    \/ Exempt
    \/ /\ Open = {} => TidyAt("idle", Blank)
       /\ \A c \in Open : TidyAt(pc[c], loc[c])

-----------------------------------------------------------------------------
(* The proofs: one call at a time.                                         *)

\* What the locals of a call that works can be.
LEMMA LocalFacts ==
  ASSUME Inv, NEW c \in Calls, pc[c] \in Working, NEW l, l = loc[c]
  PROVE  /\ l \in Locals /\ Shape(pc[c], l) /\ l.op \in OpsAt[pc[c]]
         /\ l.key \in Keys /\ l.wkey \in Keys /\ l.tree \in Roots
         /\ l.key[1] \in Names /\ l.key[2] \in Roots /\ l.wkey[2] \in Roots
         /\ l.op \in {"resume", "relaunch", "fork"} =>
               l.par \in Keys /\ l.par # None /\ l.par[2] \in Roots
         /\ pc[c] \in Looking => l.at \in Keys /\ l.at # None
         /\ l.old \in Manifest \cup {None} /\ (l.old # None => l.op = "fork")
         /\ l.made => l.op \in {"start", "fork"}
<1>1. l \in Locals /\ Shape(pc[c], l)
  BY DEF Inv, PlacesOK
<1>2. l.op \in OpsAt[pc[c]] /\ l.key # None /\ l.wkey # None
      /\ (l.op \in {"resume", "relaunch", "fork"} => l.par # None)
      /\ (l.made => l.op \in {"start", "fork"}) /\ (l.old # None => l.op = "fork")
      /\ (pc[c] \in Looking => l.at # None)
  BY <1>1 DEF Shape, Looking
<1>3. /\ l.key \in Keys \cup {None} /\ l.wkey \in Keys \cup {None} /\ l.tree \in Roots
      /\ l.par \in Keys \cup {None} /\ l.at \in Keys \cup {None} /\ l.old \in Manifest \cup {None}
  BY <1>1 DEF Locals
<1>4. l.key[1] \in Names /\ l.key[2] \in Roots /\ l.wkey[2] \in Roots
  BY <1>2, <1>3, KeyParts
<1>5. l.par \in Keys => l.par[2] \in Roots
  BY KeyParts
<1>6. QED
  BY <1>1, <1>2, <1>3, <1>4, <1>5

\* Only a call that works takes a step of its operation.
LEMMA StepsWork == ASSUME NEW c \in Calls, Step(c) PROVE pc[c] \in Working \cup {"pruneList"}
<1>0. Working \cup {"pruneList"} = Points \ (Ended \cup {"idle"})
  BY DEF Working, Points, Ended
<1>1. CASE \/ Lookup(c) \/ Stat(c) \/ Prune(c) \/ PruneList(c)
  BY <1>0, <1>1 DEF Lookup, Stat, Prune, PruneList, Points, Ended
<1>2. CASE \/ ProbeManifest(c) \/ ReadParent(c) \/ GenerateResumeName(c) \/ CheckNameFree(c)
  BY <1>0, <1>2 DEF ProbeManifest, ReadParent, GenerateResumeName, CheckNameFree, Points, Ended
<1>3. CASE \/ JudgeTarget(c) \/ CreateWorktree(c) \/ SwapTarget(c) \/ ClearStale(c)
  BY <1>0, <1>3 DEF JudgeTarget, CreateWorktree, SwapTarget, ClearStale, Points, Ended
<1>4. CASE \/ WriteManifest(c) \/ AddToIndex(c) \/ ResumeCollides(c) \/ UndoManifest(c)
  BY <1>0, <1>4 DEF WriteManifest, AddToIndex, ResumeCollides, UndoManifest, Points, Ended
<1>5. CASE \/ UndoWorktree(c) \/ RestoreTarget(c) \/ RestoreEntry(c) \/ Examine(c)
  BY <1>0, <1>5 DEF UndoWorktree, RestoreTarget, RestoreEntry, Examine, Points, Ended
<1>6. CASE \/ CleanupWorktree(c) \/ RetryCleanup(c) \/ RemoveFromIndex(c) \/ UnlinkManifest(c) \/ ClearActive(c)
  BY <1>0, <1>6 DEF CleanupWorktree, RetryCleanup, TryRemove, RemoveFromIndex, UnlinkManifest, ClearActive, Points, Ended
<1>7. QED
  BY <1>1, <1>2, <1>3, <1>4, <1>5, <1>6 DEF Step

\* A call begins when no other is in flight.
LEMMA BeginsAlone ==
  ASSUME MaxOpen = 1, Alone, NEW c \in Calls, BeginCall(c) PROVE Open = {} /\ pc[c] = "idle"
<1>1. pc[c] = "idle" /\ Cardinality(Open) < 1
  <2>1. CASE ListSessions(c) \/ \E n \in Names : DeleteOrphan(c, n)
    BY <2>1 DEF ListSessions, DeleteOrphan, Begin
  <2>2. CASE \E n \in Names, wt \in BOOLEAN : StartSession(c, n, wt)
    BY <2>2 DEF StartSession, Begin
  <2>3. CASE \E n \in Names, par \in Keys, auto \in BOOLEAN : ResumeSession(c, par, n, auto)
    BY <2>3 DEF ResumeSession, Begin
  <2>4. CASE \E n \in Names, par \in Keys : RelaunchSession(c, par, n)
    BY <2>4 DEF RelaunchSession, Begin
  <2>5. CASE \E n \in Names, par \in Keys, mode \in Modes, force \in BOOLEAN :
                \E t \in ForkRoots(par, n, mode) : ForkSession(c, par, n, mode, t, force)
    BY <2>5 DEF ForkSession, Begin
  <2>6. CASE \E k \in Keys, keep, force \in BOOLEAN : DeleteSession(c, k, keep, force)
    BY <2>6 DEF DeleteSession, Begin
  <2>7. QED
    BY <2>1, <2>2, <2>3, <2>4, <2>5, <2>6 DEF BeginCall
<1>2. ASSUME NEW d \in Open PROVE FALSE
  <2>1. Open = {d}
    BY <1>2 DEF Alone
  <2>2. Cardinality({d}) = 1
    BY FS_Singleton
  <2>3. QED
    BY <1>1, <2>1, <2>2
<1>3. QED
  BY <1>1, <1>2

\* While a call moves the others rest.
LEMMA OthersRest ==
  ASSUME MaxOpen = 1, Inv, Alone, NEW c \in Calls, BeginCall(c) \/ Step(c) \/ Crash(c),
         NEW d \in Calls, d # c
  PROVE  pc[d] \in Ended \cup {"idle"}
<1>1. CASE BeginCall(c)
  BY <1>1, BeginsAlone DEF Open
<1>2. CASE Step(c) \/ Crash(c)
  <2>1. c \in Open
    <3>1. CASE Step(c)
      BY <3>1, StepsWork DEF Open, Working, Points, Ended
    <3>2. QED
      BY <1>2, <3>1 DEF Crash
  <2>2. QED
    BY <2>1 DEF Alone, Open
<1>3. QED
  BY <1>1, <1>2

\* No other is in flight afterwards.
LEMMA AloneStep ==
  ASSUME MaxOpen = 1, Inv, Alone, NEW c \in Calls, BeginCall(c) \/ Step(c) \/ Crash(c)
  PROVE  Alone' /\ \A d \in Calls \ {c} : pc'[d] = pc[d] /\ loc'[d] = loc[d]
<1>1. \A d \in Calls \ {c} : pc'[d] = pc[d] /\ loc'[d] = loc[d]
  <2>1. CASE Moves(c)
    BY <2>1, GoStep DEF Moves, Inv
  <2>2. QED
    BY <2>1, EveryMove
<1>2. \A d \in Calls \ {c} : pc'[d] \in Ended \cup {"idle"}
  BY <1>1, OthersRest
<1>3. QED
  BY <1>1, <1>2 DEF Alone, Open

\* What the call that moves knows next is all that is to be known.
After(c) == \E m, to : Go(c, m, to) /\ Knows(to, m)'

LEMMA KnownAfter ==
  ASSUME MaxOpen = 1, Inv, Alone, NEW c \in Calls, BeginCall(c) \/ Step(c) \/ Crash(c), After(c)
  PROVE  Known'
<1>1. PICK m, to : Go(c, m, to) /\ Knows(to, m)'
  BY DEF After
<1>2. ASSUME NEW d \in Calls \ {c} PROVE Knows(pc[d], loc[d])'
  <2>1. pc'[d] = pc[d] /\ pc[d] \in Ended \cup {"idle"}
    BY AloneStep, OthersRest
  <2>2. (pc[d] \notin Working \cup {"pruneList"})'
    BY <2>1 DEF Working, Ended
  <2>3. QED
    BY <2>2 DEF Knows
<1>3. Knows(pc[c], loc[c])'
  <2>1. pc'[c] = to
    BY <1>1 DEF Go, Inv, PlacesOK
  <2>2. CASE to \in Ended
    <3>1. (pc[c] \notin Working \cup {"pruneList"})'
      BY <2>1, <2>2 DEF Working, Ended
    <3>2. QED
      BY <3>1 DEF Knows
  <2>3. CASE to \notin Ended
    <3>1. loc'[c] = m
      BY <1>1, <2>3 DEF Go, Inv, PlacesOK
    <3>2. QED
      BY <1>1, <2>1, <3>1
  <2>4. QED
    BY <2>2, <2>3
<1>4. QED
  BY <1>2, <1>3 DEF Known

\* A step that writes nothing.
LEMMA QuietAfter ==
  ASSUME SeqInv, NEW c \in Calls, UNCHANGED <<disk, bounds>>, NEW m, NEW to, Go(c, m, to), Knows(to, m)
  PROVE  After(c) /\ Files'
<1>1. UNCHANGED <<manifest, index, dirs, uncommitted, active, faults, crashes>>
  BY DEF disk, bounds
<1>2. Knows(to, m)'
  <2>1. IndexKnown(to, m)' <=> IndexKnown(to, m)
    BY <1>1 DEF IndexKnown
  <2>2. ManifestKnown(to, m)' <=> ManifestKnown(to, m)
    BY <1>1 DEF ManifestKnown
  <2>3. TargetKnown(to, m)' <=> TargetKnown(to, m)
    BY <1>1 DEF TargetKnown
  <2>4. TreeKnown(to, m)' <=> TreeKnown(to, m)
    BY <1>1 DEF TreeKnown, Exists
  <2>5. FaultKnown(to, m)' <=> FaultKnown(to, m)
    BY <1>1 DEF FaultKnown
  <2>6. QED
    BY <2>1, <2>2, <2>3, <2>4, <2>5 DEF Knows
<1>3. Files'
  BY <1>1 DEF SeqInv, Files, TreesFit, IndexNeverDangles, Exists
<1>4. QED
  BY <1>2, <1>3 DEF After

\* A call that ends.
LEMMA EndAfter == ASSUME NEW c \in Calls, NEW to \in Ended, Goto(c, to) PROVE After(c)
<1>1. PICK l : l = loc[c]
  OBVIOUS
<1>2. Knows(to, l)'
  BY DEF Knows, Working, Ended
<1>3. QED
  BY <1>1, <1>2 DEF After, Goto

\* What a call that works knows.
LEMMA KnownNow ==
  ASSUME SeqInv, NEW c \in Calls, pc[c] \in Working, NEW l, l = loc[c]
  PROVE  /\ PlaceFits(l) /\ WorkFits(pc[c], l)
         /\ IndexKnown(pc[c], l) /\ ManifestKnown(pc[c], l) /\ TargetKnown(pc[c], l)
         /\ TreeKnown(pc[c], l) /\ FaultKnown(pc[c], l)
  BY DEF SeqInv, Known, Knows

-----------------------------------------------------------------------------
(* The lookups.                                                            *)

\* A call that looks up looks where it should.
LEMMA LooksFor ==
  ASSUME SeqInv, NEW c \in Calls, pc[c] \in Looking, NEW l, l = loc[c]
  PROVE  \/ /\ l.ret = "parent" /\ l.op \in {"resume", "relaunch", "fork"} /\ l.at = l.par
            /\ l.old = None /\ l.oldEntry = None
         \/ l.ret = "judge" /\ l.op = "fork" /\ l.at = l.key /\ l.old = None /\ l.oldEntry = None
         \/ l.ret = "remove" /\ l.op = "fork" /\ l.at = l.wkey /\ l.old # None
         \/ l.ret = "examine" /\ l.op = "delete" /\ l.at = l.key /\ l.old = None
<1>1. pc[c] \in Working
  BY DEF Looking, Working, Points, Ended
<1>2. Shape(pc[c], l) /\ WorkFits(pc[c], l)
  BY <1>1, LocalFacts, KnownNow DEF SeqInv
<1>3. \/ l.ret = "parent" /\ l.op \in {"resume", "relaunch", "fork"}
      \/ l.ret \in {"judge", "remove"} /\ l.op = "fork"
      \/ l.ret = "examine" /\ l.op = "delete"
  BY <1>1, <1>2 DEF Shape, Looking
<1>4. l.old # None => l.op = "fork"
  BY <1>1, <1>2 DEF Shape
<1>5. l.at = CASE l.ret = "parent" -> l.par [] l.ret = "remove" -> l.wkey [] OTHER -> l.key
  BY <1>2 DEF WorkFits
<1>6. /\ l.ret = "parent" => l.at = l.par
      /\ l.ret = "remove" => l.at = l.wkey
      /\ l.ret \in {"judge", "examine"} => l.at = l.key
  BY <1>5
<1>7. /\ l.ret \in {"parent", "judge"} => l.old = None /\ l.oldEntry = None
      /\ l.ret = "remove" /\ l.op = "fork" => l.old # None
  BY <1>2 DEF WorkFits, PastParent
<1>8. QED
  BY <1>3, <1>4, <1>6, <1>7

\* A fork's target is looked for and not there.
LEMMA NotFoundKnows ==
  ASSUME SeqInv, NEW c \in Calls, pc[c] \in Looking, NEW l, l = loc[c], index[l.at] = None
  PROVE  /\ l.ret = "judge" => Knows("judge", l)
         /\ l.ret = "remove" => Knows("stale", l)
<1>1. pc[c] \in Working
  BY DEF Looking, Working, Points, Ended
<1>2. /\ PlaceFits(l) /\ WorkFits(pc[c], l)
      /\ IndexKnown(pc[c], l) /\ ManifestKnown(pc[c], l) /\ TargetKnown(pc[c], l)
      /\ TreeKnown(pc[c], l) /\ FaultKnown(pc[c], l)
  BY <1>1, KnownNow
<1>3. ASSUME l.ret = "judge" PROVE Knows("judge", l)
  <2>0. l.op = "fork" /\ l.at = l.key /\ l.old = None /\ l.oldEntry = None
    BY <1>3, LooksFor
  <2>1. WorkFits("judge", l)
    BY <1>2, <1>3, <2>0 DEF WorkFits, Looking, PastParent
  <2>2. IndexKnown("judge", l)
    BY <1>2, <2>0 DEF IndexKnown, NameFree
  <2>3. ManifestKnown("judge", l) /\ TargetKnown("judge", l) /\ FaultKnown("judge", l)
    BY <1>2, <2>0 DEF ManifestKnown, TargetKnown, FaultKnown
  <2>4. TreeKnown("judge", l)
    BY <1>2, <1>3, <2>0 DEF TreeKnown, PastParent, Looking
  <2>5. QED
    BY <1>2, <2>1, <2>2, <2>3, <2>4 DEF Knows
<1>4. ASSUME l.ret = "remove" PROVE Knows("stale", l)
  <2>0. l.op = "fork" /\ l.at = l.wkey /\ l.old # None
    BY <1>4, LooksFor
  <2>1. WorkFits("stale", l)
    BY <1>2, <1>4, <2>0 DEF WorkFits, Looking, PastParent
  <2>2. IndexKnown("stale", l)
    BY <1>2, <2>0 DEF IndexKnown, NameFree
  <2>3. ManifestKnown("stale", l) /\ FaultKnown("stale", l)
    BY <1>2, <2>0 DEF ManifestKnown, FaultKnown
  <2>4. TargetKnown("stale", l)
    BY <1>2, <2>0 DEF TargetKnown, Looking
  <2>5. TreeKnown("stale", l)
    BY <1>2, <1>4, <2>0 DEF TreeKnown, PastParent, Looking
  <2>6. QED
    BY <1>2, <2>1, <2>2, <2>3, <2>4, <2>5 DEF Knows
<1>5. QED
  BY <1>3, <1>4

\* What is looked for is there.
LEMMA FoundKnows ==
  ASSUME SeqInv, NEW c \in Calls, pc[c] \in {"stat", "prune"}, NEW l, l = loc[c],
         manifest[l.at] # None, Found(c)
  PROVE  \E m, to : Go(c, m, to) /\ Knows(to, m)
<1>1. pc[c] \in Working /\ pc[c] \in Looking
  BY DEF Looking, Working, Points, Ended
<1>2. /\ PlaceFits(l) /\ WorkFits(pc[c], l)
      /\ IndexKnown(pc[c], l) /\ ManifestKnown(pc[c], l) /\ TargetKnown(pc[c], l)
      /\ TreeKnown(pc[c], l) /\ FaultKnown(pc[c], l)
  BY <1>1, KnownNow
<1>3. l \in Locals
  BY <1>1, LocalFacts DEF SeqInv
<1>4. index[l.at] # None
  BY <1>2 DEF IndexKnown
<1>5. CASE l.ret = "judge"
  <2>0. l.op = "fork" /\ l.at = l.key /\ l.old = None /\ l.oldEntry = None
    BY <1>1, <1>5, LooksFor
  <2>1. PICK m : m = [l EXCEPT !.oldEntry = index[l.at]] /\ Go(c, m, l.ret)
    BY <1>5, <2>0 DEF Found
  <2>2. Go(c, m, "judge")
    BY <1>5, <2>1
  <2>3. /\ m.op = l.op /\ m.key = l.key /\ m.wkey = l.wkey /\ m.par = l.par /\ m.at = l.at
        /\ m.ret = l.ret /\ m.mode = l.mode /\ m.tree = l.tree /\ m.hold = l.hold /\ m.made = l.made
        /\ m.old = None /\ m.force = l.force /\ m.oldEntry = index[l.key]
    BY <1>3, <2>0, <2>1 DEF Locals
  <2>4. PlaceFits(m)
    BY <1>2, <2>3 DEF PlaceFits
  <2>5. WorkFits("judge", m)
    BY <1>2, <1>1, <1>5, <2>0, <2>3 DEF WorkFits, Looking, PastParent
  <2>6. IndexKnown("judge", m)
    BY <1>2, <2>0, <2>3 DEF IndexKnown, NameFree
  <2>7. ManifestKnown("judge", m) /\ TargetKnown("judge", m) /\ FaultKnown("judge", m)
    BY <1>2, <2>0, <2>3 DEF ManifestKnown, TargetKnown, FaultKnown
  <2>8. TreeKnown("judge", m)
    BY <1>2, <1>5, <2>0, <2>3 DEF TreeKnown, PastParent
  <2>9. QED
    BY <2>2, <2>4, <2>5, <2>6, <2>7, <2>8 DEF Knows
<1>6. CASE l.ret = "parent" /\ l.op \in {"resume", "relaunch"}
  <2>0. l.at = l.par /\ l.old = None /\ l.oldEntry = None
    BY <1>1, <1>6, LooksFor
  <2>1. PICK m : m = [l EXCEPT !.tree = index[l.at].tree]
    OBVIOUS
  <2>2. Go(c, m, "parent")
    BY <1>4, <1>6, <2>1 DEF Found
  <2>3. /\ m.op = l.op /\ m.key = l.key /\ m.wkey = l.wkey /\ m.par = l.par /\ m.at = l.at
        /\ m.ret = l.ret /\ m.mode = l.mode /\ m.tree = index[l.par].tree /\ m.hold = l.hold
        /\ m.made = l.made /\ m.old = None /\ m.force = l.force /\ m.oldEntry = None
    BY <1>3, <2>0, <2>1 DEF Locals
  <2>4. PlaceFits(m)
    BY <1>2, <1>6, <2>3 DEF PlaceFits
  <2>5. WorkFits("parent", m)
    BY <1>2, <1>6, <2>0, <2>3 DEF WorkFits, Looking, PastParent
  <2>6. m.wkey = m.key
    BY <1>6, <2>3, <2>4 DEF PlaceFits
  <2>7. IndexKnown("parent", m)
    BY <1>4, <1>6, <2>0, <2>3, <2>6 DEF IndexKnown, NameFree
  <2>8. ManifestKnown("parent", m) /\ TargetKnown("parent", m) /\ FaultKnown("parent", m)
    BY <1>6, <2>0, <2>3, <2>6 DEF ManifestKnown, TargetKnown, FaultKnown, PastParent
  <2>9. TreeKnown("parent", m)
    <3>1. ~m.made
      BY <1>1, <1>6, <2>3, LocalFacts DEF SeqInv
    <3>2. QED
      BY <1>6, <2>3, <3>1 DEF TreeKnown
  <2>10. QED
    BY <2>2, <2>4, <2>5, <2>7, <2>8, <2>9 DEF Knows
<1>7. CASE l.ret = "parent" /\ l.op = "fork"
  <2>0. l.at = l.par /\ l.old = None /\ l.oldEntry = None
    BY <1>1, <1>7, LooksFor
  <2>1. Go(c, l, "parent")
    BY <1>7 DEF Found
  <2>2. WorkFits("parent", l)
    BY <1>2, <1>7, <2>0 DEF WorkFits, Looking, PastParent
  <2>3. IndexKnown("parent", l)
    BY <1>2, <1>7, <2>0 DEF IndexKnown, NameFree
  <2>4. ManifestKnown("parent", l) /\ TargetKnown("parent", l) /\ FaultKnown("parent", l)
    BY <1>2, <1>7, <2>0 DEF ManifestKnown, TargetKnown, FaultKnown
  <2>5. TreeKnown("parent", l)
    BY <1>2, <1>7 DEF TreeKnown, PastParent
  <2>6. QED
    BY <1>2, <2>1, <2>2, <2>3, <2>4, <2>5 DEF Knows
<1>8. CASE l.ret = "remove"
  <2>0. l.op = "fork" /\ l.at = l.wkey /\ l.old # None
    BY <1>1, <1>8, LooksFor
  <2>1. Go(c, l, "remove")
    BY <1>8, <2>0 DEF Found
  <2>2. l.mode # "worktree"
    BY <1>1, <1>2, <2>0 DEF TargetKnown
  <2>3. WorkFits("remove", l)
    BY <1>2, <2>0, <2>2 DEF WorkFits, Looking, PastParent
  <2>4. IndexKnown("remove", l)
    BY <1>2, <2>0 DEF IndexKnown, NameFree
  <2>5. ManifestKnown("remove", l) /\ FaultKnown("remove", l)
    BY <1>2, <2>0 DEF ManifestKnown, FaultKnown
  <2>6. TargetKnown("remove", l)
    BY <1>1, <1>2, <2>2 DEF TargetKnown, Looking
  <2>7. TreeKnown("remove", l)
    BY <1>2, <1>8 DEF TreeKnown, PastParent
  <2>8. QED
    BY <1>2, <2>1, <2>3, <2>4, <2>5, <2>6, <2>7 DEF Knows
<1>9. CASE l.ret = "examine"
  <2>0. l.op = "delete" /\ l.at = l.key /\ l.old = None
    BY <1>1, <1>9, LooksFor
  <2>1. Go(c, l, "examine")
    BY <1>9, <2>0 DEF Found
  <2>2. l.wkey = l.key /\ ~l.made
    BY <1>1, <1>2, <2>0, LocalFacts DEF PlaceFits, SeqInv
  <2>3. WorkFits("examine", l)
    BY <1>2, <2>0, <2>2 DEF WorkFits, Looking, PastParent
  <2>4. IndexKnown("examine", l) /\ ManifestKnown("examine", l) /\ TargetKnown("examine", l)
    BY <2>0, <2>2 DEF IndexKnown, NameFree, ManifestKnown, TargetKnown
  <2>5. TreeKnown("examine", l) /\ FaultKnown("examine", l)
    BY <2>0, <2>2 DEF TreeKnown, FaultKnown
  <2>6. QED
    BY <1>2, <2>1, <2>3, <2>4, <2>5 DEF Knows
<1>10. QED
  BY <1>1, <1>5, <1>6, <1>7, <1>8, <1>9, LooksFor

\* A stale entry is dropped.
LEMMA PrunedKnows ==
  ASSUME SeqInv, NEW c \in Calls, pc[c] = "prune", NEW l, l = loc[c], manifest[l.at] = None,
         index' = [index EXCEPT ![l.at] = None], UNCHANGED <<manifest, dirs, uncommitted, active, bounds>>
  PROVE  /\ l.ret = "judge" => Knows("judge", l)'
         /\ l.ret = "remove" => Knows("stale", l)'
<1>1. pc[c] \in Working /\ pc[c] \in Looking
  BY DEF Looking, Working, Points, Ended
<1>2. /\ PlaceFits(l) /\ WorkFits(pc[c], l)
      /\ IndexKnown(pc[c], l) /\ ManifestKnown(pc[c], l) /\ TargetKnown(pc[c], l)
      /\ TreeKnown(pc[c], l) /\ FaultKnown(pc[c], l)
  BY <1>1, KnownNow
<1>3. \A k \in Keys : k # l.at => index'[k] = index[k]
  BY DEF SeqInv, Inv, TypeOK
<1>4. index'[l.at] = None /\ UNCHANGED faults
  BY <1>1, LocalFacts DEF SeqInv, Inv, TypeOK, bounds
<1>5. /\ l.key \in Keys /\ l.wkey \in Keys /\ (l.op = "fork" => l.par \in Keys)
      /\ l.op = "fork" /\ l.wkey # l.key => index'[l.par] # None
  <2>1. l.key \in Keys /\ l.wkey \in Keys /\ (l.op = "fork" => l.par \in Keys)
    BY <1>1, LocalFacts DEF SeqInv
  <2>2. l.wkey # l.key => l.par # l.at /\ index[l.par] # None
    BY <1>2 DEF IndexKnown, ManifestKnown
  <2>3. QED
    BY <1>3, <2>1, <2>2
<1>6. ASSUME l.ret = "judge" PROVE Knows("judge", l)'
  <2>0. l.op = "fork" /\ l.at = l.key /\ l.old = None /\ l.oldEntry = None
    BY <1>1, <1>6, LooksFor
  <2>1. WorkFits("judge", l)
    BY <1>1, <1>2, <1>6, <2>0 DEF WorkFits, Looking, PastParent
  <2>2. IndexKnown("judge", l)'
    BY <1>4, <1>5, <2>0 DEF IndexKnown, NameFree
  <2>3. ManifestKnown("judge", l)' /\ TargetKnown("judge", l)' /\ FaultKnown("judge", l)'
    BY <1>2, <2>0 DEF ManifestKnown, TargetKnown, FaultKnown
  <2>4. TreeKnown("judge", l)'
    BY <1>1, <1>2, <1>6, <2>0 DEF TreeKnown, PastParent, Exists, Looking
  <2>5. QED
    BY <1>2, <2>1, <2>2, <2>3, <2>4 DEF Knows
<1>7. ASSUME l.ret = "remove" PROVE Knows("stale", l)'
  <2>0. l.op = "fork" /\ l.at = l.wkey /\ l.old # None
    BY <1>1, <1>7, LooksFor
  <2>1. WorkFits("stale", l)
    BY <1>1, <1>2, <1>7, <2>0 DEF WorkFits, Looking, PastParent
  <2>2. IndexKnown("stale", l)'
    BY <1>4, <1>5, <2>0 DEF IndexKnown, NameFree
  <2>3. ManifestKnown("stale", l)' /\ FaultKnown("stale", l)'
    BY <1>2, <1>4, <2>0 DEF ManifestKnown, FaultKnown
  <2>4. TargetKnown("stale", l)'
    BY <1>1, <1>2, <1>3, <1>5, <2>0 DEF TargetKnown, Looking
  <2>5. TreeKnown("stale", l)'
    BY <1>1, <1>2, <1>7, <2>0 DEF TreeKnown, PastParent, Exists, Looking
  <2>6. QED
    BY <1>2, <2>1, <2>2, <2>3, <2>4, <2>5 DEF Knows
<1>8. QED
  BY <1>6, <1>7

\* The steps of a lookup.
LEMMA LookupSeq ==
  ASSUME SeqInv, NEW c \in Calls, Lookup(c) \/ Stat(c) \/ Prune(c) PROVE After(c) /\ Files'
<1>0. PICK l : l = loc[c]
  OBVIOUS
<1>1. pc[c] \in Working /\ pc[c] \in Looking
  BY DEF Lookup, Stat, Prune, Looking, Working, Points, Ended
<1>2. /\ PlaceFits(l) /\ WorkFits(pc[c], l)
      /\ IndexKnown(pc[c], l) /\ ManifestKnown(pc[c], l) /\ TargetKnown(pc[c], l)
      /\ TreeKnown(pc[c], l) /\ FaultKnown(pc[c], l)
  BY <1>0, <1>1, KnownNow
<1>3. NotFound(c) => \/ l.ret = "judge" /\ Goto(c, "judge")
                     \/ l.ret = "remove" /\ Goto(c, "stale")
                     \/ Goto(c, "failed")
  BY <1>0 DEF NotFound
<1>4. CASE UNCHANGED <<disk, bounds>> /\ NotFound(c) /\ index[l.at] = None
  <2>1. CASE Goto(c, "failed")
    <3>1. After(c)
      BY <2>1, EndAfter DEF Ended
    <3>2. Files'
      BY <1>4 DEF disk, bounds, SeqInv, Files, TreesFit, IndexNeverDangles, Exists
    <3>3. QED
      BY <3>1, <3>2
  <2>2. CASE \E to : Go(c, l, to) /\ Knows(to, l)
    BY <1>4, <2>2, QuietAfter
  <2>3. QED
    BY <1>0, <1>1, <1>3, <1>4, <2>1, <2>2, NotFoundKnows DEF Goto
<1>5. CASE UNCHANGED <<disk, bounds>> /\ Found(c) /\ manifest[l.at] # None /\ pc[c] \in {"stat", "prune"}
  <2>1. \E m, to : Go(c, m, to) /\ Knows(to, m)
    BY <1>0, <1>5, FoundKnows
  <2>2. QED
    BY <1>5, <2>1, QuietAfter
<1>6. CASE UNCHANGED <<disk, bounds>> /\ Goto(c, "stat") /\ pc[c] = "get" /\ index[l.at] # None
  <2>1. WorkFits("stat", l)
    BY <1>2, <1>6 DEF WorkFits, Looking, PastParent
  <2>2. IndexKnown("stat", l)
    BY <1>2, <1>6 DEF IndexKnown, NameFree, PastParent, Looking
  <2>3. ManifestKnown("stat", l) /\ FaultKnown("stat", l)
    BY <1>2, <1>6 DEF ManifestKnown, FaultKnown, PastParent, Looking
  <2>4. TargetKnown("stat", l)
    BY <1>2, <1>6 DEF TargetKnown, Looking
  <2>5. TreeKnown("stat", l)
    BY <1>2, <1>6 DEF TreeKnown, PastParent, Looking
  <2>6. Knows("stat", l) /\ Go(c, l, "stat")
    BY <1>0, <1>2, <1>6, <2>1, <2>2, <2>3, <2>4, <2>5 DEF Knows, Goto
  <2>7. QED
    BY <1>6, <2>6, QuietAfter
<1>7. CASE UNCHANGED <<disk, bounds>> /\ Goto(c, "prune") /\ pc[c] = "stat"
  <2>1. WorkFits("prune", l)
    BY <1>2, <1>7 DEF WorkFits, Looking, PastParent
  <2>2. IndexKnown("prune", l)
    BY <1>2, <1>7 DEF IndexKnown, NameFree, PastParent, Looking
  <2>3. ManifestKnown("prune", l) /\ FaultKnown("prune", l)
    BY <1>2, <1>7 DEF ManifestKnown, FaultKnown, PastParent, Looking
  <2>4. TargetKnown("prune", l)
    BY <1>2, <1>7 DEF TargetKnown, Looking
  <2>5. TreeKnown("prune", l)
    BY <1>2, <1>7 DEF TreeKnown, PastParent, Looking
  <2>6. Knows("prune", l) /\ Go(c, l, "prune")
    BY <1>0, <1>2, <1>7, <2>1, <2>2, <2>3, <2>4, <2>5 DEF Knows, Goto
  <2>7. QED
    BY <1>7, <2>6, QuietAfter
<1>8. CASE Prune(c) /\ index' = [index EXCEPT ![l.at] = None] /\ NotFound(c) /\ manifest[l.at] = None
  <2>0. pc[c] = "prune" /\ UNCHANGED <<manifest, dirs, uncommitted, active, bounds>>
    BY <1>8 DEF Prune
  <2>1. /\ l.ret = "judge" => Knows("judge", l)'
        /\ l.ret = "remove" => Knows("stale", l)'
    BY <1>0, <1>8, <2>0, PrunedKnows
  <2>2. After(c)
    <3>1. CASE Goto(c, "failed")
      BY <3>1, EndAfter DEF Ended
    <3>2. CASE \E to : Go(c, l, to) /\ Knows(to, l)'
      BY <3>2 DEF After
    <3>3. QED
      BY <1>0, <1>3, <1>8, <2>1, <3>1, <3>2 DEF Goto
  <2>3. Files'
    <3>1. \A k \in Keys : index'[k] # None => index'[k] = index[k]
      BY <1>8 DEF SeqInv, Inv, TypeOK
    <3>2. UNCHANGED <<manifest, dirs, faults>>
      BY <2>0 DEF bounds
    <3>3. TreesFit'
      BY <3>1, <3>2 DEF SeqInv, Files, TreesFit, Exists
    <3>4. IndexNeverDangles'
      BY <3>1, <3>2 DEF SeqInv, Files, IndexNeverDangles
    <3>5. QED
      BY <3>3, <3>4 DEF Files
  <2>4. QED
    BY <2>2, <2>3
<1>9. CASE Lookup(c)
  BY <1>0, <1>4, <1>6, <1>9 DEF Lookup
<1>10. CASE Stat(c)
  BY <1>0, <1>5, <1>7, <1>10 DEF Stat
<1>11. CASE Prune(c)
  <2>1. pc[c] = "prune" /\ index[l.at] # None
    BY <1>2, <1>11 DEF Prune, IndexKnown
  <2>2. CASE /\ index[l.at] = None \/ manifest[l.at] = None
             /\ index' = [index EXCEPT ![l.at] = None]
             /\ NotFound(c)
    BY <1>8, <1>11, <2>1, <2>2
  <2>3. CASE index[l.at] # None /\ manifest[l.at] # None /\ Found(c) /\ UNCHANGED index
    BY <1>5, <1>11, <2>1, <2>3 DEF Prune, disk, bounds
  <2>4. QED
    BY <1>0, <1>11, <2>2, <2>3 DEF Prune
<1>12. QED
  BY <1>9, <1>10, <1>11

-----------------------------------------------------------------------------
(* The steps that decide.                                                  *)

\* A start has looked for a manifest under its name.
LEMMA ProbeSeq == ASSUME SeqInv, NEW c \in Calls, ProbeManifest(c) PROVE After(c) /\ Files'
<1>0. PICK l : l = loc[c]
  OBVIOUS
<1>1. pc[c] \in Working /\ pc[c] = "probe" /\ UNCHANGED <<disk, bounds>>
  BY DEF ProbeManifest, Working, Points, Ended
<1>2. /\ PlaceFits(l) /\ WorkFits(pc[c], l)
      /\ IndexKnown(pc[c], l) /\ ManifestKnown(pc[c], l) /\ TargetKnown(pc[c], l)
      /\ TreeKnown(pc[c], l) /\ FaultKnown(pc[c], l)
  BY <1>0, <1>1, KnownNow
<1>3. l.op = "start" /\ l.old = None /\ l.wkey = l.key
  <2>1. l.op = "start" /\ l.old = None
    BY <1>0, <1>1, LocalFacts DEF SeqInv, OpsAt
  <2>2. QED
    BY <1>2, <2>1 DEF PlaceFits
<1>4. Knows("write", l)
  <2>1. WorkFits("write", l)
    BY <1>1, <1>2, <1>3 DEF WorkFits, Looking, PastParent
  <2>2. IndexKnown("write", l)
    BY <1>1, <1>2, <1>3 DEF IndexKnown, NameFree
  <2>3. ManifestKnown("write", l) /\ TargetKnown("write", l) /\ FaultKnown("write", l) /\ TreeKnown("write", l)
    BY <1>2, <1>3 DEF ManifestKnown, TargetKnown, FaultKnown, TreeKnown
  <2>4. QED
    BY <1>2, <2>1, <2>2, <2>3 DEF Knows
<1>5. ASSUME l.made PROVE Knows("undoTree", l)
  <2>1. WorkFits("undoTree", l)
    BY <1>1, <1>2, <1>3, <1>5 DEF WorkFits, Looking, PastParent
  <2>2. IndexKnown("undoTree", l)
    BY <1>3 DEF IndexKnown, NameFree
  <2>3. ManifestKnown("undoTree", l) /\ TargetKnown("undoTree", l) /\ FaultKnown("undoTree", l)
        /\ TreeKnown("undoTree", l)
    BY <1>2, <1>3 DEF ManifestKnown, TargetKnown, FaultKnown, TreeKnown
  <2>4. QED
    BY <1>2, <2>1, <2>2, <2>3 DEF Knows
<1>6. Knows("failed", l)
  BY DEF Knows, Working, Ended
<1>7. PICK to \in {"write", "undoTree", "failed"} : Go(c, l, to) /\ (to = "undoTree" => l.made)
  BY <1>0 DEF ProbeManifest, Goto
<1>8. QED
  BY <1>1, <1>4, <1>5, <1>6, <1>7, QuietAfter

\* The parent of a fork is there.
LEMMA ForkParentKnows ==
  ASSUME SeqInv, NEW c \in Calls, pc[c] = "parent", NEW l, l = loc[c], l.op = "fork",
         manifest[l.par] # None, index[l.par] # None,
         NEW x, x = (IF l.mode = "same" THEN SameCheckout(l, manifest[l.par].tree) ELSE l),
         NEW y, y = [x EXCEPT !.at = l.key, !.ret = "judge"]
  PROVE  Knows("get", y)
<1>1. pc[c] \in Working
  BY DEF Working, Points, Ended
<1>2. /\ PlaceFits(l) /\ WorkFits("parent", l)
      /\ IndexKnown("parent", l) /\ ManifestKnown("parent", l) /\ TargetKnown("parent", l)
      /\ TreeKnown("parent", l) /\ FaultKnown("parent", l)
  BY <1>1, KnownNow
<1>3. /\ l \in Locals /\ l.key \in Keys /\ l.key[1] \in Names /\ l.par \in Keys
      /\ l.old = None /\ l.oldEntry = None /\ ~l.made
  BY <1>1, <1>2, LocalFacts DEF SeqInv, WorkFits, PastParent
<1> DEFINE k == <<l.key[1], manifest[l.par].tree>>
<1>4. manifest[l.par].tree \in Roots /\ k \in Keys
  <2>1. manifest[l.par] \in Manifest
    BY <1>3 DEF SeqInv, Inv, TypeOK
  <2>2. manifest[l.par].tree \in Roots
    BY <2>1 DEF Manifest
  <2>3. QED
    BY <1>3, <2>2 DEF Keys
<1>5. l.key = <<l.key[1], l.key[2]>>
  BY <1>3 DEF Keys
<1>6. /\ Exists(l.par[2])
      /\ l.par[2] # Main => manifest[l.par].tree = l.par[2]
  BY <1>3 DEF SeqInv, Files, TreesFit
<1> HIDE DEF k
<1>7. CASE l.mode = "same"
  <2>1. x = [l EXCEPT !.tree = manifest[l.par].tree, !.wkey = k]
    BY <1>7 DEF SameCheckout, k
  <2>2. x \in Locals
    BY ZenonT(40), <1>3, <1>4, <2>1 DEF Locals
  <2>3. /\ x.op = "fork" /\ x.key = l.key /\ x.wkey = k /\ x.par = l.par /\ x.mode = "same"
        /\ x.tree = manifest[l.par].tree /\ x.hold = l.hold /\ ~x.made /\ x.old = None
        /\ x.oldEntry = None /\ x.force = l.force
    BY ZenonT(40), <1>3, <1>7, <2>1 DEF Locals
  <2>4. /\ y.op = "fork" /\ y.key = l.key /\ y.wkey = k /\ y.par = l.par /\ y.mode = "same"
        /\ y.tree = manifest[l.par].tree /\ y.hold = l.hold /\ ~y.made /\ y.old = None
        /\ y.oldEntry = None /\ y.force = l.force /\ y.at = l.key /\ y.ret = "judge"
    <3>1. y.op = "fork" /\ y.key = l.key /\ y.wkey = k /\ y.par = l.par
      BY ZenonT(60), <2>2, <2>3 DEF Locals
    <3>2. y.mode = "same" /\ y.tree = manifest[l.par].tree /\ y.hold = l.hold /\ y.force = l.force
      BY ZenonT(60), <2>2, <2>3 DEF Locals
    <3>3. ~y.made
      BY <2>2, <2>3 DEF Locals
    <3>4. y.old = None /\ y.oldEntry = None /\ y.at = l.key /\ y.ret = "judge"
      BY <2>2, <2>3 DEF Locals
    <3>5. QED
      BY <3>1, <3>2, <3>3, <3>4
  <2>5. l.hold = "none" /\ l.key[2] = l.par[2]
    BY <1>2, <1>7 DEF PlaceFits
  <2>6. k[1] = l.key[1] /\ k[2] = manifest[l.par].tree
    BY DEF k
  <2>7. k # l.key => l.key[2] = Main /\ k[2] # Main
    BY <1>5, <1>6, <2>5, <2>6 DEF k
  <2>8. PlaceFits(y)
    BY <2>4, <2>5, <2>6, <2>7 DEF PlaceFits
  <2>9. WorkFits("get", y)
    BY <2>4 DEF WorkFits, Looking, PastParent
  <2>10. IndexKnown("get", y) /\ ManifestKnown("get", y) /\ TargetKnown("get", y) /\ FaultKnown("get", y)
    BY <2>4 DEF IndexKnown, NameFree, ManifestKnown, TargetKnown, FaultKnown
  <2>11. TreeKnown("get", y)
    BY <1>6, <2>4, <2>5 DEF TreeKnown
  <2>12. QED
    BY <2>8, <2>9, <2>10, <2>11 DEF Knows
<1>8. CASE l.mode # "same"
  <2>1. /\ y.op = "fork" /\ y.key = l.key /\ y.wkey = l.wkey /\ y.par = l.par /\ y.mode = l.mode
        /\ y.tree = l.tree /\ y.hold = l.hold /\ ~y.made /\ y.old = None
        /\ y.oldEntry = None /\ y.force = l.force /\ y.at = l.key /\ y.ret = "judge"
    BY <1>3, <1>8 DEF Locals
  <2>2. PlaceFits(y) /\ y.wkey = y.key
    BY <1>2, <1>8, <2>1 DEF PlaceFits
  <2>3. WorkFits("get", y)
    BY <2>1 DEF WorkFits, Looking, PastParent
  <2>4. IndexKnown("get", y) /\ ManifestKnown("get", y) /\ TargetKnown("get", y) /\ FaultKnown("get", y)
    BY <2>1, <2>2 DEF IndexKnown, NameFree, ManifestKnown, TargetKnown, FaultKnown
  <2>5. TreeKnown("get", y)
    BY <1>2, <1>8, <2>1 DEF TreeKnown
  <2>6. QED
    BY <2>2, <2>3, <2>4, <2>5 DEF Knows
<1>9. QED
  BY <1>7, <1>8

\* The parent is read.
LEMMA ReadParentSeq == ASSUME SeqInv, NEW c \in Calls, ReadParent(c) PROVE After(c) /\ Files'
<1>0. PICK l : l = loc[c]
  OBVIOUS
<1>1. pc[c] \in Working /\ pc[c] = "parent" /\ UNCHANGED <<disk, bounds>>
  BY DEF ReadParent, Working, Points, Ended
<1>2. /\ PlaceFits(l) /\ WorkFits(pc[c], l)
      /\ IndexKnown(pc[c], l) /\ ManifestKnown(pc[c], l) /\ TargetKnown(pc[c], l)
      /\ TreeKnown(pc[c], l) /\ FaultKnown(pc[c], l)
  BY <1>0, <1>1, KnownNow
<1>3. l.op \in {"resume", "relaunch", "fork"} /\ l.old = None /\ ~l.made /\ l.oldEntry = None
  BY <1>0, <1>1, <1>2, LocalFacts DEF SeqInv, OpsAt, WorkFits, PastParent
<1>4. CASE Goto(c, "failed")
  <2>1. Knows("failed", l)
    BY DEF Knows, Working, Ended
  <2>2. QED
    BY <1>0, <1>1, <1>4, <2>1, QuietAfter DEF Goto
<1>5. CASE /\ manifest[l.par] # None /\ index[l.par] # None /\ l.op = "fork"
           /\ \E x, y : /\ x = (IF l.mode = "same" THEN SameCheckout(l, manifest[l.par].tree) ELSE l)
                        /\ y = [x EXCEPT !.at = l.key, !.ret = "judge"]
                        /\ Go(c, y, "get")
  BY ZenonT(40), <1>0, <1>1, <1>5, ForkParentKnows, QuietAfter
<1>6. CASE manifest[l.par] # None /\ l.op # "fork" /\ \E to \in {"name", "exists"} : Go(c, l, to)
  <2>1. PICK to \in {"name", "exists"} : Go(c, l, to)
    BY <1>6
  <2>2. l.op \in {"resume", "relaunch"} /\ l.wkey = l.key
    BY <1>2, <1>3, <1>6 DEF PlaceFits
  <2>3. WorkFits(to, l)
    BY <1>1, <1>2, <1>3, <2>2 DEF WorkFits, Looking, PastParent
  <2>4. IndexKnown(to, l)
    BY <1>1, <1>2, <2>2 DEF IndexKnown, NameFree
  <2>5. ManifestKnown(to, l) /\ TargetKnown(to, l) /\ FaultKnown(to, l) /\ TreeKnown(to, l)
    BY <1>3, <1>6, <2>2 DEF ManifestKnown, TargetKnown, FaultKnown, TreeKnown
  <2>6. QED
    BY <1>1, <1>2, <2>1, <2>3, <2>4, <2>5, QuietAfter DEF Knows
<1>7. QED
  <2>1. CASE l.op # "fork" /\ manifest[l.par] # None /\ Goto(c, IF l.auto THEN "name" ELSE "exists")
    BY <1>0, <1>6, <2>1 DEF Goto
  <2>2. CASE /\ manifest[l.par] # None /\ index[l.par] # None /\ l.op = "fork"
             /\ Go(c, [(IF l.mode = "same" THEN SameCheckout(l, manifest[l.par].tree) ELSE l)
                         EXCEPT !.at = l.key, !.ret = "judge"], "get")
    BY <1>5, <2>2
  <2>3. QED
    BY <1>0, <1>3, <1>4, <2>1, <2>2 DEF ReadParent

\* A resume has its name.
LEMMA NameSeq ==
  ASSUME SeqInv, NEW c \in Calls, GenerateResumeName(c) \/ CheckNameFree(c) PROVE After(c) /\ Files'
<1>0. PICK l : l = loc[c]
  OBVIOUS
<1>1. /\ pc[c] \in Working /\ UNCHANGED <<disk, bounds>>
      /\ \/ pc[c] = "name" /\ GenerateResumeName(c)
         \/ pc[c] = "exists" /\ CheckNameFree(c)
  BY DEF GenerateResumeName, CheckNameFree, Working, Points, Ended
<1>2. /\ PlaceFits(l) /\ WorkFits(pc[c], l)
      /\ IndexKnown(pc[c], l) /\ ManifestKnown(pc[c], l) /\ TargetKnown(pc[c], l)
      /\ TreeKnown(pc[c], l) /\ FaultKnown(pc[c], l)
  BY <1>0, <1>1, KnownNow
<1>3. /\ l \in Locals /\ l.op \in {"resume", "relaunch"} /\ l.old = None /\ ~l.made /\ l.par \in Keys
      /\ pc[c] = "name" => l.op = "resume"
  <2>1. l \in Locals /\ l.op \in OpsAt[pc[c]]
    BY <1>0, <1>1, LocalFacts DEF SeqInv
  <2>2. l.op \in {"resume", "relaunch"} /\ (pc[c] = "name" => l.op = "resume")
    BY <1>1, <2>1 DEF OpsAt
  <2>3. l.old = None /\ ~l.made /\ l.par \in Keys
    BY <1>0, <1>1, <2>2, LocalFacts DEF SeqInv
  <2>4. QED
    BY <2>1, <2>2, <2>3
<1>4. /\ l.wkey = l.key /\ manifest[l.par] # None /\ index[l.par] # None /\ index[l.par].tree = l.tree
      /\ l.key[2] = l.par[2] /\ l.hold = "none"
  BY <1>1, <1>2, <1>3 DEF PlaceFits, IndexKnown, ManifestKnown, PastParent, Looking
<1>5. CASE pc[c] = "name" /\ GenerateResumeName(c)
  <2>0. PICK k \in GeneratedKeys(l.par, {l.par[2]}) : Go(c, [l EXCEPT !.key = k, !.wkey = k], "exists")
    BY <1>0, <1>5 DEF GenerateResumeName
  <2>1. PICK y : y = [l EXCEPT !.key = k, !.wkey = k] /\ Go(c, y, "exists")
    BY <2>0
  <2>2. /\ y.op = l.op /\ y.key = k /\ y.wkey = k /\ y.par = l.par /\ y.tree = l.tree
        /\ y.hold = "none" /\ ~y.made /\ y.old = None
    BY <1>3, <1>4, <2>1 DEF Locals
  <2>3. k[2] = l.par[2]
    BY <2>0 DEF GeneratedKeys
  <2>4. PlaceFits(y) /\ WorkFits("exists", y)
    BY <1>3, <2>2, <2>3 DEF PlaceFits, WorkFits, Looking, PastParent
  <2>5. IndexKnown("exists", y) /\ ManifestKnown("exists", y)
    BY <1>3, <1>4, <2>2 DEF IndexKnown, NameFree, ManifestKnown
  <2>6. TargetKnown("exists", y) /\ FaultKnown("exists", y) /\ TreeKnown("exists", y)
    BY <1>3, <2>2 DEF TargetKnown, FaultKnown, TreeKnown
  <2>7. QED
    BY <1>1, <2>1, <2>4, <2>5, <2>6, QuietAfter DEF Knows
<1>6. CASE pc[c] = "exists" /\ CheckNameFree(c) /\ index[l.key] = None
  <2>1. Go(c, l, "write")
    BY <1>0, <1>6 DEF CheckNameFree, Goto
  <2>2. WorkFits("write", l)
    BY <1>2, <1>3 DEF WorkFits, Looking, PastParent
  <2>3. IndexKnown("write", l) /\ ManifestKnown("write", l)
    BY <1>3, <1>4, <1>6 DEF IndexKnown, NameFree, ManifestKnown
  <2>4. TargetKnown("write", l) /\ FaultKnown("write", l) /\ TreeKnown("write", l)
    BY <1>3 DEF TargetKnown, FaultKnown, TreeKnown
  <2>5. QED
    BY <1>1, <1>2, <2>1, <2>2, <2>3, <2>4, QuietAfter DEF Knows
<1>7. CASE pc[c] = "exists" /\ CheckNameFree(c) /\ index[l.key] # None
  <2>1. Go(c, l, "failed") /\ Knows("failed", l)
    BY <1>0, <1>7 DEF CheckNameFree, Goto, Knows, Working, Ended
  <2>2. QED
    BY <1>1, <2>1, QuietAfter
<1>8. QED
  BY <1>1, <1>5, <1>6, <1>7

\* A fork's target is judged.
LEMMA JudgeSeq == ASSUME SeqInv, NEW c \in Calls, JudgeTarget(c) PROVE After(c) /\ Files'
<1>0. PICK l : l = loc[c]
  OBVIOUS
<1>1. pc[c] \in Working /\ pc[c] = "judge" /\ UNCHANGED <<disk, bounds>>
  BY DEF JudgeTarget, Working, Points, Ended
<1>2. /\ PlaceFits(l) /\ WorkFits(pc[c], l)
      /\ IndexKnown(pc[c], l) /\ ManifestKnown(pc[c], l) /\ TargetKnown(pc[c], l)
      /\ TreeKnown(pc[c], l) /\ FaultKnown(pc[c], l)
  BY <1>0, <1>1, KnownNow
<1>3. l \in Locals /\ l.op = "fork" /\ l.old = None /\ ~l.made /\ l.oldEntry = index[l.key]
  <2>1. l \in Locals /\ l.op = "fork"
    BY <1>0, <1>1, LocalFacts DEF SeqInv, OpsAt
  <2>2. l.old = None /\ ~l.made /\ l.oldEntry = index[l.key]
    BY <1>1, <1>2 DEF WorkFits, IndexKnown
  <2>3. QED
    BY <2>1, <2>2
<1>4. CASE Goto(c, "failed")
  <2>1. Knows("failed", l)
    BY DEF Knows, Working, Ended
  <2>2. QED
    BY <1>0, <1>1, <1>4, <2>1, QuietAfter DEF Goto
<1>5. CASE /\ manifest[l.key] = None /\ l.oldEntry = None
           /\ Goto(c, IF l.mode = "worktree" THEN "tree" ELSE "write")
  <2>1. PICK to \in {"tree", "write"} : Go(c, l, to) /\ (to = "tree" <=> l.mode = "worktree")
    BY <1>0, <1>5 DEF Goto
  <2>2. to = "tree" => l.wkey = l.key /\ l.hold = "owner"
    BY <1>2, <1>3, <2>1 DEF PlaceFits
  <2>3. WorkFits(to, l)
    BY <1>2, <1>3, <2>1, <2>2 DEF WorkFits, Looking, PastParent
  <2>4. IndexKnown(to, l)
    BY <1>1, <1>2, <1>3, <1>5, <2>1, <2>2 DEF IndexKnown, NameFree
  <2>5. ManifestKnown(to, l)
    BY <1>1, <1>2, <1>3, <1>5 DEF ManifestKnown
  <2>6. TargetKnown(to, l) /\ FaultKnown(to, l)
    BY <1>3, <2>1 DEF TargetKnown, FaultKnown
  <2>7. TreeKnown(to, l)
    BY <1>1, <1>2, <1>3, <2>1 DEF TreeKnown, PastParent, Looking
  <2>8. QED
    BY <1>1, <1>2, <2>1, <2>3, <2>4, <2>5, <2>6, <2>7, QuietAfter DEF Knows
<1>6. CASE /\ l.force /\ CanForceReplace(l, manifest[l.key])
           /\ Go(c, [l EXCEPT !.old = manifest[l.key]], IF l.mode = "worktree" THEN "tree" ELSE "swap")
  <2>1. PICK y, to : /\ y = [l EXCEPT !.old = manifest[l.key]] /\ to \in {"tree", "swap"}
                     /\ Go(c, y, to) /\ (to = "tree" <=> l.mode = "worktree")
    BY <1>6
  <2>2. /\ y.op = "fork" /\ y.key = l.key /\ y.wkey = l.wkey /\ y.par = l.par /\ y.mode = l.mode
        /\ y.tree = l.tree /\ y.hold = l.hold /\ ~y.made /\ y.old = manifest[l.key]
        /\ y.oldEntry = index[l.key] /\ y.force = l.force
    BY <1>3, <2>1 DEF Locals
  <2>3. /\ y.old # None /\ y.old.fork /\ y.old.parent = y.par[1] /\ y.old.tree = y.tree
        /\ y.old.hold = y.hold /\ y.key \notin active /\ y.force
    BY <1>6, <2>2 DEF CanForceReplace
  <2>4. PlaceFits(y)
    BY <1>2, <1>3, <2>2 DEF PlaceFits
  <2>5. to = "tree" => y.wkey = y.key /\ y.hold = "owner"
    BY <2>1, <2>2, <2>4 DEF PlaceFits
  <2>6. WorkFits(to, y)
    BY <2>1, <2>2, <2>3, <2>5 DEF WorkFits, Looking, PastParent
  <2>7. IndexKnown(to, y)
    BY <1>2, <2>1, <2>2, <2>3 DEF IndexKnown, NameFree
  <2>8. ManifestKnown(to, y)
    BY <1>1, <1>2, <2>1, <2>2, <2>3 DEF ManifestKnown
  <2>9. TargetKnown(to, y)
    BY <2>1, <2>2, <2>3 DEF TargetKnown, Looking
  <2>10. TreeKnown(to, y) /\ FaultKnown(to, y)
    BY <1>1, <1>2, <1>3, <2>1, <2>2 DEF TreeKnown, FaultKnown, PastParent, Looking
  <2>11. QED
    BY <1>1, <2>1, <2>4, <2>6, <2>7, <2>8, <2>9, <2>10, QuietAfter DEF Knows
<1>7. QED
  BY <1>0, <1>4, <1>5, <1>6 DEF JudgeTarget

\* The fork goes on to remove what it replaces.
LEMMA SwapSeq == ASSUME SeqInv, NEW c \in Calls, SwapTarget(c) PROVE After(c) /\ Files'
<1>0. PICK l : l = loc[c]
  OBVIOUS
<1>1. pc[c] \in Working /\ pc[c] = "swap" /\ UNCHANGED <<disk, bounds>>
  BY DEF SwapTarget, Working, Points, Ended
<1>2. /\ PlaceFits(l) /\ WorkFits(pc[c], l)
      /\ IndexKnown(pc[c], l) /\ ManifestKnown(pc[c], l) /\ TargetKnown(pc[c], l)
      /\ TreeKnown(pc[c], l) /\ FaultKnown(pc[c], l)
  BY <1>0, <1>1, KnownNow
<1>3. l \in Locals /\ l.op = "fork" /\ l.old # None
  <2>1. l \in Locals /\ l.op = "fork"
    BY <1>0, <1>1, LocalFacts DEF SeqInv, OpsAt
  <2>2. QED
    BY <1>1, <1>2, <2>1 DEF WorkFits
<1>4. PICK y : y = [l EXCEPT !.at = l.wkey, !.ret = "remove"] /\ Go(c, y, "get")
  BY <1>0 DEF SwapTarget
<1>5. /\ y.op = "fork" /\ y.key = l.key /\ y.wkey = l.wkey /\ y.par = l.par /\ y.mode = l.mode
      /\ y.tree = l.tree /\ y.hold = l.hold /\ y.made = l.made /\ y.old = l.old
      /\ y.oldEntry = l.oldEntry /\ y.force = l.force /\ y.at = l.wkey /\ y.ret = "remove"
  BY <1>3, <1>4 DEF Locals
<1>6. PlaceFits(y)
  BY <1>2, <1>3, <1>5 DEF PlaceFits
<1>7. WorkFits("get", y)
  BY <1>1, <1>2, <1>3, <1>5 DEF WorkFits, Looking, PastParent
<1>8. IndexKnown("get", y) /\ ManifestKnown("get", y) /\ FaultKnown("get", y)
  BY <1>2, <1>3, <1>5 DEF IndexKnown, NameFree, ManifestKnown, FaultKnown
<1>9. TargetKnown("get", y)
  BY <1>1, <1>2, <1>5 DEF TargetKnown, Looking
<1>10. TreeKnown("get", y)
  <2>1. PastParent("swap", l)
    BY DEF PastParent, Looking
  <2>2. l.made => l.tree \in dirs
    BY <1>2 DEF TreeKnown
  <2>3. /\ l.op = "fork" /\ l.mode = "into" => Exists(l.key[2])
        /\ l.op = "fork" /\ l.mode = "same" /\ l.wkey = l.key => Exists(l.key[2])
    BY <1>1, <1>2, <2>1 DEF TreeKnown
  <2>4. QED
    BY <1>3, <1>5, <2>2, <2>3 DEF TreeKnown
<1>11. QED
  BY <1>1, <1>4, <1>6, <1>7, <1>8, <1>9, <1>10, QuietAfter DEF Knows

-----------------------------------------------------------------------------
(* The steps that write.                                                   *)

\* What fails is counted.
LEMMA FaultCount ==
  ASSUME Inv, Fault \/ UNCHANGED bounds
  PROVE  faults \in Nat /\ faults' \in Nat /\ faults' >= faults /\ (Fault => faults' >= 1)
         /\ (Fault /\ faults >= 1 => faults' >= 2)
<1>1. faults \in Nat
  BY DEF Inv, TypeOK
<1>2. CASE Fault
  BY <1>1, <1>2 DEF Fault
<1>3. CASE UNCHANGED bounds /\ ~Fault
  BY <1>1, <1>3 DEF bounds
<1>4. QED
  BY <1>2, <1>3

\* Entries go.
LEMMA FewerEntries ==
  ASSUME SeqInv, \A k \in Keys : index'[k] # None => index'[k] = index[k],
         UNCHANGED <<manifest, dirs>>, Fault \/ UNCHANGED bounds
  PROVE  Files'
<1>1. TreesFit'
  BY DEF SeqInv, Files, TreesFit, Exists
<1>2. faults \in Nat /\ faults' \in Nat /\ faults' >= faults
  BY FaultCount DEF SeqInv
<1>3. \A k \in Keys : k[2] = Main /\ index[k] # None /\ manifest[k] = None => faults >= 2
  BY DEF SeqInv, Files, IndexNeverDangles
<1>4. IndexNeverDangles'
  BY <1>2, <1>3 DEF IndexNeverDangles
<1>5. QED
  BY <1>1, <1>4 DEF Files

\* Manifests go, none from under an entry of the main checkout.
LEMMA FewerManifests ==
  ASSUME SeqInv, UNCHANGED index, Fault \/ UNCHANGED bounds,
         \A k \in Keys : manifest'[k] # None =>
            manifest'[k] = manifest[k] /\ (Exists(k[2]) => Exists(k[2])'),
         \A k \in Keys : k[2] = Main /\ index[k] # None => manifest'[k] = manifest[k]
  PROVE  Files'
<1>1. TreesFit'
  <2>1. SUFFICES ASSUME NEW k \in Keys
                 PROVE  /\ manifest'[k] # None => /\ Exists(k[2])'
                                                  /\ k[2] # Main => manifest'[k].tree = k[2]
                                                  /\ manifest'[k].hold # "none" => manifest'[k].tree # Main
                        /\ index'[k] # None /\ k[2] # Main => index'[k].tree = k[2]
    BY DEF TreesFit
  <2>2. /\ manifest[k] # None => /\ Exists(k[2])
                                 /\ k[2] # Main => manifest[k].tree = k[2]
                                 /\ manifest[k].hold # "none" => manifest[k].tree # Main
        /\ index[k] # None /\ k[2] # Main => index[k].tree = k[2]
    BY DEF SeqInv, Files, TreesFit
  <2>3. QED
    BY <2>2
<1>2. faults \in Nat /\ faults' \in Nat /\ faults' >= faults
  BY FaultCount DEF SeqInv
<1>3. \A k \in Keys : k[2] = Main /\ index[k] # None /\ manifest[k] = None => faults >= 2
  BY DEF SeqInv, Files, IndexNeverDangles
<1>4. IndexNeverDangles'
  BY <1>2, <1>3 DEF IndexNeverDangles
<1>5. QED
  BY <1>1, <1>4 DEF Files

\* Where a call writes.
LEMMA Apart ==
  ASSUME SeqInv, NEW c \in Calls, pc[c] \in Working, NEW l, l = loc[c]
  PROVE  /\ l.op \in {"start", "resume", "relaunch", "fork", "delete", "orphan"}
         /\ l.wkey # l.key => /\ l.op = "fork" /\ l.mode = "same" /\ l.key[2] = Main /\ l.wkey[2] # Main
                              /\ l.par # l.wkey
<1>1. l \in Locals /\ l.op \in OpsAt[pc[c]] /\ PlaceFits(l)
  BY LocalFacts, KnownNow DEF SeqInv
<1>2. l.op # "none" /\ l.op # "list"
  <2>1. \A w \in Working : "none" \notin OpsAt[w] /\ "list" \notin OpsAt[w]
    BY DEF Working, Points, Ended, OpsAt, Creators
  <2>2. QED
    BY <1>1, <2>1
<1>3. l.op \in {"start", "resume", "relaunch", "fork", "delete", "orphan"}
  BY <1>1, <1>2 DEF Locals
<1>4. ASSUME l.wkey # l.key
      PROVE  l.op = "fork" /\ l.mode = "same" /\ l.key[2] = Main /\ l.wkey[2] # Main /\ l.par # l.wkey
  <2>1. l.op = "fork"
    BY <1>1, <1>3, <1>4 DEF PlaceFits
  <2>2. l.mode = "same" /\ l.key[2] = Main /\ l.wkey[2] # Main
    BY <1>1, <1>4, <2>1 DEF PlaceFits
  <2>3. l.key[2] = l.par[2]
    BY <1>1, <2>1, <2>2 DEF PlaceFits
  <2>4. QED
    BY <2>1, <2>2, <2>3
<1>5. QED
  BY <1>3, <1>4

\* A worktree of its own.
LEMMA OwnTree ==
  ASSUME SeqInv, NEW c \in Calls, pc[c] \in Working, NEW l, l = loc[c], l.op \in {"start", "fork"},
         l.hold = "owner"
  PROVE  /\ l.tree = l.key[1] /\ l.tree \in Names /\ l.tree # Main /\ l.wkey = l.key
         /\ l.op = "fork" => l.mode = "worktree" /\ l.key[2] = l.tree
<1>1. l \in Locals /\ PlaceFits(l) /\ l.key[1] \in Names
  BY LocalFacts, KnownNow DEF SeqInv
<1>2. QED
  BY <1>1, SessionLifecycleAssumption DEF PlaceFits

\* A worktree is made, in the place of the one replaced.
LEMMA CreateSeq == ASSUME SeqInv, NEW c \in Calls, CreateWorktree(c) PROVE After(c) /\ Files'
<1>0. PICK l : l = loc[c]
  OBVIOUS
<1>1. /\ pc[c] \in Working /\ pc[c] = "tree" /\ UNCHANGED <<index, active>>
      /\ Fault \/ UNCHANGED bounds
  BY DEF CreateWorktree, Working, Points, Ended
<1>2. /\ PlaceFits(l) /\ WorkFits("tree", l)
      /\ IndexKnown("tree", l) /\ ManifestKnown("tree", l) /\ TargetKnown("tree", l)
      /\ TreeKnown("tree", l) /\ FaultKnown("tree", l)
  BY <1>0, <1>1, KnownNow
<1>3. /\ l \in Locals /\ l.op \in {"start", "fork"} /\ ~l.made /\ l.hold = "owner"
      /\ l.key \in Keys /\ (l.old # None => l.op = "fork")
  BY <1>0, <1>1, <1>2, LocalFacts DEF SeqInv, OpsAt, WorkFits
<1>4. /\ l.tree = l.key[1] /\ l.tree \in Names /\ l.tree # Main /\ l.wkey = l.key
      /\ l.op = "fork" => l.mode = "worktree" /\ l.key[2] = l.tree
  BY <1>0, <1>1, <1>3, OwnTree
<1>5. CASE UNCHANGED <<manifest, dirs, uncommitted>> /\ Goto(c, "failed")
  <2>1. After(c)
    BY <1>5, EndAfter DEF Ended
  <2>2. Files'
    BY <1>1, <1>5, FewerEntries
  <2>3. QED
    BY <2>1, <2>2
<1>6. CASE l.old # None /\ RemoveTree(l.tree) /\ UNCHANGED <<pc, loc, bounds>>
  <2>1. Go(c, l, "tree")
    <3>1. pc = [pc EXCEPT ![c] = "tree"] /\ loc = [loc EXCEPT ![c] = l]
      BY <1>0, <1>1 DEF SeqInv, Inv, PlacesOK
    <3>2. QED
      BY <1>6, <3>1 DEF Go, Ended
  <2>2. l.op = "fork" /\ l.mode = "worktree"
    BY <1>3, <1>4, <1>6
  <2>3. IndexKnown("tree", l)' /\ ManifestKnown("tree", l)'
    BY <1>4, <1>6, <2>2 DEF IndexKnown, NameFree, ManifestKnown
  <2>4. TargetKnown("tree", l)'
    BY <1>1, <1>2, <2>2 DEF TargetKnown, Looking
  <2>5. TreeKnown("tree", l)' /\ FaultKnown("tree", l)'
    BY <1>3, <2>2 DEF TreeKnown, FaultKnown
  <2>6. Knows("tree", l)'
    BY <1>2, <2>3, <2>4, <2>5 DEF Knows
  <2>7. \A k \in Keys : /\ manifest'[k] # None =>
                             manifest'[k] = manifest[k] /\ (Exists(k[2]) => Exists(k[2])')
                        /\ k[2] = Main => manifest'[k] = manifest[k]
    BY <1>4, <1>6 DEF RemoveTree, Exists
  <2>8. Files'
    BY <1>1, <2>7, FewerManifests
  <2>9. QED
    BY <2>1, <2>6, <2>8 DEF After
<1>7. CASE /\ l.tree \notin dirs /\ dirs' = dirs \cup {l.tree} /\ UNCHANGED <<manifest, bounds>>
           /\ Go(c, [l EXCEPT !.made = TRUE],
                 IF l.op = "start" THEN "probe" ELSE IF l.old # None THEN "swap" ELSE "write")
  <2>0. UNCHANGED <<manifest, index, active, faults>>
    BY <1>1, <1>7 DEF bounds
  <2>1. PICK y, to : /\ y = [l EXCEPT !.made = TRUE] /\ Go(c, y, to)
                     /\ \/ to = "probe" /\ l.op = "start"
                        \/ to = "swap" /\ l.op = "fork" /\ l.old # None
                        \/ to = "write" /\ l.op = "fork" /\ l.old = None
    BY <1>3, <1>7
  <2>2. /\ y.op = l.op /\ y.key = l.key /\ y.wkey = l.wkey /\ y.par = l.par /\ y.mode = l.mode
        /\ y.tree = l.tree /\ y.hold = "owner" /\ y.made /\ y.old = l.old
        /\ y.oldEntry = l.oldEntry /\ y.force = l.force
    BY <1>3, <2>1 DEF Locals
  <2>3. PlaceFits(y)
    BY <1>2, <1>3, <2>2 DEF PlaceFits
  <2>4. WorkFits(to, y)
    BY <1>2, <1>3, <2>1, <2>2 DEF WorkFits, Looking, PastParent
  <2>5. IndexKnown(to, y)'
    BY <1>2, <1>3, <1>4, <2>0, <2>1, <2>2 DEF IndexKnown, NameFree
  <2>6. ManifestKnown(to, y)'
    BY <1>2, <1>3, <1>4, <2>0, <2>1, <2>2 DEF ManifestKnown
  <2>7. TargetKnown(to, y)'
    <3>1. l.op = "fork" => manifest[l.key] = None
      BY <1>3, <1>4, <1>7 DEF SeqInv, Files, TreesFit, Exists
    <3>2. QED
      BY <1>2, <1>3, <1>4, <2>0, <2>2, <3>1 DEF TargetKnown
  <2>8. TreeKnown(to, y)'
    BY <1>3, <1>4, <1>7, <2>1, <2>2 DEF TreeKnown
  <2>9. Knows(to, y)'
    BY <2>1, <2>3, <2>4, <2>5, <2>6, <2>7, <2>8 DEF Knows, FaultKnown
  <2>10. Files'
    BY <1>1, <1>7, <2>0, FewerManifests DEF Exists
  <2>11. QED
    BY <2>1, <2>9, <2>10 DEF After
<1>8. QED
  <2>1. l.key[1] \in dirs \/ l.key[1] \notin dirs
    OBVIOUS
  <2>2. QED
    BY <1>0, <1>4, <1>5, <1>6, <1>7 DEF CreateWorktree

\* What is left of a replaced fork goes.
LEMMA StaleSeq == ASSUME SeqInv, NEW c \in Calls, ClearStale(c) PROVE After(c) /\ Files'
<1>0. PICK l : l = loc[c]
  OBVIOUS
<1>1. /\ pc[c] \in Working /\ pc[c] = "stale" /\ UNCHANGED <<index, dirs, faults, bounds>>
      /\ manifest' = [manifest EXCEPT ![l.wkey] = None] /\ active' = active \ {l.wkey}
      /\ Go(c, l, "write")
  BY <1>0 DEF ClearStale, Working, Points, Ended, bounds, Goto
<1>2. /\ PlaceFits(l) /\ WorkFits("stale", l)
      /\ IndexKnown("stale", l) /\ ManifestKnown("stale", l) /\ TargetKnown("stale", l)
      /\ TreeKnown("stale", l) /\ FaultKnown("stale", l)
  BY <1>0, <1>1, KnownNow
<1>3. /\ l.op = "fork" /\ l.old # None /\ l.key \in Keys /\ l.wkey \in Keys /\ l.par \in Keys
      /\ index[l.wkey] = None
      /\ l.wkey # l.key => l.par # l.wkey /\ l.wkey[2] # Main
  <2>1. l.op = "fork" /\ l.key \in Keys /\ l.wkey \in Keys /\ l.par \in Keys
    BY <1>0, <1>1, LocalFacts DEF SeqInv, OpsAt
  <2>2. l.old # None /\ index[l.wkey] = None
    BY <1>2, <2>1 DEF WorkFits, IndexKnown, NameFree
  <2>3. QED
    BY <1>0, <1>1, <2>1, <2>2, Apart
<1>4. \A k \in Keys : /\ k # l.wkey => manifest'[k] = manifest[k]
                      /\ manifest'[l.wkey] = None
  BY <1>1, <1>3 DEF SeqInv, Inv, TypeOK
<1>5. WorkFits("write", l)
  BY <1>2, <1>3 DEF WorkFits, Looking, PastParent
<1>6. IndexKnown("write", l)'
  BY <1>1, <1>2, <1>3 DEF IndexKnown, NameFree
<1>7. ManifestKnown("write", l)'
  BY <1>2, <1>3, <1>4 DEF ManifestKnown
<1>8. TargetKnown("write", l)'
  BY <1>1, <1>2, <1>3, <1>4 DEF TargetKnown, Looking
<1>9. TreeKnown("write", l)' /\ FaultKnown("write", l)'
  BY <1>1, <1>2 DEF TreeKnown, FaultKnown, PastParent, Looking, Exists
<1>10. Files'
  BY <1>1, <1>3, <1>4, FewerManifests DEF Exists
<1>11. QED
  BY <1>1, <1>2, <1>5, <1>6, <1>7, <1>8, <1>9, <1>10 DEF Knows, After

\* What a call rolls back to.
LEMMA UndoKnows ==
  ASSUME SeqInv, NEW c \in Calls, pc[c] \in {"write", "undo"}, NEW l, l = loc[c],
         UNCHANGED <<index, active>>, dirs \subseteq dirs', faults' \in Nat,
         \A k \in Keys : k # l.wkey => manifest'[k] = manifest[k],
         l.old # None => faults' >= 1
  PROVE  Knows(AfterUndo(l), l)'
<1>1. pc[c] \in Working /\ pc[c] \notin Looking /\ pc[c] # "parent"
  BY DEF Working, Points, Ended, Looking
<1>2. /\ PlaceFits(l) /\ WorkFits(pc[c], l)
      /\ IndexKnown(pc[c], l) /\ ManifestKnown(pc[c], l) /\ TargetKnown(pc[c], l)
      /\ TreeKnown(pc[c], l) /\ FaultKnown(pc[c], l)
  BY <1>1, KnownNow
<1>3. /\ l.key \in Keys /\ l.wkey \in Keys /\ (l.op \in {"resume", "relaunch", "fork"} => l.par \in Keys)
      /\ l.made => l.op \in {"start", "fork"}
      /\ l.old # None => l.op = "fork"
      /\ l.wkey # l.key => /\ l.op = "fork" /\ l.par # l.wkey
                           /\ index'[l.par] # None
                           /\ manifest'[l.par] # None /\ manifest'[l.par].tree = l.tree
  <2>1. /\ l.key \in Keys /\ l.wkey \in Keys /\ (l.op \in {"resume", "relaunch", "fork"} => l.par \in Keys)
        /\ l.made => l.op \in {"start", "fork"}
        /\ l.old # None => l.op = "fork"
    BY <1>1, LocalFacts DEF SeqInv
  <2>2. l.wkey # l.key => l.op = "fork" /\ l.par # l.wkey
    BY <1>1, Apart
  <2>3. l.wkey # l.key => index[l.par] # None /\ manifest[l.par] # None /\ manifest[l.par].tree = l.tree
    BY <1>2 DEF IndexKnown, ManifestKnown
  <2>4. QED
    BY <2>1, <2>2, <2>3
<1>4. TreeKnown("undoTree", l)' /\ TreeKnown("restore", l)'
  BY <1>1, <1>2 DEF TreeKnown, PastParent, Looking, Exists
<1>5. TargetKnown("undoTree", l)' /\ TargetKnown("restore", l)'
  BY <1>1, <1>2, <1>3 DEF TargetKnown, Looking
<1>6. ASSUME l.made PROVE Knows("undoTree", l)'
  <2>1. WorkFits("undoTree", l)
    BY <1>1, <1>2, <1>6 DEF WorkFits, Looking, PastParent
  <2>2. IndexKnown("undoTree", l)' /\ ManifestKnown("undoTree", l)' /\ FaultKnown("undoTree", l)'
    BY <1>3, <1>6 DEF IndexKnown, NameFree, ManifestKnown, FaultKnown
  <2>3. QED
    BY <1>2, <1>4, <1>5, <2>1, <2>2 DEF Knows
<1>7. ASSUME ~l.made, l.old # None PROVE Knows("restore", l)'
  <2>1. WorkFits("restore", l)
    BY <1>1, <1>2, <1>3, <1>7 DEF WorkFits, Looking, PastParent
  <2>2. index[l.wkey] = None
    BY <1>2, <1>7 DEF IndexKnown, NameFree
  <2>3. IndexKnown("restore", l)' /\ ManifestKnown("restore", l)' /\ FaultKnown("restore", l)'
    BY <1>3, <1>7, <2>2 DEF IndexKnown, NameFree, ManifestKnown, FaultKnown
  <2>4. QED
    BY <1>2, <1>4, <1>5, <2>1, <2>3 DEF Knows
<1>8. Knows("failed", l)'
  BY DEF Knows, Working, Ended
<1>9. AfterUndo(l) = IF l.made THEN "undoTree" ELSE IF l.old # None THEN "restore" ELSE "failed"
  BY DEF AfterUndo
<1>10. CASE l.made
  BY <1>6, <1>9, <1>10
<1>11. CASE ~l.made /\ l.old # None
  BY <1>7, <1>9, <1>11
<1>12. CASE ~l.made /\ l.old = None
  BY <1>8, <1>9, <1>12
<1>13. QED
  BY <1>10, <1>11, <1>12

\* What a call writes fits where it is written.
LEMMA WrittenFits ==
  ASSUME SeqInv, NEW c \in Calls, pc[c] = "write", NEW l, l = loc[c]
  PROVE  /\ l.wkey[2] # Main => l.tree = l.wkey[2]
         /\ l.hold # "none" => l.tree # Main
<1>1. pc[c] \in Working
  BY DEF Working, Points, Ended
<1>2. PlaceFits(l) /\ IndexKnown("write", l)
  BY <1>1, KnownNow
<1>3. /\ l.op \in {"start", "resume", "relaunch", "fork"} /\ l.key[1] \in Names
      /\ (l.op \in {"resume", "relaunch"} => l.par \in Keys)
  <2>1. l.op \in OpsAt["write"] /\ l.key[1] \in Names
        /\ (l.op \in {"resume", "relaunch"} => l.par \in Keys)
    BY <1>1, LocalFacts DEF SeqInv
  <2>2. QED
    BY <2>1 DEF OpsAt, Creators
<1>4. CASE l.op = "start"
  BY <1>2, <1>3, <1>4, SessionLifecycleAssumption DEF PlaceFits
<1>5. CASE l.op \in {"resume", "relaunch"}
  <2>1. index[l.par] # None /\ index[l.par].tree = l.tree
    BY <1>2, <1>5 DEF IndexKnown, PastParent, Looking
  <2>2. l.par[2] # Main => l.tree = l.par[2]
    BY <1>3, <1>5, <2>1 DEF SeqInv, Files, TreesFit
  <2>3. QED
    BY <1>2, <1>5, <2>2 DEF PlaceFits
<1>6. CASE l.op = "fork"
  BY <1>2, <1>3, <1>6, SessionLifecycleAssumption DEF PlaceFits
<1>7. QED
  BY <1>3, <1>4, <1>5, <1>6

\* The manifest is written.
LEMMA WriteSeq == ASSUME SeqInv, NEW c \in Calls, WriteManifest(c) PROVE After(c) /\ Files'
<1>0. PICK l : l = loc[c]
  OBVIOUS
<1>1. /\ pc[c] \in Working /\ pc[c] = "write" /\ UNCHANGED <<index, active>>
      /\ Fault \/ UNCHANGED bounds
  BY DEF WriteManifest, Working, Points, Ended
<1>2. /\ PlaceFits(l) /\ WorkFits("write", l)
      /\ IndexKnown("write", l) /\ ManifestKnown("write", l) /\ TargetKnown("write", l)
      /\ TreeKnown("write", l) /\ FaultKnown("write", l)
  BY <1>0, <1>1, KnownNow
<1>3. /\ l.key \in Keys /\ l.wkey \in Keys /\ l.op \in Creators
      /\ (l.op \in {"resume", "relaunch", "fork"} => l.par \in Keys)
      /\ l.wkey # l.key => l.op = "fork" /\ l.par # l.wkey /\ l.wkey[2] # Main
  <2>1. /\ l.key \in Keys /\ l.wkey \in Keys /\ l.op \in Creators
        /\ (l.op \in {"resume", "relaunch", "fork"} => l.par \in Keys)
    BY <1>0, <1>1, LocalFacts DEF SeqInv, OpsAt
  <2>2. QED
    BY <1>0, <1>1, <2>1, Apart
<1>4. faults \in Nat /\ faults' \in Nat /\ faults' >= faults /\ (Fault => faults' >= 1)
  BY <1>1, FaultCount DEF SeqInv
<1>5. CASE Fault /\ Goto(c, AfterUndo(l)) /\ UNCHANGED <<manifest, dirs>>
  <2>1. Knows(AfterUndo(l), l)'
    BY <1>0, <1>1, <1>4, <1>5, UndoKnows
  <2>2. Files'
    BY <1>1, <1>5, FewerEntries
  <2>3. QED
    BY <1>0, <1>5, <2>1, <2>2 DEF After, Goto
<1>6. CASE \E r \in Manifest : /\ r.tree = l.tree /\ r.hold = l.hold /\ r.by = c
                               /\ SetManifest(l.wkey, r)
                               /\ Goto(c, "add") /\ UNCHANGED bounds
  <2>1. PICK r \in Manifest : /\ r.tree = l.tree /\ r.hold = l.hold /\ SetManifest(l.wkey, r)
                              /\ Goto(c, "add") /\ UNCHANGED bounds
    BY <1>6
  <2>2. r # None
    BY <2>1, RecordAssumption
  <2>3. /\ manifest'[l.wkey] = r /\ \A k \in Keys : k # l.wkey => manifest'[k] = manifest[k]
        /\ dirs' = dirs \cup ({l.wkey[2]} \ {Main}) /\ faults' = faults
    BY <1>3, <2>1 DEF SetManifest, SeqInv, Inv, TypeOK, bounds
  <2>4. WorkFits("add", l)
    BY <1>2, <1>3 DEF WorkFits, Looking, PastParent
  <2>5. IndexKnown("add", l)'
    BY <1>1, <1>2 DEF IndexKnown, NameFree, PastParent, Looking
  <2>6. ManifestKnown("add", l)'
    BY <1>1, <1>2, <1>3, <2>1, <2>2, <2>3 DEF ManifestKnown, PastParent, Looking
  <2>7. TargetKnown("add", l)'
    BY <1>1, <1>2, <1>3, <2>3 DEF TargetKnown, Looking
  <2>8. TreeKnown("add", l)'
    BY <1>2, <2>3 DEF TreeKnown, PastParent, Looking, Exists
  <2>9. Knows("add", l)'
    BY <1>2, <2>4, <2>5, <2>6, <2>7, <2>8 DEF Knows, FaultKnown
  <2>10. TreesFit'
    <3>1. \A k \in Keys : /\ manifest[k] # None => /\ Exists(k[2])
                                                   /\ k[2] # Main => manifest[k].tree = k[2]
                                                   /\ manifest[k].hold # "none" => manifest[k].tree # Main
                          /\ index[k] # None /\ k[2] # Main => index[k].tree = k[2]
      BY DEF SeqInv, Files, TreesFit
    <3>2. /\ l.wkey[2] # Main => r.tree = l.wkey[2]
          /\ r.hold # "none" => r.tree # Main
      BY <1>0, <1>1, <2>1, WrittenFits
    <3>3. QED
      BY <1>1, <2>3, <3>1, <3>2 DEF TreesFit, Exists
  <2>11. IndexNeverDangles'
    BY <1>1, <2>2, <2>3 DEF SeqInv, Files, IndexNeverDangles
  <2>12. QED
    BY <1>0, <2>1, <2>9, <2>10, <2>11 DEF Files, After, Goto
<1>7. QED
  <2> DEFINE r == [by |-> c, parent |-> IF l.par = None THEN None ELSE l.par[1],
                   fork |-> l.op \in {"fork", "relaunch"}, tree |-> l.tree, hold |-> l.hold]
  <2>1. r \in Manifest /\ r.tree = l.tree /\ r.hold = l.hold /\ r.by = c
    <3>1. l \in Locals
      BY <1>0, <1>1, LocalFacts DEF SeqInv
    <3>2. (IF l.par = None THEN None ELSE l.par[1]) \in Names \cup {None}
      <4>1. l.par \in Keys \cup {None}
        BY <3>1 DEF Locals
      <4>2. QED
        BY <4>1, KeyParts
    <3>3. l.hold \in {"none", "owner", "guest"} /\ l.tree \in Roots /\ (l.op \in {"fork", "relaunch"}) \in BOOLEAN
      BY <3>1 DEF Locals
    <3>4. QED
      BY <3>2, <3>3 DEF Manifest
  <2>2. \/ SetManifest(l.wkey, r) /\ Goto(c, "add") /\ UNCHANGED bounds
        \/ Fault /\ Goto(c, AfterUndo(l)) /\ UNCHANGED <<manifest, dirs>>
    BY <1>0 DEF WriteManifest
  <2> HIDE DEF r
  <2>3. QED
    BY <1>5, <1>6, <2>1, <2>2

\* The entry is added.
LEMMA AddSeq == ASSUME SeqInv, NEW c \in Calls, AddToIndex(c) PROVE After(c) /\ Files'
<1>0. PICK l : l = loc[c]
  OBVIOUS
<1>1. /\ pc[c] \in Working /\ pc[c] = "add" /\ UNCHANGED <<manifest, dirs, active>>
      /\ Fault \/ UNCHANGED bounds
  BY DEF AddToIndex, Working, Points, Ended
<1>2. /\ PlaceFits(l) /\ WorkFits("add", l)
      /\ IndexKnown("add", l) /\ ManifestKnown("add", l) /\ TargetKnown("add", l)
      /\ TreeKnown("add", l) /\ FaultKnown("add", l)
  BY <1>0, <1>1, KnownNow
<1>3. /\ l.key \in Keys /\ l.wkey \in Keys /\ l.op \in Creators
      /\ l.wkey # l.key => l.op = "fork"
  <2>1. /\ l.key \in Keys /\ l.wkey \in Keys /\ l.op \in Creators
    BY <1>0, <1>1, LocalFacts DEF SeqInv, OpsAt
  <2>2. QED
    BY <1>0, <1>1, <2>1, Apart
<1>4. faults \in Nat /\ faults' \in Nat /\ faults' >= faults /\ (Fault => faults' >= 1)
  BY <1>1, FaultCount DEF SeqInv
<1>5. ASSUME UNCHANGED index, Goto(c, "undo"),
             l.op \in {"start", "fork"}, l.wkey = l.key \/ l.old # None => faults' >= 1
      PROVE  After(c) /\ Files'
  <2>1. WorkFits("undo", l)
    BY <1>2, <1>3 DEF WorkFits, Looking, PastParent
  <2>2. IndexKnown("undo", l)' /\ ManifestKnown("undo", l)'
    BY <1>1, <1>2, <1>5 DEF IndexKnown, NameFree, ManifestKnown
  <2>3. TargetKnown("undo", l)' /\ FaultKnown("undo", l)'
    BY <1>1, <1>2, <1>5 DEF TargetKnown, FaultKnown, Looking
  <2>4. TreeKnown("undo", l)'
    BY <1>1, <1>2 DEF TreeKnown, PastParent, Looking, Exists
  <2>5. Files'
    BY <1>1, <1>5, FewerEntries
  <2>6. QED
    BY <1>0, <1>2, <1>5, <2>1, <2>2, <2>3, <2>4, <2>5 DEF Knows, After, Goto
<1>6. ASSUME UNCHANGED index, Goto(c, "failed") PROVE After(c) /\ Files'
  <2>1. Files'
    BY <1>1, <1>6, FewerEntries
  <2>2. QED
    BY <1>6, <2>1, EndAfter DEF Ended
<1>7. CASE /\ index' = [index EXCEPT ![l.wkey] = [by |-> c, tree |-> l.tree]]
           /\ Goto(c, "done") /\ UNCHANGED bounds
  <2>1. /\ index'[l.wkey].tree = l.tree
        /\ \A k \in Keys : k # l.wkey => index'[k] = index[k]
    BY <1>3, <1>7 DEF SeqInv, Inv, TypeOK
  <2>2. manifest[l.wkey] # None /\ manifest[l.wkey].tree = l.tree
    BY <1>2 DEF ManifestKnown
  <2>3. TreesFit'
    BY <1>1, <1>3, <2>1, <2>2 DEF SeqInv, Files, TreesFit, Exists
  <2>4. IndexNeverDangles'
    BY <1>1, <1>7, <2>1, <2>2 DEF SeqInv, Files, IndexNeverDangles, bounds
  <2>5. QED
    BY <1>7, <2>3, <2>4, EndAfter DEF Files, Ended
<1>8. CASE /\ index[l.wkey] # None /\ UNCHANGED <<index, bounds>>
           /\ Goto(c, CASE l.op = "resume" -> "collide" [] l.op = "relaunch" -> "failed"
                        [] OTHER -> "undo")
  <2>1. l.wkey # l.key /\ l.old = None
    BY <1>2, <1>8 DEF IndexKnown, NameFree
  <2>2. l.op = "fork"
    BY <1>3, <2>1
  <2>3. Goto(c, "undo")
    BY <1>8, <2>2
  <2>4. QED
    BY <1>5, <1>8, <2>1, <2>2, <2>3
<1>9. CASE /\ Fault /\ UNCHANGED index
           /\ Goto(c, IF l.op \in {"start", "fork"} THEN "undo" ELSE "failed")
  BY <1>4, <1>5, <1>6, <1>9
<1>10. QED
  BY <1>0, <1>7, <1>8, <1>9 DEF AddToIndex

\* No resume collides.
LEMMA CollideSeq == ASSUME SeqInv, NEW c \in Calls PROVE ~ResumeCollides(c)
<1>1. pc[c] = "collide" => FaultKnown("collide", loc[c])
  BY KnownNow DEF Working, Points, Ended
<1>2. QED
  BY <1>1 DEF ResumeCollides, FaultKnown

\* The manifest goes again.
LEMMA UndoSeq == ASSUME SeqInv, NEW c \in Calls, UndoManifest(c) PROVE After(c) /\ Files'
<1>0. PICK l : l = loc[c]
  OBVIOUS
<1>1. /\ pc[c] \in Working /\ pc[c] = "undo" /\ UNCHANGED <<index, dirs, active>>
      /\ Fault \/ UNCHANGED bounds
      /\ manifest' = manifest \/ manifest' = [manifest EXCEPT ![l.wkey] = None]
      /\ Go(c, l, AfterUndo(l))
  BY <1>0 DEF UndoManifest, Working, Points, Ended, Goto
<1>2. PlaceFits(l) /\ IndexKnown("undo", l) /\ FaultKnown("undo", l)
  BY <1>0, <1>1, KnownNow
<1>3. l.wkey \in Keys /\ (l.wkey # l.key => l.wkey[2] # Main)
  BY <1>0, <1>1, LocalFacts, Apart DEF SeqInv
<1>4. faults \in Nat /\ faults' \in Nat /\ faults' >= faults
  BY <1>1, FaultCount DEF SeqInv
<1>5. \A k \in Keys : /\ k # l.wkey => manifest'[k] = manifest[k]
                      /\ manifest'[k] # None => manifest'[k] = manifest[k]
  BY <1>1 DEF SeqInv, Inv, TypeOK
<1>6. l.old # None => faults' >= 1
  BY <1>2, <1>4 DEF FaultKnown
<1>7. Knows(AfterUndo(l), l)'
  BY <1>0, <1>1, <1>4, <1>5, <1>6, UndoKnows
<1>8. l.wkey[2] = Main => index[l.wkey] = None
  BY <1>2, <1>3 DEF IndexKnown, NameFree
<1>9. Files'
  BY <1>1, <1>5, <1>8, FewerManifests DEF Exists
<1>10. QED
  BY <1>1, <1>7, <1>9 DEF After

\* A worktree goes with what is in it.
LEMMA TreeGoes ==
  ASSUME SeqInv, NEW t, t # Main, RemoveTree(t), UNCHANGED index, Fault \/ UNCHANGED bounds
  PROVE  Files'
<1>1. \A k \in Keys : /\ manifest'[k] # None =>
                           manifest'[k] = manifest[k] /\ (Exists(k[2]) => Exists(k[2])')
                      /\ k[2] = Main => manifest'[k] = manifest[k]
  BY DEF RemoveTree, Exists
<1>2. QED
  BY <1>1, FewerManifests

\* The worktree goes again.
LEMMA UndoTreeSeq == ASSUME SeqInv, NEW c \in Calls, UndoWorktree(c) PROVE After(c) /\ Files'
<1>0. PICK l : l = loc[c]
  OBVIOUS
<1>1. /\ pc[c] \in Working /\ pc[c] = "undoTree" /\ UNCHANGED <<index, active>>
      /\ Fault \/ UNCHANGED bounds
      /\ RemoveTree(l.tree) \/ UNCHANGED <<manifest, dirs, uncommitted>>
      /\ Goto(c, "failed")
  BY <1>0 DEF UndoWorktree, Working, Points, Ended
<1>2. l.tree # Main
  <2>1. l.op \in {"start", "fork"} /\ l.hold = "owner"
    BY <1>0, <1>1, LocalFacts, KnownNow DEF SeqInv, OpsAt, WorkFits
  <2>2. QED
    BY <1>0, <1>1, <2>1, OwnTree
<1>3. Files'
  <2>1. CASE RemoveTree(l.tree)
    BY <1>1, <1>2, <2>1, TreeGoes
  <2>2. CASE UNCHANGED <<manifest, dirs, uncommitted>>
    BY <1>1, <2>2, FewerEntries
  <2>3. QED
    BY <1>1, <2>1, <2>2
<1>4. QED
  BY <1>1, <1>3, EndAfter DEF Ended

\* What a fork puts back fits where it was.
LEMMA RestoreSeq == ASSUME SeqInv, NEW c \in Calls, RestoreTarget(c) PROVE After(c) /\ Files'
<1>0. PICK l : l = loc[c]
  OBVIOUS
<1>1. /\ pc[c] \in Working /\ pc[c] = "restore" /\ UNCHANGED <<index, active>>
      /\ Fault \/ UNCHANGED bounds
      /\ \/ SetManifest(l.key, l.old)
         \/ Fault /\ UNCHANGED <<manifest, dirs>>
      /\ Goto(c, "failed") \/ Go(c, l, "restoreEntry")
  BY <1>0 DEF RestoreTarget, Working, Points, Ended, Goto
<1>2. /\ PlaceFits(l) /\ WorkFits("restore", l)
      /\ IndexKnown("restore", l) /\ ManifestKnown("restore", l) /\ TargetKnown("restore", l)
      /\ TreeKnown("restore", l) /\ FaultKnown("restore", l)
  BY <1>0, <1>1, KnownNow
<1>3. /\ l.op = "fork" /\ l.old # None /\ l.mode # "worktree"
      /\ l.key \in Keys /\ l.wkey \in Keys /\ l.par \in Keys
      /\ l.wkey # l.key => l.key[2] = Main
  <2>1. l.op = "fork" /\ l.key \in Keys /\ l.wkey \in Keys /\ l.par \in Keys /\ Shape("restore", l)
    BY <1>0, <1>1, LocalFacts DEF SeqInv, OpsAt
  <2>2. l.old # None
    BY <1>1, <2>1 DEF Shape
  <2>3. l.mode # "worktree"
    BY <1>2, <2>1 DEF WorkFits
  <2>4. QED
    BY <1>0, <1>1, <2>1, <2>2, <2>3, Apart
<1>4. /\ l.old.tree = l.tree /\ l.old.hold = l.hold
      /\ l.key[2] # Main => l.tree = l.key[2]
      /\ l.hold # "none" => l.tree # Main
  BY <1>2, <1>3 DEF WorkFits, PlaceFits
<1>5. faults \in Nat /\ faults' \in Nat /\ faults' >= faults /\ (Fault /\ faults >= 1 => faults' >= 2)
  BY <1>1, FaultCount DEF SeqInv
<1>6. faults >= 1
  BY <1>2 DEF FaultKnown
<1>7. /\ manifest'[l.key] = l.old \/ (manifest'[l.key] = manifest[l.key] /\ faults' >= 2)
      /\ \A k \in Keys : manifest'[k] = manifest[k] \/ (k = l.key /\ manifest'[k] = l.old)
      /\ dirs \subseteq dirs'
      /\ manifest' # manifest => Exists(l.key[2])'
  <2>1. CASE SetManifest(l.key, l.old)
    BY <1>3, <2>1 DEF SetManifest, SeqInv, Inv, TypeOK, Exists
  <2>2. CASE Fault /\ UNCHANGED <<manifest, dirs>>
    BY <1>5, <1>6, <2>2
  <2>3. QED
    BY <1>1, <2>1, <2>2
<1>8. Knows("restoreEntry", l)'
  <2>1. WorkFits("restoreEntry", l)
    BY <1>2, <1>3 DEF WorkFits, Looking, PastParent
  <2>2. IndexKnown("restoreEntry", l)'
    BY <1>1, <1>2, <1>3 DEF IndexKnown, NameFree
  <2>3. ManifestKnown("restoreEntry", l)'
    BY <1>2, <1>3, <1>4, <1>7 DEF ManifestKnown
  <2>4. TargetKnown("restoreEntry", l)'
    BY <1>1, <1>2, <1>3, <1>7 DEF TargetKnown, Looking
  <2>5. TreeKnown("restoreEntry", l)'
    BY <1>1, <1>2, <1>7 DEF TreeKnown, PastParent, Looking, Exists
  <2>6. FaultKnown("restoreEntry", l)'
    BY <1>5, <1>6 DEF FaultKnown
  <2>7. QED
    BY <1>2, <2>1, <2>2, <2>3, <2>4, <2>5, <2>6 DEF Knows
<1>9. TreesFit'
  <2>1. \A k \in Keys : /\ manifest[k] # None => /\ Exists(k[2])
                                                 /\ k[2] # Main => manifest[k].tree = k[2]
                                                 /\ manifest[k].hold # "none" => manifest[k].tree # Main
                        /\ index[k] # None /\ k[2] # Main => index[k].tree = k[2]
    BY DEF SeqInv, Files, TreesFit
  <2>2. QED
    BY <1>1, <1>4, <1>7, <2>1 DEF TreesFit, Exists
<1>10. IndexNeverDangles'
  BY <1>1, <1>3, <1>5, <1>7 DEF SeqInv, Files, IndexNeverDangles
<1>11. QED
  BY <1>1, <1>8, <1>9, <1>10, EndAfter DEF Files, After, Ended

\* The entry of the fork put back.
LEMMA RestoreEntrySeq == ASSUME SeqInv, NEW c \in Calls, RestoreEntry(c) PROVE After(c) /\ Files'
<1>0. PICK l : l = loc[c]
  OBVIOUS
<1>1. /\ pc[c] \in Working /\ pc[c] = "restoreEntry" /\ UNCHANGED <<manifest, dirs>>
      /\ Fault \/ UNCHANGED bounds
      /\ \/ UNCHANGED index
         \/ index' = [index EXCEPT ![l.key] = [by |-> l.old.by, tree |-> l.old.tree]]
      /\ Goto(c, "failed")
  BY <1>0 DEF RestoreEntry, Working, Points, Ended
<1>2. CASE UNCHANGED index
  <2>1. Files'
    BY <1>1, <1>2, FewerEntries
  <2>2. QED
    BY <1>1, <2>1, EndAfter DEF Ended
<1>3. CASE index' = [index EXCEPT ![l.key] = [by |-> l.old.by, tree |-> l.old.tree]]
  <2>1. l.op = "fork" /\ l.old # None /\ l.key \in Keys /\ (l.wkey # l.key => l.key[2] = Main)
    <3>1. l.op = "fork" /\ l.key \in Keys /\ Shape("restoreEntry", l)
      BY <1>0, <1>1, LocalFacts DEF SeqInv, OpsAt
    <3>2. QED
      BY <1>0, <1>1, <3>1, Apart DEF Shape
  <2>2. PlaceFits(l) /\ WorkFits("restoreEntry", l) /\ ManifestKnown("restoreEntry", l)
    BY <1>0, <1>1, KnownNow
  <2>3. l.key[2] # Main => l.old.tree = l.key[2]
    BY <2>1, <2>2 DEF PlaceFits, WorkFits
  <2>4. manifest[l.key] # None \/ faults >= 2
    BY <2>1, <2>2 DEF ManifestKnown
  <2>5. /\ index'[l.key].tree = l.old.tree
        /\ \A k \in Keys : k # l.key => index'[k] = index[k]
    BY <1>3, <2>1 DEF SeqInv, Inv, TypeOK
  <2>6. faults \in Nat /\ faults' \in Nat /\ faults' >= faults
    BY <1>1, FaultCount DEF SeqInv
  <2>7. TreesFit'
    BY <1>1, <2>3, <2>5 DEF SeqInv, Files, TreesFit, Exists
  <2>8. IndexNeverDangles'
    BY <1>1, <2>4, <2>5, <2>6 DEF SeqInv, Files, IndexNeverDangles
  <2>9. QED
    BY <1>1, <2>7, <2>8, EndAfter DEF Files, Ended
<1>4. QED
  BY <1>1, <1>2, <1>3

-----------------------------------------------------------------------------
(* The steps that remove.                                                  *)

\* A delete has decided about the worktree.
LEMMA ExamineSeq == ASSUME SeqInv, NEW c \in Calls, Examine(c) PROVE After(c) /\ Files'
<1>0. PICK l : l = loc[c]
  OBVIOUS
<1>1. /\ pc[c] \in Working /\ pc[c] = "examine" /\ UNCHANGED <<manifest, dirs, active, bounds>>
  BY <1>0 DEF Examine, Working, Points, Ended
<1>2. /\ PlaceFits(l) /\ WorkFits("examine", l)
      /\ IndexKnown("examine", l) /\ ManifestKnown("examine", l) /\ TargetKnown("examine", l)
      /\ TreeKnown("examine", l) /\ FaultKnown("examine", l)
  BY <1>0, <1>1, KnownNow
<1>3. /\ l \in Locals /\ l.op = "delete" /\ l.old = None /\ ~l.made /\ l.key \in Keys /\ l.wkey = l.key
  <2>1. l \in Locals /\ l.op = "delete" /\ l.old = None /\ ~l.made /\ l.key \in Keys
    BY <1>0, <1>1, LocalFacts DEF SeqInv, OpsAt
  <2>2. QED
    BY <1>2, <2>1 DEF PlaceFits
<1>4. \A k \in Keys : index'[k] # None => index'[k] = index[k]
  BY DEF Examine
<1>5. Files'
  BY <1>1, <1>4, FewerEntries
<1>6. CASE Goto(c, "failed")
  BY <1>5, <1>6, EndAfter DEF Ended
<1>7. CASE Go(c, l, "remove")
  <2>1. WorkFits("remove", l)
    BY <1>2, <1>3 DEF WorkFits, Looking, PastParent
  <2>2. (IndexKnown("remove", l) /\ ManifestKnown("remove", l) /\ TargetKnown("remove", l))'
    BY <1>3 DEF IndexKnown, NameFree, ManifestKnown, TargetKnown
  <2>3. (TreeKnown("remove", l) /\ FaultKnown("remove", l))'
    BY <1>3 DEF TreeKnown, FaultKnown
  <2>4. QED
    BY <1>2, <1>5, <1>7, <2>1, <2>2, <2>3 DEF Knows, After
<1>8. CASE manifest[l.key] # None /\ manifest[l.key].hold = "owner"
           /\ Go(c, [l EXCEPT !.tree = manifest[l.key].tree], "cleanup")
  <2>1. PICK y : y = [l EXCEPT !.tree = manifest[l.key].tree] /\ Go(c, y, "cleanup")
    BY <1>8
  <2>2. /\ y.op = "delete" /\ y.key = l.key /\ y.wkey = l.key /\ y.tree = manifest[l.key].tree
        /\ y.old = None /\ ~y.made
    BY <1>3, <2>1 DEF Locals
  <2>3. y.tree # Main
    BY <1>3, <1>8, <2>2 DEF SeqInv, Files, TreesFit
  <2>4. PlaceFits(y) /\ WorkFits("cleanup", y)
    BY <2>2 DEF PlaceFits, WorkFits, Looking, PastParent
  <2>5. (IndexKnown("cleanup", y) /\ ManifestKnown("cleanup", y) /\ TargetKnown("cleanup", y))'
    BY <2>2 DEF IndexKnown, NameFree, ManifestKnown, TargetKnown
  <2>6. (TreeKnown("cleanup", y) /\ FaultKnown("cleanup", y))'
    BY <2>2, <2>3 DEF TreeKnown, FaultKnown
  <2>7. QED
    BY <1>5, <2>1, <2>4, <2>5, <2>6 DEF Knows, After
<1>9. QED
  BY <1>0, <1>6, <1>7, <1>8 DEF Examine, Goto

\* What a delete goes on with.
LEMMA DeleteKnows ==
  ASSUME NEW l, l.op \in {"delete", "orphan"}, l.op = "orphan" => l.key[2] = Main,
         l.wkey = l.key, l.old = None, ~l.made,
         NEW w \in {"remove", "retry", "unlink", "clear"},
         w = "retry" => l.op = "delete" /\ l.tree # Main,
         w \in {"unlink", "clear"} => index'[l.wkey] = None
  PROVE  Knows(w, l)'
<1>1. PlaceFits(l) /\ WorkFits(w, l)
  BY DEF PlaceFits, WorkFits, Looking, PastParent
<1>2. (IndexKnown(w, l) /\ ManifestKnown(w, l) /\ TargetKnown(w, l))'
  BY DEF IndexKnown, NameFree, ManifestKnown, TargetKnown
<1>3. (TreeKnown(w, l) /\ FaultKnown(w, l))'
  BY DEF TreeKnown, FaultKnown
<1>4. QED
  BY <1>1, <1>2, <1>3 DEF Knows

\* A delete has removed the worktree or failed to.
LEMMA CleanupSeq == ASSUME SeqInv, NEW c \in Calls, CleanupWorktree(c) \/ RetryCleanup(c) PROVE After(c) /\ Files'
<1>0. PICK l : l = loc[c]
  OBVIOUS
<1>1. /\ pc[c] \in Working /\ pc[c] \in {"cleanup", "retry"} /\ UNCHANGED <<index, active>>
      /\ Fault \/ UNCHANGED bounds
      /\ RemoveTree(l.tree) \/ UNCHANGED <<manifest, dirs>>
      /\ Goto(c, "failed") \/ Go(c, l, "remove") \/ Go(c, l, "retry")
  BY <1>0 DEF CleanupWorktree, RetryCleanup, TryRemove, Working, Points, Ended, Goto
<1>2. PlaceFits(l) /\ TreeKnown(pc[c], l)
  BY <1>0, <1>1, KnownNow
<1>3. l.op = "delete" /\ l.old = None /\ ~l.made /\ l.wkey = l.key
  <2>1. l.op = "delete" /\ l.old = None /\ ~l.made
    BY <1>0, <1>1, LocalFacts DEF SeqInv, OpsAt
  <2>2. QED
    BY <1>2, <2>1 DEF PlaceFits
<1>4. l.tree # Main
  BY <1>1, <1>2 DEF TreeKnown
<1>5. Files'
  <2>1. CASE RemoveTree(l.tree)
    BY <1>1, <1>4, <2>1, TreeGoes
  <2>2. CASE UNCHANGED <<manifest, dirs>>
    BY <1>1, <2>2, FewerEntries
  <2>3. QED
    BY <1>1, <2>1, <2>2
<1>6. Knows("remove", l)' /\ Knows("retry", l)'
  BY <1>3, <1>4, DeleteKnows
<1>7. QED
  BY <1>1, <1>5, <1>6, EndAfter DEF After, Ended

\* What a fork that removes the one it replaces still knows.
LEMMA RemovalKnows ==
  ASSUME SeqInv, NEW c \in Calls, pc[c] \in {"remove", "unlink", "clear"}, NEW l, l = loc[c],
         l.op = "fork", UNCHANGED dirs, active' \subseteq active,
         \A k \in Keys : k # l.wkey => manifest'[k] = manifest[k] /\ index'[k] = index[k],
         index'[l.wkey] = None,
         NEW w \in {"unlink", "clear", "stale"}, w = "unlink" => UNCHANGED manifest /\ pc[c] = "remove"
  PROVE  Knows(w, l)'
<1>1. pc[c] \in Working /\ pc[c] \notin Looking /\ pc[c] # "parent"
  BY DEF Working, Points, Ended, Looking
<1>2. /\ PlaceFits(l) /\ WorkFits(pc[c], l)
      /\ IndexKnown(pc[c], l) /\ ManifestKnown(pc[c], l) /\ TargetKnown(pc[c], l)
      /\ TreeKnown(pc[c], l) /\ FaultKnown(pc[c], l)
  BY <1>1, KnownNow
<1>3. /\ l.key \in Keys /\ l.wkey \in Keys /\ l.par \in Keys
      /\ l.old # None /\ l.mode # "worktree"
      /\ l.wkey # l.key => l.par # l.wkey
  <2>1. l.key \in Keys /\ l.wkey \in Keys /\ l.par \in Keys
    BY <1>1, LocalFacts DEF SeqInv
  <2>2. l.mode # "worktree" /\ l.old # None
    BY <1>2 DEF WorkFits
  <2>3. QED
    BY <1>1, <2>1, <2>2, Apart
<1>4. WorkFits(w, l)
  BY <1>1, <1>2, <1>3 DEF WorkFits, Looking, PastParent
<1>5. IndexKnown(w, l)'
  BY <1>2, <1>3 DEF IndexKnown, NameFree
<1>6. ManifestKnown(w, l)'
  BY <1>2, <1>3 DEF ManifestKnown
<1>7. TargetKnown(w, l)'
  BY <1>2, <1>3 DEF TargetKnown, Looking
<1>8. TreeKnown(w, l)' /\ FaultKnown(w, l)'
  BY <1>1, <1>2 DEF TreeKnown, FaultKnown, PastParent, Looking, Exists
<1>9. QED
  BY <1>2, <1>4, <1>5, <1>6, <1>7, <1>8 DEF Knows

\* The entry goes, and then the manifest.
LEMMA RemovalSeq ==
  ASSUME SeqInv, NEW c \in Calls, RemoveFromIndex(c) \/ UnlinkManifest(c) \/ ClearActive(c)
  PROVE  After(c) /\ Files'
<1>0. PICK l : l = loc[c]
  OBVIOUS
<1>1. /\ pc[c] \in Working /\ pc[c] \in {"remove", "unlink", "clear"}
      /\ Fault \/ UNCHANGED bounds
      /\ UNCHANGED dirs /\ active' \subseteq active
  BY DEF RemoveFromIndex, UnlinkManifest, ClearActive, Working, Points, Ended
<1>2. PlaceFits(l) /\ WorkFits(pc[c], l) /\ IndexKnown(pc[c], l)
  BY <1>0, <1>1, KnownNow
<1>3. /\ l.op \in {"fork", "delete", "orphan"} /\ l.wkey \in Keys
      /\ l.op \in {"delete", "orphan"} => l.old = None /\ ~l.made /\ l.wkey = l.key
      /\ l.op = "orphan" => l.key[2] = Main
  <2>1. /\ l.op \in {"fork", "delete", "orphan"} /\ l.wkey \in Keys
        /\ l.op \in {"delete", "orphan"} => l.old = None /\ ~l.made
    BY <1>0, <1>1, LocalFacts DEF SeqInv, OpsAt
  <2>2. QED
    BY <1>2, <2>1 DEF PlaceFits
<1>4. pc[c] \in {"unlink", "clear"} => index[l.wkey] = None
  BY <1>2 DEF IndexKnown, NameFree
<1>5. ASSUME NEW w \in {"unlink", "clear", "stale"}, Go(c, l, w),
             \A k \in Keys : k # l.wkey => manifest'[k] = manifest[k] /\ index'[k] = index[k],
             index'[l.wkey] = None, w = "stale" => l.op = "fork",
             w = "unlink" => UNCHANGED manifest /\ pc[c] = "remove"
      PROVE  After(c)
  <2>1. CASE l.op = "fork"
    BY <1>0, <1>1, <1>5, <2>1, RemovalKnows DEF After
  <2>2. CASE l.op # "fork"
    BY <1>3, <1>5, <2>2, DeleteKnows DEF After
  <2>3. QED
    BY <2>1, <2>2
<1>6. CASE UNCHANGED <<manifest, index>> /\ Goto(c, "failed")
  BY <1>1, <1>6, EndAfter, FewerEntries DEF Ended
<1>7. CASE /\ index' = [index EXCEPT ![l.wkey] = None] /\ Go(c, l, "unlink")
           /\ UNCHANGED <<manifest, bounds>> /\ pc[c] = "remove"
  <2>1. /\ \A k \in Keys : /\ k # l.wkey => index'[k] = index[k]
                           /\ index'[k] # None => index'[k] = index[k]
        /\ index'[l.wkey] = None
    BY <1>3, <1>7 DEF SeqInv, Inv, TypeOK
  <2>2. Files'
    BY <1>1, <1>7, <2>1, FewerEntries
  <2>3. QED
    BY <1>5, <1>7, <2>1, <2>2
<1>8. CASE /\ manifest' = [manifest EXCEPT ![l.wkey] = None] /\ Go(c, l, "clear")
           /\ UNCHANGED <<index, bounds>> /\ pc[c] = "unlink"
  <2>1. \A k \in Keys : /\ k # l.wkey => manifest'[k] = manifest[k]
                        /\ manifest'[k] # None => manifest'[k] = manifest[k]
    BY <1>3, <1>8 DEF SeqInv, Inv, TypeOK
  <2>2. Files'
    BY <1>1, <1>4, <1>8, <2>1, FewerManifests DEF Exists
  <2>3. QED
    BY <1>4, <1>5, <1>8, <2>1, <2>2
<1>9. CASE /\ UNCHANGED <<manifest, index, bounds>> /\ pc[c] = "clear"
           /\ Go(c, l, IF l.op = "fork" THEN "stale" ELSE "done")
  <2>1. Files'
    BY <1>1, <1>9, FewerEntries
  <2>2. CASE l.op = "fork"
    BY <1>4, <1>5, <1>9, <2>1, <2>2
  <2>3. CASE l.op # "fork"
    BY <1>0, <1>9, <2>1, <2>3, EndAfter DEF Ended, Goto
  <2>4. QED
    BY <2>2, <2>3
<1>10. CASE RemoveFromIndex(c)
  <2>1. pc[c] = "remove" => ~l.made
    <3>1. l.op = "fork" /\ pc[c] = "remove" => l.mode # "worktree" /\ l.hold # "owner"
      BY <1>2 DEF WorkFits, PlaceFits
    <3>2. QED
      BY <1>2, <1>3, <1>1, <3>1, LocalFacts, <1>0 DEF WorkFits, SeqInv, OpsAt
  <2>2. QED
    BY <1>0, <1>6, <1>7, <1>10, <2>1 DEF RemoveFromIndex, Goto
<1>11. CASE UnlinkManifest(c)
  <2>1. CASE UNCHANGED <<manifest, index>> /\ Go(c, l, "clear") /\ pc[c] = "unlink"
    <3>1. Files'
      BY <1>1, <2>1, FewerEntries
    <3>2. QED
      BY <1>4, <1>5, <2>1, <3>1
  <2>2. QED
    BY <1>0, <1>6, <1>8, <1>11, <2>1 DEF UnlinkManifest, Goto
<1>12. CASE ClearActive(c)
  BY <1>0, <1>9, <1>12 DEF ClearActive, Goto
<1>13. QED
  BY <1>10, <1>11, <1>12

\* A listing drops what is stale; a call dies.
LEMMA EndsSeq == ASSUME SeqInv, NEW c \in Calls, PruneList(c) \/ Crash(c) PROVE After(c) /\ Files'
<1>1. After(c)
  BY EndAfter DEF PruneList, Crash, Ended
<1>2. CASE PruneList(c)
  <2>1. \A k \in Keys : index'[k] # None => index'[k] = index[k]
    BY <1>2 DEF PruneList
  <2>2. QED
    BY <1>1, <1>2, <2>1, FewerEntries DEF PruneList
<1>3. CASE Crash(c)
  BY <1>1, <1>3 DEF Crash, disk, SeqInv, Files, TreesFit, IndexNeverDangles, Exists
<1>4. QED
  BY <1>2, <1>3

-----------------------------------------------------------------------------
(* The calls begin.                                                        *)

\* A start or a child of a session.
LEMMA ChildBegins ==
  ASSUME SeqInv, NEW c \in Calls,
         \/ \E n \in Names, wt \in BOOLEAN : StartSession(c, n, wt)
         \/ \E n \in Names, par \in Keys, auto \in BOOLEAN : ResumeSession(c, par, n, auto)
         \/ \E n \in Names, par \in Keys : RelaunchSession(c, par, n)
  PROVE  After(c) /\ Files'
<1>1. CASE \E n \in Names, wt \in BOOLEAN : StartSession(c, n, wt)
  <2>1. PICK n \in Names, wt \in BOOLEAN : StartSession(c, n, wt)
    BY <1>1
  <2>2. PICK k, y, to : /\ k = <<n, Main>>
                        /\ y = [Blank EXCEPT !.op = "start", !.key = k, !.wkey = k,
                                  !.tree = IF wt THEN n ELSE Main,
                                  !.hold = IF wt THEN "owner" ELSE "none"]
                        /\ to = (IF wt THEN "tree" ELSE "probe") /\ index[k] = None
                        /\ Go(c, y, to) /\ UNCHANGED <<disk, bounds>>
    BY <2>1 DEF StartSession, Begin
  <2>3. /\ y.op = "start" /\ y.key = k /\ y.wkey = k /\ y.tree = (IF wt THEN n ELSE Main)
        /\ y.hold = (IF wt THEN "owner" ELSE "none") /\ ~y.made /\ y.old = None /\ y.oldEntry = None
    BY <2>2 DEF Blank
  <2>4. k[1] = n /\ k[2] = Main
    BY <2>2
  <2>5. PlaceFits(y) /\ WorkFits(to, y)
    BY <2>2, <2>3, <2>4 DEF PlaceFits, WorkFits, Looking, PastParent
  <2>6. IndexKnown(to, y) /\ ManifestKnown(to, y) /\ TargetKnown(to, y)
    BY <2>2, <2>3 DEF IndexKnown, NameFree, ManifestKnown, TargetKnown
  <2>7. TreeKnown(to, y) /\ FaultKnown(to, y)
    BY <2>2, <2>3 DEF TreeKnown, FaultKnown
  <2>8. QED
    BY <2>2, <2>5, <2>6, <2>7, QuietAfter DEF Knows
<1>2. ASSUME NEW y, NEW k, NEW par, UNCHANGED <<disk, bounds>>, Go(c, y, "get"), k[2] = par[2],
             y.op \in {"resume", "relaunch"}, y.key = k, y.wkey = k, y.par = par, y.at = par,
             y.ret = "parent", y.hold = "none", ~y.made, y.old = None, y.oldEntry = None
      PROVE  After(c) /\ Files'
  <2>1. PlaceFits(y) /\ WorkFits("get", y)
    BY <1>2 DEF PlaceFits, WorkFits, Looking, PastParent
  <2>2. IndexKnown("get", y) /\ ManifestKnown("get", y) /\ TargetKnown("get", y)
    BY <1>2 DEF IndexKnown, NameFree, ManifestKnown, TargetKnown, PastParent, Looking
  <2>3. TreeKnown("get", y) /\ FaultKnown("get", y)
    BY <1>2 DEF TreeKnown, FaultKnown
  <2>4. QED
    BY <1>2, <2>1, <2>2, <2>3, QuietAfter DEF Knows
<1>3. CASE \E n \in Names, par \in Keys, auto \in BOOLEAN : ResumeSession(c, par, n, auto)
  <2>1. PICK n \in Names, par \in Keys, auto \in BOOLEAN : ResumeSession(c, par, n, auto)
    BY <1>3
  <2>2. PICK k, y : /\ k = <<n, par[2]>>
                    /\ y = [Blank EXCEPT !.op = "resume", !.key = k, !.wkey = k, !.par = par,
                              !.at = par, !.ret = "parent", !.auto = auto]
                    /\ Go(c, y, "get") /\ UNCHANGED <<disk, bounds>>
    BY <2>1 DEF ResumeSession, Begin
  <2>3. /\ y.op = "resume" /\ y.key = k /\ y.wkey = k /\ y.par = par /\ y.at = par
        /\ y.ret = "parent" /\ y.hold = "none" /\ ~y.made /\ y.old = None /\ y.oldEntry = None
    BY <2>2 DEF Blank
  <2>4. QED
    BY <1>2, <2>2, <2>3
<1>4. CASE \E n \in Names, par \in Keys : RelaunchSession(c, par, n)
  <2>1. PICK n \in Names, par \in Keys : RelaunchSession(c, par, n)
    BY <1>4
  <2>2. PICK k, y : /\ k = <<n, par[2]>>
                    /\ y = [Blank EXCEPT !.op = "relaunch", !.key = k, !.wkey = k, !.par = par,
                              !.at = par, !.ret = "parent"]
                    /\ Go(c, y, "get") /\ UNCHANGED <<disk, bounds>>
    BY <2>1 DEF RelaunchSession, Begin
  <2>3. /\ y.op = "relaunch" /\ y.key = k /\ y.wkey = k /\ y.par = par /\ y.at = par
        /\ y.ret = "parent" /\ y.hold = "none" /\ ~y.made /\ y.old = None /\ y.oldEntry = None
    BY <2>2 DEF Blank
  <2>4. QED
    BY <1>2, <2>2, <2>3
<1>5. QED
  BY <1>1, <1>3, <1>4

\* A fork.
LEMMA ForkBegins ==
  ASSUME SeqInv, NEW c \in Calls, NEW par \in Keys, NEW n \in Names, NEW mode \in Modes,
         NEW force \in BOOLEAN, NEW t \in ForkRoots(par, n, mode), ForkSession(c, par, n, mode, t, force)
  PROVE  After(c) /\ Files'
<1>1. mode \in {"same", "worktree", "into"} /\ dirs \subseteq Names /\ Main \notin Names
  BY SessionLifecycleAssumption DEF SeqInv, Inv, TypeOK
<1>2. PICK k, y : /\ k = <<n, t>>
                  /\ y = [Blank EXCEPT !.op = "fork", !.mode = mode, !.key = k, !.wkey = k,
                            !.par = par, !.at = par, !.ret = "parent", !.tree = t, !.force = force,
                            !.hold = CASE mode = "same" -> "none" [] mode = "worktree" -> "owner"
                                       [] OTHER -> "guest"]
                  /\ Go(c, y, "get") /\ UNCHANGED <<disk, bounds>>
  BY DEF ForkSession, Begin
<1>3. /\ y.op = "fork" /\ y.mode = mode /\ y.key = k /\ y.wkey = k /\ y.par = par /\ y.at = par
      /\ y.ret = "parent" /\ y.tree = t /\ ~y.made /\ y.old = None /\ y.oldEntry = None
      /\ y.hold = (CASE mode = "same" -> "none" [] mode = "worktree" -> "owner" [] OTHER -> "guest")
  BY <1>2 DEF Blank
<1>4. \/ mode = "same" /\ y.hold = "none" /\ t = par[2]
      \/ mode = "worktree" /\ y.hold = "owner" /\ t = n
      \/ mode = "into" /\ y.hold = "guest" /\ t \in dirs
  <2>1. CASE mode = "same"
    BY <1>3, <2>1 DEF ForkRoots
  <2>2. CASE mode = "worktree"
    BY <1>3, <2>2 DEF ForkRoots
  <2>3. CASE mode = "into"
    BY <1>3, <2>3 DEF ForkRoots
  <2>4. QED
    BY <1>1, <2>1, <2>2, <2>3
<1>5. k[1] = n /\ k[2] = t
  BY <1>2
<1>6. PlaceFits(y)
  BY <1>1, <1>3, <1>4, <1>5 DEF PlaceFits
<1>7. WorkFits("get", y)
  BY <1>3 DEF WorkFits, Looking, PastParent
<1>8. IndexKnown("get", y) /\ ManifestKnown("get", y) /\ TargetKnown("get", y)
  BY <1>3 DEF IndexKnown, NameFree, ManifestKnown, TargetKnown
<1>9. TreeKnown("get", y) /\ FaultKnown("get", y)
  BY <1>3, <1>4, <1>5 DEF TreeKnown, FaultKnown, PastParent, Looking, Exists
<1>10. QED
  BY <1>2, <1>6, <1>7, <1>8, <1>9, QuietAfter DEF Knows

\* A delete or a listing.
LEMMA RemovalBegins ==
  ASSUME SeqInv, NEW c \in Calls,
         \/ ListSessions(c)
         \/ \E n \in Names : DeleteOrphan(c, n)
         \/ \E k \in Keys, keep, force \in BOOLEAN : DeleteSession(c, k, keep, force)
  PROVE  After(c) /\ Files'
<1>1. CASE ListSessions(c)
  <2>0. PICK s : /\ Go(c, [Blank EXCEPT !.op = "list", !.stale = s],
                         IF s = {} THEN "done" ELSE "pruneList")
                 /\ UNCHANGED <<disk, bounds>>
    BY <1>1 DEF ListSessions, Begin
  <2>1. PICK y, to : to \in {"done", "pruneList"} /\ y.op = "list" /\ Go(c, y, to) /\ UNCHANGED <<disk, bounds>>
    BY <2>0 DEF Blank
  <2>2. Knows(to, y)
    BY <2>1 DEF Knows, Working, Ended
  <2>3. QED
    BY <2>1, <2>2, QuietAfter
<1>2. CASE \E n \in Names : DeleteOrphan(c, n)
  <2>1. PICK n \in Names : DeleteOrphan(c, n)
    BY <1>2
  <2>2. PICK k, y : /\ k = <<n, Main>> /\ y = [Blank EXCEPT !.op = "orphan", !.key = k, !.wkey = k]
                    /\ index[k] = None /\ Go(c, y, "unlink") /\ UNCHANGED <<disk, bounds>>
    BY <2>1 DEF DeleteOrphan, Begin
  <2>3. y.op = "orphan" /\ y.key = k /\ y.key[2] = Main /\ y.wkey = k /\ ~y.made /\ y.old = None
    BY <2>2 DEF Blank
  <2>4. UNCHANGED <<index, manifest, dirs, faults>>
    BY <2>2 DEF disk, bounds
  <2>5. Knows("unlink", y)'
    <3>1. index'[y.wkey] = None
      BY <2>2, <2>3, <2>4
    <3>2. QED
      BY <2>3, <3>1, DeleteKnows
  <2>6. Files'
    BY <2>4 DEF SeqInv, Files, TreesFit, IndexNeverDangles, Exists
  <2>7. QED
    BY <2>2, <2>5, <2>6 DEF After
<1>3. CASE \E k \in Keys, keep, force \in BOOLEAN : DeleteSession(c, k, keep, force)
  <2>1. PICK k \in Keys, keep, force \in BOOLEAN : DeleteSession(c, k, keep, force)
    BY <1>3
  <2>2. PICK y : /\ y = [Blank EXCEPT !.op = "delete", !.key = k, !.wkey = k, !.at = k,
                           !.ret = "examine", !.keep = keep, !.force = force]
                 /\ Go(c, y, "get") /\ UNCHANGED <<disk, bounds>>
    BY <2>1 DEF DeleteSession, Begin
  <2>3. /\ y.op = "delete" /\ y.key = k /\ y.wkey = k /\ y.at = k /\ y.ret = "examine" /\ ~y.made
        /\ y.old = None
    BY <2>2 DEF Blank
  <2>4. PlaceFits(y) /\ WorkFits("get", y)
    BY <2>3 DEF PlaceFits, WorkFits, Looking, PastParent
  <2>5. IndexKnown("get", y) /\ ManifestKnown("get", y) /\ TargetKnown("get", y)
    BY <2>3 DEF IndexKnown, NameFree, ManifestKnown, TargetKnown
  <2>6. TreeKnown("get", y) /\ FaultKnown("get", y)
    BY <2>3 DEF TreeKnown, FaultKnown
  <2>7. QED
    BY <2>2, <2>4, <2>5, <2>6, QuietAfter DEF Knows
<1>4. QED
  BY <1>1, <1>2, <1>3

LEMMA BeginSeq == ASSUME SeqInv, NEW c \in Calls, BeginCall(c) PROVE After(c) /\ Files'
  BY ChildBegins, ForkBegins, RemovalBegins DEF BeginCall

-----------------------------------------------------------------------------
(* Invariance when calls follow one another.                               *)

\* Nothing has begun; the sessions that exist fit together.
LEMMA SeqInit == Init => SeqInv
<1> SUFFICES ASSUME Init PROVE SeqInv
  OBVIOUS
<1>1. Inv
  BY InitInv
<1>2. \A c \in Calls : pc[c] = "idle"
  BY DEF Init
<1>3. Alone /\ Known
  BY <1>2 DEF Alone, Open, Known, Knows, Working
<1>4. \A k \in Keys :
         /\ k \in DOMAIN Existing => /\ manifest[k] = Existing[k]
                                     /\ index[k].tree = Existing[k].tree
         /\ k \notin DOMAIN Existing => manifest[k] = None /\ index[k] = None
  BY DEF Init
<1>5. \A k \in DOMAIN Existing : /\ k \in Keys /\ Existing[k] # None
                                 /\ Existing[k].tree \in dirs \cup {Main}
                                 /\ k[2] # Main => Existing[k].tree = k[2]
                                 /\ Existing[k].hold # "none" => Existing[k].tree # Main
  BY ExistingAssumption, RecordAssumption DEF Init
<1>6. Files
  <2>1. TreesFit
    <3>1. SUFFICES ASSUME NEW k \in Keys
                   PROVE  /\ manifest[k] # None => /\ Exists(k[2])
                                                   /\ k[2] # Main => manifest[k].tree = k[2]
                                                   /\ manifest[k].hold # "none" => manifest[k].tree # Main
                          /\ index[k] # None /\ k[2] # Main => index[k].tree = k[2]
      BY DEF TreesFit
    <3>2. CASE k \in DOMAIN Existing
      <4>1. manifest[k] = Existing[k] /\ index[k].tree = Existing[k].tree
        BY <1>4, <3>1, <3>2
      <4>2. k[2] # Main => Existing[k].tree = k[2] /\ k[2] \in dirs
        BY <1>5, <3>2
      <4>3. QED
        BY <1>5, <3>2, <4>1, <4>2 DEF Exists
    <3>3. CASE k \notin DOMAIN Existing
      BY <1>4, <3>3
    <3>4. QED
      BY <3>2, <3>3
  <2>2. IndexNeverDangles
    BY <1>4, <1>5 DEF IndexNeverDangles
  <2>3. QED
    BY <2>1, <2>2 DEF Files
<1>7. QED
  BY <1>1, <1>3, <1>6 DEF SeqInv

\* What each call that moves knows next, and the files.
LEMMA EverySeq ==
  ASSUME SeqInv, NEW c \in Calls, BeginCall(c) \/ Step(c) \/ Crash(c) PROVE After(c) /\ Files'
<1>1. CASE BeginCall(c) \/ Crash(c)
  BY <1>1, BeginSeq, EndsSeq
<1>2. CASE \/ Lookup(c) \/ Stat(c) \/ Prune(c) \/ PruneList(c)
  BY <1>2, LookupSeq, EndsSeq
<1>3. CASE \/ ProbeManifest(c) \/ ReadParent(c) \/ GenerateResumeName(c) \/ CheckNameFree(c)
  BY <1>3, ProbeSeq, ReadParentSeq, NameSeq
<1>4. CASE \/ JudgeTarget(c) \/ CreateWorktree(c) \/ SwapTarget(c) \/ ClearStale(c)
  BY <1>4, JudgeSeq, CreateSeq, SwapSeq, StaleSeq
<1>5. CASE \/ WriteManifest(c) \/ AddToIndex(c) \/ ResumeCollides(c) \/ UndoManifest(c)
  BY <1>5, WriteSeq, AddSeq, CollideSeq, UndoSeq
<1>6. CASE \/ UndoWorktree(c) \/ RestoreTarget(c) \/ RestoreEntry(c) \/ Examine(c)
  BY <1>6, UndoTreeSeq, RestoreSeq, RestoreEntrySeq, ExamineSeq
<1>7. CASE \/ CleanupWorktree(c) \/ RetryCleanup(c) \/ RemoveFromIndex(c) \/ UnlinkManifest(c) \/ ClearActive(c)
  BY <1>7, CleanupSeq, RemovalSeq
<1>8. QED
  BY <1>1, <1>2, <1>3, <1>4, <1>5, <1>6, <1>7 DEF Step

\* Someone's edit, or nothing, changes none of it.
LEMMA QuietSeq ==
  ASSUME SeqInv, UNCHANGED <<manifest, index, dirs, active, pc, loc, bounds>> PROVE (Alone /\ Files /\ Known)'
<1>1. UNCHANGED faults
  BY DEF bounds
<1>2. Alone' /\ Files'
  BY <1>1 DEF SeqInv, Alone, Open, Files, TreesFit, IndexNeverDangles, Exists
<1>3. ASSUME NEW c \in Calls PROVE Knows(pc[c], loc[c])'
  <2>1. Knows(pc[c], loc[c])
    BY DEF SeqInv, Known
  <2>2. PlaceFits(loc[c])' <=> PlaceFits(loc[c])
    BY DEF PlaceFits
  <2>3. WorkFits(pc[c], loc[c])' <=> WorkFits(pc[c], loc[c])
    BY DEF WorkFits, PastParent
  <2>4. IndexKnown(pc[c], loc[c])' <=> IndexKnown(pc[c], loc[c])
    BY DEF IndexKnown, NameFree, PastParent
  <2>5. ManifestKnown(pc[c], loc[c])' <=> ManifestKnown(pc[c], loc[c])
    BY <1>1 DEF ManifestKnown, PastParent
  <2>6. TargetKnown(pc[c], loc[c])' <=> TargetKnown(pc[c], loc[c])
    BY DEF TargetKnown
  <2>7. TreeKnown(pc[c], loc[c])' <=> TreeKnown(pc[c], loc[c])
    BY DEF TreeKnown, Exists, PastParent
  <2>8. FaultKnown(pc[c], loc[c])' <=> FaultKnown(pc[c], loc[c])
    BY <1>1 DEF FaultKnown
  <2>9. QED
    BY <2>1, <2>2, <2>3, <2>4, <2>5, <2>6, <2>7, <2>8 DEF Knows
<1>4. QED
  BY <1>2, <1>3 DEF Known

LEMMA SeqStep == ASSUME MaxOpen = 1, SeqInv, [Next]_vars PROVE SeqInv'
<1>1. Inv'
  BY InvStep DEF SeqInv
<1>2. ASSUME NEW c \in Calls, BeginCall(c) \/ Step(c) \/ Crash(c) PROVE SeqInv'
  <2>1. After(c) /\ Files'
    BY <1>2, EverySeq
  <2>2. Known' /\ Alone'
    BY <1>2, <2>1, KnownAfter, AloneStep DEF SeqInv
  <2>3. QED
    BY <1>1, <2>1, <2>2 DEF SeqInv
<1>3. CASE (\E t \in Names, kind \in Kinds : Edit(t, kind)) \/ UNCHANGED vars
  <2>1. UNCHANGED <<manifest, index, dirs, active, pc, loc, bounds>>
    BY <1>3 DEF Edit, vars, disk
  <2>2. QED
    BY <1>1, <2>1, QuietSeq DEF SeqInv
<1>4. QED
  BY <1>2, <1>3 DEF Next

\* When calls follow one another, every call that runs knows what it goes by: what it looked up
\* is still there, the name it writes is free, what it makes fits where it is.
THEOREM CallsKnow == ASSUME MaxOpen = 1 PROVE Spec => []SeqInv
<1>1. SeqInv /\ [Next]_vars => SeqInv'
  BY SeqStep
<1>2. QED
  BY SeqInit, <1>1, PTL DEF Spec

\* Every entry of the index has its manifest, wherever a call dies or a write fails, unless what
\* failed was put back and that failed as well: start, resume, relaunch and fork write the
\* manifest first, delete and self-healing take the entry first.
THEOREM EntriesHaveManifests == ASSUME MaxOpen = 1 PROVE Spec => []StoreIsConsistent
<1>1. SeqInv => StoreIsConsistent
  BY DEF SeqInv, Inv, Files, StoreIsConsistent
<1>2. QED
  BY <1>1, CallsKnow, PTL

-----------------------------------------------------------------------------
(* Forks made in an existing checkout.                                     *)

\* Who moves is who takes the step.
LEMMA MoverMoves ==
  ASSUME Inv, NEW c \in Calls, pc'[c] # pc[c], NEW d \in Calls, BeginCall(d) \/ Step(d) \/ Crash(d)
  PROVE  c = d
<1>1. CASE Moves(d)
  BY <1>1, GoStep DEF Moves, Inv
<1>2. QED
  BY <1>1, EveryMove

\* Such a fork makes no worktree.
LEMMA PlainFork ==
  ASSUME SeqInv, NEW c \in Calls, pc[c] \in Working, NEW l, l = loc[c], l.op = "fork", l.mode # "worktree"
  PROVE  ~l.made /\ pc[c] \notin {"tree", "undoTree"}
<1>1. PlaceFits(l) /\ WorkFits(pc[c], l)
  BY KnownNow
<1>2. l.hold # "owner"
  BY <1>1 DEF PlaceFits
<1>3. QED
  BY <1>1, <1>2 DEF WorkFits

\* It fails after it has chosen what to replace only where it puts that back.
LEMMA FailsRestoring ==
  ASSUME SeqInv, NEW c \in Calls, BeginCall(c) \/ Step(c) \/ Crash(c), NEW l, l = loc[c],
         l.op = "fork", l.old # None, l.mode # "worktree",
         pc[c] \notin Ended, pc'[c] = "failed"
  PROVE  \/ manifest'[l.key] = l.old /\ (l.oldEntry # None => index'[l.key] # None)
         \/ faults' >= 2
<1>0. \A to \in Points : Goto(c, to) => pc'[c] = to
  BY DEF Goto, Go, SeqInv, Inv, PlacesOK
<1>1. ASSUME NEW m, NEW to \in Points, to # "failed", Go(c, m, to) PROVE FALSE
  BY <1>1 DEF Go, SeqInv, Inv, PlacesOK
<1>2. CASE BeginCall(c) \/ Crash(c) \/ PruneList(c)
  <2>1. CASE Crash(c) \/ PruneList(c)
    BY <1>0, <2>1 DEF Crash, PruneList, Points, Ended
  <2>2. CASE BeginCall(c)
    <3>1. CASE ListSessions(c) \/ \E n \in Names : DeleteOrphan(c, n)
      BY <1>1, <3>1 DEF ListSessions, DeleteOrphan, Begin, Points, Ended
    <3>2. CASE \E n \in Names, wt \in BOOLEAN : StartSession(c, n, wt)
      BY <1>1, <3>2 DEF StartSession, Begin, Points, Ended
    <3>3. CASE \E n \in Names, par \in Keys, auto \in BOOLEAN : ResumeSession(c, par, n, auto)
      BY <1>1, <3>3 DEF ResumeSession, Begin, Points, Ended
    <3>4. CASE \E n \in Names, par \in Keys : RelaunchSession(c, par, n)
      BY <1>1, <3>4 DEF RelaunchSession, Begin, Points, Ended
    <3>5. CASE \E n \in Names, par \in Keys, mode \in Modes, force \in BOOLEAN :
                  \E t \in ForkRoots(par, n, mode) : ForkSession(c, par, n, mode, t, force)
      BY <1>1, <3>5 DEF ForkSession, Begin, Points, Ended
    <3>6. CASE \E k \in Keys, keep, force \in BOOLEAN : DeleteSession(c, k, keep, force)
      BY <1>1, <3>6 DEF DeleteSession, Begin, Points, Ended
    <3>7. QED
      BY <2>2, <3>1, <3>2, <3>3, <3>4, <3>5, <3>6 DEF BeginCall
  <2>3. QED
    BY <1>2, <2>1, <2>2
<1>3. ASSUME Step(c), ~PruneList(c) PROVE pc[c] \in Working
  <2>1. pc[c] # "pruneList"
    <3>1. pc[c] = "pruneList" => Knows("pruneList", l)
      BY DEF SeqInv, Known
    <3>2. QED
      BY <3>1 DEF Knows
  <2>2. QED
    BY <1>3, <2>1, StepsWork
<1>4. CASE Step(c) /\ ~PruneList(c)
  <2>0. /\ pc[c] \in Working /\ l \in Locals /\ l.op \in OpsAt[pc[c]] /\ l.key \in Keys
        /\ WorkFits(pc[c], l) /\ ManifestKnown(pc[c], l) /\ TargetKnown(pc[c], l) /\ FaultKnown(pc[c], l)
        /\ ~l.made /\ pc[c] \notin {"tree", "undoTree", "judge", "parent"}
    <3>1. pc[c] \in Working
      BY <1>3, <1>4
    <3>2. /\ l \in Locals /\ l.op \in OpsAt[pc[c]] /\ l.key \in Keys /\ WorkFits(pc[c], l)
          /\ ManifestKnown(pc[c], l) /\ TargetKnown(pc[c], l) /\ FaultKnown(pc[c], l)
      BY <3>1, LocalFacts, KnownNow DEF SeqInv
    <3>3. ~l.made /\ pc[c] \notin {"tree", "undoTree"}
      BY <3>1, PlainFork
    <3>4. pc[c] \notin {"judge", "parent"}
      BY <3>2 DEF WorkFits, PastParent
    <3>5. QED
      BY <3>1, <3>2, <3>3, <3>4
  <2>1. CASE Lookup(c) \/ Stat(c) \/ Prune(c)
    <3>1. pc[c] \in Looking
      BY <2>1 DEF Lookup, Stat, Prune, Looking
    <3>2. l.ret = "remove"
      BY <3>1, LooksFor
    <3>3. NotFound(c) => Goto(c, "stale")
      BY <3>2 DEF NotFound
    <3>4. Found(c) => \E m : Go(c, m, "remove")
      BY <3>2 DEF Found
    <3>5. Goto(c, "stale") \/ (\E m : Go(c, m, "remove")) \/ Goto(c, "stat") \/ Goto(c, "prune")
      BY <2>1, <3>3, <3>4 DEF Lookup, Stat, Prune
    <3>6. QED
      BY <1>1, <3>5 DEF Goto, Points, Ended
  <2>2. CASE ProbeManifest(c) \/ ReadParent(c) \/ GenerateResumeName(c) \/ CheckNameFree(c)
    <3>1. pc[c] \in {"probe", "name", "exists"}
      BY <2>0, <2>2 DEF ProbeManifest, ReadParent, GenerateResumeName, CheckNameFree
    <3>2. QED
      BY <2>0, <3>1 DEF OpsAt
  <2>3. CASE JudgeTarget(c) \/ CreateWorktree(c) \/ SwapTarget(c) \/ ClearStale(c)
    BY <1>1, <2>0, <2>3 DEF JudgeTarget, CreateWorktree, SwapTarget, ClearStale, Goto, Points, Ended
  <2>4. CASE WriteManifest(c) \/ UndoManifest(c)
    <3>1. AfterUndo(l) = "restore"
      BY <2>0 DEF AfterUndo
    <3>2. QED
      BY <1>1, <2>4, <3>1 DEF WriteManifest, UndoManifest, Goto, Points, Ended
  <2>5. CASE AddToIndex(c)
    BY <1>1, <2>5 DEF AddToIndex, Goto, Points, Ended
  <2>6. CASE ResumeCollides(c) \/ UndoWorktree(c)
    BY <2>0, <2>6, CollideSeq DEF UndoWorktree
  <2>7. CASE RestoreTarget(c)
    <3>1. pc[c] = "restore" /\ l.oldEntry = None
      BY <1>1, <2>7 DEF RestoreTarget, Goto, Points, Ended
    <3>2. CASE SetManifest(l.key, l.old)
      BY <2>0, <3>1, <3>2 DEF SetManifest, SeqInv, Inv, TypeOK
    <3>3. CASE Fault
      BY <2>0, <3>1, <3>3, FaultCount DEF FaultKnown, SeqInv
    <3>4. QED
      BY <2>7, <3>2, <3>3 DEF RestoreTarget
  <2>8. CASE RestoreEntry(c)
    <3>1. pc[c] = "restoreEntry" /\ UNCHANGED manifest /\ (Fault \/ UNCHANGED bounds)
      BY <2>8 DEF RestoreEntry
    <3>2. (manifest[l.key] = l.old \/ faults >= 2) /\ faults >= 1
      BY <2>0, <3>1 DEF ManifestKnown, FaultKnown
    <3>3. faults \in Nat /\ faults' \in Nat /\ faults' >= faults /\ (Fault => faults' >= 2)
      BY <3>1, <3>2, FaultCount DEF SeqInv
    <3>4. index'[l.key] # None \/ Fault
      <4>1. [by |-> l.old.by, tree |-> l.old.tree] # None
        <5>1. l.old \in Manifest
          BY <2>0 DEF Locals
        <5>2. [by |-> l.old.by, tree |-> l.old.tree] \in Entry
          BY <5>1 DEF Manifest, Entry
        <5>3. QED
          BY <5>2, RecordAssumption
      <4>2. QED
        BY <2>0, <2>8, <4>1 DEF RestoreEntry, SeqInv, Inv, TypeOK
    <3>5. QED
      BY <3>1, <3>2, <3>3, <3>4
  <2>9. CASE Examine(c) \/ CleanupWorktree(c) \/ RetryCleanup(c)
    BY <2>0, <2>9 DEF Examine, CleanupWorktree, RetryCleanup, TryRemove, OpsAt
  <2>10. CASE RemoveFromIndex(c)
    <3>1. UNCHANGED <<manifest, index>> /\ pc[c] = "remove"
      BY <1>1, <2>10 DEF RemoveFromIndex, Goto, Points, Ended
    <3>2. QED
      BY <2>0, <3>1 DEF TargetKnown
  <2>11. CASE UnlinkManifest(c) \/ ClearActive(c)
    BY <1>1, <2>11 DEF UnlinkManifest, ClearActive, Goto, Points, Ended
  <2>12. QED
    BY <1>4, <2>1, <2>2, <2>3, <2>4, <2>5, <2>6, <2>7, <2>8, <2>9, <2>10, <2>11 DEF Step
<1>5. QED
  BY <1>2, <1>4

\* It changes no session but the one it replaces.
LEMMA ReplacesStale ==
  ASSUME SeqInv, NEW c \in Calls, BeginCall(c) \/ Step(c) \/ Crash(c), NEW l, l = loc[c],
         l.op = "fork", l.mode # "worktree", l.wkey = l.key,
         NEW k \in Keys, index[k] # None, manifest[k] # None
  PROVE  \/ manifest'[k] = manifest[k] /\ index'[k] = index[k]
         \/ /\ k = l.wkey /\ l.force /\ k \notin active
            /\ manifest[k].fork /\ manifest[k].parent = l.par[1]
<1>1. CASE BeginCall(c) \/ Crash(c)
  BY <1>1, BeginWrites DEF Crash, disk
<1>2. ASSUME Step(c) PROVE pc[c] \in Working
  <2>1. pc[c] # "pruneList"
    <3>1. pc[c] = "pruneList" => Knows("pruneList", l)
      BY DEF SeqInv, Known
    <3>2. QED
      BY <3>1 DEF Knows
  <2>2. QED
    BY <1>2, <2>1, StepsWork
<1>3. CASE Step(c)
  <2>0. /\ pc[c] \in Working /\ l.op \in OpsAt[pc[c]] /\ l.key \in Keys
        /\ WorkFits(pc[c], l) /\ IndexKnown(pc[c], l) /\ TargetKnown(pc[c], l)
        /\ ~l.made /\ pc[c] \notin {"tree", "undoTree"}
    <3>1. pc[c] \in Working
      BY <1>2, <1>3
    <3>2. QED
      BY <3>1, LocalFacts, KnownNow, PlainFork DEF SeqInv
  <2>1. pc[c] \in {"write", "add", "undo", "restore", "restoreEntry", "unlink", "stale"} => k # l.key
    BY <2>0 DEF IndexKnown, NameFree
  <2>2. ASSUME k # l.key, NEW v, manifest' = [manifest EXCEPT ![l.key] = v] \/ UNCHANGED manifest,
               NEW e, index' = [index EXCEPT ![l.key] = e] \/ UNCHANGED index
        PROVE  manifest'[k] = manifest[k] /\ index'[k] = index[k]
    BY <2>2 DEF SeqInv, Inv, TypeOK
  <2>3. CASE Lookup(c) \/ Stat(c) \/ Prune(c) \/ PruneList(c)
    BY <2>0, <2>3 DEF Lookup, Stat, Prune, PruneList, disk, SeqInv, Inv, TypeOK, Working
  <2>4. CASE ProbeManifest(c) \/ ReadParent(c) \/ GenerateResumeName(c) \/ CheckNameFree(c)
    BY <2>4 DEF ProbeManifest, ReadParent, GenerateResumeName, CheckNameFree, disk
  <2>5. CASE JudgeTarget(c) \/ CreateWorktree(c) \/ SwapTarget(c)
    BY <2>0, <2>5 DEF JudgeTarget, CreateWorktree, SwapTarget, disk
  <2>6. CASE ClearStale(c) \/ UndoManifest(c) \/ UnlinkManifest(c)
    <3>1. /\ manifest' = [manifest EXCEPT ![l.key] = None] \/ UNCHANGED manifest
          /\ UNCHANGED index /\ pc[c] \in {"stale", "undo", "unlink"}
      BY <2>6 DEF ClearStale, UndoManifest, UnlinkManifest
    <3>2. QED
      BY <2>1, <2>2, <3>1
  <2>7. CASE WriteManifest(c) \/ RestoreTarget(c)
    <3>1. PICK v : /\ manifest' = [manifest EXCEPT ![l.key] = v] \/ UNCHANGED manifest
                   /\ UNCHANGED index /\ pc[c] \in {"write", "restore"}
      BY <2>7 DEF WriteManifest, RestoreTarget, SetManifest
    <3>2. QED
      BY <2>1, <2>2, <3>1
  <2>8. CASE AddToIndex(c) \/ RestoreEntry(c)
    <3>1. PICK e : /\ index' = [index EXCEPT ![l.key] = e] \/ UNCHANGED index
                   /\ UNCHANGED manifest /\ pc[c] \in {"add", "restoreEntry"}
      BY <2>8 DEF AddToIndex, RestoreEntry
    <3>2. QED
      BY <2>1, <2>2, <3>1
  <2>9. CASE ResumeCollides(c) \/ UndoWorktree(c) \/ Examine(c) \/ CleanupWorktree(c) \/ RetryCleanup(c)
    BY SMTT(30), <2>0, <2>9, CollideSeq DEF UndoWorktree, Examine, CleanupWorktree, RetryCleanup, TryRemove, OpsAt
  <2>10. CASE RemoveFromIndex(c)
    <3>1. /\ pc[c] = "remove" /\ UNCHANGED manifest
          /\ index' = [index EXCEPT ![l.key] = None] \/ UNCHANGED index
      BY <2>10 DEF RemoveFromIndex
    <3>2. CASE k # l.key
      BY <2>2, <3>1, <3>2
    <3>3. CASE k = l.key
      <4>1. l.old # None /\ manifest[k] = l.old /\ k \notin active
        BY <2>0, <3>1, <3>3 DEF WorkFits, TargetKnown
      <4>2. l.force /\ l.old.fork /\ l.old.parent = l.par[1]
        BY <2>0, <4>1 DEF WorkFits
      <4>3. QED
        BY <3>3, <4>1, <4>2
    <3>4. QED
      BY <3>2, <3>3
  <2>11. CASE ClearActive(c)
    BY <2>11 DEF ClearActive
  <2>12. QED
    BY <1>3, <2>3, <2>4, <2>5, <2>6, <2>7, <2>8, <2>9, <2>10, <2>11 DEF Step
<1>4. QED
  BY <1>1, <1>3

\* A forced fork puts back what it replaced when it fails, and a fork in an existing checkout
\* touches no session but, with --force, an earlier fork of the same parent that does not run.
THEOREM ForksAreSafe == ASSUME MaxOpen = 1 PROVE Spec => ForceForkIsSafe
<1>1. SeqInv /\ [Next]_vars =>
        [\A c \in Calls :
           LET l == loc[c] IN
           /\ l.op = "fork" /\ l.old # None /\ l.mode # "worktree"
           /\ pc[c] \notin Ended /\ pc'[c] = "failed"
           => \/ manifest'[l.key] = l.old /\ (l.oldEntry # None => index'[l.key] # None)
              \/ faults' >= 2]_vars
  <2> SUFFICES ASSUME SeqInv, Next, NEW c \in Calls, NEW l, l = loc[c],
                      l.op = "fork", l.old # None, l.mode # "worktree",
                      pc[c] \notin Ended, pc'[c] = "failed"
               PROVE  \/ manifest'[l.key] = l.old /\ (l.oldEntry # None => index'[l.key] # None)
                      \/ faults' >= 2
    OBVIOUS
  <2>1. pc'[c] # pc[c]
    BY DEF Ended
  <2>2. CASE \E t \in Names, kind \in Kinds : Edit(t, kind)
    BY <2>1, <2>2 DEF Edit
  <2>3. CASE \E d \in Calls : BeginCall(d) \/ Step(d) \/ Crash(d)
    BY <2>1, <2>3, MoverMoves, FailsRestoring DEF SeqInv
  <2>4. QED
    BY <2>2, <2>3 DEF Next
<1>2. SeqInv /\ [Next]_vars =>
        [\A c \in Calls :
           LET l == loc[c] IN
           l.op = "fork" /\ l.mode # "worktree" /\ l.wkey = l.key /\ pc'[c] # pc[c] =>
           \A k \in Keys : index[k] # None /\ manifest[k] # None =>
              \/ manifest'[k] = manifest[k] /\ index'[k] = index[k]
              \/ /\ k = l.wkey /\ l.force /\ k \notin active
                 /\ manifest[k].fork /\ manifest[k].parent = l.par[1]]_vars
  <2> SUFFICES ASSUME SeqInv, Next, NEW c \in Calls, NEW l, l = loc[c],
                      l.op = "fork", l.mode # "worktree", l.wkey = l.key, pc'[c] # pc[c],
                      NEW k \in Keys, index[k] # None, manifest[k] # None
               PROVE  \/ manifest'[k] = manifest[k] /\ index'[k] = index[k]
                      \/ /\ k = l.wkey /\ l.force /\ k \notin active
                         /\ manifest[k].fork /\ manifest[k].parent = l.par[1]
    OBVIOUS
  <2>1. CASE \E t \in Names, kind \in Kinds : Edit(t, kind)
    BY <2>1 DEF Edit
  <2>2. CASE \E d \in Calls : BeginCall(d) \/ Step(d) \/ Crash(d)
    BY <2>2, MoverMoves, ReplacesStale DEF SeqInv
  <2>3. QED
    BY <2>1, <2>2 DEF Next
<1>3. Spec => FailedForceForkRestores
  BY <1>1, CallsKnow, PTL DEF Spec, FailedForceForkRestores
<1>4. Spec => ForkReplacesOnlyStaleForks
  BY <1>2, CallsKnow, PTL DEF Spec, ForkReplacesOnlyStaleForks
<1>5. QED
  BY <1>3, <1>4 DEF ForceForkIsSafe

-----------------------------------------------------------------------------
(* What a call leaves when it fails.                                       *)

\* Failures only add up.
LEMMA FaultsGrow ==
  ASSUME Inv, NEW c \in Calls, BeginCall(c) \/ Step(c) \/ Crash(c)
  PROVE  faults \in Nat /\ faults' \in Nat /\ faults' >= faults
<1>1. Fault \/ UNCHANGED faults
  <2>1. CASE BeginCall(c) \/ Crash(c)
    BY <2>1, BeginWrites DEF Crash, bounds
  <2>2. CASE \/ Lookup(c) \/ Stat(c) \/ Prune(c) \/ PruneList(c)
    BY <2>2 DEF Lookup, Stat, Prune, PruneList, bounds
  <2>3. CASE \/ ProbeManifest(c) \/ ReadParent(c) \/ GenerateResumeName(c) \/ CheckNameFree(c)
    BY <2>3 DEF ProbeManifest, ReadParent, GenerateResumeName, CheckNameFree, bounds
  <2>4. CASE \/ JudgeTarget(c) \/ CreateWorktree(c) \/ SwapTarget(c) \/ ClearStale(c)
    BY <2>4 DEF JudgeTarget, CreateWorktree, SwapTarget, ClearStale, bounds
  <2>5. CASE \/ WriteManifest(c) \/ AddToIndex(c) \/ ResumeCollides(c) \/ UndoManifest(c)
    BY <2>5 DEF WriteManifest, AddToIndex, ResumeCollides, UndoManifest, bounds
  <2>6. CASE \/ UndoWorktree(c) \/ RestoreTarget(c) \/ RestoreEntry(c) \/ Examine(c)
    BY <2>6 DEF UndoWorktree, RestoreTarget, RestoreEntry, Examine, bounds
  <2>7. CASE \/ CleanupWorktree(c) \/ RetryCleanup(c) \/ RemoveFromIndex(c) \/ UnlinkManifest(c) \/ ClearActive(c)
    BY <2>7 DEF CleanupWorktree, RetryCleanup, TryRemove, RemoveFromIndex, UnlinkManifest, ClearActive, bounds
  <2>8. QED
    BY <2>1, <2>2, <2>3, <2>4, <2>5, <2>6, <2>7 DEF Step
<1>2. faults \in Nat
  BY DEF Inv, TypeOK
<1>3. QED
  BY <1>1, <1>2 DEF Fault

\* One that left no trace stays so only if it did.
LEMMA NoTraceBefore ==
  ASSUME MaxOpen = 1, SeqInv, NEW c \in Calls, BeginCall(c) \/ Step(c) \/ Crash(c),
         NEW d \in Calls \ {c}, NoTrace(d)'
  PROVE  NoTrace(d)
<1>1. pc'[d] = pc[d] /\ loc'[d] = loc[d]
  BY AloneStep DEF SeqInv
<1>2. faults \in Nat /\ faults' \in Nat /\ faults' >= faults
  BY FaultsGrow DEF SeqInv
<1>3. Limit(loc[d]) \in Nat /\ Limit(loc[d])' = Limit(loc[d])
  BY <1>1 DEF Limit
<1>4. QED
  BY <1>1, <1>2, <1>3 DEF NoTrace, CleanlyFailed

\* What is written is by the call that moves or by one whose session is put back.
LEMMA OwnMove ==
  ASSUME MaxOpen = 1, SeqInv, Ownership, NEW c \in Calls, BeginCall(c) \/ Step(c) \/ Crash(c),
         NEW b, b \in Calls => ~NoTrace(b) \/ b = c,
         \A k \in Keys : /\ index'[k] # None => index'[k] = index[k] \/ index'[k].by = b
                         /\ manifest'[k] # None => manifest'[k] = manifest[k] \/ manifest'[k].by = b,
         NEW m, NEW to, Go(c, m, to), to # "idle",
         to \in Working => Wrote(c, to, m)',
         to = "failed" /\ m.op \in {"start", "fork"} /\ faults' < Limit(m) => NothingBy(c)'
  PROVE  Ownership'
<1>1. ASSUME NEW d \in Calls \ {c}, NoTrace(d)' PROVE NothingBy(d)'
  <2>1. NoTrace(d)
    BY <1>1, NoTraceBefore
  <2>2. NothingBy(d) /\ b # d
    BY <2>1 DEF Ownership
  <2>3. QED
    BY <2>2 DEF NothingBy
<1>2. ASSUME NEW d \in Calls \ {c} PROVE pc'[d] \notin Working
  <2>1. pc'[d] = pc[d] /\ pc[d] \in Ended \cup {"idle"}
    BY AloneStep, OthersRest DEF SeqInv
  <2>2. QED
    BY <2>1 DEF Working
<1>3. pc'[c] = to /\ (to \in Working => loc'[c] = m)
  BY DEF Go, SeqInv, Inv, PlacesOK, Working
<1>4. ASSUME NoTrace(c)' PROVE NothingBy(c)'
  <2>1. to = "failed" /\ loc'[c].op \in {"start", "fork"} /\ faults' < Limit(loc'[c])
    BY <1>3, <1>4 DEF NoTrace, CleanlyFailed, Limit
  <2>2. PICK e : e = [Blank EXCEPT !.op = m.op, !.key = m.key, !.wkey = m.wkey, !.force = m.force]
    OBVIOUS
  <2>3. loc'[c] = e
    BY <2>1, <2>2 DEF Go, SeqInv, Inv, PlacesOK, Ended
  <2>4. e.op = m.op /\ e.key = m.key /\ e.wkey = m.wkey
    BY <2>2 DEF Blank
  <2>5. Limit(loc'[c]) = Limit(m)
    BY <2>3, <2>4 DEF Limit
  <2>6. QED
    BY <2>1, <2>3, <2>4, <2>5
<1>5. (pc[c] \in Working => Wrote(c, pc[c], loc[c]))'
  BY <1>3
<1>6. QED
  BY <1>1, <1>2, <1>4, <1>5 DEF Ownership

\* What a call replaces keeps its author.
LEMMA OldKept ==
  ASSUME MaxOpen = 1, SeqInv, Ownership, NEW c \in Calls, BeginCall(c) \/ Step(c) \/ Crash(c),
         NEW r, r # None, NothingBy(c) \/ pc[c] \in Working,
         (pc[c] \in Working /\ r = loc[c].old) \/ (NothingBy(c) /\ \E k \in Keys : r = manifest[k])
  PROVE  r.by # c /\ (r.by \in Calls => ~NoTrace(r.by) /\ ~NoTrace(r.by)')
<1>1. r.by # c /\ (r.by \in Calls => ~NoTrace(r.by))
  <2>1. CASE pc[c] \in Working /\ r = loc[c].old
    BY <2>1 DEF Ownership, Wrote
  <2>2. CASE NothingBy(c) /\ \E k \in Keys : r = manifest[k]
    BY <2>2 DEF Ownership, NothingBy
  <2>3. QED
    BY <2>1, <2>2
<1>2. QED
  BY <1>1, NoTraceBefore

\* A call that has not written its manifest and takes things away.
LEMMA OwnClean ==
  ASSUME MaxOpen = 1, SeqInv, Ownership, NEW c \in Calls, BeginCall(c) \/ Step(c) \/ Crash(c),
         pc[c] = "idle" \/ pc[c] \in Working \ ({"add", "undo"} \cup RollsBack),
         \A k \in Keys : /\ index'[k] # None => index'[k] = index[k]
                         /\ manifest'[k] # None => manifest'[k] = manifest[k],
         NEW m, NEW to, Go(c, m, to), to # "idle",
         \/ m.old = None
         \/ m.old = loc[c].old /\ pc[c] \in Working
         \/ \E k \in Keys : m.old = manifest[k]
  PROVE  Ownership'
<1>1. NothingBy(c)
  BY DEF Ownership, NoTrace, NothingBy, Wrote
<1>2. NothingBy(c)'
  BY <1>1 DEF NothingBy
<1>3. m.old # None => m.old.by # c /\ (m.old.by \in Calls => ~NoTrace(m.old.by)')
  BY <1>1, OldKept
<1>4. Wrote(c, to, m)'
  <2>1. m.old' = m.old
    OBVIOUS
  <2>2. QED
    BY <1>2, <1>3 DEF NothingBy, Wrote
<1>5. QED
  BY <1>2, <1>4, OwnMove

\* A call begins with nothing made and nothing replaced.
LEMMA BeginsBlank ==
  ASSUME NEW c \in Calls, BeginCall(c)
  PROVE  /\ pc[c] = "idle" /\ UNCHANGED <<disk, bounds>>
         /\ \E m, to : /\ Go(c, m, to) /\ m.old = None /\ ~m.made
                       /\ to \in {"done", "pruneList", "tree", "probe", "get", "unlink"}
<1>1. CASE ListSessions(c)
  <2>1. PICK s : /\ Go(c, [Blank EXCEPT !.op = "list", !.stale = s],
                         IF s = {} THEN "done" ELSE "pruneList")
                 /\ pc[c] = "idle" /\ UNCHANGED <<disk, bounds>>
    BY <1>1 DEF ListSessions, Begin
  <2>2. PICK y : y = [Blank EXCEPT !.op = "list", !.stale = s]
    OBVIOUS
  <2>3. y.old = None /\ ~y.made
    BY <2>2 DEF Blank
  <2>4. QED
    BY <2>1, <2>2, <2>3
<1>2. CASE \E n \in Names : DeleteOrphan(c, n)
  <2>1. PICK n \in Names : DeleteOrphan(c, n)
    BY <1>2
  <2>2. PICK y : /\ y = [Blank EXCEPT !.op = "orphan", !.key = <<n, Main>>, !.wkey = <<n, Main>>]
                 /\ Go(c, y, "unlink")
    BY <2>1 DEF DeleteOrphan, Begin
  <2>3. y.old = None /\ ~y.made
    BY <2>2 DEF Blank
  <2>4. QED
    BY <2>1, <2>2, <2>3 DEF DeleteOrphan, Begin
<1>3. CASE \E n \in Names, wt \in BOOLEAN : StartSession(c, n, wt)
  <2>1. PICK n \in Names, wt \in BOOLEAN : StartSession(c, n, wt)
    BY <1>3
  <2>2. PICK y, to : /\ y = [Blank EXCEPT !.op = "start", !.key = <<n, Main>>, !.wkey = <<n, Main>>,
                               !.tree = IF wt THEN n ELSE Main,
                               !.hold = IF wt THEN "owner" ELSE "none"]
                     /\ Go(c, y, to) /\ to \in {"tree", "probe"}
    BY <2>1 DEF StartSession, Begin
  <2>3. y.old = None /\ ~y.made
    BY <2>2 DEF Blank
  <2>4. QED
    BY <2>1, <2>2, <2>3 DEF StartSession, Begin
<1>4. CASE \E n \in Names, par \in Keys, auto \in BOOLEAN : ResumeSession(c, par, n, auto)
  <2>1. PICK n \in Names, par \in Keys, auto \in BOOLEAN : ResumeSession(c, par, n, auto)
    BY <1>4
  <2>2. PICK y : /\ y = [Blank EXCEPT !.op = "resume", !.key = <<n, par[2]>>, !.wkey = <<n, par[2]>>,
                           !.par = par, !.at = par, !.ret = "parent", !.auto = auto]
                 /\ Go(c, y, "get")
    BY <2>1 DEF ResumeSession, Begin
  <2>3. y.old = None /\ ~y.made
    BY <2>2 DEF Blank
  <2>4. QED
    BY <2>1, <2>2, <2>3 DEF ResumeSession, Begin
<1>5. CASE \E n \in Names, par \in Keys : RelaunchSession(c, par, n)
  <2>1. PICK n \in Names, par \in Keys : RelaunchSession(c, par, n)
    BY <1>5
  <2>2. PICK y : /\ y = [Blank EXCEPT !.op = "relaunch", !.key = <<n, par[2]>>, !.wkey = <<n, par[2]>>,
                           !.par = par, !.at = par, !.ret = "parent"]
                 /\ Go(c, y, "get")
    BY <2>1 DEF RelaunchSession, Begin
  <2>3. y.old = None /\ ~y.made
    BY <2>2 DEF Blank
  <2>4. QED
    BY <2>1, <2>2, <2>3 DEF RelaunchSession, Begin
<1>6. CASE \E n \in Names, par \in Keys, mode \in Modes, force \in BOOLEAN :
              \E t \in ForkRoots(par, n, mode) : ForkSession(c, par, n, mode, t, force)
  <2>1. PICK n \in Names, par \in Keys, mode \in Modes, force \in BOOLEAN :
                \E t \in ForkRoots(par, n, mode) : ForkSession(c, par, n, mode, t, force)
    BY <1>6
  <2>2. PICK t \in ForkRoots(par, n, mode) : ForkSession(c, par, n, mode, t, force)
    BY <2>1
  <2>3. PICK y : /\ y = [Blank EXCEPT !.op = "fork", !.mode = mode, !.key = <<n, t>>, !.wkey = <<n, t>>,
                           !.par = par, !.at = par, !.ret = "parent", !.tree = t, !.force = force,
                           !.hold = CASE mode = "same" -> "none" [] mode = "worktree" -> "owner"
                                      [] OTHER -> "guest"]
                 /\ Go(c, y, "get")
    BY <2>2 DEF ForkSession, Begin
  <2>4. y.old = None /\ ~y.made
    BY <2>3 DEF Blank
  <2>5. QED
    BY <2>2, <2>3, <2>4 DEF ForkSession, Begin
<1>7. CASE \E k \in Keys, keep, force \in BOOLEAN : DeleteSession(c, k, keep, force)
  <2>1. PICK k \in Keys, keep, force \in BOOLEAN : DeleteSession(c, k, keep, force)
    BY <1>7
  <2>2. PICK y : /\ y = [Blank EXCEPT !.op = "delete", !.key = k, !.wkey = k, !.at = k,
                           !.ret = "examine", !.keep = keep, !.force = force]
                 /\ Go(c, y, "get")
    BY <2>1 DEF DeleteSession, Begin
  <2>3. y.old = None /\ ~y.made
    BY <2>2 DEF Blank
  <2>4. QED
    BY <2>1, <2>2, <2>3 DEF DeleteSession, Begin
<1>8. QED
  BY <1>1, <1>2, <1>3, <1>4, <1>5, <1>6, <1>7 DEF BeginCall

\* Where a step that leaves the files goes.
LEMMA LookupGoes ==
  ASSUME SeqInv, NEW c \in Calls, Lookup(c) \/ Stat(c) \/ Prune(c), NEW l, l = loc[c]
  PROVE  \E m, to : /\ Go(c, m, to) /\ to # "idle" /\ m.old = l.old /\ m.made = l.made
                    /\ m.tree = l.tree \/ l.op \in {"resume", "relaunch"}
                    /\ m.key = l.key /\ m.wkey = l.wkey /\ m.op = l.op /\ m.mode = l.mode
                    /\ to \in {"failed", "stat", "prune", "stale", l.ret}
                    /\ to = "failed" => pc[c] \in Looking /\ l.ret # "remove"
<1>1. pc[c] \in Working /\ pc[c] \in Looking
  BY DEF Lookup, Stat, Prune, Looking, Working, Points, Ended
<1>2. l \in Locals /\ l.ret \in {"none", "parent", "judge", "remove", "examine"}
  <2>1. l \in Locals
    BY <1>1, LocalFacts DEF SeqInv
  <2>2. QED
    BY <2>1 DEF Locals
<1>3. CASE Found(c)
  <2>1. PICK m : /\ Go(c, m, l.ret)
                 /\ \/ m = l
                    \/ m = [l EXCEPT !.oldEntry = index[l.at]]
                    \/ l.op \in {"resume", "relaunch"} /\ m = [l EXCEPT !.tree = index[l.at].tree]
    <3>1. CASE l.ret = "judge"
      BY <1>3, <3>1 DEF Found
    <3>2. CASE l.ret # "judge" /\ l.op \in {"resume", "relaunch"} /\ index[l.at] # None
      BY <1>3, <3>2 DEF Found
    <3>3. CASE l.ret # "judge" /\ ~(l.op \in {"resume", "relaunch"} /\ index[l.at] # None)
      BY <1>3, <3>3 DEF Found
    <3>4. QED
      BY <3>1, <3>2, <3>3
  <2>2. /\ m.old = l.old /\ m.made = l.made /\ (m.tree = l.tree \/ l.op \in {"resume", "relaunch"})
        /\ m.key = l.key /\ m.wkey = l.wkey /\ m.op = l.op /\ m.mode = l.mode
    BY <1>2, <2>1 DEF Locals
  <2>3. QED
    BY <1>2, <2>1, <2>2
<1>4. CASE NotFound(c) \/ Goto(c, "stat") \/ Goto(c, "prune")
  <2>1. PICK to : /\ Go(c, l, to) /\ to \in {"failed", "stat", "prune", "stale", l.ret}
                  /\ to = "failed" => l.ret # "remove"
                  /\ to # "idle"
    BY <1>4 DEF NotFound, Goto
  <2>2. QED
    BY <1>1, <2>1
<1>5. QED
  BY <1>3, <1>4 DEF Lookup, Stat, Prune

\* The steps that take things away, or leave the files, before a call has written its manifest.
LEMMA OwnQuiet ==
  ASSUME MaxOpen = 1, SeqInv, Ownership, NEW c \in Calls,
         \/ BeginCall(c)
         \/ Step(c) /\ pc[c] \in Working \ ({"write", "add", "undo"} \cup RollsBack)
  PROVE  Ownership'
<1>0. PICK l : l = loc[c]
  OBVIOUS
<1>1. ASSUME Step(c), pc[c] \in Working \ ({"write", "add", "undo"} \cup RollsBack),
             NEW m, NEW to, Go(c, m, to), to # "idle", m.old \in {None, l.old, manifest[l.key]},
             \A k \in Keys : /\ index'[k] # None => index'[k] = index[k]
                             /\ manifest'[k] # None => manifest'[k] = manifest[k]
      PROVE  Ownership'
  <2>1. l.key \in Keys
    BY <1>0, <1>1, LocalFacts DEF SeqInv
  <2>2. QED
    BY <1>0, <1>1, <2>1, OwnClean
<1>2. CASE BeginCall(c)
  <2>1. PICK m, to : Go(c, m, to) /\ m.old = None /\ to # "idle"
    BY <1>2, BeginsBlank
  <2>2. pc[c] = "idle" /\ UNCHANGED <<manifest, index>>
    BY <1>2, BeginsBlank DEF disk
  <2>3. QED
    BY <1>2, <2>1, <2>2, OwnClean
<1>3. CASE Step(c) /\ pc[c] \in Working \ ({"write", "add", "undo"} \cup RollsBack)
  <2>0. l \in Locals /\ l.wkey \in Keys
    BY <1>0, <1>3, LocalFacts DEF SeqInv
  <2>1. CASE Lookup(c) \/ Stat(c) \/ Prune(c)
    <3>1. PICK m, to : Go(c, m, to) /\ to # "idle" /\ m.old = l.old
      BY <1>0, <2>1, LookupGoes
    <3>2. \A k \in Keys : /\ index'[k] # None => index'[k] = index[k]
                          /\ manifest'[k] # None => manifest'[k] = manifest[k]
      BY <2>1 DEF Lookup, Stat, Prune, disk, SeqInv, Inv, TypeOK
    <3>3. QED
      BY <1>1, <1>3, <3>1, <3>2
  <2>2. CASE ProbeManifest(c) \/ CheckNameFree(c)
    <3>1. PICK to : Go(c, l, to) /\ to # "idle" /\ UNCHANGED <<disk, bounds>>
      BY <1>0, <2>2 DEF ProbeManifest, CheckNameFree, Goto
    <3>2. QED
      BY <1>1, <1>3, <3>1 DEF disk
  <2>3. CASE ReadParent(c)
    <3>1. PICK m, to : Go(c, m, to) /\ to # "idle" /\ UNCHANGED <<disk, bounds>>
                       /\ \/ m = l
                          \/ m = [l EXCEPT !.at = l.key, !.ret = "judge"]
                          \/ m = [SameCheckout(l, manifest[l.par].tree) EXCEPT !.at = l.key, !.ret = "judge"]
      <4>1. CASE Goto(c, "failed") \/ Goto(c, "name") \/ Goto(c, "exists")
        BY <1>0, <2>3, <4>1 DEF ReadParent, Goto
      <4>2. CASE Go(c, [l EXCEPT !.at = l.key, !.ret = "judge"], "get")
        BY <2>3, <4>2 DEF ReadParent
      <4>3. CASE Go(c, [SameCheckout(l, manifest[l.par].tree) EXCEPT !.at = l.key, !.ret = "judge"], "get")
        BY <2>3, <4>3 DEF ReadParent
      <4>4. QED
        BY <1>0, <2>3, <4>1, <4>2, <4>3 DEF ReadParent
    <3>2. m.old = l.old
      BY <2>0, <3>1 DEF SameCheckout, Locals
    <3>3. QED
      BY <1>1, <1>3, <3>1, <3>2 DEF disk
  <2>4. CASE GenerateResumeName(c)
    <3>1. PICK k : Go(c, [l EXCEPT !.key = k, !.wkey = k], "exists")
      BY <1>0, <2>4 DEF GenerateResumeName
    <3>2. PICK m : m = [l EXCEPT !.key = k, !.wkey = k]
      OBVIOUS
    <3>3. m.old = l.old
      BY <2>0, <3>2 DEF Locals
    <3>4. QED
      BY <1>1, <1>3, <2>4, <3>1, <3>2, <3>3 DEF GenerateResumeName, disk
  <2>5. CASE JudgeTarget(c)
    <3>1. PICK m, to : /\ Go(c, m, to) /\ to # "idle" /\ UNCHANGED <<disk, bounds>>
                       /\ m = l \/ m = [l EXCEPT !.old = manifest[l.key]]
      BY <1>0, <2>5 DEF JudgeTarget, Goto
    <3>2. m.old \in {l.old, manifest[l.key]}
      BY <2>0, <3>1 DEF Locals
    <3>3. QED
      BY <1>1, <1>3, <3>1, <3>2 DEF disk
  <2>6. CASE CreateWorktree(c)
    <3>1. PICK m, to : Go(c, m, to) /\ to # "idle" /\ (m = l \/ m = [l EXCEPT !.made = TRUE])
      <4>1. CASE UNCHANGED <<pc, loc>>
        <5>1. pc = [pc EXCEPT ![c] = "tree"] /\ loc = [loc EXCEPT ![c] = l]
          BY <1>0, <2>6 DEF CreateWorktree, SeqInv, Inv, PlacesOK
        <5>2. Go(c, l, "tree")
          BY <4>1, <5>1 DEF Go, Ended
        <5>3. QED
          BY <5>2
      <4>2. CASE Goto(c, "failed")
        BY <1>0, <4>2 DEF Goto
      <4>3. CASE \E to \in {"probe", "swap", "write"} : Go(c, [l EXCEPT !.made = TRUE], to)
        BY <4>3
      <4>4. QED
        BY <1>0, <2>6, <4>1, <4>2, <4>3 DEF CreateWorktree
    <3>2. m.old = l.old
      BY <2>0, <3>1 DEF Locals
    <3>3. \A k \in Keys : /\ index'[k] # None => index'[k] = index[k]
                          /\ manifest'[k] # None => manifest'[k] = manifest[k]
      BY <2>6 DEF CreateWorktree, RemoveTree
    <3>4. QED
      BY <1>1, <1>3, <3>1, <3>2, <3>3
  <2>7. CASE SwapTarget(c)
    <3>1. PICK m : m = [l EXCEPT !.at = l.wkey, !.ret = "remove"] /\ Go(c, m, "get")
      BY <1>0, <2>7 DEF SwapTarget
    <3>2. m.old = l.old
      BY <2>0, <3>1 DEF Locals
    <3>3. QED
      BY <1>1, <1>3, <2>7, <3>1, <3>2 DEF SwapTarget, disk
  <2>8. CASE ClearStale(c) \/ UnlinkManifest(c) \/ RemoveFromIndex(c) \/ ClearActive(c)
    <3>1. PICK to : Go(c, l, to) /\ to # "idle"
      BY <1>0, <2>8 DEF ClearStale, UnlinkManifest, RemoveFromIndex, ClearActive, Goto
    <3>2. /\ UNCHANGED index \/ index' = [index EXCEPT ![l.wkey] = None]
          /\ UNCHANGED manifest \/ manifest' = [manifest EXCEPT ![l.wkey] = None]
      BY <1>0, <2>8 DEF ClearStale, UnlinkManifest, RemoveFromIndex, ClearActive
    <3>3. \A k \in Keys : /\ index'[k] # None => index'[k] = index[k]
                          /\ manifest'[k] # None => manifest'[k] = manifest[k]
      BY <3>2 DEF SeqInv, Inv, TypeOK
    <3>4. QED
      BY <1>1, <1>3, <3>1, <3>3
  <2>9. CASE Examine(c)
    <3>1. PICK m, to : Go(c, m, to) /\ to # "idle" /\ (m = l \/ m = [l EXCEPT !.tree = manifest[l.key].tree])
      BY <1>0, <2>9 DEF Examine, Goto
    <3>2. m.old = l.old
      BY <2>0, <3>1 DEF Locals
    <3>3. \A k \in Keys : /\ index'[k] # None => index'[k] = index[k]
                          /\ manifest'[k] # None => manifest'[k] = manifest[k]
      BY <2>9 DEF Examine
    <3>4. QED
      BY <1>1, <1>3, <3>1, <3>2, <3>3
  <2>10. CASE CleanupWorktree(c) \/ RetryCleanup(c)
    <3>1. PICK to : Go(c, l, to) /\ to # "idle"
      BY <1>0, <2>10 DEF CleanupWorktree, RetryCleanup, TryRemove, Goto
    <3>2. \A k \in Keys : /\ index'[k] # None => index'[k] = index[k]
                          /\ manifest'[k] # None => manifest'[k] = manifest[k]
      BY <2>10 DEF CleanupWorktree, RetryCleanup, TryRemove, RemoveTree
    <3>3. QED
      BY <1>1, <1>3, <3>1, <3>2
  <2>11. CASE PruneList(c) \/ WriteManifest(c) \/ AddToIndex(c) \/ UndoManifest(c)
    BY <1>3, <2>11 DEF PruneList, WriteManifest, AddToIndex, UndoManifest, Working
  <2>12. CASE ResumeCollides(c) \/ UndoWorktree(c) \/ RestoreTarget(c) \/ RestoreEntry(c)
    BY <1>3, <2>12, CollideSeq DEF UndoWorktree, RestoreTarget, RestoreEntry, RollsBack
  <2>13. QED
    BY <1>3, <2>1, <2>2, <2>3, <2>4, <2>5, <2>6, <2>7, <2>8, <2>9, <2>10, <2>11, <2>12 DEF Step
<1>4. QED
  BY <1>2, <1>3

\* The steps that write and undo.
LEMMA OwnWrites ==
  ASSUME MaxOpen = 1, SeqInv, Ownership, NEW c \in Calls,
         \/ WriteManifest(c) \/ AddToIndex(c) \/ UndoManifest(c) \/ UndoWorktree(c)
  PROVE  Ownership'
<1>0. PICK l : l = loc[c]
  OBVIOUS
<1>1. /\ pc[c] \in Working /\ pc[c] \in {"write", "add", "undo", "undoTree"} /\ Step(c)
      /\ Fault \/ UNCHANGED bounds
  BY DEF WriteManifest, AddToIndex, UndoManifest, UndoWorktree, Working, Points, Ended, Step
<1>2. /\ l \in Locals /\ l.op \in OpsAt[pc[c]] /\ l.key \in Keys /\ l.wkey \in Keys
      /\ IndexKnown(pc[c], l) /\ FaultKnown(pc[c], l) /\ Wrote(c, pc[c], l)
  BY <1>0, <1>1, LocalFacts, KnownNow DEF SeqInv, Ownership
<1>3. /\ faults \in Nat /\ faults' \in Nat /\ faults' >= faults /\ (Fault => faults' >= 1)
      /\ (Fault /\ faults >= 1 => faults' >= 2)
  BY <1>1, FaultCount DEF SeqInv
<1>4. Limit(l) \in 1 .. 2 /\ (l.wkey # l.key => Limit(l) = 1)
  BY DEF Limit
<1>5. l.old # None => l.old.by # c /\ (l.old.by \in Calls => ~NoTrace(l.old.by)')
  BY <1>0, <1>1, OldKept
<1>6. CASE WriteManifest(c) /\ Fault /\ UNCHANGED manifest
  <2>1. PICK to : Go(c, l, to) /\ to # "idle" /\ UNCHANGED index /\ pc[c] = "write"
    BY <1>0, <1>3, <1>6 DEF WriteManifest, Goto, AfterUndo, Fault, bounds
  <2>2. QED
    BY <1>0, <1>1, <1>6, <2>1, OwnClean DEF RollsBack
<1>7. CASE WriteManifest(c) /\ Goto(c, "add") /\ \E r : r.by = c /\ SetManifest(l.wkey, r)
  <2>1. /\ pc[c] = "write" /\ UNCHANGED index /\ Go(c, l, "add")
        /\ \A k \in Keys : manifest'[k] = manifest[k] \/ (k = l.wkey /\ manifest'[k].by = c)
    BY <1>0, <1>2, <1>7 DEF WriteManifest, SetManifest, Goto, SeqInv, Inv, TypeOK
  <2>2. Wrote(c, "add", l)'
    BY <1>2, <1>5, <2>1 DEF Wrote, RollsBack
  <2>3. QED
    BY <1>1, <2>1, <2>2, OwnMove
<1>8. CASE WriteManifest(c)
  <2> DEFINE r == [by |-> c, parent |-> IF l.par = None THEN None ELSE l.par[1],
                   fork |-> l.op \in {"fork", "relaunch"}, tree |-> l.tree, hold |-> l.hold]
  <2>1. r.by = c
    OBVIOUS
  <2>2. \/ SetManifest(l.wkey, r) /\ Goto(c, "add")
        \/ Fault /\ UNCHANGED manifest
    BY <1>0, <1>8 DEF WriteManifest
  <2> HIDE DEF r
  <2>3. QED
    BY <1>6, <1>7, <1>8, <2>1, <2>2
<1>9. CASE AddToIndex(c)
  <2>0. pc[c] = "add" /\ UNCHANGED manifest
    BY <1>9 DEF AddToIndex
  <2>1. CASE index' = [index EXCEPT ![l.wkey] = [by |-> c, tree |-> l.tree]] /\ Goto(c, "done")
    <3>1. \A k \in Keys : index'[k] = index[k] \/ index'[k].by = c
      BY <1>2, <2>1 DEF SeqInv, Inv, TypeOK
    <3>2. Go(c, l, "done")
      BY <1>0, <2>1 DEF Goto
    <3>3. QED
      BY <1>1, <2>0, <3>1, <3>2, OwnMove DEF Working, Ended
  <2>2. CASE UNCHANGED index /\ Goto(c, "undo")
    <3>1. Wrote(c, "undo", l)'
      BY <1>2, <1>5, <2>0, <2>2 DEF Wrote, RollsBack
    <3>2. Go(c, l, "undo")
      BY <1>0, <2>2 DEF Goto
    <3>3. QED
      BY <1>1, <2>0, <2>2, <3>1, <3>2, OwnMove
  <2>3. CASE UNCHANGED index /\ Goto(c, "failed") /\ l.op \notin {"start", "fork"}
    <3>1. Go(c, l, "failed")
      BY <1>0, <2>3 DEF Goto
    <3>2. QED
      BY <1>1, <2>0, <2>3, <3>1, OwnMove DEF Working, Ended
  <2>4. index[l.wkey] # None => l.op = "fork"
    <3>1. index[l.wkey] # None => l.wkey # l.key
      BY <1>2, <2>0 DEF IndexKnown, NameFree
    <3>2. QED
      BY <1>0, <1>1, <3>1, Apart
  <2>5. QED
    BY <1>0, <1>9, <2>1, <2>2, <2>3, <2>4 DEF AddToIndex
<1>10. CASE UndoManifest(c)
  <2>1. PICK to : Go(c, l, to) /\ to \in {"undoTree", "restore", "failed"} /\ UNCHANGED index /\ pc[c] = "undo"
    BY <1>0, <1>10 DEF UndoManifest, Goto, AfterUndo
  <2>2. CASE manifest' = [manifest EXCEPT ![l.wkey] = None]
    <3>1. \A k \in Keys : /\ k # l.wkey => manifest'[k] = manifest[k]
                          /\ manifest'[l.wkey] = None
      BY <1>2, <2>2 DEF SeqInv, Inv, TypeOK
    <3>2. NothingBy(c)'
      BY <1>2, <2>1, <3>1 DEF Wrote, NothingBy
    <3>3. Wrote(c, to, l)'
      BY <1>5, <3>2 DEF Wrote, NothingBy
    <3>4. \A k \in Keys : manifest'[k] # None => manifest'[k] = manifest[k]
      BY <3>1
    <3>5. QED
      BY <1>1, <2>1, <3>2, <3>3, <3>4, OwnMove
  <2>3. CASE Fault /\ UNCHANGED manifest
    <3>1. faults' >= Limit(l)
      <4>1. l.wkey = l.key => faults >= 1
        BY <1>2, <2>1 DEF FaultKnown
      <4>2. QED
        BY <1>3, <1>4, <2>3, <4>1
    <3>2. to \in RollsBack => Wrote(c, to, l)'
      BY <1>2, <1>5, <2>1, <2>3, <3>1 DEF Wrote, RollsBack, Limit
    <3>3. to \in Working => to \in RollsBack
      BY <2>1 DEF Working, Ended, RollsBack
    <3>4. ~(faults' < Limit(l))
      BY <1>3, <1>4, <3>1
    <3>5. QED
      BY <1>1, <2>1, <2>3, <3>2, <3>3, <3>4, OwnMove
  <2>4. QED
    BY <1>0, <1>10, <2>2, <2>3 DEF UndoManifest
<1>11. CASE UndoWorktree(c)
  <2>1. Go(c, l, "failed") /\ UNCHANGED index /\ pc[c] = "undoTree"
    BY <1>0, <1>11 DEF UndoWorktree, Goto
  <2>2. \A k \in Keys : manifest'[k] # None => manifest'[k] = manifest[k]
    BY <1>11 DEF UndoWorktree, RemoveTree
  <2>3. faults' < Limit(l) => NothingBy(c)'
    BY <1>2, <1>3, <1>4, <2>1, <2>2 DEF Wrote, NothingBy, RollsBack
  <2>4. QED
    BY <1>1, <2>1, <2>2, <2>3, OwnMove DEF Working, Ended
<1>12. QED
  BY <1>8, <1>9, <1>10, <1>11

\* The steps that put back what was replaced, and those that end a call.
LEMMA OwnRestores ==
  ASSUME MaxOpen = 1, SeqInv, Ownership, NEW c \in Calls,
         RestoreTarget(c) \/ RestoreEntry(c) \/ PruneList(c) \/ Crash(c)
  PROVE  Ownership'
<1>0. PICK l : l = loc[c]
  OBVIOUS
<1>1. CASE PruneList(c) \/ Crash(c)
  <2>1. PICK to : Go(c, l, to) /\ to \in {"done", "crashed"}
    BY <1>0, <1>1 DEF PruneList, Crash, Goto
  <2>2. \A k \in Keys : /\ index'[k] # None => index'[k] = index[k]
                        /\ manifest'[k] # None => manifest'[k] = manifest[k]
    BY <1>1 DEF PruneList, Crash, disk
  <2>3. BeginCall(c) \/ Step(c) \/ Crash(c)
    BY <1>1 DEF Step
  <2>4. QED
    BY <2>1, <2>2, <2>3, OwnMove DEF Working, Ended
<1>2. CASE RestoreTarget(c) \/ RestoreEntry(c)
  <2>1. pc[c] \in Working /\ pc[c] \in {"restore", "restoreEntry"} /\ Step(c)
    BY <1>2 DEF RestoreTarget, RestoreEntry, Working, Points, Ended, Step
  <2>2. l.key \in Keys /\ l.old # None /\ Wrote(c, pc[c], l)
    <3>1. l.key \in Keys /\ Shape(pc[c], l)
      BY <1>0, <2>1, LocalFacts DEF SeqInv
    <3>2. QED
      BY <1>0, <2>1, <3>1 DEF Shape, Ownership
  <2>3. /\ l.old.by # c /\ (l.old.by \in Calls => ~NoTrace(l.old.by) /\ ~NoTrace(l.old.by)')
        /\ faults \in Nat /\ faults' \in Nat /\ faults' >= faults
    BY <1>0, <2>1, <2>2, OldKept, FaultsGrow DEF SeqInv
  <2>4. \A k \in Keys : /\ index'[k] # None => index'[k] = index[k] \/ index'[k].by = l.old.by
                        /\ manifest'[k] # None => manifest'[k] = manifest[k] \/ manifest'[k] = l.old
    BY <1>0, <1>2, <2>2 DEF RestoreTarget, RestoreEntry, SetManifest, SeqInv, Inv, TypeOK
  <2>5. PICK to : Go(c, l, to) /\ to \in {"failed", "restoreEntry"}
    BY <1>0, <1>2 DEF RestoreTarget, RestoreEntry, Goto
  <2>6. Limit(l) \in Nat /\ Limit(l)' = Limit(l)
    BY DEF Limit
  <2>7. \A k \in Keys : /\ index'[k] # None => index'[k].by # c
                        /\ manifest'[k] # None /\ manifest'[k].by = c => k = l.wkey /\ faults' >= Limit(l)
    BY <2>1, <2>2, <2>3, <2>4, <2>6 DEF Wrote, RollsBack
  <2>8. to = "restoreEntry" => Wrote(c, to, l)'
    BY <2>3, <2>6, <2>7 DEF Wrote, RollsBack
  <2>9. faults' < Limit(l) => NothingBy(c)'
    BY <2>3, <2>6, <2>7 DEF NothingBy
  <2>10. to \in Working => to = "restoreEntry"
    BY <2>5 DEF Working, Ended
  <2>11. QED
    BY <2>1, <2>3, <2>4, <2>5, <2>8, <2>9, <2>10, OwnMove
<1>3. QED
  BY <1>1, <1>2

\* Who wrote what, and who left no trace.
LEMMA OwnStep == ASSUME MaxOpen = 1, SeqInv, Ownership, [Next]_vars PROVE Ownership'
<1>1. ASSUME NEW c \in Calls, BeginCall(c) \/ Step(c) \/ Crash(c) PROVE Ownership'
  <2>1. CASE BeginCall(c) \/ Crash(c) \/ PruneList(c)
    BY <2>1, OwnQuiet, OwnRestores
  <2>2. CASE Step(c) /\ ~PruneList(c) /\ pc[c] \notin {"write", "add", "undo"} \cup RollsBack
    <3>1. pc[c] # "pruneList"
      <4>1. pc[c] = "pruneList" => loc[c].op = "list" /\ Knows("pruneList", loc[c])
        BY DEF SeqInv, Known, Knows
      <4>2. ASSUME pc[c] = "pruneList" PROVE FALSE
        <5>1. CASE Lookup(c) \/ Stat(c) \/ Prune(c) \/ ProbeManifest(c)
          BY <4>2, <5>1 DEF Lookup, Stat, Prune, ProbeManifest
        <5>2. CASE ReadParent(c) \/ GenerateResumeName(c) \/ CheckNameFree(c) \/ JudgeTarget(c)
          BY <4>2, <5>2 DEF ReadParent, GenerateResumeName, CheckNameFree, JudgeTarget
        <5>3. CASE CreateWorktree(c) \/ SwapTarget(c) \/ ClearStale(c) \/ WriteManifest(c)
          BY <4>2, <5>3 DEF CreateWorktree, SwapTarget, ClearStale, WriteManifest
        <5>4. CASE AddToIndex(c) \/ ResumeCollides(c) \/ UndoManifest(c) \/ UndoWorktree(c)
          BY <4>2, <5>4 DEF AddToIndex, ResumeCollides, UndoManifest, UndoWorktree
        <5>5. CASE RestoreTarget(c) \/ RestoreEntry(c) \/ Examine(c) \/ CleanupWorktree(c) \/ RetryCleanup(c)
          BY <4>2, <5>5 DEF RestoreTarget, RestoreEntry, Examine, CleanupWorktree, RetryCleanup, TryRemove
        <5>6. CASE RemoveFromIndex(c) \/ UnlinkManifest(c) \/ ClearActive(c)
          BY <4>2, <5>6 DEF RemoveFromIndex, UnlinkManifest, ClearActive
        <5>7. QED
          BY <2>2, <5>1, <5>2, <5>3, <5>4, <5>5, <5>6 DEF Step
      <4>3. QED
        BY <4>2
    <3>2. pc[c] \in Working
      BY <2>2, <3>1, StepsWork
    <3>3. QED
      BY <2>2, <3>2, OwnQuiet
  <2>3. CASE Step(c) /\ pc[c] \in {"write", "add", "undo"} \cup RollsBack
    <3>1. CASE Lookup(c) \/ Stat(c) \/ Prune(c) \/ PruneList(c)
      BY <2>3, <3>1 DEF Lookup, Stat, Prune, PruneList, RollsBack
    <3>2. CASE ProbeManifest(c) \/ ReadParent(c) \/ GenerateResumeName(c) \/ CheckNameFree(c)
      BY <2>3, <3>2 DEF ProbeManifest, ReadParent, GenerateResumeName, CheckNameFree, RollsBack
    <3>3. CASE JudgeTarget(c) \/ CreateWorktree(c) \/ SwapTarget(c) \/ ClearStale(c)
      BY <2>3, <3>3 DEF JudgeTarget, CreateWorktree, SwapTarget, ClearStale, RollsBack
    <3>4. CASE WriteManifest(c) \/ AddToIndex(c) \/ UndoManifest(c) \/ UndoWorktree(c)
      BY <3>4, OwnWrites
    <3>5. CASE RestoreTarget(c) \/ RestoreEntry(c) \/ ResumeCollides(c)
      BY <3>5, OwnRestores, CollideSeq
    <3>6. CASE Examine(c) \/ CleanupWorktree(c) \/ RetryCleanup(c) \/ RemoveFromIndex(c) \/ UnlinkManifest(c) \/ ClearActive(c)
      BY <2>3, <3>6 DEF Examine, CleanupWorktree, RetryCleanup, TryRemove, RemoveFromIndex, UnlinkManifest, ClearActive, RollsBack
    <3>7. QED
      BY <2>3, <3>1, <3>2, <3>3, <3>4, <3>5, <3>6 DEF Step
  <2>4. QED
    BY <1>1, <2>1, <2>2, <2>3
<1>2. CASE (\E t \in Names, kind \in Kinds : Edit(t, kind)) \/ UNCHANGED vars
  <2>1. UNCHANGED <<manifest, index, pc, loc, faults>>
    BY <1>2 DEF Edit, vars, disk, bounds
  <2>2. QED
    BY <2>1 DEF Ownership, NoTrace, CleanlyFailed, NothingBy, Wrote, Limit
<1>3. QED
  BY <1>1, <1>2 DEF Next

LEMMA OwnInit == Init => Ownership
<1> SUFFICES ASSUME Init PROVE Ownership
  OBVIOUS
<1>1. None \notin Calls
  BY SessionLifecycleAssumption
<1>2. \A k \in Keys : /\ manifest[k] # None => manifest[k].by = None
                      /\ index[k] # None => index[k].by = None
  BY ExistingAssumption DEF Init
<1>3. \A c \in Calls : pc[c] = "idle"
  BY DEF Init
<1>4. QED
  BY <1>1, <1>2, <1>3 DEF Ownership, NothingBy, Working

LEMMA OwnClears == Ownership => FailureLeavesNothing
  BY DEF Ownership, NoTrace, CleanlyFailed, NothingBy, Limit, FailureLeavesNothing

\* Nothing of a start or a fork that failed is left, however the manifest, the entry or the
\* worktree failed to be made, unless the rollback failed as well.
THEOREM NothingIsLeft == ASSUME MaxOpen = 1 PROVE Spec => []FailureLeavesNothing
<1> DEFINE Own == SeqInv /\ Ownership
<1>1. Init => Own
  BY SeqInit, OwnInit
<1>2. Own /\ [Next]_vars => Own'
  BY SeqStep, OwnStep
<1>3. Own => FailureLeavesNothing
  BY OwnClears
<1>4. QED
  BY <1>1, <1>2, <1>3, PTL DEF Spec

-----------------------------------------------------------------------------
(* What keeps the worktrees.                                               *)

\* After the step of a call the files are tidy for it, wherever it is then.
TidyAfter(c) == \E m, to : Go(c, m, to) /\ to # "idle" /\ TidyAt(to, m)'

\* A call that does not work has no part in it.
LEMMA TidyOut ==
  ASSUME NEW w, NEW l, NEW v, NEW m, w \notin Working, v \notin Working, TidyAt(w, l) PROVE TidyAt(v, m)
<1>1. /\ w \notin {"add", "undo", "unlink", "tree", "undoTree"}
      /\ v \notin {"add", "undo", "unlink", "tree", "undoTree"}
  BY DEF Working, Points, Ended
<1>2. \A t \in dirs : Saved(v, m, t)
  BY <1>1 DEF TidyAt, Kept, Saved, Writing, Covers
<1>3. Listed(v, m) /\ There(v, m)
  BY <1>1 DEF TidyAt, Listed, There
<1>4. QED
  BY <1>1, <1>2, <1>3 DEF TidyAt, Kept

\* It is tidy for the call that moves.
LEMMA TidyNow ==
  ASSUME MaxOpen = 1, SeqInv, Tidy, ~Exempt, NEW c \in Calls, BeginCall(c) \/ Step(c)
  PROVE  TidyAt(pc[c], loc[c])
<1>1. CASE BeginCall(c)
  <2>1. Open = {} /\ pc[c] = "idle"
    BY <1>1, BeginsAlone DEF SeqInv
  <2>2. TidyAt("idle", Blank)
    BY <2>1 DEF Tidy
  <2>3. "idle" \notin Working
    BY DEF Working
  <2>4. QED
    BY <2>1, <2>2, <2>3, TidyOut
<1>2. CASE Step(c)
  <2>1. c \in Open
    BY <1>2, StepsWork DEF Open, Working, Points, Ended
  <2>2. QED
    BY <2>1 DEF Tidy
<1>3. QED
  BY <1>1, <1>2

\* And when it is afterwards, it is tidy.
LEMMA TidyMove ==
  ASSUME MaxOpen = 1, SeqInv, NEW c \in Calls, BeginCall(c) \/ Step(c), TidyAfter(c)
  PROVE  Tidy'
<1>1. PICK m, to : Go(c, m, to) /\ to # "idle" /\ TidyAt(to, m)'
  BY DEF TidyAfter
<1>2. \A d \in Calls \ {c} : pc'[d] \in Ended \cup {"idle"}
  BY AloneStep, OthersRest DEF SeqInv
<1>3. pc'[c] = to /\ (to \notin Ended => loc'[c] = m)
  BY <1>1 DEF Go, SeqInv, Inv, PlacesOK
<1>4. CASE to \in Ended
  <2>1. Open' = {}
    BY <1>2, <1>3, <1>4 DEF Open
  <2>2. to \notin Working /\ "idle" \notin Working
    BY <1>4 DEF Working
  <2>3. TidyAt("idle", Blank)'
    <3>1. PICK b : b = Blank
      OBVIOUS
    <3>2. TidyAt("idle", b)'
      <4>1. /\ to \notin {"add", "undo", "unlink", "tree", "undoTree"}
            /\ "idle" \notin {"add", "undo", "unlink", "tree", "undoTree"}
        BY <1>4 DEF Ended
      <4>2. (\A t \in dirs : Saved("idle", b, t))'
        BY <1>1, <2>2, <4>1 DEF TidyAt, Kept, Saved, Writing, Covers
      <4>3. (Listed("idle", b) /\ There("idle", b))'
        BY <1>1, <4>1 DEF TidyAt, Listed, There
      <4>4. QED
        BY <1>1, <4>2, <4>3 DEF TidyAt, Kept
    <3>3. QED
      BY <3>1, <3>2
  <2>4. QED
    BY <2>1, <2>3 DEF Tidy
<1>5. CASE to \notin Ended
  <2>1. c \in Open' /\ \A d \in Open' : d = c
    BY <1>1, <1>2, <1>3, <1>5 DEF Open
  <2>2. TidyAt(pc[c], loc[c])'
    BY <1>1, <1>3, <1>5
  <2>3. \A d \in Open' : TidyAt(pc[d], loc[d])'
    BY <2>1, <2>2
  <2>4. QED
    BY <2>1, <2>3 DEF Tidy
<1>6. QED
  BY <1>4, <1>5

\* Manifests, entries and worktrees go: what has to be said of what goes.
LEMMA TidyLess ==
  ASSUME SeqInv, NEW w, NEW l, TidyAt(w, l), NEW to, NEW m,
         faults' \in Nat, faults' >= faults, dirs' \subseteq dirs,
         \A k \in Keys : /\ index'[k] # None => index'[k] = index[k]
                         /\ manifest'[k] # None => manifest'[k] = manifest[k],
         \A k \in Keys : /\ k[2] = Main /\ manifest'[k] # None /\ index'[k] = None
                         /\ index[k] # None \/ (w \in {"unlink", "add", "undo"} /\ l.wkey = k)
                         => faults' >= 1 \/ (to \in {"unlink", "add", "undo"} /\ m.wkey = k),
         \A k \in Keys : /\ k[2] = Main /\ index'[k] # None /\ ~Exists(index[k].tree)'
                         /\ Exists(index[k].tree) \/ (w = "tree" /\ l.old # None /\ l.tree = index[k].tree)
                         => faults' >= 1 \/ (to = "tree" /\ m.old # None /\ m.tree = index[k].tree),
         \A t \in Names : t \in dirs' /\ Saved(w, l, t) => Saved(to, m, t)',
         to = "undoTree" => faults' >= 1
  PROVE  TidyAt(to, m)'
<1>1. faults \in Nat
  BY DEF SeqInv, Inv, TypeOK
<1>2. Agree'
  BY DEF TidyAt, Agree
<1>3. Listed(to, m)'
  <2>1. SUFFICES ASSUME NEW k \in Keys, k[2] = Main, manifest'[k] # None, index'[k] = None
                 PROVE  faults' >= 1 \/ (to \in {"unlink", "add", "undo"} /\ m.wkey = k)
    BY DEF Listed
  <2>2. manifest[k] # None /\ (index[k] = None => faults >= 1 \/ (w \in {"unlink", "add", "undo"} /\ l.wkey = k))
    BY <2>1 DEF TidyAt, Listed
  <2>3. QED
    BY <1>1, <2>1, <2>2
<1>4. There(to, m)'
  <2>1. SUFFICES ASSUME NEW k \in Keys, k[2] = Main, index'[k] # None, ~Exists(index[k].tree)'
                 PROVE  faults' >= 1 \/ (to = "tree" /\ m.old # None /\ m.tree = index'[k].tree)
    BY DEF There, Exists
  <2>2. index'[k] = index[k]
    BY <2>1
  <2>3. ~Exists(index[k].tree) => faults >= 1 \/ (w = "tree" /\ l.old # None /\ l.tree = index[k].tree)
    BY <2>1, <2>2 DEF TidyAt, There
  <2>4. QED
    BY <1>1, <2>1, <2>2, <2>3
<1>5. Kept(to, m)'
  BY DEF TidyAt, Kept, SeqInv, Inv, TypeOK
<1>6. QED
  BY <1>2, <1>3, <1>4, <1>5 DEF TidyAt

\* A step that at most drops entries.
LEMMA TidyQuiet ==
  ASSUME SeqInv, NEW c \in Calls, NEW l, l = loc[c], TidyAt(pc[c], l), UNCHANGED <<manifest, dirs>>,
         faults' \in Nat, faults' >= faults,
         NEW m, NEW to, Go(c, m, to), to # "idle",
         \A k \in Keys : /\ index'[k] # None => index'[k] = index[k]
                         /\ index[k] # None /\ index'[k] = None /\ manifest[k] # None =>
                              /\ k[2] = Main => faults' >= 1 \/ (to = "unlink" /\ m.wkey = k)
                              /\ manifest[k].tree \notin dirs \/ k[2] = manifest[k].tree,
         pc[c] \in {"unlink", "add", "undo"} =>
            faults' >= 1 \/ (to \in {"unlink", "add", "undo"} /\ m.wkey = l.wkey),
         pc[c] = "tree" /\ l.old # None => faults' >= 1,
         to \in {"add", "undo"} => pc[c] \in {"add", "undo"} /\ m.wkey = l.wkey,
         to = "undoTree" => faults' >= 1,
         Covers(pc[c], l) =>
            \/ Covers(to, m) /\ m.tree = l.tree
            \/ to = "failed" /\ \E k \in Keys : manifest[k] # None /\ manifest[k].tree = l.tree /\ k[2] = l.tree
  PROVE  TidyAfter(c)
<1>1. \A k \in Keys : manifest'[k] # None => manifest'[k] = manifest[k]
  OBVIOUS
<1>2. \A k \in Keys : /\ k[2] = Main /\ manifest'[k] # None /\ index'[k] = None
                      /\ index[k] # None \/ (pc[c] \in {"unlink", "add", "undo"} /\ l.wkey = k)
                      => faults' >= 1 \/ (to \in {"unlink", "add", "undo"} /\ m.wkey = k)
  OBVIOUS
<1>3. \A k \in Keys : /\ k[2] = Main /\ index'[k] # None /\ ~Exists(index[k].tree)'
                      /\ \/ Exists(index[k].tree)
                         \/ pc[c] = "tree" /\ l.old # None /\ l.tree = index[k].tree
                      => faults' >= 1 \/ (to = "tree" /\ m.old # None /\ m.tree = index[k].tree)
  BY DEF Exists
<1>4. ASSUME NEW t \in Names, t \in dirs', Saved(pc[c], l, t) PROVE Saved(to, m, t)'
  <2>1. CASE \E k \in Keys : Keeps(k, t) /\ ~Writing(pc[c], l, k)
    <3>1. PICK k \in Keys : Keeps(k, t) /\ ~Writing(pc[c], l, k)
      BY <2>1
    <3>2. manifest'[k] # None /\ manifest'[k].tree = t /\ t \in dirs
      BY <1>4, <3>1 DEF Keeps
    <3>3. k[2] = t \/ index'[k] # None
      BY <3>1, <3>2 DEF Keeps
    <3>4. ~Writing(to, m, k)
      BY <3>1 DEF Writing
    <3>5. QED
      BY <3>2, <3>3, <3>4 DEF Saved, Keeps
  <2>2. CASE Covers(pc[c], l) /\ l.tree = t
    <3>1. CASE Covers(to, m) /\ m.tree = l.tree
      BY <2>2, <3>1 DEF Saved, Covers
    <3>2. CASE to = "failed" /\ \E k \in Keys : manifest[k] # None /\ manifest[k].tree = l.tree /\ k[2] = l.tree
      BY <2>2, <3>2 DEF Saved, Keeps, Writing
    <3>3. QED
      BY <2>2, <3>1, <3>2
  <2>3. QED
    BY <1>4, <2>1, <2>2 DEF Saved
<1>5. TidyAt(to, m)'
  BY <1>1, <1>2, <1>3, <1>4, TidyLess
<1>6. QED
  BY <1>5 DEF TidyAfter

\* A call that begins, one that lists.
LEMMA TidyBegin ==
  ASSUME SeqInv, NEW c \in Calls, TidyAt(pc[c], loc[c]), BeginCall(c) \/ PruneList(c)
  PROVE  TidyAfter(c)
<1>0. PICK l : l = loc[c]
  OBVIOUS
<1>1. faults \in Nat
  BY DEF SeqInv, Inv, TypeOK
<1>2. CASE BeginCall(c)
  <2>1. PICK m, to : /\ Go(c, m, to) /\ m.old = None /\ ~m.made
                     /\ to \in {"done", "pruneList", "tree", "probe", "get", "unlink"}
    BY <1>2, BeginsBlank
  <2>2. pc[c] = "idle" /\ UNCHANGED <<manifest, index, dirs, faults>>
    BY <1>2, BeginsBlank DEF disk, bounds
  <2>3. ~Covers(pc[c], l)
    BY <2>2 DEF Covers, Working
  <2>4. QED
    BY <1>0, <1>1, <2>1, <2>2, <2>3, TidyQuiet
<1>3. CASE PruneList(c)
  <2>1. /\ pc[c] = "pruneList" /\ Go(c, l, "done") /\ UNCHANGED <<manifest, dirs, faults>>
        /\ \A k \in Keys : index'[k] = IF k \in l.stale /\ Stale(k) THEN None ELSE index[k]
    BY <1>0, <1>3 DEF PruneList, Goto, bounds
  <2>2. ASSUME NEW k \in Keys, index[k] # None, index'[k] = None, manifest[k] # None
        PROVE  (k[2] = Main => faults' >= 1) /\ manifest[k].tree \notin dirs
    <3>1. ~Exists(index[k].tree)
      BY <2>1, <2>2 DEF Stale
    <3>2. manifest[k].tree = index[k].tree
      BY <2>2 DEF TidyAt, Agree
    <3>3. k[2] = Main => faults >= 1
      BY <1>0, <2>1, <2>2, <3>1 DEF TidyAt, There
    <3>4. QED
      BY <2>1, <3>1, <3>2, <3>3 DEF Exists
  <2>3. ~Covers(pc[c], l)
    BY <2>1 DEF Covers, Working
  <2>4. \A k \in Keys : index'[k] # None => index'[k] = index[k]
    BY <2>1
  <2>5. QED
    BY <1>0, <1>1, <2>1, <2>2, <2>3, <2>4, TidyQuiet
<1>4. QED
  BY <1>2, <1>3

\* A call that goes on answers for what it did.
LEMMA CoversOn ==
  ASSUME NEW w, NEW l, NEW to, NEW m, Covers(w, l), to \in Working, m.made = l.made, m.old = l.old,
         m.mode = l.mode, m.key = l.key, m.wkey = l.wkey
  PROVE  Covers(to, m)
  BY DEF Covers

\* A call answers only for what it has made or replaces.
LEMMA CoversWhat ==
  ASSUME SeqInv, NEW c \in Calls, NEW l, l = loc[c], Covers(pc[c], l)
  PROVE  /\ pc[c] \in Working /\ l.op \in {"start", "fork"} /\ (l.made \/ l.old # None)
         /\ ~l.made => l.op = "fork" /\ l.old # None /\ l.wkey = l.key /\ l.tree = l.key[2]
<1>1. pc[c] \in Working /\ (l.made \/ (l.old # None /\ l.mode # "worktree" /\ l.wkey = l.key))
  BY DEF Covers
<1>2. /\ l.made => l.op \in {"start", "fork"}
      /\ l.old # None => l.op = "fork"
      /\ PlaceFits(l)
  BY <1>1, LocalFacts, KnownNow DEF SeqInv
<1>3. l.op = "fork" => l.tree = l.wkey[2]
  BY <1>2 DEF PlaceFits
<1>4. QED
  BY <1>1, <1>2, <1>3

\* A lookup.
LEMMA TidyLookup ==
  ASSUME SeqInv, NEW c \in Calls, TidyAt(pc[c], loc[c]), Lookup(c) \/ Stat(c) \/ Prune(c)
  PROVE  TidyAfter(c)
<1>0. PICK l : l = loc[c]
  OBVIOUS
<1>1. pc[c] \in Working /\ pc[c] \in Looking /\ UNCHANGED <<manifest, dirs, faults>>
  BY DEF Lookup, Stat, Prune, Looking, Working, Points, Ended, disk, bounds
<1>2. PICK m, to : /\ Go(c, m, to) /\ to # "idle" /\ m.old = l.old /\ m.made = l.made
                   /\ m.tree = l.tree \/ l.op \in {"resume", "relaunch"}
                   /\ m.key = l.key /\ m.wkey = l.wkey /\ m.op = l.op /\ m.mode = l.mode
                   /\ to \in {"failed", "stat", "prune", "stale", l.ret}
                   /\ to = "failed" => pc[c] \in Looking /\ l.ret # "remove"
  BY <1>0, LookupGoes
<1>3. l.ret \in {"parent", "judge", "remove", "examine"}
  BY <1>0, <1>1, LooksFor
<1>4. ASSUME Covers(pc[c], l) PROVE Covers(to, m) /\ m.tree = l.tree
  <2>1. l.op \in {"start", "fork"} /\ (l.made \/ l.old # None)
    BY <1>0, <1>4, CoversWhat
  <2>2. l.ret = "remove"
    <3>1. WorkFits(pc[c], l)
      BY <1>0, <1>1, KnownNow
    <3>2. l.ret \in {"parent", "judge"} => l.old = None /\ ~l.made
      BY <1>1, <3>1 DEF WorkFits, PastParent
    <3>3. l.ret = "examine" => l.op = "delete"
      BY <1>0, <1>1, LooksFor
    <3>4. QED
      BY <1>3, <2>1, <3>2, <3>3
  <2>3. to \in Working
    BY <1>2, <2>2 DEF Working, Points, Ended
  <2>4. QED
    BY <1>2, <1>4, <2>1, <2>3, CoversOn
<1>5. \A k \in Keys : /\ index'[k] # None => index'[k] = index[k]
                      /\ index[k] # None /\ index'[k] = None => manifest[k] = None
  <2>1. \/ UNCHANGED index
        \/ /\ index[l.at] = None \/ manifest[l.at] = None
           /\ index' = [index EXCEPT ![l.at] = None]
    BY <1>0 DEF Lookup, Stat, Prune, disk
  <2>2. QED
    BY <2>1 DEF SeqInv, Inv, TypeOK
<1>6. /\ pc[c] \notin {"unlink", "add", "undo", "tree"} /\ to \notin {"add", "undo", "undoTree"}
      /\ faults' \in Nat /\ faults' >= faults
  BY <1>1, <1>2, <1>3 DEF Looking, SeqInv, Inv, TypeOK
<1>7. QED
  BY <1>0, <1>1, <1>2, <1>4, <1>5, <1>6, TidyQuiet

\* The steps that decide.
LEMMA TidyDecide ==
  ASSUME SeqInv, NEW c \in Calls, TidyAt(pc[c], loc[c]),
         \/ ProbeManifest(c) \/ ReadParent(c) \/ GenerateResumeName(c) \/ CheckNameFree(c)
         \/ JudgeTarget(c) \/ SwapTarget(c)
  PROVE  TidyAfter(c)
<1>0. PICK l : l = loc[c]
  OBVIOUS
<1>1. /\ pc[c] \in Working /\ UNCHANGED <<manifest, index, dirs, faults>>
      /\ pc[c] \in {"probe", "parent", "name", "exists", "judge", "swap"}
  BY DEF ProbeManifest, ReadParent, GenerateResumeName, CheckNameFree, JudgeTarget, SwapTarget,
         Working, Points, Ended, disk, bounds
<1>2. /\ l \in Locals /\ l.op \in OpsAt[pc[c]] /\ l.wkey \in Keys
      /\ PlaceFits(l) /\ WorkFits(pc[c], l) /\ IndexKnown(pc[c], l)
  BY <1>0, <1>1, LocalFacts, KnownNow DEF SeqInv
<1>3. faults' \in Nat /\ faults' >= faults
  BY <1>1 DEF SeqInv, Inv, TypeOK
<1>4. ASSUME NEW m, NEW to, Go(c, m, to), to \notin {"idle", "add", "undo"},
             to = "undoTree" => faults' >= 1,
             Covers(pc[c], l) => Covers(to, m) /\ m.tree = l.tree
      PROVE  TidyAfter(c)
  BY <1>0, <1>1, <1>3, <1>4, TidyQuiet
<1>5. CASE ProbeManifest(c)
  <2>1. PICK to : /\ Go(c, l, to) /\ to \in {"write", "undoTree", "failed"}
                  /\ to = "failed" => ~l.made
                  /\ to = "undoTree" => manifest[l.wkey] # None
    BY <1>0, <1>5 DEF ProbeManifest, Goto
  <2>2. pc[c] = "probe" /\ l.op = "start"
    BY <1>2, <1>5 DEF ProbeManifest, OpsAt
  <2>3. l.wkey[2] = Main /\ index[l.wkey] = None
    BY <1>2, <2>2 DEF PlaceFits, IndexKnown, NameFree
  <2>4. to = "undoTree" => faults' >= 1
    BY <1>0, <1>1, <1>2, <2>1, <2>2, <2>3 DEF TidyAt, Listed
  <2>5. Covers(pc[c], l) => l.made
    BY <1>0, <2>2, CoversWhat
  <2>6. Covers(pc[c], l) => Covers(to, l)
    BY <2>1, <2>5, CoversOn DEF Working, Points, Ended
  <2>7. QED
    BY <1>4, <2>1, <2>4, <2>6
<1>6. CASE ReadParent(c) \/ GenerateResumeName(c) \/ CheckNameFree(c)
  <2>1. ~Covers(pc[c], l)
    <3>1. pc[c] = "parent" => l.old = None /\ ~l.made
      BY <1>2 DEF WorkFits, PastParent
    <3>2. pc[c] # "parent" => l.op \notin {"start", "fork"}
      <4>1. pc[c] \in {"parent", "name", "exists"}
        BY <1>6 DEF ReadParent, GenerateResumeName, CheckNameFree
      <4>2. QED
        BY <1>2, <4>1 DEF OpsAt
    <3>3. QED
      BY <1>0, <3>1, <3>2, CoversWhat
  <2>2. \E m, to : Go(c, m, to) /\ to \in {"failed", "get", "name", "exists", "write"}
    <3>1. CASE ReadParent(c)
      <4>1. CASE \E to \in {"failed", "name", "exists"} : Goto(c, to)
        BY <4>1 DEF Goto
      <4>2. QED
        BY <3>1, <4>1 DEF ReadParent
    <3>2. CASE GenerateResumeName(c)
      BY <3>2 DEF GenerateResumeName
    <3>3. CASE CheckNameFree(c)
      BY <3>3 DEF CheckNameFree, Goto
    <3>4. QED
      BY <1>6, <3>1, <3>2, <3>3
  <2>3. QED
    BY <1>4, <2>1, <2>2
<1>7. CASE JudgeTarget(c)
  <2>1. ~Covers(pc[c], l)
    <3>1. pc[c] = "judge"
      BY <1>7 DEF JudgeTarget
    <3>2. l.old = None /\ ~l.made
      BY <1>2, <3>1 DEF WorkFits
    <3>3. QED
      BY <1>0, <3>2, CoversWhat
  <2>2. \E m, to : Go(c, m, to) /\ to \in {"tree", "write", "swap", "failed"}
    BY <1>7 DEF JudgeTarget, Goto
  <2>3. QED
    BY <1>4, <2>1, <2>2
<1>8. CASE SwapTarget(c)
  <2>1. PICK m, to : m = [l EXCEPT !.at = l.wkey, !.ret = "remove"] /\ to = "get" /\ Go(c, m, to)
    BY <1>0, <1>8 DEF SwapTarget
  <2>2. /\ m.old = l.old /\ m.made = l.made /\ m.mode = l.mode /\ m.key = l.key
        /\ m.wkey = l.wkey /\ m.tree = l.tree
    BY <1>2, <2>1 DEF Locals
  <2>3. Covers(pc[c], l) => Covers(to, m) /\ m.tree = l.tree
    <3>1. to \in Working
      BY <2>1 DEF Working, Points, Ended
    <3>2. QED
      BY <2>2, <3>1 DEF Covers
  <2>4. to \notin {"idle", "add", "undo", "undoTree"}
    BY <2>1
  <2>5. QED
    BY <1>4, <2>1, <2>3, <2>4
<1>9. QED
  BY <1>5, <1>6, <1>7, <1>8

\* What a forked child is given up for: its name or, in the checkout of a parent elsewhere,
\* the parent.
LEMMA ParentKeeps ==
  ASSUME SeqInv, NEW c \in Calls, pc[c] \in Working, NEW l, l = loc[c], l.wkey # l.key
  PROVE  /\ l.par \in Keys /\ l.par # l.wkey /\ Keeps(l.par, l.tree) /\ l.tree = l.wkey[2]
         /\ l.op = "fork" /\ l.mode = "same"
<1>1. l.op = "fork" /\ l.mode = "same" /\ l.par # l.wkey
  BY Apart
<1>2. l.par \in Keys /\ PlaceFits(l) /\ IndexKnown(pc[c], l) /\ ManifestKnown(pc[c], l)
  BY <1>1, LocalFacts, KnownNow DEF SeqInv
<1>3. index[l.par] # None /\ manifest[l.par] # None /\ manifest[l.par].tree = l.tree
  BY <1>2 DEF IndexKnown, ManifestKnown
<1>4. QED
  BY <1>1, <1>2, <1>3 DEF Keeps, PlaceFits

\* The name is taken, or a write failed.
LEMMA TidyFails ==
  ASSUME SeqInv, NEW c \in Calls, NEW l, l = loc[c], TidyAt(pc[c], l), UNCHANGED <<manifest, index, dirs>>,
         faults' \in Nat, faults' >= faults, NEW to, Go(c, l, to),
         \/ /\ pc[c] \in {"write", "undo"} /\ to = AfterUndo(l) /\ faults' >= 1
         \/ /\ pc[c] = "add" /\ to = "undo"
         \/ /\ pc[c] = "add" /\ to = "failed" /\ l.op \in {"resume", "relaunch"} /\ faults' >= 1
         \/ /\ pc[c] \in {"remove", "unlink", "tree"} /\ to = "failed" /\ faults' >= 1
         \/ /\ pc[c] = "unlink" /\ to = "clear" /\ faults' >= 1
         \/ /\ pc[c] = "tree" /\ to = "failed" /\ l.old = None
         \/ /\ pc[c] = "clear" /\ to = IF l.op = "fork" THEN "stale" ELSE "done"
  PROVE  TidyAfter(c)
<1>1. pc[c] \in Working
  BY DEF Working, Points, Ended
<1>2. /\ l \in Locals /\ l.op \in OpsAt[pc[c]] /\ PlaceFits(l) /\ WorkFits(pc[c], l) /\ TargetKnown(pc[c], l)
      /\ l.key \in Keys
  BY <1>1, LocalFacts, KnownNow DEF SeqInv
<1>3. ASSUME Covers(pc[c], l)
      PROVE  \/ Covers(to, l)
             \/ to = "failed" /\ \E k \in Keys : manifest[k] # None /\ manifest[k].tree = l.tree /\ k[2] = l.tree
  <2>0. /\ l.op \in {"start", "fork"} /\ (l.made \/ l.old # None)
        /\ ~l.made => l.op = "fork" /\ l.old # None /\ l.wkey = l.key /\ l.tree = l.key[2]
    BY <1>3, CoversWhat
  <2>1. CASE to \in Working
    BY <1>3, <2>1, CoversOn
  <2>2. CASE pc[c] = "tree"
    <3>1. ~l.made /\ l.hold = "owner"
      BY <1>2, <2>2 DEF WorkFits
    <3>2. l.op = "fork" => l.mode = "worktree"
      BY <1>1, <2>0, <3>1, OwnTree
    <3>3. QED
      BY <1>3, <2>0, <3>1, <3>2 DEF Covers
  <2>3. CASE pc[c] \in {"remove", "unlink"} /\ to = "failed"
    <3>1. l.op = "fork"
      BY <1>2, <2>0, <2>3 DEF OpsAt
    <3>2. l.mode # "worktree"
      BY <1>2, <2>3, <3>1 DEF WorkFits
    <3>3. ~l.made
      <4>1. l.made => l.hold = "owner"
        BY <1>2 DEF WorkFits
      <4>2. QED
        BY <1>1, <2>0, <3>1, <3>2, <4>1, OwnTree
    <3>4. l.old # None /\ l.wkey = l.key /\ l.tree = l.key[2]
      BY <2>0, <3>3
    <3>5. manifest[l.key] = l.old
      BY <1>2, <2>3, <3>2, <3>4 DEF TargetKnown
    <3>6. l.old.tree = l.tree
      BY <1>2, <3>4 DEF WorkFits
    <3>7. QED
      BY <1>2, <2>3, <3>4, <3>5, <3>6
  <2>4. to \in Working \/ pc[c] = "tree" \/ (pc[c] \in {"remove", "unlink"} /\ to = "failed")
    <3>1. CASE pc[c] \in {"write", "undo"} /\ to = AfterUndo(l)
      BY <2>0, <3>1 DEF AfterUndo, Working, Points, Ended
    <3>2. CASE pc[c] = "clear" /\ to = IF l.op = "fork" THEN "stale" ELSE "done"
      BY <1>2, <2>0, <3>2 DEF OpsAt, Working, Points, Ended
    <3>3. QED
      BY <2>0, <3>1, <3>2 DEF Working, Points, Ended
  <2>5. QED
    BY <2>1, <2>2, <2>3, <2>4
<1>4. to \notin {"idle", "add"} /\ (to = "undo" => pc[c] = "add") /\ (to = "undoTree" => faults' >= 1)
  BY DEF AfterUndo
<1>5. QED
  BY <1>3, <1>4, TidyQuiet

\* A manifest of the fork it replaces goes.
LEMMA TidyTarget ==
  ASSUME SeqInv, NEW c \in Calls, TidyAt(pc[c], loc[c]), loc[c].op # "delete",
         ClearStale(c) \/ (UnlinkManifest(c) /\ UNCHANGED bounds)
  PROVE  TidyAfter(c)
<1>0. PICK l : l = loc[c]
  OBVIOUS
<1>1. PICK to : /\ pc[c] \in Working /\ pc[c] \in {"stale", "unlink"} /\ UNCHANGED <<index, dirs, faults>>
                /\ to \in {"write", "clear", "failed"} /\ Go(c, l, to)
                /\ \/ manifest' = [manifest EXCEPT ![l.wkey] = None] /\ to # "failed"
                   \/ Fault
  BY <1>0 DEF ClearStale, UnlinkManifest, Working, Points, Ended, bounds, Goto
<1>2. /\ l \in Locals /\ l.op \in OpsAt[pc[c]] /\ l.wkey \in Keys /\ l.op # "delete"
      /\ PlaceFits(l) /\ WorkFits(pc[c], l) /\ IndexKnown(pc[c], l) /\ faults \in Nat
  BY <1>0, <1>1, LocalFacts, KnownNow DEF SeqInv, Inv, TypeOK
<1>3. manifest' = [manifest EXCEPT ![l.wkey] = None] /\ to \in {"write", "clear"}
  BY <1>1, <1>2 DEF Fault
<1>4. \A k \in Keys : /\ k # l.wkey => manifest'[k] = manifest[k]
                      /\ manifest'[l.wkey] = None
  BY <1>2, <1>3 DEF SeqInv, Inv, TypeOK
<1>5. index[l.wkey] = None
  BY <1>1, <1>2 DEF IndexKnown, NameFree
<1>6. to \in Working /\ to \notin {"add", "undo"}
  BY <1>3 DEF Working, Points, Ended
<1>7. ASSUME NEW t \in Names, t \in dirs', Saved(pc[c], l, t) PROVE Saved(to, l, t)'
  <2>1. CASE \E k \in Keys : k # l.wkey /\ Keeps(k, t)
    <3>1. PICK k \in Keys : k # l.wkey /\ Keeps(k, t)
      BY <2>1
    <3>2. Keeps(k, t)'
      BY <1>1, <1>4, <3>1 DEF Keeps
    <3>3. QED
      BY <1>6, <3>2 DEF Saved, Writing
  <2>2. CASE Keeps(l.wkey, t)
    <3>1. l.wkey[2] = t /\ t # Main
      BY <1>5, <1>7, <2>2, SessionLifecycleAssumption DEF Keeps
    <3>2. l.op = "fork"
      <4>1. l.op \in {"fork", "orphan"}
        BY <1>1, <1>2 DEF OpsAt
      <4>2. QED
        BY <1>2, <3>1, <4>1 DEF PlaceFits
    <3>3. l.old # None /\ l.tree = t /\ (l.mode = "worktree" => l.made)
      BY <1>1, <1>2, <3>1, <3>2 DEF WorkFits, PlaceFits
    <3>4. CASE l.wkey = l.key
      <4>1. Covers(to, l)
        BY <1>6, <3>3, <3>4 DEF Covers
      <4>2. QED
        BY <3>3, <4>1 DEF Saved, Covers
    <3>5. CASE l.wkey # l.key
      BY <1>0, <1>1, <2>1, <3>3, <3>5, ParentKeeps
    <3>6. QED
      BY <3>4, <3>5
  <2>3. CASE Covers(pc[c], l) /\ l.tree = t
    BY <1>6, <2>3 DEF Saved, Covers
  <2>4. QED
    BY <1>2, <1>7, <2>1, <2>2, <2>3 DEF Saved
<1>8. \A k \in Keys : /\ index'[k] # None => index'[k] = index[k]
                      /\ manifest'[k] # None => manifest'[k] = manifest[k]
  BY <1>1, <1>4
<1>9. \A k \in Keys : /\ k[2] = Main /\ manifest'[k] # None /\ index'[k] = None
                      /\ index[k] # None \/ (pc[c] \in {"unlink", "add", "undo"} /\ l.wkey = k)
                      => faults' >= 1 \/ (to \in {"unlink", "add", "undo"} /\ l.wkey = k)
  BY <1>1, <1>4
<1>10. \A k \in Keys : /\ k[2] = Main /\ index'[k] # None /\ ~Exists(index[k].tree)'
                       /\ \/ Exists(index[k].tree)
                          \/ pc[c] = "tree" /\ l.old # None /\ l.tree = index[k].tree
                       => faults' >= 1 \/ (to = "tree" /\ l.old # None /\ l.tree = index[k].tree)
  BY <1>1 DEF Exists
<1>11. TidyAt(to, l)'
  <2>1. TidyAt(pc[c], l) /\ faults' \in Nat /\ faults' >= faults /\ dirs' \subseteq dirs /\ to # "undoTree"
    BY <1>0, <1>1, <1>2, <1>3
  <2>2. QED
    BY <1>7, <1>8, <1>9, <1>10, <2>1, TidyLess
<1>12. QED
  BY <1>1, <1>6, <1>11 DEF TidyAfter, Working

\* The manifest it has written is taken back.
LEMMA TidyUndo ==
  ASSUME SeqInv, NEW c \in Calls, TidyAt(pc[c], loc[c]), UndoManifest(c) PROVE TidyAfter(c)
<1>0. PICK l : l = loc[c]
  OBVIOUS
<1>1. PICK to : /\ pc[c] \in Working /\ pc[c] = "undo" /\ UNCHANGED <<index, dirs>>
                /\ Fault \/ UNCHANGED bounds
                /\ to = AfterUndo(l) /\ Go(c, l, to)
                /\ \/ manifest' = [manifest EXCEPT ![l.wkey] = None]
                   \/ Fault /\ UNCHANGED manifest
  BY <1>0 DEF UndoManifest, Working, Points, Ended, Goto
<1>2. /\ l.op \in OpsAt[pc[c]] /\ l.wkey \in Keys /\ WorkFits(pc[c], l) /\ FaultKnown(pc[c], l)
  BY <1>0, <1>1, LocalFacts, KnownNow DEF SeqInv
<1>3. /\ faults \in Nat /\ faults' \in Nat /\ faults' >= faults /\ (Fault => faults' >= 1)
  BY <1>1, FaultCount DEF SeqInv
<1>4. CASE Fault /\ UNCHANGED manifest
  BY <1>0, <1>1, <1>3, <1>4, TidyFails
<1>5. CASE manifest' = [manifest EXCEPT ![l.wkey] = None]
  <2>1. \A k \in Keys : /\ k # l.wkey => manifest'[k] = manifest[k]
                        /\ manifest'[l.wkey] = None
    BY <1>2, <1>5 DEF SeqInv, Inv, TypeOK
  <2>2. to \notin {"idle", "add", "undo", "unlink", "tree"}
    BY <1>1 DEF AfterUndo
  <2>3. ASSUME NEW t \in Names, t \in dirs', Saved(pc[c], l, t) PROVE Saved(to, l, t)'
    <3>1. CASE \E k \in Keys : Keeps(k, t) /\ ~Writing(pc[c], l, k)
      <4>1. PICK k \in Keys : Keeps(k, t) /\ k # l.wkey
        BY <1>1, <3>1 DEF Writing
      <4>2. Keeps(k, t)'
        BY <1>1, <2>1, <4>1 DEF Keeps
      <4>3. QED
        BY <2>2, <4>2 DEF Saved, Writing
    <3>2. CASE Covers(pc[c], l) /\ l.tree = t
      <4>1. to \in Working
        BY <1>1, <3>2 DEF Covers, AfterUndo, Working, Points, Ended
      <4>2. QED
        BY <3>2, <4>1 DEF Saved, Covers
    <3>3. QED
      BY <2>3, <3>1, <3>2 DEF Saved
  <2>4. to = "undoTree" => faults' >= 1
    <3>1. to = "undoTree" => l.made /\ l.hold = "owner"
      BY <1>1, <1>2 DEF AfterUndo, WorkFits
    <3>2. l.op \in {"start", "fork"}
      BY <1>1, <1>2 DEF OpsAt
    <3>3. to = "undoTree" => l.wkey = l.key
      BY <1>0, <1>1, <3>1, <3>2, OwnTree
    <3>4. QED
      BY <1>1, <1>2, <1>3, <3>3 DEF FaultKnown
  <2>5. \A k \in Keys : /\ index'[k] # None => index'[k] = index[k]
                        /\ manifest'[k] # None => manifest'[k] = manifest[k]
    BY <1>1, <2>1
  <2>6. \A k \in Keys : /\ k[2] = Main /\ manifest'[k] # None /\ index'[k] = None
                        /\ index[k] # None \/ (pc[c] \in {"unlink", "add", "undo"} /\ l.wkey = k)
                        => faults' >= 1 \/ (to \in {"unlink", "add", "undo"} /\ l.wkey = k)
    BY <1>1, <2>1
  <2>7. \A k \in Keys : /\ k[2] = Main /\ index'[k] # None /\ ~Exists(index[k].tree)'
                        /\ \/ Exists(index[k].tree)
                           \/ pc[c] = "tree" /\ l.old # None /\ l.tree = index[k].tree
                        => faults' >= 1 \/ (to = "tree" /\ l.old # None /\ l.tree = index[k].tree)
    BY <1>1 DEF Exists
  <2>8. TidyAt(pc[c], l) /\ dirs' \subseteq dirs
    BY <1>0, <1>1
  <2>9. TidyAt(to, l)'
    BY <1>3, <2>3, <2>4, <2>5, <2>6, <2>7, <2>8, TidyLess
  <2>10. QED
    BY <1>1, <2>2, <2>9 DEF TidyAfter
<1>6. QED
  BY <1>1, <1>4, <1>5

\* A worktree is removed with what is in it.
LEMMA TidyTreeGone ==
  ASSUME SeqInv, NEW c \in Calls, NEW l, l = loc[c], TidyAt(pc[c], l), RemoveTree(l.tree), l.tree # Main,
         UNCHANGED index, faults' \in Nat, faults' >= faults, NEW to, Go(c, l, to),
         \/ pc[c] = "tree" /\ to = "tree" /\ l.old # None
         \/ pc[c] = "undoTree" /\ to = "failed"
  PROVE  TidyAfter(c)
<1>1. /\ dirs' = dirs \ {l.tree} /\ faults \in Nat /\ (pc[c] = "undoTree" => faults >= 1)
      /\ \A k \in Keys : manifest'[k] = IF k[2] = l.tree THEN None ELSE manifest[k]
  BY DEF RemoveTree, TidyAt, SeqInv, Inv, TypeOK
<1>2. ASSUME NEW t \in Names, t \in dirs', Saved(pc[c], l, t) PROVE Saved(to, l, t)'
  <2>1. PICK k \in Keys : Keeps(k, t)
    BY <1>1, <1>2 DEF Saved
  <2>2. k[2] # l.tree
    BY <1>1, <1>2, <2>1 DEF Keeps, SeqInv, Files, TreesFit
  <2>3. Keeps(k, t)'
    BY <1>1, <2>1, <2>2 DEF Keeps
  <2>4. QED
    BY <2>3 DEF Saved, Writing
<1>3. \A k \in Keys : /\ index'[k] # None => index'[k] = index[k]
                      /\ manifest'[k] # None => manifest'[k] = manifest[k]
  BY <1>1
<1>4. \A k \in Keys : /\ k[2] = Main /\ manifest'[k] # None /\ index'[k] = None
                      /\ index[k] # None \/ (pc[c] \in {"unlink", "add", "undo"} /\ l.wkey = k)
                      => faults' >= 1 \/ (to \in {"unlink", "add", "undo"} /\ l.wkey = k)
  OBVIOUS
<1>5. \A k \in Keys : /\ k[2] = Main /\ index'[k] # None /\ ~Exists(index[k].tree)'
                      /\ \/ Exists(index[k].tree)
                         \/ pc[c] = "tree" /\ l.old # None /\ l.tree = index[k].tree
                      => faults' >= 1 \/ (to = "tree" /\ l.old # None /\ l.tree = index[k].tree)
  BY <1>1 DEF Exists
<1>6. TidyAt(to, l)'
  <2>1. dirs' \subseteq dirs /\ to # "undoTree"
    BY <1>1
  <2>2. QED
    BY <1>2, <1>3, <1>4, <1>5, <2>1, TidyLess
<1>7. QED
  BY <1>6 DEF TidyAfter

\* A worktree is made.
LEMMA TidyCreate ==
  ASSUME SeqInv, NEW c \in Calls, TidyAt(pc[c], loc[c]), CreateWorktree(c) PROVE TidyAfter(c)
<1>0. PICK l : l = loc[c]
  OBVIOUS
<1>1. /\ pc[c] \in Working /\ pc[c] = "tree" /\ UNCHANGED index /\ (Fault \/ UNCHANGED bounds)
  BY DEF CreateWorktree, Working, Points, Ended
<1>2. /\ l \in Locals /\ l.op \in {"start", "fork"} /\ ~l.made /\ l.hold = "owner"
  BY <1>0, <1>1, LocalFacts, KnownNow DEF SeqInv, OpsAt, WorkFits
<1>3. /\ l.tree = l.key[1] /\ l.tree \in Names /\ l.tree # Main
      /\ l.op = "fork" => l.mode = "worktree"
  BY <1>0, <1>1, <1>2, OwnTree
<1>4. /\ faults \in Nat /\ faults' \in Nat /\ faults' >= faults /\ (Fault => faults' >= 1)
  BY <1>1, FaultCount DEF SeqInv
<1>5. CASE UNCHANGED <<manifest, dirs>> /\ Goto(c, "failed") /\ (l.old = None \/ Fault)
  <2>1. Go(c, l, "failed")
    BY <1>0, <1>5 DEF Goto
  <2>2. QED
    BY <1>0, <1>1, <1>4, <1>5, <2>1, TidyFails
<1>6. CASE l.old # None /\ RemoveTree(l.tree) /\ UNCHANGED <<pc, loc, bounds>>
  <2>1. Go(c, l, "tree")
    <3>1. pc = [pc EXCEPT ![c] = "tree"] /\ loc = [loc EXCEPT ![c] = l]
      BY <1>0, <1>1 DEF SeqInv, Inv, PlacesOK
    <3>2. QED
      BY <1>6, <3>1 DEF Go, Ended
  <2>2. QED
    BY <1>0, <1>1, <1>3, <1>4, <1>6, <2>1, TidyTreeGone
<1>7. CASE /\ l.tree \notin dirs /\ dirs' = dirs \cup {l.tree} /\ UNCHANGED <<manifest, bounds>>
           /\ \E to \in {"probe", "swap", "write"} : Go(c, [l EXCEPT !.made = TRUE], to)
  <2>1. PICK y, to : to \in {"probe", "swap", "write"} /\ y = [l EXCEPT !.made = TRUE] /\ Go(c, y, to)
    BY <1>7
  <2>2. y.made /\ y.tree = l.tree /\ to \in Working
    BY <1>2, <2>1 DEF Locals, Working, Points, Ended
  <2>3. UNCHANGED <<manifest, index, faults>>
    BY <1>1, <1>7 DEF bounds
  <2>4. Agree' /\ Listed(to, y)'
    BY <1>0, <1>1, <2>3 DEF TidyAt, Agree, Listed
  <2>5. There(to, y)'
    BY <1>0, <1>7, <2>3 DEF TidyAt, There, Exists
  <2>6. ASSUME NEW t \in Names, t \in dirs' PROVE Saved(to, y, t)'
    <3>1. CASE t = l.tree
      BY <2>2, <3>1 DEF Saved, Covers
    <3>2. CASE t # l.tree
      <4>1. Saved("tree", l, t)
        BY <1>0, <1>1, <1>7, <2>6, <3>2 DEF TidyAt, Kept
      <4>2. ~Covers("tree", l)
        BY <1>0, <1>1, <1>2, <1>3, CoversWhat DEF Covers
      <4>3. PICK k \in Keys : Keeps(k, t)
        BY <4>1, <4>2 DEF Saved
      <4>4. Keeps(k, t)'
        BY <2>3, <4>3 DEF Keeps
      <4>5. QED
        BY <2>1, <4>4 DEF Saved, Writing
    <3>3. QED
      BY <3>1, <3>2
  <2>7. Kept(to, y)'
    <3>1. dirs' \subseteq Names
      BY <1>3, <1>7 DEF SeqInv, Inv, TypeOK
    <3>2. QED
      BY <2>6, <3>1 DEF Kept
  <2>8. TidyAt(to, y)'
    BY <2>1, <2>4, <2>5, <2>7 DEF TidyAt
  <2>9. QED
    BY <2>1, <2>8 DEF TidyAfter
<1>8. QED
  BY <1>0, <1>3, <1>5, <1>6, <1>7 DEF CreateWorktree

\* A worktree is removed again.
LEMMA TidyUndoTree ==
  ASSUME SeqInv, NEW c \in Calls, TidyAt(pc[c], loc[c]), UndoWorktree(c), faults' < 2 PROVE TidyAfter(c)
<1>0. PICK l : l = loc[c]
  OBVIOUS
<1>1. /\ pc[c] \in Working /\ pc[c] = "undoTree" /\ UNCHANGED index /\ (Fault \/ UNCHANGED bounds)
      /\ RemoveTree(l.tree) \/ Fault
      /\ Go(c, l, "failed")
  BY <1>0 DEF UndoWorktree, Working, Points, Ended, Goto
<1>2. l.op \in {"start", "fork"} /\ l.hold = "owner"
  BY <1>0, <1>1, LocalFacts, KnownNow DEF SeqInv, OpsAt, WorkFits
<1>3. l.tree # Main
  BY <1>0, <1>1, <1>2, OwnTree
<1>4. /\ faults' \in Nat /\ faults' >= faults /\ faults >= 1 /\ (Fault /\ faults >= 1 => faults' >= 2)
  BY <1>1, FaultCount DEF SeqInv, TidyAt
<1>5. RemoveTree(l.tree)
  BY <1>1, <1>4
<1>6. QED
  BY <1>0, <1>1, <1>3, <1>4, <1>5, TidyTreeGone

\* The worktree a call writes in is kept by more than what it writes.
LEMMA WrittenKept ==
  ASSUME SeqInv, NEW c \in Calls, pc[c] = "write", NEW l, l = loc[c], UNCHANGED index,
         \A k \in Keys : k # l.wkey => manifest'[k] = manifest[k],
         NEW t \in Names, t = l.wkey[2], t \notin dirs \/ manifest[l.wkey] # None
  PROVE  Saved("add", l, t)'
<1>1. pc[c] \in Working
  BY DEF Working, Points, Ended
<1>2. /\ l \in Locals /\ l.op \in Creators /\ l.key \in Keys /\ l.wkey \in Keys
      /\ PlaceFits(l) /\ WorkFits("write", l) /\ IndexKnown("write", l)
      /\ ManifestKnown("write", l) /\ TreeKnown("write", l)
  BY <1>1, LocalFacts, KnownNow DEF SeqInv, OpsAt
<1>3. t # Main
  BY SessionLifecycleAssumption
<1>4. ASSUME NEW k \in Keys, k # l.wkey, Keeps(k, t) PROVE Saved("add", l, t)'
  <2>1. Keeps(k, t)'
    BY <1>4 DEF Keeps
  <2>2. QED
    BY <1>4, <2>1 DEF Saved, Writing
<1>5. CASE l.wkey # l.key
  <2>1. l.par \in Keys /\ l.par # l.wkey /\ Keeps(l.par, l.tree) /\ l.tree = l.wkey[2]
    BY <1>1, <1>5, ParentKeeps
  <2>2. QED
    BY <1>4, <2>1
<1>6. CASE l.wkey = l.key /\ l.op = "start"
  BY <1>2, <1>3, <1>6 DEF PlaceFits
<1>7. CASE l.wkey = l.key /\ l.op \in {"resume", "relaunch"}
  <2>1. l.par \in Keys /\ l.par[2] = t
    BY <1>1, <1>2, <1>7, LocalFacts DEF SeqInv, PlaceFits
  <2>2. index[l.par] # None /\ manifest[l.par] # None /\ index[l.wkey] = None
    BY <1>2, <1>7 DEF IndexKnown, ManifestKnown, PastParent, NameFree, Looking
  <2>3. manifest[l.par].tree = t
    BY <1>3, <2>1, <2>2 DEF SeqInv, Files, TreesFit
  <2>4. QED
    BY <1>4, <2>1, <2>2, <2>3 DEF Keeps
<1>8. CASE l.wkey = l.key /\ l.op = "fork"
  <2>1. l.tree = t
    BY <1>2, <1>8 DEF PlaceFits
  <2>2. CASE l.old = None
    <3>1. manifest[l.key] = None
      BY <1>2, <1>8, <2>2 DEF ManifestKnown
    <3>2. t \notin dirs
      BY <1>8, <3>1
    <3>3. l.mode = "worktree"
      BY <1>2, <1>3, <1>8, <3>2 DEF PlaceFits, TreeKnown, PastParent, Looking, Exists
    <3>4. l.made
      BY <1>2, <1>8, <3>3 DEF WorkFits
    <3>5. QED
      BY <1>2, <2>1, <3>2, <3>4 DEF TreeKnown
  <2>3. CASE l.old # None
    <3>1. l.mode = "worktree" => l.made
      BY <1>2, <1>8 DEF WorkFits
    <3>2. "add" \in Working
      BY DEF Working, Points, Ended
    <3>3. Covers("add", l)
      BY <1>8, <2>3, <3>1, <3>2 DEF Covers
    <3>4. QED
      BY <2>1, <3>3 DEF Saved, Covers
  <2>4. QED
    BY <2>2, <2>3
<1>9. QED
  BY <1>2, <1>5, <1>6, <1>7, <1>8 DEF Creators

\* A manifest is written.
LEMMA TidyWrite ==
  ASSUME SeqInv, NEW c \in Calls, TidyAt(pc[c], loc[c]), WriteManifest(c) PROVE TidyAfter(c)
<1>0. PICK l : l = loc[c]
  OBVIOUS
<1>1. /\ pc[c] \in Working /\ pc[c] = "write" /\ UNCHANGED index /\ (Fault \/ UNCHANGED bounds)
  BY DEF WriteManifest, Working, Points, Ended
<1>2. /\ l \in Locals /\ l.wkey \in Keys /\ l.wkey[2] \in Roots
      /\ PlaceFits(l) /\ IndexKnown("write", l)
  BY <1>0, <1>1, LocalFacts, KnownNow DEF SeqInv
<1>3. /\ faults \in Nat /\ faults' \in Nat /\ faults' >= faults /\ (Fault => faults' >= 1)
  BY <1>1, FaultCount DEF SeqInv
<1>4. CASE Fault /\ UNCHANGED <<manifest, dirs>> /\ Goto(c, AfterUndo(l))
  <2>1. Go(c, l, AfterUndo(l))
    BY <1>0, <1>4 DEF Goto
  <2>2. QED
    BY <1>0, <1>1, <1>3, <1>4, <2>1, TidyFails
<1>5. CASE Goto(c, "add") /\ \E r : r.tree = l.tree /\ r # None /\ SetManifest(l.wkey, r)
  <2>1. /\ Go(c, l, "add") /\ dirs' = dirs \cup ({l.wkey[2]} \ {Main})
        /\ \A k \in Keys : k # l.wkey => manifest'[k] = manifest[k]
        /\ manifest'[l.wkey] # None /\ manifest'[l.wkey].tree = l.tree
    BY <1>0, <1>2, <1>5 DEF Goto, SetManifest, SeqInv, Inv, TypeOK
  <2>2. Agree'
    <3>1. index[l.wkey] # None => index[l.wkey].tree = l.tree
      <4>1. index[l.wkey] # None => l.wkey # l.key
        BY <1>2 DEF IndexKnown, NameFree
      <4>2. l.wkey # l.key => l.wkey[2] # Main /\ l.tree = l.wkey[2]
        BY <1>0, <1>1, Apart, ParentKeeps
      <4>3. QED
        BY <1>2, <4>1, <4>2 DEF SeqInv, Files, TreesFit
    <3>2. QED
      BY <1>0, <1>1, <2>1, <3>1 DEF TidyAt, Agree
  <2>3. Listed("add", l)' /\ There("add", l)'
    <3>1. Listed("add", l)'
      BY <1>0, <1>1, <1>3, <2>1 DEF TidyAt, Listed
    <3>2. There("add", l)'
      BY <1>0, <1>1, <1>3, <2>1 DEF TidyAt, There, Exists
    <3>3. QED
      BY <3>1, <3>2
  <2>4. dirs' \subseteq Names
    BY <1>2, <2>1 DEF SeqInv, Inv, TypeOK, Roots
  <2>5. ASSUME NEW t \in Names, t \in dirs' PROVE Saved("add", l, t)'
    <3>1. CASE t \notin dirs \/ Keeps(l.wkey, t)
      <4>1. t # Main
        BY SessionLifecycleAssumption
      <4>2. t = l.wkey[2]
        <5>1. CASE t \notin dirs
          BY <2>1, <2>5, <5>1
        <5>2. CASE Keeps(l.wkey, t) /\ l.wkey = l.key
          BY <1>2, <5>2 DEF Keeps, IndexKnown, NameFree
        <5>3. CASE Keeps(l.wkey, t) /\ l.wkey # l.key
          <6>1. l.wkey[2] # Main
            BY <1>0, <1>1, <5>3, Apart
          <6>2. QED
            BY <1>2, <5>3, <6>1 DEF Keeps, SeqInv, Files, TreesFit
        <5>4. QED
          BY <3>1, <5>1, <5>2, <5>3
      <4>3. t \notin dirs \/ manifest[l.wkey] # None
        BY <3>1 DEF Keeps
      <4>4. QED
        BY <1>0, <1>1, <2>1, <4>2, <4>3, WrittenKept
    <3>2. CASE t \in dirs /\ ~Keeps(l.wkey, t)
      <4>1. Saved("write", l, t)
        BY <1>0, <1>1, <3>2 DEF TidyAt, Kept
      <4>2. CASE Covers("write", l) /\ l.tree = t
        <5>1. "add" \in Working
          BY DEF Working, Points, Ended
        <5>2. QED
          BY <4>2, <5>1 DEF Saved, Covers
      <4>3. CASE \E k \in Keys : Keeps(k, t)
        <5>1. PICK k \in Keys : Keeps(k, t) /\ k # l.wkey
          BY <3>2, <4>3
        <5>2. Keeps(k, t)'
          BY <1>1, <2>1, <5>1 DEF Keeps
        <5>3. QED
          BY <5>1, <5>2 DEF Saved, Writing
      <4>4. QED
        BY <4>1, <4>2, <4>3 DEF Saved
    <3>3. QED
      BY <3>1, <3>2
  <2>6. Kept("add", l)'
    BY <2>4, <2>5 DEF Kept
  <2>7. TidyAt("add", l)'
    BY <2>2, <2>3, <2>6 DEF TidyAt
  <2>8. QED
    BY <2>1, <2>7 DEF TidyAfter
<1>6. QED
  <2> DEFINE r == [by |-> c, parent |-> IF l.par = None THEN None ELSE l.par[1],
                   fork |-> l.op \in {"fork", "relaunch"}, tree |-> l.tree, hold |-> l.hold]
  <2>1. r.tree = l.tree
    OBVIOUS
  <2>2. r # None
    <3>1. r \in Manifest
      <4>1. l.tree \in Roots /\ l.hold \in {"none", "owner", "guest"} /\ l.par \in Keys \cup {None}
        BY <1>2 DEF Locals
      <4>2. (IF l.par = None THEN None ELSE l.par[1]) \in Names \cup {None}
        BY <4>1 DEF Keys
      <4>3. QED
        BY <4>1, <4>2 DEF Manifest
    <3>2. QED
      BY <3>1, RecordAssumption
  <2>3. \/ SetManifest(l.wkey, r) /\ Goto(c, "add")
        \/ Fault /\ UNCHANGED <<manifest, dirs>> /\ Goto(c, AfterUndo(l))
    BY <1>0 DEF WriteManifest
  <2> HIDE DEF r
  <2>4. QED
    BY <1>4, <1>5, <2>1, <2>2, <2>3

\* An entry is added.
LEMMA TidyAdd ==
  ASSUME SeqInv, NEW c \in Calls, TidyAt(pc[c], loc[c]), AddToIndex(c) PROVE TidyAfter(c)
<1>0. PICK l : l = loc[c]
  OBVIOUS
<1>1. /\ pc[c] \in Working /\ pc[c] = "add" /\ UNCHANGED <<manifest, dirs>>
      /\ Fault \/ UNCHANGED bounds
  BY DEF AddToIndex, Working, Points, Ended
<1>2. /\ l \in Locals /\ l.op \in Creators /\ l.wkey \in Keys /\ l.wkey[2] \in Roots
      /\ PlaceFits(l) /\ WorkFits("add", l) /\ IndexKnown("add", l)
      /\ ManifestKnown("add", l) /\ TreeKnown("add", l)
  BY <1>0, <1>1, LocalFacts, KnownNow DEF SeqInv, OpsAt
<1>3. /\ faults \in Nat /\ faults' \in Nat /\ faults' >= faults /\ (Fault => faults' >= 1)
  BY <1>1, FaultCount DEF SeqInv
<1>4. CASE UNCHANGED index /\ Goto(c, "undo")
  <2>1. Go(c, l, "undo")
    BY <1>0, <1>4 DEF Goto
  <2>2. QED
    BY <1>0, <1>1, <1>3, <1>4, <2>1, TidyFails
<1>5. CASE UNCHANGED index /\ Goto(c, "failed") /\ Fault /\ l.op \notin {"start", "fork"}
  <2>1. Go(c, l, "failed") /\ l.op \in {"resume", "relaunch"}
    BY <1>0, <1>2, <1>5 DEF Goto, Creators
  <2>2. QED
    BY <1>0, <1>1, <1>3, <1>5, <2>1, TidyFails
<1>6. CASE index' = [index EXCEPT ![l.wkey] = [by |-> c, tree |-> l.tree]] /\ Goto(c, "done")
  <2>1. /\ Go(c, l, "done") /\ \A k \in Keys : k # l.wkey => index'[k] = index[k]
        /\ index'[l.wkey] # None /\ index'[l.wkey].tree = l.tree
    <3>1. [by |-> c, tree |-> l.tree] \in Entry
      BY <1>2 DEF Entry, Locals
    <3>2. QED
      BY <1>0, <1>2, <1>6, <3>1, RecordAssumption DEF Goto, SeqInv, Inv, TypeOK
  <2>2. manifest[l.wkey] # None /\ manifest[l.wkey].tree = l.tree
    BY <1>2 DEF ManifestKnown
  <2>3. Agree'
    BY <1>0, <1>1, <2>1, <2>2 DEF TidyAt, Agree
  <2>4. Listed("done", l)'
    BY <1>0, <1>1, <1>3, <2>1 DEF TidyAt, Listed
  <2>5. l.wkey[2] = Main => Exists(l.tree) \/ faults >= 1
    <3>1. CASE l.op = "start"
      <4>1. l.hold = "owner" => l.made
        BY <1>2, <3>1 DEF WorkFits
      <4>2. QED
        BY <1>2, <3>1, <4>1 DEF PlaceFits, TreeKnown, Exists
    <3>2. CASE l.op = "fork"
      BY <1>2, <3>2 DEF PlaceFits, Exists
    <3>3. CASE l.op \in {"resume", "relaunch"}
      <4>1. l.par \in Keys /\ l.par[2] = l.wkey[2]
        BY <1>0, <1>1, <1>2, <3>3, LocalFacts DEF SeqInv, PlaceFits
      <4>2. index[l.par] # None /\ index[l.par].tree = l.tree
        BY <1>2, <3>3 DEF IndexKnown, PastParent, Looking
      <4>3. QED
        BY <1>0, <1>1, <4>1, <4>2 DEF TidyAt, There
    <3>4. QED
      BY <1>2, <3>1, <3>2, <3>3 DEF Creators
  <2>6. There("done", l)'
    BY <1>0, <1>1, <1>3, <2>1, <2>5 DEF TidyAt, There, Exists
  <2>7. ASSUME NEW t \in Names, t \in dirs' PROVE Saved("done", l, t)'
    <3>1. Saved("add", l, t)
      BY <1>0, <1>1, <2>7 DEF TidyAt, Kept
    <3>2. CASE l.tree = t
      <4>1. Keeps(l.wkey, t)'
        BY <1>1, <2>1, <2>2, <3>2 DEF Keeps
      <4>2. QED
        BY <1>2, <4>1 DEF Saved, Writing
    <3>3. CASE l.tree # t
      <4>1. PICK k \in Keys : Keeps(k, t) /\ k # l.wkey
        BY <3>1, <3>3 DEF Saved, Writing
      <4>2. Keeps(k, t)'
        BY <1>1, <2>1, <4>1 DEF Keeps
      <4>3. QED
        BY <4>2 DEF Saved, Writing
    <3>4. QED
      BY <3>2, <3>3
  <2>8. Kept("done", l)'
    BY <1>1, <2>7 DEF Kept, SeqInv, Inv, TypeOK
  <2>9. TidyAt("done", l)'
    BY <2>3, <2>4, <2>6, <2>8 DEF TidyAt
  <2>10. QED
    BY <2>1, <2>9 DEF TidyAfter
<1>7. index[l.wkey] # None => l.op = "fork"
  <2>1. index[l.wkey] # None => l.wkey # l.key
    BY <1>2 DEF IndexKnown, NameFree
  <2>2. QED
    BY <1>0, <1>1, <2>1, Apart
<1>8. QED
  BY <1>0, <1>4, <1>5, <1>6, <1>7 DEF AddToIndex

\* A replaced fork leaves the index, or stays; an orphan stays.
LEMMA TidyRemove ==
  ASSUME SeqInv, NEW c \in Calls, TidyAt(pc[c], loc[c]), loc[c].op # "delete",
         RemoveFromIndex(c) \/ UnlinkManifest(c) \/ ClearActive(c)
  PROVE  TidyAfter(c)
<1>0. PICK l : l = loc[c]
  OBVIOUS
<1>1. /\ pc[c] \in Working /\ pc[c] \in {"remove", "unlink", "clear"} /\ UNCHANGED dirs
      /\ Fault \/ UNCHANGED bounds
  BY DEF RemoveFromIndex, UnlinkManifest, ClearActive, Working, Points, Ended
<1>2. /\ l \in Locals /\ l.op \in OpsAt[pc[c]] /\ l.wkey \in Keys /\ l.op # "delete"
      /\ PlaceFits(l) /\ WorkFits(pc[c], l) /\ TargetKnown(pc[c], l)
  BY <1>0, <1>1, LocalFacts, KnownNow DEF SeqInv
<1>3. /\ faults \in Nat /\ faults' \in Nat /\ faults' >= faults /\ (Fault => faults' >= 1)
  BY <1>1, FaultCount DEF SeqInv
<1>4. CASE UNCHANGED <<manifest, index>> /\ Goto(c, "failed") /\ Fault /\ pc[c] \in {"remove", "unlink"}
  <2>1. Go(c, l, "failed")
    BY <1>0, <1>4 DEF Goto
  <2>2. QED
    BY <1>0, <1>1, <1>3, <1>4, <2>1, TidyFails
<1>5. CASE UnlinkManifest(c) /\ UNCHANGED bounds
  BY <1>5, TidyTarget
<1>6. CASE ClearActive(c)
  <2>1. /\ Go(c, l, IF l.op = "fork" THEN "stale" ELSE "done") /\ UNCHANGED <<manifest, index>>
        /\ pc[c] = "clear"
    BY <1>0, <1>6 DEF ClearActive, Goto
  <2>2. QED
    BY <1>0, <1>1, <1>3, <2>1, TidyFails
<1>7. CASE /\ pc[c] = "remove" /\ index' = [index EXCEPT ![l.wkey] = None] /\ Goto(c, "unlink")
           /\ UNCHANGED manifest
  <2>1. /\ Go(c, l, "unlink") /\ \A k \in Keys : k # l.wkey => index'[k] = index[k]
        /\ index'[l.wkey] = None
    BY <1>0, <1>2, <1>7 DEF Goto, SeqInv, Inv, TypeOK
  <2>2. l.op = "fork"
    BY <1>2, <1>7 DEF OpsAt
  <2>3. manifest[l.wkey] # None => manifest[l.wkey].tree \notin dirs \/ l.wkey[2] = manifest[l.wkey].tree
    <3>1. CASE l.wkey[2] # Main
      BY <1>2, <3>1 DEF SeqInv, Files, TreesFit
    <3>2. CASE l.wkey[2] = Main
      <4>1. l.wkey = l.key /\ l.tree = Main
        BY <1>0, <1>1, <1>2, <2>2, <3>2, Apart DEF PlaceFits
      <4>2. l.old # None /\ l.mode # "worktree"
        BY <1>2, <1>7, <2>2 DEF WorkFits
      <4>3. manifest[l.wkey] = l.old /\ l.old.tree = Main
        BY <1>2, <1>7, <4>1, <4>2 DEF TargetKnown, WorkFits
      <4>4. Main \notin dirs
        BY SessionLifecycleAssumption DEF SeqInv, Inv, TypeOK
      <4>5. QED
        BY <4>3, <4>4
    <3>3. QED
      BY <3>1, <3>2
  <2>4. Covers(pc[c], l) => Covers("unlink", l)
    BY DEF Covers, Working, Points, Ended
  <2>5. \A k \in Keys : /\ index'[k] # None => index'[k] = index[k]
                        /\ index[k] # None /\ index'[k] = None => k = l.wkey
    BY <2>1
  <2>6. QED
    BY <1>0, <1>1, <1>3, <1>7, <2>1, <2>3, <2>4, <2>5, TidyQuiet
<1>8. CASE RemoveFromIndex(c)
  <2>1. ~l.made
    <3>1. pc[c] = "remove"
      BY <1>8 DEF RemoveFromIndex
    <3>2. l.op = "fork"
      BY <1>2, <3>1 DEF OpsAt
    <3>3. l.mode # "worktree" /\ l.hold # "owner"
      BY <1>2, <3>1, <3>2 DEF WorkFits, PlaceFits
    <3>4. QED
      BY <1>2, <3>3 DEF WorkFits
  <2>2. QED
    BY <1>0, <1>4, <1>7, <1>8, <2>1 DEF RemoveFromIndex
<1>9. CASE UnlinkManifest(c)
  <2>1. CASE UNCHANGED <<manifest, index>> /\ Goto(c, "clear") /\ Fault /\ pc[c] = "unlink"
    <3>1. Go(c, l, "clear")
      BY <1>0, <2>1 DEF Goto
    <3>2. QED
      BY <1>0, <1>1, <1>3, <2>1, <3>1, TidyFails
  <2>2. QED
    BY <1>0, <1>4, <1>5, <1>9, <2>1 DEF UnlinkManifest
<1>10. QED
  BY <1>6, <1>8, <1>9

\* What was replaced is put back.
LEMMA TidyRestore ==
  ASSUME SeqInv, NEW c \in Calls, TidyAt(pc[c], loc[c]), RestoreTarget(c) \/ RestoreEntry(c), faults' < 2
  PROVE  TidyAfter(c)
<1>0. PICK l : l = loc[c]
  OBVIOUS
<1>1. /\ pc[c] \in Working /\ pc[c] \in {"restore", "restoreEntry"} /\ (Fault \/ UNCHANGED bounds)
  BY DEF RestoreTarget, RestoreEntry, Working, Points, Ended
<1>2. /\ l \in Locals /\ Shape(pc[c], l) /\ l.op \in OpsAt[pc[c]] /\ l.key \in Keys /\ l.key[2] \in Roots
      /\ PlaceFits(l) /\ WorkFits(pc[c], l) /\ IndexKnown(pc[c], l) /\ ManifestKnown(pc[c], l)
      /\ TargetKnown(pc[c], l) /\ TreeKnown(pc[c], l) /\ FaultKnown(pc[c], l)
  BY <1>0, <1>1, LocalFacts, KnownNow DEF SeqInv
<1>3. /\ l.op = "fork" /\ l.old # None /\ l.mode # "worktree" /\ ~l.made /\ l.old.tree = l.tree
      /\ l.tree = l.wkey[2] /\ faults >= 1
  <2>1. l.op = "fork" /\ l.old # None
    BY <1>1, <1>2 DEF OpsAt, Shape
  <2>2. l.mode # "worktree" /\ l.old.tree = l.tree /\ l.tree = l.wkey[2] /\ faults >= 1
    BY <1>1, <1>2, <2>1 DEF WorkFits, PlaceFits, FaultKnown
  <2>3. ~l.made
    <3>1. l.made => l.hold = "owner"
      BY <1>2 DEF WorkFits
    <3>2. QED
      BY <1>0, <1>1, <2>1, <2>2, <3>1, OwnTree
  <2>4. QED
    BY <2>1, <2>2, <2>3
<1>4. /\ faults \in Nat /\ faults' \in Nat /\ faults' >= 1 /\ faults < 2
      /\ Fault /\ faults >= 1 => faults' >= 2
  BY <1>1, <1>3, FaultCount DEF SeqInv
<1>5. ~Fault
  BY <1>3, <1>4
<1>6. PICK to : Go(c, l, to) /\ to \in {"failed", "restoreEntry"}
  BY <1>0 DEF RestoreTarget, RestoreEntry, Goto
<1>7. Listed(to, l)' /\ There(to, l)'
  BY <1>4 DEF Listed, There
<1>8. ASSUME Agree', \A t \in Names : t \in dirs' => \E k \in Keys : Keeps(k, t)', dirs' \subseteq Names
      PROVE  TidyAfter(c)
  <2>1. Kept(to, l)'
    BY <1>6, <1>8 DEF Kept, Saved, Writing
  <2>2. TidyAt(to, l)'
    BY <1>6, <1>7, <1>8, <2>1 DEF TidyAt
  <2>3. QED
    BY <1>6, <2>2 DEF TidyAfter
<1>9. CASE RestoreTarget(c)
  <2>1. /\ pc[c] = "restore" /\ UNCHANGED index /\ dirs' = dirs \cup ({l.key[2]} \ {Main})
        /\ \A k \in Keys : k # l.key => manifest'[k] = manifest[k]
        /\ manifest'[l.key] = l.old
    BY <1>0, <1>2, <1>5, <1>9 DEF RestoreTarget, SetManifest, SeqInv, Inv, TypeOK
  <2>2. \/ l.wkey = l.key /\ index[l.key] = None
        \/ l.wkey # l.key /\ manifest[l.key] = l.old /\ l.key[2] = Main
    <3>1. l.wkey = l.key => index[l.key] = None
      BY <1>2, <2>1 DEF IndexKnown, NameFree
    <3>2. l.wkey # l.key => l.key[2] = Main
      BY <1>0, <1>1, Apart
    <3>3. l.wkey # l.key => manifest[l.key] = l.old
      BY <1>2, <1>3 DEF TargetKnown
    <3>4. QED
      BY <3>1, <3>2, <3>3
  <2>3. Agree'
    BY <1>0, <2>1, <2>2 DEF TidyAt, Agree
  <2>4. dirs' \subseteq Names
    BY <1>2, <2>1 DEF SeqInv, Inv, TypeOK, Roots
  <2>5. ASSUME NEW t \in Names, t \in dirs' PROVE \E k \in Keys : Keeps(k, t)'
    <3>0. t # Main
      BY SessionLifecycleAssumption
    <3>1. CASE l.wkey = l.key /\ t = l.key[2]
      BY <1>2, <1>3, <2>1, <3>1 DEF Keeps
    <3>2. CASE ~(l.wkey = l.key /\ t = l.key[2])
      <4>1. t \in dirs
        BY <2>1, <2>2, <2>5, <3>0, <3>2
      <4>2. Saved(pc[c], l, t)
        BY <1>0, <4>1 DEF TidyAt, Kept
      <4>3. ~(Covers(pc[c], l) /\ l.tree = t)
        BY <1>3, <3>2 DEF Covers
      <4>4. PICK k \in Keys : Keeps(k, t)
        BY <4>2, <4>3 DEF Saved
      <4>5. Keeps(k, t)'
        BY <2>1, <2>2, <3>2, <4>4 DEF Keeps
      <4>6. QED
        BY <4>5
    <3>3. QED
      BY <3>1, <3>2
  <2>6. QED
    BY <1>8, <2>3, <2>4, <2>5
<1>10. CASE RestoreEntry(c)
  <2>1. /\ pc[c] = "restoreEntry" /\ UNCHANGED <<manifest, dirs>>
        /\ \A k \in Keys : k # l.key => index'[k] = index[k]
        /\ \/ index'[l.key] = index[l.key]
           \/ index[l.key] = None /\ index'[l.key].tree = l.old.tree
    BY <1>0, <1>2, <1>5, <1>10 DEF RestoreEntry, SeqInv, Inv, TypeOK
  <2>2. manifest[l.key] = l.old
    BY <1>2, <1>4, <2>1 DEF ManifestKnown
  <2>3. Agree'
    BY <1>0, <2>1, <2>2 DEF TidyAt, Agree
  <2>4. dirs' \subseteq Names
    BY <2>1 DEF SeqInv, Inv, TypeOK
  <2>5. ASSUME NEW t \in Names, t \in dirs' PROVE \E k \in Keys : Keeps(k, t)'
    <3>1. Saved(pc[c], l, t)
      BY <1>0, <2>1, <2>5 DEF TidyAt, Kept
    <3>2. CASE Covers(pc[c], l) /\ l.tree = t
      BY <1>2, <1>3, <2>1, <2>2, <3>2 DEF Covers, Keeps
    <3>3. CASE \E k \in Keys : Keeps(k, t)
      <4>1. PICK k \in Keys : Keeps(k, t)
        BY <3>3
      <4>2. index[k] # None => index'[k] # None
        BY <2>1
      <4>3. QED
        BY <2>1, <4>1, <4>2 DEF Keeps
    <3>4. QED
      BY <3>1, <3>2, <3>3 DEF Saved
  <2>6. QED
    BY <1>8, <2>3, <2>4, <2>5
<1>11. QED
  BY <1>9, <1>10

\* What excuses a worktree excuses it for good.
LEMMA ExemptStays ==
  ASSUME MaxOpen = 1, SeqInv, Exempt, NEW c \in Calls, BeginCall(c) \/ Step(c) \/ Crash(c)
  PROVE  Exempt'
<1>0. PICK l : l = loc[c]
  OBVIOUS
<1>1. faults \in Nat /\ faults' \in Nat /\ faults' >= faults
  BY FaultsGrow DEF SeqInv
<1>2. CASE faults >= 2
  BY <1>1, <1>2 DEF Exempt
<1>3. CASE crashes > 0
  <2>1. crashes \in Nat
    BY DEF SeqInv, Inv, TypeOK
  <2>2. UNCHANGED crashes \/ crashes' = crashes + 1
    <3>1. CASE BeginCall(c) \/ Crash(c)
      BY <3>1, BeginsBlank DEF Crash, bounds
    <3>2. CASE \/ Lookup(c) \/ Stat(c) \/ Prune(c) \/ PruneList(c)
      BY <3>2 DEF Lookup, Stat, Prune, PruneList, bounds
    <3>3. CASE \/ ProbeManifest(c) \/ ReadParent(c) \/ GenerateResumeName(c) \/ CheckNameFree(c)
      BY <3>3 DEF ProbeManifest, ReadParent, GenerateResumeName, CheckNameFree, bounds
    <3>4. CASE \/ JudgeTarget(c) \/ CreateWorktree(c) \/ SwapTarget(c) \/ ClearStale(c)
      BY <3>4 DEF JudgeTarget, CreateWorktree, SwapTarget, ClearStale, bounds, Fault
    <3>5. CASE \/ WriteManifest(c) \/ AddToIndex(c) \/ ResumeCollides(c) \/ UndoManifest(c)
      BY <3>5 DEF WriteManifest, AddToIndex, ResumeCollides, UndoManifest, bounds, Fault
    <3>6. CASE \/ UndoWorktree(c) \/ RestoreTarget(c) \/ RestoreEntry(c) \/ Examine(c)
      BY <3>6 DEF UndoWorktree, RestoreTarget, RestoreEntry, Examine, bounds, Fault
    <3>7. CASE \/ CleanupWorktree(c) \/ RetryCleanup(c) \/ RemoveFromIndex(c) \/ UnlinkManifest(c) \/ ClearActive(c)
      BY <3>7 DEF CleanupWorktree, RetryCleanup, TryRemove, RemoveFromIndex, UnlinkManifest, ClearActive, bounds, Fault
    <3>8. QED
      BY <3>1, <3>2, <3>3, <3>4, <3>5, <3>6, <3>7 DEF Step
  <2>3. QED
    BY <1>3, <2>1, <2>2 DEF Exempt
<1>4. CASE \E d \in Calls \ {c} : pc[d] # "idle" /\ loc[d].op = "delete"
  BY <1>4, AloneStep DEF SeqInv, Exempt
<1>5. CASE pc[c] # "idle" /\ l.op = "delete"
  <2>1. ASSUME NEW m, NEW to, Go(c, m, to), to # "idle", m.op = "delete" PROVE Exempt'
    <3>1. pc'[c] = to /\ loc'[c].op = "delete"
      <4>1. PICK e : e = [Blank EXCEPT !.op = m.op, !.key = m.key, !.wkey = m.wkey, !.force = m.force]
        OBVIOUS
      <4>2. e.op = "delete"
        BY <2>1, <4>1 DEF Blank
      <4>3. QED
        BY <2>1, <4>1, <4>2 DEF Go, SeqInv, Inv, PlacesOK
    <3>2. QED
      BY <2>1, <3>1 DEF Exempt
  <2>2. CASE \E to : to # "idle" /\ Goto(c, to)
    BY <1>0, <1>5, <2>1, <2>2 DEF Goto
  <2>3. CASE Lookup(c) \/ Stat(c) \/ Prune(c)
    BY <1>0, <1>5, <2>1, <2>3, LookupGoes
  <2>4. CASE Examine(c)
    <3>1. CASE Go(c, [l EXCEPT !.tree = manifest[l.key].tree], "cleanup")
      <4>1. PICK m, to : m = [l EXCEPT !.tree = manifest[l.key].tree] /\ to = "cleanup" /\ Go(c, m, to)
        BY <3>1
      <4>2. m.op = "delete"
        BY <1>0, <1>5, <4>1 DEF SeqInv, Inv, PlacesOK, Locals
      <4>3. QED
        BY <2>1, <4>1, <4>2
    <3>2. QED
      BY <1>0, <2>2, <2>4, <3>1 DEF Examine
  <2>5. CASE Crash(c) \/ PruneList(c)
    BY <2>2, <2>5 DEF Crash, PruneList
  <2>6. CASE \/ CleanupWorktree(c) \/ RetryCleanup(c) \/ RemoveFromIndex(c) \/ UnlinkManifest(c) \/ ClearActive(c)
    BY <1>0, <1>5, <2>2, <2>6 DEF CleanupWorktree, RetryCleanup, TryRemove, RemoveFromIndex, UnlinkManifest, ClearActive
  <2>7. ~BeginCall(c)
    BY <1>5, BeginsBlank
  <2>8. pc[c] \in Working => pc[c] \in {"get", "stat", "prune", "examine", "cleanup", "retry", "remove", "unlink", "clear"}
    <3>1. pc[c] \in Working => l.op \in OpsAt[pc[c]]
      BY <1>0, LocalFacts DEF SeqInv
    <3>2. QED
      BY <1>5, <3>1 DEF OpsAt, Creators, Working, Points, Ended
  <2>9. CASE ProbeManifest(c) \/ ReadParent(c) \/ GenerateResumeName(c) \/ CheckNameFree(c)
    BY <2>8, <2>9 DEF ProbeManifest, ReadParent, GenerateResumeName, CheckNameFree, Working, Points, Ended
  <2>10. CASE JudgeTarget(c) \/ CreateWorktree(c) \/ SwapTarget(c) \/ ClearStale(c)
    BY <2>8, <2>10 DEF JudgeTarget, CreateWorktree, SwapTarget, ClearStale, Working, Points, Ended
  <2>11. CASE WriteManifest(c) \/ AddToIndex(c) \/ ResumeCollides(c) \/ UndoManifest(c)
    BY <2>8, <2>11 DEF WriteManifest, AddToIndex, ResumeCollides, UndoManifest, Working, Points, Ended
  <2>12. CASE UndoWorktree(c) \/ RestoreTarget(c) \/ RestoreEntry(c)
    BY <2>8, <2>12 DEF UndoWorktree, RestoreTarget, RestoreEntry, Working, Points, Ended
  <2>13. QED
    BY <2>3, <2>4, <2>5, <2>6, <2>7, <2>9, <2>10, <2>11, <2>12 DEF Step
<1>6. QED
  BY <1>0, <1>2, <1>3, <1>4, <1>5 DEF Exempt

\* Every worktree stays somebody's.
LEMMA TidyStep == ASSUME MaxOpen = 1, SeqInv, Tidy, [Next]_vars PROVE Tidy'
<1>1. ASSUME NEW c \in Calls, BeginCall(c) \/ Step(c) \/ Crash(c) PROVE Tidy'
  <2>1. CASE Exempt
    BY <1>1, <2>1, ExemptStays DEF Tidy
  <2>2. CASE Exempt'
    BY <2>2 DEF Tidy
  <2>3. CASE ~Exempt /\ ~Exempt'
    <3>1. faults' < 2 /\ ~Crash(c)
      <4>1. faults' \in Nat /\ crashes \in Nat /\ ~(faults' >= 2)
        BY <1>1, <2>3, FaultsGrow DEF SeqInv, Inv, TypeOK, Exempt
      <4>2. ~(crashes' > 0) /\ crashes = 0
        BY <2>3, <4>1 DEF Exempt
      <4>3. ~Crash(c)
        BY <4>2 DEF Crash
      <4>4. QED
        BY <4>1, <4>3
    <3>2. TidyAt(pc[c], loc[c])
      BY <1>1, <2>3, <3>1, TidyNow
    <3>3. pc[c] # "idle" => loc[c].op # "delete"
      BY <2>3 DEF Exempt
    <3>4. TidyAfter(c)
      <4>1. CASE BeginCall(c) \/ PruneList(c)
        BY <3>2, <4>1, TidyBegin
      <4>2. CASE Lookup(c) \/ Stat(c) \/ Prune(c)
        BY <3>2, <4>2, TidyLookup
      <4>3. CASE \/ ProbeManifest(c) \/ ReadParent(c) \/ GenerateResumeName(c) \/ CheckNameFree(c)
                 \/ JudgeTarget(c) \/ SwapTarget(c)
        BY <3>2, <4>3, TidyDecide
      <4>4. CASE ClearStale(c)
        BY <3>2, <3>3, <4>4, TidyTarget DEF ClearStale
      <4>5. CASE CreateWorktree(c) \/ WriteManifest(c) \/ AddToIndex(c) \/ UndoManifest(c)
        BY <3>2, <4>5, TidyCreate, TidyWrite, TidyAdd, TidyUndo
      <4>6. CASE UndoWorktree(c) \/ RestoreTarget(c) \/ RestoreEntry(c) \/ ResumeCollides(c)
        BY <3>1, <3>2, <4>6, TidyUndoTree, TidyRestore, CollideSeq
      <4>7. CASE Examine(c) \/ CleanupWorktree(c) \/ RetryCleanup(c)
        <5>1. pc[c] \in Working /\ pc[c] \in {"examine", "cleanup", "retry"}
          BY <4>7 DEF Examine, CleanupWorktree, RetryCleanup, TryRemove, Working, Points, Ended
        <5>2. loc[c].op = "delete"
          BY <5>1, LocalFacts DEF SeqInv, OpsAt
        <5>3. QED
          BY <3>3, <5>1, <5>2
      <4>8. CASE RemoveFromIndex(c) \/ UnlinkManifest(c) \/ ClearActive(c)
        <5>1. loc[c].op # "delete"
          BY <3>3, <4>8 DEF RemoveFromIndex, UnlinkManifest, ClearActive
        <5>2. QED
          BY <3>2, <4>8, <5>1, TidyRemove
      <4>9. QED
        BY <1>1, <3>1, <4>1, <4>2, <4>3, <4>4, <4>5, <4>6, <4>7, <4>8 DEF Step
    <3>5. QED
      BY <1>1, <3>1, <3>4, TidyMove
  <2>4. QED
    BY <2>1, <2>2, <2>3
<1>2. CASE (\E t \in Names, kind \in Kinds : Edit(t, kind)) \/ UNCHANGED vars
  <2>1. UNCHANGED <<manifest, index, dirs, pc, loc, faults, crashes>>
    BY <1>2 DEF Edit, vars, disk, bounds
  <2>2. Exempt' <=> Exempt
    BY <2>1 DEF Exempt
  <2>3. ASSUME NEW w, NEW l, TidyAt(w, l) PROVE TidyAt(w, l)'
    BY <2>1, <2>3 DEF TidyAt, Agree, Listed, There, Kept, Saved, Keeps, Exists
  <2>4. Open' = Open
    BY <2>1 DEF Open
  <2>5. CASE Exempt
    BY <2>2, <2>5 DEF Tidy
  <2>6. CASE ~Exempt
    <3>1. \A c \in Open' : TidyAt(pc[c], loc[c])'
      <4>1. SUFFICES ASSUME NEW c \in Open PROVE TidyAt(pc[c], loc[c])'
        BY <2>4
      <4>2. PICK w, l : w = pc[c] /\ l = loc[c]
        OBVIOUS
      <4>3. TidyAt(w, l)'
        BY <2>3, <2>6, <4>2 DEF Tidy
      <4>4. w = pc'[c] /\ l = loc'[c]
        BY <2>1, <4>2
      <4>5. QED
        BY <4>3, <4>4
    <3>2. Open' = {} => TidyAt("idle", Blank)'
      <4>1. PICK b : b = Blank
        OBVIOUS
      <4>2. Open' = {} => TidyAt("idle", b)'
        BY <2>3, <2>4, <2>6, <4>1 DEF Tidy
      <4>3. QED
        BY <4>1, <4>2
    <3>3. QED
      BY <3>1, <3>2 DEF Tidy
  <2>7. QED
    BY <2>5, <2>6
<1>3. QED
  BY <1>1, <1>2 DEF Next

LEMMA TidyInit == Init => Tidy
<1> SUFFICES ASSUME Init PROVE Tidy
  OBVIOUS
<1>1. Open = {}
  BY DEF Init, Open
<1>2. \A k \in Keys : /\ manifest[k] # None <=> k \in DOMAIN Existing
                      /\ index[k] # None <=> k \in DOMAIN Existing
                      /\ k \in DOMAIN Existing =>
                            manifest[k].tree = Existing[k].tree /\ index[k].tree = Existing[k].tree
  <2>1. SUFFICES ASSUME NEW k \in Keys
                 PROVE  /\ manifest[k] # None <=> k \in DOMAIN Existing
                        /\ index[k] # None <=> k \in DOMAIN Existing
                        /\ k \in DOMAIN Existing =>
                              manifest[k].tree = Existing[k].tree /\ index[k].tree = Existing[k].tree
    OBVIOUS
  <2>2. CASE k \notin DOMAIN Existing
    BY <2>2 DEF Init
  <2>3. CASE k \in DOMAIN Existing
    <3>1. manifest[k] = Existing[k] /\ index[k] = [by |-> None, tree |-> Existing[k].tree]
      BY <2>3 DEF Init
    <3>2. Existing[k] \in Manifest
      BY <2>3, ExistingAssumption
    <3>3. [by |-> None, tree |-> Existing[k].tree] \in Entry
      BY <3>2 DEF Manifest, Entry
    <3>4. QED
      BY <2>3, <3>1, <3>2, <3>3, RecordAssumption
  <2>4. QED
    BY <2>2, <2>3
<1>3. dirs = {Existing[k].tree : k \in DOMAIN Existing} \ {Main} /\ DOMAIN Existing \subseteq Keys
  BY ExistingAssumption DEF Init
<1>4. Agree
  BY <1>2 DEF Agree
<1>5. Listed("idle", Blank) /\ There("idle", Blank)
  BY <1>2, <1>3 DEF Listed, There, Exists
<1>6. Kept("idle", Blank)
  <2>1. SUFFICES ASSUME NEW t \in dirs PROVE \E k \in Keys : Keeps(k, t)
    BY DEF Kept, Saved, Writing
  <2>2. PICK k \in DOMAIN Existing : Existing[k].tree = t
    BY <1>3
  <2>3. QED
    BY <1>2, <1>3, <2>2 DEF Keeps
<1>7. QED
  BY <1>1, <1>4, <1>5, <1>6 DEF Tidy, TidyAt

\* A start or a fork leaves all that it makes or nothing: when it fails no manifest, no entry
\* and no worktree of it stays, whichever write or git command failed, and no worktree is ever
\* left to nobody.
THEOREM AllOrNothingHolds == ASSUME MaxOpen = 1 PROVE Spec => []AllOrNothing
<1> DEFINE Own == SeqInv /\ Ownership /\ Tidy
<1>1. Init => Own
  BY SeqInit, OwnInit, TidyInit
<1>2. Own /\ [Next]_vars => Own'
  BY SeqStep, OwnStep, TidyStep
<1>3. Own => AllOrNothing
  <2>1. ASSUME Own PROVE FailureLeavesNothing
    BY <2>1, OwnClears
  <2>2. ASSUME Own, NEW t \in dirs
        PROVE  \/ \E k \in Keys : manifest[k] # None /\ manifest[k].tree = t
               \/ \E c \in Open : loc[c].tree = t /\ (loc[c].made \/ loc[c].old # None)
               \/ \E c \in Calls : loc[c].op = "delete"
               \/ faults >= 2 \/ crashes > 0
    <3>1. CASE Exempt
      BY <3>1 DEF Exempt
    <3>2. CASE ~Exempt /\ Open = {}
      <4>1. Saved("idle", Blank, t)
        BY <2>2, <3>2 DEF Tidy, TidyAt, Kept
      <4>2. QED
        BY <4>1 DEF Saved, Keeps, Covers, Working
    <3>3. CASE ~Exempt /\ Open # {}
      <4>1. PICK c \in Open : Saved(pc[c], loc[c], t)
        BY <2>2, <3>3 DEF Tidy, TidyAt, Kept
      <4>2. QED
        BY <4>1 DEF Saved, Keeps, Covers
    <3>4. QED
      BY <3>1, <3>2, <3>3
  <2>3. QED
    BY <2>1, <2>2 DEF AllOrNothing, NoLeakedWorktree
<1>4. QED
  BY <1>1, <1>2, <1>3, PTL DEF Spec

================================================================================

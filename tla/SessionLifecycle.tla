--------------------------- MODULE SessionLifecycle ---------------------------
(***************************************************************************)
(* SessionManager (session/manager.py) over the two places a session       *)
(* lives in: its manifest <root>/.forge/sessions/<name>/ (session/store.py)*)
(* and its entry in the global index (session/index.py).  Each CLI command *)
(* is a call: a sequence of file operations with no lock across them, so   *)
(* calls interleave and may die between any two.  An index operation is    *)
(* one step (it runs under the index lock), and so is one write or removal *)
(* of a manifest.                                                          *)
(*                                                                         *)
(* A root is a checkout: Main, or the git worktree ../<project>-<n> that   *)
(* is created for session n and named n here.  Projects are enabled at the *)
(* root of the checkout (relative_path ".").                               *)
(***************************************************************************)
EXTENDS Integers, FiniteSets

CONSTANTS
    Calls,        \* CLI calls; each is made at most once
    Names,        \* session names
    Main,         \* the main checkout
    None,
    Existing,     \* sessions started earlier: their manifests, by key
    Running,      \* those of them Claude may be running in
    Resumed,      \* Resumed[n]: the name "<n>-resumed"
    Suffixed,     \* Suffixed[n]: the names "<n>-resumed-<HHMMSS>"
    Ops,          \* the operations a run explores
    Modes,        \* fork modes explored: "same", "worktree", "into"
    CopiedConfig, \* the configuration files that a new worktree gets, by kind
    MaxOpen,      \* bound: calls in flight at once
    MaxFaults,    \* bound: writes and git commands that fail
    MaxCrashes    \* bound: calls that die

AllOps == {"start", "startWorktree", "resume", "autoResume", "relaunch", "fork", "forceFork",
           "delete", "forceDelete", "list", "orphan", "edit"}

\* Files of the allow-list of worktree/config_copy.py that git does not track
\* (.env, .mcp.json, .claude/settings*.json), and all of its directory docker/certs:
\* git sees them, or ignores them.
ConfigFiles == {"config", "ignored"}
\* What is not committed: those, and everything else that git sees.
Kinds == {"work"} \cup ConfigFiles

ASSUME SessionLifecycleAssumption ==
    /\ Main \notin Names /\ None \notin Names \cup Calls \cup {Main}
    /\ Resumed \in [Names -> Names] /\ Suffixed \in [Names -> (SUBSET Names) \ {{}}]
    /\ Ops \subseteq AllOps /\ Modes \subseteq {"same", "worktree", "into"}
    /\ CopiedConfig \subseteq ConfigFiles
    /\ MaxOpen \in Nat /\ MaxFaults \in Nat /\ MaxCrashes \in Nat

Roots == {Main} \cup Names
Keys == Names \X Roots

VARIABLES
    manifest,  \* the manifest stored under each <<name, forge_root>>, or None
    index,     \* its index entry, or None
    dirs,      \* worktrees whose directory exists
    uncommitted, \* <<t, kind>>: the uncommitted files of worktrees
    active,    \* keys the active-session registry reports as live
    pc, loc,   \* where each call is, and its local variables
    faults, crashes

disk == <<manifest, index, dirs, uncommitted, active>>
bounds == <<faults, crashes>>
vars == <<disk, pc, loc, bounds>>

\* hold: is_worktree and owns_worktree of the manifest's worktree section.
Manifest == [by : Calls \cup {None}, parent : Names \cup {None}, fork : BOOLEAN,
             tree : Roots, hold : {"none", "owner", "guest"}]
Entry == [by : Calls \cup {None}, tree : Roots]

\* A session of a worktree works in it, and a checkout that is held is a worktree.
ASSUME ExistingAssumption ==
    /\ Running \subseteq DOMAIN Existing /\ DOMAIN Existing \subseteq Keys
    /\ \A k \in DOMAIN Existing :
          /\ Existing[k] \in Manifest /\ Existing[k].by = None
          /\ k[2] # Main => Existing[k].tree = k[2]
          /\ Existing[k].hold # "none" => Existing[k].tree # Main

ASSUME RecordAssumption == None \notin Manifest \cup Entry \cup Keys

\* key: the target checked; wkey: where its state is written; at: the key being
\* looked up and ret the step that follows; old, oldEntry: a replaced target.
Blank == [op |-> "none", key |-> None, wkey |-> None, par |-> None, at |-> None,
          ret |-> "none", mode |-> "none", tree |-> Main, hold |-> "none", auto |-> FALSE,
          force |-> FALSE, keep |-> FALSE, made |-> FALSE, old |-> None,
          oldEntry |-> None, stale |-> {}]

Ended == {"done", "failed", "crashed"}
Open == {c \in Calls : pc[c] \notin Ended \cup {"idle"}}

Init ==
    /\ manifest = [k \in Keys |-> IF k \in DOMAIN Existing THEN Existing[k] ELSE None]
    /\ index = [k \in Keys |-> IF k \in DOMAIN Existing
                                THEN [by |-> None, tree |-> Existing[k].tree] ELSE None]
    /\ dirs = {Existing[k].tree : k \in DOMAIN Existing} \ {Main}
    /\ uncommitted = dirs \X CopiedConfig
    /\ active \in SUBSET Running
    /\ pc = [c \in Calls |-> "idle"]
    /\ loc = [c \in Calls |-> Blank]
    /\ faults = 0 /\ crashes = 0

\* The call goes on at to with locals l; one that has ended forgets them.
Go(c, l, to) ==
    /\ pc' = [pc EXCEPT ![c] = to]
    /\ loc' = [loc EXCEPT ![c] =
                 IF to \in Ended THEN [Blank EXCEPT !.op = l.op, !.key = l.key, !.wkey = l.wkey,
                                                     !.force = l.force] ELSE l]

Goto(c, to) == Go(c, loc[c], to)

Begin(c, l, to) ==
    /\ pc[c] = "idle"
    /\ Cardinality(Open) < MaxOpen
    /\ Go(c, l, to)

Fault == faults < MaxFaults /\ faults' = faults + 1 /\ UNCHANGED crashes

SetManifest(k, m) ==
    /\ manifest' = [manifest EXCEPT ![k] = m]
    /\ dirs' = dirs \cup ({k[2]} \ {Main})     \* mkdir(parents=True)

\* git worktree remove: the checkout with its files and every manifest inside it.
RemoveTree(t) ==
    /\ dirs' = dirs \ {t}
    /\ uncommitted' = uncommitted \ ({t} \X Kinds)
    /\ manifest' = [k \in Keys |-> IF k[2] = t THEN None ELSE manifest[k]]

Exists(t) == t = Main \/ t \in dirs

-----------------------------------------------------------------------------
(* IndexStore.get_session(): look up, probe the files without the lock,    *)
(* and prune under the lock what is still stale.                           *)

NotFound(c) ==
    Goto(c, CASE loc[c].ret = "judge" -> "judge"        \* a fork target may be absent
              [] loc[c].ret = "remove" -> "stale"       \* so may the one replaced
              [] OTHER -> "failed")

Lookup(c) ==
    /\ pc[c] = "get"
    /\ IF index[loc[c].at] = None THEN NotFound(c) ELSE Goto(c, "stat")
    /\ UNCHANGED <<disk, bounds>>

\* The entry is returned: a fork keeps the target's, a child its parent's tree.
Found(c) ==
    LET l == loc[c]
        e == index[l.at] IN
    Go(c, CASE l.ret = "judge" -> [l EXCEPT !.oldEntry = e]
            [] l.op \in {"resume", "relaunch"} /\ e # None -> [l EXCEPT !.tree = e.tree]
            [] OTHER -> l, l.ret)

Stat(c) ==
    /\ pc[c] = "stat"
    /\ IF manifest[loc[c].at] # None THEN Found(c)
       ELSE Goto(c, "prune")
    /\ UNCHANGED <<disk, bounds>>

\* Mutant: a stale entry is dropped without a second look.
PruneUnchecked(c) ==
    /\ pc[c] = "prune"
    /\ index' = [index EXCEPT ![loc[c].at] = None]
    /\ NotFound(c)
    /\ UNCHANGED <<manifest, dirs, uncommitted, active, bounds>>

Prune(c) ==
    /\ pc[c] = "prune"
    /\ \/ /\ index[loc[c].at] = None \/ manifest[loc[c].at] = None
          /\ index' = [index EXCEPT ![loc[c].at] = None]
          /\ NotFound(c)
       \/ /\ index[loc[c].at] # None /\ manifest[loc[c].at] # None
          /\ Found(c)
          /\ UNCHANGED index
    /\ UNCHANGED <<manifest, dirs, uncommitted, active, bounds>>

\* IndexStore.list_sessions(): the same, for every entry at once, and by the
\* entry's worktree as well as its manifest.
Stale(k) ==
    /\ index[k] # None
    /\ ~Exists(index[k].tree) \/ manifest[k] = None

ListSessions(c) ==
    /\ "list" \in Ops
    /\ LET stale == {k \in Keys : Stale(k)} IN
         Begin(c, [Blank EXCEPT !.op = "list", !.stale = stale],
               IF stale = {} THEN "done" ELSE "pruneList")
    /\ UNCHANGED <<disk, bounds>>

PruneList(c) ==
    /\ pc[c] = "pruneList"
    /\ index' = [k \in Keys |-> IF k \in loc[c].stale /\ Stale(k) THEN None ELSE index[k]]
    /\ Goto(c, "done")
    /\ UNCHANGED <<manifest, dirs, uncommitted, active, bounds>>

-----------------------------------------------------------------------------
(* start_session(), resume_session(), relaunch_session() up to the write.  *)
(* A call on a name whose first index lookup already fails (start: a taken *)
(* name, the others: an unknown one) ends there; it changes nothing and is *)
(* no step.                                                                *)

StartSession(c, n, wt) ==
    /\ (IF wt THEN "startWorktree" ELSE "start") \in Ops
    /\ LET k == <<n, Main>> IN
         /\ index[k] = None
         /\ Begin(c, [Blank EXCEPT !.op = "start", !.key = k, !.wkey = k,
                        !.tree = IF wt THEN n ELSE Main,
                        !.hold = IF wt THEN "owner" ELSE "none"],
                  IF wt THEN "tree" ELSE "probe")
    /\ UNCHANGED <<disk, bounds>>

\* Multiple sessions share a checkout; only this name must have no manifest.
ProbeManifest(c) ==
    /\ pc[c] = "probe"
    /\ Goto(c, IF manifest[loc[c].wkey] = None THEN "write"
               ELSE IF loc[c].made THEN "undoTree" ELSE "failed")
    /\ UNCHANGED <<disk, bounds>>

\* A same-directory fork is checked in the parent's forge_root but written
\* where find_forge_root() sees the parent's checkout.
SameCheckout(l, t) == [l EXCEPT !.tree = t, !.wkey = <<l.key[1], t>>]

\* The child is named after Resumed[parent] or, when auto is FALSE, by the user.
ResumeSession(c, par, n, auto) ==
    /\ (IF auto THEN "autoResume" ELSE "resume") \in Ops
    /\ auto => n = Resumed[par[1]]
    /\ index[par] # None
    /\ LET k == <<n, par[2]>> IN
         Begin(c, [Blank EXCEPT !.op = "resume", !.key = k, !.wkey = k, !.par = par,
                     !.at = par, !.ret = "parent", !.auto = auto], "get")
    /\ UNCHANGED <<disk, bounds>>

RelaunchSession(c, par, n) ==
    /\ "relaunch" \in Ops
    /\ index[par] # None
    /\ LET k == <<n, par[2]>> IN
         Begin(c, [Blank EXCEPT !.op = "relaunch", !.key = k, !.wkey = k, !.par = par,
                     !.at = par, !.ret = "parent"], "get")
    /\ UNCHANGED <<disk, bounds>>

\* The parent's manifest is read; fork and relaunch look its entry up again.
ReadParent(c) ==
    /\ pc[c] = "parent"
    /\ LET l == loc[c]
           m == manifest[l.par]
           gone == m = None \/ (l.op # "resume" /\ index[l.par] = None) IN
         \/ gone /\ Goto(c, "failed")
         \/ /\ ~gone /\ l.op = "fork"
            /\ Go(c, [(IF l.mode = "same" THEN SameCheckout(l, m.tree) ELSE l)
                        EXCEPT !.at = l.key, !.ret = "judge"], "get")
         \/ /\ ~gone /\ l.op # "fork"
            /\ Goto(c, IF l.auto THEN "name" ELSE "exists")
    /\ UNCHANGED <<disk, bounds>>

\* _generate_resume_name(): the base name, unless one of the given projects
\* has a session of that name.
GeneratedKeys(par, roots) ==
    LET base == Resumed[par[1]] IN
    {<<n, par[2]>> : n \in IF \E t \in roots : index[<<base, t>>] # None
                           THEN Suffixed[par[1]] ELSE {base}}

GenerateResumeName(c) ==
    /\ pc[c] = "name"
    /\ \E k \in GeneratedKeys(loc[c].par, {loc[c].par[2]}) :
          Go(c, [loc[c] EXCEPT !.key = k, !.wkey = k], "exists")
    /\ UNCHANGED <<disk, bounds>>

CheckNameFree(c) ==
    /\ pc[c] = "exists"
    /\ Goto(c, IF index[loc[c].key] # None THEN "failed" ELSE "write")
    /\ UNCHANGED <<disk, bounds>>

-----------------------------------------------------------------------------
(* fork_session() up to the write.                                         *)

\* In the parent's directory, in a new worktree of its own (which it owns), or
\* as a guest in the existing worktree t.
ForkSession(c, par, n, mode, t, force) ==
    /\ (IF force THEN "forceFork" ELSE "fork") \in Ops
    /\ mode \in Modes
    /\ index[par] # None
    /\ LET k == <<n, t>> IN
         Begin(c, [Blank EXCEPT !.op = "fork", !.mode = mode, !.key = k, !.wkey = k,
                     !.par = par, !.at = par, !.ret = "parent", !.tree = t, !.force = force,
                     !.hold = CASE mode = "same" -> "none" [] mode = "worktree" -> "owner"
                                [] OTHER -> "guest"], "get")
    /\ UNCHANGED <<disk, bounds>>

\* Where the user may send a fork of par named n.
ForkRoots(par, n, mode) ==
    CASE mode = "same" -> {par[2]} [] mode = "worktree" -> {n} [] OTHER -> dirs

\* Mutant: a forced fork replaces forks of any parent.
CanForceReplaceAnyFork(l, m) ==
    /\ m # None
    /\ m.fork
    /\ m.tree = l.tree /\ m.hold = l.hold
    /\ l.key \notin active

\* _can_force_replace_fork_target(): the very child this fork made before, and
\* not running.
CanForceReplace(l, m) ==
    /\ m # None
    /\ m.fork /\ m.parent = l.par[1]
    /\ m.tree = l.tree /\ m.hold = l.hold
    /\ l.key \notin active

\* The conflict check on the target.
JudgeTarget(c) ==
    /\ pc[c] = "judge"
    /\ LET l == loc[c]
           m == manifest[l.key]
           conflict == m # None \/ l.oldEntry # None IN
         \/ /\ ~conflict
            /\ Goto(c, IF l.mode = "worktree" THEN "tree" ELSE "write")
         \/ /\ conflict /\ l.force /\ CanForceReplace(l, m)
            /\ Go(c, [l EXCEPT !.old = m], IF l.mode = "worktree" THEN "tree" ELSE "swap")
         \/ /\ conflict /\ ~(l.force /\ CanForceReplace(l, m))
            /\ Goto(c, "failed")
    /\ UNCHANGED <<disk, bounds>>

\* create_worktree() of worktree/create.py: an existing directory is replaced
\* only for a validated force fork, and before the branch is looked at.  The
\* new one gets its configuration from copy_runtime_config().
CreateWorktree(c) ==
    /\ pc[c] = "tree"
    /\ LET l == loc[c]
           n == l.key[1] IN
         \/ /\ n \in dirs /\ l.old # None
            /\ RemoveTree(n)
            /\ UNCHANGED <<pc, loc, bounds>>
         \/ /\ n \in dirs /\ l.old = None
            /\ Goto(c, "failed")
            /\ UNCHANGED <<manifest, dirs, uncommitted, bounds>>
         \/ /\ n \notin dirs
            /\ dirs' = dirs \cup {n}
            /\ uncommitted' = uncommitted \cup ({n} \X CopiedConfig)
            /\ Go(c, [l EXCEPT !.made = TRUE],
                  IF l.op = "start" THEN "probe" ELSE IF l.old # None THEN "swap" ELSE "write")
            /\ UNCHANGED <<manifest, bounds>>
         \/ /\ Fault           \* the branch exists or is unmerged, git fails
            /\ Goto(c, "failed")
            /\ UNCHANGED <<manifest, dirs, uncommitted>>
    /\ UNCHANGED <<index, active>>

\* The replaced child is deleted (keeping its worktree) where the fork is
\* going to be written.
SwapTarget(c) ==
    /\ pc[c] = "swap"
    /\ Go(c, [loc[c] EXCEPT !.at = loc[c].wkey, !.ret = "remove"], "get")
    /\ UNCHANGED <<disk, bounds>>

ClearStale(c) ==
    /\ pc[c] = "stale"
    /\ manifest' = [manifest EXCEPT ![loc[c].wkey] = None]
    /\ active' = active \ {loc[c].wkey}
    /\ Goto(c, "write")
    /\ UNCHANGED <<index, dirs, uncommitted, bounds>>

-----------------------------------------------------------------------------
(* The commit phase: manifest, then index entry; roll back on failure.     *)

\* Mutant: the undo does not give a replaced session back.
AfterUndoWithoutRestore(l) == IF l.made THEN "undoTree" ELSE "failed"

AfterUndo(l) ==
    IF l.made THEN "undoTree" ELSE IF l.old # None THEN "restore" ELSE "failed"

WriteManifest(c) ==
    /\ pc[c] = "write"
    /\ LET l == loc[c] IN
         \/ /\ SetManifest(l.wkey,
                    [by |-> c, parent |-> IF l.par = None THEN None ELSE l.par[1],
                     fork |-> l.op \in {"fork", "relaunch"}, tree |-> l.tree, hold |-> l.hold])
            /\ Goto(c, "add")
            /\ UNCHANGED bounds
         \/ /\ Fault
            /\ Goto(c, AfterUndo(l))
            /\ UNCHANGED <<manifest, dirs>>
    /\ UNCHANGED <<index, uncommitted, active>>

\* Mutant: the index entry is written over another's.
AddUnchecked(c) ==
    /\ pc[c] = "add"
    /\ index' = [index EXCEPT ![loc[c].wkey] = [by |-> c, tree |-> loc[c].tree]]
    /\ Goto(c, "done")
    /\ UNCHANGED <<manifest, dirs, uncommitted, active, bounds>>

\* add_session() raises SessionExistsError when the key is taken; a failed
\* index write is rolled back by start and fork only.
AddToIndex(c) ==
    /\ pc[c] = "add"
    /\ LET l == loc[c] IN
         \/ /\ index[l.wkey] = None
            /\ index' = [index EXCEPT ![l.wkey] = [by |-> c, tree |-> l.tree]]
            /\ Goto(c, "done")
            /\ UNCHANGED bounds
         \/ /\ index[l.wkey] # None
            /\ Goto(c, CASE l.op = "resume" -> "collide" [] l.op = "relaunch" -> "failed"
                         [] OTHER -> "undo")
            /\ UNCHANGED <<index, bounds>>
         \/ /\ Fault
            /\ Goto(c, IF l.op \in {"start", "fork"} THEN "undo" ELSE "failed")
            /\ UNCHANGED index
    /\ UNCHANGED <<manifest, dirs, uncommitted, active>>

Ambiguous(n) == \E t, u \in Roots : t # u /\ index[<<n, t>>] # None /\ index[<<n, u>>] # None

\* _persist_resume_child() after SessionExistsError: drop the manifest; one
\* retry under a fresh name when the name was generated.  The fresh name is
\* looked up in every project (AmbiguousSessionError when several have it).
ResumeCollides(c) ==
    /\ pc[c] = "collide"
    /\ manifest' = [manifest EXCEPT ![loc[c].wkey] = None]
    /\ \/ /\ loc[c].auto
          /\ ~Ambiguous(Resumed[loc[c].par[1]])
          /\ \E k \in GeneratedKeys(loc[c].par, Roots) :
                Go(c, [loc[c] EXCEPT !.key = k, !.wkey = k, !.auto = FALSE], "write")
       \/ /\ ~loc[c].auto \/ Ambiguous(Resumed[loc[c].par[1]])
          /\ Goto(c, "failed")
    /\ UNCHANGED <<index, dirs, uncommitted, active, bounds>>

\* Mutant: the undo leaves the manifest.
ForgetManifest(c) ==
    /\ pc[c] = "undo"
    /\ Goto(c, AfterUndo(loc[c]))
    /\ UNCHANGED <<disk, bounds>>

UndoManifest(c) ==
    /\ pc[c] = "undo"
    /\ \/ manifest' = [manifest EXCEPT ![loc[c].wkey] = None] /\ UNCHANGED bounds
       \/ Fault /\ UNCHANGED manifest             \* logged
    /\ Goto(c, AfterUndo(loc[c]))
    /\ UNCHANGED <<index, dirs, uncommitted, active>>

\* Mutant: the undo leaves the tree it made.
ForgetTree(c) ==
    /\ pc[c] = "undoTree"
    /\ Goto(c, "failed")
    /\ UNCHANGED <<disk, bounds>>

\* cleanup_worktree(force=True), best effort.
UndoWorktree(c) ==
    /\ pc[c] = "undoTree"
    /\ \/ RemoveTree(loc[c].tree) /\ UNCHANGED bounds
       \/ Fault /\ UNCHANGED <<manifest, dirs, uncommitted>>
    /\ Goto(c, "failed")
    /\ UNCHANGED <<index, active>>

\* _restore_previous_target_state(): a failed manifest write is logged and the
\* index entry restored all the same.
RestoreTarget(c) ==
    /\ pc[c] = "restore"
    /\ \/ SetManifest(loc[c].key, loc[c].old) /\ UNCHANGED bounds
       \/ Fault /\ UNCHANGED <<manifest, dirs>>
    /\ Goto(c, IF loc[c].oldEntry = None THEN "failed" ELSE "restoreEntry")
    /\ UNCHANGED <<index, uncommitted, active>>

RestoreEntry(c) ==
    /\ pc[c] = "restoreEntry"
    /\ \/ /\ index[loc[c].key] = None
          /\ index' = [index EXCEPT ![loc[c].key] = [by |-> loc[c].old.by, tree |-> loc[c].old.tree]]
          /\ UNCHANGED bounds
       \/ index[loc[c].key] # None /\ UNCHANGED <<index, bounds>>
       \/ Fault /\ UNCHANGED index
    /\ Goto(c, "failed")
    /\ UNCHANGED <<manifest, dirs, uncommitted, active>>

-----------------------------------------------------------------------------
(* delete_session() and the CLI's removal of an orphaned directory.        *)

DeleteSession(c, k, keep, force) ==
    /\ (IF force THEN "forceDelete" ELSE "delete") \in Ops
    /\ index[k] # None
    /\ Begin(c, [Blank EXCEPT !.op = "delete", !.key = k, !.wkey = k, !.at = k,
                    !.ret = "examine", !.keep = keep, !.force = force], "get")
    /\ UNCHANGED <<disk, bounds>>

\* _find_co_resident_sessions(): by worktree path, excluding the display name.
CoResidents(t, name) ==
    {k \in Keys : index[k] # None /\ ~Stale(k) /\ index[k].tree = t /\ k[1] # name}

\* is_worktree_dirty(): git reports what it does not ignore.
IsDirty(t) == \E kind \in Kinds \ {"ignored"} : <<t, kind>> \in uncommitted

\* The worktree decision and the dirty preflight; list_sessions() prunes.
Examine(c) ==
    /\ pc[c] = "examine"
    /\ LET l == loc[c]
           m == manifest[l.key]
           looks == ~l.keep /\ m # None /\ m.hold # "none"
           removes == looks /\ m.hold = "owner" /\ CoResidents(m.tree, l.key[1]) = {} IN
         /\ index' = [k \in Keys |-> IF looks /\ Stale(k) THEN None ELSE index[k]]
         /\ \/ ~removes /\ Goto(c, "remove")
            \/ /\ removes /\ ~l.force /\ IsDirty(m.tree)
               /\ Goto(c, "failed")
            \/ /\ removes /\ (l.force \/ ~IsDirty(m.tree))
               /\ Go(c, [l EXCEPT !.tree = m.tree], "cleanup")
    /\ UNCHANGED <<manifest, dirs, uncommitted, active, bounds>>

\* remove_worktree() looks for uncommitted files once more.
Refused(c) == ~loc[c].force /\ IsDirty(loc[c].tree)

TryRemove(c) ==
    \/ /\ ~Refused(c)
       /\ RemoveTree(loc[c].tree)
       /\ \/ Goto(c, "remove") /\ UNCHANGED bounds
          \/ Fault /\ Goto(c, "failed")       \* the branch cannot be deleted
    \/ /\ Fault                              \* git fails
       /\ Goto(c, "failed")
       /\ UNCHANGED <<manifest, dirs, uncommitted>>

\* Mutant: the second removal of a tree that is still dirty is forced.
RetryForced(c) ==
    /\ pc[c] = "retry"
    /\ RemoveTree(loc[c].tree)
    /\ Goto(c, "remove")
    /\ UNCHANGED <<index, active, bounds>>

\* cleanup_worktree(): a dirty tree loses its configuration files, as far as
\* they can be deleted, and is tried again.
CleanupWorktree(c) ==
    /\ pc[c] = "cleanup"
    /\ \/ TryRemove(c)
       \/ /\ Refused(c)
          /\ \/ /\ uncommitted' = uncommitted \ ({loc[c].tree} \X ConfigFiles)
                /\ UNCHANGED bounds
             \/ Fault /\ UNCHANGED uncommitted
          /\ Goto(c, "retry")
          /\ UNCHANGED <<manifest, dirs>>
    /\ UNCHANGED <<index, active>>

RetryCleanup(c) ==
    /\ pc[c] = "retry"
    /\ \/ TryRemove(c)
       \/ /\ Refused(c)
          /\ Goto(c, "failed")
          /\ UNCHANGED <<manifest, dirs, uncommitted, bounds>>
    /\ UNCHANGED <<index, active>>

\* Mutant: a delete unlinks the manifest before the index entry goes.
UnlinkBeforeRemove(c) ==
    /\ pc[c] = "remove"
    /\ manifest' = [manifest EXCEPT ![loc[c].wkey] = None]
    /\ Goto(c, "unlink")
    /\ UNCHANGED <<index, dirs, uncommitted, active, bounds>>

RemoveFromIndex(c) ==
    /\ pc[c] = "remove"
    /\ \/ /\ index' = [index EXCEPT ![loc[c].wkey] = None]
          /\ Goto(c, "unlink")
          /\ UNCHANGED bounds
       \/ /\ Fault          \* a force fork takes its new worktree back
          /\ Goto(c, IF loc[c].made THEN "undoTree" ELSE "failed")
          /\ UNCHANGED index
    /\ UNCHANGED <<manifest, dirs, uncommitted, active>>

\* store.delete() ignores errors, the removal of an orphan does not.
UnlinkManifest(c) ==
    /\ pc[c] = "unlink"
    /\ \/ /\ manifest' = [manifest EXCEPT ![loc[c].wkey] = None]
          /\ Goto(c, "clear")
          /\ UNCHANGED bounds
       \/ /\ Fault
          /\ Goto(c, IF loc[c].op = "orphan" THEN "failed" ELSE "clear")
          /\ UNCHANGED manifest
    /\ UNCHANGED <<index, dirs, uncommitted, active>>

ClearActive(c) ==
    /\ pc[c] = "clear"
    /\ active' = active \ {loc[c].wkey}
    /\ Goto(c, IF loc[c].op = "fork" THEN "stale" ELSE "done")
    /\ UNCHANGED <<manifest, index, dirs, uncommitted, bounds>>

\* "exists on disk but not in session index"
DeleteOrphan(c, n) ==
    /\ "orphan" \in Ops
    /\ index[<<n, Main>>] = None /\ manifest[<<n, Main>>] # None
    /\ Begin(c, [Blank EXCEPT !.op = "orphan", !.key = <<n, Main>>, !.wkey = <<n, Main>>],
             "unlink")
    /\ UNCHANGED <<disk, bounds>>

-----------------------------------------------------------------------------
(* What happens around the calls.                                          *)

\* Someone works in the worktree of an existing session.
Edit(t, kind) ==
    /\ "edit" \in Ops
    /\ t \in dirs /\ <<t, kind>> \notin uncommitted
    /\ \E k \in Keys : index[k] # None /\ index[k].tree = t
    /\ uncommitted' = uncommitted \cup {<<t, kind>>}
    /\ UNCHANGED <<manifest, index, dirs, active, pc, loc, bounds>>

Crash(c) ==
    /\ c \in Open
    /\ crashes < MaxCrashes
    /\ crashes' = crashes + 1
    /\ Goto(c, "crashed")
    /\ UNCHANGED <<disk, faults>>

-----------------------------------------------------------------------------

BeginCall(c) ==
    \/ ListSessions(c)
    \/ \E n \in Names :
          \/ DeleteOrphan(c, n)
          \/ \E wt \in BOOLEAN : StartSession(c, n, wt)
          \/ \E par \in Keys :
                \/ \E auto \in BOOLEAN : ResumeSession(c, par, n, auto)
                \/ RelaunchSession(c, par, n)
                \/ \E mode \in Modes, force \in BOOLEAN : \E t \in ForkRoots(par, n, mode) :
                      ForkSession(c, par, n, mode, t, force)
    \/ \E k \in Keys, keep, force \in BOOLEAN : DeleteSession(c, k, keep, force)

Step(c) ==
    \/ Lookup(c) \/ Stat(c) \/ Prune(c) \/ PruneList(c)
    \/ ProbeManifest(c) \/ ReadParent(c) \/ GenerateResumeName(c) \/ CheckNameFree(c)
    \/ JudgeTarget(c) \/ CreateWorktree(c) \/ SwapTarget(c) \/ ClearStale(c)
    \/ WriteManifest(c) \/ AddToIndex(c) \/ ResumeCollides(c)
    \/ UndoManifest(c) \/ UndoWorktree(c) \/ RestoreTarget(c) \/ RestoreEntry(c)
    \/ Examine(c) \/ CleanupWorktree(c) \/ RetryCleanup(c)
    \/ RemoveFromIndex(c) \/ UnlinkManifest(c) \/ ClearActive(c)

Next ==
    \/ \E c \in Calls : BeginCall(c) \/ Step(c) \/ Crash(c)
    \/ \E t \in Names, kind \in Kinds : Edit(t, kind)

Spec == Init /\ [][Next]_vars

-----------------------------------------------------------------------------

\* The shape of the state.
TypeOK ==
    /\ manifest \in [Keys -> Manifest \cup {None}]
    /\ index \in [Keys -> Entry \cup {None}]
    /\ dirs \subseteq Names /\ uncommitted \subseteq Names \X Kinds /\ active \subseteq Keys
    /\ DOMAIN pc = Calls /\ DOMAIN loc = Calls
    /\ \A c \in Calls : loc[c].tree \in Roots /\ loc[c].stale \subseteq Keys
    /\ faults \in Nat /\ crashes \in Nat

\* Every index entry has its manifest when calls follow one another, wherever
\* one of them dies or a write fails: start, resume, relaunch, fork and the
\* fork's restore write the manifest before the entry, delete removes the
\* entry before the manifest.  Exceptions: a restore that fails as well, and a
\* manifest inside a worktree, which goes with it.
IndexNeverDangles ==
    \A k \in Keys : k[2] = Main /\ index[k] # None /\ manifest[k] = None => faults >= 2

\* start_session and fork_session are all-or-nothing: after a failure neither
\* manifest nor entry of theirs is left, unless the rollback fails as well.  (A
\* fork checked elsewhere than it is written fails without a fault when it meets
\* a session there.)
FailureLeavesNothing ==
    \A c \in Calls :
        /\ pc[c] = "failed" /\ loc[c].op \in {"start", "fork"}
        /\ faults < (IF loc[c].wkey = loc[c].key THEN 2 ELSE 1)
        => \A k \in Keys : /\ index[k] # None => index[k].by # c
                           /\ manifest[k] # None => manifest[k].by # c

\* A name is given to one session of a project: of two calls that create the
\* same session at the same time, with no third to delete it, at most one
\* succeeds (the index lock of add_session decides, not the checks before it), a
\* force fork apart.
NameWonOnce ==
    \A c, d \in Calls :
        /\ pc[c] = "done" /\ pc[d] = "done"
        /\ {loc[c].op, loc[d].op} \subseteq {"start", "resume", "relaunch", "fork"}
        /\ loc[c].wkey = loc[d].wkey /\ ~loc[c].force /\ ~loc[d].force
        /\ \A e \in Calls \ {c, d} : pc[e] = "idle"
        => c = d

\* Self-healing (get_session, list_sessions) only drops entries that are stale
\* at that moment, whatever was probed before and whoever runs meanwhile: any
\* other entry is removed by delete_session alone.
PruneOnlyStale ==
    [][\A k \in Keys : index[k] # None /\ index'[k] = None =>
          \/ Stale(k)
          \/ \E c \in Calls : pc[c] = "remove" /\ loc[c].wkey = k /\ pc'[c] = "unlink"]_vars

\* Uncommitted work is never lost to a delete without --force, even when it
\* appears after the dirty preflight of delete_session, or between the first
\* removal and the retry: each removal looks again.  Configuration files are not
\* safe: they go with a tree that git calls clean, and a tree that it refused
\* loses them though it stays.  No other refusal or failure costs any
\* (cleanup.py:235: "this avoids deleting config files when the removal will fail
\* for other reasons").
DirtyNeverLost ==
    [][\A c \in Calls, t \in Names :
          loc[c].op = "delete" /\ ~loc[c].force /\ pc'[c] # pc[c] =>
          /\ <<t, "work">> \in uncommitted => t \in dirs' /\ <<t, "work">> \in uncommitted'
          /\ \A kind \in ConfigFiles :
                <<t, kind>> \in uncommitted /\ <<t, kind>> \notin uncommitted' =>
                t \notin dirs' \/ (pc[c] = "cleanup" /\ pc'[c] = "retry" /\ IsDirty(t))]_vars

\* A delete that fails leaves the worktree with the configuration it was given.
\* The code does not: it deletes those files before it knows that the second
\* removal succeeds.
FailedDeleteKeepsConfig ==
    [][\A c \in Calls : pc[c] = "retry" /\ pc'[c] = "failed" =>
          {loc[c].tree} \X CopiedConfig \subseteq uncommitted]_vars

\* A worktree that exists belongs to a session or to a call that still runs:
\* start and fork roll back the worktree they created when a later step fails,
\* unless the rollback fails as well, the call dies, or a session was deleted
\* without its worktree.
NoLeakedWorktree ==
    \A t \in dirs :
        \/ \E k \in Keys : manifest[k] # None /\ manifest[k].tree = t
        \/ \E c \in Open : loc[c].tree = t /\ (loc[c].made \/ loc[c].old # None)
        \/ \E c \in Calls : loc[c].op = "delete"
        \/ faults >= 2 \/ crashes > 0

\* When calls follow one another, a fork made in an existing checkout touches no
\* session but, with --force, an earlier fork of the same parent that is not
\* running (_can_force_replace_fork_target).  The property is about forks checked
\* where they are written: one made in the checkout of a parent whose project
\* is another one is not.
ForkReplacesOnlyStaleForks ==
    [][\A c \in Calls :
          LET l == loc[c] IN
          l.op = "fork" /\ l.mode # "worktree" /\ l.wkey = l.key /\ pc'[c] # pc[c] =>
          \A k \in Keys : index[k] # None /\ manifest[k] # None =>
             \/ manifest'[k] = manifest[k] /\ index'[k] = index[k]
             \/ /\ k = l.wkey /\ l.force /\ k \notin active
                /\ manifest[k].fork /\ manifest[k].parent = l.par[1]]_vars

\* A force fork that fails after it removed the child it replaces puts
\* manifest and entry of that child back (_restore_previous_target_state),
\* unless a second step fails as well.  (When a worktree was replaced the code
\* restores nothing.)
FailedForceForkRestores ==
    [][\A c \in Calls :
          LET l == loc[c] IN
          /\ l.op = "fork" /\ l.old # None /\ l.mode # "worktree"
          /\ pc[c] \notin Ended /\ pc'[c] = "failed"
          => \/ manifest'[l.key] = l.old /\ (l.oldEntry # None => index'[l.key] # None)
             \/ faults' >= 2]_vars

\* Manifests, index and worktrees fit together: an entry has its manifest wherever a
\* call dies or fails.
StoreIsConsistent == TypeOK /\ IndexNeverDangles

\* A start or a fork leaves all that it makes or nothing: no manifest or entry of a failed
\* one, and no worktree that belongs to nobody.
AllOrNothing == FailureLeavesNothing /\ NoLeakedWorktree

\* A forced fork takes the place of nothing but an earlier fork of the same parent, and puts
\* that back when it fails.
ForceForkIsSafe == FailedForceForkRestores /\ ForkReplacesOnlyStaleForks
=============================================================================

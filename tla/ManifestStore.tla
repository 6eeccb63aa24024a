---------------------------- MODULE ManifestStore ----------------------------
(***************************************************************************)
(* SessionStore (session/store.py) on the file system, as core/state       *)
(* implements it: an advisory lock on the file forge.session.json.lock in  *)
(* the session directory (lock.py), and replacement of the manifest by a   *)
(* temporary file of the same directory (io.py).  delete() is an rmtree of *)
(* the directory, lock file included, and takes no lock.                   *)
(*                                                                         *)
(* A lock belongs to the inode that was opened, not to the name: directory *)
(* and lock file are numbered afresh each time they are created.           *)
(***************************************************************************)
EXTENDS Integers, Forge

CONSTANTS
    Procs,       \* processes: CLI commands and hooks; each makes one call
    OpOf,        \* the call of each: "write", "update" or "delete"
    MaxFaults,   \* bound: writes that fail
    MaxCrashes   \* bound: processes that die

ASSUME ManifestStoreAssumption ==
    /\ None \notin Procs
    /\ OpOf \in [Procs -> {"write", "update", "delete"}]
    /\ MaxFaults \in Nat /\ MaxCrashes \in Nat

Absent == 0

VARIABLES
    manifest,   \* the content of forge.session.json, or None
    dir,        \* number of the session directory, or Absent
    lockFile,   \* inode of the lock file in it, or Absent
    temps,      \* temporary files in it, by the process that writes them
    inodes,     \* numbers given out so far
    pc,         \* where each process is
    ino,        \* the lock file it has open
    copy,       \* the manifest it is going to write
    todo,       \* delete: entries of the directory not yet unlinked
    at,         \* delete: the directory it scanned
    faults, crashes

files == <<manifest, dir, lockFile, temps, inodes>>
rm == <<todo, at>>
bounds == <<faults, crashes>>
vars == <<files, pc, ino, copy, rm, bounds>>

Deleting == \E p \in Procs : OpOf[p] = "delete" /\ pc[p] # "idle"

A == INSTANCE AtomicManifest WITH content <- manifest, deleting <- Deleting

ASSUME NoManifestAssumption == None \notin A!Content

Ended == {"done", "failed", "crashed"}
Critical == {"locked", "temp", "replace"}

Init ==
    /\ \/ manifest = None /\ dir = Absent /\ lockFile = Absent
       \/ manifest = A!Fresh(None) /\ dir = 1 /\ lockFile = 2
    /\ temps = {}
    /\ inodes = 2
    /\ pc = [p \in Procs |-> "idle"]
    /\ ino = [p \in Procs |-> Absent]
    /\ copy = [p \in Procs |-> None]
    /\ todo = [p \in Procs |-> {}]
    /\ at = [p \in Procs |-> Absent]
    /\ faults = 0 /\ crashes = 0

Goto(p, to) == pc' = [pc EXCEPT ![p] = to]

\* mkdir(parents=True, exist_ok=True)
EnsureDir ==
    \/ dir # Absent /\ UNCHANGED <<dir, inodes>>
    \/ dir = Absent /\ dir' = inodes + 1 /\ inodes' = inodes + 1

-----------------------------------------------------------------------------
(* file_lock(): open (create) the lock file, then wait for its flock.      *)

OpenLock(p) ==
    /\ pc[p] = "idle"
    /\ OpOf[p] # "delete"
    /\ \/ lockFile # Absent /\ UNCHANGED <<dir, lockFile, inodes>>
       \/ /\ lockFile = Absent
          /\ lockFile' = inodes + 1
          /\ dir' = IF dir = Absent THEN inodes + 2 ELSE dir
          /\ inodes' = inodes + 2
    /\ ino' = [ino EXCEPT ![p] = lockFile']
    /\ Goto(p, "wait")
    /\ UNCHANGED <<manifest, temps, copy, rm, bounds>>

Locked(i) == \E q \in Procs : ino[q] = i /\ pc[q] \in Critical

Lock(p) ==
    /\ pc[p] = "wait"
    /\ ~Locked(ino[p])
    /\ Goto(p, "locked")
    /\ UNCHANGED <<files, ino, copy, rm, bounds>>

\* FileLockTimeoutError
Timeout(p) ==
    /\ pc[p] = "wait"
    /\ Locked(ino[p])
    /\ Goto(p, "failed")
    /\ UNCHANGED <<files, ino, copy, rm, bounds>>

-----------------------------------------------------------------------------
(* write() and update() under the lock.  Whatever ends the with-block, by  *)
(* return or by exception, releases it.                                    *)

\* Mutant: a write drops the sections others own.
ComposeWithoutSections(p) ==
    /\ pc[p] = "locked"
    /\ OpOf[p] = "write"
    /\ copy' = [copy EXCEPT ![p] = [by |-> p]]
    /\ Goto(p, "temp")
    /\ UNCHANGED <<files, ino, rm, bounds>>

ComposeManifest(p) ==
    /\ pc[p] = "locked"
    /\ OpOf[p] = "write"
    /\ copy' = [copy EXCEPT ![p] = A!Fresh(p)]
    /\ Goto(p, "temp")
    /\ UNCHANGED <<files, ino, rm, bounds>>

\* Mutant: an update creates the manifest it does not find.
ReadOrCreate(p) ==
    /\ pc[p] = "locked"
    /\ OpOf[p] = "update"
    /\ copy' = [copy EXCEPT ![p] = A!Mutate(IF manifest = None THEN A!Fresh(p) ELSE manifest, p)]
    /\ Goto(p, "temp")
    /\ UNCHANGED <<files, ino, rm, bounds>>

\* SessionFileNotFoundError when there is no manifest.
ReadAndMutate(p) ==
    /\ pc[p] = "locked"
    /\ OpOf[p] = "update"
    /\ \/ /\ manifest = None
          /\ Goto(p, "failed")
          /\ UNCHANGED copy
       \/ /\ manifest # None
          /\ copy' = [copy EXCEPT ![p] = A!Mutate(manifest, p)]
          /\ Goto(p, "temp")
    /\ UNCHANGED <<files, ino, rm, bounds>>

\* atomic_write_text(): create_parents, mkstemp in the target's directory.
MakeTemp(p) ==
    /\ pc[p] = "temp"
    /\ \/ /\ EnsureDir
          /\ temps' = temps \cup {p}
          /\ Goto(p, "replace")
          /\ UNCHANGED faults
       \/ /\ faults < MaxFaults
          /\ faults' = faults + 1
          /\ Goto(p, "failed")
          /\ UNCHANGED <<dir, inodes, temps>>
    /\ UNCHANGED <<manifest, lockFile, ino, copy, rm, crashes>>

\* os.replace(); it raises when the temporary file was removed meanwhile.
Replace(p) ==
    /\ pc[p] = "replace"
    /\ \/ /\ p \in temps
          /\ manifest' = copy[p]
          /\ Goto(p, "done")
       \/ /\ p \notin temps
          /\ Goto(p, "failed")
          /\ UNCHANGED manifest
    /\ temps' = temps \ {p}
    /\ UNCHANGED <<dir, lockFile, inodes, ino, copy, rm, bounds>>

-----------------------------------------------------------------------------
(* delete(): shutil.rmtree(session_dir, ignore_errors=True).               *)

DirectoryEntries ==
    (IF manifest # None THEN {"manifest"} ELSE {})
        \cup (IF lockFile # Absent THEN {"lock"} ELSE {}) \cup temps

ScanDir(p) ==
    /\ pc[p] = "idle"
    /\ OpOf[p] = "delete"
    /\ dir # Absent
    /\ todo' = [todo EXCEPT ![p] = DirectoryEntries]
    /\ at' = [at EXCEPT ![p] = dir]
    /\ Goto(p, "rmtree")
    /\ UNCHANGED <<files, ino, copy, bounds>>

\* Mutant: a delete unlinks the lock file and nothing else.
UnlinkLockOnly(p) ==
    /\ pc[p] = "rmtree"
    /\ todo' = [todo EXCEPT ![p] = {}]
    /\ lockFile' = Absent
    /\ UNCHANGED <<manifest, temps, dir, inodes, pc, ino, copy, at, bounds>>

\* The entries go one by one, in the order of the directory.
UnlinkEntry(p) ==
    /\ pc[p] = "rmtree"
    /\ \E e \in todo[p] :
         /\ todo' = [todo EXCEPT ![p] = @ \ {e}]
         /\ IF dir # at[p]
            THEN UNCHANGED <<manifest, lockFile, temps>>
            ELSE /\ manifest' = IF e = "manifest" THEN None ELSE manifest
                 /\ lockFile' = IF e = "lock" THEN Absent ELSE lockFile
                 /\ temps' = temps \ {e}
    /\ UNCHANGED <<dir, inodes, pc, ino, copy, at, bounds>>

\* rmdir fails, unnoticed, when something was added after the scan.
RemoveDir(p) ==
    /\ pc[p] = "rmtree"
    /\ todo[p] = {}
    /\ dir' = IF DirectoryEntries = {} THEN Absent ELSE dir
    /\ Goto(p, "done")
    /\ UNCHANGED <<manifest, lockFile, temps, inodes, ino, copy, rm, bounds>>

-----------------------------------------------------------------------------

\* The kernel drops the lock of a process that dies; its temporary file stays.
Crash(p) ==
    /\ pc[p] \notin Ended \cup {"idle"}
    /\ crashes < MaxCrashes
    /\ crashes' = crashes + 1
    /\ Goto(p, "crashed")
    /\ UNCHANGED <<files, ino, copy, rm, faults>>

Next ==
    \E p \in Procs :
        \/ OpenLock(p) \/ Lock(p) \/ Timeout(p)
        \/ ComposeManifest(p) \/ ReadAndMutate(p) \/ MakeTemp(p) \/ Replace(p)
        \/ ScanDir(p) \/ UnlinkEntry(p) \/ RemoveDir(p)
        \/ Crash(p)

Spec == Init /\ [][Next]_vars

-----------------------------------------------------------------------------

\* The shape of the state.
TypeOK ==
    /\ manifest \in A!Content \cup {None}
    /\ dir \in Nat /\ lockFile \in Nat /\ inodes \in Nat
    /\ pc \in [Procs -> Critical \cup Ended \cup {"idle", "wait", "rmtree"}]
    /\ ino \in [Procs -> Nat]
    /\ copy \in [Procs -> A!Content \cup {None}]
    /\ at \in [Procs -> Nat]
    /\ faults \in Nat /\ crashes \in Nat

\* Writers and updaters that interleave, fail and die leave the manifest as if
\* each call that returned had happened at one instant, as long as no delete has
\* begun; from then on it still is what one of them wrote, or gone.
Implements == A!Spec

\* A session is gone when delete() has returned, unless a write or an update
\* that returned brought it back: one that failed or died never does, whatever
\* it held (lock, temporary file, copy of the manifest) when the files went.
FailedCallsRestoreNothing ==
    \A p \in Procs : pc[p] = "done" /\ OpOf[p] = "delete" /\ manifest # None =>
        \E q \in manifest.applied \cup {manifest.by} : q # None /\ pc[q] = "done"

=============================================================================

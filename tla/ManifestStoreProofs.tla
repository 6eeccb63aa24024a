-------------------------- MODULE ManifestStoreProofs --------------------------
(***************************************************************************)
(* ManifestStore implements AtomicManifest, for any number of processes.   *)
(* The argument: as long as no delete has begun, the lock file is created  *)
(* once, so everybody who waits for or holds the lock has the same inode   *)
(* open (OneLockFile); hence at most one process is inside the with-block  *)
(* (OneHolder); hence the copy it is going to write is the current         *)
(* manifest with its own mutation (CopyIsCurrent), and the rename is a     *)
(* Write or an Update of the abstract manifest.  Afterwards it still is a  *)
(* mutation of some manifest (CopyShape).                                  *)
(***************************************************************************)
EXTENDS ManifestStore, TLAPS

OneLockFile ==
    \A p \in Procs : pc[p] \in Critical \cup {"wait"} =>
        lockFile # Absent /\ ino[p] = lockFile

OneHolder ==
    \A p, q \in Procs : pc[p] \in Critical /\ pc[q] \in Critical => p = q

CopyIsCurrent ==
    \A p \in Procs : pc[p] \in {"temp", "replace"} =>
        \/ OpOf[p] = "write" /\ copy[p] = A!Fresh(p)
        \/ OpOf[p] = "update" /\ manifest # None /\ copy[p] = A!Mutate(manifest, p)

CopyShape ==
    \A p \in Procs : pc[p] \in {"temp", "replace"} =>
        \/ OpOf[p] = "write" /\ copy[p] = A!Fresh(p)
        \/ OpOf[p] = "update" /\ \E m \in A!Content : copy[p] = A!Mutate(m, p)

OnlyDeletersRemove == \A p \in Procs : pc[p] = "rmtree" => OpOf[p] = "delete"

\* The manifest of before the calls stays in its directory, on the list of every delete
\* that is at work; no delete has returned without it.
FirstIsListed ==
    manifest # None /\ manifest = A!Fresh(None) =>
        /\ dir # Absent
        /\ \A p \in Procs : OpOf[p] = "delete" =>
              /\ pc[p] # "done"
              /\ pc[p] = "rmtree" => "manifest" \in todo[p] /\ at[p] = dir

\* Any other manifest was written by a call that returned.
WrittenByDone ==
    manifest \notin {None, A!Fresh(None)} =>
        \E q \in manifest.applied \cup {manifest.by} : q \in Procs /\ pc[q] = "done"

Inv ==
    /\ TypeOK /\ CopyShape /\ OnlyDeletersRemove
    /\ DOMAIN todo = Procs /\ FirstIsListed /\ WrittenByDone
    /\ ~Deleting => OneLockFile /\ OneHolder /\ CopyIsCurrent

-----------------------------------------------------------------------------

\* A mutated manifest is a manifest.
LEMMA MutateType ==
    ASSUME NEW m \in A!Content, NEW p \in Procs
    PROVE  A!Mutate(m, p) \in A!Content
  BY DEF A!Content, A!Mutate

\* A new session starts without a manifest, or with an earlier one and its lock
\* file; nobody has called yet.
LEMMA InitInv == Init => Inv
<1> SUFFICES ASSUME Init PROVE Inv
  OBVIOUS
<1>1. A!Fresh(None) \in A!Content
  BY DEF A!Fresh, A!Content
<1>2. TypeOK
  BY <1>1, ManifestStoreAssumption DEF Init, TypeOK, Absent
<1>3. \A p \in Procs : pc[p] = "idle"
  BY DEF Init
<1>4. QED
  BY <1>2, <1>3 DEF Init, Inv, CopyShape, OnlyDeletersRemove, OneLockFile, OneHolder, CopyIsCurrent,
     Critical, FirstIsListed, WrittenByDone, Absent

\* Every call keeps the shape of the state.
LEMMA TypeStep == TypeOK /\ [Next]_vars => TypeOK'
<1> SUFFICES ASSUME TypeOK, [Next]_vars PROVE TypeOK'
  OBVIOUS
<1> USE DEF TypeOK, files, rm, bounds, Goto, Critical, Ended, Absent
<1>1. ASSUME NEW p \in Procs, OpenLock(p) PROVE TypeOK'
  BY <1>1 DEF OpenLock
<1>2. ASSUME NEW p \in Procs, Lock(p) \/ Timeout(p) PROVE TypeOK'
  BY <1>2 DEF Lock, Timeout
<1>3. ASSUME NEW p \in Procs, ComposeManifest(p) PROVE TypeOK'
  <2>1. A!Fresh(p) \in A!Content
    BY DEF A!Fresh, A!Content
  <2>2. QED
    BY <1>3, <2>1 DEF ComposeManifest
<1>4. ASSUME NEW p \in Procs, ReadAndMutate(p) PROVE TypeOK'
  <2>1. manifest # None => A!Mutate(manifest, p) \in A!Content
    BY MutateType
  <2>2. QED
    BY <1>4, <2>1 DEF ReadAndMutate
<1>5. ASSUME NEW p \in Procs, MakeTemp(p) PROVE TypeOK'
  BY <1>5 DEF MakeTemp, EnsureDir
<1>6. ASSUME NEW p \in Procs, Replace(p) PROVE TypeOK'
  BY <1>6 DEF Replace
<1>7. ASSUME NEW p \in Procs, ScanDir(p) PROVE TypeOK'
  BY <1>7 DEF ScanDir
<1>8. ASSUME NEW p \in Procs, UnlinkEntry(p) PROVE TypeOK'
  BY <1>8 DEF UnlinkEntry
<1>9. ASSUME NEW p \in Procs, RemoveDir(p) PROVE TypeOK'
  BY <1>9 DEF RemoveDir
<1>10. ASSUME NEW p \in Procs, Crash(p) PROVE TypeOK'
  BY <1>10 DEF Crash
<1>11. CASE UNCHANGED vars
  BY <1>11 DEF vars
<1>12. QED
  BY <1>1, <1>2, <1>3, <1>4, <1>5, <1>6, <1>7, <1>8, <1>9, <1>10, <1>11 DEF Next

\* Nobody goes back to where no call was made: a delete that has begun stays so.
LEMMA DeletingStays ==
    ASSUME TypeOK, [Next]_vars, Deleting
    PROVE  Deleting'
<1>1. PICK p \in Procs : OpOf[p] = "delete" /\ pc[p] # "idle"
  BY DEF Deleting
<1> SUFFICES pc'[p] # "idle"
  BY <1>1 DEF Deleting
<1>2. ASSUME NEW q \in Procs, NEW to, pc' = [pc EXCEPT ![q] = to], to # "idle"
      PROVE  pc'[p] # "idle"
  BY <1>1, <1>2 DEF TypeOK
<1>3. ASSUME UNCHANGED pc PROVE pc'[p] # "idle"
  BY <1>1, <1>3
<1>4. CASE UNCHANGED vars
  BY <1>3, <1>4 DEF vars
<1>5. CASE Next
  <2> PICK q \in Procs : \/ OpenLock(q) \/ Lock(q) \/ Timeout(q)
                         \/ ComposeManifest(q) \/ ReadAndMutate(q) \/ MakeTemp(q) \/ Replace(q)
                         \/ ScanDir(q) \/ UnlinkEntry(q) \/ RemoveDir(q)
                         \/ Crash(q)
    BY <1>5 DEF Next
  <2>1. CASE OpenLock(q) \/ Lock(q) \/ Timeout(q)
    BY <1>2, <2>1 DEF OpenLock, Lock, Timeout, Goto
  <2>2. CASE ComposeManifest(q) \/ ReadAndMutate(q) \/ MakeTemp(q) \/ Replace(q)
    BY <1>2, <2>2 DEF ComposeManifest, ReadAndMutate, MakeTemp, Replace, Goto
  <2>3. CASE ScanDir(q) \/ RemoveDir(q) \/ Crash(q)
    BY <1>2, <2>3 DEF ScanDir, RemoveDir, Crash, Goto
  <2>4. CASE UnlinkEntry(q)
    BY <1>3, <2>4 DEF UnlinkEntry
  <2>5. QED
    BY <2>1, <2>2, <2>3, <2>4
<1>6. QED
  BY <1>4, <1>5

\* The copy a call is going to write is its own, whoever removes what meanwhile.
LEMMA ShapeStep ==
    ASSUME TypeOK, CopyShape, OnlyDeletersRemove, [Next]_vars
    PROVE  CopyShape' /\ OnlyDeletersRemove'
<1> USE DEF TypeOK, CopyShape, OnlyDeletersRemove, files, rm, bounds, Goto, Critical, Ended
<1> DEFINE Shape == CopyShape /\ OnlyDeletersRemove
<1>1. ASSUME NEW p \in Procs, OpenLock(p) \/ Lock(p) \/ Timeout(p) PROVE Shape'
  BY <1>1 DEF OpenLock, Lock, Timeout
<1>2. ASSUME NEW p \in Procs, ComposeManifest(p) PROVE Shape'
  BY <1>2 DEF ComposeManifest
<1>3. ASSUME NEW p \in Procs, ReadAndMutate(p) PROVE Shape'
  BY <1>3 DEF ReadAndMutate
<1>4. ASSUME NEW p \in Procs, MakeTemp(p) \/ Replace(p) PROVE Shape'
  BY <1>4 DEF MakeTemp, Replace
<1>5. ASSUME NEW p \in Procs, ScanDir(p) \/ RemoveDir(p) \/ Crash(p) PROVE Shape'
  BY <1>5 DEF ScanDir, RemoveDir, Crash
<1>6. ASSUME NEW p \in Procs, UnlinkEntry(p) PROVE Shape'
  BY <1>6 DEF UnlinkEntry
<1>7. CASE UNCHANGED vars
  BY <1>7 DEF vars
<1>8. QED
  BY <1>1, <1>2, <1>3, <1>4, <1>5, <1>6, <1>7 DEF Next

\* As long as no delete has begun, every step keeps the lock file one, its
\* holder one, and the holder's copy current.
LEMMA LockedStep ==
    ASSUME TypeOK, OneLockFile, OneHolder, CopyIsCurrent, OnlyDeletersRemove,
           [Next]_vars, ~Deleting'
    PROVE  OneLockFile' /\ OneHolder' /\ CopyIsCurrent'
<1> USE DEF TypeOK, OneLockFile, OneHolder, CopyIsCurrent,
            files, rm, bounds, Goto, Critical, Ended
<1> DEFINE Locking == OneLockFile /\ OneHolder /\ CopyIsCurrent
<1>2. ASSUME NEW p \in Procs, OpenLock(p) PROVE Locking'
  <2>1. OneLockFile'
    BY <1>2 DEF OpenLock, Absent
  <2>2. QED
    BY <1>2, <2>1 DEF OpenLock
<1>3. ASSUME NEW p \in Procs, Lock(p) PROVE Locking'
  <2>1. \A q \in Procs : pc[q] \notin Critical
    BY <1>3 DEF Lock, Locked
  <2>2. OneHolder'
    BY <1>3, <2>1 DEF Lock
  <2>3. QED
    BY <1>3, <2>2 DEF Lock
<1>4. ASSUME NEW p \in Procs, Timeout(p) PROVE Locking'
  BY <1>4 DEF Timeout
<1>5. ASSUME NEW p \in Procs, ComposeManifest(p) PROVE Locking'
  BY <1>5 DEF ComposeManifest
<1>6. ASSUME NEW p \in Procs, ReadAndMutate(p) PROVE Locking'
  BY <1>6 DEF ReadAndMutate
<1>7. ASSUME NEW p \in Procs, MakeTemp(p) PROVE Locking'
  BY <1>7 DEF MakeTemp, EnsureDir
<1>8. ASSUME NEW p \in Procs, Replace(p) PROVE Locking'
  <2>1. \A q \in Procs : pc'[q] \notin Critical
    BY <1>8 DEF Replace
  <2>2. QED
    BY <1>8, <2>1 DEF Replace
<1>9. ASSUME NEW p \in Procs, Crash(p) PROVE Locking'
  BY <1>9 DEF Crash
<1>10. ASSUME NEW p \in Procs, ScanDir(p) \/ UnlinkEntry(p) \/ RemoveDir(p) PROVE FALSE
  <2>1. OpOf[p] = "delete" /\ pc'[p] # "idle"
    BY <1>10 DEF ScanDir, UnlinkEntry, RemoveDir, OnlyDeletersRemove
  <2>2. QED
    BY <2>1 DEF Deleting
<1>11. CASE UNCHANGED vars
  BY <1>11 DEF vars
<1>12. QED
  BY <1>2, <1>3, <1>4, <1>5, <1>6, <1>7, <1>8, <1>9, <1>10, <1>11 DEF Next

\* Who has returned has returned, and no process takes another along.
LEMMA DoneStays == ASSUME TypeOK, [Next]_vars, NEW q \in Procs, pc[q] = "done" PROVE pc'[q] = "done"
<1> USE DEF TypeOK, files, Goto, Ended, Critical
<1>1. CASE UNCHANGED vars
  BY <1>1 DEF vars
<1>2. CASE Next
  <2> PICK p \in Procs : \/ OpenLock(p) \/ Lock(p) \/ Timeout(p)
                         \/ ComposeManifest(p) \/ ReadAndMutate(p) \/ MakeTemp(p) \/ Replace(p)
                         \/ ScanDir(p) \/ UnlinkEntry(p) \/ RemoveDir(p)
                         \/ Crash(p)
    BY <1>2 DEF Next
  <2>1. CASE OpenLock(p) \/ Lock(p) \/ Timeout(p)
    BY <2>1 DEF OpenLock, Lock, Timeout
  <2>2. CASE ComposeManifest(p) \/ ReadAndMutate(p) \/ MakeTemp(p) \/ Replace(p)
    BY <2>2 DEF ComposeManifest, ReadAndMutate, MakeTemp, Replace
  <2>3. CASE ScanDir(p) \/ UnlinkEntry(p) \/ RemoveDir(p) \/ Crash(p)
    BY <2>3 DEF ScanDir, UnlinkEntry, RemoveDir, Crash
  <2>4. QED
    BY <2>1, <2>2, <2>3
<1>3. QED
  BY <1>1, <1>2

\* What a rename puts in place is its process's own.
LEMMA CopyIsOwn ==
    ASSUME CopyShape, NEW p \in Procs, pc[p] = "replace"
    PROVE  p \in copy[p].applied \cup {copy[p].by} /\ copy[p] # A!Fresh(None)
<1>1. CASE copy[p] = A!Fresh(p)
  BY <1>1, ManifestStoreAssumption DEF A!Fresh
<1>2. CASE \E m \in A!Content : copy[p] = A!Mutate(m, p)
  BY <1>2 DEF A!Fresh, A!Mutate, A!Content
<1>3. QED
  BY <1>1, <1>2 DEF CopyShape

\* A manifest is the first one, listed to go, or a returned call wrote it.
LEMMA OriginStep ==
    ASSUME TypeOK, CopyShape, OnlyDeletersRemove, DOMAIN todo = Procs, FirstIsListed, WrittenByDone,
           [Next]_vars
    PROVE  DOMAIN todo' = Procs /\ FirstIsListed' /\ WrittenByDone'
<1> DEFINE Origin == DOMAIN todo = Procs /\ FirstIsListed /\ WrittenByDone
<1>0. \A q \in Procs : pc[q] = "done" => pc'[q] = "done"
  BY DoneStays
<1>1. ASSUME UNCHANGED manifest PROVE WrittenByDone'
  BY <1>0, <1>1 DEF WrittenByDone
<1>2. ASSUME NEW p \in Procs, OpOf[p] # "delete", UNCHANGED <<manifest, rm>>, NEW to, Goto(p, to),
             dir # Absent => dir' = dir
      PROVE  Origin'
  <2>1. FirstIsListed'
    BY <1>2 DEF FirstIsListed, TypeOK, rm, Goto
  <2>2. QED
    BY <1>1, <1>2, <2>1 DEF rm
<1>3. ASSUME NEW p \in Procs, OpenLock(p) \/ MakeTemp(p) \/ ComposeManifest(p) \/ ReadAndMutate(p)
      PROVE  Origin'
  <2>1. UNCHANGED <<manifest, rm>> /\ (dir # Absent => dir' = dir) /\ \E to : Goto(p, to)
    BY <1>3 DEF OpenLock, MakeTemp, ComposeManifest, ReadAndMutate, EnsureDir, files
  <2>2. OpOf[p] # "delete"
    BY <1>3 DEF OpenLock, MakeTemp, ComposeManifest, ReadAndMutate, CopyShape
  <2>3. QED
    BY <1>2, <2>1, <2>2
<1>4. ASSUME NEW p \in Procs, Lock(p) \/ Timeout(p) \/ Crash(p) PROVE Origin'
  <2>1. UNCHANGED <<files, rm>> /\ \E to \in {"locked", "failed", "crashed"} : Goto(p, to)
    BY <1>4 DEF Lock, Timeout, Crash
  <2>2. FirstIsListed'
    BY <2>1 DEF FirstIsListed, TypeOK, rm, files, Goto
  <2>3. QED
    BY <1>1, <2>1, <2>2 DEF rm, files
<1>5. ASSUME NEW p \in Procs, Replace(p) PROVE Origin'
  <2>1. pc[p] = "replace" /\ OpOf[p] # "delete" /\ UNCHANGED <<rm, dir>>
    BY <1>5 DEF Replace, CopyShape
  <2>2. CASE UNCHANGED manifest
    <3>1. \E to : Goto(p, to)
      BY <1>5 DEF Replace
    <3>2. QED
      BY <1>2, <2>1, <2>2, <3>1
  <2>3. CASE manifest' = copy[p] /\ Goto(p, "done")
    <3>1. pc'[p] = "done"
      BY <2>3 DEF Goto, TypeOK
    <3>2. FirstIsListed' /\ WrittenByDone'
      BY <2>1, <2>3, <3>1, CopyIsOwn DEF FirstIsListed, WrittenByDone
    <3>3. QED
      BY <2>1, <3>2 DEF rm
  <2>4. QED
    BY <1>5, <2>2, <2>3 DEF Replace
<1>6. ASSUME NEW p \in Procs, ScanDir(p) PROVE Origin'
  <2>1. manifest # None => "manifest" \in DirectoryEntries
    BY DEF DirectoryEntries
  <2>2. /\ UNCHANGED files /\ Goto(p, "rmtree")
        /\ todo' = [todo EXCEPT ![p] = DirectoryEntries] /\ at' = [at EXCEPT ![p] = dir]
    BY <1>6 DEF ScanDir
  <2>3. FirstIsListed'
    BY <2>1, <2>2 DEF FirstIsListed, TypeOK, files, Goto
  <2>4. QED
    BY <1>1, <2>2, <2>3 DEF files
<1>7. ASSUME NEW p \in Procs, UnlinkEntry(p) PROVE Origin'
  <2>1. PICK e \in todo[p] :
           /\ todo' = [todo EXCEPT ![p] = @ \ {e}]
           /\ UNCHANGED manifest \/ manifest' = None
           /\ e = "manifest" /\ dir = at[p] => manifest' = None
    BY <1>7 DEF UnlinkEntry
  <2>2. pc[p] = "rmtree" /\ OpOf[p] = "delete" /\ UNCHANGED <<dir, pc, at>>
    BY <1>7 DEF UnlinkEntry, OnlyDeletersRemove
  <2>3. CASE manifest' = None
    BY <2>1, <2>3 DEF FirstIsListed, WrittenByDone
  <2>4. CASE UNCHANGED manifest /\ manifest # None
    <3>1. manifest = A!Fresh(None) => e # "manifest"
      BY <2>1, <2>2, <2>4 DEF FirstIsListed
    <3>2. FirstIsListed'
      BY <2>1, <2>2, <2>4, <3>1 DEF FirstIsListed
    <3>3. QED
      BY <1>1, <2>1, <2>4, <3>2
  <2>5. QED
    BY <2>1, <2>3, <2>4
<1>8. ASSUME NEW p \in Procs, RemoveDir(p) PROVE Origin'
  <2>1. pc[p] = "rmtree" /\ OpOf[p] = "delete" /\ todo[p] = {} /\ UNCHANGED <<manifest, rm>>
    BY <1>8 DEF RemoveDir, OnlyDeletersRemove
  <2>2. manifest = None \/ manifest # A!Fresh(None)
    BY <2>1 DEF FirstIsListed
  <2>3. QED
    BY <1>1, <2>1, <2>2 DEF FirstIsListed, rm
<1>9. CASE UNCHANGED vars
  BY <1>1, <1>9 DEF vars, files, rm, FirstIsListed
<1>10. QED
  BY <1>3, <1>4, <1>5, <1>6, <1>7, <1>8, <1>9 DEF Next

\* Every step keeps the inductive invariant.
LEMMA InvStep == Inv /\ [Next]_vars => Inv'
<1> SUFFICES ASSUME Inv, [Next]_vars PROVE Inv'
  OBVIOUS
<1>1. TypeOK'
  BY TypeStep DEF Inv
<1>2. CopyShape' /\ OnlyDeletersRemove'
  BY ShapeStep DEF Inv
<1>3. ASSUME ~Deleting' PROVE OneLockFile' /\ OneHolder' /\ CopyIsCurrent'
  <2>1. ~Deleting
    BY <1>3, DeletingStays DEF Inv
  <2>2. QED
    BY <1>3, <2>1, LockedStep DEF Inv
<1>4. DOMAIN todo' = Procs /\ FirstIsListed' /\ WrittenByDone'
  BY OriginStep DEF Inv
<1>5. QED
  BY <1>1, <1>2, <1>3, <1>4 DEF Inv

\* Every step is one of the abstract manifest or leaves it alone: the rename is
\* a Write or an Update, and so is the first step of a delete a BeginDelete and
\* the removal of the file a Delete.
LEMMA StepImplements ==
    ASSUME Inv, [Next]_vars
    PROVE  A!Next \/ UNCHANGED <<manifest, Deleting>>
<1> DEFINE Goal == A!Next \/ UNCHANGED <<manifest, Deleting>>
<1>1. Deleting \in BOOLEAN /\ Deleting' \in BOOLEAN
  BY DEF Deleting
<1>2. Deleting => Deleting'
  BY DeletingStays DEF Inv
<1>3. ASSUME UNCHANGED manifest PROVE Goal
  <2>1. CASE Deleting' = Deleting
    BY <1>3, <2>1
  <2>2. CASE Deleting' # Deleting
    <3>1. Deleting' = TRUE
      BY <1>1, <1>2, <2>2
    <3>2. QED
      BY <1>3, <3>1 DEF A!Next, A!BeginDelete
  <2>3. QED
    BY <2>1, <2>2
<1>4. ASSUME NEW p \in Procs, Replace(p) PROVE Goal
  <2>1. CASE UNCHANGED manifest
    BY <1>3, <2>1
  <2>2. CASE manifest' = copy[p]
    <3>1. pc[p] = "replace"
      BY <1>4 DEF Replace
    <3>2. OpOf[p] # "delete"
      BY <3>1 DEF Inv, CopyShape
    <3>3. Deleting' = Deleting
      <4>1. \A q \in Procs : q # p => pc'[q] = pc[q]
        BY <1>4 DEF Replace, Goto, Inv, TypeOK
      <4>2. QED
        BY <3>2, <4>1 DEF Deleting
    <3>4. \/ copy[p] = A!Fresh(p)
          \/ \E m \in A!Content : (~Deleting => m = manifest) /\ copy[p] = A!Mutate(m, p)
      BY <3>1 DEF Inv, CopyShape, CopyIsCurrent, TypeOK
    <3>5. A!Write(p) \/ A!Update(p)
      BY <2>2, <3>3, <3>4, NoManifestAssumption DEF A!Write, A!Update
    <3>6. QED
      BY <3>5 DEF A!Next
  <2>3. QED
    BY <1>4, <2>1, <2>2 DEF Replace
<1>5. ASSUME NEW p \in Procs, UnlinkEntry(p) PROVE Goal
  <2>1. CASE UNCHANGED manifest
    BY <1>3, <2>1
  <2>2. CASE manifest' = None
    <3>1. Deleting /\ Deleting' = Deleting
      BY <1>5 DEF UnlinkEntry, Inv, OnlyDeletersRemove, Deleting
    <3>2. QED
      BY <2>2, <3>1 DEF A!Next, A!Delete
  <2>3. QED
    BY <1>5, <2>1, <2>2 DEF UnlinkEntry
<1>6. ASSUME NEW p \in Procs, OpenLock(p) \/ Lock(p) \/ Timeout(p) \/ ComposeManifest(p)
                                \/ ReadAndMutate(p) \/ MakeTemp(p) \/ ScanDir(p)
                                \/ RemoveDir(p) \/ Crash(p)
      PROVE  UNCHANGED manifest
  BY <1>6 DEF OpenLock, Lock, Timeout, ComposeManifest, ReadAndMutate, MakeTemp, ScanDir,
              RemoveDir, Crash, files
<1>7. CASE UNCHANGED vars
  BY <1>3, <1>7 DEF vars, files
<1>8. QED
  BY <1>3, <1>4, <1>5, <1>6, <1>7 DEF Next

-----------------------------------------------------------------------------

\* Whoever writes, updates and deletes, fails and dies: the inductive invariant
\* holds.
THEOREM Invariance == Spec => []Inv
  BY InitInv, InvStep, PTL DEF Spec

\* The store's variables keep their shape.
THEOREM TypeCorrect == Spec => []TypeOK
  BY Invariance, PTL DEF Inv

\* SessionStore.write() and update() keep the promise of their docstrings: until
\* somebody deletes the session, its manifest changes as if each call that
\* returned had happened at one instant, so no update is lost.
THEOREM NoUpdateIsLost == Spec => Implements
<1>1. Init => A!Init
  BY DEF Init, A!Init, Deleting
<1>2. Inv /\ [Next]_vars => [A!Next]_(A!avars)
  BY StepImplements DEF A!avars
<1>3. QED
  BY <1>1, <1>2, Invariance, PTL DEF Spec, Implements, A!Spec

\* A deleted session comes back only by a write or an update that returned: one that
\* failed, timed out or died brings nothing back, whatever it held when the files went.
THEOREM DeletedStaysDeleted == Spec => []FailedCallsRestoreNothing
<1>1. Inv => FailedCallsRestoreNothing
  BY ManifestStoreAssumption DEF Inv, FirstIsListed, WrittenByDone, FailedCallsRestoreNothing
<1>2. QED
  BY <1>1, Invariance, PTL

=============================================================================

----------------------------- MODULE HooksProofs -----------------------------
(***************************************************************************)
(* Proofs about what the hooks of a session do and the work they defer:    *)
(* the queue of markers (WorkQueue), the hooks themselves (SessionHooks),  *)
(* the policies an edit is put to (GuardConfig, PolicyEngine, GuardCheck), *)
(* the index the markers are for (SearchIndex) and the gate of a team      *)
(* (TeamPolicy).                                                           *)
(***************************************************************************)
EXTENDS WorkQueue, SessionHooks, GuardCheck, SearchIndex, TeamPolicy, FiniteSetTheorems, SequenceTheorems, TLAPS

\* The parts of the inductive invariant that no run checks by themselves.

\* What is being handled was well-formed and had attempts left.
MarkIsFresh ==
    \A p \in Procs : pc[p] \in {"handling", "handled"} =>
        mark[p].shape = "valid" /\ mark[p].attempts < MaxAttempts

\* After its handler returned a generation counts as done.
HandledIsDone ==
    \A p \in Procs : pc[p] = "handled" => mark[p].gen \in done[cur[p]]

\* What is moved to failed/ is there.
MovingIsPresent ==
    \A p \in Procs : pc[p] = "moving" => pending[cur[p]].shape # "absent"

\* A pending file of an id that was enqueued holds the last payload enqueued.
PendingIsLatest ==
    \A m \in MarkerIds :
        lastGen[m] > 0 /\ pending[m].shape # "absent" =>
            pending[m].shape = "valid" /\ pending[m].gen = lastGen[m]

\* Every handler exception was counted in the file or was a failed write.
RaisesAreCounted ==
    \A m \in MarkerIds :
        pending[m].shape = "valid" => raises[m] <= pending[m].attempts + faults

\* A file that is pending although it was handled cost a crash or a failure.
RunsAreExcused ==
    \A m \in MarkerIds :
        (/\ pending[m].shape = "valid"
         /\ \A p \in Procs : ~(pc[p] = "handled" /\ cur[p] = m))
        => runs[m] <= crashes + faults

\* Given up early: in failed/, or on the way there, with attempts left.
Early(f) == f.shape = "valid" /\ f.attempts < MaxAttempts

GivenUp ==
    {m \in MarkerIds : \/ Early(failed[m])
                       \/ \E p \in Procs : pc[p] = "moving" /\ cur[p] = m /\ Early(pending[m])}

\* Each of them cost a failed read.
EarlyCosts == IsFiniteSet(GivenUp) /\ Cardinality(GivenUp) <= faults

Inv ==
    /\ TypeOK
    /\ LockDiscipline
    /\ HandledIsCurrent
    /\ MarkIsFresh
    /\ HandledIsDone
    /\ MovingIsPresent
    /\ PendingIsLatest
    /\ NoSilentLoss
    /\ RaisesAreCounted
    /\ PoisonBound
    /\ RunsAreExcused
    /\ ExactlyOnceIsh
    /\ EarlyCosts

-----------------------------------------------------------------------------

\* Leaving a with-block keeps the four variables it assigns well-typed.
LEMMA ReleaseType ==
    ASSUME TypeOK, NEW p \in Procs, NEW to \in {"idle", "next"}, Release(p, to)
    PROVE  /\ lock' \in [MarkerIds -> Procs \cup {Free}]
           /\ pc' \in [Procs -> Holding \cup {"idle", "next"}]
           /\ cur' \in [Procs -> MarkerIds \cup {NoMarker}]
           /\ mark' \in [Procs -> Marker]
  BY DEF TypeOK, Release, Marker, NoFile, Holding

\* So does counting an attempt, which may also write the marker back.
LEMMA TryWriteErrorType ==
    ASSUME TypeOK, NEW p \in Procs, cur[p] \in MarkerIds, TryWriteError(p)
    PROVE  /\ lock' \in [MarkerIds -> Procs \cup {Free}]
           /\ pc' \in [Procs -> Holding \cup {"idle", "next"}]
           /\ cur' \in [Procs -> MarkerIds \cup {NoMarker}]
           /\ mark' \in [Procs -> Marker]
           /\ pending' \in [MarkerIds -> Marker]
           /\ faults' \in Nat
<1>1. pending[cur[p]] \in Marker /\ pending[cur[p]].attempts + 1 \in Nat
  BY DEF TypeOK, Marker
<1>2. CASE Fault /\ Release(p, "next") /\ UNCHANGED pending
  BY <1>2, ReleaseType DEF TypeOK, Fault
<1>3. CASE /\ pending' = [pending EXCEPT ![cur[p]].attempts = pending[cur[p]].attempts + 1]
           /\ UNCHANGED faults
  <2>1. pending' \in [MarkerIds -> Marker]
    BY <1>1, <1>3 DEF TypeOK, Marker
  <2>2. \/ Release(p, "next")
        \/ pc' = [pc EXCEPT ![p] = "moving"] /\ UNCHANGED <<lock, cur, mark>>
    BY <1>3 DEF TryWriteError, Fault, Release
  <2>3. CASE Release(p, "next")
    BY <2>1, <2>3, <1>3, ReleaseType DEF TypeOK
  <2>4. CASE pc' = [pc EXCEPT ![p] = "moving"] /\ UNCHANGED <<lock, cur, mark>>
    BY <2>1, <2>4, <1>3 DEF TypeOK, Holding
  <2>5. QED
    BY <2>2, <2>3, <2>4
<1>4. QED
  BY <1>2, <1>3 DEF TryWriteError

\* Type correctness: every step keeps the shape of the state.
LEMMA TypeStep == TypeOK /\ LockDiscipline /\ [Next]_vars => TypeOK'
<1> SUFFICES ASSUME TypeOK, LockDiscipline, [Next]_vars PROVE TypeOK'
  OBVIOUS
<1>0. \A p \in Procs : pc[p] \in Holding => cur[p] \in MarkerIds
  BY DEF LockDiscipline
<1>0a. NoFile \in Marker
  BY DEF NoFile, Marker
<1>0b. \A f \in Marker : f.gen \in Nat /\ f.attempts \in Nat
  BY DEF Marker
<1>0c. \A n \in Nat : [shape |-> "valid", attempts |-> 0, gen |-> n] \in Marker
  BY DEF Marker
<1> USE <1>0, <1>0a, <1>0b, <1>0c DEF TypeOK, Holding, Fault, files, history
<1>1. ASSUME NEW p \in Procs, NEW m \in MarkerIds, EnqueueLock(p, m) PROVE TypeOK'
  BY <1>1 DEF EnqueueLock, Acquire
<1>2. ASSUME NEW p \in Procs, ListMarkers(p) PROVE TypeOK'
  BY <1>2 DEF ListMarkers, Batch, Present
<1>3. ASSUME NEW p \in Procs, EnqueueWrite(p) PROVE TypeOK'
  <2>1. cur[p] \in MarkerIds /\ lastGen[cur[p]] + 1 \in Nat
    BY <1>3 DEF EnqueueWrite
  <2>2. pending' \in [MarkerIds -> Marker]
    BY <2>1, <1>3, <1>0c DEF EnqueueWrite
  <2>3. lastGen' \in [MarkerIds -> Nat] /\ raises' \in [MarkerIds -> Nat] /\ runs' \in [MarkerIds -> Nat]
    BY <2>1, <1>3 DEF EnqueueWrite
  <2>4. QED
    BY <2>2, <2>3, <1>3, ReleaseType DEF EnqueueWrite
<1>4. ASSUME NEW p \in Procs, EnqueueFails(p) PROVE TypeOK'
  BY <1>4 DEF EnqueueFails, Release
<1>5. ASSUME NEW p \in Procs, NEW m \in MarkerIds, LockMarker(p, m) PROVE TypeOK'
  BY <1>5 DEF LockMarker, Acquire
<1>6. ASSUME NEW p \in Procs, NEW m \in MarkerIds, SkipContended(p, m) PROVE TypeOK'
  BY <1>6 DEF SkipContended
<1>7. ASSUME NEW p \in Procs, FinishBatch(p) PROVE TypeOK'
  BY <1>7 DEF FinishBatch
<1>8. ASSUME NEW p \in Procs, LeaveInPlace(p) PROVE TypeOK'
  BY <1>8 DEF LeaveInPlace, Release
<1>9. ASSUME NEW p \in Procs, CleanOldShape(p) PROVE TypeOK'
  BY <1>9 DEF CleanOldShape, Release
<1>10. ASSUME NEW p \in Procs, CondemnMarker(p) PROVE TypeOK'
  BY <1>10 DEF CondemnMarker
<1>11. ASSUME NEW p \in Procs, CondemnUnreadable(p) PROVE TypeOK'
  BY <1>11 DEF CondemnUnreadable
<1>12. ASSUME NEW p \in Procs, RejectInvalid(p) PROVE TypeOK'
  BY <1>12, TryWriteErrorType DEF RejectInvalid
<1>13. ASSUME NEW p \in Procs, StartHandler(p) PROVE TypeOK'
  BY <1>13 DEF StartHandler
<1>14. ASSUME NEW p \in Procs, HandlerReturns(p) PROVE TypeOK'
  <2>1. cur[p] \in MarkerIds /\ mark[p].gen \in Nat /\ runs[cur[p]] + 1 \in Nat
    BY <1>14 DEF HandlerReturns
  <2>2. done' \in [MarkerIds -> SUBSET Nat] /\ runs' \in [MarkerIds -> Nat]
    BY <2>1, <1>14 DEF HandlerReturns
  <2>3. QED
    BY <2>2, <1>14 DEF HandlerReturns
<1>15. ASSUME NEW p \in Procs, HandlerRaises(p) PROVE TypeOK'
  <2>1. cur[p] \in MarkerIds
    BY <1>15 DEF HandlerRaises
  <2>2. raises' \in [MarkerIds -> Nat]
    BY <2>1, <1>15 DEF HandlerRaises
  <2>3. QED
    BY <2>1, <2>2, <1>15, TryWriteErrorType DEF HandlerRaises
<1>16. ASSUME NEW p \in Procs, UnlinkHandled(p) PROVE TypeOK'
  <2>1. pending' \in [MarkerIds -> Marker] /\ faults' \in Nat
    BY <1>16 DEF UnlinkHandled
  <2>2. QED
    BY <2>1, <1>16, ReleaseType DEF UnlinkHandled
<1>17. ASSUME NEW p \in Procs, MoveToFailed(p) PROVE TypeOK'
  <2>1. cur[p] \in MarkerIds /\ pending[cur[p]] \in Marker
    BY <1>17 DEF MoveToFailed
  <2>2. pending' \in [MarkerIds -> Marker]
    BY <2>1, <1>17 DEF MoveToFailed
  <2>3. failed' \in [MarkerIds -> Marker]
    BY <2>1, <1>17 DEF MoveToFailed
  <2>4. faults' \in Nat
    BY <1>17 DEF MoveToFailed
  <2>5. QED
    BY <2>2, <2>3, <2>4, <1>17, ReleaseType DEF MoveToFailed
<1>18. ASSUME NEW p \in Procs, Crash(p) PROVE TypeOK'
  BY <1>18 DEF Crash
<1>19. CASE UNCHANGED vars
  BY <1>19 DEF vars
<1>20. QED
  BY <1>1, <1>2, <1>3, <1>4, <1>5, <1>6, <1>7, <1>8, <1>9, <1>10, <1>11, <1>12,
     <1>13, <1>14, <1>15, <1>16, <1>17, <1>18, <1>19 DEF Next, Step

-----------------------------------------------------------------------------
(* Locks.                                                                  *)

\* Leaving the with-block of cur[p] frees that lock and no other.
LEMMA ReleaseLock ==
    ASSUME TypeOK, LockDiscipline, NEW p \in Procs, pc[p] \in Holding,
           NEW to \in {"idle", "next"}, Release(p, to)
    PROVE  LockDiscipline'
<1>1. cur[p] \in MarkerIds /\ lock[cur[p]] = p
  BY DEF LockDiscipline
<1>2. to \notin Holding
  BY DEF Holding
<1>3. \A q \in Procs : q # p => pc'[q] = pc[q] /\ cur'[q] = cur[q]
  BY DEF TypeOK, Release
<1>4. \A m \in MarkerIds : lock'[m] = IF m = cur[p] THEN Free ELSE lock[m]
  BY <1>1 DEF TypeOK, Release
<1>5. pc'[p] \notin Holding
  BY <1>2 DEF TypeOK, Release
<1>6. ASSUME NEW q \in Procs, pc'[q] \in Holding
      PROVE  cur'[q] \in MarkerIds /\ lock'[cur'[q]] = q
  <2>1. q # p /\ pc[q] \in Holding /\ cur'[q] = cur[q]
    BY <1>3, <1>5, <1>6
  <2>2. cur[q] \in MarkerIds /\ lock[cur[q]] = q
    BY <2>1 DEF LockDiscipline
  <2>3. QED
    BY <1>1, <1>4, <2>1, <2>2
<1>7. ASSUME NEW q \in Procs, NEW m \in MarkerIds, lock'[m] = q
      PROVE  pc'[q] \in Holding /\ cur'[q] = m
  <2>1. m # cur[p] /\ lock[m] = q
    BY <1>4, <1>7, WorkQueueAssumption
  <2>2. pc[q] \in Holding /\ cur[q] = m
    BY <2>1 DEF LockDiscipline
  <2>3. QED
    BY <1>3, <2>1, <2>2
<1>8. QED
  BY <1>6, <1>7 DEF LockDiscipline

\* Taking a free lock and entering the with-block keeps the discipline.
LEMMA AcquireLock ==
    ASSUME TypeOK, LockDiscipline, NEW p \in Procs, pc[p] \notin Holding,
           NEW m \in MarkerIds, Acquire(p, m), cur' = [cur EXCEPT ![p] = m],
           NEW to \in Holding, pc' = [pc EXCEPT ![p] = to]
    PROVE  LockDiscipline'
<1>1. lock[m] = Free /\ Free \notin Procs
  BY WorkQueueAssumption DEF Acquire
<1>2. \A n \in MarkerIds : lock'[n] = IF n = m THEN p ELSE lock[n]
  BY DEF TypeOK, Acquire
<1>3. \A q \in Procs : q # p => pc'[q] = pc[q] /\ cur'[q] = cur[q]
  BY DEF TypeOK
<1>4. pc'[p] = to /\ cur'[p] = m
  BY DEF TypeOK
<1>5. QED
  BY <1>1, <1>2, <1>3, <1>4 DEF LockDiscipline

\* So does every step that moves p between two points inside its with-block
\* (or two points outside one).
LEMMA KeepLock ==
    ASSUME TypeOK, LockDiscipline, NEW p \in Procs, UNCHANGED <<lock, cur>>,
           NEW to, pc' = [pc EXCEPT ![p] = to], pc[p] \in Holding <=> to \in Holding
    PROVE  LockDiscipline'
<1>1. \A q \in Procs : pc'[q] \in Holding <=> pc[q] \in Holding
  BY DEF TypeOK
<1>2. QED
  BY <1>1 DEF LockDiscipline

\* What a process holds at each point of its program.
LEMMA HoldingPoints ==
    /\ {"enqueue", "locked", "moving", "handling", "handled"} \subseteq Holding
    /\ "idle" \notin Holding /\ "next" \notin Holding
  BY DEF Holding

\* _try_write_error either stays under the lock (on the way to failed/) or
\* leaves the with-block.
LEMMA TryWriteErrorLock ==
    ASSUME TypeOK, LockDiscipline, NEW p \in Procs, pc[p] \in Holding, TryWriteError(p)
    PROVE  LockDiscipline'
<1>1. \/ Release(p, "next")
      \/ pc' = [pc EXCEPT ![p] = "moving"] /\ UNCHANGED <<lock, cur>>
  BY DEF TryWriteError
<1>2. QED
  BY <1>1, ReleaseLock, KeepLock, HoldingPoints

\* Every step keeps LockDiscipline.
LEMMA LockStep == TypeOK /\ LockDiscipline /\ [Next]_vars => LockDiscipline'
<1> SUFFICES ASSUME TypeOK, LockDiscipline, [Next]_vars PROVE LockDiscipline'
  OBVIOUS
<1> USE HoldingPoints
<1>1. ASSUME NEW p \in Procs, NEW m \in MarkerIds, EnqueueLock(p, m) \/ LockMarker(p, m)
      PROVE  LockDiscipline'
  BY <1>1, AcquireLock DEF EnqueueLock, LockMarker
<1>2. ASSUME NEW p \in Procs,
             ListMarkers(p) \/ FinishBatch(p) \/ CondemnMarker(p) \/ CondemnUnreadable(p)
               \/ StartHandler(p) \/ HandlerReturns(p)
      PROVE  LockDiscipline'
  BY <1>2, KeepLock
     DEF ListMarkers, FinishBatch, CondemnMarker, CondemnUnreadable, StartHandler, HandlerReturns
<1>3. ASSUME NEW p \in Procs,
             EnqueueWrite(p) \/ EnqueueFails(p) \/ LeaveInPlace(p) \/ CleanOldShape(p)
               \/ UnlinkHandled(p) \/ MoveToFailed(p)
      PROVE  LockDiscipline'
  BY <1>3, ReleaseLock
     DEF EnqueueWrite, EnqueueFails, LeaveInPlace, CleanOldShape, UnlinkHandled, MoveToFailed
<1>4. ASSUME NEW p \in Procs, RejectInvalid(p) \/ HandlerRaises(p) PROVE LockDiscipline'
  BY <1>4, TryWriteErrorLock DEF RejectInvalid, HandlerRaises
<1>5. ASSUME NEW p \in Procs, NEW m \in MarkerIds, SkipContended(p, m) PROVE LockDiscipline'
  BY <1>5 DEF SkipContended, LockDiscipline
<1>6. ASSUME NEW p \in Procs, Crash(p) PROVE LockDiscipline'
  <2>1. \A q \in Procs : q # p => pc'[q] = pc[q] /\ cur'[q] = cur[q]
    BY <1>6 DEF Crash, TypeOK
  <2>2. pc'[p] = "idle"
    BY <1>6 DEF Crash, TypeOK
  <2>3. \A m \in MarkerIds : lock'[m] = IF lock[m] = p THEN Free ELSE lock[m]
    BY <1>6 DEF Crash
  <2>4. Free \notin Procs /\ "idle" \notin Holding
    BY WorkQueueAssumption DEF Holding
  <2>5. ASSUME NEW q \in Procs, pc'[q] \in Holding PROVE cur'[q] \in MarkerIds /\ lock'[cur'[q]] = q
    <3>1. q # p /\ pc[q] \in Holding /\ cur'[q] = cur[q]
      BY <2>1, <2>2, <2>4, <2>5
    <3>2. cur[q] \in MarkerIds /\ lock[cur[q]] = q
      BY <3>1 DEF LockDiscipline
    <3>3. QED
      BY <2>3, <3>1, <3>2
  <2>6. ASSUME NEW q \in Procs, NEW m \in MarkerIds, lock'[m] = q PROVE pc'[q] \in Holding /\ cur'[q] = m
    <3>1. q # p /\ lock[m] = q
      BY <2>3, <2>4, <2>6
    <3>2. QED
      BY <2>1, <3>1 DEF LockDiscipline
  <2>7. QED
    BY <2>5, <2>6 DEF LockDiscipline
<1>7. CASE UNCHANGED vars
  BY <1>7 DEF vars, LockDiscipline
<1>8. QED
  BY <1>1, <1>2, <1>3, <1>4, <1>5, <1>6, <1>7 DEF Next, Step

-----------------------------------------------------------------------------
(* Non-interference: what a step of p leaves alone.                        *)

ProcStep(p) ==
    \/ \E m \in MarkerIds : EnqueueLock(p, m)
    \/ ListMarkers(p)
    \/ Step(p)
    \/ Crash(p)

\* The local state of every other process stays.
LEMMA OthersStay ==
    ASSUME TypeOK, NEW p \in Procs, ProcStep(p), NEW q \in Procs, q # p
    PROVE  pc'[q] = pc[q] /\ cur'[q] = cur[q] /\ mark'[q] = mark[q]
<1> USE DEF TypeOK
<1>1. ASSUME TryWriteError(p) PROVE pc'[q] = pc[q] /\ cur'[q] = cur[q] /\ mark'[q] = mark[q]
  BY <1>1 DEF TryWriteError, Release
<1>2. CASE \E m \in MarkerIds : EnqueueLock(p, m) \/ LockMarker(p, m) \/ SkipContended(p, m)
  BY <1>2 DEF EnqueueLock, LockMarker, SkipContended
<1>3. CASE ListMarkers(p) \/ FinishBatch(p) \/ CondemnMarker(p) \/ CondemnUnreadable(p)
             \/ StartHandler(p) \/ HandlerReturns(p) \/ Crash(p)
  BY <1>3 DEF ListMarkers, FinishBatch, CondemnMarker, CondemnUnreadable, StartHandler,
              HandlerReturns, Crash
<1>4. CASE EnqueueWrite(p) \/ EnqueueFails(p) \/ LeaveInPlace(p) \/ CleanOldShape(p)
             \/ UnlinkHandled(p) \/ MoveToFailed(p)
  BY <1>4 DEF EnqueueWrite, EnqueueFails, LeaveInPlace, CleanOldShape, UnlinkHandled,
              MoveToFailed, Release
<1>5. CASE RejectInvalid(p) \/ HandlerRaises(p)
  BY <1>1, <1>5 DEF RejectInvalid, HandlerRaises
<1>6. QED
  BY <1>2, <1>3, <1>4, <1>5 DEF ProcStep, Step

\* What is recorded of marker m, on disk and in the history.
Record(m) == <<pending[m], failed[m], lastGen[m], done[m], raises[m], runs[m]>>

\* A marker is changed by the process that holds its lock only.
LEMMA OnlyOwnMarker ==
    ASSUME TypeOK, NEW p \in Procs, ProcStep(p), NEW m \in MarkerIds,
           pc[p] \in Holding => cur[p] # m
    PROVE  UNCHANGED Record(m)
<1> USE HoldingPoints DEF TypeOK, Record, files, history
<1>1. ASSUME TryWriteError(p), cur[p] # m PROVE pending'[m] = pending[m]
  BY <1>1 DEF TryWriteError
<1>2. CASE \E n \in MarkerIds : EnqueueLock(p, n) \/ LockMarker(p, n) \/ SkipContended(p, n)
  BY <1>2 DEF EnqueueLock, LockMarker, SkipContended
<1>3. CASE ListMarkers(p) \/ FinishBatch(p) \/ CondemnMarker(p) \/ CondemnUnreadable(p)
             \/ StartHandler(p) \/ Crash(p) \/ EnqueueFails(p) \/ LeaveInPlace(p)
  BY <1>3 DEF ListMarkers, FinishBatch, CondemnMarker, CondemnUnreadable, StartHandler,
              Crash, EnqueueFails, LeaveInPlace
<1>4. CASE EnqueueWrite(p)
  BY <1>4 DEF EnqueueWrite
<1>5. CASE CleanOldShape(p) \/ UnlinkHandled(p)
  BY <1>5 DEF CleanOldShape, UnlinkHandled
<1>6. CASE MoveToFailed(p)
  BY <1>6 DEF MoveToFailed
<1>7. CASE HandlerReturns(p)
  BY <1>7 DEF HandlerReturns
<1>8. CASE RejectInvalid(p) \/ HandlerRaises(p)
  BY <1>1, <1>8 DEF RejectInvalid, HandlerRaises
<1>9. QED
  BY <1>2, <1>3, <1>4, <1>5, <1>6, <1>7, <1>8 DEF ProcStep, Step

\* Failures and crashes are only ever added up.
LEMMA CountersGrow ==
    ASSUME TypeOK, NEW p \in Procs, ProcStep(p)
    PROVE  faults <= faults' /\ crashes <= crashes'
<1> USE DEF TypeOK, Fault
<1>1. ASSUME TryWriteError(p) PROVE faults <= faults'
  BY <1>1 DEF TryWriteError
<1>2. CASE \E m \in MarkerIds : EnqueueLock(p, m) \/ LockMarker(p, m) \/ SkipContended(p, m)
  BY <1>2 DEF EnqueueLock, LockMarker, SkipContended
<1>3. CASE ListMarkers(p) \/ FinishBatch(p) \/ CondemnMarker(p) \/ CondemnUnreadable(p)
             \/ StartHandler(p) \/ HandlerReturns(p) \/ Crash(p)
  BY <1>3 DEF ListMarkers, FinishBatch, CondemnMarker, CondemnUnreadable, StartHandler,
              HandlerReturns, Crash
<1>4. CASE EnqueueWrite(p) \/ EnqueueFails(p) \/ LeaveInPlace(p) \/ CleanOldShape(p)
             \/ UnlinkHandled(p) \/ MoveToFailed(p)
  BY <1>4 DEF EnqueueWrite, EnqueueFails, LeaveInPlace, CleanOldShape, UnlinkHandled,
              MoveToFailed
<1>5. CASE RejectInvalid(p) \/ HandlerRaises(p)
  BY <1>1, <1>5 DEF RejectInvalid, HandlerRaises
<1>6. QED
  BY <1>2, <1>3, <1>4, <1>5 DEF ProcStep, Step

-----------------------------------------------------------------------------
(* The facts about the marker a process works on.                          *)

\* What p knows of its marker.
Knows(p) ==
    /\ pc[p] \in {"handling", "handled"} =>
          /\ pending[cur[p]] = mark[p]
          /\ mark[p].shape = "valid" /\ mark[p].attempts < MaxAttempts
    /\ pc[p] = "handled" => mark[p].gen \in done[cur[p]]
    /\ pc[p] = "moving" => pending[cur[p]].shape # "absent"

\* What each process knows of its marker is HandledIsCurrent and the like.
LEMMA KnowsAll ==
    (HandledIsCurrent /\ MarkIsFresh /\ HandledIsDone /\ MovingIsPresent)
    <=> \A p \in Procs : Knows(p)
  BY DEF HandledIsCurrent, MarkIsFresh, HandledIsDone, MovingIsPresent, Knows

\* Counting an attempt leaves p on its marker or sends it on.
LEMMA TryWriteErrorKnows ==
    ASSUME TypeOK, NEW p \in Procs, cur[p] \in MarkerIds, TryWriteError(p),
           pending[cur[p]].shape # "absent"
    PROVE  \/ pc'[p] = "next"
           \/ pc'[p] = "moving" /\ cur'[p] = cur[p] /\ pending'[cur[p]].shape # "absent"
<1>1. pending[cur[p]] \in Marker
  BY DEF TypeOK
<1>2. CASE /\ pending' = [pending EXCEPT ![cur[p]].attempts = pending[cur[p]].attempts + 1]
           /\ pc' = [pc EXCEPT ![p] = "moving"]
           /\ UNCHANGED <<lock, cur, mark>>
  BY <1>1, <1>2 DEF TypeOK, Marker
<1>3. CASE Release(p, "next")
  BY <1>3 DEF TypeOK, Release
<1>4. QED
  BY <1>2, <1>3 DEF TryWriteError

\* Every step of _process_single_marker keeps what p knows of its marker.
LEMMA KnowsStep ==
    ASSUME TypeOK, LockDiscipline, \A q \in Procs : Knows(q), NEW p \in Procs, ProcStep(p)
    PROVE  \A q \in Procs : Knows(q)'
<1>0. ASSUME NEW q \in Procs, pc[q] \in Holding PROVE cur[q] \in MarkerIds /\ lock[cur[q]] = q
  BY <1>0 DEF LockDiscipline
<1>1. ASSUME NEW q \in Procs, q # p PROVE Knows(q)'
  <2>1. pc'[q] = pc[q] /\ cur'[q] = cur[q] /\ mark'[q] = mark[q]
    BY <1>1, OthersStay
  <2>2. CASE pc[q] \in Holding
    <3>1. cur[q] \in MarkerIds /\ (pc[p] \in Holding => cur[p] # cur[q])
      BY <1>0, <1>1, <2>2
    <3>2. pending'[cur[q]] = pending[cur[q]] /\ done'[cur[q]] = done[cur[q]]
      BY <3>1, OnlyOwnMarker DEF Record
    <3>3. QED
      BY <2>1, <3>2 DEF Knows
  <2>3. CASE pc[q] \notin Holding
    BY <2>1, <2>3, HoldingPoints DEF Knows
  <2>4. QED
    BY <2>2, <2>3
<1>2. Knows(p)'
  <2> USE HoldingPoints
  <2>1. ASSUME pc'[p] \notin {"handling", "handled", "moving"} PROVE Knows(p)'
    BY <2>1 DEF Knows
  <2>2. CASE \E m \in MarkerIds : EnqueueLock(p, m) \/ LockMarker(p, m)
    BY <2>1, <2>2 DEF EnqueueLock, LockMarker, TypeOK
  <2>3. CASE \E m \in MarkerIds : SkipContended(p, m)
    BY <2>1, <2>3 DEF SkipContended
  <2>4. CASE ListMarkers(p) \/ FinishBatch(p) \/ Crash(p)
    BY <2>1, <2>4 DEF ListMarkers, FinishBatch, Crash, TypeOK
  <2>5. CASE EnqueueWrite(p) \/ EnqueueFails(p) \/ LeaveInPlace(p) \/ CleanOldShape(p)
               \/ UnlinkHandled(p) \/ MoveToFailed(p)
    BY <2>1, <2>5 DEF EnqueueWrite, EnqueueFails, LeaveInPlace, CleanOldShape, UnlinkHandled,
                      MoveToFailed, Release, TypeOK
  <2>6. CASE CondemnMarker(p) \/ CondemnUnreadable(p)
    BY <2>6 DEF CondemnMarker, CondemnUnreadable, Knows, TypeOK, files
  <2>7. CASE StartHandler(p)
    BY <2>7 DEF StartHandler, Knows, TypeOK, files
  <2>8. CASE HandlerReturns(p)
    BY <1>0, <2>8 DEF HandlerReturns, Knows, TypeOK, files
  <2>9. CASE RejectInvalid(p)
    BY <1>0, <2>9, TryWriteErrorKnows DEF RejectInvalid, Knows
  <2>10. CASE HandlerRaises(p)
    BY <1>0, <2>10, TryWriteErrorKnows DEF HandlerRaises, Knows
  <2>11. QED
    BY <2>2, <2>3, <2>4, <2>5, <2>6, <2>7, <2>8, <2>9, <2>10 DEF ProcStep, Step
<1>3. QED
  BY <1>1, <1>2

-----------------------------------------------------------------------------
(* No payload is lost.                                                     *)

\* The two facts about one marker.
Accounted(m) ==
    /\ lastGen[m] > 0 /\ pending[m].shape # "absent" =>
          pending[m].shape = "valid" /\ pending[m].gen = lastGen[m]
    /\ lastGen[m] > 0 =>
          \/ lastGen[m] \in done[m]
          \/ pending[m].shape = "valid" /\ pending[m].gen = lastGen[m]
          \/ failed[m].shape = "valid" /\ failed[m].gen = lastGen[m]

\* The accounting of each marker is NoSilentLoss for all of them.
LEMMA AccountedAll ==
    ASSUME TypeOK
    PROVE  PendingIsLatest /\ NoSilentLoss <=> \A m \in MarkerIds : Accounted(m)
<1>1. \A m \in MarkerIds : lastGen[m] \in Nat
  BY DEF TypeOK
<1>2. QED
  BY <1>1 DEF PendingIsLatest, NoSilentLoss, Accounted

\* Counting an attempt keeps shape and generation of the marker.
LEMMA TryWriteErrorKeeps ==
    ASSUME TypeOK, NEW p \in Procs, cur[p] \in MarkerIds, TryWriteError(p)
    PROVE  /\ pending'[cur[p]].shape = pending[cur[p]].shape
           /\ pending'[cur[p]].gen = pending[cur[p]].gen
           /\ \/ /\ pending'[cur[p]].attempts = pending[cur[p]].attempts + 1
                 /\ faults' = faults
              \/ /\ pending'[cur[p]].attempts = pending[cur[p]].attempts
                 /\ faults' = faults + 1
<1>1. pending[cur[p]] \in Marker
  BY DEF TypeOK
<1>2. CASE /\ pending' = [pending EXCEPT ![cur[p]].attempts = pending[cur[p]].attempts + 1]
           /\ UNCHANGED faults
  BY <1>1, <1>2 DEF TypeOK, Marker
<1>3. CASE Fault /\ UNCHANGED pending
  BY <1>3 DEF Fault
<1>4. QED
  BY <1>2, <1>3 DEF TryWriteError

\* Every step of enqueue and process_pending_work keeps a marker accounted
\* for.
LEMMA AccountedStep ==
    ASSUME TypeOK, LockDiscipline, \A q \in Procs : Knows(q),
           NEW p \in Procs, ProcStep(p), NEW m \in MarkerIds, Accounted(m)
    PROVE  Accounted(m)'
<1>1. CASE pc[p] \in Holding => cur[p] # m
  BY <1>1, OnlyOwnMarker DEF Record, Accounted
<1>2. CASE pc[p] \in Holding /\ cur[p] = m
  <2> USE <1>2, HoldingPoints DEF TypeOK, Accounted, files, history
  <2>0. lastGen[m] \in Nat /\ Knows(p) /\ pending[m] \in Marker
    OBVIOUS
  <2>1. CASE \E n \in MarkerIds : EnqueueLock(p, n) \/ LockMarker(p, n) \/ SkipContended(p, n)
    BY <2>1 DEF EnqueueLock, LockMarker, SkipContended
  <2>2. CASE ListMarkers(p) \/ FinishBatch(p) \/ CondemnMarker(p) \/ CondemnUnreadable(p)
               \/ StartHandler(p) \/ Crash(p) \/ EnqueueFails(p) \/ LeaveInPlace(p)
    BY <2>2 DEF ListMarkers, FinishBatch, CondemnMarker, CondemnUnreadable, StartHandler,
                Crash, EnqueueFails, LeaveInPlace
  <2>3. CASE EnqueueWrite(p)
    BY <2>0, <2>3 DEF EnqueueWrite
  <2>4. CASE CleanOldShape(p)
    BY <2>4 DEF CleanOldShape, NoFile
  <2>5. CASE UnlinkHandled(p)
    BY <2>0, <2>5 DEF UnlinkHandled, Knows, NoFile
  <2>6. CASE MoveToFailed(p)
    BY <2>0, <2>6 DEF MoveToFailed, Knows, NoFile
  <2>7. CASE HandlerReturns(p)
    BY <2>7 DEF HandlerReturns
  <2>8. CASE RejectInvalid(p) \/ HandlerRaises(p)
    BY <2>8, TryWriteErrorKeeps DEF RejectInvalid, HandlerRaises
  <2>9. QED
    BY <2>1, <2>2, <2>3, <2>4, <2>5, <2>6, <2>7, <2>8 DEF ProcStep, Step
<1>3. QED
  BY <1>1, <1>2

-----------------------------------------------------------------------------
(* Poison markers.                                                         *)

Poison(m) ==
    /\ raises[m] <= MaxAttempts + faults
    /\ pending[m].shape = "valid" => raises[m] <= pending[m].attempts + faults

\* Every step keeps the bound on handler exceptions: attempt_count follows
\* them, up to the failed writes of _try_write_error.
LEMMA PoisonStep ==
    ASSUME TypeOK, LockDiscipline, \A q \in Procs : Knows(q),
           NEW p \in Procs, ProcStep(p), NEW m \in MarkerIds, Poison(m)
    PROVE  Poison(m)'
<1>0. /\ raises[m] \in Nat /\ pending[m].attempts \in Nat /\ MaxAttempts \in Nat
      /\ faults \in Nat /\ faults' \in Nat /\ faults <= faults'
  BY WorkQueueAssumption, TypeStep, CountersGrow DEF TypeOK, Marker, ProcStep, Next
<1>1. CASE pc[p] \in Holding => cur[p] # m
  <2>1. raises'[m] = raises[m] /\ pending'[m] = pending[m]
    BY <1>1, OnlyOwnMarker DEF Record
  <2>2. QED
    BY <1>0, <2>1 DEF Poison
<1>2. CASE pc[p] \in Holding /\ cur[p] = m
  <2>0. Knows(p)
    OBVIOUS
  <2> USE <1>0, <1>2, HoldingPoints DEF TypeOK, Poison, files, history
  <2>1. CASE \E n \in MarkerIds : EnqueueLock(p, n) \/ LockMarker(p, n) \/ SkipContended(p, n)
    BY <2>1 DEF EnqueueLock, LockMarker, SkipContended
  <2>2. CASE ListMarkers(p) \/ FinishBatch(p) \/ CondemnMarker(p) \/ CondemnUnreadable(p)
               \/ StartHandler(p) \/ Crash(p) \/ EnqueueFails(p) \/ LeaveInPlace(p)
               \/ HandlerReturns(p)
    BY <2>2 DEF ListMarkers, FinishBatch, CondemnMarker, CondemnUnreadable, StartHandler,
                Crash, EnqueueFails, LeaveInPlace, HandlerReturns
  <2>3. CASE EnqueueWrite(p)
    BY <2>3 DEF EnqueueWrite
  <2>4. CASE CleanOldShape(p) \/ UnlinkHandled(p) \/ MoveToFailed(p)
    BY <2>4 DEF CleanOldShape, UnlinkHandled, MoveToFailed, NoFile
  <2>5. CASE RejectInvalid(p)
    <3>1. raises'[m] = raises[m] /\ pending'[m].shape = "invalid"
      BY <2>5, TryWriteErrorKeeps DEF RejectInvalid
    <3>2. QED
      BY <3>1
  <2>6. CASE HandlerRaises(p)
    <3>1. raises'[m] = raises[m] + 1
      BY <2>6 DEF HandlerRaises
    <3>2. pending[m].shape = "valid" /\ pending[m].attempts < MaxAttempts
      BY <2>0, <2>6 DEF HandlerRaises, Knows
    <3>3. \/ pending'[m].attempts = pending[m].attempts + 1 /\ faults' = faults
          \/ pending'[m].attempts = pending[m].attempts /\ faults' = faults + 1
      BY <2>6, TryWriteErrorKeeps DEF HandlerRaises
    <3>4. QED
      BY <3>1, <3>2, <3>3
  <2>7. QED
    BY <2>1, <2>2, <2>3, <2>4, <2>5, <2>6 DEF ProcStep, Step
<1>3. QED
  BY <1>1, <1>2

-----------------------------------------------------------------------------
(* Exactly once, crashes and failures apart.                               *)

BeingUnlinked(m) == \E q \in Procs : pc[q] = "handled" /\ cur[q] = m

Once(m) ==
    /\ runs[m] <= 1 + crashes + faults
    /\ pending[m].shape = "valid" /\ ~BeingUnlinked(m) => runs[m] <= crashes + faults

\* Every step keeps the bound on handler returns: the unlink follows each one,
\* up to crashes and failed unlinks.
LEMMA OnceStep ==
    ASSUME TypeOK, LockDiscipline, \A q \in Procs : Knows(q),
           NEW p \in Procs, ProcStep(p), NEW m \in MarkerIds, Once(m)
    PROVE  Once(m)'
<1>0. /\ runs[m] \in Nat /\ faults \in Nat /\ faults' \in Nat /\ faults <= faults'
      /\ crashes \in Nat /\ crashes' \in Nat /\ crashes <= crashes'
  BY TypeStep, CountersGrow DEF TypeOK, ProcStep, Next
<1>1. CASE pc[p] \in Holding => cur[p] # m
  <2>1. runs'[m] = runs[m] /\ pending'[m] = pending[m]
    BY <1>1, OnlyOwnMarker DEF Record
  <2>2. BeingUnlinked(m) => BeingUnlinked(m)'
    BY <1>1, OthersStay, HoldingPoints DEF BeingUnlinked
  <2>3. QED
    BY <1>0, <2>1, <2>2 DEF Once
<1>2. CASE pc[p] \in Holding /\ cur[p] = m
  <2>0. Knows(p)
    OBVIOUS
  \* Nobody but p can be about to unlink m.
  <2>a. BeingUnlinked(m) => pc[p] = "handled"
    BY <1>2, HoldingPoints DEF BeingUnlinked, LockDiscipline
  <2> USE <1>0, <1>2, <2>a, HoldingPoints DEF TypeOK, Once, files, history
  <2>1. CASE \E n \in MarkerIds : EnqueueLock(p, n) \/ LockMarker(p, n) \/ SkipContended(p, n)
    BY <2>1 DEF EnqueueLock, LockMarker, SkipContended
  <2>2. CASE ListMarkers(p) \/ FinishBatch(p) \/ CondemnMarker(p) \/ CondemnUnreadable(p)
               \/ StartHandler(p) \/ EnqueueFails(p) \/ LeaveInPlace(p)
    BY <2>2 DEF ListMarkers, FinishBatch, CondemnMarker, CondemnUnreadable, StartHandler,
                EnqueueFails, LeaveInPlace
  <2>3. CASE EnqueueWrite(p)
    BY <2>3 DEF EnqueueWrite
  <2>4. CASE CleanOldShape(p) \/ MoveToFailed(p)
    BY <2>4 DEF CleanOldShape, MoveToFailed, NoFile
  <2>5. CASE UnlinkHandled(p)
    BY <2>5 DEF UnlinkHandled, Fault, NoFile
  <2>6. CASE HandlerReturns(p)
    <3>1. BeingUnlinked(m)'
      BY <2>6 DEF HandlerReturns, BeingUnlinked
    <3>2. pending[m].shape = "valid" /\ runs'[m] = runs[m] + 1
      BY <2>0, <2>6 DEF HandlerReturns, Knows
    <3>3. runs[m] <= crashes + faults
      BY <3>2, <2>6 DEF HandlerReturns
    <3>4. QED
      BY <3>1, <3>2, <3>3
  <2>7. CASE RejectInvalid(p) \/ HandlerRaises(p)
    <3>1. runs'[m] = runs[m] /\ pending'[m].shape = pending[m].shape
      BY <2>7, TryWriteErrorKeeps DEF RejectInvalid, HandlerRaises
    <3>2. pc[p] # "handled"
      BY <2>7 DEF RejectInvalid, HandlerRaises
    <3>3. QED
      BY <3>1, <3>2
  <2>8. CASE Crash(p)
    BY <2>8 DEF Crash
  <2>9. QED
    BY <2>1, <2>2, <2>3, <2>4, <2>5, <2>6, <2>7, <2>8 DEF ProcStep, Step
<1>3. QED
  BY <1>1, <1>2

-----------------------------------------------------------------------------
(* Giving up.                                                              *)

\* Whether m is given up is decided by the process that holds its lock.
LEMMA GivenUpByHolder ==
    ASSUME TypeOK, LockDiscipline, NEW p \in Procs, ProcStep(p), NEW m \in GivenUp',
           pc[p] \in Holding => cur[p] # m
    PROVE  m \in GivenUp
<1>1. m \in MarkerIds /\ pending'[m] = pending[m] /\ failed'[m] = failed[m]
  BY OnlyOwnMarker DEF GivenUp, Record
<1>2. CASE Early(failed[m])
  BY <1>1, <1>2 DEF GivenUp
<1>3. CASE Early(pending[m]) /\ \E q \in Procs : pc'[q] = "moving" /\ cur'[q] = m
  <2>1. PICK q \in Procs : pc'[q] = "moving" /\ cur'[q] = m
    BY <1>3
  <2>2. q # p
    <3>1. ASSUME q = p PROVE FALSE
      <4> USE <3>1, <2>1, HoldingPoints DEF TypeOK
      <4>1. ASSUME TryWriteError(p), pc[p] \in Holding PROVE FALSE
        BY <4>1 DEF TryWriteError, Release
      <4>2. CASE \E n \in MarkerIds : EnqueueLock(p, n) \/ LockMarker(p, n) \/ SkipContended(p, n)
        BY <4>2 DEF EnqueueLock, LockMarker, SkipContended
      <4>3. CASE ListMarkers(p) \/ FinishBatch(p) \/ CondemnMarker(p) \/ CondemnUnreadable(p)
                   \/ StartHandler(p) \/ HandlerReturns(p) \/ Crash(p)
        BY <4>3 DEF ListMarkers, FinishBatch, CondemnMarker, CondemnUnreadable, StartHandler,
                    HandlerReturns, Crash
      <4>4. CASE EnqueueWrite(p) \/ EnqueueFails(p) \/ LeaveInPlace(p) \/ CleanOldShape(p)
                   \/ UnlinkHandled(p) \/ MoveToFailed(p)
        BY <4>4 DEF EnqueueWrite, EnqueueFails, LeaveInPlace, CleanOldShape, UnlinkHandled,
                    MoveToFailed, Release
      <4>5. CASE RejectInvalid(p) \/ HandlerRaises(p)
        BY <4>1, <4>5 DEF RejectInvalid, HandlerRaises
      <4>6. QED
        BY <4>2, <4>3, <4>4, <4>5 DEF ProcStep, Step
    <3>2. QED
      BY <3>1
  <2>3. pc[q] = "moving" /\ cur[q] = m
    BY <2>1, <2>2, OthersStay
  <2>4. QED
    BY <1>1, <1>3, <2>3 DEF GivenUp
<1>4. QED
  BY <1>1, <1>2, <1>3 DEF GivenUp

\* Only a read that fails gives up a marker with attempts left.
LEMMA GivenUpGrows ==
    ASSUME TypeOK, LockDiscipline, \A q \in Procs : Knows(q), NEW p \in Procs, ProcStep(p)
    PROVE  \/ GivenUp' \subseteq GivenUp
           \/ GivenUp' \subseteq GivenUp \cup {cur[p]} /\ faults' = faults + 1
<1>1. CASE pc[p] \notin Holding
  BY <1>1, GivenUpByHolder
<1> DEFINE m == cur[p]
<1>2. CASE pc[p] \in Holding
  <2>0. /\ m \in MarkerIds /\ lock[m] = p /\ Knows(p)
        /\ \A q \in Procs : pc[q] = "moving" /\ cur[q] = m => q = p
        /\ pending[m] \in Marker
    BY <1>2, HoldingPoints DEF LockDiscipline, TypeOK
  <2>1. \A x \in GivenUp' : x # m => x \in GivenUp
    BY GivenUpByHolder
  <2>2. CASE faults' = faults + 1
    BY <2>1, <2>2
  <2>3. ASSUME m \in GivenUp', faults' # faults + 1 PROVE m \in GivenUp
    <3>1. \A q \in Procs : pc'[q] = "moving" /\ cur'[q] = m => q = p
      BY <2>0, OthersStay
    <3>2. Early(failed'[m]) \/ (pc'[p] = "moving" /\ cur'[p] = m /\ Early(pending'[m]))
      BY <2>3, <3>1 DEF GivenUp
    <3>3. CASE Early(failed[m])
      BY <2>0, <3>3 DEF GivenUp
    <3>4. CASE pc[p] = "moving" /\ Early(pending[m])
      BY <2>0, <3>4 DEF GivenUp
    <3> USE <1>2, <2>0, <3>2, HoldingPoints DEF TypeOK
    <3>5. CASE MoveToFailed(p)
      BY <2>3, <3>3, <3>4, <3>5 DEF MoveToFailed, Release, Fault
    <3>6. CASE CondemnMarker(p)
      BY <3>3, <3>6, WorkQueueAssumption DEF CondemnMarker, Early, files, Marker
    <3>7. CASE CondemnUnreadable(p)
      BY <2>3, <3>7 DEF CondemnUnreadable, Fault
    <3>8. CASE RejectInvalid(p)
      <4>1. failed' = failed /\ pending'[m].shape = "invalid"
        BY <3>8, TryWriteErrorKeeps DEF RejectInvalid
      <4>2. QED
        BY <3>3, <4>1 DEF Early
    <3>9. CASE HandlerRaises(p)
      <4>1. failed' = failed /\ TryWriteError(p)
        BY <3>9 DEF HandlerRaises
      <4>2. CASE pc'[p] = "moving"
        <5>1. pending[m].attempts + 1 >= MaxAttempts
          BY <3>9, <4>1, <4>2 DEF HandlerRaises, TryWriteError, Release
        <5>2. pending'[m].attempts = pending[m].attempts + 1
          BY <2>3, <4>1, TryWriteErrorKeeps
        <5>3. ~Early(pending'[m])
          BY <5>1, <5>2, WorkQueueAssumption DEF Early, Marker
        <5>4. QED
          BY <3>3, <4>1, <5>3
      <4>3. CASE pc'[p] # "moving"
        BY <3>3, <4>1, <4>3
      <4>4. QED
        BY <4>2, <4>3
    <3>10. CASE ListMarkers(p) \/ FinishBatch(p) \/ StartHandler(p) \/ HandlerReturns(p) \/ Crash(p)
      BY <3>3, <3>10 DEF ListMarkers, FinishBatch, StartHandler, HandlerReturns, Crash, files, history
    <3>11. CASE \E n \in MarkerIds : EnqueueLock(p, n) \/ LockMarker(p, n) \/ SkipContended(p, n)
      BY <3>3, <3>11 DEF EnqueueLock, LockMarker, SkipContended, files
    <3>12. CASE EnqueueWrite(p) \/ EnqueueFails(p) \/ LeaveInPlace(p) \/ CleanOldShape(p)
                  \/ UnlinkHandled(p)
      BY <3>3, <3>12 DEF EnqueueWrite, EnqueueFails, LeaveInPlace, CleanOldShape, UnlinkHandled,
                         Release, files
    <3>13. QED
      BY <3>5, <3>6, <3>7, <3>8, <3>9, <3>10, <3>11, <3>12 DEF ProcStep, Step
  <2>4. QED
    BY <2>1, <2>2, <2>3
<1>3. QED
  BY <1>1, <1>2

\* Every step keeps the price of giving up.
LEMMA EarlyStep ==
    ASSUME TypeOK, LockDiscipline, \A q \in Procs : Knows(q), NEW p \in Procs, ProcStep(p), EarlyCosts
    PROVE  EarlyCosts'
<1>0. faults \in Nat /\ faults' \in Nat /\ faults <= faults'
  BY TypeStep, CountersGrow DEF TypeOK, ProcStep, Next
<1>1. IsFiniteSet(GivenUp) /\ Cardinality(GivenUp) \in Nat /\ Cardinality(GivenUp) <= faults
  BY FS_CardinalityType DEF EarlyCosts
<1>2. CASE GivenUp' \subseteq GivenUp
  <2>1. IsFiniteSet(GivenUp') /\ Cardinality(GivenUp') <= Cardinality(GivenUp)
    BY <1>1, <1>2, FS_Subset
  <2>2. Cardinality(GivenUp') \in Nat
    BY <2>1, FS_CardinalityType
  <2>3. QED
    BY <1>0, <1>1, <2>1, <2>2 DEF EarlyCosts
<1>3. CASE GivenUp' \subseteq GivenUp \cup {cur[p]} /\ faults' = faults + 1
  <2> DEFINE more == GivenUp \cup {cur[p]}
  <2>1. IsFiniteSet(more) /\ Cardinality(more) <= Cardinality(GivenUp) + 1
    BY <1>1, FS_AddElement
  <2> HIDE DEF more
  <2>2. IsFiniteSet(GivenUp') /\ Cardinality(GivenUp') <= Cardinality(more)
    BY <1>3, <2>1, FS_Subset DEF more
  <2>3. Cardinality(GivenUp') \in Nat /\ Cardinality(more) \in Nat
    BY <2>1, <2>2, FS_CardinalityType
  <2>4. QED
    BY <1>0, <1>1, <1>3, <2>1, <2>2, <2>3 DEF EarlyCosts
<1>4. QED
  BY <1>2, <1>3, GivenUpGrows

-----------------------------------------------------------------------------
(* The theorems.                                                           *)

\* An empty queue, or one with files of another Forge version, satisfies the
\* inductive invariant.
LEMMA InitInv == Init => Inv
<1> SUFFICES ASSUME Init PROVE Inv
  OBVIOUS
<1> USE WorkQueueAssumption DEF Init, NoFile, NoMarker
<1>1. TypeOK
  <2>1. pending \in [MarkerIds -> Marker]
    BY DEF Marker
  <2>2. failed \in [MarkerIds -> Marker] /\ mark \in [Procs -> Marker]
    BY DEF Marker
  <2>3. QED
    BY <2>1, <2>2 DEF TypeOK, Holding
<1>2. LockDiscipline
  BY HoldingPoints DEF LockDiscipline
<1>3. \A p \in Procs : Knows(p)
  BY DEF Knows
<1>4. \A m \in MarkerIds : Accounted(m)
  BY DEF Accounted
<1>5. \A m \in MarkerIds : Poison(m) /\ Once(m)
  BY <1>1 DEF Poison, Once, TypeOK, Marker
<1>6. EarlyCosts
  <2>1. GivenUp = {}
    BY DEF GivenUp, Early
  <2>2. QED
    BY <2>1, FS_EmptySet DEF EarlyCosts
<1>7. QED
  BY <1>1, <1>2, <1>3, <1>4, <1>5, <1>6, KnowsAll, AccountedAll
     DEF Inv, Poison, Once, BeingUnlinked, RaisesAreCounted, PoisonBound, RunsAreExcused,
         ExactlyOnceIsh

\* The same invariant, marker by marker and process by process.
LEMMA InvByParts ==
    Inv <=> /\ TypeOK /\ LockDiscipline
            /\ \A p \in Procs : Knows(p)
            /\ \A m \in MarkerIds : Accounted(m) /\ Poison(m) /\ Once(m)
            /\ EarlyCosts
  BY KnowsAll, AccountedAll
     DEF Inv, Poison, Once, BeingUnlinked, RaisesAreCounted, PoisonBound, RunsAreExcused,
         ExactlyOnceIsh

\* Every step of the queue keeps the inductive invariant.
LEMMA InvStep == Inv /\ [Next]_vars => Inv'
<1> SUFFICES ASSUME Inv, [Next]_vars PROVE Inv'
  OBVIOUS
<1>1. TypeOK' /\ LockDiscipline'
  BY TypeStep, LockStep DEF Inv
<1>2. CASE UNCHANGED vars
  BY <1>2 DEF vars, Inv, TypeOK, LockDiscipline, HandledIsCurrent, MarkIsFresh, HandledIsDone,
       MovingIsPresent, PendingIsLatest, NoSilentLoss, RaisesAreCounted, PoisonBound,
       RunsAreExcused, ExactlyOnceIsh, EarlyCosts, GivenUp
<1>3. CASE Next
  <2>1. PICK p \in Procs : ProcStep(p)
    BY <1>3 DEF Next, ProcStep
  <2>2. \A q \in Procs : Knows(q)'
    BY <2>1, InvByParts, KnowsStep
  <2>3. \A m \in MarkerIds : Accounted(m)' /\ Poison(m)' /\ Once(m)'
    BY <2>1, InvByParts, AccountedStep, PoisonStep, OnceStep
  <2>4. HandledIsCurrent' /\ MarkIsFresh' /\ HandledIsDone' /\ MovingIsPresent'
    BY <2>2 DEF Knows, HandledIsCurrent, MarkIsFresh, HandledIsDone, MovingIsPresent
  <2>5. \A m \in MarkerIds : lastGen'[m] \in Nat
    BY <1>1 DEF TypeOK
  <2>6. PendingIsLatest' /\ NoSilentLoss'
    BY <2>3, <2>5 DEF Accounted, PendingIsLatest, NoSilentLoss
  <2>7. RaisesAreCounted' /\ PoisonBound'
    BY <2>3 DEF Poison, RaisesAreCounted, PoisonBound
  <2>8. RunsAreExcused' /\ ExactlyOnceIsh'
    BY <2>3 DEF Once, BeingUnlinked, RunsAreExcused, ExactlyOnceIsh
  <2>9. EarlyCosts'
    BY <2>1, InvByParts, EarlyStep
  <2>10. QED
    BY <1>1, <2>4, <2>6, <2>7, <2>8, <2>9 DEF Inv
<1>4. QED
  BY <1>2, <1>3

\* The inductive invariant holds in every reachable state.
THEOREM Invariance == Spec => []Inv
  BY InitInv, InvStep, PTL DEF Spec

\* The queue's variables keep their shape.
THEOREM TypeCorrect == Spec => []TypeOK
  BY Invariance, PTL DEF Inv

\* Two start-ups never work on one marker: whoever is inside the with-block of
\* a marker's lock holds it, and nobody else holds any lock.
THEOREM MutualExclusion == Spec => []LockDiscipline
  BY Invariance, PTL DEF Inv

\* A processor unlinks the very file it handed to the handler: no concurrent
\* enqueue is deleted unseen.
THEOREM HandledStaysCurrent == Spec => []HandledIsCurrent
  BY Invariance, PTL DEF Inv

\* Whatever fails and whoever dies, the payload of an enqueue that returned a
\* path is handled, pending, in failed/, or replaced by a later enqueue.
THEOREM NothingIsLost == Spec => []NoSilentLoss
  BY Invariance, PTL DEF Inv

\* A poison marker is handled at most MAX_ATTEMPTS times per enqueue, plus once
\* per failed file operation.
THEOREM PoisonIsBounded == Spec => []PoisonBound
  BY Invariance, PTL DEF Inv

\* "Exactly-once-ish": a payload is handled again only after a crash or a
\* failed file operation.
THEOREM HandledOnce == Spec => []ExactlyOnceIsh
  BY Invariance, PTL DEF Inv

\* A well-formed marker goes to failed/ before its attempts are used up only when
\* it could not be read, and no two of them share one failed read.
THEOREM OnlyPoisonGoes == Spec => []OnlyPoisonFails
<1>1. Inv => OnlyPoisonFails
  <2> SUFFICES ASSUME Inv PROVE OnlyPoisonFails
    OBVIOUS
  <2> DEFINE gone == {m \in MarkerIds : failed[m].shape = "valid" /\ failed[m].attempts < MaxAttempts}
  <2>1. gone \subseteq GivenUp
    BY DEF GivenUp, Early
  <2>2. IsFiniteSet(GivenUp) /\ Cardinality(GivenUp) <= faults /\ faults \in Nat
    BY DEF Inv, EarlyCosts, TypeOK
  <2> HIDE DEF gone
  <2>3. IsFiniteSet(gone) /\ Cardinality(gone) <= Cardinality(GivenUp)
    BY <2>1, <2>2, FS_Subset
  <2>4. Cardinality(gone) \in Nat /\ Cardinality(GivenUp) \in Nat
    BY <2>2, <2>3, FS_CardinalityType
  <2>5. Cardinality(gone) <= faults
    BY <2>2, <2>3, <2>4
  <2>6. QED
    BY <2>5 DEF OnlyPoisonFails, gone
<1>2. QED
  BY <1>1, Invariance, PTL

-----------------------------------------------------------------------------
(***************************************************************************)
(* The elements of a list that are kept, in their order.                   *)
(***************************************************************************)

Rank(places, i) == Cardinality({j \in places : j <= i})

\* The rank of a place among finitely many is at most their number, and tells them apart.
LEMMA RanksDiffer ==
  ASSUME NEW places, IsFiniteSet(places), places \subseteq Nat
  PROVE  /\ \A i \in places : Rank(places, i) \in 1 .. Cardinality(places)
         /\ \A i, j \in places : i < j => Rank(places, i) < Rank(places, j)
<1>1. ASSUME NEW i \in places
      PROVE  /\ IsFiniteSet({k \in places : k <= i}) /\ Rank(places, i) \in Nat
             /\ Rank(places, i) \in 1 .. Cardinality(places)
  <2>1. PICK K : K = {k \in places : k <= i}
    OBVIOUS
  <2>2. K \subseteq places /\ i \in K
    BY <2>1
  <2>3. IsFiniteSet(K) /\ Cardinality(K) <= Cardinality(places) /\ Cardinality(K) # 0
        /\ Cardinality(K) \in Nat /\ Cardinality(places) \in Nat
    BY <2>2, FS_Subset, FS_CardinalityType, FS_EmptySet
  <2>4. QED
    BY <2>1, <2>3 DEF Rank
<1>2. ASSUME NEW i \in places, NEW j \in places, i < j PROVE Rank(places, i) < Rank(places, j)
  <2>1. PICK K, L : K = {k \in places : k <= i} /\ L = {k \in places : k <= j}
    OBVIOUS
  <2>2. j \notin K /\ K \cup {j} \subseteq L
    <3>1. i \in Nat /\ j \in Nat /\ j <= j
      OBVIOUS
    <3>2. \A k \in places : k \in Nat /\ (k <= i => k <= j)
      BY <1>2, <3>1
    <3>3. \A k \in K : k \in L
      BY <2>1, <3>2
    <3>4. ~(j <= i)
      BY <1>2, <3>1
    <3>5. QED
      BY <2>1, <3>1, <3>3, <3>4
  <2>3. IsFiniteSet(K) /\ IsFiniteSet(L)
    BY <1>1, <2>1
  <2>4. Cardinality(K \cup {j}) = Cardinality(K) + 1 /\ Cardinality(K \cup {j}) <= Cardinality(L)
    BY <2>2, <2>3, FS_AddElement, FS_Subset
  <2>5. QED
    BY <2>1, <2>3, <2>4, FS_CardinalityType DEF Rank
<1>3. QED
  BY <1>1, <1>2

\* A list of kept elements: one for each place, and of two the one of the earlier place first.
LEMMA SelectedIs ==
  ASSUME NEW S, NEW s \in Seq(S), NEW places \in SUBSET DOMAIN s
  PROVE  /\ Selected(s, places) \in Seq(S)
         /\ Len(Selected(s, places)) = Cardinality(places) /\ Cardinality(places) \in Nat
         /\ \E at \in [1 .. Cardinality(places) -> places] :
               /\ \A n \in 1 .. Cardinality(places) : Selected(s, places)[n] = s[at[n]]
               /\ \A i \in places : \E n \in 1 .. Cardinality(places) : at[n] = i
               /\ \A m, n \in 1 .. Cardinality(places) : m # n => at[m] # at[n]
<1>1. IsFiniteSet(places) /\ places \subseteq Nat /\ Cardinality(places) \in Nat
  <2>1. DOMAIN s = 1 .. Len(s) /\ Len(s) \in Nat /\ IsFiniteSet(1 .. Len(s))
    BY FS_Interval
  <2>2. QED
    BY <2>1, FS_Subset, FS_CardinalityType
<1> DEFINE C == Cardinality(places)
           rank == [i \in places |-> Rank(places, i)]
           at == [n \in 1 .. C |-> CHOOSE i \in places : Rank(places, i) = n]
<1>2. rank \in Injection(places, 1 .. C)
  <2>1. rank \in [places -> 1 .. C]
    BY <1>1, RanksDiffer
  <2>2. ASSUME NEW i \in places, NEW j \in places, rank[i] = rank[j] PROVE i = j
    <3>1. Rank(places, i) = Rank(places, j) /\ i \in Nat /\ j \in Nat
      BY <1>1, <2>2
    <3>2. Rank(places, i) \in Nat /\ Rank(places, j) \in Nat
      BY <1>1, RanksDiffer
    <3>3. ~(i < j) /\ ~(j < i)
      BY <1>1, <3>1, <3>2, RanksDiffer
    <3>4. QED
      BY <3>1, <3>3
  <2>3. QED
    BY <2>1, <2>2 DEF Injection, IsInjective
<1>3. rank \in Surjection(places, 1 .. C)
  <2>1. IsFiniteSet(1 .. C) /\ Cardinality(1 .. C) = C
    BY <1>1, FS_Interval
  <2>2. QED
    BY <1>1, <1>2, <2>1, FS_Injection
<1>4. ASSUME NEW n \in 1 .. C PROVE at[n] \in places /\ Rank(places, at[n]) = n
  <2>1. \E i \in places : Rank(places, i) = n
    BY <1>3 DEF Surjection
  <2>2. QED
    BY <2>1
<1>5. Selected(s, places) = [n \in 1 .. C |-> s[at[n]]]
  BY DEF Selected, Rank
<1>6. at \in [1 .. C -> places]
  BY <1>4
<1>7. ASSUME NEW i \in places PROVE Rank(places, i) \in 1 .. C /\ at[Rank(places, i)] = i
  <2>1. PICK n : n = Rank(places, i) /\ n \in 1 .. C
    BY <1>1, RanksDiffer
  <2>2. PICK j \in places : j = at[n] /\ Rank(places, j) = n
    BY <1>4, <2>1
  <2>3. rank[i] = rank[j]
    BY <2>1, <2>2
  <2>4. i = j
    BY <1>2, <2>3 DEF Injection, IsInjective
  <2>5. QED
    BY <2>1, <2>2, <2>4
<1> HIDE DEF at, rank
<1>8. \A n \in 1 .. C : s[at[n]] \in S
  BY <1>6
<1>9. Selected(s, places) \in Seq(S) /\ Len(Selected(s, places)) = C
  <2>1. PICK o : o = Selected(s, places)
    OBVIOUS
  <2>2. o \in [1 .. C -> S] /\ C \in Nat
    BY <1>1, <1>5, <1>8, <2>1
  <2>3. o \in Seq(S)
    BY <2>2
  <2>4. Len(o) = C
    BY <2>2, <2>3
  <2>5. QED
    BY <2>1, <2>3, <2>4
<1>10. \A m, n \in 1 .. C : m # n => at[m] # at[n]
  BY <1>4
<1>11. QED
  BY <1>1, <1>5, <1>6, <1>7, <1>9, <1>10

\* Where the elements that are kept come from.
Keeps(at, o, s, places) ==
    /\ at \in [1 .. Cardinality(places) -> places]
    /\ \A n \in 1 .. Cardinality(places) : o[n] = s[at[n]]
    /\ \A i \in places : \E n \in 1 .. Cardinality(places) : at[n] = i
    /\ \A m, n \in 1 .. Cardinality(places) : m # n => at[m] # at[n]

LEMMA SelectedKeeps ==
  ASSUME NEW S, NEW s \in Seq(S), NEW places \in SUBSET DOMAIN s
  PROVE  \E at : Keeps(at, Selected(s, places), s, places)
<1>1. PICK at \in [1 .. Cardinality(places) -> places] :
         /\ \A n \in 1 .. Cardinality(places) : Selected(s, places)[n] = s[at[n]]
         /\ \A i \in places : \E n \in 1 .. Cardinality(places) : at[n] = i
         /\ \A m, n \in 1 .. Cardinality(places) : m # n => at[m] # at[n]
  BY SelectedIs
<1>2. Keeps(at, Selected(s, places), s, places)
  BY <1>1 DEF Keeps
<1>3. QED
  BY <1>2

-----------------------------------------------------------------------------
(***************************************************************************)
(* SessionHooks, for any Claudes, conversations, plans and bounds.         *)
(*                                                                         *)
(* What a hook remembers at each place stays true while others move, for   *)
(* copies, snapshots and a bypass only come (Remembered).  A stop is only  *)
(* blocked by a count read before; once the manifest counts the maximum    *)
(* no new check begins with less, so that each Claude that is checking can *)
(* block once more, and not the one that reached the maximum (Room).       *)
(***************************************************************************)

Judging == {"stop", "verify", "check"}
Places == Judging \cup {"idle", "capture", "captured", "approve", "enqueue", "failure"}
Memory == [seen : Manifest, uuid : Opt(Uuids), bypassed : BOOLEAN, plan : Opt(Plans)]

HookTypes ==
    /\ claude \in [Claudes -> Opt(Uuids)] /\ transcript \in [Uuids -> 0..MaxTurns] /\ planFile \in Opt(Plans)
    /\ manifest \in Manifest /\ artifact \in [Uuids -> Opt(0..MaxTurns)] /\ snapshots \in SUBSET Plans
    /\ run = [wants |-> run.wants, got |-> run.got] /\ run.wants \in Opt(Uuids)
    /\ queued \in SUBSET [kind : MarkerKinds, uuid : Uuids]
    /\ hookPc \in [Claudes -> Places] /\ hook \in [Claudes -> Memory]
    /\ blocked \in Nat /\ uncounted \in Nat /\ left \in SUBSET Uuids
    /\ hookEvents \in 0..MaxEvents /\ hookFaults \in 0..MaxHookFaults

Remembers(c) ==
    /\ hookPc[c] \in Places \ {"idle", "approve"} => hook[c].uuid \in Uuids
    /\ hookPc[c] \in Judging \cup {"enqueue"} => artifact[hook[c].uuid] # None
    /\ hookPc[c] = "approve" => hook[c].plan \in snapshots
    /\ hookPc[c] \in Judging /\ hook[c].bypassed => hook[c].seen.bypass /\ manifest.bypass
Remembered == \A c \in Claudes : Remembers(c)

\* The Claudes whose stop may still be blocked, by what they have read.
Blockers == {c \in Claudes : hookPc[c] \in Judging /\ ~Exhausted(hook[c].seen)}
Room ==
    manifest.iterations >= MaxIterations =>
        manifest.iterations - MaxIterations + 1 + Cardinality(Blockers) <= Cardinality(Claudes)

HooksInv == HookTypes /\ Remembered /\ CapturesAreKept /\ BlocksAreCounted /\ Room

LEMMA ClaudesAreFinite ==
  /\ Cardinality(Claudes) \in Nat /\ Cardinality(Claudes) >= 1
  /\ IsFiniteSet(Blockers) /\ Cardinality(Blockers) \in Nat
<1>1. Blockers \subseteq Claudes /\ IsFiniteSet(Claudes) /\ Claudes # {}
  BY SessionHooksAssumption DEF Blockers
<1>2. IsFiniteSet(Blockers) /\ Cardinality(Claudes) \in Nat /\ Cardinality(Blockers) \in Nat /\ Cardinality(Claudes) # 0
  BY <1>1, FS_Subset, FS_CardinalityType, FS_EmptySet
<1>3. QED
  BY <1>2

LEMMA HooksInitInv == ASSUME HooksInit PROVE HooksInv
<1>1. /\ claude = [c \in Claudes |-> None] /\ transcript = [u \in Uuids |-> 0] /\ planFile = None
      /\ manifest = NoManifest /\ artifact = [u \in Uuids |-> None] /\ snapshots = {}
      /\ run = [wants |-> None, got |-> None] /\ queued = {}
      /\ hookPc = [c \in Claudes |-> "idle"] /\ hook = [c \in Claudes |-> NoHook]
      /\ blocked = 0 /\ uncounted = 0 /\ left = {} /\ hookEvents = 0 /\ hookFaults = 0
  BY DEF HooksInit
<1>2. NoManifest \in Manifest /\ NoManifest.iterations = 0 /\ NoManifest.plans = <<>>
  BY EmptySeq DEF NoManifest, Manifest, Opt
<1>3. NoHook \in Memory
  BY <1>2 DEF NoHook, Memory, Opt
<1>4. HookTypes
  <2>1. MaxTurns \in Nat /\ MaxEvents \in Nat /\ MaxHookFaults \in Nat
    BY SessionHooksAssumption
  <2>2. 0 \in 0..MaxTurns /\ 0 \in 0..MaxEvents /\ 0 \in 0..MaxHookFaults
    BY <2>1
  <2>3. QED
    BY <1>1, <1>2, <1>3, <2>2 DEF HookTypes, Opt, Places
<1>5. Remembered
  BY <1>1 DEF Remembered, Remembers, Judging
<1>6. CapturesAreKept
  BY <1>1, <1>2 DEF CapturesAreKept, MarkersHaveTranscripts, WhatWasLeftIsCaptured, ApprovedPlansAreKept
<1>7. BlocksAreCounted
  BY <1>1, <1>2 DEF BlocksAreCounted
<1>8. Room
  <2>1. Blockers = {}
    BY <1>1 DEF Blockers, Judging
  <2>2. MaxIterations \in Nat /\ Cardinality(Blockers) = 0
    BY <2>1, SessionHooksAssumption, FS_EmptySet
  <2>3. QED
    BY <1>1, <1>2, <2>2, ClaudesAreFinite DEF Room
<1>9. QED
  BY <1>4, <1>5, <1>6, <1>7, <1>8 DEF HooksInv

\* The others stay where they are, with what they remember.
OtherHooksStay(c) == \A d \in Claudes \ {c} : hookPc'[d] = hookPc[d] /\ hook'[d] = hook[d]

\* Copies, snapshots and a bypass only come.
Gains ==
    /\ \A u \in Uuids : artifact[u] # None => artifact'[u] # None
    /\ snapshots \subseteq snapshots' /\ (manifest.bypass => manifest'.bypass)

\* What a step of Claude c adds is right.
Adds(c) ==
    /\ \A m \in queued' \ queued : artifact'[m.uuid] # None
    /\ \A u \in left' \ left : hookPc'[c] = "capture" /\ hook'[c].uuid = u
    /\ hookPc[c] = "capture" =>
          \/ (hookPc'[c] = "capture" /\ hook'[c] = hook[c])
          \/ artifact'[hook[c].uuid] # None \/ hook[c].uuid \notin left'

\* The count of blocked stops is that of the manifest, and no check begins with an older one.
Counts(c) ==
    /\ manifest'.iterations = manifest.iterations /\ UNCHANGED <<blocked, uncounted>>
    /\ hookPc'[c] \in Judging =>
          \/ hook'[c].seen = manifest
          \/ (hookPc[c] \in Judging /\ hook'[c].seen = hook[c].seen)

\* What follows for the invariant, whatever the step.
LEMMA StepRemembers ==
  ASSUME HooksInv, HookTypes', NEW c \in Claudes, OtherHooksStay(c), Gains, Remembers(c)' PROVE Remembered'
<1>1. ASSUME NEW d \in Claudes, d # c PROVE Remembers(d)'
  <2>1. hookPc'[d] = hookPc[d] /\ hook'[d] = hook[d] /\ Remembers(d)
    BY <1>1 DEF OtherHooksStay, HooksInv, Remembered
  <2>2. hookPc[d] \in Judging \cup {"enqueue"} => hook[d].uuid \in Uuids
    BY <2>1 DEF Remembers, Judging, Places
  <2>3. QED
    BY <2>1, <2>2 DEF Remembers, Gains
<1>2. QED
  BY <1>1 DEF Remembered

LEMMA StepCaptures ==
  ASSUME HooksInv, HookTypes', NEW c \in Claudes, OtherHooksStay(c), Gains, Adds(c), ApprovedPlansAreKept'
  PROVE  CapturesAreKept'
<1>1. HookTypes /\ MarkersHaveTranscripts /\ WhatWasLeftIsCaptured
  BY DEF HooksInv, CapturesAreKept
<1>2. MarkersHaveTranscripts'
  <2>1. ASSUME NEW m \in queued' PROVE artifact'[m.uuid] # None
    <3>1. m \in queued => m.uuid \in Uuids
      BY <1>1 DEF HookTypes
    <3>2. QED
      BY <1>1, <2>1, <3>1 DEF MarkersHaveTranscripts, Adds, Gains
  <2>2. QED
    BY <2>1 DEF MarkersHaveTranscripts
<1>3. WhatWasLeftIsCaptured'
  <2>1. ASSUME NEW u \in left'
        PROVE  artifact'[u] # None \/ \E d \in Claudes : hookPc'[d] = "capture" /\ hook'[d].uuid = u
    <3>1. u \in Uuids
      BY <2>1 DEF HookTypes
    <3>2. CASE u \notin left
      BY <2>1, <3>2 DEF Adds
    <3>3. CASE u \in left /\ artifact[u] # None
      BY <3>1, <3>3 DEF Gains
    <3>4. CASE u \in left /\ artifact[u] = None
      <4>1. PICK d \in Claudes : hookPc[d] = "capture" /\ hook[d].uuid = u
        BY <1>1, <3>4 DEF WhatWasLeftIsCaptured
      <4>2. CASE d # c
        BY <4>1, <4>2 DEF OtherHooksStay
      <4>3. CASE d = c
        BY <2>1, <4>1, <4>3 DEF Adds
      <4>4. QED
        BY <4>2, <4>3
    <3>5. QED
      BY <3>2, <3>3, <3>4
  <2>2. QED
    BY <2>1 DEF WhatWasLeftIsCaptured
<1>4. QED
  BY <1>2, <1>3 DEF CapturesAreKept

LEMMA StepCounts ==
  ASSUME HooksInv, HookTypes', NEW c \in Claudes, OtherHooksStay(c), Counts(c)
  PROVE  BlocksAreCounted' /\ Room'
<1>1. HookTypes /\ BlocksAreCounted /\ Room
  BY DEF HooksInv
<1>2. BlocksAreCounted'
  BY <1>1 DEF BlocksAreCounted, Counts
<1>3. Room'
  <2>0. manifest'.iterations = manifest.iterations
    BY DEF Counts
  <2>1. SUFFICES ASSUME manifest.iterations >= MaxIterations
                 PROVE  manifest.iterations - MaxIterations + 1 + Cardinality(Blockers') <= Cardinality(Claudes)
    BY <2>0 DEF Room
  <2>2. manifest.iterations \in Nat /\ MaxIterations \in Nat /\ Exhausted(manifest)
    <3>1. manifest.iterations \in Nat /\ MaxIterations \in Nat
      BY <1>1, SessionHooksAssumption DEF HookTypes, Manifest
    <3>2. QED
      BY <2>1, <3>1 DEF Exhausted
  <2>3. ASSUME NEW d \in Blockers' PROVE d \in Blockers
    <3>1. d \in Claudes /\ hookPc'[d] \in Judging /\ ~Exhausted(hook'[d].seen)
      BY <2>3 DEF Blockers, Exhausted
    <3>2. hookPc[d] \in Judging /\ hook'[d].seen = hook[d].seen
      BY <2>2, <3>1 DEF OtherHooksStay, Counts
    <3>3. QED
      BY <3>1, <3>2 DEF Blockers
  <2>4. Cardinality(Blockers') <= Cardinality(Blockers) /\ Cardinality(Blockers') \in Nat
    <3>1. Blockers' \subseteq Blockers
      BY <2>3
    <3>2. QED
      BY <3>1, ClaudesAreFinite, FS_Subset, FS_CardinalityType
  <2>6. manifest.iterations - MaxIterations + 1 + Cardinality(Blockers) <= Cardinality(Claudes)
    BY <1>1, <2>1 DEF Room
  <2>7. QED
    BY <2>2, <2>4, <2>6, ClaudesAreFinite
<1>4. QED
  BY <1>2, <1>3

-----------------------------------------------------------------------------
\* An update that counts nothing.
LEMMA Updated ==
  ASSUME HookTypes, NEW m, m \in Manifest, m.iterations = manifest.iterations, manifest.bypass => m.bypass,
         Update(m)
  PROVE  /\ manifest' \in Manifest /\ manifest'.iterations = manifest.iterations
         /\ (manifest.bypass => manifest'.bypass) /\ manifest'.plans \in {m.plans, manifest.plans}
         /\ hookFaults' \in 0..MaxHookFaults
<1>1. MaxHookFaults \in Nat /\ hookFaults \in 0..MaxHookFaults /\ manifest \in Manifest
  BY SessionHooksAssumption DEF HookTypes
<1>2. hookFaults' \in 0..MaxHookFaults
  BY <1>1 DEF Update, HookFault
<1>3. manifest' \in {m, manifest}
  BY DEF Update
<1>4. QED
  BY <1>1, <1>2, <1>3

\* What the updates of the hooks write.
LEMMA Writes ==
  ASSUME HookTypes
  PROVE  /\ \A m \in {[manifest EXCEPT !.plan = TRUE], [manifest EXCEPT !.compactions = @ + 1],
                     [manifest EXCEPT !.subagents = @ + 1], [manifest EXCEPT !.bypass = TRUE]} :
               /\ m \in Manifest /\ m.iterations = manifest.iterations
               /\ (manifest.bypass => m.bypass) /\ m.plans = manifest.plans
         /\ \A u \in Uuids : \A m \in {[manifest EXCEPT !.uuid = u], [manifest EXCEPT !.transcripts = @ \cup {u}]} :
               /\ m \in Manifest /\ m.iterations = manifest.iterations
               /\ m.bypass = manifest.bypass /\ m.plans = manifest.plans
<1>1. manifest \in Manifest
  BY DEF HookTypes
<1>2. [manifest EXCEPT !.plan = TRUE] \in Manifest
  BY <1>1 DEF Manifest
<1>3. [manifest EXCEPT !.compactions = @ + 1] \in Manifest
  BY <1>1 DEF Manifest
<1>4. [manifest EXCEPT !.subagents = @ + 1] \in Manifest
  BY <1>1 DEF Manifest
<1>5. [manifest EXCEPT !.bypass = TRUE] \in Manifest
  BY <1>1 DEF Manifest
<1>6. ASSUME NEW u \in Uuids PROVE [manifest EXCEPT !.uuid = u] \in Manifest
  BY <1>1 DEF Manifest, Opt
<1>7. ASSUME NEW u \in Uuids PROVE [manifest EXCEPT !.transcripts = @ \cup {u}] \in Manifest
  BY <1>1 DEF Manifest
<1>8. QED
  BY ZenonT(40), <1>1, <1>2, <1>3, <1>4, <1>5, <1>6, <1>7 DEF Manifest

-----------------------------------------------------------------------------
Moves(c) ==
    /\ HookTypes' /\ OtherHooksStay(c) /\ Gains /\ Remembers(c)' /\ Adds(c)
    /\ ApprovedPlansAreKept' /\ Counts(c)

LEMMA PlansStay ==
  ASSUME ApprovedPlansAreKept, manifest'.plans = manifest.plans, snapshots \subseteq snapshots'
  PROVE  ApprovedPlansAreKept'
  BY DEF ApprovedPlansAreKept

LEMMA MovesKeep == ASSUME HooksInv, NEW c \in Claudes, Moves(c) PROVE HooksInv'
<1>1. HookTypes' /\ OtherHooksStay(c) /\ Gains /\ Remembers(c)' /\ Adds(c) /\ ApprovedPlansAreKept' /\ Counts(c)
  BY DEF Moves
<1>2. QED
  BY <1>1, StepRemembers, StepCaptures, StepCounts DEF HooksInv

\* What a manifest update that only touches other fields leaves.
Touched ==
    /\ manifest' \in Manifest /\ manifest'.iterations = manifest.iterations
    /\ (manifest.bypass => manifest'.bypass) /\ manifest'.plans = manifest.plans

\* Outside of the hooks nothing of theirs changes.
LEMMA OutsideMoves ==
  ASSUME HooksInv, NEW c \in Claudes, HookTypes', Touched,
         UNCHANGED <<artifact, snapshots, queued, hookPc, hook, blocked, uncounted, left>>
  PROVE  Moves(c)
<1>1. HookTypes /\ Remembered /\ ApprovedPlansAreKept
  BY DEF HooksInv, CapturesAreKept
<1>2. OtherHooksStay(c) /\ Gains /\ Adds(c)
  BY DEF OtherHooksStay, Gains, Adds, Touched
<1>3. Remembers(c)'
  BY <1>1 DEF Remembered, Remembers, Touched
<1>4. Counts(c)
  BY DEF Counts, Touched
<1>5. QED
  BY <1>1, <1>2, <1>3, <1>4, PlansStay DEF Moves, Touched

LEMMA UserMoves ==
  ASSUME HooksInv, NEW c \in Claudes, hookEvents' \in 0..MaxEvents,
         \/ Turn(c) \/ PlanWrite(c) \/ Quit(c) \/ AskForTranscript(c)
         \/ PreCompact(c) \/ SubagentStop(c) \/ CancelVerification(c)
  PROVE  Moves(c)
<1>1. HookTypes
  BY DEF HooksInv
<1>2. CASE Turn(c)
  <2>1. claude[c] \in Uuids
    BY <1>1, <1>2 DEF Turn, Talking, HookTypes, Opt
  <2>2. MaxTurns \in Nat
    BY SessionHooksAssumption
  <2>3. transcript' \in [Uuids -> 0..MaxTurns]
    BY <1>1, <1>2, <2>1, <2>2 DEF Turn, HookTypes
  <2>4. HookTypes' /\ Touched
    BY <1>1, <1>2, <2>3 DEF Turn, HookTypes, Touched, stopHistory
  <2>5. QED
    BY <1>2, <2>4, OutsideMoves DEF Turn, stopHistory
<1>3. CASE PlanWrite(c)
  <2>1. PICK m : m = [manifest EXCEPT !.plan = TRUE]
    OBVIOUS
  <2>2. Touched /\ hookFaults' \in 0..MaxHookFaults
    <3>1. Update(m)
      BY <1>3, <2>1 DEF PlanWrite
    <3>2. m \in Manifest /\ m.iterations = manifest.iterations /\ (manifest.bypass => m.bypass) /\ m.plans = manifest.plans
      BY <1>1, <2>1, Writes
    <3>3. QED
      BY <1>1, <3>1, <3>2, Updated DEF Touched
  <2>3. HookTypes'
    BY <1>1, <1>3, <2>2 DEF PlanWrite, HookTypes, Touched, stopHistory, Opt
  <2>4. QED
    BY <1>3, <2>2, <2>3, OutsideMoves DEF PlanWrite, stopHistory
<1>4. CASE Quit(c)
  <2>1. HookTypes' /\ Touched
    BY <1>1, <1>4 DEF Quit, HookTypes, Touched, stopHistory, disk, Opt
  <2>2. QED
    BY <1>4, <2>1, OutsideMoves DEF Quit, stopHistory, disk
<1>5. CASE AskForTranscript(c)
  <2>1. claude[c] \in Uuids
    BY <1>1, <1>5 DEF AskForTranscript, Talking, HookTypes, Opt
  <2>2. run' = [run EXCEPT !.wants = claude[c]]
    BY <1>5 DEF AskForTranscript
  <2>3. PICK r : r = run /\ r = [wants |-> r.wants, got |-> r.got]
    BY <1>1 DEF HookTypes
  <2>4. [r EXCEPT !.wants = claude[c]] = [wants |-> claude[c], got |-> r.got]
    BY <2>3
  <2>5. run' = [wants |-> run'.wants, got |-> run'.got] /\ run'.wants \in Opt(Uuids)
    BY <2>1, <2>2, <2>3, <2>4 DEF Opt
  <2>6. HookTypes' /\ Touched
    BY <1>1, <1>5, <2>5 DEF AskForTranscript, HookTypes, Touched, stopHistory
  <2>7. QED
    BY <1>5, <2>6, OutsideMoves DEF AskForTranscript, stopHistory
<1>6. CASE PreCompact(c) \/ SubagentStop(c) \/ CancelVerification(c)
  <2>1. PICK m \in {[manifest EXCEPT !.compactions = @ + 1], [manifest EXCEPT !.subagents = @ + 1],
                    [manifest EXCEPT !.bypass = TRUE]} :
           Update(m) /\ UNCHANGED <<claude, disk, hookPc, hook, stopHistory>>
    BY <1>6 DEF PreCompact, SubagentStop, CancelVerification
  <2>2. Touched /\ hookFaults' \in 0..MaxHookFaults
    <3>1. m \in Manifest /\ m.iterations = manifest.iterations /\ (manifest.bypass => m.bypass) /\ m.plans = manifest.plans
      BY <1>1, <2>1, Writes
    <3>2. QED
      BY <1>1, <2>1, <3>1, Updated DEF Touched
  <2>3. HookTypes'
    BY <1>1, <2>1, <2>2 DEF HookTypes, Touched, stopHistory, disk
  <2>4. QED
    BY <2>1, <2>2, <2>3, OutsideMoves DEF stopHistory, disk
<1>7. QED
  BY <1>2, <1>3, <1>4, <1>5, <1>6

\* A step of a hook that leaves its files alone.
LEMMA QuietMoves ==
  ASSUME HooksInv, NEW c \in Claudes, HookTypes', Touched, OtherHooksStay(c), Remembers(c)',
         hookPc[c] # "capture", hookPc'[c] # "capture",
         UNCHANGED <<artifact, snapshots, queued, blocked, uncounted, left>>,
         hookPc'[c] \in Judging =>
            hook'[c].seen = manifest \/ (hookPc[c] \in Judging /\ hook'[c].seen = hook[c].seen)
  PROVE  Moves(c)
<1>1. HookTypes /\ Remembered /\ ApprovedPlansAreKept
  BY DEF HooksInv, CapturesAreKept
<1>2. Gains /\ Adds(c)
  BY DEF OtherHooksStay, Gains, Adds, Touched
<1>3. Counts(c)
  BY DEF Counts, Touched
<1>4. QED
  BY <1>1, <1>2, <1>3, PlansStay DEF Moves, Touched

\* A hook that returns remembers nothing.
LEMMA Returning ==
  ASSUME HookTypes, NEW c \in Claudes, Return(c)
  PROVE  /\ hookPc' \in [Claudes -> Places] /\ hook' \in [Claudes -> Memory] /\ OtherHooksStay(c)
         /\ hookPc'[c] = "idle" /\ Remembers(c)'
<1>1. NoManifest \in Manifest
  BY EmptySeq DEF NoManifest, Manifest, Opt
<1>2. NoHook \in Memory
  BY <1>1 DEF NoHook, Memory, Opt
<1>3. hookPc' = [hookPc EXCEPT ![c] = "idle"] /\ hook' = [hook EXCEPT ![c] = NoHook]
  BY DEF Return, Goto
<1>4. /\ hookPc' \in [Claudes -> Places] /\ hook' \in [Claudes -> Memory] /\ OtherHooksStay(c)
      /\ hookPc'[c] = "idle"
  BY <1>2, <1>3 DEF HookTypes, Places, OtherHooksStay
<1>5. QED
  BY <1>4 DEF Remembers, Judging

\* A hook that goes on remembers what it did.
LEMMA Going ==
  ASSUME HookTypes, NEW c \in Claudes, NEW to \in Places, Goto(c, to)
  PROVE  hookPc' \in [Claudes -> Places] /\ hookPc'[c] = to /\ \A d \in Claudes \ {c} : hookPc'[d] = hookPc[d]
  BY DEF HookTypes, Goto

LEMMA GoingMoves ==
  ASSUME HooksInv, NEW c \in Claudes, StopRecord(c) \/ Passes(c) \/ GivesUp(c) \/ Reread(c), UNCHANGED hookEvents
  PROVE  Moves(c)
<1>1. HookTypes /\ Remembers(c)
  BY DEF HooksInv, Remembered
<1>2. ASSUME Touched, NEW to \in {"verify", "check", "enqueue"}, Goto(c, to), hookPc[c] \in Judging,
             UNCHANGED <<claude, disk, stopHistory>>, hookFaults' \in 0..MaxHookFaults,
             UNCHANGED hook
      PROVE  Moves(c)
  <2>1. to \in Places /\ hookPc[c] # "capture"
    BY <1>2 DEF Places, Judging
  <2>2. hookPc' \in [Claudes -> Places] /\ hookPc'[c] = to /\ OtherHooksStay(c)
    BY <1>1, <1>2, <2>1, Going DEF OtherHooksStay
  <2>3. HookTypes'
    BY <1>1, <1>2, <2>2 DEF HookTypes, Touched, disk, stopHistory
  <2>4. Remembers(c)'
    BY <1>1, <1>2, <2>2 DEF Remembers, Touched, Judging, Places, disk
  <2>5. QED
    BY <1>2, <2>1, <2>2, <2>3, <2>4, QuietMoves DEF disk, stopHistory
<1>3. CASE StopRecord(c)
  <2>1. hook[c].uuid \in Uuids
    BY <1>1, <1>3 DEF StopRecord, Remembers, Judging, Places
  <2>2. PICK m : m = [manifest EXCEPT !.transcripts = @ \cup {hook[c].uuid}]
    OBVIOUS
  <2>3. m \in Manifest /\ m.iterations = manifest.iterations /\ m.bypass = manifest.bypass /\ m.plans = manifest.plans
    BY <1>1, <2>1, <2>2, Writes
  <2>4. Update(m)
    BY <1>3, <2>2 DEF StopRecord
  <2>5. Touched /\ hookFaults' \in 0..MaxHookFaults
    BY <1>1, <2>3, <2>4, Updated DEF Touched
  <2>6. QED
    BY <1>2, <1>3, <2>5 DEF StopRecord, Judging
<1>4. CASE Passes(c)
  <2>1. Touched /\ hookFaults' \in 0..MaxHookFaults
    BY <1>1, <1>4 DEF Passes, Touched, HookTypes
  <2>2. QED
    BY <1>2, <1>4, <2>1 DEF Passes, Judging
<1>5. CASE GivesUp(c)
  <2>1. PICK m : m = [manifest EXCEPT !.bypass = TRUE]
    OBVIOUS
  <2>2. m \in Manifest /\ m.iterations = manifest.iterations /\ m.bypass = TRUE /\ m.plans = manifest.plans
    BY <1>1, <2>1, Writes DEF HookTypes, Manifest
  <2>3. Update(m)
    BY <1>5, <2>1 DEF GivesUp, Update
  <2>4. Touched /\ hookFaults' \in 0..MaxHookFaults
    BY <1>1, <2>2, <2>3, Updated DEF Touched
  <2>5. QED
    BY <1>2, <1>5, <2>4 DEF GivesUp, Verified, Judging
<1>6. CASE Reread(c)
  <2>1. /\ hookPc[c] = "verify" /\ Goto(c, "check") /\ UNCHANGED <<claude, disk, manifest, stopHistory>>
        /\ hookFaults' \in 0..MaxHookFaults
        /\ hook' = [hook EXCEPT ![c].seen = manifest] \/ hook' = hook
    BY <1>1, <1>6, SessionHooksAssumption DEF Reread, HookFault, HookTypes
  <2>2. Touched
    BY <1>1, <2>1 DEF Touched, HookTypes
  <2>3. CASE hook' = hook
    BY <1>2, <2>1, <2>2, <2>3 DEF Judging
  <2>4. CASE hook' = [hook EXCEPT ![c].seen = manifest]
    <3>1. /\ hook' \in [Claudes -> Memory] /\ \A d \in Claudes \ {c} : hook'[d] = hook[d]
          /\ hook'[c].seen = manifest /\ hook'[c].uuid = hook[c].uuid /\ hook'[c].bypassed = hook[c].bypassed
      BY <1>1, <2>4 DEF HookTypes, Memory
    <3>2. hookPc' \in [Claudes -> Places] /\ hookPc'[c] = "check" /\ \A d \in Claudes \ {c} : hookPc'[d] = hookPc[d]
      BY <1>1, <2>1, Going DEF Places, Judging
    <3>3. HookTypes'
      BY <1>1, <2>1, <3>1, <3>2 DEF HookTypes, disk, stopHistory
    <3>4. Remembers(c)'
      BY <1>1, <2>1, <3>1, <3>2 DEF Remembers, Judging, Places, disk
    <3>5. QED
      BY <2>1, <2>2, <3>1, <3>2, <3>3, <3>4, QuietMoves DEF disk, stopHistory, OtherHooksStay
  <2>5. QED
    BY <2>1, <2>3, <2>4
<1>7. QED
  BY <1>3, <1>4, <1>5, <1>6

\* The list of approved plans: those that were on it and the one approved, each once.
LEMMA WithPlanIs ==
  ASSUME NEW plans \in Seq(Plans), NEW p \in Plans,
         \A i, j \in DOMAIN plans : plans[i] = plans[j] => i = j
  PROVE  LET w == WithPlan(plans, p)
         IN  /\ w \in Seq(Plans)
             /\ \A i \in DOMAIN w : w[i] = p \/ \E j \in DOMAIN plans : w[i] = plans[j]
             /\ \A i, j \in DOMAIN w : w[i] = w[j] => i = j
<1>1. PICK kept : kept = {i \in DOMAIN plans : plans[i] # p}
  OBVIOUS
<1>2. kept \in SUBSET DOMAIN plans /\ \A i \in kept : plans[i] # p
  BY <1>1
<1>3. PICK s : s = Selected(plans, kept)
  OBVIOUS
<1>4. PICK C : C = Cardinality(kept)
  OBVIOUS
<1>5. /\ s \in Seq(Plans) /\ Len(s) = C /\ C \in Nat
      /\ \E at \in [1 .. C -> kept] : /\ \A n \in 1 .. C : s[n] = plans[at[n]]
                                     /\ \A m, n \in 1 .. C : m # n => at[m] # at[n]
  BY <1>2, <1>3, <1>4, SelectedIs
<1>6. PICK at \in [1 .. C -> kept] : /\ \A n \in 1 .. C : s[n] = plans[at[n]]
                                     /\ \A m, n \in 1 .. C : m # n => at[m] # at[n]
  BY <1>5
<1>7. PICK w : w = Append(s, p)
  OBVIOUS
<1>8. w \in Seq(Plans) /\ DOMAIN w = 1 .. C + 1 /\ (\A n \in 1 .. C : w[n] = s[n]) /\ w[C + 1] = p
  BY <1>5, <1>7
<1>9. ASSUME NEW n \in 1 .. C PROVE at[n] \in kept /\ w[n] = plans[at[n]] /\ w[n] # p
  BY <1>2, <1>6, <1>8, <1>9
<1>10. \A i \in DOMAIN w : i = C + 1 \/ i \in 1 .. C
  BY <1>5, <1>8
<1>11. ASSUME NEW i \in DOMAIN w, NEW j \in DOMAIN w, w[i] = w[j] PROVE i = j
  <2>1. CASE i = C + 1 \/ j = C + 1
    BY <1>8, <1>9, <1>10, <1>11, <2>1
  <2>2. CASE i \in 1 .. C /\ j \in 1 .. C
    <3>1. at[i] = at[j]
      BY <1>2, <1>9, <1>11, <2>2
    <3>2. QED
      BY <1>6, <2>2, <3>1
  <2>3. QED
    BY <1>10, <2>1, <2>2
<1>12. \A i \in DOMAIN w : w[i] = p \/ \E j \in DOMAIN plans : w[i] = plans[j]
  BY <1>2, <1>8, <1>9, <1>10
<1>13. w = WithPlan(plans, p)
  BY <1>1, <1>3, <1>7 DEF WithPlan
<1>14. QED
  BY <1>8, <1>11, <1>12, <1>13

LEMMA ReturnMoves ==
  ASSUME HooksInv, NEW c \in Claudes, CaptureRecord(c) \/ Approve(c), UNCHANGED hookEvents
  PROVE  Moves(c)
<1>1. HookTypes /\ Remembers(c) /\ ApprovedPlansAreKept
  BY DEF HooksInv, Remembered, CapturesAreKept
<1>2. Return(c) /\ UNCHANGED <<claude, disk, stopHistory>> /\ hookPc[c] \in {"captured", "approve"}
  BY DEF CaptureRecord, Approve
<1>3. /\ hookPc' \in [Claudes -> Places] /\ hook' \in [Claudes -> Memory] /\ OtherHooksStay(c)
      /\ hookPc'[c] = "idle" /\ Remembers(c)'
  BY <1>1, <1>2, Returning
<1>4. CASE CaptureRecord(c)
  <2>1. hook[c].uuid \in Uuids
    BY <1>1, <1>4 DEF CaptureRecord, Remembers, Judging, Places
  <2>2. PICK m : m = [manifest EXCEPT !.transcripts = @ \cup {hook[c].uuid}]
    OBVIOUS
  <2>3. m \in Manifest /\ m.iterations = manifest.iterations /\ m.bypass = manifest.bypass /\ m.plans = manifest.plans
    BY <1>1, <2>1, <2>2, Writes
  <2>4. Update(m)
    BY <1>4, <2>2 DEF CaptureRecord
  <2>5. Touched /\ hookFaults' \in 0..MaxHookFaults
    BY <1>1, <2>3, <2>4, Updated DEF Touched
  <2>6. HookTypes'
    BY <1>1, <1>2, <1>3, <2>5 DEF HookTypes, Touched, disk, stopHistory
  <2>7. QED
    BY <1>2, <1>3, <2>5, <2>6, QuietMoves DEF disk, stopHistory, Judging
<1>5. CASE Approve(c)
  <2>1. PICK p : p = hook[c].plan /\ p \in snapshots /\ p \in Plans
    BY <1>1, <1>5 DEF Approve, Remembers, HookTypes
  <2>2. PICK w : w = WithPlan(manifest.plans, p)
    OBVIOUS
  <2>3. manifest \in Manifest /\ manifest.plans \in Seq(Plans)
    BY <1>1 DEF HookTypes, Manifest
  <2>4. /\ w \in Seq(Plans)
        /\ \A i \in DOMAIN w : w[i] = p \/ \E j \in DOMAIN manifest.plans : w[i] = manifest.plans[j]
        /\ \A i, j \in DOMAIN w : w[i] = w[j] => i = j
    BY <1>1, <2>1, <2>2, <2>3, WithPlanIs DEF ApprovedPlansAreKept
  <2>5. PICK m : m = [manifest EXCEPT !.plans = w]
    OBVIOUS
  <2>6. m \in Manifest /\ m.iterations = manifest.iterations /\ m.bypass = manifest.bypass /\ m.plans = w
    BY <2>3, <2>4, <2>5 DEF Manifest
  <2>7. Update(m)
    BY <1>5, <2>1, <2>2, <2>5 DEF Approve
  <2>8. /\ manifest' \in Manifest /\ manifest'.iterations = manifest.iterations
        /\ (manifest.bypass => manifest'.bypass) /\ manifest'.plans \in {w, manifest.plans}
        /\ hookFaults' \in 0..MaxHookFaults
    BY <1>1, <2>6, <2>7, Updated
  <2>9. HookTypes'
    BY <1>1, <1>2, <1>3, <2>8 DEF HookTypes, disk, stopHistory
  <2>10. ApprovedPlansAreKept'
    <3>1. CASE manifest'.plans = manifest.plans
      BY <1>1, <1>2, <3>1, PlansStay DEF disk
    <3>2. CASE manifest'.plans = w
      <4>1. snapshots' = snapshots /\ \A j \in DOMAIN manifest.plans : manifest.plans[j] \in snapshots
        BY <1>1, <1>2 DEF disk, ApprovedPlansAreKept
      <4>2. \A i \in DOMAIN w : w[i] \in snapshots'
        BY <2>1, <2>4, <4>1
      <4>3. QED
        BY <2>4, <3>2, <4>2 DEF ApprovedPlansAreKept
    <3>3. QED
      BY <2>8, <3>1, <3>2
  <2>11. Gains /\ Adds(c)
    BY <1>2, <1>5, <2>8 DEF Gains, Adds, disk, stopHistory, Approve
  <2>12. Counts(c)
    BY <1>2, <1>3, <2>8 DEF Counts, stopHistory, Judging
  <2>13. QED
    BY <1>3, <2>9, <2>10, <2>11, <2>12 DEF Moves
<1>6. QED
  BY <1>4, <1>5

LEMMA CaptureMoves == ASSUME HooksInv, NEW c \in Claudes, CaptureCopy(c), UNCHANGED hookEvents PROVE Moves(c)
<1>1. HookTypes /\ Remembers(c) /\ ApprovedPlansAreKept
  BY DEF HooksInv, Remembered, CapturesAreKept
<1>2. PICK u : u = hook[c].uuid /\ u \in Uuids
  BY <1>1 DEF CaptureCopy, Remembers, Judging, Places
<1>3. /\ hookPc[c] = "capture"
      /\ UNCHANGED <<claude, transcript, planFile, manifest, snapshots, run, queued, blocked, uncounted>>
  BY DEF CaptureCopy
<1>4. CASE /\ artifact' = [artifact EXCEPT ![u] = IF @ = None THEN transcript[u] ELSE @]
           /\ Goto(c, "captured") /\ UNCHANGED <<hook, left, hookFaults>>
  <2>1. transcript[u] \in 0..MaxTurns /\ None \notin 0..MaxTurns
    BY <1>1, <1>2, SessionHooksAssumption DEF HookTypes
  <2>2. /\ artifact' \in [Uuids -> Opt(0..MaxTurns)] /\ artifact'[u] # None
        /\ \A x \in Uuids : artifact[x] # None => artifact'[x] # None
    BY <1>1, <1>2, <1>4, <2>1 DEF HookTypes, Opt
  <2>3. hookPc' \in [Claudes -> Places] /\ hookPc'[c] = "captured" /\ OtherHooksStay(c)
    BY <1>1, <1>4, Going DEF Places, OtherHooksStay
  <2>4. HookTypes'
    BY <1>1, <1>3, <1>4, <2>2, <2>3 DEF HookTypes
  <2>5. Gains /\ Adds(c)
    BY <1>2, <1>3, <1>4, <2>2 DEF Gains, Adds
  <2>6. Remembers(c)' /\ Counts(c)
    BY <1>2, <1>3, <1>4, <2>3 DEF Remembers, Counts, Judging
  <2>7. ApprovedPlansAreKept'
    BY <1>1, <1>3, PlansStay
  <2>8. QED
    BY <2>3, <2>4, <2>5, <2>6, <2>7 DEF Moves
<1>5. CASE HookFault /\ Return(c) /\ left' = left \ {u} /\ UNCHANGED artifact
  <2>1. /\ hookPc' \in [Claudes -> Places] /\ hook' \in [Claudes -> Memory] /\ OtherHooksStay(c)
        /\ hookPc'[c] = "idle" /\ Remembers(c)'
    BY <1>1, <1>5, Returning
  <2>2. hookFaults' \in 0..MaxHookFaults
    BY <1>1, <1>5, SessionHooksAssumption DEF HookFault, HookTypes
  <2>3. HookTypes'
    BY <1>1, <1>3, <1>5, <2>1, <2>2 DEF HookTypes
  <2>4. Gains /\ Adds(c)
    BY <1>2, <1>3, <1>5 DEF Gains, Adds
  <2>5. Counts(c)
    BY <1>3, <2>1 DEF Counts, Judging
  <2>6. ApprovedPlansAreKept'
    BY <1>1, <1>3, PlansStay
  <2>7. QED
    BY <2>1, <2>3, <2>4, <2>5, <2>6 DEF Moves
<1>6. QED
  BY <1>2, <1>4, <1>5 DEF CaptureCopy, Left

\* The steps that leave markers.
LEMMA MarkerMoves ==
  ASSUME HooksInv, NEW c \in Claudes, Enqueue(c) \/ FailureRecord(c), UNCHANGED hookEvents
  PROVE  Moves(c)
<1>1. HookTypes /\ Remembers(c) /\ ApprovedPlansAreKept
  BY DEF HooksInv, Remembered, CapturesAreKept
<1>2. /\ Return(c) /\ hookPc[c] \in {"enqueue", "failure"}
      /\ UNCHANGED <<claude, transcript, planFile, artifact, snapshots, run, stopHistory>>
  BY DEF Enqueue, FailureRecord
<1>3. /\ hookPc' \in [Claudes -> Places] /\ hook' \in [Claudes -> Memory] /\ OtherHooksStay(c)
      /\ hookPc'[c] = "idle" /\ Remembers(c)'
  BY <1>1, <1>2, Returning
<1>4. PICK u : u = hook[c].uuid /\ u \in Uuids /\ (hookPc[c] = "enqueue" => artifact[u] # None)
  BY <1>1, <1>2 DEF Remembers, Judging, Places
<1>5. \E kinds \in SUBSET MarkerKinds : /\ queued' = queued \cup {[kind |-> k, uuid |-> u] : k \in kinds}
                                       /\ (kinds # {} => artifact[u] # None)
  <2>1. CASE Enqueue(c)
    <3>1. PICK kinds \in {MarkerKinds, MarkerKinds \ {"handoff"}} : \E lost \in SUBSET kinds :
             queued' = queued \cup {[kind |-> k, uuid |-> hook[c].uuid] : k \in kinds \ lost}
      BY <2>1 DEF Enqueue
    <3>2. PICK lost \in SUBSET kinds :
             queued' = queued \cup {[kind |-> k, uuid |-> hook[c].uuid] : k \in kinds \ lost}
      BY <3>1
    <3>3. kinds \ lost \in SUBSET MarkerKinds /\ artifact[u] # None
      BY <1>4, <2>1, <3>1 DEF Enqueue
    <3>4. QED
      BY ZenonT(40), <1>4, <3>2, <3>3
  <2>2. CASE FailureRecord(c)
    <3>1. PICK kinds \in SUBSET FailureKinds(hook[c].uuid) :
             queued' = queued \cup {[kind |-> k, uuid |-> hook[c].uuid] : k \in kinds}
      BY <2>2 DEF FailureRecord
    <3>2. kinds \in SUBSET MarkerKinds /\ (kinds # {} => artifact[u] # None)
      BY <1>4, <3>1 DEF FailureKinds, MarkerKinds
    <3>3. QED
      BY <1>4, <3>1, <3>2
  <2>3. QED
    BY <2>1, <2>2
<1>6. PICK kinds \in SUBSET MarkerKinds : /\ queued' = queued \cup {[kind |-> k, uuid |-> u] : k \in kinds}
                                          /\ (kinds # {} => artifact[u] # None)
  BY <1>5
<1>7. /\ queued' \in SUBSET [kind : MarkerKinds, uuid : Uuids]
      /\ \A m \in queued' \ queued : m.uuid = u /\ kinds # {}
  BY <1>1, <1>4, <1>6 DEF HookTypes
<1>8. Touched /\ hookFaults' \in 0..MaxHookFaults
  <2>1. CASE Enqueue(c)
    BY <1>1, <2>1, SessionHooksAssumption DEF Enqueue, Touched, HookTypes, HookFault
  <2>2. CASE FailureRecord(c)
    <3>1. PICK m : m = [manifest EXCEPT !.transcripts = @ \cup {u}]
      OBVIOUS
    <3>2. m \in Manifest /\ m.iterations = manifest.iterations /\ m.bypass = manifest.bypass /\ m.plans = manifest.plans
      BY <1>1, <1>4, <3>1, Writes
    <3>3. Update(m)
      BY <1>4, <2>2, <3>1 DEF FailureRecord
    <3>4. QED
      BY <1>1, <3>2, <3>3, Updated DEF Touched
  <2>3. QED
    BY <2>1, <2>2
<1>9. HookTypes'
  BY <1>1, <1>2, <1>3, <1>7, <1>8 DEF HookTypes, Touched, stopHistory
<1>10. Gains /\ Adds(c)
  BY <1>2, <1>6, <1>7, <1>8 DEF Gains, Adds, Touched, stopHistory
<1>11. Counts(c)
  BY <1>2, <1>3, <1>8 DEF Counts, Touched, stopHistory, Judging
<1>12. ApprovedPlansAreKept'
  BY <1>1, <1>2, <1>8, PlansStay DEF Touched
<1>13. QED
  BY <1>3, <1>9, <1>10, <1>11, <1>12 DEF Moves

\* A run that is served, or not, is one that waits or one that has got its transcript.
LEMMA Served ==
  ASSUME HookTypes, NEW u, NEW turns, ServeRun(u, turns)
  PROVE  run' = [wants |-> run'.wants, got |-> run'.got] /\ run'.wants \in Opt(Uuids)
<1>1. run' = run \/ run' = [wants |-> None, got |-> [uuid |-> u, turns |-> turns]]
  BY DEF ServeRun
<1>2. CASE run' = run
  <2>1. PICK r : r = run /\ r = [wants |-> r.wants, got |-> r.got] /\ r.wants \in Opt(Uuids)
    BY DEF HookTypes
  <2>2. QED
    BY <1>2, <2>1
<1>3. CASE run' = [wants |-> None, got |-> [uuid |-> u, turns |-> turns]]
  <2>1. PICK r, g : r = run' /\ r = [wants |-> None, got |-> g]
    BY <1>3
  <2>2. r.wants = None /\ r.got = g
    BY <2>1
  <2>3. QED
    BY <2>1, <2>2 DEF Opt
<1>4. QED
  BY <1>1, <1>2, <1>3

LEMMA StopMoves ==
  ASSUME HooksInv, NEW c \in Claudes, StopCopy(c), hookEvents' \in 0..MaxEvents PROVE Moves(c)
<1>1. HookTypes /\ ApprovedPlansAreKept
  BY DEF HooksInv, CapturesAreKept
<1>2. /\ claude[c] \in Uuids /\ hookPc[c] = "idle"
      /\ UNCHANGED <<claude, transcript, planFile, manifest, snapshots, queued, blocked, uncounted, left>>
  BY <1>1 DEF StopCopy, Talking, HookTypes, Opt, stopHistory
<1>3. PICK u : u = claude[c] /\ u \in Uuids
  BY <1>2
<1>4. Touched
  BY <1>1, <1>2 DEF Touched, HookTypes
<1>5. CASE HookFault /\ UNCHANGED <<artifact, run, hookPc, hook>>
  <2>1. HookTypes'
    BY SMTT(30), <1>1, <1>2, <1>5, SessionHooksAssumption DEF HookTypes, HookFault
  <2>2. QED
    BY <1>2, <1>4, <1>5, <2>1, OutsideMoves
<1>6. CASE /\ artifact' = [artifact EXCEPT ![u] = transcript[u]] /\ ServeRun(u, transcript[u]) /\ Goto(c, "stop")
           /\ hook' = [hook EXCEPT ![c] = [NoHook EXCEPT !.seen = manifest, !.uuid = u, !.bypassed = manifest.bypass]]
           /\ UNCHANGED hookFaults
  <2>1. transcript[u] \in 0..MaxTurns /\ None \notin 0..MaxTurns
    BY <1>1, <1>3, SessionHooksAssumption DEF HookTypes
  <2>2. /\ artifact' \in [Uuids -> Opt(0..MaxTurns)] /\ artifact'[u] # None
        /\ \A x \in Uuids : artifact[x] # None => artifact'[x] # None
    BY <1>1, <1>3, <1>6, <2>1 DEF HookTypes, Opt
  <2>3. hookPc' \in [Claudes -> Places] /\ hookPc'[c] = "stop" /\ \A d \in Claudes \ {c} : hookPc'[d] = hookPc[d]
    BY <1>1, <1>6, Going DEF Places, Judging
  <2>4. PICK h : h = [NoHook EXCEPT !.seen = manifest, !.uuid = u, !.bypassed = manifest.bypass]
    OBVIOUS
  <2>5. h \in Memory /\ h.seen = manifest /\ h.uuid = u /\ h.bypassed = manifest.bypass
    <3>1. NoHook.plan \in Opt(Plans) /\ manifest \in Manifest /\ manifest.bypass \in BOOLEAN
      BY <1>1 DEF NoHook, Opt, HookTypes, Manifest
    <3>2. h = [seen |-> manifest, uuid |-> u, bypassed |-> manifest.bypass, plan |-> NoHook.plan]
      BY <2>4 DEF NoHook
    <3>3. QED
      BY <1>3, <3>1, <3>2 DEF Memory, Opt
  <2>6. hook' \in [Claudes -> Memory] /\ hook'[c] = h /\ OtherHooksStay(c)
    BY <1>1, <1>6, <2>3, <2>4, <2>5 DEF HookTypes, OtherHooksStay
  <2>7. HookTypes'
    BY <1>1, <1>2, <1>6, <2>2, <2>3, <2>6, Served DEF HookTypes
  <2>8. Gains /\ Adds(c)
    BY <1>2, <2>2 DEF Gains, Adds
  <2>9. Remembers(c)' /\ Counts(c)
    BY <1>2, <1>3, <2>2, <2>3, <2>5, <2>6 DEF Remembers, Counts, Judging
  <2>10. ApprovedPlansAreKept'
    BY <1>1, <1>2, PlansStay
  <2>11. QED
    BY <2>6, <2>7, <2>8, <2>9, <2>10 DEF Moves
<1>7. QED
  BY <1>3, <1>5, <1>6 DEF StopCopy

LEMMA FailureMoves ==
  ASSUME HooksInv, NEW c \in Claudes, FailureCopy(c), hookEvents' \in 0..MaxEvents PROVE Moves(c)
<1>1. HookTypes /\ ApprovedPlansAreKept
  BY DEF HooksInv, CapturesAreKept
<1>2. PICK u : u = claude[c] /\ u \in Uuids
  BY <1>1 DEF FailureCopy, Talking, HookTypes, Opt
<1>3. /\ (artifact' = [artifact EXCEPT ![u] = transcript[u]] /\ UNCHANGED hookFaults) \/ (HookFault /\ UNCHANGED artifact)
      /\ ServeRun(u, artifact'[u]) \/ UNCHANGED run
      /\ hook' = [hook EXCEPT ![c].uuid = u] /\ Goto(c, "failure") /\ hookPc[c] = "idle"
      /\ UNCHANGED <<claude, transcript, planFile, manifest, snapshots, queued, blocked, uncounted, left>>
  BY <1>2 DEF FailureCopy, Talking, stopHistory
<1>4. hookFaults' \in 0..MaxHookFaults
  BY <1>1, <1>3, SessionHooksAssumption DEF HookFault, HookTypes
<1>5. transcript[u] \in 0..MaxTurns /\ None \notin 0..MaxTurns
  BY <1>1, <1>2, SessionHooksAssumption DEF HookTypes
<1>6. /\ artifact' \in [Uuids -> Opt(0..MaxTurns)]
      /\ \A x \in Uuids : artifact[x] # None => artifact'[x] # None
  BY <1>1, <1>2, <1>3, <1>5 DEF HookTypes, Opt
<1>7. hookPc' \in [Claudes -> Places] /\ hookPc'[c] = "failure" /\ \A d \in Claudes \ {c} : hookPc'[d] = hookPc[d]
  BY <1>1, <1>3, Going DEF Places, Judging
<1>8. hook' \in [Claudes -> Memory] /\ hook'[c].uuid = u /\ OtherHooksStay(c)
  BY <1>1, <1>2, <1>3, <1>7 DEF HookTypes, Memory, OtherHooksStay, Opt
<1>9. run' = [wants |-> run'.wants, got |-> run'.got] /\ run'.wants \in Opt(Uuids)
  <2>1. CASE UNCHANGED run
    <3>1. PICK r : r = run /\ r = [wants |-> r.wants, got |-> r.got] /\ r.wants \in Opt(Uuids)
      BY <1>1 DEF HookTypes
    <3>2. QED
      BY <2>1, <3>1
  <2>2. CASE ServeRun(u, artifact'[u])
    <3>1. run' = run \/ run' = [wants |-> None, got |-> [uuid |-> u, turns |-> artifact'[u]]]
      BY <2>2 DEF ServeRun
    <3>2. CASE run' = [wants |-> None, got |-> [uuid |-> u, turns |-> artifact'[u]]]
      <4>1. PICK r, g : r = run' /\ r = [wants |-> None, got |-> g]
        BY <3>2
      <4>2. r.wants = None /\ r.got = g
        BY <4>1
      <4>3. QED
        BY <4>1, <4>2 DEF Opt
    <3>3. QED
      BY <2>1, <3>1, <3>2
  <2>3. QED
    BY <1>3, <2>1, <2>2
<1>10. HookTypes'
  BY <1>1, <1>3, <1>4, <1>6, <1>7, <1>8, <1>9 DEF HookTypes
<1>11. Gains /\ Adds(c)
  BY <1>3, <1>6 DEF Gains, Adds
<1>12. Remembers(c)' /\ Counts(c)
  BY <1>2, <1>3, <1>7, <1>8 DEF Remembers, Counts, Judging
<1>13. ApprovedPlansAreKept'
  BY <1>1, <1>3, PlansStay
<1>14. QED
  BY <1>8, <1>10, <1>11, <1>12, <1>13 DEF Moves

LEMMA PlanMoves ==
  ASSUME HooksInv, NEW c \in Claudes, ExitPlan(c), hookEvents' \in 0..MaxEvents PROVE Moves(c)
<1>1. HookTypes /\ ApprovedPlansAreKept
  BY DEF HooksInv, CapturesAreKept
<1>2. PICK p : p = planFile /\ p \in Plans
  BY <1>1 DEF ExitPlan, HookTypes, Opt
<1>3. /\ snapshots' = snapshots \cup {p} /\ Goto(c, "approve") /\ hookPc[c] = "idle"
      /\ hook' = [hook EXCEPT ![c].plan = p]
      /\ UNCHANGED <<claude, transcript, planFile, manifest, artifact, run, queued, blocked, uncounted, left, hookFaults>>
  BY <1>2 DEF ExitPlan, Talking, stopHistory
<1>4. hookPc' \in [Claudes -> Places] /\ hookPc'[c] = "approve" /\ \A d \in Claudes \ {c} : hookPc'[d] = hookPc[d]
  BY <1>1, <1>3, Going DEF Places
<1>5. hook' \in [Claudes -> Memory] /\ hook'[c].plan = p /\ OtherHooksStay(c)
  BY <1>1, <1>2, <1>3, <1>4 DEF HookTypes, Memory, OtherHooksStay, Opt
<1>6. HookTypes'
  BY <1>1, <1>2, <1>3, <1>4, <1>5 DEF HookTypes
<1>7. Gains /\ Adds(c)
  BY <1>3 DEF Gains, Adds
<1>8. Remembers(c)' /\ Counts(c)
  BY <1>3, <1>4, <1>5 DEF Remembers, Counts, Judging
<1>9. ApprovedPlansAreKept'
  BY <1>1, <1>3, PlansStay
<1>10. QED
  BY <1>5, <1>6, <1>7, <1>8, <1>9 DEF Moves

LEMMA StartMoves ==
  ASSUME HooksInv, NEW c \in Claudes, NEW event \in Events, NEW u \in Uuids, SessionStart(c, event, u),
         hookEvents' \in 0..MaxEvents
  PROVE  Moves(c)
<1>1. HookTypes /\ ApprovedPlansAreKept /\ Remembers(c)
  BY DEF HooksInv, CapturesAreKept, Remembered
<1>2. /\ hookPc[c] = "idle" /\ claude' = [claude EXCEPT ![c] = u]
      /\ UNCHANGED <<transcript, planFile, artifact, snapshots, run, queued, blocked, uncounted>>
  BY DEF SessionStart, disk
<1>3. claude' \in [Claudes -> Opt(Uuids)]
  BY <1>1, <1>2 DEF HookTypes, Opt
<1>4. PICK m : m = [manifest EXCEPT !.uuid = u]
  OBVIOUS
<1>5. m \in Manifest /\ m.iterations = manifest.iterations /\ m.bypass = manifest.bypass /\ m.plans = manifest.plans
  BY <1>1, <1>4, Writes
<1>6. hookFaults' \in 0..MaxHookFaults
  BY <1>1, SessionHooksAssumption DEF SessionStart, HookFault, HookTypes
<1>7. Touched
  <2>1. manifest' \in {m, manifest}
    BY <1>4 DEF SessionStart
  <2>2. QED
    BY <1>1, <1>5, <2>1 DEF Touched, HookTypes
<1>8. CASE UNCHANGED <<hookPc, hook, left>>
  <2>1. HookTypes'
    BY <1>1, <1>2, <1>3, <1>6, <1>7, <1>8 DEF HookTypes, Touched
  <2>2. QED
    BY <1>2, <1>7, <1>8, <2>1, OutsideMoves
<1>9. CASE /\ Leaves(event, u) /\ Goto(c, "capture") /\ hook' = [hook EXCEPT ![c].uuid = manifest.uuid]
           /\ left' = left \cup {manifest.uuid}
  <2>1. PICK w : w = manifest.uuid /\ w \in Uuids
    <3>1. manifest.uuid \in Opt(Uuids) /\ manifest.uuid # None
      BY <1>1, <1>9 DEF Leaves, HookTypes, Manifest
    <3>2. QED
      BY <3>1 DEF Opt
  <2>2. hookPc' \in [Claudes -> Places] /\ hookPc'[c] = "capture" /\ \A d \in Claudes \ {c} : hookPc'[d] = hookPc[d]
    BY <1>1, <1>9, Going DEF Places
  <2>3. hook' \in [Claudes -> Memory] /\ hook'[c].uuid = w /\ OtherHooksStay(c)
    BY <1>1, <1>9, <2>1, <2>2 DEF HookTypes, Memory, OtherHooksStay, Opt
  <2>4. HookTypes'
    BY <1>1, <1>2, <1>3, <1>6, <1>7, <1>9, <2>1, <2>2, <2>3 DEF HookTypes, Touched
  <2>5. Gains /\ Adds(c)
    BY <1>2, <1>7, <1>9, <2>1, <2>2, <2>3 DEF Gains, Adds, Touched
  <2>6. Remembers(c)' /\ Counts(c)
    BY <1>2, <1>7, <2>1, <2>2, <2>3 DEF Remembers, Counts, Judging, Touched
  <2>7. ApprovedPlansAreKept'
    BY <1>1, <1>2, <1>7, PlansStay DEF Touched
  <2>8. QED
    BY <2>3, <2>4, <2>5, <2>6, <2>7 DEF Moves
<1>10. QED
  BY <1>8, <1>9 DEF SessionStart

\* A stop that is blocked.
LEMMA BlockKeeps ==
  ASSUME HooksInv, NEW c \in Claudes, Block(c), UNCHANGED hookEvents
  PROVE  HooksInv' /\ ~hook[c].bypassed /\ OtherHooksStay(c)
<1>1. HookTypes /\ Remembers(c) /\ ApprovedPlansAreKept /\ BlocksAreCounted /\ Room
  BY DEF HooksInv, Remembered, CapturesAreKept
<1>2. /\ hookPc[c] = "check" /\ ~hook[c].seen.bypass /\ ~Exhausted(hook[c].seen)
      /\ Return(c) /\ UNCHANGED <<claude, disk, left>>
      /\ blocked' = blocked + 1 /\ uncounted' = uncounted + (hookFaults' - hookFaults)
  BY DEF Block, Verified
<1>3. PICK m : m = [manifest EXCEPT !.iterations = manifest.iterations + 1, !.failing = TRUE]
  OBVIOUS
<1>4. /\ m \in Manifest /\ m.iterations = manifest.iterations + 1 /\ m.bypass = manifest.bypass
      /\ m.plans = manifest.plans /\ manifest.iterations \in Nat /\ manifest \in Manifest
  <2>1. manifest \in Manifest
    BY <1>1 DEF HookTypes
  <2>2. manifest.iterations \in Nat
    BY <2>1 DEF Manifest
  <2>3. PICK n \in Nat : n = manifest.iterations + 1
    BY <2>2
  <2>4. m = [manifest EXCEPT !.iterations = n, !.failing = TRUE]
    BY <1>3, <2>3
  <2>5. m \in Manifest
    BY <2>1, <2>4 DEF Manifest
  <2>6. m.iterations = n /\ m.bypass = manifest.bypass /\ m.plans = manifest.plans
    BY <2>1, <2>4 DEF Manifest
  <2>7. QED
    BY <2>1, <2>2, <2>3, <2>5, <2>6
<1>5. (manifest' = m /\ UNCHANGED hookFaults) \/ (HookFault /\ UNCHANGED manifest)
  BY <1>3 DEF Block, Update, Counted
<1>6. hookFaults \in Nat /\ hookFaults' \in 0..MaxHookFaults /\ blocked \in Nat /\ uncounted \in Nat
  BY <1>1, <1>5, SessionHooksAssumption DEF HookFault, HookTypes
<1>7. \/ manifest'.iterations = manifest.iterations + 1 /\ uncounted' = uncounted
      \/ manifest'.iterations = manifest.iterations /\ uncounted' = uncounted + 1
  <2>1. CASE manifest' = m /\ UNCHANGED hookFaults
    <3>1. uncounted' = uncounted
      BY <1>2, <1>6, <2>1
    <3>2. QED
      BY <1>4, <2>1, <3>1
  <2>2. CASE HookFault /\ UNCHANGED manifest
    <3>1. hookFaults' = hookFaults + 1
      BY <2>2 DEF HookFault
    <3>2. uncounted' = uncounted + 1
      BY <1>2, <1>6, <3>1
    <3>3. QED
      BY <2>2, <3>2
  <2>3. QED
    BY <1>5, <2>1, <2>2
<1>8. /\ hookPc' \in [Claudes -> Places] /\ hook' \in [Claudes -> Memory] /\ OtherHooksStay(c)
      /\ hookPc'[c] = "idle" /\ Remembers(c)'
  BY <1>1, <1>2, Returning
<1>9. HookTypes'
  BY SMTT(30), <1>1, <1>2, <1>4, <1>5, <1>6, <1>7, <1>8 DEF HookTypes, disk
<1>10. Gains /\ Adds(c)
  BY <1>2, <1>4, <1>5 DEF Gains, Adds, disk
<1>11. ApprovedPlansAreKept'
  BY <1>1, <1>2, <1>4, <1>5, PlansStay DEF disk
<1>12. BlocksAreCounted'
  <2>1. manifest.iterations = blocked - uncounted
    BY <1>1 DEF BlocksAreCounted
  <2>2. blocked' = blocked + 1
    BY <1>2
  <2>3. manifest'.iterations = blocked' - uncounted'
    BY <1>4, <1>6, <1>7, <2>1, <2>2
  <2>4. QED
    BY <2>3 DEF BlocksAreCounted
<1>13. Room'
  <2>1. c \in Blockers /\ Blockers' \subseteq Blockers \ {c}
    <3>1. c \in Blockers
      BY <1>2 DEF Blockers, Judging
    <3>2. ASSUME NEW d \in Blockers' PROVE d \in Blockers \ {c}
      <4>1. d \in Claudes /\ hookPc'[d] \in Judging /\ ~Exhausted(hook'[d].seen)
        BY <3>2 DEF Blockers, Exhausted
      <4>2. d # c
        BY <1>8, <4>1 DEF Judging
      <4>3. QED
        BY <1>8, <4>1, <4>2 DEF OtherHooksStay, Blockers
    <3>3. QED
      BY <3>1, <3>2
  <2>2. /\ Cardinality(Blockers') \in Nat /\ Cardinality(Blockers') <= Cardinality(Blockers) - 1
    <3>1. IsFiniteSet(Blockers \ {c}) /\ Cardinality(Blockers \ {c}) = Cardinality(Blockers) - 1
      BY <2>1, ClaudesAreFinite, FS_RemoveElement
    <3>2. QED
      BY <2>1, <3>1, FS_Subset, FS_CardinalityType
  <2>3. Cardinality(Blockers) <= Cardinality(Claudes)
    <3>1. Blockers \subseteq Claudes /\ IsFiniteSet(Claudes)
      BY SessionHooksAssumption DEF Blockers
    <3>2. QED
      BY <3>1, FS_Subset
  <2>4. MaxIterations \in Nat /\ Cardinality(Blockers) \in Nat /\ Cardinality(Claudes) \in Nat
    BY ClaudesAreFinite, SessionHooksAssumption
  <2>5. manifest.iterations >= MaxIterations =>
           manifest.iterations - MaxIterations + 1 + Cardinality(Blockers) <= Cardinality(Claudes)
    BY <1>1 DEF Room
  <2>6. QED
    BY <1>4, <1>7, <2>2, <2>3, <2>4, <2>5 DEF Room
<1>14. Remembered' /\ CapturesAreKept'
  BY <1>8, <1>9, <1>10, <1>11, StepRemembers, StepCaptures
<1>15. ~hook[c].bypassed
  BY <1>1, <1>2 DEF Remembers, Judging
<1>16. QED
  BY <1>8, <1>9, <1>12, <1>13, <1>14, <1>15 DEF HooksInv

LEMMA HooksStep == HooksInv /\ [HooksNext]_hookVars => HooksInv'
<1> SUFFICES ASSUME HooksInv, [HooksNext]_hookVars PROVE HooksInv'
  OBVIOUS
<1>1. CASE UNCHANGED hookVars
  <2>1. UNCHANGED <<claude, transcript, planFile, manifest, artifact, snapshots, run, queued,
                    hookPc, hook, blocked, uncounted, left, hookEvents, hookFaults>>
    BY <1>1 DEF hookVars
  <2>2. HookTypes /\ Remembered /\ CapturesAreKept /\ BlocksAreCounted /\ Room
    BY DEF HooksInv
  <2>3. HookTypes' /\ Remembered' /\ BlocksAreCounted'
    BY <2>1, <2>2 DEF HookTypes, Remembered, Remembers, BlocksAreCounted
  <2>4. CapturesAreKept'
    BY <2>1, <2>2 DEF CapturesAreKept, MarkersHaveTranscripts, WhatWasLeftIsCaptured, ApprovedPlansAreKept
  <2>5. Room'
    <3>1. Blockers' = Blockers
      BY <2>1 DEF Blockers, Exhausted
    <3>2. QED
      BY <2>1, <2>2, <3>1 DEF Room
  <2>6. QED
    BY <2>3, <2>4, <2>5 DEF HooksInv
<1>2. ASSUME NEW c \in Claudes, HookStep(c) PROVE HooksInv'
  <2>1. UNCHANGED hookEvents
    BY <1>2 DEF HookStep
  <2>2. CASE Block(c)
    BY <2>1, <2>2, BlockKeeps
  <2>3. CASE CaptureCopy(c) \/ CaptureRecord(c) \/ Approve(c)
    BY <2>1, <2>3, CaptureMoves, ReturnMoves, MovesKeep
  <2>4. CASE StopRecord(c) \/ Reread(c) \/ Passes(c) \/ GivesUp(c)
    BY <2>1, <2>4, GoingMoves, MovesKeep
  <2>5. CASE Enqueue(c) \/ FailureRecord(c)
    BY <2>1, <2>5, MarkerMoves, MovesKeep
  <2>6. QED
    BY <1>2, <2>2, <2>3, <2>4, <2>5 DEF HookStep
<1>3. ASSUME NEW c \in Claudes, HookEvent(c) PROVE HooksInv'
  <2>1. hookEvents' \in 0..MaxEvents
    BY <1>3, SessionHooksAssumption DEF HookEvent, HooksInv, HookTypes
  <2>2. CASE \/ Turn(c) \/ PlanWrite(c) \/ Quit(c) \/ AskForTranscript(c)
             \/ PreCompact(c) \/ SubagentStop(c) \/ CancelVerification(c)
    BY <2>1, <2>2, UserMoves, MovesKeep
  <2>3. CASE ExitPlan(c) \/ StopCopy(c) \/ FailureCopy(c)
    BY <2>1, <2>3, PlanMoves, StopMoves, FailureMoves, MovesKeep
  <2>4. CASE \E e \in Events, u \in Uuids : SessionStart(c, e, u)
    BY <2>1, <2>4, StartMoves, MovesKeep
  <2>5. QED
    BY <1>3, <2>2, <2>3, <2>4 DEF HookEvent
<1>4. QED
  BY <1>1, <1>2, <1>3 DEF HooksNext

\* What hooks remember, keep and count holds in every state.
THEOREM HooksInvariance == HooksSpec => []HooksInv
<1>1. HooksInit => HooksInv
  BY HooksInitInv
<1>2. HooksInv /\ [HooksNext]_hookVars => HooksInv'
  BY HooksStep
<1>3. QED
  BY <1>1, <1>2, PTL DEF HooksSpec

\* What hooks remember is there: conversations that were left have a copy, markers their transcript
\* and approved plans their snapshot, for any number of Claudes, conversations and faults.
THEOREM CapturesKept == HooksSpec => []CapturesAreKept
<1>1. HooksInv => CapturesAreKept
  BY DEF HooksInv
<1>2. QED
  BY <1>1, HooksInvariance, PTL

\* Verification cannot hold a session for ever, for any number of Claudes that stop at the same time:
\* blocked stops are counted, bounded by the maximum and one more for every other Claude, and none is
\* blocked that began after a bypass.
THEOREM VerificationEnding == HooksSpec => VerificationEnds
<1>1. HooksInv => HooksTypeOK /\ BlocksAreBounded /\ BlocksAreCounted
  <2> SUFFICES ASSUME HooksInv PROVE HooksTypeOK /\ BlocksAreBounded /\ BlocksAreCounted
    OBVIOUS
  <2>1. HookTypes /\ BlocksAreCounted /\ Room
    BY DEF HooksInv
  <2>2. HooksTypeOK
    BY <2>1 DEF HooksTypeOK, HookTypes, Memory
  <2>3. BlocksAreBounded
    <3>1. manifest.iterations \in Nat
      BY <2>1 DEF HookTypes, Manifest
    <3>2. blocked \in Nat /\ uncounted \in Nat /\ MaxIterations \in Nat
      BY <2>1, SessionHooksAssumption DEF HookTypes
    <3>3. manifest.iterations <= MaxIterations + Cardinality(Claudes) - 1
      BY <2>1, <3>1, <3>2, ClaudesAreFinite DEF Room
    <3>4. QED
      BY <2>1, <3>1, <3>2, <3>3, ClaudesAreFinite DEF BlocksAreBounded, BlocksAreCounted
  <2>4. QED
    BY <2>1, <2>2, <2>3
<1>2. HooksInv /\ [HooksNext]_hookVars =>
        [\A c \in Claudes : blocked' # blocked /\ hookPc'[c] # hookPc[c] => ~hook[c].bypassed]_hookVars
  <2> SUFFICES ASSUME HooksInv, HooksNext
               PROVE  \A c \in Claudes : blocked' # blocked /\ hookPc'[c] # hookPc[c] => ~hook[c].bypassed
    OBVIOUS
  <2>1. PICK a \in Claudes : HookStep(a) \/ HookEvent(a)
    BY DEF HooksNext
  <2>2. CASE Block(a) /\ UNCHANGED hookEvents
    BY <2>2, BlockKeeps DEF OtherHooksStay
  <2>3. CASE HookStep(a) /\ ~Block(a)
    <3>1. blocked' = blocked
      BY <2>3 DEF HookStep, CaptureCopy, CaptureRecord, Approve, StopRecord, Reread, Passes, GivesUp,
            Enqueue, FailureRecord, stopHistory
    <3>2. QED
      BY <3>1
  <2>4. CASE HookEvent(a)
    <3>1. CASE \/ Turn(a) \/ PlanWrite(a) \/ Quit(a) \/ AskForTranscript(a)
               \/ PreCompact(a) \/ SubagentStop(a) \/ CancelVerification(a)
      BY <3>1 DEF Turn, PlanWrite, Quit, AskForTranscript, PreCompact, SubagentStop, CancelVerification, stopHistory
    <3>2. CASE ExitPlan(a) \/ StopCopy(a) \/ FailureCopy(a)
      BY <3>2 DEF ExitPlan, StopCopy, FailureCopy, stopHistory
    <3>3. CASE \E e \in Events, u \in Uuids : SessionStart(a, e, u)
      BY <3>3 DEF SessionStart
    <3>4. QED
      BY <2>4, <3>1, <3>2, <3>3 DEF HookEvent
  <2>5. HookStep(a) => UNCHANGED hookEvents
    BY DEF HookStep
  <2>6. QED
    BY <2>1, <2>2, <2>3, <2>4, <2>5
<1>3. QED
  BY <1>1, <1>2, HooksInvariance, PTL DEF HooksSpec, VerificationEnds, BypassEndsBlocking

-----------------------------------------------------------------------------
(***************************************************************************)
(* GuardConfig, for any bundles, supervisors and terminals.  What the last *)
(* command said is compared with the manifest, whose intent and overrides  *)
(* it may have written: a supervisor stands in the intent, and nothing     *)
(* disables it, as long as no later command speaks (SaidOfSupervisor), and *)
(* what a prompt set stands in the overrides (SaidOfOverrides).  What is   *)
(* in effect then follows from how the two are merged.                     *)
(***************************************************************************)

GuardTypes ==
    /\ intent \in Opt(PolicyIntent) /\ override \in Overrides
    /\ approved \in SUBSET GuardPlans /\ begun \in [Terminals -> Opt(Begun)] /\ commands \in 0..MaxCommands

SaidOfSupervisor ==
    /\ said.by = "supervise" =>
          /\ Supervised /\ intent.enabled = TRUE /\ override.enabled = None /\ said.target \in Supervisors
          /\ intent.supervisor.target = said.target /\ intent.supervisor.suspended = FALSE
    /\ said.by = "on" /\ Supervised => intent.supervisor.suspended = FALSE
    /\ said.by = "off" /\ Supervised => intent.supervisor.suspended = TRUE
    /\ said.by = "remove" => ~Supervised

SaidOfOverrides ==
    said.by \in {"prompt", "set"} =>
        /\ said.enabled # None => override.enabled = said.enabled /\ override.void # "policy"
        /\ said.bundles # None => override.bundles = said.bundles /\ override.void # "policy"

GuardInv == GuardTypes /\ SaidOfSupervisor /\ SaidOfOverrides

\* The manifest's policy, or that of a session that was given none.
LEMMA BaseIs ==
  ASSUME GuardTypes, NEW base, base = IF intent = None THEN NoPolicy ELSE intent
  PROVE  base \in PolicyIntent
<1>1. NoPolicy \in PolicyIntent
  BY DEF NoPolicy, PolicyIntent, FailModes, Opt
<1>2. intent # None => intent \in PolicyIntent
  BY DEF GuardTypes, Opt
<1>3. QED
  BY <1>1, <1>2

LEMMA SupervisedIs ==
  ASSUME GuardTypes, Supervised
  PROVE  intent \in PolicyIntent /\ intent.supervisor \in Supervision
<1>1. intent \in PolicyIntent
  BY DEF GuardTypes, Supervised, Opt
<1>2. QED
  BY <1>1 DEF PolicyIntent, Supervised, Opt

\* The supervisor that is merged may have no target.
Merged == [target : Opt(Supervisors), plan : Opt(GuardPlans), suspended : BOOLEAN]

LEMMA MergeIs ==
  ASSUME GuardTypes
  PROVE  /\ EffectiveSupervisor \in Opt(Merged)
         /\ Supervised /\ override.void # "supervisor" =>
               EffectiveSupervisor =
                  [target |-> Overridden(override.target, intent.supervisor.target),
                   plan |-> Overridden(override.plan, intent.supervisor.plan),
                   suspended |-> Overridden(override.suspended, intent.supervisor.suspended)]
         /\ ~Supervised /\ EffectiveSupervisor # None =>
               EffectiveSupervisor.target = Overridden(override.target, None)
<1> DEFINE alone == [target |-> None, plan |-> None, suspended |-> FALSE]
<1>1. PICK base : base = IF Supervised THEN intent.supervisor ELSE alone
  OBVIOUS
<1>2. base \in Merged
  <2>1. alone \in Merged
    BY DEF Merged, Opt
  <2>2. Supervised => intent.supervisor \in Merged
    BY SupervisedIs DEF Supervision, Merged, Opt
  <2>3. QED
    BY <1>1, <2>1, <2>2
<1>3. PICK r : r = [target |-> Overridden(override.target, base.target),
                    plan |-> Overridden(override.plan, base.plan),
                    suspended |-> Overridden(override.suspended, base.suspended)]
  OBVIOUS
<1>4. /\ override.target \in Opt(Supervisors \cup {Null}) /\ override.plan \in Opt({"file", Null})
      /\ override.suspended \in Opt(BOOLEAN)
  BY DEF GuardTypes, Overrides
<1>5. Overridden(override.target, base.target) \in Opt(Supervisors)
  BY <1>2, <1>4 DEF Overridden, Merged, Opt
<1>6. Overridden(override.plan, base.plan) \in Opt(GuardPlans)
  BY <1>2, <1>4 DEF Overridden, Merged, Opt, GuardPlans
<1>7. Overridden(override.suspended, base.suspended) \in BOOLEAN
  <2>1. base.suspended \in BOOLEAN
    BY <1>2 DEF Merged
  <2>2. CASE override.suspended = None
    BY <2>1, <2>2 DEF Overridden
  <2>3. CASE override.suspended \in BOOLEAN
    BY <2>3, GuardRecordAssumption DEF Overridden
  <2>4. QED
    BY <1>4, <2>2, <2>3 DEF Opt
<1>8. r \in Merged
  BY <1>3, <1>5, <1>6, <1>7 DEF Merged
<1>9. EffectiveSupervisor =
        IF override.void = "supervisor" THEN None
        ELSE IF ~Supervised /\ override.target = None /\ override.plan = None /\ override.suspended = None
        THEN None ELSE r
  BY <1>1, <1>3 DEF EffectiveSupervisor
<1>10. ~Supervised => r.target = Overridden(override.target, None)
  BY <1>1, <1>3
<1>11. QED
  BY <1>1, <1>3, <1>8, <1>9, <1>10 DEF Opt

\* What is in effect, field by field.
LEMMA EffectiveIs ==
  ASSUME GuardTypes, NEW base, base = IF intent = None THEN NoPolicy ELSE intent
  PROVE  /\ override.void = "policy" => Effective = NoPolicy
         /\ override.void # "policy" =>
               /\ Effective.enabled = Overridden(override.enabled, base.enabled)
               /\ Effective.bundles = Overridden(override.bundles, base.bundles)
               /\ Effective.mode = Overridden(override.mode, base.mode)
               /\ Effective.strict = Overridden(override.strict, base.strict)
               /\ Effective.supervisor = EffectiveSupervisor
<1>1. Effective = IF override.void = "policy" THEN NoPolicy
        ELSE [enabled |-> Overridden(override.enabled, base.enabled),
              bundles |-> Overridden(override.bundles, base.bundles),
              mode |-> Overridden(override.mode, base.mode),
              strict |-> Overridden(override.strict, base.strict),
              supervisor |-> EffectiveSupervisor]
  BY DEF Effective
<1>2. QED
  BY <1>1

\* A supervisor that stands in the intent, unsuspended, judges unless an override shadows it.
LEMMA UnshadowedJudges ==
  ASSUME GuardTypes, Supervised, ~intent.supervisor.suspended, ~Shadows(intent.supervisor.target)
  PROVE  Judges(Effective) /\ Effective.supervisor.target = intent.supervisor.target
<1>1. PICK s : s = intent.supervisor
  OBVIOUS
<1>2. s \in Supervision /\ ~s.suspended /\ s.suspended \in BOOLEAN /\ s.target \in Supervisors
  BY <1>1, SupervisedIs DEF Supervision
<1>3. /\ override.void = None /\ override.target \in {None, s.target} /\ override.suspended # TRUE
      /\ override.suspended \in Opt(BOOLEAN)
  BY <1>1 DEF Shadows, GuardTypes, Overrides
<1>4. s.target # None /\ s.target # Null /\ None # "supervisor" /\ None # "policy"
  <2>1. s.target # None /\ s.target # Null
    BY <1>2, GuardConfigAssumption
  <2>2. None # "supervisor" /\ None # "policy"
    BY GuardRecordAssumption
  <2>3. QED
    BY <2>1, <2>2
<1>5. Overridden(override.target, s.target) = s.target
  BY <1>3, <1>4 DEF Overridden
<1>6. Overridden(override.suspended, s.suspended) = FALSE
  <2>1. CASE override.suspended = None
    BY <1>2, <2>1 DEF Overridden
  <2>2. CASE override.suspended = FALSE
    BY <2>2, GuardRecordAssumption DEF Overridden
  <2>3. QED
    BY <1>3, <2>1, <2>2 DEF Opt
<1>7. PICK plan : plan = Overridden(override.plan, s.plan)
  OBVIOUS
<1>8. EffectiveSupervisor = [target |-> s.target, plan |-> plan, suspended |-> FALSE]
  <2>1. EffectiveSupervisor = [target |-> Overridden(override.target, s.target),
                               plan |-> Overridden(override.plan, s.plan),
                               suspended |-> Overridden(override.suspended, s.suspended)]
    BY <1>1, <1>3, <1>4, MergeIs
  <2>2. QED
    BY <1>5, <1>6, <1>7, <2>1
<1>9. EffectiveSupervisor # None
  <2>1. EffectiveSupervisor \in Opt(Merged)
    BY MergeIs
  <2>2. plan \in Opt(GuardPlans)
    <3>1. override.plan \in Opt({"file", Null}) /\ s.plan \in Opt(GuardPlans)
      BY <1>2 DEF GuardTypes, Overrides, Supervision
    <3>2. QED
      BY <1>7, <3>1 DEF Overridden, Opt, GuardPlans
  <2>3. EffectiveSupervisor \in Supervision
    BY <1>2, <1>8, <2>2 DEF Supervision
  <2>4. QED
    BY <2>3, GuardRecordAssumption
<1>10. Effective.supervisor = EffectiveSupervisor
  BY <1>3, <1>4, EffectiveIs
<1>11. QED
  BY <1>1, <1>4, <1>8, <1>9, <1>10 DEF Judges

LEMMA GuardKeepsEffect ==
  ASSUME GuardInv PROVE CommandsTakeEffect
<1>1. PICK base : base = IF intent = None THEN NoPolicy ELSE intent
  OBVIOUS
<1>2. GuardTypes /\ SaidOfSupervisor /\ SaidOfOverrides
  BY DEF GuardInv
<1>3. /\ override.void = "policy" => Effective = NoPolicy
      /\ override.void # "policy" =>
               /\ Effective.enabled = Overridden(override.enabled, base.enabled)
               /\ Effective.bundles = Overridden(override.bundles, base.bundles)
               /\ Effective.supervisor = EffectiveSupervisor
  BY <1>1, <1>2, EffectiveIs
<1>4. NoPolicy.supervisor = None
  BY DEF NoPolicy
<1>5. ASSUME said.by = "supervise", ~Shadows(said.target)
      PROVE  Effective.enabled /\ Judges(Effective) /\ Effective.supervisor.target = said.target
  <2>1. Supervised /\ intent.enabled = TRUE /\ override.enabled = None
        /\ intent.supervisor.target = said.target /\ ~intent.supervisor.suspended
    BY <1>2, <1>5 DEF SaidOfSupervisor
  <2>2. Judges(Effective) /\ Effective.supervisor.target = said.target
    BY <1>2, <1>5, <2>1, UnshadowedJudges
  <2>3. Effective.enabled = Overridden(override.enabled, base.enabled)
    BY <1>3, <1>4, <2>2 DEF Judges
  <2>4. base = intent
    BY <1>1, <2>1 DEF Supervised
  <2>5. QED
    BY <2>1, <2>2, <2>3, <2>4 DEF Overridden
<1>6. said.by = "on" /\ Supervised /\ ~Shadows(intent.supervisor.target) => Judges(Effective)
  BY <1>2, UnshadowedJudges DEF SaidOfSupervisor
<1>7. ASSUME said.by = "off", Supervised, override.suspended # FALSE PROVE ~Judges(Effective)
  <2>1. intent.supervisor.suspended = TRUE
    BY <1>2, <1>7 DEF SaidOfSupervisor
  <2>2. override.suspended \in {None, TRUE}
    BY <1>2, <1>7 DEF GuardTypes, Overrides, Opt
  <2>3. Overridden(override.suspended, intent.supervisor.suspended) = TRUE
    BY <2>1, <2>2, GuardRecordAssumption DEF Overridden
  <2>4. EffectiveSupervisor = None \/ EffectiveSupervisor.suspended = TRUE
    <3>1. CASE override.void = "supervisor"
      BY <3>1 DEF EffectiveSupervisor
    <3>2. CASE override.void # "supervisor"
      BY <1>2, <1>7, <2>3, <3>2, MergeIs
    <3>3. QED
      BY <3>1, <3>2
  <2>5. QED
    BY <1>3, <1>4, <2>4 DEF Judges
<1>8. ASSUME said.by = "remove", override.target \in {None, Null} PROVE ~Judges(Effective)
  <2>1. ~Supervised
    BY <1>2, <1>8 DEF SaidOfSupervisor
  <2>2. Overridden(override.target, None) = None
    BY <1>8 DEF Overridden
  <2>3. EffectiveSupervisor = None \/ EffectiveSupervisor.target = None
    BY <1>2, <2>1, <2>2, MergeIs
  <2>4. QED
    BY <1>3, <1>4, <2>3 DEF Judges
<1>9. PromptCommandsTakeEffect
  <2>1. SUFFICES ASSUME said.by \in {"prompt", "set"}
                 PROVE  /\ said.enabled # None => Effective.enabled = said.enabled
                        /\ said.bundles # None => Effective.bundles = said.bundles
    BY DEF PromptCommandsTakeEffect
  <2>2. override.enabled \in Opt(BOOLEAN) /\ override.bundles \in Opt(SUBSET Bundles)
    BY <1>2 DEF GuardTypes, Overrides
  <2>3. /\ override.enabled # None => override.enabled # Null
        /\ override.bundles # None => override.bundles # Null
    BY <2>2, GuardRecordAssumption DEF Opt
  <2>4. QED
    BY <1>2, <1>3, <2>1, <2>3 DEF SaidOfOverrides, Overridden
<1>10. SuperviseTakesEffect
  BY <1>5, <1>6, <1>7, <1>8 DEF SuperviseTakesEffect
<1>11. QED
  BY <1>9, <1>10 DEF CommandsTakeEffect

LEMMA GuardInitInv == ASSUME GuardInit PROVE GuardInv
<1>1. /\ intent = None /\ override = NoOverride /\ approved = {} /\ begun = [t \in Terminals |-> None]
      /\ said = Silence /\ commands = 0
  BY DEF GuardInit
<1>2. 0 \in 0..MaxCommands
  BY GuardConfigAssumption
<1>3. NoOverride \in Overrides
  BY DEF NoOverride, Overrides, Opt
<1>4. GuardTypes
  BY <1>1, <1>2, <1>3 DEF GuardTypes, Opt
<1>5. said.by = "nobody"
  BY <1>1 DEF Silence
<1>6. QED
  BY <1>4, <1>5 DEF GuardInv, SaidOfSupervisor, SaidOfOverrides

\* Commands of a prompt, of `session set` and of `session reset` write overrides only.
LEMMA PromptSays ==
  ASSUME GuardTypes, commands' \in 0..MaxCommands, override' \in Overrides, UNCHANGED <<intent, approved, begun>>,
         said'.by \in {"prompt", "set"},
         said'.enabled # None => override'.enabled = said'.enabled /\ override'.void # "policy",
         said'.bundles # None => override'.bundles = said'.bundles /\ override'.void # "policy"
  PROVE  GuardInv'
<1>1. GuardTypes'
  BY DEF GuardTypes
<1>2. SaidOfSupervisor'
  BY DEF SaidOfSupervisor
<1>3. SaidOfOverrides'
  BY DEF SaidOfOverrides
<1>4. QED
  BY <1>1, <1>2, <1>3 DEF GuardInv

LEMMA SilentSteps ==
  ASSUME GuardInv, GuardTypes', UNCHANGED <<intent, override, said>>
  PROVE  GuardInv'
<1>1. SaidOfSupervisor' /\ SaidOfOverrides'
  BY DEF GuardInv, SaidOfSupervisor, SaidOfOverrides, Supervised
<1>2. QED
  BY <1>1 DEF GuardInv

\* The fields of the overrides, each written as itself.
LEMMA OverrideFields ==
  ASSUME NEW o \in Overrides
  PROVE  /\ o = [enabled |-> o.enabled, bundles |-> o.bundles, mode |-> o.mode, strict |-> o.strict,
                 target |-> o.target, plan |-> o.plan, suspended |-> o.suspended, void |-> o.void]
         /\ o.enabled \in Opt(BOOLEAN) /\ o.bundles \in Opt(SUBSET Bundles) /\ o.mode \in Opt(FailModes)
         /\ o.strict \in Opt(BOOLEAN) /\ o.target \in Opt(Supervisors \cup {Null})
         /\ o.plan \in Opt({"file", Null}) /\ o.suspended \in Opt(BOOLEAN)
         /\ o.void \in Opt({"policy", "supervisor"})
BY DEF Overrides

LEMMA SectionsAre ==
  ASSUME override \in Overrides
  PROVE  /\ PolicyOverride \in Overrides /\ PolicyOverride.void # "policy"
         /\ SupervisorOverride \in Overrides
<1>1. PolicyOverride = [override EXCEPT !.void = IF override.void = "policy" THEN None ELSE override.void]
  BY DEF PolicyOverride, Overrides
<1>2. PICK v : v = IF override.void = "policy" THEN None ELSE override.void
  OBVIOUS
<1>3. v \in Opt({"policy", "supervisor"}) /\ v # "policy"
  <2>1. None # "policy"
    BY GuardRecordAssumption
  <2>2. override.void \in Opt({"policy", "supervisor"})
    BY OverrideFields
  <2>3. QED
    BY <1>2, <2>1, <2>2 DEF Opt
<1>4. PolicyOverride = [override EXCEPT !.void = v]
  BY <1>1, <1>2
<1>5. PolicyOverride \in Overrides /\ PolicyOverride.void = v
  BY <1>3, <1>4 DEF Overrides
<1>6. SupervisorOverride \in Overrides
  BY DEF SupervisorOverride, Overrides, Opt
<1>7. QED
  BY <1>3, <1>5, <1>6

\* One field of the overrides is given one of its values.
LEMMA SettingOne ==
  ASSUME NEW o \in Overrides, NEW f \in PolicyFields \cup SupervisorFields, NEW v \in Values(f)
  PROVE  [o EXCEPT ![f] = v] \in Overrides /\ [o EXCEPT ![f] = v][f] = v /\ [o EXCEPT ![f] = v].void = o.void
<1>1. PICK r : r = [o EXCEPT ![f] = v]
  OBVIOUS
<1>2. f \in {"enabled", "strict", "suspended"} => v \in BOOLEAN
  BY DEF Values
<1>3. f = "bundles" => v \in SUBSET Bundles
  BY DEF Values
<1>4. f = "mode" => v \in FailModes
  BY DEF Values
<1>5. f = "target" => v \in Supervisors \cup {Null}
  BY DEF Values
<1>6. f = "plan" => v \in {"file", Null}
  BY DEF Values
<1>7. CASE f = "enabled"
  <2>1. r = [o EXCEPT !.enabled = v]
    BY <1>1, <1>7
  <2>2. r \in Overrides /\ r.enabled = v /\ r.void = o.void
    BY <1>2, <1>7, <2>1 DEF Overrides, Opt
  <2>3. QED
    BY <1>1, <1>7, <2>2
<1>8. CASE f = "bundles"
  <2>1. r = [o EXCEPT !.bundles = v]
    BY <1>1, <1>8
  <2>2. r \in Overrides /\ r.bundles = v /\ r.void = o.void
    BY <1>3, <1>8, <2>1 DEF Overrides, Opt
  <2>3. QED
    BY <1>1, <1>8, <2>2
<1>9. CASE f = "mode"
  <2>1. r = [o EXCEPT !.mode = v]
    BY <1>1, <1>9
  <2>2. r \in Overrides /\ r.mode = v /\ r.void = o.void
    BY <1>4, <1>9, <2>1 DEF Overrides, Opt
  <2>3. QED
    BY <1>1, <1>9, <2>2
<1>10. CASE f = "strict"
  <2>1. r = [o EXCEPT !.strict = v]
    BY <1>1, <1>10
  <2>2. r \in Overrides /\ r.strict = v /\ r.void = o.void
    BY <1>2, <1>10, <2>1 DEF Overrides, Opt
  <2>3. QED
    BY <1>1, <1>10, <2>2
<1>11. CASE f = "target"
  <2>1. r = [o EXCEPT !.target = v]
    BY <1>1, <1>11
  <2>2. r \in Overrides /\ r.target = v /\ r.void = o.void
    BY <1>5, <1>11, <2>1 DEF Overrides, Opt
  <2>3. QED
    BY <1>1, <1>11, <2>2
<1>12. CASE f = "plan"
  <2>1. r = [o EXCEPT !.plan = v]
    BY <1>1, <1>12
  <2>2. r \in Overrides /\ r.plan = v /\ r.void = o.void
    BY <1>6, <1>12, <2>1 DEF Overrides, Opt
  <2>3. QED
    BY <1>1, <1>12, <2>2
<1>13. CASE f = "suspended"
  <2>1. r = [o EXCEPT !.suspended = v]
    BY <1>1, <1>13
  <2>2. r \in Overrides /\ r.suspended = v /\ r.void = o.void
    BY <1>2, <1>13, <2>1 DEF Overrides, Opt
  <2>3. QED
    BY <1>1, <1>13, <2>2
<1>14. QED
  BY <1>7, <1>8, <1>9, <1>10, <1>11, <1>12, <1>13 DEF PolicyFields, SupervisorFields

LEMMA OverrideCommands ==
  ASSUME GuardTypes, commands' \in 0..MaxCommands, OverrideCommand
  PROVE  GuardInv'
<1>1. override \in Overrides
  BY DEF GuardTypes
<1>2. CASE \E f \in PolicyFields : \E v \in Values(f) : SetOverride(f, v)
  <2>1. PICK f \in PolicyFields : \E v \in Values(f) : SetOverride(f, v)
    BY <1>2
  <2>2. PICK v \in Values(f) : SetOverride(f, v)
    BY <2>1
  <2>3. PICK o : o = PolicyOverride
    OBVIOUS
  <2>4. o \in Overrides /\ o.void # "policy"
    BY <1>1, <2>3, SectionsAre
  <2>5. override' = [o EXCEPT ![f] = v]
    BY <2>2, <2>3 DEF SetOverride
  <2>6. override' \in Overrides /\ override'[f] = v /\ override'.void # "policy"
    <3>1. f \in PolicyFields \cup SupervisorFields
      OBVIOUS
    <3>2. PICK r : r = [o EXCEPT ![f] = v]
      OBVIOUS
    <3>3. [o EXCEPT ![f] = v] \in Overrides /\ [o EXCEPT ![f] = v][f] = v /\ [o EXCEPT ![f] = v].void = o.void
      BY ONLY <2>2, <2>4, <3>1, SettingOne
    <3>4. r \in Overrides /\ r[f] = v /\ r.void = o.void
      BY <3>2, <3>3
    <3>5. QED
      BY <2>4, <2>5, <3>2, <3>4
  <2>7. /\ said'.by = "set" /\ said'.enabled = (IF f = "enabled" THEN v ELSE None)
        /\ said'.bundles = (IF f = "bundles" THEN v ELSE None)
    BY <2>2 DEF SetOverride, Says
  <2>8. QED
    BY <2>2, <2>6, <2>7, PromptSays DEF SetOverride
<1>3. ASSUME override' \in Overrides, UNCHANGED <<intent, approved, begun>>, Says("set", None, None, None)
      PROVE  GuardInv'
  <2>1. said'.by = "set" /\ said'.enabled = None /\ said'.bundles = None
    BY <1>3 DEF Says
  <2>2. QED
    BY <1>3, <2>1, PromptSays
<1>4. CASE \E f \in SupervisorFields : \E v \in Values(f) : SetSupervisorOverride(f, v)
  <2>1. PICK f \in SupervisorFields : \E v \in Values(f) : SetSupervisorOverride(f, v)
    BY <1>4
  <2>2. PICK v \in Values(f) : SetSupervisorOverride(f, v)
    BY <2>1
  <2>3. PICK o : o = SupervisorOverride
    OBVIOUS
  <2>4. o \in Overrides
    BY <1>1, <2>3, SectionsAre
  <2>5. override' \in Overrides
    BY <2>2, <2>3, <2>4, SettingOne DEF SetSupervisorOverride
  <2>6. QED
    BY <1>3, <2>2, <2>5 DEF SetSupervisorOverride
<1>5. CASE \E part \in {"policy", "supervisor"} : Void(part)
  <2>1. PICK part \in {"policy", "supervisor"} : Void(part)
    BY <1>5
  <2>2. [NoOverride EXCEPT !.void = part] \in Overrides
    BY DEF NoOverride, Overrides, Opt
  <2>3. [override EXCEPT !.target = None, !.plan = None, !.suspended = None, !.void = part] \in Overrides
    BY <1>1 DEF Overrides, Opt
  <2>4. override' \in Overrides
    BY <2>1, <2>2, <2>3 DEF Void
  <2>5. QED
    BY <1>3, <2>1, <2>4 DEF Void
<1>6. CASE \E keys \in Resettable : ResetOverrides(keys)
  <2>1. PICK keys : ResetOverrides(keys)
    BY <1>6
  <2>2. override' = [f \in DOMAIN override |-> IF f \in keys THEN None ELSE override[f]]
    BY <2>1 DEF ResetOverrides
  <2>3. DOMAIN override = {"enabled", "bundles", "mode", "strict", "target", "plan", "suspended", "void"}
    BY <1>1 DEF Overrides
  <2>4. override' = [enabled |-> IF "enabled" \in keys THEN None ELSE override.enabled,
                     bundles |-> IF "bundles" \in keys THEN None ELSE override.bundles,
                     mode |-> IF "mode" \in keys THEN None ELSE override.mode,
                     strict |-> IF "strict" \in keys THEN None ELSE override.strict,
                     target |-> IF "target" \in keys THEN None ELSE override.target,
                     plan |-> IF "plan" \in keys THEN None ELSE override.plan,
                     suspended |-> IF "suspended" \in keys THEN None ELSE override.suspended,
                     void |-> IF "void" \in keys THEN None ELSE override.void]
    BY <2>2, <2>3
  <2>5. override' \in Overrides
    BY <1>1, <2>4, OverrideFields DEF Overrides, Opt
  <2>6. QED
    BY <1>3, <2>1, <2>5 DEF ResetOverrides
<1>7. QED
  BY <1>2, <1>4, <1>5, <1>6 DEF OverrideCommand

\* What `forge guard` says is not about a supervisor or an override.
LEMMA IntentCommands ==
  ASSUME GuardTypes, commands' \in 0..MaxCommands,
         \/ \E b \in SUBSET (Bundles \ {"workflow"}), mode \in FailModes, p \in BOOLEAN : Enable(b, mode, p)
         \/ Disable
  PROVE  GuardInv'
<1>1. UNCHANGED <<override, approved, begun>> /\ said'.by = "cli" /\ intent' \in PolicyIntent
  <2>1. CASE Disable
    <3>1. intent' = IF intent = None THEN NoPolicy ELSE [intent EXCEPT !.enabled = FALSE]
      BY <2>1 DEF Disable
    <3>2. NoPolicy \in PolicyIntent
      BY DEF NoPolicy, PolicyIntent, FailModes, Opt
    <3>3. intent # None => intent \in PolicyIntent
      BY DEF GuardTypes, Opt
    <3>4. intent # None => [intent EXCEPT !.enabled = FALSE] \in PolicyIntent
      BY <3>3 DEF PolicyIntent
    <3>5. QED
      BY <2>1, <3>1, <3>2, <3>4 DEF Disable, Says
  <2>2. CASE \E b \in SUBSET (Bundles \ {"workflow"}), mode \in FailModes, p \in BOOLEAN : Enable(b, mode, p)
    <3>1. PICK b \in SUBSET Bundles, mode \in FailModes, p \in BOOLEAN : Enable(b, mode, p)
      BY <2>2
    <3>2. PICK s \in BOOLEAN : s = ~(p /\ "tdd" \in b)
      OBVIOUS
    <3>3. intent' = [enabled |-> TRUE, bundles |-> b, mode |-> mode, strict |-> s, supervisor |-> None]
      BY <3>1, <3>2 DEF Enable
    <3>4. intent' \in PolicyIntent
      BY <3>3 DEF PolicyIntent, Opt
    <3>5. QED
      BY <3>1, <3>4 DEF Enable, Says
  <2>3. QED
    BY <2>1, <2>2
<1>2. GuardTypes'
  BY <1>1 DEF GuardTypes, Opt
<1>3. SaidOfSupervisor' /\ SaidOfOverrides'
  BY <1>1 DEF SaidOfSupervisor, SaidOfOverrides
<1>4. QED
  BY <1>2, <1>3 DEF GuardInv

LEMMA PromptCommands ==
  ASSUME GuardTypes, commands' \in 0..MaxCommands,
         \/ \E b \in SUBSET (Bundles \ {"workflow"}), mode \in FailModes, p \in BOOLEAN : DirectEnable(b, mode, p)
         \/ DirectDisable
  PROVE  GuardInv'
<1>1. PICK o : o = PolicyOverride
  OBVIOUS
<1>2. o \in Overrides /\ o.void # "policy"
  BY <1>1, SectionsAre DEF GuardTypes
<1>3. CASE \E b \in SUBSET (Bundles \ {"workflow"}), mode \in FailModes, p \in BOOLEAN : DirectEnable(b, mode, p)
  <2>1. PICK b \in SUBSET Bundles, mode \in FailModes, p \in BOOLEAN : DirectEnable(b, mode, p)
    BY <1>3
  <2>2. PICK s : s = IF p /\ "tdd" \in b THEN FALSE ELSE o.strict
    OBVIOUS
  <2>3. s \in Opt(BOOLEAN)
    BY <1>2, <2>2, OverrideFields DEF Opt
  <2>4. override' = [o EXCEPT !.enabled = TRUE, !.bundles = b, !.mode = mode, !.strict = s]
    BY <1>1, <1>2, <2>1, <2>2 DEF DirectEnable, Overrides
  <2>5. override' \in Overrides /\ override'.enabled = TRUE /\ override'.bundles = b /\ override'.void = o.void
    BY <1>2, <2>3, <2>4 DEF Overrides, Opt
  <2>6. said'.by = "prompt" /\ said'.enabled = TRUE /\ said'.bundles = b
    BY <2>1 DEF DirectEnable, Says
  <2>7. QED
    BY <1>2, <2>1, <2>5, <2>6, PromptSays DEF DirectEnable
<1>4. CASE DirectDisable
  <2>1. override' = [o EXCEPT !.enabled = FALSE]
    BY <1>1, <1>4 DEF DirectDisable
  <2>2. override' \in Overrides /\ override'.enabled = FALSE /\ override'.void = o.void
    BY <1>2, <2>1 DEF Overrides, Opt
  <2>3. said'.by = "prompt" /\ said'.enabled = FALSE /\ said'.bundles = None
    BY <1>4 DEF DirectDisable, Says
  <2>4. QED
    BY <1>2, <1>4, <2>2, <2>3, PromptSays DEF DirectDisable
<1>5. QED
  BY <1>3, <1>4

\* A supervisor that is set stands in the intent.
LEMMA SuperviseSays ==
  ASSUME GuardTypes, commands' \in 0..MaxCommands, NEW t \in Supervisors, Supervise(t)
  PROVE  GuardInv'
<1>1. override \in Overrides
  BY DEF GuardTypes
<1>2. PICK base, s : /\ base = IF intent = None THEN NoPolicy ELSE intent
                     /\ s = [target |-> t, plan |-> None, suspended |-> FALSE]
  OBVIOUS
<1>3. base \in PolicyIntent /\ s \in Supervision /\ s.target = t /\ s.suspended = FALSE
  BY <1>2, BaseIs DEF Supervision, Opt
<1>4. intent' = [base EXCEPT !.enabled = TRUE, !.supervisor = s]
  BY <1>2 DEF Supervise
<1>5. intent' \in PolicyIntent /\ intent'.enabled = TRUE /\ intent'.supervisor = s
  BY <1>3, <1>4 DEF PolicyIntent, Opt
<1>6. override' = [override EXCEPT !.enabled = None] /\ UNCHANGED <<approved, begun>>
  BY DEF Supervise
<1>7. override' \in Overrides /\ override'.enabled = None
  BY <1>1, <1>6 DEF Overrides, Opt
<1>8. GuardTypes'
  BY <1>5, <1>6, <1>7 DEF GuardTypes, Opt
<1>9. said'.by = "supervise" /\ said'.target = t
  BY DEF Supervise, Says
<1>10. intent' # None /\ s # None
  BY <1>3, <1>5, GuardRecordAssumption
<1>11. SaidOfSupervisor' /\ SaidOfOverrides'
  BY <1>3, <1>5, <1>7, <1>9, <1>10 DEF SaidOfSupervisor, SaidOfOverrides, Supervised
<1>12. QED
  BY <1>8, <1>11 DEF GuardInv

\* The second step of a supervise command.
LEMMA SwitchSays ==
  ASSUME GuardTypes, commands' = commands, NEW tm \in Terminals, SwitchWrites(tm)
  PROVE  GuardInv'
<1>1. begun[tm] # None /\ begun[tm] \in Begun
  BY DEF SwitchWrites, GuardTypes, Opt
<1>2. PICK p : p = begun[tm]
  OBVIOUS
<1>3. p.command \in SwitchCommands /\ p.plan \in Opt(GuardPlans)
  BY <1>1, <1>2 DEF Begun
<1>4. /\ begun' = [begun EXCEPT ![tm] = None] /\ UNCHANGED <<override, approved>>
      /\ said'.by = p.command
      /\ intent' = IF Supervised THEN [intent EXCEPT !.supervisor = Switched(p, intent.supervisor)] ELSE intent
  BY <1>2 DEF SwitchWrites, Says
<1>5. begun' \in [Terminals -> Opt(Begun)]
  BY <1>4 DEF GuardTypes, Opt
<1>6. said'.by \notin {"supervise", "prompt", "set"}
  BY <1>3, <1>4 DEF SwitchCommands
<1>7. CASE ~Supervised
  <2>1. GuardTypes' /\ ~Supervised'
    BY <1>4, <1>5, <1>7 DEF GuardTypes, Supervised
  <2>2. SaidOfSupervisor' /\ SaidOfOverrides'
    BY <1>6, <2>1 DEF SaidOfSupervisor, SaidOfOverrides
  <2>3. QED
    BY <2>1, <2>2 DEF GuardInv
<1>8. CASE Supervised
  <2>1. PICK s : s = intent.supervisor
    OBVIOUS
  <2>2. intent \in PolicyIntent /\ s \in Supervision
    BY <1>8, <2>1, SupervisedIs
  <2>3. PICK n : n = Switched(p, s)
    OBVIOUS
  <2>4. /\ p.command = "off" => n \in Supervision /\ n.suspended = TRUE
        /\ p.command = "on" => n \in Supervision /\ n.suspended = FALSE
        /\ p.command = "remove" => n = None
        /\ p.command = "reload" => n \in Supervision
    <3>1. p.command = "off" => n = [s EXCEPT !.suspended = TRUE]
      BY <2>3 DEF Switched
    <3>2. p.command = "on" => n = [s EXCEPT !.suspended = FALSE]
      BY <2>3 DEF Switched
    <3>3. p.command = "remove" => n = None
      BY <2>3 DEF Switched
    <3>4. p.command = "reload" => n = [s EXCEPT !.plan = p.plan]
      BY <2>3 DEF Switched
    <3>5. QED
      BY <1>3, <2>2, <3>1, <3>2, <3>3, <3>4 DEF Supervision
  <2>5. n \in Opt(Supervision)
    BY <1>3, <2>4 DEF Opt, SwitchCommands
  <2>6. intent' = [intent EXCEPT !.supervisor = n]
    BY <1>4, <1>8, <2>1, <2>3
  <2>7. intent' \in PolicyIntent /\ intent'.supervisor = n
    BY <2>2, <2>5, <2>6 DEF PolicyIntent
  <2>8. GuardTypes'
    BY <1>4, <1>5, <2>7 DEF GuardTypes, Opt
  <2>9. SaidOfSupervisor'
    BY <1>4, <1>6, <2>4, <2>7 DEF SaidOfSupervisor, Supervised
  <2>10. SaidOfOverrides'
    BY <1>6 DEF SaidOfOverrides
  <2>11. QED
    BY <2>8, <2>9, <2>10 DEF GuardInv
<1>9. QED
  BY <1>7, <1>8

\* The nearest plan is one of those approved.
LEMMA NearestIs == ASSUME GuardTypes PROVE NearestPlan \in Opt(GuardPlans)
<1>1. PlanSources \in [1..3 -> GuardPlans]
  BY DEF PlanSources, GuardPlans
<1>2. PICK found : found = {i \in DOMAIN PlanSources : PlanSources[i] \in approved}
  OBVIOUS
<1>3. found # {} => \E i \in found : \A j \in found : i <= j
  <2>1. found \subseteq 1..3
    BY <1>1, <1>2
  <2>2. CASE 1 \in found
    BY <2>1, <2>2
  <2>3. CASE 1 \notin found /\ 2 \in found
    BY <2>1, <2>3
  <2>4. CASE 1 \notin found /\ 2 \notin found /\ found # {}
    <3>1. \A j \in found : j \in Nat /\ 1 <= j /\ j <= 3 /\ j # 1 /\ j # 2
      BY <2>1, <2>4
    <3>2. \A j \in found : j = 3
      BY <3>1
    <3>3. QED
      BY <2>4, <3>2
  <2>5. QED
    BY <2>2, <2>3, <2>4
<1>4. NearestPlan = IF found = {} THEN None ELSE PlanSources[CHOOSE i \in found : \A j \in found : i <= j]
  BY <1>2 DEF NearestPlan
<1>5. CASE found = {}
  BY <1>4, <1>5 DEF Opt
<1>6. CASE found # {}
  <2>1. PICK i \in found : i = CHOOSE n \in found : \A j \in found : n <= j
    BY <1>3, <1>6
  <2>2. NearestPlan = PlanSources[i] /\ PlanSources[i] \in approved
    BY <1>2, <1>4, <1>6, <2>1
  <2>3. QED
    BY <2>2 DEF GuardTypes, Opt
<1>7. QED
  BY <1>5, <1>6

\* The first step of a supervise command says nothing yet.
LEMMA ReadsSay ==
  ASSUME GuardInv, commands' \in 0..MaxCommands, NEW tm \in Terminals,
         (\E c \in {"off", "on", "remove"} : SwitchReads(tm, c)) \/ (\E path \in {None, "file"} : ReloadReads(tm, path))
  PROVE  GuardInv'
<1>1. GuardTypes
  BY DEF GuardInv
<1>2. \E b \in Begun : begun' = [begun EXCEPT ![tm] = b] /\ UNCHANGED <<intent, override, approved, said>>
  <2>1. CASE \E c \in {"off", "on", "remove"} : SwitchReads(tm, c)
    <3>1. PICK c \in {"off", "on", "remove"} : SwitchReads(tm, c)
      BY <2>1
    <3>2. [command |-> c, plan |-> None] \in Begun
      BY DEF Begun, SwitchCommands, Opt
    <3>3. QED
      BY <3>1, <3>2 DEF SwitchReads
  <2>2. CASE \E path \in {None, "file"} : ReloadReads(tm, path)
    <3>1. PICK path \in {None, "file"} : ReloadReads(tm, path)
      BY <2>2
    <3>2. PICK plan : plan = IF path # None THEN path ELSE NearestPlan
      OBVIOUS
    <3>3. plan \in Opt(GuardPlans)
      BY <1>1, <3>2, NearestIs DEF Opt, GuardPlans
    <3>4. [command |-> "reload", plan |-> plan] \in Begun
      BY <3>3 DEF Begun, SwitchCommands
    <3>5. QED
      BY <3>1, <3>2, <3>4 DEF ReloadReads
  <2>3. QED
    BY <2>1, <2>2
<1>3. GuardTypes'
  BY <1>1, <1>2 DEF GuardTypes, Opt
<1>4. QED
  BY <1>2, <1>3, SilentSteps

LEMMA GuardStep == GuardInv /\ [GuardNext]_guardVars => GuardInv'
<1> SUFFICES ASSUME GuardInv, [GuardNext]_guardVars PROVE GuardInv'
  OBVIOUS
<1>1. GuardTypes /\ commands \in 0..MaxCommands /\ MaxCommands \in Nat
  BY GuardConfigAssumption DEF GuardInv, GuardTypes
<1>2. CASE UNCHANGED guardVars
  <2>1. GuardTypes' /\ UNCHANGED <<intent, override, said>>
    BY <1>1, <1>2 DEF guardVars, GuardTypes
  <2>2. QED
    BY <2>1, SilentSteps
<1>3. CASE \E tm \in Terminals : SwitchWrites(tm) /\ UNCHANGED commands
  BY <1>1, <1>3, SwitchSays
<1>4. CASE commands < MaxCommands /\ commands' = commands + 1 /\ Command
  <2>1. commands' \in 0..MaxCommands
    BY <1>1, <1>4
  <2>2. CASE SuperviseCommand
    BY <1>1, <2>1, <2>2, SuperviseSays, ReadsSay DEF SuperviseCommand
  <2>3. CASE \E i \in DOMAIN PlanSources : ApprovePlan(PlanSources[i])
    <3>1. PICK p \in GuardPlans : ApprovePlan(p)
      <4>1. PlanSources \in [1..3 -> GuardPlans]
        BY DEF PlanSources, GuardPlans
      <4>2. QED
        BY <2>3, <4>1
    <3>2. GuardTypes'
      BY <1>1, <2>1, <3>1 DEF GuardTypes, ApprovePlan
    <3>3. QED
      BY <3>1, <3>2, SilentSteps DEF ApprovePlan
  <2>4. CASE \/ \E b \in SUBSET (Bundles \ {"workflow"}), mode \in FailModes, p \in BOOLEAN : Enable(b, mode, p)
             \/ Disable
    BY <1>1, <2>1, <2>4, IntentCommands
  <2>5. CASE \/ \E b \in SUBSET (Bundles \ {"workflow"}), mode \in FailModes, p \in BOOLEAN : DirectEnable(b, mode, p)
             \/ DirectDisable
    BY <1>1, <2>1, <2>5, PromptCommands
  <2>6. CASE OverrideCommand
    BY <1>1, <2>1, <2>6, OverrideCommands
  <2>7. QED
    BY <1>4, <2>2, <2>3, <2>4, <2>5, <2>6 DEF Command
<1>5. QED
  BY <1>2, <1>3, <1>4 DEF GuardNext

\* What a command reported stays in effect until another reports, for any bundles and supervisors
\* and however commands on intent and on overrides alternate.
THEOREM CommandsEffective == GuardSpec => []CommandsTakeEffect
<1>1. GuardInit => GuardInv
  BY GuardInitInv
<1>2. GuardInv /\ [GuardNext]_guardVars => GuardInv'
  BY GuardStep
<1>3. GuardInv => CommandsTakeEffect
  BY GuardKeepsEffect
<1>4. QED
  BY <1>1, <1>2, <1>3, PTL DEF GuardSpec

-----------------------------------------------------------------------------
(***************************************************************************)
(* PolicyEngine, for any hooks, edits, bundles and bounds.  What a cache   *)
(* or a record of a test says comes from an evaluation that has been: it   *)
(* is so in the manifest, and in every check from the moment it reads the  *)
(* manifest until it writes it (Restored, Collected).  What a check has    *)
(* decided is judged when it decides; later only more tests, clearings and *)
(* faults come.                                                            *)
(***************************************************************************)

Policies == {"tdd", "patterns", "workflow", "supervisor"}
CacheKeys == [edit : Edits, plan : Opt(GuardPlans)]

\* What is in effect may judge.
ConfigOK(c) ==
    /\ c.bundles \in SUBSET Bundles /\ c.mode \in FailModes
    /\ c.supervisor \in Opt(Merged)

\* A restored state is the one there was, of which every entry has its cause.
Caused(p, key) == [policy |-> p, key |-> key] \in cleared \/ (p = "workflow" /\ FallThrough(key.edit))
CacheOK(s, p) == s \in SUBSET CacheKeys /\ \A key \in s : Caused(p, key)
StatesOK(s) ==
    /\ s["tdd"] \in BOOLEAN /\ (s["tdd"] => touched)
    /\ CacheOK(s["workflow"], "workflow") /\ CacheOK(s["supervisor"], "supervisor")

CollectedOK(s) ==
    /\ "tdd" \in DOMAIN s => s["tdd"] \in BOOLEAN /\ (s["tdd"] => touched)
    /\ \A p \in {"workflow", "supervisor"} : p \in DOMAIN s => CacheOK(s[p], p)

\* What a check has decided, whatever comes later.
Decided(k) ==
    ~Denied(k.verdicts) =>
        /\ k.edit.path = "src" /\ "tdd" \in DOMAIN k.verdicts /\ k.config.strict
              => touched \/ ("tdd" \notin DOMAIN k.collected /\ k.config.mode = "open")
        /\ "patterns" \in DOMAIN k.verdicts =>
              ~k.edit.banned \/ (k.config.mode = "open" /\ policyFaults > 0)

CheckOK(k) ==
    /\ k.pc \in {"idle", "evaluate", "persist"} /\ k.edit \in Opt(Edits) /\ StatesOK(k.restored)
    /\ k.pc # "idle" => k.edit \in Edits /\ ConfigOK(k.config)
    /\ k.pc = "persist" => CollectedOK(k.collected) /\ Decided(k)

\* A check is a record with these fields.
CheckRecord(k) ==
    k = [pc |-> k.pc, edit |-> k.edit, config |-> k.config, restored |-> k.restored,
         verdicts |-> k.verdicts, collected |-> k.collected]

EngineTypes ==
    /\ DOMAIN checking = Hooks /\ checking = [h \in Hooks |-> checking[h]]
    /\ touched \in BOOLEAN /\ checks \in 0..MaxChecks /\ policyFaults \in 0..MaxPolicyFaults
    /\ \A h \in Hooks : CheckRecord(checking[h])

EngineInv ==
    /\ GuardTypes /\ EngineTypes
    /\ StatesOK(states)
    /\ \A h \in Hooks : CheckOK(checking[h])

LEMMA EngineInvImplies == ASSUME EngineInv PROVE VerdictsAreSound
<1>1. GuardTypes /\ EngineTypes /\ StatesOK(states) /\ \A h \in Hooks : CheckOK(checking[h])
  BY DEF EngineInv
<1>2. PolicyTypeOK
  <2>1. GuardTypeOK
    BY <1>1 DEF GuardTypeOK, GuardTypes
  <2>2. states.tdd \in BOOLEAN
    BY <1>1 DEF StatesOK
  <2>3. \A p \in {"workflow", "supervisor"} : states[p] \subseteq [edit : Edits, plan : Opt(GuardPlans)]
    BY <1>1 DEF StatesOK, CacheOK, CacheKeys
  <2>4. QED
    BY <1>1, <2>1, <2>2, <2>3 DEF PolicyTypeOK, EngineTypes, CheckOK
<1>3. ImplNeedsTests
  BY <1>1 DEF ImplNeedsTests, Passed, CheckOK, Decided
<1>4. CachedWasCleared
  BY <1>1 DEF CachedWasCleared, CheckOK, StatesOK, CacheOK, Caused
<1>5. BannedIsBlocked
  BY <1>1 DEF BannedIsBlocked, Passed, CheckOK, Decided
<1>6. QED
  BY <1>2, <1>3, <1>4, <1>5 DEF VerdictsAreSound

\* What was there stays there.
Grows == (touched => touched') /\ cleared \subseteq cleared' /\ policyFaults' >= policyFaults

LEMMA GrowsStates == ASSUME Grows, NEW s, StatesOK(s) PROVE StatesOK(s)'
BY DEF Grows, StatesOK, CacheOK, Caused

LEMMA GrowsCheck == ASSUME Grows, policyFaults \in Nat, policyFaults' \in Nat, NEW k, CheckOK(k) PROVE CheckOK(k)'
<1>1. StatesOK(k.restored)'
  BY GrowsStates DEF CheckOK
<1>2. k.pc = "persist" => CollectedOK(k.collected)'
  BY DEF Grows, CheckOK, CollectedOK, CacheOK, Caused
<1>3. k.pc = "persist" => Decided(k)'
  <2>1. policyFaults > 0 => policyFaults' > 0
    BY DEF Grows
  <2>2. QED
    BY <2>1 DEF Grows, CheckOK, Decided
<1>4. QED
  BY <1>1, <1>2, <1>3 DEF CheckOK

LEMMA StartsClean ==
  /\ StatesOK(NoStates) /\ CheckRecord(NoCheck) /\ CheckOK(NoCheck)
<1>1. NoStates["tdd"] = FALSE /\ NoStates["workflow"] = {} /\ NoStates["supervisor"] = {}
  BY DEF NoStates
<1>2. StatesOK(NoStates)
  BY <1>1 DEF StatesOK, CacheOK
<1>3. NoCheck.pc = "idle" /\ NoCheck.edit = None /\ NoCheck.restored = NoStates
  BY DEF NoCheck
<1>4. CheckRecord(NoCheck)
  BY DEF CheckRecord, NoCheck
<1>5. QED
  BY <1>2, <1>3, <1>4 DEF CheckOK, Opt

LEMMA EngineInitInv == ASSUME PolicyInit PROVE EngineInv
<1>1. /\ states = NoStates /\ checking = [h \in Hooks |-> NoCheck] /\ touched = FALSE
      /\ checks = 0 /\ policyFaults = 0 /\ GuardInit
  BY DEF PolicyInit
<1>2. 0 \in 0..MaxChecks /\ 0 \in 0..MaxPolicyFaults
  BY PolicyEngineAssumption
<1>3. EngineTypes
  BY <1>1, <1>2, StartsClean DEF EngineTypes
<1>4. GuardTypes
  BY <1>1, GuardInitInv DEF GuardInv
<1>5. QED
  BY <1>1, <1>3, <1>4, StartsClean DEF EngineInv

\* A step of one check keeps the invariant if what it leaves is right.
LEMMA CheckSteps ==
  ASSUME EngineInv, GuardTypes', NEW h \in Hooks, NEW n, checking' = [checking EXCEPT ![h] = n],
         CheckRecord(n), CheckOK(n)', Grows, StatesOK(states)',
         touched' \in BOOLEAN, checks' \in 0..MaxChecks, policyFaults' \in 0..MaxPolicyFaults
  PROVE  EngineInv'
<1>1. EngineTypes /\ \A g \in Hooks : CheckOK(checking[g])
  BY DEF EngineInv
<1>2. policyFaults \in Nat /\ policyFaults' \in Nat
  BY <1>1, PolicyEngineAssumption DEF EngineTypes
<1>3. \A g \in Hooks : checking'[g] = IF g = h THEN n ELSE checking[g]
  BY <1>1 DEF EngineTypes
<1>4. EngineTypes'
  BY <1>1, <1>3 DEF EngineTypes
<1>5. ASSUME NEW g \in Hooks PROVE CheckOK(checking[g])'
  <2>1. CASE g = h
    BY <1>3, <2>1
  <2>2. CASE g # h
    <3>1. PICK k : k = checking[g]
      OBVIOUS
    <3>2. CheckOK(k)
      BY <1>1, <3>1
    <3>3. CheckOK(k)'
      BY <1>2, <3>2, GrowsCheck
    <3>4. checking'[g] = k
      BY <1>3, <2>2, <3>1
    <3>5. QED
      BY <3>3, <3>4
  <2>3. QED
    BY <2>1, <2>2
<1>6. QED
  BY <1>4, <1>5 DEF EngineInv

LEMMA EffectiveJudges == ASSUME GuardTypes PROVE ConfigOK(Effective)
<1>1. PICK base : base = IF intent = None THEN NoPolicy ELSE intent
  OBVIOUS
<1>2. base \in PolicyIntent /\ override \in Overrides
  BY <1>1, BaseIs DEF GuardTypes
<1>3. CASE override.void = "policy"
  <2>1. Effective = NoPolicy
    BY <1>1, <1>3, EffectiveIs
  <2>2. NoPolicy.bundles \in SUBSET Bundles /\ NoPolicy.mode \in FailModes /\ NoPolicy.supervisor \in Opt(Merged)
    BY DEF NoPolicy, FailModes, Opt
  <2>3. QED
    BY <2>1, <2>2 DEF ConfigOK
<1>4. CASE override.void # "policy"
  <2>1. /\ Effective.bundles = Overridden(override.bundles, base.bundles)
        /\ Effective.mode = Overridden(override.mode, base.mode)
        /\ Effective.supervisor = EffectiveSupervisor
    BY <1>1, <1>4, EffectiveIs
  <2>2. base.bundles \in SUBSET Bundles /\ base.mode \in FailModes
    BY <1>2 DEF PolicyIntent
  <2>3. override.bundles \in Opt(SUBSET Bundles) /\ override.mode \in Opt(FailModes)
    BY <1>2 DEF Overrides
  <2>4. Null \notin SUBSET Bundles /\ Null \notin FailModes
    BY GuardRecordAssumption
  <2>5. Effective.bundles \in SUBSET Bundles
    BY <2>1, <2>2, <2>3, <2>4 DEF Overridden, Opt
  <2>6. Effective.mode \in FailModes
    BY <2>1, <2>2, <2>3, <2>4 DEF Overridden, Opt
  <2>7. Effective.supervisor \in Opt(Merged)
    BY <2>1, MergeIs
  <2>8. QED
    BY <2>5, <2>6, <2>7 DEF ConfigOK
<1>5. QED
  BY <1>3, <1>4

LEMMA ReadStep ==
  ASSUME EngineInv, UNCHANGED guardVars, NEW h \in Hooks, NEW e \in Edits, ReadPolicy(h, e)
  PROVE  EngineInv'
<1>1. GuardTypes /\ EngineTypes /\ StatesOK(states)
  BY DEF EngineInv
<1>2. GuardTypes'
  BY <1>1 DEF guardVars, GuardTypes
<1>3. UNCHANGED <<states, touched, cleared, policyFaults>> /\ checks' \in 0..MaxChecks
  BY <1>1, PolicyEngineAssumption DEF ReadPolicy, EngineTypes
<1>4. Grows /\ StatesOK(states)'
  <2>1. policyFaults \in Nat
    BY <1>1, PolicyEngineAssumption DEF EngineTypes
  <2>2. Grows
    BY <1>3, <2>1 DEF Grows
  <2>3. QED
    BY <1>1, <1>3, <2>2 DEF StatesOK, CacheOK, Caused
<1>5. PICK c : c = Effective
  OBVIOUS
<1>6. PICK r : r = [NoCheck EXCEPT !.pc = "evaluate", !.edit = e, !.config = c, !.restored = states]
  OBVIOUS
<1>7. /\ r = [pc |-> "evaluate", edit |-> e, config |-> c, restored |-> states,
              verdicts |-> NoCheck.verdicts, collected |-> NoCheck.collected]
      /\ r.pc = "evaluate" /\ r.edit = e /\ r.config = c /\ r.restored = states
  BY <1>6 DEF NoCheck
<1>8. CheckRecord(r)
  BY <1>7 DEF CheckRecord
<1>9. StatesOK(r.restored)'
  BY <1>4, <1>3, <1>7
<1>10. ConfigOK(r.config)
  BY <1>1, <1>5, <1>7, EffectiveJudges
<1>11. CheckOK(r)'
  BY <1>7, <1>9, <1>10 DEF CheckOK, Opt, ConfigOK
<1>12. CheckOK(NoCheck)'
  <2>1. /\ NoCheck.pc = "idle" /\ NoCheck.edit = None /\ NoCheck.restored["tdd"] = FALSE
        /\ NoCheck.restored["workflow"] = {} /\ NoCheck.restored["supervisor"] = {}
    BY DEF NoCheck, NoStates
  <2>2. QED
    BY <2>1 DEF CheckOK, StatesOK, CacheOK, Opt
<1>13. checking' = [checking EXCEPT ![h] = r] \/ checking' = [checking EXCEPT ![h] = NoCheck]
  BY <1>5, <1>6 DEF ReadPolicy
<1>14. touched' \in BOOLEAN /\ policyFaults' \in 0..MaxPolicyFaults
  BY <1>1, <1>3 DEF EngineTypes
<1>15. CASE checking' = [checking EXCEPT ![h] = r]
  BY <1>2, <1>3, <1>4, <1>8, <1>11, <1>14, <1>15, CheckSteps
<1>16. CASE checking' = [checking EXCEPT ![h] = NoCheck]
  BY <1>2, <1>3, <1>4, <1>12, <1>14, <1>16, StartsClean, CheckSteps
<1>17. QED
  BY <1>13, <1>15, <1>16

LEMMA PersistStep ==
  ASSUME EngineInv, UNCHANGED guardVars, NEW h \in Hooks, Persist(h)
  PROVE  EngineInv'
<1>1. GuardTypes /\ EngineTypes /\ StatesOK(states) /\ CheckOK(checking[h])
  BY DEF EngineInv
<1>2. GuardTypes'
  BY <1>1 DEF guardVars, GuardTypes
<1>3. PICK k : k = checking[h]
  OBVIOUS
<1>4. /\ k.pc = "persist" /\ checking' = [checking EXCEPT ![h] = NoCheck]
      /\ UNCHANGED <<touched, cleared, checks>>
      /\ \/ /\ states' = [p \in Stateful |-> IF p \in DOMAIN k.collected THEN k.collected[p] ELSE states[p]]
            /\ UNCHANGED policyFaults
         \/ PolicyFault /\ UNCHANGED states
  BY <1>3 DEF Persist
<1>5. CollectedOK(k.collected)
  BY <1>1, <1>3, <1>4 DEF CheckOK
<1>6. policyFaults \in Nat /\ policyFaults' \in 0..MaxPolicyFaults /\ policyFaults' >= policyFaults
  BY <1>1, <1>4, PolicyEngineAssumption DEF EngineTypes, PolicyFault
<1>7. Grows
  BY <1>4, <1>6 DEF Grows
<1>8. PICK s : s = states'
  OBVIOUS
<1>9. StatesOK(s)
  <2>1. CASE UNCHANGED states
    BY <1>1, <1>8, <2>1
  <2>2. CASE states' = [p \in Stateful |-> IF p \in DOMAIN k.collected THEN k.collected[p] ELSE states[p]]
    <3>1. Stateful = {"tdd", "workflow", "supervisor"}
      BY DEF Stateful, NoStates
    <3>2. \A p \in Stateful : s[p] = IF p \in DOMAIN k.collected THEN k.collected[p] ELSE states[p]
      BY <1>8, <2>2
    <3>3. s["tdd"] \in BOOLEAN /\ (s["tdd"] => touched)
      BY <1>1, <1>5, <3>1, <3>2 DEF CollectedOK, StatesOK
    <3>4. CacheOK(s["workflow"], "workflow")
      BY <1>1, <1>5, <3>1, <3>2 DEF CollectedOK, StatesOK
    <3>5. CacheOK(s["supervisor"], "supervisor")
      BY <1>1, <1>5, <3>1, <3>2 DEF CollectedOK, StatesOK
    <3>6. QED
      BY <3>3, <3>4, <3>5 DEF StatesOK
  <2>3. QED
    BY <1>4, <2>1, <2>2
<1>10. StatesOK(states)'
  <2>1. StatesOK(s)'
    BY <1>7, <1>9, GrowsStates
  <2>2. QED
    BY <1>8, <2>1
<1>11. CheckOK(NoCheck)'
  <2>1. /\ NoCheck.pc = "idle" /\ NoCheck.edit = None /\ NoCheck.restored["tdd"] = FALSE
        /\ NoCheck.restored["workflow"] = {} /\ NoCheck.restored["supervisor"] = {}
    BY DEF NoCheck, NoStates
  <2>2. QED
    BY <2>1 DEF CheckOK, StatesOK, CacheOK, Opt
<1>12. touched' \in BOOLEAN /\ checks' \in 0..MaxChecks
  BY <1>1, <1>4 DEF EngineTypes
<1>13. QED
  BY <1>2, <1>4, <1>6, <1>7, <1>10, <1>11, <1>12, StartsClean, CheckSteps

\* What a policy remembers: what a model has cleared, and what a branch let through.
LEMMA CacheAfter ==
  ASSUME NEW p \in {"workflow", "supervisor"}, NEW k, NEW v,
         CacheOK(k.restored[p], p), CacheKey(p, k.config, k.edit) \in CacheKeys, NEW more,
         v.by # "rule" /\ v.clean => v = Aligned \/ (p = "workflow" /\ FallThrough(k.edit)),
         v = Aligned => [policy |-> p, key |-> CacheKey(p, k.config, k.edit)] \in more,
         cleared' = cleared \cup more
  PROVE  CacheOK(StateAfter(p, k, v), p)'
<1>1. PICK key : key = CacheKey(p, k.config, k.edit)
  OBVIOUS
<1>2. PICK s : s = k.restored[p]
  OBVIOUS
<1>3. StateAfter(p, k, v) = s \cup (IF v.by # "rule" /\ v.clean THEN {key} ELSE {})
  BY <1>1, <1>2 DEF StateAfter
<1>4. key.edit = k.edit
  BY <1>1 DEF CacheKey
<1>5. v.by # "rule" /\ v.clean =>
         [policy |-> p, key |-> key] \in cleared' \/ (p = "workflow" /\ FallThrough(key.edit))
  BY <1>1, <1>4
<1>6. /\ s \in SUBSET CacheKeys /\ key \in CacheKeys
      /\ \A x \in s : [policy |-> p, key |-> x] \in cleared' \/ (p = "workflow" /\ FallThrough(x.edit))
  BY <1>1, <1>2 DEF CacheOK, Caused
<1>7. PICK t : t = s \cup (IF v.by # "rule" /\ v.clean THEN {key} ELSE {})
  OBVIOUS
<1>8. /\ t \in SUBSET CacheKeys
      /\ \A x \in t : [policy |-> p, key |-> x] \in cleared' \/ (p = "workflow" /\ FallThrough(x.edit))
  BY <1>5, <1>6, <1>7
<1>9. QED
  BY <1>3, <1>7, <1>8 DEF CacheOK, Caused

LEMMA KeysAreKeys ==
  ASSUME NEW p, NEW c, ConfigOK(c), NEW e \in Edits, p = "supervisor" => Judges(c)
  PROVE  CacheKey(p, c, e) \in CacheKeys
<1>1. p = "supervisor" => c.supervisor.plan \in Opt(GuardPlans)
  <2>1. p = "supervisor" => c.supervisor \in Merged
    BY DEF ConfigOK, Judges, Opt
  <2>2. QED
    BY <2>1 DEF Merged
<1>2. QED
  BY <1>1 DEF CacheKey, CacheKeys, Opt

\* A clean verdict of a model is a clearing, and one of a branch a fall-through.
LEMMA CleanMeans ==
  ASSUME NEW k, NEW p \in {"workflow", "supervisor"}, NEW v \in Verdicts(p, k), v.by # "rule", v.clean
  PROVE  v = Aligned \/ (p = "workflow" /\ FallThrough(k.edit))
<1>1. /\ Allow.by = "rule" /\ Warn.clean = FALSE /\ Deny.clean = FALSE /\ Verdict("allow", FALSE).clean = FALSE
  BY DEF Allow, Warn, Deny, Verdict
<1>2. CASE p \notin Active(k)
  <2>1. Verdicts(p, k) = {Allow}
    BY <1>2 DEF Verdicts
  <2>2. QED
    BY <1>1, <2>1
<1>3. CASE p \in Active(k) /\ p = "supervisor"
  <2>1. Verdicts(p, k) = Answers \cup (IF Cached(p, k, k.edit) THEN {Allow} ELSE {})
    BY <1>3 DEF Verdicts
  <2>2. v \in {Aligned, Warn, Deny, Verdict("allow", FALSE), Allow}
    BY <2>1 DEF Answers
  <2>3. QED
    BY <1>1, <2>2
<1>4. CASE p \in Active(k) /\ p = "workflow"
  <2>1. Verdicts(p, k) = WorkflowVerdicts(k.edit)
    BY <1>4 DEF Verdicts
  <2>2. PICK V \in {BranchVerdicts(b, k.edit) : b \in {c \in Branches : k.edit \in c.takes}} : v \in V
    BY <1>1, <2>1 DEF WorkflowVerdicts
  <2>3. PICK b \in Branches : k.edit \in b.takes /\ v \in BranchVerdicts(b, k.edit)
    BY <2>2
  <2>4. v = Aligned \/ v \in {Warn, Deny} \/ Unjudged(b, k.edit)
    BY <2>3 DEF BranchVerdicts
  <2>5. QED
    BY <1>1, <1>4, <2>3, <2>4 DEF FallThrough
<1>5. QED
  BY <1>2, <1>3, <1>4

\* What the policies say, one of which may raise.
LEMMA JudgementIs ==
  ASSUME NEW k, NEW active, active = Active(k), NEW bad \in Opt(active),
         NEW w \in Verdicts("workflow", k), NEW s \in Verdicts("supervisor", k), NEW v, v = Judgement(k, bad, w, s)
  PROVE  /\ DOMAIN v = active
         /\ bad \in active => v[bad] = Raised(k.config)
         /\ "tdd" \in active /\ bad # "tdd" => v["tdd"] = Ruling("tdd", k)
         /\ "patterns" \in active /\ bad # "patterns" => v["patterns"] = Ruling("patterns", k)
         /\ \A p \in active \cap {"workflow", "supervisor"} :
               v[p].by # "rule" /\ v[p].clean => v[p] = Aligned \/ (p = "workflow" /\ FallThrough(k.edit))
<1>1. v = [p \in active |-> CASE p = bad -> Raised(k.config)
                               [] p # bad /\ p = "workflow" -> w
                               [] p # bad /\ p = "supervisor" -> s
                               [] p # bad /\ p \notin {"workflow", "supervisor"} -> Ruling(p, k)]
  BY DEF Judgement
<1>2. \A p \in active :
         /\ p = bad => v[p] = Raised(k.config)
         /\ p # bad /\ p = "workflow" => v[p] = w
         /\ p # bad /\ p = "supervisor" => v[p] = s
         /\ p # bad /\ p \notin {"workflow", "supervisor"} => v[p] = Ruling(p, k)
  BY <1>1
<1>3. Raised(k.config).by = "rule"
  BY DEF Raised, Deny, Verdict
<1>4. DOMAIN v = active
  BY <1>1
<1>5. ASSUME NEW p \in active \cap {"workflow", "supervisor"}, v[p].by # "rule", v[p].clean
      PROVE  v[p] = Aligned \/ (p = "workflow" /\ FallThrough(k.edit))
  <2>1. p # bad
    BY <1>2, <1>3, <1>5
  <2>2. v[p] \in Verdicts(p, k)
    BY <1>2, <1>5, <2>1
  <2>3. QED
    BY <1>5, <2>2, CleanMeans
<1>6. QED
  BY <1>2, <1>4, <1>5

\* An edit is denied by the policies that must deny it.
LEMMA EvaluatedIsSound ==
  ASSUME NEW k, k.edit \in Edits, ConfigOK(k.config), StatesOK(k.restored), NEW active, NEW bad \in Opt(active),
         active \subseteq Policies, NEW v,
         bad \in active => v[bad] = Raised(k.config),
         "tdd" \in active /\ bad # "tdd" => v["tdd"] = Ruling("tdd", k),
         "patterns" \in active /\ bad # "patterns" => v["patterns"] = Ruling("patterns", k),
         NEW n, n.edit = k.edit, n.config = k.config, n.verdicts = [p \in active |-> v[p].decision],
         DOMAIN n.collected = (active \ {bad}) \cap Stateful,
         touched => touched', IF bad = None THEN UNCHANGED policyFaults ELSE PolicyFault,
         policyFaults \in Nat
  PROVE  Decided(n)'
<1>1. k.config.mode \in {"open", "closed"} /\ bad # None => policyFaults' > 0
  BY DEF ConfigOK, FailModes, PolicyFault
<1>2. SUFFICES ASSUME ~Denied(n.verdicts)
               PROVE  /\ k.edit.path = "src" /\ "tdd" \in active /\ k.config.strict
                            => touched' \/ ("tdd" \notin DOMAIN n.collected /\ k.config.mode = "open")
                      /\ "patterns" \in active => ~k.edit.banned \/ (k.config.mode = "open" /\ policyFaults' > 0)
  BY DEF Decided, Denied
<1>3. \A p \in active : v[p].decision # "deny"
  BY <1>2 DEF Denied
<1>4. Deny.decision = "deny"
  BY DEF Deny, Verdict
<1>5. bad \in active => k.config.mode = "open"
  BY <1>3, <1>4 DEF Raised, ConfigOK, FailModes
<1>6. None \notin active
  BY PolicyEngineAssumption DEF Policies
<1>7. ASSUME k.edit.path = "src", "tdd" \in active, k.config.strict
      PROVE  touched' \/ ("tdd" \notin DOMAIN n.collected /\ k.config.mode = "open")
  <2>1. CASE bad = "tdd"
    BY <1>5, <1>7, <2>1
  <2>2. CASE bad # "tdd"
    <3>1. v["tdd"] = Ruling("tdd", k)
      BY <1>7, <2>2
    <3>2. v["tdd"] = IF k.edit.path = "src" /\ ~k.restored["tdd"]
                     THEN IF k.config.strict THEN Deny ELSE Warn
                     ELSE Allow
      BY <3>1 DEF Ruling
    <3>3. k.restored["tdd"]
      BY <1>3, <1>4, <1>7, <3>2
    <3>4. QED
      BY <3>3 DEF StatesOK
  <2>3. QED
    BY <2>1, <2>2
<1>8. ASSUME "patterns" \in active, k.edit.banned PROVE k.config.mode = "open" /\ policyFaults' > 0
  <2>1. CASE bad = "patterns"
    <3>1. bad # None
      BY <1>6, <1>8, <2>1
    <3>2. PolicyFault
      BY <3>1
    <3>3. policyFaults' > 0
      BY <3>2 DEF PolicyFault
    <3>4. QED
      BY <1>5, <1>8, <2>1, <3>3
  <2>2. CASE bad # "patterns"
    <3>1. v["patterns"] = IF k.edit.banned THEN Deny ELSE Allow
      BY <1>8, <2>2 DEF Ruling
    <3>2. QED
      BY <1>3, <1>4, <1>8, <3>1
  <2>3. QED
    BY <2>1, <2>2
<1>9. QED
  BY <1>7, <1>8

LEMMA EvaluateStep ==
  ASSUME EngineInv, UNCHANGED guardVars, NEW h \in Hooks, Evaluate(h)
  PROVE  EngineInv'
<1>1. GuardTypes /\ EngineTypes /\ StatesOK(states) /\ CheckOK(checking[h]) /\ CheckRecord(checking[h])
  BY DEF EngineInv, EngineTypes
<1>2. GuardTypes'
  BY <1>1 DEF guardVars, GuardTypes
<1>3. PICK k : k = checking[h]
  OBVIOUS
<1>4. PICK active : active = Active(k)
  OBVIOUS
<1>5. PICK bad, w, judged, v :
         /\ bad \in Opt(active) /\ w \in Verdicts("workflow", k) /\ judged \in Verdicts("supervisor", k)
         /\ v = Judgement(k, bad, w, judged)
         /\ IF bad = None THEN UNCHANGED policyFaults ELSE PolicyFault
         /\ checking' = [checking EXCEPT ![h] = Evaluated(k, bad, v)]
         /\ touched' = (touched \/ ("tdd" \in active \ {bad} /\ k.edit.path = "tests"))
         /\ cleared' = cleared \cup Clears(k, v)
  <2> DEFINE now == checking[h]
  <2>1. PICK bad \in Opt(Active(now)), w \in Verdicts("workflow", now), s \in Verdicts("supervisor", now) :
            LET v == Judgement(now, bad, w, s)
            IN  /\ IF bad = None THEN UNCHANGED policyFaults ELSE PolicyFault
                /\ checking' = [checking EXCEPT ![h] = Evaluated(now, bad, v)]
                /\ touched' = (touched \/ ("tdd" \in Active(now) \ {bad} /\ now.edit.path = "tests"))
                /\ cleared' = cleared \cup Clears(now, v)
    BY DEF Evaluate
  <2>2. now = k /\ Active(now) = active
    BY <1>3, <1>4
  <2> HIDE DEF now
  <2>3. PICK v : v = Judgement(now, bad, w, s)
    OBVIOUS
  <2>4. bad \in Opt(active) /\ w \in Verdicts("workflow", k) /\ s \in Verdicts("supervisor", k)
    BY <2>2
  <2>5. v = Judgement(k, bad, w, s) /\ Evaluated(now, bad, v) = Evaluated(k, bad, v) /\ Clears(now, v) = Clears(k, v)
    BY <2>2, <2>3
  <2>6. checking' = [checking EXCEPT ![h] = Evaluated(k, bad, v)]
    BY <2>1, <2>3, <2>5
  <2>7. touched' = (touched \/ ("tdd" \in active \ {bad} /\ k.edit.path = "tests"))
    BY <2>1, <2>2
  <2>8. cleared' = cleared \cup Clears(k, v)
    BY <2>1, <2>3, <2>5
  <2>9. QED
    BY <2>1, <2>4, <2>5, <2>6, <2>7, <2>8
<1>6. k.pc = "evaluate" /\ UNCHANGED <<states, checks>>
  BY <1>3 DEF Evaluate
<1>7. k.edit \in Edits /\ ConfigOK(k.config) /\ StatesOK(k.restored)
  BY <1>1, <1>3, <1>6 DEF CheckOK
<1>8. active \subseteq Policies /\ ("supervisor" \in active => Judges(k.config))
  BY <1>4 DEF Active, Registered, Policies
<1>9. policyFaults \in Nat /\ policyFaults' \in 0..MaxPolicyFaults /\ policyFaults' >= policyFaults
  BY <1>1, <1>5, PolicyEngineAssumption DEF EngineTypes, PolicyFault
<1>10. Grows
  BY <1>5, <1>9 DEF Grows
<1>11. touched \in BOOLEAN /\ touched' \in BOOLEAN
  BY <1>1, <1>5 DEF EngineTypes
<1>12. PICK verdicts, collected :
          /\ verdicts = [p \in active |-> v[p].decision]
          /\ collected = [p \in (active \ {bad}) \cap Stateful |-> StateAfter(p, k, v[p])]
  OBVIOUS
<1>13. PICK n : n = [k EXCEPT !.pc = "persist", !.verdicts = verdicts, !.collected = collected]
  OBVIOUS
<1>14. checking' = [checking EXCEPT ![h] = n]
  <2>1. DOMAIN v = active
    BY <1>4, <1>5, JudgementIs
  <2>2. QED
    BY <1>4, <1>5, <1>12, <1>13, <2>1 DEF Evaluated, Decisions
<1>15. /\ CheckRecord(n) /\ n.pc = "persist" /\ n.edit = k.edit /\ n.config = k.config
       /\ n.restored = k.restored /\ n.verdicts = verdicts /\ n.collected = collected
  <2>1. k = [pc |-> k.pc, edit |-> k.edit, config |-> k.config, restored |-> k.restored,
             verdicts |-> k.verdicts, collected |-> k.collected]
    BY <1>1, <1>3 DEF CheckRecord
  <2>2. n = [pc |-> "persist", edit |-> k.edit, config |-> k.config, restored |-> k.restored,
             verdicts |-> verdicts, collected |-> collected]
    BY <1>13, <2>1
  <2>3. QED
    BY <2>2 DEF CheckRecord
<1>16. CollectedOK(collected)'
  <2>1. DOMAIN collected = (active \ {bad}) \cap Stateful
    BY <1>12
  <2>2. \A p \in DOMAIN collected : collected[p] = StateAfter(p, k, v[p])
    BY <1>12
  <2>3. ASSUME "tdd" \in DOMAIN collected PROVE collected["tdd"] \in BOOLEAN /\ (collected["tdd"] => touched')
    <3>1. collected["tdd"] = (k.restored["tdd"] \/ k.edit.path = "tests")
      BY <2>2, <2>3 DEF StateAfter
    <3>2. k.restored["tdd"] \in BOOLEAN /\ (k.restored["tdd"] => touched)
      BY <1>7 DEF StatesOK
    <3>3. "tdd" \in active \ {bad}
      BY <2>1, <2>3
    <3>4. QED
      BY <1>5, <1>11, <3>1, <3>2, <3>3
  <2>4. ASSUME NEW p \in {"workflow", "supervisor"}, p \in DOMAIN collected
        PROVE  CacheOK(collected[p], p)'
    <3>1. PICK more : more = Clears(k, v)
      OBVIOUS
    <3>2. p \in active \cap Stateful
      BY <2>1, <2>4
    <3>3. CacheOK(k.restored[p], p)
      BY <1>7, <2>4 DEF StatesOK
    <3>4. CacheKey(p, k.config, k.edit) \in CacheKeys
      BY <1>7, <1>8, <3>2, KeysAreKeys
    <3>5. v[p] = Aligned => [policy |-> p, key |-> CacheKey(p, k.config, k.edit)] \in more
      BY <1>4, <3>1, <3>2 DEF Clears
    <3>6. PICK u : u = v[p]
      OBVIOUS
    <3>7. u.by # "rule" /\ u.clean => u = Aligned \/ (p = "workflow" /\ FallThrough(k.edit))
      BY <1>4, <1>5, <2>4, <3>2, <3>6, JudgementIs
    <3>8. cleared' = cleared \cup more
      BY <1>5, <3>1
    <3>9. CacheOK(StateAfter(p, k, u), p)'
      BY <3>3, <3>4, <3>5, <3>6, <3>7, <3>8, CacheAfter
    <3>10. StateAfter(p, k, u) = collected[p]
      BY <2>2, <2>4, <3>6
    <3>11. QED
      BY <3>9, <3>10
  <2>5. QED
    BY <2>3, <2>4 DEF CollectedOK
<1>17. Decided(n)'
  <2>1. DOMAIN n.collected = (active \ {bad}) \cap Stateful
    BY <1>12, <1>15
  <2>2. n.verdicts = [p \in active |-> v[p].decision]
    BY <1>12, <1>15
  <2>3. touched => touched'
    BY <1>10 DEF Grows
  <2>4. /\ bad \in active => v[bad] = Raised(k.config)
        /\ "tdd" \in active /\ bad # "tdd" => v["tdd"] = Ruling("tdd", k)
        /\ "patterns" \in active /\ bad # "patterns" => v["patterns"] = Ruling("patterns", k)
    BY <1>4, <1>5, JudgementIs
  <2>5. IF bad = None THEN UNCHANGED policyFaults ELSE PolicyFault
    BY <1>5
  <2>6. QED
    BY <1>5, <1>7, <1>8, <1>9, <1>15, <2>1, <2>2, <2>3, <2>4, <2>5, EvaluatedIsSound
<1>18. StatesOK(n.restored)' /\ StatesOK(states)'
  <2>1. StatesOK(n.restored)'
    BY <1>7, <1>10, <1>15, GrowsStates
  <2>2. PICK s : s = states
    OBVIOUS
  <2>3. StatesOK(s)'
    BY <1>1, <1>10, <2>2, GrowsStates
  <2>4. QED
    BY <1>6, <2>1, <2>2, <2>3
<1>19. CheckOK(n)'
  BY <1>7, <1>15, <1>16, <1>17, <1>18 DEF CheckOK, Opt, ConfigOK
<1>20. checks' \in 0..MaxChecks
  BY <1>1, <1>6 DEF EngineTypes
<1>21. QED
  BY <1>2, <1>9, <1>10, <1>11, <1>14, <1>15, <1>18, <1>19, <1>20, CheckSteps

LEMMA EngineStep == EngineInv /\ GuardInv /\ [PolicyNext]_policyVars => EngineInv'
<1> SUFFICES ASSUME EngineInv, GuardInv, [PolicyNext]_policyVars PROVE EngineInv'
  OBVIOUS
<1>1. CASE [GuardNext]_guardVars /\ UNCHANGED engineVars
  <2>1. GuardTypes'
    BY <1>1, GuardStep DEF GuardInv
  <2>2. UNCHANGED <<states, checking, touched, cleared, checks, policyFaults>>
    BY <1>1 DEF engineVars
  <2>3. EngineTypes /\ StatesOK(states) /\ \A h \in Hooks : CheckOK(checking[h])
    BY DEF EngineInv
  <2>4. EngineTypes' /\ StatesOK(states)'
    BY <2>2, <2>3 DEF EngineTypes, StatesOK, CacheOK, Caused
  <2>5. policyFaults \in Nat
    BY <2>3, PolicyEngineAssumption DEF EngineTypes
  <2>6. Grows /\ policyFaults' \in Nat
    BY <2>2, <2>5 DEF Grows
  <2>7. ASSUME NEW h \in Hooks PROVE CheckOK(checking[h])'
    <3>1. PICK k : k = checking[h]
      OBVIOUS
    <3>2. CheckOK(k)'
      BY <2>3, <2>5, <2>6, <3>1, GrowsCheck
    <3>3. QED
      BY <2>2, <3>1, <3>2
  <2>8. QED
    BY <2>1, <2>4, <2>7 DEF EngineInv
<1>2. ASSUME UNCHANGED guardVars, NEW h \in Hooks, (\E e \in Edits : ReadPolicy(h, e)) \/ Evaluate(h) \/ Persist(h)
      PROVE  EngineInv'
  BY <1>2, ReadStep, EvaluateStep, PersistStep
<1>3. QED
  BY <1>1, <1>2 DEF PolicyNext, policyVars

\* An edit passes only with cause, for any checks under way at once, any edits, bundles, supervisors
\* and faults, while commands change the policy.
THEOREM VerdictsSound == PolicySpec => []VerdictsAreSound
<1>1. PolicyInit => GuardInv /\ EngineInv
  BY GuardInitInv, EngineInitInv DEF PolicyInit
<1>2. GuardInv /\ EngineInv /\ [PolicyNext]_policyVars => (GuardInv /\ EngineInv)'
  <2>1. [PolicyNext]_policyVars => [GuardNext]_guardVars
    BY DEF PolicyNext, policyVars
  <2>2. QED
    BY <2>1, GuardStep, EngineStep
<1>3. EngineInv => VerdictsAreSound
  BY EngineInvImplies
<1>4. QED
  BY <1>1, <1>2, <1>3, PTL DEF PolicySpec

-----------------------------------------------------------------------------
(***************************************************************************)
(* GuardCheck, for a diff of any length and any workflow.  The order of    *)
(* evaluation has the files of the diff, each once, by rising rank         *)
(* (OrderIs), so that when an implementation is evaluated, every test of a *)
(* lower rank has been: all tests there are, where the sort tells the two  *)
(* apart.  Where it does not, a test may still be to come, and the         *)
(* verdict can only be the stricter.                                       *)
(***************************************************************************)

Elements(s) == {s[i] : i \in DOMAIN s}
Distinct(s) == \A i, j \in DOMAIN s : s[i] = s[j] => i = j
Rising(s) == \A i, j \in DOMAIN s : i < j => s[i].rank <= s[j].rank

\* A list without its first element.
LEMMA Shorter ==
  ASSUME NEW s \in Seq(Edits), s # <<>>, Distinct(s), Rising(s)
  PROVE  /\ Head(s) \in Edits /\ Tail(s) \in Seq(Edits) /\ Distinct(Tail(s)) /\ Rising(Tail(s))
         /\ Elements(s) = {Head(s)} \cup Elements(Tail(s)) /\ Head(s) \notin Elements(Tail(s))
         /\ \A e \in Elements(s) : Head(s).rank <= e.rank
<1>1. PICK n \in Nat : n = Len(s) /\ n >= 1 /\ DOMAIN s = 1 .. n
  BY EmptySeq
<1>2. PICK t : t = Tail(s)
  OBVIOUS
<1>3. t \in Seq(Edits) /\ Len(t) = n - 1 /\ \A i \in 1 .. n - 1 : t[i] = s[i + 1]
  BY <1>1, <1>2, HeadTailProperties
<1>4. DOMAIN t = 1 .. n - 1
  BY <1>1, <1>3
<1>5. Head(s) = s[1] /\ s[1] \in Edits
  BY <1>1, HeadTailProperties
<1>6. ASSUME NEW i \in DOMAIN t PROVE i \in DOMAIN s /\ i + 1 \in DOMAIN s /\ t[i] = s[i + 1] /\ i + 1 # 1 /\ 1 < i + 1
  BY <1>1, <1>3, <1>4
<1>7. ASSUME NEW i \in DOMAIN s, i # 1 PROVE i - 1 \in DOMAIN t /\ s[i] = t[i - 1]
  BY <1>1, <1>3, <1>4, <1>7
<1>8. 1 \in DOMAIN s
  BY <1>1
<1>9. Distinct(t)
  <2>1. ASSUME NEW i \in DOMAIN t, NEW j \in DOMAIN t, t[i] = t[j] PROVE i = j
    <3>1. i + 1 = j + 1
      BY <1>6, <2>1 DEF Distinct
    <3>2. i \in Nat /\ j \in Nat
      BY <1>1, <1>4
    <3>3. QED
      BY <3>1, <3>2
  <2>2. QED
    BY <2>1 DEF Distinct
<1>10. Rising(t)
  <2>1. ASSUME NEW i \in DOMAIN t, NEW j \in DOMAIN t, i < j PROVE t[i].rank <= t[j].rank
    <3>1. i + 1 < j + 1
      BY <1>1, <1>4, <2>1
    <3>2. QED
      BY <1>6, <2>1, <3>1 DEF Rising
  <2>2. QED
    BY <2>1 DEF Rising
<1>11. Elements(s) = {s[1]} \cup Elements(t)
  <2>1. ASSUME NEW i \in DOMAIN s PROVE s[i] \in {s[1]} \cup Elements(t)
    BY <1>7 DEF Elements
  <2>2. s[1] \in Elements(s) /\ \A i \in DOMAIN t : t[i] \in Elements(s)
    BY <1>6, <1>8 DEF Elements
  <2>3. QED
    BY <2>1, <2>2 DEF Elements
<1>12. s[1] \notin Elements(t)
  BY <1>6, <1>8 DEF Elements, Distinct
<1>13. ASSUME NEW i \in DOMAIN s PROVE s[1].rank <= s[i].rank
  <2>1. i = 1 \/ 1 < i
    BY <1>1
  <2>2. s[1].rank \in Nat
    BY <1>5, PolicyEngineAssumption DEF EditShape
  <2>3. QED
    BY <1>8, <2>1, <2>2 DEF Rising
<1>14. QED
  BY ZenonT(40), <1>2, <1>3, <1>5, <1>9, <1>10, <1>11, <1>12, <1>13 DEF Elements

\* The files of one rank: each once.
LEMMA RankedIs ==
  ASSUME NEW d \in Seq(Edits), Distinct(d), NEW r \in 0..2
  PROVE  /\ Ranked(d, r) \in Seq(Edits) /\ Distinct(Ranked(d, r)) /\ Rising(Ranked(d, r))
         /\ Elements(Ranked(d, r)) = {e \in Elements(d) : e.rank = r}
<1>1. PICK places : places = {i \in DOMAIN d : d[i].rank = r}
  OBVIOUS
<1>2. places \in SUBSET DOMAIN d
  BY <1>1
<1>3. PICK a, A : a = Selected(d, places) /\ A = Cardinality(places)
  OBVIOUS
<1>4. a \in Seq(Edits) /\ Len(a) = A /\ A \in Nat
  BY <1>2, <1>3, SelectedIs
<1>5. PICK at : Keeps(at, a, d, places)
  BY <1>2, <1>3, SelectedKeeps
<1>6. /\ at \in [1 .. A -> places] /\ \A n \in 1 .. A : a[n] = d[at[n]]
      /\ \A i \in places : \E n \in 1 .. A : at[n] = i
      /\ \A m, n \in 1 .. A : m # n => at[m] # at[n]
  BY <1>3, <1>5 DEF Keeps
<1>7. DOMAIN a = 1 .. A
  BY <1>4
<1>8. ASSUME NEW n \in DOMAIN a PROVE at[n] \in DOMAIN d /\ a[n] = d[at[n]] /\ a[n].rank = r
  BY <1>1, <1>6, <1>7
<1>9. Distinct(a)
  <2>1. ASSUME NEW m \in DOMAIN a, NEW n \in DOMAIN a, a[m] = a[n] PROVE m = n
    <3>1. at[m] = at[n]
      BY <1>8, <2>1 DEF Distinct
    <3>2. QED
      BY <1>6, <1>7, <3>1
  <2>2. QED
    BY <2>1 DEF Distinct
<1>10. Rising(a)
  BY <1>8 DEF Rising
<1>11. Elements(a) = {e \in Elements(d) : e.rank = r}
  <2>1. \A n \in DOMAIN a : a[n] \in {e \in Elements(d) : e.rank = r}
    BY <1>8 DEF Elements
  <2>2. ASSUME NEW i \in DOMAIN d, d[i].rank = r PROVE d[i] \in Elements(a)
    <3>1. PICK n \in 1 .. A : at[n] = i
      BY <1>1, <1>6, <2>2
    <3>2. n \in DOMAIN a /\ a[n] = d[i]
      BY <1>6, <1>7, <3>1
    <3>3. QED
      BY <3>2 DEF Elements
  <2>3. QED
    BY <2>1, <2>2 DEF Elements
<1>12. a = Ranked(d, r)
  BY <1>1, <1>3 DEF Ranked
<1>13. QED
  BY <1>4, <1>9, <1>10, <1>11, <1>12

\* Every edited file has a rank.
LEMMA EditRank == ASSUME NEW e \in Edits PROVE e.rank \in Nat
  BY PolicyEngineAssumption DEF EditShape

\* Two lists, every file of the first of a lower rank than those of the second.
LEMMA JoinedIs ==
  ASSUME NEW a \in Seq(Edits), NEW b \in Seq(Edits), Distinct(a), Distinct(b), Rising(a), Rising(b),
         \A x \in Elements(a), y \in Elements(b) : x.rank < y.rank
  PROVE  /\ a \o b \in Seq(Edits) /\ Distinct(a \o b) /\ Rising(a \o b)
         /\ Elements(a \o b) = Elements(a) \cup Elements(b)
<1>1. PICK A \in Nat, B \in Nat : A = Len(a) /\ B = Len(b) /\ DOMAIN a = 1 .. A /\ DOMAIN b = 1 .. B
  OBVIOUS
<1>2. PICK o : o = a \o b
  OBVIOUS
<1>3. /\ o \in Seq(Edits) /\ Len(o) = A + B
      /\ \A i \in 1 .. A + B : o[i] = IF i <= A THEN a[i] ELSE b[i - A]
  BY <1>1, <1>2, ConcatProperties
<1>4. DOMAIN o = 1 .. A + B
  BY <1>3
<1>5. \A i \in 1 .. A + B : o[i] \in Edits /\ o[i].rank \in Nat
  <2>1. \A i \in 1 .. A + B : o[i] \in Edits
    BY <1>3, <1>4
  <2>2. QED
    BY <2>1, EditRank
<1>6. ASSUME NEW i \in 1 .. A + B
      PROVE  /\ (i <= A => i \in DOMAIN a /\ o[i] = a[i])
             /\ (i > A => i - A \in DOMAIN b /\ o[i] = b[i - A])
             /\ (i <= A \/ i > A)
  <2>1. i <= A => i \in 1 .. A /\ o[i] = a[i]
    BY <1>1, <1>3
  <2>2. i > A => i - A \in 1 .. B /\ ~(i <= A)
    BY <1>1
  <2>3. i <= A \/ i > A
    BY <1>1
  <2>4. QED
    BY <1>1, <1>3, <2>1, <2>2, <2>3
<1>7. ASSUME NEW i \in 1 .. A + B, NEW j \in 1 .. A + B, i <= A, j > A PROVE o[i].rank < o[j].rank
  BY <1>6, <1>7 DEF Elements
<1>8. Distinct(o)
  <2>1. ASSUME NEW i \in 1 .. A + B, NEW j \in 1 .. A + B, o[i] = o[j] PROVE i = j
    <3>1. CASE i <= A /\ j <= A
      BY <1>6, <2>1, <3>1 DEF Distinct
    <3>2. CASE i > A /\ j > A
      <4>1. i - A = j - A
        BY <1>6, <2>1, <3>2 DEF Distinct
      <4>2. QED
        BY <1>1, <4>1
    <3>3. CASE (i <= A /\ j > A) \/ (j <= A /\ i > A)
      <4>1. o[i].rank < o[j].rank \/ o[j].rank < o[i].rank
        BY <1>7, <3>3
      <4>2. QED
        BY <1>5, <2>1, <4>1
    <3>4. QED
      BY <1>6, <3>1, <3>2, <3>3
  <2>2. QED
    BY <1>4, <2>1 DEF Distinct
<1>9. Rising(o)
  <2>1. ASSUME NEW i \in 1 .. A + B, NEW j \in 1 .. A + B, i < j PROVE o[i].rank <= o[j].rank
    <3>1. CASE i <= A /\ j <= A
      BY <1>6, <2>1, <3>1 DEF Rising
    <3>2. CASE i > A /\ j > A
      <4>1. i - A < j - A
        BY <1>1, <2>1
      <4>2. QED
        BY <1>6, <3>2, <4>1 DEF Rising
    <3>3. CASE i <= A /\ j > A
      BY <1>5, <1>7, <3>3
    <3>4. ~(i > A /\ j <= A)
      BY <1>1, <2>1
    <3>5. QED
      BY <1>6, <3>1, <3>2, <3>3, <3>4
  <2>2. QED
    BY <1>4, <2>1 DEF Rising
<1>10. Elements(o) = Elements(a) \cup Elements(b)
  <2>1. \A i \in DOMAIN o : o[i] \in Elements(a) \cup Elements(b)
    BY <1>4, <1>6 DEF Elements
  <2>2. ASSUME NEW i \in DOMAIN a PROVE a[i] \in Elements(o)
    <3>1. i \in 1 .. A + B /\ i <= A
      BY <1>1
    <3>2. QED
      BY <1>4, <1>6, <3>1 DEF Elements
  <2>3. ASSUME NEW i \in DOMAIN b PROVE b[i] \in Elements(o)
    <3>1. A + i \in 1 .. A + B /\ A + i > A /\ (A + i) - A = i
      BY <1>1
    <3>2. o[A + i] = b[i]
      BY <1>6, <3>1
    <3>3. QED
      BY <1>4, <3>1, <3>2 DEF Elements
  <2>4. QED
    BY <2>1, <2>2, <2>3 DEF Elements
<1>11. QED
  BY <1>2, <1>3, <1>8, <1>9, <1>10

LEMMA OrderIs ==
  ASSUME NEW d \in Diffs
  PROVE  /\ EvaluationOrder(d) \in Seq(Edits) /\ Elements(EvaluationOrder(d)) = Elements(d)
         /\ Distinct(EvaluationOrder(d)) /\ Rising(EvaluationOrder(d))
<1>1. d \in Seq(Edits) /\ Distinct(d)
  <2>1. PICK n \in 1 .. MaxFiles : d \in [1 .. n -> Edits]
    BY DEF Diffs
  <2>2. n \in Nat
    BY GuardCheckAssumption
  <2>3. QED
    BY <2>1, <2>2 DEF Diffs, Distinct
<1>2. PICK a, b, c : a = Ranked(d, 0) /\ b = Ranked(d, 1) /\ c = Ranked(d, 2)
  OBVIOUS
<1>3. /\ a \in Seq(Edits) /\ Distinct(a) /\ Rising(a) /\ Elements(a) = {e \in Elements(d) : e.rank = 0}
      /\ b \in Seq(Edits) /\ Distinct(b) /\ Rising(b) /\ Elements(b) = {e \in Elements(d) : e.rank = 1}
      /\ c \in Seq(Edits) /\ Distinct(c) /\ Rising(c) /\ Elements(c) = {e \in Elements(d) : e.rank = 2}
  BY <1>1, <1>2, RankedIs
<1>4. PICK l : l = a \o b
  OBVIOUS
<1>5. \A x \in Elements(a), y \in Elements(b) : x.rank < y.rank
  BY <1>3
<1>6. l \in Seq(Edits) /\ Distinct(l) /\ Rising(l) /\ Elements(l) = Elements(a) \cup Elements(b)
  BY <1>3, <1>4, <1>5, JoinedIs
<1>7. \A x \in Elements(l), y \in Elements(c) : x.rank < y.rank
  BY <1>3, <1>6
<1>8. PICK o : o = l \o c
  OBVIOUS
<1>9. o \in Seq(Edits) /\ Distinct(o) /\ Rising(o) /\ Elements(o) = Elements(l) \cup Elements(c)
  BY <1>3, <1>6, <1>7, <1>8, JoinedIs
<1>10. Elements(o) = Elements(d)
  <2>1. \A e \in Elements(d) : e \in Edits
    BY <1>1 DEF Elements
  <2>2. \A e \in Elements(d) : e.rank \in 0..2
    BY <2>1, PolicyEngineAssumption DEF EditShape
  <2>3. QED
    BY <1>3, <1>6, <1>9, <2>2
<1>11. o = EvaluationOrder(d)
  BY <1>2, <1>4, <1>8 DEF EvaluationOrder
<1>12. QED
  BY <1>9, <1>10, <1>11

Rules == Registered(engine.config)

\* The files that were evaluated, and those that fail whatever the order.
Checked == Elements(diff) \ Elements(unchecked)
Fails(e) ==
    \/ "patterns" \in Rules /\ e.banned
    \/ /\ "tdd" \in Rules /\ engine.config.strict /\ e.path = "src"
       /\ \A f \in Elements(diff) : f.path # "tests"

EngineOK ==
    /\ engine = [config |-> engine.config, restored |-> engine.restored]
    /\ engine.config.bundles \in SUBSET Bundles /\ engine.config.supervisor = None

CheckInv ==
    /\ diff \in Diffs /\ unchecked \in Seq(Edits) /\ Distinct(unchecked) /\ Rising(unchecked)
    /\ Elements(unchecked) \subseteq Elements(diff)
    /\ EngineOK /\ exit \in {None, 0, 1} /\ (exit = 0 => unchecked = <<>>)
    /\ engine.restored["tdd"] \in BOOLEAN
    /\ engine.restored["tdd"] <=> "tdd" \in Rules /\ \E e \in Checked : e.path = "tests"
    /\ (\E e \in Checked : Fails(e)) => exit = 1
    /\ SortedApart(Elements(diff)) /\ "workflow" \notin Rules /\ exit = 1 => \E e \in Checked : Fails(e)

LEMMA CheckInvImplies == ASSUME CheckInv PROVE DiffVerdictIsOrderFree
<1> DEFINE forbidden ==
              \/ "patterns" \in Rules /\ \E e \in Elements(diff) : e.banned
              \/ /\ "tdd" \in Rules /\ engine.config.strict
                 /\ \E e \in Elements(diff) : e.path = "src"
                 /\ \A e \in Elements(diff) : e.path # "tests"
<1>1. SUFFICES ASSUME unchecked = <<>>
               PROVE  /\ forbidden => exit = 1
                      /\ SortedApart(Elements(diff)) /\ "workflow" \notin Rules => (exit = 1 => forbidden)
  BY DEF DiffVerdictIsOrderFree, Rules, Elements
<1>2. Elements(unchecked) = {}
  BY <1>1 DEF Elements
<1>3. Checked = Elements(diff)
  BY <1>2 DEF Checked
<1>4. /\ (\E e \in Elements(diff) : Fails(e)) => exit = 1
      /\ SortedApart(Elements(diff)) /\ "workflow" \notin Rules /\ exit = 1 => \E e \in Elements(diff) : Fails(e)
  BY <1>3 DEF CheckInv
<1>5. forbidden <=> \E e \in Elements(diff) : Fails(e)
  BY DEF Fails
<1> HIDE DEF forbidden
<1>6. QED
  BY <1>4, <1>5

LEMMA CheckInitInv == ASSUME CheckInit PROVE CheckInv
<1>1. diff \in Diffs /\ unchecked = EvaluationOrder(diff) /\ exit = None
  BY DEF CheckInit
<1>2. /\ unchecked \in Seq(Edits) /\ Elements(unchecked) = Elements(diff)
      /\ Distinct(unchecked) /\ Rising(unchecked)
  BY <1>1, OrderIs
<1>3. Checked = {}
  BY <1>2 DEF Checked
<1>4. PICK b \in SUBSET Bundles, strict \in BOOLEAN :
         engine = [config |-> OnDemand(b, strict), restored |-> NoStates]
  BY DEF CheckInit
<1>5. PICK c : c = OnDemand(b, strict)
  OBVIOUS
<1>6. c.bundles = b /\ c.supervisor = None
  BY <1>5 DEF OnDemand, NoPolicy
<1>7. engine = [config |-> c, restored |-> NoStates] /\ engine.config = c /\ engine.restored = NoStates
  BY <1>4, <1>5
<1>8. engine.restored["tdd"] = FALSE
  BY <1>7 DEF NoStates
<1>9. EngineOK
  BY <1>6, <1>7 DEF EngineOK
<1>10. None # 0 /\ None # 1
  BY GuardCheckAssumption
<1>11. QED
  BY <1>1, <1>2, <1>3, <1>8, <1>9, <1>10 DEF CheckInv

\* What one file does to the exit code, with what was found before.
LEMMA FileIsJudged ==
  ASSUME CheckInv, NEW e \in Elements(diff), NEW k, k.config = engine.config, k.restored = engine.restored, k.edit = e,
         \A f \in Elements(unchecked) : e.rank <= f.rank, NEW v,
         DOMAIN v = Active(k), Active(k) \subseteq {"tdd", "patterns", "workflow"},
         "tdd" \in Active(k) => v["tdd"] = Ruling("tdd", k),
         "patterns" \in Active(k) => v["patterns"] = Ruling("patterns", k)
  PROVE  /\ Fails(e) => Denied(Decisions(v))
         /\ SortedApart(Elements(diff)) /\ "workflow" \notin Rules /\ Denied(Decisions(v)) => Fails(e)
<1>1. e \in Edits
  <2>1. PICK n \in 1 .. MaxFiles : diff \in [1 .. n -> Edits]
    BY DEF CheckInv, Diffs
  <2>2. QED
    BY <2>1 DEF Elements
<1>2. e.path \in {"tests", "src", "docs"} /\ e.banned \in BOOLEAN /\ e.rank \in Nat
  BY <1>1, PolicyEngineAssumption DEF EditShape
<1>3. PICK active : active = Active(k)
  OBVIOUS
<1>4. /\ "patterns" \in active <=> "patterns" \in Rules
      /\ "tdd" \in active <=> "tdd" \in Rules /\ e.path \in {"tests", "src"}
      /\ "workflow" \in active => "workflow" \in Rules
  BY <1>3 DEF Active, Rules, Applies
<1>5. Denied(Decisions(v)) <=> \E p \in active : v[p].decision = "deny"
  BY <1>3 DEF Denied, Decisions
<1>6. Deny.decision = "deny" /\ Allow.decision = "allow" /\ Warn.decision = "warn"
  BY DEF Deny, Allow, Warn, Verdict
<1>7. "patterns" \in active => v["patterns"] = IF e.banned THEN Deny ELSE Allow
  BY <1>3 DEF Ruling
<1>8. "tdd" \in active =>
         v["tdd"] = IF e.path = "src" /\ ~engine.restored["tdd"]
                    THEN IF engine.config.strict THEN Deny ELSE Warn ELSE Allow
  BY <1>3 DEF Ruling
<1>9. engine.restored["tdd"] \in BOOLEAN
      /\ (engine.restored["tdd"] <=> "tdd" \in Rules /\ \E f \in Checked : f.path = "tests")
  BY DEF CheckInv
<1>10. "tdd" \in Rules /\ (\A f \in Elements(diff) : f.path # "tests") => ~engine.restored["tdd"]
  BY <1>9 DEF Checked
<1>11. ASSUME SortedApart(Elements(diff)), "tdd" \in Rules, e.path = "src", ~engine.restored["tdd"],
              NEW f \in Elements(diff)
       PROVE  f.path # "tests"
  <2>1. CASE f \in Checked
    BY <1>9, <1>11, <2>1
  <2>2. CASE f \in Elements(unchecked)
    <3>1. f.path = "tests" => f.rank < e.rank
      BY <1>11 DEF SortedApart
    <3>2. f \in Edits
      <4>1. PICK n \in 1 .. MaxFiles : diff \in [1 .. n -> Edits]
        BY DEF CheckInv, Diffs
      <4>2. QED
        BY <4>1 DEF Elements
    <3>3. f.rank \in Nat
      BY <3>2, PolicyEngineAssumption DEF EditShape
    <3>4. QED
      BY <1>2, <2>2, <3>1, <3>3
  <2>3. QED
    BY <2>1, <2>2 DEF Checked
<1>12. Fails(e) => Denied(Decisions(v))
  <2>1. CASE "patterns" \in Rules /\ e.banned
    BY <1>4, <1>5, <1>6, <1>7, <2>1
  <2>2. CASE "tdd" \in Rules /\ engine.config.strict /\ e.path = "src" /\ \A f \in Elements(diff) : f.path # "tests"
    <3>1. "tdd" \in active /\ v["tdd"] = Deny
      BY <1>4, <1>8, <1>10, <2>2
    <3>2. QED
      BY <1>5, <1>6, <3>1
  <2>3. QED
    BY <2>1, <2>2 DEF Fails
<1>13. ASSUME SortedApart(Elements(diff)), "workflow" \notin Rules, Denied(Decisions(v)) PROVE Fails(e)
  <2>1. PICK p \in {"tdd", "patterns"} : p \in active /\ v[p].decision = "deny"
    BY <1>3, <1>4, <1>5, <1>13
  <2>2. CASE p = "patterns"
    BY <1>4, <1>6, <1>7, <2>1, <2>2 DEF Fails
  <2>3. CASE p = "tdd"
    <3>1. e.path = "src" /\ ~engine.restored["tdd"] /\ engine.config.strict /\ "tdd" \in Rules
      BY <1>4, <1>6, <1>8, <2>1, <2>3
    <3>2. QED
      BY <1>11, <1>13, <3>1 DEF Fails
  <2>4. QED
    BY <2>1, <2>2, <2>3
<1>14. QED
  BY <1>12, <1>13

LEMMA CheckFileStep == ASSUME CheckInv, CheckFile PROVE CheckInv'
<1>1. /\ diff \in Diffs /\ unchecked \in Seq(Edits) /\ Distinct(unchecked) /\ Rising(unchecked)
      /\ Elements(unchecked) \subseteq Elements(diff) /\ EngineOK /\ exit \in {None, 0, 1}
      /\ (exit = 0 => unchecked = <<>>) /\ engine.restored["tdd"] \in BOOLEAN
      /\ (engine.restored["tdd"] <=> "tdd" \in Rules /\ \E f \in Checked : f.path = "tests")
      /\ ((\E f \in Checked : Fails(f)) => exit = 1)
      /\ (SortedApart(Elements(diff)) /\ "workflow" \notin Rules /\ exit = 1 => \E f \in Checked : Fails(f))
  BY DEF CheckInv
<1>2. unchecked # <<>> /\ unchecked' = Tail(unchecked) /\ UNCHANGED diff
  BY DEF CheckFile
<1>3. PICK e, rest : e = Head(unchecked) /\ rest = Tail(unchecked)
  OBVIOUS
<1>4. /\ e \in Edits /\ rest \in Seq(Edits) /\ Distinct(rest) /\ Rising(rest)
      /\ Elements(unchecked) = {e} \cup Elements(rest) /\ e \notin Elements(rest)
      /\ \A f \in Elements(unchecked) : e.rank <= f.rank
  BY <1>1, <1>2, <1>3, Shorter
<1>5. Checked' = Checked \cup {e} /\ e \in Elements(diff)
  <2>1. Checked' = Elements(diff) \ Elements(rest)
    BY <1>2, <1>3 DEF Checked, Elements
  <2>2. QED
    BY <1>1, <1>4, <2>1 DEF Checked
<1>6. PICK k : k = [config |-> engine.config, restored |-> engine.restored, edit |-> Head(unchecked)]
  OBVIOUS
<1>7. k.config = engine.config /\ k.restored = engine.restored /\ k.edit = e
  BY <1>3, <1>6
<1>8. PICK active : active = Active(k)
  OBVIOUS
<1>9. PICK w, v :
         /\ w \in Verdicts("workflow", k) /\ v = Judgement(k, None, w, Allow)
         /\ exit' = IF Denied(Decisions(v)) THEN 1 ELSE exit
         /\ engine' = [engine EXCEPT !.restored = [p \in Stateful |->
                          IF p \in active THEN StateAfter(p, k, v[p]) ELSE engine.restored[p]]]
  <2> DEFINE now == [config |-> engine.config, restored |-> engine.restored, edit |-> Head(unchecked)]
  <2>1. PICK w \in Verdicts("workflow", now) :
           LET v == Judgement(now, None, w, Allow)
           IN  /\ exit' = IF Denied(Decisions(v)) THEN 1 ELSE exit
               /\ engine' = [engine EXCEPT !.restored = [p \in Stateful |->
                      IF p \in Active(now) THEN StateAfter(p, now, v[p]) ELSE engine.restored[p]]]
    BY <1>1 DEF CheckFile, EngineOK
  <2>2. now = k /\ Active(now) = active
    BY <1>6, <1>8
  <2> HIDE DEF now
  <2>3. QED
    BY <2>1, <2>2
<1>10. active \subseteq {"tdd", "patterns", "workflow"}
  BY <1>1, <1>7, <1>8 DEF Active, Registered, Judges, EngineOK
<1>11. /\ DOMAIN v = active
       /\ "tdd" \in active => v["tdd"] = Ruling("tdd", k)
       /\ "patterns" \in active => v["patterns"] = Ruling("patterns", k)
  <2>1. Allow \in Verdicts("supervisor", k)
    BY <1>8, <1>10 DEF Verdicts
  <2>2. None \in Opt(active) /\ None # "tdd" /\ None # "patterns"
    BY PolicyEngineAssumption DEF Opt
  <2>3. QED
    BY <1>8, <1>9, <2>1, <2>2, JudgementIs
<1>12. PICK denied : denied = Denied(Decisions(v))
  OBVIOUS
<1>13. /\ Fails(e) => denied
       /\ SortedApart(Elements(diff)) /\ "workflow" \notin Rules /\ denied => Fails(e)
  BY <1>4, <1>5, <1>7, <1>8, <1>10, <1>11, <1>12, FileIsJudged
<1>14. /\ engine'.config = engine.config /\ EngineOK'
       /\ engine'.restored["tdd"] = (IF "tdd" \in active THEN (engine.restored["tdd"] \/ e.path = "tests")
                                     ELSE engine.restored["tdd"])
  <2>1. PICK r : r = [p \in Stateful |-> IF p \in active THEN StateAfter(p, k, v[p]) ELSE engine.restored[p]]
    OBVIOUS
  <2>2. "tdd" \in Stateful
    BY DEF Stateful, NoStates
  <2>3. r["tdd"] = IF "tdd" \in active THEN StateAfter("tdd", k, v["tdd"]) ELSE engine.restored["tdd"]
    BY <2>1, <2>2
  <2>4. StateAfter("tdd", k, v["tdd"]) = (engine.restored["tdd"] \/ e.path = "tests")
    BY <1>7 DEF StateAfter
  <2>5. engine' = [config |-> engine.config, restored |-> r]
    BY <1>1, <1>9, <2>1 DEF EngineOK
  <2>6. engine'.config = engine.config /\ engine'.restored = r
    BY <2>5
  <2>7. EngineOK'
    BY <1>1, <2>5, <2>6 DEF EngineOK
  <2>8. QED
    BY <2>3, <2>4, <2>6, <2>7
<1>15. Rules' = Rules /\ \A f : Fails(f)' <=> Fails(f)
  BY <1>2, <1>14 DEF Rules, Fails, Elements
<1>16. engine'.restored["tdd"] \in BOOLEAN
       /\ (engine'.restored["tdd"] <=> "tdd" \in Rules' /\ \E f \in Checked' : f.path = "tests")
  <2>1. "tdd" \in active <=> "tdd" \in Rules /\ e.path \in {"tests", "src"}
    BY <1>7, <1>8 DEF Active, Rules, Applies
  <2>2. QED
    BY <1>1, <1>5, <1>14, <1>15, <2>1
<1>17. exit' = (IF denied THEN 1 ELSE exit) /\ exit # 0
  BY <1>1, <1>2, <1>9, <1>12
<1>18. exit' \in {None, 0, 1} /\ exit' # 0
  BY <1>1, <1>17
<1>19. (\E f \in Checked' : Fails(f)') => exit' = 1
  BY <1>1, <1>5, <1>13, <1>15, <1>17
<1>20. SortedApart(Elements(diff)) /\ "workflow" \notin Rules /\ exit' = 1 => \E f \in Checked' : Fails(f)'
  BY <1>1, <1>5, <1>13, <1>15, <1>17
<1>21. SortedApart(Elements(diff))' <=> SortedApart(Elements(diff))
  BY <1>2 DEF SortedApart, Elements
<1>22. /\ unchecked' \in Seq(Edits) /\ Distinct(unchecked)' /\ Rising(unchecked)'
       /\ (Elements(unchecked) \subseteq Elements(diff))'
  <2>1. unchecked' = rest /\ diff' = diff
    BY <1>2, <1>3
  <2>2. Distinct(unchecked)'
    BY <1>4, <2>1 DEF Distinct
  <2>3. Rising(unchecked)'
    BY <1>4, <2>1 DEF Rising
  <2>4. Elements(rest) \subseteq Elements(diff)
    BY <1>1, <1>4
  <2>5. (Elements(unchecked) \subseteq Elements(diff))'
    BY <2>1, <2>4 DEF Elements
  <2>6. QED
    BY <1>4, <2>1, <2>2, <2>3, <2>5
<1>23. QED
  BY <1>1, <1>2, <1>14, <1>15, <1>16, <1>18, <1>19, <1>20, <1>21, <1>22 DEF CheckInv

\* The verdict on a diff is that of its files as a set, where the sort tells tests from implementation,
\* and elsewhere no more lenient: for diffs of any length in any order and any bundles.
THEOREM VerdictOrderFree == CheckSpec => []DiffVerdictIsOrderFree
<1>1. CheckInit => CheckInv
  BY CheckInitInv
<1>2. CheckInv /\ [CheckNext]_checkVars => CheckInv'
  <2> SUFFICES ASSUME CheckInv, [CheckNext]_checkVars PROVE CheckInv'
    OBVIOUS
  <2>1. CASE CheckFile
    BY <2>1, CheckFileStep
  <2>2. CASE Report \/ UNCHANGED checkVars
    <3>1. UNCHANGED <<diff, unchecked, engine>>
      BY <2>2 DEF Report, checkVars
    <3>2. /\ Checked' = Checked /\ Rules' = Rules /\ (\A e : Fails(e)' <=> Fails(e)) /\ (EngineOK => EngineOK')
          /\ (Distinct(unchecked) => Distinct(unchecked)') /\ (Rising(unchecked) => Rising(unchecked)')
          /\ (SortedApart(Elements(diff))' <=> SortedApart(Elements(diff)))
          /\ (Elements(unchecked) \subseteq Elements(diff) => (Elements(unchecked) \subseteq Elements(diff))')
      BY <3>1 DEF Checked, Rules, Fails, EngineOK, Distinct, Rising, SortedApart, Elements
    <3>3. \/ exit' = exit
          \/ unchecked' = <<>> /\ exit' = 0 /\ exit # 1
      BY <2>2, GuardCheckAssumption DEF Report, checkVars
    <3>4. QED
      BY <3>1, <3>2, <3>3 DEF CheckInv
  <2>3. QED
    BY <2>1, <2>2 DEF CheckNext
<1>3. CheckInv => DiffVerdictIsOrderFree
  BY CheckInvImplies
<1>4. QED
  BY <1>1, <1>2, <1>3, PTL DEF CheckSpec

-----------------------------------------------------------------------------
(***************************************************************************)
(* SearchIndex, for any finite set of transcripts and any versions.        *)
(*                                                                         *)
(* A handler writes the metadata first and the content last, and holds the *)
(* marker while it does: what it has written so far is known at each step  *)
(* (DocWhole).  That is said while nothing has disturbed the index; a      *)
(* rebuild that meets no handler (Accompanied) restores it, store by store *)
(* (Rebuilding), and a clean takes away only what it has listed as removed *)
(* (Cleaning).  A version that is not found has a marker, a Stop hook or   *)
(* an excuse (Settled).                                                    *)
(***************************************************************************)

SomeVersions == [Docs -> Versions]
Markers == [state : {"none", "pending", "failed"}, attempts : 0..Attempts]
Handlers == [step : 0..4, extracted : Versions]
Commands == [name : {None, "rebuild-index", "clean"}, step : 0..4, alone : BOOLEAN,
             snapshot : SomeVersions, removed : SUBSET Docs, missing : SUBSET Docs]

SearchTypes ==
    /\ version \in SomeVersions /\ documents \in SUBSET Docs /\ content \in SomeVersions
    /\ indexed_files \in SomeVersions
    /\ bm25 = [built |-> bm25.built, keys |-> bm25.keys, freqs |-> bm25.freqs]
    /\ bm25.keys \in SomeVersions /\ bm25.freqs \in [Terms -> Nat]
    /\ stopping \in SUBSET Docs /\ dropped \in SUBSET Docs /\ disturbed \in BOOLEAN
    /\ marker \in [Docs -> Markers] /\ handler \in [Docs -> Handlers] /\ command \in Commands
    /\ search = [step |-> search.step, term |-> search.term, keys |-> search.keys, calm |-> search.calm]
    /\ search.step \in 0..2 /\ search.keys \in SomeVersions /\ search.calm \in BOOLEAN

Running(d) == handler[d].step # 0
Settled(d) == marker[d].state = "none" /\ ~Running(d) /\ d \notin stopping \cup dropped

\* The marker of what is handled stays, and what the handler extracted is the last version
\* unless there is an excuse.
HandlerOK(d) ==
    /\ marker[d].state = "pending" => marker[d].attempts < Attempts
    /\ Running(d) => /\ marker[d].state = "pending" /\ handler[d].extracted # 0
                     /\ (version[d] # 0 /\ d \notin stopping \cup dropped => handler[d].extracted = version[d])

Accompanied ==
    /\ Commanded /\ command.alone => \A d \in Docs : ~Running(d)
    /\ Commanded /\ ~command.alone => disturbed
    /\ ~Commanded => command.removed = {}

DocWhole(d) ==
    /\ bm25.keys[d] # 0 \/ content[d] # 0 => d \in documents \/ d \in command.removed
    /\ handler[d].step >= 2 => d \in documents
    /\ handler[d].step >= 3 => bm25.keys[d] = handler[d].extracted
    /\ handler[d].step >= 4 => content[d] = handler[d].extracted
    /\ marker[d].state = "none" /\ ~Running(d) => content[d] = bm25.keys[d]
    /\ Settled(d) /\ version[d] # 0 => bm25.keys[d] = version[d]
Whole == ~disturbed /\ command.name # "rebuild-index" => \A d \in Docs : DocWhole(d)

DocRebuilt(d) ==
    /\ command.step >= 2 => (d \in documents <=> command.snapshot[d] # 0)
    /\ command.step >= 3 => bm25.keys[d] = command.snapshot[d]
    /\ command.step >= 4 => content[d] = command.snapshot[d]
    /\ Settled(d) /\ version[d] # 0 => command.snapshot[d] = version[d]
Rebuilding == command.name = "rebuild-index" /\ command.alone => \A d \in Docs : DocRebuilt(d)

DocCleaned(d) ==
    /\ d \in command.missing => version[d] = 0
    /\ d \in command.removed /\ ~disturbed => version[d] = 0 \/ ~Settled(d)
    /\ command.step = 1 => d \notin command.removed
    /\ d \in command.missing /\ command.step = 2 /\ ~disturbed => d \notin documents
Cleaning == command.name = "clean" => \A d \in Docs : DocCleaned(d)

Found ==
    search.calm => ~disturbed /\ ~Commanded /\ \A d \in Docs : search.keys[d] # 0 => bm25.keys[d] # 0

SearchInv ==
    /\ SearchTypes /\ FrequenciesAgree /\ (\A d \in Docs : HandlerOK(d)) /\ Accompanied
    /\ Whole /\ Rebuilding /\ Cleaning /\ Found

LEMMA VersionsAre == 0 \in Versions /\ Versions \subseteq Nat /\ Nothing \in SomeVersions /\ Len(TermsIn) \in Nat
<1>1. Len(TermsIn) \in Nat
  BY SearchAssumption
<1>2. QED
  BY <1>1 DEF Versions, Nothing, SomeVersions

LEMMA SearchInvImplies ==
  ASSUME SearchInv
  PROVE  SearchTypeOK /\ FrequenciesAgree /\ IndexIsWhole /\ IndexIsFresh /\ SearchesMeetHandlers
<1>1. SearchTypes /\ FrequenciesAgree /\ Accompanied /\ Whole /\ Found
  BY DEF SearchInv
<1>2. SearchTypeOK
  <2>1. \A t \in Terms : bm25.freqs[t] \in 0..Cardinality(Docs)
    <3>1. ASSUME NEW t \in Terms PROVE bm25.freqs[t] \in 0..Cardinality(Docs)
      <4>1. PICK S : S = {d \in Docs : t \in TermsOf(bm25.keys[d])}
        OBVIOUS
      <4>2. S \subseteq Docs /\ IsFiniteSet(Docs)
        BY <4>1, SearchAssumption
      <4>3. Cardinality(S) \in Nat /\ Cardinality(Docs) \in Nat /\ Cardinality(S) <= Cardinality(Docs)
        BY <4>2, FS_Subset, FS_CardinalityType
      <4>4. bm25.freqs[t] = Cardinality(S)
        BY <1>1, <4>1 DEF FrequenciesAgree
      <4>5. QED
        BY <4>3, <4>4
    <3>2. QED
      BY <3>1
  <2>2. bm25.freqs \in [Terms -> 0..Cardinality(Docs)]
    BY <1>1, <2>1 DEF SearchTypes
  <2>3. Len(HandlerStores) + 1 = 4
    BY DEF HandlerStores
  <2>4. handler \in [Docs -> [step : 0..(Len(HandlerStores) + 1), extracted : Versions]]
    BY <1>1, <2>3 DEF SearchTypes, Handlers
  <2>5. command.name \in {None, "rebuild-index", "clean"}
    BY <1>1 DEF SearchTypes, Commands
  <2>6. QED
    BY <1>1, <2>2, <2>4, <2>5 DEF SearchTypeOK, SearchTypes, SomeVersions, Markers
<1>3. ~disturbed /\ ~Commanded => command.removed = {} /\ \A d \in Docs : DocWhole(d)
  BY <1>1, SearchAssumption DEF Whole, Commanded, Accompanied
<1>4. IndexIsWhole
  BY <1>3 DEF IndexIsWhole, DocWhole, Keys, Unfinished, Busy, Running
<1>5. IndexIsFresh
  BY <1>3 DEF IndexIsFresh, DocWhole, Unfinished, Busy, Running, Settled
<1>6. SearchesMeetHandlers
  <2> SUFFICES ASSUME search.calm
               PROVE  MissingMetadata = {} /\ MissingContent \subseteq Unfinished
    BY DEF SearchesMeetHandlers
  <2>1. /\ command.removed = {} /\ (\A d \in Docs : DocWhole(d))
        /\ \A d \in Docs : search.keys[d] # 0 => bm25.keys[d] # 0
    BY <1>1, <1>3 DEF Found
  <2>2. MissingMetadata = {}
    BY <2>1 DEF MissingMetadata, DocWhole
  <2>3. ASSUME NEW d \in MissingContent PROVE d \in Unfinished
    <3>1. d \in Docs /\ search.keys[d] # 0 /\ content[d] = 0
      BY <2>3 DEF MissingContent, TermsOf
    <3>2. QED
      BY <2>1, <3>1 DEF DocWhole, Unfinished, Busy, Running
  <2>4. QED
    BY <2>2, <2>3
<1>7. QED
  BY <1>1, <1>2, <1>4, <1>5, <1>6

LEMMA SearchInitInv == ASSUME SearchInit PROVE SearchInv
<1>1. /\ version = Nothing /\ documents = {} /\ content = Nothing /\ indexed_files = Nothing
      /\ bm25 = [built |-> FALSE, keys |-> Nothing, freqs |-> [t \in Terms |-> 0]]
      /\ marker = [d \in Docs |-> [state |-> "none", attempts |-> 0]]
      /\ handler = [d \in Docs |-> NoHandler] /\ command = NoCommand /\ search = NoSearch
      /\ stopping = {} /\ dropped = {} /\ disturbed = FALSE
  BY DEF SearchInit
<1>2. /\ command.name = None /\ command.removed = {} /\ search.calm = FALSE /\ bm25.keys = Nothing
      /\ bm25.freqs = [t \in Terms |-> 0]
  BY <1>1 DEF NoCommand, NoSearch
<1>3. command \in Commands
  BY <1>1, VersionsAre DEF NoCommand, Commands
<1>4. marker \in [Docs -> Markers] /\ handler \in [Docs -> Handlers]
  BY <1>1, VersionsAre, SearchAssumption DEF Markers, Handlers, NoHandler
<1>5. /\ search = [step |-> search.step, term |-> search.term, keys |-> search.keys, calm |-> search.calm]
      /\ search.step \in 0..2 /\ search.keys \in SomeVersions /\ search.calm \in BOOLEAN
  BY <1>1, VersionsAre DEF NoSearch
<1>6. bm25 = [built |-> bm25.built, keys |-> bm25.keys, freqs |-> bm25.freqs]
  BY <1>1
<1>7. SearchTypes
  BY <1>1, <1>2, <1>3, <1>4, <1>5, <1>6, VersionsAre DEF SearchTypes
<1>8. FrequenciesAgree
  <2>1. ASSUME NEW t \in Terms PROVE bm25.freqs[t] = Cardinality({d \in Docs : t \in TermsOf(bm25.keys[d])})
    <3>1. {d \in Docs : t \in TermsOf(bm25.keys[d])} = {}
      BY <1>2 DEF Nothing, TermsOf
    <3>2. QED
      BY <1>2, <3>1, FS_EmptySet
  <2>2. QED
    BY <2>1 DEF FrequenciesAgree
<1>9. \A d \in Docs : handler[d].step = 0 /\ marker[d].state = "none" /\ bm25.keys[d] = 0 /\ content[d] = 0 /\ version[d] = 0
  BY <1>1, <1>2 DEF NoHandler, Nothing
<1>10. \A d \in Docs : HandlerOK(d) /\ DocWhole(d)
  BY <1>9 DEF HandlerOK, DocWhole, Running
<1>11. Accompanied /\ Whole /\ Rebuilding /\ Cleaning /\ Found
  BY <1>2, <1>10, SearchAssumption DEF Accompanied, Commanded, Whole, Rebuilding, Cleaning, Found
<1>12. QED
  BY <1>7, <1>8, <1>10, <1>11 DEF SearchInv

-----------------------------------------------------------------------------
\* The count of a term when one document changes.
LEMMA Counting ==
  ASSUME NEW keys \in SomeVersions, NEW d \in Docs, NEW v \in Versions, NEW t \in Terms
  PROVE  LET old == {e \in Docs : t \in TermsOf(keys[e])}
             new == {e \in Docs : t \in TermsOf([keys EXCEPT ![d] = v][e])}
         IN  /\ Cardinality(old) \in Nat /\ Cardinality(new) \in Nat
             /\ (t \in TermsOf(keys[d]) => Cardinality(old) > 0)
             /\ Cardinality(new) = Cardinality(old) - (IF t \in TermsOf(keys[d]) THEN 1 ELSE 0)
                                                    + (IF t \in TermsOf(v) THEN 1 ELSE 0)
<1>1. PICK old, new, rest : /\ old = {e \in Docs : t \in TermsOf(keys[e])}
                            /\ new = {e \in Docs : t \in TermsOf([keys EXCEPT ![d] = v][e])}
                            /\ rest = old \ {d}
  OBVIOUS
<1>2. old \subseteq Docs /\ rest \subseteq Docs /\ d \notin rest /\ IsFiniteSet(Docs)
  BY <1>1, SearchAssumption
<1>3. /\ IsFiniteSet(old) /\ IsFiniteSet(rest) /\ Cardinality(old) \in Nat /\ Cardinality(rest) \in Nat
      /\ Cardinality(rest \cup {d}) = Cardinality(rest) + 1
  BY <1>2, FS_Subset, FS_CardinalityType, FS_AddElement
<1>4. old = IF t \in TermsOf(keys[d]) THEN rest \cup {d} ELSE rest
  BY <1>1
<1>5. new = IF t \in TermsOf(v) THEN rest \cup {d} ELSE rest
  BY <1>1 DEF SomeVersions
<1>6. Cardinality(old) = Cardinality(rest) + (IF t \in TermsOf(keys[d]) THEN 1 ELSE 0)
  BY <1>3, <1>4
<1>7. Cardinality(new) = Cardinality(rest) + (IF t \in TermsOf(v) THEN 1 ELSE 0)
  BY <1>3, <1>5
<1>8. Cardinality(old) \in Nat /\ Cardinality(new) \in Nat
  BY <1>3, <1>7
<1>9. QED
  BY <1>1, <1>3, <1>6, <1>7, <1>8

\* A document that is added or removed is counted, or no longer counted.
LEMMA Recounting ==
  ASSUME SearchTypes, FrequenciesAgree, NEW d \in Docs, NEW v \in Versions,
         \/ bm25' = Upsert(bm25, d, v)
         \/ v = 0 /\ bm25' = RemoveKey(bm25, d)
  PROVE  /\ bm25' = [built |-> bm25'.built, keys |-> bm25'.keys, freqs |-> bm25'.freqs]
         /\ bm25'.keys = [bm25.keys EXCEPT ![d] = v] /\ bm25'.keys \in SomeVersions
         /\ bm25'.freqs \in [Terms -> Nat] /\ FrequenciesAgree'
<1>1. /\ bm25 = [built |-> bm25.built, keys |-> bm25.keys, freqs |-> bm25.freqs]
      /\ bm25.keys \in SomeVersions /\ bm25.freqs \in [Terms -> Nat]
  BY DEF SearchTypes
<1>2. PICK keys, freqs : keys = [bm25.keys EXCEPT ![d] = v]
                         /\ freqs = More(Less(bm25.freqs, TermsOf(bm25.keys[d])), TermsOf(v))
  OBVIOUS
<1>3. v = 0 => freqs = Less(bm25.freqs, TermsOf(bm25.keys[d]))
  <2>1. v = 0 => TermsOf(v) = {}
    BY DEF TermsOf
  <2>2. PICK less : less = Less(bm25.freqs, TermsOf(bm25.keys[d]))
    OBVIOUS
  <2>3. less = [t \in Terms |-> less[t]]
    BY <2>2 DEF Less
  <2>4. v = 0 => freqs = [t \in Terms |-> less[t]]
    BY <1>2, <2>1, <2>2 DEF More
  <2>5. QED
    BY <2>2, <2>3, <2>4
<1>4. \E built : bm25' = [built |-> built, keys |-> keys, freqs |-> freqs]
  <2>1. CASE bm25' = Upsert(bm25, d, v)
    BY <1>2, <2>1 DEF Upsert
  <2>2. CASE v = 0 /\ bm25' = RemoveKey(bm25, d)
    <3>1. bm25' = [bm25 EXCEPT !.keys[d] = 0, !.freqs = Less(bm25.freqs, TermsOf(bm25.keys[d]))]
      BY <2>2 DEF RemoveKey
    <3>2. bm25' = [built |-> bm25.built, keys |-> keys, freqs |-> freqs]
      BY <1>1, <1>2, <1>3, <2>2, <3>1
    <3>3. QED
      BY <3>2
  <2>3. QED
    BY <2>1, <2>2
<1>5. PICK built : bm25' = [built |-> built, keys |-> keys, freqs |-> freqs]
  BY <1>4
<1>6. bm25'.keys = keys /\ bm25'.freqs = freqs /\ bm25'.built = built
  BY <1>5
<1>7. keys \in SomeVersions
  BY <1>1, <1>2 DEF SomeVersions
<1>8. ASSUME NEW t \in Terms
      PROVE  freqs[t] \in Nat /\ freqs[t] = Cardinality({e \in Docs : t \in TermsOf(keys[e])})
  <2>1. PICK old, new : /\ old = {e \in Docs : t \in TermsOf(bm25.keys[e])}
                        /\ new = {e \in Docs : t \in TermsOf([bm25.keys EXCEPT ![d] = v][e])}
    OBVIOUS
  <2>2. /\ Cardinality(old) \in Nat /\ Cardinality(new) \in Nat
        /\ (t \in TermsOf(bm25.keys[d]) => Cardinality(old) > 0)
        /\ Cardinality(new) = Cardinality(old) - (IF t \in TermsOf(bm25.keys[d]) THEN 1 ELSE 0)
                                               + (IF t \in TermsOf(v) THEN 1 ELSE 0)
    BY <1>1, <2>1, Counting
  <2>3. bm25.freqs[t] = Cardinality(old)
    BY <2>1 DEF FrequenciesAgree
  <2>4. freqs[t] = (IF t \in TermsOf(v) THEN Less(bm25.freqs, TermsOf(bm25.keys[d]))[t] + 1
                    ELSE Less(bm25.freqs, TermsOf(bm25.keys[d]))[t])
    BY <1>2 DEF More
  <2>5. Less(bm25.freqs, TermsOf(bm25.keys[d]))[t] =
           IF t \in TermsOf(bm25.keys[d]) /\ bm25.freqs[t] > 0 THEN bm25.freqs[t] - 1 ELSE bm25.freqs[t]
    BY DEF Less
  <2>6. freqs[t] = Cardinality(new)
    BY <2>2, <2>3, <2>4, <2>5
  <2>7. QED
    BY <1>2, <2>1, <2>2, <2>6
<1>9. FrequenciesAgree'
  BY <1>6, <1>8 DEF FrequenciesAgree, TermsOf
<1>10. freqs \in [Terms -> Nat]
  <2>1. freqs = [t \in Terms |-> freqs[t]]
    BY <1>2 DEF More
  <2>2. QED
    BY <1>8, <2>1
<1>11. QED
  BY <1>2, <1>5, <1>6, <1>7, <1>9, <1>10

-----------------------------------------------------------------------------
\* A document whose state is as it was, or of which less is known to be finished.
SameDoc(d) ==
    /\ handler'[d].step >= 2 => handler'[d] = handler[d]
    /\ marker'[d].state = "none" /\ handler'[d].step = 0 => marker[d].state = "none" /\ handler[d].step = 0
    /\ Settled(d)' /\ version'[d] # 0 => Settled(d) /\ version'[d] = version[d]

\* A document that a handler has finished with.
EndedDoc(d) ==
    /\ handler[d].step = 4 /\ handler'[d].step = 0
    /\ version'[d] = version[d] /\ stopping' = stopping /\ dropped' = dropped

\* The command is as it was, but for what it knows of what is missing and of company.
SameCommand ==
    /\ command'.name = command.name /\ command'.step = command.step /\ command'.snapshot = command.snapshot
    /\ command'.removed = command.removed /\ (Commanded /\ command'.alone => command.alone)
    /\ \A d \in command'.missing : d \in command.missing /\ (version[d] = 0 => version'[d] = 0)

LEMMA StoresStand ==
  ASSUME SearchInv, SearchTypes', UNCHANGED <<documents, bm25, content, search>>, disturbed => disturbed', SameCommand,
         \A d \in Docs : HandlerOK(d)' /\ (SameDoc(d) \/ EndedDoc(d)), Accompanied', search.calm => ~disturbed'
  PROVE  SearchInv'
<1>1. /\ FrequenciesAgree /\ Accompanied /\ Whole /\ Rebuilding /\ Cleaning /\ Found
      /\ \A d \in Docs : HandlerOK(d)
  BY DEF SearchInv
<1>2. FrequenciesAgree'
  BY <1>1 DEF FrequenciesAgree
<1>3. command.name # "rebuild-index" /\ ~disturbed' => Whole'
  <2>1. SUFFICES ASSUME command.name # "rebuild-index", ~disturbed', NEW d \in Docs PROVE DocWhole(d)'
    BY DEF Whole
  <2>2. DocWhole(d) /\ HandlerOK(d)
    BY <1>1, <2>1 DEF Whole
  <2>3. CASE SameDoc(d)
    <3>1. bm25'.keys[d] = bm25.keys[d] /\ content'[d] = content[d] /\ (d \in documents' <=> d \in documents)
      OBVIOUS
    <3>2. bm25'.keys[d] # 0 \/ content'[d] # 0 => d \in documents' \/ d \in command'.removed
      BY <2>2 DEF DocWhole, SameCommand
    <3>3. /\ handler'[d].step >= 2 => d \in documents'
          /\ handler'[d].step >= 3 => bm25'.keys[d] = handler'[d].extracted
          /\ handler'[d].step >= 4 => content'[d] = handler'[d].extracted
      <4>1. handler'[d].step \in 0..4
        BY DEF SearchTypes, Handlers
      <4>2. CASE handler'[d].step >= 2
        <5>1. handler'[d] = handler[d]
          BY <2>3, <4>2 DEF SameDoc
        <5>2. QED
          BY <2>2, <3>1, <5>1 DEF DocWhole
      <4>3. CASE ~(handler'[d].step >= 2)
        BY <4>1, <4>3
      <4>4. QED
        BY <4>2, <4>3
    <3>4. marker'[d].state = "none" /\ ~(handler'[d].step # 0) => content'[d] = bm25'.keys[d]
      BY <2>2, <2>3 DEF DocWhole, SameDoc, Running
    <3>5. Settled(d)' /\ version'[d] # 0 => bm25'.keys[d] = version'[d]
      BY <2>2, <2>3 DEF DocWhole, SameDoc
    <3>6. QED
      BY <3>2, <3>3, <3>4, <3>5 DEF DocWhole, Running
  <2>4. CASE EndedDoc(d)
    <3>1. handler[d].step = 4 /\ handler'[d].step = 0 /\ Running(d)
      BY <2>4 DEF EndedDoc, Running
    <3>2. bm25.keys[d] = handler[d].extracted /\ content[d] = handler[d].extracted /\ d \in documents
      BY <2>2, <3>1 DEF DocWhole
    <3>3. Settled(d)' /\ version'[d] # 0 => bm25'.keys[d] = version'[d]
      BY <2>2, <2>4, <3>1, <3>2 DEF Settled, HandlerOK, EndedDoc
    <3>4. QED
      BY <3>1, <3>2, <3>3 DEF DocWhole, Running
  <2>5. QED
    BY <2>3, <2>4
<1>4. Whole'
  BY <1>3 DEF Whole, SameCommand
<1>5. Rebuilding'
  <2>1. SUFFICES ASSUME command.name = "rebuild-index", command.alone, NEW d \in Docs PROVE DocRebuilt(d)'
    BY SearchAssumption DEF Rebuilding, SameCommand, Commanded
  <2>2. Commanded /\ ~Running(d) /\ DocRebuilt(d)
    BY <1>1, <2>1, SearchAssumption DEF Commanded, Accompanied, Rebuilding
  <2>3. SameDoc(d)
    BY <2>2 DEF EndedDoc, Running
  <2>4. QED
    BY <2>2, <2>3 DEF DocRebuilt, SameCommand, SameDoc
<1>6. Cleaning'
  <2>1. SUFFICES ASSUME command.name = "clean", NEW d \in Docs PROVE DocCleaned(d)'
    BY DEF Cleaning, SameCommand
  <2>2. DocCleaned(d)
    BY <1>1, <2>1 DEF Cleaning
  <2>3. ~disturbed => ~Running(d)
    BY <1>1, <2>1, SearchAssumption DEF Commanded, Accompanied
  <2>4. ~disturbed' => SameDoc(d)
    BY <2>3 DEF EndedDoc, Running
  <2>5. d \in command'.removed /\ ~disturbed' => version'[d] = 0 \/ ~Settled(d)'
    BY <2>2, <2>4 DEF DocCleaned, SameCommand, SameDoc
  <2>6. QED
    BY <2>2, <2>5 DEF DocCleaned, SameCommand
<1>7. Found'
  BY <1>1 DEF Found, Commanded, SameCommand
<1>8. QED
  BY <1>2, <1>4, <1>5, <1>6, <1>7 DEF SearchInv

\* What becomes of transcripts and their markers.
LEMMA TranscriptSteps ==
  ASSUME SearchInv, NEW d \in Docs,
         CopyTranscript(d) \/ EnqueueIndex(d) \/ IndexMarkerDropped(d) \/ DeleteTranscript(d)
  PROVE  SearchInv'
<1>1. SearchTypes /\ Accompanied /\ Found /\ (Cleaning) /\ \A e \in Docs : HandlerOK(e)
  BY DEF SearchInv
<1>2. UNCHANGED <<documents, bm25, content, indexed_files, search, handler, disturbed>>
  BY DEF CopyTranscript, EnqueueIndex, IndexMarkerDropped, DeleteTranscript, stores
<1>3. PICK c : c = [command EXCEPT !.missing = command.missing \ {d}]
  OBVIOUS
<1>4. /\ c \in Commands /\ c.name = command.name /\ c.step = command.step /\ c.alone = command.alone
      /\ c.snapshot = command.snapshot /\ c.removed = command.removed /\ c.missing = command.missing \ {d}
  BY <1>1, <1>3 DEF SearchTypes, Commands
<1>5. version \in SomeVersions /\ marker \in [Docs -> Markers] /\ stopping \in SUBSET Docs /\ dropped \in SUBSET Docs
  BY <1>1 DEF SearchTypes
<1>6. CASE CopyTranscript(d)
  <2>1. /\ version' = [version EXCEPT ![d] = version[d] + 1] /\ stopping' = stopping \cup {d}
        /\ command' = c /\ UNCHANGED <<marker, dropped>>
    BY <1>3, <1>6 DEF CopyTranscript
  <2>2. version' \in SomeVersions
    <3>1. version[d] \in 0..Len(TermsIn) /\ version[d] < Len(TermsIn) /\ Len(TermsIn) \in Nat
      BY <1>5, <1>6, VersionsAre DEF CopyTranscript, SomeVersions, Versions
    <3>2. version[d] + 1 \in Versions
      BY <3>1 DEF Versions
    <3>3. QED
      BY <1>5, <2>1, <3>2 DEF SomeVersions
  <2>3. \A e \in Docs : e # d => version'[e] = version[e] /\ (e \in stopping' <=> e \in stopping)
    BY <1>5, <2>1 DEF SomeVersions
  <2>4. SearchTypes'
    BY <1>1, <1>2, <1>4, <1>5, <2>1, <2>2 DEF SearchTypes
  <2>5. ASSUME NEW e \in Docs PROVE HandlerOK(e)' /\ SameDoc(e)
    <3>1. e = d => e \in stopping'
      BY <2>1
    <3>2. HandlerOK(e)'
      BY <1>1, <1>2, <2>1, <2>3, <3>1 DEF HandlerOK, Running
    <3>3. SameDoc(e)
      BY <1>2, <2>1, <2>3, <3>1 DEF SameDoc, Settled, Running
    <3>4. QED
      BY <3>2, <3>3
  <2>6. \A e \in command'.missing : e \in Docs /\ e # d /\ e \in command.missing
    BY <1>1, <1>4, <2>1 DEF SearchTypes, Commands
  <2>7. SameCommand
    BY <1>4, <2>1, <2>3, <2>6 DEF SameCommand
  <2>8. Accompanied'
    BY <1>1, <1>2, <1>4, <2>1 DEF Accompanied, Commanded, Running
  <2>9. QED
    BY <1>1, <1>2, <2>4, <2>5, <2>7, <2>8, StoresStand DEF Found
<1>7. CASE EnqueueIndex(d) \/ IndexMarkerDropped(d)
  <2>1. /\ stopping' = stopping \ {d} /\ UNCHANGED <<version, command>> /\ d \in stopping
        /\ \/ dropped' = dropped \cup {d} /\ marker' = marker
           \/ /\ dropped' = dropped \ {d} /\ ~Running(d)
              /\ marker' = [marker EXCEPT ![d] = [state |-> "pending", attempts |-> 0]]
    BY <1>7 DEF EnqueueIndex, IndexMarkerDropped, MarkerFree, Busy, Running
  <2>2. marker' \in [Docs -> Markers]
    <3>1. [state |-> "pending", attempts |-> 0] \in Markers
      BY SearchAssumption DEF Markers
    <3>2. QED
      BY <1>5, <2>1, <3>1
  <2>3. \A e \in Docs : e # d => /\ marker'[e] = marker[e] /\ (e \in stopping' <=> e \in stopping)
                                 /\ (e \in dropped' <=> e \in dropped)
    BY <1>5, <2>1
  <2>4. \/ d \in dropped' /\ marker'[d] = marker[d]
        \/ ~Running(d) /\ marker'[d].state = "pending" /\ marker'[d].attempts = 0
    BY <1>5, <2>1
  <2>5. SearchTypes'
    BY <1>1, <1>2, <1>5, <2>1, <2>2 DEF SearchTypes
  <2>6. ASSUME NEW e \in Docs PROVE HandlerOK(e)' /\ SameDoc(e)
    <3>1. Attempts > 0
      BY SearchAssumption
    <3>2. HandlerOK(e)'
      BY <1>1, <1>2, <2>1, <2>3, <2>4, <3>1 DEF HandlerOK, Running
    <3>3. SameDoc(e)
      BY <1>2, <2>1, <2>3, <2>4 DEF SameDoc, Settled, Running
    <3>4. QED
      BY <3>2, <3>3
  <2>7. SameCommand
    BY <2>1 DEF SameCommand
  <2>8. Accompanied'
    BY <1>1, <1>2, <2>1 DEF Accompanied, Commanded, Running
  <2>9. QED
    BY <1>1, <1>2, <2>5, <2>6, <2>7, <2>8, StoresStand DEF Found
<1>8. CASE DeleteTranscript(d)
  <2>1. version' = [version EXCEPT ![d] = 0] /\ UNCHANGED <<marker, stopping, dropped, command>>
    BY <1>8 DEF DeleteTranscript
  <2>2. version' \in SomeVersions /\ version'[d] = 0 /\ \A e \in Docs : e # d => version'[e] = version[e]
    BY <1>5, <2>1, VersionsAre DEF SomeVersions
  <2>3. SearchTypes'
    BY <1>1, <1>2, <1>5, <2>1, <2>2 DEF SearchTypes
  <2>4. ASSUME NEW e \in Docs PROVE HandlerOK(e)' /\ SameDoc(e)
    BY <1>1, <1>2, <2>1, <2>2 DEF HandlerOK, SameDoc, Settled, Running
  <2>5. SameCommand
    <3>1. command.missing \subseteq Docs
      BY <1>1 DEF SearchTypes, Commands
    <3>2. QED
      BY <2>1, <2>2, <3>1 DEF SameCommand
  <2>6. Accompanied'
    BY <1>1, <1>2, <2>1 DEF Accompanied, Commanded, Running
  <2>7. QED
    BY <1>1, <1>2, <2>3, <2>4, <2>5, <2>6, StoresStand DEF Found
<1>9. QED
  BY <1>6, <1>7, <1>8

\* A handler that fails leaves a marker that is not done.
LEMMA RetriedIs ==
  ASSUME SearchTypes, NEW d \in Docs, marker[d].state = "pending", marker[d].attempts < Attempts, FailMarker(d)
  PROVE  /\ marker' \in [Docs -> Markers] /\ marker'[d].state \in {"pending", "failed"}
         /\ (marker'[d].state = "pending" => marker'[d].attempts < Attempts)
         /\ handler' \in [Docs -> Handlers] /\ handler'[d].step = 0
         /\ \A e \in Docs : e # d => marker'[e] = marker[e] /\ handler'[e] = handler[e]
<1>1. marker \in [Docs -> Markers] /\ handler \in [Docs -> Handlers] /\ Attempts \in Nat
  BY SearchAssumption DEF SearchTypes
<1>2. PICK n : n = marker[d].attempts + 1
  OBVIOUS
<1>3. n \in 0..Attempts
  BY <1>1, <1>2 DEF Markers
<1>4. PICK m : m = [state |-> IF n >= Attempts THEN "failed" ELSE "pending", attempts |-> n]
  OBVIOUS
<1>5. m \in Markers /\ m.state \in {"pending", "failed"} /\ (m.state = "pending" => m.attempts < Attempts)
  BY <1>1, <1>3, <1>4 DEF Markers
<1>6. marker' = [marker EXCEPT ![d] = m] /\ handler' = [handler EXCEPT ![d] = NoHandler]
  BY <1>1, <1>2, <1>4 DEF FailMarker, Retried
<1>7. NoHandler \in Handlers /\ NoHandler.step = 0
  BY VersionsAre DEF NoHandler, Handlers
<1>8. QED
  BY <1>1, <1>5, <1>6, <1>7

\* A handler begins, fails or dies.
LEMMA HandlerSteps ==
  ASSUME SearchInv, NEW d \in Docs, StartIndexing(d) \/ \E dies \in BOOLEAN : IndexingFails(d, dies)
  PROVE  SearchInv'
<1>1. SearchTypes /\ Accompanied /\ Found /\ \A e \in Docs : HandlerOK(e)
  BY DEF SearchInv
<1>2. UNCHANGED <<version, documents, bm25, content, indexed_files, search, stopping, dropped>>
  BY DEF StartIndexing, IndexingFails, stores
<1>3. ASSUME UNCHANGED <<command, disturbed>>, marker' \in [Docs -> Markers], handler' \in [Docs -> Handlers],
             handler'[d].step = 0, marker'[d].state # "none",
             marker'[d].state = "pending" => marker'[d].attempts < Attempts,
             \A e \in Docs : e # d => marker'[e] = marker[e] /\ handler'[e] = handler[e]
      PROVE  SearchInv'
  <2>1. SearchTypes'
    BY <1>1, <1>2, <1>3 DEF SearchTypes
  <2>2. ASSUME NEW e \in Docs PROVE HandlerOK(e)' /\ SameDoc(e)
    BY <1>1, <1>2, <1>3 DEF HandlerOK, SameDoc, Settled, Running
  <2>3. SameCommand
    BY <1>2, <1>3 DEF SameCommand
  <2>4. Accompanied'
    BY <1>1, <1>3 DEF Accompanied, Commanded, Running
  <2>5. QED
    BY <1>1, <1>2, <1>3, <2>1, <2>2, <2>3, <2>4, StoresStand DEF Found
<1>4. CASE \E dies \in BOOLEAN : IndexingFails(d, dies)
  <2>1. Running(d) /\ UNCHANGED <<command, disturbed>>
    BY <1>4 DEF IndexingFails, Busy, Running
  <2>2. marker[d].state = "pending" /\ marker[d].attempts < Attempts
    BY <1>1, <2>1 DEF HandlerOK
  <2>3. CASE FailMarker(d)
    BY <1>1, <1>3, <2>1, <2>2, <2>3, RetriedIs
  <2>4. CASE handler' = [handler EXCEPT ![d] = NoHandler] /\ UNCHANGED marker
    <3>1. NoHandler \in Handlers /\ NoHandler.step = 0
      BY VersionsAre DEF NoHandler, Handlers
    <3>2. handler \in [Docs -> Handlers] /\ marker \in [Docs -> Markers]
      BY <1>1 DEF SearchTypes
    <3>3. QED
      BY <1>3, <2>1, <2>2, <2>4, <3>1, <3>2
  <2>5. QED
    BY <1>4, <2>3, <2>4 DEF IndexingFails
<1>5. CASE StartIndexing(d) /\ version[d] = 0
  <2>1. FailMarker(d) /\ UNCHANGED <<command, disturbed>> /\ marker[d].state = "pending"
    BY <1>5 DEF StartIndexing
  <2>2. marker[d].attempts < Attempts
    BY <1>1, <2>1 DEF HandlerOK
  <2>3. QED
    BY <1>1, <1>3, <2>1, <2>2, RetriedIs
<1>6. CASE StartIndexing(d) /\ version[d] # 0
  <2>1. /\ marker[d].state = "pending" /\ ~Running(d) /\ UNCHANGED marker
        /\ handler' = [handler EXCEPT ![d] = [step |-> 1, extracted |-> version[d]]]
        /\ disturbed' = (disturbed \/ Commanded)
        /\ command' = [command EXCEPT !.alone = ~Commanded]
    BY <1>6 DEF StartIndexing, Busy, Running
  <2>2. handler' \in [Docs -> Handlers] /\ handler'[d].step = 1 /\ handler'[d].extracted = version[d]
        /\ \A e \in Docs : e # d => handler'[e] = handler[e]
    <3>1. version[d] \in Versions /\ handler \in [Docs -> Handlers]
      BY <1>1 DEF SearchTypes, SomeVersions
    <3>2. [step |-> 1, extracted |-> version[d]] \in Handlers
      BY <3>1 DEF Handlers
    <3>3. QED
      BY <2>1, <3>1, <3>2
  <2>3. PICK b \in BOOLEAN : b = ~Commanded
    OBVIOUS
  <2>4. /\ command' \in Commands /\ command'.name = command.name /\ command'.step = command.step /\ command'.alone = b
        /\ command'.snapshot = command.snapshot /\ command'.removed = command.removed
        /\ command'.missing = command.missing
    BY <1>1, <2>1, <2>3 DEF SearchTypes, Commands
  <2>5. Commanded' = Commanded
    BY <2>4 DEF Commanded
  <2>6. SearchTypes'
    BY <1>1, <1>2, <2>1, <2>2, <2>4 DEF SearchTypes
  <2>7. ASSUME NEW e \in Docs PROVE HandlerOK(e)' /\ SameDoc(e)
    BY <1>1, <1>2, <1>6, <2>1, <2>2 DEF HandlerOK, SameDoc, Settled, Running
  <2>8. Accompanied'
    BY <1>1, <2>1, <2>3, <2>4, <2>5 DEF Accompanied
  <2>9. SameCommand
    BY <1>2, <2>3, <2>4 DEF SameCommand
  <2>10. search.calm => ~disturbed'
    BY <1>1, <2>1 DEF Found
  <2>11. QED
    BY <1>1, <1>2, <2>1, <2>6, <2>7, <2>8, <2>9, <2>10, StoresStand
<1>7. QED
  BY <1>4, <1>5, <1>6

\* A handler ends: what it has added is what is found.
LEMMA EndIndexingStep == ASSUME SearchInv, NEW d \in Docs, EndIndexing(d) PROVE SearchInv'
<1>1. SearchTypes /\ Accompanied /\ Found /\ \A e \in Docs : HandlerOK(e)
  BY DEF SearchInv
<1>2. UNCHANGED <<version, documents, bm25, content, search, command, stopping, dropped, disturbed>>
  BY DEF EndIndexing, stores, indexHistory
<1>3. handler[d].step = 4 /\ Running(d)
  <2>1. handler[d].step > 3 /\ handler[d].step \in 0..4
    BY <1>1 DEF EndIndexing, HandlerStores, SearchTypes, Handlers
  <2>2. QED
    BY <2>1 DEF Running
<1>4. marker[d].state = "pending" /\ marker[d].attempts < Attempts
  BY <1>1, <1>3 DEF HandlerOK
<1>5. SameCommand
  BY <1>2 DEF SameCommand
<1>6. ASSUME indexed_files' \in SomeVersions, marker' \in [Docs -> Markers], handler' \in [Docs -> Handlers],
             handler'[d].step = 0, marker'[d].state = "pending" => marker'[d].attempts < Attempts,
             \A e \in Docs : e # d => marker'[e] = marker[e] /\ handler'[e] = handler[e]
      PROVE  SearchInv'
  <2>1. SearchTypes'
    BY <1>1, <1>2, <1>6 DEF SearchTypes
  <2>2. ASSUME NEW e \in Docs PROVE HandlerOK(e)' /\ (SameDoc(e) \/ EndedDoc(e))
    <3>1. CASE e = d
      BY <1>2, <1>3, <1>6, <3>1 DEF HandlerOK, EndedDoc, Running
    <3>2. CASE e # d
      BY <1>1, <1>2, <1>6, <3>2 DEF HandlerOK, SameDoc, Settled, Running
    <3>3. QED
      BY <3>1, <3>2
  <2>3. Accompanied'
    BY <1>1, <1>2, <1>6 DEF Accompanied, Commanded, Running
  <2>4. QED
    BY <1>1, <1>2, <1>5, <2>1, <2>2, <2>3, StoresStand DEF Found
<1>7. CASE version[d] = 0
  <2>1. FailMarker(d) /\ UNCHANGED indexed_files
    BY <1>7 DEF EndIndexing
  <2>2. QED
    BY <1>1, <1>4, <1>6, <2>1, RetriedIs DEF SearchTypes
<1>8. CASE version[d] # 0
  <2>1. /\ indexed_files' = [indexed_files EXCEPT ![d] = version[d]]
        /\ marker' = [marker EXCEPT ![d].state = "none"]
        /\ handler' = [handler EXCEPT ![d] = NoHandler]
    BY <1>8 DEF EndIndexing
  <2>2. /\ version \in SomeVersions /\ indexed_files \in SomeVersions /\ marker \in [Docs -> Markers]
        /\ handler \in [Docs -> Handlers]
    BY <1>1 DEF SearchTypes
  <2>3. indexed_files' \in SomeVersions
    BY <2>1, <2>2 DEF SomeVersions
  <2>4. NoHandler \in Handlers /\ NoHandler.step = 0
    BY VersionsAre DEF NoHandler, Handlers
  <2>5. PICK m : m = [marker[d] EXCEPT !.state = "none"]
    OBVIOUS
  <2>6. m \in Markers /\ m.state = "none"
    BY <2>2, <2>5 DEF Markers
  <2>7. marker' = [marker EXCEPT ![d] = m]
    BY <2>1, <2>2, <2>5
  <2>8. QED
    BY <1>6, <2>1, <2>2, <2>3, <2>4, <2>6, <2>7
<1>9. QED
  BY <1>7, <1>8

\* A handler adds its transcript to a store.
LEMMA AddToStoreStep == ASSUME SearchInv, NEW d \in Docs, AddToStore(d) PROVE SearchInv'
<1>1. /\ SearchTypes /\ FrequenciesAgree /\ Accompanied /\ Whole /\ Rebuilding /\ Cleaning /\ Found
      /\ \A e \in Docs : HandlerOK(e)
  BY DEF SearchInv
<1>2. UNCHANGED <<version, indexed_files, marker, stopping, dropped, command, search, disturbed>>
  BY DEF AddToStore, indexHistory
<1>3. PICK i, v : i = handler[d].step /\ v = handler[d].extracted
  OBVIOUS
<1>4. i \in 1..3 /\ v \in Versions /\ Running(d) /\ v # 0
  <2>1. i \in 1..3
    BY <1>3 DEF AddToStore, HandlerStores
  <2>2. Running(d) /\ handler[d] \in Handlers
    BY <1>1, <1>3, <2>1 DEF Running, SearchTypes
  <2>3. QED
    BY <1>1, <1>3, <2>1, <2>2 DEF HandlerOK, Handlers
<1>5. /\ HandlerStores[1] = "documents" /\ HandlerStores[2] = "bm25" /\ HandlerStores[3] = "content"
  BY DEF HandlerStores
<1>6. /\ documents' = IF i = 1 THEN documents \cup {d} ELSE documents
      /\ bm25' = IF i = 2 THEN Upsert(bm25, d, v) ELSE bm25
      /\ content' = IF i = 3 THEN [content EXCEPT ![d] = v] ELSE content
  BY <1>3, <1>4, <1>5 DEF AddToStore, Add
<1>7. /\ handler' \in [Docs -> Handlers] /\ handler'[d].step = i + 1 /\ handler'[d].extracted = v
      /\ \A e \in Docs : e # d => handler'[e] = handler[e]
  <2>1. handler \in [Docs -> Handlers]
    BY <1>1 DEF SearchTypes
  <2>2. handler' = [handler EXCEPT ![d] = [step |-> i + 1, extracted |-> v]]
    <3>1. handler[d] = [step |-> i, extracted |-> v]
      BY <1>3, <2>1 DEF Handlers
    <3>2. [handler[d] EXCEPT !.step = handler[d].step + 1] = [step |-> i + 1, extracted |-> v]
      BY <3>1
    <3>3. handler' = [handler EXCEPT ![d] = [handler[d] EXCEPT !.step = handler[d].step + 1]]
      BY DEF AddToStore
    <3>4. QED
      BY <3>2, <3>3
  <2>3. [step |-> i + 1, extracted |-> v] \in Handlers
    <3>1. i + 1 \in 0..4
      BY <1>4
    <3>2. QED
      BY <1>4, <3>1 DEF Handlers
  <2>4. QED
    BY <2>1, <2>2, <2>3
<1>8. /\ bm25' = [built |-> bm25'.built, keys |-> bm25'.keys, freqs |-> bm25'.freqs]
      /\ bm25'.keys \in SomeVersions /\ bm25'.freqs \in [Terms -> Nat] /\ FrequenciesAgree'
      /\ bm25'.keys[d] = (IF i = 2 THEN v ELSE bm25.keys[d])
      /\ \A e \in Docs : e # d => bm25'.keys[e] = bm25.keys[e]
  <2>1. CASE i = 2
    <3>1. bm25' = Upsert(bm25, d, v)
      BY <1>6, <2>1
    <3>2. /\ bm25' = [built |-> bm25'.built, keys |-> bm25'.keys, freqs |-> bm25'.freqs]
          /\ bm25'.keys = [bm25.keys EXCEPT ![d] = v] /\ bm25'.keys \in SomeVersions
          /\ bm25'.freqs \in [Terms -> Nat] /\ FrequenciesAgree'
      BY <1>1, <1>4, <3>1, Recounting
    <3>3. bm25.keys \in SomeVersions
      BY <1>1 DEF SearchTypes
    <3>4. QED
      BY <2>1, <3>2, <3>3 DEF SomeVersions
  <2>2. CASE i # 2
    <3>1. bm25' = bm25
      BY <1>6, <2>2
    <3>2. QED
      BY <1>1, <2>2, <3>1 DEF SearchTypes, FrequenciesAgree
  <2>3. QED
    BY <2>1, <2>2
<1>9. /\ content' \in SomeVersions /\ content'[d] = (IF i = 3 THEN v ELSE content[d])
      /\ \A e \in Docs : e # d => content'[e] = content[e]
  BY <1>1, <1>4, <1>6 DEF SearchTypes, SomeVersions
<1>10. /\ documents' \in SUBSET Docs /\ documents \subseteq documents' /\ (i = 1 => d \in documents')
       /\ \A e \in Docs : e # d => (e \in documents' <=> e \in documents)
  BY <1>1, <1>6 DEF SearchTypes
<1>11. SearchTypes'
  BY <1>1, <1>2, <1>7, <1>8, <1>9, <1>10 DEF SearchTypes
<1>12. \A e \in Docs : (Running(e)' <=> Running(e)) /\ HandlerOK(e)'
  <2>1. ASSUME NEW e \in Docs PROVE (Running(e)' <=> Running(e)) /\ HandlerOK(e)'
    <3>1. CASE e = d
      BY <1>1, <1>2, <1>3, <1>4, <1>7, <3>1 DEF HandlerOK, Running
    <3>2. CASE e # d
      BY <1>1, <1>2, <1>7, <3>2 DEF HandlerOK, Running
    <3>3. QED
      BY <3>1, <3>2
  <2>2. QED
    BY <2>1
<1>13. Accompanied'
  BY <1>1, <1>2, <1>12 DEF Accompanied, Commanded
<1>14. Commanded => disturbed /\ ~command.alone
  BY <1>1, <1>4 DEF Accompanied
<1>15. Whole'
  <2>1. SUFFICES ASSUME ~disturbed, NEW e \in Docs PROVE DocWhole(e)'
    BY <1>2 DEF Whole
  <2>2. ~Commanded /\ command.removed = {} /\ DocWhole(e) /\ DocWhole(d)
    BY <1>1, <1>14, <2>1, SearchAssumption DEF Whole, Accompanied, Commanded
  <2>3. CASE e # d
    <3>1. /\ handler'[e] = handler[e] /\ marker'[e] = marker[e] /\ bm25'.keys[e] = bm25.keys[e]
          /\ content'[e] = content[e] /\ (e \in documents' <=> e \in documents)
          /\ (Settled(e)' <=> Settled(e)) /\ version'[e] = version[e]
      BY <1>2, <1>7, <1>8, <1>9, <1>10, <2>3 DEF Settled, Running
    <3>2. QED
      BY <1>2, <2>2, <3>1 DEF DocWhole, Running
  <2>4. CASE e = d
    <3>1. marker[d].state = "pending" /\ Running(d)'
      BY <1>1, <1>4, <1>12 DEF HandlerOK
    <3>2. d \in documents'
      BY <1>3, <1>4, <1>10, <2>2 DEF DocWhole
    <3>3. i + 1 >= 3 => bm25'.keys[d] = v
      BY <1>3, <1>4, <1>8, <2>2 DEF DocWhole
    <3>4. i + 1 >= 4 => content'[d] = v
      BY <1>4, <1>9
    <3>5. QED
      BY <1>2, <1>7, <2>4, <3>1, <3>2, <3>3, <3>4 DEF DocWhole, Settled
  <2>5. QED
    BY <2>3, <2>4
<1>16. Rebuilding'
  BY <1>2, <1>14, SearchAssumption DEF Rebuilding, Commanded
<1>17. Cleaning'
  <2>1. SUFFICES ASSUME command.name = "clean", NEW e \in Docs PROVE DocCleaned(e)'
    BY <1>2 DEF Cleaning
  <2>2. disturbed /\ DocCleaned(e)
    BY <1>1, <1>14, <2>1, SearchAssumption DEF Cleaning, Commanded
  <2>3. QED
    BY <1>2, <2>2 DEF DocCleaned
<1>18. Found'
  <2>1. ASSUME NEW e \in Docs, bm25.keys[e] # 0 PROVE bm25'.keys[e] # 0
    BY <1>4, <1>8, <2>1
  <2>2. QED
    BY <1>1, <1>2, <2>1 DEF Found, Commanded
<1>19. QED
  BY <1>8, <1>11, <1>12, <1>13, <1>15, <1>16, <1>17, <1>18 DEF SearchInv

-----------------------------------------------------------------------------
LEMMA NoCommandIs ==
  /\ NoCommand \in Commands /\ NoCommand.name = None /\ NoCommand.removed = {}
  /\ NoCommand.name \notin {"rebuild-index", "clean"}
BY VersionsAre, SearchAssumption DEF NoCommand, Commands

LEMMA BeginStep ==
  ASSUME SearchInv, BeginRebuild \/ Begin("clean", Nothing)
  PROVE  SearchInv'
<1>1. /\ SearchTypes /\ FrequenciesAgree /\ Accompanied /\ Whole /\ Found
      /\ \A e \in Docs : HandlerOK(e)
  BY DEF SearchInv
<1>2. PICK name \in {"rebuild-index", "clean"}, snapshot \in SomeVersions :
         Begin(name, snapshot) /\ (name = "rebuild-index" => snapshot = version)
  <2>1. CASE BeginRebuild
    BY <1>1, <2>1 DEF BeginRebuild, SearchTypes
  <2>2. CASE Begin("clean", Nothing)
    BY <2>2, VersionsAre
  <2>3. QED
    BY <2>1, <2>2
<1>3. UNCHANGED <<version, documents, bm25, content, indexed_files, marker, stopping, handler, dropped>>
  BY <1>2 DEF Begin, stores
<1>4. ~Commanded /\ disturbed' = (disturbed \/ Busy # {}) /\ search' = [search EXCEPT !.calm = FALSE]
  BY <1>2 DEF Begin
<1>5. PICK alone \in BOOLEAN, missing \in SUBSET Docs :
         alone = (Busy = {}) /\ missing = {d \in Docs : version[d] = 0}
  OBVIOUS
<1>6. command' = [name |-> name, step |-> 1, alone |-> alone, snapshot |-> snapshot, removed |-> {},
                  missing |-> missing]
  <2>1. command' = [NoCommand EXCEPT !.name = name, !.step = 1, !.alone = alone,
                      !.snapshot = snapshot, !.missing = missing]
    BY <1>2, <1>5 DEF Begin
  <2>2. QED
    BY <2>1 DEF NoCommand
<1>7. /\ command'.name = name /\ command'.step = 1 /\ command'.alone = alone /\ command'.snapshot = snapshot
      /\ command'.removed = {} /\ command'.missing = missing
  BY <1>6
<1>8. command' \in Commands
  BY <1>6 DEF Commands
<1>9. /\ search' = [step |-> search'.step, term |-> search'.term, keys |-> search'.keys, calm |-> search'.calm]
      /\ search'.step \in 0..2 /\ search'.keys \in SomeVersions /\ search'.calm = FALSE
  BY <1>1, <1>4 DEF SearchTypes
<1>10. SearchTypes'
  BY <1>1, <1>3, <1>4, <1>8, <1>9 DEF SearchTypes
<1>11. FrequenciesAgree' /\ \A e \in Docs : HandlerOK(e)'
  BY <1>1, <1>3 DEF FrequenciesAgree, HandlerOK, Running
<1>12. Commanded' /\ Accompanied'
  BY <1>3, <1>4, <1>5, <1>7, SearchAssumption DEF Accompanied, Commanded, Busy, Running
<1>13. Whole'
  <2>1. SUFFICES ASSUME ~disturbed', NEW d \in Docs PROVE DocWhole(d)'
    BY DEF Whole
  <2>2. DocWhole(d) /\ command.removed = {}
    BY <1>1, <1>4, <2>1, SearchAssumption DEF Whole, Accompanied, Commanded
  <2>3. QED
    BY <1>3, <1>7, <2>2 DEF DocWhole, Settled, Running
<1>14. Rebuilding' /\ Cleaning' /\ Found'
  BY <1>2, <1>3, <1>5, <1>7, <1>9 DEF Rebuilding, DocRebuilt, Cleaning, DocCleaned, Found
<1>15. QED
  BY <1>10, <1>11, <1>12, <1>13, <1>14 DEF SearchInv

LEMMA ReplaceStoreStep == ASSUME SearchInv, ReplaceStore PROVE SearchInv'
<1>1. /\ SearchTypes /\ FrequenciesAgree /\ Accompanied /\ Rebuilding /\ Found
      /\ \A e \in Docs : HandlerOK(e)
  BY DEF SearchInv
<1>2. UNCHANGED <<version, indexed_files, marker, stopping, handler, dropped, search, disturbed>>
  BY DEF ReplaceStore, indexHistory
<1>3. PICK i, snapshot : i = command.step /\ snapshot = command.snapshot
  OBVIOUS
<1>4. i \in 1..3 /\ snapshot \in SomeVersions /\ command.name = "rebuild-index" /\ Commanded
  BY <1>1, <1>3, SearchAssumption DEF ReplaceStore, RebuiltStores, SearchTypes, Commands, Commanded
<1>5. RebuiltStores[1] = "documents" /\ RebuiltStores[2] = "bm25" /\ RebuiltStores[3] = "content"
  BY DEF RebuiltStores
<1>6. /\ documents' = IF i = 1 THEN {d \in Docs : snapshot[d] # 0} ELSE documents
      /\ bm25' = IF i = 2 THEN Bulk(snapshot) ELSE bm25
      /\ content' = IF i = 3 THEN snapshot ELSE content
  BY <1>3, <1>4, <1>5 DEF ReplaceStore, Replace
<1>7. /\ command' \in Commands /\ command'.name = command.name /\ command'.step = i + 1
      /\ command'.alone = command.alone /\ command'.snapshot = snapshot
      /\ command'.removed = command.removed /\ command'.missing = command.missing
  <2>1. command' = [command EXCEPT !.step = i + 1] /\ i + 1 \in 0..4
    BY <1>3, <1>4 DEF ReplaceStore
  <2>2. command \in Commands
    BY <1>1 DEF SearchTypes
  <2>3. QED
    BY <1>3, <2>1, <2>2 DEF Commands
<1>8. /\ bm25' = [built |-> bm25'.built, keys |-> bm25'.keys, freqs |-> bm25'.freqs]
      /\ bm25'.keys \in SomeVersions /\ bm25'.freqs \in [Terms -> Nat] /\ FrequenciesAgree'
      /\ bm25'.keys = (IF i = 2 THEN snapshot ELSE bm25.keys)
  <2>1. CASE i = 2
    <3>1. PICK freqs : freqs = [t \in Terms |-> Cardinality({d \in Docs : t \in TermsOf(snapshot[d])})]
      OBVIOUS
    <3>2. bm25' = [built |-> TRUE, keys |-> snapshot, freqs |-> freqs]
      BY <1>6, <2>1, <3>1 DEF Bulk
    <3>3. bm25'.built = TRUE /\ bm25'.keys = snapshot /\ bm25'.freqs = freqs
      BY <3>2
    <3>4. ASSUME NEW t \in Terms PROVE freqs[t] \in Nat
      <4>1. {d \in Docs : t \in TermsOf(snapshot[d])} \subseteq Docs /\ IsFiniteSet(Docs)
        BY SearchAssumption
      <4>2. Cardinality({d \in Docs : t \in TermsOf(snapshot[d])}) \in Nat
        BY <4>1, FS_Subset, FS_CardinalityType
      <4>3. QED
        BY <3>1, <4>2
    <3>5. freqs \in [Terms -> Nat]
      BY <3>1, <3>4
    <3>6. FrequenciesAgree'
      BY <3>1, <3>3 DEF FrequenciesAgree, TermsOf
    <3>7. QED
      BY <1>4, <2>1, <3>2, <3>3, <3>5, <3>6
  <2>2. CASE i # 2
    BY <1>1, <1>6, <2>2 DEF SearchTypes, FrequenciesAgree
  <2>3. QED
    BY <2>1, <2>2
<1>9. SearchTypes'
  BY <1>1, <1>2, <1>4, <1>6, <1>7, <1>8 DEF SearchTypes
<1>10. (\A e \in Docs : HandlerOK(e)') /\ Accompanied'
  BY <1>1, <1>2, <1>7 DEF HandlerOK, Accompanied, Commanded, Running
<1>11. Whole' /\ Cleaning' /\ Found'
  BY <1>1, <1>2, <1>4, <1>7 DEF Whole, Cleaning, Found
<1>12. Rebuilding'
  <2>1. SUFFICES ASSUME command.alone, NEW d \in Docs PROVE DocRebuilt(d)'
    BY <1>7 DEF Rebuilding
  <2>2. DocRebuilt(d)
    BY <1>1, <1>4, <2>1 DEF Rebuilding
  <2>3. i + 1 >= 2 => (d \in documents' <=> snapshot[d] # 0)
    BY <1>3, <1>4, <1>6, <2>2 DEF DocRebuilt
  <2>4. i + 1 >= 3 => bm25'.keys[d] = snapshot[d]
    BY <1>3, <1>4, <1>8, <2>2 DEF DocRebuilt
  <2>5. i + 1 >= 4 => content'[d] = snapshot[d]
    BY <1>4, <1>6
  <2>6. Settled(d)' /\ version'[d] # 0 => snapshot[d] = version'[d]
    BY <1>2, <1>3, <2>2 DEF DocRebuilt, Settled, Running
  <2>7. QED
    BY <1>7, <2>3, <2>4, <2>5, <2>6 DEF DocRebuilt
<1>13. QED
  BY <1>8, <1>9, <1>10, <1>11, <1>12 DEF SearchInv

\* A command that ends leaves the stores to themselves.
LEMMA CommandEnds ==
  ASSUME SearchInv, EndRebuild \/ EndClean \/ CommandFails
  PROVE  SearchInv'
<1>1. /\ SearchTypes /\ FrequenciesAgree /\ Accompanied /\ Whole /\ Rebuilding /\ Found
      /\ \A e \in Docs : HandlerOK(e)
  BY DEF SearchInv
<1>2. /\ UNCHANGED <<version, documents, bm25, content, marker, stopping, handler, search, dropped>>
      /\ command' = NoCommand /\ Commanded
  BY SearchAssumption DEF EndRebuild, EndClean, CommandFails, stores, indexHistory, Commanded
<1>3. /\ command' \in Commands /\ ~Commanded' /\ command'.removed = {}
      /\ command'.name \notin {"rebuild-index", "clean"}
  BY <1>2, NoCommandIs DEF Commanded
<1>4. indexed_files' \in SomeVersions
  <2>1. version \in SomeVersions /\ indexed_files \in SomeVersions
    BY <1>1 DEF SearchTypes
  <2>2. CASE EndRebuild
    BY <2>1, <2>2, VersionsAre DEF EndRebuild, SomeVersions
  <2>3. CASE EndClean
    BY <2>1, <2>3, VersionsAre DEF EndClean, SomeVersions
  <2>4. CASE CommandFails
    BY <2>1, <2>4 DEF CommandFails, stores
  <2>5. QED
    BY <2>2, <2>3, <2>4
<1>5. disturbed' \in BOOLEAN
  BY <1>1 DEF EndRebuild, EndClean, CommandFails, indexHistory, SearchTypes
<1>6. SearchTypes'
  BY <1>1, <1>2, <1>3, <1>4, <1>5 DEF SearchTypes
<1>7. FrequenciesAgree' /\ \A e \in Docs : HandlerOK(e)'
  BY <1>1, <1>2 DEF FrequenciesAgree, HandlerOK, Running
<1>8. Accompanied' /\ Rebuilding' /\ Cleaning'
  BY <1>3 DEF Accompanied, Rebuilding, Cleaning
<1>9. Found'
  BY <1>1, <1>2 DEF Found
<1>10. Whole'
  <2>1. SUFFICES ASSUME ~disturbed', NEW d \in Docs PROVE DocWhole(d)'
    BY DEF Whole
  <2>2. CASE EndRebuild
    <3>1. command.alone /\ command.name = "rebuild-index" /\ command.step > 3
      BY <1>1, <1>2, <2>1, <2>2 DEF EndRebuild, Accompanied, RebuiltStores
    <3>2. command.step \in 0..4
      BY <1>1 DEF SearchTypes, Commands
    <3>3. DocRebuilt(d) /\ handler[d].step = 0
      BY <1>1, <1>2, <3>1 DEF Rebuilding, Accompanied, Running
    <3>4. (d \in documents <=> command.snapshot[d] # 0) /\ bm25.keys[d] = command.snapshot[d]
          /\ content[d] = command.snapshot[d]
      BY <3>1, <3>2, <3>3 DEF DocRebuilt
    <3>5. Settled(d) /\ version[d] # 0 => bm25.keys[d] = version[d]
      BY <3>3, <3>4 DEF DocRebuilt
    <3>6. QED
      BY <1>2, <3>3, <3>4, <3>5 DEF DocWhole, Settled, Running
  <2>3. CASE EndClean
    <3>1. DocWhole(d) /\ command.removed = {}
      BY <1>1, <2>1, <2>3 DEF EndClean, Whole, indexHistory
    <3>2. QED
      BY <1>2, <3>1 DEF DocWhole, Settled, Running
  <2>4. CASE CommandFails
    BY <2>1, <2>4 DEF CommandFails
  <2>5. QED
    BY <2>2, <2>3, <2>4
<1>11. QED
  BY <1>6, <1>7, <1>8, <1>9, <1>10 DEF SearchInv

\* A clean takes away what is gone.
LEMMA CleanSteps ==
  ASSUME SearchInv, PruneDocuments \/ \E d \in Docs : RemoveDocument(d)
  PROVE  SearchInv'
<1>1. /\ SearchTypes /\ FrequenciesAgree /\ Accompanied /\ Whole /\ Cleaning /\ Found
      /\ \A e \in Docs : HandlerOK(e)
  BY DEF SearchInv
<1>2. UNCHANGED <<version, indexed_files, marker, stopping, handler, search, dropped, disturbed>>
  BY DEF PruneDocuments, RemoveDocument, indexHistory
<1>3. command.name = "clean" /\ Commanded /\ command \in Commands
  BY <1>1, SearchAssumption DEF PruneDocuments, RemoveDocument, Commanded, SearchTypes
<1>4. /\ \A e \in Docs : DocCleaned(e) /\ (~disturbed => DocWhole(e) /\ handler[e].step = 0)
      /\ ~search.calm
  BY <1>1, <1>3 DEF Cleaning, Whole, Accompanied, Found, Running
<1>5. ASSUME SearchTypes', FrequenciesAgree', command'.name = "clean", command'.alone = command.alone,
             \A e \in Docs : DocCleaned(e)' /\ (~disturbed => DocWhole(e)')
      PROVE  SearchInv'
  <2>1. (\A e \in Docs : HandlerOK(e)') /\ Accompanied'
    BY <1>1, <1>2, <1>3, <1>5 DEF HandlerOK, Accompanied, Commanded, Running
  <2>2. Whole' /\ Rebuilding' /\ Cleaning' /\ Found'
    BY <1>2, <1>4, <1>5 DEF Whole, Rebuilding, Cleaning, Found
  <2>3. QED
    BY <1>5, <2>1, <2>2 DEF SearchInv
<1>6. CASE PruneDocuments
  <2>1. PICK orphans \in SUBSET Docs : orphans = {d \in documents : version[d] = 0}
    BY <1>1 DEF SearchTypes
  <2>2. /\ command.step = 1 /\ documents' = documents \ orphans /\ UNCHANGED <<bm25, content>>
        /\ command' = [command EXCEPT !.step = 2, !.removed = orphans]
    BY <1>6, <2>1 DEF PruneDocuments
  <2>3. /\ command' \in Commands /\ command'.name = "clean" /\ command'.step = 2
        /\ command'.alone = command.alone /\ command'.removed = orphans /\ command'.missing = command.missing
    <3>1. /\ command'.name = command.name /\ command'.step = 2 /\ command'.alone = command.alone
          /\ command'.snapshot = command.snapshot /\ command'.removed = orphans
          /\ command'.missing = command.missing
      BY <1>3, <2>2 DEF Commands
    <3>2. command' = [name |-> command.name, step |-> 2, alone |-> command.alone,
                      snapshot |-> command.snapshot, removed |-> orphans, missing |-> command.missing]
      BY <1>3, <2>2 DEF Commands
    <3>3. QED
      BY <1>3, <3>1, <3>2 DEF Commands
  <2>4. SearchTypes' /\ FrequenciesAgree'
    BY <1>1, <1>2, <2>2, <2>3 DEF SearchTypes, FrequenciesAgree
  <2>5. ASSUME NEW e \in Docs PROVE DocCleaned(e)' /\ (~disturbed => DocWhole(e)')
    <3>1. DocCleaned(e)'
      BY <1>2, <1>4, <2>1, <2>2, <2>3 DEF DocCleaned
    <3>2. ~disturbed => DocWhole(e)'
      BY <1>2, <1>4, <2>1, <2>2, <2>3 DEF DocWhole, DocCleaned, Settled, Running
    <3>3. QED
      BY <3>1, <3>2
  <2>6. QED
    BY <1>5, <2>3, <2>4, <2>5
<1>7. ASSUME NEW d \in Docs, RemoveDocument(d) PROVE SearchInv'
  <2>1. /\ d \in command.removed /\ bm25' = RemoveKey(bm25, d) /\ content' = [content EXCEPT ![d] = 0]
        /\ command' = [command EXCEPT !.removed = command.removed \ {d}] /\ documents' = documents
    BY <1>7 DEF RemoveDocument, WithoutKey
  <2>2. /\ command' \in Commands /\ command'.name = "clean" /\ command'.step = command.step
        /\ command'.alone = command.alone /\ command'.removed = command.removed \ {d}
        /\ command'.missing = command.missing
    BY <1>3, <2>1 DEF Commands
  <2>3. /\ bm25' = [built |-> bm25'.built, keys |-> bm25'.keys, freqs |-> bm25'.freqs]
        /\ bm25'.keys = [bm25.keys EXCEPT ![d] = 0] /\ bm25'.keys \in SomeVersions
        /\ bm25'.freqs \in [Terms -> Nat] /\ FrequenciesAgree'
    BY <1>1, <2>1, VersionsAre, Recounting
  <2>4. /\ bm25.keys \in SomeVersions /\ content \in SomeVersions
    BY <1>1 DEF SearchTypes
  <2>5. /\ bm25'.keys[d] = 0 /\ content'[d] = 0 /\ content' \in SomeVersions
        /\ \A e \in Docs : e # d => bm25'.keys[e] = bm25.keys[e] /\ content'[e] = content[e]
    BY <2>1, <2>3, <2>4, VersionsAre DEF SomeVersions
  <2>6. SearchTypes'
    BY <1>1, <1>2, <2>1, <2>2, <2>3, <2>5 DEF SearchTypes
  <2>7. ASSUME NEW e \in Docs PROVE DocCleaned(e)' /\ (~disturbed => DocWhole(e)')
    <3>1. DocCleaned(e)'
      BY <1>2, <1>4, <2>1, <2>2 DEF DocCleaned, Settled, Running
    <3>2. ASSUME ~disturbed PROVE DocWhole(e)'
      <4>1. DocWhole(e) /\ handler[e].step = 0 /\ DocCleaned(d)
        BY <1>4, <3>2
      <4>2. CASE e = d
        BY <1>2, <2>1, <2>5, <3>2, <4>1, <4>2 DEF DocWhole, DocCleaned, Settled, Running
      <4>3. CASE e # d
        BY <1>2, <2>1, <2>2, <2>5, <4>1, <4>3 DEF DocWhole, Settled, Running
      <4>4. QED
        BY <4>2, <4>3
    <3>3. QED
      BY <3>1, <3>2
  <2>8. QED
    BY <1>5, <2>2, <2>3, <2>6, <2>7
<1>8. QED
  BY <1>6, <1>7

LEMMA SearchSteps ==
  ASSUME SearchInv, (\E t \in Terms : ReadIndex(t)) \/ ReadMetadata \/ ReadContent
  PROVE  SearchInv'
<1>1. SearchTypes /\ Found
  BY DEF SearchInv
<1>2. /\ UNCHANGED <<version, documents, bm25, content, indexed_files, marker, stopping, handler, command>>
      /\ UNCHANGED <<dropped, disturbed>>
  BY DEF ReadIndex, ReadMetadata, ReadContent, stores, indexHistory
<1>3. /\ search' = [step |-> search'.step, term |-> search'.term, keys |-> search'.keys, calm |-> search'.calm]
      /\ search'.step \in 0..2 /\ search'.keys \in SomeVersions /\ search'.calm \in BOOLEAN
      /\ search'.calm => \/ ~disturbed /\ ~Commanded /\ search'.keys = bm25.keys
                         \/ search.calm /\ search'.keys = search.keys
  <2>1. ASSUME NEW t \in Terms, ReadIndex(t) 
        PROVE  /\ search' = [step |-> search'.step, term |-> search'.term, keys |-> search'.keys, calm |-> search'.calm]
               /\ search'.step \in 0..2 /\ search'.keys \in SomeVersions /\ search'.calm \in BOOLEAN
               /\ search'.calm => ~disturbed /\ ~Commanded /\ search'.keys = bm25.keys
    <3>1. PICK keys, calm : keys = bm25.keys /\ calm = (~disturbed /\ ~Commanded) /\ calm \in BOOLEAN
      OBVIOUS
    <3>2. search' = [step |-> 1, term |-> t, keys |-> keys, calm |-> calm]
      <4>1. search' = [NoSearch EXCEPT !.step = 1, !.term = t, !.keys = keys, !.calm = calm]
        BY <2>1, <3>1 DEF ReadIndex
      <4>2. QED
        BY <4>1 DEF NoSearch
    <3>3. search'.step = 1 /\ search'.term = t /\ search'.keys = keys /\ search'.calm = calm
      BY <3>2
    <3>4. search' = [step |-> search'.step, term |-> search'.term, keys |-> search'.keys, calm |-> search'.calm]
      BY <3>2, <3>3
    <3>5. search'.step \in 0..2 /\ search'.calm \in BOOLEAN
      BY <3>1, <3>3
    <3>6. search'.keys \in SomeVersions
      BY <1>1, <3>1, <3>3 DEF SearchTypes
    <3>7. search'.calm => ~disturbed /\ ~Commanded /\ search'.keys = bm25.keys
      <4> SUFFICES ASSUME calm PROVE ~disturbed /\ ~Commanded /\ keys = bm25.keys
        BY <3>3, Zenon
      <4>1. QED
        BY <3>1
    <3>8. QED
      BY <3>4, <3>5, <3>6, <3>7
  <2>2. CASE search' = NoSearch
    BY <2>2, VersionsAre DEF NoSearch
  <2>3. CASE search' = [search EXCEPT !.step = 2]
    <3>1. search' = [step |-> 2, term |-> search.term, keys |-> search.keys, calm |-> search.calm]
      BY <1>1, <2>3 DEF SearchTypes
    <3>2. QED
      BY <1>1, <3>1 DEF SearchTypes
  <2>4. QED
    BY <2>1, <2>2, <2>3 DEF ReadMetadata, ReadContent
<1>4. SearchTypes'
  BY <1>1, <1>2, <1>3 DEF SearchTypes
<1>5. Found'
  BY <1>1, <1>2, <1>3 DEF Found, Commanded
<1>6. FrequenciesAgree' /\ (\A d \in Docs : HandlerOK(d)') /\ Accompanied'
  BY <1>2 DEF SearchInv, FrequenciesAgree, HandlerOK, Running, Accompanied, Commanded
<1>7. Whole' /\ Rebuilding' /\ Cleaning'
  BY <1>2 DEF SearchInv, Whole, Rebuilding, Cleaning, DocWhole, DocRebuilt, DocCleaned, Settled, Running
<1>8. QED
  BY <1>4, <1>5, <1>6, <1>7 DEF SearchInv

LEMMA SearchNextInv == ASSUME SearchInv, [SearchNext]_searchVars PROVE SearchInv'
<1>1. CASE \E d \in Docs : CopyTranscript(d) \/ EnqueueIndex(d) \/ IndexMarkerDropped(d) \/ DeleteTranscript(d)
  BY <1>1, TranscriptSteps
<1>2. CASE \E d \in Docs : StartIndexing(d) \/ \E dies \in BOOLEAN : IndexingFails(d, dies)
  BY <1>2, HandlerSteps
<1>3. CASE \E d \in Docs : AddToStore(d) \/ EndIndexing(d)
  BY <1>3, AddToStoreStep, EndIndexingStep
<1>4. CASE BeginRebuild \/ Begin("clean", Nothing)
  BY <1>4, BeginStep
<1>5. CASE ReplaceStore
  BY <1>5, ReplaceStoreStep
<1>6. CASE EndRebuild \/ EndClean \/ CommandFails
  BY <1>6, CommandEnds
<1>7. CASE PruneDocuments \/ \E d \in Docs : RemoveDocument(d)
  BY <1>7, CleanSteps
<1>8. CASE (\E t \in Terms : ReadIndex(t)) \/ ReadMetadata \/ ReadContent
  BY <1>8, SearchSteps
<1>9. CASE UNCHANGED searchVars
  <2>1. /\ UNCHANGED <<version, documents, bm25, content, indexed_files, marker, stopping, handler, command>>
        /\ UNCHANGED <<search, dropped, disturbed>>
    BY <1>9 DEF searchVars, stores, indexHistory
  <2>2. SearchTypes' /\ FrequenciesAgree' /\ (\A d \in Docs : HandlerOK(d)') /\ Accompanied' /\ Found'
    BY <2>1 DEF SearchInv, SearchTypes, FrequenciesAgree, HandlerOK, Running, Accompanied, Commanded, Found
  <2>3. Whole' /\ Rebuilding' /\ Cleaning'
    BY <2>1 DEF SearchInv, Whole, Rebuilding, Cleaning, DocWhole, DocRebuilt, DocCleaned, Settled, Running
  <2>4. QED
    BY <2>2, <2>3 DEF SearchInv
<1>10. QED
  BY <1>1, <1>2, <1>3, <1>4, <1>5, <1>6, <1>7, <1>8, <1>9 DEF SearchNext

THEOREM SearchInvariance == SearchSpec => []SearchInv
<1>1. SearchInit => SearchInv
  BY SearchInitInv
<1>2. SearchInv /\ [SearchNext]_searchVars => SearchInv'
  BY SearchNextInv
<1>3. QED
  BY <1>1, <1>2, PTL DEF SearchSpec

\* Only the end of a clean leaves no command and nothing disturbed where there was one.
LEMMA CleanEnds ==
  ASSUME SearchInv, [SearchNext]_searchVars, command.name = "clean", ~Commanded', ~disturbed'
  PROVE  EndClean
<1>1. command \in Commands /\ Commanded
  BY SearchAssumption DEF SearchInv, SearchTypes, Commands, Commanded
<1>2. \/ EndClean \/ CommandFails \/ EndRebuild
      \/ \E c : command' = [command EXCEPT !.missing = c]
      \/ \E c : command' = [command EXCEPT !.alone = c]
      \/ \E c, b : command' = [command EXCEPT !.step = c, !.removed = b]
      \/ \E c : command' = [command EXCEPT !.removed = c]
      \/ \E c : command' = [command EXCEPT !.step = c]
      \/ command' = command
  <2>1. CASE \E d \in Docs : CopyTranscript(d) \/ EnqueueIndex(d) \/ IndexMarkerDropped(d) \/ DeleteTranscript(d)
    BY <2>1 DEF CopyTranscript, EnqueueIndex, IndexMarkerDropped, DeleteTranscript
  <2>2. CASE \E d \in Docs : StartIndexing(d) \/ AddToStore(d) \/ EndIndexing(d)
                             \/ (\E dies \in BOOLEAN : IndexingFails(d, dies)) \/ RemoveDocument(d)
    BY <2>2 DEF StartIndexing, AddToStore, EndIndexing, IndexingFails, RemoveDocument
  <2>3. CASE BeginRebuild \/ Begin("clean", Nothing)
    BY <1>1, <2>3 DEF BeginRebuild, Begin
  <2>4. CASE ReplaceStore \/ EndRebuild \/ PruneDocuments \/ EndClean \/ CommandFails
    BY <2>4 DEF ReplaceStore, PruneDocuments
  <2>5. CASE (\E t \in Terms : ReadIndex(t)) \/ ReadMetadata \/ ReadContent \/ UNCHANGED searchVars
    BY <2>5 DEF ReadIndex, ReadMetadata, ReadContent, searchVars
  <2>6. QED
    BY <2>1, <2>2, <2>3, <2>4, <2>5 DEF SearchNext
<1>3. ~CommandFails /\ ~EndRebuild
  BY DEF CommandFails, EndRebuild
<1>4. (\/ \E c : command' = [command EXCEPT !.missing = c]
       \/ \E c : command' = [command EXCEPT !.alone = c]
       \/ \E c, b : command' = [command EXCEPT !.step = c, !.removed = b]
       \/ \E c : command' = [command EXCEPT !.removed = c]
       \/ \E c : command' = [command EXCEPT !.step = c]
       \/ command' = command) => command'.name = command.name
  BY <1>1 DEF Commands
<1>5. QED
  BY <1>2, <1>3, <1>4, SearchAssumption DEF Commanded

\* A clean that met no handler and did not fail leaves none of the four stores with a
\* transcript that was gone when it began and still is.
LEMMA CleanIsClean ==
  ASSUME SearchInv, EndClean, ~disturbed', NEW d \in command.missing, version[d] = 0
  PROVE  d \notin documents' /\ bm25'.keys[d] = 0 /\ content'[d] = 0 /\ indexed_files'[d] = 0
<1>1. /\ UNCHANGED <<documents, bm25, content, disturbed>> /\ command.name = "clean"
      /\ command.step = 2 /\ command.removed = {}
      /\ indexed_files' = [e \in Docs |-> IF version[e] = 0 THEN 0 ELSE indexed_files[e]]
  BY DEF EndClean, indexHistory
<1>2. d \in Docs
  BY DEF SearchInv, SearchTypes, Commands
<1>3. DocWhole(d) /\ DocCleaned(d)
  BY <1>1, <1>2 DEF SearchInv, Whole, Cleaning
<1>4. QED
  BY <1>1, <1>2, <1>3 DEF DocWhole, DocCleaned

\* The index is sound (_handle_index_marker, rebuild-index, _clean_search_docs): whatever
\* step of a handler or of a command fails or dies, and however they and searches interleave
\* over four files without a lock in common, the counts agree, what no command disturbed is
\* whole and fresh, searches that meet no command are answered, and a clean leaves no orphan.
THEOREM IndexSound == SearchSpec => IndexIsSound
<1>1. SearchInv => SearchTypeOK /\ FrequenciesAgree /\ IndexIsWhole /\ IndexIsFresh /\ SearchesMeetHandlers
  BY SearchInvImplies
<1>2. SearchInv /\ [SearchNext]_searchVars =>
         [(command.name = "clean" /\ ~Commanded' /\ ~disturbed') =>
             \A d \in command.missing :
                 version[d] = 0 => /\ d \notin documents' /\ bm25'.keys[d] = 0
                                   /\ content'[d] = 0 /\ indexed_files'[d] = 0]_searchVars
  BY CleanEnds, CleanIsClean
<1>3. QED
  BY <1>1, <1>2, SearchInvariance, PTL DEF SearchSpec, IndexIsSound, CleanLeavesNoOrphan

-----------------------------------------------------------------------------
(***************************************************************************)
(* TeamPolicy, for any teammates, tasks, bounds and faults.                *)
(*                                                                         *)
(* The hook that asks the models is the one that holds the lock (Asking),  *)
(* and it only asks for a task that was not blocked too often yet          *)
(* (RoomLeft).                                                             *)
(***************************************************************************)

TeamTypes ==
  /\ teamCache \in [TeamKeys -> Opt(TeamEntry)]
  /\ teamLock \in Opt(Teammates)
  /\ gate \in [Teammates -> [pc : {"working", "waiting", "asking", "uncached"}, task : Opt(Tasks)]]
  /\ open \subseteq Tasks
  /\ sentBack \in [TeamKeys -> Nat]
  /\ teamFaults \in 0..MaxTeamFaults

Asking ==
  \A m \in Teammates : /\ gate[m].pc = "asking" => teamLock = m
                       /\ gate[m].pc # "working" => gate[m].task \in Tasks

BlocksOf(e) == IF e = None THEN 0 ELSE e.blocks

RoomLeft ==
  \A m \in Teammates : gate[m].pc = "asking" /\ gate[m].task # "idle" => BlocksOf(teamCache[Key(m)]) < MaxBlocks

SentBackCounted == \A k \in TeamKeys : sentBack[k] = BlocksOf(teamCache[k])

TeamInv == TeamTypes /\ Asking /\ RoomLeft /\ SentBackCounted

LEMMA BlocksFit ==
  ASSUME TeamTypes, NEW k \in TeamKeys
  PROVE  BlocksOf(teamCache[k]) \in 0..MaxBlocks /\ teamCache[k] \in Opt(TeamEntry)
<1>1. teamCache[k] \in Opt(TeamEntry)
  BY DEF TeamTypes
<1>2. CASE teamCache[k] = None
  BY <1>1, <1>2, TeamPolicyAssumption DEF BlocksOf
<1>3. CASE teamCache[k] \in TeamEntry
  BY <1>1, <1>3, TeamRecordAssumption DEF BlocksOf, TeamEntry
<1>4. QED
  BY <1>1, <1>2, <1>3 DEF Opt

LEMMA TeamStarts == TeamInit => TeamInv
<1>1. SUFFICES ASSUME TeamInit PROVE TeamInv
  OBVIOUS
<1>2. TeamTypes
  BY <1>1, TeamPolicyAssumption DEF TeamInit, TeamTypes, Opt
<1>3. QED
  BY <1>1, <1>2 DEF TeamInit, TeamInv, Asking, RoomLeft, SentBackCounted, BlocksOf

\* A hook moves: gate has its type, only m is elsewhere.
LEMMA Moved ==
  ASSUME TeamTypes, NEW m \in Teammates, NEW at \in {"working", "waiting", "asking", "uncached"}, NEW t \in Opt(Tasks),
         Gate(m, at, t)
  PROVE  /\ gate' \in [Teammates -> [pc : {"working", "waiting", "asking", "uncached"}, task : Opt(Tasks)]]
         /\ gate'[m].pc = at /\ gate'[m].task = t
         /\ \A n \in Teammates : n # m => gate'[n] = gate[n]
BY DEF TeamTypes, Gate

\* The answer of m's hook leaves types and open tasks right.
LEMMA Answered ==
  ASSUME TeamTypes, NEW m \in Teammates, NEW answer, AnswerTask(m, answer)
  PROVE  /\ gate' \in [Teammates -> [pc : {"working", "waiting", "asking", "uncached"}, task : Opt(Tasks)]]
         /\ open' \subseteq Tasks /\ gate'[m].pc = "working"
         /\ \A n \in Teammates : n # m => gate'[n] = gate[n]
<1>1. PICK at, t : at = "working" /\ t = None /\ t \in Opt(Tasks) /\ at \in {"working", "waiting", "asking", "uncached"}
  BY DEF Opt
<1>2. Gate(m, at, t) /\ open' \subseteq Tasks
  BY <1>1 DEF AnswerTask, TeamTypes
<1>3. QED
  BY <1>1, <1>2, Moved

\* A step that only moves m's hook, and not to asking.
LEMMA OnlyMoved ==
  ASSUME TeamInv, NEW m \in Teammates, gate' \in [Teammates -> [pc : {"working", "waiting", "asking", "uncached"}, task : Opt(Tasks)]],
         gate'[m].pc # "asking", gate'[m].pc # "working" => gate'[m].task \in Tasks,
         \A n \in Teammates : n # m => gate'[n] = gate[n],
         open' \subseteq Tasks, teamFaults' \in 0..MaxTeamFaults, UNCHANGED <<teamCache, sentBack>>,
         teamLock' \in Opt(Teammates), \/ teamLock' = teamLock \/ gate[m].pc = "asking"
  PROVE  TeamInv'
<1>1. TeamTypes'
  BY DEF TeamInv, TeamTypes
<1>2. ASSUME NEW n \in Teammates
      PROVE  /\ (gate[n].pc = "asking" => teamLock = n)'
             /\ (gate[n].pc # "working" => gate[n].task \in Tasks)'
  BY <1>2, TeamPolicyAssumption DEF TeamInv, Asking
<1>3. RoomLeft'
  BY DEF TeamInv, RoomLeft, Key
<1>4. SentBackCounted'
  BY DEF TeamInv, SentBackCounted
<1>5. QED
  BY <1>1, <1>2, <1>3, <1>4 DEF TeamInv, Asking

\* The lock is taken by m, which begins to ask with room left.
LEMMA AskingBegins ==
  ASSUME TeamInv, NEW m \in Teammates, gate[m].pc = "waiting", teamLock = None, teamLock' = m,
         Gate(m, "asking", gate[m].task), open' = open, teamFaults' \in 0..MaxTeamFaults,
         teamCache' \in [TeamKeys -> Opt(TeamEntry)], sentBack' \in [TeamKeys -> Nat], SentBackCounted',
         gate[m].task # "idle" => BlocksOf(teamCache'[Key(m)]) < MaxBlocks
  PROVE  TeamInv'
<1>1. PICK at, t : at = "asking" /\ t = gate[m].task /\ at \in {"working", "waiting", "asking", "uncached"}
  OBVIOUS
<1>2. t \in Tasks /\ t \in Opt(Tasks) /\ TeamTypes
  BY <1>1 DEF TeamInv, Asking, Opt
<1>3. /\ gate' \in [Teammates -> [pc : {"working", "waiting", "asking", "uncached"}, task : Opt(Tasks)]]
      /\ gate'[m].pc = at /\ gate'[m].task = t /\ \A n \in Teammates : n # m => gate'[n] = gate[n]
  BY <1>1, <1>2, Moved
<1>4. TeamTypes'
  BY <1>2, <1>3 DEF TeamTypes, Opt
<1>5. \A n \in Teammates : gate[n].pc # "asking"
  BY TeamPolicyAssumption DEF TeamInv, Asking
<1>6. ASSUME NEW n \in Teammates
      PROVE  /\ (gate[n].pc = "asking" => teamLock = n)'
             /\ (gate[n].pc # "working" => gate[n].task \in Tasks)'
             /\ (gate[n].pc = "asking" /\ gate[n].task # "idle" => BlocksOf(teamCache[Key(n)]) < MaxBlocks)'
  <2>1. CASE n = m
    <3>1. gate'[m].task = gate[m].task /\ Key(m)' = Key(m)
      BY <1>1, <1>3 DEF Key
    <3>2. QED
      BY <1>2, <1>3, <2>1, <3>1
  <2>2. CASE n # m
    BY <1>3, <1>5, <2>2 DEF TeamInv, Asking
  <2>3. QED
    BY <2>1, <2>2
<1>7. QED
  BY <1>4, <1>6 DEF TeamInv, Asking, RoomLeft

\* The answer for m's task is stored and counted, and m's hook is done.
LEMMA AnswerStored ==
  ASSUME TeamInv, NEW m \in Teammates, gate[m].pc = "asking", NEW e \in TeamEntry, Store(Key(m), e),
         NEW count \in Nat, count = e.blocks, sentBack' = [sentBack EXCEPT ![Key(m)] = count],
         teamLock' = None, NEW answer, AnswerTask(m, answer), teamFaults' \in 0..MaxTeamFaults
  PROVE  TeamInv'
<1>1. TeamTypes /\ Key(m) \in TeamKeys /\ e # None
  BY TeamRecordAssumption DEF TeamInv, Asking, Key, TeamKeys
<1>2. /\ gate' \in [Teammates -> [pc : {"working", "waiting", "asking", "uncached"}, task : Opt(Tasks)]]
      /\ open' \subseteq Tasks /\ gate'[m].pc = "working"
      /\ \A n \in Teammates : n # m => gate'[n] = gate[n]
  BY <1>1, Answered
<1>3. \A n \in Teammates : gate'[n].pc # "asking"
  BY <1>2 DEF TeamInv, Asking
<1>4. /\ teamCache' \in [TeamKeys -> Opt(TeamEntry)] /\ sentBack' \in [TeamKeys -> Nat]
      /\ \A k \in TeamKeys : IF k = Key(m) THEN teamCache'[k] = e /\ sentBack'[k] = count
                             ELSE teamCache'[k] = teamCache[k] /\ sentBack'[k] = sentBack[k]
  BY <1>1 DEF TeamTypes, Store, Opt
<1>5. TeamTypes'
  BY <1>1, <1>2, <1>4 DEF TeamTypes, Opt
<1>6. SentBackCounted'
  BY <1>1, <1>4 DEF TeamInv, SentBackCounted, BlocksOf
<1>7. Asking' /\ RoomLeft'
  BY <1>2, <1>3 DEF TeamInv, Asking, RoomLeft
<1>8. QED
  BY <1>5, <1>6, <1>7 DEF TeamInv

LEMMA TeamFaultFits == TeamTypes /\ TeamFault => teamFaults' \in 0..MaxTeamFaults
BY TeamPolicyAssumption DEF TeamTypes, TeamFault

LEMMA HookProceeds ==
  ASSUME TeamInv, NEW m \in Teammates, Gatekeep(m)
  PROVE  TeamInv'
<1>1. TeamTypes /\ Asking /\ RoomLeft /\ SentBackCounted
  BY DEF TeamInv
<1>2. gate[m].pc # "working" => gate[m].task \in Tasks /\ Key(m) \in TeamKeys
  BY <1>1 DEF Asking, Key, TeamKeys
<1>3. teamFaults \in 0..MaxTeamFaults /\ teamLock \in Opt(Teammates)
  BY <1>1 DEF TeamTypes
<1>4. ASSUME NEW answer, AnswerTask(m, answer), teamLock' = teamLock, UNCHANGED <<teamCache, sentBack, teamFaults>>
      PROVE  TeamInv'
  <2>1. /\ gate' \in [Teammates -> [pc : {"working", "waiting", "asking", "uncached"}, task : Opt(Tasks)]]
        /\ open' \subseteq Tasks /\ gate'[m].pc = "working"
        /\ \A n \in Teammates : n # m => gate'[n] = gate[n]
    BY <1>1, <1>4, Answered
  <2>2. QED
    BY <1>3, <1>4, <2>1, OnlyMoved
<1>5. CASE Consult(m)
  <2>1. PICK t, e : t = gate[m].task /\ e = teamCache[Key(m)]
    OBVIOUS
  <2>2. gate[m].pc = "waiting" /\ teamLock = None /\ UNCHANGED <<teamCache, sentBack, teamFaults>>
    BY <1>5 DEF Consult
  <2>3. CASE e # None /\ t # "idle" /\ e.blocks >= MaxBlocks
    <3>1. AnswerTask(m, 0) /\ teamLock' = teamLock
      BY <1>5, <2>1, <2>3 DEF Consult
    <3>2. QED
      BY <1>4, <2>2, <3>1
  <2>4. CASE ~(e # None /\ t # "idle" /\ e.blocks >= MaxBlocks) /\ e # None /\ e.fresh
    <3>1. AnswerTask(m, e.exit) /\ teamLock' = teamLock
      BY <1>5, <2>1, <2>4 DEF Consult
    <3>2. QED
      BY <1>4, <2>2, <3>1
  <2>5. CASE ~(e # None /\ t # "idle" /\ e.blocks >= MaxBlocks) /\ ~(e # None /\ e.fresh)
    <3>1. teamLock' = m /\ Gate(m, "asking", gate[m].task) /\ open' = open
      BY <1>5, <2>1, <2>5 DEF Consult
    <3>2. teamCache' = teamCache /\ sentBack' = sentBack /\ teamFaults' = teamFaults
      BY <2>2
    <3>3. SentBackCounted'
      BY <1>1, <3>2 DEF SentBackCounted
    <3>4. BlocksOf(e) \in 0..MaxBlocks
      BY <1>1, <1>2, <2>1, <2>2, BlocksFit
    <3>5. gate[m].task # "idle" => BlocksOf(teamCache'[Key(m)]) < MaxBlocks
      BY <2>1, <2>5, <3>2, <3>4, TeamPolicyAssumption DEF BlocksOf
    <3>6. QED
      BY <1>1, <1>3, <2>2, <3>1, <3>2, <3>3, <3>5, AskingBegins DEF TeamTypes
  <2>6. QED
    BY <2>3, <2>4, <2>5
<1>6. CASE ConsultUnreadable(m)
  <2>1. /\ gate[m].pc = "waiting" /\ teamLock = None /\ teamLock' = m /\ Gate(m, "asking", gate[m].task) /\ open' = open
        /\ teamCache' = [k \in TeamKeys |-> None] /\ sentBack' = [k \in TeamKeys |-> 0] /\ teamFaults' \in 0..MaxTeamFaults
    BY <1>1, <1>6, TeamFaultFits DEF ConsultUnreadable
  <2>2. teamCache' \in [TeamKeys -> Opt(TeamEntry)] /\ sentBack' \in [TeamKeys -> Nat]
    BY <2>1 DEF Opt
  <2>3. SentBackCounted'
    BY <2>1 DEF SentBackCounted, BlocksOf
  <2>4. BlocksOf(teamCache'[Key(m)]) < MaxBlocks
    BY <1>2, <2>1, TeamPolicyAssumption DEF BlocksOf
  <2>5. QED
    BY <2>1, <2>2, <2>3, <2>4, AskingBegins
<1>7. CASE GoWithoutCache(m) \/ StoreFails(m)
  <2>1. /\ Gate(m, "uncached", gate[m].task) /\ gate[m].pc \in {"waiting", "asking"} /\ UNCHANGED <<teamCache, open, sentBack>>
        /\ teamFaults' \in 0..MaxTeamFaults /\ (teamLock' = teamLock \/ (gate[m].pc = "asking" /\ teamLock' = None))
    BY <1>1, <1>7, TeamFaultFits DEF GoWithoutCache, StoreFails
  <2>2. PICK at, t : at = "uncached" /\ t = gate[m].task /\ at \in {"working", "waiting", "asking", "uncached"}
    OBVIOUS
  <2>3. t \in Tasks /\ t \in Opt(Tasks)
    BY <1>2, <2>1, <2>2 DEF Opt
  <2>4. /\ gate' \in [Teammates -> [pc : {"working", "waiting", "asking", "uncached"}, task : Opt(Tasks)]]
        /\ gate'[m].pc = at /\ gate'[m].task = t /\ \A n \in Teammates : n # m => gate'[n] = gate[n]
    BY <1>1, <2>1, <2>2, <2>3, Moved
  <2>5. teamLock' \in Opt(Teammates) /\ (teamLock' = teamLock \/ gate[m].pc = "asking") /\ open' \subseteq Tasks
    BY <1>1, <1>3, <2>1 DEF Opt, TeamTypes
  <2>6. QED
    BY <2>1, <2>2, <2>3, <2>4, <2>5, OnlyMoved
<1>8. CASE JudgeRoutine(m)
  <2>1. PICK e, none : e = [blocks |-> none, exit |-> 0, fresh |-> TRUE] /\ none = 0 /\ none \in Nat
    OBVIOUS
  <2>2. e \in TeamEntry /\ none = e.blocks
    BY <2>1, TeamPolicyAssumption DEF TeamEntry
  <2>3. /\ gate[m].pc = "asking" /\ Store(Key(m), e) /\ sentBack' = [sentBack EXCEPT ![Key(m)] = none]
        /\ teamLock' = None /\ AnswerTask(m, 0) /\ teamFaults' \in 0..MaxTeamFaults
    BY <1>1, <1>8, <2>1, TeamFaultFits DEF JudgeRoutine
  <2>4. QED
    BY <2>1, <2>2, <2>3, AnswerStored
<1>9. CASE JudgeReviewed(m)
  <2>1. gate[m].pc = "asking" /\ teamLock' = None /\ teamFaults' = teamFaults
    BY <1>9 DEF JudgeReviewed
  <2>2. PICK answer, before, counted, count, e :
          /\ answer \in {0, 2} /\ before = BlocksOf(teamCache[Key(m)]) /\ counted = (IF answer = 2 /\ gate[m].task # "idle" THEN 1 ELSE 0)
          /\ count = before + counted /\ e = [blocks |-> count, exit |-> answer, fresh |-> TRUE]
          /\ Store(Key(m), e) /\ sentBack' = [sentBack EXCEPT ![Key(m)] = sentBack[Key(m)] + counted]
          /\ AnswerTask(m, answer)
    BY <1>9 DEF JudgeReviewed, BlocksOf
  <2>3. before \in 0..MaxBlocks /\ sentBack[Key(m)] = before
    BY <1>1, <1>2, <2>1, <2>2, BlocksFit DEF SentBackCounted
  <2>4. counted = 1 => before < MaxBlocks
    BY <1>1, <2>1, <2>2 DEF RoomLeft
  <2>5. count \in 0..MaxBlocks /\ count \in Nat
    BY <2>2, <2>3, <2>4, TeamPolicyAssumption
  <2>6. e \in TeamEntry /\ count = e.blocks
    BY <2>2, <2>5 DEF TeamEntry
  <2>7. sentBack' = [sentBack EXCEPT ![Key(m)] = count]
    BY <2>2, <2>3
  <2>8. QED
    BY ZenonT(40), <1>3, <2>1, <2>2, <2>5, <2>6, <2>7, AnswerStored
<1>10. CASE JudgeUncached(m)
  <2>1. PICK answer : AnswerTask(m, answer) /\ UNCHANGED <<teamCache, teamLock, sentBack, teamFaults>>
    BY <1>10 DEF JudgeUncached
  <2>2. QED
    BY <1>4, <2>1
<1>11. QED
  BY <1>5, <1>6, <1>7, <1>8, <1>9, <1>10 DEF Gatekeep

LEMMA TeamProceeds == TeamInv /\ [TeamNext]_teamVars => TeamInv'
<1>1. SUFFICES ASSUME TeamInv, [TeamNext]_teamVars PROVE TeamInv'
  OBVIOUS
<1>2. TeamTypes /\ Asking /\ RoomLeft /\ SentBackCounted
  BY <1>1 DEF TeamInv
<1>3. CASE UNCHANGED teamVars
  BY <1>2, <1>3 DEF teamVars, TeamInv, TeamTypes, Asking, RoomLeft, SentBackCounted, Key
<1>4. ASSUME NEW m \in Teammates, Gatekeep(m) PROVE TeamInv'
  BY <1>1, <1>4, HookProceeds
<1>5. ASSUME NEW m \in Teammates, NEW t \in Tasks, TaskCompleted(m, t) PROVE TeamInv'
  <2>1. /\ gate[m].pc = "working" /\ Gate(m, "waiting", t) /\ UNCHANGED <<teamCache, teamLock, open, sentBack, teamFaults>>
    BY <1>5 DEF TaskCompleted
  <2>2. PICK at : at = "waiting" /\ at \in {"working", "waiting", "asking", "uncached"} /\ t \in Opt(Tasks)
    BY DEF Opt
  <2>3. /\ gate' \in [Teammates -> [pc : {"working", "waiting", "asking", "uncached"}, task : Opt(Tasks)]]
        /\ gate'[m].pc = at /\ gate'[m].task = t /\ \A n \in Teammates : n # m => gate'[n] = gate[n]
    BY <1>2, <2>1, <2>2, Moved
  <2>4. open' \subseteq Tasks /\ teamFaults' \in 0..MaxTeamFaults /\ teamLock' \in Opt(Teammates)
    BY <1>2, <2>1 DEF TeamTypes
  <2>5. QED
    BY <1>1, <2>1, <2>2, <2>3, <2>4, OnlyMoved
<1>6. ASSUME NEW k \in TeamKeys, Expire(k) PROVE TeamInv'
  <2>1. PICK e, e2 : e = teamCache[k] /\ e2 = [e EXCEPT !.fresh = FALSE]
    OBVIOUS
  <2>2. e \in TeamEntry /\ teamCache' = [teamCache EXCEPT ![k] = e2] /\ UNCHANGED <<teamLock, gate, open, sentBack, teamFaults>>
    BY <1>2, <1>6, <2>1 DEF Expire, TeamTypes, Opt, Store
  <2>3. e2 \in TeamEntry /\ e2.blocks = e.blocks
    BY <2>1, <2>2 DEF TeamEntry
  <2>4. BlocksOf(e2) = BlocksOf(e)
    BY <2>2, <2>3, TeamRecordAssumption DEF BlocksOf
  <2>5. /\ teamCache' \in [TeamKeys -> Opt(TeamEntry)]
        /\ \A j \in TeamKeys : BlocksOf(teamCache'[j]) = BlocksOf(teamCache[j])
    BY <1>2, <2>1, <2>2, <2>3, <2>4 DEF TeamTypes, Opt
  <2>6. TeamTypes' /\ Asking' /\ SentBackCounted'
    BY <1>2, <2>2, <2>5 DEF TeamTypes, Asking, SentBackCounted
  <2>7. RoomLeft'
    <3>1. \A m \in Teammates : gate[m].pc = "asking" => Key(m) \in TeamKeys
      BY <1>2 DEF Asking, Key, TeamKeys
    <3>2. QED
      BY <1>2, <2>2, <2>5, <3>1 DEF RoomLeft, Key
  <2>8. QED
    BY <2>6, <2>7 DEF TeamInv
<1>7. QED
  BY <1>1, <1>3, <1>4, <1>5, <1>6 DEF TeamNext

LEMMA TeamFits == TeamInv => TeamTypeOK /\ BlocksPerTaskAreBounded
<1>1. SUFFICES ASSUME TeamInv PROVE TeamTypeOK /\ BlocksPerTaskAreBounded
  OBVIOUS
<1>2. TeamTypes /\ SentBackCounted
  BY <1>1 DEF TeamInv
<1>3. TeamTypeOK
  BY <1>2 DEF TeamTypes, TeamTypeOK
<1>4. ASSUME NEW k \in TeamKeys PROVE sentBack[k] <= MaxBlocks /\ sentBack[k] = BlocksOf(teamCache[k])
  BY <1>2, BlocksFit, TeamPolicyAssumption DEF SentBackCounted
<1>5. QED
  BY <1>3, <1>4 DEF BlocksPerTaskAreBounded, BlocksOf

\* Whoever reports a task, whatever runs without the cache and whatever is forgotten,
\* what the supervisor sends back under the lock is counted, and never more often than
\* max_blocks_per_task (guard/team/handlers.py).
THEOREM SentBackBounded == TeamSpec => [](TeamTypeOK /\ BlocksPerTaskAreBounded)
<1>1. TeamSpec => []TeamInv
  BY TeamStarts, TeamProceeds, PTL DEF TeamSpec
<1>2. QED
  BY <1>1, TeamFits, PTL

=============================================================================

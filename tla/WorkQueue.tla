------------------------------ MODULE WorkQueue ------------------------------
(***************************************************************************)
(* The deferred work queue of core/workqueue/queue.py: one marker file per *)
(* unit of work in ~/.forge/pending-work/, written by hooks (enqueue) and  *)
(* consumed opportunistically by every CLI start-up                        *)
(* (process_pending_work, called from cli/main.py with the stop, index and *)
(* handoff handlers).  Every access to a marker is made under its own      *)
(* advisory lock (core/state/lock.py); a process that dies loses its locks *)
(* and nothing else.                                                       *)
(*                                                                         *)
(* A marker file is abstracted to its shape, its attempt_count and the     *)
(* generation of its payload: the n-th successful enqueue of a marker id   *)
(* has generation n, a file left by another Forge version has 0.           *)
(***************************************************************************)
EXTENDS Integers, FiniteSets

CONSTANTS
    Procs,        \* forge processes: CLI start-ups and hooks
    Free,         \* the lock of a marker nobody works on
    MarkerIds,    \* marker ids, numbered in the order sorted() lists the files
    KindOf,       \* the kind each id is enqueued with (the id encodes it)
    Handled,      \* the kinds the processor has a handler for
    Legacy,       \* shapes of files another Forge version may have left behind
    MaxAttempts,  \* MAX_ATTEMPTS
    MaxItems,     \* max_items of one process_pending_work call
    MaxEnqueues,  \* bound: enqueues per marker id
    MaxFaults,    \* bound: file operations that fail
    MaxCrashes    \* bound: processes that die inside an operation

ASSUME WorkQueueAssumption ==
    /\ Free \notin Procs
    /\ MarkerIds \subseteq Nat \ {0}
    /\ Legacy \subseteq {"invalid", "old", "corrupt"}
    /\ MaxAttempts \in Nat \ {0}
    /\ MaxItems \in Nat \ {0}
    /\ MaxEnqueues \in Nat
    /\ MaxFaults \in Nat
    /\ MaxCrashes \in Nat

NoMarker == 0
NoFile == [shape |-> "absent", attempts |-> 0, gen |-> 0]

Marker == [shape : {"absent", "valid", "invalid", "old", "corrupt"},
           attempts : Nat, gen : Nat]

VARIABLES
    pending,   \* pending-work/<id>.json
    failed,    \* pending-work/failed/<id>.json
    lock,      \* holder of <id>.json.lock
    pc,        \* where each process is
    cur,       \* the marker it works on
    todo,      \* the rest of its sorted, truncated directory listing
    mark,      \* the Marker it passed to the handler
    lastGen,   \* history: enqueues of each id that returned a path
    done,      \* history: generations whose handler returned
    raises,    \* history: handler exceptions since the file was enqueued
    runs,      \* history: handler returns since the file was enqueued
    faults,    \* file operations that failed so far
    crashes    \* processes that died so far

files == <<pending, failed>>
history == <<lastGen, done, raises, runs>>
vars == <<pending, failed, lock, pc, cur, todo, mark,
          lastGen, done, raises, runs, faults, crashes>>

Holding == {"enqueue", "locked", "moving", "handling", "handled"}

Init ==
    /\ pending \in [MarkerIds -> {NoFile} \cup
                       {[shape |-> s, attempts |-> 0, gen |-> 0] : s \in Legacy}]
    /\ failed = [m \in MarkerIds |-> NoFile]
    /\ lock = [m \in MarkerIds |-> Free]
    /\ pc = [p \in Procs |-> "idle"]
    /\ cur = [p \in Procs |-> NoMarker]
    /\ todo = [p \in Procs |-> {}]
    /\ mark = [p \in Procs |-> NoFile]
    /\ lastGen = [m \in MarkerIds |-> 0]
    /\ done = [m \in MarkerIds |-> {}]
    /\ raises = [m \in MarkerIds |-> 0]
    /\ runs = [m \in MarkerIds |-> 0]
    /\ faults = 0
    /\ crashes = 0

-----------------------------------------------------------------------------
(* The per-marker lock (file_lock_for_target).                             *)

\* Mutant: the lock is taken whoever holds it.
AcquireUnguarded(p, m) == lock' = [lock EXCEPT ![m] = p]

\* flock(LOCK_EX | LOCK_NB) succeeds within the timeout.
Acquire(p, m) ==
    /\ lock[m] = Free
    /\ lock' = [lock EXCEPT ![m] = p]

\* Mutant: the lock is put aside without being freed for the next.
ReleaseToNobody(p, to) ==
    /\ lock' = [lock EXCEPT ![cur[p]] = NoMarker]
    /\ pc' = [pc EXCEPT ![p] = to]
    /\ cur' = [cur EXCEPT ![p] = NoMarker]
    /\ mark' = [mark EXCEPT ![p] = NoFile]

\* Leaving the with-block; the process goes on at pc = to.
Release(p, to) ==
    /\ lock' = [lock EXCEPT ![cur[p]] = Free]
    /\ pc' = [pc EXCEPT ![p] = to]
    /\ cur' = [cur EXCEPT ![p] = NoMarker]
    /\ mark' = [mark EXCEPT ![p] = NoFile]

\* A file operation raises OSError.
Fault ==
    /\ faults < MaxFaults
    /\ faults' = faults + 1

-----------------------------------------------------------------------------
(* enqueue(): best effort.  A timeout on the lock changes nothing (the     *)
(* caller gets None), so it is not a step of its own.                      *)

\* Mutant: the marker is written without the lock.
EnqueueWithoutLock(p, m) ==
    /\ pc[p] = "idle"
    /\ lastGen[m] < MaxEnqueues
    /\ pc' = [pc EXCEPT ![p] = "enqueue"]
    /\ cur' = [cur EXCEPT ![p] = m]
    /\ UNCHANGED <<files, lock, todo, mark, history, faults, crashes>>

EnqueueLock(p, m) ==
    /\ pc[p] = "idle"
    /\ lastGen[m] < MaxEnqueues
    /\ Acquire(p, m)
    /\ pc' = [pc EXCEPT ![p] = "enqueue"]
    /\ cur' = [cur EXCEPT ![p] = m]
    /\ UNCHANGED <<files, todo, mark, history, faults, crashes>>

\* atomic_write_json replaces whatever marker has this id; attempt_count is 0.
EnqueueWrite(p) ==
    /\ pc[p] = "enqueue"
    /\ LET m == cur[p] IN
         /\ lastGen' = [lastGen EXCEPT ![m] = @ + 1]
         /\ pending' = [pending EXCEPT ![m] =
                [shape |-> "valid", attempts |-> 0, gen |-> lastGen[m] + 1]]
         /\ raises' = [raises EXCEPT ![m] = 0]
         /\ runs' = [runs EXCEPT ![m] = 0]
    /\ Release(p, "idle")
    /\ UNCHANGED <<failed, todo, done, faults, crashes>>

\* The write raises: enqueue() logs and returns None.
EnqueueFails(p) ==
    /\ pc[p] = "enqueue"
    /\ Fault
    /\ Release(p, "idle")
    /\ UNCHANGED <<files, todo, history, crashes>>

-----------------------------------------------------------------------------
(* process_pending_work(): list, then one marker after the other.          *)

Present == {m \in MarkerIds : pending[m].shape # "absent"}

\* sorted(glob("*.json"))[:max_items]
Batch(S) == {m \in S : Cardinality({n \in S : n < m}) < MaxItems}

IsNext(p, m) == m \in todo[p] /\ \A n \in todo[p] : m <= n

ListMarkers(p) ==
    /\ pc[p] = "idle"
    /\ Present # {}
    /\ todo' = [todo EXCEPT ![p] = Batch(Present)]
    /\ pc' = [pc EXCEPT ![p] = "next"]
    /\ UNCHANGED <<files, lock, cur, mark, history, faults, crashes>>

LockMarker(p, m) ==
    /\ pc[p] = "next"
    /\ IsNext(p, m)
    /\ Acquire(p, m)
    /\ todo' = [todo EXCEPT ![p] = @ \ {m}]
    /\ cur' = [cur EXCEPT ![p] = m]
    /\ pc' = [pc EXCEPT ![p] = "locked"]
    /\ UNCHANGED <<files, mark, history, faults, crashes>>

\* FileLockTimeoutError, or the lock file cannot be opened: no outcome but a
\* line in the result.
SkipContended(p, m) ==
    /\ pc[p] = "next"
    /\ IsNext(p, m)
    /\ \/ lock[m] # Free /\ UNCHANGED faults
       \/ Fault
    /\ todo' = [todo EXCEPT ![p] = @ \ {m}]
    /\ UNCHANGED <<files, lock, pc, cur, mark, history, crashes>>

FinishBatch(p) ==
    /\ pc[p] = "next"
    /\ todo[p] = {}
    /\ pc' = [pc EXCEPT ![p] = "idle"]
    /\ UNCHANGED <<files, lock, cur, todo, mark, history, faults, crashes>>

-----------------------------------------------------------------------------
(* _process_single_marker(), from the is_file() check to the end of the    *)
(* with-block.                                                             *)

\* Gone since the listing, or of a kind nobody handles: leave it alone.
LeaveInPlace(p) ==
    /\ pc[p] = "locked"
    /\ LET f == pending[cur[p]] IN
         \/ f.shape = "absent"
         \/ /\ f.shape = "valid"
            /\ f.attempts < MaxAttempts
            /\ KindOf[cur[p]] \notin Handled
    /\ Release(p, "next")
    /\ UNCHANGED <<files, todo, history, faults, crashes>>

\* An old-shape marker is unlinked on sight.
CleanOldShape(p) ==
    /\ pc[p] = "locked"
    /\ pending[cur[p]].shape = "old"
    /\ \/ /\ pending' = [pending EXCEPT ![cur[p]] = NoFile]
          /\ UNCHANGED faults
       \/ /\ Fault
          /\ UNCHANGED pending
    /\ Release(p, "next")
    /\ UNCHANGED <<failed, todo, history, crashes>>

\* Mutant: one attempt more than the limit.
CondemnOffByOne(p) ==
    /\ pc[p] = "locked"
    /\ LET f == pending[cur[p]] IN
         \/ f.shape = "corrupt"
         \/ f.shape = "valid" /\ f.attempts + 1 >= MaxAttempts
    /\ pc' = [pc EXCEPT ![p] = "moving"]
    /\ UNCHANGED <<files, lock, cur, todo, mark, history, faults, crashes>>

\* Unparseable JSON, or attempt_count already at the limit.
CondemnMarker(p) ==
    /\ pc[p] = "locked"
    /\ LET f == pending[cur[p]] IN
         \/ f.shape = "corrupt"
         \/ f.shape = "valid" /\ f.attempts >= MaxAttempts
    /\ pc' = [pc EXCEPT ![p] = "moving"]
    /\ UNCHANGED <<files, lock, cur, todo, mark, history, faults, crashes>>

\* read_json() raises on a file that is there (read_json reports an OSError as
\* StateCorruptedError): handled as if the marker were unparseable.
CondemnUnreadable(p) ==
    /\ pc[p] = "locked"
    /\ pending[cur[p]].shape # "absent"
    /\ Fault
    /\ pc' = [pc EXCEPT ![p] = "moving"]
    /\ UNCHANGED <<files, lock, cur, todo, mark, history, crashes>>

\* Mutant: a failed attempt is not counted in the marker.
TryWriteErrorUncounted(p) ==
    /\ Release(p, "next")
    /\ UNCHANGED <<pending, faults>>

\* _try_write_error(): re-read, count the attempt, replace the file; when
\* that raises, None is returned and the attempt is not counted.
TryWriteError(p) ==
    LET m == cur[p]
        n == pending[m].attempts + 1 IN
    \/ /\ pending' = [pending EXCEPT ![m].attempts = n]
       /\ UNCHANGED faults
       /\ IF n >= MaxAttempts
          THEN /\ pc' = [pc EXCEPT ![p] = "moving"]
               /\ UNCHANGED <<lock, cur, mark>>
          ELSE Release(p, "next")
    \/ /\ Fault
       /\ Release(p, "next")
       /\ UNCHANGED pending

\* _validate_marker() reports an error.
RejectInvalid(p) ==
    /\ pc[p] = "locked"
    /\ pending[cur[p]].shape = "invalid"
    /\ TryWriteError(p)
    /\ UNCHANGED <<failed, todo, history, crashes>>

StartHandler(p) ==
    /\ pc[p] = "locked"
    /\ pending[cur[p]].shape = "valid"
    /\ pending[cur[p]].attempts < MaxAttempts
    /\ KindOf[cur[p]] \in Handled
    /\ mark' = [mark EXCEPT ![p] = pending[cur[p]]]
    /\ pc' = [pc EXCEPT ![p] = "handling"]
    /\ UNCHANGED <<files, lock, cur, todo, history, faults, crashes>>

HandlerReturns(p) ==
    /\ pc[p] = "handling"
    /\ done' = [done EXCEPT ![cur[p]] = @ \cup {mark[p].gen}]
    /\ runs' = [runs EXCEPT ![cur[p]] = @ + 1]
    /\ pc' = [pc EXCEPT ![p] = "handled"]
    /\ UNCHANGED <<files, lock, cur, todo, mark, lastGen, raises, faults, crashes>>

HandlerRaises(p) ==
    /\ pc[p] = "handling"
    /\ raises' = [raises EXCEPT ![cur[p]] = @ + 1]
    /\ TryWriteError(p)
    /\ UNCHANGED <<failed, todo, lastGen, done, runs, crashes>>

\* Mutant: a handled marker stays.
ForgetToUnlink(p) ==
    /\ pc[p] = "handled"
    /\ Release(p, "next")
    /\ UNCHANGED <<files, todo, history, faults, crashes>>

\* marker_file.unlink() after the handler returned.
UnlinkHandled(p) ==
    /\ pc[p] = "handled"
    /\ \/ /\ pending' = [pending EXCEPT ![cur[p]] = NoFile]
          /\ UNCHANGED faults
       \/ /\ Fault
          /\ UNCHANGED pending
    /\ Release(p, "next")
    /\ UNCHANGED <<failed, todo, history, crashes>>

\* Mutant: a condemned marker is unlinked, not kept in failed/.
DropInsteadOfMove(p) ==
    /\ pc[p] = "moving"
    /\ pending' = [pending EXCEPT ![cur[p]] = NoFile]
    /\ Release(p, "next")
    /\ UNCHANGED <<failed, todo, history, faults, crashes>>

\* Mutant: a condemned marker is copied to failed/, and stays.
CopyInsteadOfMove(p) ==
    /\ pc[p] = "moving"
    /\ failed' = [failed EXCEPT ![cur[p]] = pending[cur[p]]]
    /\ Release(p, "next")
    /\ UNCHANGED <<pending, todo, history, faults, crashes>>

\* shutil.move into failed/, replacing a marker of the same name there; an
\* error is logged and the marker stays where it is.
MoveToFailed(p) ==
    /\ pc[p] = "moving"
    /\ \/ /\ failed' = [failed EXCEPT ![cur[p]] = pending[cur[p]]]
          /\ pending' = [pending EXCEPT ![cur[p]] = NoFile]
          /\ UNCHANGED faults
       \/ /\ Fault
          /\ UNCHANGED files
    /\ Release(p, "next")
    /\ UNCHANGED <<todo, history, crashes>>

\* The process dies (signal, kill): the kernel drops its flock.
Crash(p) ==
    /\ pc[p] # "idle"
    /\ crashes < MaxCrashes
    /\ crashes' = crashes + 1
    /\ lock' = [m \in MarkerIds |-> IF lock[m] = p THEN Free ELSE lock[m]]
    /\ pc' = [pc EXCEPT ![p] = "idle"]
    /\ cur' = [cur EXCEPT ![p] = NoMarker]
    /\ todo' = [todo EXCEPT ![p] = {}]
    /\ mark' = [mark EXCEPT ![p] = NoFile]
    /\ UNCHANGED <<files, history, faults>>

-----------------------------------------------------------------------------

\* The steps a running process takes on its own.
Step(p) ==
    \/ EnqueueWrite(p)
    \/ EnqueueFails(p)
    \/ \E m \in MarkerIds : LockMarker(p, m) \/ SkipContended(p, m)
    \/ FinishBatch(p)
    \/ LeaveInPlace(p)
    \/ CleanOldShape(p)
    \/ CondemnMarker(p)
    \/ CondemnUnreadable(p)
    \/ RejectInvalid(p)
    \/ StartHandler(p)
    \/ HandlerReturns(p)
    \/ HandlerRaises(p)
    \/ UnlinkHandled(p)
    \/ MoveToFailed(p)

Next ==
    \E p \in Procs :
        \/ \E m \in MarkerIds : EnqueueLock(p, m)
        \/ ListMarkers(p)
        \/ Step(p)
        \/ Crash(p)

Spec == Init /\ [][Next]_vars

(* A process that runs keeps running, and forge commands keep being issued *)
(* (each of them lists the queue on start-up).                             *)
FairSpec ==
    /\ Spec
    /\ \A p \in Procs : WF_vars(Step(p)) /\ WF_vars(ListMarkers(p))

-----------------------------------------------------------------------------

\* The shape of the state.
TypeOK ==
    /\ pending \in [MarkerIds -> Marker]
    /\ failed \in [MarkerIds -> Marker]
    /\ lock \in [MarkerIds -> Procs \cup {Free}]
    /\ pc \in [Procs -> Holding \cup {"idle", "next"}]
    /\ cur \in [Procs -> MarkerIds \cup {NoMarker}]
    /\ todo \in [Procs -> SUBSET MarkerIds]
    /\ mark \in [Procs -> Marker]
    /\ lastGen \in [MarkerIds -> Nat]
    /\ done \in [MarkerIds -> SUBSET Nat]
    /\ raises \in [MarkerIds -> Nat]
    /\ runs \in [MarkerIds -> Nat]
    /\ faults \in Nat
    /\ crashes \in Nat

\* A process inside the with-block of a marker's lock holds that lock, and
\* nobody holds a lock outside one: two start-ups never work on one marker.
LockDiscipline ==
    /\ \A p \in Procs : pc[p] \in Holding =>
          cur[p] \in MarkerIds /\ lock[cur[p]] = p
    /\ \A p \in Procs, m \in MarkerIds : lock[m] = p =>
          pc[p] \in Holding /\ cur[p] = m

\* The file a processor is about to unlink is still the file it handed to
\* the handler: a concurrent enqueue can never be deleted unseen
\* (_process_single_marker reads, handles and unlinks under one lock).
HandledIsCurrent ==
    \A p \in Procs : pc[p] \in {"handling", "handled"} =>
        pending[cur[p]] = mark[p]

\* Every enqueue that returned a path is accounted for: its payload was
\* handled, is still pending, went to failed/, or a later enqueue of the same
\* id replaced it.
NoSilentLoss ==
    \A m \in MarkerIds : \A g \in 1..lastGen[m] :
        \/ g < lastGen[m]
        \/ g \in done[m]
        \/ pending[m].shape = "valid" /\ pending[m].gen = g
        \/ failed[m].shape = "valid" /\ failed[m].gen = g

\* Poison protection: between two enqueues a handler raises at most
\* MAX_ATTEMPTS times, plus once for every time the attempt counter or the
\* move to failed/ could not be written.
PoisonBound ==
    \A m \in MarkerIds : raises[m] <= MaxAttempts + faults

\* Only a poison marker is given up: each well-formed marker found in failed/
\* before its attempts were exhausted cost one failed read.
OnlyPoisonFails ==
    Cardinality({m \in MarkerIds : failed[m].shape = "valid"
                                     /\ failed[m].attempts < MaxAttempts}) <= faults

\* "Exactly-once-ish" (queue.py): a payload is handled a second time only
\* after a crash or a failed unlink.
ExactlyOnceIsh ==
    \A m \in MarkerIds : runs[m] <= 1 + crashes + faults

\* Every marker with a handler leaves the queue as long as forge commands
\* keep being run.
EventuallyDrained ==
    \A m \in MarkerIds : (pending[m].shape # "absent") ~> (pending[m].shape = "absent")

=============================================================================

------------------------------ MODULE SessionHooks ------------------------------
(***************************************************************************)
(* The hooks Claude Code calls for a session (cli/hooks/commands.py,       *)
(* session/hooks/session_start.py): what they record in the "confirmed"    *)
(* section of the manifest, the copies of transcripts and plans, the       *)
(* verification of a Stop (cli/hooks/verification.py) and the markers a    *)
(* Stop leaves for deferred work.                                          *)
(*                                                                         *)
(* Several Claudes may run one session; each is in one hook at a time, and *)
(* every hook is a process that reads the manifest, works on files, and    *)
(* updates the manifest under its lock (an update is one step: see         *)
(* ManifestStore).  A hook never breaks Claude: an update that finds the   *)
(* lock held is given up.                                                  *)
(***************************************************************************)
EXTENDS Forge

CONSTANTS
    Claudes,        \* the Claudes that run the session
    Uuids,          \* conversations; a compaction or /clear begins a new one
    Plans,          \* contents of the plan file
    VerifyType,     \* "completion_promise" or "test_suite"
    MaxIterations,  \* verification.max_iterations
    TimeLimit,      \* whether verification.max_minutes is set
    MaxTurns,       \* bound: turns of one conversation
    MaxEvents,      \* bound: what Claudes and users do
    MaxHookFaults   \* bound: lock timeouts, unreadable files, failed copies

ASSUME SessionHooksAssumption ==
    /\ None \notin Claudes \cup Uuids \cup Plans \cup (0..MaxTurns)
    /\ Claudes # {} /\ IsFiniteSet(Claudes)
    /\ VerifyType \in {"completion_promise", "test_suite"}
    /\ MaxIterations \in Nat /\ MaxTurns \in Nat
    /\ MaxEvents \in Nat /\ MaxHookFaults \in Nat
    /\ TimeLimit \in BOOLEAN

Events == {"startup", "resume", "compact", "clear"}
MarkerKinds == {"stop", "index", "handoff"}

VARIABLES
    claude,     \* the conversation of each Claude, or None before it starts
    transcript, \* the turns of each conversation
    planFile,   \* what the plan file of the worktree contains
    manifest,   \* the manifest's confirmed section and its bypass override
    artifact,   \* the turns in the artifact copy of each transcript, or None
    snapshots,  \* plan snapshots on disk
    run,        \* the QA run that waits for a transcript, and what it got
    queued,     \* pending-work markers: kind and conversation
    hookPc, hook,  \* where each Claude's hook is, and its local variables
    blocked,    \* history: stops blocked
    uncounted,  \* history: of these, the ones the manifest does not count
    left,       \* history: conversations a compaction or /clear left
    hookEvents, hookFaults

hookVars == <<claude, transcript, planFile, manifest, artifact, snapshots, run, queued,
              hookPc, hook, blocked, uncounted, left, hookEvents, hookFaults>>
stopHistory == <<blocked, uncounted, left>>
disk == <<transcript, planFile, artifact, snapshots, run, queued>>

\* failing: verification.started_at is set.
Manifest == [uuid : Opt(Uuids), plan : BOOLEAN, plans : Seq(Plans), transcripts : SUBSET Uuids,
             iterations : Nat, failing : BOOLEAN, bypass : BOOLEAN, compactions : Nat,
             subagents : Nat]

NoManifest == [uuid |-> None, plan |-> FALSE, plans |-> <<>>, transcripts |-> {},
               iterations |-> 0, failing |-> FALSE, bypass |-> FALSE, compactions |-> 0,
               subagents |-> 0]

\* What a hook remembers: the manifest it read, the conversation it is about,
\* whether the bypass was set when it began, and the plan it snapshots.
NoHook == [seen |-> NoManifest, uuid |-> None, bypassed |-> FALSE, plan |-> None]

HooksInit ==
    /\ claude = [c \in Claudes |-> None]
    /\ transcript = [u \in Uuids |-> 0]
    /\ planFile = None
    /\ manifest = NoManifest
    /\ artifact = [u \in Uuids |-> None]
    /\ snapshots = {}
    /\ run = [wants |-> None, got |-> None]
    /\ queued = {}
    /\ hookPc = [c \in Claudes |-> "idle"]
    /\ hook = [c \in Claudes |-> NoHook]
    /\ blocked = 0 /\ uncounted = 0 /\ left = {}
    /\ hookEvents = 0 /\ hookFaults = 0

Goto(c, to) == hookPc' = [hookPc EXCEPT ![c] = to]
Return(c) == Goto(c, "idle") /\ hook' = [hook EXCEPT ![c] = NoHook]
HookFault == hookFaults < MaxHookFaults /\ hookFaults' = hookFaults + 1

\* A manifest update that succeeds, or finds the lock held and is skipped.
Update(m) ==
    \/ manifest' = m /\ UNCHANGED hookFaults
    \/ HookFault /\ UNCHANGED manifest

Talking(c) == claude[c] # None /\ hookPc[c] = "idle"

-----------------------------------------------------------------------------
(* Claude and its user.                                                    *)

\* A turn of the conversation.
Turn(c) ==
    /\ Talking(c) /\ transcript[claude[c]] < MaxTurns
    /\ transcript' = [transcript EXCEPT ![claude[c]] = @ + 1]
    /\ UNCHANGED <<claude, planFile, manifest, artifact, snapshots, run, queued, hookPc, hook,
                   stopHistory, hookFaults>>

\* Claude writes the plan file; the PostToolUse hook records its path.
PlanWrite(c) ==
    /\ Talking(c)
    /\ \E p \in Plans : p # planFile /\ planFile' = p
    /\ Update([manifest EXCEPT !.plan = TRUE])
    /\ UNCHANGED <<claude, transcript, artifact, snapshots, run, queued, hookPc, hook, stopHistory>>

\* Claude ends; SessionEnd does nothing.
Quit(c) ==
    /\ Talking(c)
    /\ claude' = [claude EXCEPT ![c] = None]
    /\ UNCHANGED <<disk, manifest, hookPc, hook, stopHistory, hookFaults>>

\* A QA run writes a .pending-transcript marker for the conversation it runs in.
AskForTranscript(c) ==
    /\ Talking(c) /\ run.wants = None /\ run.got = None
    /\ run' = [run EXCEPT !.wants = claude[c]]
    /\ UNCHANGED <<claude, transcript, planFile, manifest, artifact, snapshots, queued, hookPc,
                   hook, stopHistory, hookFaults>>

-----------------------------------------------------------------------------
(* SessionStart.                                                           *)

Captures(event) == event \in {"compact", "clear"}

\* A conversation nobody is in: a new one, or the one that is resumed.
Begins(event, u) ==
    /\ \A c \in Claudes : claude[c] # u
    /\ event # "resume" => transcript[u] = 0

Leaves(event, u) == Captures(event) /\ manifest.uuid \notin {None, u}

\* The hook overwrites the session's conversation under the lock; after a
\* compaction or /clear it remembers the one that was there, to copy it.
SessionStart(c, event, u) ==
    /\ hookPc[c] = "idle" /\ Begins(event, u)
    /\ (claude[c] = None) <=> (event \in {"startup", "resume"})
    /\ claude' = [claude EXCEPT ![c] = u]
    /\ \/ /\ manifest' = [manifest EXCEPT !.uuid = u]
          /\ IF Leaves(event, u)
             THEN /\ Goto(c, "capture")
                  /\ hook' = [hook EXCEPT ![c].uuid = manifest.uuid]
                  /\ left' = left \cup {manifest.uuid}
             ELSE UNCHANGED <<hookPc, hook, left>>
          /\ UNCHANGED hookFaults
       \/ HookFault /\ UNCHANGED <<manifest, hookPc, hook, left>>
    /\ UNCHANGED <<disk, blocked, uncounted>>

\* Mutant: what the manifest says now, after the hook has written it.
LeftNow(c) == manifest.uuid

Left(c) == hook[c].uuid

\* _capture_transcript_rollover: the copy is not made over one that is there.
CaptureCopy(c) ==
    /\ hookPc[c] = "capture"
    /\ \/ /\ artifact' = [artifact EXCEPT ![Left(c)] = IF @ = None THEN transcript[Left(c)] ELSE @]
          /\ Goto(c, "captured") /\ UNCHANGED <<hook, left, hookFaults>>
       \/ HookFault /\ Return(c) /\ left' = left \ {hook[c].uuid} /\ UNCHANGED artifact
    /\ UNCHANGED <<claude, transcript, planFile, manifest, snapshots, run, queued, blocked,
                   uncounted>>

CaptureRecord(c) ==
    /\ hookPc[c] = "captured"
    /\ Update([manifest EXCEPT !.transcripts = @ \cup {hook[c].uuid}])
    /\ Return(c)
    /\ UNCHANGED <<claude, disk, stopHistory>>

-----------------------------------------------------------------------------
(* ExitPlanMode: the approval of a plan.                                   *)

\* The snapshot is named by its content; without a recorded path the hook
\* finds the plan in the transcript.
ExitPlan(c) ==
    /\ Talking(c) /\ planFile # None
    /\ snapshots' = snapshots \cup {planFile}
    /\ Goto(c, "approve")
    /\ hook' = [hook EXCEPT ![c].plan = planFile]
    /\ UNCHANGED <<claude, transcript, planFile, manifest, artifact, run, queued, stopHistory,
                   hookFaults>>

\* Mutant: a plan that is approved again is listed again.
WithPlanAgain(plans, p) == Append(plans, p)

\* The plan goes to the end of the list, from wherever in it it is.
WithPlan(plans, p) == Append(Selected(plans, {i \in DOMAIN plans : plans[i] # p}), p)

Approve(c) ==
    /\ hookPc[c] = "approve"
    /\ Update([manifest EXCEPT !.plans = WithPlan(@, hook[c].plan)])
    /\ Return(c)
    /\ UNCHANGED <<claude, disk, stopHistory>>

-----------------------------------------------------------------------------
(* Stop.                                                                   *)

\* _copy_transcript_to_pending_runs: the marker stays until a stop of the
\* conversation it names.
ServeRun(u, turns) ==
    run' = IF run.wants = u THEN [wants |-> None, got |-> [uuid |-> u, turns |-> turns]] ELSE run

\* Resolve the session, read the manifest, copy the transcript.
StopCopy(c) ==
    /\ Talking(c)
    /\ \/ /\ artifact' = [artifact EXCEPT ![claude[c]] = transcript[claude[c]]]
          /\ ServeRun(claude[c], transcript[claude[c]])
          /\ Goto(c, "stop")
          /\ hook' = [hook EXCEPT ![c] = [NoHook EXCEPT !.seen = manifest, !.uuid = claude[c],
                                                        !.bypassed = manifest.bypass]]
          /\ UNCHANGED hookFaults
       \/ HookFault /\ UNCHANGED <<artifact, run, hookPc, hook>>
    /\ UNCHANGED <<claude, transcript, planFile, manifest, snapshots, queued, stopHistory>>

StopRecord(c) ==
    /\ hookPc[c] = "stop"
    /\ Update([manifest EXCEPT !.transcripts = @ \cup {hook[c].uuid}])
    /\ Goto(c, "verify")
    /\ UNCHANGED <<claude, disk, hook, stopHistory>>

\* The manifest is read again, or the first reading serves.
Reread(c) ==
    /\ hookPc[c] = "verify"
    /\ \/ hook' = [hook EXCEPT ![c].seen = manifest] /\ UNCHANGED hookFaults
       \/ HookFault /\ UNCHANGED hook
    /\ Goto(c, "check")
    /\ UNCHANGED <<claude, disk, manifest, stopHistory>>

\* Mutant: off by one.
ExhaustedLate(m) == m.iterations > MaxIterations

Exhausted(m) == m.iterations + 1 > MaxIterations

\* Mutant: the bypass is not looked at.
VerifiedAlways(c) == hookPc[c] = "check"

Verified(c) == hookPc[c] = "check" /\ ~hook[c].seen.bypass

\* Nothing to verify, or verified: the promise is in the last message, the
\* tests pass, or a failure only warns.
Passes(c) ==
    /\ hookPc[c] = "check"
    /\ Goto(c, "enqueue")
    /\ UNCHANGED <<claude, disk, manifest, hook, stopHistory, hookFaults>>

\* Not verified, but blocked too often already: the stop is allowed, and
\* verification is bypassed from now on unless the manifest is locked.
\* What was too often is judged by the manifest read before the check.
GivesUp(c) ==
    /\ Verified(c)
    /\ \/ Exhausted(hook[c].seen) /\ Update([manifest EXCEPT !.bypass = TRUE])
       \/ /\ TimeLimit /\ hook[c].seen.failing /\ ~Exhausted(hook[c].seen)
          /\ manifest' = [manifest EXCEPT !.bypass = TRUE] /\ UNCHANGED hookFaults
    /\ Goto(c, "enqueue")
    /\ UNCHANGED <<claude, disk, hook, stopHistory>>

\* Mutant: the count that was read before the check is written back.
CountedFromRead(c) == hook[c].seen.iterations + 1

Counted(c) == manifest.iterations + 1

\* The stop is blocked, and counted unless the manifest is locked; Claude goes on.
Block(c) ==
    /\ Verified(c) /\ ~Exhausted(hook[c].seen)
    /\ Update([manifest EXCEPT !.iterations = Counted(c), !.failing = TRUE])
    /\ blocked' = blocked + 1
    /\ uncounted' = uncounted + (hookFaults' - hookFaults)
    /\ Return(c)
    /\ UNCHANGED <<claude, disk, left>>

\* Each marker is written or, when its lock is held, not.
Enqueue(c) ==
    /\ hookPc[c] = "enqueue"
    /\ \E kinds \in {MarkerKinds, MarkerKinds \ {"handoff"}} : \E lost \in SUBSET kinds :
          /\ queued' = queued \cup {[kind |-> k, uuid |-> hook[c].uuid] : k \in kinds \ lost}
          /\ IF lost = {} THEN UNCHANGED hookFaults ELSE HookFault
    /\ Return(c)
    /\ UNCHANGED <<claude, transcript, planFile, manifest, artifact, snapshots, run, stopHistory>>

-----------------------------------------------------------------------------
(* StopFailure: a last chance to copy; no verification.                    *)

FailureCopy(c) ==
    /\ Talking(c)
    /\ LET u == claude[c]
       IN  /\ \/ /\ artifact' = [artifact EXCEPT ![u] = transcript[u]]
                 /\ UNCHANGED hookFaults
              \/ HookFault /\ UNCHANGED artifact
           /\ IF artifact'[u] # None THEN ServeRun(u, artifact'[u]) ELSE UNCHANGED run
           /\ hook' = [hook EXCEPT ![c].uuid = u]
    /\ Goto(c, "failure")
    /\ UNCHANGED <<claude, transcript, planFile, manifest, snapshots, queued, stopHistory>>

\* Mutant: markers also when nothing was copied.
FailureKindsAlways(u) == {"stop", "index"}

\* Markers only for a copy that is there.
FailureKinds(u) == IF artifact[u] = None THEN {} ELSE {"stop", "index"}

FailureRecord(c) ==
    /\ hookPc[c] = "failure"
    /\ Update([manifest EXCEPT !.transcripts = @ \cup {hook[c].uuid}])
    /\ \E kinds \in SUBSET FailureKinds(hook[c].uuid) :
          queued' = queued \cup {[kind |-> k, uuid |-> hook[c].uuid] : k \in kinds}
    /\ Return(c)
    /\ UNCHANGED <<claude, transcript, planFile, artifact, snapshots, run, stopHistory>>

-----------------------------------------------------------------------------
(* The small hooks.                                                        *)

\* PreCompact copies under a name of its own; PostCompact records the time.  The entry of that
\* copy among the transcripts, which only a handoff reads, is in Handoff.tla.
PreCompact(c) ==
    /\ Talking(c) /\ manifest.compactions < MaxTurns
    /\ Update([manifest EXCEPT !.compactions = @ + 1])
    /\ UNCHANGED <<claude, disk, hookPc, hook, stopHistory>>

SubagentStop(c) ==
    /\ Talking(c) /\ manifest.subagents < MaxTurns
    /\ Update([manifest EXCEPT !.subagents = @ + 1])
    /\ UNCHANGED <<claude, disk, hookPc, hook, stopHistory>>

\* %cancel-verification, which asks for a promise to cancel.
CancelVerification(c) ==
    /\ Talking(c) /\ ~manifest.bypass /\ VerifyType = "completion_promise"
    /\ Update([manifest EXCEPT !.bypass = TRUE])
    /\ UNCHANGED <<claude, disk, hookPc, hook, stopHistory>>

HookStep(c) ==
    /\ \/ CaptureCopy(c) \/ CaptureRecord(c) \/ Approve(c)
       \/ StopRecord(c) \/ Reread(c) \/ Passes(c) \/ GivesUp(c) \/ Block(c) \/ Enqueue(c)
       \/ FailureRecord(c)
    /\ UNCHANGED hookEvents

HookEvent(c) ==
    /\ hookEvents < MaxEvents /\ hookEvents' = hookEvents + 1
    /\ \/ Turn(c) \/ PlanWrite(c) \/ Quit(c) \/ AskForTranscript(c)
       \/ \E e \in Events, u \in Uuids : SessionStart(c, e, u)
       \/ ExitPlan(c) \/ StopCopy(c) \/ FailureCopy(c)
       \/ PreCompact(c) \/ SubagentStop(c) \/ CancelVerification(c)

HooksNext == \E c \in Claudes : HookStep(c) \/ HookEvent(c)

HooksSpec == HooksInit /\ [][HooksNext]_hookVars

-----------------------------------------------------------------------------
HooksTypeOK ==
    /\ claude \in [Claudes -> Opt(Uuids)]
    /\ transcript \in [Uuids -> 0..MaxTurns]
    /\ planFile \in Opt(Plans)
    /\ manifest \in Manifest
    /\ artifact \in [Uuids -> Opt(0..MaxTurns)]
    /\ snapshots \subseteq Plans
    /\ run.wants \in Opt(Uuids)
    /\ queued \subseteq [kind : MarkerKinds, uuid : Uuids]
    /\ \A c \in Claudes : hook[c].seen \in Manifest /\ hook[c].plan \in Opt(Plans)
    /\ left \subseteq Uuids /\ hookEvents \in 0..MaxEvents /\ hookFaults \in 0..MaxHookFaults

\* A session that never verifies is not blocked for ever: however the stops of
\* its Claudes interleave, at most MaxIterations are blocked, one more for each
\* other Claude whose check was under way, and those the manifest could not count
\* (models.py: "Maximum number of blocked Stop attempts before auto-bypass").
BlocksAreBounded ==
    blocked <= MaxIterations + Cardinality(Claudes) - 1 + uncounted

\* Blocked stops are counted once each, though the check reads the count long
\* before it writes it.
BlocksAreCounted == manifest.iterations = blocked - uncounted

\* A stop that begins after verification was bypassed, by the user or by the
\* limits, is not blocked (direct_commands.py: "takes immediate effect on the
\* next Stop hook invocation").
BypassEndsBlocking ==
    [][\A c \in Claudes : blocked' # blocked /\ hookPc'[c] # hookPc[c] => ~hook[c].bypassed]_hookVars

\* Deferred work finds what it is about: a marker is left only for a transcript
\* that was copied, whatever failed in the stop that left it.
MarkersHaveTranscripts == \A m \in queued : artifact[m.uuid] # None

\* A conversation the session leaves by a compaction or /clear has a copy, or the
\* hook is about to make it; a copy that fails is the only excuse.
WhatWasLeftIsCaptured ==
    \A u \in left : \/ artifact[u] # None
                    \/ \E c \in Claudes : hookPc[c] = "capture" /\ hook[c].uuid = u

\* The approved plans of the manifest are on disk, each once, so that the last is
\* the one approved last also after A, B, A (commands.py:284-287).
ApprovedPlansAreKept ==
    /\ \A i \in DOMAIN manifest.plans : manifest.plans[i] \in snapshots
    /\ \A i, j \in DOMAIN manifest.plans : manifest.plans[i] = manifest.plans[j] => i = j

\* Verification cannot hold a session for ever: its blocked stops are counted and bounded,
\* and none is blocked after a bypass.
VerificationEnds == [](HooksTypeOK /\ BlocksAreBounded /\ BlocksAreCounted) /\ BypassEndsBlocking

\* What hooks remember is there: conversations that were left have a copy, markers have their
\* transcript and approved plans their snapshot.
CapturesAreKept == MarkersHaveTranscripts /\ WhatWasLeftIsCaptured /\ ApprovedPlansAreKept
==============================================================================

------------------------------ MODULE Handoff ------------------------------
(***************************************************************************)
(* What one session leaves to the next: session/handoff.py assembles a      *)
(* context file from the transcript copies and plans of the parent, and     *)
(* session/handoff_agent.py lets a background Claude bring the designated   *)
(* documents up to date with a transcript copied at a Stop.                 *)
(*                                                                          *)
(* A transcript is the number of its turns, a plan the number of its        *)
(* content, a document a name.  Conversations follow one another in the     *)
(* parent session; the copies are made by its hooks (SessionHooks.tla).     *)
(***************************************************************************)
EXTENDS Integers, Sequences, FiniteSets, SequencesExt, FiniteSetsExt

CONSTANTS
  Conversations,   \* 1..n, in the order they are begun
  MaxTurns,        \* turns of the conversations together
  MaxPlans,        \* contents of the plan
  MaxApprovals,    \* approvals recorded
  MaxLosses,       \* files removed by Claude's cleanup or the user, and copies cut short
  MinTurns,        \* memory.auto_update.min_turns
  MaxListed,       \* transcript entries of the manifest
  MaxCurated,      \* turns that fit MAX_TRANSCRIPT_CHARS
  Docs,            \* names of project documents
  SafeDocs,        \* those whose path stays inside the project
  Designated       \* memory.designated_docs: [path, shadows, strategy]

ASSUME HandoffAssumption ==
  /\ IsFiniteSet(Conversations) /\ Conversations # {} /\ Conversations = 1..Cardinality(Conversations)
  /\ MaxTurns \in Nat \ {0} /\ MaxPlans \in Nat /\ MinTurns \in Nat /\ MaxListed \in Nat
  /\ MaxLosses \in Nat /\ MaxApprovals \in Nat /\ MaxCurated \in Nat
  /\ SafeDocs \subseteq Docs
  /\ Designated \subseteq [path : Docs, shadows : Docs \cup {"none", "empty"},
                           strategy : {"generic", "suggested"}]

VARIABLES
  said,        \* turns of each conversation
  current,     \* the conversation the parent is in
  named,       \* confirmed.claude_session_id
  kept,        \* conversations whose live transcript Claude still has
  copy,        \* turns of the copy of each conversation, 0 for no copy or an empty one
  cut,         \* conversations whose copy ends before the transcript it was made of
  stopped,     \* turns a conversation had at its last recorded copy
  listed,      \* artifacts.transcripts, oldest first: a copy, or a snapshot PreCompact took
  draft,       \* confirmed.latest_plan_path: content of the file, 0 for none
  approved,    \* artifacts.plans of kind approved, oldest first
  snapshots,   \* contents whose snapshot is on disk
  approvedAt,  \* the last recorded approval of each content, 0 for none
  approvals,   \* approvals recorded so far
  context,     \* .forge/prev_sessions/<parent>.md
  markers,     \* handoff markers waiting
  agent,       \* the background handoff process
  there,       \* documents that exist
  edited,      \* documents the agent has edited
  turns,       \* turns said so far
  losses       \* files removed and copies cut short so far

parentVars == <<said, current, named, kept, copy, cut, stopped, listed, turns>>
planVars == <<draft, approved, snapshots, approvedAt, approvals>>
agentVars == <<markers, agent, there, edited>>
handoffVars == <<parentVars, planVars, context, agentVars, losses>>

Strategies == {"minimal", "structured", "full", "curated"}
NoCtx == [kind |-> "minimal", conv |-> 0, turns |-> 0, plan |-> 0]
NoAgent == [state |-> "idle", conv |-> 0, prompt |-> {}]

HandoffTypeOK ==
  /\ said \in [Conversations -> 0..MaxTurns] /\ copy \in [Conversations -> 0..MaxTurns]
  /\ stopped \in [Conversations -> 0..MaxTurns] /\ cut \subseteq Conversations
  /\ current \in Conversations /\ named \in Conversations /\ kept \subseteq Conversations
  /\ listed \in Seq([conv : Conversations, copied : BOOLEAN]) /\ Len(listed) <= MaxListed
  /\ draft \in 0..MaxPlans /\ approved \in Seq(1..MaxPlans) /\ snapshots \subseteq 1..MaxPlans
  /\ approvedAt \in [1..MaxPlans -> 0..MaxApprovals] /\ approvals \in 0..MaxApprovals
  /\ context \in [kind : Strategies, conv : Conversations \cup {0}, turns : 0..MaxTurns, plan : 0..MaxPlans]
  /\ markers \subseteq [conv : Conversations, turns : 1..MaxTurns]
  /\ agent \in [state : {"idle", "running"}, conv : Conversations \cup {0}, prompt : SUBSET Docs]
  /\ there \subseteq Docs /\ edited \subseteq Docs /\ turns \in 0..MaxTurns /\ losses \in 0..MaxLosses

HandoffInit ==
  /\ said = [c \in Conversations |-> 0] /\ copy = said /\ stopped = said
  /\ current = 1 /\ named = 1 /\ kept = {1} /\ cut = {}
  /\ listed = <<>> /\ draft = 0 /\ approved = <<>> /\ snapshots = {}
  /\ approvedAt = [p \in 1..MaxPlans |-> 0] /\ approvals = 0
  /\ context = NoCtx /\ markers = {} /\ agent = NoAgent
  /\ there = Docs /\ edited = {} /\ turns = 0 /\ losses = 0

----------------------------------------------------------------------------
(* The parent session. *)

Say ==
  /\ turns < MaxTurns /\ turns' = turns + 1
  /\ said' = [said EXCEPT ![current] = @ + 1]
  /\ kept' = kept \cup {current}
  /\ UNCHANGED <<current, named, copy, cut, stopped, listed, planVars, context, agentVars, losses>>

Loses == losses < MaxLosses /\ losses' = losses + 1

Entry(c, copied) == [conv |-> c, copied |-> copied]

Lists(e) == Len(listed) < MaxListed /\ listed' = Append(listed, e)

HasCopy(c) == copy[c] > 0 \/ c \in cut

\* Mutant: a conversation is copied at its first Stop only.
CopyAtStopOnce(c) == IF copy[c] = 0 THEN said[c] ELSE copy[c]

(* What a Stop leaves on disk: the copy of the conversation is replaced. *)
CopyAtStop(c) == said[c]

(* What a rollover leaves: it does not replace a copy, whole or not. *)
CopyAtRollover(c) == IF HasCopy(c) THEN copy[c] ELSE said[c]

(* A copy overwrites the file in place (safe_copy_file, copy2): one that    *)
(* fails or is killed midway leaves a shorter file, and what an earlier     *)
(* Stop had copied is gone.  The hook lists nothing and leaves no marker.   *)
CutShort(c) ==
  /\ Loses /\ cut' = cut \cup {c}
  /\ \E n \in 0..(said[c] - 1) : copy' = [copy EXCEPT ![c] = n]
  /\ UNCHANGED listed

(* The Stop hook copies the transcript, lists the copy - unless the lock of *)
(* the manifest is not free in time - and leaves a marker for the agent,    *)
(* unless verification blocks the stop or the marker's lock is taken.       *)
StopTurn ==
  /\ said[current] > 0 /\ current \in kept
  /\ copy' = [copy EXCEPT ![current] = CopyAtStop(current)] /\ cut' = cut \ {current}
  /\ \/ /\ Lists(Entry(current, TRUE))
        /\ stopped' = [stopped EXCEPT ![current] = said[current]]
     \/ UNCHANGED <<listed, stopped>>
  /\ \/ markers' = {k \in markers : k.conv # current}
                     \cup {[conv |-> current, turns |-> said[current]]}
     \/ UNCHANGED markers
  /\ UNCHANGED <<said, current, named, kept, turns, planVars, context, agent, there, edited, losses>>

StopFails ==
  /\ current \in kept /\ CutShort(current)
  /\ UNCHANGED <<said, current, named, kept, stopped, turns, planVars, context, agentVars>>

(* Before a compaction the whole transcript is copied to a file of its own. *)
(* Its entry, in the list of the copies, has a snapshot_path and no         *)
(* copied_path.  The hook that fails or waits too long lists nothing.       *)
PreCompact ==
  /\ said[current] > 0 /\ current \in kept
  /\ Lists(Entry(current, FALSE))
  /\ UNCHANGED <<said, current, named, kept, copy, cut, stopped, turns, planVars, context, agentVars, losses>>

(* /clear or a compaction starts a new conversation in the session.  The    *)
(* SessionStart hook names it in the manifest and captures the conversation *)
(* the manifest named before, if its transcript is still there; its copy is *)
(* listed if it was not and the lock is free a second time.  A hook that    *)
(* finds the lock taken does nothing.                                       *)
RollOver ==
  /\ current + 1 \in Conversations /\ said[current] > 0
  /\ current' = current + 1
  /\ \/ UNCHANGED <<named, copy, cut, listed, losses>>
     \/ /\ named' = current + 1 /\ named \notin kept
        /\ UNCHANGED <<copy, cut, listed, losses>>
     \/ /\ named' = current + 1 /\ named \in kept
        /\ copy' = [copy EXCEPT ![named] = CopyAtRollover(named)]
        /\ \/ Entry(named, TRUE) \notin ToSet(listed) /\ Lists(Entry(named, TRUE))
           \/ UNCHANGED listed
        /\ UNCHANGED <<cut, losses>>
     \/ /\ named' = current + 1 /\ named \in kept
        /\ ~HasCopy(named) /\ CutShort(named)
  /\ UNCHANGED <<said, kept, stopped, turns, planVars, context, agentVars>>

(* Claude and the user remove old files. *)

DropTranscript(c) ==
  /\ c \in kept /\ c # current /\ kept' = kept \ {c}
  /\ Loses
  /\ UNCHANGED <<said, current, named, copy, cut, stopped, listed, turns, planVars, context, agentVars>>

DropCopy(c) ==
  /\ HasCopy(c) /\ copy' = [copy EXCEPT ![c] = 0] /\ cut' = cut \ {c}
  /\ Loses
  /\ UNCHANGED <<said, current, named, kept, stopped, listed, turns, planVars, context, agentVars>>

(* The plan file is written again, possibly back to an earlier content. *)
WritePlan ==
  /\ draft' \in 1..MaxPlans /\ draft' # draft
  /\ UNCHANGED <<parentVars, approved, snapshots, approvedAt, approvals, context, agentVars, losses>>

\* Mutant: a content approved before stays where it is in the list.
ListedOnce(plans, p) == IF p \in ToSet(plans) THEN plans ELSE Append(plans, p)

WithApproved(plans, p) ==
  IF p \in ToSet(plans)
  THEN Append(RemoveAt(plans, CHOOSE i \in DOMAIN plans : plans[i] = p), p)
  ELSE Append(plans, p)

(* ExitPlanMode: the snapshot is named by the hash of its content, so that  *)
(* approving a content again copies nothing and moves it to the end of the  *)
(* list - unless the lock of the manifest is not free in time.              *)
ApprovePlan ==
  /\ draft > 0 /\ snapshots' = snapshots \cup {draft}
  /\ \/ /\ approvals < MaxApprovals /\ approvals' = approvals + 1
        /\ approved' = WithApproved(approved, draft)
        /\ approvedAt' = [approvedAt EXCEPT ![draft] = approvals + 1]
     \/ UNCHANGED <<approved, approvedAt, approvals>>
  /\ UNCHANGED <<parentVars, draft, context, agentVars, losses>>

DropSnapshot(p) ==
  /\ p \in snapshots /\ snapshots' = snapshots \ {p}
  /\ Loses
  /\ UNCHANGED <<parentVars, draft, approved, approvedAt, approvals, context, agentVars>>

----------------------------------------------------------------------------
(* The context of a child. *)

\* Mutant: the first approved plan, not the newest.
OldestPlanContent ==
  LET onDisk == {i \in DOMAIN approved : approved[i] \in snapshots}
  IN  IF onDisk # {} THEN approved[Min(onDisk)] ELSE draft

(* The content approved last that is still on disk, else the draft. *)
PlanContent ==
  LET onDisk == {i \in DOMAIN approved : approved[i] \in snapshots}
  IN  IF onDisk # {} THEN approved[Max(onDisk)] ELSE draft

(* The transcript a context is made of: the copy of the entry listed last.  *)
(* If that entry has none - nothing is listed, or PreCompact was the last   *)
(* to list - the live transcript of the conversation the manifest names,    *)
(* whatever copies come before.  The copy listed last may be gone: then     *)
(* there is no transcript.                                                  *)
EndsInCopy == listed # <<>> /\ Last(listed).copied

SourceConv == IF EndsInCopy THEN Last(listed).conv ELSE IF named \in kept THEN named ELSE 0

SourceTurns == IF EndsInCopy THEN copy[Last(listed).conv] ELSE IF named \in kept THEN said[named] ELSE 0

(* A curation needs a transcript with entries and a model that answers. *)
Kind(strategy, answers) ==
  CASE strategy = "curated" /\ SourceTurns = 0 -> "minimal"
    [] strategy = "curated" /\ ~answers -> "structured"
    [] OTHER -> strategy

(* Of n turns, how many a kind of context draws on: a curation is shown the *)
(* head of the transcript only.                                             *)
Within(kind, n) == IF kind = "curated" /\ n > MaxCurated THEN MaxCurated ELSE n

Assembled(strategy, answers, inline) ==
  LET kind == Kind(strategy, answers)
      used == kind # "minimal" /\ SourceTurns > 0
  IN  [kind |-> kind,
       conv |-> IF used THEN SourceConv ELSE 0,
       turns |-> IF used THEN Within(kind, SourceTurns) ELSE 0,
       plan |-> IF inline THEN PlanContent ELSE 0]

ProcessHandoff ==
  /\ \E strategy \in Strategies, answers, inline \in BOOLEAN :
       context' = Assembled(strategy, answers, inline)
  /\ UNCHANGED <<parentVars, planVars, agentVars, losses>>

----------------------------------------------------------------------------
(* The handoff agent. *)

SafePath(p) == p \in SafeDocs

\* Mutant: every document is written over what it shadows.
DiffersOrNot(d) == TRUE

Differs(d) == d.path # d.shadows

Consistent(d) ==
  /\ d.strategy = "suggested" => d.shadows \notin {"none", "empty"}
  /\ d.shadows # "none" => d.strategy = "suggested"
  /\ Differs(d)

ValidDocs ==
  {d \in Designated : /\ SafePath(d.path)
                      /\ d.shadows \in {"none", "empty"} \/ SafePath(d.shadows)
                      /\ Consistent(d)}

ReadyDocs ==
  {d \in ValidDocs : d.path \in there /\ (d.shadows \in {"none", "empty"} \/ d.shadows \in there)}

(* A marker is handed to a detached process, and the marker deleted.  The   *)
(* process gives up on a missing or a short transcript, without claude, and *)
(* with nothing to update.                                                  *)
LaunchAgent ==
  /\ agent.state = "idle"
  /\ \E k \in markers, claude \in BOOLEAN :
       /\ markers' = markers \ {k}
       /\ agent' = IF copy[k.conv] = 0 \/ copy[k.conv] < MinTurns \/ ~claude \/ ReadyDocs = {}
                   THEN NoAgent
                   ELSE [state |-> "running", conv |-> k.conv, prompt |-> {d.path : d \in ReadyDocs}]
  /\ UNCHANGED <<parentVars, planVars, context, there, edited, losses>>

(* The Claude of the agent, told to skip files it does not find, edits any  *)
(* of the files its prompt lists, then ends; it may fail or time out at any *)
(* point of that, and nothing runs it again.                                *)
FinishAgent ==
  /\ agent.state = "running" /\ agent' = NoAgent
  /\ \E done \in SUBSET (agent.prompt \cap there) : edited' = edited \cup done
  /\ UNCHANGED <<parentVars, planVars, context, markers, there, losses>>

UserRemovesDoc(d) ==
  /\ d \in there /\ there' = there \ {d}
  /\ Loses
  /\ UNCHANGED <<parentVars, planVars, context, markers, agent, edited>>

----------------------------------------------------------------------------
ParentStep ==
  \/ Say \/ StopTurn \/ StopFails \/ PreCompact \/ RollOver \/ WritePlan \/ ApprovePlan
  \/ \E c \in Conversations : DropTranscript(c) \/ DropCopy(c)
  \/ \E p \in 1..MaxPlans : DropSnapshot(p)

HandoffNext ==
  \/ ParentStep \/ ProcessHandoff \/ LaunchAgent \/ FinishAgent
  \/ \E d \in Docs : UserRemovesDoc(d)

HandoffSpec == HandoffInit /\ [][HandoffNext]_handoffVars

----------------------------------------------------------------------------
(* Properties. *)

(* A context made of a transcript draws on every turn that conversation had *)
(* at its last recorded Stop - a curated one on as many of them as fit -    *)
(* whatever was said, cleared or approved since: the copy a Stop makes      *)
(* replaces the earlier one (commands.py stop).  The conversation is that   *)
(* of the copy, if the entry listed last has one, and the one the manifest  *)
(* names if not.  A copy cut short, and not made again, holds less.         *)
ContextReachesTheLastStop ==
  [][context' # context /\ context'.conv # 0
       => LET c == IF EndsInCopy THEN Last(listed).conv ELSE named
          IN  /\ context'.conv = c
              /\ (EndsInCopy /\ c \in cut) \/ context'.turns >= Within(context'.kind, stopped[c])]_handoffVars

(* While a marker waits, the copy it points to holds every turn of the Stop *)
(* that left it: the agent started later, from a command line of another    *)
(* session, never summarises half a conversation, unless a later copy was   *)
(* cut short.                                                               *)
MarkedTurnsAreCopied ==
  \A k \in markers : k.conv \in cut \/ copy[k.conv] = 0 \/ copy[k.conv] >= k.turns

(* No snapshot on disk was approved later than the plan inlined into a      *)
(* context, also when an earlier content was approved again                 *)
(* (exit_plan_mode moves it to the end, _resolve_plan_content looks there   *)
(* first).                                                                  *)
InlinedPlanIsNewest ==
  [][context' # context /\ context'.plan # 0
       => \A p \in snapshots : approvedAt[p] <= approvedAt[context'.plan]]_handoffVars

(* A document that others only shadow is never edited by the agent: its     *)
(* owner merges the suggestions.  Only its own entry, without a shadow,     *)
(* allows it to be updated.                                                 *)
OfficialDocsAreOnlyProposedTo ==
  \A d \in edited : \E e \in Designated : e.path = d /\ (e.strategy = "suggested" => e.shadows # d)

(* What a session hands on is what it was: the copies hold the turns that   *)
(* were recorded, a context reaches the last of them and the latest plan,   *)
(* and official documents are only proposed to.                             *)
HandoffIsFaithful ==
  /\ [](HandoffTypeOK /\ MarkedTurnsAreCopied /\ OfficialDocsAreOnlyProposedTo)
  /\ ContextReachesTheLastStop /\ InlinedPlanIsNewest
============================================================================

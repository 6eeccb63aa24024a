------------------------------ MODULE PolicyEngine ------------------------------
(***************************************************************************)
(* The policy-check hook (cli/hooks/commands.py, cli/hooks/policy.py,      *)
(* guard/): before every Write or Edit of a session it reads the manifest, *)
(* restores the state of the stateful policies from it, evaluates every    *)
(* policy in force, composes their decisions and merges the state of those *)
(* that ran back into the manifest.                                        *)
(*                                                                         *)
(* Several edits of a session may be checked at once; the evaluation calls *)
(* language models and takes long, and only the last step holds the lock.  *)
(* Which policies are in force is what GuardConfig says when the manifest  *)
(* is read.                                                                *)
(***************************************************************************)
EXTENDS GuardConfig

CONSTANTS
    Hooks,           \* the checks that may be under way at once
    Edits,           \* see EditShape
    Branches,        \* the branches of the workflow, see BranchShape
    MaxChecks,       \* bound: edits checked
    MaxPolicyFaults  \* bound: policies that raise, manifests that cannot be updated

\* What an edit is to the tdd policy: a path is classified by a directory tests or
\* src anywhere in it.  rank is what _sort_tests_first makes of it, by the first
\* directory alone; banned says that a forbidden pattern is in it.
EditShape == [path : {"tests", "src", "docs"}, banned : BOOLEAN, rank : 0..2]
Classified(e) == (e.rank = 0 => e.path = "tests") /\ (e.rank = 2 => e.path \in {"tests", "src"})

\* A branch is matched by the tags of some edits; its filter skips some of these.
BranchShape == [takes : SUBSET Edits, skips : SUBSET Edits, checked : BOOLEAN, reviewed : BOOLEAN]

ASSUME PolicyEngineAssumption ==
    /\ Edits \subseteq EditShape /\ \A e \in Edits : Classified(e)
    /\ Branches \subseteq BranchShape
    /\ None \notin {"tdd", "patterns", "workflow", "supervisor"}
    /\ MaxChecks \in Nat /\ MaxPolicyFaults \in Nat

VARIABLES
    states,      \* confirmed.policy.policy_states
    checking,    \* what each hook does, and what it has read and decided
    touched,     \* history: a test edit was evaluated by the tdd policy
    cleared,     \* history: what a model has found aligned, with the policy that asked
    checks, policyFaults

engineVars == <<states, checking, touched, cleared, checks, policyFaults>>
policyVars == <<guardVars, engineVars>>

\* The state of the tdd policy is whether any path is in tests_touched; that of
\* the supervisor and of the workflow is the cache of what they have cleared.
NoStates == [tdd |-> FALSE, workflow |-> {}, supervisor |-> {}]
Stateful == DOMAIN NoStates

NoCheck == [pc |-> "idle", edit |-> None, config |-> None, restored |-> NoStates,
            verdicts |-> <<>>, collected |-> <<>>]

PolicyInit ==
    /\ GuardInit
    /\ states = NoStates
    /\ checking = [h \in Hooks |-> NoCheck]
    /\ touched = FALSE /\ cleared = {}
    /\ checks = 0 /\ policyFaults = 0

PolicyFault == policyFaults < MaxPolicyFaults /\ policyFaults' = policyFaults + 1

-----------------------------------------------------------------------------
(* The policies.  "patterns" stands for those that only look for forbidden *)
(* patterns: skipped tests and the three coding standards.                 *)

\* The policies build_engine registers, and the supervisor the hook adds.
Registered(c) ==
    (IF "tdd" \in c.bundles THEN {"tdd", "patterns"} ELSE {})
    \cup (IF "coding_standards" \in c.bundles THEN {"patterns"} ELSE {})
    \cup (IF "workflow" \in c.bundles THEN {"workflow"} ELSE {})
    \cup (IF Judges(c) THEN {"supervisor"} ELSE {})

Applies(p, edit) == p = "tdd" => edit.path \in {"tests", "src"}

Active(k) == {p \in Registered(k.config) : Applies(p, k.edit)}

\* The key of a cache: the edit and, for the supervisor, the plan it judges by,
\* but not which supervisor it is.
CacheKey(p, c, edit) ==
    [edit |-> edit, plan |-> IF p = "supervisor" THEN c.supervisor.plan ELSE None]

\* by: a "model" was asked, or a "branch" of the workflow let the edit through
\* without an answer; the rest are a "rule".
Verdict(decision, clean) == [decision |-> decision, clean |-> clean, by |-> "rule"]
Allow == Verdict("allow", TRUE)
Deny == Verdict("deny", FALSE)
Warn == Verdict("warn", FALSE)
Aligned == [Allow EXCEPT !.by = "model"]
FallsThrough == [Allow EXCEPT !.by = "branch"]

\* What the supervisor answers, through verdict_to_decision: aligned, divergent but
\* unsure or without citations, divergent, or no answer: a failing supervisor
\* allows with a warning.
Answers == {Aligned, Warn, Deny, Verdict("allow", FALSE)}

\* A branch: the filter may skip the edit; a checker that finds it aligned settles it;
\* one that objects, fails or cannot be parsed hands it to the reviewer, and without
\* a reviewer it falls through.  A reviewer that fails warns.
Unjudged(b, edit) == edit \in b.skips \/ ~b.reviewed

BranchVerdicts(b, edit) ==
    (IF Unjudged(b, edit) THEN {FallsThrough} ELSE {Warn, Deny})
    \cup (IF edit \notin b.skips /\ (b.checked \/ b.reviewed) THEN {Aligned} ELSE {})

\* A model tags the edit; without a tag of any branch it is allowed.
WorkflowVerdicts(edit) ==
    {Allow} \cup UNION {BranchVerdicts(b, edit) : b \in {c \in Branches : edit \in c.takes}}

Cached(p, k, edit) == CacheKey(p, k.config, edit) \in k.restored[p]

\* The policies that ask no model.
Ruling(p, k) ==
    CASE p = "tdd" -> IF k.edit.path = "src" /\ ~k.restored.tdd
                      THEN IF k.config.strict THEN Deny ELSE Warn
                      ELSE Allow
      [] p = "patterns" -> IF k.edit.banned THEN Deny ELSE Allow

\* Those that do.  A cached verdict may have expired.
Verdicts(p, k) ==
    CASE p \notin Active(k) -> {Allow}
      [] p \in Active(k) /\ p = "workflow" -> WorkflowVerdicts(k.edit)
      [] p \in Active(k) /\ p = "supervisor" -> Answers \cup (IF Cached(p, k, k.edit) THEN {Allow} ELSE {})

\* A policy that raises is skipped or denies, as the fail mode says.
Raised(c) == IF c.mode = "open" THEN Verdict("allow", FALSE) ELSE Deny

\* Mutant: any edit counts as a test.
StateAfterAnyEdit(p, k, v) ==
    IF p = "tdd" THEN TRUE
    ELSE k.restored[p] \cup (IF v.by # "rule" /\ v.clean THEN {CacheKey(p, k.config, k.edit)} ELSE {})

\* Mutant: an approval with a warning is cached.
StateAfterAnyAllow(p, k, v) ==
    IF p = "tdd" THEN k.restored.tdd \/ k.edit.path = "tests"
    ELSE k.restored[p] \cup (IF v.decision = "allow" THEN {CacheKey(p, k.config, k.edit)} ELSE {})

\* The state a policy has when it has evaluated the edit: only a clean answer of
\* a model is cached, and what a branch let fall through.
StateAfter(p, k, v) ==
    IF p = "tdd" THEN k.restored.tdd \/ k.edit.path = "tests"
    ELSE k.restored[p] \cup (IF v.by # "rule" /\ v.clean THEN {CacheKey(p, k.config, k.edit)} ELSE {})

\* Mutant: the supervisor's approval outweighs a denial.
DeniedUnlessSupervised(verdicts) ==
    /\ \E p \in DOMAIN verdicts : verdicts[p] = "deny"
    /\ "supervisor" \in DOMAIN verdicts => verdicts["supervisor"] # "allow"

\* The composition: a deny wins; no policy of the repository asks for a review.
Denied(verdicts) == \E p \in DOMAIN verdicts : verdicts[p] = "deny"

-----------------------------------------------------------------------------
(* A check.                                                                *)

\* The manifest is read; without a policy in force the edit is made.
ReadPolicy(h, edit) ==
    /\ checking[h].pc = "idle" /\ checks < MaxChecks /\ checks' = checks + 1
    /\ checking' = [checking EXCEPT ![h] =
           IF Effective.enabled /\ Registered(Effective) # {}
           THEN [NoCheck EXCEPT !.pc = "evaluate", !.edit = edit, !.config = Effective,
                                !.restored = states]
           ELSE NoCheck]
    /\ UNCHANGED <<states, touched, cleared, policyFaults>>

\* The verdicts, where the workflow says w and the supervisor s, and bad raises.
Judgement(k, bad, w, s) ==
    [p \in Active(k) |-> CASE p = bad -> Raised(k.config)
                          [] p # bad /\ p = "workflow" -> w
                          [] p # bad /\ p = "supervisor" -> s
                          [] p # bad /\ p \notin {"workflow", "supervisor"} -> Ruling(p, k)]

Decisions(v) == [p \in DOMAIN v |-> v[p].decision]

\* What check k has found: the decisions v of its policies, and the state of those
\* that did not raise.
Evaluated(k, bad, v) ==
    [k EXCEPT !.pc = "persist",
              !.verdicts = Decisions(v),
              !.collected = [p \in (Active(k) \ {bad}) \cap Stateful |-> StateAfter(p, k, v[p])]]

\* What a model was asked and has cleared.
Clears(k, v) ==
    {[policy |-> p, key |-> CacheKey(p, k.config, k.edit)] :
        p \in {q \in Active(k) \cap Stateful : v[q] = Aligned}}

\* Every policy that applies is evaluated; at most one of them raises.
Evaluate(h) ==
    /\ checking[h].pc = "evaluate"
    /\ LET k == checking[h]
       IN  \E bad \in Opt(Active(k)), w \in Verdicts("workflow", k), s \in Verdicts("supervisor", k) :
              LET v == Judgement(k, bad, w, s)
              IN  /\ IF bad = None THEN UNCHANGED policyFaults ELSE PolicyFault
                  /\ checking' = [checking EXCEPT ![h] = Evaluated(k, bad, v)]
                  /\ touched' = (touched \/ ("tdd" \in Active(k) \ {bad} /\ k.edit.path = "tests"))
                  /\ cleared' = cleared \cup Clears(k, v)
    /\ UNCHANGED <<states, checks>>

\* The state of the policies that ran replaces theirs in the manifest, unless it
\* is locked; then Claude is told.
Persist(h) ==
    /\ checking[h].pc = "persist"
    /\ LET k == checking[h]
       IN  \/ /\ states' = [p \in Stateful |->
                               IF p \in DOMAIN k.collected THEN k.collected[p] ELSE states[p]]
              /\ UNCHANGED policyFaults
           \/ PolicyFault /\ UNCHANGED states
    /\ checking' = [checking EXCEPT ![h] = NoCheck]
    /\ UNCHANGED <<touched, cleared, checks>>

PolicyNext ==
    \/ GuardNext /\ UNCHANGED engineVars
    \/ UNCHANGED guardVars /\ \E h \in Hooks :
          (\E e \in Edits : ReadPolicy(h, e)) \/ Evaluate(h) \/ Persist(h)

PolicySpec == PolicyInit /\ [][PolicyNext]_policyVars

-----------------------------------------------------------------------------
PolicyTypeOK ==
    /\ GuardTypeOK
    /\ states.tdd \in BOOLEAN
    /\ \A p \in {"workflow", "supervisor"} :
          states[p] \subseteq [edit : Edits, plan : Opt(GuardPlans)]
    /\ \A h \in Hooks : /\ checking[h].pc \in {"idle", "evaluate", "persist"}
                        /\ checking[h].edit \in Opt(Edits)
    /\ checks \in 0..MaxChecks /\ policyFaults \in 0..MaxPolicyFaults

\* The edit that hook h is told it may make.
Passed(h) == checking[h].pc = "persist" /\ ~Denied(checking[h].verdicts)

\* Under strict tdd no implementation is edited before a test was, whatever other
\* checks, commands and lost updates do; only a tdd policy that raises in the open
\* mode lets it pass (tdd.py: "Require test changes before implementation changes").
ImplNeedsTests ==
    \A h \in Hooks :
        Passed(h) /\ checking[h].edit.path = "src" /\ "tdd" \in DOMAIN checking[h].verdicts
                  /\ checking[h].config.strict
            => touched \/ ("tdd" \notin DOMAIN checking[h].collected /\ checking[h].config.mode = "open")

\* An edit that some branch of the workflow lets through though no model cleared it:
\* its filter skips it, or it has no reviewer and its checker objected or failed.
FallThrough(edit) == \E b \in Branches : edit \in b.takes /\ Unjudged(b, edit)

\* A verdict is reused only if a model gave it: what a cache holds, in the manifest or
\* in a running check, was found aligned for that edit and that plan.  Warnings, raised
\* errors and a supervisor that did not answer are never remembered as approvals; only
\* the workflow also remembers what a branch without a judge let through.
CachedWasCleared ==
    LET Sound(s, p) == \A key \in s : \/ [policy |-> p, key |-> key] \in cleared
                                      \/ p = "workflow" /\ FallThrough(key.edit)
    IN  \A p \in {"workflow", "supervisor"} :
            Sound(states[p], p) /\ \A h \in Hooks : Sound(checking[h].restored[p], p)

\* An edit that breaks a pattern in force is not made while nothing fails, and in
\* the closed mode not even then: no other policy's approval outweighs the denial.
BannedIsBlocked ==
    \A h \in Hooks :
        Passed(h) /\ "patterns" \in DOMAIN checking[h].verdicts =>
            ~checking[h].edit.banned \/ (checking[h].config.mode = "open" /\ policyFaults > 0)

\* An edit passes only with cause, whatever other checks save, fail or cache meanwhile: a
\* test came before it, a reused approval was given, and no banned pattern is in it.
VerdictsAreSound == PolicyTypeOK /\ ImplNeedsTests /\ CachedWasCleared /\ BannedIsBlocked
==============================================================================

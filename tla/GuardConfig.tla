------------------------------ MODULE GuardConfig -------------------------------
(***************************************************************************)
(* What policy a session is under.  The manifest has an intent, written at *)
(* the start and by the `forge guard` commands of cli/guard.py, and sparse *)
(* overrides, written by the %guard commands of a prompt and by `forge     *)
(* session set`; what holds is the intent with the overrides merged over   *)
(* it (session/effective.py).  The supervisor is always set in the intent, *)
(* because a resumed child session copies only that.                       *)
(***************************************************************************)
EXTENDS Forge

CONSTANTS
    Bundles,      \* the bundles; the commands do not name "workflow"
    Supervisors,  \* sessions that may be set as supervisor
    Null,         \* an override that clears what it overrides
    Terminals,    \* where commands are entered: the prompt and the shell
    MaxCommands   \* bound: commands, and plans approved

ASSUME GuardConfigAssumption ==
    None \notin Bundles \cup Supervisors \cup {Null} /\ Null \notin Supervisors /\ MaxCommands \in Nat

FailModes == {"open", "closed"}

\* Where an approved plan is found, nearest first; "file" is given by its path.
PlanSources == <<"self", "fork", "target">>
GuardPlans == {"self", "fork", "target", "file"}

VARIABLES
    intent,     \* intent.policy, or None
    override,   \* overrides of policy.*, None where there is none
    approved,   \* the plan sources with an approved snapshot
    begun,    \* the supervise command a terminal has begun: it has read, and not yet written
    said,       \* history: what the last command reported
    commands

guardVars == <<intent, override, approved, begun, said, commands>>

Supervision == [target : Supervisors, plan : Opt(GuardPlans), suspended : BOOLEAN]
PolicyIntent == [enabled : BOOLEAN, bundles : SUBSET Bundles, mode : FailModes, strict : BOOLEAN,
                 supervisor : Opt(Supervision)]
NoPolicy == [enabled |-> FALSE, bundles |-> {}, mode |-> "open", strict |-> TRUE,
             supervisor |-> None]

\* The overrides of policy.*; target, plan and suspended are those of
\* policy.supervisor.*, and void says whether "policy" or "supervisor" as a whole
\* is overridden by null.
Overrides == [enabled : Opt(BOOLEAN), bundles : Opt(SUBSET Bundles), mode : Opt(FailModes),
              strict : Opt(BOOLEAN), target : Opt(Supervisors \cup {Null}),
              plan : Opt({"file", Null}), suspended : Opt(BOOLEAN),
              void : Opt({"policy", "supervisor"})]
NoOverride == [enabled |-> None, bundles |-> None, mode |-> None, strict |-> None,
               target |-> None, plan |-> None, suspended |-> None, void |-> None]

\* A supervise command between its two steps, with the plan `reload` has resolved.
SwitchCommands == {"off", "on", "remove", "reload"}
Begun == [command : SwitchCommands, plan : Opt(GuardPlans)]

ASSUME GuardRecordAssumption ==
    /\ None \notin PolicyIntent \cup Supervision \cup Begun /\ Null # None
    /\ \A v \in {None, Null} : v \notin GuardPlans \cup FailModes \cup {"policy", "supervisor"} /\ v \notin BOOLEAN
    /\ \A b \in SUBSET Bundles : b # None /\ b # Null

Silence == [by |-> "nobody", enabled |-> None, bundles |-> None, target |-> None]

GuardInit ==
    /\ intent = None /\ override = NoOverride
    /\ approved = {} /\ begun = [t \in Terminals |-> None]
    /\ said = Silence /\ commands = 0

\* apply_overrides: an override replaces the value there is, and null clears it.
Overridden(over, value) == IF over = None THEN value ELSE IF over = Null THEN None ELSE over

Supervised == intent # None /\ intent.supervisor # None

\* The supervisor is merged field by field; without one in the intent the
\* overrides alone make one, which may have no target.
EffectiveSupervisor ==
    LET base == IF Supervised THEN intent.supervisor
                ELSE [target |-> None, plan |-> None, suspended |-> FALSE]
    IN  IF override.void = "supervisor" THEN None
        ELSE IF ~Supervised /\ override.target = None /\ override.plan = None /\ override.suspended = None
        THEN None
        ELSE [target |-> Overridden(override.target, base.target),
              plan |-> Overridden(override.plan, base.plan),
              suspended |-> Overridden(override.suspended, base.suspended)]

\* compute_effective_intent
Effective ==
    LET base == IF intent = None THEN NoPolicy ELSE intent
    IN  IF override.void = "policy" THEN NoPolicy
        ELSE [enabled |-> Overridden(override.enabled, base.enabled),
              bundles |-> Overridden(override.bundles, base.bundles),
              mode |-> Overridden(override.mode, base.mode),
              strict |-> Overridden(override.strict, base.strict),
              supervisor |-> EffectiveSupervisor]

\* The supervisor in effect is asked about edits (has_supervisor).
Judges(c) == c.supervisor # None /\ c.supervisor.target # None /\ ~c.supervisor.suspended

Says(by, enabled, bundles, target) ==
    said' = [by |-> by, enabled |-> enabled, bundles |-> bundles, target |-> target]

-----------------------------------------------------------------------------
(* Overrides.  Setting one below a null makes a section of its own again.  *)

\* _set_path of a field of the policy, and of a field of its supervisor.
PolicyOverride == [override EXCEPT !.void = IF @ = "policy" THEN None ELSE @]
SupervisorOverride == [override EXCEPT !.void = None]

\* `forge session set policy.<field> ...`: enabled, bundles, fail_mode, bundle_config.
SetOverride(f, v) ==
    /\ override' = [PolicyOverride EXCEPT ![f] = v]
    /\ Says("set", IF f = "enabled" THEN v ELSE None, IF f = "bundles" THEN v ELSE None, None)
    /\ UNCHANGED <<intent, approved, begun>>

\* `forge session set policy.supervisor.<field> ...`
SetSupervisorOverride(f, v) ==
    /\ override' = [SupervisorOverride EXCEPT ![f] = v]
    /\ Says("set", None, None, None)
    /\ UNCHANGED <<intent, approved, begun>>

\* `forge session set policy null` and `... policy.supervisor null`
Void(part) ==
    /\ override' = IF part = "policy" THEN [NoOverride EXCEPT !.void = part]
                   ELSE [override EXCEPT !.target = None, !.plan = None, !.suspended = None, !.void = part]
    /\ Says("set", None, None, None)
    /\ UNCHANGED <<intent, approved, begun>>

\* `forge session reset` of one key, of the supervisor's, or of everything.
ResetOverrides(keys) ==
    /\ override' = [f \in DOMAIN override |-> IF f \in keys THEN None ELSE override[f]]
    /\ Says("set", None, None, None)
    /\ UNCHANGED <<intent, approved, begun>>

-----------------------------------------------------------------------------
(* The commands of the policy.                                             *)

\* `forge guard enable`: a new policy, without the supervisor of the old one.
Enable(b, mode, permissive) ==
    /\ b # {}
    /\ intent' = [enabled |-> TRUE, bundles |-> b, mode |-> mode,
                  strict |-> ~(permissive /\ "tdd" \in b), supervisor |-> None]
    /\ Says("cli", TRUE, b, None)
    /\ UNCHANGED <<override, approved, begun>>

\* `forge guard disable`
Disable ==
    /\ intent' = IF intent = None THEN NoPolicy ELSE [intent EXCEPT !.enabled = FALSE]
    /\ Says("cli", FALSE, None, None)
    /\ UNCHANGED <<override, approved, begun>>

\* %guard enable: overrides; what --permissive set stays when it is not given again.
DirectEnable(b, mode, permissive) ==
    /\ b # {}
    /\ override' = [PolicyOverride EXCEPT
                       !.enabled = TRUE, !.bundles = b, !.mode = mode,
                       !.strict = IF permissive /\ "tdd" \in b THEN FALSE ELSE @]
    /\ Says("prompt", TRUE, b, None)
    /\ UNCHANGED <<intent, approved, begun>>

\* Mutant: the prompt's command writes the intent.
DirectDisableIntent ==
    /\ intent' = IF intent = None THEN NoPolicy ELSE [intent EXCEPT !.enabled = FALSE]
    /\ Says("prompt", FALSE, None, None)
    /\ UNCHANGED <<override, approved, begun>>

\* %guard disable
DirectDisable ==
    /\ override' = [PolicyOverride EXCEPT !.enabled = FALSE]
    /\ Says("prompt", FALSE, None, None)
    /\ UNCHANGED <<intent, approved, begun>>

\* Mutant: the override stays.
SuperviseShadowed(t) ==
    /\ intent' = [(IF intent = None THEN NoPolicy ELSE intent) EXCEPT
                     !.enabled = TRUE,
                     !.supervisor = [target |-> t, plan |-> None, suspended |-> FALSE]]
    /\ Says("supervise", TRUE, None, t)
    /\ UNCHANGED <<override, approved, begun>>

\* apply_supervisor_to_intent, from both command lines: an override that
\* disables the policy would shadow the supervisor, and is removed; the overrides
\* of the supervisor itself stay.
Supervise(t) ==
    /\ intent' = [(IF intent = None THEN NoPolicy ELSE intent) EXCEPT
                     !.enabled = TRUE,
                     !.supervisor = [target |-> t, plan |-> None, suspended |-> FALSE]]
    /\ override' = [override EXCEPT !.enabled = None]
    /\ Says("supervise", TRUE, None, t)
    /\ UNCHANGED <<approved, begun>>

\* resolve_supervisor_reload_plan_path: this session, then the forks of the
\* supervisor, then the supervisor itself.
NearestPlan ==
    LET found == {i \in DOMAIN PlanSources : PlanSources[i] \in approved}
    IN  IF found = {} THEN None ELSE PlanSources[CHOOSE i \in found : \A j \in found : i <= j]

\* supervise off, on and remove look, without the lock, whether the intent has a
\* supervisor.
SwitchReads(tm, command) ==
    /\ begun[tm] = None /\ Supervised
    /\ begun' = [begun EXCEPT ![tm] = [command |-> command, plan |-> None]]
    /\ UNCHANGED <<intent, override, approved, said>>

\* supervise reload finds the plan, for the supervisor in effect.
ReloadReads(tm, path) ==
    LET plan == IF path # None THEN path ELSE NearestPlan
    IN  /\ begun[tm] = None /\ plan # None
        /\ Effective.supervisor # None /\ Effective.supervisor.target # None
        /\ begun' = [begun EXCEPT ![tm] = [command |-> "reload", plan |-> plan]]
        /\ UNCHANGED <<intent, override, approved, said>>

\* What the command makes of the supervisor.
Switched(p, s) ==
    CASE p.command = "off" -> [s EXCEPT !.suspended = TRUE]
      [] p.command = "on" -> [s EXCEPT !.suspended = FALSE]
      [] p.command = "remove" -> None
      [] p.command = "reload" -> [s EXCEPT !.plan = p.plan]

\* It is written under the lock into the supervisor there is by then; without one
\* nothing is written, and success is reported all the same.
SwitchWrites(tm) ==
    /\ begun[tm] # None
    /\ begun' = [begun EXCEPT ![tm] = None]
    /\ intent' = IF Supervised THEN [intent EXCEPT !.supervisor = Switched(begun[tm], @)] ELSE intent
    /\ Says(begun[tm].command, None, None, None)
    /\ UNCHANGED <<override, approved>>

\* A plan is approved in this session, in a fork of the supervisor, or there.
ApprovePlan(where) ==
    /\ where \notin approved
    /\ approved' = approved \cup {where}
    /\ UNCHANGED <<intent, override, begun, said>>

PolicyFields == {"enabled", "bundles", "mode", "strict"}
SupervisorFields == {"target", "plan", "suspended"}

\* The values the fields may be given: a null only where the field is optional.
Values(f) ==
    CASE f \in {"enabled", "strict", "suspended"} -> BOOLEAN
      [] f = "bundles" -> SUBSET Bundles
      [] f = "mode" -> FailModes
      [] f = "target" -> Supervisors \cup {Null}
      [] f = "plan" -> {"file", Null}

\* What `session reset` may be told to forget; a null of the whole policy goes
\* only with all overrides of it.
Resettable ==
    {{f} : f \in PolicyFields \cup SupervisorFields}
    \cup {SupervisorFields \cup (IF override.void = "supervisor" THEN {"void"} ELSE {}), DOMAIN NoOverride}

OverrideCommand ==
    \/ \E f \in PolicyFields : \E v \in Values(f) : SetOverride(f, v)
    \/ \E f \in SupervisorFields : \E v \in Values(f) : SetSupervisorOverride(f, v)
    \/ \E part \in {"policy", "supervisor"} : Void(part)
    \/ \E keys \in Resettable : ResetOverrides(keys)

SuperviseCommand ==
    \/ \E t \in Supervisors : Supervise(t)
    \/ \E tm \in Terminals : \/ \E c \in {"off", "on", "remove"} : SwitchReads(tm, c)
                              \/ \E path \in {None, "file"} : ReloadReads(tm, path)

Command ==
    \/ \E b \in SUBSET (Bundles \ {"workflow"}), mode \in FailModes, p \in BOOLEAN :
          Enable(b, mode, p) \/ DirectEnable(b, mode, p)
    \/ Disable \/ DirectDisable
    \/ OverrideCommand \/ SuperviseCommand
    \/ \E i \in DOMAIN PlanSources : ApprovePlan(PlanSources[i])

GuardNext ==
    \/ commands < MaxCommands /\ commands' = commands + 1 /\ Command
    \/ \E tm \in Terminals : SwitchWrites(tm) /\ UNCHANGED commands

GuardSpec == GuardInit /\ [][GuardNext]_guardVars

-----------------------------------------------------------------------------
GuardTypeOK ==
    /\ intent \in Opt(PolicyIntent)
    /\ override \in Overrides
    /\ approved \subseteq GuardPlans /\ begun \in [Terminals -> Opt(Begun)]
    /\ commands \in 0..MaxCommands

\* An override of the policy or of its supervisor says otherwise than the intent.
Shadows(target) ==
    override.void # None \/ override.target \notin {None, target} \/ override.suspended = TRUE

\* After "Supervisor set to ..." the policy is enabled and that supervisor judges,
\* whatever was enabled, disabled and overridden before: a %guard disable does not
\* shadow it (supervisor.py:536-538).  "Supervisor resumed" and "suspended" hold of
\* the supervisor there is, and after "removed" none judges.  Only an override of the
\* supervisor itself, or of the whole policy by null, is stronger; and a supervisor
\* that another command took away meanwhile is neither resumed nor suspended.
SuperviseTakesEffect ==
    /\ said.by = "supervise" /\ ~Shadows(said.target) =>
           Effective.enabled /\ Judges(Effective) /\ Effective.supervisor.target = said.target
    /\ said.by = "on" /\ Supervised /\ ~Shadows(intent.supervisor.target) => Judges(Effective)
    /\ said.by = "off" /\ Supervised /\ override.suspended # FALSE => ~Judges(Effective)
    /\ said.by = "remove" /\ override.target \in {None, Null} => ~Judges(Effective)

\* What a %guard command of the prompt or a `session set` reports holds, over
\* whatever the intent says.
PromptCommandsTakeEffect ==
    said.by \in {"prompt", "set"} =>
        /\ said.enabled # None => Effective.enabled = said.enabled
        /\ said.bundles # None => Effective.bundles = said.bundles

\* What a command reported is in effect, whichever of intent and overrides it wrote and
\* whatever was set in the other.
CommandsTakeEffect == SuperviseTakesEffect /\ PromptCommandsTakeEffect
==============================================================================

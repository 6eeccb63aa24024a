----------------------------- MODULE MCSessionHooks -----------------------------
(* The hooks of a session, its policy configuration, its policy checks and     *)
(* checks on demand, one component in each behaviour: what the others keep     *)
(* does not change.                                                            *)
EXTENDS SessionHooks, GuardCheck, TLC

CONSTANT CommandsWhileChecking  \* bound: commands in the behaviours with checks

VARIABLE component

Edit(path, rank, banned) == [path |-> path, banned |-> banned, rank |-> rank]

\* tests/t.py, a/tests/t.py, src/x.py, a/src/x.py, and src/y.py with a pattern.
NestedTest == Edit("tests", 1, FALSE)
NestedImpl == Edit("src", 1, FALSE)
MCEdits == {Edit("tests", 0, FALSE), Edit("src", 2, FALSE), Edit("src", 2, TRUE), NestedTest, NestedImpl}

\* One branch judges what it takes but for one file its filter skips; the other,
\* without a reviewer, takes the file with the pattern.
MCBranches ==
    {[takes |-> {Edit("tests", 0, FALSE), Edit("src", 2, FALSE)}, skips |-> {Edit("tests", 0, FALSE)},
      checked |-> TRUE, reviewed |-> TRUE],
     [takes |-> {Edit("src", 2, TRUE)}, skips |-> {}, checked |-> TRUE, reviewed |-> FALSE]}

\* No diff is checked in the behaviours of the other components.
Unchecked == diff = <<>> /\ unchecked = <<>> /\ engine = None /\ exit = None

Init ==
    /\ component \in {"hooks", "guard", "policy", "check"}
    /\ HooksInit /\ PolicyInit
    /\ IF component = "check" THEN CheckInit ELSE Unchecked

\* The nested files are for the diffs: to a hook they are like the others.
Next ==
    /\ UNCHANGED component
    /\ \/ component = "hooks" /\ HooksNext /\ UNCHANGED policyVars
       \/ component = "guard" /\ GuardNext /\ UNCHANGED <<hookVars, engineVars>>
       \/ component = "check"
       \/ /\ component = "policy" /\ PolicyNext /\ commands' <= CommandsWhileChecking
          /\ \A h \in Hooks : checking'[h].edit \notin {NestedTest, NestedImpl}
          /\ UNCHANGED hookVars
    /\ IF component = "check" THEN CheckNext /\ UNCHANGED <<hookVars, policyVars>>
       ELSE UNCHANGED checkVars

\* Claudes, hooks and terminals are the same processes, one or the other in each
\* behaviour, and conversations and supervisors the same names.
Symmetry == Permutations(Claudes) \cup Permutations(Uuids)
================================================================================

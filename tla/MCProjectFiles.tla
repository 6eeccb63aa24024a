---------------------------- MODULE MCProjectFiles ----------------------------
(* What `forge extension` leaves in a project, `forge clean` takes away,         *)
(* `forge backend` runs for all of them and the store keeps as the manifest of  *)
(* a session: one component in each behaviour; what the others keep does not    *)
(* change.                                                                     *)
EXTENDS Installer, GarbageCollection, BackendLifecycle, ManifestStore, TLC

CONSTANTS x, u, v, d

VARIABLE component

\* A session is created, updated twice and deleted.
MCOperations == x :> "write" @@ u :> "update" @@ v :> "update" @@ d :> "delete"

\* An upgrade drops a skill file and adds an entry.
MCReleases == <<"v1", "v2">>
MCSources == [v1 |-> {"t1", "g"}, v2 |-> {"g"}]
MCTemplate == [v1 |-> {"e1"}, v2 |-> {"e1", "e2"}]

\* r1 and r2 are worktrees of one project, r3 is a repository nested in r1.
MCRootOf == [a |-> "r1", b |-> "r2", n |-> "r3"]
MCProjectOf == [r1 |-> "p", r2 |-> "p", r3 |-> "q"]
MCInside == {<<r, r>> : r \in GcRoots} \cup {<<"r3", "r1">>, <<"r1", "p">>, <<"r3", "p">>}
MCContexts == {[root |-> "r1", project |-> "p"], [root |-> None, project |-> "p"]}

MCSymmetry == Permutations(Scopes)

SumInit ==
    /\ component \in {"installer", "clean", "backends", "store"}
    /\ InstallInit /\ GcInit /\ BackendInit /\ Init
    /\ component # "backends" => ~config
    /\ component # "clean" => (dirs = {} /\ installs = {})
    /\ component # "store" => manifest = None

\* After the last command nothing is left that an edit or an upgrade could change.
BeforeLastCommand ==
    did'.edits # did.edits \/ version' # version => did.commands < MaxCommands

SumNext ==
    /\ UNCHANGED component
    /\ IF component = "installer" THEN InstallNext /\ BeforeLastCommand ELSE UNCHANGED installVars
    /\ IF component = "clean" THEN GcNext ELSE UNCHANGED gcVars
    /\ IF component = "backends" THEN BackendNext ELSE UNCHANGED backendVars
    /\ IF component = "store" THEN Next ELSE UNCHANGED vars
===============================================================================

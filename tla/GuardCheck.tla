------------------------------- MODULE GuardCheck -------------------------------
(***************************************************************************)
(* Policies evaluated on demand: `%guard check` on the files of a git diff *)
(* and `forge guard check` on one file or diff.  They build an engine of   *)
(* their own, without the state of the session, fail closed and write      *)
(* nothing.                                                                *)
(***************************************************************************)
EXTENDS PolicyEngine

CONSTANT MaxFiles  \* bound: files of a diff

ASSUME GuardCheckAssumption == MaxFiles \in Nat /\ None \notin {0, 1}

VARIABLES
    diff,     \* the edits of the diff, in its order
    unchecked,  \* those not evaluated yet, in the order of evaluation
    engine,   \* the state of the engine's policies
    exit      \* 0 passed, 1 denied, None while it runs

checkVars == <<diff, unchecked, engine, exit>>

\* Each file of a diff occurs once.
Diffs == {d \in UNION {[1..n -> Edits] : n \in 1..MaxFiles} :
             \A i, j \in DOMAIN d : d[i] = d[j] => i = j}

\* Mutant: in the order of the diff.
DiffOrder(d) == d

\* _sort_tests_first, a stable sort by rank; a diff may name the files in any order.
Ranked(d, r) == Selected(d, {i \in DOMAIN d : d[i].rank = r})
EvaluationOrder(d) == Ranked(d, 0) \o Ranked(d, 1) \o Ranked(d, 2)

\* What is checked with: bundles that are named, or those of the session; no
\* supervisor is registered.
OnDemand(b, strict) ==
    [NoPolicy EXCEPT !.enabled = TRUE, !.bundles = b, !.mode = "closed", !.strict = strict]

CheckInit ==
    /\ diff \in Diffs /\ unchecked = EvaluationOrder(diff)
    /\ \E b \in SUBSET Bundles \ {{}}, strict \in BOOLEAN :
          engine = [config |-> OnDemand(b, strict), restored |-> NoStates]
    /\ exit = None

\* One file: every policy that applies, and the state it leaves for the next.
CheckFile ==
    /\ unchecked # <<>>
    /\ LET k == [config |-> engine.config, restored |-> engine.restored, edit |-> Head(unchecked)]
       IN  \E w \in Verdicts("workflow", k) :
              LET v == Judgement(k, None, w, Allow)
              IN  /\ exit' = IF Denied(Decisions(v)) THEN 1 ELSE exit
                  /\ engine' = [engine EXCEPT !.restored = [p \in Stateful |->
                         IF p \in Active(k) THEN StateAfter(p, k, v[p]) ELSE @[p]]]
    /\ unchecked' = Tail(unchecked)
    /\ UNCHANGED diff

Report ==
    /\ unchecked = <<>> /\ exit = None
    /\ exit' = 0
    /\ UNCHANGED <<diff, unchecked, engine>>

CheckNext == CheckFile \/ Report

CheckSpec == CheckInit /\ [][CheckNext]_checkVars

-----------------------------------------------------------------------------
\* The sort tells the tests of the diff from its implementation: not where both lie
\* in nested directories, nor where the tests lie under src/.
SortedApart(edits) ==
    \A t, e \in edits : t.path = "tests" /\ e.path = "src" => t.rank < e.rank

\* The verdict on a diff does not depend on the order git lists its files in, where
\* the sort can tell them apart: the diff fails if some file breaks a pattern in force or if
\* strict tdd finds an implementation and no test, and otherwise only a workflow can
\* fail it (direct_commands.py: "tests-first ordering").  Where the sort cannot, it
\* may only fail more: no diff passes that one of these rules forbids.
DiffVerdictIsOrderFree ==
    unchecked = <<>> /\ exit # None =>
        LET changed == {diff[i] : i \in DOMAIN diff}
            rules == Registered(engine.config)
            forbidden ==
              \/ "patterns" \in rules /\ \E e \in changed : e.banned
              \/ /\ "tdd" \in rules /\ engine.config.strict
                 /\ \E e \in changed : e.path = "src"
                 /\ \A e \in changed : e.path # "tests"
        IN  /\ forbidden => exit = 1
            /\ SortedApart(changed) /\ "workflow" \notin rules => (exit = 1 => forbidden)
==============================================================================

------------------------- MODULE MCSessionLifecycle -------------------------
(* Small instances of SessionLifecycle: p is a session of the main checkout, *)
(* r its generated resume name and s the one with a time suffix; others are  *)
(* picked by the run.                                                        *)
EXTENDS SessionLifecycle, TLC

CONSTANTS p, r, s

MCResumed == [n \in Names |-> r]
MCSuffixed == [n \in Names |-> {s}]

Plain == [by |-> None, parent |-> None, fork |-> FALSE, tree |-> Main, hold |-> "none"]
ForkOfP == [Plain EXCEPT !.parent = p, !.fork = TRUE]

MCParent == <<p, Main>> :> Plain
\* r is a fork of p in the same checkout.
MCParentAndFork == MCParent @@ (<<r, Main>> :> ForkOfP)

MCRunning == {<<r, Main>>}

MCSymmetry == Permutations(Calls)

=============================================================================

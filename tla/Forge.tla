--------------------------------- MODULE Forge ---------------------------------
(* What the modules of the hooks, the proxy server and the tools share.       *)
EXTENDS Naturals, Sequences, FiniteSetsExt

CONSTANT None   \* Python's None, a file that is not there, a field not set

Opt(S) == S \cup {None}

\* The elements of s at the given places, in their order.
Selected(s, places) ==
    LET rank(i) == Cardinality({j \in places : j <= i})
    IN  [n \in 1..Cardinality(places) |-> s[CHOOSE i \in places : rank(i) = n]]
==============================================================================

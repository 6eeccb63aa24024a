--------------------------- MODULE MCQueueAndIndex ---------------------------
(* The work queue and the search index that its index handler fills, one of *)
(* them in each behaviour: what the other keeps does not change.            *)
EXTENDS MCWorkQueue, SearchIndex

VARIABLE component

\* What a transcript holds grows.
MCTermsIn == <<{"x"}, {"x", "y"}>>

SumInit ==
    /\ component \in {"queue", "index"}
    /\ Init /\ SearchInit
    /\ component = "index" => \A m \in MarkerIds : pending[m] = NoFile

\* Both versions hold "x": a search for it misses whatever one for "y" would.
SumNext ==
    /\ UNCHANGED component
    /\ IF component = "queue" THEN Next ELSE UNCHANGED vars
    /\ IF component = "index" THEN SearchNext ELSE UNCHANGED searchVars
    /\ search'.term # "y"

SumSymmetry == MCSymmetry \cup Permutations(Docs)
==============================================================================

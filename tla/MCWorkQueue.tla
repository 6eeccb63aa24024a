----------------------------- MODULE MCWorkQueue -----------------------------
(* Small instances of WorkQueue: marker 1 is a stop marker, 2 a handoff    *)
(* marker, in the order their file names sort.                             *)
EXTENDS WorkQueue, TLC

MCKindOf == [m \in MarkerIds |-> IF m = 1 THEN "stop" ELSE "handoff"]

MCSymmetry == Permutations(Procs)

=============================================================================

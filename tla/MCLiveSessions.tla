---------------------------- MODULE MCLiveSessions ----------------------------
(* Small instances of LiveSessions.                                        *)
EXTENDS LiveSessions, TLC

\* Sessions of one name in several projects share the container name.
MCContainerOf == [s \in Sessions |-> "forge-name"]

MCSymmetry == Permutations(Calls) \cup Permutations(Pids)

=============================================================================

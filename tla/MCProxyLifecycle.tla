--------------------------- MODULE MCProxyLifecycle ---------------------------
(* Small instances of ProxyLifecycle.                                      *)
EXTENDS ProxyLifecycle, TLC

CONSTANT t

Line(op, name) == [op |-> op, name |-> name, template |-> None, port |-> None, url |-> FALSE,
                   force |-> FALSE, killAdopted |-> FALSE, noKill |-> FALSE]

MCDefaultPort == [x \in Templates |-> 1]
MCSettledAt == [i \in Settled |-> [template |-> t, port |-> 1]]

\* Every command, with the options that change what it does.
MCRequests ==
    {[Line("create", None) EXCEPT !.template = t],
     [Line("create", 2) EXCEPT !.template = t, !.port = 1, !.url = TRUE],
     [Line("configure", 2) EXCEPT !.template = t],
     Line("start", 1),
     [Line("stop", 1) EXCEPT !.force = TRUE, !.killAdopted = TRUE],
     Line("stop", 2),
     [Line("delete", 1) EXCEPT !.noKill = TRUE],
     Line("delete", 2),
     Line("clean", None)}

MCSymmetry == Permutations(Calls) \cup Permutations(Pids)

=============================================================================

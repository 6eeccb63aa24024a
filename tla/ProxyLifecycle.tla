---------------------------- MODULE ProxyLifecycle ----------------------------
(***************************************************************************)
(* The proxies of a machine: the registry proxies/index.json               *)
(* (proxy/proxies.py), the directory proxies/<id>/ with the user's         *)
(* configuration of each, the server processes with the ports they listen  *)
(* on, and the commands of cli/proxy.py that create, start, stop, delete   *)
(* and prune them (proxy/proxy_orchestrator.py).                           *)
(*                                                                         *)
(* A registry update is one step (it holds the registry's lock); nothing   *)
(* is held between two steps of a command.  A server tells who it is by    *)
(* looking up its template and port in the registry                        *)
(* (proxy/proxy_identity.py), whatever it was started as.  Every host is   *)
(* localhost, so a base URL is a port.                                     *)
(***************************************************************************)
EXTENDS Naturals, FiniteSetsExt

CONSTANTS
    Calls,        \* commands; each runs at most once
    Ids,          \* proxy ids, in their order
    Ports,
    Templates,
    Pids,         \* enough for every server: a pid is not used twice
    None,
    DefaultPort,  \* DefaultPort[t]: proxy.default_port of the template
    Requests,     \* the command lines a run explores
    Settled,      \* proxies of earlier commands: their ids
    SettledAt,    \* SettledAt[i]: the template and port of each
    MaxManual,    \* bound: servers users start by hand
    MaxFaults     \* bound: commands cut short, slow answers, servers that exit

Ops == {"create", "configure", "start", "stop", "delete", "clean"}

\* One shape for all commands; what a command does not take is None or FALSE.
Request == [op : Ops, name : Ids \cup {None}, template : Templates \cup {None},
            port : Ports \cup {None}, url : BOOLEAN, force : BOOLEAN,
            killAdopted : BOOLEAN, noKill : BOOLEAN]

ASSUME ProxyLifecycleAssumption ==
    /\ Ids \subseteq Nat /\ Ports \subseteq Nat
    /\ None \notin Ids \cup Ports \cup Templates \cup Pids
    /\ DefaultPort \in [Templates -> Ports]
    /\ Requests \subseteq Request
    /\ \A r \in Requests : r.op \in {"create", "configure"} => r.template # None
    /\ \A r \in Requests : r.op \notin {"create", "clean"} => r.name # None
    /\ Settled \subseteq Ids
    /\ SettledAt \in [Settled -> [template : Templates, port : Ports]]
    /\ MaxManual \in Nat /\ MaxFaults \in Nat

VARIABLES
    registry,  \* the entry of each id, or None
    file,      \* proxies/<id>/proxy.yaml of each id: template and port, or None
    server,    \* the process of each pid, or None
    pc, req,   \* where each command is, and its command line
    loc,       \* its local variables
    quiet,     \* commands nothing else has interfered with so far
    manual, faults

vars == <<registry, file, server, pc, req, loc, quiet, manual, faults>>
bounds == <<manual, faults>>

\* pid is None when unknown; aged: created more than a minute ago.
Entry == [template : Templates, port : Ports, pid : Pids \cup {None}, aged : BOOLEAN,
          status : {"configured", "starting", "healthy", "stopped"}]
Config == [template : Templates, port : Ports]
\* id is None for a server started by hand.
Process == [id : Ids \cup {None}, template : Templates, port : Ports,
            phase : {"booting", "valid", "listening", "signalled", "dead"}]

ASSUME RecordAssumption == None \notin Request \cup Entry \cup Config \cup Process

\* The local variables of a command: its template, the id and port it settles
\* on, its child, the entry it read, the candidates for reuse, the directories
\* to remove, and whether to kill.
NoLocals == [template |-> None, me |-> None, port |-> None, child |-> None, seen |-> None,
             cands |-> {}, doomed |-> {}, kill |-> FALSE]

Idle == {c \in Calls : pc[c] \in {"idle", "ended"}}
Goto(c, to) == pc' = [pc EXCEPT ![c] = to]
End(c) ==
    /\ Goto(c, "ended")
    /\ loc' = [loc EXCEPT ![c] = NoLocals]
    /\ req' = [req EXCEPT ![c] = None]
    /\ quiet' = quiet \ {c}
Fault == faults < MaxFaults /\ faults' = faults + 1 /\ UNCHANGED manual

Init ==
    /\ \E known \in SUBSET Settled : \E up \in SUBSET known : \E pidOf \in [up -> Pids] :
          /\ \A i, j \in up : i # j => pidOf[i] # pidOf[j] /\ SettledAt[i].port # SettledAt[j].port
          /\ registry = [i \in Ids |-> IF i \notin known THEN None ELSE
                [template |-> SettledAt[i].template, port |-> SettledAt[i].port, aged |-> FALSE,
                 pid |-> IF i \in up THEN pidOf[i] ELSE None,
                 status |-> IF i \in up THEN "healthy" ELSE "configured"]]
          /\ server = [p \in Pids |-> IF \A i \in up : pidOf[i] # p THEN None ELSE
                LET i == CHOOSE i \in up : pidOf[i] = p
                IN  [id |-> i, template |-> SettledAt[i].template, port |-> SettledAt[i].port,
                     phase |-> "listening"]]
          /\ file = [i \in Ids |-> IF i \in known THEN SettledAt[i] ELSE None]
    /\ pc = [c \in Calls |-> "idle"]
    /\ req = [c \in Calls |-> None]
    /\ loc = [c \in Calls |-> NoLocals]
    /\ quiet = {}
    /\ manual = 0 /\ faults = 0

-----------------------------------------------------------------------------
(* What a command can ask of the machine.                                  *)

Registered == {i \in Ids : registry[i] # None}
Alive(p) == server[p].phase # "dead"
Serving(n) == {p \in Pids : server[p] # None /\ server[p].port = n
                            /\ server[p].phase \in {"listening", "signalled"}}
InUse(n) == Serving(n) # {}

At(t, n) == {i \in Registered : registry[i].template = t /\ registry[i].port = n}
Routable(i, n) == registry[i].port = n /\ registry[i].status \in {"healthy", "starting"}
Identity(t, n) == IF At(t, n) = {} THEN None ELSE Min(At(t, n))

\* A server of template t answers on port n, and says it is the proxy i, or,
\* when i is None, that it is no registered proxy.
Healthy(t, n, i) == Identity(t, n) = i /\ \E p \in Serving(n) : server[p].template = t

Signal(p) == server' = [server EXCEPT ![p].phase = IF @ = "listening" THEN "signalled" ELSE
                                                    IF @ = "signalled" THEN @ ELSE "dead"]

-----------------------------------------------------------------------------
(* Servers.                                                                *)

\* Start-up: load proxy.yaml, then check the registry entry.
Validate(p) ==
    /\ server[p] # None /\ server[p].phase = "booting"
    /\ LET s == server[p]
           valid == /\ file[s.id] # None
                    /\ registry[s.id] # None
                    /\ registry[s.id].template = s.template /\ registry[s.id].port = s.port
       IN  server' = [server EXCEPT ![p].phase = IF valid THEN "valid" ELSE "dead"]
    /\ UNCHANGED <<registry, file, pc, req, loc, quiet, bounds>>

Listen(p) ==
    /\ server[p] # None /\ server[p].phase = "valid"
    /\ server' = [server EXCEPT ![p].phase = IF InUse(server[p].port) THEN "dead" ELSE "listening"]
    /\ UNCHANGED <<registry, file, pc, req, loc, quiet, bounds>>

Terminate(p) ==
    /\ server[p] # None /\ server[p].phase = "signalled"
    /\ server' = [server EXCEPT ![p].phase = "dead"]
    /\ UNCHANGED <<registry, file, pc, req, loc, quiet, bounds>>

\* A server exits by itself.
Exit(p) ==
    /\ server[p] # None /\ server[p].phase = "listening"
    /\ Fault
    /\ server' = [server EXCEPT ![p].phase = "dead"]
    /\ quiet' = {}
    /\ UNCHANGED <<registry, file, pc, req, loc>>

\* A user runs a server by hand, without a proxy id.
StartByHand(p, t, n) ==
    /\ server[p] = None /\ ~InUse(n)
    /\ manual < MaxManual /\ manual' = manual + 1
    /\ server' = [server EXCEPT ![p] = [id |-> None, template |-> t, port |-> n, phase |-> "listening"]]
    /\ quiet' = {}
    /\ UNCHANGED <<registry, file, pc, req, loc, faults>>

\* A minute passes for an entry that is starting.
Age(i) ==
    /\ registry[i] # None /\ registry[i].status = "starting" /\ ~registry[i].aged
    /\ registry' = [registry EXCEPT ![i].aged = TRUE]
    /\ UNCHANGED <<file, server, pc, req, loc, quiet, bounds>>

-----------------------------------------------------------------------------
(* Commands.  One that is refused at once changes nothing and is left out. *)

Local(c, field, v) == [loc EXCEPT ![c][field] = v]

Begin(c, r, to, locals) ==
    /\ pc[c] = "idle"
    /\ req' = [req EXCEPT ![c] = r]
    /\ Goto(c, to)
    /\ loc' = [loc EXCEPT ![c] = locals]
    /\ quiet' = IF /\ Idle = Calls
                   /\ \A p \in Pids : server[p] # None => server[p].phase \notin {"booting", "valid"}
                THEN {c} ELSE {}
    /\ UNCHANGED <<registry, file, server, bounds>>

\* create: with --name, refused when the proxy's file exists.
Create(c, r) ==
    /\ r.op = "create" /\ (r.name # None => file[r.name] = None)
    /\ Begin(c, r, "prune", [NoLocals EXCEPT !.template = r.template])

\* create --no-start.
Configure(c, r) ==
    /\ r.op = "configure" /\ file[r.name] = None
    /\ Begin(c, r, "write",
             [NoLocals EXCEPT !.template = r.template, !.me = r.name,
                              !.port = IF r.port # None THEN r.port ELSE DefaultPort[r.template]])

\* start: takes template and port from the proxy's file.
Start(c, r) ==
    /\ r.op = "start" /\ file[r.name] # None
    /\ Begin(c, [r EXCEPT !.port = file[r.name].port], "prune",
             [NoLocals EXCEPT !.template = file[r.name].template])

\* stop: refused when another live proxy is on the port, unless forced.
Stop(c, r) ==
    /\ r.op = "stop" /\ registry[r.name] # None
    /\ r.force \/ \A i \in Registered \ {r.name} : ~Routable(i, registry[r.name].port)
    /\ Begin(c, r, "kill", [NoLocals EXCEPT !.me = r.name, !.seen = registry[r.name]])

Delete(c, r) ==
    /\ r.op = "delete" /\ (registry[r.name] # None \/ file[r.name] # None)
    /\ Begin(c, r, IF registry[r.name] # None THEN "remove" ELSE "rmdir",
             [NoLocals EXCEPT !.me = r.name, !.seen = registry[r.name]])

Clean(c, r) == r.op = "clean" /\ Begin(c, r, "prune", NoLocals)

\* Ctrl-C, or a lock that is not free in time.
Abort(c) ==
    /\ c \notin Idle
    /\ Fault
    /\ End(c)
    /\ UNCHANGED <<registry, file, server>>

-----------------------------------------------------------------------------
(* prune_stale_proxies: create and start begin with it, clean is nothing   *)
(* else.  Directories are removed after the lock is released.              *)

Stale == {i \in Registered :
             LET e == registry[i] IN
             IF e.pid # None THEN ~Alive(e.pid) ELSE e.status = "starting" /\ e.aged}

AfterPrune(c, left) == IF left # {} THEN "rmdirs" ELSE IF req[c].op = "clean" THEN "ended" ELSE "read"

Prune(c) ==
    /\ pc[c] = "prune"
    /\ registry' = [i \in Ids |-> IF i \in Stale THEN None ELSE registry[i]]
    /\ loc' = Local(c, "doomed", Stale)
    /\ Goto(c, AfterPrune(c, Stale))
    /\ UNCHANGED <<file, server, req, quiet, bounds>>

RemoveOverlay(c, i) ==
    /\ pc[c] = "rmdirs" /\ i \in loc[c].doomed
    /\ \/ file' = [file EXCEPT ![i] = None] /\ UNCHANGED bounds
       \/ Fault /\ UNCHANGED file
    /\ loc' = Local(c, "doomed", loc[c].doomed \ {i})
    /\ Goto(c, AfterPrune(c, loc[c].doomed \ {i}))
    /\ UNCHANGED <<registry, server, req, quiet>>

-----------------------------------------------------------------------------
(* start_proxy: reuse, adopt or spawn.                                     *)

\* The registry is read once, without the lock.  A new id avoids those in it.
ReadRegistry(c) ==
    /\ pc[c] = "read"
    /\ LET wanted == IF req[c].name # None THEN {req[c].name} ELSE Ids
           cands == IF req[c].url THEN {} ELSE
                      {i \in wanted \cap Registered : registry[i].template = loc[c].template}
       IN  \E i \in IF req[c].name # None THEN wanted ELSE Ids \ Registered :
              loc' = [loc EXCEPT ![c].me = i, ![c].cands = {<<j, registry[j].port>> : j \in cands}]
    /\ Goto(c, "reuse")
    /\ UNCHANGED <<registry, file, server, req, quiet, bounds>>

\* One candidate after the other is asked who it is.
TryReuse(c, i, n) ==
    /\ pc[c] = "reuse" /\ <<i, n>> \in loc[c].cands
    /\ \/ /\ Healthy(loc[c].template, n, i)
          /\ loc' = Local(c, "me", i) /\ Goto(c, "persist")
          /\ UNCHANGED bounds
       \/ /\ IF Healthy(loc[c].template, n, i) THEN Fault ELSE UNCHANGED bounds
          /\ loc' = Local(c, "cands", loc[c].cands \ {<<i, n>>})
          /\ UNCHANGED pc
    /\ UNCHANGED <<registry, file, server, req, quiet>>

NoReuse(c) ==
    /\ pc[c] = "reuse" /\ loc[c].cands = {}
    /\ Goto(c, "adopt")
    /\ UNCHANGED <<registry, file, server, req, loc, quiet, bounds>>

PersistReuse(c) ==
    /\ pc[c] = "persist"
    /\ registry' = IF loc[c].me \in Registered THEN [registry EXCEPT ![loc[c].me].status = "healthy"]
                   ELSE registry
    /\ End(c)
    /\ UNCHANGED <<file, server, bounds>>

Target(c) == IF req[c].port # None THEN req[c].port ELSE DefaultPort[loc[c].template]
\* Mutant: whoever answers is adopted.
AdoptableByAnyId(t, n) == \E p \in Serving(n) : server[p].template = t

Adoptable(t, n) == At(t, n) = {} /\ Healthy(t, n, None)

\* Decided and done under the registry's lock.
Adopt(c) ==
    /\ pc[c] = "adopt" /\ Adoptable(loc[c].template, Target(c))
    /\ \E i \in IF req[c].name # None THEN {req[c].name} ELSE Ids \ Registered :
          registry' = [registry EXCEPT ![i] = [template |-> loc[c].template, port |-> Target(c),
                                               pid |-> None, aged |-> FALSE, status |-> "healthy"]]
    /\ End(c)
    /\ UNCHANGED <<file, server, bounds>>

\* Mutant: an explicit port is taken without a look.
PickPortUnchecked(c) ==
    /\ pc[c] = "adopt" /\ ~Adoptable(loc[c].template, Target(c))
    /\ loc' = Local(c, "port", Target(c))
    /\ Goto(c, IF req[c].op = "start" THEN "register" ELSE "write")
    /\ UNCHANGED <<registry, file, server, req, quiet, bounds>>

\* An explicit port must be free; else the first free one from the default is
\* taken.  The port is not held until the server binds it.
PickPort(c) ==
    /\ pc[c] = "adopt"
    /\ IF Adoptable(loc[c].template, Target(c)) THEN Fault ELSE UNCHANGED bounds
    /\ LET free == {n \in Ports : ~InUse(n) /\ IF req[c].port # None THEN n = Target(c)
                                                                     ELSE n >= Target(c)}
       IN  IF free = {} THEN End(c)
           ELSE /\ loc' = Local(c, "port", Min(free))
                /\ Goto(c, IF req[c].op = "start" THEN "register" ELSE "write")
                /\ UNCHANGED <<req, quiet>>
    /\ UNCHANGED <<registry, file, server>>

WriteFile(c) ==
    /\ pc[c] = "write"
    /\ file' = [file EXCEPT ![loc[c].me] = [template |-> loc[c].template, port |-> loc[c].port]]
    /\ Goto(c, "register")
    /\ UNCHANGED <<registry, server, req, loc, quiet, bounds>>

\* Whatever the registry holds under the id is replaced.
NewEntry(c, p, how) == [template |-> loc[c].template, port |-> loc[c].port, pid |-> p,
                        aged |-> FALSE, status |-> how]

RegisterStarting(c) ==
    /\ pc[c] = "register" /\ req[c].op # "configure"
    /\ registry' = [registry EXCEPT ![loc[c].me] = NewEntry(c, None, "starting")]
    /\ Goto(c, "spawn")
    /\ UNCHANGED <<file, server, req, loc, quiet, bounds>>

\* create --no-start; an update that fails takes the directory back.
RegisterConfigured(c) ==
    /\ pc[c] = "register" /\ req[c].op = "configure"
    /\ \/ /\ registry' = [registry EXCEPT ![loc[c].me] = NewEntry(c, None, "configured")]
          /\ UNCHANGED <<file, bounds>>
       \/ Fault /\ file' = [file EXCEPT ![loc[c].me] = None] /\ UNCHANGED registry
    /\ End(c)
    /\ UNCHANGED <<server>>

Spawn(c) ==
    /\ pc[c] = "spawn"
    /\ \E p \in Pids :
          /\ server[p] = None
          /\ server' = [server EXCEPT ![p] = [id |-> loc[c].me, template |-> loc[c].template,
                                              port |-> loc[c].port, phase |-> "booting"]]
          /\ loc' = Local(c, "child", p)
    /\ Goto(c, "poll")
    /\ UNCHANGED <<registry, file, req, quiet, bounds>>

\* _wait_until_healthy: is the child still there, then does the proxy answer?
Poll(c) ==
    /\ pc[c] = "poll"
    /\ Goto(c, IF Alive(loc[c].child) THEN "probe" ELSE "fail")
    /\ UNCHANGED <<registry, file, server, req, loc, quiet, bounds>>

Probe(c) ==
    /\ pc[c] = "probe"
    /\ Goto(c, IF Healthy(loc[c].template, loc[c].port, loc[c].me) THEN "mark" ELSE "poll")
    /\ UNCHANGED <<registry, file, server, req, loc, quiet, bounds>>

\* Mutant: the entry found under the id is completed, not replaced.
MarkHealthyInPlace(c) ==
    /\ pc[c] = "mark" /\ loc[c].me \in Registered
    /\ registry' = [registry EXCEPT ![loc[c].me].pid = loc[c].child, ![loc[c].me].status = "healthy"]
    /\ End(c)
    /\ UNCHANGED <<file, server, bounds>>

MarkHealthy(c) ==
    /\ pc[c] = "mark"
    /\ registry' = [registry EXCEPT ![loc[c].me] = NewEntry(c, loc[c].child, "healthy")]
    /\ End(c)
    /\ UNCHANGED <<file, server, bounds>>

Timeout(c) ==
    /\ pc[c] = "poll"
    /\ Goto(c, "fail")
    /\ UNCHANGED <<registry, file, server, req, loc, quiet, bounds>>

TerminateChild(c) ==
    /\ pc[c] = "fail"
    /\ server' = [server EXCEPT ![loc[c].child].phase = "dead"]
    /\ Goto(c, IF req[c].op = "create" THEN "unwrite" ELSE "unregister")
    /\ UNCHANGED <<registry, file, req, loc, quiet, bounds>>

RemoveFile(c) ==
    /\ pc[c] = "unwrite"
    /\ file' = [file EXCEPT ![loc[c].me] = None]
    /\ Goto(c, "unregister")
    /\ UNCHANGED <<registry, server, req, loc, quiet, bounds>>

RemoveFailed(c) ==
    /\ pc[c] = "unregister"
    /\ registry' = [registry EXCEPT ![loc[c].me] = None]
    /\ End(c)
    /\ UNCHANGED <<file, server, bounds>>

-----------------------------------------------------------------------------
(* stop and delete.                                                        *)

\* _stop_proxy_process: the process Forge started, by its pid; one it did not
\* start only on request, found by its port and asked who it is.
\* Mutant: --kill-adopted is taken for granted.
FoundAlways(c) == Serving(loc[c].seen.port)

Found(c) == {p \in Serving(loc[c].seen.port) : req[c].killAdopted}
Victims(c) ==
    LET e == loc[c].seen IN
    IF e.pid # None THEN {p \in {e.pid} : Alive(p)}
    ELSE {p \in Found(c) : Healthy(e.template, e.port, loc[c].me)}

StopProcess(c) ==
    IF Victims(c) = {} THEN UNCHANGED server ELSE \E p \in Victims(c) : Signal(p)

\* An adopted proxy is detached unless it may be killed; one that is another
\* proxy's is left alone.
KillStopped(c) ==
    /\ pc[c] = "kill"
    /\ StopProcess(c)
    /\ IF loc[c].seen.pid = None /\ Found(c) # {} /\ Victims(c) = {}
       THEN End(c)
       ELSE /\ Goto(c, IF loc[c].seen.pid = None /\ ~req[c].killAdopted THEN "detach" ELSE "clear")
            /\ UNCHANGED <<loc, req, quiet>>
    /\ UNCHANGED <<registry, file, bounds>>

Detach(c) ==
    /\ pc[c] = "detach"
    /\ registry' = [registry EXCEPT ![loc[c].me] = None]
    /\ End(c)
    /\ UNCHANGED <<file, server, bounds>>

\* Every proxy on the port is marked stopped with this one.
ClearPid(c) ==
    /\ pc[c] = "clear"
    /\ registry' = [i \in Ids |->
          IF i \in Registered /\ (i = loc[c].me \/ registry[i].port = loc[c].seen.port)
          THEN [registry[i] EXCEPT !.pid = None, !.status = "stopped"] ELSE registry[i]]
    /\ End(c)
    /\ UNCHANGED <<file, server, bounds>>

\* Mutant: the other proxies on the port are not counted.
RemoveEntryUncounted(c) ==
    /\ pc[c] = "remove"
    /\ registry' = [registry EXCEPT ![loc[c].me] = None]
    /\ loc' = Local(c, "kill", TRUE)
    /\ Goto(c, "rmdir")
    /\ UNCHANGED <<file, server, req, quiet, bounds>>

\* delete: whether to kill is decided under the lock that removes the entry.
RemoveEntry(c) ==
    /\ pc[c] = "remove"
    /\ registry' = [registry EXCEPT ![loc[c].me] = None]
    /\ loc' = Local(c, "kill", \A i \in Registered \ {loc[c].me} : ~Routable(i, loc[c].seen.port))
    /\ Goto(c, "rmdir")
    /\ UNCHANGED <<file, server, req, quiet, bounds>>

\* A directory that cannot be removed gives the entry back.
RemoveDirectory(c) ==
    /\ pc[c] = "rmdir"
    /\ \/ /\ file' = [file EXCEPT ![loc[c].me] = None]
          /\ IF loc[c].kill /\ ~req[c].noKill THEN Goto(c, "killDeleted") /\ UNCHANGED <<loc, req, quiet>>
                                              ELSE End(c)
          /\ UNCHANGED <<registry, bounds>>
       \/ /\ file[loc[c].me] # None /\ Fault
          /\ registry' = IF loc[c].me \in Registered \/ loc[c].seen = None THEN registry
                         ELSE [registry EXCEPT ![loc[c].me] = loc[c].seen]
          /\ End(c)
          /\ UNCHANGED file
    /\ UNCHANGED server

KillDeleted(c) ==
    /\ pc[c] = "killDeleted"
    /\ StopProcess(c)
    /\ End(c)
    /\ UNCHANGED <<registry, file, bounds>>

-----------------------------------------------------------------------------

Command(c) ==
    \/ \E r \in Requests : \/ Create(c, r) \/ Configure(c, r) \/ Start(c, r)
                           \/ Stop(c, r) \/ Delete(c, r) \/ Clean(c, r)
    \/ Abort(c)
    \/ Prune(c) \/ (\E i \in Ids : RemoveOverlay(c, i))
    \/ ReadRegistry(c) \/ (\E i \in Ids, n \in Ports : TryReuse(c, i, n)) \/ NoReuse(c)
    \/ PersistReuse(c) \/ Adopt(c) \/ PickPort(c) \/ WriteFile(c)
    \/ RegisterStarting(c) \/ RegisterConfigured(c)
    \/ Spawn(c) \/ Poll(c) \/ Probe(c) \/ MarkHealthy(c)
    \/ Timeout(c) \/ TerminateChild(c) \/ RemoveFile(c) \/ RemoveFailed(c)
    \/ KillStopped(c) \/ Detach(c) \/ ClearPid(c)
    \/ RemoveEntry(c) \/ RemoveDirectory(c) \/ KillDeleted(c)

Machine ==
    \/ \E p \in Pids : Validate(p) \/ Listen(p) \/ Terminate(p) \/ Exit(p)
    \/ \E p \in Pids, t \in Templates, n \in Ports : StartByHand(p, t, n)
    \/ \E i \in Ids : Age(i)

Next == Machine \/ \E c \in Calls : Command(c)

Spec == Init /\ [][Next]_vars

-----------------------------------------------------------------------------
(* Properties.                                                             *)

\* Every variable stays within its type, and one server listens on a port.
TypeOK ==
    /\ registry \in [Ids -> Entry \cup {None}]
    /\ file \in [Ids -> Config \cup {None}]
    /\ server \in [Pids -> Process \cup {None}]
    /\ \A c \in Calls : req[c] \in Request \cup {None}
    /\ quiet \subseteq Calls
    /\ \A n \in Ports : \A p, q \in Serving(n) : p = q

\* The pid of an entry is that of a server started for this proxy, with the
\* entry's template and port: several commands write the entry of an id, and
\* stop and delete signal the pid they find in it.
EntryNamesItsServer ==
    \A i \in Registered : LET e == registry[i] IN
        e.pid # None => /\ server[e.pid] # None
                        /\ server[e.pid].id = i
                        /\ server[e.pid].template = e.template
                        /\ server[e.pid].port = e.port

\* "Adopted proxies (pid=None) are NOT killed by default -- Forge didn't start
\* them and shouldn't stop them": a server started by hand is signalled only by
\* a command with --kill-adopted.
SparesForeign ==
    [][\A p \in Pids : server[p] # None /\ server[p].id = None /\ server'[p].phase = "signalled"
            => \/ server[p].phase = "signalled"
               \/ \E c \in Calls : pc[c] \in {"kill", "killDeleted"} /\ req[c].killAdopted]_vars

\* A server that is adopted says from then on that it is the proxy it was
\* adopted as: no command that saw the same server has given it another id.
AdoptedOnce ==
    [][\A c \in Calls, i \in Ids :
          pc[c] = "adopt" /\ pc'[c] = "ended" /\ registry'[i] # registry[i]
            => At(registry'[i].template, registry'[i].port) \ {i} = {}]_vars

\* A stop without --force, or a delete, that nothing interfered with signals no
\* server that another live proxy shares.
SharedServerKept ==
    [][\A c \in quiet, p \in Pids :
          pc[c] \in {"kill", "killDeleted"} /\ pc'[c] # pc[c] /\ ~req[c].force /\ server'[p] # server[p]
            => \A i \in Registered \ {loc[c].me} : ~Routable(i, server[p].port)]_vars

\* A start nothing interfered with that reports success has its own server
\* listening on the port it registers, with the proxy's file there: "healthy"
\* is judged by who answers on the port, not by the child's pid.
StartedIsServed ==
    [][\A c \in quiet : pc[c] = "mark" /\ pc'[c] = "ended" /\ registry' # registry
            => /\ loc[c].child \in Serving(loc[c].port)
               /\ file[loc[c].me] # None]_vars

\* The registry and the processes agree: a port has one server, and an entry with a pid
\* describes the server that has it.
EntriesAreSound == TypeOK /\ EntryNamesItsServer

\* No command signals a server it has no claim on: one started by hand, or one that another
\* live proxy uses; and no two proxies claim one server.
ServersAreSpared == SparesForeign /\ AdoptedOnce /\ SharedServerKept
=============================================================================

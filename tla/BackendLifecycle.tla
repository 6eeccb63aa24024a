---------------------------- MODULE BackendLifecycle ----------------------------
(***************************************************************************)
(* The backends proxies depend on (backend/, cli/backend.py): one service  *)
(* per port, started by `forge backend start` or by the start of a proxy,  *)
(* and stopped by name.  The registry is read without its lock, acted on,  *)
(* and changed under it.  Whether a backend is up is asked of its port: the *)
(* answer does not tell which process gave it.                             *)
(***************************************************************************)
EXTENDS Forge

CONSTANTS
    Managers,           \* commands under way at once
    BackendPorts,       \* a backend is named by its port
    Services,           \* processes
    MaxManaged,         \* bound: commands
    MaxBackendFaults,   \* bound: interrupts and answers that come too late
    MaxServiceCrashes   \* bound: services that end by themselves

ASSUME BackendAssumption ==
    /\ None \notin Services \cup BackendPorts
    /\ MaxManaged \in Nat /\ MaxBackendFaults \in Nat /\ MaxServiceCrashes \in Nat

VARIABLES
    config,     \* whether the adapter has its config.yaml
    backends,   \* index.json: the pid of each port, or None
    service,    \* process -> its port and phase
    job,        \* command -> what it does, where it is, what it has read
    done,       \* history: what the last step completed
    alone,      \* history: the command that has met no other, no service coming or
                \* going when it began, and no crash since
    muddled,    \* history: a command was not alone, or was cut short
    managed, backendFaults, serviceCrashes

backendVars == <<config, backends, service, job, done, alone, muddled, managed, backendFaults, serviceCrashes>>

NoService == [port |-> None, phase |-> "unborn"]
NoJob == [op |-> None, at |-> "idle", port |-> None, pid |-> None, todo |-> {}]

\* A service that has its SIGTERM answers until it has handled it.
Answering(p) == {s \in Services : service[s].port = p /\ service[s].phase \in {"listening", "ending"}}
Listed == {p \in BackendPorts : backends[p] # None}

BackendInit ==
    /\ config \in BOOLEAN
    /\ backends = [p \in BackendPorts |-> None]
    /\ service = [s \in Services |-> NoService]
    /\ job = [c \in Managers |-> NoJob]
    /\ done = None /\ alone = {} /\ muddled = FALSE
    /\ managed = 0 /\ backendFaults = 0 /\ serviceCrashes = 0

-----------------------------------------------------------------------------
(* Services.                                                               *)

Phase(s, phase) ==
    /\ service' = [service EXCEPT ![s].phase = phase]
    /\ done' = None
    /\ UNCHANGED <<config, backends, job, muddled, managed, backendFaults>>

\* A port is bound by one process; the next one fails and exits.
BindPort(s) ==
    /\ service[s].phase = "starting"
    /\ Phase(s, IF Answering(service[s].port) = {} THEN "listening" ELSE "dead")
    /\ UNCHANGED <<alone, serviceCrashes>>

HandleTerm(s) ==
    /\ service[s].phase = "ending" /\ Phase(s, "dead")
    /\ UNCHANGED <<alone, serviceCrashes>>

ServiceCrashes(s) ==
    /\ service[s].phase \in {"starting", "listening"} /\ serviceCrashes < MaxServiceCrashes
    /\ serviceCrashes' = serviceCrashes + 1 /\ alone' = {}
    /\ Phase(s, "dead")

-----------------------------------------------------------------------------
(* Steps of a command.                                                     *)

Begin(c, op, p, at, fields) ==
    LET others == {b \in Managers : job[b].at # "idle"}
    IN  /\ job[c].at = "idle" /\ managed < MaxManaged /\ managed' = managed + 1
        /\ job' = [job EXCEPT ![c] = [fields EXCEPT !.op = op, !.port = p, !.at = at]]
        /\ alone' = IF others = {} /\ \A s \in Services : service[s].phase \notin {"starting", "ending"}
                    THEN {c} ELSE {}
        /\ muddled' = (muddled \/ c \notin alone')
        /\ done' = None
        /\ UNCHANGED <<backends, service, backendFaults, serviceCrashes>>

Go(c, fields) ==
    /\ job' = [job EXCEPT ![c] = fields]
    /\ done' = None
    /\ UNCHANGED <<alone, muddled, managed, backendFaults, serviceCrashes>>

Complete(c) ==
    /\ job' = [job EXCEPT ![c] = NoJob]
    /\ done' = [op |-> job[c].op, port |-> job[c].port, alone |-> c \in alone]
    /\ UNCHANGED <<alone, muddled, managed, backendFaults, serviceCrashes>>

BackendFault ==
    /\ backendFaults < MaxBackendFaults /\ backendFaults' = backendFaults + 1
    /\ muddled' = TRUE /\ alone' = {} /\ done' = None
    /\ UNCHANGED <<managed, serviceCrashes>>

\* Ctrl-C, or a registry locked for too long: what was started or signalled stays so.
BreakOff(c) ==
    /\ job[c].at # "idle" /\ BackendFault
    /\ job' = [job EXCEPT ![c] = NoJob]
    /\ UNCHANGED <<config, backends, service>>

\* `forge backend create`; a config that is there is kept.
CreateBackend ==
    /\ ~config /\ config' = TRUE /\ done' = None
    /\ UNCHANGED <<backends, service, job, alone, muddled, managed, backendFaults, serviceCrashes>>

-----------------------------------------------------------------------------
(* ensure_backend.                                                         *)

\* The command refuses without a config; a proxy that starts makes it first.
BeginEnsure(c, p) ==
    \E forProxy \in BOOLEAN :
        /\ forProxy \/ config
        /\ config' = TRUE
        /\ Begin(c, "ensure", p, IF backends[p] = None THEN "spawn" ELSE "check", NoJob)

\* Whoever answers on the port of an entry is taken for its process.
Reuse(c) ==
    /\ job[c].at = "check" /\ Answering(job[c].port) # {}
    /\ Complete(c)
    /\ UNCHANGED <<config, backends, service>>

FindDead(c) ==
    /\ job[c].at = "check" /\ Answering(job[c].port) = {}
    /\ Go(c, [job[c] EXCEPT !.at = "removeDead"])
    /\ UNCHANGED <<config, backends, service>>

FindMute(c) ==
    /\ job[c].at = "check" /\ Answering(job[c].port) # {} /\ BackendFault
    /\ job' = [job EXCEPT ![c].at = "removeDead"]
    /\ UNCHANGED <<config, backends, service>>

RemoveDead(c) ==
    /\ job[c].at = "removeDead"
    /\ backends' = [backends EXCEPT ![job[c].port] = None]
    /\ Go(c, [job[c] EXCEPT !.at = "spawn"])
    /\ UNCHANGED <<config, service>>

\* Unless the config has gone.
SpawnService(c) ==
    /\ job[c].at = "spawn"
    /\ IF ~config
       THEN Go(c, NoJob) /\ UNCHANGED service
       ELSE \E s \in Services :
              /\ service[s] = NoService
              /\ service' = [service EXCEPT ![s] = [port |-> job[c].port, phase |-> "starting"]]
              /\ Go(c, [job[c] EXCEPT !.at = "wait", !.pid = s])
    /\ UNCHANGED <<config, backends>>

\* Mutant: a process that runs is taken for one that serves.
FindSpawned(c) ==
    /\ job[c].at = "wait"
    /\ Go(c, [job[c] EXCEPT !.at = "register"])
    /\ UNCHANGED <<config, backends, service>>

\* The port answers.
FindHealthy(c) ==
    /\ job[c].at = "wait" /\ Answering(job[c].port) # {}
    /\ Go(c, [job[c] EXCEPT !.at = "register"])
    /\ UNCHANGED <<config, backends, service>>

\* Mutant: a process that is slow is left to itself.
GiveUpOnly(c) ==
    /\ job[c].at = "wait"
    /\ Go(c, NoJob)
    /\ UNCHANGED <<config, backends, service>>

\* It does not in time: the child is killed, and the command fails.
GiveUp(c) ==
    /\ job[c].at = "wait"
    /\ service' = [service EXCEPT ![job[c].pid].phase = "dead"]
    /\ Go(c, NoJob)
    /\ UNCHANGED <<config, backends>>

RegisterService(c) ==
    /\ job[c].at = "register"
    /\ backends' = [backends EXCEPT ![job[c].port] = job[c].pid]
    /\ Complete(c)
    /\ UNCHANGED <<config, service>>

-----------------------------------------------------------------------------
(* stop_backend, and the delete of the config, which stops what it listed. *)

BeginStop(c, p) ==
    /\ p \in Listed
    /\ Begin(c, "stop", p, "signal", [NoJob EXCEPT !.pid = backends[p]])
    /\ UNCHANGED config

BeginDelete(c) ==
    /\ config
    /\ Begin(c, "delete", None, "stopping", [NoJob EXCEPT !.todo = Listed])
    /\ UNCHANGED config

\* A backend that is no longer listed ends the delete: stop exits the process.
StopNext(c) ==
    /\ job[c].at = "stopping"
    /\ \E p \in job[c].todo :
          Go(c, IF backends[p] = None THEN NoJob
                ELSE [job[c] EXCEPT !.at = "signal", !.port = p, !.pid = backends[p], !.todo = @ \ {p}])
    /\ UNCHANGED <<config, backends, service>>

\* Mutant: the entry goes, and the process is not told.
UnlistUnsignalled(c) ==
    /\ job[c].at = "signal"
    /\ Go(c, [job[c] EXCEPT !.at = "unlist"])
    /\ UNCHANGED <<config, backends, service>>

SignalService(c) ==
    /\ job[c].at = "signal"
    /\ service' = [service EXCEPT ![job[c].pid].phase = IF @ = "dead" THEN @ ELSE "ending"]
    /\ Go(c, [job[c] EXCEPT !.at = "unlist"])
    /\ UNCHANGED <<config, backends>>

Unlist(c) ==
    /\ job[c].at = "unlist"
    /\ backends' = [backends EXCEPT ![job[c].port] = None]
    /\ IF job[c].op = "delete" THEN Go(c, [job[c] EXCEPT !.at = "stopping"]) ELSE Complete(c)
    /\ UNCHANGED <<config, service>>

RemoveConfig(c) ==
    /\ job[c].at = "stopping" /\ job[c].todo = {}
    /\ config' = FALSE
    /\ Complete(c)
    /\ UNCHANGED <<backends, service>>

BackendNext ==
    \/ CreateBackend
    \/ \E s \in Services : BindPort(s) \/ HandleTerm(s) \/ ServiceCrashes(s)
    \/ \E c \in Managers :
          \/ BreakOff(c) \/ Reuse(c) \/ FindDead(c) \/ FindMute(c) \/ RemoveDead(c) \/ SpawnService(c)
          \/ FindHealthy(c) \/ GiveUp(c) \/ RegisterService(c)
          \/ SignalService(c) \/ Unlist(c) \/ BeginDelete(c) \/ StopNext(c) \/ RemoveConfig(c)
          \/ \E p \in BackendPorts : BeginEnsure(c, p) \/ BeginStop(c, p)

-----------------------------------------------------------------------------
BackendTypeOK ==
    /\ config \in BOOLEAN /\ backends \in [BackendPorts -> Opt(Services)]
    /\ \A s \in Services :
          /\ service[s].port \in Opt(BackendPorts)
          /\ service[s].phase \in {"unborn", "starting", "listening", "ending", "dead"}
    /\ \A c \in Managers :
          /\ job[c].at \in {"idle", "check", "removeDead", "spawn", "wait", "register", "signal", "unlist", "stopping"}
          /\ job[c].pid \in Opt(Services) /\ job[c].todo \subseteq BackendPorts
          /\ (job[c].at \in {"wait", "register", "signal"}) => job[c].pid # None

\* As long as commands follow one another, each when what was started or told to
\* end is up or gone, and none is cut short, every service that runs is in the
\* registry or being started: `forge backend stop` reaches it, whatever crashed
\* or failed to start before.
RunningIsListed ==
    ~muddled => \A s \in Services : service[s].phase = "listening" =>
        \/ backends[service[s].port] = s
        \/ \E c \in Managers : job[c].pid = s /\ job[c].at \in {"wait", "register"}

\* An ensure that met nobody and succeeded leaves a service on its port, after
\* any crash, stop or broken-off start; if nothing was muddled before, it is the
\* registered one (backend/__init__.py: "Ensure backend is running").
EnsuredIsServed ==
    done # None /\ done.op = "ensure" /\ done.alone =>
        \E s \in Services :
            /\ service[s] = [port |-> done.port, phase |-> "listening"]
            /\ muddled \/ backends[done.port] = s

\* A delete that met nobody has stopped every service it could know of
\* (cli/backend.py: "stops all instances first").
DeletedIsStopped ==
    done # None /\ done.op = "delete" /\ done.alone =>
        /\ Listed = {} /\ ~config
        /\ muddled \/ \A s \in Services : service[s].phase # "listening"

\* The registry and the services agree as long as no two commands have met: a service that
\* runs can be stopped, an ensured port is served and a deleted backend does not run on.
BackendsAreReachable == BackendTypeOK /\ RunningIsListed /\ EnsuredIsServed /\ DeletedIsStopped
================================================================================

--------------------------- MODULE ReviewWorkflow ---------------------------
(***************************************************************************)
(* The multi-model workflows (cli/workflow.py): panel, analyze and debate   *)
(* run one round of workers, consensus two (review/consensus.py).  A round  *)
(* is run_multi_review of review/engine.py: a thread pool whose workers     *)
(* each run one claude process in a session of its own, killed when it      *)
(* exceeds its timeout, and a clean-up in the finally clause.  The user may *)
(* interrupt the command; --check turns the answers into an exit code.  A   *)
(* worker is a model with a label (its role or stance); the id built from   *)
(* both is the key of its answer in the report.                             *)
(***************************************************************************)
EXTENDS Integers, Sequences, FiniteSets, Functions

CONSTANTS
  Catalogue,       \* models of the catalogue
  NumSpecs,        \* workers of a round
  MaxWorkers,      \* threads of the pool (min(len(specs), 5))
  MaxInterrupts    \* Ctrl-C of one command

ASSUME ReviewAssumption == NumSpecs \in Nat /\ MaxWorkers \in Nat \ {0} /\ MaxInterrupts \in Nat

VARIABLES
  command,         \* the workflow, its workers, a check or not, nested too deep or not
  stage,           \* where the command is
  round,           \* 1, or 2 in the second round of a consensus
  worker,          \* spec -> progress of its worker thread
  child,           \* spec -> its claude process
  tracked,         \* specs whose process is in the children list
  results,         \* future results gathered, by index
  interrupts,      \* interrupts so far
  exit             \* exit code, none while it runs

reviewVars == <<command, stage, round, worker, child, tracked, results, interrupts, exit>>

Specs == 1 .. NumSpecs
Workflows == {"panel", "debate", "consensus"}

(* A label is the sequence of its parts: a custom text may itself end like  *)
(* a repeated id.                                                           *)
Plain == <<>>
StockCycle == <<<<"for">>, <<"against">>, <<"neutral">>>>
CustomLabels == {<<"for">>, <<"for", 1>>}

Cyclic(models, cycle) ==
  [s \in Specs |-> [model |-> models[s], label |-> cycle[((s - 1) % Len(cycle)) + 1]]]

AsGiven(models, labels) == [s \in Specs |-> [model |-> models[s], label |-> labels[s]]]

(* The workers of a command: a model of a panel has a role only on request; *)
(* a debate or a consensus takes --worker arguments, or deals out its cycle.*)
Workers(workflow) ==
  LET models == [Specs -> Catalogue]
  IN IF workflow = "panel"
     THEN {Cyclic(m, c) : m \in models, c \in {<<Plain>>, <<<<"for">>>>}}
     ELSE {Cyclic(m, StockCycle) : m \in models}
            \cup {AsGiven(m, l) : m \in models, l \in [Specs -> CustomLabels]}

\* Mutant: equal workers share an id.
UnnumberedIds(workers) == [s \in Specs |-> <<workers[s].model>> \o workers[s].label]

(* The id of a worker is its model and label; equal ones but the first are  *)
(* numbered.                                                                *)
WorkerIds(workers) ==
  LET base(s) == <<workers[s].model>> \o workers[s].label
      seen(s) == Cardinality({t \in 1 .. s - 1 : base(t) = base(s)})
  IN [s \in Specs |-> IF workers[s].label = Plain \/ seen(s) = 0
                      THEN base(s) ELSE Append(base(s), seen(s))]

(* An accepting passed or verdict field, an accepting position, anything    *)
(* else: a rejection, or a text without a verdict.                          *)
Answers == {"passed", "position", "other"}
Failure == "failed"

Fresh(f) == [s \in Specs |-> f]

ReviewInit ==
  /\ \E workflow \in Workflows, check, nested \in BOOLEAN : \E workers \in Workers(workflow) :
       command = [workflow |-> workflow, check |-> check, nested |-> nested, workers |-> workers]
  /\ stage = "preflight" /\ round = 1
  /\ worker = Fresh("queued") /\ child = Fresh("none") /\ tracked = {}
  /\ results = <<>> /\ interrupts = 0 /\ exit = "none"

----------------------------------------------------------------------------
(* Preflight: every proxy reachable and every credential present, or the    *)
(* command ends.  At the depth limit a round returns no results.            *)

Preflight(ok) ==
  /\ stage = "preflight"
  /\ stage' = IF ok THEN "round" ELSE "ended"
  /\ exit' = IF ok THEN exit ELSE "error"
  /\ UNCHANGED <<command, round, worker, child, tracked, results, interrupts>>

AtDepthLimit ==
  /\ stage = "round" /\ command.nested
  /\ stage' = "returned" /\ results' = <<>>
  /\ UNCHANGED <<command, round, worker, child, tracked, interrupts, exit>>

SubmitAll ==
  /\ stage = "round" /\ ~command.nested
  /\ stage' = "gathering"
  /\ worker' = Fresh("queued") /\ child' = Fresh("none") /\ tracked' = {} /\ results' = <<>>
  /\ UNCHANGED <<command, round, interrupts, exit>>

----------------------------------------------------------------------------
(* A worker thread.  Interrupts do not reach it: it goes on, and takes the  *)
(* next spec of the queue, as long as the interpreter waits for it.         *)

PoolRuns == stage \in {"gathering", "draining", "aborted"}
Busy == {s \in Specs : worker[s] \in {"preparing", "spawned", "talking"}}
Done(s) == worker[s] \in Answers \cup {Failure}

TakeSpec(s) ==
  /\ PoolRuns /\ worker[s] = "queued" /\ Cardinality(Busy) < MaxWorkers
  /\ \A t \in Specs : worker[t] = "queued" => s <= t
  /\ worker' = [worker EXCEPT ![s] = "preparing"]
  /\ UNCHANGED <<command, stage, round, child, tracked, results, interrupts, exit>>

(* No proxy, no claude binary, no process: the worker reports the failure.  *)
CannotStart(s) ==
  /\ PoolRuns /\ worker[s] = "preparing"
  /\ worker' = [worker EXCEPT ![s] = Failure]
  /\ UNCHANGED <<command, stage, round, child, tracked, results, interrupts, exit>>

Spawn(s) ==
  /\ PoolRuns /\ worker[s] = "preparing"
  /\ worker' = [worker EXCEPT ![s] = "spawned"]
  /\ child' = [child EXCEPT ![s] = "alive"]
  /\ UNCHANGED <<command, stage, round, tracked, results, interrupts, exit>>

Track(s) ==
  /\ PoolRuns /\ worker[s] = "spawned"
  /\ worker' = [worker EXCEPT ![s] = "talking"]
  /\ tracked' = tracked \cup {s}
  /\ UNCHANGED <<command, stage, round, child, results, interrupts, exit>>

(* The process ends by itself, or was killed: communicate returns.          *)
ChildEnds(s, outcome) ==
  /\ PoolRuns /\ worker[s] = "talking"
  /\ (child[s] = "dead" => outcome = Failure)
  /\ worker' = [worker EXCEPT ![s] = outcome]
  /\ child' = [child EXCEPT ![s] = "dead"]
  /\ UNCHANGED <<command, stage, round, tracked, results, interrupts, exit>>

(* The timeout: SIGTERM and a wait; a process that ignores it is left.      *)
TimeOut(s, obeys) ==
  /\ PoolRuns /\ worker[s] = "talking" /\ child[s] = "alive"
  /\ worker' = [worker EXCEPT ![s] = Failure]
  /\ child' = [child EXCEPT ![s] = IF obeys THEN "dead" ELSE "stubborn"]
  /\ UNCHANGED <<command, stage, round, tracked, results, interrupts, exit>>

----------------------------------------------------------------------------
(* _cleanup: SIGTERM to the tracked processes that run, SIGKILL to those    *)
(* that ignore it.                                                          *)

\* Mutant: no SIGKILL to children that ignore SIGTERM.
CleanedByTerm(children) ==
  [s \in Specs |-> IF s \in tracked /\ children[s] = "alive" THEN "dead" ELSE children[s]]

Cleaned(children) ==
  [s \in Specs |-> IF s \in tracked /\ children[s] # "none" THEN "dead" ELSE children[s]]

(* as_completed yields the futures as they end; they are put back in the    *)
(* order of the specs.                                                      *)
Gathered(s) == s \in {results[i].spec : i \in DOMAIN results}

Gather(s) ==
  /\ stage = "gathering" /\ Done(s) /\ ~Gathered(s)
  /\ results' = Append(results, [spec |-> s, outcome |-> worker[s]])
  /\ UNCHANGED <<command, stage, round, worker, child, tracked, interrupts, exit>>

\* Mutant: the results in the order they came.
AsCompleted == results

Ordered == [i \in DOMAIN results |-> CHOOSE r \in {results[j] : j \in DOMAIN results} : r.spec = i]

Return ==
  /\ stage = "gathering" /\ Len(results) = NumSpecs
  /\ stage' = "returned"
  /\ results' = Ordered
  /\ child' = Cleaned(child)
  /\ UNCHANGED <<command, round, worker, tracked, interrupts, exit>>

(* The first interrupt leaves the loop; leaving the executor's context      *)
(* waits for every worker, the queued ones included, before the clean-up.   *)
Interrupt ==
  /\ stage = "gathering" /\ interrupts < MaxInterrupts
  /\ interrupts' = interrupts + 1 /\ stage' = "draining"
  /\ UNCHANGED <<command, round, worker, child, tracked, results, exit>>

Drained ==
  /\ stage = "draining" /\ \A s \in Specs : Done(s)
  /\ stage' = "ended" /\ exit' = "interrupted"
  /\ child' = Cleaned(child)
  /\ UNCHANGED <<command, round, worker, tracked, results, interrupts>>

(* Another interrupt ends that wait: the clean-up runs beside the workers.  *)
InterruptAgain ==
  /\ stage = "draining" /\ interrupts < MaxInterrupts
  /\ interrupts' = interrupts + 1 /\ stage' = "aborted" /\ exit' = "interrupted"
  /\ child' = Cleaned(child)
  /\ UNCHANGED <<command, round, worker, tracked, results>>

----------------------------------------------------------------------------
(* After a round: the second round of a consensus, whose workers see every  *)
(* position of the first, failed ones included; else the gate.              *)

Reconcile ==
  /\ stage = "returned" /\ command.workflow = "consensus" /\ round = 1
  /\ round' = 2 /\ stage' = "round"
  /\ UNCHANGED <<command, worker, child, tracked, results, interrupts, exit>>

(* _evaluate_verdicts accepts a passed field or a position, the gate of a   *)
(* consensus the position only.                                             *)
Accepting == IF command.workflow = "consensus" THEN {"position"} ELSE {"passed", "position"}

\* Mutant: no result at all passes.
PassesWithoutResults == \A i \in DOMAIN results : results[i].outcome \in Accepting

Passes == results # <<>> /\ \A i \in DOMAIN results : results[i].outcome \in Accepting

(* The JSON results and the role map are dictionaries by worker id.         *)
ById(values) ==
  LET ids == WorkerIds(command.workers)
  IN [id \in Range(ids) |->
        values[CHOOSE s \in Specs : ids[s] = id /\ \A t \in Specs : ids[t] = id => t <= s]]

Report ==
  /\ stage = "returned" /\ (command.workflow = "consensus" => round = 2)
  /\ stage' = "ended"
  /\ exit' = IF ~command.check \/ Passes THEN "ok" ELSE "rejected"
  /\ UNCHANGED <<command, round, worker, child, tracked, results, interrupts>>

ReviewNext ==
  \/ \E ok \in BOOLEAN : Preflight(ok)
  \/ AtDepthLimit \/ SubmitAll
  \/ \E s \in Specs :
       \/ TakeSpec(s) \/ CannotStart(s) \/ Spawn(s) \/ Track(s) \/ Gather(s)
       \/ \E outcome \in Answers \cup {Failure} : ChildEnds(s, outcome)
       \/ \E obeys \in BOOLEAN : TimeOut(s, obeys)
  \/ Return \/ Interrupt \/ Drained \/ InterruptAgain \/ Reconcile \/ Report

----------------------------------------------------------------------------
(* The state of a workflow has its type.                                    *)
ReviewTypeOK ==
  /\ command.workflow \in Workflows /\ command.workers \in Workers(command.workflow)
  /\ stage \in {"preflight", "round", "gathering", "draining", "aborted", "returned", "ended"}
  /\ worker \in [Specs -> {"queued", "preparing", "spawned", "talking", Failure} \cup Answers]
  /\ child \in [Specs -> {"none", "alive", "stubborn", "dead"}]
  /\ Cardinality(Busy) <= MaxWorkers /\ tracked \subseteq Specs
  /\ exit \in {"none", "ok", "rejected", "error", "interrupted"}

(* When a round has returned, or one interrupt has ended the command, none  *)
(* of its claude processes runs, not even one that ignored the SIGTERM of   *)
(* its timeout.                                                             *)
NoChildOutlivesTheRound ==
  stage \in {"returned", "ended"} => \A s \in Specs : child[s] \in {"none", "dead"}

(* The workers of a round are reported in the order they were asked for,    *)
(* each exactly once with its own answer, in whatever order they end.       *)
ResultsKeepTheirOrder ==
  stage = "returned" /\ results # <<>> =>
    /\ Len(results) = NumSpecs
    /\ \A s \in Specs : results[s] = [spec |-> s, outcome |-> worker[s]]

(* The gate fails closed: a check passes only if every worker of the last   *)
(* round has answered with an accepting verdict - not when none was run,    *)
(* one failed or timed out, or one was interrupted.                         *)
GateFailsClosed ==
  exit = "ok" /\ command.check =>
    /\ command.workflow = "consensus" => round = 2
    /\ \A s \in Specs : worker[s] \in Accepting

(* A model asked for twice is reported twice, under its own roles: no two   *)
(* workers share a key of the results or of the role map, except the        *)
(* repeated models of a panel without roles, which have no other id, and    *)
(* custom texts that end like a numbered id.                                *)
RepeatedModelsAreToldApart ==
  LET workers == command.workers
      ids == WorkerIds(workers)
  IN (/\ exit \in {"ok", "rejected"} /\ results # <<>>
      /\ \A s \in Specs : Len(workers[s].label) < 2
      /\ \A s, t \in Specs : s # t /\ workers[s].label = Plain => workers[s].model # workers[t].model)
     => \A s \in Specs : /\ ById(results)[ids[s]].spec = s
                         /\ ById(workers)[ids[s]].label = workers[s].label

(* A round ends whole: no process of it is left, its results are in order,  *)
(* told apart by model, and a check passes only if all of them accept.      *)
RoundsAreSound ==
  /\ ReviewTypeOK /\ NoChildOutlivesTheRound /\ ResultsKeepTheirOrder
  /\ GateFailsClosed /\ RepeatedModelsAreToldApart
=============================================================================

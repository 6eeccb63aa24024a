------------------------------- MODULE TeamPolicy -------------------------------
(***************************************************************************)
(* The quality gate of a team (guard/team/handlers.py, the teammate-idle   *)
(* and task-completed hooks): when a teammate reports a task complete, a   *)
(* cheap model tags the event, a supervisor judges what needs review, and  *)
(* a divergent task is sent back.  The answers are cached in a file, and   *)
(* after max_blocks_per_task the task is let through.                      *)
(*                                                                         *)
(* The file's lock is held while the models are asked, which takes longer  *)
(* than the hooks of other teammates wait for it: they go on without a     *)
(* cache, and what they decide is not counted.                             *)
(***************************************************************************)
EXTENDS Forge

CONSTANTS
    Teammates,     \* each completes the tasks it still has
    Tasks,         \* the tasks and "idle", the event of a teammate with nothing to do
    MaxBlocks,     \* max_blocks_per_task
    MaxTeamFaults  \* bound: runs without a cache, unreadable caches, routine tags

ASSUME TeamPolicyAssumption ==
    None \notin Teammates \cup Tasks /\ MaxBlocks \in Nat \ {0} /\ MaxTeamFaults \in Nat

VARIABLES
    teamCache,   \* the file: the last answer for each teammate and task, or None
    teamLock,    \* the hook that holds the lock, or None
    gate,        \* where each teammate's hook is, and the task it is about
    open,        \* the tasks not completed yet
    sentBack,    \* history: times the supervisor sent them back under the lock
    teamFaults

teamVars == <<teamCache, teamLock, gate, open, sentBack, teamFaults>>

TeamKeys == Teammates \X Tasks
TeamEntry == [blocks : 0..MaxBlocks, exit : {0, 2}, fresh : BOOLEAN]

ASSUME TeamRecordAssumption == None \notin TeamEntry

TeamInit ==
    /\ teamCache = [k \in TeamKeys |-> None]
    /\ teamLock = None
    /\ gate = [m \in Teammates |-> [pc |-> "working", task |-> None]]
    /\ open \in SUBSET Tasks
    /\ sentBack = [k \in TeamKeys |-> 0]
    /\ teamFaults = 0

TeamFault == teamFaults < MaxTeamFaults /\ teamFaults' = teamFaults + 1
Key(m) == <<m, gate[m].task>>
Gate(m, pc, task) == gate' = [gate EXCEPT ![m] = [pc |-> pc, task |-> task]]

\* Exit 0 completes the task, exit 2 sends the teammate back to it.
AnswerTask(m, exit) ==
    /\ Gate(m, "working", None)
    /\ open' = IF exit = 0 THEN open \ {gate[m].task} ELSE open

\* Unless the team supervisor is off, the hook asks for the lock.
TaskCompleted(m, t) ==
    /\ gate[m].pc = "working" /\ t \in open
    /\ Gate(m, "waiting", t)
    /\ UNCHANGED <<teamCache, teamLock, open, sentBack, teamFaults>>

\* The lock is free: a fresh answer is given again, a task blocked often enough
\* is let through, and otherwise the models are asked.
Consult(m) ==
    /\ gate[m].pc = "waiting" /\ teamLock = None
    /\ LET t == gate[m].task
           e == teamCache[Key(m)]
       IN  IF e # None /\ t # "idle" /\ e.blocks >= MaxBlocks
           THEN AnswerTask(m, 0) /\ UNCHANGED teamLock
           ELSE IF e # None /\ e.fresh
           THEN AnswerTask(m, e.exit) /\ UNCHANGED teamLock
           ELSE teamLock' = m /\ Gate(m, "asking", t) /\ UNCHANGED open
    /\ UNCHANGED <<teamCache, sentBack, teamFaults>>

\* An unreadable file is an empty cache, and what is written over it.
ConsultUnreadable(m) ==
    /\ gate[m].pc = "waiting" /\ teamLock = None /\ TeamFault
    /\ teamLock' = m /\ Gate(m, "asking", gate[m].task)
    /\ teamCache' = [k \in TeamKeys |-> None] /\ sentBack' = [k \in TeamKeys |-> 0]
    /\ UNCHANGED open

\* The file is locked for too long.
GoWithoutCache(m) ==
    /\ gate[m].pc = "waiting" /\ teamLock # None /\ TeamFault
    /\ Gate(m, "uncached", gate[m].task)
    /\ UNCHANGED <<teamCache, teamLock, open, sentBack>>

Store(k, e) == teamCache' = [teamCache EXCEPT ![k] = e]

\* The answer of the models, written to the cache before the lock is free.  A
\* routine event is let through and the count of its blocks begins again.
JudgeRoutine(m) ==
    /\ gate[m].pc = "asking" /\ TeamFault
    /\ Store(Key(m), [blocks |-> 0, exit |-> 0, fresh |-> TRUE])
    /\ sentBack' = [sentBack EXCEPT ![Key(m)] = 0]
    /\ teamLock' = None /\ AnswerTask(m, 0)

\* Mutant: blocks are not counted.
JudgeUncounted(m) ==
    /\ gate[m].pc = "asking"
    /\ \E exit \in {0, 2} :
          /\ Store(Key(m), [blocks |-> 0, exit |-> exit, fresh |-> TRUE])
          /\ AnswerTask(m, exit)
    /\ teamLock' = None
    /\ UNCHANGED <<sentBack, teamFaults>>

\* The supervisor finds no divergence, fails, or finds one; the answers for "idle"
\* are not counted.
JudgeReviewed(m) ==
    /\ gate[m].pc = "asking"
    /\ \E exit \in {0, 2} :
          LET k == Key(m)
              before == IF teamCache[k] = None THEN 0 ELSE teamCache[k].blocks
              counted == IF exit = 2 /\ gate[m].task # "idle" THEN 1 ELSE 0
          IN  /\ Store(k, [blocks |-> before + counted, exit |-> exit, fresh |-> TRUE])
              /\ sentBack' = [sentBack EXCEPT ![k] = @ + counted]
              /\ AnswerTask(m, exit)
    /\ teamLock' = None
    /\ UNCHANGED teamFaults

\* The write fails: the handler is run again, without a cache.
StoreFails(m) ==
    /\ gate[m].pc = "asking" /\ TeamFault
    /\ teamLock' = None /\ Gate(m, "uncached", gate[m].task)
    /\ UNCHANGED <<teamCache, open, sentBack>>

\* Mutant: what is decided without the cache is written to it.
JudgeUncachedStores(m) ==
    /\ gate[m].pc = "uncached"
    /\ \E exit \in {0, 2} :
          /\ Store(Key(m), [blocks |-> 0, exit |-> exit, fresh |-> TRUE])
          /\ AnswerTask(m, exit)
    /\ UNCHANGED <<teamLock, sentBack, teamFaults>>

JudgeUncached(m) ==
    /\ gate[m].pc = "uncached"
    /\ \E exit \in {0, 2} : AnswerTask(m, exit)
    /\ UNCHANGED <<teamCache, teamLock, sentBack, teamFaults>>

\* The throttle window of an answer passes.
Expire(k) ==
    /\ teamCache[k] # None /\ teamCache[k].fresh
    /\ Store(k, [teamCache[k] EXCEPT !.fresh = FALSE])
    /\ UNCHANGED <<teamLock, gate, open, sentBack, teamFaults>>

Gatekeep(m) ==
    \/ Consult(m) \/ ConsultUnreadable(m) \/ GoWithoutCache(m)
    \/ JudgeRoutine(m) \/ JudgeReviewed(m) \/ StoreFails(m) \/ JudgeUncached(m)

TeamNext ==
    \/ \E m \in Teammates : Gatekeep(m) \/ \E t \in Tasks : TaskCompleted(m, t)
    \/ \E k \in TeamKeys : Expire(k)

\* Hooks run to their end, teammates go on with the tasks they have, time passes.
TeamFairness ==
    /\ \A m \in Teammates : SF_teamVars(Consult(m) \/ JudgeReviewed(m) \/ JudgeUncached(m))
    /\ \A m \in Teammates, t \in Tasks \ {"idle"} : SF_teamVars(TaskCompleted(m, t))
    /\ \A k \in TeamKeys : WF_teamVars(Expire(k))

TeamSpec == TeamInit /\ [][TeamNext]_teamVars /\ TeamFairness

-----------------------------------------------------------------------------
TeamTypeOK ==
    /\ \A k \in TeamKeys : teamCache[k] \in Opt(TeamEntry)
    /\ teamLock \in Opt(Teammates)
    /\ open \subseteq Tasks
    /\ \A m \in Teammates : /\ gate[m].pc \in {"working", "waiting", "asking", "uncached"}
                            /\ gate[m].task \in Opt(Tasks)
    /\ teamFaults \in 0..MaxTeamFaults

\* Every time the supervisor sends a teammate back to a task under the lock is counted, whoever
\* reports it and whatever runs without the cache meanwhile, and none beyond
\* max_blocks_per_task (handlers.py: "auto-allow after max_blocks_per_task").
BlocksPerTaskAreBounded ==
    \A k \in TeamKeys :
        /\ sentBack[k] <= MaxBlocks
        /\ sentBack[k] = IF teamCache[k] = None THEN 0 ELSE teamCache[k].blocks

\* A team is not stuck for ever on a task its supervisor never accepts.
TasksAreCompleted == \A t \in Tasks \ {"idle"} : <>(t \notin open)

\* The gate of a team ends: what is sent back is counted and bounded for each task, and every
\* task is completed.
GateEnds == [](TeamTypeOK /\ BlocksPerTaskAreBounded) /\ TasksAreCompleted
==============================================================================

# A TLA+ model of Forge

Forge (`src/src/forge/`, Python) wraps Claude Code: it manages sessions and their git worktrees, runs
model-routing proxies, enforces policies from Claude's hooks and defers work between short-lived processes.
There is no daemon but the proxies and their backends.  Every `forge` command and every hook is a process of its
own; they meet only in files under `~/.forge` and `<project>/.forge`, in lock files, in git worktrees, docker
containers, ports and pids.  Everything hard about the program follows from that: operations are sequences of file
operations with no lock across them, and any process may be interrupted, killed, slow or beaten to it between two
of them.

## 1. Inventory

Paths are relative to `src/src/forge/`.

| component | state | operations | meets | hard part | correct when |
|---|---|---|---|---|---|
| file state (`core/state/`) | lock files, temporary files, target files | `file_lock`, `atomic_write_*`, `read_json` | used by every store | death between temporary file and rename; a lock file that is removed | one holder per lock; a file is its old or its new version |
| work queue (`core/workqueue/`) | `pending-work/*.json`, `failed/`, locks | `enqueue`, `process_pending_work` | hooks enqueue; every CLI start processes | concurrent start-ups, failing handlers, attempts counted in a file that may not be writable | nothing enqueued is lost, poison is bounded, handled is what is unlinked, the queue drains |
| session store (`session/store.py`) | `.forge/sessions/<name>/manifest` | `write`, `update`, `delete` | CLI and the hooks of a running Claude | updates that interleave; a delete that removes the lock | no update is lost |
| session index (`session/index.py`) | `~/.forge` index: (name, root) to entry | add, get, list, remove, self-healing | manager, listing commands | pruning decided on files probed without the lock | a name has one owner; only stale entries are pruned |
| session manager (`session/manager.py`) | none of its own | start, resume, relaunch, fork, delete | store, index, worktrees, active registry | rollback after partial failure, restore of a replaced child, races for a name | all or nothing; the index never dangles; nobody else's session or work is removed |
| worktrees (`session/worktree/`) | git worktrees and branches | create, remove, cleanup | manager | forced removal; work that appears after a check | uncommitted work survives |
| active registry (`session/active.py`) | `active.json`: session to pid or container | upsert, clear, get, list with pruning | launches, delete, cleanup | pids reused, containers that outlive the launcher, a docker that does not answer | only dead entries are pruned |
| cleanup (`session/cleanup.py`) | none | delete sessions older than a limit | manager, active registry | decides on snapshots | a running session is never deleted |
| proxies (`proxy/proxy_orchestrator.py`, `proxy/proxies.py`, `cli/proxy.py`) | `proxies/index.json`, `proxies/<id>/`, server processes, ports | create, start (reuse, adopt, spawn), stop, delete, prune | sessions name a proxy; the server reads the registry | ports and pids checked, then used; a start that is slow, fails or is interrupted | a healthy entry is served by its server; a failed start removes only its own |
| backends (`backend/`, `cli/backend.py`) | `backends/index.json`, the adapter's config, service processes | create, start, stop, delete | the start of a proxy | a health check that asks a port, not a process; a service that is still ending | what runs can be stopped by name |
| hooks (`session/hooks/`, `cli/hooks/`) | `confirmed` section of the manifest, artifact copies, markers | SessionStart, Stop, StopFailure, PreCompact, SubagentStop, ExitPlanMode, prompt commands | session store, queue, policy | which session a hook belongs to; a verification that takes long and blocks the stop | what a session leaves is captured; a stop is not blocked for ever |
| policy (`guard/`, `cli/guard.py`) | intent and overrides, states of the policies, cached verdicts | enable, supervise, `%guard`; check of an edit; check of a diff | hooks, manifest, supervisor LLM | state read before a slow evaluation and written after it; fail-open against fail-closed | a deny is never dropped; only clean answers are cached; what a command reports holds |
| team policy (`guard/team/`) | a cache file with a lock, block counts | task-completed, teammate-idle | LLMs, other teammates' hooks | a lock held while models are asked | blocks are counted and bounded; tasks get done |
| review workflows (`review/`, `cli/workflow.py`) | threads, claude processes, results | panel, debate, consensus, `--check` | LLMs, Ctrl-C | timeouts, processes that ignore signals, interrupts | the gate fails closed; no process outlives the round |
| handoff (`session/handoff*.py`) | context files, markers, project documents | assemble a context, run the agent | copies made by hooks, queue, LLM | copies older than the conversation; files gone | the context reaches the last stop; official documents are only proposed to |
| installer (`install/`, `cli/extensions.py`) | skill files, settings files, backups, `installed.json` | enable, sync, disable | the user's own edits, upgrades | edits between; a run cut short; two scopes in one directory | what the user has survives |
| search (`search/`, `cli/search.py`) | four files, each with a lock | index handler, rebuild, clean, search | queue, gc | a failure or another process between the files | stores agree, index is fresh |
| garbage collection (`core/ops/gc.py`) | none | detect, clean | every store | items no longer orphaned when deleted | nothing referenced is removed; only the scope is touched |
| proxy server (`proxy/server.py`, `converters.py`, `client_factory.py`, `core/llm/`) | cached clients and keys, metrics, one stream | messages, streams, count_tokens | Claude, LLM APIs | order of events, refused keys, a lock across awaits | requests end, blocks open and close in order, metrics add up |
| skill scripts (`src/src/skills/*/scripts/walkthrough-state.py`) | a state file | parse, init, record, report, checks | the agent that runs a checklist | the checklist is edited between two commands | no prerequisite is lost, reports add up |
| the rest (configuration, views, argument parsing) | | | | no state shared between processes | |

`PROJECT.json` repeats the list with the status of each component, and lists under "hazards" what in this code
a test would hardly reach, at its line, with the properties that cover it.

## 2. Plan

Order: what can lose a user's work comes first.  Items 1 to 10 are done.

1. `WorkQueue`: the queue hooks defer their work to.
2. `SessionLifecycle`: manager, index, worktrees.
3. `AtomicManifest`, `ManifestStore`: the store under the manager, as an abstract specification and an implementation
   of it.
4. `LiveSessions`: registry, launches and cleanup.
5. `ProxyLifecycle`: create, start with reuse, adoption and spawning, stop, delete, prune.
6. `SessionHooks`: which conversation a hook is about, copies, approved plans, verification with its limit, markers.
7. `GuardConfig`, `PolicyEngine`, `GuardCheck`, `TeamPolicy`: what policy is in force, how verdicts compose and what
   is kept of them, checks on demand, the quality gate of a team.
8. `ProxyRequests`, `ProxyStream`, `ProxyServer`: a history and a stream through the proxy, its requests.
9. `SearchIndex`, `Installer`, `GarbageCollection`, `Handoff`, `BackendLifecycle`: one machine each.
10. `ReviewWorkflow` and `Walkthrough`.

The project keeps to a dozen runs, so that all of them can be repeated on every change: components that do not interact
share one.  Two claims of comments that the code does not meet have a run that refutes them; the others are listed in
section 4.

Every safety property of a run is also a theorem (section 5), and so is the refinement.  What is left is liveness, which
the prover cannot do, and breadth: the components that are `partly` modelled.  No module declares a RECURSIVE operator.

## 3. Modules

Conventions: a process is a constant (`Procs`, `Calls`, `Hooks`, ...) with a place `pc`; one action is what the code
does under one lock, or one file or git operation outside any; a file's content is reduced to what the properties
tell apart.  Faults (a file operation that raises, a lock not free in time) and crashes (a process that dies) are
actions with a bound.  An answer of a model, a user's edit and a child process that ends are choices.  Operators that
say "Mutant" (or "As if") in their comment are not part of the specification: each is a plausible bug of the code that
makes a property, or one part of it, false.  `PROJECT.json` lists one for each property.

Properties are stated in parts, each about one hazard and with a comment of its own, and most modules end with one or
two conjunctions that say in a sentence what the component promises (`IndexIsSound`, `AllOrNothing`,
`RoundsAreSound`, ...).  The runs of these modules check the conjunctions; a counterexample names the part that fails.

### WorkQueue (`core/workqueue/queue.py`, `core/state/lock.py`, `core/state/io.py`)

`pending` and `failed` are the two directories, `lock` the holder of each marker's lock, `pc`, `cur`, `todo` and
`mark` the locals of `enqueue` and `process_pending_work`.  A marker is its shape (valid, of an old version, with
invalid fields, not JSON), its `attempt_count` and the generation of its payload.  `EnqueueLock` to
`EnqueueFails` are `enqueue`; `ListMarkers` lists, sorts and truncates; `LockMarker` to `MoveToFailed` are
`_process_single_marker` branch by branch, with `_try_write_error` and `_move_to_failed`.  A handler returns or
raises.  `lastGen`, `done`, `raises` and `runs` are history variables.

### SessionLifecycle (`session/manager.py`, `session/index.py`, `session/store.py`, `session/worktree/`)

`manifest` and `index` are maps from (name, forge root) to a session or `None`, `dirs` the worktrees,
`uncommitted` what each holds that is not committed, `active` what the registry reports.  Three kinds of it
matter: configuration on the allow-list of `config_copy.py` that git sees, configuration that git ignores, and everything
else (`"work"`, to which a change to a tracked configuration file belongs).  Each CLI call is a record of locals (`loc`)
and a place (`pc`); the places follow the methods: `Lookup`, `Stat` and `Prune` are `IndexStore.get_session`,
reading under the lock, probing files without it and pruning under it; `ProbeManifest` to `AddToIndex` the
creation; `UndoManifest` and `UndoWorktree` the rollback; `JudgeTarget`, `SwapTarget`, `ClearStale`,
`RestoreTarget` and `RestoreEntry` a force fork; `Examine` to `ClearActive` `delete_session`.  A removal that
git refuses (`CleanupWorktree`) deletes the configuration files, as far as it can, and is tried again (`RetryCleanup`);
work may appear before either attempt.  `CopiedConfig` says which of these files a new worktree gets.  A failed unlink
of a manifest goes unnoticed by a delete, but not by the removal of an orphan.  `Edit` is a user who leaves
something uncommitted in a worktree.  The manager's helpers that only compute are conditions of these actions.

### AtomicManifest and ManifestStore (`session/store.py`, `core/state/`)

`AtomicManifest` says what `SessionStore` promises: creations and updates happen one at a time, at one instant,
and each update starts from the manifest that is there; once a delete has begun it promises less.
`ManifestStore` is the code: the lock is an inode that the path may stop naming (`lockFile`, `ino`), an update
reads, changes its copy, writes a temporary file in the directory, replaces the target and releases the lock; a delete is
an `rmtree` that takes no lock, scans the directory and unlinks entry by entry in any order.  The refinement
mapping is `content <- manifest, deleting <- Deleting` (`Deleting`: some delete has begun).

### LiveSessions (`session/active.py`, `session/cleanup.py`, launches in `cli/session.py`)

`entry` is the registry, `box` the container of each name, `foreign` the pids the system gave to other processes.
A call of start, resume or delete registers, launches, runs and clears (`Register`, `Run`, `Exit`, `ClearOwn`), after
looking at the registry (`Look`, `Probe`, `DropStale` are `get_session`'s read, probe and prune).  A cleaner lists
old sessions, reads the registry, probes, prunes and deletes one by one.  A launcher can be killed (`Kill`), which
leaves its entry and, in a sidecar, its container; its pid can be reused (`ReusePid`); a pass over the registry
may find docker mute.  A Claude on the host is taken to end with its launcher.

### ProxyLifecycle (`proxy/proxy_orchestrator.py`, `proxy/proxies.py`, `proxy/proxy_identity.py`, `cli/proxy.py`)

`registry` is `proxies/index.json`, `file` the `proxy.yaml` of each id, `server` the processes, with their phase
from booting to dead and the port they listen on.  A command is its command line (`req`), its locals (`loc`) and a
place (`pc`): `Create` to `Clean` are the entry points of `cli/proxy.py` with what they refuse; `Prune` and
`RemoveOverlay` are `prune_stale_proxies`; `ReadRegistry` to `RemoveFailed` are `start_proxy` in its order (reuse,
adopt, pick a port, write the file, register, spawn, wait until healthy, and the clean-up of a failure);
`KillStopped`, `Detach` and `ClearPid` are `stop`; `RemoveEntry`, `RemoveDirectory` and `KillDeleted` are `delete`.
An action is one registry update, one question to a server or one file operation.  `Healthy` is
`check_proxy_health` together with the server's own answer, which comes from the registry.  `Validate`, `Listen`,
`Terminate` and `Exit` are the server.

`quiet` is a history variable: the commands that ran from their beginning without another command, a server of
another command still starting, a hand-started server or an exit.  Two properties are about these only, because
the code does not promise more.  A fault is a command that ends at any place (Ctrl-C, a lock
timeout, a dependency that fails before the first update), a question not answered in time, a directory that cannot
be removed, or a server that exits.  A pid is never used twice: `core/process.py` leaves reuse out, too.

### SessionHooks (`cli/hooks/commands.py`, `verification.py`, `session/hooks/`)

`manifest` is the `confirmed` section and the bypass override, `transcript` the turns of each conversation,
`artifact` the turns in its copy, `planFile` and `snapshots` the plan and its approved copies, `queued` the markers a
hook leaves, `run` the QA run that waits for a transcript.  Two Claudes in one session each run one hook at a
time (`hookPc`, `hook`).  `SessionStart`, `CaptureCopy` and `CaptureRecord` are session-start: it learns
which conversation a compaction or `/clear` leaves before it names the new one.  `ExitPlan` and `Approve` hash a plan,
then copy it.  `StopCopy`, `StopRecord`, `Reread`, `Passes`, `GivesUp`, `Block` and `Enqueue` are stop: the manifest is
read again before the check, which takes long, and the count is written after it.  `FailureCopy`, `FailureRecord`,
`PreCompact`, `SubagentStop` and `CancelVerification` are the others.  `blocked`, `uncounted` and `left` are history.

### GuardConfig, PolicyEngine, GuardCheck (`cli/guard.py`, `guard/`, `session/effective.py`, `session/overrides.py`)

`GuardConfig` is what policy a session is under: `intent.policy`, the sparse `override`s of `%guard` and `session set`, and
the plans a supervisor may be given.  There are overrides of the policy's fields (`SetOverride`), of the supervisor's
(`SetSupervisorOverride`), nulls of either as a whole (`Void`) and their reset (`ResetOverrides`); `Effective` merges
them field by field, as `apply_overrides` does.  Most commands read and write under one lock and are one action;
`supervise off`, `on`, `remove` and `reload` look first, without the lock (`SwitchReads`, `ReloadReads`), and
write later into whatever supervisor there is by then (`SwitchWrites`).  `begun` is what each of two terminals has begun.

`PolicyEngine` extends it by the check of an edit: a hook reads configuration and states (`ReadPolicy`), evaluates the
policies that apply (`Evaluate`; at most one raises, which the fail mode turns into a skip or a deny), and writes the
states of those that ran (`Persist`).  An edit has a path, which the TDD policy classifies by a directory `tests` or
`src` anywhere in it, the rank the sort of a diff gives it by its first directory, and a bit for a banned pattern;
the TDD state is whether any test was touched, the state of workflow and supervisor their cached verdicts.  A branch
of the workflow may lack its checker or its reviewer (`BranchVerdicts`): a filter that skips the edit allows it, a
checker settles it only by finding it aligned, one that objects or fails hands it to the reviewer, and without a
reviewer it falls through to an allow, which the cache keeps like a verdict (`StateAfter`).  `GuardCheck` evaluates the
files of a diff with an engine of its own, any of the bundles, and in the order of `_sort_tests_first` (`EvaluationOrder`).

### TeamPolicy (`guard/team/handlers.py`, `cli/hooks/commands.py`)

`teamCache` is the cache file, `teamLock` who holds its lock, `gate` where each teammate's hook is, `open` the tasks not
done.  `Consult` reads the cache under the lock and answers from it, lets the task through after `MaxBlocks`, or asks
the models while it holds the lock; `JudgeRoutine` and `JudgeReviewed` write the answer; a hook that does not get the
lock, or cannot write, decides without the cache (`GoWithoutCache`, `StoreFails`, `JudgeUncached`).

### Installer (`install/`, `cli/extensions.py`)

`disk` is what lies at each target, `settings`, `backup` and `added` the settings file of each scope with its two
companions, `record` the installation in `installed.json`.  `Enable`, `Sync` and `Disable` are whole commands, with the
stage (`Stages`, `Prefixes`) at which a run is cut short as a parameter; `Merged`, `SmartUnmerge` and `Unmerge`
are `settings_merge.py`.  The user writes, saves and removes; `Upgrade` installs the next release, which ships other
files and entries.  `own`, `before` and `orphaned` are history.

### GarbageCollection (`core/ops/gc.py`, `core/ops/context.py`)

`forge clean` reads the roots in its scope (`ResolveRoots`), then the index (`ReadReferences`), then what is on disk
(`Detect`, which finds the orphans of all categories), and deletes category by category (`Delete`), while sessions are
written, indexed, resumed, ended and deleted, and directories of roots vanish.  Roots may contain one another
(`Inside`) and share a repository.

### SearchIndex (`search/`, `cli/search.py`, the index handler of `cli/main.py`)

`documents`, `bm25`, `content` and `indexed_files` are the four files; a transcript's content is a version with a set of
terms.  A handler adds to one store after the other (`StartIndexing`, `AddToStore`, `EndIndexing`) or fails in
between; `rebuild-index` replaces them one by one; `clean` prunes documents and then removes what it pruned from the
others; `forge clean` does the same.  A search reads index, metadata and content one after the other and refuses
what does not match.  The queue is as far as needed: one marker per transcript, with its attempts.

### Handoff (`session/handoff.py`, `session/handoff_agent.py`, `cli/handoff.py`)

A parent session talks, stops, compacts, rolls over and approves plans; `copy`, `listed`, `named`, `snapshots` are what its
hooks left, `context` the file made of them for a child (`ProcessHandoff`).  An entry of `listed` has a copy or, from
`PreCompact`, only a snapshot; a context is made of the copy of the last entry, and if that has none, of the live transcript
of the conversation the manifest names, whatever copies come before (`SourceConv`, `SourceTurns`).  A curated context
sees the head of the transcript only: `MAX_TRANSCRIPT_CHARS` is `MaxCurated` turns (`Within`).  A copy overwrites the file
in place, so that one which fails midway leaves less than there was (`CutShort`; `cut` is history).  A content approved again
moves to the end of the approved plans (`WithApproved`).  `LaunchAgent` and `FinishAgent` are the background Claude of a
marker, with the documents it may be told of: inside the project, not shadowing themselves, and, for the strategy
"suggested", only through the shadow document.

### Walkthrough (`src/src/skills/walkthrough/scripts/walkthrough-state.py`)

`ParseChecklist` is the parser, a recursive function over the numbers of the lines; `edition` is the checklist the commands
read, which may change between any two; `state` the file.  `EditionsAssumption` is what is known of a checklist: its
lines parse, every step has an id of its own and a section; both checklists of the repository satisfy it.  `Initialise`, `RecordStep`, `SetScope`, `ValidateFrom`, `ReportRun` and the migration of
a file of version 1 are the commands.  Drafts (`WriteLine`) let the parser meet every sequence of up to five lines.

### ProxyRequests, ProxyStream, ProxyServer (`proxy/`, `core/llm/`)

`ProxyRequests`: `history` is what Claude Code sends with every request, a sequence of messages of blocks; the model
grows it turn by turn with the answers the proxy returned, and with turns another program made, and translates it with
`ConvertMessage` (Anthropic to OpenAI; `Collected` is what the blocks of a message come to, a recursive function over their
numbers) and `ToItems` (to the Responses API).  `ProxyStream`: one streamed answer, chunk by
chunk; `sse` is the converter's state with the blocks it opened and the stops it sent; `recorded` the metrics.
`ProxyServer`: `req` is where each request is between two awaits of the event loop, `cache` and `clients` the client
factory, `credential` the credential manager, `storedKey` and `newestKey` what is stored and what the upstream
accepts, `refreshLock` the factory's lock.

### ReviewWorkflow (`review/engine.py`, `review/consensus.py`, `cli/workflow.py`)

`worker` is the thread of each spec, `child` its claude process, `tracked` the list the clean-up goes through, `results` what
`as_completed` has yielded.  `TakeSpec` to `TimeOut` are one worker, `Gather` and `Return` the main thread, `Interrupt`,
`Drained` and `InterruptAgain` Ctrl-C, `Reconcile` the second round of a consensus, `Report` the gate.

### BackendLifecycle (`backend/`, `cli/backend.py`)

`backends` is `index.json`, `service` the processes, `job` the commands.  `BeginEnsure` to `RegisterService` are
`ensure_backend`, from the command line or for a proxy that starts; `BeginStop` to `Unlist` are `stop_backend`, which a
delete repeats (`StopNext`) before it removes the config.  A port is bound by one process, and whoever answers on it
answers a health check.  `alone` and `muddled` are history: commands that met nobody, and whether any did.

### The sums

Each `MC...` module gives the constants their values.  `MCQueueAndIndex`, `MCSessionHooks`, `MCProjectFiles`,
`MCConversations` and `MCServices` are sums: a behaviour chooses one component at its start (`component`), the variables of the others
keep their initial values.  The components of a sum share no variable, so that checking the sum is checking each of
them; where they do interact in the program, the interaction is part of one of the modules (the marker that both
the queue and the index handler know, the copies that both the hooks and the handoff know).
TLC does not count the actions of a sum one by one; that each of their branches is taken within the bounds can be seen
from its coverage of expressions (`tlc -coverage`), which reports none of the modules' as never evaluated.

## 4. Runs

All runs are small instances.  Processes are interchangeable and declared symmetric where no liveness is checked.
Deadlock is not checked because in every model the calls end and the bounded events run out.

| run | question | result |
|---|---|---|
| `work_queue` | do two start-ups that enqueue and process ever break mutual exclusion, lose or repeat work, retry without bound, or give up good markers? does the search index stay whole, counted right and fresh whatever step fails? | holds |
| `work_queue_live` | does every marker with a handler leave the queue? | holds under `FairSpec` |
| `session_sequential` | whatever fails or dies in one call, does the next one find a consistent store, and is a failure without trace? | holds, with the exceptions named in the properties |
| `session_race` | two calls at once: is a name won once, is only the stale pruned, is uncommitted work safe from a delete? | holds |
| `session_config` | does a worktree that a delete could not remove keep its configuration? | violated |
| `live_sessions` | is only the dead pruned, and is a running session safe from the cleanup? | holds |
| `proxies` | do interleaved commands keep pids, ports and entries together, spare servers that are not Forge's or are shared, and report only starts that are served? | holds |
| `session_hooks` | is what a session leaves captured, is a stop not blocked for ever? do guard commands take effect, does no edit pass that a policy denies, does the order of a diff not matter? | holds, with the exceptions named in the properties |
| `project_files` | do installs spare what the user has, does the garbage collection spare what is needed, are running backends in their registry? does the store implement the abstract manifest, and does a delete stay deleted as far as the code promises? | holds |
| `conversations` | are histories and streams translated without loss, does a round end and the gate fail closed, does a context reach the last stop, do walkthrough reports add up? | holds |
| `services` | are requests answered and counted, are tasks completed? | holds under `ServerFairness` and `TeamFairness` |
| `auth_retry` | is a completion whose key is refused ever answered? | violated |

Bounds.

* Two processes show every interference of a pair; the code has no operation whose outcome needs three at once, except
  the delete with two updates and a creation, which `project_files` has (four processes).
* `work_queue`: two markers are enough for the order of a batch and for one that blocks the other (`MaxItems` is 1);
  `MaxAttempts` is 2, so that the first and the last attempt differ.  Two transcripts, two versions and two terms tell a
  missing, an old and a new entry apart, and a shared term from one of its own (searches are for the
  shared one, which misses whatever one for the other would); three copies or deletions, one
  failure, one command.
* `session_*`: three names are a parent, its generated resume name and the suffixed one; every project is the main
  checkout or a worktree of it.  One fault and one crash reach every rollback; `session_sequential` has two faults,
  so that a rollback fails too.  `CopiedConfig` is a file git ignores; edits add one it sees, so that a delete meets all
  three kinds; which of them a new worktree gets makes no difference to a delete.
* `proxies` starts from any subset of two proxies of earlier commands, one of which may run, on one port of two, so that a
  new server can take the same port or the next; two commands, one server started by hand and one fault follow.
* `session_hooks`: two Claudes, two conversations and two plans, so that either may be the one a hook is not about; two
  blocked stops are the limit, so that it can be passed by number and, before that, by time; six events, which two
  Claudes need to stop more often than the limit lets them.
* The policies of `session_hooks`: two bundles, two supervisors and two terminals, so that one command may come between the
  two steps of another; four commands, which are enough to set a supervisor, override it, suspend and resume it; two of them while
  edits are checked, two edits under way at once, one fault.  Five files: a test, a source and a banned source at the top, and
  a test and a source in nested directories; a diff has up to three.  Two branches of the workflow, one of which lacks
  a reviewer, and one a filter that skips a file.  Nested files are for the diffs only: to a hook they are like the others.
* `project_files`: two scopes (symmetric), two files and two entries, one of each dropped or added by an upgrade; three commands
  and one edit, so that something was installed, edited and installed again; no edit or upgrade follows the last command
  (`BeforeLastCommand`), as nothing could come of it.  Of three roots one is nested and two
  share a repository.  Two ports, three processes, three backend commands, one crash and one interrupt.
* `conversations`: histories of four messages and seven blocks hold a turn with parallel calls, their results and text;
  three tools and seven chunks interleave every pair; three workers on two threads leave one queued
  (`FewCommands`: an unchecked command and texts that end like a numbered id occur in a debate only); three
  conversations of three turns in all, so that the manifest may name one that is neither the first nor the present, two
  transcript entries, so that a compaction's may come last, one file lost or copy cut short, one turn that a curation takes in
  (`MaxCurated`), three approvals of two contents, so that one is approved again, and the plans of a
  context, which is chosen apart from its transcript, in behaviours of their own, and the agent in others, without
  compactions, whose entries it does not read (`CopiesListed`); a checklist of two sections and three steps in two
  editions, at most two results at a time (`MaxResults`).
* `services`: two requests, two models, one key rotation and one expiry, so that a refused key, a new one and one that
  was not refreshed meet; two teammates with one task and one fault.

Fairness.

* `FairSpec` (`WorkQueue`) asks that a process that can go on does (`Step`), which the operating system gives it, and that
  each process lists the queue again after every batch (`ListMarkers`), which says that forge commands keep being run: the
  queue has no other consumer.  Nothing is assumed of enqueues, crashes or faults, and both of the latter are
  bounded: a disk that fails for ever drains nothing.  Every kind has a handler there; a marker without one stays, and
  as many of them as fit a batch block the rest (`MaxItems`; see the hazards).
* `ServerFairness` is weak fairness of each handler: the event loop resumes a coroutine that can go on, and every
  call of the upstream has an end, because the client has a timeout.  Nothing is assumed of keys and caches.
* `TeamFairness`: cached answers expire (weak); a hook gets its lock and its answer in the end, and a teammate that
  was sent back reports the task again (strong: other teammates' hooks enable and disable it).  What the answer is,
  nobody assumes: a task is completed although the supervisor never accepts it.

The violated properties.  `EveryRequestIsAnswered`: `invalidate_and_retry` holds `_refresh_lock` while it awaits
`get_client`, which needs the same lock, not reentrant, to make the client it has just dropped
(`client_factory.py:304`).  The request waits for ever, and so does every later one that needs a new client.  Under
the same fairness `AnsweredUnlessRefreshing` holds.

`FailedDeleteKeepsConfig`: the comment at `cleanup.py:239` says that configuration files are not deleted "when the
removal will fail for other reasons"; the code deletes them on every refusal, also one because of uncommitted work, and the
second attempt is refused again.  The worktree stays without `.env`, `.mcp.json` and `.claude/settings*.json`, and what the
user had changed in them is lost without `--force`.  `DirtyNeverLost` says what does hold: other work never goes, at
either attempt, and configuration files only with the tree, or after a refusal.

### Seen while modelling

Each of these can be followed in the modules, though no run is spent on it.  The first three are why properties have the
exceptions they have.

A suspended supervisor.  `%guard supervise on` writes the intent ("resume suspended supervisor", `direct_commands.py:654`),
and an override of `policy.supervisor.suspended`, of its target or of the whole section is stronger:
`apply_supervisor_to_intent` removes only an override of `policy.enabled` (`supervisor.py:551`).  "Supervisor resumed" is
reported, and nothing is judged.  `CommandsTakeEffect` says what does hold: every report, as long as no such override is there
(`Shadows`) and, for a command that looks first, the supervisor is still there when it writes.

Tests first.  "Impl + test together passes TDD (optimistic tests-first ordering)" (`test_user_prompt_dispatcher.py:976`),
but the sort knows paths that begin with `tests/` or `src/`, TDD those that contain such a directory: `a/src/x.py` is
judged before `a/tests/t.py` when git lists it first, and denied.  `DiffVerdictIsOrderFree` says what does hold: where the
ranks tell tests from sources (`SortedApart`), only the rules decide; elsewhere a diff may fail without need, but none
passes that a rule forbids.

After a compaction.  "Use most recent transcript artifact" (`handoff.py:761`), but only its `copied_path` is read.  The
entry PreCompact appends has a `snapshot_path` (`commands.py:769`), so the context is made of the live, new conversation,
and the snapshot and every earlier copy are passed over, until the next Stop or rollover lists a copy.
`HandoffIsFaithful` says what does hold of whichever conversation is taken.

Sessions.  Two resumes write the same child manifest before the index decides; the loser's rollback deletes the
winner's, in spite of the race protection of generated names.  The scan for co-residents of a worktree compares display
names, so a session of the same name is overlooked and its checkout removed.  The lock file is removed with the
directory, so two updates can hold two locks.  A `docker ps` that fails reads as "not running"; two passes later the
session is deleted although its container runs, in spite of the cleanup's fail-closed comment.
`create_worktree(force=True)` removes a worktree with uncommitted work, without the check its docstring promises
(`create.py:254-256`, `298`).  `read_json` reports an I/O error as corruption, so one failed read sends a good marker
to `failed/` (the comment at `queue.py:349` says retrying will not help).  `enqueue` drops its unit of work when the lock is
not free in time (`queue.py:156`).  An update in flight can rename a manifest back after `delete()` has returned.  A
same-directory fork from a session whose checkout is not its project checks the name in one place and writes in another
(`manager.py:1103`), and with `force` deletes the session of that name there (`manager.py:1162`).  Two resumes can
both find a session free, and a session never used is resumed without a look at the registry
(`cli/session.py:1852-1889`).  The end of a launch clears the entry by name, though another launch has replaced it
(`active.py:314`).  The rollback of `start --worktree` removes the worktree by force though another session was forked
into it meanwhile (`manager.py:307-322`).

Proxies and backends.  Delete with `--kill-adopted` removes the entry, then asks the server whether it is the proxy of
that entry; the server looks itself up, finds nothing and is left alone.  When two commands start one id, the
one that fails removes the other's entry and directory (`proxy_orchestrator.py:525-533`).  A reuse writes "healthy"
over the status of a stop that came between (`proxy_orchestrator.py:395-401`, "without clobbering concurrent
writers").  A prune removes directories after it has released the lock, so a start that registers in between loses its
file (`proxy_orchestrator.py:222`), and a prune between a stop's signal and its update deletes the configuration the stop
keeps (`cli/proxy.py:663`, `735`).  Two proxies configured for one template and port cannot both be started, because a
server can name only the first (`proxy_identity.py:87`).  A backend started while another process answers on
its port (a second command, a server started by hand, one that was stopped and is still ending) is reported as started with
the pid of a child that could not bind the port and has exited; the next stop signals that pid, and the process
that answers stays, in no entry.  A start that comes while its predecessor's service is still coming up drops
its entry as dead.

Hooks and policy.  A stop serves its transcript to a waiting QA run before verification, so a blocked stop serves an
unfinished one.  A rollover copy does not replace an older copy.  With two Claudes in one session `/clear`
captures the conversation the manifest names, whoever's it is.  A verification that passes resets neither the count nor
its start.  The list of transcripts grows by an entry per stop.  A plan is hashed, then copied.  `resolve_session_store`
takes the name from a uuid and the root from the working directory.  Policies see the first 5000 characters of an
edit, and so does the key of a cached verdict, which does not name the supervisor either.  Errors outside the policies
(no manifest, no context, an engine that cannot be built) allow the edit even in closed mode.  `forge guard enable`
replaces the whole policy intent and with it the supervisor; an override of `%guard` shadows what `forge guard
enable` and `disable` report, and `%guard enable` keeps an earlier permissive override.  A `supervise reload` that
resolved the plan of one supervisor may write it onto the next, and one whose supervisor was removed meanwhile reports
success, as `on` and `off` do.  A branch of a workflow without a reviewer allows what its checker objects to, and the allow
is cached (`branches.py:67`, `workflow/policy.py:75`).  TDD counts a test edit that another policy denied, and
forgets one when another hook, which read the manifest before, writes its own state.  `%cancel-verification` refuses for a verification by
test suite.  A routine tag or an unreadable cache resets a team's block count, which is kept per teammate.  `forge
guard check --diff` judges a diff of several files under the first path.

Installer and garbage collection.  After enable, upgrade, sync and disable the entries of the first release stay; after
a second enable the environment and the status line are not restored; a stale backup restores old values.  Disable
deletes managed files the user has changed, and files the other scope shares.  A stale file that cannot be unlinked
is dropped from the record.  `forge clean` deletes sessions of a nested repository under the scope of the outer
one, loses the directory of a session between its manifest and its index entry, and clears an entry that was relaunched
between detection and deletion.

Search.  A `clean` cut off after it pruned documents leaves keys without metadata; every search is refused, and a later
clean does not see them, in spite of its docstring ("scans all three stores"), until a rebuild.  A
rebuild beside a handler can leave the same.  A search between two writes of a handler is refused as corrupted though
nothing is.  `clean` beside a re-index removes the fresh key.  `mark_indexed` stats the file after it was extracted, so
that `state.json` may claim a newer version than is indexed.

Handoff and walkthrough.  A context is empty when the copy listed last is gone, though older copies exist.  A curated
context is made of the first 50000 characters of the transcript, not the last.  A copy that fails midway destroys the one an
earlier Stop made (`artifacts.py:152`), and the marker of that Stop still points to it.  "Approved
Plan" may be a draft never approved.  Markers carry the working directory, so a manifest elsewhere is skipped
silently.  The agent is not run again when it fails.  In a walkthrough a step without assertions can never be recorded,
the resolvable set ignores a step's own prerequisites (`walkthrough-state.py:818-819`), an unknown section raises, and
two steps of one id go unnoticed.

Proxy server.  Of parallel tool calls all but the last are never stopped; a call whose name comes late may be
stopped twice; arguments after text go to a stopped block.  An error chunk ends a stream without `message_stop`, an exception with
it.  A client that disconnects is recorded as a success; `finish_reason` "length" is lost; usage is lost when a stream
fails.  A cached client keeps its old key after the credential was invalidated, and a store that is behind brings a
refused key back.  A conversion that fails answers 200 with the error as text and counts as a success.  Text before a
tool result puts a user message between call and result.

Reviews.  Ctrl-C waits for all workers, queued ones included, before the clean-up (the docstring at `engine.py:4-6` says
otherwise); a second Ctrl-C cleans up beside workers that may still spawn.  A panel of the same model twice, and
custom labels that end like a numbered id, collapse in the JSON report.

## 5. Proofs

Eight modules hold the proofs; each EXTENDS the modules it is about and proves every theorem for any values of the
constants that satisfy the named assumptions, which the runs evaluate.  The pattern is the same everywhere: an inductive invariant
(`Inv`, `HooksInv`, `GcInv`, ...), one lemma per action (or group of actions that touch the same variables) that it
preserves it, one theorem `...Invariance`, and the theorems named below, which follow from it or, for action
properties, from it and a step.  An invariant of a run is rarely inductive as it stands; what had to be added is said for
each.

Assumptions on constants are of three kinds: bounds are naturals; `None` is none of the names, and no record either
(`RecordAssumption`, `EntryAssumption`, `GuardRecordAssumption`, ...: `None` stands for Python's `None`, which is no
object of a class, but TLA+ does not know that a record is not a model value); and what the environment hands over is well
formed (`EditionsAssumption`, `ExistingAssumption`, `GcAssumption`), each justified where it is stated.

**ManifestStoreProofs** (`ManifestStore`, any callers, any assignment of operations).  `NoUpdateIsLost` is the
refinement (`Spec => Implements`): until a delete begins the lock file is created once (`OneLockFile`), so at most
one process is inside the with-block (`OneHolder`), so the copy about to be renamed is the current manifest with one
mutation (`CopyIsCurrent`) and the rename is a step of `AtomicManifest`; afterwards the copy still is the mutation of
some manifest (`CopyShape`), which is all that is promised then.  `DeletedStaysDeleted`: a manifest that a delete meets
again was put there by a call that returned (`WrittenByDone`); the delete that scanned first has it on its list
(`FirstIsListed`).

**HooksProofs** (`WorkQueue`, `SessionHooks`, `GuardConfig`, `PolicyEngine`, `GuardCheck`, `SearchIndex`, `TeamPolicy`).

* Queue: `TypeCorrect`, `MutualExclusion`, `HandledStaysCurrent`, `NothingIsLost`, `PoisonIsBounded`, `HandledOnce`,
  `OnlyPoisonGoes`.  That a marker about to be unlinked is the one handled needs the lock discipline; that nothing is lost
  needs that a pending file of an id that was enqueued is its latest payload (`PendingIsLatest`) and that a handler
  which returned has marked its generation done (`HandledIsDone`); the bounds need that exceptions are counted in the
  file (`RaisesAreCounted`), that a file still pending after it was handled cost a fault or a crash (`RunsAreExcused`), and
  that a well-formed marker given up early did, too (`EarlyCosts`, with the cardinality of what was given up).
* Hooks: `CapturesKept` and `VerificationEnding` from what a hook remembers between two of its steps while the other
  Claude's hook runs (`Remembered`): what it read of the manifest can be old, but copies and plans only grow.  `Room` says
  that a blocked stop leaves the counts within their maxima.
* Policy: `CommandsEffective` from what the last report says of the intent (`SaidOfSupervisor`) and of the overrides
  (`SaidOfOverrides`), which every other command overwrites together with what it reported; an override that shadows is a
  case of its own.  `VerdictsSound`: restored states of policies are among those persisted, and a cached verdict was
  given by a model for its key or fell through a branch without a judge (`Caused`, `StatesOK`, `CheckOK`).
  `VerdictOrderFree`: the sort is stable and rising (`Rising`), so where ranks tell tests from sources every test is judged
  before any source, and what has failed so far is what the rules forbid (`Fails`, `CheckInv`); in any order what they
  forbid fails.
* Search index: `IndexSound` from what a handler, a rebuild and a clean have done so far at each of their steps
  (`HandlerOK`, `Rebuilding`, `Cleaning`, `Whole`).
* Team: `SentBackBounded` states types and the bound.  That tasks are completed, the other half of the property
  `GateEnds`, is liveness and stays with TLC.

**LiveSessionsProofs** (any sessions, calls, cleaners, pids): `RegistrySound`, `RunningSpared`.  Entries and
containers describe the launches they name (`EntriesDescribe`, `BoxesAreOwned`); a candidate of a cleanup is no session
that was seen running and still runs (`WatchedIsSpared`, with `watched` a history variable).

**ProxyLifecycleProofs** (any commands, proxies, templates, ports): `EntriesSound`, `ServersSpared`, `StartServed`.
`LocalsNameServers` says that what a command keeps between two steps names servers as they are or were; `QuietAlone` what
a command that nothing interfered with knows at each of its places.

**SessionLifecycleProofs** (any number of calls that interleave): `OnlyStaleIsPruned`, `WorkIsKept` and `OneWins`.
For the second, what is uncommitted lies in a worktree that exists (`WorkIsThere`), so only three kinds of step can take
any: the removal at the first attempt or the second, which finds none when it is not refused, and the deletion of
configuration after a refusal, which spares other work (`Spares`).  The last follows two calls that create the same
session from the moment either wins: the index holds a winner's entry until some third call deletes it.

**SequentialSessionProofs** (`MaxOpen = 1`, the hypothesis each theorem states: calls that follow one another, the
configuration of `session_sequential`, with any number of calls that die and writes that fail): `CallsKnow` is the
invariant, what a call that runs alone knows of manifests, index and worktrees at each place it reaches (`Knows`) and
how the files fit together between calls (`Files`); `EntriesHaveManifests`, `ForksAreSafe`, `NothingIsLeft` and
`AllOrNothingHolds` follow.

**ProjectFilesProofs** (`GarbageCollection`, `BackendLifecycle`, `Installer`).  `CleanSafe` follows a session through
what a clean reads (`StableIsSpared`, `LivedIsSpared`, `FoundInScope`, `UnwantedIsFound`).  `Reachable`: an undisturbed
backend command knows its port and its services (`Undisturbed`, `Known`).  `UserThingsStay` and `NothingStays`: what is
the user's is on no record (`OwnIsNotAdded`), what Forge put on disk is on record (`Recorded`), and a single enable
left what undoes it (`Undoable`).

**ConversationProofs** (`ProxyServer`, `ReviewWorkflow`, `Handoff`, `ProxyStream`, `Walkthrough`, `ProxyRequests`).

* `Accounting`: how far a request is says what it has counted (`Progress`), so the metrics tally (`Tallied`).
* `RoundsSound`: processes are tracked (`Children`), results are of distinct workers that are done (`Gathering`), a
  verdict is over results in order (`Verdict`).
* `HandoffFaithful`: a copy is behind no Stop and no marker unless it was cut short (`Copied`), and the approved plans are
  listed in the order of their last approval, each once (`ApprovedInOrder`): a re-approval moves one to the end, where its
  number is the largest.
* `StreamWellFormed`: the converter's state is linked to the blocks it has opened (`Linked`), each stopped once or
  superseded (`BlocksInOrder`).
* `WalkthroughSound`: for checklists of any length.  Induction over data is done with sets: the line numbers up to
  which the parser has kept every prerequisite contain 0 and with a number the next, hence all of them
  (`UpToBound`, `ParserScans`, `PrereqsKept`); results fit the edition they were recorded for (`Measured`, `OldMeasured`).
* `HistoryTranslated`: for histories of any length.  What flattening, collecting and translating do to a sequence is proved
  by induction in the form the prover takes: a set with the empty sequence and, with a sequence, those one longer, has
  all (`SeqClosed`).  Flattening is a homomorphism (`FlatConcat`, `SpreadConcat`), an answer and a user's message become what
  `AnswerConverts` and `UserConverts` say, so a history and its items say the same (`AllIsSaid`).  That a backend accepts
  the translation (`Acceptable`) is inductive with open calls, those of the last message, which have no result yet,
  and ids of calls that are at most as large as what was said (`TopOf`), so that new ones are fresh.

Only model-checked: liveness (`EventuallyDrained`, `AnsweredUnlessRefreshing`, `TasksAreCompleted` of `GateEnds`, and
the violated `EveryRequestIsAnswered`), which is out of the prover's reach.

## 6. Not modelled

Components marked `not_modelled` in `PROJECT.json`, with the reason: configuration, views, tests and docs.  Inside the modelled
ones:

* formatting, paths, prompts and wording; timestamps, but for "older than the limit" and "expired"; numbers of tokens
  and characters, but for the budget of a curated context, counted in turns;
* that the directory of the configuration allow-list, `docker/certs`, is deleted after a refusal even if it is tracked,
  which makes the second attempt fail; what lies in it counts as configuration;
* branches and git's own registry (a git command succeeds or fails); `update_timestamps` and the UUID sync of the index; a
  registry file of another version, which is reset; `resume --fresh` and `resume --force` of an active session, which
  start a child and are covered as starts in `SessionLifecycle`; incognito sessions, whose end is a forced delete;
* of the proxies `edit` and `set`, smoke tests and hosts other than localhost; pids that are used again, which
  `core/process.py` leaves out, too, but for the active registry, where they are modelled;
* of the hooks read-hygiene and worktree-create, and direct commands that only print;
* of the policies the patterns of the coding standards, how the tags of an edit are found and matched, the promotion of
  findings;
* of the review engine interrupts but while results are gathered or drained, and a process that survives SIGKILL;
* of the installer the user scope, whose files no other scope shares;
* ranking in the search engine; the text of review syntheses.

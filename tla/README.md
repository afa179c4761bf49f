# Formal models of JARVIS

TLA+ models of the parts of this repository where several processes share one
durable store, TLC runs on small instances of them, and proofs for instances of
every size. Paths are relative to the repository root; `jarvis/` is the Python
package.

## 1. The system

JARVIS is a local assistant. An operator talks to it from a desktop window, a
CLI, a browser surface (Presence) and an agent hub; background workers run
queued tasks; everything they agree on lives in a SQLite database opened by
several processes at once. Nearly every call that writes runs in one `BEGIN
IMMEDIATE` transaction, so a call is atomic, and what is hard lies between calls:
a lease runs out while its holder still works, an operator decides while a worker
is about to wait, a process dies after the effect and before the report.

| Component | State it keeps | Operations | What is hard | What makes it correct |
|---|---|---|---|---|
| Background task queue (`memory_tasks_scheduling.py`, `cli.py` worker loop) | tasks, leases, attempts, specialists and their counters | submit, claim, renew, finish, fail, park on an approval, recover | expired leases against late reports, crashes, parking against decisions | a run ends once and rightly, nothing waits for ever, specialists and counters follow the rows |
| Approvals (`memory_approvals.py`) | requests, one-shot approvals, session and permanent grants | request or use, decide in three ways, revoke, expire | several deciders, expiry, conversation ids that SQLite reuses | every call that goes through stands on a consent that was given for it |
| Operator switch and guard (`memory_operator_state.py`, `proactive.py`) | running, paused, stopped; budgets | set, check | checked before an effect, set at any time | a stopped system claims no task |
| Long-horizon plans (`long_horizon.py`) | stages, leases, usage, retry and mutation receipts, checkpoints, verdicts | claim, reserve, intent, authorize, consume, result, checkpoint, reconcile, pause, cancel, resume, verify | effects of dead or replaced workers, retries that must leave nothing, pausing live work | an effect at most once, in order, charged, and completion that was earned |
| Scheduler (`memory_tasks_scheduling.py` from line 828) | jobs and topics with their next due time | add, enable, queue what is due | missed slots, clocks read early, two workers | a slot yields one task |
| Multi-agent runtime (`multi_agent_runtime.py`) | identities, mailboxes, rooms, task ownership, one event sequence | send, claim, delegate, complete | ordering, ownership moving | the event order explains the state |
| Memory bridge (`memory_bridge.py`, `_run_bridge_pass` of `cli.py`) | cursor, lease, generations with their contracts, project maps and projected rows, suppressions | ingest pass, resume, map, suppress, rebuild, open a generation | a batch read before the cursor moved, takeovers of the lease, refused replays, failing readers | projections are a replay of the stream behind the cursor, halts are true and last |
| Agent hub (`agent_hub_runtime.py`, `agent_hub.py`) | task rows in `hub.db`, the `_running` registry, one thread per running task, steering messages | create, dispatch, cancel, pause, resume, retry, steer, decide, delete, restart | the dispatcher acts on rows read earlier, requests that race the end of a turn, a failing `hub.db` | a task runs as often as it was queued, no row without its thread, the queue drains |
| Team rooms (`hub_team.py`) | inline turns in the same registry, wait-for edges, asks | ask, give the floor, refuse, stop, approve or deny inside a turn | chains that wait for each other, write permissions that change during a wait | no cycle, one chain per project lock, every ask settles |
| Presence and conversations (`presence.py`, `live_conversation.py`, `embodied_presence.py`) | jobs, modes, transcripts | submit, stream, interrupt, delete | a turn outliving its conversation | answers land where they were asked |
| Memory content (`memory_spine.py`, `memory_graph.py`, `memory_claims.py`, learning ladder, ...) | append-only event and claim stores | append, derive, compact | data, not interleaving | out of scope for the most part |
| Interfaces, providers, tools, evaluation | none shared | I/O | | out of scope |

The worker asks the queue for tasks, the tools it runs ask the approval store, the
operator answers from any surface, and the queue is told of the answer through the
request a task is parked on. The same worker loop runs the bridge's passes over the
event stream the multi-agent runtime writes into its own database. The hub has its own
database and dispatcher; its tasks call the tools of the agent inside their threads, and
the team rooms share its registry of running agents. Presence, CLI and desktop turns ask the same store
under the scope of their conversation. Long-horizon plans have their own tables
and share only the operator switch. `PROJECT.json` lists every component, the
ones that are not modelled with the reason, and the hazards of this code by line.

## 2. Modules

| Module | Models |
|---|---|
| `TaskQueue` | the queue, the task side of approvals, the switch, the worker processes |
| `ConsentLedger` | what the approval table promises the worker: one current request per call, a grant is used once |
| `ApprovalGrants` | foreground approvals and standing grants against the life of conversations |
| `StandingConsent` | what they promise: each call that goes through uses a consent that was given |
| `LongHorizon` | one registered plan, its workers, reconcilers, verifiers and the world it acts on |
| `StageLedger` | what a plan promises the world: effects at most once, in order, nothing after its end |
| `HubTasks` | the life of hub tasks: rows, dispatcher, threads, operator requests, restart |
| `WorkQueue` | what a queue of work promises: each run has its permit, rivals never run together, what completed stays so |
| `HubTeam` | hub agents that answer each other inline: registry, project lock, waiting, refusals |
| `MemoryBridge` | ingest passes, lease, halts, rebuilds and generations of the replay bridge |
| `EventFollower` | what a reader of a stream promises: it consumes every event in order, or stops |
| `MC*` | values and symmetry for TLC |
| `TaskQueueProofs`, `ApprovalGrantsProofs`, `LongHorizonProofs`, `LongHorizonBooksProofs`, `HubTasksProofs`, `HubTeamProofs`, `MemoryBridgeProofs` | the theorems |
| `BoundedInduction` | two facts the proofs share: a bounded set of naturals has a greatest element, and induction up to a bound |

### TaskQueue

A worker is a process with a `phase`. One action is one store call or one
uninterrupted stretch of `worker()` in `cli.py`:

| Action | Code |
|---|---|
| `Submit` | `add_task` and specialist tasks |
| `Claim`, `ClaimNothing` | `claim_task`, with `_recover_stale_locked` over all expired rows first, as in the code |
| `Renew`, `HeartbeatFails` | the lease heartbeat thread |
| `PassGuard`, then `Consume`, `MeetPending` or `Request` | the guard of a tool call, then `authorize_or_request`; they are separate because the switch may change in between |
| `EndRun`, `Raise`, `ConfirmLease` | the agent returns or raises; the lease is renewed once before anything is stored |
| `Finish`, `Incomplete`, `Park`, `CannotPark`, `FailUnbound` | `finish_task`, `fail_task`, `await_task_approval` and what follows when it returns None |
| `Approve`, `Deny` | `decide_approval`, which also wakes or fails the parked task |
| `StoreFails`, `Crash`, `Start`, `ExitOnStop` | exceptions, process death, restart, stop |
| `SetControl`, `Tick` | the operator's switch, the clock |

Time is kept as the time left until a stamp, lowered by `Tick`, so it needs no
bound. `executed` is a history variable: how often an approval let a call through.

### ApprovalGrants

Requests, decisions (once, for this chat, always, deny), revocation and expiry,
and `delete_conversation`. Fingerprints and redaction are abstracted to the identity
of the exact call; an id is handed out again after its conversation is deleted,
because `conversations.id` is a rowid without AUTOINCREMENT.

### LongHorizon

Every public call of the store that changes a plan is an action, named after it.
`Readable` is the validator that runs at the head of each call. Leases and permits
are Booleans that may lapse at any moment: their length is the caller's choice, and
renewal can only delay a lapse that may come anyway. The claim token is fresh at each
claim, as is the attempt number, so the attempt stands for it; `hand` is the token a
worker id last received, which another process of the same id may not have got.
`flying` and `landed` are the outside world. Exhausted retries follow the code: plan
and stage fail, and that is committed although the call raises. The `quarantined`
stage status is never assigned by the code and is left out. A reservation costs one
unit. Keyed digests and the other validators compare two records of one write: they
matter only when rows are edited behind the store, which is not modelled.

### HubTasks

A transaction of `hub.db` is one action, and so is a stretch under the registry's lock.
What matters is how the steps are cut:

| Action | Code |
|---|---|
| `ReadQueue`, then `Dispatch`, or `DispatchFails` at a row | `dispatch_once`: one transaction reads the queue; a loop then starts what was read or sends it to wait, and ends at the first access that fails |
| `BeginTurn`, `EndTurn`, `Raise`, `Fail`, `ReadCancel`, `Settle`, `Leave` | `_execute` and `_finish` in the executor thread; `EndState` says which state a result gives |
| `ThreadDies`, `FinishRaises`, `FailLost` | the same code when an access to `hub.db` raises, or before the try block one to the project's directory |
| `Ask`, then `Late` | `cancel` and `pause`: the registry is asked under its lock, the row is set afterwards |
| `Create`, `Resume`, `Retry`, `Steer`, `Decide`, `Delete`, `Enable`, `Disable`, `Close` | the requests of the same names |
| `Restart` | a new backend: `_initialize` turns RUNNING rows into INTERRUPTED |

`Takes` says which rows the loop of one poll starts, without going through them in order. `Turning`
holds of a task from its registration until its thread has settled the row or died, and `Phase` and `spare` are what `WorkQueue` sees of a task.

`spare` is a history variable: times queued minus times started. `left.clean` says whether
every access to `hub.db` succeeded so far, because the code promises less when one failed.

### HubTeam

`Ask` is both `ask` and a room's invitation, as both go through `_acquire`, whose loop is
`ReadGrant` (settings, outside the lock) and then, under the lock and as often as needed,
`Refuse`, `WaitFor`, `Register` or `GiveUp`. `Reaches` is `_reaches` stated as a closed set:
the walk along `_edges` ends at the goal exactly when every closed set that holds the start
holds it. `BeginTurn` reads the settings for the second time and installs the tools. A chain
is named by the agent whose task it is. A step that needs an approval waits in `"approval"`
in the turn of an agent that answers inline, and in `"own"` in the turn a chair takes in its
own room: there `_acquire` was not called, and the end of the wait leaves the chair at work.

### MemoryBridge

| Action | Code |
|---|---|
| `Acquire`, `Read`, `Import`, `EndPass`, `Release` | `ingest_once` with `acquire_ingest_lease`, `renew_ingest_lease`, `import_batch`, `release_ingest_lease` |
| `LosesLease`, `Bounces` | the renewal fails; the compare-and-set on the cursor fails, or the consumer is halted |
| `ReadFails`, `ReportFailure` | the reader raises, and a structural failure is recorded by `halt_for_reader_failure` under the lease |
| `Resume`, `MapProject`, `Suppress`, `Rebuild`, `OpenGeneration` | the operator's calls of the same names |
| `Append`, `Tick`, `Crash` | the runtime writes an event, time passes, a worker process dies |

Events are numbered; what the model knows of one is its type, its project and whether its
envelope is accepted. A projected row is the event it came from. The read of the cursor and of
the reader are one step: a cursor that moves in between fails the comparison all the same,
and the stream only grows. The compare-and-set of the code compares the sequence and the
event id and not the generation, and so does `Current`. `Halts` is what
`EventFollower` sees of the consumer's halt code. A worker that starts anew has a new
name and a new token, so a crashed holder is `Dead`. `HaltCodes` names the classes of halt
that differ in what the operator can do.

## 3. Runs

| Run | Instance | Shows |
|---|---|---|
| `task_lifecycle` | 1 task, 2 sensitive calls, 2 workers, 1 specialist, 2 requests, 2 attempts (310,000 states) | all queue, specialist and approval invariants; a run ends rightly; outcomes are final; the approval rows implement `ConsentLedger` |
| `task_progress` | 1 task, 2 workers, 1 request, under fairness (18,000) | every task ends or parks once the switch stays on running |
| `grants` | 1 presence turn, 2 ids, 2 conversations, 3 requests, 2 calls (573,000) | grants stay tied to their request and conversation; decisions are final; implements `StandingConsent` |
| `plan` | 2 stages, the second mutating, 2 workers, 2 retries, 1 round of reconciliation per generation (326,000) | the type invariant and seven safety properties of a plan; implements `StageLedger` |
| `hub_tasks` | 2 tasks of 1 agent, 2 requests, 1 follow-up, 1 resume, 1 delay, 1 trouble, under fairness (761,000) | the implementation of `WorkQueue` (warranted runs, clashing tasks never together, completed work is final), rows that agree with threads, the queue drains |
| `hub_team` | 3 agents of 1 project, 1 request, no bound on tasks, asks and approvals, under fairness (81,000) | the project lock, chains that hang together, no circular wait; asks settle, if they are not overtaken for ever |
| `bridge` | 2 workers, 3 events, 2 generations, batches of 2, 2 requests, 1 trouble, under fairness (221,000) | rows are a replay, halts are earned, suppressed content stays out, the implementation of `EventFollower`, the cursor follows or halts |
| `grants_reuse`, `plan_again`, `plan_cancel`, `hub_cancel`, `hub_writers` | smallest that shows it | the findings of section 6 |

Why the bounds are enough. Two workers are a holder and the worker that replaces it;
a third only repeats the second. Two attempts make the first a retry and the
second the last. Two requests of a task are an old one and its successor; a lookup
that reads fewer rows than exist makes the code's LIMIT matter at this size. Leases,
delays and validities of one tick make each state "not yet" and "over" reachable.
Two retries give three generations of one stage, which a stale token needs to do harm.
The code admits plans of 5 to 64 stages (`stage_count BETWEEN 5 AND 64`); a stage only
ever waits for the one before it, so two stages, one of them mutating, show the
hand-over that every neighbouring pair repeats. The proofs hold for every length.
The bounds on rows and rounds sit in guards (`TaskCount`, `ApprovalCount`, `MaxChats`,
`MaxRequests`, `MaxRounds`, and in the hub `Requests`, `FollowUps`, `Delays`, `Troubles`) and are named constants. Symmetry is used over worker
names only, and not where liveness is checked.

In the hub, two tasks of one agent are what `busy_agents` and the queue's order are about,
and one project is where writers collide. Two requests are what a race between operators
needs; one trouble is one failed access or one restart at any point. One
delay lets a task that waits for its provider become due and resume by itself; the second resume
that the bound forbids is within reach through a sign-out and a sign-in. The agents' hub has no
capacity limit by default and none is modelled, and a task uses one provider. Three agents
give a chain of two inline turns and a wait by a third party, the shortest circle that
`_reaches` has to see through another agent; tasks, asks and approvals come as often as they
like, and only the changes of settings, stops and cancels share a bound (`MaxRequests`).

In the bridge, batches of two over three events give a full and a short batch; the events are one whose type the first generation
ignores, one of a project that has to be mapped and one that is malformed; two
requests of the operator cover map and resume, suppress and rebuild, and open and resume.

The deadlock check is off in the `hub_*` and `bridge` runs, because these systems really
stop there: once the bounded requests are used up, every task may be finished, waiting for an
approval or for a provider, and a halted bridge waits for its operator. It is on elsewhere.

Fairness (`TaskQueue!FairSpec`): time passes; a stopped worker process is started
again; a run ends, because the guard cancels it after `proactive_max_task_seconds`; a
worker stores its outcome; and a worker that is let poll again and again does poll
(strong fairness, because a crash or a pause may come between two polls). Store
failures and crashes are not fair and may happen for ever between these steps.
`HubTasks!FairSpec`: the dispatcher thread polls, and each executor thread runs and its turn
ends (the agent's time limits and the provider's timeouts see to it). `HubTeam!FairSpec`: the
same of every agent's thread. Neither assumes anything of the operator or of the provider's
sign-in: `QueuedIsServed` excuses a disabled agent.

`AsksAreSettled` has three premises, and TLC finds it violated without any one of them.
`OvertakingEnds`: `_acquire` polls every 0.25 s and keeps no place in a queue, so the dispatcher
or another chain may take the peer or its project between two polls, and an ask that is overtaken
for ever waits for ever. `TurnsEnd`: an agent that goes on asking, as the chair of a room may
(rooms have no limit of rounds), ends its task some time. `ApprovalsAreDecided`: the operator
answers approvals. What remains is the code's part: no entry is left behind, no circle of waits
forms, and a stop reaches an ask.

`MemoryBridge!FairSpec`: time passes and the worker loop of each process goes on with its
passes. `FollowsOrHalts` is stated for executions in which leases are not lost again and
again (`LeasesLast`): two workers, each slower than a lease, could take it from each other for
ever, and only the length of the lease against that of a batch of at most 5,000 events speaks
against it.
`LongHorizon` states no fairness and claims no liveness: the repository ships no
executor for plans (docs/LONG_HORIZON_WORKFLOWS.md:36), so nothing promises that
anybody calls the store.

## 4. Proofs

`TaskQueueProofs` proves for every number of workers, specialists, calls, tasks,
requests and attempts:

- `TypeCorrect`.
- `LeasesFollowRuns`, `WaitingTasksCanRun`, `SpecialistsNeverStranded`, `TalliesAreExact`, from the
  invariant `TaskInv` with `RowsReal` (what rows and processes that do not exist look
  like, and that a busy process works on a real task). A specialist is bound and
  unbound by six kinds of step; the lemmas about `Unlease` and `Release` carry them.
- `ApprovalsAreOneShot`, `OneLiveRequest`, `ParkedTasksAreBound`, from `ApprovalInv`.
  `RowsPrefix` (ids are given out in order) is what makes the newest row of a call the
  only live one, and `NewestIsScanned` shows a LIMIT of one row would already do.
- `RunsEndRightly`, `OutcomesAreFinal`: action properties from the same invariants.

- `TableKeepsLedger`: the approval rows implement `ConsentLedger`. The newest row of a call decides
  what the ledger shows of it (`Greatest` names that row); `ApprovalInv` gives that no older row is
  live, so that a decision, a use or a lapse, of whatever row, is one of the row that shows.

`TalliesAreExact` counts: the set of a specialist's finished tasks grows by one element in the
steps that raise its counter and in no other.

`ApprovalGrantsProofs` proves for every number of requests, conversations, calls and turns, and
for every bound of the lookup:

- `GrantTypes`, `DecisionsAreFinal`, and `GrantSources` from `SourceInv`;
- `ChatGrantsOwned`, assuming `Direct = {}`: every turn is one that a deletion waits for. With a
  direct turn the property is false, since a deletion does not see it;
- `TablesKeepConsent`: the tables implement `StandingConsent`, direct turns or not. Its invariant
  says that rows are a prefix (`RowsPrefix`), that they carry a scope that existed
  (`RowsScoped`), and that of several rows of a call in a scope only the newest is live
  (`NewestLives`); without the last one a lookup of few rows could miss a live request, and the
  abstract state would not be a function of the tables.

`HubTasksProofs` proves `HubTypes`, `HubRunsAreWarranted`, `HubNoSilentStall`, `HubCompletedIsFinal`,
`HubKeepsQueue` and `HubLoopIsDetermined` for any number of tasks, agents, requests, failures and
restarts. Every step of the hub is, for each single task, one of a dozen *moves* of its row, its
thread and its place in the dispatcher's view (`NextMoves`). The invariant is per row: what it still
owes is at least what could still start it (`Credit`), a view holds only what was queued when it was
read (`Fresh`), a row says RUNNING exactly for a thread at work while the database answers (`Seen`),
and what was read and not started is neither running nor settled (`Unstarted`). `Exclusive` relates
two tasks: those that clash (one agent, or two writers of one project) are never both registered
threads. `HubKeepsQueue` is the refinement: `PhaseMoves` maps each move of a task to a step of
`WorkQueue` or to none, and `Exclusive` gives the guard of the abstract start. The permits and phases
of `WorkQueue` say as much as `RunsAreWarranted` and `CompletedIsFinal`, so the run checks the
refinement and the theorems also state these two for themselves. `HubLoopIsDetermined` is about the
dispatcher's loop: `Takes` describes the set it starts by a property, and the theorem shows that
exactly one set has it, whatever queue was read.

`HubTeamProofs` proves `TeamTypes`, `TeamLockHolds`, `TeamNoCircularWait` and `TeamChains`. A path is not
an object of the model; the proofs use that reachability is a closed-set property, so a new edge
from an agent nobody can reach from its target leaves no cycle.

`MemoryBridgeProofs` proves `BridgeTypes`, `BridgeRowsAreReplay`, `BridgeKeepsSuppressed`,
`BridgeHaltsAreEarned` and `BridgeFollowsTheStream` for every stream, contract and project map. `RowsAreReplay` is inductive with
the types: an import extends the replay of a prefix by exactly what lies between the cursor and
the end of the batch (`ItemsExtend`), which needs that the batch was read at the cursor it is
imported at, and a replay that is accepted starts from nothing (`ItemsAreReplay`).
`BridgeFollowsTheStream` is the refinement of `EventFollower`: of all the workers and generations,
each step is at most one step of a single reader. An import is one only if the batch begins where
the cursor stands (`Stretch`), which `Current` checks in the transaction that moves it.

`LongHorizonProofs` proves `PlanTypeCorrect` and, for every number of stages, workers,
identities, retries and budgets:

- `PlanLeavesNoClaim`: no claim outlives its plan, assuming nothing of the world;
- `PlanIsSafe` (an effect at most once), `PlanRetriesCleanly` (retries only of attempts that left
  nothing) and `PlanKeepsLedger` (the store implements `StageLedger`), assuming `Patient`.

`Patient` says that whoever signs "not applied" waits until nothing of that stage is in flight. The
code cannot check this (it accepts a reconciliation while a claim is live) and the safety of a
second permit rests on it. The invariant is split accordingly: `Core` is what the store secures by
itself, `Calm` what needs patience, and `Safe == Core /\ (Patient => Calm)`.

The argument has two halves. Each of the store's steps is one of ten *moves* on
three columns of a stage (status, mutation state, attempt), the world, and the receipts
(`NextMoves`). Each move preserves `Safe`, whose parts say: in which mutation states a
pending or claimed row can be; where the effects of an attempt can be, given its row
(`EffectsPlaced`); that a retried attempt is over (`RetriesPlaced`); that completed
stages are a prefix and busy ones come right after it (`PrefixDone`, `BusyInOrder`); and
that "applied" is true (`AppliedLanded`). `EffectAtMostOnce` is not inductive without
them: it takes `EffectsPlaced` to see that a stage about to send has nothing in the world,
and `RetriesPlaced` to see that an old receipt does not speak of the attempt being sent.
`LedgerStep` maps each move to a step of the ledger or to none.

`LongHorizonBooksProofs` adds the plan's bookkeeping, without `Patient`:
`PlanPaysAttempts`, `PlanKeepsOrder`, `PlanChargesWork` and `PlanEarnsCompletion`. On top of the
moves, `NextBooks` says what a step may write: a receipt for a busy stage, one reservation
or retry within its budget, a checkpoint of a paid stage, and an answer for a stage that goes
back to pending. `Accounts` is inductive with `Safe`. Its parts that are not run as properties:
a row marked paid has the reservation of its present attempt, and a recorded intent is paid
(`Paid`), without which a permit could let an uncharged effect go; and a pending stage has
answered for its last attempt (`Settled`), without which the next claim would leave an
attempt nobody paid for. `FrontierIsNext` places whatever a step touches right after
the last checkpoint. TLC checked `Paid` and `Settled` on the instance of `plan` first.

`BoundedInduction` holds `Greatest` and `BoundedInduction`, both from the library's fact that strict
inclusion of finite sets is well founded. The induction speaks of sets of numbers and not of
predicates, which is what the provers can instantiate.

Only model-checked: liveness (`EveryTaskSettles`, `QueuedIsServed`, `AsksAreSettled`,
`FollowsOrHalts`), which is out of the prover's reach. Every other property of a passing run is
stated by a theorem. `LeasedIffRunning` is proved as a part of `TaskInv` and not run.

## 5. What is left out

In the modelled parts: reflections and activity rows, which are written best effort after
the outcome; the guard's elapsed-time and daily budgets; limits on delegation; redaction,
digests and display text; edits of the database behind the store; migrations. Of the hub:
chats and their turns, schedules, artifacts and previews, usage, the mirror of tasks in the
multi-agent runtime, helper agents, the messages, speakers' order and stalls of rooms. Of the
bridge: health and incident rows, quarantined fields (they are written and deleted with the
rows), audit rows, the gates before a pass, the version check (only one version exists), and what
the reducers make of an event.

Abstractions a reader of the code should know. `authorize_or_request` reads the clock before
`BEGIN IMMEDIATE` (`memory_approvals.py:206`), so an approval that lapses while the call waits for the
lock is still used; the model tests expiry in the step of the use, in `TaskQueue` and in
`ApprovalGrants`. The run `hub_tasks` concerns the queue of one agent; two agents that share
a project, and what their lock does to the order of the queue, are in the proofs of
`HubTasksProofs` and in `HubTeam`, but no run checks that such a task is served. `WAITING_INPUT` is
read by the hub and set by nothing. A record of the bridge may name a project of its own
(`memory_bridge.py:1794`); the model gives an event one project, that of the
lookup which fails, if one does. A suppression may name an event that has not come; the table has a column for its
release, and nothing in the repository writes it.

The rest is listed in `PROJECT.json` with reasons: interfaces and providers are I/O,
memory content is data rather than control, evaluation programs run alone over files.

## 6. Where the code and its documentation disagree

- **A one-shot approval survives its conversation** (`grants_reuse`). `delete_conversation`
  denies pending requests only. An approved, unused one stays, SQLite gives the id to
  the next conversation, and its turn uses the approval up. README.md:375 says an
  approval "must match the original execution scope".
- **A second "applied" makes a plan unreadable** (`plan_again`). A stage reconciled as
  applied is pending again, and is claimed to be checkpointed. A second signed "applied" then
  is accepted and written into the new generation, which has no intent; the validator
  rejects the plan from then on.
- **A cancelled plan becomes failed** (`plan_cancel`). Reconciling a cancelled plan as not
  applied with no retry left sets it to failed, against docs/LONG_HORIZON_WORKFLOWS.md:90.

- **A cancelled hub task may still start** (`hub_cancel`). The dispatcher starts what it read in an
  earlier transaction; `cancel` of such a task finds no thread and sets the row, and the
  dispatcher then overwrites it and runs the task. `hub_team.py:1099` relies on the opposite.
- **Two writers of one project** (`hub_writers`). Whether a run locks its project is decided from
  settings read before an unbounded wait; its tools come from settings read after it.
  `hub_team.py:3` and `agent_hub_runtime.py:541` promise one writer per project.

Smaller observations, which no run is about. `hub_team.py:13` says that an ask waits "until B is free";
as its loop only polls (`hub_team.py:344`), B may be free between any two polls and taken anew each
time, so the ask may starve (`OvertakingEnds` excludes it). On the bridge: `_write_halt` is given `previous + 1` as
the sequence of the halt: for an unmapped project `previous` already is the offending event, so
the row, and `jarvis bridge status`, name the event after it. The docstring of `resume`
(`memory_bridge.py:1577`) says only it clears a halt; an accepted rebuild does so as well.
`set_project_mapping` forbids two names of one memory project within one call only.

Two more sequences of accepted calls violate `PlanStaysReadable` in the same model, and
are listed as a hazard. With `N = 1` and `Mutating = {}`, an intent on a stage that mutates
nothing is recorded and then rejected by the validator (line 1801). With two `Actors`, a
result under another identity than the intent's is recorded and then rejected
(line 1824).

## 7. Plan

Done: `TaskQueue`, `ApprovalGrants`, `LongHorizon`, `HubTasks`, `HubTeam`, `MemoryBridge`, the abstract
specifications of all but `HubTeam` and the proofs above. What would come next, in this order:

1. `Scheduler`: jobs and learning topics queue tasks into the rows of `TaskQueue`. A slot
   yields one task over two workers and a clock read before the lock; a topic that is enabled again
   more often than its interval never comes due; a failing schedule skips the claims of its pass.
2. `MultiAgentRuntime`, the writer of the stream that `MemoryBridge` reads: the event sequence and the
   ownership of tasks, composed with the bridge.
3. Presence jobs and conversation turns, composed with `ApprovalGrants`.
4. Chats, schedules and helper agents of the hub, over `HubTasks` and `HubTeam`.
5. The generations of the embedding index.

Theorem wanted: an abstract specification of chains of turns that `HubTeam` implements.

----------------------------- MODULE TaskQueue -----------------------------
(***************************************************************************)
(* The durable background-task queue: the tasks, approvals and             *)
(* specialist_agents tables, the operator's runtime_control switch, and    *)
(* the worker processes that lease tasks, run them and report.             *)
(*                                                                         *)
(* Every store call runs in one BEGIN IMMEDIATE transaction, so each is    *)
(* one action; a worker's progress between two calls is its own phase,     *)
(* and any other actor may step in between.                                *)
(*                                                                         *)
(* A timestamp is kept as the time left until it: lease_expires_at,        *)
(* available_at and expires_at become counters that Tick lowers to 0       *)
(* ("at or before now"), so time needs no bound.                           *)
(***************************************************************************)
EXTENDS Integers, FiniteSets

CONSTANTS
    Workers,        \* names of the worker processes that poll the queue
    Specialists,    \* agent_key values of specialist_agents
    Effects,        \* the sensitive calls a task may need approved
    NoWorker, NoSpecialist, NoEffect,
    TaskCount,      \* bound: rows of tasks
    ApprovalCount,  \* bound: rows of approvals
    MaxAttempts,    \* tasks.max_attempts
    LeaseLength,    \* WORKER_LEASE_SECONDS, in ticks
    RetryDelay,     \* _retry_delay, in ticks
    ApprovalTTL,    \* JARVIS_APPROVAL_TTL_HOURS, in ticks
    ScanLimit       \* LIMIT of the approval lookup (5 in the code)

ASSUME CountsAssumption ==
    /\ TaskCount \in Nat \ {0}
    /\ ApprovalCount \in Nat
    /\ MaxAttempts \in Nat \ {0}
    /\ LeaseLength \in Nat \ {0}
    /\ RetryDelay \in Nat
    /\ ApprovalTTL \in Nat \ {0}
    /\ ScanLimit \in Nat \ {0}
ASSUME NamesAssumption == 
    NoWorker \notin Workers /\ NoSpecialist \notin Specialists /\ NoEffect \notin Effects

TaskIds == 1..TaskCount
ApprovalIds == 1..ApprovalCount
None == 0   \* NULL for a task or approval id

VARIABLES
    control,                              \* runtime_control.state
    status, owner, lease, delay, attempts, awaiting, spec,    \* tasks
    spStatus, spTask, spDone, spFailed,                       \* specialist_agents
    aStatus, aTask, aEffect, ttl, executed,                   \* approvals
    phase, job, seen, lost                                    \* worker processes

taskVars == <<status, owner, lease, delay, attempts, awaiting, spec>>
specialistVars == <<spStatus, spTask, spDone, spFailed>>
approvalVars == <<aStatus, aTask, aEffect, ttl, executed>>
workerVars == <<phase, job, seen, lost>>
vars == <<control, taskVars, specialistVars, approvalVars, workerVars>>

ControlStates == {"running", "paused", "stopped"}
TaskStates == {"absent", "queued", "running", "awaiting_approval", "done", "failed"}
TerminalStates == {"done", "failed"}
ApprovalStates == {"absent", "pending", "approved", "denied", "consumed", "expired"}
\* off: no process; calling: between the cancellation check and the store call;
\* reporting: run over, lease in doubt; recording: about to store the outcome;
\* unbound: await_task_approval refused, fail_task still to come.
Phases == {"off", "idle", "running", "calling", "reporting", "recording", "unbound"}

TypeOK ==
    /\ control \in ControlStates
    /\ status \in [TaskIds -> TaskStates]
    /\ owner \in [TaskIds -> Workers \cup {NoWorker}]
    /\ lease \in [TaskIds -> 0..LeaseLength]
    /\ delay \in [TaskIds -> 0..RetryDelay]
    /\ attempts \in [TaskIds -> 0..MaxAttempts]
    /\ awaiting \in [TaskIds -> ApprovalIds \cup {None}]
    /\ spec \in [TaskIds -> Specialists \cup {NoSpecialist}]
    /\ spStatus \in [Specialists -> {"ready", "working"}]
    /\ spTask \in [Specialists -> TaskIds \cup {None}]
    /\ spDone \in [Specialists -> Nat]
    /\ spFailed \in [Specialists -> Nat]
    /\ aStatus \in [ApprovalIds -> ApprovalStates]
    /\ aTask \in [ApprovalIds -> TaskIds \cup {None}]
    /\ aEffect \in [ApprovalIds -> Effects \cup {NoEffect}]
    /\ ttl \in [ApprovalIds -> 0..ApprovalTTL]
    /\ executed \in [ApprovalIds -> Nat]
    /\ phase \in [Workers -> Phases]
    /\ job \in [Workers -> TaskIds \cup {None}]
    /\ seen \in [Workers -> ApprovalIds \cup {None}]
    /\ lost \in [Workers -> BOOLEAN]

Init ==
    /\ control = "running"
    /\ status = [t \in TaskIds |-> "absent"]
    /\ owner = [t \in TaskIds |-> NoWorker]
    /\ lease = [t \in TaskIds |-> 0]
    /\ delay = [t \in TaskIds |-> 0]
    /\ attempts = [t \in TaskIds |-> 0]
    /\ awaiting = [t \in TaskIds |-> None]
    /\ spec = [t \in TaskIds |-> NoSpecialist]
    /\ spStatus = [s \in Specialists |-> "ready"]
    /\ spTask = [s \in Specialists |-> None]
    /\ spDone = [s \in Specialists |-> 0]
    /\ spFailed = [s \in Specialists |-> 0]
    /\ aStatus = [x \in ApprovalIds |-> "absent"]
    /\ aTask = [x \in ApprovalIds |-> None]
    /\ aEffect = [x \in ApprovalIds |-> NoEffect]
    /\ ttl = [x \in ApprovalIds |-> 0]
    /\ executed = [x \in ApprovalIds |-> 0]
    /\ phase = [w \in Workers |-> "off"]
    /\ job = [w \in Workers |-> None]
    /\ seen = [w \in Workers |-> None]
    /\ lost = [w \in Workers |-> FALSE]

-----------------------------------------------------------------------------
(* Specialist bookkeeping shared by every call that takes a task out of     *)
(* "running": UPDATE specialist_agents ... WHERE active_task_id = the task. *)

Holds(s, t) == spec[t] = s /\ spTask[s] = t
PlusIf(n, b) == IF b THEN n + 1 ELSE n

\* Mutant: a retried attempt is counted as a failed task.
ReleaseCountsRetries(t, next) ==
    /\ spStatus' = [s \in Specialists |-> IF Holds(s, t) THEN "ready" ELSE spStatus[s]]
    /\ spTask' = [s \in Specialists |-> IF Holds(s, t) THEN None ELSE spTask[s]]
    /\ spDone' = [s \in Specialists |-> PlusIf(spDone[s], Holds(s, t) /\ next = "done")]
    /\ spFailed' = [s \in Specialists |-> PlusIf(spFailed[s], Holds(s, t) /\ next # "done")]

Release(t, next) ==
    /\ spStatus' = [s \in Specialists |-> IF Holds(s, t) THEN "ready" ELSE spStatus[s]]
    /\ spTask' = [s \in Specialists |-> IF Holds(s, t) THEN None ELSE spTask[s]]
    /\ spDone' = [s \in Specialists |-> PlusIf(spDone[s], Holds(s, t) /\ next = "done")]
    /\ spFailed' = [s \in Specialists |-> PlusIf(spFailed[s], Holds(s, t) /\ next = "failed")]

(* A task row leaves "running": its lease columns become NULL.              *)
Unlease(t) ==
    /\ owner' = [owner EXCEPT ![t] = NoWorker]
    /\ lease' = [lease EXCEPT ![t] = 0]

\* Mutant: recovery takes every row without a live lease.
StaleUnleased(t) == status[t] # "absent" /\ lease[t] = 0

(* _recover_stale_locked, as the tables it leaves behind.                   *)
Stale(t) == status[t] = "running" /\ lease[t] = 0
\* Mutant: one attempt too many is let back into the queue.
ExhaustedOffByOne(t) == attempts[t] > MaxAttempts

Exhausted(t) == attempts[t] >= MaxAttempts

\* Mutant: a stale row without an attempt left is passed over.
RecoveredStatusRetriesOnly == [t \in TaskIds |->
    IF Stale(t) /\ ~Exhausted(t) THEN "queued" ELSE status[t]]

RecoveredStatus == [t \in TaskIds |->
    IF ~Stale(t) THEN status[t] ELSE IF Exhausted(t) THEN "failed" ELSE "queued"]
RecoveredOwner == [t \in TaskIds |-> IF Stale(t) THEN NoWorker ELSE owner[t]]
RecoveredDelay == [t \in TaskIds |-> IF Stale(t) /\ ~Exhausted(t) THEN 0 ELSE delay[t]]
\* Mutant: recovery frees the specialist only of a task that it fails.
HoldsStaleExhausted(s) == \E t \in TaskIds : Stale(t) /\ Exhausted(t) /\ Holds(s, t)

HoldsStale(s) == \E t \in TaskIds : Stale(t) /\ Holds(s, t)
RecoveredSpStatus == [s \in Specialists |-> IF HoldsStale(s) THEN "ready" ELSE spStatus[s]]
RecoveredSpTask == [s \in Specialists |-> IF HoldsStale(s) THEN None ELSE spTask[s]]
RecoveredSpFailed == [s \in Specialists |->
    PlusIf(spFailed[s], \E t \in TaskIds : Stale(t) /\ Holds(s, t) /\ Exhausted(t))]

RecoverStale ==
    /\ status' = RecoveredStatus
    /\ owner' = RecoveredOwner
    /\ delay' = RecoveredDelay
    /\ spStatus' = RecoveredSpStatus
    /\ spTask' = RecoveredSpTask
    /\ spFailed' = RecoveredSpFailed
    /\ UNCHANGED <<lease, attempts, awaiting, spec, spDone>>

-----------------------------------------------------------------------------
(* The operator and the clock.                                              *)

\* Memory.set_control_state
SetControl(c) ==
    /\ c # control
    /\ control' = c
    /\ UNCHANGED <<taskVars, specialistVars, approvalVars, workerVars>>

Lower(f) == [x \in DOMAIN f |-> IF f[x] > 0 THEN f[x] - 1 ELSE 0]

Tick ==
    /\ \/ \E t \in TaskIds : lease[t] > 0 \/ delay[t] > 0
       \/ \E x \in ApprovalIds : ttl[x] > 0
    /\ lease' = Lower(lease)
    /\ delay' = Lower(delay)
    /\ ttl' = Lower(ttl)
    /\ UNCHANGED <<control, status, owner, attempts, awaiting, spec, specialistVars,
                   aStatus, aTask, aEffect, executed, workerVars>>

\* Memory.add_task (s = NoSpecialist) and Memory.delegate_specialist_task;
\* d > 0 is a task scheduled with available_at in the future.
Submit(t, s, d) ==
    /\ status[t] = "absent"
    /\ \A u \in TaskIds : u < t => status[u] # "absent"
    /\ s # NoSpecialist => d = 0
    /\ status' = [status EXCEPT ![t] = "queued"]
    /\ delay' = [delay EXCEPT ![t] = d]
    /\ spec' = [spec EXCEPT ![t] = s]
    /\ UNCHANGED <<control, owner, lease, attempts, awaiting, specialistVars,
                   approvalVars, workerVars>>

-----------------------------------------------------------------------------
(* decide_approval.                                                         *)

Approve(x) ==
    LET t == aTask[x]
        parked == status[t] = "awaiting_approval" /\ awaiting[t] = x
    IN  /\ aStatus[x] = "pending"
        /\ aStatus' = [aStatus EXCEPT ![x] = "approved"]
        /\ ttl' = [ttl EXCEPT ![x] = ApprovalTTL]
        /\ IF parked
           THEN /\ status' = [status EXCEPT ![t] = "queued"]
                /\ delay' = [delay EXCEPT ![t] = 0]
                /\ awaiting' = [awaiting EXCEPT ![t] = None]
                /\ Unlease(t)
           ELSE UNCHANGED <<status, delay, awaiting, owner, lease>>
        /\ UNCHANGED <<control, attempts, spec, specialistVars, aTask, aEffect, executed,
                       workerVars>>

Deny(x) ==
    LET t == aTask[x]
        bound == status[t] \in {"running", "queued", "awaiting_approval"} /\ awaiting[t] = x
    IN  /\ aStatus[x] = "pending"
        /\ aStatus' = [aStatus EXCEPT ![x] = "denied"]
        /\ IF bound
           THEN /\ status' = [status EXCEPT ![t] = "failed"]
                /\ awaiting' = [awaiting EXCEPT ![t] = None]
                /\ Unlease(t)
                /\ Release(t, "failed")
           ELSE UNCHANGED <<status, awaiting, owner, lease, specialistVars>>
        /\ UNCHANGED <<control, delay, attempts, spec, aTask, aEffect, ttl, executed,
                       workerVars>>

-----------------------------------------------------------------------------
(* The worker process: run_worker and its _LeaseHeartbeat thread.           *)

\* Mutant: any worker that once claimed the task may report on it.
MineUnlessOver(w) == job[w] # None /\ status[job[w]] = "running"

Mine(w) == job[w] # None /\ status[job[w]] = "running" /\ owner[job[w]] = w

Become(w, p) == phase' = [phase EXCEPT ![w] = p]

\* The process forgets its job and polls again (or exits).
Drop(w, p) ==
    /\ Become(w, p)
    /\ job' = [job EXCEPT ![w] = None]
    /\ seen' = [seen EXCEPT ![w] = None]
    /\ lost' = [lost EXCEPT ![w] = FALSE]

\* run_worker begins with memory.recover_stale_tasks().
Start(w) ==
    /\ phase[w] = "off"
    /\ Become(w, "idle")
    /\ RecoverStale
    /\ UNCHANGED <<control, approvalVars, job, seen, lost>>

\* The queued rows claim_task may take, after its own stale recovery.
Claimable == {t \in TaskIds :
    /\ RecoveredStatus[t] = "queued"
    /\ attempts[t] < MaxAttempts
    /\ RecoveredDelay[t] = 0
    /\ spec[t] # NoSpecialist => RecoveredSpStatus[spec[t]] = "ready"}

Claim(w, t) ==
    /\ phase[w] = "idle"
    /\ control = "running"
    /\ t \in Claimable
    /\ \A u \in Claimable : t <= u
    /\ status' = [RecoveredStatus EXCEPT ![t] = "running"]
    /\ owner' = [RecoveredOwner EXCEPT ![t] = w]
    /\ lease' = [lease EXCEPT ![t] = LeaseLength]
    /\ delay' = RecoveredDelay
    /\ attempts' = [attempts EXCEPT ![t] = @ + 1]
    /\ spStatus' = [s \in Specialists |-> IF spec[t] = s THEN "working" ELSE RecoveredSpStatus[s]]
    /\ spTask' = [s \in Specialists |-> IF spec[t] = s THEN t ELSE RecoveredSpTask[s]]
    /\ spFailed' = RecoveredSpFailed
    /\ Become(w, "running")
    /\ job' = [job EXCEPT ![w] = t]
    /\ UNCHANGED <<control, awaiting, spec, spDone, approvalVars, seen, lost>>

\* claim_task finds nothing to take; what it recovered stays recovered.
ClaimNothing(w) ==
    /\ phase[w] = "idle"
    /\ control = "running"
    /\ Claimable = {}
    /\ RecoverStale
    /\ UNCHANGED <<control, approvalVars, workerVars>>

\* The worker loop returns when it reads "stopped".
ExitOnStop(w) ==
    /\ phase[w] = "idle"
    /\ control = "stopped"
    /\ Drop(w, "off")
    /\ UNCHANGED <<control, taskVars, specialistVars, approvalVars>>

\* One beat of the heartbeat thread: renew_task_lease, or note the loss.
Renew(w) ==
    /\ phase[w] \in {"running", "calling"}
    /\ ~lost[w]
    /\ IF Mine(w)
       THEN lease' = [lease EXCEPT ![job[w]] = LeaseLength] /\ UNCHANGED lost
       ELSE lost' = [lost EXCEPT ![w] = TRUE] /\ UNCHANGED lease
    /\ UNCHANGED <<control, status, owner, delay, attempts, awaiting, spec,
                   specialistVars, approvalVars, phase, job, seen>>

\* The heartbeat thread dies of an exception (a locked or missing database).
HeartbeatFails(w) ==
    /\ phase[w] \in {"running", "calling"}
    /\ ~lost[w]
    /\ lost' = [lost EXCEPT ![w] = TRUE]
    /\ UNCHANGED <<control, taskVars, specialistVars, approvalVars, phase, job, seen>>

\* RuntimeGuard lets a sensitive tool call begin.
PassGuard(w) ==
    /\ phase[w] = "running"
    /\ ~lost[w]
    /\ control = "running"
    /\ Become(w, "calling")
    /\ UNCHANGED <<control, taskVars, specialistVars, approvalVars, job, seen, lost>>

-----------------------------------------------------------------------------
(* authorize_or_request for a background task: the newest ScanLimit rows    *)
(* with the task's scope and the call's fingerprint, newest first, up to    *)
(* the first one that is still approved or still pending.                   *)

SameCall(t, e) == {x \in ApprovalIds : aStatus[x] # "absent" /\ aTask[x] = t /\ aEffect[x] = e}
Scanned(t, e) ==
    {x \in SameCall(t, e) : Cardinality({y \in SameCall(t, e) : y > x}) < ScanLimit}
\* Mutants: a used approval, or one whose time is up, still lets a call through.
GrantedTwice(x) == aStatus[x] \in {"approved", "consumed"} /\ ttl[x] > 0
GrantedForever(x) == aStatus[x] = "approved"

Granted(x) == aStatus[x] = "approved" /\ ttl[x] > 0
\* Mutant: a request still pending does not keep the call from asking again.
LiveIgnoresPending(x) == Granted(x)

Live(x) == aStatus[x] = "pending" \/ Granted(x)
Answers(x, t, e) == x \in Scanned(t, e) /\ Live(x) /\ \A y \in Scanned(t, e) : y > x => ~Live(y)
NoAnswer(t, e) == \A x \in Scanned(t, e) : ~Live(x)

\* Rows passed over on the way are marked expired when their time is up.
Lapsed(S) == {x \in S : aStatus[x] = "approved" /\ ttl[x] = 0}
Expire(S) == [x \in ApprovalIds |-> IF x \in Lapsed(S) THEN "expired" ELSE aStatus[x]]

\* _link_pending_approval_locked: whoever runs the task, no owner is checked.
Link(t, x) ==
    awaiting' = IF status[t] = "running" THEN [awaiting EXCEPT ![t] = x] ELSE awaiting

\* The run stops on ApprovalRequired; its heartbeat stops with it.
StopOn(w, x) ==
    /\ seen' = [seen EXCEPT ![w] = x]
    /\ Become(w, IF lost[w] THEN "reporting" ELSE "recording")

Consume(w, e, x) ==
    LET t == job[w]
        newer == {y \in Scanned(t, e) : y > x}
    IN  /\ phase[w] = "calling"
        /\ Answers(x, t, e)
        /\ Granted(x)
        /\ aStatus' = [Expire(newer) EXCEPT ![x] = "consumed"]
        /\ executed' = [executed EXCEPT ![x] = @ + 1]
        /\ awaiting' = IF awaiting[t] = x THEN [awaiting EXCEPT ![t] = None] ELSE awaiting
        /\ Become(w, "running")
        /\ UNCHANGED <<control, status, owner, lease, delay, attempts, spec, specialistVars,
                       aTask, aEffect, ttl, job, seen, lost>>

MeetPending(w, e, x) ==
    LET t == job[w]
        newer == {y \in Scanned(t, e) : y > x}
    IN  /\ phase[w] = "calling"
        /\ Answers(x, t, e)
        /\ aStatus[x] = "pending"
        /\ aStatus' = Expire(newer)
        /\ Link(t, x)
        /\ StopOn(w, x)
        /\ UNCHANGED <<control, status, owner, lease, delay, attempts, spec, specialistVars,
                       aTask, aEffect, ttl, executed, job, lost>>

Request(w, e, x) ==
    LET t == job[w]
    IN  /\ phase[w] = "calling"
        /\ NoAnswer(t, e)
        /\ aStatus[x] = "absent"
        /\ \A y \in ApprovalIds : y < x => aStatus[y] # "absent"
        /\ aStatus' = [Expire(Scanned(t, e)) EXCEPT ![x] = "pending"]
        /\ aTask' = [aTask EXCEPT ![x] = t]
        /\ aEffect' = [aEffect EXCEPT ![x] = e]
        /\ Link(t, x)
        /\ StopOn(w, x)
        /\ UNCHANGED <<control, status, owner, lease, delay, attempts, spec, specialistVars,
                       ttl, executed, job, lost>>

-----------------------------------------------------------------------------
(* The end of a run and what the worker stores about it.                    *)

\* agent.run returns a final or an incomplete result.
EndRun(w) ==
    /\ phase[w] = "running"
    /\ Become(w, IF lost[w] THEN "reporting" ELSE "recording")
    /\ UNCHANGED <<control, taskVars, specialistVars, approvalVars, job, seen, lost>>

\* A lost heartbeat: one more renewal decides whether the result is kept.
ConfirmLease(w) ==
    /\ phase[w] = "reporting"
    /\ IF Mine(w)
       THEN /\ lease' = [lease EXCEPT ![job[w]] = LeaseLength]
            /\ Become(w, "recording")
            /\ UNCHANGED <<job, seen, lost>>
       ELSE Drop(w, "idle") /\ UNCHANGED lease
    /\ UNCHANGED <<control, status, owner, delay, attempts, awaiting, spec,
                   specialistVars, approvalVars>>

\* finish_task, for a result that completed.
Finish(w) ==
    LET t == job[w]
    IN  /\ phase[w] = "recording"
        /\ seen[w] = None
        /\ IF Mine(w)
           THEN /\ status' = [status EXCEPT ![t] = "done"]
                /\ awaiting' = [awaiting EXCEPT ![t] = None]
                /\ Unlease(t)
                /\ Release(t, "done")
           ELSE UNCHANGED <<status, awaiting, owner, lease, specialistVars>>
        /\ Drop(w, "idle")
        /\ UNCHANGED <<control, delay, attempts, spec, approvalVars>>

\* fail_task; only a row that goes back to the queue has its delay read again.
FailTask(w, retry, wait) ==
    LET t == job[w]
        next == IF retry /\ ~Exhausted(t) THEN "queued" ELSE "failed"
    IN  IF Mine(w)
        THEN /\ status' = [status EXCEPT ![t] = next]
             /\ delay' = IF next = "queued" THEN [delay EXCEPT ![t] = wait] ELSE delay
             /\ awaiting' = [awaiting EXCEPT ![t] = None]
             /\ Unlease(t)
             /\ Release(t, next)
        ELSE UNCHANGED <<status, delay, awaiting, owner, lease, specialistVars>>

\* An incomplete result, retryable or not.
Incomplete(w, retry) ==
    /\ phase[w] = "recording"
    /\ seen[w] = None
    /\ FailTask(w, retry, RetryDelay)
    /\ Drop(w, "idle")
    /\ UNCHANGED <<control, attempts, spec, approvalVars>>

\* agent.run raises, or Ctrl+C; the lease is not checked first.
Raise(w, wait, next) ==
    /\ phase[w] \in {"running", "calling"}
    /\ FailTask(w, TRUE, wait)
    /\ Drop(w, next)
    /\ UNCHANGED <<control, attempts, spec, approvalVars>>

\* await_task_approval for the request this run was told about.
Parkable(w) ==
    /\ Mine(w)
    /\ aStatus[seen[w]] \in {"pending", "approved", "denied"}
    /\ aTask[seen[w]] = job[w]
    /\ awaiting[job[w]] = seen[w]

\* Parking gives the attempt back.
\* Mutant: an attempt too many is given back.
RefundTwo(n) == n - 2
Refund(n) == IF n > 0 THEN n - 1 ELSE 0

\* Mutant: the approval that arrived while the task was parking is missed.
AfterAwaitMissesApproval(x) == IF aStatus[x] = "denied" THEN "failed" ELSE "awaiting_approval"

AfterAwait(x) == CASE aStatus[x] = "pending" -> "awaiting_approval"
                   [] aStatus[x] = "approved" -> "queued"
                   [] OTHER -> "failed"

Park(w) ==
    LET t == job[w]
        x == seen[w]
        next == AfterAwait(x)
    IN  /\ phase[w] = "recording"
        /\ x # None
        /\ Parkable(w)
        /\ status' = [status EXCEPT ![t] = next]
        /\ delay' = [delay EXCEPT ![t] = 0]
        /\ awaiting' = IF next = "awaiting_approval" THEN awaiting
                                                   ELSE [awaiting EXCEPT ![t] = None]
        /\ attempts' = [attempts EXCEPT ![t] = Refund(@)]
        /\ Unlease(t)
        /\ Release(t, next)
        /\ Drop(w, "idle")
        /\ UNCHANGED <<control, spec, approvalVars>>

\* await_task_approval returns None (or "failed", when the denial got there
\* first: the fail_task that None leads to changes nothing then either).
CannotPark(w) ==
    /\ phase[w] = "recording"
    /\ seen[w] # None
    /\ ~Parkable(w)
    /\ Become(w, "unbound")
    /\ UNCHANGED <<control, taskVars, specialistVars, approvalVars, job, seen, lost>>

FailUnbound(w) ==
    /\ phase[w] = "unbound"
    /\ FailTask(w, FALSE, 0)
    /\ Drop(w, "idle")
    /\ UNCHANGED <<control, attempts, spec, approvalVars>>

\* A store call raises (a locked database): the loop logs it and polls again,
\* and the row stays "running" until its lease runs out.
StoreFails(w) ==
    /\ phase[w] \in {"reporting", "recording", "unbound"}
    /\ Drop(w, "idle")
    /\ UNCHANGED <<control, taskVars, specialistVars, approvalVars>>

\* The process dies; its row stays "running" until the lease runs out.
Crash(w) ==
    /\ phase[w] # "off"
    /\ Drop(w, "off")
    /\ UNCHANGED <<control, taskVars, specialistVars, approvalVars>>

-----------------------------------------------------------------------------
Operator ==
    \/ \E c \in ControlStates : SetControl(c)
    \/ \E t \in TaskIds, s \in Specialists \cup {NoSpecialist}, d \in {0, RetryDelay} : Submit(t, s, d)
    \/ \E x \in ApprovalIds : Approve(x) \/ Deny(x)

Authorize(w) == \E e \in Effects, x \in ApprovalIds :
    Consume(w, e, x) \/ MeetPending(w, e, x) \/ Request(w, e, x)

Store(w) ==
    \/ ConfirmLease(w)
    \/ Finish(w)
    \/ \E retry \in BOOLEAN : Incomplete(w, retry)
    \/ Park(w)
    \/ CannotPark(w)
    \/ FailUnbound(w)
    \/ StoreFails(w)

Worker(w) ==
    \/ Start(w)
    \/ \E t \in TaskIds : Claim(w, t)
    \/ ClaimNothing(w)
    \/ ExitOnStop(w)
    \/ Renew(w)
    \/ HeartbeatFails(w)
    \/ PassGuard(w)
    \/ Authorize(w)
    \/ EndRun(w)
    \/ \E wait \in {0, RetryDelay} : Raise(w, wait, "idle")
    \/ Raise(w, 0, "off")
    \/ Store(w)
    \/ Crash(w)

Next == Operator \/ Tick \/ \E w \in Workers : Worker(w)

Spec == Init /\ [][Next]_vars

\* Any started worker that is let poll does poll (SF: it may crash or be
\* paused in between), a run ends (proactive_max_task_seconds cancels it), a
\* worker stores its outcome, a dead one is restarted, and time passes.
Poll(w) == (\E t \in TaskIds : Claim(w, t)) \/ ClaimNothing(w)
Progress(w) == Authorize(w) \/ EndRun(w) \/ Raise(w, RetryDelay, "idle") \/ Store(w)
Fairness ==
    /\ WF_vars(Tick)
    /\ \A w \in Workers : WF_vars(Start(w)) /\ SF_vars(Poll(w)) /\ WF_vars(Progress(w))
FairSpec == Spec /\ Fairness

-----------------------------------------------------------------------------
(* Properties                                                               *)

\* A parked task waits for a request of its own that is still undecided, so
\* the operator's decision always finds it (await_task_approval racing
\* decide_approval, retries and recovery in between).
ParkedAwaitsPending == \A t \in TaskIds :
    status[t] = "awaiting_approval" =>
        /\ awaiting[t] # None
        /\ aStatus[awaiting[t]] = "pending"
        /\ aTask[awaiting[t]] = t

\* A task waiting in the queue or for an approval still has an attempt left:
\* claim_task skips exhausted rows, so one that had none would wait forever.
WaitingHasAttempt == \A t \in TaskIds :
    status[t] \in {"queued", "awaiting_approval"} => attempts[t] < MaxAttempts

\* A specialist is working exactly when the task it is bound to is running
\* for it, and no other task of its is: no recovery, denial or retry strands
\* it in "working", which would block its queue.
SpecialistBound == \A s \in Specialists :
    /\ spStatus[s] = "working" <=> spTask[s] # None
    /\ spTask[s] # None => spec[spTask[s]] = s
    /\ \A t \in TaskIds : spec[t] = s => (status[t] = "running" <=> spTask[s] = t)

\* A specialist's completed_tasks is the number of its tasks that are done,
\* and failed_tasks never counts a failure twice.
TasksOf(s, S) == {t \in TaskIds : spec[t] = s /\ status[t] \in S}
TallyIsExact == \A s \in Specialists :
    /\ spDone[s] = Cardinality(TasksOf(s, {"done"}))
    /\ spFailed[s] <= Cardinality(TasksOf(s, {"failed"}))

\* The request that can still answer a call is the newest of that call: the
\* bounded lookup never misses it, and no old grant waits behind a refusal.
LiveIsNewest == \A x, y \in ApprovalIds :
    (/\ x < y
     /\ aStatus[y] # "absent"
     /\ aTask[x] = aTask[y]
     /\ aEffect[x] = aEffect[y]) => ~Live(x)

\* One approval lets one call through, whoever asks: two attempts of the
\* same task, or a worker that has lost its lease and its successor.
OneShot == \A x \in ApprovalIds : executed[x] = IF aStatus[x] = "consumed" THEN 1 ELSE 0

\* Only a running row is leased, and every running row is.
LeasedIffRunning == \A t \in TaskIds :
    /\ status[t] = "running" <=> owner[t] # NoWorker
    /\ lease[t] > 0 => status[t] = "running"

\* A run of a task ends by the worker that holds its lease, by that lease
\* running out, or by the denial of the request it is bound to; only the
\* holder can complete it. A worker that was replaced changes nothing.
EndedByHolder(t) == phase[owner[t]] # "off" /\ job[owner[t]] = t
RunEndsRightly == [][\A t \in TaskIds :
    (status[t] = "running" /\ (status'[t] # "running" \/ owner'[t] # owner[t])) =>
        \/ EndedByHolder(t) /\ job'[owner[t]] = None
        \/ lease[t] = 0 /\ status'[t] # "done"
        \/ /\ status'[t] = "failed"
           /\ awaiting[t] # None
           /\ aStatus[awaiting[t]] = "pending" /\ aStatus'[awaiting[t]] = "denied"]_vars

\* A finished task never runs again and never changes its outcome.
OutcomeIsFinal == [][\A t \in TaskIds :
    status[t] \in TerminalStates => status'[t] = status[t] /\ owner'[t] = NoWorker]_vars

\* Once the operator leaves the switch on "running", every task that waits for
\* a worker or is running ends, or parks for a decision, whatever crashes.
EveryTaskSettles == <>[](control = "running") => \A t \in TaskIds :
    status[t] \in {"queued", "running"} ~> status[t] \in TerminalStates \cup {"awaiting_approval"}

\* The approvals table keeps the ledger's promise. A call's current request
\* is its newest row.
Call == TaskIds \X Effects
NewestRow(c) == CHOOSE x \in SameCall(c[1], c[2]) : \A y \in SameCall(c[1], c[2]) : y <= x
RowState(x) == CASE aStatus[x] = "pending" -> "asked"
                 [] aStatus[x] = "approved" /\ ttl[x] > 0 -> "granted"
                 [] aStatus[x] = "denied" -> "refused"
                 [] aStatus[x] = "consumed" -> "used"
                 [] OTHER -> "lapsed"
ledgerRequest == [c \in Call |-> IF SameCall(c[1], c[2]) = {} THEN "none" ELSE RowState(NewestRow(c))]
ledgerRuns == [c \in Call |->
    Cardinality({x \in SameCall(c[1], c[2]) : executed[x] > 0})]
Ledger == INSTANCE ConsentLedger
    WITH Calls <- Call, request <- ledgerRequest, runs <- ledgerRuns
KeepsLedger == Ledger!LedgerSpec
=============================================================================

------------------------------ MODULE HubTasks ------------------------------
(***************************************************************************)
(* Tasks of the Agent Hub: the hub_tasks rows, the dispatcher thread that  *)
(* reads the queue and later starts what it read, one executor thread per  *)
(* started task, the operator's requests, and a restart of the backend.    *)
(*                                                                         *)
(* A transaction of hub.db is one action.  The registry of running tasks   *)
(* is guarded by a lock of its own; a request that found no running task   *)
(* under that lock updates the row later, in an action of its own.         *)
(*                                                                         *)
(* Task ids are 1..TaskCount in the order of created_at.  Write locks of   *)
(* projects and turns inside other tasks are the business of HubTeam.      *)
(***************************************************************************)
EXTENDS Integers, FiniteSets

CONSTANTS
    TaskCount,      \* bound: rows of hub_tasks
    Agents,
    AgentOf,        \* the agent each task belongs to
    ProjectOf,      \* and its project
    Writers,        \* agents with a permission of WRITE_PERMISSIONS
    MaxResumes,     \* MAX_PROVIDER_RESUMES
    Requests,       \* bound: requests of the operator
    FollowUps,      \* bound: waiting follow-ups of one task
    Delays,         \* bound: how often the time to wait for a provider passes
    Troubles        \* bound: accesses to hub.db or a directory that fail, and restarts

ASSUME HubAssumption ==
    /\ TaskCount \in Nat \ {0}
    /\ AgentOf \in [1..TaskCount -> Agents] /\ Writers \subseteq Agents
    /\ DOMAIN ProjectOf = 1..TaskCount
    /\ {MaxResumes, Requests, FollowUps, Delays, Troubles} \subseteq Nat

Tasks == 1..TaskCount

VARIABLES
    state, resumes, due, waiting,   \* hub_tasks and hub_steering
    enabled,        \* lifecycle RUNNING and not archived, per agent
    signedIn,       \* what the provider probe reports
    run,            \* _running and the executor thread of each task
    view,           \* what dispatch_once read and has not acted on yet
    calls,          \* operator requests between two of their steps
    mode,           \* "open", or "closing" once close() was called
    left,           \* the bounds that remain, and whether every access to hub.db succeeded
    spare           \* history: times queued minus times started

rowVars == <<state, resumes, due, waiting>>
vars == <<rowVars, enabled, signedIn, run, view, calls, mode, left, spare>>

\* WAITING_INPUT of the code is written by nothing in it.
TERMINAL_STATES == {"COMPLETED", "FAILED", "CANCELLED"}
BLOCKED_STATES == {"WAITING_APPROVAL", "WAITING_PROVIDER", "PAUSED", "INTERRUPTED"}
TASK_STATES == {"QUEUED", "RUNNING"} \cup BLOCKED_STATES \cup TERMINAL_STATES
NoRow == {"none", "deleted"}

Results == {"complete", "approval", "provider", "transient", "failed"}
NoRun == [pc |-> "none"]
NoView == [open |-> FALSE]
Intents == {"none", "cancel", "pause", "shutdown"}
Runs == [pc : {"begin", "turn", "read", "settle", "failing", "ended", "dead"},
         intent : Intents, cancel : BOOLEAN, resumes : 0..MaxResumes,
         seen : Intents, result : Results \cup TASK_STATES \cup {"none"}]
Views == [open : {TRUE}, queue : SUBSET Tasks, resumes : [Tasks -> 0..MaxResumes], signedIn : BOOLEAN]
Running(t) == run[t] # NoRun

(* Two tasks of an agent do not run together, and neither do two writers of *)
(* a project: busy_agents and locked_projects.                              *)
Clash(t, u) ==
    \/ AgentOf[t] = AgentOf[u]
    \/ ProjectOf[t] = ProjectOf[u] /\ {AgentOf[t], AgentOf[u]} \subseteq Writers

TypeOK ==
    /\ state \in [Tasks -> TASK_STATES \cup NoRow]
    /\ resumes \in [Tasks -> 0..MaxResumes]
    /\ due \in [Tasks -> BOOLEAN]
    /\ waiting \in [Tasks -> 0..FollowUps]
    /\ enabled \in [Agents -> BOOLEAN]
    /\ signedIn \in BOOLEAN
    /\ run \in [Tasks -> {NoRun} \cup Runs]
    /\ view \in {NoView} \cup Views
    /\ calls \subseteq {"cancel", "pause", "approve", "deny", "stop-cancel", "stop-pause"} \X Tasks
    /\ mode \in {"open", "closing"}
    /\ left \in [requests : Nat, troubles : Nat, delays : Nat, clean : BOOLEAN]
    /\ spare \in [Tasks -> Int]

Init ==
    /\ state = [t \in Tasks |-> "none"]
    /\ resumes = [t \in Tasks |-> 0] /\ due = [t \in Tasks |-> TRUE]
    /\ waiting = [t \in Tasks |-> 0]
    /\ enabled = [a \in Agents |-> TRUE] /\ signedIn = TRUE
    /\ run = [t \in Tasks |-> NoRun] /\ view = NoView /\ calls = {}
    /\ mode = "open"
    /\ left = [requests |-> Requests, troubles |-> Troubles, delays |-> Delays, clean |-> TRUE]
    /\ spare = [t \in Tasks |-> 0]

Spend(what) == left[what] > 0 /\ left' = [left EXCEPT ![what] = @ - 1]
Fault ==
    /\ left.troubles > 0
    /\ left' = [left EXCEPT !.troubles = @ - 1, !.clean = FALSE]

(* An UPDATE of a row that is gone changes nothing. *)
SetState(t, s) ==
    state' = IF state[t] \in NoRow THEN state ELSE [state EXCEPT ![t] = s]

(* Entering the queue is the permission for one start. *)
Enqueue(t) == SetState(t, "QUEUED") /\ spare' = [spare EXCEPT ![t] = @ + 1]

-----------------------------------------------------------------------------
(* The dispatcher *)

\* Mutant: the bound on automatic resumes is off by one.
CanResumeOnceMore(t) ==
    state[t] = "WAITING_PROVIDER" /\ signedIn /\ due[t] /\ resumes[t] <= MaxResumes

CanResume(t) ==
    state[t] = "WAITING_PROVIDER" /\ signedIn /\ due[t] /\ resumes[t] < MaxResumes

(* dispatch_once, first half: the transaction that requeues tasks whose     *)
(* provider is back and reads the queue.                                    *)
ReadQueue ==
    LET back == {t \in Tasks : CanResume(t)}
        queue == {t \in Tasks : state[t] = "QUEUED"} \cup back
    IN  /\ mode = "open" /\ ~view.open /\ queue # {}
        /\ state' = [t \in Tasks |-> IF t \in back THEN "QUEUED" ELSE state[t]]
        /\ resumes' = [t \in Tasks |-> IF t \in back THEN resumes[t] + 1 ELSE resumes[t]]
        /\ spare' = [t \in Tasks |-> IF t \in back THEN spare[t] + 1 ELSE spare[t]]
        /\ view' = [open |-> TRUE, queue |-> queue, resumes |-> resumes', signedIn |-> signedIn]
        /\ UNCHANGED <<due, waiting, enabled, signedIn, run, calls, mode, left>>

\* Mutant: the loop does not ask which agents and projects are busy.
FreeOrBusy(t) == t \in view.queue /\ enabled[AgentOf[t]]

Free(t) == /\ t \in view.queue /\ enabled[AgentOf[t]]
           /\ ~\E u \in Tasks : Running(u) /\ Clash(t, u)

(* The loop takes the rows in order of age: begun is what it starts, the    *)
(* free rows that clash with no older row it starts.                        *)
Takes(begun) ==
    \A t \in view.queue :
        t \in begun <=> view.signedIn /\ Free(t) /\ ~\E u \in begun : u < t /\ Clash(t, u)

(* A row whose provider is signed out waits for it, whether or not its      *)
(* project is locked.                                                       *)
SentToWait ==
    {t \in view.queue : /\ ~view.signedIn /\ enabled[AgentOf[t]]
                        /\ ~\E u \in Tasks : Running(u) /\ AgentOf[u] = AgentOf[t]}

NewRun(t) == [pc |-> "begin", intent |-> "none", cancel |-> FALSE,
              resumes |-> view.resumes[t], seen |-> "none", result |-> "none"]

Written(t, s) == IF state[t] \in NoRow THEN state[t] ELSE s

(* dispatch_once, second half: the loop under _lock over the rows it read,  *)
(* whose states it does not read again.                                     *)
Dispatch ==
    /\ view.open
    /\ \E begun \in SUBSET view.queue :
         /\ Takes(begun)
         /\ run' = [t \in Tasks |-> IF t \in begun THEN NewRun(t) ELSE run[t]]
         /\ state' = [t \in Tasks |-> IF t \in begun THEN Written(t, "RUNNING")
                                      ELSE IF t \in SentToWait THEN Written(t, "WAITING_PROVIDER")
                                      ELSE state[t]]
         /\ spare' = [t \in Tasks |-> IF t \in begun THEN spare[t] - 1 ELSE spare[t]]
    /\ view' = NoView
    /\ UNCHANGED <<resumes, due, waiting, enabled, signedIn, calls, mode, left>>

(* An access of the loop to hub.db fails at t, and the loop ends there: the  *)
(* rows older than t are dealt with, the rest is not.  When t was about to  *)
(* start, it may be registered already, with a thread that never starts.    *)
DispatchFails(t) ==
    /\ view.open /\ t \in view.queue /\ Fault
    /\ \E taken \in SUBSET view.queue, broken \in SUBSET {t} :
         LET begun == {u \in taken : u < t}
         IN  /\ Takes(taken) /\ broken \subseteq taken
             /\ run' = [u \in Tasks |-> IF u \in begun THEN NewRun(u)
                                        ELSE IF u \in broken THEN [NewRun(u) EXCEPT !.pc = "dead", !.resumes = 0]
                                        ELSE run[u]]
             /\ state' = [u \in Tasks |-> IF u \in begun THEN Written(u, "RUNNING")
                                          ELSE IF u \in SentToWait /\ u < t THEN Written(u, "WAITING_PROVIDER")
                                          ELSE state[u]]
             /\ spare' = [u \in Tasks |-> IF u \in begun THEN spare[u] - 1 ELSE spare[u]]
    /\ view' = NoView
    /\ UNCHANGED <<resumes, due, waiting, enabled, signedIn, calls, mode>>

-----------------------------------------------------------------------------
(* The executor thread of one task *)

At(t, pc) == Running(t) /\ run[t].pc = pc
Goto(t, pc) == run' = [run EXCEPT ![t].pc = pc]

(* From here on the thread looks at no stop it is given. *)
Past(t, pc, result) ==
    run' = [run EXCEPT ![t] = [pc |-> pc, intent |-> "none", cancel |-> FALSE,
                               resumes |-> 0, seen |-> "none", result |-> result]]
Heeds(t) == Running(t) /\ run[t].pc \in {"begin", "turn", "read"}
ElseSame == UNCHANGED <<enabled, signedIn, view, calls, mode>>

(* _execute reads the settings of the agent and makes the directory of the  *)
(* project before its try block begins: an error there ends the thread and  *)
(* leaves its entry in _running, as does a thread that cannot be started.   *)
ThreadDies(t) ==
    /\ At(t, "begin") /\ Fault /\ Past(t, "dead", "none")
    /\ UNCHANGED <<rowVars, spare>> /\ ElseSame

(* _take_steering, then runner.run begins. *)
BeginTurn(t) ==
    /\ At(t, "begin") /\ Goto(t, "turn")
    /\ waiting' = [waiting EXCEPT ![t] = 0]
    /\ UNCHANGED <<state, resumes, due, left, spare>> /\ ElseSame

(* runner.run returns, or is cut short by the stop it was given; a complete *)
(* turn with follow-ups waiting takes another turn, unless it was stopped.  *)
(* The last one leads to _finish, which reads the intent, then the event: a *)
(* stop may come in between.                                                *)
EndTurn(t, result) ==
    /\ At(t, "turn")
    /\ LET again == ~run[t].cancel /\ result = "complete" /\ waiting[t] > 0
       IN  /\ run' = [run EXCEPT ![t] =
                        IF again THEN @
                        ELSE [@ EXCEPT !.pc = "read", !.seen = run[t].intent, !.result = result]]
           /\ waiting' = IF again THEN [waiting EXCEPT ![t] = 0] ELSE waiting
    /\ UNCHANGED <<state, resumes, due, left, spare>> /\ ElseSame

(* Anything the try block raises. *)
Raise(t) ==
    /\ run[t].pc \in {"begin", "turn"} /\ Past(t, "failing", "none")
    /\ UNCHANGED <<rowVars, left, spare>> /\ ElseSame

EndState(r) ==
    CASE r.cancel /\ r.seen = "pause" -> "PAUSED"
      [] r.cancel /\ r.seen = "shutdown" -> "INTERRUPTED"
      [] r.cancel /\ r.seen \in {"cancel", "none"} -> "CANCELLED"
      [] ~r.cancel /\ r.result = "complete" -> "COMPLETED"
      [] ~r.cancel /\ r.result = "approval" -> "WAITING_APPROVAL"
      [] ~r.cancel /\ r.result = "provider" -> "WAITING_PROVIDER"
      [] ~r.cancel /\ r.result = "transient" ->
           IF r.resumes < MaxResumes THEN "WAITING_PROVIDER" ELSE "FAILED"
      [] ~r.cancel /\ r.result = "failed" -> "FAILED"

ReadCancel(t) ==
    /\ At(t, "read") /\ Past(t, "settle", EndState(run[t]))
    /\ UNCHANGED <<rowVars, left, spare>> /\ ElseSame

(* The write that ends the run; before it, the provider branch of _finish   *)
(* probes the providers, which takes seconds.                               *)
Settle(t) ==
    LET s == run[t].result
    IN  /\ At(t, "settle") /\ SetState(t, s) /\ Goto(t, "ended")
        /\ due' = IF s = "WAITING_PROVIDER" THEN [due EXCEPT ![t] = FALSE] ELSE due
        /\ UNCHANGED <<resumes, waiting, left, spare>> /\ ElseSame

(* A write of _finish fails, that of the row or one after it: the handler   *)
(* takes over, of a row that may be settled already.                        *)
FinishRaises(t) ==
    /\ run[t].pc \in {"settle", "ended"} /\ run[t].result # "none"
    /\ Fault /\ Goto(t, "failing")
    /\ UNCHANGED <<rowVars, spare>> /\ ElseSame

(* The except clause: the task is FAILED. *)
Fail(t) ==
    /\ At(t, "failing") /\ SetState(t, "FAILED")
    /\ run' = [run EXCEPT ![t].pc = "ended", ![t].result = "none"]
    /\ UNCHANGED <<resumes, due, waiting, left, spare>> /\ ElseSame

FailLost(t) ==
    /\ At(t, "failing") /\ Fault
    /\ run' = [run EXCEPT ![t].pc = "ended", ![t].result = "none"]
    /\ UNCHANGED <<rowVars, spare>> /\ ElseSame

\* Mutant: a task that ended keeps its entry in _running.
LeaveKeepsEntry(t) ==
    /\ At(t, "ended") /\ Goto(t, "dead")
    /\ UNCHANGED <<rowVars, left, spare>> /\ ElseSame

(* What is left of _finish, and the finally clause. *)
Leave(t) ==
    /\ At(t, "ended") /\ run' = [run EXCEPT ![t] = NoRun]
    /\ waiting' = IF run[t].result = "CANCELLED" THEN [waiting EXCEPT ![t] = 0] ELSE waiting
    /\ UNCHANGED <<state, resumes, due, left, spare>> /\ ElseSame

Thread(t) ==
    \/ BeginTurn(t) \/ ReadCancel(t) \/ Settle(t) \/ Fail(t) \/ Leave(t)
    \/ \E result \in Results : EndTurn(t, result)

-----------------------------------------------------------------------------
(* Requests of the operator *)

(* create_task *)
Create(t) ==
    /\ state[t] = "none" /\ enabled[AgentOf[t]] /\ \A u \in Tasks : u < t => state[u] # "none"
    /\ state' = [state EXCEPT ![t] = "QUEUED"] /\ spare' = [spare EXCEPT ![t] = @ + 1]
    /\ UNCHANGED <<resumes, due, waiting, run, left>> /\ ElseSame

(* cancel and pause under _lock: a running task is told to stop; for any    *)
(* other the row is changed afterwards.                                     *)
Told(t, verb) == IF Heeds(t) THEN [run[t] EXCEPT !.intent = verb, !.cancel = TRUE] ELSE run[t]

Stop(t, verb, others) ==
    IF Running(t)
    THEN run' = [run EXCEPT ![t] = Told(t, verb)] /\ calls' = others
    ELSE run' = run /\ calls' = others \cup {<<verb, t>>}

Ask(t, verb) ==
    /\ state[t] \notin NoRow /\ Spend("requests") /\ Stop(t, verb, calls)
    /\ UNCHANGED <<rowVars, enabled, signedIn, view, mode, spare>>

(* HubService.lifecycle: the agent is disabled and its running tasks, as    *)
(* listed, are stopped one by one.                                          *)
Disable(a, verb) ==
    /\ enabled[a] /\ Spend("requests") /\ enabled' = [enabled EXCEPT ![a] = FALSE]
    /\ calls' = calls \cup {<<IF verb = "pause" THEN "stop-pause" ELSE "stop-cancel", t>> :
                            t \in {u \in Tasks : AgentOf[u] = a /\ state[u] = "RUNNING"}}
    /\ UNCHANGED <<rowVars, signedIn, run, view, mode, spare>>

Enable(a) ==
    /\ ~enabled[a] /\ Spend("requests") /\ enabled' = [enabled EXCEPT ![a] = TRUE]
    /\ UNCHANGED <<rowVars, signedIn, run, view, calls, mode, spare>>

(* decide_approval, first half: the approval in the memory of the agent.    *)
Decide(t, verb) ==
    /\ state[t] = "WAITING_APPROVAL" /\ Spend("requests")
    /\ calls' = calls \cup {<<verb, t>>}
    /\ UNCHANGED <<state, resumes, due, waiting, enabled, signedIn, run, view, mode, spare>>

\* Mutant: the row of a running task may be cancelled under its thread.
StoppableRunning == {"QUEUED", "RUNNING"} \cup BLOCKED_STATES

Stoppable == {"QUEUED"} \cup BLOCKED_STATES

(* The later half of a request: _transition refuses a row in another state, *)
(* and a row that was cancelled loses its follow-ups.                       *)
Late(verb, t) ==
    LET rest == calls \ {<<verb, t>>}
        Move(from, to) ==
            /\ calls' = rest /\ UNCHANGED <<run, spare>>
            /\ IF state[t] \in from THEN SetState(t, to) ELSE UNCHANGED state
    IN  /\ <<verb, t>> \in calls
        /\ UNCHANGED <<resumes, due, enabled, signedIn, view, mode, left>>
        /\ \/ /\ verb = "cancel" /\ Move(Stoppable, "CANCELLED")
              /\ waiting' = IF state[t] \in Stoppable THEN [waiting EXCEPT ![t] = 0] ELSE waiting
           \/ verb = "pause" /\ Move({"QUEUED"}, "PAUSED") /\ UNCHANGED waiting
           \/ verb = "deny" /\ Move({"WAITING_APPROVAL"}, "CANCELLED") /\ UNCHANGED waiting
           \/ /\ verb = "approve" /\ calls' = rest /\ UNCHANGED <<waiting, run>>
              /\ IF state[t] = "WAITING_APPROVAL" THEN Enqueue(t) ELSE UNCHANGED <<state, spare>>
           \/ /\ verb = "stop-cancel" /\ Stop(t, "cancel", rest)
              /\ UNCHANGED <<state, waiting, spare>>
           \/ /\ verb = "stop-pause" /\ Stop(t, "pause", rest)
              /\ UNCHANGED <<state, waiting, spare>>

(* resume *)
Resume(t) ==
    /\ state[t] \in {"PAUSED", "INTERRUPTED", "WAITING_PROVIDER"} /\ Spend("requests")
    /\ Enqueue(t) /\ due' = [due EXCEPT ![t] = TRUE]
    /\ UNCHANGED <<resumes, waiting, run>> /\ ElseSame

Retryable == {"FAILED", "CANCELLED"}

(* retry *)
Retry(t) ==
    /\ state[t] \in Retryable /\ Spend("requests")
    /\ Enqueue(t) /\ resumes' = [resumes EXCEPT ![t] = 0]
    /\ UNCHANGED <<due, waiting, run>> /\ ElseSame

(* steer *)
Steer(t) ==
    /\ state[t] \notin NoRow \cup TERMINAL_STATES \cup {"WAITING_APPROVAL"}
    /\ waiting[t] < FollowUps /\ Spend("requests")
    /\ waiting' = [waiting EXCEPT ![t] = @ + 1]
    /\ UNCHANGED <<state, resumes, due, run, spare>> /\ ElseSame

(* delete_task *)
Delete(t) ==
    /\ state[t] \in TERMINAL_STATES /\ Spend("requests")
    /\ state' = [state EXCEPT ![t] = "deleted"] /\ waiting' = [waiting EXCEPT ![t] = 0]
    /\ resumes' = [resumes EXCEPT ![t] = 0] /\ due' = [due EXCEPT ![t] = TRUE]
    /\ UNCHANGED <<run, spare>> /\ ElseSame

-----------------------------------------------------------------------------
(* The provider, time, and the backend itself *)

SignInChanges ==
    /\ signedIn' = ~signedIn /\ Spend("requests")
    /\ UNCHANGED <<rowVars, enabled, run, view, calls, mode, spare>>

(* retry_after passes. *)
Wait(t) ==
    /\ ~due[t] /\ Spend("delays") /\ due' = [due EXCEPT ![t] = TRUE]
    /\ UNCHANGED <<state, resumes, waiting, run, spare>> /\ ElseSame

(* close: every running task is told to stop, the dispatcher reads no more. *)
Close ==
    /\ mode = "open" /\ left.troubles > 0 /\ mode' = "closing"
    /\ run' = [t \in Tasks |-> Told(t, "shutdown")]
    /\ UNCHANGED <<rowVars, enabled, signedIn, view, calls, left, spare>>

Recovered(s) == IF s = "RUNNING" THEN "INTERRUPTED" ELSE s

(* The process ends, at any point, and _initialize of the next one. *)
Restart ==
    /\ Spend("troubles") /\ mode' = "open"
    /\ state' = [t \in Tasks |-> Recovered(state[t])]
    /\ run' = [t \in Tasks |-> NoRun] /\ view' = NoView /\ calls' = {}
    /\ UNCHANGED <<resumes, due, waiting, enabled, signedIn, spare>>

Next ==
    \/ ReadQueue \/ Dispatch \/ SignInChanges \/ Close \/ Restart
    \/ \E call \in calls : Late(call[1], call[2])
    \/ \E a \in Agents : Enable(a) \/ \E verb \in {"cancel", "pause"} : Disable(a, verb)
    \/ \E t \in Tasks :
         \/ Thread(t) \/ Raise(t)
         \/ DispatchFails(t) \/ ThreadDies(t) \/ FinishRaises(t) \/ FailLost(t)
         \/ Create(t) \/ Resume(t) \/ Retry(t) \/ Steer(t) \/ Delete(t) \/ Wait(t)
         \/ \E verb \in {"cancel", "pause"} : Ask(t, verb)
         \/ \E verb \in {"approve", "deny"} : Decide(t, verb)

Spec == Init /\ [][Next]_vars

(* The dispatcher polls, the executor threads run and a turn of the model   *)
(* ends; nothing is assumed of the operator or the provider.                *)
FairSpec ==
    /\ Spec /\ WF_vars(ReadQueue \/ Dispatch)
    /\ \A t \in Tasks : WF_vars(Thread(t))

-----------------------------------------------------------------------------
(* A task starts at most as often as it was put in the queue, by the        *)
(* operator or by one of the automatic resumes: neither a restart nor a     *)
(* queue read long ago runs it once more.                                   *)
RunsAreWarranted == \A t \in Tasks : spare[t] >= 0

(* While hub.db answers, a row says RUNNING exactly while a thread works on *)
(* it: no task is stuck without a thread and none works unseen.             *)
Working(t) == Running(t) /\ run[t].pc \in {"begin", "turn", "read", "settle", "failing"}
NoSilentStall ==
    left.clean => \A t \in Tasks :
        state[t] \notin NoRow => (state[t] = "RUNNING" <=> Working(t))

(* Completed work is never run again: the row keeps COMPLETED until it is   *)
(* deleted, whatever the dispatcher read before.                            *)
CompletedIsFinal ==
    [][\A t \in Tasks : state[t] = "COMPLETED" /\ left.clean =>
         state'[t] \in {"COMPLETED", "deleted"}]_vars

(* What the queue of the hub promises: a task works on a permit it got by   *)
(* entering the queue, two tasks of one agent or two writers of one project *)
(* never work together, and completed work is neither queued nor run again. *)
(* A task works from the moment it is registered until its thread settles   *)
(* the row, raises, or is lost in a restart.                                *)
Turning(t) == Running(t) /\ run[t].pc \in {"begin", "turn", "read", "settle"}
Phase(t) ==
    CASE Turning(t) -> "working"
      [] ~Turning(t) /\ state[t] = "COMPLETED" -> "completed"
      [] ~Turning(t) /\ state[t] = "deleted" -> "gone"
      [] OTHER -> "idle"

Queue == INSTANCE WorkQueue WITH
    Rivals <- {p \in Tasks \X Tasks : p[1] # p[2] /\ Clash(p[1], p[2])},
    phase <- [t \in Tasks |-> Phase(t)], permits <- spare, sound <- left.clean
KeepsQueue == Queue!Spec

(* A queued task of an enabled agent leaves the queue: the agent's earlier  *)
(* tasks end, and a task that cannot start says what it waits for.          *)
QueuedIsServed ==
    \A t \in Tasks :
        []<>(state[t] # "QUEUED" \/ ~enabled[AgentOf[t]] \/ ~left.clean \/ mode = "closing")

(* A cancelled task is not started again unless the operator retries it.    *)
CancelHolds ==
    [][\A t \in Tasks : state[t] = "CANCELLED" => state'[t] # "RUNNING"]_vars
=============================================================================

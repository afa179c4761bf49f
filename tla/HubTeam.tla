------------------------------- MODULE HubTeam -------------------------------
(***************************************************************************)
(* Hub agents that answer each other inside a running task.  The           *)
(* dispatcher starts tasks; an agent at work may ask another one, or give  *)
(* it the floor in a team room it chairs, and the peer's turn then runs    *)
(* inline in the same chain, registered like a task so that nobody else    *)
(* starts it and its project stays locked for other writers.               *)
(*                                                                         *)
(* _acquire is a loop: each round under rt._lock is one action.  What an   *)
(* agent may do is read from its settings outside that lock, twice: before *)
(* the loop for the record, and again when the turn installs its tools.    *)
(*                                                                         *)
(* A chain is named by the agent whose task it is.  The chain has one      *)
(* agent at work at a time; the others wait for the next one.              *)
(***************************************************************************)
EXTENDS Integers, FiniteSets

CONSTANTS
    Agents,
    None,
    ProjectOf,      \* the project of each agent
    MaxRequests     \* bound: saves of permissions, stops and cancellations

ASSUME TeamAssumption ==
    /\ None \notin Agents /\ DOMAIN ProjectOf = Agents
    /\ MaxRequests \in Nat

VARIABLES
    may,            \* agent_settings: some permission of WRITE_PERMISSIONS is on
    run,            \* _running, by agent
    pc, ask,        \* where each agent is, and what its pending ask wants
    edge,           \* _edges: waiting agent -> the agent it waits for
    stop, cancel,   \* asks the operator stopped; chains whose task was cancelled
    requests        \* of the operator, so far

vars == <<may, run, pc, ask, edge, stop, cancel, requests>>

NoRun == [chain |-> None, writes |-> FALSE, can |-> FALSE]
NoAsk == [target |-> None, writes |-> FALSE]

Waiting == {"ask", "poll", "wait"}
TypeOK ==
    /\ may \in [Agents -> BOOLEAN]
    /\ run \in [Agents -> [chain : Agents \cup {None}, writes : BOOLEAN, can : BOOLEAN]]
    /\ pc \in [Agents -> {"idle", "begin", "work", "approval", "own"} \cup Waiting]
    /\ ask \in [Agents -> [target : Agents \cup {None}, writes : BOOLEAN]]
    /\ edge \in [Agents -> Agents \cup {None}]
    /\ stop \subseteq Agents /\ cancel \subseteq Agents
    /\ requests \in 0..MaxRequests
    /\ \A a \in Agents : run[a].chain = None <=> pc[a] = "idle"

Init ==
    /\ may \in [Agents -> BOOLEAN]
    /\ run = [a \in Agents |-> NoRun] /\ pc = [a \in Agents |-> "idle"]
    /\ ask = [a \in Agents |-> NoAsk] /\ edge = [a \in Agents |-> None]
    /\ stop = {} /\ cancel = {} /\ requests = 0

\* Mutant: an agent that answers inline does not count as busy.
BusyTasksOnly(a) == run[a].chain = a

Busy(a) == run[a].chain # None
Root(a) == run[a].chain = a
Locks(a, p) == run[a].writes /\ ProjectOf[a] = p

(* _reaches: following the edges from one agent leads to another, itself    *)
(* included.  Every set that holds the first and is closed under the edges  *)
(* holds the second.                                                        *)
Closed(S, e) == \A x \in S : e[x] # None => e[x] \in S
Reaches(start, goal) == \A S \in SUBSET Agents : start \in S /\ Closed(S, edge) => goal \in S

-----------------------------------------------------------------------------
(* Tasks *)

\* Mutant: only tasks hold the lock of a project, not inline turns.
AllowedTasksOnly(a) == may[a] => \A b \in Agents : Root(b) => ~Locks(b, ProjectOf[a])

Allowed(a) == may[a] => \A b \in Agents : ~Locks(b, ProjectOf[a])

(* dispatch_once starts a task: an agent that is free and, if it may write, *)
(* a project nobody has locked.                                             *)
StartTask(a) ==
    /\ ~Busy(a) /\ Allowed(a)
    /\ run' = [run EXCEPT ![a] = [chain |-> a, writes |-> may[a], can |-> may[a]]]
    /\ pc' = [pc EXCEPT ![a] = "work"]
    /\ UNCHANGED <<may, ask, edge, stop, cancel, requests>>

\* Mutant: a task that ended keeps its entry in _running.
EndTaskKeepsEntry(a) ==
    /\ pc[a] = "work" /\ Root(a) /\ pc' = [pc EXCEPT ![a] = "idle"]
    /\ cancel' = cancel \ {a}
    /\ UNCHANGED <<may, run, ask, edge, stop, requests>>

(* _execute ends and takes its entry out of _running. *)
EndTask(a) ==
    /\ pc[a] = "work" /\ Root(a)
    /\ run' = [run EXCEPT ![a] = NoRun] /\ pc' = [pc EXCEPT ![a] = "idle"]
    /\ cancel' = cancel \ {a}
    /\ UNCHANGED <<may, ask, edge, stop, requests>>

(* The chair of a room speaks in its own task: no new entry, but its tools  *)
(* are installed anew.                                                      *)
OwnTurn(a) ==
    /\ pc[a] = "work" /\ run' = [run EXCEPT ![a].can = may[a]]
    /\ UNCHANGED <<may, pc, ask, edge, stop, cancel, requests>>

-----------------------------------------------------------------------------
(* Asks and room turns *)

(* ask and start_discussion refuse a peer that waits for the asking agent. *)
Ask(a, b) ==
    /\ pc[a] = "work" /\ a # b /\ ~Reaches(b, a)
    /\ pc' = [pc EXCEPT ![a] = "ask"]
    /\ ask' = [ask EXCEPT ![a] = [target |-> b, writes |-> FALSE]]
    /\ UNCHANGED <<may, run, edge, stop, cancel, requests>>

(* _acquire, before its loop. *)
ReadGrant(a) ==
    /\ pc[a] = "ask" /\ pc' = [pc EXCEPT ![a] = "poll"]
    /\ ask' = [ask EXCEPT ![a].writes = may[ask[a].target]]
    /\ UNCHANGED <<may, run, edge, stop, cancel, requests>>

Holders(a) ==
    {h \in Agents : /\ ask[a].writes /\ Locks(h, ProjectOf[ask[a].target])
                    /\ run[h].chain # run[a].chain}
Blockers(a) == IF Busy(ask[a].target) THEN {ask[a].target} ELSE Holders(a)
\* Mutant: whether the lock holder waits for the asking agent is not looked at.
CircularPeerOnly(a, b) == Reaches(ask[a].target, a)

Circular(a, b) == Reaches(ask[a].target, a) \/ Reaches(b, a)

(* The ask ends without a turn of the peer. *)
BackToWork(a) ==
    /\ pc' = [pc EXCEPT ![a] = "work"] /\ ask' = [ask EXCEPT ![a] = NoAsk]
    /\ edge' = [edge EXCEPT ![a] = None] /\ stop' = stop \ {a}
    /\ UNCHANGED <<may, run, cancel, requests>>

(* One round: the peer, or the project's lock holder, waits for the asking  *)
(* agent: the ask is refused.                                               *)
Refuse(a) ==
    /\ pc[a] = "poll"
    /\ \E b \in Blockers(a) \cup {ask[a].target} : Circular(a, b)
    /\ BackToWork(a)

(* One round: somebody is in the way, and the wait becomes an edge. *)
WaitFor(a, b) ==
    /\ pc[a] = "poll" /\ b \in Blockers(a) /\ ~Circular(a, b)
    /\ edge' = [edge EXCEPT ![a] = b]
    /\ UNCHANGED <<may, run, pc, ask, stop, cancel, requests>>

(* One round: the peer's turn is registered. *)
Register(a) ==
    LET b == ask[a].target
    IN  /\ pc[a] = "poll" /\ Blockers(a) = {} /\ ~Circular(a, b)
        /\ edge' = [edge EXCEPT ![a] = b]
        /\ run' = [run EXCEPT ![b] = [chain |-> run[a].chain, writes |-> ask[a].writes,
                                      can |-> FALSE]]
        /\ pc' = [pc EXCEPT ![a] = "wait", ![b] = "begin"]
        /\ UNCHANGED <<may, ask, stop, cancel, requests>>

(* The guard of an ask, or of the turn of a chain's agent at work: the task *)
(* was cancelled, or an ask on the way to it was stopped.                   *)
Stopped(a) == \E c \in Agents : /\ run[c].chain = run[a].chain
                                /\ c \in stop \/ (Root(c) /\ c \in cancel)

GiveUp(a) == pc[a] = "poll" /\ Stopped(a) /\ BackToWork(a)

(* _inline_turn reads the settings again and installs the tools. *)
BeginTurn(b) ==
    /\ pc[b] = "begin" /\ pc' = [pc EXCEPT ![b] = "work"]
    /\ run' = [run EXCEPT ![b].can = may[b]]
    /\ UNCHANGED <<may, ask, edge, stop, cancel, requests>>

(* The inline turn ends, in whatever way: _release. *)
Released(a, b) ==
    /\ pc[a] = "wait" /\ ask[a].target = b
    /\ run' = [run EXCEPT ![b] = NoRun] /\ edge' = [edge EXCEPT ![a] = None]
    /\ pc' = [pc EXCEPT ![a] = "work", ![b] = "idle"]
    /\ ask' = [ask EXCEPT ![a] = NoAsk] /\ stop' = stop \ {a}
    /\ UNCHANGED <<may, cancel, requests>>

EndTurn(a, b) == pc[b] \in {"begin", "work"} /\ ~Root(b) /\ Released(a, b)

(* A sensitive step of an inline turn waits for the operator. *)
NeedApproval(b) ==
    /\ pc[b] = "work" /\ ~Root(b) /\ pc' = [pc EXCEPT ![b] = "approval"]
    /\ UNCHANGED <<may, run, ask, edge, stop, cancel, requests>>

Approve(b) ==
    /\ pc[b] = "approval" /\ ~Stopped(b) /\ pc' = [pc EXCEPT ![b] = "work"]
    /\ UNCHANGED <<may, run, ask, edge, stop, cancel, requests>>

Deny(a, b) == pc[b] = "approval" /\ Released(a, b)

(* The wait for the operator ends because the turn was stopped. *)
ApprovalStopped(a, b) == pc[b] = "approval" /\ Stopped(b) /\ Released(a, b)

(* So does one of the chair's own turn; its end leaves the room to go on,   *)
(* or to end if it was stopped.                                             *)
OwnNeedsApproval(a) ==
    /\ pc[a] = "work" /\ pc' = [pc EXCEPT ![a] = "own"]
    /\ UNCHANGED <<may, run, ask, edge, stop, cancel, requests>>

OwnAnswered(a) ==
    /\ pc[a] = "own" /\ pc' = [pc EXCEPT ![a] = "work"] /\ stop' = stop \ {a}
    /\ UNCHANGED <<may, run, ask, edge, cancel, requests>>

OwnStopped(a) == Stopped(a) /\ OwnAnswered(a)

-----------------------------------------------------------------------------
(* The operator *)

Request == requests < MaxRequests /\ requests' = requests + 1

(* save_agent_settings *)
Save(a) ==
    /\ may' = [may EXCEPT ![a] = ~@] /\ Request
    /\ UNCHANGED <<run, pc, ask, edge, stop, cancel>>

(* stop_thread, and stop_room for the room whose turn is in flight. *)
Stop(a) ==
    /\ pc[a] \in Waiting \cup {"own"} /\ stop' = stop \cup {a} /\ Request
    /\ UNCHANGED <<may, run, pc, ask, edge, cancel>>

(* cancel of a running task *)
Cancel(a) ==
    /\ Root(a) /\ cancel' = cancel \cup {a} /\ Request
    /\ UNCHANGED <<may, run, pc, ask, edge, stop>>

Service(a) ==
    \/ EndTask(a) \/ ReadGrant(a) \/ Refuse(a) \/ Register(a) \/ GiveUp(a) \/ BeginTurn(a)
    \/ OwnStopped(a)
    \/ \E b \in Agents : WaitFor(a, b) \/ EndTurn(b, a) \/ ApprovalStopped(b, a)

Next ==
    \E a \in Agents :
        \/ Service(a)
        \/ StartTask(a) \/ OwnTurn(a) \/ NeedApproval(a) \/ Approve(a)
        \/ OwnNeedsApproval(a) \/ OwnAnswered(a)
        \/ Save(a) \/ Stop(a) \/ Cancel(a)
        \/ \E b \in Agents : Ask(a, b) \/ Deny(b, a)

Spec == Init /\ [][Next]_vars

(* Threads run and a turn of a model ends.  The operator, who may leave an  *)
(* approval open for ever, has no fairness.                                 *)
FairSpec == Spec /\ \A a \in Agents : WF_vars(Service(a))

-----------------------------------------------------------------------------
(* At most one chain holds the write lock of a project: dispatch_once and   *)
(* _acquire never both let a writer in.                                     *)
LockHolds ==
    \A a, b \in Agents :
        run[a].writes /\ run[b].writes /\ ProjectOf[a] = ProjectOf[b] => run[a].chain = run[b].chain

(* The agents of a chain hang together: whoever runs inline has exactly one *)
(* agent of its chain waiting for it, by an edge the refusals can see, and  *)
(* only registered agents wait.  No entry of _running outlives its chain.   *)
Answers(b, a) == /\ pc[a] = "wait" /\ ask[a].target = b /\ edge[a] = b
                 /\ run[a].chain = run[b].chain
ChainsHangTogether ==
    \A b \in Agents :
        /\ pc[b] = "wait" => Answers(ask[b].target, b)
        /\ Busy(b) /\ ~Root(b) => \E a \in Agents : Answers(b, a)
        /\ \A a, c \in Agents : Answers(b, a) /\ Answers(b, c) => a = c

(* The wait-for graph has no cycle. *)
NoCircularWait == \A a \in Agents : edge[a] # None => ~Reaches(edge[a], a)

(* An ask is answered, refused or stopped, under three premises.  _acquire  *)
(* asks again and again and keeps no place in a queue, so a task or another *)
(* ask may take the peer or its project between two of its rounds; an ask   *)
(* that this happens to without end waits without end.                      *)
InTheWay(a) == Holders(a) \cup ({ask[a].target} \cap {b \in Agents : Busy(b)})
Overtaken(a) == pc[a] = "poll" /\ pc'[a] = "poll" /\ ~(InTheWay(a)' \subseteq InTheWay(a))
OvertakingEnds == \A a \in Agents : <>[][~Overtaken(a)]_vars

(* Who is at work again and again, between asks or after approvals, ends    *)
(* its task or turn some time.                                              *)
TurnsEnd == \A a \in Agents : []<>(pc[a] = "work") => []<>(pc[a] = "idle")
ApprovalsAreDecided == \A a \in Agents : []<>(pc[a] \notin {"approval", "own"})

AsksAreSettled ==
    OvertakingEnds /\ TurnsEnd /\ ApprovalsAreDecided =>
        \A a \in Agents : pc[a] = "poll" ~> pc[a] # "poll"

(* Agents of two chains never have write tools of one project at the same   *)
(* time.                                                                    *)
Writing(a) == pc[a] = "work" /\ run[a].can /\ may[a]
OneWriterPerProject ==
    \A a, b \in Agents :
        Writing(a) /\ Writing(b) /\ ProjectOf[a] = ProjectOf[b] => run[a].chain = run[b].chain
=============================================================================

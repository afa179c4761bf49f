---------------------------- MODULE HubTeamProofs ----------------------------
(***************************************************************************)
(* Proofs about HubTeam for any number of agents, tasks and asks: the      *)
(* type invariant, that one chain holds the write lock of a project, and   *)
(* that the wait-for graph never has a cycle.                              *)
(***************************************************************************)
EXTENDS HubTeam, TLAPS

USE TeamAssumption

(* An agent that waits in an ask has named a peer. *)
Named == \A a \in Agents : pc[a] \in Waiting => ask[a].target \in Agents
Typed == TypeOK /\ Named

LEMMA TypedStart == Init => Typed
    BY DEF Init, Typed, Named, TypeOK, NoRun, NoAsk, Waiting

LEMMA TypedStep == Typed /\ [Next]_vars => Typed'
<1> SUFFICES ASSUME Typed, [Next]_vars PROVE Typed'
    OBVIOUS
<1> USE DEF Typed, Named
<1>1. CASE UNCHANGED vars
    BY <1>1 DEF vars, TypeOK, Waiting
<1>2. ASSUME NEW a \in Agents, StartTask(a) PROVE Typed'
    BY <1>2 DEF StartTask, TypeOK, Waiting
<1>3. ASSUME NEW a \in Agents, EndTask(a) PROVE Typed'
    BY <1>3 DEF EndTask, TypeOK, NoRun, Waiting
<1>4. ASSUME NEW a \in Agents, OwnTurn(a) PROVE Typed'
    BY <1>4 DEF OwnTurn, TypeOK, Waiting
<1>5. ASSUME NEW a \in Agents, NEW b \in Agents, Ask(a, b) PROVE Typed'
    BY <1>5 DEF Ask, TypeOK, Waiting
<1>6. ASSUME NEW a \in Agents, ReadGrant(a) PROVE Typed'
    BY <1>6 DEF ReadGrant, TypeOK, Waiting
<1>7. ASSUME NEW a \in Agents, pc[a] = "poll", BackToWork(a) PROVE Typed'
    BY <1>7 DEF BackToWork, TypeOK, NoAsk, Waiting
<1>8. ASSUME NEW a \in Agents, NEW b \in Agents, WaitFor(a, b) PROVE Typed'
    BY <1>8 DEF WaitFor, TypeOK, Waiting
<1>9. ASSUME NEW a \in Agents, Register(a) PROVE Typed'
    BY <1>9 DEF Register, Blockers, Busy, TypeOK, Waiting
<1>10. ASSUME NEW b \in Agents, BeginTurn(b) PROVE Typed'
    BY <1>10 DEF BeginTurn, TypeOK, Waiting
<1>11. ASSUME NEW a \in Agents, NEW b \in Agents, Released(a, b) PROVE Typed'
    BY <1>11 DEF Released, TypeOK, NoRun, NoAsk, Waiting
<1>12. ASSUME NEW b \in Agents, NeedApproval(b) PROVE Typed'
    BY <1>12 DEF NeedApproval, TypeOK, Waiting
<1>13. ASSUME NEW b \in Agents, Approve(b) \/ OwnNeedsApproval(b) \/ OwnAnswered(b) PROVE Typed'
    BY <1>13 DEF Approve, OwnNeedsApproval, OwnAnswered, TypeOK, Waiting
<1>14. ASSUME NEW a \in Agents, Save(a) \/ Stop(a) \/ Cancel(a) PROVE Typed'
    <2>1. requests' \in 0..MaxRequests
        BY <1>14 DEF Save, Stop, Cancel, Request, TypeOK
    <2> QED
        BY <1>14, <2>1 DEF Save, Stop, Cancel, TypeOK, Waiting
<1> QED
    BY <1>1, <1>2, <1>3, <1>4, <1>5, <1>6, <1>7, <1>8, <1>9, <1>10, <1>11, <1>12, <1>13, <1>14
    DEF Next, Service, Refuse, GiveUp, EndTurn, ApprovalStopped, OwnStopped, Deny

(* Every variable keeps its type. *)
THEOREM TeamTypes == Spec => []TypeOK
<1>1. Typed => TypeOK
    BY DEF Typed
<1> QED
    BY <1>1, TypedStart, TypedStep, PTL DEF Spec

-----------------------------------------------------------------------------
(* The write lock *)

LEMMA LockStep == Typed /\ LockHolds /\ [Next]_vars => LockHolds'
<1> SUFFICES ASSUME Typed, LockHolds, [Next]_vars PROVE LockHolds'
    OBVIOUS
<1> USE DEF Typed, TypeOK, LockHolds
<1>1. CASE UNCHANGED run
    BY <1>1
<1>2. ASSUME NEW a \in Agents, StartTask(a) PROVE LockHolds'
    BY <1>2 DEF StartTask, Allowed, Locks
<1>3. ASSUME NEW a \in Agents, EndTask(a) PROVE LockHolds'
    BY <1>3 DEF EndTask, NoRun
<1>4. ASSUME NEW a \in Agents, OwnTurn(a) PROVE LockHolds'
    BY <1>4 DEF OwnTurn
<1>5. ASSUME NEW a \in Agents, Register(a) PROVE LockHolds'
    <2> DEFINE b == ask[a].target
    <2>1. b \in Agents /\ run[a] \in [chain : Agents \cup {None}, writes : BOOLEAN, can : BOOLEAN]
        BY <1>5 DEF Register, Named, Waiting
    <2>2. Holders(a) = {}
        BY <1>5 DEF Register, Blockers
    <2>3. ASSUME NEW c \in Agents, ask[a].writes, run[c].writes, ProjectOf[c] = ProjectOf[b]
          PROVE  run[c].chain = run[a].chain
        BY <2>2, <2>3 DEF Holders, Locks
    <2>4. run' = [run EXCEPT ![b] = [chain |-> run[a].chain, writes |-> ask[a].writes, can |-> FALSE]]
        BY <1>5 DEF Register
    <2> HIDE DEF b
    <2> QED
        BY <2>1, <2>3, <2>4
<1>6. ASSUME NEW b \in Agents, BeginTurn(b) PROVE LockHolds'
    BY <1>6 DEF BeginTurn
<1>7. ASSUME NEW a \in Agents, NEW b \in Agents, Released(a, b) PROVE LockHolds'
    BY <1>7 DEF Released, NoRun
<1> QED
    BY <1>1, <1>2, <1>3, <1>4, <1>5, <1>6, <1>7
    DEF Next, vars, Service, Ask, ReadGrant, Refuse, GiveUp, BackToWork, WaitFor, EndTurn,
        ApprovalStopped, NeedApproval, Approve, Deny,
        OwnNeedsApproval, OwnStopped, OwnAnswered, Save, Stop, Cancel

(* One chain at most holds the write lock of a project. *)
THEOREM TeamLockHolds == Spec => []LockHolds
<1>1. Init => LockHolds
    BY DEF Init, LockHolds, NoRun
<1> QED
    BY <1>1, TypedStart, TypedStep, LockStep, PTL DEF Spec

-----------------------------------------------------------------------------
(* The wait-for graph *)

LeadsTo(e, start, goal) == \A S \in SUBSET Agents : start \in S /\ Closed(S, e) => goal \in S
Acyclic(e) == \A a \in Agents : e[a] # None => ~LeadsTo(e, e[a], a)

(* Taking an edge away closes no cycle. *)
LEMMA LessWaiting ==
    ASSUME NEW e \in [Agents -> Agents \cup {None}], Acyclic(e), NEW w \in Agents
    PROVE  Acyclic([e EXCEPT ![w] = None])
<1> DEFINE f == [e EXCEPT ![w] = None]
<1>1. SUFFICES ASSUME NEW a \in Agents, f[a] # None PROVE ~LeadsTo(f, f[a], a)
    BY DEF Acyclic
<1>2. f[a] = e[a]
    BY <1>1
<1>3. PICK S \in SUBSET Agents : e[a] \in S /\ Closed(S, e) /\ a \notin S
    BY <1>1, <1>2 DEF Acyclic, LeadsTo
<1>4. Closed(S, f)
    BY <1>3 DEF Closed
<1> QED
    BY <1>2, <1>3, <1>4 DEF LeadsTo

(* Nor does an edge to an agent that does not lead back.                    *)
LEMMA SafeWaiting ==
    ASSUME NEW e \in [Agents -> Agents \cup {None}], Acyclic(e),
           NEW w \in Agents, NEW b \in Agents, ~LeadsTo(e, b, w)
    PROVE  Acyclic([e EXCEPT ![w] = b])
<1> DEFINE f == [e EXCEPT ![w] = b]
<1>1. PICK B \in SUBSET Agents : b \in B /\ Closed(B, e) /\ w \notin B
    BY DEF LeadsTo
<1>2. Closed(B, f)
    BY <1>1 DEF Closed
<1>3. SUFFICES ASSUME NEW a \in Agents, f[a] # None PROVE ~LeadsTo(f, f[a], a)
    BY DEF Acyclic
<1>4. CASE a = w
    BY <1>1, <1>2, <1>4 DEF LeadsTo
<1>5. CASE a # w
    <2>1. f[a] = e[a] /\ e[a] # None
        BY <1>3, <1>5
    <2>2. PICK S \in SUBSET Agents : e[a] \in S /\ Closed(S, e) /\ a \notin S
        BY <2>1 DEF Acyclic, LeadsTo
    <2>3. CASE a \in B
        <3>1. e[a] \in B
            BY <1>1, <2>1, <2>3 DEF Closed
        <3>2. Closed(S \cap B, f)
            BY <1>1, <2>2 DEF Closed
        <3>3. S \cap B \in SUBSET Agents /\ f[a] \in S \cap B /\ a \notin S \cap B
            BY <2>1, <2>2, <3>1
        <3> QED
            BY <3>2, <3>3 DEF LeadsTo
    <2>4. CASE a \notin B
        <3>1. Closed(S \cup B, f)
            BY <1>1, <2>2 DEF Closed
        <3>2. S \cup B \in SUBSET Agents /\ f[a] \in S \cup B /\ a \notin S \cup B
            BY <2>1, <2>2, <2>4
        <3> QED
            BY <3>1, <3>2 DEF LeadsTo
    <2> QED
        BY <2>3, <2>4
<1> QED
    BY <1>4, <1>5

LEMMA WaitStep == Typed /\ NoCircularWait /\ [Next]_vars => NoCircularWait'
<1> SUFFICES ASSUME Typed, Acyclic(edge), [Next]_vars PROVE Acyclic(edge)'
    BY DEF NoCircularWait, Acyclic, Reaches, LeadsTo
<1>0. edge \in [Agents -> Agents \cup {None}]
    BY DEF Typed, TypeOK
<1>1. CASE UNCHANGED edge
    BY <1>1 DEF Acyclic, LeadsTo, Closed
<1>2. ASSUME NEW a \in Agents, BackToWork(a) PROVE Acyclic(edge)'
    BY <1>0, <1>2, LessWaiting DEF BackToWork
<1>3. ASSUME NEW a \in Agents, NEW b \in Agents, WaitFor(a, b) PROVE Acyclic(edge)'
    BY <1>0, <1>3, SafeWaiting DEF WaitFor, Circular, Reaches, LeadsTo
<1>4. ASSUME NEW a \in Agents, Register(a) PROVE Acyclic(edge)'
    <2>1. ask[a].target \in Agents
        BY <1>4 DEF Register, Typed, Named, Waiting
    <2> QED
        BY <1>0, <1>4, <2>1, SafeWaiting DEF Register, Circular, Reaches, LeadsTo
<1>5. ASSUME NEW a \in Agents, NEW b \in Agents, Released(a, b) PROVE Acyclic(edge)'
    BY <1>0, <1>5, LessWaiting DEF Released
<1> QED
    BY <1>1, <1>2, <1>3, <1>4, <1>5
    DEF Next, vars, Service, StartTask, EndTask, OwnTurn, Ask, ReadGrant, Refuse, GiveUp, BeginTurn,
        EndTurn, ApprovalStopped, NeedApproval, Approve, Deny,
        OwnNeedsApproval, OwnStopped, OwnAnswered, Save, Stop, Cancel

(* The wait-for graph never has a cycle. *)
THEOREM TeamNoCircularWait == Spec => []NoCircularWait
<1>1. Init => NoCircularWait
    BY DEF Init, NoCircularWait
<1> QED
    BY <1>1, TypedStart, TypedStep, WaitStep, PTL DEF Spec

-----------------------------------------------------------------------------
(* Chains.  The edges of the agents whose peer is answering lead from the   *)
(* agent of the task to every other agent of its chain, so that a task      *)
(* that ends, and waits for nobody, leaves nobody of its chain behind.      *)

Turns == [a \in Agents |-> IF pc[a] = "wait" THEN ask[a].target ELSE None]
Awaits(a, b) == Answers(b, a) /\ Busy(b) /\ ~Root(b)

Hang ==
    /\ \A a \in Agents : Busy(a) <=> pc[a] # "idle"
    /\ \A a \in Agents : pc[a] = "wait" => Awaits(a, ask[a].target)
    /\ \A b \in Agents : Busy(b) => Root(run[b].chain) /\ LeadsTo(Turns, run[b].chain, b)
    /\ \A b \in Agents : Busy(b) /\ ~Root(b) => \E a \in Agents : Answers(b, a)
    /\ \A a, c \in Agents : pc[a] = "wait" /\ pc[c] = "wait" /\ ask[a].target = ask[c].target => a = c

(* A step that starts, ends and answers nothing leaves the chains alone. *)
LEMMA HangFrame ==
    ASSUME Typed, Typed', Hang,
           \A a \in Agents : run'[a].chain = run[a].chain,
           \A a \in Agents : (pc'[a] = "wait" <=> pc[a] = "wait") /\ (pc'[a] = "idle" <=> pc[a] = "idle"),
           \A a \in Agents : pc[a] = "wait" => ask'[a] = ask[a] /\ edge'[a] = edge[a]
    PROVE  Hang'
<1>1. Turns' = Turns
    BY DEF Turns
<1>2. \A a, b \in Agents : Answers(b, a)' <=> Answers(b, a)
    BY DEF Answers
<1>3. \A b \in Agents : (Busy(b)' <=> Busy(b)) /\ (Root(b)' <=> Root(b))
    BY DEF Busy, Root
<1>4. \A a \in Agents : pc[a] = "wait" => ask[a].target \in Agents
    BY DEF Typed, Named, Waiting
<1>5. \A b \in Agents : Busy(b) => run[b].chain \in Agents
    BY DEF Typed, TypeOK, Busy
<1>6. (\A a \in Agents : Busy(a) <=> pc[a] # "idle")'
    BY <1>3 DEF Hang
<1>7. (\A a \in Agents : pc[a] = "wait" => Awaits(a, ask[a].target))'
    BY <1>2, <1>3, <1>4 DEF Hang, Awaits
<1>8. (\A b \in Agents : Busy(b) => Root(run[b].chain) /\ LeadsTo(Turns, run[b].chain, b))'
    BY <1>1, <1>3, <1>5 DEF Hang, LeadsTo
<1>9. (\A b \in Agents : Busy(b) /\ ~Root(b) => \E a \in Agents : Answers(b, a))'
    BY <1>2, <1>3 DEF Hang
<1>10. (\A a, c \in Agents : pc[a] = "wait" /\ pc[c] = "wait" /\ ask[a].target = ask[c].target => a = c)'
    BY DEF Hang
<1> QED
    BY <1>6, <1>7, <1>8, <1>9, <1>10 DEF Hang

LEMMA HangStart ==
    ASSUME Typed, Typed', Hang, NEW a \in Agents, StartTask(a)
    PROVE  Hang'
<1> USE DEF Hang
<1>0. ~Busy(a) /\ pc[a] = "idle" /\ run'[a].chain = a /\ pc'[a] = "work" /\ ask' = ask /\ edge' = edge
    BY DEF StartTask, Typed, TypeOK
<1>1. \A x \in Agents : x # a => run'[x] = run[x] /\ pc'[x] = pc[x]
    BY DEF StartTask, Typed, TypeOK
<1>2. Turns' = Turns
    BY <1>0, <1>1 DEF Turns
<1>3. \A x \in Agents : x # a => (Busy(x)' <=> Busy(x)) /\ (Root(x)' <=> Root(x))
    BY <1>1 DEF Busy, Root
<1>4. Busy(a)' /\ Root(a)'
    BY <1>0, TeamAssumption DEF Busy, Root
<1>5. \A x \in Agents : pc[x] = "wait" => x # a /\ ask[x].target \in Agents \ {a}
    BY <1>0 DEF Awaits, Typed, Named, Waiting
<1>6. \A x, y \in Agents : x # a => (Answers(x, y)' <=> Answers(x, y))
    BY <1>0, <1>1 DEF Answers, Busy
<1>7. \A x \in Agents : Busy(x) => run[x].chain \in Agents \ {a}
    BY <1>0 DEF Typed, TypeOK, Busy, Root
<1>8. (\A x \in Agents : Busy(x) <=> pc[x] # "idle")'
    BY <1>0, <1>1, <1>3, <1>4
<1>9. (\A x \in Agents : pc[x] = "wait" => Awaits(x, ask[x].target))'
    BY <1>0, <1>1, <1>3, <1>5, <1>6 DEF Awaits
<1>10. (\A x \in Agents : Busy(x) => Root(run[x].chain) /\ LeadsTo(Turns, run[x].chain, x))'
    <2>1. ASSUME NEW x \in Agents, x # a, Busy(x)'
          PROVE  (Root(run[x].chain) /\ LeadsTo(Turns, run[x].chain, x))'
        BY <1>1, <1>2, <1>3, <1>7, <2>1 DEF LeadsTo
    <2>2. (Root(run[a].chain) /\ LeadsTo(Turns, run[a].chain, a))'
        BY <1>0, <1>4 DEF LeadsTo
    <2> QED
        BY <2>1, <2>2
<1>11. (\A x \in Agents : Busy(x) /\ ~Root(x) => \E y \in Agents : Answers(x, y))'
    BY <1>3, <1>4, <1>6
<1>12. (\A x, y \in Agents : pc[x] = "wait" /\ pc[y] = "wait" /\ ask[x].target = ask[y].target => x = y)'
    BY <1>0, <1>1
<1> QED
    BY <1>8, <1>9, <1>10, <1>11, <1>12

(* A task at work waits for nobody: it is alone in its chain when it ends. *)
LEMMA HangEnd ==
    ASSUME Typed, Typed', Hang, NEW a \in Agents, EndTask(a)
    PROVE  Hang'
<1> USE DEF Hang
<1>0. Root(a) /\ pc[a] = "work" /\ run'[a] = NoRun /\ pc'[a] = "idle" /\ ask' = ask /\ edge' = edge
    BY DEF EndTask, Typed, TypeOK
<1>1. \A x \in Agents : x # a => run'[x] = run[x] /\ pc'[x] = pc[x]
    BY DEF EndTask, Typed, TypeOK
<1>2. Turns' = Turns
    BY <1>0, <1>1 DEF Turns
<1>3. \A x \in Agents : x # a => (Busy(x)' <=> Busy(x)) /\ (Root(x)' <=> Root(x))
    BY <1>1 DEF Busy, Root
<1>4. ~Busy(a)'
    BY <1>0 DEF Busy, NoRun
<1>5. \A x \in Agents : pc[x] = "wait" => x # a /\ ask[x].target \in Agents \ {a}
    BY <1>0 DEF Awaits, Typed, Named, Waiting
<1>6. ASSUME NEW x \in Agents, x # a, Busy(x) PROVE run[x].chain \in Agents \ {a}
    <2>1. run[x].chain \in Agents
        BY <1>6 DEF Typed, TypeOK, Busy
    <2>2. SUFFICES ASSUME run[x].chain = a PROVE FALSE
        BY <2>1
    <2>3. LeadsTo(Turns, a, x)
        BY <1>6, <2>2
    <2>4. {a} \in SUBSET Agents /\ Closed({a}, Turns)
        BY <1>0 DEF Closed, Turns
    <2> QED
        BY <1>6, <2>3, <2>4 DEF LeadsTo
<1>7. \A x \in Agents, y \in Agents : x # a /\ Busy(x) => (Answers(x, y)' <=> Answers(x, y))
    BY <1>0, <1>1, <1>6 DEF Answers
<1>8. (\A x \in Agents : Busy(x) <=> pc[x] # "idle")'
    BY <1>0, <1>1, <1>3, <1>4
<1>9. (\A x \in Agents : pc[x] = "wait" => Awaits(x, ask[x].target))'
    BY <1>0, <1>1, <1>3, <1>5, <1>7 DEF Awaits
<1>10. (\A x \in Agents : Busy(x) => Root(run[x].chain) /\ LeadsTo(Turns, run[x].chain, x))'
    <2>1. ASSUME NEW x \in Agents, x # a, Busy(x)'
          PROVE  (Root(run[x].chain) /\ LeadsTo(Turns, run[x].chain, x))'
        BY <1>1, <1>2, <1>3, <1>6, <2>1 DEF LeadsTo
    <2> QED
        BY <1>4, <2>1
<1>11. (\A x \in Agents : Busy(x) /\ ~Root(x) => \E y \in Agents : Answers(x, y))'
    BY <1>3, <1>4, <1>7
<1>12. (\A x, y \in Agents : pc[x] = "wait" /\ pc[y] = "wait" /\ ask[x].target = ask[y].target => x = y)'
    BY <1>0, <1>1
<1> QED
    BY <1>8, <1>9, <1>10, <1>11, <1>12

(* A turn joins the chain of the agent that asked. *)
LEMMA HangRegister ==
    ASSUME Typed, Typed', Hang, NEW a \in Agents, Register(a),
           NEW b \in Agents, b = ask[a].target, NEW c, c = run[a].chain
    PROVE  Hang'
<1> USE DEF Hang
<1>0. pc[a] = "poll" /\ b \in Agents /\ ~Busy(b) /\ pc[b] = "idle"
    BY DEF Register, Blockers
<1>1. a # b /\ Busy(a) /\ c \in Agents /\ Root(c) /\ c # b
    <2>1. a # b /\ Busy(a)
        BY <1>0
    <2>2. c \in Agents /\ Root(c)
        BY <2>1 DEF Busy, Typed, TypeOK
    <2>3. Busy(c)
        BY <2>2, TeamAssumption DEF Busy, Root
    <2> QED
        BY <1>0, <2>1, <2>2, <2>3
<1>2. /\ run'[b].chain = c /\ pc'[a] = "wait" /\ pc'[b] = "begin" /\ edge'[a] = b /\ ask' = ask
      /\ \A x \in Agents : x # b => run'[x] = run[x]
      /\ \A x \in Agents : x \notin {a, b} => pc'[x] = pc[x]
      /\ \A x \in Agents : x # a => edge'[x] = edge[x]
    BY <1>0, <1>1 DEF Register, Typed, TypeOK
<1>3. \A x \in Agents : x # b => (Busy(x)' <=> Busy(x)) /\ (Root(x)' <=> Root(x))
    BY <1>2 DEF Busy, Root
<1>4. Busy(b)' /\ ~Root(b)'
    BY <1>1, <1>2, TeamAssumption DEF Busy, Root
<1>5. \A x \in Agents : pc[x] = "wait" => x \notin {a, b} /\ ask[x].target \in Agents \ {b}
    BY <1>0 DEF Awaits, Typed, Named, Waiting
<1>6. \A x, y \in Agents : x # b /\ y # a => (Answers(x, y)' <=> Answers(x, y))
    BY <1>0, <1>1, <1>2 DEF Answers
<1>7. Answers(b, a)' /\ \A x \in Agents : ~Answers(x, a)
    BY <1>0, <1>1, <1>2 DEF Answers
<1>8. Turns'[a] = b /\ \A x \in Agents : x # a => Turns'[x] = Turns[x]
    BY <1>0, <1>2, <1>5 DEF Turns
<1>9. \A S \in SUBSET Agents : Closed(S, Turns') => Closed(S, Turns)
    BY <1>0, <1>8 DEF Closed, Turns
<1>10. (\A x \in Agents : Busy(x) <=> pc[x] # "idle")'
    BY <1>0, <1>1, <1>2, <1>3, <1>4
<1>11. (\A x \in Agents : pc[x] = "wait" => Awaits(x, ask[x].target))'
    <2>1. Awaits(a, b)'
        BY <1>4, <1>7 DEF Awaits
    <2>2. ASSUME NEW x \in Agents, x # a, pc'[x] = "wait" PROVE Awaits(x, ask[x].target)'
        BY <1>2, <1>3, <1>5, <1>6, <2>2 DEF Awaits
    <2> QED
        BY <1>2, <2>1, <2>2
<1>12. (\A x \in Agents : Busy(x) => Root(run[x].chain) /\ LeadsTo(Turns, run[x].chain, x))'
    <2>1. ASSUME NEW x \in Agents, x # b, Busy(x)'
          PROVE  (Root(run[x].chain) /\ LeadsTo(Turns, run[x].chain, x))'
        <3>1. Busy(x) /\ run[x].chain \in Agents \ {b} /\ run'[x].chain = run[x].chain
            BY <1>0, <1>2, <1>3, <2>1 DEF Typed, TypeOK, Busy, Root
        <3> QED
            BY <1>3, <1>9, <3>1 DEF LeadsTo
    <2>2. Root(c)' /\ LeadsTo(Turns, c, a)
        BY <1>1, <1>3
    <2>3. LeadsTo(Turns', c, b)
        BY <1>0, <1>8, <1>9, <2>2 DEF LeadsTo, Closed
    <2>4. (Root(run[b].chain) /\ LeadsTo(Turns, run[b].chain, b))'
        BY <1>2, <2>2, <2>3 DEF LeadsTo
    <2> QED
        BY <2>1, <2>4
<1>13. (\A x \in Agents : Busy(x) /\ ~Root(x) => \E y \in Agents : Answers(x, y))'
    BY <1>3, <1>6, <1>7
<1>14. (\A x, y \in Agents : pc[x] = "wait" /\ pc[y] = "wait" /\ ask[x].target = ask[y].target => x = y)'
    BY <1>2, <1>5
<1> QED
    BY <1>10, <1>11, <1>12, <1>13, <1>14

(* A turn ends and leaves its chain; the agent that asked works again. *)
LEMMA HangReleased ==
    ASSUME Typed, Typed', Hang, NEW a \in Agents, NEW b \in Agents, pc[b] # "wait", Released(a, b)
    PROVE  Hang'
<1> USE DEF Hang
<1>0. pc[a] = "wait" /\ ask[a].target = b /\ Awaits(a, b) /\ a # b
    BY DEF Released
<1>1. /\ run'[b] = NoRun /\ pc'[a] = "work" /\ pc'[b] = "idle"
      /\ \A x \in Agents : x # b => run'[x] = run[x]
      /\ \A x \in Agents : x \notin {a, b} => pc'[x] = pc[x]
      /\ \A x \in Agents : x # a => edge'[x] = edge[x] /\ ask'[x] = ask[x]
    BY <1>0 DEF Released, Typed, TypeOK
<1>2. \A x \in Agents : x # b => (Busy(x)' <=> Busy(x)) /\ (Root(x)' <=> Root(x))
    BY <1>1 DEF Busy, Root
<1>3. ~Busy(b)' /\ Busy(a)
    BY <1>0, <1>1 DEF Busy, NoRun
<1>4. \A x \in Agents : x # a /\ pc[x] = "wait" => x # b /\ ask[x].target \in Agents \ {b}
    BY <1>0 DEF Typed, Named, Waiting
<1>5. \A x \in Agents : Busy(x) => run[x].chain \in Agents \ {b}
    BY <1>0 DEF Awaits, Typed, TypeOK, Busy
<1>6. \A x, y \in Agents : x # b /\ y # a => (Answers(x, y)' <=> Answers(x, y))
    BY <1>1 DEF Answers
<1>7. \A x \in Agents : x # b => ~Answers(x, a)
    BY <1>0 DEF Answers
<1>8. Turns[a] = b /\ Turns[b] = None /\ Turns'[a] = None /\ \A x \in Agents : x # a => Turns'[x] = Turns[x]
    BY <1>0, <1>1, <1>4 DEF Turns
<1>9. ASSUME NEW S \in SUBSET Agents, Closed(S, Turns') PROVE Closed(S \cup {b}, Turns)
    BY <1>8, <1>9 DEF Closed
<1>10. (\A x \in Agents : Busy(x) <=> pc[x] # "idle")'
    BY <1>0, <1>1, <1>2, <1>3
<1>11. (\A x \in Agents : pc[x] = "wait" => Awaits(x, ask[x].target))'
    <2>1. ASSUME NEW x \in Agents, pc'[x] = "wait" PROVE Awaits(x, ask[x].target)'
        BY <1>1, <1>2, <1>4, <1>6, <2>1 DEF Awaits
    <2> QED
        BY <2>1
<1>12. (\A x \in Agents : Busy(x) => Root(run[x].chain) /\ LeadsTo(Turns, run[x].chain, x))'
    <2>1. ASSUME NEW x \in Agents, Busy(x)'
          PROVE  (Root(run[x].chain) /\ LeadsTo(Turns, run[x].chain, x))'
        <3>1. x # b /\ Busy(x) /\ run[x].chain \in Agents \ {b} /\ run'[x].chain = run[x].chain
            BY <1>1, <1>2, <1>3, <1>5, <2>1
        <3>2. ASSUME NEW S \in SUBSET Agents, run[x].chain \in S, Closed(S, Turns') PROVE x \in S
            <4>1. LeadsTo(Turns, run[x].chain, x) /\ x \in Agents /\ b \in Agents
                BY <3>1
            <4>2. S \cup {b} \in SUBSET Agents /\ run[x].chain \in S \cup {b} /\ Closed(S \cup {b}, Turns)
                BY <1>9, <3>2, <4>1
            <4>3. x \in S \cup {b}
                BY <4>1, <4>2 DEF LeadsTo
            <4> QED
                BY <3>1, <4>3
        <3> QED
            BY <1>2, <3>1, <3>2 DEF LeadsTo
    <2> QED
        BY <2>1
<1>13. (\A x \in Agents : Busy(x) /\ ~Root(x) => \E y \in Agents : Answers(x, y))'
    BY <1>2, <1>3, <1>6, <1>7
<1>14. (\A x, y \in Agents : pc[x] = "wait" /\ pc[y] = "wait" /\ ask[x].target = ask[y].target => x = y)'
    BY <1>1, <1>4
<1> QED
    BY <1>10, <1>11, <1>12, <1>13, <1>14

LEMMA HangStep == Typed /\ Hang /\ [Next]_vars => Hang'
<1> SUFFICES ASSUME Typed, Hang, [Next]_vars PROVE Hang'
    OBVIOUS
<1>0. Typed'
    BY TypedStep
<1> USE DEF Typed, TypeOK
<1>1. CASE UNCHANGED vars
    BY <1>0, <1>1, HangFrame DEF vars
<1>2. ASSUME NEW a \in Agents, StartTask(a) PROVE Hang'
    BY <1>0, <1>2, HangStart
<1>3. ASSUME NEW a \in Agents, EndTask(a) PROVE Hang'
    BY <1>0, <1>3, HangEnd
<1>4. ASSUME NEW a \in Agents, OwnTurn(a) \/ BeginTurn(a) PROVE Hang'
    BY <1>0, <1>4, HangFrame DEF OwnTurn, BeginTurn
<1>5. ASSUME NEW a \in Agents, NEW b \in Agents, Ask(a, b) PROVE Hang'
    BY <1>0, <1>5, HangFrame DEF Ask
<1>6. ASSUME NEW a \in Agents, ReadGrant(a) PROVE Hang'
    BY <1>0, <1>6, HangFrame DEF ReadGrant
<1>7. ASSUME NEW a \in Agents, pc[a] = "poll", BackToWork(a) PROVE Hang'
    BY <1>0, <1>7, HangFrame DEF BackToWork
<1>8. ASSUME NEW a \in Agents, NEW b \in Agents, WaitFor(a, b) PROVE Hang'
    BY <1>0, <1>8, HangFrame DEF WaitFor
<1>9. ASSUME NEW a \in Agents, Register(a) PROVE Hang'
    <2>1. ask[a].target \in Agents
        BY <1>9 DEF Register, Named, Waiting
    <2> QED
        BY <1>0, <1>9, <2>1, HangRegister
<1>10. ASSUME NEW a \in Agents, NEW b \in Agents, pc[b] # "wait", Released(a, b) PROVE Hang'
    BY <1>0, <1>10, HangReleased
<1>11. ASSUME NEW a \in Agents, \/ NeedApproval(a) \/ Approve(a)
                                \/ OwnNeedsApproval(a) \/ OwnAnswered(a)
       PROVE  Hang'
    BY <1>0, <1>11, HangFrame DEF NeedApproval, Approve, OwnNeedsApproval, OwnAnswered
<1>12. ASSUME NEW a \in Agents, Save(a) \/ Stop(a) \/ Cancel(a) PROVE Hang'
    BY <1>0, <1>12, HangFrame DEF Save, Stop, Cancel
<1> QED
    BY <1>1, <1>2, <1>3, <1>4, <1>5, <1>6, <1>7, <1>8, <1>9, <1>10, <1>11, <1>12
    DEF Next, Service, Refuse, GiveUp, EndTurn, ApprovalStopped, OwnStopped, Deny

(* The agents of a chain hang together: no entry of _running outlives the   *)
(* agent that waits for it, and nobody waits for a turn that is gone.       *)
THEOREM TeamChains == Spec => []ChainsHangTogether
<1>1. Init => Hang
    BY DEF Init, Hang, Busy, NoRun
<1>2. Typed /\ Hang => ChainsHangTogether
    BY DEF Hang, Awaits, Answers, ChainsHangTogether
<1> QED
    BY <1>1, <1>2, TypedStart, TypedStep, HangStep, PTL DEF Spec
=============================================================================

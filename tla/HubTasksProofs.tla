--------------------------- MODULE HubTasksProofs ---------------------------
(***************************************************************************)
(* Proofs about HubTasks for every number of tasks, agents and projects,   *)
(* every bound on resumes and follow-ups, and every number of requests,    *)
(* failures and restarts.                                                  *)
(***************************************************************************)
EXTENDS HubTasks, BoundedInduction

LEMMA Bounds ==
    {MaxResumes, FollowUps, Requests, Delays, Troubles} \subseteq Nat
BY HubAssumption

LEMMA EndStateType ==
    ASSUME NEW r \in Runs, r.result \in Results
    PROVE  EndState(r) \in BLOCKED_STATES \cup TERMINAL_STATES
BY DEF EndState, Runs, Intents, Results, BLOCKED_STATES, TERMINAL_STATES

-----------------------------------------------------------------------------
(* Types.                                                                   *)

LEMMA SpendType ==
    ASSUME TypeOK, NEW what \in {"requests", "troubles", "delays"}, Spend(what)
    PROVE  /\ left' \in [requests : Nat, troubles : Nat, delays : Nat, clean : BOOLEAN]
           /\ left'.clean = left.clean
BY DEF TypeOK, Spend

LEMMA FaultType ==
    ASSUME TypeOK, Fault
    PROVE  left' \in [requests : Nat, troubles : Nat, delays : Nat, clean : BOOLEAN] /\ left'.clean = FALSE
<1>1. left \in [requests : Nat, troubles : Nat, delays : Nat, clean : BOOLEAN]
    BY DEF TypeOK
<1>2. left.troubles - 1 \in Nat
    BY <1>1 DEF Fault
<1> QED BY <1>1, <1>2 DEF Fault

LEMMA SetStateType ==
    ASSUME TypeOK, NEW t \in Tasks, NEW s \in TASK_STATES, SetState(t, s)
    PROVE  state' \in [Tasks -> TASK_STATES \cup NoRow]
BY DEF TypeOK, SetState

LEMMA EnqueueType ==
    ASSUME TypeOK, NEW t \in Tasks, Enqueue(t)
    PROVE  state' \in [Tasks -> TASK_STATES \cup NoRow] /\ spare' \in [Tasks -> Int]
<1>1. state' \in [Tasks -> TASK_STATES \cup NoRow]
    BY SetStateType DEF Enqueue, TASK_STATES
<1>2. spare \in [Tasks -> Int] /\ spare' = [spare EXCEPT ![t] = @ + 1]
    BY DEF TypeOK, Enqueue
<1>3. spare' \in [Tasks -> Int]
    BY <1>2
<1> QED BY <1>1, <1>3

LEMMA ToldType ==
    ASSUME TypeOK, NEW t \in Tasks, NEW verb \in Intents
    PROVE  Told(t, verb) \in {NoRun} \cup Runs
<1>1. run[t] \in {NoRun} \cup Runs
    BY DEF TypeOK
<1>2. CASE Heeds(t)
  <2>1. run[t] \in Runs
      BY <1>1, <1>2 DEF Heeds, Running
  <2> QED BY <1>2, <2>1 DEF Told, Runs
<1> QED BY <1>1, <1>2 DEF Told

LEMMA StopType ==
    ASSUME TypeOK, NEW t \in Tasks, NEW verb \in Intents, NEW others, Stop(t, verb, others)
    PROVE  run' \in [Tasks -> {NoRun} \cup Runs]
<1>1. Told(t, verb) \in {NoRun} \cup Runs
    BY ToldType
<1> QED BY <1>1 DEF TypeOK, Stop

LEMMA NewRunType ==
    ASSUME TypeOK, NEW t \in Tasks, view.open
    PROVE  NewRun(t) \in Runs /\ [NewRun(t) EXCEPT !.pc = "dead", !.resumes = 0] \in Runs
<1>1. view \in Views
    BY DEF TypeOK, NoView
<1>2. view.resumes[t] \in 0..MaxResumes
    BY <1>1 DEF Views
<1>3. 0 \in 0..MaxResumes
    BY Bounds
<1> QED BY <1>2, <1>3 DEF NewRun, Runs, Intents

LEMMA PastType ==
    ASSUME TypeOK, NEW t \in Tasks, NEW pc \in {"settle", "failing", "dead"},
           NEW result \in TASK_STATES \cup {"none"}, Past(t, pc, result)
    PROVE  run' \in [Tasks -> {NoRun} \cup Runs]
<1>1. 0 \in 0..MaxResumes
    BY Bounds
<1> QED BY <1>1 DEF TypeOK, Past, Runs, Intents

LEMMA GotoType ==
    ASSUME TypeOK, NEW t \in Tasks, Running(t), NEW pc \in {"turn", "failing", "ended", "dead"}, Goto(t, pc)
    PROVE  run' \in [Tasks -> {NoRun} \cup Runs]
BY DEF TypeOK, Goto, Running, Runs

LEMMA RunningAt ==
    ASSUME TypeOK, NEW t \in Tasks, run[t].pc # "none"
    PROVE  Running(t) /\ run[t] \in Runs
BY DEF TypeOK, Running, NoRun

(* What a turn of the model returned, and the state the run ends in.       *)
Ends == \A t \in Tasks :
    /\ At(t, "read") => run[t].result \in Results
    /\ At(t, "settle") => run[t].result \in BLOCKED_STATES \cup TERMINAL_STATES

LEMMA FailType ==
    ASSUME TypeOK, NEW t \in Tasks, At(t, "failing"),
           run' = [run EXCEPT ![t].pc = "ended", ![t].result = "none"]
    PROVE  run' \in [Tasks -> {NoRun} \cup Runs]
<1>1. run[t] \in Runs
    BY DEF TypeOK, At, Running
<1>2. [run[t] EXCEPT !.pc = "ended", !.result = "none"] \in Runs
    BY <1>1 DEF Runs
<1> QED BY <1>2 DEF TypeOK

LEMMA TypeInit == Init => TypeOK
<1>1. 0 \in 0..MaxResumes /\ 0 \in 0..FollowUps
    BY Bounds
<1>2. ASSUME Init PROVE left \in [requests : Nat, troubles : Nat, delays : Nat, clean : BOOLEAN]
    BY <1>2, Bounds DEF Init
<1> QED BY <1>1, <1>2, Bounds DEF Init, TypeOK, NoRow

LEMMA TypeStep == TypeOK /\ Ends /\ [Next]_vars => TypeOK'
<1> SUFFICES ASSUME TypeOK, Ends, [Next]_vars PROVE TypeOK'
    OBVIOUS
<1> USE DEF rowVars, ElseSame
<1>1. CASE ReadQueue
  <2> DEFINE back == {t \in Tasks : CanResume(t)}
             queue == {t \in Tasks : state[t] = "QUEUED"} \cup back
  <2>1. state' \in [Tasks -> TASK_STATES \cup NoRow]
      BY <1>1 DEF TypeOK, ReadQueue, TASK_STATES
  <2>2. resumes' \in [Tasks -> 0..MaxResumes]
      BY <1>1, Bounds DEF TypeOK, ReadQueue, CanResume
  <2>3. spare' \in [Tasks -> Int]
    <3>1. spare' = [t \in Tasks |-> IF t \in back THEN spare[t] + 1 ELSE spare[t]]
        BY <1>1 DEF ReadQueue
    <3>2. spare \in [Tasks -> Int]
        BY DEF TypeOK
    <3> QED BY <3>1, <3>2
  <2>4. view' \in Views
    <3>1. view' = [open |-> TRUE, queue |-> queue, resumes |-> resumes', signedIn |-> signedIn]
        BY <1>1 DEF ReadQueue
    <3>2. queue \in SUBSET Tasks /\ signedIn \in BOOLEAN
        BY DEF TypeOK
    <3> HIDE DEF queue
    <3> QED BY <3>1, <3>2, <2>2 DEF Views
  <2> QED BY <1>1, <2>1, <2>2, <2>3, <2>4 DEF TypeOK, ReadQueue
<1>2. CASE Dispatch
  <2>1. run' \in [Tasks -> {NoRun} \cup Runs]
    <3>1. PICK begun : run' = [t \in Tasks |-> IF t \in begun THEN NewRun(t) ELSE run[t]]
        BY <1>2 DEF Dispatch
    <3>2. \A t \in Tasks : NewRun(t) \in Runs
        BY <1>2, NewRunType DEF Dispatch
    <3> QED BY <3>1, <3>2 DEF TypeOK
  <2>2. state' \in [Tasks -> TASK_STATES \cup NoRow]
      BY <1>2 DEF TypeOK, Dispatch, Written, TASK_STATES, BLOCKED_STATES
  <2>3. spare' \in [Tasks -> Int]
    <3>1. PICK begun : spare' = [t \in Tasks |-> IF t \in begun THEN spare[t] - 1 ELSE spare[t]]
        BY <1>2 DEF Dispatch
    <3>2. spare \in [Tasks -> Int]
        BY DEF TypeOK
    <3> QED BY <3>1, <3>2
  <2> QED BY <1>2, <2>1, <2>2, <2>3 DEF TypeOK, Dispatch
<1>3. ASSUME NEW t \in Tasks, DispatchFails(t) PROVE TypeOK'
  <2>1. run' \in [Tasks -> {NoRun} \cup Runs]
    <3> DEFINE Moved(begun, broken) ==
                 [u \in Tasks |->
                    IF u \in begun THEN NewRun(u)
                    ELSE IF u \in broken THEN [NewRun(u) EXCEPT !.pc = "dead", !.resumes = 0] ELSE run[u]]
    <3>0. PICK taken \in SUBSET view.queue, dead \in SUBSET {t} :
              run' = Moved({u \in taken : u < t}, dead)
        BY <1>3 DEF DispatchFails
    <3>1. PICK begun, broken : run' = Moved(begun, broken)
        BY <3>0
    <3>2. \A u \in Tasks : {NewRun(u), [NewRun(u) EXCEPT !.pc = "dead", !.resumes = 0]} \subseteq Runs
        BY <1>3, NewRunType DEF DispatchFails
    <3> QED BY <3>1, <3>2 DEF TypeOK
  <2>2. state' \in [Tasks -> TASK_STATES \cup NoRow]
    <3>1. \A u \in Tasks : Written(u, "RUNNING") \in TASK_STATES \cup NoRow
                            /\ Written(u, "WAITING_PROVIDER") \in TASK_STATES \cup NoRow
        BY DEF TypeOK, Written, TASK_STATES, BLOCKED_STATES
    <3>2. PICK begun :
              state' = [u \in Tasks |-> IF u \in begun THEN Written(u, "RUNNING")
                                       ELSE IF u \in SentToWait /\ u < t THEN Written(u, "WAITING_PROVIDER")
                                       ELSE state[u]]
        BY <1>3 DEF DispatchFails
    <3> QED BY <3>1, <3>2 DEF TypeOK
  <2>3. spare' \in [Tasks -> Int]
    <3>1. PICK begun : spare' = [u \in Tasks |-> IF u \in begun THEN spare[u] - 1 ELSE spare[u]]
        BY <1>3 DEF DispatchFails
    <3>2. spare \in [Tasks -> Int]
        BY DEF TypeOK
    <3> QED BY <3>1, <3>2
  <2>4. left' \in [requests : Nat, troubles : Nat, delays : Nat, clean : BOOLEAN]
      BY <1>3, FaultType DEF DispatchFails
  <2> QED BY <1>3, <2>1, <2>2, <2>3, <2>4 DEF TypeOK, DispatchFails
<1>4. CASE SignInChanges
    BY <1>4, SpendType DEF TypeOK, SignInChanges
<1>5. CASE Close
  <2>1. run' \in [Tasks -> {NoRun} \cup Runs]
      BY <1>5, ToldType DEF Close, Intents
  <2> QED BY <1>5, <2>1 DEF TypeOK, Close
<1>6. CASE Restart
  <2>1. state' \in [Tasks -> TASK_STATES \cup NoRow]
      BY <1>6 DEF TypeOK, Restart, Recovered, TASK_STATES, BLOCKED_STATES
  <2> QED BY <1>6, <2>1, SpendType DEF TypeOK, Restart
<1>7. ASSUME NEW call \in calls, Late(call[1], call[2]) PROVE TypeOK'
  <2> DEFINE verb == call[1]
             t == call[2]
  <2>0. t \in Tasks /\ call \in {"cancel", "pause", "approve", "deny", "stop-cancel", "stop-pause"} \X Tasks
      BY DEF TypeOK
  <2>1. calls' \subseteq {"cancel", "pause", "approve", "deny", "stop-cancel", "stop-pause"} \X Tasks
      BY <1>7 DEF TypeOK, Late, Stop
  <2>2. state' \in [Tasks -> TASK_STATES \cup NoRow]
      BY <1>7, <2>0, SetStateType, EnqueueType DEF TypeOK, Late, TASK_STATES, BLOCKED_STATES, TERMINAL_STATES
  <2>3. waiting' \in [Tasks -> 0..FollowUps]
      BY <1>7, <2>0, Bounds DEF TypeOK, Late
  <2>4. run' \in [Tasks -> {NoRun} \cup Runs]
      BY <1>7, <2>0, StopType DEF TypeOK, Late, Intents
  <2>5. spare' \in [Tasks -> Int]
      BY <1>7, <2>0, EnqueueType DEF TypeOK, Late
  <2> QED BY <1>7, <2>1, <2>2, <2>3, <2>4, <2>5 DEF TypeOK, Late
<1>8. ASSUME NEW a \in Agents, Enable(a) PROVE TypeOK'
    BY <1>8, SpendType DEF TypeOK, Enable
<1>9. ASSUME NEW a \in Agents, NEW verb \in {"cancel", "pause"}, Disable(a, verb) PROVE TypeOK'
    BY <1>9, SpendType DEF TypeOK, Disable
<1>10. ASSUME NEW t \in Tasks, BeginTurn(t) PROVE TypeOK'
    BY <1>10, GotoType, Bounds DEF TypeOK, BeginTurn, At
<1>11. ASSUME NEW t \in Tasks, ReadCancel(t) PROVE TypeOK'
  <2>1. At(t, "read") /\ run[t] \in Runs /\ run[t].result \in Results
      BY <1>11 DEF TypeOK, ReadCancel, Ends, At, Running
  <2>2. EndState(run[t]) \in TASK_STATES
      BY <2>1, EndStateType DEF TASK_STATES
  <2>3. run' \in [Tasks -> {NoRun} \cup Runs]
      BY <1>11, <2>2, PastType DEF ReadCancel
  <2> QED BY <1>11, <2>3 DEF TypeOK, ReadCancel
<1>12. ASSUME NEW t \in Tasks, Settle(t) PROVE TypeOK'
  <2>1. At(t, "settle") /\ run[t].result \in TASK_STATES
      BY <1>12 DEF Settle, Ends, TASK_STATES
  <2>2. run' \in [Tasks -> {NoRun} \cup Runs]
      BY <1>12, <2>1, GotoType DEF Settle, At
  <2>3. state' \in [Tasks -> TASK_STATES \cup NoRow]
      BY <1>12, <2>1, SetStateType DEF Settle
  <2> QED BY <1>12, <2>2, <2>3 DEF TypeOK, Settle
<1>13. ASSUME NEW t \in Tasks, Fail(t) PROVE TypeOK'
  <2>1. state' \in [Tasks -> TASK_STATES \cup NoRow]
      BY <1>13, SetStateType DEF Fail, TASK_STATES, TERMINAL_STATES
  <2> QED BY <1>13, <2>1, FailType DEF TypeOK, Fail
<1>14. ASSUME NEW t \in Tasks, Leave(t) PROVE TypeOK'
    BY <1>14, Bounds DEF TypeOK, Leave
<1>15. ASSUME NEW t \in Tasks, NEW result \in Results, EndTurn(t, result) PROVE TypeOK'
  <2>1. run[t] \in Runs
      BY <1>15 DEF TypeOK, EndTurn, At, Running
  <2>2. [run[t] EXCEPT !.pc = "read", !.seen = run[t].intent, !.result = result] \in Runs
      BY <2>1 DEF Runs
  <2>3. run' \in [Tasks -> {NoRun} \cup Runs]
      BY <1>15, <2>2 DEF TypeOK, EndTurn
  <2>4. waiting' \in [Tasks -> 0..FollowUps]
      BY <1>15, Bounds DEF TypeOK, EndTurn
  <2> QED BY <1>15, <2>3, <2>4 DEF TypeOK, EndTurn
<1>16. ASSUME NEW t \in Tasks, Raise(t) PROVE TypeOK'
    BY <1>16, PastType DEF TypeOK, Raise
<1>17. ASSUME NEW t \in Tasks, ThreadDies(t) PROVE TypeOK'
    BY <1>17, PastType, FaultType DEF TypeOK, ThreadDies
<1>18. ASSUME NEW t \in Tasks, FinishRaises(t) PROVE TypeOK'
  <2>1. Running(t)
      BY <1>18, RunningAt DEF FinishRaises
  <2> QED BY <1>18, <2>1, GotoType, FaultType DEF TypeOK, FinishRaises
<1>19. ASSUME NEW t \in Tasks, FailLost(t) PROVE TypeOK'
    BY <1>19, FaultType, FailType DEF TypeOK, FailLost
<1>20. ASSUME NEW t \in Tasks, Create(t) PROVE TypeOK'
    BY <1>20 DEF TypeOK, Create, TASK_STATES
<1>21. ASSUME NEW t \in Tasks, Resume(t) PROVE TypeOK'
    BY <1>21, EnqueueType, SpendType DEF TypeOK, Resume
<1>22. ASSUME NEW t \in Tasks, Retry(t) PROVE TypeOK'
    BY <1>22, EnqueueType, SpendType, Bounds DEF TypeOK, Retry
<1>23. ASSUME NEW t \in Tasks, Steer(t) PROVE TypeOK'
    BY <1>23, SpendType, Bounds DEF TypeOK, Steer
<1>24. ASSUME NEW t \in Tasks, Delete(t) PROVE TypeOK'
    BY <1>24, SpendType, Bounds DEF TypeOK, Delete, NoRow
<1>25. ASSUME NEW t \in Tasks, Wait(t) PROVE TypeOK'
    BY <1>25, SpendType DEF TypeOK, Wait
<1>26. ASSUME NEW t \in Tasks, NEW verb \in {"cancel", "pause"}, Ask(t, verb) PROVE TypeOK'
  <2>1. run' \in [Tasks -> {NoRun} \cup Runs]
      BY <1>26, StopType DEF Ask, Intents
  <2> QED BY <1>26, <2>1, SpendType DEF TypeOK, Ask, Stop
<1>27. ASSUME NEW t \in Tasks, NEW verb \in {"approve", "deny"}, Decide(t, verb) PROVE TypeOK'
    BY <1>27, SpendType DEF TypeOK, Decide
<1>28. CASE UNCHANGED vars
    BY <1>28 DEF TypeOK, vars
<1> QED BY <1>1, <1>2, <1>3, <1>4, <1>5, <1>6, <1>7, <1>8, <1>9, <1>10, <1>11, <1>12, <1>13,
           <1>14, <1>15, <1>16, <1>17, <1>18, <1>19, <1>20, <1>21, <1>22, <1>23, <1>24, <1>25,
           <1>26, <1>27, <1>28 DEF Next, Thread

-----------------------------------------------------------------------------
(* The states in which a run ends.                                          *)

LEMMA EndsInit == Init => Ends
BY DEF Init, Ends, At, Running, NoRun

LEMMA StoppedRun ==
    ASSUME TypeOK, NEW t \in Tasks, NEW verb \in Intents
    PROVE  Told(t, verb).pc = run[t].pc /\ Told(t, verb).result = run[t].result
<1>1. CASE Heeds(t)
  <2>1. run[t] \in Runs
      BY <1>1 DEF TypeOK, Heeds, Running
  <2> QED BY <1>1, <2>1 DEF Told, Runs
<1> QED BY <1>1 DEF Told

LEMMA StopMoves ==
    ASSUME TypeOK, NEW t \in Tasks, NEW u \in Tasks, NEW verb \in Intents, NEW others, Stop(t, verb, others)
    PROVE  run'[u].pc = run[u].pc /\ run'[u].result = run[u].result
BY StoppedRun DEF TypeOK, Stop

(* How a step can change where a thread stands.                             *)
LEMMA RunMoves ==
    ASSUME TypeOK, [Next]_vars, NEW u \in Tasks
    PROVE  \/ run'[u].pc = run[u].pc /\ run'[u].result = run[u].result
           \/ run'[u].pc \in {"none", "begin", "turn", "failing", "ended", "dead"}
           \/ ReadCancel(u)
           \/ \E r \in Results : EndTurn(u, r)
<1> USE DEF TypeOK, rowVars, ElseSame
<1>1. CASE Dispatch \/ \E t \in Tasks : DispatchFails(t)
  <2>1. view.open => /\ NewRun(u).pc = "begin"
                     /\ [NewRun(u) EXCEPT !.pc = "dead", !.resumes = 0].pc = "dead"
      BY DEF NewRun
  <2>2. CASE Dispatch
      BY <2>1, <2>2 DEF Dispatch
  <2>3. ASSUME NEW t \in Tasks, DispatchFails(t)
        PROVE  run'[u] = run[u] \/ run'[u].pc \in {"begin", "dead"}
    <3>1. view.open /\ run'[u] \in {NewRun(u), [NewRun(u) EXCEPT !.pc = "dead", !.resumes = 0], run[u]}
        BY <2>3 DEF DispatchFails
    <3> QED BY <3>1, <2>1
  <2> QED BY <1>1, <2>2, <2>3
<1>2. CASE Close
    BY <1>2, StoppedRun DEF Close, Intents
<1>3. CASE Restart
    BY <1>3 DEF Restart, NoRun
<1>4. ASSUME NEW call \in calls, Late(call[1], call[2]) PROVE run'[u].pc = run[u].pc /\ run'[u].result = run[u].result
    BY <1>4, StopMoves DEF Late, Intents
<1>5. ASSUME NEW t \in Tasks, NEW verb \in {"cancel", "pause"}, Ask(t, verb)
      PROVE  run'[u].pc = run[u].pc /\ run'[u].result = run[u].result
    BY <1>5, StopMoves DEF Ask, Intents
<1>6. ASSUME NEW t \in Tasks, NEW pc \in {"turn", "failing", "ended"}, Running(t), Goto(t, pc)
      PROVE  \/ run'[u] = run[u]
             \/ run'[u].pc \in {"turn", "failing", "ended"}
    BY <1>6 DEF Goto, Running, Runs
<1>7. ASSUME NEW t \in Tasks, Past(t, "failing", "none") \/ Past(t, "dead", "none")
      PROVE  \/ run'[u] = run[u]
             \/ run'[u].pc \in {"failing", "dead"}
    BY <1>7 DEF Past
<1>8. ASSUME NEW t \in Tasks, Fail(t) \/ FailLost(t)
      PROVE  run'[u] = run[u] \/ run'[u].pc = "ended"
  <2>1. run[t] \in Runs
      BY <1>8 DEF Fail, FailLost, At, Running
  <2>2. run' = [run EXCEPT ![t] = [run[t] EXCEPT !.pc = "ended", !.result = "none"]]
      BY <1>8 DEF Fail, FailLost
  <2> QED BY <2>1, <2>2 DEF Runs
<1>9. ASSUME NEW t \in Tasks, Leave(t) PROVE run'[u] = run[u] \/ run'[u].pc = "none"
    BY <1>9 DEF Leave, NoRun
<1>10. ASSUME NEW t \in Tasks, NEW r \in Results, EndTurn(t, r) PROVE run'[u] = run[u] \/ u = t
    BY <1>10 DEF EndTurn
<1>11. ASSUME NEW t \in Tasks, ReadCancel(t) PROVE run'[u] = run[u] \/ u = t
    BY <1>11 DEF ReadCancel, Past
<1>12. ASSUME NEW t \in Tasks, BeginTurn(t) \/ Settle(t) \/ FinishRaises(t)
       PROVE  run'[u] = run[u] \/ run'[u].pc \in {"turn", "failing", "ended"}
    BY <1>12, <1>6, RunningAt DEF BeginTurn, Settle, FinishRaises, At
<1>13. ASSUME NEW t \in Tasks, Raise(t) \/ ThreadDies(t)
       PROVE  run'[u] = run[u] \/ run'[u].pc \in {"failing", "dead"}
    BY <1>13, <1>7 DEF Raise, ThreadDies
<1>14. ASSUME NEW t \in Tasks, Create(t) \/ Resume(t) \/ Retry(t) \/ Steer(t) \/ Delete(t) \/ Wait(t)
       PROVE  run' = run
    BY <1>14 DEF Create, Resume, Retry, Steer, Delete, Wait
<1>15. ASSUME NEW t \in Tasks, NEW verb \in {"approve", "deny"}, Decide(t, verb) PROVE run' = run
    BY <1>15 DEF Decide
<1>16. ASSUME NEW a \in Agents, Enable(a) \/ Disable(a, "cancel") \/ Disable(a, "pause") PROVE run' = run
    BY <1>16 DEF Enable, Disable
<1>17. ASSUME ReadQueue \/ SignInChanges \/ UNCHANGED vars PROVE run' = run
    BY <1>17 DEF ReadQueue, SignInChanges, vars
<1> QED BY <1>1, <1>2, <1>3, <1>4, <1>5, <1>8, <1>9, <1>10, <1>11, <1>12, <1>13, <1>14, <1>15,
           <1>16, <1>17 DEF Next, Thread

LEMMA EndsStep == TypeOK /\ Ends /\ [Next]_vars => Ends'
<1> SUFFICES ASSUME TypeOK, Ends, [Next]_vars, NEW u \in Tasks,
                    run'[u].pc \in {"read", "settle"}
             PROVE  /\ run'[u].pc = "read" => run'[u].result \in Results
                    /\ run'[u].pc = "settle" => run'[u].result \in BLOCKED_STATES \cup TERMINAL_STATES
    BY DEF Ends, At
<1>1. CASE run'[u].pc = run[u].pc /\ run'[u].result = run[u].result
    BY <1>1, RunningAt DEF Ends, At
<1>2. ASSUME NEW r \in Results, EndTurn(u, r), run'[u].pc # "turn" PROVE run'[u].pc = "read" /\ run'[u].result = r
  <2>1. run[u] \in Runs /\ run[u].pc = "turn"
      BY <1>2 DEF TypeOK, EndTurn, At, Running
  <2> QED BY <1>2, <2>1 DEF EndTurn, TypeOK, Runs
<1>3. ASSUME ReadCancel(u)
      PROVE  run'[u].pc = "settle" /\ run'[u].result \in BLOCKED_STATES \cup TERMINAL_STATES
  <2>1. At(u, "read") /\ run[u] \in Runs /\ run[u].result \in Results
      BY <1>3 DEF TypeOK, ReadCancel, Ends, At, Running
  <2> QED BY <1>3, <2>1, EndStateType DEF ReadCancel, Past, TypeOK
<1> QED BY <1>1, <1>2, <1>3, RunMoves
-----------------------------------------------------------------------------
(* What a step can do to one row, its thread and its place in what the      *)
(* dispatcher read.                                                         *)

Read(u) == view.open = TRUE /\ u \in view.queue

ThreadStays(u) ==
    /\ Running(u)' => Running(u)
    /\ Working(u)' <=> Working(u)
    /\ Turning(u)' => Turning(u)
ReadStays(u) == Read(u)' => Read(u)

Stays(u) ==
    /\ state'[u] = state[u] /\ spare'[u] = spare[u] /\ ThreadStays(u)
    /\ Read(u)' => Read(u) \/ state[u] = "QUEUED"
Enters(u) ==
    /\ state[u] \notin {"QUEUED", "RUNNING", "COMPLETED", "deleted"} /\ state'[u] = "QUEUED"
    /\ spare'[u] = spare[u] + 1 /\ ThreadStays(u) /\ (Turning(u)' <=> Turning(u))
    /\ Read(u)' => Read(u) \/ state[u] = "WAITING_PROVIDER"
Starts(u) ==
    /\ Read(u) /\ ~Read(u)' /\ spare'[u] = spare[u] - 1
    /\ ~Running(u) /\ Turning(u)' /\ state'[u] = Written(u, "RUNNING")
IsSent(u) ==
    /\ Read(u) /\ ~Read(u)' /\ spare'[u] = spare[u]
    /\ ~Running(u) /\ ~Running(u)' /\ ~Working(u)' /\ state'[u] = Written(u, "WAITING_PROVIDER")
Ended(u) ==
    /\ Working(u) /\ ~Working(u)' /\ spare'[u] = spare[u] /\ ReadStays(u)
    /\ \E s \in BLOCKED_STATES \cup TERMINAL_STATES :
         state'[u] = Written(u, s) /\ (s = "COMPLETED" => Turning(u))
IsStopped(u) ==
    /\ state[u] \in Stoppable /\ state'[u] \in {"CANCELLED", "PAUSED"}
    /\ spare'[u] = spare[u] /\ ThreadStays(u) /\ ReadStays(u)
Goes(u) ==
    /\ state[u] \in TERMINAL_STATES /\ state'[u] = "deleted"
    /\ spare'[u] = spare[u] /\ ThreadStays(u) /\ ReadStays(u)
Recovers(u) ==
    /\ state'[u] = Recovered(state[u]) /\ spare'[u] = spare[u]
    /\ ~Running(u)' /\ ~Working(u)' /\ ~Read(u)'
Breaks(u) ==
    /\ left'.clean = FALSE /\ state'[u] = state[u] /\ spare'[u] = spare[u]
    /\ ReadStays(u) /\ (state[u] = "none" => Read(u) \/ (Running(u)' => Running(u)))
    /\ Turning(u)' => Turning(u)

Moves(u) ==
    /\ left'.clean = TRUE => left.clean = TRUE
    /\ \/ Stays(u) \/ Enters(u) \/ Starts(u) \/ IsSent(u) \/ Ended(u)
       \/ IsStopped(u) \/ Goes(u) \/ Recovers(u) \/ Breaks(u)

(* A step that leaves left alone, or spends of it, leaves clean alone.      *)
LEMMA SameClean ==
    ASSUME TypeOK, NEW what \in {"requests", "troubles", "delays"}, left' = left \/ Spend(what)
    PROVE  left'.clean = left.clean
BY SpendType

LEMMA SameThread ==
    ASSUME NEW u, run'[u] = run[u]
    PROVE  ThreadStays(u)
BY DEF ThreadStays, Running, Working, Turning

LEMMA StepsOn ==
    ASSUME NEW t, NEW u, u # t => run'[u] = run[u], Running(t),
           run[t].pc \in {"begin", "turn", "read", "settle"},
           run'[t].pc \in {"begin", "turn", "read", "settle", "failing"}
    PROVE  ThreadStays(u)
<1>1. run'[t] # NoRun
    BY DEF NoRun
<1>2. CASE u = t
    BY <1>1, <1>2 DEF ThreadStays, Running, Working, Turning
<1>3. CASE u # t
    BY <1>3, SameThread
<1> QED BY <1>2, <1>3

LEMMA SameView ==
    ASSUME NEW u, view' = view
    PROVE  ReadStays(u)
BY DEF ReadStays, Read

LEMMA StoppedThread ==
    ASSUME TypeOK, NEW t \in Tasks, NEW u \in Tasks, NEW verb \in Intents,
           run' = run \/ (run' = [run EXCEPT ![t] = Told(t, verb)]) \/ run' = [x \in Tasks |-> Told(x, verb)]
    PROVE  ThreadStays(u)
<1>1. run'[u] = run[u] \/ run'[u] = Told(u, verb)
    BY DEF TypeOK
<1>2. CASE run'[u] = run[u]
    BY <1>2, SameThread
<1>3. CASE run'[u] = Told(u, verb) /\ Heeds(u)
  <2>1. run[u] \in Runs /\ Running(u)
      BY <1>3 DEF TypeOK, Heeds, Running
  <2>2. run'[u].pc = run[u].pc
      BY <1>3, StoppedRun
  <2>3. run'[u] \in Runs
      BY <1>3, <2>1 DEF Told, Runs
  <2>4. run'[u] # NoRun
      BY <2>2, <2>1, <2>3 DEF NoRun, Runs
  <2> QED BY <2>1, <2>2, <2>4 DEF ThreadStays, Working, Running, Turning
<1> QED BY <1>1, <1>2, <1>3, SameThread DEF Told

(* The dispatcher.                                                          *)
LEMMA QueueMoves ==
    ASSUME TypeOK, NEW u \in Tasks, ReadQueue
    PROVE  Moves(u)
<1> DEFINE back == {t \in Tasks : CanResume(t)}
           queue == {t \in Tasks : state[t] = "QUEUED"} \cup back
<1>1. /\ state'[u] = IF u \in back THEN "QUEUED" ELSE state[u]
      /\ spare'[u] = IF u \in back THEN spare[u] + 1 ELSE spare[u]
      /\ view'.queue = queue /\ ThreadStays(u) /\ (Turning(u)' <=> Turning(u)) /\ (left'.clean = TRUE => left.clean = TRUE)
    BY SameThread DEF ReadQueue, Turning, Running
<1>2. CASE u \in back
  <2>1. state[u] = "WAITING_PROVIDER"
      BY <1>2 DEF CanResume
  <2> QED BY <1>1, <1>2, <2>1 DEF Moves, Enters
<1>3. CASE u \notin back
  <2>1. Read(u)' => state[u] = "QUEUED"
      BY <1>1, <1>3 DEF Read
  <2> QED BY <1>1, <1>3, <2>1 DEF Moves, Stays
<1> QED BY <1>2, <1>3

LEMMA NewRunWorks ==
    ASSUME TypeOK, NEW u \in Tasks, view.open, run'[u] = NewRun(u)
    PROVE  Turning(u)'
<1>1. NewRun(u).pc = "begin" /\ NewRun(u) \in Runs
    BY NewRunType DEF NewRun
<1>2. run'[u] # NoRun
    BY <1>1 DEF NoRun, Runs
<1> QED BY <1>1, <1>2 DEF Turning, Running

(* What the loop starts was read, is free of running tasks, and clashes     *)
(* with nothing else it starts.                                             *)
LEMMA TakenIsFree ==
    ASSUME NEW begun \in SUBSET view.queue, Takes(begun), NEW u \in begun
    PROVE  u \in view.queue /\ Free(u) /\ ~\E t \in begun : t < u /\ Clash(u, t)
BY DEF Takes

LEMMA FreeIsStopped ==
    ASSUME NEW u \in Tasks, Free(u)
    PROVE  ~Running(u)
BY DEF Free, Clash

LEMMA DispatchMoves ==
    ASSUME TypeOK, NEW u \in Tasks, Dispatch
    PROVE  Moves(u)
<1>1. view.open = TRUE /\ ~Read(u)' /\ (left'.clean = TRUE => left.clean = TRUE)
    BY DEF Dispatch, Read, NoView
<1>2. PICK begun \in SUBSET view.queue :
         /\ Takes(begun)
         /\ run'[u] = IF u \in begun THEN NewRun(u) ELSE run[u]
         /\ spare'[u] = IF u \in begun THEN spare[u] - 1 ELSE spare[u]
         /\ state'[u] = IF u \in begun THEN Written(u, "RUNNING")
                        ELSE IF u \in SentToWait THEN Written(u, "WAITING_PROVIDER")
                        ELSE state[u]
    BY DEF Dispatch
<1>3. CASE u \in begun
  <2>1. Read(u) /\ ~Running(u) /\ Turning(u)'
      BY <1>1, <1>2, <1>3, NewRunWorks, TakenIsFree, FreeIsStopped DEF Read
  <2>2. state'[u] = Written(u, "RUNNING") /\ spare'[u] = spare[u] - 1
      BY <1>2, <1>3
  <2> QED BY <1>1, <2>1, <2>2 DEF Moves, Starts
<1>4. CASE u \notin begun /\ u \in SentToWait
  <2>1. Read(u) /\ ~Running(u)
      BY <1>1, <1>4 DEF SentToWait, Read
  <2>2. state'[u] = Written(u, "WAITING_PROVIDER") /\ spare'[u] = spare[u]
      BY <1>2, <1>4
  <2>3. ~Running(u)' /\ ~Working(u)'
      BY <1>2, <1>4, <2>1 DEF Running, Working
  <2> QED BY <1>1, <2>1, <2>2, <2>3 DEF Moves, IsSent
<1>5. CASE u \notin begun /\ u \notin SentToWait
  <2>1. state'[u] = state[u] /\ spare'[u] = spare[u] /\ run'[u] = run[u]
      BY <1>2, <1>5
  <2> QED BY <1>1, <2>1, SameThread DEF Moves, Stays
<1> QED BY <1>3, <1>4, <1>5

LEMMA DispatchFailsMoves ==
    ASSUME TypeOK, NEW u \in Tasks, NEW t \in Tasks, DispatchFails(t)
    PROVE  Moves(u)
<1>1. view.open = TRUE /\ ~Read(u)' /\ left'.clean = FALSE
    BY FaultType DEF DispatchFails, Read, NoView
<1>2. PICK taken \in SUBSET view.queue, broken \in SUBSET {t} :
         /\ Takes(taken) /\ broken \subseteq taken
         /\ state'[u] = IF u \in {x \in taken : x < t} THEN Written(u, "RUNNING")
                        ELSE IF u \in SentToWait /\ u < t THEN Written(u, "WAITING_PROVIDER")
                        ELSE state[u]
         /\ spare'[u] = IF u \in {x \in taken : x < t} THEN spare[u] - 1 ELSE spare[u]
         /\ run'[u] = IF u \in {x \in taken : x < t} THEN NewRun(u)
                      ELSE IF u \in broken THEN [NewRun(u) EXCEPT !.pc = "dead", !.resumes = 0]
                      ELSE run[u]
    BY DEF DispatchFails
<1> DEFINE begun == {x \in taken : x < t}
<1>3. CASE u \in begun
  <2>1. Read(u) /\ ~Running(u) /\ run'[u] = NewRun(u)
      BY <1>1, <1>2, <1>3, TakenIsFree, FreeIsStopped DEF Read
  <2>2. Turning(u)'
      BY <1>1, <2>1, NewRunWorks
  <2> QED BY <1>1, <1>2, <1>3, <2>1, <2>2 DEF Moves, Starts
<1>4. CASE u \notin begun /\ u \in broken
  <2>1. Read(u) /\ ReadStays(u)
      BY <1>1, <1>2, <1>4 DEF Read, ReadStays
  <2>2. run'[u].pc = "dead"
      BY <1>2, <1>4 DEF NewRun
  <2>3. u \notin SentToWait
      BY <1>2, <1>4 DEF Takes, SentToWait
  <2>4. state'[u] = state[u] /\ spare'[u] = spare[u]
      BY <1>2, <1>4, <2>3
  <2> QED BY <1>1, <2>1, <2>2, <2>4 DEF Moves, Breaks, Turning
<1>5. CASE u \notin begun /\ u \notin broken /\ u \in SentToWait /\ u < t
  <2>1. Read(u) /\ ~Running(u)
      BY <1>1, <1>5 DEF SentToWait, Read
  <2>2. state'[u] = Written(u, "WAITING_PROVIDER") /\ spare'[u] = spare[u]
      BY <1>2, <1>5
  <2>3. ~Running(u)' /\ ~Working(u)'
      BY <1>2, <1>5, <2>1 DEF Running, Working
  <2> QED BY <1>1, <2>1, <2>2, <2>3 DEF Moves, IsSent
<1>6. CASE u \notin begun /\ u \notin broken /\ ~(u \in SentToWait /\ u < t)
  <2>1. run'[u] = run[u] /\ state'[u] = state[u] /\ spare'[u] = spare[u]
      BY <1>2, <1>6
  <2> QED BY <1>1, <2>1, SameThread DEF Moves, Stays
<1> QED BY <1>3, <1>4, <1>5, <1>6

(* The executor thread.                                                     *)
LEMMA SettledRow ==
    ASSUME TypeOK, NEW t \in Tasks, NEW s, SetState(t, s)
    PROVE  state'[t] = Written(t, s) /\ \A u \in Tasks \ {t} : state'[u] = state[u]
BY DEF TypeOK, SetState, Written

LEMMA ThreadMoves ==
    ASSUME TypeOK, Ends, NEW u \in Tasks, NEW t \in Tasks, Thread(t) \/ Raise(t)
    PROVE  Moves(u)
<1>1. left' = left /\ view' = view /\ spare' = spare /\ ReadStays(u)
    BY SameView DEF Thread, BeginTurn, ReadCancel, Settle, Fail, Leave, EndTurn, Raise, ElseSame
<1>2. run[t] \in Runs /\ Running(t)
    BY RunningAt DEF Thread, BeginTurn, ReadCancel, Settle, Fail, Leave, EndTurn, Raise, At
<1>3. CASE BeginTurn(t) \/ ReadCancel(t) \/ Raise(t) \/ \E r \in Results : EndTurn(t, r)
  <2>1. state' = state
      BY <1>3 DEF BeginTurn, ReadCancel, Raise, EndTurn, rowVars
  <2>2. ThreadStays(u)
    <3>1. CASE BeginTurn(t)
      <4>1. run'[t] = [run[t] EXCEPT !.pc = "turn"] /\ run[t].pc = "begin" /\ (u # t => run'[u] = run[u])
          BY <3>1 DEF TypeOK, BeginTurn, At, Goto
      <4>2. run'[t].pc = "turn"
          BY <1>2, <4>1 DEF Runs
      <4> QED BY <1>2, <4>1, <4>2, StepsOn
    <3>2. CASE ReadCancel(t)
        BY <1>2, <3>2 DEF TypeOK, ReadCancel, At, Past, ThreadStays, Working, Turning, Running, NoRun
    <3>3. CASE Raise(t)
        BY <1>2, <3>3 DEF TypeOK, Raise, Past, ThreadStays, Working, Turning, Running, NoRun
    <3>4. ASSUME NEW r \in Results, EndTurn(t, r) PROVE ThreadStays(u)
      <4>1. run'[t] = run[t] \/ run'[t] = [run[t] EXCEPT !.pc = "read", !.seen = run[t].intent, !.result = r]
          BY <3>4 DEF EndTurn, TypeOK
      <4>2. run[t].pc = "turn" /\ (u # t => run'[u] = run[u])
          BY <3>4 DEF EndTurn, At
      <4>3. CASE run'[t] # run[t] /\ u = t
        <5>1. run'[t].pc = "read"
            BY <1>2, <4>1, <4>3 DEF Runs
        <5> QED BY <1>2, <4>2, <4>3, <5>1 DEF ThreadStays, Working, Turning, Running, NoRun
      <4> QED BY <4>2, <4>3, SameThread
    <3> QED BY <1>3, <3>1, <3>2, <3>3, <3>4
  <2> QED BY <1>1, <2>1, <2>2 DEF Moves, Stays, ReadStays
<1>4. CASE Settle(t) \/ Fail(t)
  <2>1. /\ \E s \in BLOCKED_STATES \cup TERMINAL_STATES :
             SetState(t, s) /\ (s = "COMPLETED" => Turning(t))
        /\ run[t].pc \in {"settle", "failing"}
      BY <1>4 DEF Settle, Fail, Ends, At, Turning, TERMINAL_STATES
  <2>2. run'[t].pc = "ended" /\ (u # t => run'[u] = run[u])
      BY <1>2, <1>4 DEF TypeOK, Settle, Fail, Goto, Runs
  <2>3. CASE u = t
      BY <1>1, <1>2, <2>1, <2>2, <2>3, SettledRow DEF Moves, Ended, Working
  <2>4. CASE u # t
      BY <1>1, <2>1, <2>2, <2>4, SettledRow, SameThread DEF Moves, Stays, ReadStays
  <2> QED BY <2>3, <2>4
<1>5. CASE Leave(t)
  <2>1. ThreadStays(u) /\ state' = state
      BY <1>2, <1>5 DEF TypeOK, Leave, At, ThreadStays, Working, Turning, Running
  <2> QED BY <1>1, <2>1 DEF Moves, Stays, ReadStays
<1> QED BY <1>3, <1>4, <1>5 DEF Thread

LEMMA FaultMoves ==
    ASSUME TypeOK, NEW u \in Tasks, NEW t \in Tasks, ThreadDies(t) \/ FinishRaises(t) \/ FailLost(t)
    PROVE  Moves(u)
<1>1. /\ left'.clean = FALSE /\ state' = state /\ spare' = spare /\ ReadStays(u)
      /\ run[t].pc # "none" /\ (run'[u] # run[u] => u = t)
  <2>1. CASE ThreadDies(t)
      BY <2>1, FaultType, SameView DEF TypeOK, ThreadDies, At, ElseSame, rowVars, Past
  <2>2. CASE FinishRaises(t)
      BY <2>2, FaultType, SameView DEF TypeOK, FinishRaises, ElseSame, rowVars, Goto
  <2>3. CASE FailLost(t)
      BY <2>3, FaultType, SameView DEF TypeOK, FailLost, At, ElseSame, rowVars
  <2> QED BY <2>1, <2>2, <2>3
<1>2. Running(t) /\ run[t] \in Runs
    BY <1>1, RunningAt
<1>3. run'[t].pc \in {"dead", "failing", "ended"}
    BY <1>2 DEF TypeOK, ThreadDies, FinishRaises, FailLost, Past, Goto, Runs
<1>4. (Running(u)' => Running(u)) /\ (Turning(u)' => Turning(u))
    BY <1>1, <1>2, <1>3 DEF Running, Turning
<1> QED BY <1>1, <1>4 DEF Moves, Breaks

(* Requests of the operator, and the rest.                                  *)
LEMMA QuietMoves ==
    ASSUME NEW u \in Tasks, state' = state, spare' = spare, ThreadStays(u), view' = view,
           left'.clean = TRUE => left.clean = TRUE
    PROVE  Moves(u)
BY DEF Moves, Stays, Read

LEMMA EnqueueMoves ==
    ASSUME TypeOK, NEW u \in Tasks, NEW t \in Tasks, Enqueue(t), run' = run, view' = view,
           left'.clean = TRUE => left.clean = TRUE,
           state[t] \notin {"QUEUED", "RUNNING", "COMPLETED"} \cup NoRow
    PROVE  Moves(u)
<1>1. /\ state'[t] = "QUEUED" /\ spare'[t] = spare[t] + 1
      /\ u # t => state'[u] = state[u] /\ spare'[u] = spare[u]
    BY DEF TypeOK, Enqueue, SetState
<1>2. ThreadStays(u) /\ (Turning(u)' <=> Turning(u)) /\ (Read(u)' => Read(u))
    BY SameThread DEF Read, Turning, Running
<1>3. CASE u = t
    BY <1>1, <1>2, <1>3 DEF Moves, Enters, NoRow
<1>4. CASE u # t
    BY <1>1, <1>2, <1>4 DEF Moves, Stays
<1> QED BY <1>3, <1>4

LEMMA StopRowMoves ==
    ASSUME TypeOK, NEW u \in Tasks, NEW t \in Tasks, NEW s \in {"CANCELLED", "PAUSED"}, SetState(t, s),
           state[t] \in Stoppable, run' = run, view' = view, spare' = spare,
           left'.clean = TRUE => left.clean = TRUE
    PROVE  Moves(u)
<1>1. state'[t] = s /\ (u # t => state'[u] = state[u])
    BY DEF TypeOK, SetState, Stoppable, NoRow, BLOCKED_STATES
<1>2. ThreadStays(u) /\ ReadStays(u)
    BY SameThread, SameView
<1>3. CASE u = t
    BY <1>1, <1>2, <1>3 DEF Moves, IsStopped
<1>4. CASE u # t
    BY <1>1, <1>2, <1>4 DEF Moves, Stays, ReadStays
<1> QED BY <1>3, <1>4

LEMMA LateMoves ==
    ASSUME TypeOK, NEW u \in Tasks, NEW verb, NEW t \in Tasks, Late(verb, t)
    PROVE  Moves(u)
<1>1. view' = view /\ (left'.clean = TRUE => left.clean = TRUE)
    BY DEF Late
<1>2. CASE UNCHANGED <<state, spare, run>>
    BY <1>1, <1>2, SameThread, QuietMoves
<1>3. CASE /\ state[t] \in Stoppable /\ UNCHANGED <<run, spare>>
           /\ \E s \in {"CANCELLED", "PAUSED"} : SetState(t, s)
    BY <1>1, <1>3, StopRowMoves
<1>4. CASE state[t] = "WAITING_APPROVAL" /\ Enqueue(t) /\ UNCHANGED run
    BY <1>1, <1>4, EnqueueMoves DEF NoRow
<1>5. ASSUME UNCHANGED <<state, spare>>, NEW s \in {"cancel", "pause"}, NEW others, Stop(t, s, others)
      PROVE  Moves(u)
  <2>1. ThreadStays(u)
      BY <1>5, StoppedThread DEF Stop, Intents
  <2> QED BY <1>1, <1>5, <2>1, QuietMoves
<1> QED BY <1>2, <1>3, <1>4, <1>5 DEF Late, Stoppable, BLOCKED_STATES

LEMMA RequestMoves ==
    ASSUME TypeOK, NEW u \in Tasks, NEW t \in Tasks,
           \/ Create(t) \/ Resume(t) \/ Retry(t) \/ Steer(t) \/ Delete(t) \/ Wait(t)
           \/ \E verb \in {"cancel", "pause"} : Ask(t, verb)
           \/ \E verb \in {"approve", "deny"} : Decide(t, verb)
    PROVE  Moves(u)
<1> USE DEF ElseSame, rowVars
<1>1. view' = view /\ left'.clean = left.clean
    BY SameClean DEF Create, Resume, Retry, Steer, Delete, Wait, Ask, Decide
<1>2. CASE Create(t)
  <2>1. ThreadStays(u) /\ (Turning(u)' <=> Turning(u)) /\ (Read(u)' => Read(u))
      BY <1>1, <1>2, SameThread DEF Create, Read, Turning, Running
  <2>2. CASE u = t
      BY <1>1, <1>2, <2>1, <2>2 DEF TypeOK, Create, Moves, Enters
  <2>3. CASE u # t
      BY <1>1, <1>2, <2>1, <2>3 DEF TypeOK, Create, Moves, Stays
  <2> QED BY <2>2, <2>3
<1>3. CASE Resume(t) \/ Retry(t)
    BY <1>1, <1>3, EnqueueMoves DEF Resume, Retry, Retryable, NoRow
<1>4. CASE Delete(t)
  <2>1. ThreadStays(u) /\ ReadStays(u)
      BY <1>1, <1>4, SameThread, SameView DEF Delete
  <2>2. CASE u = t
      BY <1>1, <1>4, <2>1, <2>2 DEF TypeOK, Delete, Moves, Goes
  <2>3. CASE u # t
      BY <1>1, <1>4, <2>1, <2>3 DEF TypeOK, Delete, Moves, Stays, ReadStays
  <2> QED BY <2>2, <2>3
<1>5. CASE Steer(t) \/ Wait(t) \/ \E verb \in {"approve", "deny"} : Decide(t, verb)
    BY <1>1, <1>5, SameThread, QuietMoves DEF Steer, Wait, Decide
<1>6. ASSUME NEW verb \in {"cancel", "pause"}, Ask(t, verb) PROVE Moves(u)
  <2>1. ThreadStays(u)
      BY <1>6, StoppedThread DEF Ask, Stop, Intents
  <2> QED BY <1>1, <1>6, <2>1, QuietMoves DEF Ask
<1> QED BY <1>2, <1>3, <1>4, <1>5, <1>6

LEMMA NextMoves ==
    ASSUME TypeOK, Ends, [Next]_vars, NEW u \in Tasks
    PROVE  Moves(u)
<1>1. CASE SignInChanges \/ \E a \in Agents : Enable(a) \/ \E verb \in {"cancel", "pause"} : Disable(a, verb)
  <2>1. left'.clean = left.clean /\ run' = run /\ view' = view /\ state' = state /\ spare' = spare
      BY <1>1, SameClean DEF SignInChanges, Enable, Disable, rowVars
  <2> QED BY <2>1, SameThread, QuietMoves
<1>2. CASE Close
  <2>1. ThreadStays(u)
      BY <1>2, StoppedThread DEF Close, Intents
  <2> QED BY <1>2, <2>1, QuietMoves DEF Close, rowVars
<1>3. CASE Restart
  <2>1. left'.clean = left.clean
      BY <1>3, SameClean DEF Restart
  <2>2. ~Running(u)' /\ ~Working(u)' /\ ~Read(u)'
      BY <1>3 DEF Restart, Running, Working, Read, NoView
  <2> QED BY <1>3, <2>1, <2>2 DEF Restart, Moves, Recovers
<1>4. ASSUME NEW call \in calls, Late(call[1], call[2]) PROVE Moves(u)
  <2>1. call[2] \in Tasks
      BY DEF TypeOK
  <2> QED BY <1>4, <2>1, LateMoves
<1>5. CASE UNCHANGED vars
    BY <1>5, SameThread, QuietMoves DEF vars, rowVars
<1> QED BY <1>1, <1>2, <1>3, <1>4, <1>5, QueueMoves, DispatchMoves, DispatchFailsMoves, ThreadMoves,
           FaultMoves, RequestMoves DEF Next
-----------------------------------------------------------------------------
(* The inductive invariant of one row.  A row in the queue, or read from    *)
(* it and not acted on, has a start to its credit; while hub.db answers,    *)
(* RUNNING and a working thread go together, and nothing the dispatcher is  *)
(* about to start works or has completed, whatever happened since it read.  *)

Credit(u) == spare[u] >= 0 /\ (state[u] = "QUEUED" \/ Read(u) => spare[u] >= 1)
Fresh(u) == state[u] = "none" => ~Running(u) /\ ~Read(u)
Seen(u) == left.clean = TRUE /\ state[u] \notin NoRow => (state[u] = "RUNNING" <=> Working(u))
Unstarted(u) == left.clean = TRUE /\ Read(u) => ~Working(u) /\ state[u] # "COMPLETED"
RowOK(u) == Credit(u) /\ Fresh(u) /\ Seen(u) /\ Unstarted(u)
HubInv == \A u \in Tasks : RowOK(u)

LEMMA InvInit == Init => HubInv
<1> SUFFICES ASSUME Init, NEW u \in Tasks PROVE RowOK(u)
    BY DEF HubInv
<1>1. state[u] = "none" /\ spare[u] = 0 /\ ~Running(u) /\ ~Read(u)
    BY DEF Init, Running, Read, NoView
<1> QED BY <1>1 DEF RowOK, Credit, Fresh, Seen, Unstarted, NoRow

LEMMA CreditStep ==
    ASSUME NEW u, spare[u] \in Int, Credit(u), Moves(u)
    PROVE  Credit(u)'
<1>1. CASE Stays(u) \/ IsSent(u) \/ Goes(u) \/ Breaks(u) \/ IsStopped(u)
    BY <1>1 DEF Stays, IsSent, Goes, Breaks, IsStopped, Credit, ReadStays, Written
<1>2. CASE Enters(u)
    BY <1>2 DEF Enters, Credit
<1>3. CASE Starts(u)
  <2>1. state'[u] # "QUEUED"
      BY <1>3 DEF Starts, Written, NoRow
  <2> QED BY <1>3, <2>1 DEF Starts, Credit
<1>4. CASE Ended(u)
  <2>1. state'[u] = "QUEUED" => state[u] = "QUEUED"
      BY <1>4 DEF Ended, Written, BLOCKED_STATES, TERMINAL_STATES
  <2> QED BY <1>4, <2>1 DEF Ended, Credit, ReadStays
<1>5. CASE Recovers(u)
    BY <1>5 DEF Recovers, Recovered, Credit
<1> QED BY <1>1, <1>2, <1>3, <1>4, <1>5 DEF Moves

LEMMA FreshStep ==
    ASSUME NEW u, Fresh(u), Moves(u)
    PROVE  Fresh(u)'
<1> SUFFICES ASSUME state'[u] = "none" PROVE ~Running(u)' /\ ~Read(u)'
    BY DEF Fresh
<1>1. state[u] = "none" \/ Recovers(u)
    BY DEF Moves, Stays, Enters, Starts, IsSent, Ended, IsStopped, Goes, Breaks, Written,
           BLOCKED_STATES, TERMINAL_STATES
<1>2. CASE Recovers(u)
    BY <1>2 DEF Recovers
<1>3. CASE state[u] = "none" /\ ~Recovers(u)
  <2>1. ~Running(u) /\ ~Read(u)
      BY <1>3 DEF Fresh
  <2>2. Stays(u) \/ Ended(u) \/ Breaks(u)
      BY <1>3, <2>1 DEF Moves, Enters, Starts, IsSent, IsStopped, Goes, Stoppable, BLOCKED_STATES,
             TERMINAL_STATES
  <2>3. ~Ended(u)
      BY <2>1 DEF Ended, Working
  <2> QED BY <1>3, <2>1, <2>2, <2>3 DEF Stays, Breaks, ThreadStays, ReadStays
<1> QED BY <1>1, <1>2, <1>3

LEMMA SeenStep ==
    ASSUME NEW u, Seen(u), Fresh(u), Unstarted(u), Moves(u)
    PROVE  Seen(u)'
<1> SUFFICES ASSUME left'.clean = TRUE, state'[u] \notin NoRow
             PROVE  state'[u] = "RUNNING" <=> Working(u)'
    BY DEF Seen
<1>1. left.clean = TRUE
    BY DEF Moves
<1>2. CASE Stays(u)
    BY <1>1, <1>2 DEF Stays, Seen, ThreadStays
<1>3. CASE Enters(u)
  <2>1. ~Working(u)
      BY <1>1, <1>3 DEF Enters, Seen, Fresh, NoRow, Working
  <2> QED BY <1>3, <2>1 DEF Enters, ThreadStays
<1>4. CASE Starts(u)
    BY <1>4 DEF Starts, Written, Turning, Working
<1>5. CASE IsSent(u)
    BY <1>5 DEF IsSent, Written
<1>6. CASE Ended(u)
    BY <1>6 DEF Ended, Written, BLOCKED_STATES, TERMINAL_STATES
<1>7. CASE IsStopped(u)
    BY <1>1, <1>7 DEF IsStopped, Seen, Stoppable, NoRow, ThreadStays, BLOCKED_STATES
<1>8. CASE Goes(u)
    BY <1>8 DEF Goes, NoRow
<1>9. CASE Recovers(u)
    BY <1>9 DEF Recovers, Recovered
<1>10. CASE Breaks(u)
    BY <1>10 DEF Breaks
<1> QED BY <1>2, <1>3, <1>4, <1>5, <1>6, <1>7, <1>8, <1>9, <1>10 DEF Moves

LEMMA UnstartedStep ==
    ASSUME NEW u, Seen(u), Unstarted(u), Moves(u)
    PROVE  Unstarted(u)'
<1> SUFFICES ASSUME left'.clean = TRUE, Read(u)' PROVE ~Working(u)' /\ state'[u] # "COMPLETED"
    BY DEF Unstarted
<1>1. left.clean = TRUE
    BY DEF Moves
<1>2. CASE Stays(u)
    BY <1>1, <1>2 DEF Stays, Seen, Unstarted, ThreadStays, NoRow
<1>3. CASE Enters(u)
    BY <1>1, <1>3 DEF Enters, Seen, Unstarted, ThreadStays, NoRow
<1>4. CASE Ended(u)
    BY <1>1, <1>4 DEF Ended, Unstarted, ReadStays
<1>5. CASE IsStopped(u)
    BY <1>1, <1>5 DEF IsStopped, Unstarted, ThreadStays, ReadStays
<1>6. CASE Goes(u)
    BY <1>1, <1>6 DEF Goes, Unstarted, ThreadStays, ReadStays
<1> QED BY <1>2, <1>3, <1>4, <1>5, <1>6 DEF Moves, Starts, IsSent, Recovers, Breaks

LEMMA InvStep == TypeOK /\ Ends /\ HubInv /\ [Next]_vars => HubInv'
<1> SUFFICES ASSUME TypeOK, Ends, HubInv, [Next]_vars, NEW u \in Tasks PROVE RowOK(u)'
    BY DEF HubInv
<1>1. Moves(u) /\ RowOK(u) /\ spare[u] \in Int
    BY NextMoves DEF HubInv, TypeOK
<1> QED BY <1>1, CreditStep, FreshStep, SeenStep, UnstartedStep DEF RowOK

-----------------------------------------------------------------------------
(* Takes says of a set that it is what the loop starts, without saying how  *)
(* to find it.  There is always one such set and only one: what the loop    *)
(* does with a row depends on the older rows alone.                         *)

Chosen(begun, t) == view.signedIn /\ Free(t) /\ ~\E u \in begun : u < t /\ Clash(t, u)
TakesUpTo(n, begun) == \A t \in view.queue : t <= n => (t \in begun <=> Chosen(begun, t))

LEMMA QueueIsRead ==
    ASSUME TypeOK, view.open
    PROVE  view.queue \subseteq 1..TaskCount /\ TaskCount \in Nat
<1>1. view \in Views
    BY DEF TypeOK, NoView
<1> QED BY <1>1, HubAssumption DEF Views, Tasks

LEMMA TakesOneMore ==
    ASSUME NEW N \in Nat, view.queue \subseteq 1..N, NEW n \in 1..N,
           NEW begun \in SUBSET view.queue, TakesUpTo(n - 1, begun)
    PROVE  \E more \in SUBSET view.queue : TakesUpTo(n, more)
<1> DEFINE old == {u \in begun : u < n}
           more == {u \in view.queue : u \in old \/ (u = n /\ Chosen(old, n))}
<1>1. \A u \in view.queue : u \in 1..N
    OBVIOUS
<1>2. ASSUME NEW t \in view.queue, t <= n PROVE t \in more <=> Chosen(more, t)
  <2>1. \A u \in view.queue : u < t => (u \in more <=> u \in begun) /\ (u \in old <=> u \in begun)
      BY <1>1, <1>2
  <2>2. (Chosen(more, t) <=> Chosen(begun, t)) /\ (Chosen(old, t) <=> Chosen(begun, t))
      BY <2>1 DEF Chosen
  <2>3. CASE t < n
    <3>1. t <= n - 1 /\ (t \in more <=> t \in begun)
        BY <1>1, <2>3
    <3> QED BY <2>2, <3>1 DEF TakesUpTo
  <2>4. CASE t = n
    <3>1. t \in more <=> Chosen(old, t)
        BY <2>4
    <3> QED BY <2>2, <3>1
  <2> QED BY <1>1, <1>2, <2>3, <2>4
<1>3. more \in SUBSET view.queue
    OBVIOUS
<1> QED BY <1>2, <1>3 DEF TakesUpTo

LEMMA LoopTakesSome ==
    ASSUME TypeOK, view.open
    PROVE  \E begun \in SUBSET view.queue : Takes(begun)
<1> DEFINE S == {n \in 0..TaskCount : \E begun \in SUBSET view.queue : TakesUpTo(n, begun)}
<1>1. view.queue \subseteq 1..TaskCount /\ TaskCount \in Nat
    BY QueueIsRead
<1>2. 0 \in S
  <2>1. TakesUpTo(0, {})
      BY <1>1 DEF TakesUpTo
  <2> QED BY <1>1, <2>1
<1>3. \A n \in 1..TaskCount : n - 1 \in S => n \in S
    BY <1>1, TakesOneMore
<1>4. TaskCount \in S
  <2> HIDE DEF S
  <2>1. \A n \in 0..TaskCount : n \in S
      BY <1>1, <1>2, <1>3, BoundedInduction
  <2> QED BY <1>1, <2>1
<1>5. PICK begun \in SUBSET view.queue : TakesUpTo(TaskCount, begun)
    BY <1>4
<1>6. Takes(begun)
    BY <1>1, <1>5 DEF TakesUpTo, Takes, Chosen
<1> QED BY <1>6

LEMMA LoopTakesOneSet ==
    ASSUME TypeOK, view.open, NEW a \in SUBSET view.queue, Takes(a), NEW b \in SUBSET view.queue, Takes(b)
    PROVE  a = b
<1> DEFINE S == {n \in 0..TaskCount : \A t \in view.queue : t <= n => (t \in a <=> t \in b)}
<1>1. view.queue \subseteq 1..TaskCount /\ TaskCount \in Nat
    BY QueueIsRead
<1>2. 0 \in S
    BY <1>1
<1>3. ASSUME NEW n \in 1..TaskCount, n - 1 \in S PROVE n \in S
  <2>1. \A u \in view.queue : u < n => (u \in a <=> u \in b)
      BY <1>1, <1>3
  <2>2. n \in view.queue => (Chosen(a, n) <=> Chosen(b, n))
      BY <2>1 DEF Chosen
  <2>3. n \in view.queue => (n \in a <=> n \in b)
      BY <2>2 DEF Takes, Chosen
  <2> QED BY <1>1, <2>1, <2>3
<1>4. TaskCount \in S
  <2> HIDE DEF S
  <2>1. \A n \in 0..TaskCount : n \in S
      BY <1>1, <1>2, <1>3, BoundedInduction
  <2> QED BY <1>1, <2>1
<1> QED BY <1>1, <1>4

-----------------------------------------------------------------------------
(* Two tasks that clash are never in the registry together, not even as an  *)
(* entry whose thread died: what the loop starts was compared with both the *)
(* registry and the older rows of its own round.                            *)

Exclusive == \A t, u \in Tasks : t # u /\ Running(t) /\ Running(u) => ~Clash(t, u)

LEMMA ClashIsMutual ==
    ASSUME NEW t, NEW u, Clash(t, u)
    PROVE  Clash(u, t)
BY DEF Clash

LEMMA NewlyRunning ==
    ASSUME TypeOK, [Next]_vars, NEW u \in Tasks, Running(u)', ~Running(u)
    PROVE  Dispatch \/ \E t \in Tasks : DispatchFails(t)
<1> USE DEF TypeOK, rowVars, ElseSame
<1>1. ASSUME NEW t \in Tasks, run[t].pc # "none", u # t => run'[u] = run[u] PROVE FALSE
    BY <1>1, RunningAt DEF Running
<1>2. ASSUME NEW t \in Tasks, Thread(t) \/ Raise(t) \/ ThreadDies(t) \/ FinishRaises(t) \/ FailLost(t)
      PROVE  FALSE
  <2>1. run[t].pc # "none"
      BY <1>2 DEF Thread, BeginTurn, ReadCancel, Settle, Fail, Leave, EndTurn, Raise, ThreadDies,
             FinishRaises, FailLost, At
  <2>2. u # t => run'[u] = run[u]
      BY <1>2 DEF Thread, BeginTurn, ReadCancel, Settle, Fail, Leave, EndTurn, Raise, ThreadDies,
             FinishRaises, FailLost, Goto, Past
  <2> QED BY <1>1, <2>1, <2>2
<1>3. ASSUME run'[u] = run[u] \/ run'[u] = Told(u, "cancel") \/ run'[u] = Told(u, "pause")
             \/ run'[u] = Told(u, "shutdown")
      PROVE  FALSE
    BY <1>3 DEF Told, Heeds, Running
<1>4. ASSUME NEW t \in Tasks, NEW verb \in {"cancel", "pause"}, NEW others, Stop(t, verb, others)
      PROVE  FALSE
    BY <1>3, <1>4 DEF Stop
<1>5. ASSUME NEW call \in calls, Late(call[1], call[2]) PROVE FALSE
  <2>1. call[2] \in Tasks
      OBVIOUS
  <2>2. \/ UNCHANGED run
        \/ \E verb \in {"cancel", "pause"} : \E others : Stop(call[2], verb, others)
      BY <1>5 DEF Late
  <2> QED BY <1>3, <1>4, <2>1, <2>2
<1>6. ~Close
    BY <1>3 DEF Close
<1>7. ~Restart
    BY DEF Restart, Running
<1>8. ASSUME NEW t \in Tasks, NEW verb \in {"cancel", "pause"}, Ask(t, verb) PROVE FALSE
    BY <1>4, <1>8 DEF Ask
<1>9. ASSUME NEW t \in Tasks, Create(t) \/ Resume(t) \/ Retry(t) \/ Steer(t) \/ Delete(t) \/ Wait(t)
                              \/ \E verb \in {"approve", "deny"} : Decide(t, verb)
      PROVE  FALSE
    BY <1>3, <1>9 DEF Create, Resume, Retry, Steer, Delete, Wait, Decide
<1>10. ASSUME NEW a \in Agents, Enable(a) \/ \E verb \in {"cancel", "pause"} : Disable(a, verb)
       PROVE  FALSE
    BY <1>3, <1>10 DEF Enable, Disable
<1>11. ~(ReadQueue \/ SignInChanges \/ UNCHANGED vars)
    BY <1>3 DEF ReadQueue, SignInChanges, vars
<1> QED BY <1>2, <1>5, <1>6, <1>7, <1>8, <1>9, <1>10, <1>11 DEF Next

LEMMA TakenTogether ==
    ASSUME TypeOK, Dispatch \/ \E t \in Tasks : DispatchFails(t)
    PROVE  \E begun \in SUBSET view.queue :
              Takes(begun) /\ \A u \in Tasks : Running(u)' => Running(u) \/ u \in begun
<1>1. CASE Dispatch
  <2>1. PICK begun \in SUBSET view.queue :
            Takes(begun) /\ run' = [t \in Tasks |-> IF t \in begun THEN NewRun(t) ELSE run[t]]
      BY <1>1 DEF Dispatch
  <2> QED BY <2>1 DEF Running
<1>2. ASSUME NEW t \in Tasks, DispatchFails(t)
      PROVE  \E begun \in SUBSET view.queue :
                Takes(begun) /\ \A u \in Tasks : Running(u)' => Running(u) \/ u \in begun
  <2>1. PICK taken \in SUBSET view.queue, broken \in SUBSET {t} :
            /\ Takes(taken) /\ broken \subseteq taken
            /\ run' = [u \in Tasks |->
                  IF u \in {x \in taken : x < t} THEN NewRun(u)
                  ELSE IF u \in broken THEN [NewRun(u) EXCEPT !.pc = "dead", !.resumes = 0] ELSE run[u]]
      BY <1>2 DEF DispatchFails
  <2>2. \A u \in Tasks : run'[u] = run[u] \/ u \in taken
      BY <2>1
  <2> QED BY <2>1, <2>2 DEF Running
<1> QED BY <1>1, <1>2

LEMMA ExclusiveStep == TypeOK /\ Exclusive /\ [Next]_vars => Exclusive'
<1> SUFFICES ASSUME TypeOK, Exclusive, [Next]_vars, NEW t \in Tasks, NEW u \in Tasks,
                    t # u, Running(t)', Running(u)', Clash(t, u)
             PROVE  FALSE
    BY DEF Exclusive, Clash
<1>1. CASE Running(t) /\ Running(u)
    BY <1>1 DEF Exclusive
<1>2. CASE ~(Running(t) /\ Running(u))
  <2>1. PICK begun \in SUBSET view.queue :
            Takes(begun) /\ \A x \in Tasks : Running(x)' => Running(x) \/ x \in begun
      BY <1>2, NewlyRunning, TakenTogether
  <2>2. \A x \in begun : Free(x) /\ ~\E y \in begun : y < x /\ Clash(x, y)
      BY <2>1, TakenIsFree
  <2>3. Clash(u, t) /\ (t < u \/ u < t)
      BY ClashIsMutual DEF Tasks
  <2>4. ~(t \in begun /\ Running(u)) /\ ~(u \in begun /\ Running(t))
      BY <2>2, <2>3 DEF Free
  <2>5. ~(t \in begun /\ u \in begun)
      BY <2>2, <2>3
  <2> QED BY <1>2, <2>1, <2>4, <2>5
<1> QED BY <1>1, <1>2

-----------------------------------------------------------------------------
(* The hub keeps the promises of WorkQueue: each step of the hub is, for    *)
(* each task, one of the steps of the queue.                                *)

LEMMA PhaseIs ==
    ASSUME NEW u
    PROVE  /\ Turning(u) => Phase(u) = "working"
           /\ ~Turning(u) => Phase(u) = IF state[u] = "COMPLETED" THEN "completed"
                                        ELSE IF state[u] = "deleted" THEN "gone" ELSE "idle"
           /\ Phase(u) \in Queue!Phases
BY DEF Phase, Queue!Phases

LEMMA PhaseIsNext ==
    ASSUME NEW u
    PROVE  /\ Turning(u)' => Phase(u)' = "working"
           /\ ~Turning(u)' => Phase(u)' = IF state'[u] = "COMPLETED" THEN "completed"
                                         ELSE IF state'[u] = "deleted" THEN "gone" ELSE "idle"
           /\ Phase(u)' \in Queue!Phases
BY DEF Phase, Queue!Phases

Permitted(u) == Phase(u) \notin {"completed", "gone"} /\ Phase(u)' = Phase(u) /\ spare'[u] = spare[u] + 1
Begins(u) ==
    /\ spare[u] > 0 /\ spare'[u] = spare[u] - 1
    /\ Phase(u) # "working" /\ Phase(u)' = "working" /\ ~Running(u) /\ Running(u)'
    /\ left.clean => Phase(u) # "completed"
Rests(u) ==
    /\ spare'[u] = spare[u]
    /\ \/ Phase(u)' = Phase(u)
       \/ Phase(u) = "working" /\ Phase(u)' # "working"
       \/ Phase(u) # "working" /\ Phase(u)' = "gone"
       \/ ~left.clean /\ Phase(u) = "completed" /\ Phase(u)' = "idle"

LEMMA PhaseMoves ==
    ASSUME NEW u \in Tasks, spare[u] \in Int, left.clean \in BOOLEAN, RowOK(u), Moves(u)
    PROVE  Permitted(u) \/ Begins(u) \/ Rests(u)
<1> USE PhaseIs, PhaseIsNext
<1>0. Turning(u) => Working(u) /\ Running(u)
    BY DEF Turning, Working
<1>1. CASE Stays(u)
    BY <1>1 DEF Stays, ThreadStays, Rests
<1>2. CASE Enters(u)
    BY <1>2 DEF Enters, Permitted
<1>3. CASE Starts(u)
  <2>1. spare[u] > 0 /\ spare'[u] = spare[u] - 1 /\ ~Running(u) /\ Running(u)' /\ Turning(u)'
      BY <1>3 DEF Starts, RowOK, Credit, Turning
  <2>2. left.clean => state[u] # "COMPLETED"
      BY <1>3 DEF Starts, RowOK, Unstarted
  <2> QED BY <1>0, <2>1, <2>2 DEF Begins
<1>4. CASE IsSent(u)
  <2>1. ~Turning(u) /\ ~Turning(u)' /\ (left.clean => state[u] # "COMPLETED")
      BY <1>0, <1>4 DEF IsSent, RowOK, Unstarted, Turning
  <2>2. state'[u] = state[u] \/ (state'[u] = "WAITING_PROVIDER" /\ state[u] # "deleted")
      BY <1>4 DEF IsSent, Written, NoRow
  <2> QED BY <1>4, <2>1, <2>2 DEF IsSent, Rests
<1>5. CASE Ended(u)
  <2>1. ~Turning(u)' /\ spare'[u] = spare[u]
      BY <1>5 DEF Ended, Turning, Working
  <2>2. CASE Turning(u)
      BY <2>1, <2>2 DEF Rests
  <2>3. CASE ~Turning(u)
    <3>1. PICK s \in (BLOCKED_STATES \cup TERMINAL_STATES) \ {"COMPLETED"} : state'[u] = Written(u, s)
        BY <1>5, <2>3 DEF Ended
    <3>2. state'[u] = state[u] \/ (state'[u] = s /\ state[u] # "deleted")
        BY <3>1 DEF Written, NoRow
    <3>3. left.clean => state[u] # "COMPLETED"
        BY <1>5 DEF Ended, RowOK, Seen, NoRow
    <3> QED BY <2>1, <2>3, <3>1, <3>2, <3>3 DEF Rests, BLOCKED_STATES, TERMINAL_STATES
  <2> QED BY <2>2, <2>3
<1>6. CASE IsStopped(u)
    BY <1>6 DEF IsStopped, ThreadStays, Stoppable, BLOCKED_STATES, Rests
<1>7. CASE Goes(u)
    BY <1>7 DEF Goes, ThreadStays, Rests
<1>8. CASE Recovers(u)
    BY <1>8 DEF Recovers, Recovered, Turning, Rests
<1>9. CASE Breaks(u)
    BY <1>9 DEF Breaks, Rests
<1> QED BY <1>1, <1>2, <1>3, <1>4, <1>5, <1>6, <1>7, <1>8, <1>9 DEF Moves

LEMMA QueueInit == Init => Queue!Init
<1> SUFFICES ASSUME Init PROVE Queue!Init
    OBVIOUS
<1>1. \A t \in Tasks : Phase(t) = "idle"
    BY DEF Init, Phase, Turning, Running
<1> QED BY <1>1 DEF Init, Queue!Init

Invariants == TypeOK /\ Ends /\ HubInv /\ Exclusive

LEMMA QueueStep == Invariants /\ Invariants' /\ [Next]_vars => Queue!Next
<1> SUFFICES ASSUME Invariants, Invariants', [Next]_vars
             PROVE  Queue!Next
    OBVIOUS
<1>1. /\ \A t \in Tasks : Phase(t)' \in Queue!Phases
      /\ spare' \in [Tasks -> Nat]
      /\ left'.clean \in BOOLEAN /\ (left'.clean => left.clean)
  <2>1. spare' \in [Tasks -> Int] /\ \A t \in Tasks : spare'[t] >= 0
      BY DEF Invariants, TypeOK, HubInv, RowOK, Credit
  <2>2. spare' \in [Tasks -> Nat]
      BY <2>1
  <2>3. left'.clean => left.clean
    <3>1. 1 \in Tasks
        BY HubAssumption DEF Tasks
    <3>2. Moves(1) /\ left'.clean \in BOOLEAN /\ left.clean \in BOOLEAN
        BY <3>1, NextMoves DEF Invariants, TypeOK
    <3> QED BY <3>2 DEF Moves
  <2> QED BY <2>2, <2>3, PhaseIsNext DEF Invariants, TypeOK
<1>2. ASSUME NEW t \in Tasks
      PROVE  Permitted(t) \/ Begins(t) \/ Rests(t)
    BY NextMoves, PhaseMoves DEF Invariants, TypeOK, HubInv
<1>3. ASSUME NEW t \in Tasks, Begins(t), NEW u \in Tasks, t # u, Clash(t, u)
      PROVE  Phase(u)' # "working"
    BY <1>3, PhaseIsNext DEF Begins, Invariants, Exclusive, Phase, Turning
<1> QED BY <1>1, <1>2, <1>3, PhaseIs, PhaseIsNext
        DEF Queue!Next, Queue!Keep, Queue!Permit, Queue!Start, Queue!End, Queue!Remove, Queue!Disturb,
            Queue!Becomes, Queue!Phases, Permitted, Begins, Rests

LEMMA HubInvariant == Spec => []Invariants
<1>1. Init => Invariants
    BY TypeInit, EndsInit, InvInit DEF Invariants, Exclusive, Init, Running
<1>2. Invariants /\ [Next]_vars => Invariants'
    BY TypeStep, EndsStep, InvStep, ExclusiveStep DEF Invariants
<1> QED BY <1>1, <1>2, PTL DEF Spec

-----------------------------------------------------------------------------
(* The theorems.                                                            *)

(* Every variable of the hub keeps its type.                                *)
THEOREM HubTypes == Spec => []TypeOK
<1>1. Invariants => TypeOK
    BY DEF Invariants
<1> QED BY <1>1, HubInvariant, PTL

(* A task starts at most as often as it was put in the queue: the queue the *)
(* dispatcher read long ago, a restart or a failing hub.db never add a run. *)
THEOREM HubRunsAreWarranted == Spec => []RunsAreWarranted
<1>1. Invariants => RunsAreWarranted
    BY DEF Invariants, HubInv, RowOK, Credit, RunsAreWarranted
<1> QED BY <1>1, HubInvariant, PTL

(* A round of the dispatcher is determined by what it read and by who runs: *)
(* whenever a queue was read, there is exactly one set of rows to start.    *)
THEOREM HubLoopIsDetermined ==
    Spec => [](view.open => \E begun \in SUBSET view.queue :
                  Takes(begun) /\ \A other \in SUBSET view.queue : Takes(other) => other = begun)
<1>1. Invariants => (view.open => \E begun \in SUBSET view.queue :
                  Takes(begun) /\ \A other \in SUBSET view.queue : Takes(other) => other = begun)
    BY LoopTakesSome, LoopTakesOneSet DEF Invariants
<1> QED BY <1>1, HubInvariant, PTL

(* While hub.db answers, a row says RUNNING exactly while a thread works.   *)
THEOREM HubNoSilentStall == Spec => []NoSilentStall
<1>1. Invariants => NoSilentStall
  <2> SUFFICES ASSUME Invariants, left.clean, NEW t \in Tasks, state[t] \notin NoRow
               PROVE  state[t] = "RUNNING" <=> Working(t)
      BY DEF NoSilentStall
  <2>1. left.clean = TRUE
      BY DEF Invariants, TypeOK
  <2> QED BY <2>1 DEF Invariants, HubInv, RowOK, Seen
<1> QED BY <1>1, HubInvariant, PTL

(* Completed work is never run again nor settled anew, although the         *)
(* dispatcher starts rows whose state it read in an earlier transaction.    *)
THEOREM HubCompletedIsFinal == Spec => CompletedIsFinal
<1>1. Invariants /\ [Next]_vars =>
        [\A t \in Tasks : state[t] = "COMPLETED" /\ left.clean =>
             state'[t] \in {"COMPLETED", "deleted"}]_vars
  <2> SUFFICES ASSUME Invariants, [Next]_vars, NEW t \in Tasks,
                      state[t] = "COMPLETED", left.clean
               PROVE  state'[t] \in {"COMPLETED", "deleted"}
      OBVIOUS
  <2>1. Moves(t) /\ RowOK(t) /\ left.clean = TRUE
      BY NextMoves DEF Invariants, HubInv, TypeOK
  <2>2. ~Working(t) /\ ~Read(t)
      BY <2>1 DEF RowOK, Seen, Unstarted, NoRow
  <2> QED BY <2>1, <2>2 DEF Moves, Stays, Enters, Starts, IsSent, Ended, IsStopped, Goes, Recovers,
                            Breaks, Recovered, Stoppable, BLOCKED_STATES
<1> QED BY <1>1, HubInvariant, PTL DEF Spec, CompletedIsFinal

(* The hub implements WorkQueue: whatever the dispatcher read long ago,     *)
(* whatever thread dies or backend restarts, a task works on a permit,      *)
(* clashing tasks never work together, and completed work stays completed.  *)
THEOREM HubKeepsQueue == Spec => KeepsQueue
<1>1. Init => Queue!Init
    BY QueueInit
<1>2. Invariants /\ Invariants' /\ [Next]_vars => [Queue!Next]_Queue!vars
    BY QueueStep
<1> QED BY <1>1, <1>2, HubInvariant, PTL DEF Spec, KeepsQueue, Queue!Spec
=============================================================================

-------------------------- MODULE TaskQueueProofs --------------------------
(***************************************************************************)
(* Proofs about TaskQueue for every number of tasks, approvals, workers    *)
(* and specialists, every attempt limit, lease, delay and scan limit.      *)
(***************************************************************************)
EXTENDS TaskQueue, BoundedInduction, FiniteSetTheorems, TLAPS

(* TaskIds and ApprovalIds stay folded: only these facts of them are used.  *)
LEMMA Numbers ==
    /\ TaskIds \subseteq Nat \ {0} /\ ApprovalIds \subseteq Nat \ {0}
    /\ MaxAttempts \in Nat \ {0} /\ LeaseLength \in Nat \ {0} /\ ApprovalTTL \in Nat \ {0}
    /\ RetryDelay \in Nat /\ ScanLimit \in Nat \ {0}
BY CountsAssumption DEF TaskIds, ApprovalIds

-----------------------------------------------------------------------------
(* Types of the table updates that several calls share.                     *)

LEMMA LowerType ==
    ASSUME NEW S, NEW n \in Nat, NEW f \in [S -> 0..n]
    PROVE  Lower(f) \in [S -> 0..n]
BY DEF Lower

LEMMA ReleaseType ==
    ASSUME TypeOK, NEW t, NEW next, Release(t, next)
    PROVE  /\ spStatus' \in [Specialists -> {"ready", "working"}]
           /\ spTask' \in [Specialists -> TaskIds \cup {None}]
           /\ spDone' \in [Specialists -> Nat]
           /\ spFailed' \in [Specialists -> Nat]
BY DEF TypeOK, Release, PlusIf

LEMMA UnleaseType ==
    ASSUME TypeOK, NEW t, Unlease(t)
    PROVE  owner' \in [TaskIds -> Workers \cup {NoWorker}] /\ lease' \in [TaskIds -> 0..LeaseLength]
<1>1. 0 \in 0..LeaseLength
    BY Numbers
<1> QED BY <1>1 DEF TypeOK, Unlease

LEMMA DropType ==
    ASSUME TypeOK, NEW w, NEW p \in Phases, Drop(w, p)
    PROVE  /\ phase' \in [Workers -> Phases]
           /\ job' \in [Workers -> TaskIds \cup {None}]
           /\ seen' \in [Workers -> ApprovalIds \cup {None}]
           /\ lost' \in [Workers -> BOOLEAN]
BY DEF TypeOK, Drop, Become

LEMMA StopOnType ==
    ASSUME TypeOK, NEW w, NEW x \in ApprovalIds, StopOn(w, x)
    PROVE  phase' \in [Workers -> Phases] /\ seen' \in [Workers -> ApprovalIds \cup {None}]
BY DEF TypeOK, StopOn, Become, Phases

LEMMA ExpireType ==
    ASSUME TypeOK, NEW S
    PROVE  Expire(S) \in [ApprovalIds -> ApprovalStates]
BY DEF TypeOK, Expire, ApprovalStates

LEMMA LinkType ==
    ASSUME TypeOK, NEW t, NEW x \in ApprovalIds, Link(t, x)
    PROVE  awaiting' \in [TaskIds -> ApprovalIds \cup {None}]
BY DEF TypeOK, Link

LEMMA RecoveredType ==
    ASSUME TypeOK
    PROVE  /\ RecoveredStatus \in [TaskIds -> TaskStates]
           /\ RecoveredOwner \in [TaskIds -> Workers \cup {NoWorker}]
           /\ RecoveredDelay \in [TaskIds -> 0..RetryDelay]
           /\ RecoveredSpStatus \in [Specialists -> {"ready", "working"}]
           /\ RecoveredSpTask \in [Specialists -> TaskIds \cup {None}]
           /\ RecoveredSpFailed \in [Specialists -> Nat]
<1>1. 0 \in 0..RetryDelay
    BY Numbers
<1>2. RecoveredStatus \in [TaskIds -> TaskStates]
    BY DEF TypeOK, RecoveredStatus, TaskStates
<1>3. RecoveredOwner \in [TaskIds -> Workers \cup {NoWorker}]
    BY DEF TypeOK, RecoveredOwner
<1>4. RecoveredDelay \in [TaskIds -> 0..RetryDelay]
    BY <1>1 DEF TypeOK, RecoveredDelay
<1>5. RecoveredSpStatus \in [Specialists -> {"ready", "working"}]
    BY DEF TypeOK, RecoveredSpStatus
<1>6. RecoveredSpTask \in [Specialists -> TaskIds \cup {None}]
    BY DEF TypeOK, RecoveredSpTask
<1>7. RecoveredSpFailed \in [Specialists -> Nat]
    BY DEF TypeOK, RecoveredSpFailed, PlusIf
<1> QED BY <1>2, <1>3, <1>4, <1>5, <1>6, <1>7

\* A worker has a task in hand whenever a call of its reads that task.
LEMMA MineType ==
    ASSUME TypeOK, NEW w \in Workers, Mine(w)
    PROVE  job[w] \in TaskIds
BY DEF TypeOK, Mine

LEMMA FailTaskType ==
    ASSUME TypeOK, NEW w \in Workers, NEW retry, NEW wait \in 0..RetryDelay,
           FailTask(w, retry, wait)
    PROVE  /\ status' \in [TaskIds -> TaskStates]
           /\ owner' \in [TaskIds -> Workers \cup {NoWorker}]
           /\ lease' \in [TaskIds -> 0..LeaseLength]
           /\ delay' \in [TaskIds -> 0..RetryDelay]
           /\ awaiting' \in [TaskIds -> ApprovalIds \cup {None}]
           /\ spStatus' \in [Specialists -> {"ready", "working"}]
           /\ spTask' \in [Specialists -> TaskIds \cup {None}]
           /\ spDone' \in [Specialists -> Nat]
           /\ spFailed' \in [Specialists -> Nat]
<1>1. CASE Mine(w)
  <2> DEFINE t == job[w]
             next == IF retry /\ ~Exhausted(t) THEN "queued" ELSE "failed"
  <2>1. /\ status' = [status EXCEPT ![t] = next] /\ Unlease(t) /\ Release(t, next)
        /\ delay' = IF next = "queued" THEN [delay EXCEPT ![t] = wait] ELSE delay
        /\ awaiting' = [awaiting EXCEPT ![t] = None]
    BY <1>1 DEF FailTask
  <2>2. next \in TaskStates
    BY DEF TaskStates
  <2> HIDE DEF next
  <2>3. /\ status' \in [TaskIds -> TaskStates]
        /\ delay' \in [TaskIds -> 0..RetryDelay]
        /\ awaiting' \in [TaskIds -> ApprovalIds \cup {None}]
    BY <2>1, <2>2 DEF TypeOK
  <2> QED BY <2>1, <2>3, UnleaseType, ReleaseType
<1>2. CASE ~Mine(w)
    BY <1>2 DEF FailTask, TypeOK, specialistVars
<1> QED BY <1>1, <1>2

-----------------------------------------------------------------------------
(* The type invariant, one step per action.                                 *)

LEMMA TypeInit == Init => TypeOK
<1>1. 0 \in 0..LeaseLength /\ 0 \in 0..RetryDelay /\ 0 \in 0..MaxAttempts /\ 0 \in 0..ApprovalTTL
    BY Numbers
<1> QED BY <1>1 DEF Init, TypeOK, ControlStates, TaskStates, ApprovalStates, Phases

LEMMA TypeStep == TypeOK /\ [Next]_vars => TypeOK'
<1> SUFFICES ASSUME TypeOK, [Next]_vars PROVE TypeOK'
    OBVIOUS
<1> USE DEF specialistVars, approvalVars, workerVars, taskVars
<1>1. ASSUME NEW c \in ControlStates, SetControl(c) PROVE TypeOK'
    BY <1>1 DEF TypeOK, SetControl
<1>2. CASE Tick
  <2>1. lease' \in [TaskIds -> 0..LeaseLength]
      BY <1>2, Numbers, LowerType DEF TypeOK, Tick
  <2>2. delay' \in [TaskIds -> 0..RetryDelay]
      BY <1>2, Numbers, LowerType DEF TypeOK, Tick
  <2>3. ttl' \in [ApprovalIds -> 0..ApprovalTTL]
      BY <1>2, Numbers, LowerType DEF TypeOK, Tick
  <2> QED BY <1>2, <2>1, <2>2, <2>3 DEF TypeOK, Tick
<1>3. ASSUME NEW t \in TaskIds, NEW s \in Specialists \cup {NoSpecialist},
             NEW d \in {0, RetryDelay}, Submit(t, s, d)
      PROVE  TypeOK'
  <2>1. d \in 0..RetryDelay
      BY Numbers
  <2> QED BY <1>3, <2>1 DEF TypeOK, Submit, TaskStates
<1>4. ASSUME NEW x \in ApprovalIds, Approve(x) PROVE TypeOK'
  <2>1. /\ 0 \in 0..RetryDelay
        /\ ApprovalTTL \in 0..ApprovalTTL
      BY Numbers
  <2>2. ttl' \in [ApprovalIds -> 0..ApprovalTTL] /\ aStatus' \in [ApprovalIds -> ApprovalStates]
      BY <1>4, <2>1 DEF TypeOK, Approve, ApprovalStates
  <2>3. /\ status' \in [TaskIds -> TaskStates]
        /\ delay' \in [TaskIds -> 0..RetryDelay]
        /\ awaiting' \in [TaskIds -> ApprovalIds \cup {None}]
      BY <1>4, <2>1 DEF TypeOK, Approve, TaskStates
  <2>4. owner' \in [TaskIds -> Workers \cup {NoWorker}] /\ lease' \in [TaskIds -> 0..LeaseLength]
      BY <1>4, UnleaseType DEF TypeOK, Approve
  <2> QED BY <1>4, <2>2, <2>3, <2>4 DEF TypeOK, Approve
<1>5. ASSUME NEW x \in ApprovalIds, Deny(x) PROVE TypeOK'
  <2>1. aStatus' \in [ApprovalIds -> ApprovalStates]
      BY <1>5 DEF TypeOK, Deny, ApprovalStates
  <2>2. status' \in [TaskIds -> TaskStates] /\ awaiting' \in [TaskIds -> ApprovalIds \cup {None}]
      BY <1>5 DEF TypeOK, Deny, TaskStates
  <2>3. owner' \in [TaskIds -> Workers \cup {NoWorker}] /\ lease' \in [TaskIds -> 0..LeaseLength]
      BY <1>5, UnleaseType DEF TypeOK, Deny
  <2>4. /\ spStatus' \in [Specialists -> {"ready", "working"}]
        /\ spTask' \in [Specialists -> TaskIds \cup {None}]
        /\ spDone' \in [Specialists -> Nat]
        /\ spFailed' \in [Specialists -> Nat]
      BY <1>5, ReleaseType DEF TypeOK, Deny
  <2> QED BY <1>5, <2>1, <2>2, <2>3, <2>4 DEF TypeOK, Deny
<1>6. ASSUME NEW w \in Workers, Start(w) PROVE TypeOK'
  <2>1. phase' \in [Workers -> Phases]
      BY <1>6 DEF TypeOK, Start, Become, Phases
  <2> QED BY <1>6, <2>1, RecoveredType DEF TypeOK, Start, RecoverStale
<1>7. ASSUME NEW w \in Workers, NEW t \in TaskIds, Claim(w, t) PROVE TypeOK'
  <2>1. LeaseLength \in 0..LeaseLength
      BY Numbers
  <2>2. attempts' \in [TaskIds -> 0..MaxAttempts]
    <3>1. attempts[t] \in 0..MaxAttempts /\ attempts[t] < MaxAttempts
        BY <1>7 DEF TypeOK, Claim, Claimable
    <3>2. attempts[t] + 1 \in 0..MaxAttempts
        BY <3>1, Numbers
    <3> QED BY <1>7, <3>2 DEF TypeOK, Claim
  <2>3. /\ status' \in [TaskIds -> TaskStates]
        /\ owner' \in [TaskIds -> Workers \cup {NoWorker}]
        /\ delay' \in [TaskIds -> 0..RetryDelay]
        /\ spFailed' \in [Specialists -> Nat]
      BY <1>7, RecoveredType DEF Claim, TaskStates
  <2>4. /\ spStatus' \in [Specialists -> {"ready", "working"}]
        /\ spTask' \in [Specialists -> TaskIds \cup {None}]
      BY <1>7, RecoveredType DEF Claim
  <2>5. /\ phase' \in [Workers -> Phases]
        /\ job' \in [Workers -> TaskIds \cup {None}]
        /\ lease' \in [TaskIds -> 0..LeaseLength]
      BY <1>7, <2>1 DEF TypeOK, Claim, Become, Phases
  <2> QED BY <1>7, <2>2, <2>3, <2>4, <2>5 DEF TypeOK, Claim
<1>8. ASSUME NEW w \in Workers, ClaimNothing(w) PROVE TypeOK'
    BY <1>8, RecoveredType DEF TypeOK, ClaimNothing, RecoverStale
<1>9. ASSUME NEW w \in Workers, ExitOnStop(w) \/ Crash(w) \/ StoreFails(w) PROVE TypeOK'
  <2>1. "off" \in Phases /\ "idle" \in Phases
      BY DEF Phases
  <2> QED BY <1>9, <2>1, DropType DEF TypeOK, ExitOnStop, Crash, StoreFails
<1>10. ASSUME NEW w \in Workers, Renew(w) PROVE TypeOK'
  <2>1. LeaseLength \in 0..LeaseLength
      BY Numbers
  <2> QED BY <1>10, <2>1 DEF TypeOK, Renew
<1>11. ASSUME NEW w \in Workers, HeartbeatFails(w) PROVE TypeOK'
    BY <1>11 DEF TypeOK, HeartbeatFails
<1>12. ASSUME NEW w \in Workers, PassGuard(w) \/ EndRun(w) \/ CannotPark(w) PROVE TypeOK'
    BY <1>12 DEF TypeOK, PassGuard, EndRun, CannotPark, Become, Phases
<1>13. ASSUME NEW w \in Workers, NEW e \in Effects, NEW x \in ApprovalIds, Consume(w, e, x)
       PROVE  TypeOK'
  <2>1. aStatus' \in [ApprovalIds -> ApprovalStates]
      BY <1>13, ExpireType DEF Consume, ApprovalStates
  <2>2. executed' \in [ApprovalIds -> Nat]
      BY <1>13 DEF TypeOK, Consume
  <2>3. awaiting' \in [TaskIds -> ApprovalIds \cup {None}]
      BY <1>13 DEF TypeOK, Consume
  <2>4. phase' \in [Workers -> Phases]
      BY <1>13 DEF TypeOK, Consume, Become, Phases
  <2> QED BY <1>13, <2>1, <2>2, <2>3, <2>4 DEF TypeOK, Consume
<1>14. ASSUME NEW w \in Workers, NEW e \in Effects, NEW x \in ApprovalIds, MeetPending(w, e, x)
       PROVE  TypeOK'
    BY <1>14, ExpireType, LinkType, StopOnType DEF TypeOK, MeetPending
<1>15. ASSUME NEW w \in Workers, NEW e \in Effects, NEW x \in ApprovalIds, Request(w, e, x)
       PROVE  TypeOK'
  <2>1. aStatus' \in [ApprovalIds -> ApprovalStates]
      BY <1>15, ExpireType DEF Request, ApprovalStates
  <2>2. aTask' \in [ApprovalIds -> TaskIds \cup {None}]
      BY <1>15 DEF TypeOK, Request
  <2>3. aEffect' \in [ApprovalIds -> Effects \cup {NoEffect}]
      BY <1>15 DEF TypeOK, Request
  <2> QED BY <1>15, <2>1, <2>2, <2>3, LinkType, StopOnType DEF TypeOK, Request
<1>16. ASSUME NEW w \in Workers, ConfirmLease(w) PROVE TypeOK'
  <2>1. LeaseLength \in 0..LeaseLength /\ "idle" \in Phases /\ "recording" \in Phases
      BY Numbers DEF Phases
  <2> QED BY <1>16, <2>1, DropType DEF TypeOK, ConfirmLease, Become
<1>17. ASSUME NEW w \in Workers, Finish(w) PROVE TypeOK'
  <2>1. "idle" \in Phases
      BY DEF Phases
  <2>2. status' \in [TaskIds -> TaskStates] /\ awaiting' \in [TaskIds -> ApprovalIds \cup {None}]
      BY <1>17 DEF TypeOK, Finish, TaskStates
  <2>3. owner' \in [TaskIds -> Workers \cup {NoWorker}] /\ lease' \in [TaskIds -> 0..LeaseLength]
      BY <1>17, UnleaseType DEF TypeOK, Finish
  <2>4. /\ spStatus' \in [Specialists -> {"ready", "working"}]
        /\ spTask' \in [Specialists -> TaskIds \cup {None}]
        /\ spDone' \in [Specialists -> Nat]
        /\ spFailed' \in [Specialists -> Nat]
      BY <1>17, ReleaseType DEF TypeOK, Finish
  <2> QED BY <1>17, <2>1, <2>2, <2>3, <2>4, DropType DEF TypeOK, Finish
<1>18. ASSUME NEW w \in Workers, NEW retry \in BOOLEAN, Incomplete(w, retry) PROVE TypeOK'
  <2>1. RetryDelay \in 0..RetryDelay /\ "idle" \in Phases
      BY Numbers DEF Phases
  <2> QED BY <1>18, <2>1, FailTaskType, DropType DEF TypeOK, Incomplete
<1>19. ASSUME NEW w \in Workers, NEW wait \in {0, RetryDelay}, NEW p \in {"idle", "off"},
              Raise(w, wait, p)
       PROVE  TypeOK'
  <2>1. wait \in 0..RetryDelay /\ p \in Phases
      BY Numbers DEF Phases
  <2> QED BY <1>19, <2>1, FailTaskType, DropType DEF TypeOK, Raise
<1>20. ASSUME NEW w \in Workers, Park(w) PROVE TypeOK'
  <2>1. 0 \in 0..RetryDelay /\ "idle" \in Phases
      BY Numbers DEF Phases
  <2>2. AfterAwait(seen[w]) \in TaskStates
      BY DEF AfterAwait, TaskStates
  <2>3. /\ status' \in [TaskIds -> TaskStates]
        /\ delay' \in [TaskIds -> 0..RetryDelay]
        /\ awaiting' \in [TaskIds -> ApprovalIds \cup {None}]
      BY <1>20, <2>1, <2>2 DEF TypeOK, Park
  <2>4. attempts' \in [TaskIds -> 0..MaxAttempts]
    <3>1. attempts[job[w]] \in 0..MaxAttempts
        BY <1>20, MineType DEF TypeOK, Park, Parkable
    <3>2. (IF attempts[job[w]] > 0 THEN attempts[job[w]] - 1 ELSE 0) \in 0..MaxAttempts
        BY <3>1, Numbers
    <3> QED BY <1>20, <3>2 DEF TypeOK, Park, Refund
  <2> QED BY <1>20, <2>1, <2>3, <2>4, UnleaseType, ReleaseType, DropType DEF TypeOK, Park
<1>21. ASSUME NEW w \in Workers, FailUnbound(w) PROVE TypeOK'
  <2>1. 0 \in 0..RetryDelay /\ "idle" \in Phases
      BY Numbers DEF Phases
  <2> QED BY <1>21, <2>1, FailTaskType, DropType DEF TypeOK, FailUnbound
<1>22. CASE UNCHANGED vars
    BY <1>22 DEF TypeOK, vars
<1> QED
    BY <1>1, <1>2, <1>3, <1>4, <1>5, <1>6, <1>7, <1>8, <1>9, <1>10, <1>11, <1>12, <1>13, <1>14,
       <1>15, <1>16, <1>17, <1>18, <1>19, <1>20, <1>21, <1>22
    DEF Next, Operator, Worker, Authorize, Store

\* Every reachable state is well typed: no call of the queue stores a status,
\* lease, attempt count or reference outside its column's range.
THEOREM TypeCorrect == Spec => []TypeOK
BY TypeInit, TypeStep, PTL DEF Spec

-----------------------------------------------------------------------------
(* The invariants about a task row and its specialist. All the calls that   *)
(* take a task out of "running" share the lemmas about Unlease and Release. *)

\* What rows and processes that do not exist yet, or no longer, look like.
RowsReal ==
    /\ \A t \in TaskIds : status[t] = "absent" => attempts[t] = 0
    /\ \A w \in Workers : phase[w] \notin {"off", "idle"} => job[w] \in TaskIds
    /\ \A x \in ApprovalIds : aStatus[x] # "absent" => aTask[x] \in TaskIds /\ aEffect[x] \in Effects

TaskInv ==
    /\ LeasedIffRunning
    /\ WaitingHasAttempt
    /\ SpecialistBound

LEMMA RowsRealInit == Init => RowsReal
BY DEF Init, RowsReal

LEMMA RowsRealStep == TypeOK /\ RowsReal /\ [Next]_vars => RowsReal'
<1> SUFFICES ASSUME TypeOK, RowsReal, [Next]_vars PROVE RowsReal'
    OBVIOUS
<1> USE DEF specialistVars, approvalVars, workerVars, taskVars
<1>1. ASSUME NEW c \in ControlStates, SetControl(c) PROVE RowsReal'
    BY <1>1 DEF RowsReal, SetControl
<1>2. CASE Tick
    BY <1>2 DEF RowsReal, Tick
<1>3. ASSUME NEW t \in TaskIds, NEW s, NEW d, Submit(t, s, d) PROVE RowsReal'
    BY <1>3 DEF TypeOK, RowsReal, Submit
<1>4. ASSUME NEW x \in ApprovalIds, Approve(x) \/ Deny(x) PROVE RowsReal'
    BY <1>4 DEF TypeOK, RowsReal, Approve, Deny
<1>5. ASSUME NEW w \in Workers, Start(w) \/ ClaimNothing(w) PROVE RowsReal'
    BY <1>5 DEF TypeOK, RowsReal, Start, ClaimNothing, RecoverStale, RecoveredStatus, Stale, Become
<1>6. ASSUME NEW w \in Workers, NEW t \in TaskIds, Claim(w, t) PROVE RowsReal'
  <2>1. \A u \in TaskIds : status'[u] = "absent" => u # t /\ status[u] = "absent" /\ attempts'[u] = attempts[u]
      BY <1>6 DEF TypeOK, Claim, RecoveredStatus, Stale
  <2>2. \A v \in Workers : phase'[v] \notin {"off", "idle"} => job'[v] \in TaskIds
      BY <1>6 DEF TypeOK, RowsReal, Claim, Become
  <2> QED BY <1>6, <2>1, <2>2 DEF RowsReal, Claim
<1>7. ASSUME NEW w \in Workers, ExitOnStop(w) \/ Crash(w) \/ StoreFails(w) \/ Renew(w) \/ HeartbeatFails(w)
      PROVE  RowsReal'
    BY <1>7 DEF TypeOK, RowsReal, ExitOnStop, Crash, StoreFails, Renew, HeartbeatFails, Drop, Become
<1>8. ASSUME NEW w \in Workers, PassGuard(w) \/ EndRun(w) \/ CannotPark(w) PROVE RowsReal'
    BY <1>8 DEF TypeOK, RowsReal, PassGuard, EndRun, CannotPark, Become
<1>9. ASSUME NEW w \in Workers, NEW e \in Effects, NEW x \in ApprovalIds,
             Consume(w, e, x) \/ MeetPending(w, e, x) \/ Request(w, e, x)
      PROVE  RowsReal'
  <2>1. job[w] \in TaskIds
      BY <1>9 DEF RowsReal, Consume, MeetPending, Request
  <2>2. \A v \in Workers : phase'[v] \notin {"off", "idle"} => job'[v] \in TaskIds
      BY <1>9 DEF TypeOK, RowsReal, Consume, MeetPending, Request, StopOn, Become
  <2>3. \A y \in ApprovalIds : aStatus'[y] # "absent" => aTask'[y] \in TaskIds /\ aEffect'[y] \in Effects
      BY <1>9, <2>1 DEF TypeOK, RowsReal, Consume, MeetPending, Request, Expire, Lapsed, Granted
  <2> QED BY <1>9, <2>2, <2>3 DEF RowsReal, Consume, MeetPending, Request
<1>10. ASSUME NEW w \in Workers, ConfirmLease(w) PROVE RowsReal'
    BY <1>10 DEF TypeOK, RowsReal, ConfirmLease, Drop, Become
<1>11. ASSUME NEW w \in Workers, NEW retry, NEW wait, NEW p \in {"idle", "off"},
              FailTask(w, retry, wait), Drop(w, p), attempts' = attempts,
              UNCHANGED <<approvalVars>>
       PROVE  RowsReal'
    BY <1>11 DEF TypeOK, RowsReal, FailTask, Drop, Become
<1>12. ASSUME NEW w \in Workers, Finish(w) PROVE RowsReal'
    BY <1>12 DEF TypeOK, RowsReal, Finish, Drop, Become
<1>13. ASSUME NEW w \in Workers, Park(w) PROVE RowsReal'
  <2>1. \A u \in TaskIds : status'[u] = "absent" => status[u] = "absent" /\ u # job[w]
      BY <1>13 DEF TypeOK, Park, AfterAwait
  <2> QED BY <1>13, <2>1 DEF TypeOK, RowsReal, Park, Drop, Become
<1>14. CASE UNCHANGED vars
    BY <1>14 DEF RowsReal, vars
<1> QED
    BY <1>1, <1>2, <1>3, <1>4, <1>5, <1>6, <1>7, <1>8, <1>9, <1>10, <1>11, <1>12, <1>13, <1>14
    DEF Next, Operator, Worker, Authorize, Store, Incomplete, Raise, FailUnbound

LEMMA LeaveRunning ==
    ASSUME TypeOK, TaskInv, NEW t \in TaskIds, NEW next,
           next # "running", next \in {"queued", "awaiting_approval"} => attempts'[t] < MaxAttempts,
           status' = [status EXCEPT ![t] = next],
           \A u \in TaskIds \ {t} : attempts'[u] = attempts[u],
           spec' = spec, Unlease(t), Release(t, next)
    PROVE  TaskInv'
<1>1. LeasedIffRunning'
    BY DEF TypeOK, TaskInv, LeasedIffRunning, Unlease
<1>2. WaitingHasAttempt'
    BY DEF TypeOK, TaskInv, WaitingHasAttempt
<1>3. SpecialistBound'
  <2> SUFFICES ASSUME NEW s \in Specialists
               PROVE  /\ (spStatus[s] = "working" <=> spTask[s] # None)'
                      /\ (spTask[s] # None => spec[spTask[s]] = s)'
                      /\ \A u \in TaskIds : (spec[u] = s => (status[u] = "running" <=> spTask[s] = u))'
      BY DEF SpecialistBound
  <2>1. /\ spStatus[s] = "working" <=> spTask[s] # None
        /\ spTask[s] # None => spec[spTask[s]] = s
        /\ \A u \in TaskIds : spec[u] = s => (status[u] = "running" <=> spTask[s] = u)
      BY DEF TaskInv, SpecialistBound
  <2>2. CASE Holds(s, t)
    <3>1. spStatus'[s] = "ready" /\ spTask'[s] = None
        BY <2>2 DEF Release
    <3>2. None \notin TaskIds
        BY Numbers DEF None
    <3> QED BY <2>1, <2>2, <3>1, <3>2 DEF TypeOK, Holds
  <2>3. CASE ~Holds(s, t)
    <3>1. spStatus'[s] = spStatus[s] /\ spTask'[s] = spTask[s]
        BY <2>3 DEF Release
    <3> QED BY <2>1, <2>3, <3>1 DEF TypeOK, Holds
  <2> QED BY <2>2, <2>3
<1> QED BY <1>1, <1>2, <1>3 DEF TaskInv

LEMMA FailTaskInv ==
    ASSUME TypeOK, TaskInv, NEW w \in Workers, NEW retry, NEW wait,
           FailTask(w, retry, wait), attempts' = attempts, spec' = spec
    PROVE  TaskInv'
<1>1. CASE Mine(w)
  <2> DEFINE t == job[w]
             next == IF retry /\ ~Exhausted(t) THEN "queued" ELSE "failed"
  <2>1. status' = [status EXCEPT ![t] = next] /\ Unlease(t) /\ Release(t, next)
      BY <1>1 DEF FailTask
  <2>2. t \in TaskIds
      BY <1>1, MineType
  <2>3. attempts[t] \in 0..MaxAttempts
      BY <2>2 DEF TypeOK
  <2>4. next # "running" /\ (next \in {"queued", "awaiting_approval"} => attempts'[t] < MaxAttempts)
      BY <2>3, Numbers DEF Exhausted
  <2> HIDE DEF next, t
  <2> QED BY <2>1, <2>2, <2>4, LeaveRunning
<1>2. CASE ~Mine(w)
    BY <1>2 DEF FailTask, TaskInv, LeasedIffRunning, WaitingHasAttempt, SpecialistBound,
                specialistVars
<1> QED BY <1>1, <1>2

\* Recovery of every stale lease at once, as a statement about the tables it
\* computes: claim_task goes on from them, recover_stale_tasks stores them.
LEMMA RecoveredInv ==
    ASSUME TypeOK, TaskInv
    PROVE  /\ \A t \in TaskIds :
                /\ RecoveredStatus[t] = "running" <=> RecoveredOwner[t] # NoWorker
                /\ lease[t] > 0 => RecoveredStatus[t] = "running"
                /\ RecoveredStatus[t] \in {"queued", "awaiting_approval"} => attempts[t] < MaxAttempts
           /\ \A s \in Specialists :
                /\ RecoveredSpStatus[s] = "working" <=> RecoveredSpTask[s] # None
                /\ RecoveredSpTask[s] # None => spec[RecoveredSpTask[s]] = s
                /\ \A t \in TaskIds : spec[t] = s =>
                      (RecoveredStatus[t] = "running" <=> RecoveredSpTask[s] = t)
<1>1. ASSUME NEW t \in TaskIds
      PROVE  /\ RecoveredStatus[t] = "running" <=> RecoveredOwner[t] # NoWorker
             /\ lease[t] > 0 => RecoveredStatus[t] = "running"
             /\ RecoveredStatus[t] \in {"queued", "awaiting_approval"} => attempts[t] < MaxAttempts
  <2>1. /\ status[t] = "running" <=> owner[t] # NoWorker
        /\ lease[t] > 0 => status[t] = "running"
        /\ status[t] \in {"queued", "awaiting_approval"} => attempts[t] < MaxAttempts
      BY DEF TaskInv, LeasedIffRunning, WaitingHasAttempt
  <2>2. attempts[t] \in Nat /\ MaxAttempts \in Nat /\ lease[t] \in Nat
      BY Numbers DEF TypeOK
  <2> QED BY <2>1, <2>2 DEF RecoveredStatus, RecoveredOwner, Stale, Exhausted
<1>2. ASSUME NEW s \in Specialists
      PROVE  /\ RecoveredSpStatus[s] = "working" <=> RecoveredSpTask[s] # None
             /\ RecoveredSpTask[s] # None => spec[RecoveredSpTask[s]] = s
             /\ \A t \in TaskIds : spec[t] = s =>
                   (RecoveredStatus[t] = "running" <=> RecoveredSpTask[s] = t)
  <2>1. /\ spStatus[s] = "working" <=> spTask[s] # None
        /\ spTask[s] # None => spec[spTask[s]] = s
        /\ \A t \in TaskIds : spec[t] = s => (status[t] = "running" <=> spTask[s] = t)
      BY DEF TaskInv, SpecialistBound
  <2>2. None \notin TaskIds
      BY Numbers DEF None
  <2>3. CASE HoldsStale(s)
    <3>1. RecoveredSpStatus[s] = "ready" /\ RecoveredSpTask[s] = None
        BY <2>3 DEF RecoveredSpStatus, RecoveredSpTask
    <3>2. \A t \in TaskIds : spec[t] = s => RecoveredStatus[t] # "running"
        BY <2>1, <2>3 DEF HoldsStale, Holds, RecoveredStatus
    <3> QED BY <2>2, <3>1, <3>2
  <2>4. CASE ~HoldsStale(s)
    <3>1. RecoveredSpStatus[s] = spStatus[s] /\ RecoveredSpTask[s] = spTask[s]
        BY <2>4 DEF RecoveredSpStatus, RecoveredSpTask
    <3>2. \A t \in TaskIds : spec[t] = s => (RecoveredStatus[t] = "running" <=> status[t] = "running")
        BY <2>1, <2>4 DEF HoldsStale, Holds, RecoveredStatus, Stale
    <3> QED BY <2>1, <3>1, <3>2
  <2> QED BY <2>3, <2>4
<1> QED BY <1>1, <1>2

LEMMA TaskInvInit == Init => TaskInv
<1> SUFFICES ASSUME Init PROVE TaskInv
    OBVIOUS
<1>1. None \notin TaskIds
    BY Numbers DEF None
<1>2. LeasedIffRunning /\ WaitingHasAttempt
    BY DEF Init, LeasedIffRunning, WaitingHasAttempt
<1>3. SpecialistBound
    BY <1>1 DEF Init, SpecialistBound
<1> QED BY <1>2, <1>3 DEF TaskInv

\* A step that leaves the columns TaskInv reads as they are.
LEMMA TaskInvFrame ==
    ASSUME TaskInv, UNCHANGED <<status, owner, lease, attempts, spec, spStatus, spTask>>
    PROVE  TaskInv'
BY DEF TaskInv, LeasedIffRunning, WaitingHasAttempt, SpecialistBound

LEMMA TaskInvStep == TypeOK /\ RowsReal /\ TaskInv /\ [Next]_vars => TaskInv'
<1> SUFFICES ASSUME TypeOK, RowsReal, TaskInv, [Next]_vars PROVE TaskInv'
    OBVIOUS
<1> USE DEF specialistVars, approvalVars, workerVars, taskVars
<1>1. ASSUME NEW c \in ControlStates, SetControl(c) PROVE TaskInv'
    BY <1>1, TaskInvFrame DEF SetControl
<1>2. CASE Tick
  <2>1. lease \in [TaskIds -> 0..LeaseLength] /\ lease' = Lower(lease)
      BY <1>2 DEF TypeOK, Tick
  <2>2. \A t \in TaskIds : lease'[t] > 0 => lease[t] > 0
      BY <2>1, Numbers DEF Lower
  <2> QED BY <1>2, <2>2 DEF TaskInv, LeasedIffRunning, WaitingHasAttempt, SpecialistBound, Tick
<1>3. ASSUME NEW t \in TaskIds, NEW s \in Specialists \cup {NoSpecialist},
             NEW d \in {0, RetryDelay}, Submit(t, s, d)
      PROVE  TaskInv'
  <2>1. LeasedIffRunning'
      BY <1>3 DEF TypeOK, TaskInv, LeasedIffRunning, Submit
  <2>2. WaitingHasAttempt'
      BY <1>3, Numbers DEF TypeOK, TaskInv, WaitingHasAttempt, RowsReal, Submit
  <2>3. SpecialistBound'
    <3>1. ASSUME NEW r \in Specialists PROVE spTask[r] # t
      <4>1. status[t] = "absent" /\ t # None
          BY <1>3, Numbers DEF Submit, None
      <4> QED BY <4>1 DEF TaskInv, SpecialistBound
    <3>2. /\ status' = [status EXCEPT ![t] = "queued"] /\ spec' = [spec EXCEPT ![t] = s]
          /\ spTask' = spTask /\ spStatus' = spStatus
        BY <1>3 DEF Submit
    <3>3. ASSUME NEW r \in Specialists
          PROVE  /\ (spStatus[r] = "working" <=> spTask[r] # None)'
                 /\ (spTask[r] # None => spec[spTask[r]] = r)'
        BY <3>1, <3>2 DEF TypeOK, TaskInv, SpecialistBound
    <3>4. ASSUME NEW r \in Specialists, NEW u \in TaskIds
          PROVE  (spec[u] = r => (status[u] = "running" <=> spTask[r] = u))'
        BY <3>1, <3>2 DEF TypeOK, TaskInv, SpecialistBound
    <3> QED BY <3>3, <3>4 DEF SpecialistBound
  <2> QED BY <2>1, <2>2, <2>3 DEF TaskInv
<1>4. ASSUME NEW x \in ApprovalIds, Approve(x) PROVE TaskInv'
  <2> DEFINE t == aTask[x]
  <2>1. t \in TaskIds
      BY <1>4 DEF Approve, RowsReal
  <2>2. CASE status[t] = "awaiting_approval" /\ awaiting[t] = x
    <3>1. /\ status' = [status EXCEPT ![t] = "queued"]
          /\ owner' = [owner EXCEPT ![t] = NoWorker]
          /\ lease' = [lease EXCEPT ![t] = 0]
          /\ UNCHANGED <<attempts, spec, spStatus, spTask>>
        BY <1>4, <2>2 DEF Approve, Unlease
    <3> HIDE DEF t
    <3>2. LeasedIffRunning' /\ WaitingHasAttempt'
        BY <2>1, <2>2, <3>1 DEF TypeOK, TaskInv, LeasedIffRunning, WaitingHasAttempt
    <3>3. SpecialistBound'
        BY <2>1, <2>2, <3>1 DEF TypeOK, TaskInv, SpecialistBound
    <3> QED BY <3>2, <3>3 DEF TaskInv
  <2>3. CASE ~(status[t] = "awaiting_approval" /\ awaiting[t] = x)
      BY <1>4, <2>3, TaskInvFrame DEF Approve
  <2> QED BY <2>2, <2>3
<1>5. ASSUME NEW x \in ApprovalIds, Deny(x) PROVE TaskInv'
  <2> DEFINE t == aTask[x]
             bound == status[t] \in {"running", "queued", "awaiting_approval"} /\ awaiting[t] = x
  <2>1. t \in TaskIds
      BY <1>5 DEF Deny, RowsReal
  <2>2. CASE bound
    <3>1. /\ status' = [status EXCEPT ![t] = "failed"]
          /\ Unlease(t) /\ Release(t, "failed")
          /\ UNCHANGED <<attempts, spec>>
        BY <1>5, <2>2 DEF Deny
    <3> HIDE DEF t
    <3> QED BY <2>1, <3>1, LeaveRunning
  <2>3. CASE ~bound
      BY <1>5, <2>3, TaskInvFrame DEF Deny
  <2> QED BY <2>2, <2>3
<1>6. ASSUME NEW w \in Workers, Start(w) \/ ClaimNothing(w) PROVE TaskInv'
  <2>1. RecoverStale
      BY <1>6 DEF Start, ClaimNothing
  <2> QED BY <2>1, RecoveredInv DEF RecoverStale, TaskInv, LeasedIffRunning, WaitingHasAttempt,
                                    SpecialistBound
<1>7. ASSUME NEW w \in Workers, NEW t \in TaskIds, Claim(w, t) PROVE TaskInv'
  <2>1. /\ RecoveredStatus[t] = "queued"
        /\ spec[t] # NoSpecialist => RecoveredSpStatus[spec[t]] = "ready"
      BY <1>7 DEF Claim, Claimable
  <2>2. /\ w # NoWorker /\ LeaseLength > 0
        /\ None \notin TaskIds
      BY Numbers, NamesAssumption DEF None
  <2>3. LeasedIffRunning'
      BY <1>7, <2>1, <2>2, RecoveredInv, RecoveredType DEF Claim, LeasedIffRunning, TypeOK
  <2>4. WaitingHasAttempt'
      BY <1>7, RecoveredInv, RecoveredType DEF Claim, WaitingHasAttempt, TypeOK
  <2>5. SpecialistBound'
    <3>1. /\ status' = [RecoveredStatus EXCEPT ![t] = "running"]
          /\ spStatus' = [s \in Specialists |-> IF spec[t] = s THEN "working" ELSE RecoveredSpStatus[s]]
          /\ spTask' = [s \in Specialists |-> IF spec[t] = s THEN t ELSE RecoveredSpTask[s]]
          /\ spec' = spec
        BY <1>7 DEF Claim
    <3>2. ASSUME NEW s \in Specialists
          PROVE  /\ (spStatus[s] = "working" <=> spTask[s] # None)'
                 /\ (spTask[s] # None => spec[spTask[s]] = s)'
                 /\ \A u \in TaskIds : (spec[u] = s => (status[u] = "running" <=> spTask[s] = u))'
      <4>1. CASE spec[t] = s
        <5>1. RecoveredSpTask[s] = None
            BY <2>1, <4>1, RecoveredInv, NamesAssumption
        <5>2. \A u \in TaskIds : spec[u] = s => RecoveredStatus[u] # "running"
            BY <5>1, <2>2, RecoveredInv
        <5> QED BY <3>1, <4>1, <5>2, <2>2, RecoveredType
      <4>2. CASE spec[t] # s
        <5>1. spStatus'[s] = RecoveredSpStatus[s] /\ spTask'[s] = RecoveredSpTask[s]
            BY <3>1, <4>2
        <5> QED BY <3>1, <4>2, <5>1, RecoveredInv, RecoveredType
      <4> QED BY <4>1, <4>2
    <3> QED BY <3>2 DEF SpecialistBound
  <2> QED BY <2>3, <2>4, <2>5 DEF TaskInv
<1>8. ASSUME NEW w \in Workers,
             \/ ExitOnStop(w) \/ Crash(w) \/ StoreFails(w) \/ HeartbeatFails(w)
             \/ PassGuard(w) \/ EndRun(w) \/ CannotPark(w)
      PROVE  TaskInv'
    BY <1>8, TaskInvFrame DEF ExitOnStop, Crash, StoreFails, HeartbeatFails, PassGuard, EndRun, CannotPark
<1>9. ASSUME NEW w \in Workers, Renew(w) \/ ConfirmLease(w) PROVE TaskInv'
  <2>1. CASE lease' = lease
      BY <1>9, <2>1, TaskInvFrame DEF Renew, ConfirmLease
  <2>2. CASE Mine(w) /\ lease' = [lease EXCEPT ![job[w]] = LeaseLength]
      BY <1>9, <2>2, MineType DEF TypeOK, TaskInv, LeasedIffRunning, WaitingHasAttempt,
                                  SpecialistBound, Mine, Renew, ConfirmLease
  <2> QED BY <1>9, <2>1, <2>2 DEF Renew, ConfirmLease
<1>10. ASSUME NEW w \in Workers, NEW e \in Effects, NEW x \in ApprovalIds,
              Consume(w, e, x) \/ MeetPending(w, e, x) \/ Request(w, e, x)
       PROVE  TaskInv'
    BY <1>10, TaskInvFrame DEF Consume, MeetPending, Request
<1>11. ASSUME NEW w \in Workers, NEW retry, NEW wait, FailTask(w, retry, wait),
              attempts' = attempts, spec' = spec
       PROVE  TaskInv'
    BY <1>11, FailTaskInv
<1>12. ASSUME NEW w \in Workers, Finish(w) PROVE TaskInv'
  <2>1. CASE Mine(w)
    <3>1. /\ status' = [status EXCEPT ![job[w]] = "done"]
          /\ Unlease(job[w]) /\ Release(job[w], "done") /\ UNCHANGED <<attempts, spec>>
        BY <1>12, <2>1 DEF Finish
    <3> QED BY <2>1, <3>1, MineType, LeaveRunning
  <2>2. CASE ~Mine(w)
      BY <1>12, <2>2, TaskInvFrame DEF Finish
  <2> QED BY <2>1, <2>2
<1>13. ASSUME NEW w \in Workers, Park(w) PROVE TaskInv'
  <2> DEFINE t == job[w]
             next == AfterAwait(seen[w])
  <2>1. t \in TaskIds /\ next # "running"
      BY <1>13, MineType DEF Park, Parkable, AfterAwait
  <2>2. /\ status' = [status EXCEPT ![t] = next]
        /\ attempts' = [attempts EXCEPT ![t] = Refund(@)]
        /\ Unlease(t) /\ Release(t, next) /\ spec' = spec
      BY <1>13 DEF Park
  <2>3. attempts[t] \in 0..MaxAttempts
      BY <2>1 DEF TypeOK
  <2>4. attempts'[t] = IF attempts[t] > 0 THEN attempts[t] - 1 ELSE 0
      BY <2>1, <2>2 DEF TypeOK, Refund
  <2>5. attempts'[t] < MaxAttempts
      BY <2>3, <2>4, Numbers
  <2>6. \A u \in TaskIds \ {t} : attempts'[u] = attempts[u]
      BY <2>2 DEF TypeOK
  <2> HIDE DEF t, next
  <2> QED BY <2>1, <2>2, <2>5, <2>6, LeaveRunning
<1>14. CASE UNCHANGED vars
    BY <1>14, TaskInvFrame DEF vars
<1> QED
    BY <1>1, <1>2, <1>3, <1>4, <1>5, <1>6, <1>7, <1>8, <1>9, <1>10, <1>11, <1>12, <1>13, <1>14
    DEF Next, Operator, Worker, Authorize, Store, Incomplete, Raise, FailUnbound

\* A row is leased exactly while it is running: no recovery, denial, parking or
\* late report leaves an owner behind or a running row without one.
THEOREM LeasesFollowRuns == Spec => []LeasedIffRunning
<1>1. TypeOK /\ RowsReal /\ TaskInv => LeasedIffRunning
    BY DEF TaskInv
<1> QED BY <1>1, TypeInit, TypeStep, RowsRealInit, RowsRealStep, TaskInvInit, TaskInvStep, PTL DEF Spec

\* Every waiting task still has an attempt that claim_task will give it.
THEOREM WaitingTasksCanRun == Spec => []WaitingHasAttempt
<1>1. TypeOK /\ RowsReal /\ TaskInv => WaitingHasAttempt
    BY DEF TaskInv
<1> QED BY <1>1, TypeInit, TypeStep, RowsRealInit, RowsRealStep, TaskInvInit, TaskInvStep, PTL DEF Spec

\* No interleaving of claims, recoveries, denials and reports strands a
\* specialist or gives it two running tasks.
THEOREM SpecialistsNeverStranded == Spec => []SpecialistBound
<1>1. TypeOK /\ RowsReal /\ TaskInv => SpecialistBound
    BY DEF TaskInv
<1> QED BY <1>1, TypeInit, TypeStep, RowsRealInit, RowsRealStep, TaskInvInit, TaskInvStep, PTL DEF Spec

-----------------------------------------------------------------------------
(* The invariants about approval rows.                                      *)

\* Ids are given out in order, so the rows that exist are the oldest ids.
RowsPrefix == \A x, y \in ApprovalIds : x < y /\ aStatus[y] # "absent" => aStatus[x] # "absent"

ApprovalInv ==
    /\ RowsPrefix
    /\ OneShot
    /\ LiveIsNewest
    /\ ParkedAwaitsPending

\* The newest row of a call is within any scan limit.
LEMMA NewestIsScanned ==
    ASSUME NEW t, NEW e, NEW x \in SameCall(t, e), \A y \in SameCall(t, e) : y <= x
    PROVE  x \in Scanned(t, e)
<1>1. ASSUME NEW y \in SameCall(t, e) PROVE ~(y > x)
  <2>1. x \in Nat /\ y \in Nat
      BY Numbers DEF SameCall
  <2> QED BY <2>1
<1>4. {y \in SameCall(t, e) : y > x} = {}
    BY <1>1
<1>2. Cardinality({}) = 0
    BY FS_EmptySet
<1> QED BY <1>4, <1>2, Numbers DEF Scanned

\* So a live row of a call, being its newest, is what the lookup finds: a call
\* without an answer has no live row at all.
LEMMA LiveIsScanned ==
    ASSUME TypeOK, LiveIsNewest, NEW t, NEW e, NEW x \in SameCall(t, e), Live(x)
    PROVE  x \in Scanned(t, e)
<1>1. \A y \in SameCall(t, e) : y <= x
    BY Numbers DEF LiveIsNewest, SameCall
<1> QED BY <1>1, NewestIsScanned

\* Marking lapsed rows expired touches no live row.
LEMMA ExpireKeeps ==
    ASSUME NEW S, NEW x \in ApprovalIds
    PROVE  /\ Expire(S)[x] = aStatus[x] \/ (aStatus[x] = "approved" /\ ttl[x] = 0 /\ Expire(S)[x] = "expired")
BY DEF Expire, Lapsed

LEMMA ApprovalInvInit == Init => ApprovalInv
BY DEF Init, ApprovalInv, RowsPrefix, OneShot, LiveIsNewest, ParkedAwaitsPending, Live, Granted

LEMMA ApprovalInvFrame ==
    ASSUME ApprovalInv, UNCHANGED <<status, awaiting, aStatus, aTask, aEffect, ttl, executed>>
    PROVE  ApprovalInv'
BY DEF ApprovalInv, RowsPrefix, OneShot, LiveIsNewest, ParkedAwaitsPending, Live, Granted

\* A step that changes task rows only, and parks none.
LEMMA ApprovalInvNoPark ==
    ASSUME ApprovalInv, UNCHANGED <<aStatus, aTask, aEffect, ttl, executed>>,
           \A t \in TaskIds : status'[t] = "awaiting_approval" =>
                status[t] = "awaiting_approval" /\ awaiting'[t] = awaiting[t]
    PROVE  ApprovalInv'
BY DEF ApprovalInv, RowsPrefix, OneShot, LiveIsNewest, ParkedAwaitsPending, Live, Granted

\* What MeetPending, Consume and Request have in common: rows lapse, and the
\* one row that changes otherwise is given apart.
LEMMA ApprovalInvRows ==
    ASSUME TypeOK, ApprovalInv, UNCHANGED <<status, aTask, aEffect, ttl, executed>>,
           \A y \in ApprovalIds : aStatus'[y] = aStatus[y] \/ (aStatus[y] = "approved" /\ aStatus'[y] = "expired"),
           \A u \in TaskIds : status[u] = "awaiting_approval" => awaiting'[u] = awaiting[u]
    PROVE  ApprovalInv'
<1>1. RowsPrefix'
    BY DEF ApprovalInv, RowsPrefix
<1>2. OneShot'
    BY DEF ApprovalInv, OneShot
<1>3. LiveIsNewest'
    BY DEF ApprovalInv, LiveIsNewest, Live, Granted
<1>4. ParkedAwaitsPending'
  <2> SUFFICES ASSUME NEW t \in TaskIds, status[t] = "awaiting_approval"
               PROVE  awaiting'[t] # None /\ aStatus'[awaiting'[t]] = "pending" /\ aTask[awaiting'[t]] = t
      BY DEF ParkedAwaitsPending
  <2>1. awaiting'[t] = awaiting[t] /\ awaiting[t] # None
        /\ aStatus[awaiting[t]] = "pending" /\ aTask[awaiting[t]] = t
      BY DEF ApprovalInv, ParkedAwaitsPending
  <2>2. awaiting[t] \in ApprovalIds
      BY <2>1 DEF TypeOK
  <2> QED BY <2>1, <2>2
<1> QED BY <1>1, <1>2, <1>3, <1>4 DEF ApprovalInv

LEMMA FailTaskParksNone ==
    ASSUME TypeOK, NEW w \in Workers, NEW retry, NEW wait, FailTask(w, retry, wait)
    PROVE  \A t \in TaskIds : status'[t] = "awaiting_approval" =>
                status[t] = "awaiting_approval" /\ awaiting'[t] = awaiting[t]
<1>1. CASE Mine(w)
    BY <1>1, MineType DEF FailTask, TypeOK
<1>2. CASE ~Mine(w)
    BY <1>2 DEF FailTask
<1> QED BY <1>1, <1>2

LEMMA ApprovalInvStep == TypeOK /\ RowsReal /\ ApprovalInv /\ [Next]_vars => ApprovalInv'
<1> SUFFICES ASSUME TypeOK, RowsReal, ApprovalInv, [Next]_vars PROVE ApprovalInv'
    OBVIOUS
<1> USE DEF specialistVars, approvalVars, workerVars, taskVars
<1>1. ASSUME NEW c \in ControlStates, SetControl(c) PROVE ApprovalInv'
    BY <1>1, ApprovalInvFrame DEF SetControl
<1>2. CASE Tick
  <2>1. ttl \in [ApprovalIds -> 0..ApprovalTTL] /\ ttl' = Lower(ttl)
      BY <1>2 DEF TypeOK, Tick
  <2>2. \A x \in ApprovalIds : ttl'[x] > 0 => ttl[x] > 0
      BY <2>1, Numbers DEF Lower
  <2>3. LiveIsNewest'
      BY <1>2, <2>2 DEF Tick, ApprovalInv, LiveIsNewest, Live, Granted
  <2> QED BY <1>2, <2>3 DEF Tick, ApprovalInv, RowsPrefix, OneShot, ParkedAwaitsPending
<1>3. ASSUME NEW t \in TaskIds, NEW s, NEW d, Submit(t, s, d) PROVE ApprovalInv'
    BY <1>3, ApprovalInvNoPark DEF TypeOK, Submit
<1>4. ASSUME NEW x \in ApprovalIds, Approve(x) \/ Deny(x) PROVE ApprovalInv'
  <2> DEFINE verdict == aStatus'[x]
  <2>1. /\ aStatus[x] = "pending" /\ verdict \in {"approved", "denied"}
        /\ aStatus' = [aStatus EXCEPT ![x] = verdict]
        /\ UNCHANGED <<aTask, aEffect, executed>>
      BY <1>4 DEF TypeOK, Approve, Deny
  <2>2. RowsPrefix'
      BY <2>1 DEF TypeOK, ApprovalInv, RowsPrefix
  <2>3. OneShot'
      BY <2>1 DEF TypeOK, ApprovalInv, OneShot
  <2>4. \A y \in ApprovalIds \ {x} : ttl'[y] = ttl[y] /\ aStatus'[y] = aStatus[y]
      BY <1>4, <2>1 DEF TypeOK, Approve, Deny
  <2>5. LiveIsNewest'
      BY <2>1, <2>4 DEF TypeOK, ApprovalInv, LiveIsNewest, Live, Granted
  <2>6. aTask[x] \in TaskIds
      BY <2>1 DEF RowsReal
  <2>7. ParkedAwaitsPending'
    <3> SUFFICES ASSUME NEW t \in TaskIds, status'[t] = "awaiting_approval"
                 PROVE  awaiting'[t] # None /\ aStatus'[awaiting'[t]] = "pending" /\ aTask[awaiting'[t]] = t
        BY <2>1 DEF ParkedAwaitsPending
    <3>1. status[t] = "awaiting_approval" /\ awaiting'[t] = awaiting[t]
        BY <1>4, <2>6 DEF TypeOK, Approve, Deny
    <3>2. awaiting[t] # None /\ aStatus[awaiting[t]] = "pending" /\ aTask[awaiting[t]] = t
        BY <3>1 DEF ApprovalInv, ParkedAwaitsPending
    <3>3. awaiting[t] # x
        BY <1>4, <2>6, <3>1, <3>2 DEF TypeOK, Approve, Deny
    <3>4. awaiting[t] \in ApprovalIds
        BY <3>2 DEF TypeOK
    <3> QED BY <3>1, <3>2, <3>3, <3>4, <2>4
  <2> QED BY <2>2, <2>3, <2>5, <2>7 DEF ApprovalInv
<1>5. ASSUME NEW w \in Workers, Start(w) \/ ClaimNothing(w) PROVE ApprovalInv'
  <2>1. \A t \in TaskIds : status'[t] = "awaiting_approval" => status[t] = "awaiting_approval"
      BY <1>5 DEF Start, ClaimNothing, RecoverStale, RecoveredStatus
  <2> QED BY <1>5, <2>1, ApprovalInvNoPark DEF Start, ClaimNothing, RecoverStale
<1>6. ASSUME NEW w \in Workers, NEW t \in TaskIds, Claim(w, t) PROVE ApprovalInv'
  <2>1. \A u \in TaskIds : status'[u] = "awaiting_approval" => status[u] = "awaiting_approval"
      BY <1>6, RecoveredType DEF Claim, RecoveredStatus
  <2> QED BY <1>6, <2>1, ApprovalInvNoPark DEF Claim
<1>7. ASSUME NEW w \in Workers,
             \/ ExitOnStop(w) \/ Crash(w) \/ StoreFails(w) \/ HeartbeatFails(w) \/ Renew(w) \/ ConfirmLease(w)
             \/ PassGuard(w) \/ EndRun(w) \/ CannotPark(w)
      PROVE  ApprovalInv'
    BY <1>7, ApprovalInvFrame
    DEF ExitOnStop, Crash, StoreFails, HeartbeatFails, Renew, ConfirmLease, PassGuard, EndRun, CannotPark
<1>8. ASSUME NEW w \in Workers, NEW e \in Effects, NEW x \in ApprovalIds, Consume(w, e, x)
      PROVE  ApprovalInv'
  <2>1. /\ aStatus[x] = "approved" /\ aStatus'[x] = "consumed"
        /\ executed' = [executed EXCEPT ![x] = @ + 1]
        /\ UNCHANGED <<status, aTask, aEffect, ttl>>
      BY <1>8, ExpireType DEF Consume, Granted
  <2>2. \A y \in ApprovalIds \ {x} :
          aStatus'[y] = aStatus[y] \/ (aStatus[y] = "approved" /\ aStatus'[y] = "expired")
      BY <1>8, ExpireType, ExpireKeeps DEF Consume
  <2>3. RowsPrefix'
      BY <2>1, <2>2 DEF ApprovalInv, RowsPrefix
  <2>4. OneShot'
      BY <2>1, <2>2 DEF TypeOK, ApprovalInv, OneShot
  <2>5. LiveIsNewest'
      BY <2>1, <2>2 DEF ApprovalInv, LiveIsNewest, Live, Granted
  <2>6. ParkedAwaitsPending'
    <3> SUFFICES ASSUME NEW t \in TaskIds, status[t] = "awaiting_approval"
                 PROVE  awaiting'[t] # None /\ aStatus'[awaiting'[t]] = "pending" /\ aTask[awaiting'[t]] = t
        BY <2>1 DEF ParkedAwaitsPending
    <3>1. awaiting[t] # None /\ aStatus[awaiting[t]] = "pending" /\ aTask[awaiting[t]] = t
        BY DEF ApprovalInv, ParkedAwaitsPending
    <3>2. awaiting[t] \in ApprovalIds \ {x}
        BY <2>1, <3>1 DEF TypeOK
    <3>3. awaiting'[t] = awaiting[t]
        BY <1>8, <3>2 DEF TypeOK, Consume
    <3> QED BY <2>2, <3>1, <3>2, <3>3
  <2> QED BY <2>3, <2>4, <2>5, <2>6 DEF ApprovalInv
<1>9. ASSUME NEW w \in Workers, NEW e \in Effects, NEW x \in ApprovalIds, MeetPending(w, e, x)
      PROVE  ApprovalInv'
  <2>1. \A y \in ApprovalIds : aStatus'[y] = aStatus[y] \/ (aStatus[y] = "approved" /\ aStatus'[y] = "expired")
      BY <1>9, ExpireKeeps DEF MeetPending
  <2>2. \A u \in TaskIds : status[u] = "awaiting_approval" => awaiting'[u] = awaiting[u]
      BY <1>9 DEF TypeOK, MeetPending, Link
  <2> QED BY <1>9, <2>1, <2>2, ApprovalInvRows DEF MeetPending
<1>10. ASSUME NEW w \in Workers, NEW e \in Effects, NEW x \in ApprovalIds, Request(w, e, x)
       PROVE  ApprovalInv'
  <2> DEFINE t == job[w]
  <2>1. /\ aStatus[x] = "absent" /\ aStatus'[x] = "pending"
        /\ aTask' = [aTask EXCEPT ![x] = t] /\ aEffect' = [aEffect EXCEPT ![x] = e]
        /\ UNCHANGED <<status, ttl, executed>>
      BY <1>10, ExpireType DEF Request
  <2>2. \A y \in ApprovalIds \ {x} :
          aStatus'[y] = aStatus[y] \/ (aStatus[y] = "approved" /\ aStatus'[y] = "expired")
      BY <1>10, ExpireType, ExpireKeeps DEF Request
  <2>3. \A y \in ApprovalIds : y < x <=> aStatus[y] # "absent"
    <3>1. ASSUME NEW y \in ApprovalIds, aStatus[y] # "absent" PROVE y < x
      <4>1. y # x /\ ~(x < y)
          BY <2>1, <3>1 DEF ApprovalInv, RowsPrefix
      <4> QED BY <4>1, Numbers
    <3> QED BY <1>10, <3>1 DEF Request
  <2>4. RowsPrefix'
      BY <2>1, <2>2, <2>3, Numbers DEF RowsPrefix
  <2>5. OneShot'
      BY <2>1, <2>2 DEF ApprovalInv, OneShot
  <2>6. LiveIsNewest'
    <3> SUFFICES ASSUME NEW y \in ApprovalIds, NEW z \in ApprovalIds, y < z, aStatus'[z] # "absent",
                        aTask'[y] = aTask'[z], aEffect'[y] = aEffect'[z], Live(y)'
                 PROVE  FALSE
        BY DEF LiveIsNewest
    <3>1. y # x
        BY <2>1, <2>2, <2>3, Numbers
    <3>2. aStatus[y] # "absent" /\ Live(y) /\ aTask'[y] = aTask[y] /\ aEffect'[y] = aEffect[y]
        BY <2>1, <2>2, <3>1 DEF TypeOK, Live, Granted
    <3>3. CASE z = x
      <4>1. y \in SameCall(t, e)
          BY <2>1, <3>2, <3>3 DEF TypeOK, SameCall
      <4>2. y \in Scanned(t, e)
          BY <3>2, <4>1, LiveIsScanned DEF ApprovalInv
      <4> QED BY <1>10, <3>2, <4>2 DEF Request, NoAnswer
    <3>4. CASE z # x
        BY <2>1, <2>2, <3>2, <3>4 DEF TypeOK, ApprovalInv, LiveIsNewest
    <3> QED BY <3>3, <3>4
  <2>7. ParkedAwaitsPending'
    <3> SUFFICES ASSUME NEW u \in TaskIds, status[u] = "awaiting_approval"
                 PROVE  awaiting'[u] # None /\ aStatus'[awaiting'[u]] = "pending" /\ aTask'[awaiting'[u]] = u
        BY <2>1 DEF ParkedAwaitsPending
    <3>1. awaiting[u] # None /\ aStatus[awaiting[u]] = "pending" /\ aTask[awaiting[u]] = u
        BY DEF ApprovalInv, ParkedAwaitsPending
    <3>2. awaiting[u] \in ApprovalIds \ {x}
        BY <2>1, <3>1 DEF TypeOK
    <3>3. awaiting'[u] = awaiting[u]
        BY <1>10 DEF TypeOK, Request, Link
    <3> QED BY <2>1, <2>2, <3>1, <3>2, <3>3 DEF TypeOK
  <2> QED BY <2>4, <2>5, <2>6, <2>7 DEF ApprovalInv
<1>11. ASSUME NEW w \in Workers, NEW retry, NEW wait, FailTask(w, retry, wait), UNCHANGED approvalVars
       PROVE  ApprovalInv'
    BY <1>11, FailTaskParksNone, ApprovalInvNoPark
<1>12. ASSUME NEW w \in Workers, Finish(w) PROVE ApprovalInv'
  <2>1. \A u \in TaskIds : status'[u] = "awaiting_approval" =>
            status[u] = "awaiting_approval" /\ awaiting'[u] = awaiting[u]
    <3>1. CASE Mine(w)
        BY <1>12, <3>1, MineType DEF TypeOK, Finish
    <3>2. CASE ~Mine(w)
        BY <1>12, <3>2 DEF Finish
    <3> QED BY <3>1, <3>2
  <2> QED BY <1>12, <2>1, ApprovalInvNoPark DEF Finish
<1>13. ASSUME NEW w \in Workers, Park(w) PROVE ApprovalInv'
  <2>1. /\ job[w] \in TaskIds /\ seen[w] # None
        /\ aTask[seen[w]] = job[w] /\ awaiting[job[w]] = seen[w]
        /\ status' = [status EXCEPT ![job[w]] = AfterAwait(seen[w])]
        /\ UNCHANGED <<aStatus, aTask, aEffect, ttl, executed>>
      BY <1>13, MineType DEF Park, Parkable
  <2>2. AfterAwait(seen[w]) = "awaiting_approval" => aStatus[seen[w]] = "pending" /\ awaiting' = awaiting
      BY <1>13 DEF Park, AfterAwait
  <2>3. ParkedAwaitsPending'
    <3> SUFFICES ASSUME NEW u \in TaskIds, status'[u] = "awaiting_approval"
                 PROVE  awaiting'[u] # None /\ aStatus[awaiting'[u]] = "pending" /\ aTask[awaiting'[u]] = u
        BY <2>1 DEF ParkedAwaitsPending
    <3>1. CASE u = job[w]
        BY <2>1, <2>2, <3>1 DEF TypeOK
    <3>2. CASE u # job[w]
      <4>1. status[u] = "awaiting_approval" /\ awaiting'[u] = awaiting[u]
          BY <1>13, <2>1, <3>2 DEF TypeOK, Park
      <4> QED BY <4>1 DEF ApprovalInv, ParkedAwaitsPending
    <3> QED BY <3>1, <3>2
  <2> QED BY <2>1, <2>3 DEF ApprovalInv, RowsPrefix, OneShot, LiveIsNewest, Live, Granted
<1>14. CASE UNCHANGED vars
    BY <1>14, ApprovalInvFrame DEF vars
<1> QED
    BY <1>1, <1>2, <1>3, <1>4, <1>5, <1>6, <1>7, <1>8, <1>9, <1>10, <1>11, <1>12, <1>13, <1>14
    DEF Next, Operator, Worker, Authorize, Store, Incomplete, Raise, FailUnbound

\* A parked task is bound to a request of its own that is still undecided, so
\* the decision always resumes or ends it.
THEOREM ParkedTasksAreBound == Spec => []ParkedAwaitsPending
<1>1. TypeOK /\ RowsReal /\ ApprovalInv => ParkedAwaitsPending
    BY DEF ApprovalInv
<1> QED BY <1>1, TypeInit, TypeStep, RowsRealInit, RowsRealStep, ApprovalInvInit, ApprovalInvStep,
           PTL DEF Spec

\* One approval lets exactly one call through, for any number of workers,
\* tasks and rows and whatever the workers believe about their leases.
THEOREM ApprovalsAreOneShot == Spec => []OneShot
<1>1. TypeOK /\ RowsReal /\ ApprovalInv => OneShot
    BY DEF ApprovalInv
<1> QED BY <1>1, TypeInit, TypeStep, RowsRealInit, RowsRealStep, ApprovalInvInit, ApprovalInvStep,
           PTL DEF Spec

\* Only the newest request of a call can be live, whatever the scan limit.
THEOREM OneLiveRequest == Spec => []LiveIsNewest
<1>1. TypeOK /\ RowsReal /\ ApprovalInv => LiveIsNewest
    BY DEF ApprovalInv
<1> QED BY <1>1, TypeInit, TypeStep, RowsRealInit, RowsRealStep, ApprovalInvInit, ApprovalInvStep,
           PTL DEF Spec

-----------------------------------------------------------------------------
(* What a step may do to a running and to a finished task.                  *)

RunEndsStep(t) ==
    (status[t] = "running" /\ (status'[t] # "running" \/ owner'[t] # owner[t])) =>
        \/ EndedByHolder(t) /\ job'[owner[t]] = None
        \/ lease[t] = 0 /\ status'[t] # "done"
        \/ /\ status'[t] = "failed"
           /\ awaiting[t] # None
           /\ aStatus[awaiting[t]] = "pending" /\ aStatus'[awaiting[t]] = "denied"
FinalStep(t) == status[t] \in TerminalStates => status'[t] = status[t] /\ owner'[t] = NoWorker

\* A step that only the holder takes on its own row, or that leaves rows alone.
LEMMA HolderStep ==
    ASSUME TypeOK, LeasedIffRunning, NEW w \in Workers, phase[w] # "off", job'[w] = None,
           \A u \in TaskIds : (status'[u] = status[u] /\ owner'[u] = owner[u])
                              \/ (Mine(w) /\ u = job[w]),
           NEW t \in TaskIds
    PROVE  RunEndsStep(t) /\ FinalStep(t)
BY DEF TypeOK, LeasedIffRunning, Mine, RunEndsStep, FinalStep, EndedByHolder, TerminalStates

LEMMA RowsAloneStep ==
    ASSUME LeasedIffRunning, UNCHANGED <<status, owner>>, NEW t \in TaskIds
    PROVE  RunEndsStep(t) /\ FinalStep(t)
BY DEF LeasedIffRunning, RunEndsStep, FinalStep, TerminalStates

LEMMA RecoveredStep ==
    ASSUME TypeOK, LeasedIffRunning, NEW t \in TaskIds
    PROVE  /\ status[t] = "running" /\ (RecoveredStatus[t] # "running" \/ RecoveredOwner[t] # owner[t]) =>
                  lease[t] = 0 /\ RecoveredStatus[t] \in {"queued", "failed"}
           /\ status[t] # "running" => RecoveredStatus[t] = status[t] /\ RecoveredOwner[t] = NoWorker
BY DEF TypeOK, LeasedIffRunning, RecoveredStatus, RecoveredOwner, Stale

LEMMA TaskSteps ==
    ASSUME TypeOK, RowsReal, LeasedIffRunning, [Next]_vars, NEW t \in TaskIds
    PROVE  RunEndsStep(t) /\ FinalStep(t)
<1> USE DEF specialistVars, approvalVars, workerVars, taskVars
<1> DEFINE Good == RunEndsStep(t) /\ FinalStep(t)
<1>1. ASSUME NEW c \in ControlStates, SetControl(c) PROVE Good
    BY <1>1, RowsAloneStep DEF SetControl
<1>2. CASE Tick
    BY <1>2, RowsAloneStep DEF Tick
<1>3. ASSUME NEW u \in TaskIds, NEW s, NEW d, Submit(u, s, d) PROVE Good
    BY <1>3 DEF TypeOK, LeasedIffRunning, Submit, RunEndsStep, FinalStep, TerminalStates
<1>4. ASSUME NEW x \in ApprovalIds, Approve(x) PROVE Good
  <2>1. aTask[x] \in TaskIds
      BY <1>4 DEF RowsReal, Approve
  <2> QED BY <1>4, <2>1 DEF TypeOK, LeasedIffRunning, Approve, Unlease, RunEndsStep, FinalStep,
                            TerminalStates
<1>5. ASSUME NEW x \in ApprovalIds, Deny(x) PROVE Good
  <2>1. aTask[x] \in TaskIds /\ x # None /\ aStatus'[x] = "denied" /\ aStatus[x] = "pending"
      BY <1>5, Numbers DEF TypeOK, RowsReal, Deny, None
  <2> QED BY <1>5, <2>1 DEF TypeOK, LeasedIffRunning, Deny, Unlease, RunEndsStep, FinalStep,
                            TerminalStates
<1>6. ASSUME NEW w \in Workers, Start(w) \/ ClaimNothing(w) PROVE Good
  <2>1. status' = RecoveredStatus /\ owner' = RecoveredOwner
      BY <1>6 DEF Start, ClaimNothing, RecoverStale
  <2> QED BY <2>1, RecoveredStep DEF RunEndsStep, FinalStep, TerminalStates
<1>7. ASSUME NEW w \in Workers, NEW u \in TaskIds, Claim(w, u) PROVE Good
  <2>1. /\ status' = [RecoveredStatus EXCEPT ![u] = "running"]
        /\ owner' = [RecoveredOwner EXCEPT ![u] = w]
        /\ RecoveredStatus[u] = "queued"
      BY <1>7 DEF Claim, Claimable
  <2>2. CASE u = t
      BY <2>1, <2>2, RecoveredStep, RecoveredType DEF RunEndsStep, FinalStep, TerminalStates
  <2>3. CASE u # t
      BY <2>1, <2>3, RecoveredStep, RecoveredType DEF RunEndsStep, FinalStep, TerminalStates
  <2> QED BY <2>2, <2>3
<1>8. ASSUME NEW w \in Workers,
             \/ ExitOnStop(w) \/ Crash(w) \/ StoreFails(w) \/ HeartbeatFails(w) \/ Renew(w) \/ ConfirmLease(w)
             \/ PassGuard(w) \/ EndRun(w) \/ CannotPark(w)
      PROVE  Good
    BY <1>8, RowsAloneStep
    DEF ExitOnStop, Crash, StoreFails, HeartbeatFails, Renew, ConfirmLease, PassGuard, EndRun, CannotPark
<1>9. ASSUME NEW w \in Workers, NEW e \in Effects, NEW x \in ApprovalIds,
             Consume(w, e, x) \/ MeetPending(w, e, x) \/ Request(w, e, x)
      PROVE  Good
    BY <1>9, RowsAloneStep DEF Consume, MeetPending, Request
<1>10. ASSUME NEW w \in Workers, NEW retry, NEW wait, NEW p, FailTask(w, retry, wait),
              phase[w] # "off", Drop(w, p)
       PROVE  Good
  <2>1. job'[w] = None
      BY <1>10 DEF TypeOK, Drop
  <2>2. \A u \in TaskIds : (status'[u] = status[u] /\ owner'[u] = owner[u]) \/ (Mine(w) /\ u = job[w])
      BY <1>10 DEF TypeOK, FailTask, Unlease
  <2> QED BY <1>10, <2>1, <2>2, HolderStep
<1>11. ASSUME NEW w \in Workers, Finish(w) \/ Park(w) PROVE Good
  <2>1. job'[w] = None /\ phase[w] # "off"
      BY <1>11 DEF TypeOK, Finish, Park, Drop
  <2>2. \A u \in TaskIds : (status'[u] = status[u] /\ owner'[u] = owner[u]) \/ (Mine(w) /\ u = job[w])
      BY <1>11 DEF TypeOK, Finish, Park, Parkable, Unlease
  <2> QED BY <2>1, <2>2, HolderStep
<1>12. CASE UNCHANGED vars
    BY <1>12, RowsAloneStep DEF vars
<1> QED
    BY <1>1, <1>2, <1>3, <1>4, <1>5, <1>6, <1>7, <1>8, <1>9, <1>10, <1>11, <1>12
    DEF Next, Operator, Worker, Authorize, Store, Incomplete, Raise, FailUnbound

\* A run is ended by its leaseholder, by the end of its lease, or by the denial
\* it is bound to; a worker that was replaced never records an outcome.
THEOREM RunsEndRightly == Spec => RunEndsRightly
<1>1. TypeOK /\ RowsReal /\ TaskInv /\ [Next]_vars => [\A t \in TaskIds : RunEndsStep(t)]_vars
    BY TaskSteps DEF TaskInv
<1> QED
    BY <1>1, TypeInit, TypeStep, RowsRealInit, RowsRealStep, TaskInvInit, TaskInvStep, PTL
    DEF Spec, RunEndsRightly, RunEndsStep

\* Nothing brings a finished task back or rewrites its outcome.
THEOREM OutcomesAreFinal == Spec => OutcomeIsFinal
<1>1. TypeOK /\ RowsReal /\ TaskInv /\ [Next]_vars => [\A t \in TaskIds : FinalStep(t)]_vars
    BY TaskSteps DEF TaskInv
<1> QED
    BY <1>1, TypeInit, TypeStep, RowsRealInit, RowsRealStep, TaskInvInit, TaskInvStep, PTL
    DEF Spec, OutcomeIsFinal, FinalStep

-----------------------------------------------------------------------------
(* The counters of a specialist. A step adds at most one task to those that *)
(* are done, with its count, and never counts a failure that is not new.    *)

Done(s) == TasksOf(s, {"done"})
Failed(s) == TasksOf(s, {"failed"})
Tallies(s) ==
    /\ \/ Done(s)' = Done(s) /\ spDone'[s] = spDone[s]
       \/ \E t \in TaskIds \ Done(s) : Done(s)' = Done(s) \cup {t} /\ spDone'[s] = spDone[s] + 1
    /\ Failed(s) \subseteq Failed(s)'
    /\ \/ spFailed'[s] = spFailed[s]
       \/ spFailed'[s] = spFailed[s] + 1 /\ Failed(s)' # Failed(s)

SameEnd(t) == \/ status'[t] = status[t] /\ spec'[t] = spec[t]
              \/ status[t] \notin TerminalStates /\ status'[t] \notin TerminalStates

LEMMA TallyFrame ==
    ASSUME TypeOK, NEW s \in Specialists, spDone'[s] = spDone[s], spFailed'[s] = spFailed[s],
           \A t \in TaskIds : SameEnd(t)
    PROVE  Tallies(s)
<1>1. Done(s)' = Done(s) /\ Failed(s)' = Failed(s)
    BY DEF Done, Failed, TasksOf, TerminalStates, SameEnd
<1> QED BY <1>1 DEF Tallies

\* A task leaves "running", or fails before it ran again.
LEMMA TallyOneRow ==
    ASSUME TypeOK, TaskInv, NEW s \in Specialists, NEW t \in TaskIds,
           NEW next \in {"queued", "awaiting_approval", "done", "failed"},
           status[t] \notin TerminalStates, next = "done" => status[t] = "running",
           status' = [status EXCEPT ![t] = next], spec' = spec, Release(t, next)
    PROVE  Tallies(s)
<1>1. /\ spDone'[s] = IF Holds(s, t) /\ next = "done" THEN spDone[s] + 1 ELSE spDone[s]
      /\ spFailed'[s] = IF Holds(s, t) /\ next = "failed" THEN spFailed[s] + 1 ELSE spFailed[s]
    BY DEF Release, PlusIf
<1>2. \A u \in TaskIds : status'[u] = IF u = t THEN next ELSE status[u]
    BY DEF TypeOK
<1>3. status[t] = "running" /\ spec[t] = s => Holds(s, t)
    BY DEF TaskInv, SpecialistBound, Holds
<1>4. CASE next = "done"
  <2>1. Failed(s)' = Failed(s) /\ spFailed'[s] = spFailed[s]
      BY <1>1, <1>2, <1>4 DEF Failed, TasksOf, TerminalStates
  <2>2. CASE spec[t] = s
    <3>1. Done(s)' = Done(s) \cup {t} /\ t \notin Done(s)
        BY <1>2, <1>4, <2>2 DEF Done, TasksOf, TerminalStates
    <3> QED BY <1>1, <1>3, <1>4, <2>1, <2>2, <3>1 DEF Tallies
  <2>3. CASE spec[t] # s
    <3>1. Done(s)' = Done(s)
        BY <1>2, <2>3 DEF Done, TasksOf
    <3> QED BY <1>1, <2>1, <2>3, <3>1 DEF Tallies, Holds
  <2> QED BY <2>2, <2>3
<1>5. CASE next = "failed"
  <2>1. Done(s)' = Done(s) /\ spDone'[s] = spDone[s]
      BY <1>1, <1>2, <1>5 DEF Done, TasksOf, TerminalStates
  <2>2. Failed(s) \subseteq Failed(s)' /\ (spec[t] = s => t \in Failed(s)' /\ t \notin Failed(s))
      BY <1>2, <1>5 DEF Failed, TasksOf, TerminalStates
  <2> QED BY <1>1, <2>1, <2>2 DEF Tallies, Holds
<1>6. CASE next \in {"queued", "awaiting_approval"}
  <2>1. \A u \in TaskIds : SameEnd(u)
      BY <1>2, <1>6 DEF SameEnd, TerminalStates
  <2> QED BY <1>1, <1>6, <2>1, TallyFrame
<1> QED BY <1>4, <1>5, <1>6

\* Recovery, alone or at the head of claim_task.
LEMMA TallyRecovered ==
    ASSUME TypeOK, TaskInv, NEW s \in Specialists, spec' = spec, spDone' = spDone,
           spFailed' = RecoveredSpFailed,
           \/ status' = RecoveredStatus
           \/ \E u \in TaskIds : status' = [RecoveredStatus EXCEPT ![u] = "running"] /\ RecoveredStatus[u] = "queued"
    PROVE  Tallies(s)
<1>0. \A t \in TaskIds : \/ status'[t] = RecoveredStatus[t]
                         \/ RecoveredStatus[t] = "queued" /\ status'[t] = "running"
  <2>1. CASE status' = RecoveredStatus
      BY <2>1
  <2>2. ASSUME NEW u \in TaskIds, status' = [RecoveredStatus EXCEPT ![u] = "running"], RecoveredStatus[u] = "queued"
        PROVE  \A t \in TaskIds : \/ status'[t] = RecoveredStatus[t]
                                  \/ RecoveredStatus[t] = "queued" /\ status'[t] = "running"
      BY <2>2, RecoveredType
  <2> QED BY <2>1, <2>2
<1>1. Done(s)' = Done(s) /\ Failed(s) \subseteq Failed(s)'
    BY <1>0 DEF Done, Failed, TasksOf, RecoveredStatus, Stale
<1>2. ASSUME NEW t \in TaskIds, Stale(t), Holds(s, t), Exhausted(t)
      PROVE  t \in Failed(s)' /\ t \notin Failed(s)
    BY <1>0, <1>2 DEF Failed, TasksOf, RecoveredStatus, Stale, Holds
<1>3. spFailed'[s] = spFailed[s] \/ (spFailed'[s] = spFailed[s] + 1 /\ Failed(s)' # Failed(s))
    BY <1>2 DEF RecoveredSpFailed, PlusIf
<1> QED BY <1>1, <1>3 DEF Tallies

LEMMA TallyMoves ==
    ASSUME TypeOK, RowsReal, TaskInv, [Next]_vars, NEW s \in Specialists
    PROVE  Tallies(s)
<1> USE DEF specialistVars, approvalVars, workerVars, taskVars
<1>1. ASSUME UNCHANGED <<status, spec, spDone, spFailed>> PROVE Tallies(s)
  <2>1. \A t \in TaskIds : SameEnd(t)
      BY <1>1 DEF SameEnd
  <2> QED BY <1>1, <2>1, TallyFrame
<1>2. ASSUME NEW u \in TaskIds, NEW r, NEW d, Submit(u, r, d) PROVE Tallies(s)
  <2>1. \A t \in TaskIds : SameEnd(t)
    <3>1. status[u] = "absent" /\ status' = [status EXCEPT ![u] = "queued"] /\ spec' = [spec EXCEPT ![u] = r]
        BY <1>2 DEF Submit
    <3> QED BY <3>1 DEF TypeOK, SameEnd, TerminalStates
  <2> QED BY <1>2, <2>1, TallyFrame DEF Submit
<1>3. ASSUME NEW x \in ApprovalIds, Approve(x) PROVE Tallies(s)
  <2>1. \A t \in TaskIds : SameEnd(t)
    <3>1. /\ spec' = spec
          /\ \/ status' = status
             \/ status[aTask[x]] = "awaiting_approval" /\ status' = [status EXCEPT ![aTask[x]] = "queued"]
        BY <1>3 DEF Approve
    <3> QED BY <3>1 DEF TypeOK, SameEnd, TerminalStates
  <2> QED BY <1>3, <2>1, TallyFrame DEF Approve
<1>4. ASSUME NEW x \in ApprovalIds, Deny(x) PROVE Tallies(s)
  <2> DEFINE t == aTask[x]
  <2>1. t \in TaskIds
      BY <1>4 DEF RowsReal, Deny
  <2>2. CASE status[t] \in {"running", "queued", "awaiting_approval"} /\ awaiting[t] = x
    <3>1. status' = [status EXCEPT ![t] = "failed"] /\ spec' = spec /\ Release(t, "failed")
        BY <1>4, <2>2 DEF Deny
    <3>2. status[t] \notin TerminalStates
        BY <2>2 DEF TerminalStates
    <3> HIDE DEF t
    <3> QED BY <2>1, <3>1, <3>2, TallyOneRow
  <2>3. CASE ~(status[t] \in {"running", "queued", "awaiting_approval"} /\ awaiting[t] = x)
      BY <1>1, <1>4, <2>3 DEF Deny
  <2> QED BY <2>2, <2>3
<1>5. ASSUME NEW w \in Workers, Start(w) \/ ClaimNothing(w) \/ \E t \in TaskIds : Claim(w, t)
      PROVE  Tallies(s)
  <2>1. /\ spec' = spec /\ spDone' = spDone /\ spFailed' = RecoveredSpFailed
        /\ \/ status' = RecoveredStatus
           \/ \E u \in TaskIds : status' = [RecoveredStatus EXCEPT ![u] = "running"] /\ RecoveredStatus[u] = "queued"
    <3>1. CASE Start(w) \/ ClaimNothing(w)
        BY <3>1 DEF Start, ClaimNothing, RecoverStale
    <3>2. CASE \E u \in TaskIds : Claim(w, u)
        BY <3>2 DEF Claim, Claimable
    <3> QED BY <1>5, <3>1, <3>2
  <2> QED BY <2>1, TallyRecovered
<1>6. ASSUME NEW w \in Workers, NEW retry, NEW wait, FailTask(w, retry, wait), spec' = spec PROVE Tallies(s)
  <2> DEFINE t == job[w]
             next == IF retry /\ ~Exhausted(t) THEN "queued" ELSE "failed"
  <2>1. CASE Mine(w)
    <3>1. status' = [status EXCEPT ![t] = next] /\ Release(t, next) /\ t \in TaskIds
        BY <1>6, <2>1, MineType DEF FailTask
    <3>2. status[t] \notin TerminalStates /\ next \in {"queued", "failed"}
        BY <2>1 DEF Mine, TerminalStates
    <3> HIDE DEF t, next
    <3> QED BY <1>6, <3>1, <3>2, TallyOneRow
  <2>2. CASE ~Mine(w)
      BY <1>1, <1>6, <2>2 DEF FailTask
  <2> QED BY <2>1, <2>2
<1>7. ASSUME NEW w \in Workers, Finish(w) PROVE Tallies(s)
  <2>1. CASE Mine(w)
    <3>1. /\ status' = [status EXCEPT ![job[w]] = "done"] /\ Release(job[w], "done") /\ spec' = spec
          /\ job[w] \in TaskIds /\ status[job[w]] = "running"
        BY <1>7, <2>1, MineType DEF Finish, Mine
    <3> QED BY <3>1, TallyOneRow DEF TerminalStates
  <2>2. CASE ~Mine(w)
      BY <1>1, <1>7, <2>2 DEF Finish
  <2> QED BY <2>1, <2>2
<1>8. ASSUME NEW w \in Workers, Park(w) PROVE Tallies(s)
  <2> DEFINE next == AfterAwait(seen[w])
  <2>1. /\ status' = [status EXCEPT ![job[w]] = next] /\ Release(job[w], next) /\ spec' = spec
        /\ job[w] \in TaskIds /\ status[job[w]] = "running"
      BY <1>8, MineType DEF Park, Parkable, Mine
  <2>2. next \in {"queued", "awaiting_approval", "failed"}
      BY DEF AfterAwait
  <2> HIDE DEF next
  <2> QED BY <2>1, <2>2, TallyOneRow DEF TerminalStates
<1>9. ASSUME NEW w \in Workers,
             \/ ExitOnStop(w) \/ Crash(w) \/ StoreFails(w) \/ HeartbeatFails(w) \/ Renew(w) \/ ConfirmLease(w)
             \/ PassGuard(w) \/ EndRun(w) \/ CannotPark(w)
      PROVE  Tallies(s)
    BY <1>1, <1>9
    DEF ExitOnStop, Crash, StoreFails, HeartbeatFails, Renew, ConfirmLease, PassGuard, EndRun, CannotPark
<1>10. ASSUME NEW w \in Workers, NEW e \in Effects, NEW x \in ApprovalIds,
              Consume(w, e, x) \/ MeetPending(w, e, x) \/ Request(w, e, x)
       PROVE  Tallies(s)
    BY <1>1, <1>10 DEF Consume, MeetPending, Request
<1>11. CASE Tick \/ UNCHANGED vars \/ \E c \in ControlStates : SetControl(c)
    BY <1>1, <1>11 DEF Tick, vars, SetControl
<1> QED
    BY <1>2, <1>3, <1>4, <1>5, <1>6, <1>7, <1>8, <1>9, <1>10, <1>11
    DEF Next, Operator, Worker, Authorize, Store, Incomplete, Raise, FailUnbound

LEMMA TallyStep ==
    ASSUME TypeOK, TypeOK', TallyIsExact, \A s \in Specialists : Tallies(s)
    PROVE  TallyIsExact'
<1> SUFFICES ASSUME NEW s \in Specialists
             PROVE  spDone'[s] = Cardinality(Done(s)') /\ spFailed'[s] <= Cardinality(Failed(s)')
    BY DEF TallyIsExact, Done, Failed
<1>1. /\ spDone[s] = Cardinality(Done(s)) /\ spFailed[s] <= Cardinality(Failed(s))
      /\ spFailed[s] \in Nat /\ Tallies(s)
    BY DEF TallyIsExact, Done, Failed, TypeOK
<1>2. IsFiniteSet(TaskIds)
    BY FS_Interval, CountsAssumption DEF TaskIds
<1>3. /\ IsFiniteSet(Done(s)) /\ IsFiniteSet(Failed(s)) /\ IsFiniteSet(Failed(s)')
    BY <1>2, FS_Subset DEF Done, Failed, TasksOf
<1>4. spDone'[s] = Cardinality(Done(s)')
    BY <1>1, <1>3, FS_AddElement DEF Tallies
<1>5. /\ Cardinality(Failed(s)) <= Cardinality(Failed(s)')
      /\ Cardinality(Failed(s)) = Cardinality(Failed(s)') => Failed(s) = Failed(s)'
      /\ Cardinality(Failed(s)) \in Nat /\ Cardinality(Failed(s)') \in Nat
    BY <1>1, <1>3, FS_Subset, FS_CardinalityType DEF Tallies
<1>6. spFailed'[s] <= Cardinality(Failed(s)')
    BY <1>1, <1>5 DEF Tallies
<1> QED BY <1>4, <1>6

\* completed_tasks counts the tasks of a specialist that are done, each once,
\* and failed_tasks no failure twice, over every recovery, retry and denial.
THEOREM TalliesAreExact == Spec => []TallyIsExact
<1>1. Init => TallyIsExact
  <2> SUFFICES ASSUME Init, NEW s \in Specialists
               PROVE  /\ spDone[s] = Cardinality(TasksOf(s, {"done"}))
                      /\ spFailed[s] <= Cardinality(TasksOf(s, {"failed"}))
      BY DEF TallyIsExact
  <2>1. TasksOf(s, {"done"}) = {} /\ TasksOf(s, {"failed"}) = {}
      BY DEF Init, TasksOf
  <2>2. Cardinality({}) = 0
      BY FS_EmptySet
  <2> QED BY <2>1, <2>2 DEF Init
<1>2. TypeOK /\ RowsReal /\ TaskInv /\ TypeOK' /\ TallyIsExact /\ [Next]_vars => TallyIsExact'
    BY TallyMoves, TallyStep
<1> QED
    BY <1>1, <1>2, TypeInit, TypeStep, RowsRealInit, RowsRealStep, TaskInvInit, TaskInvStep, PTL
    DEF Spec

-----------------------------------------------------------------------------
(* The approvals table keeps the ledger's promise: KeepsLedger. A call's     *)
(* request is its newest row, so what is needed first is that a call with    *)
(* rows has a newest one (Greatest).                                         *)

\* What NewestRow chooses, of any set of rows.
LEMMA Chosen ==
    ASSUME NEW S, S \subseteq ApprovalIds, NEW x \in S, \A y \in S : y <= x
    PROVE  (CHOOSE m \in S : \A y \in S : y <= m) = x
<1>1. \A m \in S : (\A y \in S : y <= m) => m = x
    BY Numbers
<1> QED BY <1>1

\* The current row of a call, now and after the step.
Current(c, x) == x \in SameCall(c[1], c[2]) /\ \A y \in SameCall(c[1], c[2]) : y <= x

LEMMA CurrentExists ==
    ASSUME NEW c
    PROVE  /\ SameCall(c[1], c[2]) # {} => \E x \in ApprovalIds : Current(c, x)
           /\ SameCall(c[1], c[2])' # {} => \E x \in ApprovalIds : Current(c, x)'
<1>1. ApprovalCount \in Nat
    BY CountsAssumption
<1>2. \A S : S \subseteq ApprovalIds /\ S # {} => \E x \in S : \A y \in S : y <= x
    BY <1>1, Greatest DEF ApprovalIds
<1>3. SameCall(c[1], c[2]) \subseteq ApprovalIds /\ SameCall(c[1], c[2])' \subseteq ApprovalIds
    BY DEF SameCall
<1> QED BY <1>2, <1>3 DEF Current

LEMMA CurrentIs ==
    ASSUME NEW c \in Call, NEW x
    PROVE  /\ Current(c, x) => ledgerRequest[c] = RowState(x)
           /\ Current(c, x)' => ledgerRequest'[c] = RowState(x)'
<1>1. \A S : S \subseteq ApprovalIds /\ x \in S /\ (\A y \in S : y <= x)
            => (CHOOSE m \in S : \A y \in S : y <= m) = x
    BY Chosen
<1>2. SameCall(c[1], c[2]) \subseteq ApprovalIds /\ SameCall(c[1], c[2])' \subseteq ApprovalIds
    BY DEF SameCall
<1>3. Current(c, x) => NewestRow(c) = x
    BY <1>1, <1>2 DEF Current, NewestRow
<1>4. Current(c, x)' => NewestRow(c)' = x
    BY <1>1, <1>2 DEF Current, NewestRow
<1> QED BY <1>3, <1>4 DEF Current, ledgerRequest

LEMMA NoneIs ==
    ASSUME NEW c \in Call
    PROVE  /\ SameCall(c[1], c[2]) = {} => ledgerRequest[c] = "none"
           /\ SameCall(c[1], c[2])' = {} => ledgerRequest'[c] = "none"
BY DEF ledgerRequest

LEMMA LedgerShape ==
    /\ ledgerRequest \in [Call -> Ledger!RequestStates]
    /\ ledgerRequest' \in [Call -> Ledger!RequestStates]
    /\ ledgerRuns = [c \in Call |-> ledgerRuns[c]]
    /\ ledgerRuns' = [c \in Call |-> ledgerRuns'[c]]
<1>1. \A x : RowState(x) \in Ledger!RequestStates /\ RowState(x)' \in Ledger!RequestStates
    BY DEF RowState, Ledger!RequestStates
<1>2. ledgerRequest \in [Call -> Ledger!RequestStates]
    BY <1>1 DEF ledgerRequest, Ledger!RequestStates
<1>3. ledgerRequest' \in [Call -> Ledger!RequestStates]
    BY <1>1 DEF ledgerRequest, Ledger!RequestStates
<1> QED BY <1>2, <1>3 DEF ledgerRuns

\* A call none of whose rows the step adds or changes the state of.
LEMMA SteadyCall ==
    ASSUME NEW c \in Call, SameCall(c[1], c[2])' = SameCall(c[1], c[2]),
           \A x \in SameCall(c[1], c[2]) : RowState(x)' = RowState(x)
    PROVE  ledgerRequest'[c] = ledgerRequest[c]
<1>1. CASE SameCall(c[1], c[2]) = {}
    BY <1>1, NoneIs
<1>2. CASE SameCall(c[1], c[2]) # {}
  <2>1. PICK x \in ApprovalIds : Current(c, x)
      BY <1>2, CurrentExists
  <2>2. Current(c, x)' /\ x \in SameCall(c[1], c[2])
      BY <2>1 DEF Current
  <2> QED BY <2>1, <2>2, CurrentIs
<1> QED BY <1>1, <1>2

LEMMA SteadyRuns ==
    ASSUME NEW c \in Call,
           {x \in SameCall(c[1], c[2]) : executed[x] > 0}' = {x \in SameCall(c[1], c[2]) : executed[x] > 0}
    PROVE  ledgerRuns'[c] = ledgerRuns[c]
BY DEF ledgerRuns

\* A step that leaves the approvals table alone.
LEMMA LedgerFrame ==
    ASSUME UNCHANGED <<aStatus, aTask, aEffect, ttl, executed>>
    PROVE  UNCHANGED Ledger!ledgerVars
<1>1. \A t, e : SameCall(t, e)' = SameCall(t, e)
    BY DEF SameCall
<1>2. \A c \in Call : ledgerRequest'[c] = ledgerRequest[c]
    BY <1>1, SteadyCall DEF RowState
<1>3. \A c \in Call : ledgerRuns'[c] = ledgerRuns[c]
  <2> SUFFICES ASSUME NEW c \in Call PROVE ledgerRuns'[c] = ledgerRuns[c]
      OBVIOUS
  <2>1. {x \in SameCall(c[1], c[2]) : executed[x] > 0}' = {x \in SameCall(c[1], c[2]) : executed[x] > 0}
      BY <1>1
  <2> QED BY <2>1, SteadyRuns
<1> QED BY <1>2, <1>3, LedgerShape DEF Ledger!ledgerVars

\* The call a row belongs to; a live row is that call's current one.
CallOf(x) == <<aTask[x], aEffect[x]>>

LEMMA LiveIsCurrent ==
    ASSUME TypeOK, ApprovalInv, NEW c \in Call, NEW x \in SameCall(c[1], c[2]), Live(x)
    PROVE  Current(c, x)
<1> SUFFICES ASSUME NEW y \in SameCall(c[1], c[2]) PROVE y <= x
    BY DEF Current
<1>1. ~(x < y)
    BY DEF ApprovalInv, LiveIsNewest, SameCall
<1> QED BY <1>1, Numbers DEF SameCall

\* Approve and Deny: the operator decides the call's current request.
LEMMA DecideLedger ==
    ASSUME TypeOK, RowsReal, ApprovalInv, NEW x \in ApprovalIds, Approve(x) \/ Deny(x)
    PROVE  \E c \in Call, v \in {"granted", "refused"} : Ledger!Decide(c, v)
<1> DEFINE c == CallOf(x)
           verdict == aStatus'[x]
           v == RowState(x)'
<1>1. /\ aStatus[x] = "pending" /\ verdict \in {"approved", "denied"}
      /\ aStatus' = [aStatus EXCEPT ![x] = verdict]
      /\ UNCHANGED <<aTask, aEffect, executed>>
      /\ verdict = "approved" => ttl'[x] > 0
    BY Numbers DEF TypeOK, Approve, Deny
<1>2. \A y \in ApprovalIds \ {x} : ttl'[y] = ttl[y] /\ aStatus'[y] = aStatus[y]
    BY <1>1 DEF TypeOK, Approve, Deny
<1>3. \A t, e : SameCall(t, e)' = SameCall(t, e)
    BY <1>1, <1>2 DEF SameCall
<1>4. c \in Call /\ x \in SameCall(c[1], c[2])
    BY <1>1 DEF TypeOK, RowsReal, Call, CallOf, SameCall
<1>5. Current(c, x) /\ RowState(x) = "asked"
    BY <1>1, <1>4, LiveIsCurrent DEF Live, RowState
<1>6. Current(c, x)' /\ v \in {"granted", "refused"}
  <2>1. Current(c, x)'
      BY <1>1, <1>3, <1>5 DEF Current, CallOf
  <2> QED BY <2>1, <1>1 DEF RowState
<1>7. ledgerRequest[c] = "asked" /\ ledgerRequest'[c] = v
  <2>1. CallOf(x)' = CallOf(x)
      BY <1>1 DEF CallOf
  <2> HIDE DEF v
  <2>2. PICK d \in Call : d = c
      BY <1>4
  <2>3. Current(d, x) /\ Current(d, x)'
      BY <2>1, <2>2, <1>5, <1>6 DEF Current
  <2> QED BY <2>2, <2>3, <1>5, CurrentIs DEF v
<1>8. ASSUME NEW d \in Call, d # c PROVE ledgerRequest'[d] = ledgerRequest[d]
  <2>1. x \notin SameCall(d[1], d[2])
      BY <1>8 DEF SameCall, Call, CallOf
  <2>2. \A y \in SameCall(d[1], d[2]) : RowState(y)' = RowState(y)
      BY <2>1, <1>2 DEF SameCall, RowState
  <2> QED BY <1>3, <2>2, SteadyCall
<1>9. ledgerRuns' = ledgerRuns
  <2> SUFFICES ASSUME NEW d \in Call PROVE ledgerRuns'[d] = ledgerRuns[d]
      BY LedgerShape
  <2>1. {y \in SameCall(d[1], d[2]) : executed[y] > 0}' = {y \in SameCall(d[1], d[2]) : executed[y] > 0}
      BY <1>1, <1>3
  <2> QED BY <2>1, SteadyRuns
<1>10. ledgerRequest' = [ledgerRequest EXCEPT ![c] = v]
  <2> HIDE DEF c, v
  <2> QED BY <1>7, <1>8, LedgerShape
<1> QED
  <2> HIDE DEF c, v
  <2> QED BY <1>4, <1>6, <1>7, <1>9, <1>10 DEF Ledger!Decide

\* Time passes: a grant that runs out lapses, nothing else changes.
LEMMA TickLedger == ASSUME TypeOK, Tick PROVE Ledger!Lapse
<1>1. UNCHANGED <<aStatus, aTask, aEffect, executed>>
    BY DEF Tick
<1>2. \A t, e : SameCall(t, e)' = SameCall(t, e)
    BY <1>1 DEF SameCall
<1>3. \A x \in ApprovalIds : ttl'[x] > 0 => ttl[x] > 0
    BY Numbers DEF TypeOK, Tick, Lower
<1>4. \A x \in ApprovalIds : RowState(x)' # RowState(x) => RowState(x) = "granted" /\ RowState(x)' = "lapsed"
    BY <1>1, <1>3 DEF RowState
<1>5. ASSUME NEW c \in Call, ledgerRequest'[c] # ledgerRequest[c]
      PROVE  ledgerRequest[c] = "granted" /\ ledgerRequest'[c] = "lapsed"
  <2>1. SameCall(c[1], c[2]) # {}
      BY <1>2, <1>5, NoneIs
  <2>2. PICK x \in ApprovalIds : Current(c, x)
      BY <2>1, CurrentExists
  <2>3. Current(c, x)'
      BY <1>2, <2>2 DEF Current
  <2> QED BY <1>4, <1>5, <2>2, <2>3, CurrentIs
<1>6. ledgerRuns' = ledgerRuns
  <2> SUFFICES ASSUME NEW c \in Call PROVE ledgerRuns'[c] = ledgerRuns[c]
      BY LedgerShape
  <2>1. {x \in SameCall(c[1], c[2]) : executed[x] > 0}' = {x \in SameCall(c[1], c[2]) : executed[x] > 0}
      BY <1>1, <1>2
  <2> QED BY <2>1, SteadyRuns
<1> QED BY <1>5, <1>6, LedgerShape DEF Ledger!Lapse

\* The answering row is the call's newest, so nothing newer is there to expire.
LEMMA AnswersAlone ==
    ASSUME TypeOK, ApprovalInv, NEW t \in TaskIds, NEW e \in Effects, NEW x \in ApprovalIds, Answers(x, t, e)
    PROVE  /\ <<t, e>> \in Call /\ x \in SameCall(t, e) /\ Current(<<t, e>>, x) /\ Live(x)
           /\ Expire({y \in Scanned(t, e) : y > x}) = aStatus
<1>1. <<t, e>> \in Call /\ x \in SameCall(t, e) /\ Live(x)
    BY DEF Call, Answers, Scanned
<1>2. Current(<<t, e>>, x)
  <2>1. PICK c \in Call : c = <<t, e>>
      BY <1>1
  <2>2. x \in SameCall(c[1], c[2])
      BY <1>1, <2>1
  <2>3. Current(c, x)
      BY <1>1, <2>2, LiveIsCurrent
  <2> QED BY <2>1, <2>3
<1>3. {y \in Scanned(t, e) : y > x} = {}
  <2>1. \A y \in Scanned(t, e) : y \in ApprovalIds /\ y <= x
    <3>1. \A y \in SameCall(t, e) : y \in ApprovalIds /\ y <= x
      <4>1. \A y \in SameCall(<<t, e>>[1], <<t, e>>[2]) : y <= x
          BY <1>2 DEF Current
      <4> QED BY <4>1 DEF SameCall
    <3> QED BY <3>1 DEF Scanned
  <2>2. ASSUME NEW y \in ApprovalIds, y <= x PROVE ~(y > x)
      BY <2>2, Numbers
  <2> QED BY <2>1, <2>2
<1>4. Expire({}) = aStatus
    BY DEF TypeOK, Expire, Lapsed
<1> QED BY <1>1, <1>2, <1>3, <1>4

\* Consume: the call runs once more and its grant is used.
LEMMA ConsumeLedger ==
    ASSUME TypeOK, RowsReal, ApprovalInv, NEW w \in Workers, NEW e \in Effects, NEW x \in ApprovalIds,
           Consume(w, e, x)
    PROVE  \E c \in Call : Ledger!Use(c)
<1> DEFINE c == <<job[w], e>>
<1>1. job[w] \in TaskIds /\ Answers(x, job[w], e) /\ Granted(x)
    BY DEF Consume, RowsReal
<1>2. /\ c \in Call /\ x \in SameCall(job[w], e) /\ Current(c, x)
      /\ Expire({y \in Scanned(job[w], e) : y > x}) = aStatus
    BY <1>1, AnswersAlone
<1>3. /\ aStatus' = [aStatus EXCEPT ![x] = "consumed"]
      /\ executed' = [executed EXCEPT ![x] = @ + 1]
      /\ UNCHANGED <<aTask, aEffect, ttl>>
    BY <1>2 DEF Consume
<1>4. \A t, f : SameCall(t, f)' = SameCall(t, f)
    BY <1>1, <1>3 DEF SameCall, Granted, TypeOK
<1>5. /\ \A y \in ApprovalIds \ {x} : RowState(y)' = RowState(y) /\ executed'[y] = executed[y]
      /\ RowState(x) = "granted" /\ RowState(x)' = "used"
      /\ executed[x] = 0 /\ executed'[x] = 1
  <2>1. \A y \in ApprovalIds \ {x} : aStatus'[y] = aStatus[y] /\ executed'[y] = executed[y]
      BY <1>3 DEF TypeOK
  <2>2. executed[x] = 0 /\ executed'[x] = 1
      BY <1>1, <1>3 DEF Granted, TypeOK, ApprovalInv, OneShot
  <2>3. aStatus'[x] = "consumed"
      BY <1>3 DEF TypeOK
  <2> QED BY <1>1, <1>3, <2>1, <2>2, <2>3 DEF RowState, Granted
<1>6. PICK k \in Call : k = c
    BY <1>2
<1>7. Current(k, x) /\ Current(k, x)' /\ x \in SameCall(k[1], k[2])
  <2>1. Current(k, x) /\ x \in SameCall(k[1], k[2])
      BY <1>2, <1>6
  <2>2. Current(k, x)'
      BY <2>1, <1>4 DEF Current
  <2> QED BY <2>1, <2>2
<1>8. ledgerRequest[k] = "granted" /\ ledgerRequest'[k] = "used"
    BY <1>5, <1>7, CurrentIs
<1>9. ASSUME NEW d \in Call, d # k
      PROVE  ledgerRequest'[d] = ledgerRequest[d] /\ ledgerRuns'[d] = ledgerRuns[d]
  <2>1. x \notin SameCall(d[1], d[2])
      BY <1>2, <1>6, <1>9 DEF SameCall, Call
  <2>2. SameCall(d[1], d[2])' = SameCall(d[1], d[2]) /\ SameCall(d[1], d[2]) \subseteq ApprovalIds \ {x}
      BY <1>4, <2>1 DEF SameCall
  <2>3. {y \in SameCall(d[1], d[2]) : executed[y] > 0}' = {y \in SameCall(d[1], d[2]) : executed[y] > 0}
      BY <1>5, <2>2
  <2> QED BY <1>5, <2>2, <2>3, SteadyCall, SteadyRuns
<1>10. ledgerRuns'[k] = ledgerRuns[k] + 1
  <2> DEFINE S == {y \in SameCall(k[1], k[2]) : executed[y] > 0}
             S2 == {y \in SameCall(k[1], k[2]) : executed[y] > 0}'
  <2>1. SameCall(k[1], k[2])' = SameCall(k[1], k[2]) /\ SameCall(k[1], k[2]) \subseteq ApprovalIds
      BY <1>4 DEF SameCall
  <2>2. S2 = S \cup {x} /\ x \notin S
      BY <1>5, <1>7, <2>1
  <2>3. IsFiniteSet(S)
    <3>1. IsFiniteSet(1..ApprovalCount)
        BY CountsAssumption, FS_Interval
    <3> QED BY <3>1, <2>1, FS_Subset DEF ApprovalIds
  <2>4. ledgerRuns[k] = Cardinality(S) /\ ledgerRuns'[k] = Cardinality(S2)
      BY DEF ledgerRuns
  <2> HIDE DEF S, S2
  <2>5. Cardinality(S \cup {x}) = Cardinality(S) + 1
      BY <2>2, <2>3, FS_AddElement
  <2> QED BY <2>2, <2>4, <2>5
<1> QED BY <1>8, <1>9, <1>10, LedgerShape DEF Ledger!Use

\* MeetPending: the call waits for the request it already has.
LEMMA MeetLedger ==
    ASSUME TypeOK, RowsReal, ApprovalInv, NEW w \in Workers, NEW e \in Effects, NEW x \in ApprovalIds,
           MeetPending(w, e, x)
    PROVE  UNCHANGED Ledger!ledgerVars
<1>1. job[w] \in TaskIds /\ Answers(x, job[w], e)
    BY DEF MeetPending, RowsReal
<1>2. Expire({y \in Scanned(job[w], e) : y > x}) = aStatus
    BY <1>1, AnswersAlone
<1> QED BY <1>2, LedgerFrame DEF MeetPending

\* Request: a call with no standing request asks. The rows it passed over on
\* the way are marked expired, which they were already in the ledger's eyes.
LEMMA RequestLedger ==
    ASSUME TypeOK, RowsReal, ApprovalInv, NEW w \in Workers, NEW e \in Effects, NEW x \in ApprovalIds,
           Request(w, e, x)
    PROVE  \E c \in Call : Ledger!Ask(c)
<1> DEFINE t == job[w]
<1>1. /\ t \in TaskIds /\ NoAnswer(t, e) /\ aStatus[x] = "absent"
      /\ aStatus'[x] = "pending" /\ aTask'[x] = t /\ aEffect'[x] = e
      /\ UNCHANGED <<ttl, executed>>
    BY ExpireType DEF Request, RowsReal, TypeOK
<1>2. \A y \in ApprovalIds \ {x} :
        /\ aTask'[y] = aTask[y] /\ aEffect'[y] = aEffect[y]
        /\ aStatus'[y] = aStatus[y] \/ (aStatus[y] = "approved" /\ ttl[y] = 0 /\ aStatus'[y] = "expired")
    BY ExpireType, ExpireKeeps DEF Request, TypeOK
<1>3. \A y \in ApprovalIds : aStatus[y] # "absent" => y < x
  <2> SUFFICES ASSUME NEW y \in ApprovalIds, aStatus[y] # "absent" PROVE y < x
      OBVIOUS
  <2>1. y # x /\ ~(x < y)
      BY <1>1 DEF ApprovalInv, RowsPrefix
  <2> QED BY <2>1, Numbers
<1>4. PICK k \in Call : k = <<t, e>>
    BY <1>1 DEF Call
<1>5. /\ SameCall(k[1], k[2])' = SameCall(k[1], k[2]) \cup {x}
      /\ x \notin SameCall(k[1], k[2])
      /\ \A d \in Call : d # k => SameCall(d[1], d[2])' = SameCall(d[1], d[2]) /\ x \notin SameCall(d[1], d[2])
  <2>1. k[1] = t /\ k[2] = e
      BY <1>4
  <2>2. \A d \in Call : d # k => d[1] # t \/ d[2] # e
      BY <1>4 DEF Call
  <2> HIDE DEF t
  <2> QED BY <1>1, <1>2, <2>1, <2>2 DEF SameCall
<1>6. \A y \in ApprovalIds \ {x} : RowState(y)' = RowState(y)
    BY <1>1, <1>2 DEF RowState
<1>7. ledgerRequest'[k] = "asked"
  <2>1. Current(k, x)'
      BY <1>3, <1>5, Numbers DEF Current, SameCall
  <2> QED BY <2>1, <1>1, CurrentIs DEF RowState
<1>8. ledgerRequest[k] \notin {"asked", "granted"}
  <2>1. CASE SameCall(k[1], k[2]) = {}
      BY <2>1, NoneIs
  <2>2. CASE SameCall(k[1], k[2]) # {}
    <3>1. PICK y \in ApprovalIds : Current(k, y)
        BY <2>2, CurrentExists
    <3>2. y \in SameCall(t, e)
        BY <3>1, <1>4 DEF Current
    <3>3. ~Live(y)
        BY <1>1, <3>2, LiveIsScanned DEF NoAnswer, ApprovalInv
    <3> QED BY <3>1, <3>3, CurrentIs DEF RowState, Live, Granted
  <2> QED BY <2>1, <2>2
<1>9. \A d \in Call : d # k => ledgerRequest'[d] = ledgerRequest[d]
    BY <1>5, <1>6, SteadyCall DEF SameCall
<1>10. ledgerRuns' = ledgerRuns
  <2> SUFFICES ASSUME NEW d \in Call PROVE ledgerRuns'[d] = ledgerRuns[d]
      BY LedgerShape
  <2>1. executed[x] = 0
      BY <1>1 DEF ApprovalInv, OneShot
  <2>2. SameCall(d[1], d[2])' \ {x} = SameCall(d[1], d[2]) \ {x}
      BY <1>5
  <2>3. {y \in SameCall(d[1], d[2]) : executed[y] > 0}' = {y \in SameCall(d[1], d[2]) : executed[y] > 0}
      BY <1>1, <2>1, <2>2
  <2> QED BY <2>3, SteadyRuns
<1>11. ledgerRequest' = [ledgerRequest EXCEPT ![k] = "asked"]
    BY <1>7, <1>9, LedgerShape
<1> QED BY <1>8, <1>10, <1>11 DEF Ledger!Ask

LEMMA LedgerInitial == Init => Ledger!LedgerInit
<1> SUFFICES ASSUME Init PROVE Ledger!LedgerInit
    OBVIOUS
<1>1. \A t, e : SameCall(t, e) = {}
    BY DEF Init, SameCall
<1>2. Cardinality({}) = 0
    BY FS_EmptySet
<1>3. \A c \in Call : ledgerRequest[c] = "none" /\ ledgerRuns[c] = 0
    BY <1>1, <1>2 DEF ledgerRequest, ledgerRuns
<1> QED BY <1>3, LedgerShape DEF Ledger!LedgerInit

LEMMA LedgerSteps ==
    TypeOK /\ RowsReal /\ ApprovalInv /\ [Next]_vars => [Ledger!LedgerNext]_(Ledger!ledgerVars)
<1> SUFFICES ASSUME TypeOK, RowsReal, ApprovalInv, [Next]_vars
             PROVE  Ledger!LedgerNext \/ UNCHANGED Ledger!ledgerVars
    OBVIOUS
<1> USE DEF specialistVars, approvalVars, workerVars, taskVars
<1>1. CASE Tick
    BY <1>1, TickLedger DEF Ledger!LedgerNext
<1>2. ASSUME NEW x \in ApprovalIds, Approve(x) \/ Deny(x) PROVE Ledger!LedgerNext
    BY <1>2, DecideLedger DEF Ledger!LedgerNext
<1>3. ASSUME NEW w \in Workers, NEW e \in Effects, NEW x \in ApprovalIds, Consume(w, e, x)
      PROVE  Ledger!LedgerNext
    BY <1>3, ConsumeLedger DEF Ledger!LedgerNext
<1>4. ASSUME NEW w \in Workers, NEW e \in Effects, NEW x \in ApprovalIds, MeetPending(w, e, x)
      PROVE  UNCHANGED Ledger!ledgerVars
    BY <1>4, MeetLedger
<1>5. ASSUME NEW w \in Workers, NEW e \in Effects, NEW x \in ApprovalIds, Request(w, e, x)
      PROVE  Ledger!LedgerNext
    BY <1>5, RequestLedger DEF Ledger!LedgerNext
<1>6. ASSUME \/ \E c \in ControlStates : SetControl(c)
             \/ \E t \in TaskIds, s \in Specialists \cup {NoSpecialist}, d \in {0, RetryDelay} : Submit(t, s, d)
             \/ \E w \in Workers : \/ Start(w) \/ ClaimNothing(w) \/ \E t \in TaskIds : Claim(w, t)
      PROVE  UNCHANGED <<aStatus, aTask, aEffect, ttl, executed>>
    BY <1>6 DEF SetControl, Submit, Start, ClaimNothing, Claim
<1>7. ASSUME NEW w \in Workers,
             \/ ExitOnStop(w) \/ Crash(w) \/ StoreFails(w) \/ HeartbeatFails(w) \/ Renew(w) \/ ConfirmLease(w)
             \/ PassGuard(w) \/ EndRun(w) \/ CannotPark(w)
      PROVE  UNCHANGED <<aStatus, aTask, aEffect, ttl, executed>>
    BY <1>7
    DEF ExitOnStop, Crash, StoreFails, HeartbeatFails, Renew, ConfirmLease, PassGuard, EndRun, CannotPark
<1>8. ASSUME NEW w \in Workers,
             \/ Finish(w) \/ Park(w) \/ FailUnbound(w)
             \/ \E retry \in BOOLEAN : Incomplete(w, retry)
             \/ \E wait \in {0, RetryDelay} : Raise(w, wait, "idle")
             \/ Raise(w, 0, "off")
      PROVE  UNCHANGED <<aStatus, aTask, aEffect, ttl, executed>>
    BY <1>8 DEF Finish, Park, FailUnbound, Incomplete, Raise
<1>9. CASE UNCHANGED vars
    BY <1>9, LedgerFrame DEF vars
<1> QED
    BY <1>1, <1>2, <1>3, <1>4, <1>5, <1>6, <1>7, <1>8, <1>9, LedgerFrame
    DEF Next, Operator, Worker, Authorize, Store

\* The approvals table implements the ledger: each exact call has one current
\* request, runs only while that is granted, and using the grant ends it,
\* whichever worker, retry or lapse comes between decision and use.
THEOREM TableKeepsLedger == Spec => KeepsLedger
<1> QED
    BY LedgerInitial, LedgerSteps, TypeInit, TypeStep, RowsRealInit, RowsRealStep, ApprovalInvInit,
       ApprovalInvStep, PTL
    DEF Spec, KeepsLedger, Ledger!LedgerSpec
=============================================================================

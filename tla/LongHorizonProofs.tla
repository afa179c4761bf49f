---- MODULE LongHorizonProofs ----
(* What LongHorizon says of every plan, for any stages, workers and budgets. *)
EXTENDS LongHorizon, TLAPS

Row == [st : StageStates, mut : MutationStates, attempt : Nat,
        owner : Workers \cup {Nobody}, live : BOOLEAN, permit : BOOLEAN,
        paid : BOOLEAN, executor : Actors \cup {Nobody}]
Events == {"intent", "authorization", "effect_permit", "result", "reconciliation"}
Receipt == [gen : Nat, event : Events, outcome : Results \cup {"none"},
            actor : Actors \cup Reconcilers]
Reasons == {"lease_expired", "pause_reclaim", "mutation_not_applied",
            "reconciliation_not_applied"}
Retry == [stage : Stages, attempt : Nat, reason : Reasons]
PlanStates == {"active", "paused", "cancelled", "failed", "complete"}

\* TypeOK with its sets named, so that a leaf unfolds only what it needs.
Typed ==
    /\ status \in PlanStates /\ late \in BOOLEAN /\ control \in {"running", "paused"}
    /\ stage \in [Stages -> Row] /\ receipts \in [Stages -> Seq(Receipt)]
    /\ retries \subseteq Retry /\ reserved \subseteq Stages \X Nat
    /\ checkpoints \in Seq(Stages) /\ verdicts \subseteq [by : Verifiers, passed : BOOLEAN]
    /\ hand \in [Workers -> Nat \X Nat]
    /\ flying \subseteq Stages \X Nat /\ landed \subseteq Stages \X Nat

LEMMA TypedIsTypeOK == Typed <=> TypeOK
  BY DEF Typed, TypeOK, Row, Receipt, Retry, Reasons, PlanStates, Events

\* The next value of the rows when one of them changes.
LEMMA RowChange ==
    ASSUME Typed, NEW s \in Stages, NEW row \in Row, stage' = [stage EXCEPT ![s] = row]
    PROVE  stage' \in [Stages -> Row]
  BY DEF Typed

LEMMA RowOps ==
    ASSUME NEW r \in Row, NEW w \in Workers, NEW st \in StageStates, NEW m \in MutationStates
    PROVE  /\ [r EXCEPT !.st = "claimed", !.owner = w, !.live = TRUE,
                        !.attempt = @ + 1, !.paid = FALSE] \in Row
           /\ Released(r, st) \in Row
           /\ [r EXCEPT !.st = st] \in Row
           /\ [r EXCEPT !.mut = m] \in Row
  <1>1. [r EXCEPT !.st = "claimed", !.owner = w, !.live = TRUE,
                  !.attempt = @ + 1, !.paid = FALSE] \in Row
    <2>1. r.attempt + 1 \in Nat  BY DEF Row
    <2> QED BY <2>1 DEF Row, StageStates
  <1>2. Released(r, st) \in Row  BY DEF Row, Released
  <1>3. [r EXCEPT !.st = st] \in Row  BY DEF Row
  <1>4. [r EXCEPT !.mut = m] \in Row  BY DEF Row
  <1> QED BY <1>1, <1>2, <1>3, <1>4

LEMMA States == /\ \A o \in Results : Result(o) \in MutationStates /\ Reconciled(o) \in MutationStates
                /\ {"pending", "claimed", "awaiting_reconciliation", "complete", "failed",
                    "cancelled"} = StageStates
                /\ Resting \in StageStates
  BY DEF Results, Result, Reconciled, MutationStates, StageStates, Resting

LEMMA LogTyped ==
    ASSUME Typed, NEW s \in Stages, NEW ev \in Events, NEW o \in Results \cup {"none"},
           NEW a \in Actors \cup Reconcilers, Log(s, ev, o, a)
    PROVE  receipts' \in [Stages -> Seq(Receipt)]
  <1>1. [gen |-> stage[s].attempt, event |-> ev, outcome |-> o, actor |-> a] \in Receipt
    BY DEF Typed, Row, Receipt
  <1>2. Append(receipts[s], [gen |-> stage[s].attempt, event |-> ev, outcome |-> o,
                             actor |-> a]) \in Seq(Receipt)
    BY <1>1 DEF Typed
  <1> QED BY <1>2 DEF Log, Typed

LEMMA RetryTyped ==
    ASSUME Typed, NEW s \in Stages, NEW why \in {"lease_expired", "pause_reclaim",
                    "mutation_not_applied", "reconciliation_not_applied"},
           NEW row \in Row, NEW lost \in Row, ConsumeRetry(s, why, row, lost)
    PROVE  /\ stage' \in [Stages -> Row] /\ retries' \subseteq Retry
           /\ status' \in PlanStates
  <1>1. [lost EXCEPT !.st = "failed"] \in Row  BY DEF Row, StageStates
  <1>2. [stage |-> s, attempt |-> stage[s].attempt, reason |-> why] \in Retry
    BY DEF Typed, Row, Retry, Reasons
  <1> QED BY <1>1, <1>2 DEF ConsumeRetry, Typed, PlanStates

LEMMA ClosingTyped ==
    ASSUME Typed, NEW st \in StageStates
    PROVE  [s \in Stages |-> Closing(s, st)] \in [Stages -> Row]
  <1>1. ASSUME NEW s \in Stages PROVE Closing(s, st) \in Row
    <2>1. stage[s] \in Row  BY DEF Typed
    <2>2. Released(stage[s], st) \in Row /\ Released(stage[s], "awaiting_reconciliation") \in Row
      BY <2>1 DEF Released, Row, StageStates
    <2> QED BY <2>1, <2>2 DEF Closing
  <1> QED BY <1>1

-----------------------------------------------------------------------------
(* Type correctness, a lemma for each group of steps. *)
LEMMA ClaimsTyped ==
    ASSUME Typed, NEW w \in Workers, NEW s \in Stages,
           ClaimPending(w, s) \/ ClaimExpired(w, s) \/ ShelveExpired(s) \/ ReserveUsage(w, s)
    PROVE  Typed'
  <1>1. stage[s] \in Row /\ stage[s].attempt \in Nat /\ s \in Nat
    BY PlanAssumption DEF Typed, Row, Stages
  <1>2. Leased(s, w) \in Row  BY <1>1, RowOps DEF Leased, StageStates, MutationStates
  <1>3. Released(stage[s], "awaiting_reconciliation") \in Row
    BY <1>1 DEF Row, Released, StageStates
  <1>4. [stage[s] EXCEPT !.paid = TRUE] \in Row  BY <1>1 DEF Row
  <1>5. Grip(w, s) => hand' \in [Workers -> Nat \X Nat]
    <2>1. <<s, stage[s].attempt + 1>> \in Nat \X Nat  BY <1>1
    <2> QED BY <2>1 DEF Grip, Typed
  <1>6. CASE ClaimPending(w, s)
    BY <1>2, <1>5, <1>6, RowChange DEF ClaimPending, Typed, plan, books, world
  <1>7. CASE ShelveExpired(s)
    BY <1>3, <1>7, RowChange DEF ShelveExpired, Typed, plan, books, world
  <1>8. CASE ClaimExpired(w, s)
    <2>1. stage' \in [Stages -> Row] /\ retries' \subseteq Retry /\ status' \in PlanStates
      BY <1>1, <1>2, <1>8, RetryTyped DEF ClaimExpired
    <2>2. hand' \in [Workers -> Nat \X Nat]  BY <1>5, <1>8 DEF ClaimExpired, Typed
    <2> QED BY <2>1, <2>2, <1>8 DEF ClaimExpired, Typed, world
  <1>9. CASE ReserveUsage(w, s)
    <2>1. stage' \in [Stages -> Row]  BY <1>1, <1>4, <1>9, RowChange DEF ReserveUsage, Typed
    <2>2. reserved' \subseteq Stages \X Nat  BY <1>1, <1>9 DEF ReserveUsage, Typed
    <2> QED BY <2>1, <2>2, <1>9 DEF ReserveUsage, Typed, plan, world
  <1> QED BY <1>6, <1>7, <1>8, <1>9

LEMMA MutationsTyped ==
    ASSUME Typed, NEW w \in Workers, NEW s \in Stages, NEW a \in Actors,
           \/ RecordIntent(w, s, a) \/ AuthorizeEffect(w, s, a)
           \/ ConsumePermit(w, s, a) \/ Checkpoint(w, s, a)
    PROVE  Typed'
  <1>1. stage[s] \in Row /\ stage[s].attempt \in Nat  BY DEF Typed, Row
  <1>2. CASE RecordIntent(w, s, a)
    <2>1. receipts' \in [Stages -> Seq(Receipt)]
      BY <1>2, LogTyped DEF RecordIntent, Events, Results
    <2>2. [stage[s] EXCEPT !.mut = "intent_recorded"] \in Row
      BY <1>1 DEF Row, MutationStates
    <2>3. stage' \in [Stages -> Row]  BY <1>2, <2>2, RowChange DEF RecordIntent, Typed
    <2> QED BY <2>1, <2>3, <1>2 DEF RecordIntent, Typed, plan, world
  <1>3. CASE AuthorizeEffect(w, s, a)
    <2>1. receipts' \in [Stages -> Seq(Receipt)]
      BY <1>3, LogTyped DEF AuthorizeEffect, Events, Results
    <2>2. [stage[s] EXCEPT !.mut = "effect_authorized", !.permit = TRUE] \in Row
      BY <1>1 DEF Row, MutationStates
    <2>3. stage' \in [Stages -> Row]  BY <1>3, <2>2, RowChange DEF AuthorizeEffect, Typed
    <2> QED BY <2>1, <2>3, <1>3 DEF AuthorizeEffect, Typed, plan, world
  <1>4. CASE ConsumePermit(w, s, a)
    <2>1. receipts' \in [Stages -> Seq(Receipt)]
      BY <1>4, LogTyped DEF ConsumePermit, Events, Results
    <2>2. [stage[s] EXCEPT !.mut = "effect_in_progress", !.permit = FALSE] \in Row
      BY <1>1 DEF Row, MutationStates
    <2>3. stage' \in [Stages -> Row]  BY <1>4, <2>2, RowChange DEF ConsumePermit, Typed
    <2>4. flying' \subseteq Stages \X Nat  BY <1>1, <1>4 DEF ConsumePermit, Typed
    <2> QED BY <2>1, <2>3, <2>4, <1>4 DEF ConsumePermit, Typed, plan
  <1>5. CASE Checkpoint(w, s, a)
    <2>1. [Released(stage[s], "complete") EXCEPT !.executor = a] \in Row
      BY <1>1 DEF Released, Row, StageStates
    <2>2. stage' \in [Stages -> Row]  BY <1>5, <2>1, RowChange DEF Checkpoint, Typed
    <2>3. checkpoints' \in Seq(Stages)  BY <1>5 DEF Checkpoint, Typed
    <2> QED BY <2>2, <2>3, <1>5 DEF Checkpoint, Typed, plan, world
  <1> QED BY <1>2, <1>3, <1>4, <1>5

LEMMA AnswersTyped ==
    ASSUME Typed, NEW s \in Stages, NEW o \in Results,
           \/ \E w \in Workers, a \in Actors : RecordResult(w, s, a, o)
           \/ \E r \in Reconcilers : Reconcile(r, s, o)
    PROVE  Typed'
  <1>1. stage[s] \in Row  BY DEF Typed
  <1>2. ASSUME NEW m \in MutationStates, NEW st \in StageStates
        PROVE  /\ [stage[s] EXCEPT !.mut = m] \in Row
               /\ Released([stage[s] EXCEPT !.mut = m], st) \in Row
    BY <1>1 DEF Row, Released
  <1>3. CASE \E w \in Workers, a \in Actors : RecordResult(w, s, a, o)
    <2>1. PICK w \in Workers, a \in Actors : RecordResult(w, s, a, o)  BY <1>3
    <2>2. receipts' \in [Stages -> Seq(Receipt)]
      BY <2>1, LogTyped DEF RecordResult, Events
    <2> DEFINE row == [stage[s] EXCEPT !.mut = Result(o)]
    <2>3. /\ row \in Row /\ Released(row, "pending") \in Row
          /\ Released(row, "awaiting_reconciliation") \in Row
      BY <1>2, States DEF StageStates
    <2>4. stage' \in [Stages -> Row] /\ retries' \subseteq Retry /\ status' \in PlanStates
      <3>1. CASE o = "not_applied"
        <4>1. ConsumeRetry(s, "mutation_not_applied", Released(row, "pending"), row)
          BY <2>1, <3>1 DEF RecordResult
        <4> QED BY <4>1, <2>3, RetryTyped
      <3>2. CASE o # "not_applied"
        <4>1. \/ stage' = [stage EXCEPT ![s] = row]
              \/ stage' = [stage EXCEPT ![s] = Released(row, "awaiting_reconciliation")]
          BY <2>1, <3>2 DEF RecordResult
        <4>2. UNCHANGED <<status, retries>>  BY <2>1, <3>2 DEF RecordResult
        <4> HIDE DEF row
        <4> QED BY <4>1, <4>2, <2>3, RowChange DEF Typed
      <3> QED BY <3>1, <3>2
    <2> QED BY <2>1, <2>2, <2>4 DEF RecordResult, Typed, world
  <1>4. CASE \E r \in Reconcilers : Reconcile(r, s, o)
    <2>1. PICK r \in Reconcilers : Reconcile(r, s, o)  BY <1>4
    <2>2. receipts' \in [Stages -> Seq(Receipt)]
      BY <2>1, LogTyped DEF Reconcile, Events
    <2> DEFINE row == [stage[s] EXCEPT !.mut = Reconciled(o)]
    <2>3. /\ row \in Row /\ Released(row, Resting) \in Row
          /\ Released(row, "awaiting_reconciliation") \in Row
      BY <1>2, States DEF StageStates
    <2>4. stage' \in [Stages -> Row] /\ retries' \subseteq Retry /\ status' \in PlanStates
      <3>1. CASE o = "not_applied"
        <4>1. ConsumeRetry(s, "reconciliation_not_applied", Released(row, Resting), row)
          BY <2>1, <3>1 DEF Reconcile
        <4> QED BY <4>1, <2>3, RetryTyped
      <3>2. CASE o # "not_applied"
        <4>1. \/ stage' = [stage EXCEPT ![s] = Released(row, Resting)]
              \/ stage' = [stage EXCEPT ![s] = Released(row, "awaiting_reconciliation")]
          BY <2>1, <3>2 DEF Reconcile
        <4>2. UNCHANGED <<status, retries>>  BY <2>1, <3>2 DEF Reconcile
        <4> HIDE DEF row
        <4> QED BY <4>1, <4>2, <2>3, RowChange DEF Typed
      <3> QED BY <3>1, <3>2
    <2> QED BY <2>1, <2>2, <2>4 DEF Reconcile, Typed, world
  <1> QED BY <1>3, <1>4

LEMMA OperatorTyped ==
    ASSUME Typed, OperatorStep \/ (\E v \in Verifiers, p \in BOOLEAN : Verify(v, p))
    PROVE  Typed'
  <1>1. ASSUME NEW st \in {"pending", "cancelled"},
               stage' = [s \in Stages |-> Closing(s, st)]
        PROVE  stage' \in [Stages -> Row]
    BY <1>1, ClosingTyped DEF StageStates
  <1>2. CASE Pause  BY <1>1, <1>2 DEF Pause, Typed, PlanStates, books, world
  <1>3. CASE Cancel  BY <1>1, <1>3 DEF Cancel, Typed, PlanStates, books, world
  <1>4. CASE Resume  BY <1>4 DEF Resume, Typed, PlanStates, books, world
  <1>5. CASE Switch  BY <1>5 DEF Switch, Typed, books, world
  <1>6. ASSUME NEW s \in Stages, PauseReclaim(s) PROVE Typed'
    <2>1. stage[s] \in Row /\ stage[s].attempt \in Nat  BY DEF Typed, Row
    <2>2. [stage[s] EXCEPT !.st = "failed"] \in Row  BY <2>1 DEF Row, StageStates
    <2>3. [stage |-> s, attempt |-> stage[s].attempt, reason |-> "pause_reclaim"] \in Retry
      BY <2>1 DEF Retry, Reasons
    <2>4. CASE RetryLeft(s)
      <3>1. stage' \in [Stages -> Row]  BY <1>1, <1>6, <2>4 DEF PauseReclaim
      <3> QED BY <1>6, <2>3, <2>4, <3>1 DEF PauseReclaim, Typed, PlanStates, world
    <2>5. CASE ~RetryLeft(s)
      <3>1. stage' \in [Stages -> Row]
        BY <1>6, <2>2, <2>5, RowChange DEF PauseReclaim, Typed
      <3> QED BY <1>6, <2>5, <3>1 DEF PauseReclaim, Typed, PlanStates, world
    <2> QED BY <2>4, <2>5
  <1>7. ASSUME NEW v \in Verifiers, NEW p \in BOOLEAN, Verify(v, p) PROVE Typed'
    BY <1>7 DEF Verify, Typed, PlanStates, world
  <1> QED BY <1>2, <1>3, <1>4, <1>5, <1>6, <1>7 DEF OperatorStep

LEMMA PassingTyped == ASSUME Typed, Passing PROVE Typed'
  <1>1. CASE TimeRunsOut  BY <1>1 DEF TimeRunsOut, Typed, books, world
  <1>2. ASSUME NEW e \in flying, Land(e) \/ Lose(e) PROVE Typed'
    BY <1>2 DEF Land, Lose, Typed, plan, books
  <1>3. ASSUME NEW s \in Stages, LeaseLapses(s) \/ PermitLapses(s) PROVE Typed'
    <2>1. stage[s] \in Row  BY DEF Typed
    <2>2. /\ [stage[s] EXCEPT !.live = FALSE] \in Row
          /\ [stage[s] EXCEPT !.permit = FALSE] \in Row
      BY <2>1 DEF Row
    <2>3. stage' \in [Stages -> Row]
      BY <1>3, <2>2, RowChange DEF LeaseLapses, PermitLapses, Typed
    <2> QED BY <1>3, <2>3 DEF LeaseLapses, PermitLapses, Typed, plan, books, world
  <1> QED BY <1>1, <1>2, <1>3 DEF Passing

LEMMA TypedInit == Init => Typed
  <1> SUFFICES ASSUME Init PROVE Typed  OBVIOUS
  <1>1. NewStage \in Row  BY DEF NewStage, Row, StageStates, MutationStates
  <1>2. stage \in [Stages -> Row] /\ receipts \in [Stages -> Seq(Receipt)]
    BY <1>1 DEF Init
  <1>3. hand \in [Workers -> Nat \X Nat] /\ checkpoints \in Seq(Stages)
    BY DEF Init
  <1>4. retries \subseteq Retry /\ flying \subseteq Stages \X Nat
          /\ landed \subseteq Stages \X Nat /\ reserved \subseteq Stages \X Nat
    BY DEF Init
  <1>5. verdicts \subseteq [by : Verifiers, passed : BOOLEAN]  BY DEF Init
  <1> QED BY <1>2, <1>3, <1>4, <1>5 DEF Init, Typed, PlanStates

LEMMA TypedStep == Typed /\ [Next]_vars => Typed'
  <1> SUFFICES ASSUME Typed, [Next]_vars PROVE Typed'  OBVIOUS
  <1>1. CASE UNCHANGED vars  BY <1>1 DEF vars, Typed
  <1>2. ASSUME NEW w \in Workers, NEW s \in Stages, WorkerStep(w, s) PROVE Typed'
    BY <1>2, ClaimsTyped, MutationsTyped, AnswersTyped DEF WorkerStep
  <1>3. ASSUME NEW s \in Stages, ShelveExpired(s) PROVE Typed'
    <2>1. Released(stage[s], "awaiting_reconciliation") \in Row
      <3>1. stage[s] \in Row  BY DEF Typed
      <3> QED BY <3>1 DEF Row, Released, StageStates
    <2> QED BY <1>3, <2>1, RowChange DEF ShelveExpired, Typed, plan, books, world
  <1>4. CASE \E r \in Reconcilers, s \in Stages, o \in Results : Reconcile(r, s, o)
    BY <1>4, AnswersTyped
  <1> QED BY <1>1, <1>2, <1>3, <1>4, OperatorTyped, PassingTyped DEF Next

\* Every reachable state has the rows and receipts the schema allows.
THEOREM PlanTypeCorrect == Spec => []TypeOK
  BY TypedInit, TypedStep, TypedIsTypeOK, PTL DEF Spec

-----------------------------------------------------------------------------
(* The inductive invariant. It speaks of three columns of a stage's row only:  *)
(* status, mutation state and attempt.                                         *)
St(s) == stage[s].st
Mut(s) == stage[s].mut
Att(s) == stage[s].attempt

Busy == {"claimed", "awaiting_reconciliation"}
NotApplied == {"result_not_applied", "reconciled_not_applied"}
Applied == {"result_applied", "reconciled_applied"}
\* In these no effect of the stage can be in the world.
Quiet == MayIntend \cup {"intent_recorded", "effect_authorized"}
Effects == flying \cup landed
NoEffect(s) == \A e \in Effects : e[1] # s
Landed(s) == \E e \in landed : e[1] = s

PendingSettled == \A s \in Stages : St(s) = "pending" => Mut(s) \in MayIntend \cup {"reconciled_applied"}
ClaimedKnown == \A s \in Stages : St(s) = "claimed" => Mut(s) # "reconciled_uncertain"
\* An effect of attempt g of stage s.
Placed(s, g) ==
    /\ g <= Att(s) /\ Mut(s) \notin Quiet
    /\ St(s) = "claimed" /\ Mut(s) = "effect_in_progress" => g = Att(s)
    /\ St(s) = "claimed" /\ Mut(s) = "reconciled_applied" => g < Att(s)
EffectsPlaced == \A e \in Effects : Placed(e[1], e[2])
\* A retry of attempt g of stage s.
Over(s, g) == g <= Att(s) /\ (St(s) \in Busy => g < Att(s))
RetriesPlaced == \A r \in retries : Over(r.stage, r.attempt)
InTheAir == flying \cap landed = {}
PrefixDone == /\ \A s \in Stages : St(s) = "complete" <=> s <= Len(checkpoints)
              /\ Len(checkpoints) <= N
BusyInOrder == \A s, t \in Stages : St(s) \in Busy /\ t < s => St(t) = "complete"
CompleteIsDone == status = "complete" => \A s \in Stages : St(s) = "complete"
AppliedLanded == \A s \in Stages : Mut(s) \in Applied => Landed(s)

\* The rows, receipts and checkpoints, whatever reconcilers do.
Core == /\ PendingSettled /\ ClaimedKnown /\ RetriesPlaced /\ PrefixDone /\ BusyInOrder
        /\ AppliedLanded /\ CompleteIsDone /\ NoClaimOutlivesThePlan
\* The effects, which need reconcilers that wait for one in flight.
Calm == EffectsPlaced /\ InTheAir /\ EffectAtMostOnce /\ RetriesLeaveNothing
Safe == Core /\ (Patient => Calm)

(* What a step does to those columns, the world and the receipts: every action *)
(* is one of these moves.                                                      *)
Same(t) == stage'[t].st = St(t) /\ stage'[t].mut = Mut(t) /\ stage'[t].attempt = Att(t)
Moves(s, st, m, a) == /\ stage'[s].st = st /\ stage'[s].mut = m /\ stage'[s].attempt = a
                      /\ \A t \in Stages \ {s} : Same(t)
Receipted(s) == \E why \in Reasons :
    retries' = retries \cup {[stage |-> s, attempt |-> Att(s), reason |-> why]}

MIdle == /\ \A t \in Stages : Same(t)
         /\ UNCHANGED <<retries, checkpoints, flying, landed>>
         /\ \/ status' = status
            \/ status = "paused" /\ status' = "active"
            \/ status = "active" /\ status' = "complete" /\ \A t \in Stages : St(t) = "complete"
MWorld(e) == /\ e \in flying /\ flying' = flying \ {e} /\ landed' \in {landed, landed \cup {e}}
             /\ \A t \in Stages : Same(t)
             /\ UNCHANGED <<status, retries, checkpoints>>
MClaim(s) == /\ status = "active" /\ Frontier(s) /\ Moves(s, "claimed", Mut(s), Att(s) + 1)
             /\ UNCHANGED <<status, checkpoints, flying, landed>>
             /\ \/ St(s) = "pending" /\ retries' = retries
                \/ St(s) = "claimed" /\ Mut(s) \notin Unsettled /\ Receipted(s)
MFail(s, m) == /\ St(s) \in Busy /\ status' = "failed" /\ Moves(s, "failed", m, Att(s))
               /\ UNCHANGED <<retries, checkpoints, flying, landed>>
               /\ m = Mut(s) \/ (m \in NotApplied /\ (Patient => NoEffect(s)))
MShelve(s, m) == /\ St(s) \in Busy /\ Moves(s, "awaiting_reconciliation", m, Att(s))
                 /\ UNCHANGED <<status, retries, checkpoints, flying, landed>>
                 /\ m = Mut(s) \/ m \in {"result_uncertain", "reconciled_uncertain"}
MMark(s, m) == /\ St(s) = "claimed" /\ status = "active" /\ Moves(s, "claimed", m, Att(s))
               /\ UNCHANGED <<status, retries, checkpoints, flying, landed>>
               /\ \/ Mut(s) \in MayIntend /\ m = "intent_recorded"
                  \/ Mut(s) = "intent_recorded" /\ m = "effect_authorized"
                  \/ m = "result_applied" /\ Landed(s)
MSend(s) == /\ St(s) = "claimed" /\ status = "active" /\ Mut(s) = "effect_authorized"
            /\ Moves(s, "claimed", "effect_in_progress", Att(s))
            /\ flying' = flying \cup {<<s, Att(s)>>}
            /\ UNCHANGED <<status, retries, checkpoints, landed>>
MSettle(s, m, st) == /\ St(s) \in Busy /\ st \in {"pending", "cancelled"}
                     /\ Moves(s, st, m, Att(s))
                     /\ UNCHANGED <<status, checkpoints, flying, landed>>
                     /\ \/ m = "reconciled_applied" /\ Landed(s) /\ retries' = retries
                        \/ m \in NotApplied /\ (Patient => NoEffect(s)) /\ Receipted(s)
MDone(s) == /\ St(s) = "claimed" /\ status = "active" /\ s = Len(checkpoints) + 1
            /\ s \in Mutating => Mut(s) \in Applied
            /\ Moves(s, "complete", Mut(s), Att(s)) /\ checkpoints' = Append(checkpoints, s)
            /\ UNCHANGED <<status, retries, flying, landed>>
Closes(t, st) ==
    /\ stage'[t].mut = Mut(t) /\ stage'[t].attempt = Att(t)
    /\ \/ /\ St(t) = "claimed" /\ Mut(t) \in Ambiguous
          /\ stage'[t].st = "awaiting_reconciliation"
       \/ /\ St(t) = "claimed" /\ Mut(t) \notin Ambiguous /\ stage'[t].st = st
       \/ St(t) = "pending" /\ stage'[t].st = st
       \/ St(t) \notin {"pending", "claimed"} /\ stage'[t].st = St(t)
MClose(st) == /\ status \in {"active", "paused"} /\ st \in {"pending", "cancelled"}
              /\ status' \in {"paused", "cancelled"}
              /\ \A t \in Stages : Closes(t, st)
              /\ UNCHANGED <<checkpoints, flying, landed>>
              /\ \/ retries' = retries
                 \/ \E s \in Stages : /\ St(s) = "claimed" /\ Mut(s) \notin Ambiguous
                                      /\ Receipted(s)

Move == \/ MIdle \/ (\E e \in flying : MWorld(e)) \/ (\E st \in StageStates : MClose(st))
        \/ \E s \in Stages :
             \/ MClaim(s) \/ MSend(s) \/ MDone(s)
             \/ \E m \in MutationStates :
                  MFail(s, m) \/ MShelve(s, m) \/ MMark(s, m)
                    \/ \E st \in StageStates : MSettle(s, m, st)

LEMMA RowMoves ==
    ASSUME Typed, NEW s \in Stages, NEW row \in Row, stage' = [stage EXCEPT ![s] = row]
    PROVE  Moves(s, row.st, row.mut, row.attempt)
  BY DEF Typed, Moves, Same, St, Mut, Att

LEMMA RowSame ==
    ASSUME Typed, NEW s \in Stages, NEW row \in Row, stage' = [stage EXCEPT ![s] = row],
           row.st = St(s), row.mut = Mut(s), row.attempt = Att(s)
    PROVE  \A t \in Stages : Same(t)
  BY DEF Typed, Same, St, Mut, Att

LEMMA StageMoves ==
    ASSUME Typed, NEW s \in Stages
    PROVE  stage[s] \in Row /\ St(s) \in StageStates /\ Mut(s) \in MutationStates /\ Att(s) \in Nat
  BY DEF Typed, Row, St, Mut, Att

-----------------------------------------------------------------------------
(* Each move preserves each part of Core. *)

LEMMA MIdleCore ==
    ASSUME Typed, Typed', Core, MIdle
    PROVE  Core'
  <1>1. PendingSettled'
    BY DEF Core, PendingSettled, MIdle, Same, St, Mut
  <1>2. ClaimedKnown'
    BY DEF Core, ClaimedKnown, MIdle, Same, St, Mut
  <1>3. RetriesPlaced'
    BY DEF Core, RetriesPlaced, Over, Retry, MIdle, Same, St, Att, Typed
  <1>4. PrefixDone'
    BY DEF Core, PrefixDone, Busy, MIdle, Moves, Same, Closes, St
  <1>5. BusyInOrder'
    BY DEF Core, BusyInOrder, MIdle, Same, St
  <1>6. AppliedLanded'
    BY DEF Core, AppliedLanded, Landed, MIdle, Same, Mut
  <1>7. CompleteIsDone'
    BY DEF Core, CompleteIsDone, Busy, MIdle, Moves, Same, Closes, St
  <1>8. NoClaimOutlivesThePlan'
    BY DEF Core, NoClaimOutlivesThePlan, Busy, MIdle, Moves, Same, Closes, St
  <1> QED BY <1>1, <1>2, <1>3, <1>4, <1>5, <1>6, <1>7, <1>8 DEF Core

LEMMA MWorldCore ==
    ASSUME Typed, Typed', Core, NEW f \in flying, MWorld(f)
    PROVE  Core'
  <1>1. PendingSettled'
    BY DEF Core, PendingSettled, MWorld, Same, St, Mut
  <1>2. ClaimedKnown'
    BY DEF Core, ClaimedKnown, MWorld, Same, St, Mut
  <1>3. RetriesPlaced'
    BY DEF Core, RetriesPlaced, Over, Retry, MWorld, Same, St, Att, Typed
  <1>4. PrefixDone'
    BY DEF Core, PrefixDone, Busy, MWorld, Moves, Same, Closes, St
  <1>5. BusyInOrder'
    BY DEF Core, BusyInOrder, MWorld, Same, St
  <1>6. AppliedLanded'
    BY DEF Core, AppliedLanded, Landed, MWorld, Same, Mut
  <1>7. CompleteIsDone'
    BY DEF Core, CompleteIsDone, Busy, MWorld, Moves, Same, Closes, St
  <1>8. NoClaimOutlivesThePlan'
    BY DEF Core, NoClaimOutlivesThePlan, Busy, MWorld, Moves, Same, Closes, St
  <1> QED BY <1>1, <1>2, <1>3, <1>4, <1>5, <1>6, <1>7, <1>8 DEF Core

LEMMA MClaimCore ==
    ASSUME Typed, Typed', Core, NEW s \in Stages, MClaim(s)
    PROVE  Core'
  <1>1. PendingSettled'
    BY DEF Core, PendingSettled, MClaim, Moves, Same, St, Mut
  <1>2. ClaimedKnown'
    BY DEF Core, ClaimedKnown, PendingSettled, MayIntend, MClaim, Moves, Same,
       Closes, St, Mut
  <1>3. RetriesPlaced'
    <2> SUFFICES ASSUME NEW r \in retries' PROVE Over(r.stage, r.attempt)'
      BY DEF RetriesPlaced
    <2>1. \/ r \in retries /\ r.stage \in Stages /\ r.attempt \in Nat
          \/ St(s) = "claimed" /\ r.stage = s /\ r.attempt = Att(s)
      BY DEF MClaim, Receipted, Typed, Retry
    <2>2. r \in retries => Over(r.stage, r.attempt)  BY DEF Core, RetriesPlaced
    <2> QED BY <2>1, <2>2, StageMoves DEF MClaim, Over, Moves, Same, St, Att
  <1>4. PrefixDone'
    BY DEF Core, PrefixDone, Busy, MClaim, Moves, Same, Closes, St
  <1>5. BusyInOrder'
    <2>1. \A t \in Stages : t < s => St(t) = "complete"
      BY PlanAssumption DEF MClaim, Frontier, St, Stages
    <2>2. \A t \in Stages : St(t) \in Busy => ~(s < t)
      BY DEF Core, BusyInOrder, MClaim, Frontier, St
    <2> QED BY <2>1, <2>2 DEF Core, BusyInOrder, MClaim, Moves, Same, St
  <1>6. AppliedLanded'
    BY DEF Core, AppliedLanded, Landed, MClaim, Moves, Same, Mut
  <1>7. CompleteIsDone'
    BY DEF CompleteIsDone, MClaim
  <1>8. NoClaimOutlivesThePlan'
    BY DEF NoClaimOutlivesThePlan, MClaim
  <1> QED BY <1>1, <1>2, <1>3, <1>4, <1>5, <1>6, <1>7, <1>8 DEF Core

LEMMA MFailCore ==
    ASSUME Typed, Typed', Core, NEW s \in Stages, NEW m \in MutationStates, MFail(s, m)
    PROVE  Core'
  <1>1. PendingSettled'
    BY DEF Core, PendingSettled, MFail, Moves, Same, St, Mut
  <1>2. ClaimedKnown'
    BY DEF Core, ClaimedKnown, MFail, Moves, Same, St, Mut
  <1>3. RetriesPlaced'
    BY DEF Core, RetriesPlaced, Over, Retry, MFail, Moves, Same, St, Att, Typed
  <1>4. PrefixDone'
    BY DEF Core, PrefixDone, Busy, MFail, Moves, Same, Closes, St
  <1>5. BusyInOrder'
    BY DEF Core, BusyInOrder, PrefixDone, Busy, MFail, Moves, Same, Closes, St
  <1>6. AppliedLanded'
    BY DEF Core, AppliedLanded, Landed, Applied, MFail, Moves, Same, Closes, Mut,
       NotApplied
  <1>7. CompleteIsDone'
    BY DEF CompleteIsDone, MFail
  <1>8. NoClaimOutlivesThePlan'
    <2>1. \A t \in Stages \ {s} : St(t) # "claimed"
      BY StageMoves, PlanAssumption DEF Core, BusyInOrder, Busy, MFail, Stages
    <2> QED BY <2>1 DEF NoClaimOutlivesThePlan, MFail, Moves, Same, St
  <1> QED BY <1>1, <1>2, <1>3, <1>4, <1>5, <1>6, <1>7, <1>8 DEF Core

LEMMA MShelveCore ==
    ASSUME Typed, Typed', Core, NEW s \in Stages, NEW m \in MutationStates, MShelve(s, m)
    PROVE  Core'
  <1>1. PendingSettled'
    BY DEF Core, PendingSettled, MShelve, Moves, Same, St, Mut
  <1>2. ClaimedKnown'
    BY DEF Core, ClaimedKnown, MShelve, Moves, Same, St, Mut
  <1>3. RetriesPlaced'
    BY DEF Core, RetriesPlaced, Over, Retry, MShelve, Moves, Same, St, Att, Typed
  <1>4. PrefixDone'
    BY DEF Core, PrefixDone, Busy, MShelve, Moves, Same, Closes, St
  <1>5. BusyInOrder'
    BY DEF Core, BusyInOrder, PrefixDone, Busy, MShelve, Moves, Same, Closes, St
  <1>6. AppliedLanded'
    BY DEF Core, AppliedLanded, Landed, Applied, MShelve, Moves, Same, Closes, Mut
  <1>7. CompleteIsDone'
    BY DEF Core, CompleteIsDone, Busy, MShelve
  <1>8. NoClaimOutlivesThePlan'
    BY DEF Core, NoClaimOutlivesThePlan, MShelve, Moves, Same, St
  <1> QED BY <1>1, <1>2, <1>3, <1>4, <1>5, <1>6, <1>7, <1>8 DEF Core

LEMMA MMarkCore ==
    ASSUME Typed, Typed', Core, NEW s \in Stages, NEW m \in MutationStates, MMark(s, m)
    PROVE  Core'
  <1>1. PendingSettled'
    BY DEF Core, PendingSettled, MMark, Moves, Same, St, Mut
  <1>2. ClaimedKnown'
    BY DEF Core, ClaimedKnown, MMark, Moves, Same, St, Mut
  <1>3. RetriesPlaced'
    BY DEF Core, RetriesPlaced, Over, Retry, MMark, Moves, Same, St, Att, Typed
  <1>4. PrefixDone'
    BY DEF Core, PrefixDone, Busy, MMark, Moves, Same, Closes, St
  <1>5. BusyInOrder'
    BY DEF Core, BusyInOrder, Busy, MMark, Moves, Same, St
  <1>6. AppliedLanded'
    BY DEF Core, AppliedLanded, Landed, Applied, MMark, Moves, Same, Closes, Mut
  <1>7. CompleteIsDone'
    BY DEF CompleteIsDone, MMark
  <1>8. NoClaimOutlivesThePlan'
    BY DEF NoClaimOutlivesThePlan, MMark
  <1> QED BY <1>1, <1>2, <1>3, <1>4, <1>5, <1>6, <1>7, <1>8 DEF Core

LEMMA MSendCore ==
    ASSUME Typed, Typed', Core, NEW s \in Stages, MSend(s)
    PROVE  Core'
  <1>1. PendingSettled'
    BY DEF Core, PendingSettled, MSend, Moves, Same, St, Mut
  <1>2. ClaimedKnown'
    BY DEF Core, ClaimedKnown, MSend, Moves, Same, St, Mut
  <1>3. RetriesPlaced'
    BY DEF Core, RetriesPlaced, Over, Busy, Receipted, Retry, MSend, Moves, Same,
       Closes, St, Att, Typed
  <1>4. PrefixDone'
    BY DEF Core, PrefixDone, Busy, MSend, Moves, Same, Closes, St
  <1>5. BusyInOrder'
    BY DEF Core, BusyInOrder, Busy, MSend, Moves, Same, St
  <1>6. AppliedLanded'
    BY DEF Core, AppliedLanded, Landed, Applied, MSend, Moves, Same, Closes, Mut
  <1>7. CompleteIsDone'
    BY DEF CompleteIsDone, MSend
  <1>8. NoClaimOutlivesThePlan'
    BY DEF NoClaimOutlivesThePlan, MSend
  <1> QED BY <1>1, <1>2, <1>3, <1>4, <1>5, <1>6, <1>7, <1>8 DEF Core

LEMMA MSettleCore ==
    ASSUME Typed, Typed', Core, NEW s \in Stages, NEW m \in MutationStates, NEW st \in StageStates, MSettle(s, m, st)
    PROVE  Core'
  <1>1. PendingSettled'
    BY DEF Core, PendingSettled, MayIntend, MSettle, Moves, Same, Closes, St, Mut,
       NotApplied
  <1>2. ClaimedKnown'
    BY DEF Core, ClaimedKnown, MSettle, Moves, Same, St, Mut
  <1>3. RetriesPlaced'
    <2> SUFFICES ASSUME NEW r \in retries' PROVE Over(r.stage, r.attempt)'
      BY DEF RetriesPlaced
    <2>1. \/ r \in retries /\ r.stage \in Stages /\ r.attempt \in Nat
          \/ St(s) \in Busy /\ r.stage = s /\ r.attempt = Att(s)
      BY DEF MSettle, Receipted, Typed, Retry
    <2>2. r \in retries => Over(r.stage, r.attempt)  BY DEF Core, RetriesPlaced
    <2> QED BY <2>1, <2>2, StageMoves DEF MSettle, Over, Moves, Same, St, Att, Busy
  <1>4. PrefixDone'
    BY DEF Core, PrefixDone, Busy, MSettle, Moves, Same, Closes, St
  <1>5. BusyInOrder'
    BY DEF Core, BusyInOrder, Busy, MSettle, Moves, Same, St
  <1>6. AppliedLanded'
    BY DEF Core, AppliedLanded, Landed, Applied, MSettle, Moves, Same, Closes, Mut,
       NotApplied
  <1>7. CompleteIsDone'
    BY DEF Core, CompleteIsDone, Busy, MSettle
  <1>8. NoClaimOutlivesThePlan'
    BY DEF Core, NoClaimOutlivesThePlan, MSettle, Moves, Same, St
  <1> QED BY <1>1, <1>2, <1>3, <1>4, <1>5, <1>6, <1>7, <1>8 DEF Core

LEMMA MDoneCore ==
    ASSUME Typed, Typed', Core, NEW s \in Stages, MDone(s)
    PROVE  Core'
  <1>1. PendingSettled'
    BY DEF Core, PendingSettled, MDone, Moves, Same, St, Mut
  <1>2. ClaimedKnown'
    BY DEF Core, ClaimedKnown, MDone, Moves, Same, St, Mut
  <1>3. RetriesPlaced'
    BY DEF Core, RetriesPlaced, Over, Busy, Receipted, Retry, MDone, Moves, Same,
       Closes, St, Att, Typed
  <1>4. PrefixDone'
    <2>1. Len(checkpoints') = s  BY DEF MDone, Typed, Stages
    <2>2. s \in Nat /\ s <= N  BY PlanAssumption DEF Stages
    <2>3. \A t \in Stages : St(t)' = "complete" <=> (t = s \/ St(t) = "complete")
      BY DEF MDone, Moves, Same, St
    <2> QED BY <2>1, <2>2, <2>3, PlanAssumption DEF Core, PrefixDone, MDone, Stages
  <1>5. BusyInOrder'
    BY DEF Core, BusyInOrder, PrefixDone, Busy, MDone, Moves, Same, Closes, St, Mut,
       Att, Stages
  <1>6. AppliedLanded'
    BY DEF Core, AppliedLanded, Landed, MDone, Moves, Same, Mut
  <1>7. CompleteIsDone'
    BY DEF CompleteIsDone, MDone
  <1>8. NoClaimOutlivesThePlan'
    BY DEF NoClaimOutlivesThePlan, MDone
  <1> QED BY <1>1, <1>2, <1>3, <1>4, <1>5, <1>6, <1>7, <1>8 DEF Core

LEMMA MCloseCore ==
    ASSUME Typed, Typed', Core, NEW st \in StageStates, MClose(st)
    PROVE  Core'
  <1>1. PendingSettled'
    <2> SUFFICES ASSUME NEW t \in Stages, (St(t) = "pending")'
                 PROVE  (Mut(t) \in MayIntend \cup {"reconciled_applied"})'
      BY DEF PendingSettled
    <2>1. Closes(t, st) /\ Mut(t)' = Mut(t)  BY DEF MClose, Closes, Mut
    <2>2. \/ St(t) = "pending"
          \/ St(t) = "claimed" /\ Mut(t) \notin Ambiguous
      BY <2>1, StageMoves DEF Closes, St
    <2> QED BY <2>1, <2>2, StageMoves DEF Core, PendingSettled, Ambiguous,
               Unsettled, MayIntend, MutationStates
  <1>2. ClaimedKnown'
    BY DEF ClaimedKnown, MClose, Closes, St
  <1>3. RetriesPlaced'
    <2> SUFFICES ASSUME NEW r \in retries' PROVE Over(r.stage, r.attempt)'
      BY DEF RetriesPlaced
    <2>1. \/ r \in retries /\ r.stage \in Stages /\ r.attempt \in Nat
          \/ \E s \in Stages : /\ St(s) = "claimed" /\ Mut(s) \notin Ambiguous
                            /\ r.stage = s /\ r.attempt = Att(s)
      BY DEF MClose, Receipted, Typed, Retry
    <2>2. r \in retries => Over(r.stage, r.attempt)  BY DEF Core, RetriesPlaced
    <2> QED BY <2>1, <2>2, StageMoves DEF MClose, Over, Moves, Same, St, Att, Busy,
               Closes
  <1>4. PrefixDone'
    BY DEF Core, PrefixDone, Busy, MClose, Moves, Same, Closes, St
  <1>5. BusyInOrder'
    BY DEF Core, BusyInOrder, Busy, MClose, Closes, St
  <1>6. AppliedLanded'
    BY DEF Core, AppliedLanded, Landed, MClose, Closes, Mut
  <1>7. CompleteIsDone'
    BY DEF CompleteIsDone, MClose
  <1>8. NoClaimOutlivesThePlan'
    BY DEF NoClaimOutlivesThePlan, MClose, Closes
  <1> QED BY <1>1, <1>2, <1>3, <1>4, <1>5, <1>6, <1>7, <1>8 DEF Core

-----------------------------------------------------------------------------
(* With patient reconcilers each move also preserves each part of Calm. *)

LEMMA MIdleCalm ==
    ASSUME Typed, Typed', Core, Calm, Patient, MIdle
    PROVE  Calm'
  <1>1. EffectsPlaced'
    <2> SUFFICES ASSUME NEW e \in Effects' PROVE Placed(e[1], e[2])'
      BY DEF EffectsPlaced
    <2>1. e \in Effects /\ e[1] \in Stages /\ e[2] \in Nat  BY DEF MIdle, Effects, Typed
    <2>2. Placed(e[1], e[2])  BY <2>1 DEF Core, Calm, EffectsPlaced
    <2> QED BY <2>1, <2>2 DEF MIdle, Placed, Moves, Same, St, Mut, Att, Busy
  <1>2. InTheAir'
    BY DEF Calm, InTheAir, MIdle
  <1>3. EffectAtMostOnce'
    BY DEF Calm, EffectAtMostOnce, MIdle
  <1>4. RetriesLeaveNothing'
    BY DEF Calm, RetriesLeaveNothing, MIdle
  <1> QED BY <1>1, <1>2, <1>3, <1>4 DEF Calm

LEMMA MWorldCalm ==
    ASSUME Typed, Typed', Core, Calm, Patient, NEW f \in flying, MWorld(f)
    PROVE  Calm'
  <1>1. EffectsPlaced'
    <2> SUFFICES ASSUME NEW e \in Effects' PROVE Placed(e[1], e[2])'
      BY DEF EffectsPlaced
    <2>1. e \in Effects /\ e[1] \in Stages /\ e[2] \in Nat  BY DEF MWorld, Effects, Typed
    <2>2. Placed(e[1], e[2])  BY <2>1 DEF Core, Calm, EffectsPlaced
    <2> QED BY <2>1, <2>2 DEF MWorld, Placed, Moves, Same, St, Mut, Att, Busy
  <1>2. InTheAir'
    BY DEF Calm, InTheAir, MWorld
  <1>3. EffectAtMostOnce'
    BY DEF Calm, EffectAtMostOnce, MWorld
  <1>4. RetriesLeaveNothing'
    <2>1. Effects' \subseteq Effects /\ retries' = retries  BY DEF Effects, MWorld
    <2>2. \A r \in retries : <<r.stage, r.attempt>> \notin Effects
      BY DEF Core, Calm, RetriesLeaveNothing, Effects
    <2>3. \A r \in retries' : <<r.stage, r.attempt>> \notin Effects'  BY <2>1, <2>2
    <2> QED BY <2>3 DEF RetriesLeaveNothing, Effects
  <1> QED BY <1>1, <1>2, <1>3, <1>4 DEF Calm

LEMMA MClaimCalm ==
    ASSUME Typed, Typed', Core, Calm, Patient, NEW s \in Stages, MClaim(s)
    PROVE  Calm'
  <1>1. EffectsPlaced'
    <2> SUFFICES ASSUME NEW e \in Effects' PROVE Placed(e[1], e[2])'
      BY DEF EffectsPlaced
    <2>1. e \in Effects /\ e[1] \in Stages /\ e[2] \in Nat  BY DEF MClaim, Effects, Typed
    <2>2. Placed(e[1], e[2])  BY <2>1 DEF Core, Calm, EffectsPlaced
    <2> QED BY <2>1, <2>2, StageMoves DEF MClaim, Placed, Moves, Same, St, Mut, Att,
               Busy, MayIntend, Core, PendingSettled, Unsettled
  <1>2. InTheAir'
    BY DEF Calm, InTheAir, MClaim
  <1>3. EffectAtMostOnce'
    BY DEF Calm, EffectAtMostOnce, MClaim
  <1>4. RetriesLeaveNothing'
    <2> SUFFICES ASSUME NEW r \in retries', <<r.stage, r.attempt>> \in Effects PROVE FALSE
      BY DEF RetriesLeaveNothing, MClaim, Effects
    <2>1. r \notin retries  BY DEF Core, Calm, RetriesLeaveNothing, Effects
    <2>2. St(s) = "claimed" /\ Mut(s) \notin Unsettled /\ r.stage = s /\ r.attempt = Att(s)
      BY <2>1 DEF MClaim, Receipted
    <2>3. Placed(r.stage, r.attempt)
      <3>1. <<r.stage, r.attempt>>[1] = r.stage /\ <<r.stage, r.attempt>>[2] = r.attempt
        OBVIOUS
      <3> QED BY <3>1 DEF Core, Calm, EffectsPlaced
    <2> QED BY <2>2, <2>3, StageMoves DEF Placed, Core, ClaimedKnown, Unsettled,
               Quiet, MayIntend, MutationStates
  <1> QED BY <1>1, <1>2, <1>3, <1>4 DEF Calm

LEMMA MFailCalm ==
    ASSUME Typed, Typed', Core, Calm, Patient, NEW s \in Stages, NEW m \in MutationStates, MFail(s, m)
    PROVE  Calm'
  <1>1. EffectsPlaced'
    <2> SUFFICES ASSUME NEW e \in Effects' PROVE Placed(e[1], e[2])'
      BY DEF EffectsPlaced
    <2>1. e \in Effects /\ e[1] \in Stages /\ e[2] \in Nat  BY DEF MFail, Effects, Typed
    <2>2. Placed(e[1], e[2])  BY <2>1 DEF Core, Calm, EffectsPlaced
    <2> QED BY <2>1, <2>2 DEF MFail, Placed, Moves, Same, St, Mut, Att, NoEffect
  <1>2. InTheAir'
    BY DEF Calm, InTheAir, MFail
  <1>3. EffectAtMostOnce'
    BY DEF Calm, EffectAtMostOnce, MFail
  <1>4. RetriesLeaveNothing'
    BY DEF Calm, RetriesLeaveNothing, MFail
  <1> QED BY <1>1, <1>2, <1>3, <1>4 DEF Calm

LEMMA MShelveCalm ==
    ASSUME Typed, Typed', Core, Calm, Patient, NEW s \in Stages, NEW m \in MutationStates, MShelve(s, m)
    PROVE  Calm'
  <1>1. EffectsPlaced'
    <2> SUFFICES ASSUME NEW e \in Effects' PROVE Placed(e[1], e[2])'
      BY DEF EffectsPlaced
    <2>1. e \in Effects /\ e[1] \in Stages /\ e[2] \in Nat  BY DEF MShelve, Effects, Typed
    <2>2. Placed(e[1], e[2])  BY <2>1 DEF Core, Calm, EffectsPlaced
    <2> QED BY <2>1, <2>2 DEF MShelve, Placed, Moves, Same, St, Mut, Att, Quiet,
               MayIntend
  <1>2. InTheAir'
    BY DEF Calm, InTheAir, MShelve
  <1>3. EffectAtMostOnce'
    BY DEF Calm, EffectAtMostOnce, MShelve
  <1>4. RetriesLeaveNothing'
    BY DEF Calm, RetriesLeaveNothing, MShelve
  <1> QED BY <1>1, <1>2, <1>3, <1>4 DEF Calm

LEMMA MMarkCalm ==
    ASSUME Typed, Typed', Core, Calm, Patient, NEW s \in Stages, NEW m \in MutationStates, MMark(s, m)
    PROVE  Calm'
  <1>1. EffectsPlaced'
    <2> SUFFICES ASSUME NEW e \in Effects' PROVE Placed(e[1], e[2])'
      BY DEF EffectsPlaced
    <2>1. e \in Effects /\ e[1] \in Stages /\ e[2] \in Nat  BY DEF MMark, Effects, Typed
    <2>2. Placed(e[1], e[2])  BY <2>1 DEF Core, Calm, EffectsPlaced
    <2> QED BY <2>1, <2>2 DEF MMark, Placed, Moves, Same, St, Mut, Att, Busy, Quiet,
               MayIntend
  <1>2. InTheAir'
    BY DEF Calm, InTheAir, MMark
  <1>3. EffectAtMostOnce'
    BY DEF Calm, EffectAtMostOnce, MMark
  <1>4. RetriesLeaveNothing'
    BY DEF Calm, RetriesLeaveNothing, MMark
  <1> QED BY <1>1, <1>2, <1>3, <1>4 DEF Calm

LEMMA MSendCalm ==
    ASSUME Typed, Typed', Core, Calm, Patient, NEW s \in Stages, MSend(s)
    PROVE  Calm'
  <1>1. EffectsPlaced'
    <2> SUFFICES ASSUME NEW e \in Effects' PROVE Placed(e[1], e[2])'
      BY DEF EffectsPlaced
    <2>1. e \in Effects \/ e = <<s, Att(s)>>  BY DEF MSend, Effects
    <2>2. CASE e = <<s, Att(s)>>
      BY <2>2, StageMoves DEF MSend, Placed, Moves, Mut, Att, Quiet, MayIntend
    <2>3. CASE e \in Effects
      <3>1. e[1] \in Stages /\ Placed(e[1], e[2])
        BY <2>3 DEF Core, Calm, EffectsPlaced, Effects, Typed
      <3> QED BY <3>1 DEF MSend, Placed, Moves, Same, St, Mut, Att, Quiet
    <2> QED BY <2>1, <2>2, <2>3
  <1>2. InTheAir'
    <2>1. \A e \in Effects : e[1] # s
      BY DEF Core, Calm, EffectsPlaced, Placed, MSend, Quiet, MayIntend
    <2> QED BY <2>1 DEF Core, Calm, InTheAir, MSend, Effects
  <1>3. EffectAtMostOnce'
    <2>1. \A e \in Effects : e[1] # s
      BY DEF Core, Calm, EffectsPlaced, Placed, MSend, Quiet, MayIntend
    <2>2. Effects' = Effects \cup {<<s, Att(s)>>}  BY DEF Effects, MSend
    <2> QED BY <2>1, <2>2 DEF Core, Calm, EffectAtMostOnce, Effects
  <1>4. RetriesLeaveNothing'
    <2>1. \A r \in retries : <<r.stage, r.attempt>> # <<s, Att(s)>>
      BY StageMoves DEF Core, RetriesPlaced, Over, Busy, MSend
    <2> QED BY <2>1 DEF Core, Calm, RetriesLeaveNothing, MSend
  <1> QED BY <1>1, <1>2, <1>3, <1>4 DEF Calm

LEMMA MSettleCalm ==
    ASSUME Typed, Typed', Core, Calm, Patient, NEW s \in Stages, NEW m \in MutationStates, NEW st \in StageStates, MSettle(s, m, st)
    PROVE  Calm'
  <1>1. EffectsPlaced'
    <2> SUFFICES ASSUME NEW e \in Effects' PROVE Placed(e[1], e[2])'
      BY DEF EffectsPlaced
    <2>1. e \in Effects /\ e[1] \in Stages /\ e[2] \in Nat  BY DEF MSettle, Effects, Typed
    <2>2. Placed(e[1], e[2])  BY <2>1 DEF Core, Calm, EffectsPlaced
    <2> QED BY <2>1, <2>2 DEF MSettle, Placed, Moves, Same, St, Mut, Att, Quiet,
               MayIntend, NoEffect
  <1>2. InTheAir'
    BY DEF Calm, InTheAir, MSettle
  <1>3. EffectAtMostOnce'
    BY DEF Calm, EffectAtMostOnce, MSettle
  <1>4. RetriesLeaveNothing'
    <2> SUFFICES ASSUME NEW r \in retries', <<r.stage, r.attempt>> \in Effects PROVE FALSE
      BY DEF RetriesLeaveNothing, MSettle, Effects
    <2>1. r \notin retries  BY DEF Core, Calm, RetriesLeaveNothing, Effects
    <2>2. NoEffect(s) /\ r.stage = s  BY <2>1 DEF MSettle, Receipted
    <2> QED BY <2>2 DEF NoEffect
  <1> QED BY <1>1, <1>2, <1>3, <1>4 DEF Calm

LEMMA MDoneCalm ==
    ASSUME Typed, Typed', Core, Calm, Patient, NEW s \in Stages, MDone(s)
    PROVE  Calm'
  <1>1. EffectsPlaced'
    <2> SUFFICES ASSUME NEW e \in Effects' PROVE Placed(e[1], e[2])'
      BY DEF EffectsPlaced
    <2>1. e \in Effects /\ e[1] \in Stages /\ e[2] \in Nat  BY DEF MDone, Effects, Typed
    <2>2. Placed(e[1], e[2])  BY <2>1 DEF Core, Calm, EffectsPlaced
    <2> QED BY <2>1, <2>2 DEF MDone, Placed, Moves, Same, St, Mut, Att, Busy
  <1>2. InTheAir'
    BY DEF Calm, InTheAir, MDone
  <1>3. EffectAtMostOnce'
    BY DEF Calm, EffectAtMostOnce, MDone
  <1>4. RetriesLeaveNothing'
    BY DEF Calm, RetriesLeaveNothing, MDone
  <1> QED BY <1>1, <1>2, <1>3, <1>4 DEF Calm

LEMMA MCloseCalm ==
    ASSUME Typed, Typed', Core, Calm, Patient, NEW st \in StageStates, MClose(st)
    PROVE  Calm'
  <1>1. EffectsPlaced'
    BY StageMoves, PlanAssumption DEF Core, Calm, EffectsPlaced, Placed, Effects,
       Quiet, MayIntend, Busy, MClose, Moves, Same, Closes, St, Mut, Att, Stages,
       Typed, Unsettled, Ambiguous, NotApplied, NoEffect, Frontier, Retry
  <1>2. InTheAir'
    BY DEF Calm, InTheAir, MClose
  <1>3. EffectAtMostOnce'
    BY DEF Calm, EffectAtMostOnce, MClose
  <1>4. RetriesLeaveNothing'
    <2> SUFFICES ASSUME NEW r \in retries', <<r.stage, r.attempt>> \in Effects PROVE FALSE
      BY DEF RetriesLeaveNothing, MClose, Effects
    <2>1. r \notin retries  BY DEF Core, Calm, RetriesLeaveNothing, Effects
    <2>2. \E s \in Stages : /\ St(s) = "claimed" /\ Mut(s) \notin Ambiguous
                           /\ r.stage = s /\ r.attempt = Att(s)
      BY <2>1 DEF MClose, Receipted
    <2>3. Placed(r.stage, r.attempt)
      <3>1. <<r.stage, r.attempt>>[1] = r.stage /\ <<r.stage, r.attempt>>[2] = r.attempt
        OBVIOUS
      <3> QED BY <3>1 DEF Core, Calm, EffectsPlaced
    <2> QED BY <2>2, <2>3, StageMoves DEF Placed, Unsettled, Ambiguous, Quiet,
               MayIntend, MutationStates
  <1> QED BY <1>1, <1>2, <1>3, <1>4 DEF Calm

LEMMA MoveSafe == ASSUME Typed, Typed', Safe, Move PROVE Safe'
  <1>1. Core'
    BY MIdleCore, MWorldCore, MClaimCore, MFailCore, MShelveCore, MMarkCore,
     MSendCore, MSettleCore, MDoneCore, MCloseCore
    DEF Move, Safe
  <1>2. ASSUME Patient PROVE Calm'
    BY <1>2, MIdleCalm, MWorldCalm, MClaimCalm, MFailCalm, MShelveCalm, MMarkCalm,
     MSendCalm, MSettleCalm, MDoneCalm, MCloseCalm
    DEF Move, Safe
  <1> QED BY <1>1, <1>2 DEF Safe

-----------------------------------------------------------------------------
(* Every step is a move. *)
LEMMA RetryMoves ==
    ASSUME Typed, NEW s \in Stages, NEW why \in Reasons, NEW row \in Row, NEW lost \in Row,
           ConsumeRetry(s, why, row, lost), lost.attempt = Att(s)
    PROVE  \/ /\ Moves(s, row.st, row.mut, row.attempt) /\ Receipted(s) /\ status' = status
           \/ /\ Moves(s, "failed", lost.mut, Att(s)) /\ retries' = retries
              /\ status' = "failed"
  <1> DEFINE end == [lost EXCEPT !.st = "failed"]
  <1>1. end \in Row /\ end.st = "failed" /\ end.mut = lost.mut /\ end.attempt = Att(s)
    BY DEF Row, StageStates
  <1>2. CASE RetryLeft(s)
    <2>1. Receipted(s)  BY <1>2 DEF ConsumeRetry, Receipted, Att
    <2> QED BY <1>2, <2>1, RowMoves DEF ConsumeRetry
  <1>3. CASE ~RetryLeft(s)
    <2>1. stage' = [stage EXCEPT ![s] = end] /\ retries' = retries /\ status' = "failed"
      BY <1>3 DEF ConsumeRetry
    <2> HIDE DEF end
    <2>2. Moves(s, end.st, end.mut, end.attempt)  BY <1>1, <2>1, RowMoves
    <2> QED BY <1>1, <2>1, <2>2
  <1> QED BY <1>2, <1>3

LEMMA ClaimsMove ==
    ASSUME Typed, NEW w \in Workers, NEW s \in Stages, ClaimPending(w, s) \/ ClaimExpired(w, s)
    PROVE  Move
  <1>1. stage[s] \in Row /\ Att(s) \in Nat  BY StageMoves
  <1> DEFINE row == Leased(s, w)
  <1>2. /\ row \in Row /\ row.st = "claimed" /\ row.mut = Mut(s) /\ row.attempt = Att(s) + 1
    <2>1. stage[s].attempt + 1 \in Nat  BY <1>1 DEF Att
    <2> QED BY <1>1, <2>1 DEF Leased, Row, StageStates, Mut, Att
  <1> HIDE DEF row
  <1>3. CASE ClaimPending(w, s)
    <2>1. stage' = [stage EXCEPT ![s] = row]  BY <1>3 DEF ClaimPending, row
    <2>2. Moves(s, "claimed", Mut(s), Att(s) + 1)  BY <1>2, <2>1, RowMoves
    <2>3. MClaim(s)
      BY <1>3, <2>2 DEF ClaimPending, MClaim, Runnable, plan, books, world, St
    <2> QED BY <2>3 DEF Move
  <1>4. CASE ClaimExpired(w, s)
    <2>1. ConsumeRetry(s, "lease_expired", row, stage[s])  BY <1>4 DEF ClaimExpired, row
    <2>2. stage[s].mut = Mut(s) /\ stage[s].attempt = Att(s)  BY DEF Mut, Att
    <2>3. \/ /\ Moves(s, "claimed", Mut(s), Att(s) + 1) /\ Receipted(s) /\ status' = status
          \/ /\ Moves(s, "failed", Mut(s), Att(s)) /\ retries' = retries
             /\ status' = "failed"
      BY <1>1, <1>2, <2>1, <2>2, RetryMoves DEF Reasons
    <2>4. MClaim(s) \/ MFail(s, Mut(s))
      BY <1>4, <2>3 DEF ClaimExpired, MClaim, MFail, Runnable, world, St, Mut, Busy
    <2> QED BY <2>4, StageMoves DEF Move
  <1> QED BY <1>3, <1>4

LEMMA ShelveMoves == ASSUME Typed, NEW s \in Stages, ShelveExpired(s) PROVE Move
  <1> DEFINE row == Released(stage[s], "awaiting_reconciliation")
  <1>1. /\ row \in Row /\ row.st = "awaiting_reconciliation"
        /\ row.mut = Mut(s) /\ row.attempt = Att(s)
    BY StageMoves DEF Released, Row, StageStates, Mut, Att
  <1> HIDE DEF row
  <1>2. stage' = [stage EXCEPT ![s] = row]  BY DEF ShelveExpired, row
  <1>3. Moves(s, "awaiting_reconciliation", Mut(s), Att(s))  BY <1>1, <1>2, RowMoves
  <1>4. MShelve(s, Mut(s))
    BY <1>3 DEF ShelveExpired, MShelve, plan, books, world, St, Busy
  <1> QED BY <1>4, StageMoves DEF Move

LEMMA ReserveMoves == ASSUME Typed, NEW w \in Workers, NEW s \in Stages, ReserveUsage(w, s) PROVE Move
  <1> DEFINE row == [stage[s] EXCEPT !.paid = TRUE]
  <1>1. row \in Row /\ row.st = St(s) /\ row.mut = Mut(s) /\ row.attempt = Att(s)
    BY StageMoves DEF Row, St, Mut, Att
  <1>2. stage' = [stage EXCEPT ![s] = row]  BY StageMoves DEF ReserveUsage, Row, Typed
  <1> HIDE DEF row
  <1>3. \A t \in Stages : Same(t)  BY <1>1, <1>2, RowSame
  <1>4. MIdle  BY <1>3 DEF MIdle, ReserveUsage, plan, world
  <1> QED BY <1>4 DEF Move

LEMMA MutationsMove ==
    ASSUME Typed, NEW w \in Workers, NEW s \in Stages, NEW a \in Actors,
           RecordIntent(w, s, a) \/ AuthorizeEffect(w, s, a) \/ ConsumePermit(w, s, a)
    PROVE  Move
  <1>1. stage[s] \in Row  BY StageMoves
  <1>2. St(s) = "claimed" /\ status = "active"
    BY DEF RecordIntent, AuthorizeEffect, ConsumePermit, Holds, Runnable, St
  <1>3. CASE RecordIntent(w, s, a)
    <2> DEFINE row == [stage[s] EXCEPT !.mut = "intent_recorded"]
    <2>1. /\ row \in Row /\ row.st = "claimed" /\ row.mut = "intent_recorded"
          /\ row.attempt = Att(s)
      BY <1>1, <1>2 DEF Row, MutationStates, St, Att
    <2>2. stage' = [stage EXCEPT ![s] = row]  BY <1>3 DEF RecordIntent, Typed
    <2> HIDE DEF row
    <2>3. Moves(s, "claimed", "intent_recorded", Att(s))  BY <2>1, <2>2, RowMoves
    <2>4. MMark(s, "intent_recorded")
      BY <1>2, <1>3, <2>3 DEF MMark, RecordIntent, plan, world, Mut
    <2> QED BY <2>4 DEF Move, MutationStates
  <1>4. CASE AuthorizeEffect(w, s, a)
    <2> DEFINE row == [stage[s] EXCEPT !.mut = "effect_authorized", !.permit = TRUE]
    <2>1. /\ row \in Row /\ row.st = "claimed" /\ row.mut = "effect_authorized"
          /\ row.attempt = Att(s)
      BY <1>1, <1>2 DEF Row, MutationStates, St, Att
    <2>2. stage' = [stage EXCEPT ![s] = row]  BY <1>4 DEF AuthorizeEffect, Typed
    <2> HIDE DEF row
    <2>3. Moves(s, "claimed", "effect_authorized", Att(s))  BY <2>1, <2>2, RowMoves
    <2>4. MMark(s, "effect_authorized")
      BY <1>2, <1>4, <2>3 DEF MMark, AuthorizeEffect, plan, world, Mut
    <2> QED BY <2>4 DEF Move, MutationStates
  <1>5. CASE ConsumePermit(w, s, a)
    <2> DEFINE row == [stage[s] EXCEPT !.mut = "effect_in_progress", !.permit = FALSE]
    <2>1. /\ row \in Row /\ row.st = "claimed" /\ row.mut = "effect_in_progress"
          /\ row.attempt = Att(s)
      BY <1>1, <1>2 DEF Row, MutationStates, St, Att
    <2>2. stage' = [stage EXCEPT ![s] = row]  BY <1>5 DEF ConsumePermit, Typed
    <2> HIDE DEF row
    <2>3. Moves(s, "claimed", "effect_in_progress", Att(s))  BY <2>1, <2>2, RowMoves
    <2>4. MSend(s)  BY <1>2, <1>5, <2>3 DEF MSend, ConsumePermit, plan, Mut, Att
    <2> QED BY <2>4 DEF Move
  <1> QED BY <1>3, <1>4, <1>5

LEMMA CheckpointMoves ==
    ASSUME Typed, NEW w \in Workers, NEW s \in Stages, NEW a \in Actors, Checkpoint(w, s, a)
    PROVE  Move
  <1> DEFINE row == [Released(stage[s], "complete") EXCEPT !.executor = a]
  <1>1. /\ row \in Row /\ row.st = "complete" /\ row.mut = Mut(s) /\ row.attempt = Att(s)
    BY StageMoves DEF Released, Row, StageStates, Mut, Att
  <1> HIDE DEF row
  <1>2. stage' = [stage EXCEPT ![s] = row]  BY DEF Checkpoint, row
  <1>3. Moves(s, "complete", Mut(s), Att(s))  BY <1>1, <1>2, RowMoves
  <1>4. St(s) = "claimed" /\ status = "active"  BY DEF Checkpoint, Holds, Runnable, St
  <1>5. MDone(s)
    BY <1>3, <1>4 DEF Checkpoint, MDone, plan, world, Confirmed, Applied, Mut
  <1> QED BY <1>5 DEF Move

LEMMA ResultMoves ==
    ASSUME Typed, Safe, NEW w \in Workers, NEW s \in Stages, NEW a \in Actors, NEW o \in Results,
           RecordResult(w, s, a, o)
    PROVE  Move
  <1> DEFINE row == [stage[s] EXCEPT !.mut = Result(o)]
  <1>1. /\ St(s) = "claimed" /\ status = "active" /\ Mut(s) = "effect_in_progress"
        /\ hand[w] = <<s, Att(s)>> /\ Observed(hand[w], o)
    BY DEF RecordResult, Holds, TokenFits, Runnable, St, Mut, Att
  <1>2. ASSUME NEW st \in StageStates
        PROVE  /\ Released(row, st) \in Row /\ Released(row, st).st = st
               /\ Released(row, st).mut = Result(o) /\ Released(row, st).attempt = Att(s)
    BY StageMoves, States DEF Row, Released, Att
  <1>3. /\ row \in Row /\ row.st = "claimed" /\ row.mut = Result(o) /\ row.attempt = Att(s)
    BY <1>1, StageMoves, States DEF Row, Att, St
  <1>4. UNCHANGED <<checkpoints, flying, landed>> /\ Result(o) \in MutationStates
    BY States DEF RecordResult, world
  <1>5. CASE o = "uncertain"
    <2>1. /\ stage' = [stage EXCEPT ![s] = Released(row, "awaiting_reconciliation")]
          /\ UNCHANGED <<status, retries>>
      BY <1>5 DEF RecordResult
    <2>2. Moves(s, "awaiting_reconciliation", "result_uncertain", Att(s))
      BY <1>2, <1>5, <2>1, RowMoves DEF StageStates, Result
    <2>3. MShelve(s, "result_uncertain")  BY <1>1, <1>4, <2>1, <2>2 DEF MShelve, Busy
    <2> QED BY <2>3 DEF Move, MutationStates
  <1>6. CASE o = "not_applied"
    <2>1. ConsumeRetry(s, "mutation_not_applied", Released(row, "pending"), row)
      BY <1>6 DEF RecordResult
    <2>2. Result(o) = "result_not_applied"  BY <1>6 DEF Result
    <2>3. \/ /\ Moves(s, "pending", "result_not_applied", Att(s)) /\ Receipted(s)
             /\ status' = status
          \/ /\ Moves(s, "failed", "result_not_applied", Att(s)) /\ retries' = retries
             /\ status' = "failed"
      <3> HIDE DEF row
      <3>1. Released(row, "pending") \in Row  BY <1>2 DEF StageStates
      <3>2. /\ Released(row, "pending").st = "pending"
            /\ Released(row, "pending").mut = "result_not_applied"
            /\ Released(row, "pending").attempt = Att(s)
        BY <1>2, <2>2 DEF StageStates
      <3> QED BY <1>3, <2>1, <2>2, <3>1, <3>2, RetryMoves DEF Reasons
    <2>4. ASSUME Patient PROVE NoEffect(s)
      <3>1. \A e \in Effects : e[1] = s => e = <<s, Att(s)>>
        BY <1>1, <2>4 DEF Safe, Calm, EffectsPlaced, Placed, Effects, Typed
      <3>2. <<s, Att(s)>> \notin Effects  BY <1>1, <1>6 DEF Observed, Effects
      <3> QED BY <3>1, <3>2 DEF NoEffect
    <2>5. \/ MSettle(s, "result_not_applied", "pending") \/ MFail(s, "result_not_applied")
      BY <1>1, <1>4, <2>3, <2>4 DEF MSettle, MFail, Busy, NotApplied
    <2> QED BY <2>5 DEF Move, MutationStates, StageStates
  <1>7. CASE o = "applied"
    <2>1. stage' = [stage EXCEPT ![s] = row] /\ UNCHANGED <<status, retries>>
      BY <1>7 DEF RecordResult
    <2>2. Moves(s, "claimed", "result_applied", Att(s))
      <3> HIDE DEF row
      <3> QED BY <1>3, <1>7, <2>1, RowMoves DEF Result
    <2>3. Landed(s)  BY <1>1, <1>7 DEF Observed, Landed
    <2>4. MMark(s, "result_applied")  BY <1>1, <1>4, <2>1, <2>2, <2>3 DEF MMark
    <2> QED BY <2>4 DEF Move, MutationStates
  <1> QED BY <1>5, <1>6, <1>7 DEF Results

LEMMA ReconcileMoves ==
    ASSUME Typed, NEW r \in Reconcilers, NEW s \in Stages, NEW o \in Results,
           Reconcile(r, s, o)
    PROVE  Move
  <1> DEFINE row == [stage[s] EXCEPT !.mut = Reconciled(o)]
  <1>1. St(s) \in Busy /\ Truthful(s, o)  BY DEF Reconcile, St, Busy
  <1>2. ASSUME NEW st \in StageStates
        PROVE  /\ Released(row, st) \in Row /\ Released(row, st).st = st
               /\ Released(row, st).mut = Reconciled(o) /\ Released(row, st).attempt = Att(s)
    BY StageMoves, States DEF Row, Released, Att
  <1>3. row \in Row /\ row.mut = Reconciled(o) /\ row.attempt = Att(s)
    BY StageMoves, States DEF Row, Att
  <1>4. UNCHANGED <<checkpoints, flying, landed>>  BY DEF Reconcile, world
  <1>5. Resting \in StageStates /\ Resting \in {"pending", "cancelled"}
    BY DEF Resting, StageStates
  <1>6. CASE o = "applied"
    <2>1. /\ stage' = [stage EXCEPT ![s] = Released(row, Resting)]
          /\ UNCHANGED <<status, retries>>
      BY <1>6 DEF Reconcile
    <2>2. Moves(s, Resting, "reconciled_applied", Att(s))
      BY <1>2, <1>5, <1>6, <2>1, RowMoves DEF Reconciled
    <2>3. Landed(s)  BY <1>1, <1>6 DEF Truthful, EffectsOf, Landed
    <2>4. MSettle(s, "reconciled_applied", Resting)
      BY <1>1, <1>4, <1>5, <2>1, <2>2, <2>3 DEF MSettle
    <2> QED BY <1>5, <2>4 DEF Move, MutationStates
  <1>7. CASE o = "not_applied"
    <2>1. ConsumeRetry(s, "reconciliation_not_applied", Released(row, Resting), row)
      BY <1>7 DEF Reconcile
    <2>2. Reconciled(o) = "reconciled_not_applied"  BY <1>7 DEF Reconciled
    <2>3. \/ /\ Moves(s, Resting, "reconciled_not_applied", Att(s)) /\ Receipted(s)
             /\ status' = status
          \/ /\ Moves(s, "failed", "reconciled_not_applied", Att(s)) /\ retries' = retries
             /\ status' = "failed"
      <3> HIDE DEF row
      <3>1. Released(row, Resting) \in Row  BY <1>2, <1>5
      <3>2. /\ Released(row, Resting).st = Resting
            /\ Released(row, Resting).mut = "reconciled_not_applied"
            /\ Released(row, Resting).attempt = Att(s)
        BY <1>2, <1>5, <2>2
      <3> QED BY <1>3, <2>1, <2>2, <3>1, <3>2, RetryMoves DEF Reasons
    <2>4. Patient => NoEffect(s)
      BY <1>1, <1>7 DEF Truthful, EffectsOf, NoEffect, Effects
    <2>5. \/ MSettle(s, "reconciled_not_applied", Resting)
          \/ MFail(s, "reconciled_not_applied")
      BY <1>1, <1>4, <1>5, <2>3, <2>4 DEF MSettle, MFail, NotApplied
    <2> QED BY <1>5, <2>5 DEF Move, MutationStates
  <1>8. CASE o = "uncertain"
    <2>1. /\ stage' = [stage EXCEPT ![s] = Released(row, "awaiting_reconciliation")]
          /\ UNCHANGED <<status, retries>>
      BY <1>8 DEF Reconcile
    <2>2. Moves(s, "awaiting_reconciliation", "reconciled_uncertain", Att(s))
      BY <1>2, <1>8, <2>1, RowMoves DEF StageStates, Reconciled
    <2>3. MShelve(s, "reconciled_uncertain")  BY <1>1, <1>4, <2>1, <2>2 DEF MShelve
    <2> QED BY <2>3 DEF Move, MutationStates
  <1> QED BY <1>6, <1>7, <1>8 DEF Results

LEMMA ClosingCloses ==
    ASSUME Typed, NEW st \in StageStates, stage' = [t \in Stages |-> Closing(t, st)]
    PROVE  \A t \in Stages : Closes(t, st)
  <1> SUFFICES ASSUME NEW t \in Stages PROVE Closes(t, st)  OBVIOUS
  <1>1. stage'[t] = Closing(t, st) /\ stage[t] \in Row  BY DEF Typed
  <1>2. \A v \in StageStates :
          /\ Released(stage[t], v).st = v /\ Released(stage[t], v).mut = Mut(t)
          /\ Released(stage[t], v).attempt = Att(t)
    BY <1>1 DEF Released, Row, Mut, Att
  <1>3. CASE St(t) = "claimed" /\ Mut(t) \in Ambiguous
    <2>1. Closing(t, st) = Released(stage[t], "awaiting_reconciliation")
      BY <1>3 DEF Closing, St, Mut
    <2> QED BY <1>1, <1>2, <1>3, <2>1 DEF Closes, StageStates
  <1>4. CASE St(t) = "pending" \/ (St(t) = "claimed" /\ Mut(t) \notin Ambiguous)
    <2>1. Closing(t, st) = Released(stage[t], st)  BY <1>4 DEF Closing, St, Mut
    <2> QED BY <1>1, <1>2, <1>4, <2>1 DEF Closes
  <1>5. CASE St(t) \notin {"pending", "claimed"}
    <2>1. Closing(t, st) = stage[t]  BY <1>5 DEF Closing, St
    <2> QED BY <1>1, <1>5, <2>1 DEF Closes, St, Mut, Att
  <1> QED BY <1>3, <1>4, <1>5

LEMMA OperatorMoves ==
    ASSUME Typed, OperatorStep \/ (\E v \in Verifiers, p \in BOOLEAN : Verify(v, p))
    PROVE  Move
  <1>1. CASE Pause
    <2>1. \A t \in Stages : Closes(t, "pending")
      BY <1>1, ClosingCloses DEF Pause, StageStates
    <2>2. MClose("pending")  BY <1>1, <2>1 DEF Pause, MClose, books, world
    <2> QED BY <2>2 DEF Move, StageStates
  <1>2. CASE Cancel
    <2>1. \A t \in Stages : Closes(t, "cancelled")
      BY <1>2, ClosingCloses DEF Cancel, StageStates
    <2>2. MClose("cancelled")  BY <1>2, <2>1 DEF Cancel, MClose, books, world
    <2> QED BY <2>2 DEF Move, StageStates
  <1>3. CASE Resume \/ Switch
    <2>1. \A t \in Stages : Same(t)  BY <1>3 DEF Resume, Switch, Same, St, Mut, Att
    <2>2. MIdle  BY <1>3, <2>1 DEF MIdle, Resume, Switch, books, world
    <2> QED BY <2>2 DEF Move
  <1>4. ASSUME NEW s \in Stages, PauseReclaim(s) PROVE Move
    <2>1. St(s) = "claimed" /\ Mut(s) \notin Ambiguous
      BY <1>4 DEF PauseReclaim, Abandoned, St, Mut
    <2>2. CASE RetryLeft(s)
      <3>1. \A t \in Stages : Closes(t, "pending")
        BY <1>4, <2>2, ClosingCloses DEF PauseReclaim, StageStates
      <3>2. Receipted(s)  BY <1>4, <2>2 DEF PauseReclaim, Receipted, Att, Reasons
      <3>3. status \in {"active", "paused"} /\ status' = "paused"
              /\ UNCHANGED <<checkpoints, flying, landed>>
        BY <1>4, <2>2 DEF PauseReclaim, world
      <3>4. MClose("pending")  BY <2>1, <3>1, <3>2, <3>3 DEF MClose
      <3> QED BY <3>4 DEF Move, StageStates
    <2>3. CASE ~RetryLeft(s)
      <3> DEFINE row == [stage[s] EXCEPT !.st = "failed"]
      <3>1. row \in Row /\ row.st = "failed" /\ row.mut = Mut(s) /\ row.attempt = Att(s)
        BY StageMoves DEF Row, StageStates, Mut, Att
      <3>2. stage' = [stage EXCEPT ![s] = row]  BY <1>4, <2>3 DEF PauseReclaim, Typed
      <3> HIDE DEF row
      <3>3. Moves(s, "failed", Mut(s), Att(s))  BY <3>1, <3>2, RowMoves
      <3>4. MFail(s, Mut(s))  BY <1>4, <2>1, <2>3, <3>3 DEF PauseReclaim, MFail, Busy, world
      <3> QED BY <3>4, StageMoves DEF Move
    <2> QED BY <2>2, <2>3
  <1>5. ASSUME NEW v \in Verifiers, NEW p \in BOOLEAN, Verify(v, p) PROVE Move
    <2>1. \A t \in Stages : Same(t) /\ St(t) = "complete"
      BY <1>5 DEF Verify, Same, St, Mut, Att
    <2>2. MIdle  BY <1>5, <2>1 DEF MIdle, Verify, world
    <2> QED BY <2>2 DEF Move
  <1> QED BY <1>1, <1>2, <1>3, <1>4, <1>5 DEF OperatorStep

LEMMA PassingMoves == ASSUME Typed, Passing PROVE Move
  <1>1. CASE TimeRunsOut
    <2>1. \A t \in Stages : Same(t)  BY <1>1 DEF TimeRunsOut, Same, St, Mut, Att
    <2>2. MIdle  BY <1>1, <2>1 DEF MIdle, TimeRunsOut, books, world
    <2> QED BY <2>2 DEF Move
  <1>2. ASSUME NEW e \in flying, Land(e) \/ Lose(e) PROVE Move
    <2>1. \A t \in Stages : Same(t)  BY <1>2 DEF Land, Lose, Same, St, Mut, Att
    <2>2. MWorld(e)  BY <1>2, <2>1 DEF MWorld, Land, Lose, plan, books
    <2> QED BY <2>2 DEF Move
  <1>3. ASSUME NEW s \in Stages, LeaseLapses(s) PROVE Move
    <2> DEFINE row == [stage[s] EXCEPT !.live = FALSE]
    <2>1. row \in Row /\ row.st = St(s) /\ row.mut = Mut(s) /\ row.attempt = Att(s)
      BY StageMoves DEF Row, St, Mut, Att
    <2>2. stage' = [stage EXCEPT ![s] = row]  BY <1>3 DEF LeaseLapses, Typed
    <2> HIDE DEF row
    <2>3. \A t \in Stages : Same(t)  BY <2>1, <2>2, RowSame
    <2>4. MIdle  BY <1>3, <2>3 DEF MIdle, LeaseLapses, plan, books, world
    <2> QED BY <2>4 DEF Move
  <1>4. ASSUME NEW s \in Stages, PermitLapses(s) PROVE Move
    <2> DEFINE row == [stage[s] EXCEPT !.permit = FALSE]
    <2>1. row \in Row /\ row.st = St(s) /\ row.mut = Mut(s) /\ row.attempt = Att(s)
      BY StageMoves DEF Row, St, Mut, Att
    <2>2. stage' = [stage EXCEPT ![s] = row]  BY <1>4 DEF PermitLapses, Typed
    <2> HIDE DEF row
    <2>3. \A t \in Stages : Same(t)  BY <2>1, <2>2, RowSame
    <2>4. MIdle  BY <1>4, <2>3 DEF MIdle, PermitLapses, plan, books, world
    <2> QED BY <2>4 DEF Move
  <1> QED BY <1>1, <1>2, <1>3, <1>4 DEF Passing

LEMMA NextMoves == ASSUME Typed, Safe, [Next]_vars PROVE Move
  <1>1. CASE UNCHANGED vars
    <2>1. \A t \in Stages : Same(t)  BY <1>1 DEF vars, Same, St, Mut, Att
    <2>2. MIdle  BY <1>1, <2>1 DEF MIdle, vars
    <2> QED BY <2>2 DEF Move
  <1>2. ASSUME NEW w \in Workers, NEW s \in Stages, WorkerStep(w, s) PROVE Move
    BY <1>2, ClaimsMove, ReserveMoves, MutationsMove, CheckpointMoves, ResultMoves
    DEF WorkerStep
  <1> QED BY <1>1, <1>2, ShelveMoves, ReconcileMoves, OperatorMoves, PassingMoves DEF Next

-----------------------------------------------------------------------------
LEMMA SafeInit == Init => Safe
  <1> SUFFICES ASSUME Init PROVE Safe  OBVIOUS
  <1>1. \A s \in Stages : St(s) = "pending" /\ Mut(s) = "none"
    BY DEF Init, NewStage, St, Mut
  <1>2. flying = {} /\ landed = {} /\ retries = {} /\ Len(checkpoints) = 0 /\ status = "active"
    BY DEF Init
  <1>3. PendingSettled /\ ClaimedKnown /\ AppliedLanded /\ BusyInOrder
    BY <1>1 DEF PendingSettled, ClaimedKnown, AppliedLanded, BusyInOrder, Busy, Applied,
       MayIntend
  <1>4. EffectsPlaced /\ RetriesPlaced /\ InTheAir /\ EffectAtMostOnce /\ RetriesLeaveNothing
          /\ NoClaimOutlivesThePlan
    BY <1>2 DEF EffectsPlaced, RetriesPlaced, InTheAir, EffectAtMostOnce,
       RetriesLeaveNothing, NoClaimOutlivesThePlan, Effects
  <1>5. PrefixDone  BY <1>1, <1>2, PlanAssumption DEF PrefixDone, Stages
  <1>6. CompleteIsDone  BY <1>2 DEF CompleteIsDone
  <1> QED BY <1>3, <1>4, <1>5, <1>6 DEF Safe, Core, Calm

LEMMA SafeStep == Typed /\ Safe /\ [Next]_vars => Typed' /\ Safe'
  BY TypedStep, NextMoves, MoveSafe

\* Whatever reconcilers do: a plan that is paused, cancelled, failed or complete
\* leaves no stage claimed.
THEOREM PlanLeavesNoClaim == Spec => []NoClaimOutlivesThePlan
  <1>1. Safe => NoClaimOutlivesThePlan  BY DEF Safe, Core
  <1> QED BY <1>1, TypedInit, SafeInit, SafeStep, PTL DEF Spec

\* Whatever the number of stages, workers, retries and budgets, a stage's effect
\* takes place at most once. The one assumption is that reconcilers wait for an
\* effect that is still in flight.
THEOREM PlanIsSafe == ASSUME Patient PROVE Spec => []EffectAtMostOnce
  <1>1. Safe => EffectAtMostOnce  BY DEF Safe, Calm
  <1> QED BY <1>1, TypedInit, SafeInit, SafeStep, PTL DEF Spec

\* With the same reconcilers, a retry receipt stands for an attempt that left
\* nothing in the world.
THEOREM PlanRetriesCleanly == ASSUME Patient PROVE Spec => []RetriesLeaveNothing
  <1>1. Safe => RetriesLeaveNothing  BY DEF Safe, Calm
  <1> QED BY <1>1, TypedInit, SafeInit, SafeStep, PTL DEF Spec

-----------------------------------------------------------------------------
(* The plan implements the stage ledger: each move is a ledger step or leaves  *)
(* the ledger as it is.                                                        *)
LEMMA EffectStays == ASSUME UNCHANGED <<flying, landed>>, NEW s
                     PROVE  EffectState(s)' = EffectState(s)
  BY DEF EffectState, EffectsOf

LEMMA LedgerStays ==
    ASSUME UNCHANGED <<flying, landed, checkpoints>>, PlanOutcome' = PlanOutcome
    PROVE  UNCHANGED Ledger!ledger
  BY EffectStays DEF Ledger!ledger

LEMMA LedgerStops ==
    ASSUME UNCHANGED <<flying, landed, checkpoints>>,
           PlanOutcome = "open", PlanOutcome' \in {"open", "ended"}
    PROVE  [Ledger!Next]_(Ledger!ledger)
  <1>1. CASE PlanOutcome' = "open"  BY <1>1, LedgerStays
  <1>2. CASE PlanOutcome' = "ended"
    <2>1. Ledger!Stop  BY <1>2, EffectStays DEF Ledger!Stop
    <2> QED BY <2>1 DEF Ledger!Next
  <1> QED BY <1>1, <1>2

LEMMA LedgerEnds ==
    ASSUME Typed, Core, Calm, (\E s \in Stages, m \in MutationStates : MFail(s, m))
                          \/ (\E st \in StageStates : MClose(st)) \/ MIdle
    PROVE  [Ledger!Next]_(Ledger!ledger)
  <1>1. CASE \E s \in Stages, m \in MutationStates : MFail(s, m)
    <2>1. UNCHANGED <<flying, landed, checkpoints>> /\ status' = "failed"
      BY <1>1 DEF MFail
    <2>2. CASE status \in {"active", "paused"}
      BY <2>1, <2>2, LedgerStops DEF PlanOutcome
    <2>3. CASE status \in {"failed", "cancelled"}
      BY <2>1, <2>3, LedgerStays DEF PlanOutcome
    <2>4. status # "complete"
      BY <1>1 DEF MFail, Core, Calm, CompleteIsDone, Busy
    <2> QED BY <2>2, <2>3, <2>4 DEF Typed, PlanStates
  <1>2. CASE \E st \in StageStates : MClose(st)
    BY <1>2, LedgerStops DEF MClose, PlanOutcome
  <1>3. CASE MIdle
    <2>1. UNCHANGED <<flying, landed, checkpoints>>  BY <1>3 DEF MIdle
    <2>2. CASE status' = status \/ (status = "paused" /\ status' = "active")
      BY <2>1, <2>2, LedgerStays DEF PlanOutcome
    <2>3. CASE status = "active" /\ status' = "complete" /\ \A t \in Stages : St(t) = "complete"
      <3>1. Len(checkpoints) = N
        BY <2>3, PlanAssumption DEF Core, Calm, PrefixDone, Stages, Typed
      <3>2. Ledger!Complete
        BY <2>1, <2>3, <3>1, EffectStays DEF Ledger!Complete, PlanOutcome
      <3> QED BY <3>2 DEF Ledger!Next
    <2> QED BY <1>3, <2>2, <2>3 DEF MIdle
  <1> QED BY <1>1, <1>2, <1>3

LEMMA LedgerWorld ==
    ASSUME Typed, Typed', Core, Calm, NEW e \in flying, MWorld(e)
    PROVE  [Ledger!Next]_(Ledger!ledger)
  <1> DEFINE s == e[1]
  <1>1. s \in 1..N  BY DEF Typed, Stages
  <1>2. e \notin landed /\ \A f \in flying \cup landed : f[1] = s => f = e
    BY DEF Core, Calm, InTheAir, EffectAtMostOnce
  <1>3. \A t \in Stages \ {s} : EffectState(t)' = EffectState(t)
    BY DEF EffectState, EffectsOf, MWorld
  <1>4. EffectState(s) = "sent" /\ EffectState(s)' = IF e \in landed' THEN "landed" ELSE "absent"
    <2>1. EffectsOf(s, landed) = {} /\ e \in EffectsOf(s, flying)
      BY <1>2 DEF EffectsOf
    <2>2. EffectsOf(s, flying') = {} /\ (EffectsOf(s, landed') # {} <=> e \in landed')
      BY <1>2, <2>1 DEF EffectsOf, MWorld
    <2> QED BY <2>1, <2>2 DEF EffectState
  <1>5. Len(checkpoints)' = Len(checkpoints) /\ PlanOutcome' = PlanOutcome
    BY DEF MWorld, PlanOutcome
  <1> HIDE DEF s
  <1>6. CASE e \in landed'
    <2>1. Ledger!Land(s)  BY <1>1, <1>3, <1>4, <1>5, <1>6 DEF Ledger!Land, Stages
    <2> QED BY <1>1, <2>1 DEF Ledger!Next
  <1>7. CASE e \notin landed'
    <2>1. Ledger!Lose(s)  BY <1>1, <1>3, <1>4, <1>5, <1>7 DEF Ledger!Lose, Stages
    <2> QED BY <1>1, <2>1 DEF Ledger!Next
  <1> QED BY <1>6, <1>7

LEMMA LedgerSend ==
    ASSUME Typed, Core, Calm, NEW s \in Stages, MSend(s)
    PROVE  [Ledger!Next]_(Ledger!ledger)
  <1>1. s \in 1..N /\ s \in Nat /\ Len(checkpoints) \in Nat  BY PlanAssumption DEF Stages, Typed
  <1>2. NoEffect(s)
    BY DEF Core, Calm, EffectsPlaced, Placed, Quiet, NoEffect, MSend
  <1>3. \A t \in Stages \ {s} : EffectState(t)' = EffectState(t)
    BY DEF EffectState, EffectsOf, MSend
  <1>4. EffectState(s) = "absent" /\ EffectState(s)' = "sent"
    <2>1. EffectsOf(s, landed) = {} /\ EffectsOf(s, flying) = {}
      BY <1>2 DEF EffectsOf, NoEffect, Effects
    <2>2. <<s, Att(s)>> \in EffectsOf(s, flying')  BY DEF EffectsOf, MSend
    <2>3. landed' = landed  BY DEF MSend
    <2> QED BY <2>1, <2>2, <2>3 DEF EffectState
  <1>5. s = Len(checkpoints) + 1
    <2>1. \A t \in Stages : t < s => t <= Len(checkpoints)
      BY DEF Core, Calm, PrefixDone, BusyInOrder, Busy, MSend
    <2>2. ~(s <= Len(checkpoints))  BY DEF Core, Calm, PrefixDone, MSend
    <2>3. s = 1 \/ s - 1 \in Stages  BY <1>1, PlanAssumption DEF Stages
    <2> QED BY <1>1, <2>1, <2>2, <2>3
  <1>6. Ledger!Send(s)
    BY <1>1, <1>3, <1>4, <1>5 DEF Ledger!Send, MSend, PlanOutcome, Stages
  <1> QED BY <1>1, <1>6 DEF Ledger!Next

LEMMA LedgerDone ==
    ASSUME Typed, Core, Calm, NEW s \in Stages, MDone(s)
    PROVE  [Ledger!Next]_(Ledger!ledger)
  <1>1. s \in 1..N /\ Len(checkpoints) \in Nat /\ N \in Nat  BY PlanAssumption DEF Stages, Typed
  <1>2. Len(checkpoints') = Len(checkpoints) + 1  BY DEF MDone, Typed
  <1>3. s \in Mutating => EffectState(s) = "landed"
    <2>1. s \in Mutating => \E e \in landed : e[1] = s
      BY DEF Core, Calm, AppliedLanded, Landed, MDone
    <2> QED BY <2>1 DEF EffectState, EffectsOf
  <1>4. s = Len(checkpoints) + 1 /\ UNCHANGED <<flying, landed>> /\ PlanOutcome = "open"
          /\ PlanOutcome' = "open"
    BY DEF MDone, PlanOutcome
  <1>5. Ledger!Finish
    BY <1>1, <1>2, <1>3, <1>4, EffectStays DEF Ledger!Finish, Stages
  <1> QED BY <1>5 DEF Ledger!Next

LEMMA LedgerStep == ASSUME Typed, Typed', Core, Calm, Move PROVE [Ledger!Next]_(Ledger!ledger)
  <1>1. ASSUME NEW s \in Stages, NEW m \in MutationStates, NEW st \in StageStates,
               MClaim(s) \/ MShelve(s, m) \/ MMark(s, m) \/ MSettle(s, m, st)
        PROVE  [Ledger!Next]_(Ledger!ledger)
    <2>1. UNCHANGED <<flying, landed, checkpoints>> /\ status' = status
      BY <1>1 DEF MClaim, MShelve, MMark, MSettle
    <2> QED BY <2>1, LedgerStays DEF PlanOutcome
  <1>2. ASSUME NEW s \in Stages, NEW m \in MutationStates, MClaim(s) \/ MShelve(s, m) \/ MMark(s, m)
        PROVE  [Ledger!Next]_(Ledger!ledger)
    BY <1>1, <1>2 DEF StageStates
  <1>3. ASSUME NEW s \in Stages, MClaim(s) PROVE [Ledger!Next]_(Ledger!ledger)
    BY <1>2, <1>3 DEF MutationStates
  <1> QED BY <1>1, <1>2, <1>3, LedgerEnds, LedgerWorld, LedgerSend, LedgerDone DEF Move

LEMMA LedgerInit == Init => Ledger!Init
  BY DEF Init, Ledger!Init, EffectState, EffectsOf, PlanOutcome, Stages

\* For every plan, workforce and budget: leases, receipts, retries, signed
\* reconciliation and controls implement the abstract stage ledger.
THEOREM PlanKeepsLedger == ASSUME Patient PROVE Spec => KeepsLedger
  <1>1. Typed /\ Safe /\ [Next]_vars => [Ledger!Next]_(Ledger!ledger)
    BY NextMoves, LedgerStep, TypedStep DEF Safe
  <1> QED BY <1>1, TypedInit, SafeInit, SafeStep, LedgerInit, PTL
          DEF Spec, KeepsLedger, Ledger!Spec
====

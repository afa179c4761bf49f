---- MODULE LongHorizonBooksProofs ----
(* The books of a workflow plan: what was charged, retried, checkpointed and    *)
(* verified adds up in every plan, for any stages, workers and budgets.         *)
EXTENDS LongHorizonProofs, FiniteSetTheorems

Intended == {"intent_recorded", "effect_authorized"}
\* A row that says it is paid has its reservation, and no intent is unpaid.
PaidRow(s) == /\ stage[s].paid => <<s, Att(s)>> \in reserved
              /\ St(s) = "claimed" /\ Mut(s) \in Intended => stage[s].paid
Paid == \A s \in Stages : PaidRow(s)
\* A stage that is back in the queue has answered for its last attempt.
Answered(s, g) == RetriedAt(s, g) \/ AppliedAt(s, g)
Settled == \A s \in Stages :
    /\ \A g \in 1..(Att(s) - 1) : Answered(s, g)
    /\ St(s) = "pending" /\ Att(s) > 0 => Answered(s, Att(s))
Finite == IsFiniteSet(retries) /\ IsFiniteSet(reserved)
ReservedOf(s) == {r \in reserved : r[1] = s}

Accounts == /\ Paid /\ Settled /\ Finite
            /\ OneStageAtATime /\ WorkIsCharged /\ CompletionIsEarned

(* What a step writes in the books. *)
Entry(s) == \E r \in Receipt : receipts' = [receipts EXCEPT ![s] = Append(@, r)]
Charge(s) == /\ reserved' = reserved \cup {<<s, Att(s)>>}
             /\ Cardinality(ReservedOf(s)) + 1 <= StageBudget
             /\ Cardinality(reserved) + 1 <= PlanBudget
ReceiptsGrow == receipts' = receipts \/ \E s \in Stages : St(s) \in Busy /\ Entry(s)
ChargesGrow == reserved' = reserved \/ \E s \in Stages : St(s) = "claimed" /\ Charge(s)
RetriesGrow == \/ retries' = retries
               \/ \E s \in Stages : /\ Receipted(s) /\ Cardinality(retries) + 1 <= PlanRetries
PaidChecks == \/ checkpoints' = checkpoints
              \/ \E s \in Stages : checkpoints' = Append(checkpoints, s) /\ stage[s].paid
PutBackAnswered == \A s \in Stages :
    St(s) \in Busy /\ stage'[s].st = "pending" => Answered(s, Att(s))'
Books == ReceiptsGrow /\ ChargesGrow /\ RetriesGrow /\ PaidChecks /\ PutBackAnswered

-----------------------------------------------------------------------------
(* Every step writes in the books as Books says, a lemma for each action. *)
\* A step that leaves the books alone and puts no stage back.
LEMMA QuietBooks ==
    ASSUME UNCHANGED <<receipts, reserved, retries, checkpoints>>,
           \A s \in Stages : St(s) \in Busy => stage'[s].st # "pending"
    PROVE  Books
  BY DEF Books, ReceiptsGrow, ChargesGrow, RetriesGrow, PaidChecks, PutBackAnswered

\* One row changes, and not to "pending".
LEMMA RowBusy ==
    ASSUME Typed, NEW s \in Stages, NEW row \in Row, stage' = [stage EXCEPT ![s] = row],
           row.st # "pending"
    PROVE  \A t \in Stages : St(t) \in Busy => stage'[t].st # "pending"
  BY DEF Typed, St, Busy

LEMMA RetryKept ==
    ASSUME NEW s, NEW why, stage'[s].attempt = Att(s),
           retries' = retries \cup {[stage |-> s, attempt |-> Att(s), reason |-> why]}
    PROVE  RetriedAt(s, Att(s))'
  <1> DEFINE r == [stage |-> s, attempt |-> Att(s), reason |-> why]
  <1>1. r \in retries' /\ r.stage = s /\ r.attempt = stage'[s].attempt  OBVIOUS
  <1> HIDE DEF r
  <1>2. \E x \in retries' : x.stage = s /\ x.attempt = stage'[s].attempt  BY <1>1
  <1> QED BY <1>2 DEF RetriedAt, RetriesOf, Att

LEMMA ConsumeBooks ==
    ASSUME Typed, NEW s \in Stages, NEW why \in Reasons, NEW row \in Row, NEW lost \in Row,
           ConsumeRetry(s, why, row, lost), row.attempt = Att(s) \/ row.st # "pending"
    PROVE  RetriesGrow /\ PutBackAnswered
  <1>1. CASE RetryLeft(s)
    <2>1. retries' = retries \cup {[stage |-> s, attempt |-> Att(s), reason |-> why]}
      BY <1>1 DEF ConsumeRetry, Att
    <2>2. stage' = [stage EXCEPT ![s] = row]  BY <1>1 DEF ConsumeRetry
    <2>3. RetriesGrow  BY <1>1, <2>1 DEF RetriesGrow, Receipted, RetryLeft
    <2>4. stage'[s].st = "pending" => RetriedAt(s, Att(s))'
      <3> SUFFICES ASSUME stage'[s].st = "pending" PROVE RetriedAt(s, Att(s))'  OBVIOUS
      <3>1. stage'[s] = row  BY <2>2 DEF Typed
      <3>2. stage'[s].attempt = Att(s)  BY <3>1
      <3> QED BY <2>1, <3>2, RetryKept
    <2>5. \A t \in Stages \ {s} : stage'[t] = stage[t]  BY <2>2 DEF Typed
    <2> QED BY <2>3, <2>4, <2>5 DEF PutBackAnswered, Answered, St, Busy
  <1>2. CASE ~RetryLeft(s)
    <2>1. retries' = retries /\ stage' = [stage EXCEPT ![s] = [lost EXCEPT !.st = "failed"]]
      BY <1>2 DEF ConsumeRetry
    <2>2. \A t \in Stages : St(t) \in Busy => stage'[t].st # "pending"
      BY <2>1 DEF Typed, Row, St, Busy
    <2> QED BY <2>1, <2>2 DEF RetriesGrow, PutBackAnswered
  <1> QED BY <1>1, <1>2

LEMMA ClaimsBooks ==
    ASSUME Typed, NEW w \in Workers, NEW s \in Stages,
           ClaimPending(w, s) \/ ClaimExpired(w, s)
    PROVE  Books
  <1>1. stage[s] \in Row /\ Leased(s, w) \in Row /\ Leased(s, w).st = "claimed"
    <2>1. stage[s] \in Row /\ stage[s].attempt + 1 \in Nat  BY StageMoves DEF Att
    <2> QED BY <2>1 DEF Leased, Row, StageStates
  <1>2. CASE ClaimPending(w, s)
    <2>1. \A t \in Stages : St(t) \in Busy => stage'[t].st # "pending"
      BY <1>1, <1>2, RowBusy DEF ClaimPending
    <2> QED BY <1>2, <2>1, QuietBooks DEF ClaimPending, books
  <1>3. CASE ClaimExpired(w, s)
    <2>1. ConsumeRetry(s, "lease_expired", Leased(s, w), stage[s])  BY <1>3 DEF ClaimExpired
    <2>2. RetriesGrow /\ PutBackAnswered  BY <1>1, <2>1, ConsumeBooks DEF Reasons
    <2> QED BY <1>3, <2>2 DEF ClaimExpired, Books, ReceiptsGrow, ChargesGrow, PaidChecks
  <1> QED BY <1>2, <1>3

LEMMA ReserveBooks ==
    ASSUME Typed, NEW w \in Workers, NEW s \in Stages, ReserveUsage(w, s)
    PROVE  Books
  <1> DEFINE row == [stage[s] EXCEPT !.paid = TRUE]
  <1>1. row \in Row /\ row.st = "claimed" /\ St(s) = "claimed"
    BY StageMoves DEF Row, ReserveUsage, Holds, St
  <1>2. stage' = [stage EXCEPT ![s] = row]  BY StageMoves DEF ReserveUsage, Row, Typed
  <1> HIDE DEF row
  <1>3. \A t \in Stages : St(t) \in Busy => stage'[t].st # "pending"
    BY <1>1, <1>2, RowBusy
  <1>4. Charge(s)  BY DEF ReserveUsage, Charge, ReservedOf, Att
  <1> QED BY <1>1, <1>3, <1>4 DEF ReserveUsage, Books, ReceiptsGrow, ChargesGrow,
      RetriesGrow, PaidChecks, PutBackAnswered

LEMMA LogEntry ==
    ASSUME Typed, NEW s \in Stages, NEW ev \in Events, NEW o \in Results \cup {"none"},
           NEW a \in Actors \cup Reconcilers, Log(s, ev, o, a), St(s) \in Busy
    PROVE  ReceiptsGrow
  <1>1. [gen |-> stage[s].attempt, event |-> ev, outcome |-> o, actor |-> a] \in Receipt
    BY DEF Typed, Row, Receipt
  <1> QED BY <1>1 DEF Log, ReceiptsGrow, Entry

LEMMA MutationsBooks ==
    ASSUME Typed, NEW w \in Workers, NEW s \in Stages, NEW a \in Actors,
           RecordIntent(w, s, a) \/ AuthorizeEffect(w, s, a) \/ ConsumePermit(w, s, a)
    PROVE  Books
  <1>1. St(s) = "claimed" /\ stage[s] \in Row
    BY StageMoves DEF RecordIntent, AuthorizeEffect, ConsumePermit, Holds, St
  <1>2. ReceiptsGrow
    <2>1. \E ev \in Events : Log(s, ev, "none", a)
      BY DEF RecordIntent, AuthorizeEffect, ConsumePermit, Events
    <2> QED BY <1>1, <2>1, LogEntry DEF Busy
  <1>3. \A t \in Stages : St(t) \in Busy => stage'[t].st # "pending"
    <2>1. stage'[s].st = "claimed" /\ \A t \in Stages \ {s} : stage'[t] = stage[t]
      <3>1. CASE RecordIntent(w, s, a)  BY <1>1, <3>1 DEF RecordIntent, Typed, Row, St
      <3>2. CASE AuthorizeEffect(w, s, a)  BY <1>1, <3>2 DEF AuthorizeEffect, Typed, Row, St
      <3>3. CASE ConsumePermit(w, s, a)  BY <1>1, <3>3 DEF ConsumePermit, Typed, Row, St
      <3> QED BY <3>1, <3>2, <3>3
    <2> QED BY <2>1 DEF St, Busy
  <1>4. UNCHANGED <<reserved, retries, checkpoints>>
    BY DEF RecordIntent, AuthorizeEffect, ConsumePermit
  <1> QED BY <1>2, <1>3, <1>4 DEF Books, ChargesGrow, RetriesGrow, PaidChecks, PutBackAnswered

LEMMA CheckpointBooks ==
    ASSUME Typed, NEW w \in Workers, NEW s \in Stages, NEW a \in Actors, Checkpoint(w, s, a)
    PROVE  Books
  <1> DEFINE row == [Released(stage[s], "complete") EXCEPT !.executor = a]
  <1>1. row \in Row /\ row.st # "pending"
    BY StageMoves DEF Released, Row, StageStates
  <1> HIDE DEF row
  <1>2. stage' = [stage EXCEPT ![s] = row]  BY DEF Checkpoint, row
  <1>3. \A t \in Stages : St(t) \in Busy => stage'[t].st # "pending"
    BY <1>1, <1>2, RowBusy
  <1>4. PaidChecks  BY DEF Checkpoint, PaidChecks
  <1> QED BY <1>3, <1>4 DEF Checkpoint, Books, ReceiptsGrow, ChargesGrow, RetriesGrow,
      PutBackAnswered

LEMMA ResultBooks ==
    ASSUME Typed, NEW w \in Workers, NEW s \in Stages, NEW a \in Actors, NEW o \in Results,
           RecordResult(w, s, a, o)
    PROVE  Books
  <1> DEFINE row == [stage[s] EXCEPT !.mut = Result(o)]
  <1>1. St(s) = "claimed" /\ ReceiptsGrow
    <2>1. St(s) = "claimed" /\ Log(s, "result", o, a)  BY DEF RecordResult, Holds, St
    <2> QED BY <2>1, LogEntry DEF Busy, Events
  <1>2. /\ row \in Row /\ row.st = "claimed"
        /\ Released(row, "pending") \in Row /\ Released(row, "pending").attempt = Att(s)
        /\ Released(row, "awaiting_reconciliation") \in Row
        /\ Released(row, "awaiting_reconciliation").st # "pending"
    BY <1>1, StageMoves, States DEF Row, Released, StageStates, Att, St
  <1>3. RetriesGrow /\ PutBackAnswered
    <2>1. CASE o = "not_applied"
      <3>1. ConsumeRetry(s, "mutation_not_applied", Released(row, "pending"), row)
        BY <2>1 DEF RecordResult
      <3> HIDE DEF row
      <3> QED BY <1>2, <3>1, ConsumeBooks DEF Reasons
    <2>2. CASE o # "not_applied"
      <3>1. /\ \/ stage' = [stage EXCEPT ![s] = row]
               \/ stage' = [stage EXCEPT ![s] = Released(row, "awaiting_reconciliation")]
            /\ retries' = retries
        BY <2>2 DEF RecordResult
      <3> HIDE DEF row
      <3>2. \A t \in Stages : St(t) \in Busy => stage'[t].st # "pending"
        BY <1>2, <3>1, RowBusy
      <3> QED BY <3>1, <3>2 DEF RetriesGrow, PutBackAnswered
    <2> QED BY <2>1, <2>2
  <1> QED BY <1>1, <1>3 DEF RecordResult, Books, ChargesGrow, PaidChecks

\* A reconciliation that says "applied" is on the record when the stage returns.
LEMMA AppliedLogged ==
    ASSUME Typed, NEW s \in Stages, NEW r \in Reconcilers,
           Log(s, "reconciliation", "applied", r)
    PROVE  \E i \in 1..Len(receipts'[s]) : /\ receipts'[s][i].gen = Att(s)
                                           /\ receipts'[s][i].event = "reconciliation"
                                           /\ receipts'[s][i].outcome = "applied"
  <1> DEFINE e == [gen |-> stage[s].attempt, event |-> "reconciliation",
                   outcome |-> "applied", actor |-> r]
  <1>1. e \in Receipt  BY DEF Typed, Row, Receipt, Events, Results
  <1>2. receipts'[s] = Append(receipts[s], e) /\ receipts[s] \in Seq(Receipt)
    BY DEF Log, Typed
  <1>3. e.gen = Att(s) /\ e.event = "reconciliation" /\ e.outcome = "applied"  BY DEF Att
  <1> HIDE DEF e
  <1>4. /\ receipts'[s][Len(receipts[s]) + 1] = e
        /\ Len(receipts[s]) + 1 \in 1..Len(receipts'[s])
    BY <1>1, <1>2
  <1> QED BY <1>3, <1>4

LEMMA ReconcileBooks ==
    ASSUME Typed, NEW r \in Reconcilers, NEW s \in Stages, NEW o \in Results,
           Reconcile(r, s, o)
    PROVE  Books
  <1> DEFINE row == [stage[s] EXCEPT !.mut = Reconciled(o)]
  <1>1. St(s) \in Busy /\ ReceiptsGrow
    <2>1. St(s) \in Busy /\ Log(s, "reconciliation", o, r)  BY DEF Reconcile, St, Busy
    <2> QED BY <2>1, LogEntry DEF Events
  <1>2. Resting \in StageStates  BY States
  <1>3. /\ row \in Row
        /\ Released(row, Resting) \in Row /\ Released(row, Resting).attempt = Att(s)
        /\ Released(row, "awaiting_reconciliation") \in Row
        /\ Released(row, "awaiting_reconciliation").st # "pending"
    BY <1>2, StageMoves, States DEF Row, Released, StageStates, Att
  <1>4. RetriesGrow /\ PutBackAnswered
    <2>1. CASE o = "not_applied"
      <3>1. ConsumeRetry(s, "reconciliation_not_applied", Released(row, Resting), row)
        BY <2>1 DEF Reconcile
      <3> HIDE DEF row
      <3> QED BY <1>3, <3>1, ConsumeBooks DEF Reasons
    <2>2. CASE o = "applied"
      <3>1. stage' = [stage EXCEPT ![s] = Released(row, Resting)] /\ retries' = retries
        BY <2>2 DEF Reconcile
      <3> HIDE DEF row
      <3>2. stage'[s].attempt = Att(s)  BY <1>3, <3>1 DEF Typed
      <3>3. Log(s, "reconciliation", "applied", r)  BY <2>2 DEF Reconcile
      <3>4. AppliedAt(s, Att(s))'  BY <3>2, <3>3, AppliedLogged DEF AppliedAt, Att
      <3>5. \A t \in Stages \ {s} : stage'[t] = stage[t]  BY <3>1 DEF Typed
      <3> QED BY <3>1, <3>4, <3>5 DEF RetriesGrow, PutBackAnswered, Answered, St, Busy
    <2>3. CASE o = "uncertain"
      <3>1. /\ stage' = [stage EXCEPT ![s] = Released(row, "awaiting_reconciliation")]
            /\ retries' = retries
        BY <2>3 DEF Reconcile
      <3> HIDE DEF row
      <3>2. \A t \in Stages : St(t) \in Busy => stage'[t].st # "pending"
        BY <1>3, <3>1, RowBusy
      <3> QED BY <3>1, <3>2 DEF RetriesGrow, PutBackAnswered
    <2> QED BY <2>1, <2>2, <2>3 DEF Results
  <1> QED BY <1>1, <1>4 DEF Reconcile, Books, ChargesGrow, PaidChecks

\* Operator calls put a claimed stage back only against a retry receipt.
LEMMA OperatorBooks ==
    ASSUME Typed, OperatorStep \/ (\E v \in Verifiers, p \in BOOLEAN : Verify(v, p))
    PROVE  Books
  <1>1. CASE Pause
    <2>1. \A t \in Stages : Closes(t, "pending")
      BY <1>1, ClosingCloses DEF Pause, StageStates
    <2>2. \A t \in Stages : St(t) = "claimed" => Mut(t) \in Ambiguous
      BY <1>1 DEF Pause, Abandoned, St, Mut
    <2>3. \A t \in Stages : St(t) \in Busy => stage'[t].st # "pending"
      BY <2>1, <2>2 DEF Closes, Busy
    <2> QED BY <1>1, <2>3, QuietBooks DEF Pause, books
  <1>2. CASE Cancel
    <2>1. \A t \in Stages : Closes(t, "cancelled")
      BY <1>2, ClosingCloses DEF Cancel, StageStates
    <2>2. \A t \in Stages : St(t) \in Busy => stage'[t].st # "pending"
      BY <2>1 DEF Closes, Busy
    <2> QED BY <1>2, <2>2, QuietBooks DEF Cancel, books
  <1>3. CASE Resume \/ Switch \/ (\E v \in Verifiers, p \in BOOLEAN : Verify(v, p))
    <2>1. UNCHANGED <<stage, receipts, reserved, retries, checkpoints>>
      BY <1>3 DEF Resume, Switch, Verify, books
    <2>2. \A t \in Stages : St(t) \in Busy => stage'[t].st # "pending"
      BY <2>1 DEF St, Busy
    <2> QED BY <2>1, <2>2, QuietBooks
  <1>4. ASSUME NEW s \in Stages, PauseReclaim(s) PROVE Books
    <2>1. UNCHANGED <<receipts, reserved, checkpoints>>  BY <1>4 DEF PauseReclaim
    <2>2. CASE RetryLeft(s)
      <3>1. \A t \in Stages : Closes(t, "pending")
        BY <1>4, <2>2, ClosingCloses DEF PauseReclaim, StageStates
      <3>2. \A t \in Stages \ {s} : St(t) = "claimed" => Mut(t) \in Ambiguous
        BY <1>4 DEF PauseReclaim, Abandoned, St, Mut
      <3>3. \A t \in Stages \ {s} : St(t) \in Busy => stage'[t].st # "pending"
        BY <3>1, <3>2 DEF Closes, Busy
      <3>4. retries' = retries \cup {[stage |-> s, attempt |-> Att(s),
                                      reason |-> "pause_reclaim"]}
        BY <1>4, <2>2 DEF PauseReclaim, Att
      <3>5. stage'[s].attempt = Att(s)  BY <3>1 DEF Closes
      <3>6. RetriedAt(s, Att(s))'  BY <3>4, <3>5, RetryKept
      <3>7. RetriesGrow
        BY <2>2, <3>4 DEF RetriesGrow, Receipted, RetryLeft, Reasons
      <3> QED BY <2>1, <3>3, <3>6, <3>7 DEF Books, ReceiptsGrow, ChargesGrow, PaidChecks,
          PutBackAnswered, Answered
    <2>3. CASE ~RetryLeft(s)
      <3>1. retries' = retries /\ stage' = [stage EXCEPT ![s].st = "failed"]
        BY <1>4, <2>3 DEF PauseReclaim
      <3>2. \A t \in Stages : St(t) \in Busy => stage'[t].st # "pending"
        BY <3>1 DEF Typed, Row, St, Busy
      <3> QED BY <2>1, <3>1, <3>2, QuietBooks
    <2> QED BY <2>2, <2>3
  <1> QED BY <1>1, <1>2, <1>3, <1>4 DEF OperatorStep

LEMMA PassingBooks == ASSUME Typed, Passing PROVE Books
  <1>1. UNCHANGED <<receipts, reserved, retries, checkpoints>>
    BY DEF Passing, TimeRunsOut, Land, Lose, LeaseLapses, PermitLapses, books
  <1>2. \A t \in Stages : stage'[t].st = stage[t].st
    <2>1. CASE stage' = stage  BY <2>1
    <2>2. ASSUME NEW s \in Stages, LeaseLapses(s) \/ PermitLapses(s)
          PROVE  \A t \in Stages : stage'[t].st = stage[t].st
      <3>1. \/ stage' = [stage EXCEPT ![s].live = FALSE]
            \/ stage' = [stage EXCEPT ![s].permit = FALSE]
        BY <2>2 DEF LeaseLapses, PermitLapses
      <3>2. stage[s] \in Row /\ stage \in [Stages -> Row]  BY DEF Typed
      <3>3. /\ [stage[s] EXCEPT !.live = FALSE].st = stage[s].st
            /\ [stage[s] EXCEPT !.permit = FALSE].st = stage[s].st
        BY <3>2 DEF Row
      <3> QED BY <3>1, <3>2, <3>3
    <2> QED BY <2>1, <2>2 DEF Passing, TimeRunsOut, Land, Lose, plan
  <1>3. \A t \in Stages : St(t) \in Busy => stage'[t].st # "pending"
    BY <1>2 DEF St, Busy
  <1> QED BY <1>1, <1>3, QuietBooks

LEMMA NextBooks == ASSUME Typed, [Next]_vars PROVE Books
  <1>1. CASE UNCHANGED vars
    <2>1. \A t \in Stages : St(t) \in Busy => stage'[t].st # "pending"
      BY <1>1 DEF vars, St, Busy
    <2> QED BY <1>1, <2>1, QuietBooks DEF vars
  <1>2. ASSUME NEW w \in Workers, NEW s \in Stages, WorkerStep(w, s) PROVE Books
    BY <1>2, ClaimsBooks, ReserveBooks, MutationsBooks, CheckpointBooks, ResultBooks
    DEF WorkerStep
  <1>3. CASE \E s \in Stages : ShelveExpired(s)
    <2>1. PICK s \in Stages : ShelveExpired(s)  BY <1>3
    <2>2. /\ Released(stage[s], "awaiting_reconciliation") \in Row
          /\ Released(stage[s], "awaiting_reconciliation").st # "pending"
      BY StageMoves DEF Released, Row, StageStates
    <2>3. \A t \in Stages : St(t) \in Busy => stage'[t].st # "pending"
      BY <2>1, <2>2, RowBusy DEF ShelveExpired
    <2> QED BY <2>1, <2>3, QuietBooks DEF ShelveExpired, books
  <1> QED BY <1>1, <1>2, <1>3, ReconcileBooks, OperatorBooks, PassingBooks DEF Next

-----------------------------------------------------------------------------
(* Attempts: every step keeps the answers given, and asks for one before a new *)
(* attempt starts.                                                             *)
LEMMA AnswersKept ==
    ASSUME Typed, Books, NEW s \in Stages, NEW g, Answered(s, g)
    PROVE  Answered(s, g)'
  <1>1. retries \subseteq retries'  BY DEF Books, RetriesGrow, Receipted
  <1>2. CASE RetriedAt(s, g)  BY <1>1, <1>2 DEF Answered, RetriedAt, RetriesOf
  <1>3. CASE AppliedAt(s, g)
    <2>1. receipts'[s] = receipts[s] \/ \E r \in Receipt : receipts'[s] = Append(receipts[s], r)
      <3>1. CASE receipts' = receipts  BY <3>1
      <3>2. ASSUME NEW t \in Stages, NEW r \in Receipt,
                   receipts' = [receipts EXCEPT ![t] = Append(@, r)]
            PROVE  receipts'[s] = receipts[s] \/ receipts'[s] = Append(receipts[s], r)
        BY <3>2 DEF Typed
      <3> QED BY <3>1, <3>2 DEF Books, ReceiptsGrow, Entry
    <2>2. PICK i \in 1..Len(receipts[s]) : /\ receipts[s][i].gen = g
                                           /\ receipts[s][i].event = "reconciliation"
                                           /\ receipts[s][i].outcome = "applied"
      BY <1>3 DEF AppliedAt
    <2>3. receipts[s] \in Seq(Receipt)  BY DEF Typed
    <2>4. i \in 1..Len(receipts'[s]) /\ receipts'[s][i] = receipts[s][i]
      BY <2>1, <2>3
    <2> QED BY <2>2, <2>4 DEF Answered, AppliedAt
  <1> QED BY <1>2, <1>3 DEF Answered

LEMMA Columns ==
    ASSUME Typed, Move, NEW t \in Stages
    PROVE  \/ /\ stage'[t].attempt = Att(t)
              /\ stage'[t].st = "pending" => St(t) \in Busy \cup {"pending"}
           \/ /\ stage'[t].attempt = Att(t) + 1 /\ stage'[t].st = "claimed"
              /\ St(t) = "pending" \/ (St(t) = "claimed" /\ Receipted(t))
  <1>1. CASE MIdle \/ (\E e \in flying : MWorld(e))
    BY <1>1 DEF MIdle, MWorld, Same
  <1>2. CASE \E st \in StageStates : MClose(st)
    BY <1>2 DEF MClose, Closes, Busy
  <1>3. ASSUME NEW s \in Stages, MClaim(s) \/ MSend(s) \/ MDone(s)
        PROVE  \/ /\ stage'[t].attempt = Att(t)
                  /\ stage'[t].st = "pending" => St(t) \in Busy \cup {"pending"}
               \/ /\ stage'[t].attempt = Att(t) + 1 /\ stage'[t].st = "claimed"
                  /\ St(t) = "pending" \/ (St(t) = "claimed" /\ Receipted(t))
    <2>1. CASE t = s  BY <1>3, <2>1 DEF MClaim, MSend, MDone, Moves
    <2>2. CASE t # s  BY <1>3, <2>2 DEF MClaim, MSend, MDone, Moves, Same
    <2> QED BY <2>1, <2>2
  <1>4. ASSUME NEW s \in Stages, NEW m \in MutationStates, NEW st \in StageStates,
               MFail(s, m) \/ MShelve(s, m) \/ MMark(s, m) \/ MSettle(s, m, st)
        PROVE  /\ stage'[t].attempt = Att(t)
               /\ stage'[t].st = "pending" => St(t) \in Busy \cup {"pending"}
    BY <1>4 DEF MFail, MShelve, MMark, MSettle, Moves, Same
  <1>5. StageStates # {}  BY DEF StageStates
  <1> QED BY <1>1, <1>2, <1>3, <1>4, <1>5 DEF Move

LEMMA SettledStep ==
    ASSUME Typed, Typed', Move, Books, Settled
    PROVE  Settled'
  <1> SUFFICES ASSUME NEW t \in Stages
               PROVE  /\ \A g \in 1..(stage'[t].attempt - 1) : Answered(t, g)'
                      /\ stage'[t].st = "pending" /\ stage'[t].attempt > 0
                           => Answered(t, Att(t))'
    BY DEF Settled, St, Att
  <1>1. Att(t) \in Nat /\ \A g \in 1..(Att(t) - 1) : Answered(t, g)'
    BY StageMoves, AnswersKept DEF Settled
  <1>2. PICK a \in Nat : a = Att(t)  BY <1>1
  <1>3. CASE /\ stage'[t].attempt = Att(t)
             /\ stage'[t].st = "pending" => St(t) \in Busy \cup {"pending"}
    <2>1. St(t) = "pending" /\ a > 0 => Answered(t, a)'
      BY <1>2, AnswersKept DEF Settled
    <2>2. a = Att(t)'  BY <1>2, <1>3 DEF Att
    <2>3. stage'[t].st = "pending" /\ St(t) \in Busy => Answered(t, Att(t))'
      BY DEF Books, PutBackAnswered
    <2>4. St(t) = "pending" /\ a > 0 => Answered(t, Att(t))'
      BY <2>1, <2>2 DEF Answered, RetriedAt, AppliedAt
    <2> QED BY <1>1, <1>2, <1>3, <2>3, <2>4
  <1>4. CASE /\ stage'[t].attempt = Att(t) + 1 /\ stage'[t].st = "claimed"
             /\ St(t) = "pending" \/ (St(t) = "claimed" /\ Receipted(t))
    <2>1. a > 0 => Answered(t, a)'
      <3>1. CASE St(t) = "pending"  BY <1>2, <3>1, AnswersKept DEF Settled
      <3>2. CASE Receipted(t)
        <4>1. PICK why \in Reasons : retries' = retries \cup
                                      {[stage |-> t, attempt |-> a, reason |-> why]}
          BY <1>2, <3>2 DEF Receipted
        <4> DEFINE r == [stage |-> t, attempt |-> a, reason |-> why]
        <4>2. r \in retries' /\ r.stage = t /\ r.attempt = a  BY <4>1
        <4> HIDE DEF r
        <4>3. \E x \in retries' : x.stage = t /\ x.attempt = a  BY <4>2
        <4> QED BY <4>3 DEF Answered, RetriedAt, RetriesOf
      <3> QED BY <1>4, <3>1, <3>2
    <2>2. \A g \in 1..(stage'[t].attempt - 1) : g = a \/ g \in 1..(Att(t) - 1)
      BY <1>1, <1>2, <1>4
    <2> QED BY <1>1, <1>4, <2>1, <2>2
  <1> QED BY <1>3, <1>4, Columns

LEMMA SettledPays == Typed /\ Safe /\ Settled => AttemptsArePaid
  <1> SUFFICES ASSUME Typed, Safe, Settled, NEW s \in Stages
               PROVE  /\ \A g \in 1..(Att(s) - 1) : RetriedAt(s, g) \/ AppliedAt(s, g)
                      /\ St(s) \in Busy => ~RetriedAt(s, Att(s))
    BY DEF AttemptsArePaid, Att, St, Busy
  <1>1. \A g \in 1..(Att(s) - 1) : RetriedAt(s, g) \/ AppliedAt(s, g)
    BY DEF Settled, Answered
  <1>2. ASSUME St(s) \in Busy, RetriedAt(s, Att(s)) PROVE FALSE
    <2>1. PICK r \in retries : r.stage = s /\ r.attempt = Att(s)
      BY <1>2 DEF RetriedAt, RetriesOf
    <2>2. r.attempt < Att(s)  BY <1>2, <2>1 DEF Safe, Core, RetriesPlaced, Over
    <2> QED BY <2>1, <2>2, StageMoves
  <1> QED BY <1>1, <1>2

-----------------------------------------------------------------------------
(* Order: only the stage after the last checkpoint is ever touched. *)
LEMMA FrontierIsNext ==
    ASSUME Typed, Safe, NEW s \in Stages, St(s) \in Busy \/ Frontier(s)
    PROVE  s = Len(checkpoints) + 1
  <1>1. Len(checkpoints) \in Nat /\ s \in Nat /\ s <= N /\ s >= 1 /\ N \in Nat
    BY PlanAssumption DEF Typed, Stages
  <1>2. St(s) # "complete" /\ \A t \in 1..(s - 1) : St(t) = "complete"
    BY <1>1 DEF Safe, Core, BusyInOrder, Frontier, Busy, St, Stages
  <1>3. ~(s <= Len(checkpoints))  BY <1>2 DEF Safe, Core, PrefixDone
  <1>4. ASSUME s > Len(checkpoints) + 1 PROVE FALSE
    <2>1. Len(checkpoints) + 1 \in Stages /\ Len(checkpoints) + 1 \in 1..(s - 1)
      BY <1>1, <1>4 DEF Stages
    <2>2. Len(checkpoints) + 1 <= Len(checkpoints)
      BY <1>2, <2>1 DEF Safe, Core, PrefixDone
    <2> QED BY <1>1, <2>2
  <1> QED BY <1>1, <1>3, <1>4

LEMMA OrderStep ==
    ASSUME Typed, Typed', Safe, Safe', Move, Books, OneStageAtATime
    PROVE  OneStageAtATime'
  <1>1. Len(checkpoints) \in Nat /\ checkpoints \in Seq(Stages)  BY DEF Typed
  <1>2. \/ checkpoints' = checkpoints
        \/ \E s \in Stages : /\ checkpoints' = Append(checkpoints, s)
                             /\ s = Len(checkpoints) + 1
    BY DEF Move, MIdle, MWorld, MClose, MClaim, MSend, MDone, MFail, MShelve, MMark, MSettle
  <1>3. \A i \in 1..Len(checkpoints') : checkpoints'[i] = i /\ stage'[i].st = "complete"
    <2>1. \A i \in 1..Len(checkpoints') : checkpoints'[i] = i
      BY <1>1, <1>2 DEF OneStageAtATime
    <2>2. Len(checkpoints') \in Nat /\ Len(checkpoints') <= N
      BY DEF Typed, Safe, Core, PrefixDone
    <2>3. \A i \in 1..Len(checkpoints') : i \in Stages /\ i <= Len(checkpoints')
      BY <2>2, PlanAssumption DEF Stages
    <2> QED BY <2>1, <2>3 DEF Safe, Core, PrefixDone, St
  <1>4. ASSUME NEW t \in Stages, t > Len(checkpoints') + 1
        PROVE  /\ stage'[t].attempt = 0 /\ receipts'[t] = <<>>
               /\ stage'[t].st \in {"pending", "cancelled"}
               /\ \A r \in reserved' : r[1] # t
    <2>1. t > Len(checkpoints) + 1 /\ t # Len(checkpoints) + 1
      <3>1. Len(checkpoints') >= Len(checkpoints) /\ Len(checkpoints') \in Nat
        BY <1>1, <1>2
      <3> QED BY <1>1, <1>4, <3>1 DEF Stages
    <2>2. /\ Att(t) = 0 /\ receipts[t] = <<>> /\ St(t) \in {"pending", "cancelled"}
          /\ \A r \in reserved : r[1] # t
      BY <2>1 DEF OneStageAtATime, Att, St
    <2>3. \A s \in Stages : St(s) \in Busy \/ Frontier(s) => s # t
      BY <2>1, FrontierIsNext
    <2>4. receipts'[t] = receipts[t]
      BY <2>3 DEF Books, ReceiptsGrow, Entry, Typed
    <2>5. \A r \in reserved' : r[1] # t
      BY <2>2, <2>3 DEF Books, ChargesGrow, Charge, Busy
    <2>6. stage'[t].attempt = Att(t) /\ stage'[t].st \in {"pending", "cancelled"}
      <3>1. CASE MIdle \/ (\E e \in flying : MWorld(e))
        BY <2>2, <3>1 DEF MIdle, MWorld, Same
      <3>2. CASE \E st \in StageStates : MClose(st)
        BY <2>2, <3>2 DEF MClose, Closes
      <3>3. ASSUME NEW s \in Stages, MClaim(s) \/ MSend(s) \/ MDone(s)
            PROVE  Same(t)
        BY <2>3, <3>3 DEF MClaim, MSend, MDone, Moves, Busy
      <3>4. ASSUME NEW s \in Stages, NEW m \in MutationStates, NEW st \in StageStates,
                   MFail(s, m) \/ MShelve(s, m) \/ MMark(s, m) \/ MSettle(s, m, st)
            PROVE  Same(t)
        BY <2>3, <3>4 DEF MFail, MShelve, MMark, MSettle, Moves, Busy
      <3>5. StageStates # {}  BY DEF StageStates
      <3> QED BY <2>2, <3>1, <3>2, <3>3, <3>4, <3>5 DEF Move, Same
    <2> QED BY <2>2, <2>4, <2>5, <2>6
  <1> QED BY <1>3, <1>4 DEF OneStageAtATime

-----------------------------------------------------------------------------
(* Charges *)
LEMMA PaidRowStep ==
    ASSUME Typed, Paid, NEW s \in Stages, NEW row \in Row, stage' = [stage EXCEPT ![s] = row],
           reserved \subseteq reserved',
           row.paid => <<s, row.attempt>> \in reserved',
           row.st = "claimed" /\ row.mut \in Intended => row.paid
    PROVE  Paid'
  <1>1. stage'[s] = row /\ \A t \in Stages \ {s} : stage'[t] = stage[t]  BY DEF Typed
  <1> QED BY <1>1 DEF Paid, PaidRow, St, Mut, Att

\* A row that keeps its payment and is not claimed by the step.
LEMMA PaidKept ==
    ASSUME Typed, Paid, NEW s \in Stages, NEW row \in Row, stage' = [stage EXCEPT ![s] = row],
           reserved' = reserved, row.paid = stage[s].paid, row.attempt = Att(s),
           row.st = "claimed" => St(s) = "claimed" /\ row.mut \notin Intended \ {Mut(s)}
    PROVE  Paid'
  <1>1. row.paid => <<s, row.attempt>> \in reserved'  BY DEF Paid, PaidRow
  <1>2. row.st = "claimed" /\ row.mut \in Intended => row.paid  BY DEF Paid, PaidRow
  <1> QED BY <1>1, <1>2, PaidRowStep

LEMMA PaidConsume ==
    ASSUME Typed, Paid, NEW s \in Stages, NEW why, NEW row \in Row,
           NEW lost \in Row, ConsumeRetry(s, why, row, lost), reserved' = reserved,
           row.paid => stage[s].paid /\ row.attempt = Att(s),
           row.st = "claimed" => row.mut \notin Intended,
           lost.paid = stage[s].paid, lost.attempt = Att(s)
    PROVE  Paid'
  <1>1. CASE RetryLeft(s)
    <2>1. row.paid => <<s, row.attempt>> \in reserved'  BY DEF Paid, PaidRow
    <2>2. stage' = [stage EXCEPT ![s] = row]  BY <1>1 DEF ConsumeRetry
    <2> QED BY <2>1, <2>2, PaidRowStep
  <1>2. CASE ~RetryLeft(s)
    <2> DEFINE end == [lost EXCEPT !.st = "failed"]
    <2>1. /\ end \in Row /\ end.st = "failed" /\ end.paid = stage[s].paid
          /\ end.attempt = Att(s)
      BY DEF Row, StageStates
    <2>2. stage' = [stage EXCEPT ![s] = end]  BY <1>2 DEF ConsumeRetry
    <2> HIDE DEF end
    <2> QED BY <2>1, <2>2, PaidKept
  <1> QED BY <1>1, <1>2

LEMMA ClaimsPaid ==
    ASSUME Typed, Safe, Paid, NEW w \in Workers, NEW s \in Stages,
           ClaimPending(w, s) \/ ClaimExpired(w, s) \/ ReserveUsage(w, s)
    PROVE  Paid'
  <1>1. stage[s] \in Row /\ stage[s].attempt + 1 \in Nat  BY StageMoves DEF Att
  <1>2. /\ Leased(s, w) \in Row /\ ~Leased(s, w).paid /\ Leased(s, w).mut = Mut(s)
    BY <1>1 DEF Leased, Row, StageStates, Mut
  <1>3. CASE ClaimPending(w, s)
    <2>1. Mut(s) \notin Intended
      BY <1>3 DEF Safe, Core, PendingSettled, ClaimPending, St, MayIntend, Intended
    <2>2. stage' = [stage EXCEPT ![s] = Leased(s, w)] /\ reserved' = reserved
      BY <1>3 DEF ClaimPending, books
    <2> QED BY <1>2, <2>1, <2>2, PaidRowStep
  <1>4. CASE ClaimExpired(w, s)
    <2>1. Mut(s) \notin Intended /\ reserved' = reserved
      BY <1>4 DEF ClaimExpired, Unsettled, Intended, Mut
    <2>2. ConsumeRetry(s, "lease_expired", Leased(s, w), stage[s])  BY <1>4 DEF ClaimExpired
    <2> QED BY <1>1, <1>2, <2>1, <2>2, PaidConsume DEF Att
  <1>5. CASE ReserveUsage(w, s)
    <2> DEFINE row == [stage[s] EXCEPT !.paid = TRUE]
    <2>1. row \in Row /\ row.paid /\ row.attempt = Att(s)  BY <1>1 DEF Row, Att
    <2>2. stage' = [stage EXCEPT ![s] = row] /\ reserved' = reserved \cup {<<s, Att(s)>>}
      BY <1>1, <1>5 DEF ReserveUsage, Typed, Att
    <2> HIDE DEF row
    <2> QED BY <2>1, <2>2, PaidRowStep
  <1> QED BY <1>3, <1>4, <1>5

LEMMA MutationsPaid ==
    ASSUME Typed, Paid, NEW w \in Workers, NEW s \in Stages, NEW a \in Actors,
           \/ RecordIntent(w, s, a) \/ AuthorizeEffect(w, s, a)
           \/ ConsumePermit(w, s, a) \/ Checkpoint(w, s, a)
    PROVE  Paid'
  <1>1. stage[s] \in Row  BY StageMoves
  <1>2. CASE RecordIntent(w, s, a)
    <2> DEFINE row == [stage[s] EXCEPT !.mut = "intent_recorded"]
    <2>1. row \in Row /\ row.paid /\ row.attempt = Att(s) /\ stage[s].paid
      BY <1>1, <1>2 DEF Row, MutationStates, Att, RecordIntent
    <2>2. stage' = [stage EXCEPT ![s] = row] /\ reserved' = reserved
      BY <1>2 DEF RecordIntent, Typed
    <2> HIDE DEF row
    <2>3. <<s, Att(s)>> \in reserved  BY <2>1 DEF Paid, PaidRow
    <2> QED BY <2>1, <2>2, <2>3, PaidRowStep
  <1>3. CASE AuthorizeEffect(w, s, a)
    <2> DEFINE row == [stage[s] EXCEPT !.mut = "effect_authorized", !.permit = TRUE]
    <2>1. row \in Row /\ row.paid = stage[s].paid /\ row.attempt = Att(s)
      BY <1>1 DEF Row, MutationStates, Att
    <2>2. stage' = [stage EXCEPT ![s] = row] /\ reserved' = reserved
      BY <1>3 DEF AuthorizeEffect, Typed
    <2>3. St(s) = "claimed" /\ Mut(s) \in Intended
      BY <1>3 DEF AuthorizeEffect, Holds, St, Mut, Intended
    <2> HIDE DEF row
    <2>4. stage[s].paid /\ <<s, Att(s)>> \in reserved  BY <2>3 DEF Paid, PaidRow
    <2> QED BY <2>1, <2>2, <2>4, PaidRowStep
  <1>4. CASE ConsumePermit(w, s, a)
    <2> DEFINE row == [stage[s] EXCEPT !.mut = "effect_in_progress", !.permit = FALSE]
    <2>1. /\ row \in Row /\ row.paid = stage[s].paid /\ row.attempt = Att(s)
          /\ row.mut \notin Intended
      BY <1>1 DEF Row, MutationStates, Att, Intended
    <2>2. stage' = [stage EXCEPT ![s] = row] /\ reserved' = reserved
      BY <1>4 DEF ConsumePermit, Typed
    <2> HIDE DEF row
    <2>3. row.paid => <<s, Att(s)>> \in reserved  BY <2>1 DEF Paid, PaidRow
    <2> QED BY <2>1, <2>2, <2>3, PaidRowStep
  <1>5. CASE Checkpoint(w, s, a)
    <2> DEFINE row == [Released(stage[s], "complete") EXCEPT !.executor = a]
    <2>1. /\ row \in Row /\ row.paid = stage[s].paid /\ row.attempt = Att(s)
          /\ row.st = "complete"
      BY <1>1 DEF Row, Released, StageStates, Att
    <2>2. stage' = [stage EXCEPT ![s] = row] /\ reserved' = reserved
      BY <1>5 DEF Checkpoint
    <2> HIDE DEF row
    <2> QED BY <2>1, <2>2, PaidKept
  <1> QED BY <1>2, <1>3, <1>4, <1>5

LEMMA AnswersPaid ==
    ASSUME Typed, Safe, Paid, NEW s \in Stages, NEW o \in Results,
           \/ \E w \in Workers, a \in Actors : RecordResult(w, s, a, o)
           \/ \E r \in Reconcilers : Reconcile(r, s, o)
           \/ ShelveExpired(s)
    PROVE  Paid'
  <1>1. stage[s] \in Row  BY StageMoves
  <1>2. ASSUME NEW m \in MutationStates \ Intended, NEW st \in StageStates \ {"claimed"}
        PROVE  /\ Released([stage[s] EXCEPT !.mut = m], st) \in Row
               /\ Released([stage[s] EXCEPT !.mut = m], st).paid = stage[s].paid
               /\ Released([stage[s] EXCEPT !.mut = m], st).attempt = Att(s)
               /\ Released([stage[s] EXCEPT !.mut = m], st).st # "claimed"
               /\ [stage[s] EXCEPT !.mut = m] \in Row
               /\ [stage[s] EXCEPT !.mut = m].paid = stage[s].paid
               /\ [stage[s] EXCEPT !.mut = m].attempt = Att(s)
               /\ [stage[s] EXCEPT !.mut = m].st = St(s)
               /\ [stage[s] EXCEPT !.mut = m].mut = m
    BY <1>1 DEF Row, Released, Att, St
  <1>3. /\ Result(o) \in MutationStates \ Intended
        /\ Reconciled(o) \in MutationStates \ Intended
        /\ Resting \in StageStates \ {"claimed"}
        /\ "pending" \in StageStates \ {"claimed"}
        /\ "awaiting_reconciliation" \in StageStates \ {"claimed"}
    BY States DEF Result, Reconciled, Resting, Results, Intended, StageStates
  <1>4. CASE \E w \in Workers, a \in Actors : RecordResult(w, s, a, o)
    <2> DEFINE row == [stage[s] EXCEPT !.mut = Result(o)]
    <2>1. PICK w \in Workers, a \in Actors : RecordResult(w, s, a, o)  BY <1>4
    <2>2. St(s) = "claimed" /\ reserved' = reserved  BY <2>1 DEF RecordResult, Holds, St
    <2>3. \/ stage' = [stage EXCEPT ![s] = row]
          \/ stage' = [stage EXCEPT ![s] = Released(row, "awaiting_reconciliation")]
          \/ ConsumeRetry(s, "mutation_not_applied", Released(row, "pending"), row)
      BY <2>1 DEF RecordResult
    <2>4. /\ row \in Row /\ row.paid = stage[s].paid /\ row.attempt = Att(s)
          /\ row.mut \notin Intended /\ row.st = St(s)
          /\ Released(row, "awaiting_reconciliation") \in Row
          /\ Released(row, "awaiting_reconciliation").paid = stage[s].paid
          /\ Released(row, "awaiting_reconciliation").attempt = Att(s)
          /\ Released(row, "awaiting_reconciliation").st # "claimed"
          /\ Released(row, "pending") \in Row
          /\ Released(row, "pending").paid = stage[s].paid
          /\ Released(row, "pending").attempt = Att(s)
          /\ Released(row, "pending").st # "claimed"
      BY <1>2, <1>3
    <2> HIDE DEF row
    <2> QED BY <2>2, <2>3, <2>4, PaidKept, PaidConsume
  <1>5. CASE \E r \in Reconcilers : Reconcile(r, s, o)
    <2> DEFINE row == [stage[s] EXCEPT !.mut = Reconciled(o)]
    <2>1. PICK r \in Reconcilers : Reconcile(r, s, o)  BY <1>5
    <2>2. reserved' = reserved  BY <2>1 DEF Reconcile
    <2>3. \/ stage' = [stage EXCEPT ![s] = Released(row, Resting)]
          \/ stage' = [stage EXCEPT ![s] = Released(row, "awaiting_reconciliation")]
          \/ ConsumeRetry(s, "reconciliation_not_applied", Released(row, Resting), row)
      BY <2>1 DEF Reconcile
    <2>4. /\ row \in Row /\ row.paid = stage[s].paid /\ row.attempt = Att(s)
          /\ Released(row, "awaiting_reconciliation") \in Row
          /\ Released(row, "awaiting_reconciliation").paid = stage[s].paid
          /\ Released(row, "awaiting_reconciliation").attempt = Att(s)
          /\ Released(row, "awaiting_reconciliation").st # "claimed"
          /\ Released(row, Resting) \in Row
          /\ Released(row, Resting).paid = stage[s].paid
          /\ Released(row, Resting).attempt = Att(s)
          /\ Released(row, Resting).st # "claimed"
      BY <1>2, <1>3
    <2> HIDE DEF row
    <2> QED BY <2>2, <2>3, <2>4, PaidKept, PaidConsume
  <1>6. CASE ShelveExpired(s)
    <2> DEFINE row == Released(stage[s], "awaiting_reconciliation")
    <2>1. /\ row \in Row /\ row.paid = stage[s].paid /\ row.attempt = Att(s)
          /\ row.st # "claimed"
      BY <1>1 DEF Row, Released, StageStates, Att
    <2>2. stage' = [stage EXCEPT ![s] = row] /\ reserved' = reserved
      BY <1>6 DEF ShelveExpired, books
    <2> HIDE DEF row
    <2> QED BY <2>1, <2>2, PaidKept
  <1> QED BY <1>4, <1>5, <1>6

LEMMA OthersPaid ==
    ASSUME Typed, Paid,
           \/ OperatorStep \/ (\E v \in Verifiers, p \in BOOLEAN : Verify(v, p))
           \/ Passing \/ UNCHANGED vars
    PROVE  Paid'
  <1>1. reserved' = reserved
    BY DEF OperatorStep, Verify, Passing, Pause, Cancel, Resume, Switch, PauseReclaim,
       TimeRunsOut, Land, Lose, LeaseLapses, PermitLapses, books, vars
  <1>2. CASE stage' = stage  BY <1>1, <1>2 DEF Paid, PaidRow, St, Mut, Att
  <1>3. ASSUME NEW st \in {"pending", "cancelled"}, stage' = [t \in Stages |-> Closing(t, st)]
        PROVE  Paid'
    <2>1. \A t \in Stages : stage'[t].st # "claimed"
      BY <1>3, ClosingCloses DEF Closes, StageStates
    <2>2. \A t \in Stages : stage'[t].paid = stage[t].paid /\ stage'[t].attempt = Att(t)
      BY <1>3, StageMoves DEF Closing, Released, Row, Att
    <2> QED BY <1>1, <2>1, <2>2 DEF Paid, PaidRow, St, Mut, Att
  <1>4. ASSUME NEW s \in Stages, \/ LeaseLapses(s) \/ PermitLapses(s)
                                 \/ PauseReclaim(s) /\ ~RetryLeft(s)
        PROVE  Paid'
    <2>1. stage[s] \in Row  BY StageMoves
    <2>2. PICK row \in {[stage[s] EXCEPT !.live = FALSE], [stage[s] EXCEPT !.permit = FALSE],
                        [stage[s] EXCEPT !.st = "failed"]} : stage' = [stage EXCEPT ![s] = row]
      BY <1>4, <2>1 DEF LeaseLapses, PermitLapses, PauseReclaim, Typed
    <2>3. /\ row \in Row /\ row.paid = stage[s].paid /\ row.attempt = Att(s)
          /\ row.mut = Mut(s) /\ row.st \in {St(s), "failed"}
      BY <2>1, <2>2 DEF Row, StageStates, Att, Mut, St
    <2> QED BY <1>1, <2>2, <2>3, PaidKept
  <1>5. CASE OperatorStep
    BY <1>2, <1>3, <1>4, <1>5 DEF OperatorStep, Pause, Cancel, Resume, Switch, PauseReclaim
  <1> QED BY <1>2, <1>4, <1>5 DEF Verify, Passing, TimeRunsOut, Land, Lose, plan, vars

LEMMA PaidStep == ASSUME Typed, Safe, Paid, [Next]_vars PROVE Paid'
  <1>1. ASSUME NEW w \in Workers, NEW s \in Stages, WorkerStep(w, s) PROVE Paid'
    BY <1>1, ClaimsPaid, MutationsPaid, AnswersPaid DEF WorkerStep
  <1>2. Results # {}  BY DEF Results
  <1> QED BY <1>1, <1>2, AnswersPaid, OthersPaid DEF Next

Budgets == /\ Cardinality(reserved) <= PlanBudget /\ Cardinality(retries) <= PlanRetries
           /\ \A s \in Stages : Cardinality(ReservedOf(s)) <= StageBudget

LEMMA CountsStep ==
    ASSUME Typed, Books, Finite, Budgets
    PROVE  Finite' /\ Budgets'
  <1>1. /\ IsFiniteSet(retries') /\ Cardinality(retries') <= PlanRetries
    <2>1. CASE retries' = retries  BY <2>1 DEF Finite, Budgets
    <2>2. ASSUME NEW r, retries' = retries \cup {r}, Cardinality(retries) + 1 <= PlanRetries
          PROVE  IsFiniteSet(retries') /\ Cardinality(retries') <= PlanRetries
      <3>1. IsFiniteSet(retries) /\ Cardinality(retries) \in Nat
        BY FS_CardinalityType DEF Finite
      <3>2. /\ IsFiniteSet(retries')
            /\ \/ Cardinality(retries') = Cardinality(retries)
               \/ Cardinality(retries') = Cardinality(retries) + 1
        BY <2>2, <3>1, FS_AddElement
      <3> QED BY <2>2, <3>1, <3>2 DEF Budgets
    <2> QED BY <2>1, <2>2 DEF Books, RetriesGrow, Receipted
  <1>2. CASE reserved' = reserved
    BY <1>1, <1>2 DEF Finite, Budgets, ReservedOf
  <1>3. ASSUME NEW s \in Stages, Charge(s) PROVE Finite' /\ Budgets'
    <2> DEFINE x == <<s, Att(s)>>
    <2>1. /\ reserved' = reserved \cup {x} /\ IsFiniteSet(reserved)
          /\ Cardinality(reserved) \in Nat
      BY <1>3, FS_CardinalityType DEF Charge, Finite
    <2>2. x[1] = s  OBVIOUS
    <2> HIDE DEF x
    <2>3. /\ IsFiniteSet(reserved')
          /\ \/ Cardinality(reserved') = Cardinality(reserved)
             \/ Cardinality(reserved') = Cardinality(reserved) + 1
      BY <2>1, FS_AddElement
    <2>4. Cardinality(reserved') <= PlanBudget
      BY <1>3, <2>1, <2>3 DEF Charge, Budgets
    <2>5. ASSUME NEW t \in Stages PROVE Cardinality(ReservedOf(t)') <= StageBudget
      <3>1. IsFiniteSet(ReservedOf(t)) /\ Cardinality(ReservedOf(t)) \in Nat
        <4>1. IsFiniteSet(ReservedOf(t))  BY <2>1, FS_Subset DEF ReservedOf
        <4> QED BY <4>1, FS_CardinalityType
      <3>2. CASE t = s
        <4>1. ReservedOf(t)' = ReservedOf(t) \cup {x}
          BY <2>1, <2>2, <3>2 DEF ReservedOf
        <4>2. \/ Cardinality(ReservedOf(t)') = Cardinality(ReservedOf(t))
              \/ Cardinality(ReservedOf(t)') = Cardinality(ReservedOf(t)) + 1
          BY <3>1, <4>1, FS_AddElement
        <4> QED BY <1>3, <3>1, <3>2, <4>2 DEF Charge, Budgets
      <3>3. CASE t # s
        <4>1. ReservedOf(t)' = ReservedOf(t)  BY <2>1, <2>2, <3>3 DEF ReservedOf
        <4> QED BY <4>1 DEF Budgets
      <3> QED BY <3>2, <3>3
    <2> QED BY <1>1, <2>3, <2>4, <2>5 DEF Finite, Budgets
  <1> QED BY <1>2, <1>3 DEF Books, ChargesGrow

LEMMA ChargedStep ==
    ASSUME Typed, Typed', Safe, Move, Books, Paid, Finite, OneStageAtATime, WorkIsCharged
    PROVE  Finite' /\ WorkIsCharged'
  <1>1. Budgets  BY DEF WorkIsCharged, Budgets, ReservedOf
  <1>2. Finite' /\ Budgets'  BY <1>1, CountsStep
  <1>3. reserved \subseteq reserved'  BY DEF Books, ChargesGrow, Charge
  <1>4. flying' \cup landed' \subseteq reserved'
    <2>1. CASE flying' \cup landed' \subseteq flying \cup landed
      BY <1>3, <2>1 DEF WorkIsCharged
    <2>2. ASSUME NEW s \in Stages, MSend(s) PROVE flying' \cup landed' \subseteq reserved'
      <3>1. <<s, Att(s)>> \in reserved  BY <2>2 DEF MSend, Paid, PaidRow, Intended
      <3> QED BY <1>3, <2>2, <3>1 DEF MSend, WorkIsCharged
    <2> QED BY <2>1, <2>2 DEF Move, MIdle, MWorld, MClose, MClaim, MDone, MFail, MShelve,
        MMark, MSettle
  <1>5. ASSUME NEW i \in 1..Len(checkpoints')
        PROVE  <<checkpoints'[i], stage'[checkpoints'[i]].attempt>> \in reserved'
    <2>1. checkpoints \in Seq(Stages) /\ Len(checkpoints) \in Nat  BY DEF Typed
    <2>2. CASE i \in 1..Len(checkpoints) /\ checkpoints'[i] = checkpoints[i]
      <3> DEFINE s == checkpoints[i]
      <3>1. s \in Stages /\ St(s) = "complete" /\ <<s, Att(s)>> \in reserved
        BY <2>1, <2>2 DEF OneStageAtATime, WorkIsCharged, St, Att
      <3> HIDE DEF s
      <3>2. stage'[s].attempt = Att(s)  BY <3>1, Columns
      <3> QED BY <1>3, <2>2, <3>1, <3>2 DEF s
    <2>3. ASSUME NEW s \in Stages, checkpoints' = Append(checkpoints, s), stage[s].paid,
                 i = Len(checkpoints) + 1
          PROVE  <<checkpoints'[i], stage'[checkpoints'[i]].attempt>> \in reserved'
      <3>1. checkpoints'[i] = s /\ checkpoints' # checkpoints  BY <2>1, <2>3
      <3>2. PICK t \in Stages : MDone(t)
        BY <3>1 DEF Move, MIdle, MWorld, MClose, MClaim, MSend, MFail, MShelve, MMark, MSettle
      <3>3. t = s
        <4>1. checkpoints'[Len(checkpoints) + 1] = t  BY <2>1, <3>2 DEF MDone
        <4> QED BY <2>3, <3>1, <4>1
      <3>4. stage'[s].attempt = Att(s)  BY <3>2, <3>3 DEF MDone, Moves
      <3>5. <<s, Att(s)>> \in reserved  BY <2>3 DEF Paid, PaidRow
      <3> QED BY <1>3, <3>1, <3>4, <3>5
    <2>4. CASE checkpoints' = checkpoints  BY <2>2, <2>4
    <2>5. ASSUME NEW s \in Stages, checkpoints' = Append(checkpoints, s)
          PROVE  \/ i \in 1..Len(checkpoints) /\ checkpoints'[i] = checkpoints[i]
                 \/ i = Len(checkpoints) + 1
      BY <2>1, <2>5
    <2> QED BY <2>2, <2>3, <2>4, <2>5 DEF Books, PaidChecks
  <1> QED BY <1>2, <1>4, <1>5 DEF WorkIsCharged, Budgets, ReservedOf

-----------------------------------------------------------------------------
(* Completion *)
\* A complete plan is left alone but for its clock and the operator's switch.
LEMMA CompleteStays ==
    ASSUME Typed, Safe, status = "complete", [Next]_vars
    PROVE  /\ UNCHANGED <<receipts, checkpoints, verdicts>>
           /\ \A s \in Stages : stage'[s].executor = stage[s].executor
           /\ landed \subseteq landed'
  <1>1. \A s \in Stages : St(s) = "complete"  BY DEF Safe, Core, CompleteIsDone
  <1>2. ASSUME NEW w \in Workers, NEW s \in Stages, WorkerStep(w, s) PROVE FALSE
    BY <1>1, <1>2 DEF WorkerStep, ClaimPending, ClaimExpired, ReserveUsage, RecordIntent,
       AuthorizeEffect, ConsumePermit, Checkpoint, RecordResult, Holds, St
  <1>3. ASSUME NEW s \in Stages, ShelveExpired(s) \/ PauseReclaim(s)
                 \/ \E r \in Reconcilers, o \in Results : Reconcile(r, s, o)
        PROVE  FALSE
    BY <1>1, <1>3 DEF ShelveExpired, PauseReclaim, Reconcile, St
  <1>4. ~Pause /\ ~Cancel /\ ~Resume /\ \A v \in Verifiers, p \in BOOLEAN : ~Verify(v, p)
    BY DEF Pause, Cancel, Resume, Verify
  <1>5. CASE Switch \/ TimeRunsOut \/ (\E e \in flying : Land(e) \/ Lose(e)) \/ UNCHANGED vars
    BY <1>5 DEF Switch, TimeRunsOut, Land, Lose, books, plan, world, vars
  <1>6. ASSUME NEW s \in Stages, LeaseLapses(s) \/ PermitLapses(s)
        PROVE  /\ UNCHANGED <<receipts, checkpoints, verdicts, landed>>
               /\ \A t \in Stages : stage'[t].executor = stage[t].executor
    <2>1. \/ stage' = [stage EXCEPT ![s].live = FALSE]
          \/ stage' = [stage EXCEPT ![s].permit = FALSE]
      BY <1>6 DEF LeaseLapses, PermitLapses
    <2>2. stage[s] \in Row /\ stage \in [Stages -> Row]  BY DEF Typed
    <2>3. /\ [stage[s] EXCEPT !.live = FALSE].executor = stage[s].executor
          /\ [stage[s] EXCEPT !.permit = FALSE].executor = stage[s].executor
      BY <2>2 DEF Row
    <2> QED BY <1>6, <2>1, <2>2, <2>3 DEF LeaseLapses, PermitLapses, books, world
  <1> QED BY <1>2, <1>3, <1>4, <1>5, <1>6 DEF Next, OperatorStep, Passing

\* Only a passed verification completes a plan.
LEMMA OnlyVerified ==
    ASSUME Typed, status # "complete", status' = "complete", [Next]_vars
    PROVE  \E v \in Verifiers : Verify(v, TRUE)
  <1>1. ASSUME NEW w \in Workers, NEW s \in Stages, WorkerStep(w, s) PROVE FALSE
    <2>1. ASSUME NEW a \in Actors, NEW o \in Results, RecordResult(w, s, a, o)
          PROVE  status' \in {status, "failed"}
      BY <2>1 DEF RecordResult, ConsumeRetry
    <2>2. CASE ClaimPending(w, s) \/ ClaimExpired(w, s) \/ ReserveUsage(w, s)
      BY <2>2 DEF ClaimPending, ClaimExpired, ReserveUsage, ConsumeRetry, plan
    <2>3. ASSUME NEW a \in Actors, \/ RecordIntent(w, s, a) \/ AuthorizeEffect(w, s, a)
                                   \/ ConsumePermit(w, s, a) \/ Checkpoint(w, s, a)
          PROVE  FALSE
      BY <2>3 DEF RecordIntent, AuthorizeEffect, ConsumePermit, Checkpoint, plan
    <2> QED BY <1>1, <2>1, <2>2, <2>3 DEF WorkerStep
  <1>2. ASSUME NEW s \in Stages, ShelveExpired(s) \/ PauseReclaim(s)
                 \/ \E r \in Reconcilers, o \in Results : Reconcile(r, s, o)
        PROVE  FALSE
    BY <1>2 DEF ShelveExpired, PauseReclaim, Reconcile, ConsumeRetry, plan
  <1>3. ~Pause /\ ~Cancel /\ ~Resume /\ ~Switch /\ ~Passing /\ ~UNCHANGED vars
    BY DEF Pause, Cancel, Resume, Switch, Passing, TimeRunsOut, Land, Lose, LeaseLapses,
       PermitLapses, plan, vars
  <1>4. PICK v \in Verifiers, p \in BOOLEAN : Verify(v, p)
    BY <1>1, <1>2, <1>3 DEF Next, OperatorStep
  <1>5. p = TRUE  BY <1>4 DEF Verify
  <1> QED BY <1>4, <1>5

LEMMA CompletionStep ==
    ASSUME Typed, Typed', Safe, CompletionIsEarned, [Next]_vars
    PROVE  CompletionIsEarned'
  <1> SUFFICES ASSUME status' = "complete"
               PROVE  /\ Len(checkpoints') = N
                      /\ \A s \in Mutating : EffectsOf(s, landed') # {}
                      /\ \E v \in verdicts' : v.passed /\ v.by \notin (Executors \cup ReceiptActors)'
    BY DEF CompletionIsEarned, EffectsOf
  <1>1. CASE status = "complete"
    <2>1. /\ UNCHANGED <<receipts, checkpoints, verdicts>> /\ landed \subseteq landed'
          /\ \A s \in Stages : stage'[s].executor = stage[s].executor
      BY <1>1, CompleteStays
    <2>2. Executors' = Executors /\ ReceiptActors' = ReceiptActors
      BY <2>1 DEF Executors, ReceiptActors
    <2> QED BY <1>1, <2>1, <2>2 DEF CompletionIsEarned, EffectsOf
  <1>2. CASE status # "complete"
    <2>1. PICK v \in Verifiers : Verify(v, TRUE)  BY <1>2, OnlyVerified
    <2>2. \A s \in Stages : St(s) = "complete"  BY <2>1 DEF Verify, St
    <2>3. Len(checkpoints) = N
      <3>1. Len(checkpoints) \in Nat /\ Len(checkpoints) <= N /\ N \in Nat
        BY PlanAssumption DEF Typed, Safe, Core, PrefixDone
      <3>2. N \in Stages => N <= Len(checkpoints)  BY <2>2 DEF Safe, Core, PrefixDone
      <3> QED BY <3>1, <3>2 DEF Stages
    <2>4. ASSUME NEW s \in Mutating PROVE EffectsOf(s, landed) # {}
      <3>1. s \in Stages  BY PlanAssumption
      <3>2. Mut(s) \in Applied
        BY <2>1, <2>2, <3>1 DEF Verify, Readable, ChainValid, St, Mut, Applied
      <3>3. Landed(s)  BY <3>1, <3>2 DEF Safe, Core, AppliedLanded
      <3> QED BY <3>3 DEF Landed, EffectsOf
    <2>5. UNCHANGED <<checkpoints, landed, stage, receipts>>  BY <2>1 DEF Verify, world
    <2>6. [by |-> v, passed |-> TRUE] \in verdicts' /\ v \notin Executors \cup ReceiptActors
      BY <2>1 DEF Verify, Independent
    <2>7. (Executors \cup ReceiptActors)' = Executors \cup ReceiptActors
      BY <2>5 DEF Executors, ReceiptActors
    <2> QED BY <2>3, <2>4, <2>5, <2>6, <2>7
  <1> QED BY <1>1, <1>2

-----------------------------------------------------------------------------
LEMMA AccountsInit == Init => Accounts
  <1> SUFFICES ASSUME Init PROVE Accounts  OBVIOUS
  <1>1. \A s \in Stages : /\ St(s) = "pending" /\ Att(s) = 0 /\ ~stage[s].paid
                          /\ receipts[s] = <<>>
    BY DEF Init, NewStage, St, Att
  <1>2. /\ checkpoints = <<>> /\ Len(checkpoints) = 0 /\ flying = {} /\ landed = {}
        /\ retries = {} /\ reserved = {} /\ status = "active"
    BY DEF Init
  <1>3. Paid  BY <1>1 DEF Paid, PaidRow
  <1>4. Settled  BY <1>1 DEF Settled
  <1>5. Finite /\ Cardinality(reserved) = 0 /\ Cardinality(retries) = 0
    BY <1>2, FS_EmptySet DEF Finite
  <1>6. \A s \in Stages : Cardinality({r \in reserved : r[1] = s}) = 0
    <2>1. \A s \in Stages : {r \in reserved : r[1] = s} = {}  BY <1>2
    <2> QED BY <2>1, FS_EmptySet
  <1>7. OneStageAtATime  BY <1>1, <1>2 DEF OneStageAtATime, St, Att
  <1>8. WorkIsCharged  BY <1>2, <1>5, <1>6, PlanAssumption DEF WorkIsCharged
  <1>9. CompletionIsEarned  BY <1>2 DEF CompletionIsEarned
  <1> QED BY <1>3, <1>4, <1>5, <1>7, <1>8, <1>9 DEF Accounts

LEMMA AccountsStep == Typed /\ Safe /\ Accounts /\ [Next]_vars => Accounts'
  <1> SUFFICES ASSUME Typed, Safe, Accounts, [Next]_vars PROVE Accounts'  OBVIOUS
  <1>1. Typed' /\ Safe' /\ Move /\ Books
    BY TypedStep, SafeStep, NextMoves, NextBooks
  <1>2. Paid'  BY PaidStep DEF Accounts
  <1>3. Settled'  BY <1>1, SettledStep DEF Accounts
  <1>4. Finite' /\ WorkIsCharged'  BY <1>1, ChargedStep DEF Accounts
  <1>5. OneStageAtATime'  BY <1>1, OrderStep DEF Accounts
  <1>6. CompletionIsEarned'  BY <1>1, CompletionStep DEF Accounts
  <1> QED BY <1>2, <1>3, <1>4, <1>5, <1>6 DEF Accounts

LEMMA PlanAccounts == Spec => [](Typed /\ Safe /\ Accounts)
  BY TypedInit, SafeInit, AccountsInit, SafeStep, AccountsStep, PTL DEF Spec

\* No attempt of any plan is free: each one but the current was retried against
\* the budget or reconciled as applied, and the one under way is not yet spent.
THEOREM PlanPaysAttempts == Spec => []AttemptsArePaid
  <1>1. Typed /\ Safe /\ Accounts => AttemptsArePaid  BY SettledPays DEF Accounts
  <1> QED BY <1>1, PlanAccounts, PTL

\* Stages run in order, one at a time, and the checkpoints are the completed prefix.
THEOREM PlanKeepsOrder == Spec => []OneStageAtATime
  <1>1. Accounts => OneStageAtATime  BY DEF Accounts
  <1> QED BY <1>1, PlanAccounts, PTL

\* Whatever was sent or checkpointed was charged first, within every budget.
THEOREM PlanChargesWork == Spec => []WorkIsCharged
  <1>1. Accounts => WorkIsCharged  BY DEF Accounts
  <1> QED BY <1>1, PlanAccounts, PTL

\* A complete plan has every checkpoint, every effect and an independent verdict.
THEOREM PlanEarnsCompletion == Spec => []CompletionIsEarned
  <1>1. Accounts => CompletionIsEarned  BY DEF Accounts
  <1> QED BY <1>1, PlanAccounts, PTL
====

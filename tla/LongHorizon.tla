---- MODULE LongHorizon ----
(* One registered workflow plan of src/jarvis/long_horizon.py: ordered stages,  *)
(* leases, usage reservations, retry receipts, mutation receipts, signed        *)
(* reconciliation, operator controls and the final verification. Every store    *)
(* call runs in one BEGIN IMMEDIATE transaction (line 753) and is one action.   *)
(*                                                                              *)
(* Lease lengths are the caller's choice, so a lease or a permit may lapse at   *)
(* any moment: `live` and `permit` say whether it still stands. A lease token   *)
(* is fresh at each claim, as is attempt_count, which stands for it. Each       *)
(* reservation charges one unit. `flying` and `landed` are the outside world:   *)
(* the effects a consumed permit let go, and those that took place.             *)
EXTENDS Naturals, FiniteSets, Sequences

CONSTANTS
    Workers,        \* processes that claim stages
    N,              \* the plan has the stages 1..N
    Mutating,       \* the stages whose mutation_kind is not "none"
    Actors,         \* executor identities
    Reconcilers,    \* authorities for mutation_reconciliation
    Verifiers,      \* authorities for final_verification
    StageRetries, PlanRetries,   \* retry budgets
    StageBudget, PlanBudget,     \* usage budgets
    MaxRounds,      \* bound: reconciliation rounds in one generation
    Patient         \* a reconciler signs only once no effect is in flight

Stages == 1..N

ASSUME PlanAssumption ==
    /\ N \in Nat /\ Mutating \subseteq Stages
    /\ StageRetries \in Nat /\ PlanRetries \in Nat
    /\ StageBudget \in Nat /\ PlanBudget \in Nat
    /\ MaxRounds \in Nat /\ Patient \in BOOLEAN

VARIABLES
    status,       \* long_horizon_plans.status
    late,         \* the elapsed-time budget has run out
    control,      \* runtime_control.state
    stage,        \* the rows of long_horizon_stages
    receipts,     \* per stage, long_horizon_mutation_receipts in order
    retries,      \* long_horizon_retry_receipts
    reserved,     \* long_horizon_usage_reservations, <<stage, attempt>>
    checkpoints,  \* long_horizon_checkpoints, in sequence
    verdicts,     \* long_horizon_final_verifications
    hand,         \* the stage and token a worker last got from a claim
    flying, landed

plan == <<status, late, control>>
books == <<receipts, retries, reserved, checkpoints, verdicts>>
world == <<flying, landed>>
vars == <<status, late, control, stage, receipts, retries, reserved,
          checkpoints, verdicts, hand, flying, landed>>

Nobody == "nobody"
StageStates == {"pending", "claimed", "awaiting_reconciliation", "complete",
                "failed", "cancelled"}
Results == {"applied", "not_applied", "uncertain"}
Result(o) == CASE o = "applied" -> "result_applied"
               [] o = "not_applied" -> "result_not_applied"
               [] OTHER -> "result_uncertain"
Reconciled(o) == CASE o = "applied" -> "reconciled_applied"
                   [] o = "not_applied" -> "reconciled_not_applied"
                   [] OTHER -> "reconciled_uncertain"
MutationStates == {"none", "intent_recorded", "effect_authorized", "effect_in_progress"}
                    \cup {"result_applied", "result_not_applied", "result_uncertain"}
                    \cup {"reconciled_applied", "reconciled_not_applied",
                          "reconciled_uncertain"}

NewStage == [st |-> "pending", mut |-> "none", attempt |-> 0, owner |-> Nobody,
             live |-> FALSE, permit |-> FALSE, paid |-> FALSE, executor |-> Nobody]

\* create_plan has registered the plan.
Init ==
    /\ status = "active" /\ late = FALSE /\ control = "running"
    /\ stage = [s \in Stages |-> NewStage]
    /\ receipts = [s \in Stages |-> <<>>]
    /\ retries = {} /\ reserved = {} /\ checkpoints = <<>> /\ verdicts = {}
    /\ hand = [w \in Workers |-> <<0, 0>>]
    /\ flying = {} /\ landed = {}

-----------------------------------------------------------------------------
(* _validate_mutation_chains_locked, which every call runs first. The other    *)
(* validators compare two records of one write and pass unless a row is edited *)
(* behind the store's back.                                                    *)
Generation(s, g) == SelectSeq(receipts[s], LAMBDA r : r.gen = g)
Generations(s) == {receipts[s][i].gen : i \in 1..Len(receipts[s])}
ProperStarts == {<<"intent">>, <<"intent", "authorization">>,
                 <<"intent", "authorization", "effect_permit">>,
                 <<"intent", "authorization", "effect_permit", "result">>}
WellOrdered(es) ==
    \E k \in 1..Len(es) :
        /\ [i \in 1..k |-> es[i].event] \in ProperStarts
        /\ \A i \in (k + 1)..Len(es) : es[i].event = "reconciliation"
OneActor(es) ==
    \A i \in 1..Len(es) : es[i].event = "reconciliation" \/ es[i].actor = es[1].actor
NotDowngraded(es) ==
    \A i, j \in 1..Len(es) : (i < j /\ es[i].outcome = "applied") => es[j].outcome = "applied"
StateAfter(e) ==
    CASE e.event = "intent" -> "intent_recorded"
      [] e.event = "authorization" -> "effect_authorized"
      [] e.event = "effect_permit" -> "effect_in_progress"
      [] e.event = "result" -> Result(e.outcome)
      [] OTHER -> Reconciled(e.outcome)
Derived(s) == IF receipts[s] = <<>> THEN "none"
              ELSE StateAfter(receipts[s][Len(receipts[s])])
ChainValid(s) ==
    IF s \notin Mutating THEN receipts[s] = <<>> /\ stage[s].mut = "none"
    ELSE /\ \A g \in Generations(s) :
              LET es == Generation(s, g) IN
                /\ WellOrdered(es) /\ OneActor(es) /\ NotDowngraded(es)
                /\ (\E h \in Generations(s) : h > g)
                     => StateAfter(es[Len(es)])
                          \in {"result_not_applied", "reconciled_not_applied"}
         /\ stage[s].mut = Derived(s)
         /\ stage[s].st = "complete"
              => Derived(s) \in {"result_applied", "reconciled_applied"}
Readable == \A s \in Stages : ChainValid(s)

-----------------------------------------------------------------------------
Runnable == control = "running" /\ status = "active" /\ ~late /\ Readable

\* Mutants: any open stage may be claimed; a token fits any attempt of its stage.
AnyOpen(s) == stage[s].st # "complete"
StaleTokenFits(w, s) == hand[w][1] = s
\* The first stage that is not complete.
Frontier(s) == /\ stage[s].st # "complete"
               /\ \A t \in 1..(s - 1) : stage[t].st = "complete"

\* _claimed_stage_locked: the caller's token is the one of the current claim.
TokenFits(w, s) == hand[w] = <<s, stage[s].attempt>>
Holds(w, s) == /\ stage[s].st = "claimed" /\ stage[s].owner = w
               /\ TokenFits(w, s) /\ stage[s].live

\* Mutant: a crash while the effect is in progress is an ordinary expiry.
Overlooked == {"intent_recorded", "effect_authorized", "result_uncertain",
               "result_applied"}
\* A claimed stage in one of these may have touched the world.
Unsettled == {"intent_recorded", "effect_authorized", "effect_in_progress",
              "result_uncertain", "result_applied"}
Ambiguous == Unsettled \cup {"reconciled_uncertain"}
MayIntend == {"none", "reconciled_not_applied", "result_not_applied"}

\* Mutant: the reservation of the attempt before is kept.
LeasedPaid(s, w) == [stage[s] EXCEPT !.st = "claimed", !.owner = w, !.live = TRUE,
                                     !.attempt = @ + 1]
Leased(s, w) == [stage[s] EXCEPT !.st = "claimed", !.owner = w, !.live = TRUE,
                                 !.attempt = @ + 1, !.paid = FALSE]
Released(row, st) == [row EXCEPT !.st = st, !.owner = Nobody, !.live = FALSE]

\* _consume_retry_locked: a receipt for this attempt, or, when a budget is used
\* up, plan and stage fail and the failure is committed. `row` is the stage as
\* the caller leaves it if the retry is granted, `lost` the row it fails from.
RetriesOf(s) == {r \in retries : r.stage = s}
RetryLeft(s) == /\ Cardinality(retries) + 1 <= PlanRetries
                /\ Cardinality(RetriesOf(s)) + 1 <= StageRetries
Unspent(s) == \A r \in RetriesOf(s) : r.attempt # stage[s].attempt
ConsumeRetry(s, why, row, lost) ==
    IF RetryLeft(s)
    THEN /\ Unspent(s)
         /\ retries' = retries \cup {[stage |-> s, attempt |-> stage[s].attempt,
                                      reason |-> why]}
         /\ stage' = [stage EXCEPT ![s] = row]
         /\ UNCHANGED status
    ELSE /\ status' = "failed"
         /\ stage' = [stage EXCEPT ![s] = [lost EXCEPT !.st = "failed"]]
         /\ UNCHANGED retries

-----------------------------------------------------------------------------
(* claim_next_stage *)
\* The token may go to another process under the same worker id, or be lost.
Grip(w, s) == hand' \in {hand, [hand EXCEPT ![w] = <<s, stage[s].attempt + 1>>]}

ClaimPending(w, s) ==
    /\ stage[s].st = "pending" /\ Frontier(s) /\ Runnable
    /\ stage' = [stage EXCEPT ![s] = Leased(s, w)]
    /\ Grip(w, s)
    /\ UNCHANGED <<plan, books, world>>

\* An expired claim that may have touched the world goes to reconciliation.
ShelveExpired(s) ==
    /\ stage[s].st = "claimed" /\ ~stage[s].live /\ Frontier(s) /\ Runnable
    /\ stage[s].mut \in Unsettled
    /\ stage' = [stage EXCEPT ![s] = Released(@, "awaiting_reconciliation")]
    /\ UNCHANGED <<plan, books, hand, world>>

\* Any other expired claim costs a retry and is taken over.
ClaimExpired(w, s) ==
    /\ stage[s].st = "claimed" /\ ~stage[s].live /\ Frontier(s) /\ Runnable
    /\ stage[s].mut \notin Unsettled
    /\ ConsumeRetry(s, "lease_expired", Leased(s, w), stage[s])
    /\ IF RetryLeft(s) THEN Grip(w, s) ELSE UNCHANGED hand
    /\ UNCHANGED <<late, control, receipts, reserved, checkpoints, verdicts, world>>

(* reserve_stage_usage; asked again for the same claim it changes nothing *)
ReserveUsage(w, s) ==
    /\ Holds(w, s) /\ Runnable /\ ~stage[s].paid
    /\ Cardinality({r \in reserved : r[1] = s}) + 1 <= StageBudget
    /\ Cardinality(reserved) + 1 <= PlanBudget
    /\ reserved' = reserved \cup {<<s, stage[s].attempt>>}
    /\ stage' = [stage EXCEPT ![s].paid = TRUE]
    /\ UNCHANGED <<plan, receipts, retries, checkpoints, verdicts, hand, world>>

Log(s, event, outcome, actor) ==
    receipts' = [receipts EXCEPT ![s] =
        Append(@, [gen |-> stage[s].attempt, event |-> event,
                   outcome |-> outcome, actor |-> actor])]

(* record_mutation_intent: the stage's mutation_kind is not looked at *)
RecordIntent(w, s, a) ==
    /\ Holds(w, s) /\ Runnable /\ stage[s].paid /\ stage[s].mut \in MayIntend
    /\ Log(s, "intent", "none", a)
    /\ stage' = [stage EXCEPT ![s].mut = "intent_recorded"]
    /\ UNCHANGED <<plan, retries, reserved, checkpoints, verdicts, hand, world>>

IntentBy(s, a) ==
    \E i \in 1..Len(receipts[s]) :
        /\ receipts[s][i].gen = stage[s].attempt
        /\ receipts[s][i].event = "intent" /\ receipts[s][i].actor = a

(* authorize_mutation_effect *)
AuthorizeEffect(w, s, a) ==
    /\ Holds(w, s) /\ Runnable /\ stage[s].mut = "intent_recorded" /\ IntentBy(s, a)
    /\ Log(s, "authorization", "none", a)
    /\ stage' = [stage EXCEPT ![s].mut = "effect_authorized", ![s].permit = TRUE]
    /\ UNCHANGED <<plan, retries, reserved, checkpoints, verdicts, hand, world>>

(* consume_mutation_effect_authorization; the caller sends the effect next *)
ConsumePermit(w, s, a) ==
    /\ Holds(w, s) /\ Runnable /\ stage[s].mut = "effect_authorized"
    /\ stage[s].permit /\ IntentBy(s, a)
    /\ Log(s, "effect_permit", "none", a)
    /\ stage' = [stage EXCEPT ![s].mut = "effect_in_progress", ![s].permit = FALSE]
    /\ flying' = flying \cup {<<s, stage[s].attempt>>}
    /\ UNCHANGED <<plan, retries, reserved, checkpoints, verdicts, hand, landed>>

\* What an honest worker may say of the attempt it took.
Observed(e, o) == /\ o = "applied" => e \in landed
                  /\ o = "not_applied" => e \notin flying \cup landed

(* record_mutation_result; asked again with the same receipt it changes nothing *)
RecordResult(w, s, a, o) ==
    /\ Holds(w, s) /\ Runnable /\ s \in Mutating
    /\ stage[s].mut = "effect_in_progress" /\ Observed(hand[w], o)
    /\ Log(s, "result", o, a)
    /\ LET row == [stage[s] EXCEPT !.mut = Result(o)] IN
         CASE o = "uncertain" ->
                /\ stage' = [stage EXCEPT ![s] = Released(row, "awaiting_reconciliation")]
                /\ UNCHANGED <<status, retries>>
           [] o = "not_applied" ->
                ConsumeRetry(s, "mutation_not_applied", Released(row, "pending"), row)
           [] OTHER -> /\ stage' = [stage EXCEPT ![s] = row]
                       /\ UNCHANGED <<status, retries>>
    /\ UNCHANGED <<late, control, reserved, checkpoints, verdicts, hand, world>>

LatestIntentBy(s, a) ==
    \E i \in 1..Len(receipts[s]) :
        /\ receipts[s][i].event = "intent" /\ receipts[s][i].actor = a
        /\ \A j \in (i + 1)..Len(receipts[s]) : receipts[s][j].event # "intent"

\* Mutant: a checkpoint does not wait for the result.
SentIsEnough(s) == stage[s].mut \in {"effect_in_progress", "result_applied",
                                     "reconciled_applied"}
Confirmed(s) == stage[s].mut \in {"result_applied", "reconciled_applied"}

(* record_checkpoint *)
Checkpoint(w, s, a) ==
    /\ Holds(w, s) /\ Runnable /\ stage[s].paid /\ s = Len(checkpoints) + 1
    /\ s \in Mutating => Confirmed(s) /\ LatestIntentBy(s, a)
    /\ checkpoints' = Append(checkpoints, s)
    /\ stage' = [stage EXCEPT ![s] = [Released(@, "complete") EXCEPT !.executor = a]]
    /\ UNCHANGED <<plan, receipts, retries, reserved, verdicts, hand, world>>

-----------------------------------------------------------------------------
(* reconcile_mutation *)
EffectsOf(s, set) == {e \in set : e[1] = s}
Truthful(s, o) ==
    /\ o = "applied" => EffectsOf(s, landed) # {}
    /\ o = "not_applied" => /\ EffectsOf(s, landed) = {}
                            /\ Patient => EffectsOf(s, flying) = {}
Reconcilable == Ambiguous \cup {"reconciled_applied"}
RoundsOf(s) == {i \in 1..Len(receipts[s]) : /\ receipts[s][i].gen = stage[s].attempt
                                            /\ receipts[s][i].event = "reconciliation"}
Upheld(s, o) == Confirmed(s) => o = "applied"
\* Mutant: a settled stage takes over the plan's status.
RestsAsPlan == status
Resting == IF status = "cancelled" THEN "cancelled" ELSE "pending"

Reconcile(r, s, o) ==
    /\ s \in Mutating /\ stage[s].st \in {"claimed", "awaiting_reconciliation"}
    /\ stage[s].mut \in Reconcilable /\ Upheld(s, o)
    /\ \A i \in RoundsOf(s) : receipts[s][i].actor = r
    /\ Cardinality(RoundsOf(s)) < MaxRounds
    /\ Truthful(s, o) /\ Readable
    /\ Log(s, "reconciliation", o, r)
    /\ LET row == [stage[s] EXCEPT !.mut = Reconciled(o)] IN
         CASE o = "applied" -> /\ stage' = [stage EXCEPT ![s] = Released(row, Resting)]
                               /\ UNCHANGED <<status, retries>>
           [] o = "not_applied" ->
                ConsumeRetry(s, "reconciliation_not_applied", Released(row, Resting), row)
           [] OTHER -> /\ stage' = [stage EXCEPT ![s] =
                                      Released(row, "awaiting_reconciliation")]
                       /\ UNCHANGED <<status, retries>>
    /\ UNCHANGED <<late, control, reserved, checkpoints, verdicts, hand, world>>

-----------------------------------------------------------------------------
(* pause_plan, cancel_plan, resume_plan *)
\* Mutants: an unsettled claim is simply released; claims are left alone.
ReleaseAll(s, st) == IF stage[s].st \in {"pending", "claimed"}
                     THEN Released(stage[s], st) ELSE stage[s]
KeepClaims(s, st) == IF stage[s].st = "pending" THEN Released(stage[s], st) ELSE stage[s]
Closing(s, st) ==
    IF stage[s].st = "claimed" /\ stage[s].mut \in Ambiguous
    THEN Released(stage[s], "awaiting_reconciliation")
    ELSE IF stage[s].st \in {"pending", "claimed"} THEN Released(stage[s], st)
         ELSE stage[s]
Abandoned == {s \in Stages : stage[s].st = "claimed" /\ stage[s].mut \notin Ambiguous}

Pause ==
    /\ Readable /\ status \in {"active", "paused"} /\ Abandoned = {}
    /\ status' = "paused"
    /\ stage' = [s \in Stages |-> Closing(s, "pending")]
    /\ UNCHANGED <<late, control, books, hand, world>>

\* Taking a stage from a live worker costs a retry, or the whole plan.
PauseReclaim(s) ==
    /\ Readable /\ status \in {"active", "paused"} /\ Abandoned = {s}
    /\ IF RetryLeft(s)
       THEN /\ Unspent(s)
            /\ retries' = retries \cup {[stage |-> s, attempt |-> stage[s].attempt,
                                         reason |-> "pause_reclaim"]}
            /\ status' = "paused"
            /\ stage' = [t \in Stages |-> Closing(t, "pending")]
       ELSE /\ status' = "failed"
            /\ stage' = [stage EXCEPT ![s].st = "failed"]
            /\ UNCHANGED retries
    /\ UNCHANGED <<late, control, receipts, reserved, checkpoints, verdicts, hand, world>>

Cancel ==
    /\ Readable /\ status \in {"active", "paused"}
    /\ status' = "cancelled"
    /\ stage' = [s \in Stages |-> Closing(s, "cancelled")]
    /\ UNCHANGED <<late, control, books, hand, world>>

Resume ==
    /\ Readable /\ status = "paused" /\ control = "running"
    /\ status' = "active"
    /\ UNCHANGED <<late, control, stage, books, hand, world>>

(* record_final_verification *)
Executors == {stage[s].executor : s \in Stages}
ReceiptActors == UNION {{receipts[s][i].actor : i \in 1..Len(receipts[s])} : s \in Stages}
\* Mutant: only executors are ruled out.
NotExecutor(v) == v \notin Executors
Independent(v) == v \notin Executors \cup ReceiptActors
Verify(v, passed) ==
    /\ Readable /\ \A s \in Stages : stage[s].st = "complete"
    /\ Independent(v) /\ checkpoints # <<>> /\ status = "active"
    /\ [by |-> v, passed |-> passed] \notin verdicts
    /\ verdicts' = verdicts \cup {[by |-> v, passed |-> passed]}
    /\ status' = IF passed THEN "complete" ELSE status
    /\ UNCHANGED <<late, control, stage, receipts, retries, reserved, checkpoints,
                   hand, world>>

-----------------------------------------------------------------------------
(* The clock, the operator's global switch, and the world *)
LeaseLapses(s) ==
    /\ stage[s].live /\ stage' = [stage EXCEPT ![s].live = FALSE]
    /\ UNCHANGED <<plan, books, hand, world>>
PermitLapses(s) ==
    /\ stage[s].mut = "effect_authorized" /\ stage[s].permit
    /\ stage' = [stage EXCEPT ![s].permit = FALSE]
    /\ UNCHANGED <<plan, books, hand, world>>
TimeRunsOut == late = FALSE /\ late' = TRUE
               /\ UNCHANGED <<status, control, stage, books, hand, world>>
Switch == /\ control' = IF control = "running" THEN "paused" ELSE "running"
          /\ UNCHANGED <<status, late, stage, books, hand, world>>
Land(e) == /\ e \in flying /\ flying' = flying \ {e} /\ landed' = landed \cup {e}
           /\ UNCHANGED <<plan, stage, books, hand>>
Lose(e) == /\ e \in flying /\ flying' = flying \ {e}
           /\ UNCHANGED <<plan, stage, books, hand, landed>>

WorkerStep(w, s) ==
    \/ ClaimPending(w, s) \/ ClaimExpired(w, s) \/ ReserveUsage(w, s)
    \/ \E a \in Actors : \/ RecordIntent(w, s, a) \/ AuthorizeEffect(w, s, a)
                         \/ ConsumePermit(w, s, a) \/ Checkpoint(w, s, a)
                         \/ \E o \in Results : RecordResult(w, s, a, o)
OperatorStep == Pause \/ Cancel \/ Resume \/ Switch \/ (\E s \in Stages : PauseReclaim(s))
Passing == TimeRunsOut \/ (\E e \in flying : Land(e) \/ Lose(e))
             \/ (\E s \in Stages : LeaseLapses(s) \/ PermitLapses(s))
Next ==
    \/ \E w \in Workers, s \in Stages : WorkerStep(w, s)
    \/ \E s \in Stages : ShelveExpired(s)
    \/ \E r \in Reconcilers, s \in Stages, o \in Results : Reconcile(r, s, o)
    \/ \E v \in Verifiers, p \in BOOLEAN : Verify(v, p)
    \/ OperatorStep
    \/ Passing

Spec == Init /\ [][Next]_vars

-----------------------------------------------------------------------------
(* Properties *)

TypeOK ==
    /\ status \in {"active", "paused", "cancelled", "failed", "complete"}
    /\ late \in BOOLEAN /\ control \in {"running", "paused"}
    /\ stage \in [Stages -> [st : StageStates, mut : MutationStates, attempt : Nat,
                            owner : Workers \cup {Nobody}, live : BOOLEAN,
                            permit : BOOLEAN, paid : BOOLEAN,
                            executor : Actors \cup {Nobody}]]
    /\ receipts \in [Stages -> Seq([gen : Nat, event : {"intent", "authorization",
                        "effect_permit", "result", "reconciliation"},
                        outcome : Results \cup {"none"},
                        actor : Actors \cup Reconcilers])]
    /\ retries \subseteq [stage : Stages, attempt : Nat,
                          reason : {"lease_expired", "pause_reclaim",
                            "mutation_not_applied", "reconciliation_not_applied"}]
    /\ reserved \subseteq Stages \X Nat
    /\ checkpoints \in Seq(Stages)
    /\ verdicts \subseteq [by : Verifiers, passed : BOOLEAN]
    /\ hand \in [Workers -> Nat \X Nat]
    /\ flying \subseteq Stages \X Nat /\ landed \subseteq Stages \X Nat

\* However claims expire, workers die, operators pause and answers come late, a
\* stage's effect reaches the world at most once, and never twice in flight: a
\* new permit is consumed only after the earlier attempt is known to have left
\* nothing (claim_next_stage, reconcile_mutation). It rests on reconcilers that
\* wait for an effect in flight: see Patient.
EffectAtMostOnce ==
    \A e, f \in flying \cup landed : e[1] = f[1] => e = f

\* A retry receipt is only ever written for an attempt that left nothing in the
\* world: an expired, paused or answered attempt that may have acted is kept for
\* reconciliation and is never an ordinary retry (_consume_retry_locked).
RetriesLeaveNothing ==
    \A r \in retries : <<r.stage, r.attempt>> \notin flying \cup landed

\* No attempt is free: each one but the current has its retry receipt, except
\* one that was reconciled as applied and is handed out again to be
\* checkpointed; and the attempt under way has none yet, so the UNIQUE
\* constraint on retry receipts never refuses one.
AppliedAt(s, g) ==
    \E i \in 1..Len(receipts[s]) : /\ receipts[s][i].gen = g
                                   /\ receipts[s][i].event = "reconciliation"
                                   /\ receipts[s][i].outcome = "applied"
RetriedAt(s, g) == \E r \in RetriesOf(s) : r.attempt = g
AttemptsArePaid ==
    \A s \in Stages :
        /\ \A g \in 1..(stage[s].attempt - 1) : RetriedAt(s, g) \/ AppliedAt(s, g)
        /\ stage[s].st \in {"claimed", "awaiting_reconciliation"}
             => ~RetriedAt(s, stage[s].attempt)

\* Whatever took the plan out of work (pause, cancel, failure, completion), no
\* stage of it is left with a worker that could go on (_set_plan_control,
\* _consume_retry_locked, reconcile_mutation, record_final_verification).
NoClaimOutlivesThePlan ==
    status # "active" => \A s \in Stages : stage[s].st # "claimed"

\* Stages run in order, one at a time: a stage past the first open one has never
\* been handed out, written to or charged, and the checkpoint chain is exactly
\* the completed prefix (claim_next_stage, record_checkpoint).
OneStageAtATime ==
    /\ \A i \in 1..Len(checkpoints) : checkpoints[i] = i /\ stage[i].st = "complete"
    /\ \A s \in Stages : s > Len(checkpoints) + 1
         => /\ stage[s].attempt = 0 /\ receipts[s] = <<>>
            /\ stage[s].st \in {"pending", "cancelled"}
            /\ \A r \in reserved : r[1] # s

\* What is sent or checkpointed was charged first, and no budget is overdrawn,
\* across restarts, retries and reconciliations (reserve_stage_usage).
WorkIsCharged ==
    /\ flying \cup landed \subseteq reserved
    /\ \A i \in 1..Len(checkpoints) :
         <<checkpoints[i], stage[checkpoints[i]].attempt>> \in reserved
    /\ Cardinality(reserved) <= PlanBudget
    /\ \A s \in Stages : Cardinality({r \in reserved : r[1] = s}) <= StageBudget
    /\ Cardinality(retries) <= PlanRetries

\* A plan that says complete is: every stage is checkpointed, each mutating
\* stage's effect is in the world, and a verifier that neither ran, nor
\* reconciled any part of it has passed it (record_final_verification).
CompletionIsEarned ==
    status = "complete" =>
        /\ Len(checkpoints) = N
        /\ \A s \in Mutating : EffectsOf(s, landed) # {}
        /\ \E v \in verdicts : v.passed /\ v.by \notin Executors \cup ReceiptActors

\* docs/LONG_HORIZON_WORKFLOWS.md:90 says cancel is terminal.
CancelIsTerminal == [][status = "cancelled" => status' = "cancelled"]_vars

\* The store's own calls leave receipts that its validators accept.
PlanStaysReadable == Readable

EffectState(s) == IF EffectsOf(s, landed) # {} THEN "landed"
                  ELSE IF EffectsOf(s, flying) # {} THEN "sent" ELSE "absent"
PlanOutcome == IF status \in {"active", "paused"} THEN "open"
               ELSE IF status = "complete" THEN "complete" ELSE "ended"
Ledger == INSTANCE StageLedger WITH
    N <- N, Mutating <- Mutating, effect <- [s \in Stages |-> EffectState(s)],
    done <- Len(checkpoints), outcome <- PlanOutcome

\* Leases, receipts, retries and controls add up to the abstract ledger: one
\* effect per stage, sent while the plan is open, in order, and checkpointed
\* only once it took place.
KeepsLedger == Ledger!Spec
====

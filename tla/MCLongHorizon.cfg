SPECIFICATION Spec
CONSTANTS w1 = w1 w2 = w2 a1 = a1 a2 = a2 r1 = r1 r2 = r2 v1 = v1
  Workers = {w1, w2} N = 2 Mutating <- Second
  Actors = {a1} Reconcilers = {r1} Verifiers = {v1, r1}
  StageRetries = 2 PlanRetries = 2 StageBudget = 3 PlanBudget = 3
  MaxRounds = 1 Patient = TRUE
SYMMETRY Symmetric
INVARIANTS TypeOK EffectAtMostOnce RetriesLeaveNothing AttemptsArePaid NoClaimOutlivesThePlan OneStageAtATime WorkIsCharged CompletionIsEarned
PROPERTIES KeepsLedger

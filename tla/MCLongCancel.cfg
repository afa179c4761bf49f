SPECIFICATION Spec
CONSTANTS w1 = w1 w2 = w2 a1 = a1 a2 = a2 r1 = r1 r2 = r2 v1 = v1
  Workers = {w1} N = 1 Mutating <- First
  Actors = {a1} Reconcilers = {r1} Verifiers = {v1}
  StageRetries = 0 PlanRetries = 2 StageBudget = 2 PlanBudget = 3
  MaxRounds = 2 Patient = TRUE
PROPERTIES CancelIsTerminal

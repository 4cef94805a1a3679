SPECIFICATION Spec
CONSTANTS
  Apm = TRUE
  Mission = TRUE
  Plans <- MCTwoPlans
  MaxCount = 2
  MaxRetry = 5
  Lossy = TRUE
  Duplicates = FALSE
  Prompt = FALSE
  Capacity = 2
INVARIANTS WrittenPlanIsStored

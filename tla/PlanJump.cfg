SPECIFICATION Spec
CONSTANTS
  Apm = FALSE
  Mission = TRUE
  Plans <- MCPlans
  MaxCount = 3
  MaxRetry = 1
  Lossy = FALSE
  Duplicates = FALSE
  Prompt = TRUE
  Capacity = 2
INVARIANTS KnownPlanIsTheVehicles

SPECIFICATION GuidanceSpec
CONSTANTS
  Truths <- MCTruths
  Tried <- MCTried
  Loaded <- MCLoaded
  MaxEpochs = 3
  MaxWasted = 4
INVARIANTS OneSlipIsCaught ResultsAreOfOneSource EveryTurnLeadsOn
CHECK_DEADLOCK FALSE

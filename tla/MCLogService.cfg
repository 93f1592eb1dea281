SPECIFICATION Spec
CONSTANTS
  Byte = 2
  Strata <- MCStrata
  Queue <- MCQueue
  MaxResigned = 1
  MaxCalls = 2
  MaxFaults = 1
  Leaves <- MCLeaves
  Indices <- MCIndices
  QueueBatchSize = 4
  SequencerBatchSize = 8
  ReadBatchSize = 5
  InclusionIndices <- MCInclusionIndices
  MaxBatches = 2
  Cuts <- MCCuts
  MaxTree = 9
INVARIANTS ProofsAreExact AcceptedIsIncluded
PROPERTIES TrustedRootAdvances WaitEnds
CHECK_DEADLOCK FALSE

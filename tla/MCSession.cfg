\* Three stages, two grids, two allocations of different sizes.
SPECIFICATION Spec
CONSTANTS
  NumStages = 3
  Once = {1}
  Kernel = {2}
  NumBuffers = 2
  Declared <- MCDeclared
  Tensor <- MCTensor
  StageOf <- MCStageOf
  Input <- MCInput
  NameOf <- MCNameOf
  Port <- MCPort
  Per <- MCPer
  Batched <- MCBatched
  Switchable = {1, 3}
  QueryCounts = {1, 2}
  m1 = m1
  m2 = m2
  far = far
  host = host
  Ref <- MCRef
  Reported <- MCReported
  View <- MCView
  NoPath = "nopath"
  Mem <- MCMem
  Holds <- MCHolds
  Here = "cuda0"
  Unknown = "unknown"
  MaxEdits <- MCMaxEdits
INVARIANTS
  TypeOK
  BindingsFitTheGrid
  NothingStale
  OutputsAgreeWithInputs
PROPERTIES
  SkippedStageKeepsItsBuffers

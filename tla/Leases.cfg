CONSTANTS
  s1 = s1 u1 = u1 w = w u2 = u2 s2 = s2
  o = o p = p a1 = a1 a2 = a2 b1 = b1 q = q
  x1 = x1 x2 = x2 y = y z = z
  q1 = q1 q2 = q2 q3 = q3
  None = None
  Topo <- ChainTopo
  StageSpec <- Chain
  Attempts <- ChainAttempts
  StageOf <- ChainStageOf
  ParentOf <- ChainParentOf
  Upstream <- ChainUpstream
  Retained <- ChainRetained
  Consumes <- ChainConsumes
  Blocks <- ChainBlocks
  ProducerOf <- ChainProducerOf
  SizeOf <- OneByte
  Histories <- WithSpare
  SinkStages = {}
  RatioInverse = 2
  MaxFailures = 0
  MaxAbandons = 1
  Cancels = TRUE
SPECIFICATION MCSpec
INVARIANTS
  OwnershipConsistent
  SharesFitNodes
  AdmittedHaveMinimum
  SharesWorkConserving
PROPERTIES
  UsageWithinAllocation
  AttemptsEnd
  SharesActorsStayPut
CHECK_DEADLOCK FALSE

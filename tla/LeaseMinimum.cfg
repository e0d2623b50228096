CONSTANTS
  s1 = s1 u1 = u1 w = w u2 = u2 s2 = s2
  o = o p = p a1 = a1 a2 = a2 b1 = b1 q = q
  x1 = x1 x2 = x2 y = y z = z
  None = None
  Topo <- FteTopo
  StageSpec <- FteChain
  Attempts <- FteAttempts2
  StageOf <- ChainStageOf
  ParentOf <- FteParentOf
  Upstream <- ChainUpstream
  Retained <- ChainRetained
  Consumes <- ChainConsumes
  Blocks <- FteBlocks
  ProducerOf <- ChainProducerOf
  SizeOf <- OneByte
  Histories <- AtMinimum
  SinkStages = {}
  RatioInverse = 2
  MaxFailures = 0
  MaxAbandons = 0
  Cancels = FALSE
SPECIFICATION FairBehaviour
PROPERTIES
  AttemptsEnd
CHECK_DEADLOCK FALSE

CONSTANTS
  s1 = s1 u1 = u1 w = w u2 = u2 s2 = s2
  o = o p = p a1 = a1 a2 = a2 b1 = b1 q = q
  x1 = x1 x2 = x2 y = y z = z
  None = None
  Topo <- ActorTopo
  StageSpec <- ActorChain
  Attempts <- ActorAttempts
  StageOf <- ActorStageOf
  ParentOf <- ChainParentOf
  Upstream <- ActorUpstream
  Retained <- ChainRetained
  Consumes <- NoConsumer
  Blocks <- ActorBlocks
  ProducerOf <- ChainProducerOf
  SizeOf <- OneByte
  Histories <- Changing
  SinkStages = {s2}
  RatioInverse = 2
  MaxFailures = 1
  MaxAbandons = 1
  Cancels = FALSE
SPECIFICATION Behaviour
INVARIANTS
  OwnershipConsistent
  DenialsStayValid
PROPERTIES
  UsageWithinAllocation
CHECK_DEADLOCK FALSE

CONSTANTS
  p1 = p1
  p2 = p2
  c1 = c1
  c2 = c2
  Producers <- OneProducer
  Consumers <- TwoConsumers
  Capacity = 2
  ProducerOps = 2
  ConsumerOps = 2
  SizeWidth = 3
  BlocksPerChunk = 2
  MaxChunks = 3

SPECIFICATION Spec
INVARIANT NoNullDereference

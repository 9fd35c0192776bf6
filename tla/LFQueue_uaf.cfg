\* lockfree::Queue with one producer and two consumers, 2 calls each.
CONSTANTS
  p1 = p1
  p2 = p2
  c1 = c1
  c2 = c2
  Producers <- OneProducer
  Consumers <- TwoConsumers
  ProducerOps = 2
  ConsumerOps = 2
  SizeWidth = 3
  MaxBlocks = 4

SPECIFICATION Spec
PROPERTY NoUseAfterFree

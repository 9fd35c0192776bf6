\* A tree of order 3 (the smallest static_assert allows): a leaf is full at
\* three keys, so the fourth insert into one leaf splits it.
CONSTANTS
  MaxKey = 4
  Vals = {1}
  NoValue = NoValue
  Order = 3
  LeafBlocks = 3
  InnerBlocks = 2
  MaxCalls = 5
  Calls = {"insert", "remove", "find", "range"}

SPECIFICATION Spec
PROPERTY ImplementsMap

\* Order 3, seven keys and a caller that inserts and removes, eleven calls:
\* enough for four leaf splits under one parent, the split of that full
\* parent, and a call that descends through the new internal node; every
\* shorter sequence of inserts and removes, with the borrows and merges of
\* merge_nodes, is explored first.
CONSTANTS
  MaxKey = 7
  Vals = {1}
  NoValue = NoValue
  Order = 3
  LeafBlocks = 6
  InnerBlocks = 3
  MaxCalls = 11
  Calls = {"insert", "remove"}

SPECIFICATION Spec
INVARIANT NoFault

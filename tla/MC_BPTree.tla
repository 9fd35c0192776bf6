------------------------------ MODULE MC_BPTree ------------------------------
(* Model-checking instance of BPTree: std::nullopt is a model value.       *)
EXTENDS BPTree
=============================================================================

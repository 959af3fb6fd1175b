---------------------------- MODULE MCAssetStore ----------------------------
(* Three invocations that share two process ids, bundles of two tensors.   *)
EXTENDS AssetStore, TLC
CONSTANTS a, b, c, p1, p2
Three == {a, b, c}
TwoPids == {p1, p2}
Sym == Permutations(Three)
=============================================================================

--------------------------- MODULE MCShardClaims ---------------------------
(* Small instances of ShardClaims. *)
EXTENDS ShardClaims, TLC

Symmetry == Permutations(Shards) \cup Permutations(Owners)
=============================================================================

----------------------------- MODULE GrowthRange -----------------------------
(***************************************************************************)
(* The bounds of a growing branch (GrowingPlan): train positions are added *)
(* in ranges of at most num_extra_shards, up to max_train_shards.          *)
(* Positions are counted from the first one beyond the frozen baseline.    *)
(***************************************************************************)
EXTENDS Naturals, Sequences

CONSTANTS
  Capacity,    \* max_train_shards - baseline_train_shards
  NumExtra,    \* num_extra_shards
  MaxTries     \* bound: attempts that can be staged for one position

ASSUME CapacityAssumption == Capacity \in Nat
ASSUME NumExtraAssumption == NumExtra \in Nat \ {0}
ASSUME MaxTriesAssumption == MaxTries \in Nat

Positions == 1 .. Capacity
Fragment == Positions \X (1 .. MaxTries)    \* an attempt on a position

\* next_refresh: the high watermark after the next bounded range.
NextHigh(high) == IF high + NumExtra <= Capacity THEN high + NumExtra ELSE Capacity

NextRange(high) == high + 1 .. NextHigh(high)

\* A manifest is the fragments of the positions beyond the baseline, in order.
Manifest == UNION {[1 .. h -> Fragment] : h \in 0 .. Capacity}
=============================================================================

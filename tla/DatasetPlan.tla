------------------------------ MODULE DatasetPlan ------------------------------
(***************************************************************************)
(* Which random draws the rows of a run are made of                        *)
(* (pipeline/schemas/spec.py, and extra_shard of GrowingPlan): every shard *)
(* has a master seed and an offset, and row i of it draws from the         *)
(* generator of that seed and index offset + i.                            *)
(*                                                                         *)
(* A plan is what the specification freezes: rows per shard, the shards of *)
(* the train, val and test split, the seed of each split (none at all in a *)
(* specification from before there were any), and the base seed.  A shard  *)
(* of the run is named by its id, one that a growing branch adds by its    *)
(* position beyond the baseline: the same numbers, so a kind tells them    *)
(* apart.                                                                  *)
(***************************************************************************)
EXTENDS Integers, Sequences

PlanSplits == 1 .. 3
NoSeeds == <<>>    \* train_val_test_seeds is None

\* What the validators of DatasetSpec let pass.
ValidPlan(p) ==
  /\ p.rows \in Nat \ {0}
  /\ p.shards \in [PlanSplits -> Nat]
  /\ p.base \in Int
  /\ p.seeds = NoSeeds \/ p.seeds \in [PlanSplits -> Int]
  /\ p.seeds # NoSeeds => \A s, t \in PlanSplits : s # t => p.seeds[s] # p.seeds[t]
  /\ p.shards[1] + p.shards[2] + p.shards[3] > 0

\* split_shard_ranges: the shards before a split.
SplitStart(p, s) ==
  (IF s > 1 THEN p.shards[1] ELSE 0) + (IF s > 2 THEN p.shards[2] ELSE 0)

PlanShards(p) == p.shards[1] + p.shards[2] + p.shards[3]

SplitHolding(p, id) ==
  CHOOSE s \in PlanSplits : id \in SplitStart(p, s) .. SplitStart(p, s) + p.shards[s] - 1

\* shards: a seed of its own in a plan without split seeds, else a stretch of
\* the split's indices.
PlannedShard(p, id) ==
  IF p.seeds = NoSeeds THEN [seed |-> p.base + id, offset |-> 0]
  ELSE LET s == SplitHolding(p, id)
       IN  [seed |-> p.seeds[s], offset |-> (id - SplitStart(p, s)) * p.rows]

\* extra_shard: a stretch of the base seed's indices beyond all of the run's.
GrownShard(p, k) == [seed |-> p.base, offset |-> (PlanShards(p) + k) * p.rows]

ShardNames(p) == ({"planned"} \X (0 .. PlanShards(p) - 1)) \cup ({"grown"} \X Nat)

ShardPlace(p, name) ==
  IF name[1] = "planned" THEN PlannedShard(p, name[2]) ELSE GrownShard(p, name[2])

\* render_for_shard and SampleSeed: what row i of a shard draws from.
RowDraw(p, name, i) == <<ShardPlace(p, name).seed, ShardPlace(p, name).offset + i>>

\* No draw is made twice: two rows of a run and of the branch grown from it,
\* in one shard or in two, never share seed and index, or the dataset would
\* hold a row, and its splits an example, twice.
DrawsAreApartIn(p, names) ==
  \A x, y \in names : \A i, j \in 0 .. p.rows - 1 :
    RowDraw(p, x, i) = RowDraw(p, y, j) => x = y /\ i = j

DrawsAreApart(p) == DrawsAreApartIn(p, ShardNames(p))
=============================================================================

-------------------------- MODULE MCStaticDispatch --------------------------
\* Instances of StaticDispatch for TLC.
EXTENDS StaticDispatch, DatasetPlan, TLC

\* Small plans, with and without split seeds, and the first positions grown.
SmallPlans ==
  {p \in [rows : 1 .. 2, shards : [PlanSplits -> 0 .. 2], base : {1, 2},
          seeds : {NoSeeds, <<1, 2, 3>>, <<3, 1, 2>>}] : ValidPlan(p)}
SmallNames(p) == ({"planned"} \X (0 .. PlanShards(p) - 1)) \cup ({"grown"} \X (0 .. 1))

ASSUME SmallPlansDrawApart == \A p \in SmallPlans : DrawsAreApartIn(p, SmallNames(p))

\* Only the first rank retries a render: what a retry can disturb is a shard of
\* its own rank.
OneRankRetries == \A r \in Owners \ {0}, k \in Slots : job'[r][k].tries = 0

MCSpec == Init /\ [][Next /\ OneRankRetries]_vars

\* Slots are interchangeable; ranks and shards are not.
Symmetry == Permutations(Slots)
=============================================================================

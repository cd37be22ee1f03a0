------------------------ MODULE StaticDispatch_proofs ------------------------
(***************************************************************************)
(* Proofs about static generation, for any number of ranks, slots, shards  *)
(* and faults: the ranges of the ranks partition the shards, so no two     *)
(* slots ever share one, and ranks that all succeed have staged them all;  *)
(* for any plan of a run, the rows its shards draw are apart; and from end *)
(* to end, a static run publishes one render per shard.                    *)
(***************************************************************************)
EXTENDS StaticLifecycle, DatasetPlan, ShardRender_proofs, WellFoundedInduction

-----------------------------------------------------------------------------
(***************************************************************************)
(* Partitioning.                                                           *)
(***************************************************************************)

\* What division and remainder are.
LEMMA DivMod ==
  ASSUME NEW total \in Nat, NEW world \in Nat \ {0}
  PROVE  /\ total \div world \in Nat
         /\ total % world \in 0 .. world - 1
         /\ total = world * (total \div world) + (total % world)
<1>1. total % world \in 0 .. world - 1
  BY SMTT(30)
<1>2. total \div world \in Nat
  BY SMTT(30)
<1>3. total = world * (total \div world) + (total % world)
  BY SMTT(30)
<1> QED
  BY <1>1, <1>2, <1>3

\* The bounds of a range are numbers, whatever the rank.
LEMMA RangeType ==
  ASSUME NEW total \in Nat, NEW world \in Nat \ {0}, NEW r \in Nat
  PROVE  First(total, r, world) \in Nat /\ Size(total, r, world) \in Nat
<1> DEFINE base == total \div world
           extra == total % world
<1>1. base \in Nat /\ extra \in Nat
  BY DivMod
<1>2. r * base \in Nat
  BY <1>1
<1> HIDE DEF base, extra
<1> QED
  BY <1>1, <1>2 DEF First, Size, base, extra

\* Ranges are adjacent: one ends where the next begins.
LEMMA Adjacent ==
  ASSUME NEW total \in Nat, NEW world \in Nat \ {0}, NEW r \in Nat
  PROVE  End(total, r, world) = First(total, r + 1, world)
<1> DEFINE base == total \div world
           extra == total % world
<1>1. base \in Nat /\ extra \in Nat
  BY DivMod
<1>2. r * base \in Nat /\ (r + 1) * base = r * base + base
  BY <1>1
<1> HIDE DEF base, extra
<1>3. First(total, r, world) = r * base + (IF r <= extra THEN r ELSE extra)
  BY DEF First, base, extra
<1>4. First(total, r + 1, world) = (r + 1) * base + (IF r + 1 <= extra THEN r + 1 ELSE extra)
  BY DEF First, base, extra
<1>5. Size(total, r, world) = base + (IF r < extra THEN 1 ELSE 0)
  BY DEF Size, base, extra
<1> QED
  BY <1>1, <1>2, <1>3, <1>4, <1>5 DEF End

\* The first range begins at 0 and the last one ends at total.
LEMMA Outer ==
  ASSUME NEW total \in Nat, NEW world \in Nat \ {0}
  PROVE  First(total, 0, world) = 0 /\ First(total, world, world) = total
<1> DEFINE base == total \div world
           extra == total % world
<1>1. base \in Nat /\ extra \in 0 .. world - 1 /\ total = world * base + extra
  BY DivMod
<1>2. 0 * base = 0
  BY <1>1
<1> HIDE DEF base, extra
<1> QED
  BY <1>1, <1>2 DEF First, base, extra

\* Ranges follow each other in the order of the ranks.
LEMMA Increasing ==
  ASSUME NEW total \in Nat, NEW world \in Nat \ {0}, NEW r \in Nat, NEW q \in Nat, r <= q
  PROVE  First(total, r, world) <= First(total, q, world)
<1> DEFINE base == total \div world
           extra == total % world
           d == q - r
<1>1. base \in Nat /\ extra \in Nat /\ d \in Nat /\ q = r + d
  BY DivMod
<1> HIDE DEF base, extra, d
<1>2. r * base \in Nat /\ d * base \in Nat
  BY <1>1
<1>3. (r + d) * base = r * base + d * base /\ d * base >= 0
  BY <1>1
<1>4. First(total, r, world) = r * base + (IF r <= extra THEN r ELSE extra)
  BY DEF First, base, extra
<1>5. First(total, q, world) = q * base + (IF q <= extra THEN q ELSE extra)
  BY DEF First, base, extra
<1> QED
  BY <1>1, <1>2, <1>3, <1>4, <1>5

\* A shard belongs to one rank at most.
LEMMA Disjoint ==
  ASSUME NEW total \in Nat, NEW world \in Nat \ {0}, NEW r \in Nat, NEW q \in Nat,
         NEW s, s \in MyShards(total, r, world), s \in MyShards(total, q, world)
  PROVE  r = q
<1>1. ASSUME NEW a \in Nat, NEW b \in Nat, a < b,
             s \in MyShards(total, a, world), s \in MyShards(total, b, world)
      PROVE  FALSE
  <2>1. End(total, a, world) <= First(total, b, world)
    <3>1. a + 1 \in Nat /\ a + 1 <= b
      BY <1>1
    <3> QED
      BY <3>1, Adjacent, Increasing
  <2>2. /\ First(total, a, world) \in Nat /\ First(total, b, world) \in Nat
        /\ Size(total, a, world) \in Nat /\ Size(total, b, world) \in Nat
    BY RangeType
  <2> QED
    BY <1>1, <2>1, <2>2 DEF MyShards, End
<1>2. r < q \/ q < r \/ r = q
  OBVIOUS
<1> QED
  BY <1>1, <1>2

\* Every shard belongs to some rank: the last one that begins at or before it.
LEMMA Owned ==
  ASSUME NEW total \in Nat, NEW world \in Nat \ {0}, NEW s \in 0 .. total - 1
  PROVE  \E r \in 0 .. world - 1 : s \in MyShards(total, r, world)
<1> DEFINE T == {q \in Nat : s < First(total, q + 1, world)}
           L == {ss \in Nat \X Nat : ss[1] < ss[2]}
<1>1. world - 1 \in T
  BY Outer
<1>2. PICK r \in T : \A q \in T : ~ (<<q, r>> \in L)
  <2>1. IsWellFoundedOn(L, Nat)
    BY NatLessThanWellFounded DEF OpToRel
  <2>2. T \subseteq Nat /\ T # {}
    BY <1>1
  <2> HIDE DEF T, L
  <2> QED
    BY <2>1, <2>2, WFMin
<1>3. \A q \in T : ~ (q < r)
  BY <1>2
<1>4. r \in 0 .. world - 1
  BY <1>1, <1>3
<1>5. First(total, r, world) <= s
  <2>1. CASE r = 0
    BY <2>1, Outer
  <2>2. CASE r # 0
    <3>1. r - 1 \in Nat /\ r - 1 \notin T /\ (r - 1) + 1 = r
      BY <1>3, <2>2
    <3>2. First(total, r, world) \in Nat
      BY RangeType
    <3> QED
      BY <3>1, <3>2
  <2> QED
    BY <2>1, <2>2
<1>6. s < End(total, r, world)
  BY Adjacent
<1>7. First(total, r, world) \in Nat /\ End(total, r, world) \in Nat
  <2>1. First(total, r, world) \in Nat /\ Size(total, r, world) \in Nat
    BY RangeType
  <2> QED
    BY <2>1 DEF End
<1> HIDE DEF T
<1> QED
  BY <1>4, <1>5, <1>6, <1>7 DEF MyShards

\* get_my_shards partitions the shards of the run, whatever their number and
\* the number of ranks: no shard is lost or owned twice.
THEOREM RangesPartition ==
  ASSUME NEW total \in Nat, NEW world \in Nat \ {0}
  PROVE  IsPartition(total, world) /\ InRange(total, world)
<1>1. IsPartition(total, world)
  <2> SUFFICES ASSUME NEW s \in 0 .. total - 1
               PROVE  \E r \in 0 .. world - 1 :
                        /\ s \in MyShards(total, r, world)
                        /\ \A q \in 0 .. world - 1 : s \in MyShards(total, q, world) => q = r
    BY DEF IsPartition
  <2>1. PICK r \in 0 .. world - 1 : s \in MyShards(total, r, world)
    BY Owned
  <2>2. ASSUME NEW q \in 0 .. world - 1, s \in MyShards(total, q, world) PROVE q = r
    BY <2>1, <2>2, Disjoint
  <2> QED
    BY <2>1, <2>2
<1>2. ASSUME NEW r \in 0 .. world - 1 PROVE MyShards(total, r, world) \subseteq 0 .. total - 1
  <2>1. First(total, r, world) \in Nat /\ Size(total, r, world) \in Nat
    BY RangeType
  <2>2. End(total, r, world) <= total
    <3>1. r \in Nat /\ r + 1 \in Nat /\ world \in Nat /\ r + 1 <= world
      OBVIOUS
    <3> QED
      BY <3>1, Adjacent, Increasing, Outer
  <2> QED
    BY <2>1, <2>2 DEF MyShards, End
<1> QED
  BY <1>1, <1>2 DEF InRange

\* The shares of two ranks differ by one shard at most.
THEOREM SharesAreBalanced ==
  ASSUME NEW total \in Nat, NEW world \in Nat \ {0}
  PROVE  IsBalanced(total, world)
<1>1. total \div world \in Nat
  BY DivMod
<1> QED
  BY <1>1 DEF IsBalanced, Size

-----------------------------------------------------------------------------
(***************************************************************************)
(* The draws of a plan.                                                    *)
(***************************************************************************)

\* Two numbers written as a stretch and a place in it are equal only if both
\* parts are.
LEMMA OneStretch ==
  ASSUME NEW n \in Nat \ {0}, NEW a \in Nat, NEW b \in Nat,
         NEW i \in 0 .. n - 1, NEW j \in 0 .. n - 1, a * n + i = b * n + j
  PROVE  a = b /\ i = j
<1>1. ASSUME NEW c \in Nat, NEW d \in Nat, c < d
      PROVE  c * n + n <= d * n
  <2>1. PICK k \in Nat : d = c + 1 + k
    <3>1. d - c - 1 \in Nat /\ d = c + 1 + (d - c - 1)
      BY <1>1
    <3> QED
      BY <3>1
  <2>2. d * n = c * n + n + k * n
    BY <2>1
  <2>3. k * n >= 0 /\ c * n \in Nat /\ d * n \in Nat
    BY <2>1
  <2> QED
    BY <2>2, <2>3
<1>2. a * n \in Int /\ b * n \in Int
  OBVIOUS
<1>3. ~(a < b)
  <2> SUFFICES ASSUME a < b PROVE FALSE
    OBVIOUS
  <2>1. a * n + n <= b * n
    BY <1>1
  <2> QED
    BY <2>1, <1>2
<1>4. ~(b < a)
  <2> SUFFICES ASSUME b < a PROVE FALSE
    OBVIOUS
  <2>1. b * n + n <= a * n
    BY <1>1
  <2> QED
    BY <2>1, <1>2
<1>5. a = b
  BY <1>3, <1>4
<1> QED
  BY <1>5, <1>2

\* The id of a planned shard belongs to one split, at or after its start.
LEMMA PlannedInSplit ==
  ASSUME NEW p, ValidPlan(p), NEW id \in 0 .. PlanShards(p) - 1
  PROVE  /\ SplitHolding(p, id) \in PlanSplits
         /\ SplitStart(p, SplitHolding(p, id)) \in Nat
         /\ SplitStart(p, SplitHolding(p, id)) <= id
<1>1. p.shards[1] \in Nat /\ p.shards[2] \in Nat /\ p.shards[3] \in Nat
  BY DEF ValidPlan, PlanSplits
<1>2. \E s \in PlanSplits : id \in SplitStart(p, s) .. SplitStart(p, s) + p.shards[s] - 1
  <2>1. CASE id < p.shards[1]
    BY <1>1, <2>1 DEF SplitStart, PlanSplits, PlanShards
  <2>2. CASE p.shards[1] <= id /\ id < p.shards[1] + p.shards[2]
    BY <1>1, <2>2 DEF SplitStart, PlanSplits, PlanShards
  <2>3. CASE p.shards[1] + p.shards[2] <= id
    BY <1>1, <2>3 DEF SplitStart, PlanSplits, PlanShards
  <2> QED
    BY <1>1, <2>1, <2>2, <2>3 DEF PlanShards
<1>3. /\ SplitHolding(p, id) \in PlanSplits
      /\ id \in SplitStart(p, SplitHolding(p, id))
                .. SplitStart(p, SplitHolding(p, id)) + p.shards[SplitHolding(p, id)] - 1
  BY <1>2 DEF SplitHolding
<1>4. \A s \in PlanSplits : SplitStart(p, s) \in Nat
  BY <1>1 DEF SplitStart, PlanSplits
<1> QED
  BY <1>1, <1>3, <1>4 DEF PlanSplits

\* For every plan the validators pass and every branch grown from it, the rows
\* of different shards, and different rows of one, never share a seed and an
\* index (shards and render_for_shard of DatasetSpec, extra_shard).
THEOREM PlanDrawsAreApart ==
  ASSUME NEW p, ValidPlan(p)
  PROVE  DrawsAreApart(p)
<1> DEFINE n == p.rows
           total == PlanShards(p)
           start(s) == SplitStart(p, s)
<1>1. n \in Nat \ {0} /\ total \in Nat \ {0} /\ p.base \in Int
  BY DEF ValidPlan, PlanShards, PlanSplits
\* Every shard is the stretch number a of some seed's indices.
<1>2. ASSUME NEW x \in {"planned"} \X (0 .. total - 1)
      PROVE  IF p.seeds = NoSeeds
             THEN ShardPlace(p, x) = [seed |-> p.base + x[2], offset |-> 0 * n]
             ELSE LET s == SplitHolding(p, x[2])
                  IN  /\ s \in PlanSplits
                      /\ x[2] - start(s) \in 0 .. total - 1
                      /\ ShardPlace(p, x) = [seed |-> p.seeds[s], offset |-> (x[2] - start(s)) * n]
  <2>1. x[1] = "planned" /\ x[2] \in 0 .. total - 1
    OBVIOUS
  <2>2. CASE p.seeds = NoSeeds
    <3>1. 0 * n = 0
      BY <1>1
    <3> QED
      BY <2>1, <2>2, <3>1 DEF ShardPlace, PlannedShard
  <2>3. CASE p.seeds # NoSeeds
    <3>1. /\ SplitHolding(p, x[2]) \in PlanSplits
          /\ start(SplitHolding(p, x[2])) \in Nat
          /\ start(SplitHolding(p, x[2])) <= x[2]
      BY <2>1, PlannedInSplit
    <3>2. x[2] - start(SplitHolding(p, x[2])) \in 0 .. total - 1
      BY <2>1, <3>1, <1>1
    <3> QED
      BY <2>1, <2>3, <3>1, <3>2 DEF ShardPlace, PlannedShard
  <2> QED
    BY <2>2, <2>3
<1>3. ASSUME NEW y \in {"grown"} \X Nat
      PROVE  /\ ShardPlace(p, y) = [seed |-> p.base, offset |-> (total + y[2]) * n]
             /\ total + y[2] \in Nat /\ y[2] \in Nat
  <2>1. y[1] = "grown" /\ y[2] \in Nat
    OBVIOUS
  <2> QED
    BY <2>1, <1>1 DEF ShardPlace, GrownShard
<1> HIDE DEF n, total, start
\* Two planned shards.
<1>4. ASSUME NEW x \in {"planned"} \X (0 .. total - 1), NEW y \in {"planned"} \X (0 .. total - 1),
             NEW i \in 0 .. n - 1, NEW j \in 0 .. n - 1, RowDraw(p, x, i) = RowDraw(p, y, j)
      PROVE  x = y /\ i = j
  <2>0. /\ x = <<"planned", x[2]>> /\ x[2] \in 0 .. total - 1
        /\ y = <<"planned", y[2]>> /\ y[2] \in 0 .. total - 1
    OBVIOUS
  <2>1. ShardPlace(p, x).seed = ShardPlace(p, y).seed /\ ShardPlace(p, x).offset + i = ShardPlace(p, y).offset + j
    BY <1>4 DEF RowDraw
  <2>2. CASE p.seeds = NoSeeds
    <3>1. /\ ShardPlace(p, x) = [seed |-> p.base + x[2], offset |-> 0 * n]
          /\ ShardPlace(p, y) = [seed |-> p.base + y[2], offset |-> 0 * n]
      BY <2>2, <1>2
    <3>2. 0 * n = 0
      BY <1>1
    <3>3. p.base + x[2] = p.base + y[2] /\ 0 + i = 0 + j
      BY <2>1, <3>1, <3>2
    <3> QED
      BY <2>0, <3>3, <1>1
  <2>3. CASE p.seeds # NoSeeds
    <3> DEFINE s == SplitHolding(p, x[2])
               t == SplitHolding(p, y[2])
    <3>1. /\ s \in PlanSplits /\ x[2] - start(s) \in 0 .. total - 1
          /\ ShardPlace(p, x) = [seed |-> p.seeds[s], offset |-> (x[2] - start(s)) * n]
      BY <2>3, <1>2
    <3>2. /\ t \in PlanSplits /\ y[2] - start(t) \in 0 .. total - 1
          /\ ShardPlace(p, y) = [seed |-> p.seeds[t], offset |-> (y[2] - start(t)) * n]
      BY <2>3, <1>2
    <3> HIDE DEF s, t
    <3>3. s = t
      BY <2>1, <2>3, <3>1, <3>2 DEF ValidPlan
    <3>4. (x[2] - start(s)) * n + i = (y[2] - start(s)) * n + j
      BY <2>1, <3>1, <3>2, <3>3
    <3>5. x[2] - start(s) \in Nat /\ y[2] - start(s) \in Nat
      BY <3>1, <3>2, <3>3, <1>1
    <3>6. x[2] - start(s) = y[2] - start(s) /\ i = j
      <4>1. \A a, b \in Nat : a * n + i = b * n + j => a = b /\ i = j
        BY <1>1, OneStretch
      <4> QED
        BY <3>4, <3>5, <4>1
    <3>7. start(s) \in Nat
      <4>1. p.shards[1] \in Nat /\ p.shards[2] \in Nat
        BY DEF ValidPlan, PlanSplits
      <4> QED
        BY <4>1 DEF start, SplitStart
    <3> QED
      BY <2>0, <3>6, <3>7, <1>1
  <2> QED
    BY <2>2, <2>3
\* A planned shard and a grown one: the grown one's stretch is beyond.
<1>5. ASSUME NEW x \in {"planned"} \X (0 .. total - 1), NEW y \in {"grown"} \X Nat,
             NEW i \in 0 .. n - 1, NEW j \in 0 .. n - 1
      PROVE  RowDraw(p, x, i) # RowDraw(p, y, j)
  <2>1. PICK a \in 0 .. total - 1 : ShardPlace(p, x).offset = a * n
    <3>1. CASE p.seeds = NoSeeds
      <4>1. ShardPlace(p, x).offset = 0 * n
        BY <3>1, <1>2
      <4>2. 0 \in 0 .. total - 1
        BY <1>1
      <4> QED
        BY <4>1, <4>2
    <3>2. CASE p.seeds # NoSeeds
      BY <3>2, <1>2
    <3> QED
      BY <3>1, <3>2
  <2>2. ShardPlace(p, y).offset = (total + y[2]) * n /\ total + y[2] \in Nat /\ y[2] \in Nat
    BY <1>3
  <2>3. a \in Nat /\ a # total + y[2]
    BY <2>1, <2>2, <1>1
  <2>4. a * n + i # (total + y[2]) * n + j
    BY <2>2, <2>3, <1>1, OneStretch
  <2> QED
    BY <2>1, <2>2, <2>4 DEF RowDraw
\* Two grown shards.
<1>6. ASSUME NEW x \in {"grown"} \X Nat, NEW y \in {"grown"} \X Nat,
             NEW i \in 0 .. n - 1, NEW j \in 0 .. n - 1, RowDraw(p, x, i) = RowDraw(p, y, j)
      PROVE  x = y /\ i = j
  <2>0. x = <<"grown", x[2]>> /\ y = <<"grown", y[2]>>
    OBVIOUS
  <2>1. /\ ShardPlace(p, x).offset = (total + x[2]) * n /\ total + x[2] \in Nat /\ x[2] \in Nat
        /\ ShardPlace(p, y).offset = (total + y[2]) * n /\ total + y[2] \in Nat /\ y[2] \in Nat
    BY <1>3
  <2>2. (total + x[2]) * n + i = (total + y[2]) * n + j
    BY <1>6, <2>1 DEF RowDraw
  <2>3. \A a, b \in Nat : a * n + i = b * n + j => a = b /\ i = j
    BY <1>1, OneStretch
  <2>4. total + x[2] = total + y[2] /\ i = j
    BY <2>1, <2>2, <2>3
  <2>5. x[2] = y[2]
    BY <2>1, <2>4, <1>1
  <2> QED
    BY <2>0, <2>4, <2>5
<1>7. SUFFICES ASSUME NEW x \in ShardNames(p), NEW y \in ShardNames(p),
                      NEW i \in 0 .. n - 1, NEW j \in 0 .. n - 1,
                      RowDraw(p, x, i) = RowDraw(p, y, j)
               PROVE  x = y /\ i = j
  BY DEF DrawsAreApart, DrawsAreApartIn, n
<1>8. /\ x \in {"planned"} \X (0 .. total - 1) \/ x \in {"grown"} \X Nat
      /\ y \in {"planned"} \X (0 .. total - 1) \/ y \in {"grown"} \X Nat
  BY DEF ShardNames, total
<1> QED
  BY <1>4, <1>5, <1>6, <1>7, <1>8

-----------------------------------------------------------------------------
(***************************************************************************)
(* Dispatch.                                                               *)
(***************************************************************************)

\* The bounds of a rank's range lie within the run.
LEMMA RangeBounds ==
  ASSUME NEW r \in Owners
  PROVE  /\ FirstShard(r) \in 0 .. NumShards /\ EndShard(r) \in 0 .. NumShards
         /\ FirstShard(r) <= EndShard(r)
<1>1. /\ NumShards \in Nat /\ World \in Nat \ {0} /\ World \in Nat
      /\ r \in Nat /\ r + 1 \in Nat /\ r + 1 <= World
  BY StaticAssumption
<1>2. /\ First(NumShards, r, World) \in Nat /\ Size(NumShards, r, World) \in Nat
  BY <1>1, RangeType
<1>3. End(NumShards, r, World) <= NumShards
  BY <1>1, Adjacent, Increasing, Outer
<1> QED
  BY <1>1, <1>2, <1>3 DEF FirstShard, EndShard, End

\* Every dispatcher step moves renders only by steps of ShardRender.
LEMMA NextIsRenderStep == TypeOK /\ [Next]_vars => [RenderNext]_renderVars
<1> SUFFICES ASSUME TypeOK, [Next]_vars PROVE [RenderNext]_renderVars
  OBVIOUS
<1> USE DEF renderVars
<1>1. ASSUME NEW r \in Owners, NEW k \in Slots, StartRender(r, k) PROVE RenderNext
  <2>1. pending[r] \in Shards
    BY <1>1, RangeBounds, StaticAssumption DEF StartRender, TypeOK
  <2> QED
    BY <1>1, <2>1 DEF StartRender, RenderNext
<1> QED
  BY <1>1
     DEF Next, vars, MainStep, Launch, TakeOutcome, RenderFailed, Cancel, Wait, Exit, Crash,
         RenderStep, RenderFault, RenderNext

LEMMA InitTypes == Init => TypeOK
<1> SUFFICES ASSUME Init PROVE TypeOK
  OBVIOUS
<1>1. RenderTypeOK
  BY RenderInitInv DEF Init, RenderInv
<1> QED
  BY <1>1, StaticAssumption DEF Init, TypeOK, MainStates, Ended

LEMMA TypeOKStep == TypeOK /\ RenderInv /\ [Next]_vars => TypeOK'
<1> SUFFICES ASSUME TypeOK, RenderInv, [Next]_vars PROVE TypeOK'
  OBVIOUS
<1>1. RenderTypeOK'
  BY NextIsRenderStep, RenderInvStep DEF RenderInv
<1>2. faults' \in 0 .. MaxFaults
  <2>1. Fault \/ UNCHANGED faults
    BY DEF Next, vars, MainStep, Launch, StartRender, TakeOutcome, RenderFailed, Cancel, Wait,
           Exit, Crash, RenderStep, RenderFault
  <2> QED
    BY <2>1, StaticAssumption DEF Fault, TypeOK
<1>3. CASE UNCHANGED loop
  BY <1>1, <1>2, <1>3 DEF TypeOK, loop
<1>4. ASSUME NEW r \in Owners, Launch(r) \/ MainStep(r) \/ Crash(r)
      PROVE  TypeOK'
  <2>1. main' = main \/ \E m \in MainStates : main' = [main EXCEPT ![r] = m]
    <3>1. {"fill", "resolve", "drain", "ok", "failed", "dead"} \subseteq MainStates
      BY DEF MainStates, Ended
    <3>2. main[r] \in MainStates
      BY DEF TypeOK
    <3>3. ASSUME Exit(r) PROVE \E m \in MainStates : main' = [main EXCEPT ![r] = m]
      BY <3>1, <3>3, Zenon DEF Exit
    <3>4. ASSUME NEW k \in Slots, TakeOutcome(r, k)
          PROVE  \E m \in MainStates : main' = [main EXCEPT ![r] = m]
      <4>1. CASE batch[r] = {k}
        BY <3>1, <3>4, <4>1 DEF TakeOutcome
      <4>2. CASE batch[r] # {k}
        BY <3>2, <3>4, <4>2 DEF TakeOutcome
      <4> QED
        BY <4>1, <4>2
    <3> QED
      BY <1>4, <3>1, <3>3, <3>4
         DEF Launch, MainStep, StartRender, RenderFailed, Cancel, Wait, Crash, loop
  <2>2. pending' = pending \/ \E n \in 0 .. NumShards : pending' = [pending EXCEPT ![r] = n]
    <3>1. FirstShard(r) \in 0 .. NumShards
      BY RangeBounds
    <3>2. ASSUME NEW k \in Slots, StartRender(r, k) PROVE pending[r] + 1 \in 0 .. NumShards
      BY <3>2, RangeBounds, StaticAssumption DEF StartRender, TypeOK
    <3>3. ASSUME NEW k \in Slots, StartRender(r, k)
          PROVE  \E n \in 0 .. NumShards : pending' = [pending EXCEPT ![r] = n]
      BY <3>2, <3>3 DEF StartRender
    <3>4. ASSUME Launch(r)
          PROVE  \E n \in 0 .. NumShards : pending' = [pending EXCEPT ![r] = n]
      BY <3>1, <3>4 DEF Launch
    <3> QED
      BY <1>4, <3>3, <3>4
         DEF MainStep, TakeOutcome, RenderFailed, Cancel, Wait, Exit, Crash, loop
  <2>3. batch' = batch \/ \E B \in SUBSET Slots : batch' = [batch EXCEPT ![r] = B]
    <3>1. FinishedSlots(r) \in SUBSET Slots /\ {} \in SUBSET Slots
      BY DEF FinishedSlots
    <3>2. ASSUME NEW k \in Slots, TakeOutcome(r, k)
          PROVE  \E B \in SUBSET Slots : batch' = [batch EXCEPT ![r] = B]
      <4>1. batch[r] \ {k} \in SUBSET Slots
        BY DEF TypeOK
      <4> QED
        BY <3>2, <4>1 DEF TakeOutcome
    <3> QED
      BY <1>4, <3>1, <3>2
         DEF Launch, MainStep, StartRender, RenderFailed, Cancel, Wait, Exit, Crash, loop
  <2> QED
    BY <1>1, <1>2, <2>1, <2>2, <2>3 DEF TypeOK
<1> QED
  BY <1>3, <1>4 DEF Next, vars, RenderStep, RenderFault, loop

-----------------------------------------------------------------------------
(***************************************************************************)
(* What a rank has handed out.                                             *)
(***************************************************************************)

\* The shards the rank has submitted so far.
Submitted(r) == FirstShard(r) .. pending[r] - 1

\* Slot k of rank r works on one of them.
SlotSubmitted(r, k) ==
  job[r][k].step # "free" => Alive(r) /\ job[r][k].shard \in Submitted(r)

\* Two slots of rank r work on different ones.
SlotsDiffer(r) ==
  \A j, k \in Slots :
    j # k /\ job[r][j].step # "free" /\ job[r][k].step # "free" =>
      job[r][j].shard # job[r][k].shard

\* While nothing has failed, each of them is staged or still in a slot.
Accounted(r) ==
  main[r] \in {"fill", "resolve"} =>
    \A s \in Submitted(r) :
      Staged(s) \/ \E k \in Slots : job[r][k].step # "free" /\ job[r][k].shard = s

RankInv(r) ==
  /\ Alive(r) => pending[r] \in FirstShard(r) .. EndShard(r)
  /\ \A k \in Slots : SlotSubmitted(r, k)
  /\ SlotsDiffer(r)
  /\ Accounted(r)
  /\ main[r] = "ok" => \A s \in MyShards(NumShards, r, World) : Staged(s)

SInv ==
  /\ TypeOK
  /\ RenderInv
  /\ \A r \in Owners : RankInv(r)

LEMMA InitSInv == Init => SInv
<1> SUFFICES ASSUME Init PROVE SInv
  OBVIOUS
<1>1. ASSUME NEW r \in Owners PROVE RankInv(r)
  BY DEF Init, RenderInit, FreeJob, RankInv, Alive, Ended, SlotSubmitted, SlotsDiffer, Accounted
<1> QED
  BY <1>1, InitTypes, RenderInitInv DEF SInv, Init

\* Staged shards stay staged in every step of the run.
LEMMA StagedKept ==
  ASSUME TypeOK, RenderInv, [Next]_vars, NEW s \in Shards, Staged(s)
  PROVE  Staged(s)'
<1>1. CASE RenderNext
  BY <1>1, StagedStays
<1>2. CASE UNCHANGED renderVars
  BY <1>2 DEF renderVars, Staged, AttemptsOf, Complete
<1> QED
  BY <1>1, <1>2, NextIsRenderStep

\* A rank's shards are shards of the run.
LEMMA RankShards ==
  ASSUME TypeOK, NEW r \in Owners
  PROVE  Submitted(r) \subseteq Shards /\ MyShards(NumShards, r, World) \subseteq Shards
<1>1. /\ NumShards \in Nat /\ Shards = 0 .. NumShards - 1
      /\ FirstShard(r) \in 0 .. NumShards /\ EndShard(r) \in 0 .. NumShards
      /\ pending[r] \in 0 .. NumShards
  BY RangeBounds, StaticAssumption DEF TypeOK
<1>2. Submitted(r) \subseteq Shards
  BY <1>1 DEF Submitted
<1>3. FirstShard(r) .. EndShard(r) - 1 \subseteq Shards
  BY <1>1
<1> QED
  BY <1>2, <1>3 DEF MyShards, FirstShard, EndShard

\* A rank that has not moved keeps its invariant; its slots may have moved
\* on, as long as they keep their shards.
LEMMA SameRank ==
  ASSUME TypeOK, RenderInv, [Next]_vars, NEW q \in Owners, RankInv(q),
         main'[q] = main[q], pending'[q] = pending[q],
         \A k \in Slots : /\ job'[q][k].step = "free" <=> job[q][k].step = "free"
                          /\ job'[q][k].shard = job[q][k].shard
  PROVE  RankInv(q)'
<1>1. Alive(q)' = Alive(q) /\ Submitted(q)' = Submitted(q)
      /\ FirstShard(q)' = FirstShard(q) /\ EndShard(q)' = EndShard(q)
  BY DEF Alive, Submitted, FirstShard, EndShard
<1>2. \A k \in Slots : SlotSubmitted(q, k)'
  BY <1>1 DEF RankInv, SlotSubmitted
<1>3. SlotsDiffer(q)'
  BY DEF RankInv, SlotsDiffer
<1>4. Accounted(q)'
  <2> SUFFICES ASSUME main[q] \in {"fill", "resolve"}, NEW s \in Submitted(q)
               PROVE  \/ Staged(s)'
                      \/ \E k \in Slots : job'[q][k].step # "free" /\ job'[q][k].shard = s
    BY <1>1 DEF Accounted
  <2>1. CASE Staged(s)
    BY <2>1, StagedKept, RankShards
  <2>2. CASE \E k \in Slots : job[q][k].step # "free" /\ job[q][k].shard = s
    BY <2>2
  <2> QED
    BY <2>1, <2>2 DEF RankInv, Accounted
<1>5. main'[q] = "ok" => \A s \in MyShards(NumShards, q, World) : Staged(s)'
  BY StagedKept, RankShards DEF RankInv
<1> QED
  BY <1>1, <1>2, <1>3, <1>4, <1>5 DEF RankInv

\* A rank whose slots only lose work, its frontier staying where it is.
LEMMA LessWork ==
  ASSUME TypeOK, NEW r \in Owners, RankInv(r), pending'[r] = pending[r],
         \A k \in Slots : job'[r][k] = job[r][k] \/ job'[r][k].step = "free",
         Alive(r)' \/ \A k \in Slots : job'[r][k].step = "free",
         Alive(r)' => Alive(r)
  PROVE  /\ Alive(r)' => pending'[r] \in FirstShard(r)' .. EndShard(r)'
         /\ \A k \in Slots : SlotSubmitted(r, k)'
         /\ SlotsDiffer(r)'
<1>1. Submitted(r)' = Submitted(r) /\ FirstShard(r)' = FirstShard(r) /\ EndShard(r)' = EndShard(r)
  BY DEF Submitted, FirstShard, EndShard
<1>2. \A k \in Slots : SlotSubmitted(r, k)'
  BY <1>1 DEF RankInv, SlotSubmitted
<1>3. SlotsDiffer(r)'
  BY DEF RankInv, SlotsDiffer
<1> QED
  BY <1>1, <1>2, <1>3 DEF RankInv

\* An idle slot becomes available again.
LEMMA ReleaseFrees ==
  ASSUME TypeOK, NEW r \in Owners, NEW k \in Slots, Release(r, k)
  PROVE  /\ job'[r][k].step = "free"
         /\ \A p \in Owners, l \in Slots : p # r \/ l # k => job'[p][l] = job[p][l]
<1>1. OnlySlot(r, k)
  BY JobAfter DEF TypeOK
<1>2. job'[r][k].step = "free"
  BY DEF Release, FreeJob, TypeOK, RenderTypeOK
<1> QED
  BY <1>1, <1>2 DEF OnlySlot

LEMMA KillFrees ==
  ASSUME TypeOK, NEW r \in Owners, Kill(r)
  PROVE  /\ \A k \in Slots : job'[r][k].step = "free"
         /\ \A p \in Owners : p # r => job'[p] = job[p]
  BY DEF Kill, FreeJob, TypeOK, RenderTypeOK

\* Every step of a rank keeps its own invariant.
LEMMA OwnRank ==
  ASSUME TypeOK, RenderInv, [Next]_vars, NEW r \in Owners, RankInv(r),
         Launch(r) \/ MainStep(r) \/ Crash(r)
  PROVE  RankInv(r)'
<1>0. /\ main \in [Owners -> MainStates] /\ pending \in [Owners -> 0 .. NumShards]
      /\ job \in [Owners -> [Slots -> Job]] /\ NumShards \in Nat
  BY StaticAssumption DEF TypeOK, RenderTypeOK
<1>1. FirstShard(r)' = FirstShard(r) /\ EndShard(r)' = EndShard(r)
  BY DEF FirstShard, EndShard
<1>2. /\ FirstShard(r) \in 0 .. NumShards /\ EndShard(r) \in 0 .. NumShards
      /\ FirstShard(r) <= EndShard(r)
  BY RangeBounds
<1>3. CASE Launch(r)
  <2>1. main'[r] = "fill" /\ pending'[r] = FirstShard(r) /\ job' = job
    BY <1>0, <1>3 DEF Launch, renderVars
  <2>2. \A k \in Slots : job'[r][k].step = "free"
    BY <1>3, <2>1 DEF Launch, RankInv, SlotSubmitted
  <2>3. Submitted(r)' = {}
    BY <1>1, <1>2, <2>1 DEF Submitted
  <2> QED
    BY <1>1, <1>2, <2>1, <2>2, <2>3 DEF RankInv, SlotSubmitted, SlotsDiffer, Accounted
<1>4. ASSUME NEW k \in Slots, StartRender(r, k) PROVE RankInv(r)'
  <2>1. /\ main[r] = "fill" /\ main'[r] = "fill" /\ Alive(r) /\ Alive(r)'
        /\ pending[r] \in FirstShard(r) .. EndShard(r) /\ pending[r] < EndShard(r)
        /\ pending'[r] = pending[r] + 1 /\ pending[r] \in Shards
    BY <1>0, <1>1, <1>2, <1>4, StaticAssumption DEF StartRender, Alive, Ended, RankInv
  <2>2. /\ job[r][k].step = "free"
        /\ job'[r][k].step = "probe" /\ job'[r][k].shard = pending[r]
        /\ \A l \in Slots : l # k => job'[r][l] = job[r][l]
    BY <1>0, <1>4 DEF StartRender, Submit, FreeJob
  <2>3. Submitted(r)' = Submitted(r) \cup {pending[r]} /\ pending[r] \notin Submitted(r)
    BY <1>1, <1>2, <2>1 DEF Submitted
  <2>4. \A l \in Slots : SlotSubmitted(r, l)'
    BY <2>1, <2>2, <2>3 DEF RankInv, SlotSubmitted
  <2>5. SlotsDiffer(r)'
    BY <2>2, <2>3 DEF RankInv, SlotSubmitted, SlotsDiffer
  <2>6. Accounted(r)'
    <3> SUFFICES ASSUME NEW s \in Submitted(r)'
                 PROVE  \/ Staged(s)'
                        \/ \E l \in Slots : job'[r][l].step # "free" /\ job'[r][l].shard = s
      BY DEF Accounted
    <3>1. CASE s = pending[r]
      BY <2>2, <3>1
    <3>2. CASE s \in Submitted(r) /\ Staged(s)
      BY <3>2, StagedKept, RankShards
    <3>3. ASSUME NEW l \in Slots, job[r][l].step # "free", job[r][l].shard = s
          PROVE  \E j \in Slots : job'[r][j].step # "free" /\ job'[r][j].shard = s
      BY <2>2, <3>3
    <3> QED
      BY <2>1, <2>3, <3>1, <3>2, <3>3 DEF RankInv, Accounted
  <2> QED
    BY <1>1, <1>2, <2>1, <2>4, <2>5, <2>6 DEF RankInv
<1>5. CASE Wait(r)
  <2>1. /\ main[r] = "fill" /\ main'[r] = "resolve" /\ pending'[r] = pending[r]
        /\ job' = job /\ Alive(r) /\ Alive(r)'
    BY <1>0, <1>5 DEF Wait, renderVars, Alive, Ended
  <2>2. Accounted(r)'
    <3>1. \A s \in Submitted(r) : Staged(s) => Staged(s)'
      BY StagedKept, RankShards
    <3> QED
      BY <1>1, <2>1, <3>1 DEF RankInv, Accounted, Submitted
  <2> QED
    BY <2>1, <2>2, LessWork DEF RankInv
<1>6. ASSUME NEW k \in Slots, TakeOutcome(r, k) PROVE RankInv(r)'
  <2>1. /\ main[r] = "resolve" /\ main'[r] \in {"fill", "resolve"}
        /\ pending'[r] = pending[r] /\ Alive(r) /\ Alive(r)'
    BY <1>0, <1>6 DEF TakeOutcome, Alive, Ended
  <2>2. job'[r][k].step = "free" /\ \A l \in Slots : l # k => job'[r][l] = job[r][l]
    BY <1>6, ReleaseFrees DEF TakeOutcome
  <2>3. Accounted(r)'
    <3> SUFFICES ASSUME NEW s \in Submitted(r)
                 PROVE  \/ Staged(s)'
                        \/ \E l \in Slots : job'[r][l].step # "free" /\ job'[r][l].shard = s
      BY <1>1, <2>1 DEF Accounted, Submitted
    <3>1. ASSUME job[r][k].shard = s PROVE Staged(s)
      BY <1>6, <3>1 DEF TakeOutcome, RenderInv, SuccessIsStaged, SlotStaged
    <3>2. Staged(s) => Staged(s)'
      BY StagedKept, RankShards
    <3> QED
      BY <2>1, <2>2, <3>1, <3>2 DEF RankInv, Accounted
  <2> QED
    BY <2>1, <2>2, <2>3, LessWork DEF RankInv
<1>7. ASSUME NEW k \in Slots, RenderFailed(r, k) \/ Cancel(r, k) PROVE RankInv(r)'
  <2>1. /\ main'[r] = "drain" /\ pending'[r] = pending[r] /\ Alive(r) /\ Alive(r)'
    BY <1>0, <1>7 DEF RenderFailed, Cancel, Alive, Ended, loop
  <2>2. job'[r][k].step = "free" /\ \A l \in Slots : l # k => job'[r][l] = job[r][l]
    BY <1>7, ReleaseFrees DEF RenderFailed, Cancel
  <2> QED
    BY <2>1, <2>2, LessWork DEF RankInv, Accounted
<1>8. CASE Exit(r) \/ Crash(r)
  <2>1. Kill(r) /\ pending' = pending
    BY <1>8 DEF Exit, Crash
  <2>2. \A k \in Slots : job'[r][k].step = "free"
    BY <2>1, KillFrees
  <2>3. main'[r] \in {"ok", "failed", "dead"} /\ ~Alive(r)'
    BY <1>0, <1>8 DEF Exit, Crash, Alive, Ended
  <2>4. ASSUME main'[r] = "ok", NEW s \in MyShards(NumShards, r, World) PROVE Staged(s)'
    <3>1. main[r] = "fill" /\ pending[r] = EndShard(r) /\ FreeSlots(r) = Slots
      BY <1>0, <1>8, <2>4 DEF Exit, Crash
    <3>2. s \in Submitted(r)
      BY <3>1 DEF Submitted, MyShards, FirstShard, EndShard
    <3>3. Staged(s)
      BY <3>1, <3>2 DEF RankInv, Accounted, FreeSlots
    <3> QED
      BY <3>3, StagedKept, RankShards
  <2> QED
    BY <2>1, <2>2, <2>3, <2>4, LessWork DEF RankInv, Accounted
<1> QED
  BY <1>3, <1>4, <1>5, <1>6, <1>7, <1>8 DEF MainStep

\* A slot at work keeps its shard and stays busy until its outcome is taken.
LEMMA JobKeepsShard ==
  ASSUME TypeOK, NEW r \in Owners, NEW k \in Slots, JobStep(r, k) \/ Fail(r, k)
  PROVE  /\ job[r][k].step # "free" /\ job'[r][k].step # "free"
         /\ job'[r][k].shard = job[r][k].shard
         /\ \A p \in Owners, l \in Slots : p # r \/ l # k => job'[p][l] = job[p][l]
<1>0. RenderTypeOK /\ job \in [Owners -> [Slots -> Job]]
  BY DEF TypeOK, RenderTypeOK
<1>1. ASSUME NEW step \in Steps, Goto(r, k, step)
      PROVE  job'[r][k].step = step /\ job'[r][k].shard = job[r][k].shard
  <2>1. job[r][k] \in Job /\ job'[r][k] = [job[r][k] EXCEPT !.step = step]
    BY <1>0, <1>1, GotoChange
  <2> QED
    BY <2>1 DEF Job
<1>2. CASE WriteMarker(r, k) \/ RetryRender(r, k)
  <2>1. job'[r][k].step = "render" /\ job'[r][k].shard = job[r][k].shard
    <3>1. job[r][k] \in Job
      BY <1>0
    <3>2. CASE RetryRender(r, k)
      BY <1>0, <3>1, <3>2 DEF RetryRender, Job
    <3>3. CASE WriteMarker(r, k)
      <4>1. PICK a \in Attempts :
              job' = [job EXCEPT ![r][k] = [@ EXCEPT !.step = "render", !.attempt = a]]
        BY <3>3 DEF WriteMarker
      <4>2. job'[r][k] = [job[r][k] EXCEPT !.step = "render", !.attempt = a]
        BY <1>0, <4>1
      <4> QED
        BY <3>1, <4>2 DEF Job
    <3> QED
      BY <1>2, <3>2, <3>3
  <2> QED
    BY <1>0, <1>2, <2>1, JobAfter DEF OnlySlot, JobStep, WriteMarker, RetryRender
<1>3. CASE ~(WriteMarker(r, k) \/ RetryRender(r, k))
  <2>1. job[r][k].step # "free"
        /\ \E step \in Steps \ {"free"} : Goto(r, k, step)
    BY <1>3
       DEF JobStep, Fail, Working, Probe, Render, WriteFragment, WriteStats, WriteSidecar,
           WriteValid, Cleanup, InputMissing, Steps
  <2> QED
    BY <1>0, <1>1, <2>1, JobAfter DEF OnlySlot
<1> QED
  BY <1>2, <1>3

LEMMA SInvStep == SInv /\ [Next]_vars => SInv'
<1> SUFFICES ASSUME SInv, [Next]_vars PROVE SInv'
  OBVIOUS
<1>0. TypeOK /\ RenderInv /\ main \in [Owners -> MainStates]
      /\ pending \in [Owners -> 0 .. NumShards]
  BY DEF SInv, TypeOK
<1>1. TypeOK' /\ RenderInv'
  BY <1>0, TypeOKStep, NextIsRenderStep, RenderInvStep
<1>2. ASSUME NEW q \in Owners PROVE RankInv(q)'
  <2>0. RankInv(q)
    BY DEF SInv
  <2>1. CASE UNCHANGED vars
    BY <1>0, <2>0, <2>1, SameRank DEF vars, loop, renderVars
  <2>2. ASSUME NEW r \in Owners, Launch(r) \/ MainStep(r) \/ Crash(r) PROVE RankInv(q)'
    <3>1. CASE r = q
      BY <1>0, <2>0, <2>2, <3>1, OwnRank
    <3>2. CASE r # q
      <4>1. main'[q] = main[q] /\ pending'[q] = pending[q]
        BY <1>0, <2>2, <3>2
           DEF Launch, MainStep, StartRender, TakeOutcome, RenderFailed, Cancel, Wait, Exit,
               Crash, loop
      <4>2. \/ UNCHANGED job \/ Kill(r)
            \/ \E k \in Slots : Release(r, k) \/ \E s \in Shards : Submit(r, k, s)
        <5>1. ASSUME NEW k \in Slots, StartRender(r, k) PROVE pending[r] \in Shards
          BY <1>0, <5>1, RangeBounds, StaticAssumption DEF StartRender
        <5> QED
          BY <2>2, <5>1
             DEF Launch, MainStep, StartRender, TakeOutcome, RenderFailed, Cancel, Wait, Exit,
                 Crash, renderVars
      <4>3. \A k \in Slots : job'[q][k] = job[q][k]
        BY <1>0, <3>2, <4>2, KillFrees, JobAfter DEF OnlySlot, TypeOK
      <4> QED
        BY <1>0, <2>0, <4>1, <4>3, SameRank
    <3> QED
      BY <3>1, <3>2
  <2>3. ASSUME NEW r \in Owners, NEW k \in Slots, RenderStep(r, k) \/ RenderFault(r, k)
        PROVE  RankInv(q)'
    <3>1. \A l \in Slots : /\ job'[q][l].step = "free" <=> job[q][l].step = "free"
                           /\ job'[q][l].shard = job[q][l].shard
      BY <1>0, <2>3, JobKeepsShard DEF RenderStep, RenderFault
    <3> QED
      BY <1>0, <2>0, <2>3, <3>1, SameRank DEF RenderStep, RenderFault, loop
  <2> QED
    BY <2>1, <2>2, <2>3 DEF Next
<1> QED
  BY <1>1, <1>2 DEF SInv

THEOREM StaticInvariance == Spec => []SInv
<1>1. Init => SInv
  BY InitSInv
<1>2. SInv /\ [Next]_vars => SInv'
  BY SInvStep
<1> QED
  BY <1>1, <1>2, PTL DEF Spec

\* Every variable keeps its type.
THEOREM StaticTypes == Spec => []TypeOK
<1>1. SInv => TypeOK
  BY DEF SInv
<1> QED
  BY <1>1, StaticInvariance, PTL

\* No two slots of the run, of one rank or of two, work on the same shard.
THEOREM SlotsNeverShare == Spec => []NoSharedShard
<1>1. SInv => NoSharedShard
  <2> SUFFICES ASSUME SInv, NEW r \in Owners, NEW q \in Owners, NEW k \in Slots, NEW l \in Slots,
                      <<r, k>> # <<q, l>>,
                      job[r][k].step # "free", job[q][l].step # "free",
                      job[r][k].shard = job[q][l].shard
               PROVE  FALSE
    BY DEF NoSharedShard
  <2>1. r # q
    BY DEF SInv, RankInv, SlotsDiffer
  <2>2. ASSUME NEW o \in Owners, NEW j \in Slots, job[o][j].step # "free"
        PROVE  job[o][j].shard \in MyShards(NumShards, o, World)
    <3>1. job[o][j].shard \in Submitted(o) /\ pending[o] \in FirstShard(o) .. EndShard(o)
      BY <2>2 DEF SInv, RankInv, SlotSubmitted
    <3>2. FirstShard(o) \in Nat /\ EndShard(o) \in Nat
      BY RangeBounds
    <3>3. job[o][j].shard \in FirstShard(o) .. EndShard(o) - 1
      BY <3>1, <3>2 DEF Submitted
    <3> QED
      BY <3>3 DEF MyShards, FirstShard, EndShard
  <2>3. NumShards \in Nat /\ World \in Nat \ {0} /\ r \in Nat /\ q \in Nat
    BY StaticAssumption
  <2> QED
    BY <2>1, <2>2, <2>3, Disjoint
<1> QED
  BY <1>1, StaticInvariance, PTL

\* Ranks that have all reported success have staged the whole run.
THEOREM AllRanksOkStageTheRun == Spec => []AllOkMeansStaged
<1>1. SInv => AllOkMeansStaged
  <2> SUFFICES ASSUME SInv, \A r \in Owners : main[r] = "ok", NEW s \in Shards
               PROVE  Staged(s)
    BY DEF AllOkMeansStaged
  <2>1. PICK r \in Owners : s \in MyShards(NumShards, r, World)
    BY Owned, StaticAssumption
  <2> QED
    BY <2>1 DEF SInv, RankInv
<1> QED
  BY <1>1, StaticInvariance, PTL

\* However many slots a rank has, a job reads the output of its own renderer
\* and every complete attempt is one render.
THEOREM StaticAttemptsAreOneRender == Spec => [](OwnInput /\ AttemptIsOneRender)
<1> DEFINE OneRender == OwnInput /\ OwnSources
<1>1. Init => OneRender
  BY DEF Init, RenderInit, FreeJob, UnusedAttempt, OwnInput, OwnSources
<1>2. SInv /\ OneRender /\ [Next]_vars => OneRender'
  <2> SUFFICES ASSUME SInv, OwnInput, OwnSources, [Next]_vars PROVE OneRender'
    OBVIOUS
  <2>1. RenderInv /\ [RenderNext]_renderVars
    BY NextIsRenderStep DEF SInv
  <2>2. SlotsApart
    BY DEF SInv, RankInv, SlotsDiffer, SlotsApart
  <2>3. CASE RenderNext
    BY <2>1, <2>2, <2>3, OwnInputStep, OwnSourcesStep
  <2>4. CASE UNCHANGED renderVars
    BY <2>4 DEF renderVars, OwnInput, OwnSources, Input
  <2> QED
    BY <2>1, <2>3, <2>4
<1>3. SInv /\ OneRender => OwnInput /\ AttemptIsOneRender
  BY SourcesGiveOneRender DEF SInv
<1> HIDE DEF OneRender
<1> QED
  BY <1>1, <1>2, <1>3, StaticInvariance, PTL DEF Spec

-----------------------------------------------------------------------------
(***************************************************************************)
(* A static run from end to end.                                           *)
(***************************************************************************)

\* While the ranks run, what they have handed out; and at all times what the
\* run as a whole keeps.
StaticLifeInv ==
  /\ TypeOK
  /\ LifeInv
  /\ stage = "generate" => \A r \in Owners : RankInv(r)

\* Ranks that have all reported success have no work left.
LEMMA OkMeansFree ==
  ASSUME \A r \in Owners : RankInv(r) /\ main[r] = "ok" PROVE AllFree
  BY DEF RankInv, SlotSubmitted, Alive, Ended, AllFree

LEMMA StaticLifeInit == SInit => StaticLifeInv
<1> SUFFICES ASSUME SInit PROVE StaticLifeInv
  OBVIOUS
<1>1. SInv
  BY InitSInv DEF SInit
<1>2. LifeInv
  BY LifeStart DEF SInit, Init
<1> QED
  BY <1>1, <1>2 DEF SInv, StaticLifeInv

\* A step of the generate job is a step of static generation.
LEMMA StaticGenerate ==
  ASSUME StaticLifeInv, NEW r \in Owners, Generate(GenerateRank(r)) \/ Generate(GenerateFault(r))
  PROVE  StaticLifeInv'
<1>1. /\ stage = "generate" /\ stage' = "generate" /\ Next /\ Land
      /\ UNCHANGED <<stage, finalizer>>
  BY DEF Generate, GenerateRank, GenerateFault, Next
<1>2. SInv
  BY <1>1 DEF StaticLifeInv, SInv, LifeInv
<1>3. SInv'
  BY <1>1, <1>2, SInvStep
<1>4. SlotsApart
  BY <1>2 DEF SInv, RankInv, SlotsDiffer, SlotsApart
<1>5. LifeInv'
  BY <1>1, <1>2, <1>4, NextIsRenderStep, LifeGenerate DEF StaticLifeInv, SInv
<1> QED
  BY <1>3, <1>5 DEF SInv, StaticLifeInv

LEMMA StaticToFinalize == StaticLifeInv /\ SToFinalize => StaticLifeInv'
<1> SUFFICES ASSUME StaticLifeInv, SToFinalize PROVE StaticLifeInv'
  OBVIOUS
<1>1. /\ ToFinalize(TRUE) /\ stage = "generate" /\ stage' = "finalize"
      /\ \A r \in Owners : main[r] = "ok"
      /\ UNCHANGED <<staged, job, local, main, pending, batch, faults>>
  BY DEF SToFinalize, ToFinalize, generator, loop
<1>2. AllFree
  BY <1>1, OkMeansFree DEF StaticLifeInv
<1>3. LifeInv'
  BY <1>1, <1>2, LifeToFinalize DEF StaticLifeInv
<1>4. TypeOK'
  BY <1>1 DEF StaticLifeInv, TypeOK, RenderTypeOK
<1> QED
  BY <1>1, <1>3, <1>4 DEF StaticLifeInv

LEMMA StaticFinalize ==
  ASSUME StaticLifeInv, NEW f \in Finalizers, SFinalize(f)
  PROVE  StaticLifeInv'
<1>1. /\ Finalize(f) /\ stage' = "finalize"
      /\ UNCHANGED <<job, local, main, pending, batch, faults>>
  BY DEF SFinalize, Finalize, generator, loop
<1>2. LifeInv'
  BY <1>1, LifeFinalize DEF StaticLifeInv
<1>3. TypeOK'
  BY <1>1, <1>2 DEF StaticLifeInv, TypeOK, LifeInv, RenderInv
<1> QED
  BY <1>1, <1>2, <1>3 DEF StaticLifeInv

\* No rank has work when the operator generates again.
LEMMA StaticToGenerate == StaticLifeInv /\ SToGenerate => StaticLifeInv'
<1> SUFFICES ASSUME StaticLifeInv, SToGenerate PROVE StaticLifeInv'
  OBVIOUS
<1>1. /\ ToGenerate /\ stage = "finalize" /\ main' = [r \in Owners |-> "off"]
      /\ UNCHANGED <<staged, job, local, pending, batch, faults>>
  BY DEF SToGenerate, ToGenerate, lifeVars
<1>2. LifeInv'
  BY <1>1, LifeToGenerate DEF StaticLifeInv
<1>3. TypeOK'
  BY <1>1 DEF StaticLifeInv, TypeOK, RenderTypeOK, MainStates, Ended
<1>4. AllFree'
  BY <1>1 DEF StaticLifeInv, LifeInv, StageOK, AllFree
<1>5. ASSUME NEW r \in Owners PROVE RankInv(r)'
  <2>1. main'[r] = "off" /\ \A k \in Slots : job'[r][k].step = "free"
    BY <1>1, <1>4 DEF AllFree
  <2> QED
    BY <2>1 DEF RankInv, Alive, Ended, SlotSubmitted, SlotsDiffer, Accounted
<1> QED
  BY <1>2, <1>3, <1>5 DEF StaticLifeInv

\* Of a static run, with any number of finalizers: the marker vouches, for every
\* shard, for one healthy attempt on it whose fragment and statistics are of
\* one render, however often ranks crash, shards are rendered again and
\* finalize fails and is repeated.
THEOREM StaticRunsPublishOneRender ==
  SSpec => []PublishedIsOneRender
<1>1. SInit => StaticLifeInv
  BY StaticLifeInit
<1>2. StaticLifeInv /\ [SNext]_allVars => StaticLifeInv'
  <2> SUFFICES ASSUME StaticLifeInv, [SNext]_allVars PROVE StaticLifeInv'
    OBVIOUS
  <2>1. CASE UNCHANGED allVars
    <3>1. UNCHANGED <<vars, stage, storage, finalizer>>
      BY <2>1 DEF allVars, generator, lifeVars, vars, renderVars
    <3>2. LifeInv'
      BY <3>1, LifeSame DEF StaticLifeInv, vars
    <3>3. TypeOK'
      BY <3>1, TypeOKStep DEF StaticLifeInv, LifeInv
    <3>4. stage = "generate" => SInv'
      BY <3>1, SInvStep DEF StaticLifeInv, SInv, LifeInv
    <3> QED
      BY <3>1, <3>2, <3>3, <3>4 DEF StaticLifeInv, SInv
  <2> QED
    BY <2>1, StaticGenerate, StaticToFinalize, StaticFinalize, StaticToGenerate DEF SNext
<1>3. StaticLifeInv => PublishedIsOneRender
  BY LifeIsOneRender DEF StaticLifeInv
<1> QED
  BY <1>1, <1>2, <1>3, PTL DEF SSpec
=============================================================================

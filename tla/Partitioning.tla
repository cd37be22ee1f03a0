----------------------------- MODULE Partitioning -----------------------------
(***************************************************************************)
(* Static ownership of shards (pipeline/partitioning.py): rank r of world  *)
(* owns one contiguous range of 0 .. total-1, balanced to within one.      *)
(***************************************************************************)
EXTENDS Integers

\* Mutant of First: the larger shares of the ranks before r are forgotten.
FirstWithoutExtra(total, r, world) == r * (total \div world)

\* start of get_my_shards
First(total, r, world) ==
  LET base == total \div world
      extra == total % world
  IN  r * base + (IF r <= extra THEN r ELSE extra)

\* Length of the range: one more for the first ranks.
Size(total, r, world) ==
  total \div world + (IF r < total % world THEN 1 ELSE 0)

\* end of get_my_shards, exclusive
End(total, r, world) == First(total, r, world) + Size(total, r, world)

\* get_my_shards
MyShards(total, r, world) == First(total, r, world) .. End(total, r, world) - 1

\* The ranges of all ranks partition the shards: every shard has one owner.
IsPartition(total, world) ==
  \A s \in 0 .. total - 1 :
    \E r \in 0 .. world - 1 :
      /\ s \in MyShards(total, r, world)
      /\ \A q \in 0 .. world - 1 : s \in MyShards(total, q, world) => q = r

\* No range leaves the shards of the run.
InRange(total, world) ==
  \A r \in 0 .. world - 1 : MyShards(total, r, world) \subseteq 0 .. total - 1

\* No rank has two shards more than another.
IsBalanced(total, world) ==
  \A r, q \in 0 .. world - 1 : Size(total, r, world) <= Size(total, q, world) + 1
=============================================================================

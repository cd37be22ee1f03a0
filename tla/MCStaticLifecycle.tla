-------------------------- MODULE MCStaticLifecycle --------------------------
\* Instances of StaticLifecycle for TLC: shard 0 trains, the others validate.
EXTENDS StaticLifecycle

MCSplitOf == [s \in Shards |-> IF s = 0 THEN 1 ELSE 2]
=============================================================================

--------------------------- MODULE MCQueueLifecycle ---------------------------
\* Instances of QueueLifecycle for TLC: shard 0 trains, the others validate.
EXTENDS QueueLifecycle

MCSplitOf == [s \in Shards |-> IF s = 0 THEN 1 ELSE 2]
=============================================================================

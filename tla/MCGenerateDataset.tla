-------------------------- MODULE MCGenerateDataset --------------------------
\* Instances of GenerateDataset for TLC.
EXTENDS GenerateDataset, TLC

\* Workers, slots and shards are interchangeable (attempts are numbered in order of
\* opening): sound for the runs that check no temporal property.
Symmetry == Permutations(Owners) \cup Permutations(Shards)
              \cup Permutations(Slots)
=============================================================================

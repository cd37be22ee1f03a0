------------------------------- MODULE Staging -------------------------------
(***************************************************************************)
(* The staging prefix of a run (pipeline/data/lance_staging.py): under     *)
(* each shard, the objects of every attempt to render it.  Objects are     *)
(* only ever added.  ShardRender writes attempts, FinalizeDataset picks    *)
(* one per shard and excludes those that fail its checks.                  *)
(*                                                                         *)
(* The rows themselves are left out: an attempt's data and statistics are  *)
(* named by the attempt whose render they were read from.                  *)
(***************************************************************************)
EXTENDS Naturals, FiniteSets

CONSTANTS
  Shards,        \* logical shard ids
  NoShard,       \* shard of an unused attempt
  MaxAttempts    \* bound: attempts that can ever be opened

ASSUME NoShardAssumption == NoShard \notin Shards
ASSUME MaxAttemptsAssumption == MaxAttempts \in Nat

VARIABLE staged  \* [Attempts -> Attempt]

Attempts == 1 .. MaxAttempts    \* worker_id-attempt_uuid
NoAttempt == 0

Objects == {"rendering", "fragment", "stats", "sidecar", "valid", "invalid"}

Attempt == [shard : Shards \cup {NoShard}, objects : SUBSET Objects,
            data : Attempts \cup {NoAttempt}, stats : Attempts \cup {NoAttempt}]

UnusedAttempt ==
  [shard |-> NoShard, objects |-> {}, data |-> NoAttempt, stats |-> NoAttempt]

Unused(a) == staged[a].shard = NoShard

AttemptsOf(s) == {a \in Attempts : staged[a].shard = s}

\* Mutant of Complete: an exclusion is overlooked.
CompleteExclusionsUnread(a) == {"stats", "sidecar", "valid"} \subseteq staged[a].objects

\* complete_attempt_names: every artifact is there and none excludes it.
Complete(a) ==
  /\ {"stats", "sidecar", "valid"} \subseteq staged[a].objects
  /\ "invalid" \notin staged[a].objects

\* shard_has_complete_attempt
Staged(s) == \E a \in AttemptsOf(s) : Complete(a)
=============================================================================

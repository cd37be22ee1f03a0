----------------------------- MODULE ShardQueue -----------------------------
(***************************************************************************)
(* What the shard-claims table promises to the workers of a run: a queue   *)
(* of shards in which a shard is granted to one claimant at a time under a *)
(* lease, every grant carries a new fencing generation, and only the       *)
(* current generation can mark the shard done.                             *)
(*                                                                         *)
(* Lease expiry is a flag here: a lease lapses at some point, and how the  *)
(* clock decides that is the business of ShardClaims, which implements     *)
(* this specification.  GenerateDataset builds on this module.             *)
(***************************************************************************)
EXTENDS Naturals

CONSTANTS
  Shards,     \* logical shard ids of the run
  Owners,     \* claimant identities, one per worker process ever started
  NoOwner     \* owner column of a row nobody has claimed (the empty string)

VARIABLES
  rows,       \* the claims table: one row per shard
  tokens      \* [Owners -> set of claims held (ClaimedShard)]

queueVars == <<rows, tokens>>

\* "lapsed" is a claimed row whose lease has run out.
Statuses == {"absent", "available", "claimed", "lapsed", "done"}

Row == [status : Statuses, owner : Owners \cup {NoOwner}, gen : Nat]

\* The fencing token a won claim hands to the worker.
Token == [shard : Shards, gen : Nat]

QueueTypeOK ==
  /\ rows \in [Shards -> Row]
  /\ tokens \in [Owners -> SUBSET Token]

AbsentRow == [status |-> "absent", owner |-> NoOwner, gen |-> 0]
AvailableRow == [AbsentRow EXCEPT !.status = "available"]

QueueInit ==
  /\ rows = [s \in Shards |-> AbsentRow]
  /\ tokens = [o \in Owners |-> {}]

\* Mutant of Claimable: a claim is for ever.
ClaimableOnce(row) == row.status = "available"

Claimable(row) == row.status \in {"available", "lapsed"}
UnderClaim(row) == row.status \in {"claimed", "lapsed"}

(***************************************************************************)
(* The operations.                                                         *)
(***************************************************************************)

\* The operator ensures one row per requested shard; existing rows keep
\* their status.
Populate(S) ==
  /\ rows' = [s \in Shards |->
                IF s \in S /\ rows[s].status = "absent" THEN AvailableRow
                                                        ELSE rows[s]]
  /\ UNCHANGED tokens

\* Leases of the claimed rows S run out.
Lapse(S) ==
  /\ \A s \in S : rows[s].status = "claimed"
  /\ rows' = [s \in Shards |->
                IF s \in S THEN [rows[s] EXCEPT !.status = "lapsed"] ELSE rows[s]]
  /\ UNCHANGED tokens

\* Mutant of Take: a takeover keeps the generation.
TakeSameGen(o, s) ==
  /\ Claimable(rows[s])
  /\ rows' = [rows EXCEPT ![s] =
                [status |-> "claimed", owner |-> o,
                 gen |-> IF rows[s].gen = 0 THEN 1 ELSE rows[s].gen]]
  /\ UNCHANGED tokens

\* The conditional update of o wins shard s.  A lease computed from an old
\* clock reading may have lapsed when it is written.
Take(o, s) ==
  /\ Claimable(rows[s])
  /\ \E status \in {"claimed", "lapsed"} :
       rows' = [rows EXCEPT ![s] =
                  [status |-> status, owner |-> o, gen |-> rows[s].gen + 1]]
  /\ UNCHANGED tokens

\* The read after the update confirms the claim: o holds the token.
Grant(o, s) ==
  /\ UnderClaim(rows[s]) /\ rows[s].owner = o
  /\ tokens' = [tokens EXCEPT ![o] = @ \cup {[shard |-> s, gen |-> rows[s].gen]}]
  /\ UNCHANGED rows

\* complete() of a token of the current generation.
Finish(o, t) ==
  /\ t \in tokens[o]
  /\ rows[t.shard].owner = o
  /\ rows[t.shard].gen = t.gen
  /\ rows' = [rows EXCEPT ![t.shard].status = "done"]
  /\ tokens' = [tokens EXCEPT ![o] = @ \ {t}]

\* Tokens T of o are given up with the table unchanged: complete() lost its
\* fence or gave in to contention, the render failed, or the process died.
Drop(o, T) ==
  /\ tokens' = [tokens EXCEPT ![o] = @ \ T]
  /\ UNCHANGED rows

QueueNext ==
  \/ \E S \in SUBSET Shards : Populate(S) \/ Lapse(S)
  \/ \E o \in Owners, s \in Shards : Take(o, s) \/ Grant(o, s)
  \/ \E o \in Owners : \E t \in tokens[o] : Finish(o, t)
  \/ \E o \in Owners : \E T \in SUBSET tokens[o] : Drop(o, T)

QueueSpec == QueueInit /\ [][QueueNext]_queueVars
=============================================================================

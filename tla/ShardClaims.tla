---------------------------- MODULE ShardClaims ----------------------------
(***************************************************************************)
(* The claim table of pipeline/shard_claims.py: one Lance row per shard,   *)
(* updated by conditional UPDATEs whose predicate is the compare-and-set.  *)
(* There is no heartbeat: claim() writes one lease expiry, a lapsed claim  *)
(* can be taken over, and claim_gen fences the completion of the previous  *)
(* holder.                                                                 *)
(*                                                                         *)
(* One claim() call is four steps, since other processes and the clock run *)
(* between them: read the clock, scan the table, run the conditional       *)
(* update, read the row back.  Every call of a process is made by its main *)
(* thread, so a process is inside at most one call, but a parallel worker  *)
(* holds several claims.  Every process start generates a fresh owner, so  *)
(* a crashed owner never comes back.                                       *)
(*                                                                         *)
(* Data left out: the attempts column (it moves with claim_gen and nothing *)
(* reads it) and the backoff sleep.  A storage error other than contention *)
(* propagates and ends the process: Crash.                                 *)
(***************************************************************************)
EXTENDS Naturals, FiniteSets

CONSTANTS
  Shards,      \* logical shard ids
  Owners,      \* one identity per worker process (default_owner)
  NoOwner,     \* the empty owner column
  NoShard,     \* value of cand while no candidate is picked
  Lease,       \* CLAIM_LEASE in clock units
  MaxHeld,     \* claims a worker renders at once; 1 for the serial loop
  MaxClock     \* bound: the clock stops here

ASSUME LeaseAssumption == Lease \in Nat
ASSUME MaxHeldAssumption == MaxHeld \in Nat \ {0}
ASSUME MaxClockAssumption == MaxClock \in Nat
ASSUME OwnerAssumption == NoOwner \notin Owners
ASSUME ShardAssumption == NoShard \notin Shards

VARIABLES
  clock,       \* int(time.time()); all workers read the same clock
  rows,        \* the claims table
  pc,          \* where each process is in claim()
  now,         \* now_s of the claim() in progress, 0 when out of scope
  cand,        \* shard_id the claim() in progress tries to take
  held         \* [Owners -> set of ClaimedShard] not yet completed

vars == <<clock, rows, pc, now, cand, held>>

Statuses == {"absent", "available", "claimed", "done"}

Row == [status : Statuses, owner : Owners \cup {NoOwner}, expiry : Nat, gen : Nat]

ClaimedShard == [shard : Shards, gen : Nat]

\* "idle": outside claim(); "retry": at the top of its loop after a lost
\* race; "scan", "update", "confirm": before that step; "down": ended.
ProcessStates == {"idle", "retry", "scan", "update", "confirm", "down"}

TypeOK ==
  /\ clock \in Nat
  /\ rows \in [Shards -> Row]
  /\ pc \in [Owners -> ProcessStates]
  /\ now \in [Owners -> Nat]
  /\ cand \in [Owners -> Shards \cup {NoShard}]
  /\ held \in [Owners -> SUBSET ClaimedShard]

AbsentRow == [status |-> "absent", owner |-> NoOwner, expiry |-> 0, gen |-> 0]
AvailableRow == [AbsentRow EXCEPT !.status = "available"]

Init ==
  /\ clock = 0
  /\ rows = [s \in Shards |-> AbsentRow]
  /\ pc = [o \in Owners |-> "idle"]
  /\ now = [o \in Owners |-> 0]
  /\ cand = [o \in Owners |-> NoShard]
  /\ held = [o \in Owners |-> {}]

-----------------------------------------------------------------------------
(***************************************************************************)
(* Table predicates and row updates.                                       *)
(***************************************************************************)

\* _claimable_predicate: an unclaimed row, or a claim whose lease is past.
Claimable(row, t) ==
  \/ row.status = "available"
  \/ row.status = "claimed" /\ row.expiry < t

\* Columns written by the claim's conditional update.
ClaimedRow(row, o, t) ==
  [status |-> "claimed", owner |-> o, expiry |-> t + Lease, gen |-> row.gen + 1]

\* Mutant of FenceHolds: the owner alone, the generation forgotten.
FenceByOwner(row, o, c) == row.owner = o

\* WHERE clause of complete().
FenceHolds(row, o, c) == row.owner = o /\ row.gen = c.gen

-----------------------------------------------------------------------------
\* Mutant of Populate: a relaunch re-seeds the rows it is asked for.
PopulateReseeds(S) ==
  /\ rows' = [s \in Shards |-> IF s \in S THEN AvailableRow ELSE rows[s]]
  /\ UNCHANGED <<clock, pc, now, cand, held>>

(***************************************************************************)
(* populate(): create the table, or merge in the rows it lacks.  Rows that *)
(* exist keep their status.                                                *)
(***************************************************************************)
Populate(S) ==
  /\ rows' = [s \in Shards |->
                IF s \in S /\ rows[s].status = "absent" THEN AvailableRow
                                                        ELSE rows[s]]
  /\ UNCHANGED <<clock, pc, now, cand, held>>

Tick ==
  /\ clock < MaxClock
  /\ clock' = clock + 1
  /\ UNCHANGED <<rows, pc, now, cand, held>>

(***************************************************************************)
(* claim()                                                                 *)
(***************************************************************************)

\* now_s is read once per round of the loop; scan and update both use it.
ReadClock(o) ==
  /\ \/ pc[o] = "idle" /\ Cardinality(held[o]) < MaxHeld
     \/ pc[o] = "retry"
  /\ now' = [now EXCEPT ![o] = clock]
  /\ pc' = [pc EXCEPT ![o] = "scan"]
  /\ UNCHANGED <<clock, rows, cand, held>>

\* Nothing claimable at now_s: claim() returns None.  (Opening a table that
\* was never created raises instead, and the process ends.)
ScanDrained(o) ==
  /\ pc[o] = "scan"
  /\ \E s \in Shards : rows[s].status # "absent"
  /\ \A s \in Shards : ~Claimable(rows[s], now[o])
  /\ pc' = [pc EXCEPT ![o] = "idle"]
  /\ now' = [now EXCEPT ![o] = 0]
  /\ UNCHANGED <<clock, rows, cand, held>>

\* A random candidate is chosen.
ScanPick(o, s) ==
  /\ pc[o] = "scan"
  /\ Claimable(rows[s], now[o])
  /\ cand' = [cand EXCEPT ![o] = s]
  /\ pc' = [pc EXCEPT ![o] = "update"]
  /\ UNCHANGED <<clock, rows, now, held>>

\* Mutant of UpdateWins: a plain update by shard id, no predicate.
UpdateUnconditional(o) ==
  /\ pc[o] = "update"
  /\ rows' = [rows EXCEPT ![cand[o]] = ClaimedRow(@, o, now[o])]
  /\ pc' = [pc EXCEPT ![o] = "confirm"]
  /\ now' = [now EXCEPT ![o] = 0]
  /\ UNCHANGED <<clock, cand, held>>

\* The conditional update commits: Lance evaluates the predicate on the
\* latest version.
UpdateWins(o) ==
  /\ pc[o] = "update"
  /\ Claimable(rows[cand[o]], now[o])
  /\ rows' = [rows EXCEPT ![cand[o]] = ClaimedRow(@, o, now[o])]
  /\ pc' = [pc EXCEPT ![o] = "confirm"]
  /\ now' = [now EXCEPT ![o] = 0]
  /\ UNCHANGED <<clock, cand, held>>

\* Zero rows updated because a peer took the row, or commit retries were
\* exhausted ("Too many concurrent writers"): one more lost race.
UpdateLost(o) ==
  /\ pc[o] = "update"
  /\ pc' = [pc EXCEPT ![o] = "retry"]
  /\ now' = [now EXCEPT ![o] = 0]
  /\ cand' = [cand EXCEPT ![o] = NoShard]
  /\ UNCHANGED <<clock, rows, held>>

\* Mutant of ConfirmWon: the update's row count is taken as proof.
ConfirmUnread(o) ==
  /\ pc[o] = "confirm"
  /\ held' = [held EXCEPT ![o] =
                @ \cup {[shard |-> cand[o], gen |-> rows[cand[o]].gen]}]
  /\ pc' = [pc EXCEPT ![o] = "idle"]
  /\ cand' = [cand EXCEPT ![o] = NoShard]
  /\ UNCHANGED <<clock, rows, now>>

\* The row is read back: the claim is won if the row still names this owner.
ConfirmWon(o) ==
  /\ pc[o] = "confirm"
  /\ rows[cand[o]].owner = o
  /\ held' = [held EXCEPT ![o] =
                @ \cup {[shard |-> cand[o], gen |-> rows[cand[o]].gen]}]
  /\ pc' = [pc EXCEPT ![o] = "idle"]
  /\ cand' = [cand EXCEPT ![o] = NoShard]
  /\ UNCHANGED <<clock, rows, now>>

\* A peer re-took the lapsed lease between commit and read.
ConfirmLost(o) ==
  /\ pc[o] = "confirm"
  /\ rows[cand[o]].owner # o
  /\ pc' = [pc EXCEPT ![o] = "retry"]
  /\ cand' = [cand EXCEPT ![o] = NoShard]
  /\ UNCHANGED <<clock, rows, now, held>>

(***************************************************************************)
(* complete()                                                              *)
(***************************************************************************)
CompleteWins(o, c) ==
  /\ pc[o] = "idle"
  /\ FenceHolds(rows[c.shard], o, c)
  /\ rows' = [rows EXCEPT ![c.shard].status = "done"]
  /\ held' = [held EXCEPT ![o] = @ \ {c}]
  /\ UNCHANGED <<clock, pc, now, cand>>

\* The claim ends without a done row: the fence is lost, the write was
\* abandoned to contention, or the render failed and the claim is left held.
LeaveClaim(o, c) ==
  /\ pc[o] = "idle"
  /\ held' = [held EXCEPT ![o] = @ \ {c}]
  /\ UNCHANGED <<clock, rows, pc, now, cand>>

\* The process dies, at any step of any call.
Crash(o) ==
  /\ pc[o] # "down"
  /\ pc' = [pc EXCEPT ![o] = "down"]
  /\ now' = [now EXCEPT ![o] = 0]
  /\ cand' = [cand EXCEPT ![o] = NoShard]
  /\ held' = [held EXCEPT ![o] = {}]
  /\ UNCHANGED <<clock, rows>>

-----------------------------------------------------------------------------
Next ==
  \/ Tick
  \/ \E S \in SUBSET Shards : Populate(S)
  \/ \E o \in Owners :
       \/ ReadClock(o) \/ ScanDrained(o)
       \/ \E s \in Shards : ScanPick(o, s)
       \/ UpdateWins(o) \/ UpdateLost(o)
       \/ ConfirmWon(o) \/ ConfirmLost(o)
       \/ \E c \in held[o] : CompleteWins(o, c) \/ LeaveClaim(o, c)
       \/ Crash(o)

Spec == Init /\ [][Next]_vars

-----------------------------------------------------------------------------
(***************************************************************************)
(* Properties.                                                             *)
(***************************************************************************)

\* The fence is sound.  A claim a worker holds never carries a generation the
\* table has not reached, and a claim of the current generation means the row
\* is still that worker's, claimed and not done: so complete() can succeed
\* only for the last claimant, and a stale owner's complete() matches nothing.
HeldClaimIsCurrentOrStale ==
  \A o \in Owners : \A c \in held[o] :
    /\ c.gen <= rows[c.shard].gen
    /\ c.gen = rows[c.shard].gen =>
         rows[c.shard].owner = o /\ rows[c.shard].status = "claimed"

\* No two workers ever hold the same (shard, claim_gen): the token of a won
\* claim identifies one claimant even after takeovers.
ClaimedByOne ==
  \A o, p \in Owners : held[o] \cap held[p] # {} => o = p

\* A row becomes done only in a complete() of its current claim by the owner
\* the table names.
DoneByCurrentClaim ==
  [][\A s \in Shards :
       rows[s].status # "done" /\ rows'[s].status = "done" =>
         \E o \in Owners :
           /\ rows[s].owner = o
           /\ [shard |-> s, gen |-> rows[s].gen] \in held[o] \ held'[o]]_vars

\* A claim is taken over only after its lease: whatever a worker read before
\* its update, the lease it overrides has lapsed on the clock.
NoLiveTakeover ==
  [][\A s \in Shards :
       rows[s].status = "claimed" /\ rows'[s].gen # rows[s].gen =>
         rows[s].expiry < clock]_vars

\* Rows only move forward, under racing claims, completions, lapsed leases and
\* relaunches that populate again: a generation grows by one per claim, a
\* claimed row never becomes available again, and a done row is final.
RowsAdvance ==
  [][\A s \in Shards :
       \/ rows'[s] = rows[s]
       \/ rows[s].status = "absent" /\ rows'[s] = AvailableRow
       \/ /\ rows[s].status \in {"available", "claimed"}
          /\ rows'[s].status = "claimed"
          /\ rows'[s].gen = rows[s].gen + 1
       \/ /\ rows[s].status = "claimed"
          /\ rows'[s] = [rows[s] EXCEPT !.status = "done"]]_vars

(***************************************************************************)
(* The abstract queue this table implements.                               *)
(***************************************************************************)
QueueRow(row) ==
  [status |-> IF row.status = "claimed" /\ row.expiry < clock
              THEN "lapsed" ELSE row.status,
   owner |-> row.owner, gen |-> row.gen]

queueRows == [s \in Shards |-> QueueRow(rows[s])]

Queue == INSTANCE ShardQueue WITH rows <- queueRows, tokens <- held

\* Every step of the table is a step of the abstract queue: the four steps of
\* claim() behave as one grant whatever runs between them.
ImplementsQueue == Queue!QueueSpec
=============================================================================

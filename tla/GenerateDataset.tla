--------------------------- MODULE GenerateDataset ---------------------------
(***************************************************************************)
(* Queue-mode generation (cli/generate_dataset.py, use_shard_queue): the   *)
(* operator populates the claims table, workers claim shards, render and   *)
(* complete them, and leave once nothing is claimable.                     *)
(*                                                                         *)
(* The claims table is the queue ShardClaims is shown to implement; the    *)
(* renders are those of ShardRender.  Slots = one thread is the serial     *)
(* loop, more are the thread pool, whose main thread claims, waits and     *)
(* completes while the pool renders.                                       *)
(*                                                                         *)
(* An ended worker can be launched again.  The claims of its past lives    *)
(* carry the name of its new one here, where the code draws a new owner:   *)
(* nothing compares the owner of a row with an owner that has no token of  *)
(* the row's generation.                                                   *)
(*                                                                         *)
(* Faults are counted and bounded by MaxFaults: a step that raises, a      *)
(* crash, a completion given up to contention, a lease that runs out under *)
(* a live worker.  The lease of a dead or failed worker runs out for free. *)
(***************************************************************************)
EXTENDS ShardRender

CONSTANTS
  NoOwner,     \* owner column of a row nobody has claimed
  MaxFaults    \* bound: faults of a behaviour

ASSUME MaxFaultsAssumption == MaxFaults \in Nat

VARIABLES
  rows,        \* the claims table
  tokens,      \* claims held by each worker
  main,        \* what each worker's main thread is doing
  exhausted,   \* claim() has returned None: the worker asks no more
  batch,       \* finished slots the last wait() returned, unresolved
  cand,        \* shard the claim() in progress has taken
  claimGen,    \* [Owners -> [Slots -> generation of the slot's claim]]
  faults       \* faults so far

INSTANCE ShardQueue

queue == <<rows, tokens>>
loop == <<main, exhausted, batch, cand, claimGen>>
vars == <<renderVars, queue, loop, faults>>

\* "fill": claiming for free slots, then waiting for a slot to finish;
\* "resolve": completing the batch; "drain": a failure was seen, the slots
\* in flight run out.  A worker that is "off", "ok", "failed" or "dead" has
\* no process.
Ended == {"off", "ok", "failed", "dead"}
MainStates == Ended \cup {"fill", "resolve", "drain"}

TypeOK ==
  /\ RenderTypeOK
  /\ QueueTypeOK
  /\ main \in [Owners -> MainStates]
  /\ exhausted \in [Owners -> BOOLEAN]
  /\ batch \in [Owners -> SUBSET Slots]
  /\ cand \in [Owners -> Shards \cup {NoShard}]
  /\ claimGen \in [Owners -> [Slots -> Nat]]
  /\ faults \in 0 .. MaxFaults

Init ==
  /\ RenderInit
  /\ QueueInit
  /\ main = [o \in Owners |-> "off"]
  /\ exhausted = [o \in Owners |-> FALSE]
  /\ batch = [o \in Owners |-> {}]
  /\ cand = [o \in Owners |-> NoShard]
  /\ claimGen = [o \in Owners |-> [k \in Slots |-> 0]]
  /\ faults = 0

Alive(o) == main[o] \notin Ended
FreeSlots(o) == {k \in Slots : job[o][k].step = "free"}
FinishedSlots(o) == {k \in Slots : job[o][k].step \in Finished}

Fault ==
  /\ faults < MaxFaults
  /\ faults' = faults + 1

-----------------------------------------------------------------------------
(***************************************************************************)
(* Operator.                                                               *)
(***************************************************************************)

\* Every row of the spec's shards is in place before any worker starts.
PopulateClaims ==
  /\ Populate(Shards)
  /\ UNCHANGED <<renderVars, loop, faults>>

Launch(o) ==
  /\ ~Alive(o)
  /\ \A s \in Shards : rows[s].status # "absent"
  /\ main' = [main EXCEPT ![o] = "fill"]
  /\ exhausted' = [exhausted EXCEPT ![o] = FALSE]
  /\ UNCHANGED <<renderVars, queue, batch, cand, claimGen, faults>>

-----------------------------------------------------------------------------
(***************************************************************************)
(* Leases.                                                                 *)
(***************************************************************************)

\* Some worker still holds, or is about to confirm, the current claim of s.
UnderWork(s) ==
  \E o \in Owners :
    \/ [shard |-> s, gen |-> rows[s].gen] \in tokens[o]
    \/ cand[o] = s /\ rows[s].owner = o

\* The lease of a claim nobody works under runs out.
LapseOrphan(s) ==
  /\ ~UnderWork(s)
  /\ Lapse({s})
  /\ UNCHANGED <<renderVars, loop, faults>>

\* A render outlives its lease.
LapseLive(s) ==
  /\ UnderWork(s)
  /\ Lapse({s})
  /\ Fault
  /\ UNCHANGED <<renderVars, loop>>

-----------------------------------------------------------------------------
(***************************************************************************)
(* The main thread of a worker.                                            *)
(***************************************************************************)

\* A claim is due: _claim_next_shard.
Claiming(o) ==
  /\ main[o] = "fill"
  /\ ~exhausted[o]
  /\ cand[o] = NoShard
  /\ FreeSlots(o) # {}

\* The claim's conditional update wins.
TakeShard(o, s) ==
  /\ Claiming(o)
  /\ Take(o, s)
  /\ IF rows'[s].status = "lapsed" THEN Fault ELSE UNCHANGED faults
  /\ cand' = [cand EXCEPT ![o] = s]
  /\ UNCHANGED <<renderVars, main, exhausted, batch, claimGen>>

\* The read-back confirms the claim and the shard is submitted to the pool.
StartRender(o, k) ==
  /\ cand[o] # NoShard
  /\ Grant(o, cand[o])
  /\ Submit(o, k, cand[o])
  /\ claimGen' = [claimGen EXCEPT ![o][k] = rows[cand[o]].gen]
  /\ cand' = [cand EXCEPT ![o] = NoShard]
  /\ UNCHANGED <<main, exhausted, batch, faults>>

\* A peer re-took the lapsed claim first: claim() goes round again.
LoseShard(o) ==
  /\ cand[o] # NoShard
  /\ rows[cand[o]].owner # o
  /\ cand' = [cand EXCEPT ![o] = NoShard]
  /\ UNCHANGED <<renderVars, queue, main, exhausted, batch, claimGen, faults>>

\* Mutant of Drained: a scan that finds a peer at work gives up.
DrainedByPeer(o) ==
  /\ Claiming(o)
  /\ \E s \in Shards : ~Claimable(rows[s])
  /\ exhausted' = [exhausted EXCEPT ![o] = TRUE]
  /\ UNCHANGED <<renderVars, queue, main, batch, cand, claimGen, faults>>

\* Nothing is claimable: claim() returns None, and iter(..., None) stops for
\* good even if leases lapse later.
Drained(o) ==
  /\ Claiming(o)
  /\ \A s \in Shards : ~Claimable(rows[s])
  /\ exhausted' = [exhausted EXCEPT ![o] = TRUE]
  /\ UNCHANGED <<renderVars, queue, main, batch, cand, claimGen, faults>>

\* claim() raises, after or before its update took effect.
ClaimError(o) ==
  /\ main[o] = "fill"
  /\ Claiming(o) \/ cand[o] # NoShard
  /\ Fault
  /\ main' = [main EXCEPT ![o] = "drain"]
  /\ cand' = [cand EXCEPT ![o] = NoShard]
  /\ UNCHANGED <<renderVars, queue, exhausted, batch, claimGen>>

\* All slots that can be filled are: wait(..., FIRST_COMPLETED) returns every
\* slot finished by then, at least one.
Wait(o) ==
  /\ main[o] = "fill"
  /\ cand[o] = NoShard
  /\ exhausted[o] \/ FreeSlots(o) = {}
  /\ FinishedSlots(o) # {}
  /\ batch' = [batch EXCEPT ![o] = FinishedSlots(o)]
  /\ main' = [main EXCEPT ![o] = "resolve"]
  /\ UNCHANGED <<renderVars, queue, exhausted, cand, claimGen, faults>>

\* The slots whose outcome the main thread may take now.
Resolvable(o) ==
  IF main[o] = "drain" THEN FinishedSlots(o)
  ELSE IF main[o] = "resolve" THEN batch[o] ELSE {}

SlotToken(o, k) == [shard |-> job[o][k].shard, gen |-> claimGen[o][k]]

FenceLost(o, t) == rows[t.shard].owner # o \/ rows[t.shard].gen # t.gen

\* The main thread is done with slot k; the last of a batch starts refilling.
Settle(o, k) ==
  /\ Release(o, k)
  /\ claimGen' = [claimGen EXCEPT ![o][k] = 0]
  /\ batch' = [batch EXCEPT ![o] = @ \ {k}]
  /\ UNCHANGED <<exhausted, cand>>

NextMain(o, k) ==
  IF main[o] = "resolve" /\ batch[o] = {k} THEN "fill" ELSE main[o]

\* Mutant of CompleteClaim: a failed render's claim is completed as well.
CompleteAnyClaim(o, k) ==
  /\ k \in Resolvable(o)
  /\ Finish(o, SlotToken(o, k))
  /\ main' = [main EXCEPT ![o] = NextMain(o, k)]
  /\ Settle(o, k)
  /\ UNCHANGED faults

\* The render succeeded or was skipped: its claim is completed.
CompleteClaim(o, k) ==
  /\ k \in Resolvable(o)
  /\ job[o][k].step \in Succeeded
  /\ Finish(o, SlotToken(o, k))
  /\ main' = [main EXCEPT ![o] = NextMain(o, k)]
  /\ Settle(o, k)
  /\ UNCHANGED faults

\* complete() updates no row: a peer has taken the lapsed claim over.  Or it
\* gives in to contention and the row stays claimed.  Either way the worker
\* goes on.
CompleteMissed(o, k) ==
  /\ k \in Resolvable(o)
  /\ job[o][k].step \in Succeeded
  /\ IF FenceLost(o, SlotToken(o, k)) THEN UNCHANGED faults ELSE Fault
  /\ Drop(o, {SlotToken(o, k)})
  /\ main' = [main EXCEPT ![o] = NextMain(o, k)]
  /\ Settle(o, k)

\* Mutant of RenderFailed: the failure is re-raised without draining.
FailWithoutDrain(o, k) ==
  /\ k \in Resolvable(o)
  /\ job[o][k].step = "failed"
  /\ Drop(o, tokens[o])
  /\ main' = [main EXCEPT ![o] = "drain"]
  /\ job' = [job EXCEPT ![o] = [j \in Slots |-> FreeJob]]
  /\ claimGen' = [claimGen EXCEPT ![o] = [j \in Slots |-> 0]]
  /\ batch' = [batch EXCEPT ![o] = {}]
  /\ UNCHANGED <<local, staged, exhausted, cand, faults>>

\* future.result() raises the render's exception: the claim stays held, and
\* the worker takes no more.
RenderFailed(o, k) ==
  /\ k \in Resolvable(o)
  /\ job[o][k].step = "failed"
  /\ Drop(o, {SlotToken(o, k)})
  /\ main' = [main EXCEPT ![o] = "drain"]
  /\ Settle(o, k)
  /\ UNCHANGED faults

\* complete() itself raises.
CompleteError(o, k) ==
  /\ k \in Resolvable(o)
  /\ job[o][k].step \in Succeeded
  /\ Fault
  /\ Drop(o, {SlotToken(o, k)})
  /\ main' = [main EXCEPT ![o] = "drain"]
  /\ Settle(o, k)

\* The loop returns, or the first failure is re-raised once the pool is idle.
Exit(o) ==
  /\ \/ main[o] = "fill" /\ exhausted[o]
     \/ main[o] = "drain"
  /\ cand[o] = NoShard
  /\ FreeSlots(o) = Slots
  /\ main' = [main EXCEPT ![o] = IF @ = "fill" THEN "ok" ELSE "failed"]
  /\ batch' = [batch EXCEPT ![o] = {}]
  /\ Kill(o)
  /\ UNCHANGED <<queue, exhausted, cand, claimGen, faults>>

\* The process dies at any point, its claims left in the table.
Crash(o) ==
  /\ Alive(o)
  /\ Fault
  /\ main' = [main EXCEPT ![o] = "dead"]
  /\ Kill(o)
  /\ Drop(o, tokens[o])
  /\ batch' = [batch EXCEPT ![o] = {}]
  /\ cand' = [cand EXCEPT ![o] = NoShard]
  /\ claimGen' = [claimGen EXCEPT ![o] = [k \in Slots |-> 0]]
  /\ UNCHANGED exhausted

-----------------------------------------------------------------------------
\* A render thread at work.
RenderStep(o, k) == JobStep(o, k) /\ UNCHANGED <<queue, loop, faults>>
RenderFault(o, k) == Fail(o, k) /\ Fault /\ UNCHANGED <<queue, loop>>

MainStep(o) ==
  \/ \E s \in Shards : TakeShard(o, s)
  \/ \E k \in Slots : StartRender(o, k)
  \/ LoseShard(o) \/ Drained(o) \/ Wait(o)
  \/ \E k \in Slots : CompleteClaim(o, k) \/ CompleteMissed(o, k) \/ RenderFailed(o, k)
  \/ Exit(o)

MainFault(o) ==
  \/ ClaimError(o)
  \/ \E k \in Slots : CompleteError(o, k)
  \/ Crash(o)

Next ==
  \/ PopulateClaims
  \/ \E s \in Shards : LapseOrphan(s) \/ LapseLive(s)
  \/ \E o \in Owners :
       \/ Launch(o) \/ MainStep(o) \/ MainFault(o)
       \/ \E k \in Slots : RenderStep(o, k) \/ RenderFault(o, k)

Spec == Init /\ [][Next]_vars

-----------------------------------------------------------------------------
(***************************************************************************)
(* Properties.                                                             *)
(***************************************************************************)

\* A shard is done in the claims table only if a complete attempt of it is
\* staged: no interleaving of crashes, takeovers and late completions makes
\* the queue forget a shard that still has to be rendered.
DoneImpliesStaged ==
  \A s \in Shards : rows[s].status = "done" => Staged(s)

\* Every attempt on a shard was opened under a claim of its own: a claim is
\* never rendered twice.
OneAttemptPerClaim ==
  \A s \in Shards : Cardinality(AttemptsOf(s)) <= rows[s].gen

\* A render that succeeded is reported: a peer's failure does not make the
\* pool forget it.  Only a lost fence or a fault of its own keeps the shard
\* from becoming done.
SuccessIsReported ==
  [][\A o \in Owners, k \in Slots :
       job[o][k].step \in Succeeded /\ job'[o][k].step = "free" =>
         \/ rows'[job[o][k].shard].status = "done"
         \/ FenceLost(o, SlotToken(o, k))
         \/ faults' > faults]_vars

\* A worker leaves only once every shard has been claimed by someone.
LeavesNothingAvailable ==
  \A o \in Owners : exhausted[o] => \A s \in Shards : rows[s].status # "available"
=============================================================================

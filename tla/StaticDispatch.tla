---------------------------- MODULE StaticDispatch ----------------------------
(***************************************************************************)
(* Static generation (cli/generate_dataset.py without the shard queue):    *)
(* rank r renders the contiguous range of shards Partitioning gives it,    *)
(* one after the other with one slot, in waves with several.  Nothing is   *)
(* shared between ranks but the staging prefix.  A rank that ended can be  *)
(* launched again, and skips what it finds staged.                         *)
(*                                                                         *)
(* Faults are counted and bounded by MaxFaults: a step that raises, a      *)
(* crash.                                                                  *)
(***************************************************************************)
EXTENDS ShardRender, Partitioning

CONSTANTS
  NumShards,   \* spec.num_shards
  World,       \* number of ranks
  MaxFaults    \* bound: faults of a behaviour

ASSUME StaticAssumption ==
  /\ NumShards \in Nat /\ Shards = 0 .. NumShards - 1
  /\ World \in Nat \ {0} /\ Owners = 0 .. World - 1
  /\ MaxFaults \in Nat

VARIABLES
  main,        \* what each rank's main thread is doing
  pending,     \* first shard of the rank's range not yet submitted
  batch,       \* finished slots the last wait() returned, unresolved
  faults       \* faults so far

loop == <<main, pending, batch>>
vars == <<renderVars, loop, faults>>

\* As in GenerateDataset; "drain": pool.shutdown after the first failure.
Ended == {"off", "ok", "failed", "dead"}
MainStates == Ended \cup {"fill", "resolve", "drain"}

TypeOK ==
  /\ RenderTypeOK
  /\ main \in [Owners -> MainStates]
  /\ pending \in [Owners -> 0 .. NumShards]
  /\ batch \in [Owners -> SUBSET Slots]
  /\ faults \in 0 .. MaxFaults

FirstShard(r) == First(NumShards, r, World)
EndShard(r) == End(NumShards, r, World)

Init ==
  /\ RenderInit
  /\ main = [r \in Owners |-> "off"]
  /\ pending = [r \in Owners |-> 0]
  /\ batch = [r \in Owners |-> {}]
  /\ faults = 0

Alive(r) == main[r] \notin Ended
FreeSlots(r) == {k \in Slots : job[r][k].step = "free"}
FinishedSlots(r) == {k \in Slots : job[r][k].step \in Finished}

Fault ==
  /\ faults < MaxFaults
  /\ faults' = faults + 1

-----------------------------------------------------------------------------
Launch(r) ==
  /\ ~Alive(r)
  /\ main' = [main EXCEPT ![r] = "fill"]
  /\ pending' = [pending EXCEPT ![r] = FirstShard(r)]
  /\ UNCHANGED <<renderVars, batch, faults>>

\* The next shard of the range goes to a free slot.
StartRender(r, k) ==
  /\ main[r] = "fill"
  /\ pending[r] < EndShard(r)
  /\ Submit(r, k, pending[r])
  /\ pending' = [pending EXCEPT ![r] = @ + 1]
  /\ UNCHANGED <<main, batch, faults>>

\* All slots that can be filled are: wait(..., FIRST_COMPLETED).
Wait(r) ==
  /\ main[r] = "fill"
  /\ pending[r] = EndShard(r) \/ FreeSlots(r) = {}
  /\ FinishedSlots(r) # {}
  /\ batch' = [batch EXCEPT ![r] = FinishedSlots(r)]
  /\ main' = [main EXCEPT ![r] = "resolve"]
  /\ UNCHANGED <<renderVars, pending, faults>>

\* A shard of the batch was rendered or skipped; the last one starts the
\* next wave.
TakeOutcome(r, k) ==
  /\ main[r] = "resolve" /\ k \in batch[r]
  /\ job[r][k].step \in Succeeded
  /\ Release(r, k)
  /\ batch' = [batch EXCEPT ![r] = @ \ {k}]
  /\ main' = [main EXCEPT ![r] = IF batch[r] = {k} THEN "fill" ELSE @]
  /\ UNCHANGED <<pending, faults>>

\* Mutant of RenderFailed: the failure is swallowed.
RenderFailedIgnored(r, k) ==
  /\ main[r] = "resolve" /\ k \in batch[r]
  /\ job[r][k].step = "failed"
  /\ Release(r, k)
  /\ batch' = [batch EXCEPT ![r] = @ \ {k}]
  /\ main' = [main EXCEPT ![r] = IF batch[r] = {k} THEN "fill" ELSE @]
  /\ UNCHANGED <<pending, faults>>

\* fut.result() raises: nothing more is submitted.
RenderFailed(r, k) ==
  /\ main[r] = "resolve" /\ k \in batch[r]
  /\ job[r][k].step = "failed"
  /\ Release(r, k)
  /\ batch' = [batch EXCEPT ![r] = {}]
  /\ main' = [main EXCEPT ![r] = "drain"]
  /\ UNCHANGED <<pending, faults>>

\* cancel_futures: a shard submitted that no thread has picked up yet.
Cancel(r, k) ==
  /\ main[r] = "drain"
  /\ job[r][k].step = "probe"
  /\ Release(r, k)
  /\ UNCHANGED <<loop, faults>>

\* The range is done; or the shards in flight have run out after a failure,
\* their outcomes unread.
Exit(r) ==
  /\ \/ main[r] = "fill" /\ pending[r] = EndShard(r) /\ FreeSlots(r) = Slots
     \/ main[r] = "drain" /\ FreeSlots(r) \cup FinishedSlots(r) = Slots
  /\ main' = [main EXCEPT ![r] = IF @ = "fill" THEN "ok" ELSE "failed"]
  /\ Kill(r)
  /\ UNCHANGED <<pending, batch, faults>>

Crash(r) ==
  /\ Alive(r)
  /\ Fault
  /\ main' = [main EXCEPT ![r] = "dead"]
  /\ batch' = [batch EXCEPT ![r] = {}]
  /\ Kill(r)
  /\ UNCHANGED pending

-----------------------------------------------------------------------------
RenderStep(r, k) == JobStep(r, k) /\ UNCHANGED <<loop, faults>>
RenderFault(r, k) == Fail(r, k) /\ Fault /\ UNCHANGED loop

MainStep(r) ==
  \/ \E k \in Slots : StartRender(r, k) \/ TakeOutcome(r, k) \/ RenderFailed(r, k) \/ Cancel(r, k)
  \/ Wait(r)
  \/ Exit(r)

Next ==
  \E r \in Owners :
    \/ Launch(r) \/ MainStep(r) \/ Crash(r)
    \/ \E k \in Slots : RenderStep(r, k) \/ RenderFault(r, k)

Spec == Init /\ [][Next]_vars

-----------------------------------------------------------------------------
(***************************************************************************)
(* Properties.                                                             *)
(***************************************************************************)

\* No two slots, of one rank or of two, ever work on the same shard: this is
\* what makes a rank's local directories and its skip probe race free.
NoSharedShard ==
  \A r, q \in Owners, k, l \in Slots :
    /\ <<r, k>> # <<q, l>>
    /\ job[r][k].step # "free" /\ job[q][l].step # "free"
    => job[r][k].shard # job[q][l].shard

\* Ranks that all report success have staged the whole run between them: the
\* barrier in front of finalize needs nothing else.
AllOkMeansStaged ==
  (\A r \in Owners : main[r] = "ok") => \A s \in Shards : Staged(s)

=============================================================================

------------------------------- MODULE Lifecycle -------------------------------
(***************************************************************************)
(* A run from end to end: the generate job, the finalize job that needs    *)
(* it, and the operator who generates again when finalize fails.  This     *)
(* module holds what StaticLifecycle and QueueLifecycle share: the two     *)
(* stages, and the storage side of staging that only finalize looks at.    *)
(*                                                                         *)
(* A finalizer never fails by itself and misreads nothing; FinalizeDataset *)
(* is about that.  The key order of tied markers is left to it as well.    *)
(***************************************************************************)
EXTENDS Staging

CONSTANTS
  SplitOf, NumSplits, Finalizers, Modes,   \* see FinalizeDataset
  MaxDamaged     \* bound: attempts staged with a defect finalize detects

ASSUME MaxDamagedAssumption == MaxDamaged \in Nat
ASSUME LifecycleAssumption ==    \* see FinalizeDataset
  /\ Shards \subseteq Nat
  /\ NumSplits \in Nat \ {0}
  /\ SplitOf \in [Shards -> 1 .. NumSplits]
  /\ \E s \in Shards : SplitOf[s] = 1
  /\ Modes \subseteq {"exact", "estimate"}

VARIABLES
  stage,         \* the job that is running: "generate" or "finalize"
  mtime, damaged,
  manifest, welford, norm, card, complete,
  pc, mode, seen, prefer, winner, reuse, at, sample   \* see FinalizeDataset

storage == <<mtime, damaged>>
finalizer == <<manifest, welford, norm, card, complete,
               pc, mode, seen, prefer, winner, reuse, at, sample>>
lifeVars == <<staged, stage, storage, finalizer>>

F == INSTANCE FinalizeDataset
       WITH MaxReadErrors <- 0, MaxFaults <- 0, readErrors <- 0, faults <- 0

LifeInit == F!Init /\ stage = "generate"

\* Attempts whose .valid marker lands in this step.
Landing == {a \in Attempts : "valid" \in staged'[a].objects \ staged[a].objects}

\* Storage stamps the marker; the staged objects may have a defect the worker
\* did not notice.
Land ==
  IF Landing = {} THEN UNCHANGED storage
  ELSE /\ \E latest \in {mtime[b] : b \in Attempts} :
            /\ \A b \in Attempts : mtime[b] <= latest
            /\ mtime' = [a \in Attempts |-> IF a \in Landing THEN latest + 1 ELSE mtime[a]]
       /\ \/ UNCHANGED damaged
          \/ /\ Cardinality(damaged) < MaxDamaged
             /\ damaged' = damaged \cup Landing

\* A step of the generate job.
Generate(A) ==
  /\ stage = "generate"
  /\ A
  /\ Land
  /\ UNCHANGED <<stage, finalizer>>

\* The finalize job needs the generate job to have succeeded.
ToFinalize(succeeded) ==
  /\ stage = "generate"
  /\ succeeded
  /\ stage' = "finalize"
  /\ pc' = [f \in Finalizers |-> "off"]
  /\ UNCHANGED <<staged, storage, manifest, welford, norm, card, complete,
                 mode, seen, prefer, winner, reuse, at, sample>>

\* A step of the finalize job, which runs each finalizer once.
Finalize(f) ==
  /\ stage = "finalize"
  /\ pc[f] = "off" \/ pc[f] \notin F!Ended
  /\ F!Restart(f) \/ F!SkipFinalized(f) \/ F!Step(f)
  /\ UNCHANGED stage

\* Finalize failed: the operator runs the generate job again.
ToGenerate ==
  /\ stage = "finalize"
  /\ \E f \in Finalizers : pc[f] = "failed"
  /\ F!Quiescent
  /\ stage' = "generate"
  /\ UNCHANGED <<staged, storage, finalizer>>

-----------------------------------------------------------------------------
\* What dataset.complete vouches for, end to end: every shard of every split
\* is published by one attempt at that shard, whose fragment and statistics
\* were read from one render of its own.
PublishedIsOneRender ==
  complete =>
    /\ F!CompleteIsOneSelection
    /\ \A s \in Shards :
         /\ card[s] \in AttemptsOf(s) \ damaged
         /\ "fragment" \in staged[card[s]].objects
         /\ staged[card[s]].data = card[s] /\ staged[card[s]].stats = card[s]

\* The run ends finalized: what crashes and lapsed leases left undone is done,
\* and a defect finalize finds is repaired, by generating again.
RunIsPublished == <>complete
=============================================================================

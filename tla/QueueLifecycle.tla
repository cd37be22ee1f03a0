---------------------------- MODULE QueueLifecycle ----------------------------
(***************************************************************************)
(* Lifecycle with queue-mode generation: the claims table decides which    *)
(* shards a worker ever looks at, and nothing takes a done row back.       *)
(***************************************************************************)
EXTENDS GenerateDataset, Lifecycle

generator == <<job, local, queue, loop, faults>>
allVars == <<generator, lifeVars>>

QInit == Init /\ LifeInit

\* A worker that succeeded is left alone until the next generate job.
GenerateWorker(o) ==
  \/ main[o] # "ok" /\ Launch(o)
  \/ MainStep(o)
  \/ \E k \in Slots : RenderStep(o, k)

\* Time passes whatever job runs.
QLapse(s) == LapseOrphan(s) /\ UNCHANGED lifeVars

GenerateFault(o) == MainFault(o) \/ \E k \in Slots : RenderFault(o, k)

QToFinalize == ToFinalize(\A o \in Owners : main[o] = "ok") /\ UNCHANGED generator
QFinalize(f) == Finalize(f) /\ UNCHANGED generator

QToGenerate ==
  /\ ToGenerate
  /\ main' = [o \in Owners |-> "off"]
  /\ UNCHANGED <<job, local, queue, exhausted, batch, cand, claimGen, faults>>

QNext ==
  \/ Generate(PopulateClaims)
  \/ \E s \in Shards : QLapse(s) \/ Generate(LapseLive(s))
  \/ \E o \in Owners : Generate(GenerateWorker(o)) \/ Generate(GenerateFault(o))
  \/ QToFinalize
  \/ \E f \in Finalizers : QFinalize(f)
  \/ QToGenerate

QSpec == QInit /\ [][QNext]_allVars

\* The jobs run when they can, and so do their threads; leases run out.
QFairSpec ==
  /\ QSpec
  /\ WF_allVars(Generate(PopulateClaims))
  /\ \A s \in Shards : WF_allVars(QLapse(s))
  /\ \A o \in Owners : WF_allVars(Generate(main[o] # "ok" /\ Launch(o)))
  /\ \A o \in Owners : WF_allVars(Generate(MainStep(o)))
  /\ \A o \in Owners, k \in Slots : WF_allVars(Generate(RenderStep(o, k)))
  /\ WF_allVars(QToFinalize) /\ WF_allVars(QToGenerate)
  /\ \A f \in Finalizers : WF_allVars(QFinalize(f))
=============================================================================

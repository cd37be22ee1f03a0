---------------------------- MODULE StaticLifecycle ----------------------------
(***************************************************************************)
(* Lifecycle with static generation: a shard whose attempt finalize        *)
(* excluded is missing for the next run's skip probe.                      *)
(***************************************************************************)
EXTENDS StaticDispatch, Lifecycle

generator == <<job, local, loop, faults>>
allVars == <<generator, lifeVars>>

SInit == Init /\ LifeInit

\* A rank that succeeded is left alone until the next generate job.
GenerateRank(r) ==
  \/ main[r] # "ok" /\ Launch(r)
  \/ MainStep(r)
  \/ \E k \in Slots : RenderStep(r, k)

GenerateFault(r) == Crash(r) \/ \E k \in Slots : RenderFault(r, k)

SToFinalize == ToFinalize(\A r \in Owners : main[r] = "ok") /\ UNCHANGED generator
SFinalize(f) == Finalize(f) /\ UNCHANGED generator

SToGenerate ==
  /\ ToGenerate
  /\ main' = [r \in Owners |-> "off"]
  /\ UNCHANGED <<job, local, pending, batch, faults>>

SNext ==
  \/ \E r \in Owners : Generate(GenerateRank(r)) \/ Generate(GenerateFault(r))
  \/ SToFinalize
  \/ \E f \in Finalizers : SFinalize(f)
  \/ SToGenerate

SSpec == SInit /\ [][SNext]_allVars

\* The jobs run when they can, and so do their threads.
SFairSpec ==
  /\ SSpec
  /\ \A r \in Owners : WF_allVars(Generate(main[r] # "ok" /\ Launch(r)))
  /\ \A r \in Owners : WF_allVars(Generate(MainStep(r)))
  /\ \A r \in Owners, k \in Slots : WF_allVars(Generate(RenderStep(r, k)))
  /\ WF_allVars(SToFinalize) /\ WF_allVars(SToGenerate)
  /\ \A f \in Finalizers : WF_allVars(SFinalize(f))
=============================================================================

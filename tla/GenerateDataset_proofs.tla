------------------------ MODULE GenerateDataset_proofs ------------------------
(***************************************************************************)
(* Proofs about queue-mode generation, for any number of workers, slots,   *)
(* shards and faults.  Every step of the dispatcher is a step of the       *)
(* staging component or leaves it alone, so what ShardRender_proofs shows  *)
(* about staging holds here; the invariants below relate it to the table.  *)
(* Then attempts are counted against the generations of the claims, and    *)
(* the last section takes a queue-mode run from end to end.                *)
(***************************************************************************)
EXTENDS QueueLifecycle, ShardRender_proofs, FiniteSetTheorems

\* The dispatcher moves renders only by steps of ShardRender.
LEMMA NextIsRenderStep == TypeOK /\ [Next]_vars => [RenderNext]_renderVars
<1> SUFFICES ASSUME TypeOK, [Next]_vars PROVE [RenderNext]_renderVars
  OBVIOUS
<1> USE DEF renderVars
<1>1. ASSUME NEW o \in Owners, MainStep(o) PROVE [RenderNext]_renderVars
  <2>1. ASSUME NEW k \in Slots, NEW s \in Shards, StartRender(o, k), s = cand[o]
        PROVE  RenderNext
    BY <2>1 DEF StartRender, RenderNext
  <2>2. ASSUME NEW k \in Slots, StartRender(o, k) PROVE \E s \in Shards : s = cand[o]
    BY <2>2 DEF StartRender, TypeOK
  <2> QED
    BY <1>1, <2>1, <2>2
       DEF MainStep, TakeShard, LoseShard, Drained, Wait, CompleteClaim, CompleteMissed,
           RenderFailed, Exit, Settle, RenderNext
<1> QED
  BY <1>1
     DEF Next, vars, PopulateClaims, LapseOrphan, LapseLive, Launch, MainFault, ClaimError,
         CompleteError, Crash, Settle, RenderStep, RenderFault, RenderNext

-----------------------------------------------------------------------------
(***************************************************************************)
(* Types.                                                                  *)
(***************************************************************************)

LEMMA InitTypes == Init => TypeOK
<1> SUFFICES ASSUME Init PROVE TypeOK
  OBVIOUS
<1>1. RenderTypeOK
  BY RenderInitInv DEF Init, RenderInv
<1>2. QueueTypeOK
  BY DEF Init, QueueInit, QueueTypeOK, Row, Statuses, AbsentRow
<1> QED
  BY <1>1, <1>2, MaxFaultsAssumption DEF Init, TypeOK, MainStates, Ended

\* The queue's operations keep its types.
LEMMA QueueTypes ==
  ASSUME TypeOK,
         \/ Populate(Shards)
         \/ \E s \in Shards : Lapse({s})
         \/ \E o \in Owners, s \in Shards : Take(o, s) \/ Grant(o, s)
         \/ \E o \in Owners : \E t \in tokens[o] : Finish(o, t)
         \/ \E o \in Owners : \E T : Drop(o, T)
         \/ UNCHANGED queue
  PROVE  QueueTypeOK'
<1>0. rows \in [Shards -> Row] /\ tokens \in [Owners -> SUBSET Token]
  BY DEF TypeOK, QueueTypeOK
<1>1. CASE Populate(Shards)
  <2>1. \A s \in Shards : rows[s] \in Row /\ AvailableRow \in Row
    BY <1>0 DEF Row, Statuses, AvailableRow, AbsentRow
  <2> QED
    BY <1>0, <1>1, <2>1 DEF Populate, QueueTypeOK
<1>2. ASSUME NEW s \in Shards, Lapse({s}) PROVE QueueTypeOK'
  <2>1. \A u \in Shards : rows[u] \in Row /\ [rows[u] EXCEPT !.status = "lapsed"] \in Row
    BY <1>0 DEF Row, Statuses
  <2> QED
    BY <1>0, <1>2, <2>1 DEF Lapse, QueueTypeOK
<1>3. ASSUME NEW o \in Owners, NEW s \in Shards, Take(o, s) PROVE QueueTypeOK'
  <2>1. PICK status \in {"claimed", "lapsed"} :
          rows' = [rows EXCEPT ![s] =
                    [status |-> status, owner |-> o, gen |-> rows[s].gen + 1]]
    BY <1>3 DEF Take
  <2>2. [status |-> status, owner |-> o, gen |-> rows[s].gen + 1] \in Row
    BY <1>0 DEF Row, Statuses
  <2> QED
    BY <1>0, <1>3, <2>1, <2>2 DEF Take, QueueTypeOK
<1>4. ASSUME NEW o \in Owners, NEW s \in Shards, Grant(o, s) PROVE QueueTypeOK'
  <2>1. [shard |-> s, gen |-> rows[s].gen] \in Token
    BY <1>0 DEF Row, Token
  <2> QED
    BY <1>0, <1>4, <2>1 DEF Grant, QueueTypeOK
<1>5. ASSUME NEW o \in Owners, NEW t \in tokens[o], Finish(o, t) PROVE QueueTypeOK'
  <2>1. t.shard \in Shards
    BY <1>0 DEF Token
  <2>2. [rows[t.shard] EXCEPT !.status = "done"] \in Row
    BY <1>0, <2>1 DEF Row, Statuses
  <2> QED
    BY <1>0, <1>5, <2>1, <2>2 DEF Finish, QueueTypeOK
<1>6. ASSUME NEW o \in Owners, NEW T, Drop(o, T) PROVE QueueTypeOK'
  BY <1>0, <1>6 DEF Drop, QueueTypeOK
<1>7. CASE UNCHANGED queue
  BY <1>0, <1>7 DEF queue, QueueTypeOK
<1> QED
  BY <1>1, <1>2, <1>3, <1>4, <1>5, <1>6, <1>7

LEMMA TypeOKStep == TypeOK /\ RenderInv /\ [Next]_vars => TypeOK'
<1> SUFFICES ASSUME TypeOK, RenderInv, [Next]_vars PROVE TypeOK'
  OBVIOUS
<1>1. RenderTypeOK'
  BY NextIsRenderStep, RenderInvStep DEF RenderInv
<1>2. QueueTypeOK'
  <2>1. ASSUME NEW o \in Owners, MainStep(o) PROVE QueueTypeOK'
    <3>1. ASSUME NEW k \in Slots, StartRender(o, k)
          PROVE  cand[o] \in Shards /\ Grant(o, cand[o])
      BY <3>1 DEF StartRender, TypeOK
    <3> QED
      BY <2>1, <3>1, QueueTypes
         DEF MainStep, TakeShard, LoseShard, Drained, Wait, CompleteClaim, CompleteMissed,
             RenderFailed, Exit, Finish, queue
  <2> QED
    BY <2>1, QueueTypes
       DEF Next, vars, queue, PopulateClaims, LapseOrphan, LapseLive, Launch, MainFault,
           ClaimError, CompleteError, Crash, RenderStep, RenderFault
<1>3. ASSUME UNCHANGED <<loop, faults>> PROVE TypeOK'
  BY <1>1, <1>2, <1>3 DEF TypeOK, loop
<1>4. Fault \/ UNCHANGED faults => faults' \in 0 .. MaxFaults
  BY MaxFaultsAssumption DEF Fault, TypeOK
<1>5. ASSUME NEW o \in Owners, MainStep(o) \/ MainFault(o) \/ Launch(o)
      PROVE  /\ main' \in [Owners -> MainStates]
             /\ exhausted' \in [Owners -> BOOLEAN]
             /\ cand' \in [Owners -> Shards \cup {NoShard}]
  <2>1. main' = main \/ \E m \in MainStates : main' = [main EXCEPT ![o] = m]
    <3>1. \A k \in Slots : NextMain(o, k) \in MainStates
      BY DEF NextMain, TypeOK, MainStates
    <3> QED
      BY <1>5, <3>1
         DEF MainStep, MainFault, Launch, TakeShard, StartRender, LoseShard, Drained, Wait,
             CompleteClaim, CompleteMissed, RenderFailed, Exit, ClaimError, CompleteError,
             Crash, MainStates, Ended
  <2>2. exhausted' = exhausted \/ \E e \in BOOLEAN : exhausted' = [exhausted EXCEPT ![o] = e]
    BY <1>5
       DEF MainStep, MainFault, Launch, TakeShard, StartRender, LoseShard, Drained, Wait,
           CompleteClaim, CompleteMissed, RenderFailed, Exit, ClaimError, CompleteError,
           Crash, Settle
  <2>3. cand' = cand \/ \E s \in Shards \cup {NoShard} : cand' = [cand EXCEPT ![o] = s]
    BY <1>5
       DEF MainStep, MainFault, Launch, TakeShard, StartRender, LoseShard, Drained, Wait,
           CompleteClaim, CompleteMissed, RenderFailed, Exit, ClaimError, CompleteError,
           Crash, Settle
  <2> QED
    BY <2>1, <2>2, <2>3 DEF TypeOK
<1>6. ASSUME NEW o \in Owners, MainStep(o) \/ MainFault(o) \/ Launch(o)
      PROVE  /\ batch' \in [Owners -> SUBSET Slots]
             /\ claimGen' \in [Owners -> [Slots -> Nat]]
  <2>1. batch' = batch \/ \E B \in SUBSET Slots : batch' = [batch EXCEPT ![o] = B]
    <3>1. \A k \in Slots : batch[o] \ {k} \in SUBSET Slots
      BY DEF TypeOK
    <3>2. FinishedSlots(o) \in SUBSET Slots
      BY DEF FinishedSlots
    <3>3. ASSUME NEW k \in Slots, Settle(o, k)
          PROVE  \E B \in SUBSET Slots : batch' = [batch EXCEPT ![o] = B]
      BY <3>1, <3>3 DEF Settle
    <3>4. CASE Wait(o)
      BY <3>2, <3>4 DEF Wait
    <3> QED
      BY <1>6, <3>3, <3>4
         DEF MainStep, MainFault, Launch, TakeShard, StartRender, LoseShard, Drained,
             CompleteClaim, CompleteMissed, RenderFailed, Exit, ClaimError, CompleteError,
             Crash
  <2>2. claimGen' = claimGen \/ \E g \in [Slots -> Nat] : claimGen' = [claimGen EXCEPT ![o] = g]
    <3>1. ASSUME NEW k \in Slots, Settle(o, k)
          PROVE  \E g \in [Slots -> Nat] : claimGen' = [claimGen EXCEPT ![o] = g]
      <4>1. [claimGen[o] EXCEPT ![k] = 0] \in [Slots -> Nat]
        BY DEF TypeOK
      <4> QED
        BY <3>1, <4>1 DEF Settle
    <3>2. ASSUME NEW k \in Slots, StartRender(o, k)
          PROVE  \E g \in [Slots -> Nat] : claimGen' = [claimGen EXCEPT ![o] = g]
      <4>1. rows[cand[o]].gen \in Nat
        BY <3>2 DEF StartRender, TypeOK, QueueTypeOK, Row
      <4>2. [claimGen[o] EXCEPT ![k] = rows[cand[o]].gen] \in [Slots -> Nat]
        BY <4>1 DEF TypeOK
      <4> QED
        BY <3>2, <4>2 DEF StartRender
    <3> QED
      BY <1>6, <3>1, <3>2
         DEF MainStep, MainFault, Launch, TakeShard, LoseShard, Drained, Wait,
             CompleteClaim, CompleteMissed, RenderFailed, Exit, ClaimError, CompleteError,
             Crash
  <2> QED
    BY <2>1, <2>2 DEF TypeOK
<1>7. Fault \/ UNCHANGED faults
  BY DEF Next, vars, PopulateClaims, LapseOrphan, LapseLive, Launch, MainFault, ClaimError,
         CompleteError, Crash, RenderStep, RenderFault, MainStep, TakeShard, StartRender,
         LoseShard, Drained, Wait, CompleteClaim, CompleteMissed, RenderFailed, Exit
<1> QED
  BY <1>1, <1>2, <1>3, <1>4, <1>5, <1>6, <1>7
     DEF Next, vars, TypeOK, PopulateClaims, LapseOrphan, LapseLive, RenderStep, RenderFault,
         loop

-----------------------------------------------------------------------------
(***************************************************************************)
(* The table and the staging prefix.                                       *)
(***************************************************************************)

\* A worker exists only once every row does, and it stops asking only when no
\* row is available.
RowsInPlace ==
  \A o \in Owners :
    main[o] # "off" => \A s \in Shards : rows[s].status # "absent"

StopsWhenTaken ==
  \A o \in Owners :
    exhausted[o] => /\ main[o] # "off"
                    /\ \A s \in Shards : rows[s].status # "available"

GInv ==
  /\ TypeOK
  /\ RenderInv
  /\ DoneImpliesStaged
  /\ RowsInPlace
  /\ StopsWhenTaken

LEMMA InitGInv == Init => GInv
<1> SUFFICES ASSUME Init PROVE GInv
  OBVIOUS
<1> QED
  BY InitTypes, RenderInitInv
     DEF GInv, Init, QueueInit, AbsentRow, DoneImpliesStaged, RowsInPlace, StopsWhenTaken

\* How one step changes the status of a row.
LEMMA StatusStep ==
  ASSUME TypeOK, [Next]_vars, NEW s \in Shards
  PROVE  \/ rows'[s].status = rows[s].status
         \/ rows[s].status = "absent" /\ rows'[s].status = "available"
         \/ rows'[s].status \in {"claimed", "lapsed"} /\ rows[s].status # "absent"
         \/ /\ rows'[s].status = "done"
            /\ \E o \in Owners, k \in Slots : CompleteClaim(o, k) /\ job[o][k].shard = s
<1>0. rows \in [Shards -> Row]
  BY DEF TypeOK, QueueTypeOK
<1>1. CASE PopulateClaims
  BY <1>0, <1>1 DEF PopulateClaims, Populate, AvailableRow, AbsentRow
<1>2. ASSUME NEW u \in Shards, LapseOrphan(u) \/ LapseLive(u)
      PROVE  \/ rows'[s].status = rows[s].status
             \/ rows'[s].status = "lapsed" /\ rows[s].status = "claimed"
  BY <1>0, <1>2 DEF LapseOrphan, LapseLive, Lapse, Row
<1>3. ASSUME NEW o \in Owners, NEW u \in Shards, TakeShard(o, u)
      PROVE  \/ rows'[s].status = rows[s].status
             \/ rows'[s].status \in {"claimed", "lapsed"} /\ rows[s].status # "absent"
  BY <1>0, <1>3 DEF TakeShard, Take, Claimable, Row
<1>4. ASSUME NEW o \in Owners, NEW k \in Slots, CompleteClaim(o, k)
      PROVE  \/ rows'[s].status = rows[s].status
             \/ rows'[s].status = "done" /\ job[o][k].shard = s
  BY <1>0, <1>4 DEF CompleteClaim, Finish, SlotToken, Row
<1>5. CASE UNCHANGED rows
  BY <1>5
<1> QED
  BY <1>1, <1>2, <1>3, <1>4, <1>5
     DEF Next, vars, queue, Launch, MainStep, MainFault, StartRender, Grant, LoseShard,
         Drained, Wait, CompleteMissed, RenderFailed, Drop, Exit, ClaimError,
         CompleteError, Crash, RenderStep, RenderFault

\* A worker comes to life only by Launch and is never "off" again.
LEMMA OffStep ==
  ASSUME TypeOK, [Next]_vars, NEW o \in Owners
  PROVE  /\ main[o] # "off" => main'[o] # "off"
         /\ main[o] = "off" /\ main'[o] # "off" => Launch(o)
<1>0. main \in [Owners -> MainStates]
  BY DEF TypeOK
<1>1. CASE UNCHANGED main
  BY <1>1
<1>2. ASSUME NEW p \in Owners, Launch(p)
      PROVE  /\ main[o] # "off" => main'[o] # "off"
             /\ main[o] = "off" /\ main'[o] # "off" => Launch(o)
  BY <1>0, <1>2 DEF Launch
<1>3. ASSUME NEW p \in Owners, main[p] # "off",
             NEW m \in MainStates \ {"off"}, main' = [main EXCEPT ![p] = m]
      PROVE  /\ main[o] # "off" => main'[o] # "off"
             /\ main[o] = "off" /\ main'[o] # "off" => Launch(o)
  BY <1>0, <1>3
<1>4. ASSUME NEW p \in Owners, MainStep(p) \/ MainFault(p)
      PROVE  \/ UNCHANGED main
             \/ /\ main[p] # "off"
                /\ \E m \in MainStates \ {"off"} : main' = [main EXCEPT ![p] = m]
  <2>1. ASSUME NEW k \in Slots, k \in Resolvable(p)
        PROVE  main[p] # "off" /\ NextMain(p, k) \in MainStates \ {"off"}
    BY <1>0, <2>1 DEF Resolvable, NextMain, MainStates, Ended
  <2> QED
    BY <1>4, <2>1
       DEF MainStep, MainFault, TakeShard, StartRender, LoseShard, Drained, Wait,
           CompleteClaim, CompleteMissed, RenderFailed, Exit, ClaimError, CompleteError,
           Crash, Alive, MainStates, Ended
<1> QED
  BY <1>1, <1>2, <1>3, <1>4
     DEF Next, vars, loop, PopulateClaims, LapseOrphan, LapseLive, RenderStep, RenderFault

LEMMA GInvStep == GInv /\ [Next]_vars => GInv'
<1> SUFFICES ASSUME GInv, [Next]_vars PROVE GInv'
  OBVIOUS
<1>0. TypeOK /\ RenderInv /\ DoneImpliesStaged /\ RowsInPlace /\ StopsWhenTaken
  BY DEF GInv
<1>1. TypeOK' /\ RenderInv'
  BY <1>0, TypeOKStep, NextIsRenderStep, RenderInvStep
<1>2. DoneImpliesStaged'
  <2> SUFFICES ASSUME NEW s \in Shards, rows'[s].status = "done" PROVE Staged(s)'
    BY DEF DoneImpliesStaged
  <2>1. Staged(s)
    <3>1. ASSUME NEW o \in Owners, NEW k \in Slots, CompleteClaim(o, k), job[o][k].shard = s
          PROVE  Staged(s)
      BY <1>0, <3>1 DEF CompleteClaim, RenderInv, SuccessIsStaged, SlotStaged
    <3> QED
      BY <1>0, <3>1, StatusStep DEF DoneImpliesStaged
  <2> QED
    BY <1>0, <2>1, NextIsRenderStep, StagedStays
       DEF renderVars, Staged, AttemptsOf, Complete
<1>3. RowsInPlace'
  <2> SUFFICES ASSUME NEW o \in Owners, main'[o] # "off", NEW s \in Shards
               PROVE  rows'[s].status # "absent"
    BY DEF RowsInPlace
  <2>1. rows[s].status # "absent"
    BY <1>0, OffStep DEF RowsInPlace, Launch
  <2> QED
    BY <1>0, <2>1, StatusStep
<1>4. StopsWhenTaken'
  <2> SUFFICES ASSUME NEW o \in Owners, exhausted'[o]
               PROVE  /\ main'[o] # "off"
                      /\ \A s \in Shards : rows'[s].status # "available"
    BY DEF StopsWhenTaken
  <2>1. CASE exhausted[o]
    <3>1. main[o] # "off" /\ \A s \in Shards : rows[s].status \notin {"absent", "available"}
      BY <1>0, <2>1 DEF StopsWhenTaken, RowsInPlace
    <3>2. main'[o] # "off"
      BY <1>0, <3>1, OffStep
    <3> QED
      BY <1>0, <3>1, <3>2, StatusStep
  <2>2. CASE ~exhausted[o]
    <3>1. Drained(o)
      BY <1>0, <2>2
         DEF TypeOK, Next, vars, loop, PopulateClaims, LapseOrphan, LapseLive, Launch,
             MainStep, MainFault, TakeShard, StartRender, LoseShard, Drained, Wait,
             CompleteClaim, CompleteMissed, RenderFailed, Settle, Exit, ClaimError,
             CompleteError, Crash, RenderStep, RenderFault
    <3> QED
      BY <1>0, <3>1 DEF Drained, Claiming, Claimable, queue
  <2> QED
    BY <2>1, <2>2
<1> QED
  BY <1>1, <1>2, <1>3, <1>4 DEF GInv

THEOREM GenerateInvariance == Spec => []GInv
<1>1. Init => GInv
  BY InitGInv
<1>2. GInv /\ [Next]_vars => GInv'
  BY GInvStep
<1> QED
  BY <1>1, <1>2, PTL DEF Spec

\* Every variable keeps its type.
THEOREM GenerateTypes == Spec => []TypeOK
<1>1. GInv => TypeOK
  BY DEF GInv
<1> QED
  BY <1>1, GenerateInvariance, PTL

\* A shard the table calls done has a complete staged attempt, whatever
\* crashes, takeovers and late completions came before.
THEOREM DoneShardsAreStaged == Spec => []DoneImpliesStaged
<1>1. GInv => DoneImpliesStaged
  BY DEF GInv
<1> QED
  BY <1>1, GenerateInvariance, PTL

\* A worker gives up asking only when no shard is left unclaimed.
THEOREM NoShardLeftBehind == Spec => []LeavesNothingAvailable
<1>1. GInv => LeavesNothingAvailable
  BY DEF GInv, StopsWhenTaken, LeavesNothingAvailable
<1> QED
  BY <1>1, GenerateInvariance, PTL

-----------------------------------------------------------------------------
\* A success is reported, or a fence or a fault accounts for it.
THEOREM PoolReportsSuccess == Spec => SuccessIsReported
<1> DEFINE Reported ==
      \A o \in Owners, k \in Slots :
        job[o][k].step \in Succeeded /\ job'[o][k].step = "free" =>
          \/ rows'[job[o][k].shard].status = "done"
          \/ FenceLost(o, SlotToken(o, k))
          \/ faults' > faults
<1>1. TypeOK /\ RenderInv /\ [Next]_vars => [Reported]_vars
  <2> SUFFICES ASSUME TypeOK, RenderInv, Next,
                      NEW o \in Owners, NEW k \in Slots,
                      job[o][k].step \in Succeeded, job'[o][k].step = "free"
               PROVE  \/ rows'[job[o][k].shard].status = "done"
                      \/ FenceLost(o, SlotToken(o, k))
                      \/ faults' > faults
    OBVIOUS
  <2>0. job \in [Owners -> [Slots -> Job]] /\ faults \in Nat /\ rows \in [Shards -> Row]
    BY DEF TypeOK, RenderTypeOK, QueueTypeOK
  <2>1. Fault => faults' > faults
    BY <2>0 DEF Fault
  <2>2. ASSUME NEW p \in Owners, NEW l \in Slots, Release(p, l) PROVE p = o /\ l = k
    <3>1. ASSUME p # o \/ l # k PROVE job'[o][k] = job[o][k]
      BY <2>0, <2>2, <3>1 DEF Release
    <3> QED
      BY <3>1 DEF Succeeded
  <2>3. ASSUME NEW p \in Owners, NEW l \in Slots, CompleteClaim(p, l)
        PROVE  rows'[job[o][k].shard].status = "done"
    <3>1. p = o /\ l = k
      BY <2>2, <2>3 DEF CompleteClaim, Settle
    <3>2. job[o][k].shard \in Shards
      BY DEF RenderInv, JobHasAttempt, SlotHasAttempt, Succeeded
    <3> QED
      BY <2>0, <2>3, <3>1, <3>2 DEF CompleteClaim, Finish, SlotToken, Row
  <2>4. ASSUME NEW p \in Owners, NEW l \in Slots, CompleteMissed(p, l)
        PROVE  FenceLost(o, SlotToken(o, k)) \/ faults' > faults
    BY <2>1, <2>2, <2>4 DEF CompleteMissed, Settle
  <2>5. ASSUME NEW p \in Owners, NEW l \in Slots, RenderFailed(p, l) PROVE FALSE
    BY <2>2, <2>5 DEF RenderFailed, Settle, Succeeded
  <2>6. ASSUME NEW p \in Owners, Exit(p) PROVE FALSE
    <3>1. ASSUME p = o PROVE FALSE
      BY <2>6, <3>1 DEF Exit, FreeSlots, Succeeded
    <3>2. ASSUME p # o PROVE FALSE
      BY <2>0, <2>6, <3>2 DEF Exit, Kill, Succeeded
    <3> QED
      BY <3>1, <3>2
  <2>7. ASSUME NEW p \in Owners, NEW l \in Slots, JobStep(p, l) PROVE FALSE
    <3>1. p = o /\ l = k
      BY <2>7, JobAfter DEF OnlySlot, TypeOK, Succeeded
    <3> QED
      BY <2>7, <3>1
         DEF JobStep, Probe, WriteMarker, RetryRender, Render, WriteFragment, WriteStats,
             WriteSidecar, WriteValid, Cleanup, InputMissing, Succeeded
  <2>8. ASSUME NEW p \in Owners, NEW l \in Slots, StartRender(p, l) PROVE FALSE
    <3>1. ASSUME p # o \/ l # k PROVE job'[o][k] = job[o][k]
      BY <2>0, <2>8, <3>1 DEF StartRender, Submit
    <3> QED
      BY <2>8, <3>1 DEF StartRender, Submit, Succeeded
  <2>9. UNCHANGED job => FALSE
    BY DEF Succeeded
  <2> QED
    BY <2>1, <2>3, <2>4, <2>5, <2>6, <2>7, <2>8, <2>9
       DEF Next, renderVars, PopulateClaims, LapseOrphan, LapseLive, Launch, MainStep,
           MainFault, TakeShard, LoseShard, Drained, Wait, ClaimError, CompleteError,
           Crash, RenderStep, RenderFault
<1>2. GInv => TypeOK /\ RenderInv
  BY DEF GInv
<1>3. Spec => [][Reported]_vars
  BY <1>1, <1>2, GenerateInvariance, PTL DEF Spec
<1> QED
  BY <1>3 DEF SuccessIsReported

-----------------------------------------------------------------------------
\* With one slot per worker (the serial loop), a job always reads the output
\* of its own renderer, and every complete attempt is one render.
THEOREM SerialAttemptsAreOneRender ==
  ASSUME \A j, k \in Slots : j = k
  PROVE  Spec => [](OwnInput /\ AttemptIsOneRender)
<1> DEFINE SerialInv == OwnInput /\ OwnSources
<1>1. Init => SerialInv
  BY DEF Init, RenderInit, FreeJob, UnusedAttempt, OwnInput, OwnSources
<1>2. GInv /\ SerialInv /\ [Next]_vars => SerialInv'
  <2> SUFFICES ASSUME GInv, OwnInput, OwnSources, [Next]_vars PROVE SerialInv'
    OBVIOUS
  <2>1. RenderInv /\ [RenderNext]_renderVars
    BY NextIsRenderStep DEF GInv
  <2>2. CASE RenderNext
    BY <2>1, <2>2, OwnInputStep, OwnSourcesStep DEF SlotsApart
  <2>3. CASE UNCHANGED renderVars
    BY <2>3 DEF renderVars, OwnInput, OwnSources, Input
  <2> QED
    BY <2>1, <2>2, <2>3
<1>3. GInv /\ SerialInv => OwnInput /\ AttemptIsOneRender
  BY SourcesGiveOneRender DEF GInv
<1> HIDE DEF SerialInv
<1> QED
  BY <1>1, <1>2, <1>3, GenerateInvariance, PTL DEF Spec

-----------------------------------------------------------------------------
(***************************************************************************)
(* Counting.  The attempts on a shard can be numbered by the generations   *)
(* of the claims they were opened under, each once; a job that has yet to  *)
(* open its attempt, and a claim that has yet to be confirmed, keep a      *)
(* generation of their own in reserve.  Nothing records under which claim  *)
(* an attempt was opened, so the numbering is bound by a quantifier.       *)
(***************************************************************************)
\* Slot k of worker o may still open an attempt on shard s.
Opening(o, k, s) == job[o][k].step \in {"probe", "marker"} /\ job[o][k].shard = s

\* Worker o has taken shard s, and its read-back would confirm it.
Pending(o, s) == cand[o] = s /\ rows[s].owner = o

AttemptsApart(g, s) ==
  /\ \A a \in AttemptsOf(s) : g[a] \in 1 .. rows[s].gen
  /\ \A a, b \in AttemptsOf(s) : g[a] = g[b] => a = b

OpenersApart(g, s) ==
  \A o \in Owners, k \in Slots :
    Opening(o, k, s) =>
      /\ claimGen[o][k] \in 1 .. rows[s].gen
      /\ \A a \in AttemptsOf(s) : g[a] # claimGen[o][k]
      /\ \A p \in Owners, l \in Slots :
           Opening(p, l, s) /\ claimGen[p][l] = claimGen[o][k] => p = o /\ l = k

PendingApart(g, s) ==
  \A o \in Owners :
    Pending(o, s) =>
      /\ rows[s].gen \in 1 .. rows[s].gen
      /\ \A a \in AttemptsOf(s) : g[a] # rows[s].gen
      /\ \A p \in Owners, l \in Slots : Opening(p, l, s) => claimGen[p][l] # rows[s].gen

Ledger(g, s) == AttemptsApart(g, s) /\ OpenersApart(g, s) /\ PendingApart(g, s)

OpenedOnce == \A s \in Shards : \E g \in [Attempts -> Nat] : Ledger(g, s)

BlankRows == \A s \in Shards : rows[s].status = "absent" => rows[s] = AbsentRow

\* Only a claim changes the generation or the owner of a row.
LEMMA RowsQuiet ==
  ASSUME TypeOK, BlankRows, [Next]_vars, NEW s \in Shards,
         \A o \in Owners : ~TakeShard(o, s)
  PROVE  /\ rows'[s].gen = rows[s].gen /\ rows'[s].owner = rows[s].owner
         /\ rows'[s].status = "absent" => rows'[s] = AbsentRow
<1>0. rows \in [Shards -> Row] /\ (rows[s].status = "absent" => rows[s] = AbsentRow)
  BY DEF TypeOK, QueueTypeOK, BlankRows
<1>1. CASE PopulateClaims
  BY <1>0, <1>1 DEF PopulateClaims, Populate, AvailableRow, AbsentRow
<1>2. ASSUME NEW u \in Shards, LapseOrphan(u) \/ LapseLive(u)
      PROVE  /\ rows'[s].gen = rows[s].gen /\ rows'[s].owner = rows[s].owner
             /\ rows'[s].status = "absent" => rows'[s] = AbsentRow
  BY <1>0, <1>2 DEF LapseOrphan, LapseLive, Lapse, Row
<1>3. ASSUME NEW o \in Owners, NEW u \in Shards, TakeShard(o, u)
      PROVE  rows'[s] = rows[s]
  BY <1>0, <1>3 DEF TakeShard, Take
<1>4. ASSUME NEW o \in Owners, NEW k \in Slots, CompleteClaim(o, k)
      PROVE  /\ rows'[s].gen = rows[s].gen /\ rows'[s].owner = rows[s].owner
             /\ rows'[s].status = "absent" => rows'[s] = AbsentRow
  BY <1>0, <1>4 DEF CompleteClaim, Finish, SlotToken, Row
<1>5. CASE UNCHANGED rows
  BY <1>0, <1>5
<1> QED
  BY <1>0, <1>1, <1>2, <1>3, <1>4, <1>5
     DEF Next, vars, queue, Launch, MainStep, MainFault, StartRender, Grant, LoseShard,
         Drained, Wait, CompleteMissed, RenderFailed, Drop, Exit, ClaimError,
         CompleteError, Crash, RenderStep, RenderFault

\* Attempts on a shard appear only by WriteMarker.
LEMMA AttemptsQuiet ==
  ASSUME RenderInv, [Next]_vars, NEW s \in Shards,
         \A o \in Owners, k \in Slots : RenderStep(o, k) /\ WriteMarker(o, k) =>
           job[o][k].shard # s
  PROVE  (AttemptsOf(s))' = AttemptsOf(s)
<1>1. CASE UNCHANGED staged
  BY <1>1 DEF AttemptsOf
<1>2. ASSUME NEW o \in Owners, NEW k \in Slots, RenderStep(o, k)
      PROVE  (AttemptsOf(s))' = AttemptsOf(s)
  <2>1. JobStep(o, k) /\ (WriteMarker(o, k) => job[o][k].shard # s)
    BY <1>2 DEF RenderStep
  <2>2. \A a \in Attempts : staged'[a].shard = s <=> staged[a].shard = s
    BY <2>1, StagedAfter, NoShardAssumption DEF RenderInv, Unused
  <2> QED BY <2>2 DEF AttemptsOf
<1>3. ASSUME NEW o \in Owners, MainStep(o) \/ MainFault(o) PROVE UNCHANGED staged
  BY <1>3
  DEF MainStep, MainFault, TakeShard, StartRender, Submit, LoseShard, Drained, Wait,
      CompleteClaim, CompleteMissed, RenderFailed, Settle, Release, Exit, Kill, ClaimError,
      CompleteError, Crash, renderVars
<1>4. UNCHANGED staged \/ \E o \in Owners, k \in Slots : RenderStep(o, k)
  BY <1>3
  DEF Next, vars, renderVars, PopulateClaims, LapseOrphan, LapseLive, Launch, RenderFault, Fail
<1> QED BY <1>1, <1>2, <1>4

\* A job is at the start of its way only if it has just been submitted, or was
\* there before under the same claim.
LEMMA OpenersQuiet ==
  ASSUME TypeOK, [Next]_vars, NEW s \in Shards, NEW o \in Owners, NEW k \in Slots,
         Opening(o, k, s)', ~(StartRender(o, k) /\ cand[o] = s)
  PROVE  Opening(o, k, s) /\ claimGen'[o][k] = claimGen[o][k]
<1>0. /\ RenderTypeOK /\ job \in [Owners -> [Slots -> Job]]
      /\ claimGen \in [Owners -> [Slots -> Nat]]
  BY DEF TypeOK, RenderTypeOK
<1>1. CASE UNCHANGED <<job, claimGen>>
  BY <1>1 DEF Opening
<1>2. ASSUME NEW p \in Owners, NEW l \in Slots, StartRender(p, l)
      PROVE  Opening(o, k, s) /\ claimGen'[o][k] = claimGen[o][k]
  <2>1. CASE p = o /\ l = k
    <3>1. job'[o][k].shard = cand[o]
      BY <1>0, <1>2, <2>1 DEF StartRender, Submit, FreeJob
    <3> QED BY <1>2, <2>1, <3>1 DEF Opening
  <2>2. CASE p # o \/ l # k
    <3>1. job'[o][k] = job[o][k] /\ claimGen'[o][k] = claimGen[o][k]
      BY <1>0, <1>2, <2>2 DEF StartRender, Submit
    <3> QED BY <3>1 DEF Opening
  <2> QED BY <2>1, <2>2
<1>3. ASSUME NEW p \in Owners, NEW l \in Slots,
             job' = [job EXCEPT ![p][l] = FreeJob],
             claimGen' = [claimGen EXCEPT ![p][l] = 0]
      PROVE  Opening(o, k, s) /\ claimGen'[o][k] = claimGen[o][k]
  <2>1. CASE p = o /\ l = k
    BY <1>0, <1>3, <2>1 DEF Opening, FreeJob
  <2>2. CASE p # o \/ l # k
    <3>1. job'[o][k] = job[o][k] /\ claimGen'[o][k] = claimGen[o][k]
      BY <1>0, <1>3, <2>2
    <3> QED BY <3>1 DEF Opening
  <2> QED BY <2>1, <2>2
<1>4. ASSUME NEW p \in Owners, Kill(p),
             \/ UNCHANGED claimGen
             \/ claimGen' = [claimGen EXCEPT ![p] = [l \in Slots |-> 0]]
      PROVE  Opening(o, k, s) /\ claimGen'[o][k] = claimGen[o][k]
  <2>1. CASE p = o
    BY <1>0, <1>4, <2>1 DEF Kill, Opening, FreeJob
  <2>2. CASE p # o
    <3>1. job'[o][k] = job[o][k] /\ claimGen'[o][k] = claimGen[o][k]
      BY <1>0, <1>4, <2>2 DEF Kill
    <3> QED BY <3>1 DEF Opening
  <2> QED BY <2>1, <2>2
<1>5. ASSUME NEW p \in Owners, NEW l \in Slots, JobStep(p, l) \/ Fail(p, l), UNCHANGED claimGen
      PROVE  Opening(o, k, s) /\ claimGen'[o][k] = claimGen[o][k]
  <2>1. CASE p # o \/ l # k
    <3>1. job'[o][k] = job[o][k]
      BY <1>0, <1>5, <2>1, JobAfter DEF OnlySlot
    <3> QED BY <1>5, <3>1 DEF Opening
  <2>2. CASE p = o /\ l = k
    <3>1. ASSUME NEW step \in Steps, Goto(o, k, step)
          PROVE  job'[o][k].step = step /\ job'[o][k].shard = job[o][k].shard
      <4>1. job[o][k] \in Job /\ job'[o][k] = [job[o][k] EXCEPT !.step = step]
        BY <1>0, <3>1, GotoChange
      <4> QED BY <4>1 DEF Job
    <3>2. Probe(o, k)
      <4>1. job'[o][k].step \in {"probe", "marker"}
        BY DEF Opening
      <4>2. ASSUME WriteMarker(o, k) \/ RetryRender(o, k) PROVE FALSE
        <5>1. job[o][k] \in Job
          BY <1>0
        <5>2. ASSUME WriteMarker(o, k) PROVE job'[o][k].step = "render"
          <6>1. PICK b \in Attempts :
                  job' = [job EXCEPT ![o][k] =
                           [job[o][k] EXCEPT !.step = "render", !.attempt = b]]
            BY <5>2, Zenon DEF WriteMarker
          <6>2. job'[o][k] = [job[o][k] EXCEPT !.step = "render", !.attempt = b]
            BY <1>0, <6>1
          <6> QED BY <5>1, <6>2 DEF Job
        <5>3. ASSUME RetryRender(o, k) PROVE job'[o][k].step = "render"
          <6>1. job[o][k].step = "render" /\ job'[o][k] = [job[o][k] EXCEPT !.tries = @ + 1]
            BY <1>0, <5>3 DEF RetryRender
          <6> QED BY <5>1, <6>1 DEF Job
        <5> QED BY <4>1, <4>2, <5>2, <5>3
      <4>3. ASSUME NEW step \in Steps \ {"probe", "marker"}, Goto(o, k, step) PROVE FALSE
        BY <3>1, <4>1, <4>3
      <4> QED
        BY <1>5, <2>2, <4>2, <4>3
        DEF JobStep, Render, WriteFragment, WriteStats, WriteSidecar, WriteValid, Cleanup,
            InputMissing, Fail, Steps
    <3>3. job[o][k].step = "probe"
      BY <3>2 DEF Probe
    <3>4. job'[o][k].shard = job[o][k].shard
      BY <3>1, <3>2 DEF Probe, Steps
    <3> QED BY <1>5, <3>3, <3>4 DEF Opening
  <2> QED BY <2>1, <2>2
<1>6. ASSUME NEW p \in Owners, MainStep(p) \/ MainFault(p)
      PROVE  \/ UNCHANGED <<job, claimGen>>
             \/ \E l \in Slots : StartRender(p, l)
             \/ \E l \in Slots : /\ job' = [job EXCEPT ![p][l] = FreeJob]
                                 /\ claimGen' = [claimGen EXCEPT ![p][l] = 0]
             \/ Kill(p) /\ UNCHANGED claimGen
             \/ Kill(p) /\ claimGen' = [claimGen EXCEPT ![p] = [l \in Slots |-> 0]]
  BY <1>6
  DEF MainStep, MainFault, TakeShard, LoseShard, Drained, Wait, CompleteClaim, CompleteMissed,
      RenderFailed, Settle, Release, Exit, ClaimError, CompleteError, Crash, renderVars
<1>7. \/ UNCHANGED <<job, claimGen>>
      \/ \E p \in Owners : MainStep(p) \/ MainFault(p)
      \/ \E p \in Owners, l \in Slots : (JobStep(p, l) \/ Fail(p, l)) /\ UNCHANGED claimGen
  BY DEF Next, vars, renderVars, loop, PopulateClaims, LapseOrphan, LapseLive, Launch,
         RenderStep, RenderFault
<1> QED
  BY <1>1, <1>2, <1>3, <1>4, <1>5, <1>6, <1>7

\* A claim waits for its read-back only once it was taken.
LEMMA PendingQuiet ==
  ASSUME TypeOK, BlankRows, [Next]_vars, NEW s \in Shards, NEW o \in Owners,
         Pending(o, s)', \A p \in Owners : ~TakeShard(p, s)
  PROVE  Pending(o, s)
<1>0. cand \in [Owners -> Shards \cup {NoShard}] /\ rows'[s].owner = rows[s].owner
  BY RowsQuiet DEF TypeOK
<1>1. cand'[o] = cand[o]
  <2>1. ASSUME NEW p \in Owners, cand' = [cand EXCEPT ![p] = NoShard]
        PROVE  cand'[o] = cand[o]
    BY <1>0, <2>1, NoShardAssumption DEF Pending
  <2>2. ASSUME NEW p \in Owners, NEW u \in Shards, TakeShard(p, u)
        PROVE  cand'[o] = cand[o]
    BY <1>0, <2>2 DEF TakeShard, Pending
  <2>3. CASE UNCHANGED cand
    BY <2>3
  <2>4. ASSUME NEW p \in Owners, MainStep(p) \/ MainFault(p)
        PROVE  \/ UNCHANGED cand
               \/ cand' = [cand EXCEPT ![p] = NoShard]
               \/ \E u \in Shards : TakeShard(p, u)
    BY <2>4
    DEF MainStep, MainFault, StartRender, LoseShard, Drained, Wait, CompleteClaim,
        CompleteMissed, RenderFailed, Settle, Exit, ClaimError, CompleteError, Crash
  <2>5. UNCHANGED cand \/ \E p \in Owners : MainStep(p) \/ MainFault(p)
    BY DEF Next, vars, loop, PopulateClaims, LapseOrphan, LapseLive, Launch, RenderStep,
           RenderFault
  <2> QED
    BY <2>1, <2>2, <2>3, <2>4, <2>5
<1> QED BY <1>0, <1>1 DEF Pending

\* A step of other shards leaves the numbering of this one alone.
LEMMA LedgerKept ==
  ASSUME NEW s \in Shards, NEW g, Ledger(g, s),
         (AttemptsOf(s))' = AttemptsOf(s), rows'[s].gen = rows[s].gen,
         \A o \in Owners, k \in Slots :
           Opening(o, k, s)' => Opening(o, k, s) /\ claimGen'[o][k] = claimGen[o][k],
         \A o \in Owners : Pending(o, s)' => Pending(o, s)
  PROVE  Ledger(g, s)'
<1>1. AttemptsApart(g, s)'
  BY DEF Ledger, AttemptsApart
<1>2. OpenersApart(g, s)'
  <2> SUFFICES ASSUME NEW o \in Owners, NEW k \in Slots, Opening(o, k, s)'
               PROVE  /\ claimGen'[o][k] \in 1 .. rows[s].gen
                      /\ \A a \in AttemptsOf(s) : g[a] # claimGen'[o][k]
                      /\ \A p \in Owners, l \in Slots :
                           Opening(p, l, s)' /\ claimGen'[p][l] = claimGen'[o][k] =>
                             p = o /\ l = k
    BY DEF OpenersApart
  <2> QED BY DEF Ledger, OpenersApart
<1>3. PendingApart(g, s)'
  <2> SUFFICES ASSUME NEW o \in Owners, Pending(o, s)'
               PROVE  /\ rows[s].gen \in 1 .. rows[s].gen
                      /\ \A a \in AttemptsOf(s) : g[a] # rows[s].gen
                      /\ \A p \in Owners, l \in Slots :
                           Opening(p, l, s)' => claimGen'[p][l] # rows[s].gen
    BY DEF PendingApart
  <2> QED BY DEF Ledger, PendingApart
<1> QED BY <1>1, <1>2, <1>3 DEF Ledger

\* A claim takes a generation nobody has.
LEMMA LedgerTake ==
  ASSUME TypeOK, NEW s \in Shards, NEW g, Ledger(g, s), NEW o \in Owners, TakeShard(o, s)
  PROVE  Ledger(g, s)'
<1>0. rows[s].gen \in Nat /\ rows \in [Shards -> Row]
  BY DEF TypeOK, QueueTypeOK, Row
<1>1. /\ rows'[s].gen = rows[s].gen + 1
      /\ UNCHANGED <<job, staged, claimGen>>
  BY <1>0 DEF TakeShard, Take, renderVars
<1>2. (AttemptsOf(s))' = AttemptsOf(s)
  BY <1>1 DEF AttemptsOf
<1>3. \A p \in Owners, k \in Slots : Opening(p, k, s)' <=> Opening(p, k, s)
  BY <1>1 DEF Opening
<1>4. \A i \in 1 .. rows[s].gen : i \in 1 .. rows[s].gen + 1 /\ i # rows[s].gen + 1
  BY <1>0
<1>5. AttemptsApart(g, s)'
  BY <1>1, <1>2, <1>4 DEF Ledger, AttemptsApart
<1>6. OpenersApart(g, s)'
  <2> SUFFICES ASSUME NEW p \in Owners, NEW k \in Slots, Opening(p, k, s)
               PROVE  /\ claimGen[p][k] \in 1 .. rows[s].gen + 1
                      /\ \A a \in AttemptsOf(s) : g[a] # claimGen[p][k]
                      /\ \A q \in Owners, l \in Slots :
                           Opening(q, l, s) /\ claimGen[q][l] = claimGen[p][k] =>
                             q = p /\ l = k
    BY <1>1, <1>2, <1>3 DEF OpenersApart
  <2> QED BY <1>4 DEF Ledger, OpenersApart
<1>7. PendingApart(g, s)'
  <2>1. rows[s].gen + 1 \in 1 .. rows[s].gen + 1
    BY <1>0
  <2>2. \A a \in AttemptsOf(s) : g[a] # rows[s].gen + 1
    BY <1>4 DEF Ledger, AttemptsApart
  <2>3. \A p \in Owners, k \in Slots : Opening(p, k, s) => claimGen[p][k] # rows[s].gen + 1
    BY <1>4 DEF Ledger, OpenersApart
  <2> QED BY <1>1, <1>2, <1>3, <2>1, <2>2, <2>3 DEF PendingApart
<1> QED BY <1>5, <1>6, <1>7 DEF Ledger

\* The confirmed claim's generation passes to the job it starts.
LEMMA LedgerSubmit ==
  ASSUME TypeOK, NEW s \in Shards, NEW g, Ledger(g, s),
         NEW o \in Owners, NEW k \in Slots, StartRender(o, k), cand[o] = s
  PROVE  Ledger(g, s)'
<1>0. /\ job \in [Owners -> [Slots -> Job]] /\ claimGen \in [Owners -> [Slots -> Nat]]
      /\ cand \in [Owners -> Shards \cup {NoShard}]
  BY DEF TypeOK, RenderTypeOK
<1>1. /\ UNCHANGED <<rows, staged>> /\ cand' = [cand EXCEPT ![o] = NoShard]
      /\ job[o][k].step = "free" /\ rows[s].owner = o
      /\ claimGen' = [claimGen EXCEPT ![o][k] = rows[s].gen]
  BY DEF StartRender, Grant, Submit
<1>2. claimGen'[o][k] = rows[s].gen
  BY <1>0, <1>1
<1>3. ASSUME NEW p \in Owners, NEW l \in Slots, p # o \/ l # k
      PROVE  /\ job'[p][l] = job[p][l] /\ claimGen'[p][l] = claimGen[p][l]
             /\ Opening(p, l, s)' <=> Opening(p, l, s)
  <2>1. job'[p][l] = job[p][l] /\ claimGen'[p][l] = claimGen[p][l]
    BY <1>0, <1>3 DEF StartRender, Submit
  <2> QED BY <2>1 DEF Opening
<1>4. (AttemptsOf(s))' = AttemptsOf(s)
  BY <1>1 DEF AttemptsOf
<1>5. /\ rows[s].gen \in 1 .. rows[s].gen
      /\ \A a \in AttemptsOf(s) : g[a] # rows[s].gen
      /\ \A p \in Owners, l \in Slots : Opening(p, l, s) => claimGen[p][l] # rows[s].gen
  BY <1>1 DEF Ledger, PendingApart, Pending
<1>6. AttemptsApart(g, s)'
  BY <1>1, <1>4 DEF Ledger, AttemptsApart
<1>7. OpenersApart(g, s)'
  <2> SUFFICES ASSUME NEW p \in Owners, NEW l \in Slots, Opening(p, l, s)'
               PROVE  /\ claimGen'[p][l] \in 1 .. rows[s].gen
                      /\ \A a \in AttemptsOf(s) : g[a] # claimGen'[p][l]
                      /\ \A q \in Owners, m \in Slots :
                           Opening(q, m, s)' /\ claimGen'[q][m] = claimGen'[p][l] =>
                             q = p /\ m = l
    BY <1>1, <1>4 DEF OpenersApart
  <2>1. CASE p = o /\ l = k
    <3>1. ASSUME NEW q \in Owners, NEW m \in Slots, q # o \/ m # k, Opening(q, m, s)'
          PROVE  claimGen'[q][m] # rows[s].gen
      BY <1>3, <1>5, <3>1
    <3> QED BY <1>2, <1>5, <2>1, <3>1
  <2>2. CASE p # o \/ l # k
    <3>1. Opening(p, l, s) /\ claimGen'[p][l] = claimGen[p][l]
      BY <1>3, <2>2
    <3>2. claimGen[p][l] # rows[s].gen
      BY <1>5, <3>1
    <3>3. ASSUME NEW q \in Owners, NEW m \in Slots, Opening(q, m, s)',
                 claimGen'[q][m] = claimGen'[p][l]
          PROVE  q = p /\ m = l
      <4>1. q # o \/ m # k
        BY <1>2, <3>1, <3>2, <3>3
      <4>2. Opening(q, m, s) /\ claimGen'[q][m] = claimGen[q][m]
        BY <1>3, <3>3, <4>1
      <4>3. claimGen[q][m] = claimGen[p][l] /\ OpenersApart(g, s)
        BY <3>1, <3>3, <4>2 DEF Ledger
      <4> QED BY <3>1, <4>2, <4>3 DEF OpenersApart
    <3> QED BY <3>1, <3>3 DEF Ledger, OpenersApart
  <2> QED BY <2>1, <2>2
<1>8. PendingApart(g, s)'
  <2>1. ASSUME NEW p \in Owners, Pending(p, s)' PROVE FALSE
    <3>1. p = o
      BY <1>1, <2>1 DEF Pending
    <3> QED BY <1>0, <1>1, <2>1, <3>1, NoShardAssumption DEF Pending
  <2> QED BY <2>1 DEF PendingApart
<1> QED BY <1>6, <1>7, <1>8 DEF Ledger

\* The attempt a job opens takes the generation the job had in reserve.
LEMMA LedgerOpen ==
  ASSUME TypeOK, RenderInv, [Next]_vars, BlankRows,
         NEW s \in Shards, NEW g \in [Attempts -> Nat], Ledger(g, s),
         NEW o \in Owners, NEW k \in Slots, RenderStep(o, k), WriteMarker(o, k),
         job[o][k].shard = s
  PROVE  \E h \in [Attempts -> Nat] : Ledger(h, s)'
<1>0. /\ RenderTypeOK /\ job \in [Owners -> [Slots -> Job]]
      /\ claimGen \in [Owners -> [Slots -> Nat]]
  BY DEF TypeOK, RenderTypeOK
<1>1. /\ JobStep(o, k) /\ UNCHANGED <<rows, claimGen, cand>>
      /\ Opening(o, k, s) /\ claimGen[o][k] \in Nat
  BY <1>0 DEF RenderStep, queue, loop, WriteMarker, Opening
<1>2. PICK a \in Attempts :
        /\ Unused(a) /\ staged'[a].shard = s
        /\ \A b \in Attempts \ {a} : staged'[b] = staged[b]
  <2>1. job[o][k].step = "marker"
    BY DEF WriteMarker
  <2>2. PICK a \in Attempts :
          /\ Unused(a)
          /\ staged' = [staged EXCEPT ![a] =
               [staged[a] EXCEPT !.shard = job[o][k].shard, !.objects = {"rendering"}]]
    BY Zenon DEF WriteMarker
  <2>3. staged[a] \in Attempt /\ staged \in [Attempts -> Attempt]
    BY <1>0 DEF RenderTypeOK
  <2>4. [staged[a] EXCEPT !.shard = job[o][k].shard, !.objects = {"rendering"}].shard = s
    BY <2>3 DEF Attempt
  <2> QED BY <2>2, <2>3, <2>4
<1>3. a \notin AttemptsOf(s) /\ (AttemptsOf(s))' = AttemptsOf(s) \cup {a}
  BY <1>2, NoShardAssumption DEF AttemptsOf, Unused
<1>4. ~Opening(o, k, s)'
  <2>1. PICK b \in Attempts :
          job' = [job EXCEPT ![o][k] =
                   [job[o][k] EXCEPT !.step = "render", !.attempt = b]]
    BY Zenon DEF WriteMarker
  <2>2. job[o][k] \in Job /\
        job'[o][k] = [job[o][k] EXCEPT !.step = "render", !.attempt = b]
    BY <1>0, <2>1
  <2>3. job'[o][k].step = "render"
    BY <2>2 DEF Job
  <2> QED BY <2>3 DEF Opening
<1>5. ASSUME NEW p \in Owners, NEW l \in Slots, Opening(p, l, s)'
      PROVE  Opening(p, l, s) /\ (p # o \/ l # k)
  <2>1. job'[p][l] = job[p][l]
    BY <1>0, <1>1, <1>4, <1>5, JobAfter DEF OnlySlot
  <2> QED BY <1>4, <1>5, <2>1 DEF Opening
<1>6. ASSUME NEW p \in Owners, Pending(p, s)' PROVE Pending(p, s)
  BY <1>1, <1>6 DEF Pending
<1>7. PICK h \in [Attempts -> Nat] :
        h[a] = claimGen[o][k] /\ \A b \in Attempts \ {a} : h[b] = g[b]
  <2> DEFINE h == [g EXCEPT ![a] = claimGen[o][k]]
  <2>1. /\ h \in [Attempts -> Nat] /\ h[a] = claimGen[o][k]
        /\ \A b \in Attempts \ {a} : h[b] = g[b]
    BY <1>1
  <2> HIDE DEF h
  <2> QED BY <2>1
<1>8. \A b \in AttemptsOf(s) : b \in Attempts \ {a} /\ h[b] = g[b]
  BY <1>3, <1>7 DEF AttemptsOf
<1>9. /\ claimGen[o][k] \in 1 .. rows[s].gen
      /\ \A b \in AttemptsOf(s) : g[b] # claimGen[o][k]
  BY <1>1 DEF Ledger, OpenersApart
<1>10. AttemptsApart(h, s)'
  BY <1>1, <1>3, <1>7, <1>8, <1>9 DEF Ledger, AttemptsApart
<1>11. OpenersApart(h, s)'
  <2> SUFFICES ASSUME NEW p \in Owners, NEW l \in Slots, Opening(p, l, s)'
               PROVE  /\ claimGen[p][l] \in 1 .. rows[s].gen
                      /\ \A b \in AttemptsOf(s) \cup {a} : h[b] # claimGen[p][l]
                      /\ \A q \in Owners, m \in Slots :
                           Opening(q, m, s)' /\ claimGen[q][m] = claimGen[p][l] =>
                             q = p /\ m = l
    BY <1>1, <1>3 DEF OpenersApart
  <2>1. Opening(p, l, s) /\ (p # o \/ l # k)
    BY <1>5
  <2>2. claimGen[p][l] # claimGen[o][k]
    BY <1>1, <2>1 DEF Ledger, OpenersApart
  <2> QED BY <1>5, <1>7, <1>8, <2>1, <2>2 DEF Ledger, OpenersApart
<1>12. PendingApart(h, s)'
  <2> SUFFICES ASSUME NEW p \in Owners, Pending(p, s)
               PROVE  /\ rows[s].gen \in 1 .. rows[s].gen
                      /\ \A b \in AttemptsOf(s) \cup {a} : h[b] # rows[s].gen
                      /\ \A q \in Owners, m \in Slots :
                           Opening(q, m, s)' => claimGen[q][m] # rows[s].gen
    BY <1>1, <1>3, <1>6 DEF PendingApart
  <2>1. claimGen[o][k] # rows[s].gen
    BY <1>1 DEF Ledger, PendingApart
  <2> QED BY <1>5, <1>7, <1>8, <2>1 DEF Ledger, PendingApart
<1>13. Ledger(h, s)'
  BY <1>10, <1>11, <1>12 DEF Ledger
<1> QED BY <1>7, <1>13

CountInv == GInv /\ BlankRows /\ OpenedOnce

LEMMA CountInit == Init => CountInv
<1> SUFFICES ASSUME Init PROVE CountInv
  OBVIOUS
<1>1. GInv /\ BlankRows
  BY InitGInv DEF Init, QueueInit, BlankRows
<1>2. ASSUME NEW s \in Shards PROVE \E g \in [Attempts -> Nat] : Ledger(g, s)
  <2>1. AttemptsOf(s) = {}
    BY NoShardAssumption DEF Init, RenderInit, UnusedAttempt, AttemptsOf
  <2>2. \A o \in Owners, k \in Slots : ~Opening(o, k, s)
    BY DEF Init, RenderInit, FreeJob, Opening
  <2>3. \A o \in Owners : ~Pending(o, s)
    BY NoShardAssumption DEF Init, Pending
  <2>4. Ledger([a \in Attempts |-> 0], s)
    BY <2>1, <2>2, <2>3 DEF Ledger, AttemptsApart, OpenersApart, PendingApart
  <2>5. [a \in Attempts |-> 0] \in [Attempts -> Nat]
    OBVIOUS
  <2> QED BY <2>4, <2>5
<1> QED BY <1>1, <1>2 DEF CountInv, OpenedOnce

LEMMA CountStep == CountInv /\ [Next]_vars => CountInv'
<1> SUFFICES ASSUME CountInv, [Next]_vars PROVE CountInv'
  OBVIOUS
<1>0. GInv /\ TypeOK /\ RenderInv /\ BlankRows /\ OpenedOnce
  BY DEF CountInv, GInv
<1>1. GInv'
  BY <1>0, GInvStep
<1>2. ASSUME NEW s \in Shards, rows'[s].status = "absent" PROVE rows'[s] = AbsentRow
  <2>1. ASSUME NEW o \in Owners, TakeShard(o, s) PROVE FALSE
    <3>1. rows \in [Shards -> Row]
      BY <1>0 DEF TypeOK, QueueTypeOK
    <3> QED BY <1>2, <2>1, <3>1 DEF TakeShard, Take
  <2> QED BY <1>0, <1>2, <2>1, RowsQuiet
<1>3. ASSUME NEW s \in Shards PROVE \E g \in [Attempts -> Nat] : Ledger(g, s)'
  <2>1. PICK g \in [Attempts -> Nat] : Ledger(g, s)
    BY <1>0 DEF OpenedOnce
  <2>2. ASSUME NEW o \in Owners, TakeShard(o, s) PROVE Ledger(g, s)'
    BY <1>0, <2>1, <2>2, LedgerTake
  <2>3. ASSUME NEW o \in Owners, NEW k \in Slots, StartRender(o, k), cand[o] = s
        PROVE  Ledger(g, s)'
    BY <1>0, <2>1, <2>3, LedgerSubmit
  <2>4. ASSUME NEW o \in Owners, NEW k \in Slots, RenderStep(o, k), WriteMarker(o, k),
               job[o][k].shard = s
        PROVE  \E h \in [Attempts -> Nat] : Ledger(h, s)'
    BY <1>0, <2>1, <2>4, LedgerOpen
  <2>5. ASSUME \A o \in Owners : ~TakeShard(o, s),
               \A o \in Owners, k \in Slots : ~(StartRender(o, k) /\ cand[o] = s),
               \A o \in Owners, k \in Slots : RenderStep(o, k) /\ WriteMarker(o, k) =>
                 job[o][k].shard # s
        PROVE  Ledger(g, s)'
    <3>1. (AttemptsOf(s))' = AttemptsOf(s)
      BY <1>0, <2>5, AttemptsQuiet
    <3>2. rows'[s].gen = rows[s].gen
      BY <1>0, <2>5, RowsQuiet
    <3>3. \A o \in Owners, k \in Slots :
            Opening(o, k, s)' => Opening(o, k, s) /\ claimGen'[o][k] = claimGen[o][k]
      BY <1>0, <2>5, OpenersQuiet
    <3>4. \A o \in Owners : Pending(o, s)' => Pending(o, s)
      BY <1>0, <2>5, PendingQuiet
    <3> QED BY <2>1, <3>1, <3>2, <3>3, <3>4, LedgerKept
  <2> QED BY <2>2, <2>3, <2>4, <2>5
<1>4. BlankRows' /\ OpenedOnce'
  BY <1>2, <1>3 DEF BlankRows, OpenedOnce
<1> QED BY <1>1, <1>4 DEF CountInv

\* No claim is rendered twice: a shard has at most as many attempts as its row
\* has generations, whatever workers crash, overrun their leases, lose a race or
\* are launched again.
THEOREM ClaimsRenderOnce == Spec => []OneAttemptPerClaim
<1>1. CountInv => OneAttemptPerClaim
  <2> SUFFICES ASSUME CountInv, NEW s \in Shards
               PROVE  Cardinality(AttemptsOf(s)) <= rows[s].gen
    BY DEF OneAttemptPerClaim
  <2>1. rows[s].gen \in Nat
    BY DEF CountInv, GInv, TypeOK, QueueTypeOK, Row
  <2>2. PICK g \in [Attempts -> Nat] : AttemptsApart(g, s)
    BY DEF CountInv, OpenedOnce, Ledger
  <2> DEFINE h == [a \in AttemptsOf(s) |-> g[a]]
  <2>3. h \in Injection(AttemptsOf(s), 1 .. rows[s].gen)
    BY <2>2 DEF AttemptsApart, Injection, IsInjective
  <2>4. IsFiniteSet(1 .. rows[s].gen) /\ Cardinality(1 .. rows[s].gen) = rows[s].gen
    <3>1. ASSUME NEW n \in Nat
          PROVE  IsFiniteSet(1 .. n) /\ Cardinality(1 .. n) = n
      <4>1. 1 \in Int /\ n \in Int
        OBVIOUS
      <4>2. IsFiniteSet(1 .. n) /\ Cardinality(1 .. n) = (IF 1 > n THEN 0 ELSE n - 1 + 1)
        BY <4>1, FS_Interval, Zenon
      <4>3. (IF 1 > n THEN 0 ELSE n - 1 + 1) = n
        OBVIOUS
      <4> QED BY <4>2, <4>3
    <3> QED BY <2>1, <3>1
  <2> HIDE DEF h
  <2>5. Cardinality(AttemptsOf(s)) <= Cardinality(1 .. rows[s].gen)
    BY <2>3, <2>4, FS_Injection
  <2> QED BY <2>4, <2>5
<1> QED BY <1>1, CountInit, CountStep, PTL DEF Spec

-----------------------------------------------------------------------------
(***************************************************************************)
(* A queue-mode run from end to end.  What the table says of a shard does  *)
(* not matter here: after finalize has excluded an attempt, a done row is  *)
(* no longer staged, and the run may never end, but what it publishes is   *)
(* one render per shard all the same.                                      *)
(***************************************************************************)

\* A worker without a process has no work, and a claim in progress is the
\* claiming thread's.
WorkerOK(o) ==
  /\ main[o] \in Ended => \A k \in Slots : job[o][k].step = "free"
  /\ cand[o] # NoShard => main[o] = "fill"

QueueLifeInv ==
  /\ TypeOK
  /\ LifeInv
  /\ \A o \in Owners : WorkerOK(o)
  /\ stage = "finalize" => \A o \in Owners : main[o] = "ok"

\* A worker that has not moved keeps its invariant, and so does one whose
\* slots change no more than their progress.
LEMMA WorkerSame ==
  ASSUME NEW o \in Owners, WorkerOK(o), main'[o] = main[o], cand'[o] = cand[o],
         \A k \in Slots : job[o][k].step = "free" => job'[o][k].step = "free"
  PROVE  WorkerOK(o)'
  BY DEF WorkerOK

\* A worker that goes on living, no claim in progress when it is not claiming.
LEMMA WorkerAlive ==
  ASSUME NEW o \in Owners, main'[o] \notin Ended, cand'[o] # NoShard => main'[o] = "fill"
  PROVE  WorkerOK(o)'
  BY DEF WorkerOK

\* The steps of a worker keep its own invariant.
LEMMA WorkerOwnStep ==
  ASSUME TypeOK, NEW o \in Owners, WorkerOK(o), Launch(o) \/ MainStep(o) \/ MainFault(o)
  PROVE  WorkerOK(o)'
<1>0. /\ main \in [Owners -> MainStates] /\ cand \in [Owners -> Shards \cup {NoShard}]
      /\ job \in [Owners -> [Slots -> Job]]
  BY DEF TypeOK, RenderTypeOK
<1>1. CASE Launch(o)
  <2>1. main'[o] = "fill"
    BY <1>0, <1>1 DEF Launch
  <2> QED
    BY <2>1, WorkerAlive DEF Ended
<1>2. ASSUME NEW s \in Shards, TakeShard(o, s) PROVE WorkerOK(o)'
  <2>1. main'[o] = "fill"
    BY <1>2 DEF TakeShard, Claiming
  <2> QED
    BY <2>1, WorkerAlive DEF Ended
<1>3. ASSUME NEW k \in Slots, StartRender(o, k) PROVE WorkerOK(o)'
  <2>1. main'[o] = "fill"
    BY <1>3 DEF StartRender, WorkerOK
  <2> QED
    BY <2>1, WorkerAlive DEF Ended
<1>4. CASE LoseShard(o) \/ Drained(o)
  <2>1. main'[o] = "fill"
    BY <1>4 DEF LoseShard, Drained, Claiming, WorkerOK
  <2> QED
    BY <2>1, WorkerAlive DEF Ended
<1>5. CASE Wait(o)
  <2>1. main'[o] = "resolve" /\ cand'[o] = NoShard
    BY <1>0, <1>5 DEF Wait
  <2> QED
    BY <2>1, WorkerAlive DEF Ended
<1>6. ASSUME NEW k \in Slots,
             CompleteClaim(o, k) \/ CompleteMissed(o, k) \/ RenderFailed(o, k) \/ CompleteError(o, k)
      PROVE  WorkerOK(o)'
  <2>1. main[o] \in {"drain", "resolve"}
    BY <1>6 DEF CompleteClaim, CompleteMissed, RenderFailed, CompleteError, Resolvable
  <2>2. cand'[o] = NoShard
    BY <1>6, <2>1
       DEF CompleteClaim, CompleteMissed, RenderFailed, CompleteError, Settle, WorkerOK
  <2>3. main'[o] \in {"drain", "resolve", "fill"}
    BY <1>0, <1>6, <2>1 DEF CompleteClaim, CompleteMissed, RenderFailed, CompleteError, NextMain
  <2> QED
    BY <2>2, <2>3, WorkerAlive DEF Ended
<1>7. CASE Exit(o) \/ Crash(o)
  <2>1. \A k \in Slots : job'[o][k].step = "free"
    BY <1>0, <1>7 DEF Exit, Crash, Kill, FreeJob
  <2>2. cand'[o] = NoShard
    BY <1>0, <1>7 DEF Exit, Crash
  <2> QED
    BY <2>1, <2>2 DEF WorkerOK
<1>8. CASE ClaimError(o)
  <2>1. main'[o] = "drain" /\ cand'[o] = NoShard
    BY <1>0, <1>8 DEF ClaimError
  <2> QED
    BY <2>1, WorkerAlive DEF Ended
<1> QED
  BY <1>1, <1>2, <1>3, <1>4, <1>5, <1>6, <1>7, <1>8 DEF MainStep, MainFault

LEMMA WorkerStep ==
  ASSUME TypeOK, [Next]_vars, \A o \in Owners : WorkerOK(o)
  PROVE  \A o \in Owners : WorkerOK(o)'
<1> SUFFICES ASSUME NEW o \in Owners PROVE WorkerOK(o)'
  OBVIOUS
<1>0. /\ main \in [Owners -> MainStates] /\ cand \in [Owners -> Shards \cup {NoShard}]
      /\ job \in [Owners -> [Slots -> Job]] /\ WorkerOK(o) /\ RenderTypeOK
  BY DEF TypeOK, RenderTypeOK
<1>1. CASE UNCHANGED <<main, cand, job>>
  BY <1>0, <1>1, WorkerSame
<1>2. ASSUME NEW p \in Owners, Launch(p) \/ MainStep(p) \/ MainFault(p) PROVE WorkerOK(o)'
  <2>1. CASE p = o
    BY <1>0, <1>2, <2>1, WorkerOwnStep
  <2>2. CASE p # o
    <3>1. main'[o] = main[o] /\ cand'[o] = cand[o]
      BY <1>0, <1>2, <2>2
         DEF Launch, MainStep, MainFault, TakeShard, StartRender, LoseShard, Drained, Wait,
             CompleteClaim, CompleteMissed, RenderFailed, Exit, ClaimError, CompleteError,
             Crash, Settle
    <3>2. job'[o] = job[o]
      <4>1. \/ UNCHANGED job \/ Kill(p)
            \/ \E k \in Slots : Release(p, k) \/ \E s : Submit(p, k, s)
        BY <1>2
           DEF Launch, MainStep, MainFault, TakeShard, StartRender, LoseShard, Drained, Wait,
               CompleteClaim, CompleteMissed, RenderFailed, Exit, ClaimError, CompleteError,
               Crash, Settle, renderVars
      <4> QED
        BY <1>0, <2>2, <4>1 DEF Kill, Release, Submit
    <3> QED
      BY <1>0, <3>1, <3>2, WorkerSame
  <2> QED
    BY <2>1, <2>2
<1>3. ASSUME NEW p \in Owners, NEW k \in Slots, RenderStep(p, k) \/ RenderFault(p, k)
      PROVE  WorkerOK(o)'
  <2>1. main' = main /\ cand' = cand /\ job[p][k].step # "free"
    BY <1>3
       DEF RenderStep, RenderFault, JobStep, Fail, Working, Probe, WriteMarker, RetryRender,
           Render, WriteFragment, WriteStats, WriteSidecar, WriteValid, Cleanup, InputMissing,
           loop
  <2>2. \A l \in Slots : o # p \/ l # k => job'[o][l] = job[o][l]
    BY <1>0, <1>3, JobAfter DEF RenderStep, RenderFault, OnlySlot
  <2> QED
    BY <1>0, <2>1, <2>2, WorkerSame
<1>4. CASE PopulateClaims \/ \E s \in Shards : LapseOrphan(s) \/ LapseLive(s)
  BY <1>1, <1>4 DEF PopulateClaims, LapseOrphan, LapseLive, renderVars, loop
<1>5. CASE UNCHANGED vars
  BY <1>1, <1>5 DEF vars, renderVars, loop
<1> QED
  BY <1>2, <1>3, <1>4, <1>5 DEF Next

LEMMA QueueLifeInit == QInit => QueueLifeInv
<1> SUFFICES ASSUME QInit PROVE QueueLifeInv
  OBVIOUS
<1>1. TypeOK /\ stage = "generate"
  BY InitTypes DEF QInit, LifeInit
<1>2. LifeInv
  BY LifeStart DEF QInit, Init
<1>3. \A o \in Owners : WorkerOK(o)
  BY DEF QInit, Init, RenderInit, FreeJob, WorkerOK
<1> QED
  BY <1>1, <1>2, <1>3 DEF QueueLifeInv

\* A step of the generate job is a step of queue-mode generation.
LEMMA QueueGenerate ==
  ASSUME QueueLifeInv, SlotsApart, stage = "generate", Next, Land, UNCHANGED <<stage, finalizer>>
  PROVE  QueueLifeInv'
<1>1. TypeOK /\ RenderInv
  BY DEF QueueLifeInv, LifeInv
<1>2. TypeOK'
  BY <1>1, TypeOKStep
<1>3. LifeInv'
  BY <1>1, NextIsRenderStep, LifeGenerate DEF QueueLifeInv
<1>4. \A o \in Owners : WorkerOK(o)'
  BY <1>1, WorkerStep DEF QueueLifeInv
<1> QED
  BY <1>2, <1>3, <1>4 DEF QueueLifeInv

\* A lease may run out in either stage, and disturbs nothing but the table.
LEMMA QueueLapse ==
  ASSUME QueueLifeInv, NEW s \in Shards, QLapse(s) PROVE QueueLifeInv'
<1>1. /\ Next /\ UNCHANGED <<renderVars, loop>> /\ UNCHANGED <<stage, storage, finalizer>>
  BY DEF QLapse, LapseOrphan, Next, lifeVars
<1>2. TypeOK'
  BY <1>1, TypeOKStep DEF QueueLifeInv, LifeInv
<1>3. LifeInv'
  BY <1>1, LifeSame DEF QueueLifeInv
<1>4. \A o \in Owners : WorkerOK(o)'
  BY <1>1, WorkerSame DEF QueueLifeInv, renderVars, loop
<1> QED
  BY <1>1, <1>2, <1>3, <1>4 DEF QueueLifeInv, loop

LEMMA QueueToFinalize == QueueLifeInv /\ QToFinalize => QueueLifeInv'
<1> SUFFICES ASSUME QueueLifeInv, QToFinalize PROVE QueueLifeInv'
  OBVIOUS
<1>1. /\ ToFinalize(TRUE) /\ \A o \in Owners : main[o] = "ok"
      /\ UNCHANGED <<staged, job, local, rows, tokens, main, exhausted, batch, cand, claimGen,
                     faults>>
  BY DEF QToFinalize, ToFinalize, generator, loop, queue
<1>2. AllFree
  BY <1>1 DEF QueueLifeInv, WorkerOK, AllFree, Ended
<1>3. LifeInv'
  BY <1>1, <1>2, LifeToFinalize DEF QueueLifeInv
<1>4. TypeOK'
  BY <1>1 DEF QueueLifeInv, TypeOK, RenderTypeOK, QueueTypeOK
<1>5. \A o \in Owners : WorkerOK(o)'
  BY <1>1, WorkerSame DEF QueueLifeInv
<1> QED
  BY <1>1, <1>3, <1>4, <1>5 DEF QueueLifeInv

LEMMA QueueFinalize ==
  ASSUME QueueLifeInv, NEW f \in Finalizers, QFinalize(f)
  PROVE  QueueLifeInv'
<1>1. /\ Finalize(f) /\ stage = "finalize"
      /\ UNCHANGED <<job, local, rows, tokens, main, exhausted, batch, cand, claimGen, faults>>
  BY DEF QFinalize, Finalize, generator, loop, queue
<1>2. LifeInv'
  BY <1>1, LifeFinalize DEF QueueLifeInv
<1>3. TypeOK'
  BY <1>1, <1>2 DEF QueueLifeInv, TypeOK, QueueTypeOK, LifeInv, RenderInv
<1>4. \A o \in Owners : WorkerOK(o)'
  BY <1>1, WorkerSame DEF QueueLifeInv
<1> QED
  BY <1>1, <1>2, <1>3, <1>4 DEF QueueLifeInv

LEMMA QueueToGenerate == QueueLifeInv /\ QToGenerate => QueueLifeInv'
<1> SUFFICES ASSUME QueueLifeInv, QToGenerate PROVE QueueLifeInv'
  OBVIOUS
<1>1. /\ ToGenerate /\ stage = "finalize" /\ stage' = "generate"
      /\ main' = [o \in Owners |-> "off"]
      /\ UNCHANGED <<staged, job, local, rows, tokens, exhausted, batch, cand, claimGen, faults>>
  BY DEF QToGenerate, ToGenerate, queue
<1>2. LifeInv'
  BY <1>1, LifeToGenerate DEF QueueLifeInv
<1>3. TypeOK'
  BY <1>1 DEF QueueLifeInv, TypeOK, RenderTypeOK, QueueTypeOK, MainStates, Ended
<1>4. \A o \in Owners : WorkerOK(o)'
  BY <1>1 DEF QueueLifeInv, WorkerOK, Ended
<1> QED
  BY <1>1, <1>2, <1>3, <1>4 DEF QueueLifeInv

\* Of a queue-mode run with serial workers and any number of finalizers: the
\* marker vouches, for every shard, for one healthy attempt on it whose
\* fragment and statistics are of one render, whatever leases run out, workers
\* die, shards are rendered twice and finalize fails and is repeated.
THEOREM QueueRunsPublishOneRender ==
  ASSUME \A j, k \in Slots : j = k
  PROVE  QSpec => []PublishedIsOneRender
<1>0. SlotsApart
  BY DEF SlotsApart
<1>1. QInit => QueueLifeInv
  BY QueueLifeInit
<1>2. QueueLifeInv /\ [QNext]_allVars => QueueLifeInv'
  <2> SUFFICES ASSUME QueueLifeInv, [QNext]_allVars PROVE QueueLifeInv'
    OBVIOUS
  <2>1. CASE UNCHANGED allVars
    <3>1. UNCHANGED <<vars, stage, storage, finalizer>>
      BY <2>1 DEF allVars, generator, lifeVars, vars, renderVars
    <3>2. LifeInv'
      BY <3>1, LifeSame DEF QueueLifeInv, vars
    <3>3. TypeOK' /\ \A o \in Owners : WorkerOK(o)'
      BY <3>1, TypeOKStep, WorkerStep DEF QueueLifeInv, LifeInv
    <3> QED
      BY <3>1, <3>2, <3>3 DEF QueueLifeInv, vars, loop
  <2>2. CASE Generate(PopulateClaims)
    BY <1>0, <2>2, QueueGenerate DEF Generate, Next
  <2>3. ASSUME NEW s \in Shards, Generate(LapseLive(s)) PROVE QueueLifeInv'
    BY <1>0, <2>3, QueueGenerate DEF Generate, Next
  <2>4. ASSUME NEW o \in Owners, Generate(GenerateWorker(o)) \/ Generate(GenerateFault(o))
        PROVE  QueueLifeInv'
    BY <1>0, <2>4, QueueGenerate DEF Generate, GenerateWorker, GenerateFault, Next
  <2> QED
    BY <1>0, <2>1, <2>2, <2>3, <2>4, QueueLapse, QueueToFinalize, QueueFinalize,
       QueueToGenerate DEF QNext
<1>3. QueueLifeInv => PublishedIsOneRender
  BY LifeIsOneRender DEF QueueLifeInv
<1> QED
  BY <1>1, <1>2, <1>3, PTL DEF QSpec
=============================================================================

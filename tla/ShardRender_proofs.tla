-------------------------- MODULE ShardRender_proofs --------------------------
(***************************************************************************)
(* What rendering guarantees under any dispatcher: the staging invariant   *)
(* RenderInv is preserved by every step a dispatcher may combine, and a    *)
(* shard once staged stays staged.  The last section does the same for a   *)
(* whole run, generate jobs and finalize jobs in turn.                     *)
(***************************************************************************)
EXTENDS ShardRender, Lifecycle, TLAPS

\* A job at work has a shard and, once it has opened one, an attempt on it that
\* nobody has excluded: only finalize does, when no job is at work.
SlotHasAttempt(o, k) ==
  /\ job[o][k].step # "free" => job[o][k].shard \in Shards
  /\ job[o][k].step \in {"render", "fragment", "stats", "sidecar", "valid", "cleanup"} =>
       /\ job[o][k].attempt \in Attempts
       /\ staged[job[o][k].attempt].shard = job[o][k].shard
       /\ "invalid" \notin staged[job[o][k].attempt].objects

JobHasAttempt == \A o \in Owners, k \in Slots : SlotHasAttempt(o, k)

\* What the attempt of a job holds already.
SlotProgress(o, k) ==
  /\ job[o][k].step = "stats" => "fragment" \in staged[job[o][k].attempt].objects
  /\ job[o][k].step = "sidecar" => "stats" \in staged[job[o][k].attempt].objects
  /\ job[o][k].step = "valid" => "sidecar" \in staged[job[o][k].attempt].objects

JobProgress == \A o \in Owners, k \in Slots : SlotProgress(o, k)

\* Objects arrive in one order.
Ordered ==
  \A a \in Attempts :
    /\ "stats" \in staged[a].objects => "fragment" \in staged[a].objects
    /\ "sidecar" \in staged[a].objects => "stats" \in staged[a].objects
    /\ "valid" \in staged[a].objects => "sidecar" \in staged[a].objects

\* A job that reports success leaves a complete attempt behind.
SlotStaged(o, k) ==
  job[o][k].step \in Succeeded \cup {"cleanup"} => Staged(job[o][k].shard)

SuccessIsStaged == \A o \in Owners, k \in Slots : SlotStaged(o, k)

RenderInv ==
  /\ RenderTypeOK
  /\ JobHasAttempt
  /\ JobProgress
  /\ Ordered
  /\ SuccessIsStaged

-----------------------------------------------------------------------------
\* Nothing is complete, and no job at work, at the start.
LEMMA RenderInitInv == RenderInit => RenderInv
<1> SUFFICES ASSUME RenderInit PROVE RenderInv
  OBVIOUS
<1> USE DEF RenderInit, FreeJob, UnusedAttempt
<1>1. RenderTypeOK
  BY MaxRetriesAssumption DEF RenderTypeOK, Job, Attempt, Steps, Objects
<1>2. JobHasAttempt /\ JobProgress
  BY DEF JobHasAttempt, JobProgress, SlotHasAttempt, SlotProgress
<1>3. Ordered
  BY DEF Ordered
<1>4. SuccessIsStaged
  BY DEF SuccessIsStaged, SlotStaged, Succeeded
<1> QED
  BY <1>1, <1>2, <1>3, <1>4 DEF RenderInv

\* Slot k of worker o is the only one whose job changes.
OnlySlot(o, k) ==
  \A p \in Owners, l \in Slots : p # o \/ l # k => job'[p][l] = job[p][l]

\* Replacing the job of one slot.
LEMMA JobChange ==
  ASSUME RenderTypeOK, NEW o \in Owners, NEW k \in Slots, NEW j \in Job,
         job' = [job EXCEPT ![o][k] = j]
  PROVE  job' \in [Owners -> [Slots -> Job]] /\ job'[o][k] = j /\ OnlySlot(o, k)
  BY DEF RenderTypeOK, OnlySlot

\* Moving one slot to its next step.
LEMMA GotoChange ==
  ASSUME RenderTypeOK, NEW o \in Owners, NEW k \in Slots, NEW step \in Steps,
         Goto(o, k, step)
  PROVE  /\ job' \in [Owners -> [Slots -> Job]]
         /\ job'[o][k] = [job[o][k] EXCEPT !.step = step]
         /\ OnlySlot(o, k)
<1> DEFINE j == [job[o][k] EXCEPT !.step = step]
<1>1. job[o][k] \in Job
  BY DEF RenderTypeOK
<1>2. j \in Job
  BY ONLY <1>1, step \in Steps DEF Job
<1>3. job' = [job EXCEPT ![o][k] = j]
  BY DEF Goto
<1> HIDE DEF j
<1>4. job' \in [Owners -> [Slots -> Job]] /\ job'[o][k] = j /\ OnlySlot(o, k)
  BY <1>2, <1>3, JobChange
<1> QED
  BY <1>4 DEF j

\* The free job and a fresh job are jobs.
LEMMA FreshJobs ==
  /\ FreeJob \in Job
  /\ \A s \in Shards : [FreeJob EXCEPT !.step = "probe", !.shard = s] \in Job
<1>1. 0 \in 0 .. MaxRetries
  BY MaxRetriesAssumption
<1>2. FreeJob \in Job
  BY <1>1 DEF FreeJob, Job, Steps
<1>3. ASSUME NEW s \in Shards
      PROVE  [FreeJob EXCEPT !.step = "probe", !.shard = s] \in Job
  BY ONLY <1>2, s \in Shards DEF Job, Steps
<1> QED
  BY <1>2, <1>3

\* How a job's record changes, action by action.
LEMMA JobAfter ==
  ASSUME RenderTypeOK, NEW o \in Owners, NEW k \in Slots,
         JobStep(o, k) \/ Fail(o, k) \/ Release(o, k) \/ \E s \in Shards : Submit(o, k, s)
  PROVE  job' \in [Owners -> [Slots -> Job]] /\ OnlySlot(o, k)
<1>1. ASSUME NEW step \in Steps, Goto(o, k, step)
      PROVE  job' \in [Owners -> [Slots -> Job]] /\ OnlySlot(o, k)
  BY <1>1, GotoChange
<1>2. CASE WriteMarker(o, k)
  <2>1. PICK a \in Attempts :
          job' = [job EXCEPT ![o][k] = [@ EXCEPT !.step = "render", !.attempt = a]]
    BY <1>2 DEF WriteMarker
  <2> DEFINE j == [job[o][k] EXCEPT !.step = "render", !.attempt = a]
  <2>2. job[o][k] \in Job
    BY DEF RenderTypeOK
  <2>3. j \in Job
    BY <2>2 DEF Job, Steps
  <2>4. job' = [job EXCEPT ![o][k] = j]
    BY <2>1 DEF RenderTypeOK
  <2> HIDE DEF j
  <2> QED
    BY <2>3, <2>4, JobChange
<1>3. CASE RetryRender(o, k)
  <2> DEFINE j == [job[o][k] EXCEPT !.tries = @ + 1]
  <2>1. job[o][k] \in Job
    BY DEF RenderTypeOK
  <2>2. j \in Job
    BY <1>3, <2>1, MaxRetriesAssumption DEF Job, RetryRender
  <2>3. job' = [job EXCEPT ![o][k] = j]
    BY <1>3 DEF RetryRender
  <2> HIDE DEF j
  <2> QED
    BY <2>2, <2>3, JobChange
<1>4. CASE Release(o, k) \/ \E s \in Shards : Submit(o, k, s)
  <2>1. PICK j \in Job : job' = [job EXCEPT ![o][k] = j]
    BY <1>4, FreshJobs DEF Release, Submit
  <2> QED
    BY <2>1, JobChange
<1> QED
  BY <1>1, <1>2, <1>3, <1>4
     DEF JobStep, Probe, Render, WriteFragment, WriteStats, WriteSidecar, WriteValid,
         Cleanup, InputMissing, Fail, Steps

\* An attempt takes one more object, and perhaps the source of what it holds.
LEMMA AttemptChange ==
  ASSUME RenderTypeOK, NEW a \in Attempts, NEW r \in Attempt,
         staged' = [staged EXCEPT ![a] = r]
  PROVE  /\ staged' \in [Attempts -> Attempt]
         /\ staged'[a] = r
         /\ \A b \in Attempts \ {a} : staged'[b] = staged[b]
  BY DEF RenderTypeOK

\* Every change of the staging prefix opens an unused attempt for a job, or
\* adds the next object to a job's attempt.
LEMMA StagedAfter ==
  ASSUME RenderTypeOK, JobHasAttempt, NEW o \in Owners, NEW k \in Slots, JobStep(o, k)
  PROVE  /\ staged' \in [Attempts -> Attempt]
         /\ \/ UNCHANGED staged
            \/ \E a \in Attempts :
                 /\ WriteMarker(o, k) /\ Unused(a)
                 /\ job'[o][k].attempt = a
                 /\ staged'[a].shard = job[o][k].shard
                 /\ staged'[a].objects = {"rendering"}
                 /\ \A b \in Attempts \ {a} : staged'[b] = staged[b]
            \/ \E obj \in {"fragment", "stats", "sidecar", "valid"} :
                 LET a == job[o][k].attempt
                 IN  /\ a \in Attempts /\ ~Unused(a)
                     /\ job[o][k].step = obj
                     /\ staged'[a].shard = staged[a].shard
                     /\ staged'[a].objects = staged[a].objects \cup {obj}
                     /\ staged'[a].data =
                          IF obj = "fragment" THEN Input(o, k) ELSE staged[a].data
                     /\ staged'[a].stats =
                          IF obj = "stats" THEN Input(o, k) ELSE staged[a].stats
                     /\ \A b \in Attempts \ {a} : staged'[b] = staged[b]
<1> DEFINE a0 == job[o][k].attempt
<1>1. CASE UNCHANGED staged
  BY <1>1 DEF RenderTypeOK
<1>2. CASE WriteMarker(o, k)
  <2>1. PICK a \in Attempts :
          /\ Unused(a)
          /\ job' = [job EXCEPT ![o][k] = [@ EXCEPT !.step = "render", !.attempt = a]]
          /\ staged' = [staged EXCEPT ![a] = [@ EXCEPT !.shard = job[o][k].shard,
                                                       !.objects = {"rendering"}]]
    BY <1>2 DEF WriteMarker
  <2> DEFINE r == [staged[a] EXCEPT !.shard = job[o][k].shard, !.objects = {"rendering"}]
  <2>2. staged[a] \in Attempt /\ job[o][k] \in Job
    BY DEF RenderTypeOK
  <2>3. r \in Attempt
    BY ONLY <2>2 DEF Attempt, Objects, Job
  <2>4. staged' = [staged EXCEPT ![a] = r]
    BY <2>1
  <2>5. /\ job'[o][k].attempt = a
        /\ r.shard = job[o][k].shard /\ r.objects = {"rendering"}
    BY <2>1, <2>2 DEF RenderTypeOK, Job, Attempt
  <2> HIDE DEF r
  <2>6. /\ staged' \in [Attempts -> Attempt]
        /\ staged'[a] = r
        /\ \A b \in Attempts \ {a} : staged'[b] = staged[b]
    BY <2>3, <2>4, AttemptChange
  <2> QED
    BY <1>2, <2>1, <2>5, <2>6
<1>3. ASSUME WriteFragment(o, k) \/ WriteStats(o, k) \/ WriteSidecar(o, k) \/ WriteValid(o, k)
      PROVE  a0 \in Attempts /\ ~Unused(a0) /\ staged[a0] \in Attempt
  BY <1>3, NoShardAssumption
     DEF WriteFragment, WriteStats, WriteSidecar, WriteValid, JobHasAttempt, SlotHasAttempt,
         Unused, RenderTypeOK
<1>4. Input(o, k) \in Attempts \cup {NoAttempt} \/ job[o][k].shard \notin Shards
  BY DEF Input, RenderTypeOK
<1>5. CASE WriteFragment(o, k)
  <2> DEFINE r == [staged[a0] EXCEPT !.objects = @ \cup {"fragment"}, !.data = Input(o, k)]
  <2>1. r \in Attempt
    <3>1. staged[a0] \in Attempt /\ Input(o, k) \in Attempts \cup {NoAttempt}
      BY <1>3, <1>4, <1>5 DEF WriteFragment, JobHasAttempt, SlotHasAttempt
    <3> QED
      BY ONLY <3>1 DEF Attempt, Objects
  <2>2. staged' = [staged EXCEPT ![a0] = r]
    BY <1>5 DEF WriteFragment
  <2>3. /\ r.shard = staged[a0].shard /\ r.objects = staged[a0].objects \cup {"fragment"}
        /\ r.data = Input(o, k) /\ r.stats = staged[a0].stats
    BY <1>3, <1>5 DEF Attempt
  <2> HIDE DEF r
  <2>4. /\ staged' \in [Attempts -> Attempt] /\ staged'[a0] = r
        /\ \A b \in Attempts \ {a0} : staged'[b] = staged[b]
    BY <1>3, <1>5, <2>1, <2>2, AttemptChange
  <2>5. job[o][k].step = "fragment"
    BY <1>5 DEF WriteFragment
  <2> QED
    BY <1>3, <1>5, <2>3, <2>4, <2>5
<1>6. CASE WriteStats(o, k)
  <2> DEFINE r == [staged[a0] EXCEPT !.objects = @ \cup {"stats"}, !.stats = Input(o, k)]
  <2>1. r \in Attempt
    <3>1. staged[a0] \in Attempt /\ Input(o, k) \in Attempts \cup {NoAttempt}
      BY <1>3, <1>4, <1>6 DEF WriteStats, JobHasAttempt, SlotHasAttempt
    <3> QED
      BY ONLY <3>1 DEF Attempt, Objects
  <2>2. staged' = [staged EXCEPT ![a0] = r]
    BY <1>6 DEF WriteStats
  <2>3. /\ r.shard = staged[a0].shard /\ r.objects = staged[a0].objects \cup {"stats"}
        /\ r.stats = Input(o, k) /\ r.data = staged[a0].data
    BY <1>3, <1>6 DEF Attempt
  <2> HIDE DEF r
  <2>4. /\ staged' \in [Attempts -> Attempt] /\ staged'[a0] = r
        /\ \A b \in Attempts \ {a0} : staged'[b] = staged[b]
    BY <1>3, <1>6, <2>1, <2>2, AttemptChange
  <2>5. job[o][k].step = "stats"
    BY <1>6 DEF WriteStats
  <2> QED
    BY <1>3, <1>6, <2>3, <2>4, <2>5
<1>7. ASSUME NEW obj \in {"sidecar", "valid"}, Upload(o, k, obj), job[o][k].step = obj,
             WriteSidecar(o, k) \/ WriteValid(o, k)
      PROVE  /\ staged' \in [Attempts -> Attempt]
             /\ staged'[a0].shard = staged[a0].shard
             /\ staged'[a0].objects = staged[a0].objects \cup {obj}
             /\ staged'[a0].data = staged[a0].data /\ staged'[a0].stats = staged[a0].stats
             /\ \A b \in Attempts \ {a0} : staged'[b] = staged[b]
  <2> DEFINE r == [staged[a0] EXCEPT !.objects = @ \cup {obj}]
  <2>1. r \in Attempt
    BY <1>3, <1>7 DEF Attempt, Objects
  <2>2. staged' = [staged EXCEPT ![a0] = r]
    BY <1>7 DEF Upload
  <2>3. /\ r.shard = staged[a0].shard /\ r.objects = staged[a0].objects \cup {obj}
        /\ r.data = staged[a0].data /\ r.stats = staged[a0].stats
    BY <1>3, <1>7 DEF Attempt
  <2> HIDE DEF r
  <2>4. /\ staged' \in [Attempts -> Attempt] /\ staged'[a0] = r
        /\ \A b \in Attempts \ {a0} : staged'[b] = staged[b]
    BY <1>3, <1>7, <2>1, <2>2, AttemptChange
  <2> QED
    BY <2>3, <2>4
<1>8. CASE WriteSidecar(o, k)
  BY <1>3, <1>7, <1>8 DEF WriteSidecar
<1>9. CASE WriteValid(o, k)
  BY <1>3, <1>7, <1>9 DEF WriteValid
<1> QED
  BY <1>1, <1>2, <1>5, <1>6, <1>8, <1>9
     DEF JobStep, Probe, RetryRender, Render, Cleanup, InputMissing

\* Objects are never taken back.
LEMMA StagedGrows ==
  ASSUME RenderInv, RenderNext, NEW a \in Attempts, ~Unused(a)
  PROVE  /\ staged'[a].shard = staged[a].shard
         /\ staged[a].objects \subseteq staged'[a].objects
         /\ "invalid" \in staged'[a].objects => "invalid" \in staged[a].objects
<1>1. CASE UNCHANGED staged
  BY <1>1
<1>2. ASSUME NEW o \in Owners, NEW k \in Slots, JobStep(o, k)
      PROVE  /\ staged'[a].shard = staged[a].shard
             /\ staged[a].objects \subseteq staged'[a].objects
             /\ "invalid" \in staged'[a].objects => "invalid" \in staged[a].objects
  <2>1. RenderTypeOK /\ JobHasAttempt
    BY DEF RenderInv
  <2>2. \/ staged'[a] = staged[a]
        \/ \E obj \in {"fragment", "stats", "sidecar", "valid"} :
             /\ staged'[a].shard = staged[a].shard
             /\ staged'[a].objects = staged[a].objects \cup {obj}
    BY <1>2, <2>1, StagedAfter
  <2> QED
    BY <2>1, <2>2
<1> QED
  BY <1>1, <1>2 DEF RenderNext, Kill, Fail, Release, Submit

\* No job excludes an attempt.
LEMMA NeverExcluded ==
  ASSUME RenderInv, RenderNext, NEW a \in Attempts
  PROVE  "invalid" \in staged'[a].objects => "invalid" \in staged[a].objects
<1>1. CASE UNCHANGED staged
  BY <1>1
<1>2. ASSUME NEW o \in Owners, NEW k \in Slots, JobStep(o, k)
      PROVE  "invalid" \in staged'[a].objects => "invalid" \in staged[a].objects
  <2>1. RenderTypeOK /\ JobHasAttempt
    BY DEF RenderInv
  <2>2. \/ staged'[a] = staged[a]
        \/ staged'[a].objects = {"rendering"}
        \/ \E obj \in {"fragment", "stats", "sidecar", "valid"} :
             staged'[a].objects = staged[a].objects \cup {obj}
    BY <1>2, <2>1, StagedAfter
  <2> QED
    BY <2>2
<1> QED
  BY <1>1, <1>2 DEF RenderNext, Kill, Fail, Release, Submit

\* A shard once staged stays staged.
THEOREM StagedStays ==
  ASSUME RenderInv, RenderNext, NEW s \in Shards, Staged(s)
  PROVE  Staged(s)'
<1>1. PICK a \in AttemptsOf(s) : Complete(a)
  BY DEF Staged
<1>2. a \in Attempts /\ staged[a].shard = s /\ ~Unused(a)
  BY <1>1, NoShardAssumption DEF AttemptsOf, Unused
<1>3. /\ staged'[a].shard = staged[a].shard
      /\ staged[a].objects \subseteq staged'[a].objects
      /\ "invalid" \in staged'[a].objects => "invalid" \in staged[a].objects
  BY <1>2, StagedGrows
<1>4. a \in AttemptsOf(s)' /\ Complete(a)'
  BY <1>1, <1>2, <1>3 DEF AttemptsOf, Complete
<1> QED
  BY <1>4 DEF Staged
-----------------------------------------------------------------------------
SlotOK(o, k) == SlotHasAttempt(o, k) /\ SlotProgress(o, k) /\ SlotStaged(o, k)

\* A slot whose own job does not change keeps what it had: attempts only grow.
LEMMA OtherSlot ==
  ASSUME RenderInv, RenderNext, NEW p \in Owners, NEW l \in Slots,
         job'[p][l] = job[p][l]
  PROVE  SlotOK(p, l)'
<1> DEFINE a == job[p][l].attempt
<1>1. SlotHasAttempt(p, l) /\ SlotProgress(p, l) /\ SlotStaged(p, l)
  BY DEF RenderInv, JobHasAttempt, JobProgress, SuccessIsStaged
<1>2. ASSUME job[p][l].step \in {"render", "fragment", "stats", "sidecar", "valid", "cleanup"}
      PROVE  /\ staged'[a].shard = staged[a].shard
             /\ staged[a].objects \subseteq staged'[a].objects
             /\ "invalid" \in staged'[a].objects => "invalid" \in staged[a].objects
  BY <1>1, <1>2, StagedGrows, NoShardAssumption DEF SlotHasAttempt, Unused
<1>3. SlotHasAttempt(p, l)'
  BY <1>1, <1>2 DEF SlotHasAttempt
<1>4. SlotProgress(p, l)'
  BY <1>1, <1>2 DEF SlotProgress
<1>5. SlotStaged(p, l)'
  BY <1>1, StagedStays DEF SlotStaged, SlotHasAttempt, Succeeded
<1> QED
  BY <1>3, <1>4, <1>5 DEF SlotOK

\* The slot that moves has what its new step asks for.
LEMMA OwnSlot ==
  ASSUME RenderInv, NEW o \in Owners, NEW k \in Slots,
         JobStep(o, k) \/ Fail(o, k) \/ Release(o, k) \/ \E s \in Shards : Submit(o, k, s)
  PROVE  SlotOK(o, k)'
<1> DEFINE a == job[o][k].attempt
<1>0. RenderTypeOK /\ SlotHasAttempt(o, k) /\ SlotProgress(o, k) /\ SlotStaged(o, k)
  BY DEF RenderInv, JobHasAttempt, JobProgress, SuccessIsStaged
<1>1. ASSUME NEW step \in Steps, Goto(o, k, step)
      PROVE  /\ job'[o][k].step = step /\ job'[o][k].shard = job[o][k].shard
             /\ job'[o][k].attempt = a
  <2>1. job[o][k] \in Job /\ job'[o][k] = [job[o][k] EXCEPT !.step = step]
    BY <1>0, <1>1, GotoChange DEF RenderTypeOK
  <2> QED
    BY <2>1 DEF Job
<1>2. RenderNext
  BY DEF RenderNext
<1>3. CASE UNCHANGED staged /\ Goto(o, k, "failed") /\ job[o][k].step # "free"
  BY <1>0, <1>1, <1>3 DEF SlotOK, SlotHasAttempt, SlotProgress, SlotStaged, Steps, Succeeded
<1>4. CASE Probe(o, k)
  <2>1. CASE Staged(job[o][k].shard)
    BY <1>0, <1>1, <1>4, <2>1
       DEF Probe, SlotOK, SlotHasAttempt, SlotProgress, SlotStaged, Steps, Staged,
           AttemptsOf, Complete, Succeeded
  <2>2. CASE ~Staged(job[o][k].shard)
    BY <1>0, <1>1, <1>4, <2>2
       DEF Probe, SlotOK, SlotHasAttempt, SlotProgress, SlotStaged, Steps, Succeeded
  <2> QED
    BY <2>1, <2>2
<1>5. CASE WriteMarker(o, k)
  <2>1. PICK b \in Attempts :
          /\ job' = [job EXCEPT ![o][k] = [@ EXCEPT !.step = "render", !.attempt = b]]
          /\ staged' = [staged EXCEPT ![b] = [@ EXCEPT !.shard = job[o][k].shard,
                                                       !.objects = {"rendering"}]]
    BY <1>5 DEF WriteMarker
  <2>2. job[o][k] \in Job /\ staged[b] \in Attempt /\ job[o][k].shard \in Shards
    BY <1>0, <1>5 DEF RenderTypeOK, WriteMarker, SlotHasAttempt
  <2>3. /\ job'[o][k] = [job[o][k] EXCEPT !.step = "render", !.attempt = b]
        /\ staged'[b] = [staged[b] EXCEPT !.shard = job[o][k].shard,
                                          !.objects = {"rendering"}]
    BY <1>0, <2>1 DEF RenderTypeOK
  <2>4. /\ job'[o][k].step = "render" /\ job'[o][k].attempt = b
        /\ job'[o][k].shard = job[o][k].shard /\ staged'[b].shard = job[o][k].shard
        /\ staged'[b].objects = {"rendering"}
    BY <2>2, <2>3 DEF Job, Attempt
  <2> QED
    BY <2>2, <2>4 DEF SlotOK, SlotHasAttempt, SlotProgress, SlotStaged, Succeeded
<1>6. CASE RetryRender(o, k)
  <2>1. job[o][k] \in Job /\ job'[o][k] = [job[o][k] EXCEPT !.tries = @ + 1]
    BY <1>0, <1>6 DEF RenderTypeOK, RetryRender
  <2>2. job'[o][k].step = "render" /\ job'[o][k].attempt = a
        /\ job'[o][k].shard = job[o][k].shard /\ UNCHANGED staged
    BY <1>6, <2>1 DEF RetryRender, Job
  <2> QED
    BY <1>0, <1>6, <2>2
       DEF RetryRender, SlotOK, SlotHasAttempt, SlotProgress, SlotStaged, Succeeded
<1>7. CASE Render(o, k)
  BY <1>0, <1>1, <1>7
     DEF Render, SlotOK, SlotHasAttempt, SlotProgress, SlotStaged, Steps, Succeeded
<1>9. CASE WriteFragment(o, k)
  <2>1. /\ staged'[a].shard = staged[a].shard
        /\ staged'[a].objects = staged[a].objects \cup {"fragment"}
    BY <1>0, <1>9 DEF WriteFragment, SlotHasAttempt, RenderTypeOK, Attempt
  <2> QED
    BY <1>0, <1>1, <1>9, <2>1
       DEF WriteFragment, SlotOK, SlotHasAttempt, SlotProgress, SlotStaged, Steps, Succeeded
<1>10. CASE WriteStats(o, k)
  <2>1. /\ staged'[a].shard = staged[a].shard
        /\ staged'[a].objects = staged[a].objects \cup {"stats"}
    BY <1>0, <1>10 DEF WriteStats, SlotHasAttempt, RenderTypeOK, Attempt
  <2> QED
    BY <1>0, <1>1, <1>10, <2>1
       DEF WriteStats, SlotOK, SlotHasAttempt, SlotProgress, SlotStaged, Steps, Succeeded
<1>11. CASE WriteSidecar(o, k)
  <2>1. /\ staged'[a].shard = staged[a].shard
        /\ staged'[a].objects = staged[a].objects \cup {"sidecar"}
    BY <1>0, <1>11 DEF WriteSidecar, Upload, SlotHasAttempt, RenderTypeOK, Attempt
  <2> QED
    BY <1>0, <1>1, <1>11, <2>1
       DEF WriteSidecar, SlotOK, SlotHasAttempt, SlotProgress, SlotStaged, Steps, Succeeded
<1>12. CASE WriteValid(o, k)
  <2>1. a \in Attempts /\ job[o][k].shard \in Shards /\ staged[a].shard = job[o][k].shard
    BY <1>0, <1>12 DEF SlotHasAttempt, WriteValid
  <2>2. /\ staged'[a].shard = staged[a].shard
        /\ staged'[a].objects = staged[a].objects \cup {"valid"}
    BY <1>0, <1>12, <2>1 DEF WriteValid, Upload, RenderTypeOK, Attempt
  <2>3. {"stats", "sidecar"} \subseteq staged[a].objects /\ "invalid" \notin staged[a].objects
    BY <1>0, <1>12, <2>1 DEF WriteValid, SlotHasAttempt, SlotProgress, RenderInv, Ordered
  <2>4. PICK b \in Attempts, s \in Shards : b = a /\ s = job[o][k].shard
    BY <2>1
  <2>5. Complete(b)' /\ b \in AttemptsOf(s)'
    BY <2>1, <2>2, <2>3, <2>4 DEF Complete, AttemptsOf
  <2>6. /\ job'[o][k].step = "cleanup" /\ job'[o][k].shard = s
        /\ job'[o][k].attempt = b
    BY <1>1, <1>12, <2>4 DEF WriteValid, Steps
  <2>7. Staged(job[o][k].shard)'
    BY <2>5, <2>6 DEF Staged
  <2>8. staged'[b].shard = s /\ "invalid" \notin staged'[b].objects
    BY <2>1, <2>2, <2>3, <2>4
  <2> QED
    BY <2>4, <2>6, <2>7, <2>8 DEF SlotOK, SlotHasAttempt, SlotProgress, SlotStaged
<1>13. CASE Cleanup(o, k)
  BY <1>0, <1>1, <1>13
     DEF Cleanup, SlotOK, SlotHasAttempt, SlotProgress, SlotStaged, Steps, Succeeded,
         Staged, AttemptsOf, Complete
<1>14. CASE Release(o, k)
  <2>1. job'[o][k].step = "free"
    BY <1>0, <1>14 DEF Release, FreeJob, RenderTypeOK
  <2> QED
    BY <2>1 DEF SlotOK, SlotHasAttempt, SlotProgress, SlotStaged, Succeeded
<1>15. ASSUME NEW s \in Shards, Submit(o, k, s) PROVE SlotOK(o, k)'
  <2>1. job'[o][k].step = "probe" /\ job'[o][k].shard = s
    BY <1>0, <1>15 DEF Submit, FreeJob, RenderTypeOK
  <2> QED
    BY <2>1 DEF SlotOK, SlotHasAttempt, SlotProgress, SlotStaged, Succeeded
<1> QED
  BY <1>3, <1>4, <1>5, <1>6, <1>7, <1>9, <1>10, <1>11, <1>12, <1>13, <1>14, <1>15
     DEF JobStep, InputMissing, Fail, Working

\* Types are preserved.
LEMMA RenderTypeStep == RenderInv /\ RenderNext => RenderTypeOK'
<1> SUFFICES ASSUME RenderInv, RenderNext PROVE RenderTypeOK'
  OBVIOUS
<1>0. RenderTypeOK /\ JobHasAttempt
  BY DEF RenderInv
<1>1. job' \in [Owners -> [Slots -> Job]]
  <2>1. ASSUME NEW o \in Owners, Kill(o) PROVE job' \in [Owners -> [Slots -> Job]]
    <3>1. [k \in Slots |-> FreeJob] \in [Slots -> Job]
      BY FreshJobs
    <3> QED
      BY <1>0, <2>1, <3>1 DEF Kill, RenderTypeOK
  <2> QED
    BY <1>0, <2>1, JobAfter DEF RenderNext
<1>2. local' \in [Owners -> [Shards -> Attempts \cup {NoAttempt}]]
  <2>1. ASSUME NEW o \in Owners, NEW k \in Slots, Render(o, k)
        PROVE  local' \in [Owners -> [Shards -> Attempts \cup {NoAttempt}]]
    <3>1. job[o][k].attempt \in Attempts
      BY <1>0, <2>1 DEF Render, JobHasAttempt, SlotHasAttempt
    <3> QED
      BY <1>0, <2>1, <3>1 DEF Render, RenderTypeOK
  <2>2. ASSUME NEW o \in Owners, NEW k \in Slots, RetryRender(o, k) \/ Cleanup(o, k)
        PROVE  local' \in [Owners -> [Shards -> Attempts \cup {NoAttempt}]]
    <3>1. PICK s \in Shards : s = job[o][k].shard
      BY <1>0, <2>2 DEF RetryRender, Cleanup, JobHasAttempt, SlotHasAttempt
    <3>2. [local EXCEPT ![o][s] = NoAttempt]
            \in [Owners -> [Shards -> Attempts \cup {NoAttempt}]]
      BY <1>0 DEF RenderTypeOK
    <3>3. local' = local \/ local' = [local EXCEPT ![o][s] = NoAttempt]
      BY <2>2, <3>1 DEF RetryRender, Cleanup
    <3> QED
      BY <1>0, <3>2, <3>3 DEF RenderTypeOK
  <2>3. ASSUME NEW o \in Owners, Kill(o)
        PROVE  local' \in [Owners -> [Shards -> Attempts \cup {NoAttempt}]]
    BY <1>0, <2>3 DEF Kill, RenderTypeOK
  <2>4. CASE UNCHANGED local
    BY <1>0, <2>4 DEF RenderTypeOK
  <2>5. ASSUME NEW o \in Owners, NEW k \in Slots, JobStep(o, k)
        PROVE  UNCHANGED local \/ Render(o, k) \/ RetryRender(o, k) \/ Cleanup(o, k)
    BY <2>5
       DEF JobStep, Probe, WriteMarker, WriteFragment, WriteStats, WriteSidecar,
           WriteValid, InputMissing
  <2>6. ASSUME NEW o \in Owners, NEW k \in Slots, JobStep(o, k)
        PROVE  local' \in [Owners -> [Shards -> Attempts \cup {NoAttempt}]]
    BY <2>1, <2>2, <2>4, <2>5, <2>6
  <2> QED
    BY <2>3, <2>4, <2>6 DEF RenderNext, Fail, Release, Submit
<1>3. staged' \in [Attempts -> Attempt]
  BY <1>0, StagedAfter DEF RenderTypeOK, RenderNext, Kill, Fail, Release, Submit
<1> QED
  BY <1>1, <1>2, <1>3 DEF RenderTypeOK

\* Attempts are written in order.
LEMMA OrderedStep == RenderInv /\ RenderNext => Ordered'
<1> SUFFICES ASSUME RenderInv, RenderNext, NEW a \in Attempts
             PROVE  /\ "stats" \in staged'[a].objects => "fragment" \in staged'[a].objects
                    /\ "sidecar" \in staged'[a].objects => "stats" \in staged'[a].objects
                    /\ "valid" \in staged'[a].objects => "sidecar" \in staged'[a].objects
  BY DEF Ordered
<1>0. RenderTypeOK /\ JobHasAttempt /\ Ordered
  BY DEF RenderInv
<1>1. CASE staged'[a] = staged[a]
  BY <1>0, <1>1 DEF Ordered
<1>2. CASE staged'[a].objects = {"rendering"}
  BY <1>2
<1>3. ASSUME NEW o \in Owners, NEW k \in Slots, job[o][k].attempt = a,
             NEW obj \in {"fragment", "stats", "sidecar", "valid"}, job[o][k].step = obj,
             staged'[a].objects = staged[a].objects \cup {obj}
      PROVE  /\ "stats" \in staged'[a].objects => "fragment" \in staged'[a].objects
             /\ "sidecar" \in staged'[a].objects => "stats" \in staged'[a].objects
             /\ "valid" \in staged'[a].objects => "sidecar" \in staged'[a].objects
  <2>1. SlotProgress(o, k)
    BY DEF RenderInv, JobProgress
  <2> QED
    BY <1>0, <1>3, <2>1 DEF SlotProgress, Ordered
<1>4. ASSUME NEW o \in Owners, NEW k \in Slots, JobStep(o, k)
      PROVE  \/ staged'[a] = staged[a]
             \/ staged'[a].objects = {"rendering"}
             \/ /\ job[o][k].attempt = a
                /\ \E obj \in {"fragment", "stats", "sidecar", "valid"} :
                     /\ job[o][k].step = obj
                     /\ staged'[a].objects = staged[a].objects \cup {obj}
  BY <1>0, <1>4, StagedAfter
<1>5. ASSUME NEW o \in Owners, NEW k \in Slots, JobStep(o, k)
      PROVE  /\ "stats" \in staged'[a].objects => "fragment" \in staged'[a].objects
             /\ "sidecar" \in staged'[a].objects => "stats" \in staged'[a].objects
             /\ "valid" \in staged'[a].objects => "sidecar" \in staged'[a].objects
  BY <1>1, <1>2, <1>3, <1>4, <1>5
<1> QED
  BY <1>1, <1>5 DEF RenderNext, Kill, Fail, Release, Submit

\* The staging invariant holds under every dispatcher.
THEOREM RenderInvStep == RenderInv /\ [RenderNext]_renderVars => RenderInv'
<1> SUFFICES ASSUME RenderInv, [RenderNext]_renderVars PROVE RenderInv'
  OBVIOUS
<1>1. CASE UNCHANGED renderVars
  BY <1>1
     DEF renderVars, RenderInv, RenderTypeOK, JobHasAttempt, JobProgress, Ordered,
         SuccessIsStaged, SlotHasAttempt, SlotProgress, SlotStaged, Staged, AttemptsOf,
         Complete
<1>2. CASE RenderNext
  <2>1. ASSUME NEW p \in Owners, NEW l \in Slots PROVE SlotOK(p, l)'
    <3>1. ASSUME NEW o \in Owners, NEW k \in Slots,
                 JobStep(o, k) \/ Fail(o, k) \/ Release(o, k)
                   \/ \E s \in Shards : Submit(o, k, s)
          PROVE  SlotOK(p, l)'
      <4>1. CASE p = o /\ l = k
        BY <3>1, <4>1, OwnSlot
      <4>2. CASE p # o \/ l # k
        BY <1>2, <3>1, <4>2, JobAfter, OtherSlot DEF OnlySlot, RenderInv
      <4> QED
        BY <4>1, <4>2
    <3>2. ASSUME NEW o \in Owners, Kill(o) PROVE SlotOK(p, l)'
      <4>1. CASE p = o
        <5>1. job'[p][l].step = "free"
          BY <3>2, <4>1 DEF Kill, FreeJob, RenderInv, RenderTypeOK
        <5> QED
          BY <5>1 DEF SlotOK, SlotHasAttempt, SlotProgress, SlotStaged, Succeeded
      <4>2. CASE p # o
        BY <1>2, <3>2, <4>2, OtherSlot DEF Kill, RenderInv, RenderTypeOK
      <4> QED
        BY <4>1, <4>2
    <3> QED
      BY <1>2, <3>1, <3>2 DEF RenderNext
  <2> QED
    BY <1>2, <2>1, RenderTypeStep, OrderedStep
       DEF RenderInv, JobHasAttempt, JobProgress, SuccessIsStaged, SlotOK
<1> QED
  BY <1>1, <1>2

-----------------------------------------------------------------------------
(***************************************************************************)
(* A worker whose slots work on different shards.                          *)
(***************************************************************************)
SlotsApart ==
  \A o \in Owners, j, k \in Slots :
    j # k /\ job[o][j].step # "free" /\ job[o][k].step # "free" =>
      job[o][j].shard # job[o][k].shard

\* What an attempt holds was read from its own render.
OwnSources ==
  \A a \in Attempts :
    /\ "fragment" \in staged[a].objects => staged[a].data = a
    /\ "stats" \in staged[a].objects => staged[a].stats = a

\* Such a worker never finds a directory changed under it.
LEMMA OwnInputStep ==
  ASSUME SlotsApart, RenderInv, OwnInput, RenderNext
  PROVE  OwnInput'
<1> SUFFICES ASSUME NEW p \in Owners, NEW l \in Slots,
                    job'[p][l].step \in {"fragment", "stats"}
             PROVE  local'[p][job'[p][l].shard] = job'[p][l].attempt
  BY DEF OwnInput, Input
<1>0. RenderTypeOK /\ SlotHasAttempt(p, l)
  BY DEF RenderInv, JobHasAttempt
<1>1. ASSUME NEW o \in Owners, o # p, NEW k \in Slots,
             \/ JobStep(o, k) \/ Fail(o, k) \/ Release(o, k)
             \/ \E s \in Shards : Submit(o, k, s)
      PROVE  job'[p][l] = job[p][l] /\ local'[p] = local[p]
  <2>1. job'[p][l] = job[p][l]
    BY <1>0, <1>1, JobAfter DEF OnlySlot
  <2>2. local'[p] = local[p]
    BY <1>0, <1>1
       DEF RenderTypeOK, JobStep, Fail, Release, Submit, Probe, WriteMarker, RetryRender,
           Render, WriteFragment, WriteStats, WriteSidecar, WriteValid, Cleanup, InputMissing
  <2> QED
    BY <2>1, <2>2
<1>2. ASSUME NEW o \in Owners, Kill(o), o # p
      PROVE  job'[p][l] = job[p][l] /\ local'[p] = local[p]
  BY <1>0, <1>2 DEF Kill, RenderTypeOK
<1>3. ASSUME job'[p][l] = job[p][l], local'[p] = local[p]
      PROVE  local'[p][job'[p][l].shard] = job'[p][l].attempt
  BY <1>3 DEF OwnInput, Input
<1>4. ASSUME NEW step \in Steps, Goto(p, l, step)
      PROVE  /\ job'[p][l].step = step /\ job'[p][l].shard = job[p][l].shard
             /\ job'[p][l].attempt = job[p][l].attempt
  <2>1. job[p][l] \in Job /\ job'[p][l] = [job[p][l] EXCEPT !.step = step]
    BY <1>0, <1>4, GotoChange DEF RenderTypeOK
  <2> QED
    BY <2>1 DEF Job
<1>5. ~Kill(p) /\ ~Release(p, l) /\ ~\E s \in Shards : Submit(p, l, s)
  <2>1. ASSUME Kill(p) \/ Release(p, l) PROVE job'[p][l].step = "free"
    BY <1>0, <2>1 DEF Kill, Release, FreeJob, RenderTypeOK
  <2>2. ASSUME NEW s \in Shards, Submit(p, l, s) PROVE job'[p][l].step = "probe"
    BY <1>0, <2>2 DEF Submit, FreeJob, RenderTypeOK
  <2> QED
    BY <2>1, <2>2
<1>6. CASE Render(p, l)
  <2>1. job[p][l].shard \in Shards
    BY <1>0, <1>6 DEF Render, SlotHasAttempt
  <2>2. local'[p][job[p][l].shard] = job[p][l].attempt
    BY <1>0, <1>6, <2>1 DEF Render, RenderTypeOK
  <2> QED
    BY <1>4, <1>6, <2>2 DEF Render, Steps
<1>7. CASE WriteFragment(p, l)
  BY <1>4, <1>7 DEF WriteFragment, Steps, OwnInput, Input
<1>8. ~Probe(p, l) /\ ~WriteStats(p, l) /\ ~WriteSidecar(p, l) /\ ~WriteValid(p, l)
      /\ ~Cleanup(p, l) /\ ~InputMissing(p, l) /\ ~Fail(p, l)
  BY <1>4 DEF Probe, WriteStats, WriteSidecar, WriteValid, Cleanup, InputMissing, Fail, Steps
<1>9. ~WriteMarker(p, l)
  <2>1. ASSUME WriteMarker(p, l) PROVE job'[p][l].step = "render"
    BY <1>0, <2>1 DEF WriteMarker, RenderTypeOK, Job
  <2> QED
    BY <2>1
<1>10. ~RetryRender(p, l)
  <2>1. ASSUME RetryRender(p, l) PROVE job'[p][l].step = "render"
    BY <1>0, <2>1 DEF RetryRender, RenderTypeOK, Job
  <2> QED
    BY <2>1
<1>11. ASSUME NEW k \in Slots, k # l,
              \/ JobStep(p, k) \/ Fail(p, k) \/ Release(p, k)
              \/ \E s \in Shards : Submit(p, k, s)
       PROVE  local'[p][job'[p][l].shard] = job'[p][l].attempt
  <2>1. job'[p][l] = job[p][l]
    BY <1>0, <1>11, JobAfter DEF OnlySlot
  <2>2. local[p][job[p][l].shard] = job[p][l].attempt
    BY <2>1 DEF OwnInput, Input
  <2>3. CASE local' = local
    BY <2>1, <2>2, <2>3
  <2>4. CASE local' # local
    <3>1. job[p][k].step \in {"render", "cleanup"}
      BY <1>11, <2>4
         DEF JobStep, Fail, Release, Submit, Probe, WriteMarker, RetryRender, Render,
             WriteFragment, WriteStats, WriteSidecar, WriteValid, Cleanup, InputMissing
    <3>2. job[p][k].shard # job[p][l].shard
      BY <1>11, <2>1, <3>1 DEF SlotsApart
    <3>3. \E a \in Attempts \cup {NoAttempt} : local' = [local EXCEPT ![p][job[p][k].shard] = a]
      <4>1. job[p][k].attempt \in Attempts \cup {NoAttempt}
        BY <1>0 DEF RenderTypeOK, Job
      <4> QED
        BY <1>11, <2>4, <4>1
           DEF JobStep, Fail, Release, Submit, Probe, WriteMarker, RetryRender, Render,
               WriteFragment, WriteStats, WriteSidecar, WriteValid, Cleanup, InputMissing
    <3>4. job[p][l].shard \in Shards
      BY <1>0, <2>1 DEF SlotHasAttempt
    <3> QED
      BY <1>0, <2>1, <2>2, <3>2, <3>3, <3>4 DEF RenderTypeOK
  <2> QED
    BY <2>3, <2>4
<1> QED
  BY <1>1, <1>2, <1>3, <1>5, <1>6, <1>7, <1>8, <1>9, <1>10, <1>11 DEF RenderNext, JobStep

LEMMA OwnSourcesStep ==
  ASSUME RenderInv, OwnInput, OwnSources, RenderNext
  PROVE  OwnSources'
<1> SUFFICES ASSUME NEW a \in Attempts
             PROVE  /\ "fragment" \in staged'[a].objects => staged'[a].data = a
                    /\ "stats" \in staged'[a].objects => staged'[a].stats = a
  BY DEF OwnSources
<1>0. RenderTypeOK /\ JobHasAttempt
  BY DEF RenderInv
<1>1. CASE staged'[a] = staged[a]
  BY <1>1 DEF OwnSources
<1>2. ASSUME NEW o \in Owners, NEW k \in Slots, JobStep(o, k), staged'[a] # staged[a],
             staged'[a].objects # {"rendering"}
      PROVE  /\ "fragment" \in staged'[a].objects => staged'[a].data = a
             /\ "stats" \in staged'[a].objects => staged'[a].stats = a
  <2>1. PICK obj \in {"fragment", "stats", "sidecar", "valid"} :
          /\ job[o][k].attempt = a /\ job[o][k].step = obj
          /\ staged'[a].objects = staged[a].objects \cup {obj}
          /\ staged'[a].data = IF obj = "fragment" THEN Input(o, k) ELSE staged[a].data
          /\ staged'[a].stats = IF obj = "stats" THEN Input(o, k) ELSE staged[a].stats
    BY <1>0, <1>2, StagedAfter
  <2>2. obj \in {"fragment", "stats"} => Input(o, k) = a
    BY <2>1 DEF OwnInput
  <2> QED
    BY <2>1, <2>2 DEF OwnSources
<1>3. CASE staged'[a].objects = {"rendering"}
  BY <1>3
<1> QED
  BY <1>1, <1>2, <1>3 DEF RenderNext, Kill, Fail, Release, Submit

\* A complete attempt has every object it needs, all from one render.
LEMMA SourcesGiveOneRender ==
  ASSUME RenderInv, OwnSources PROVE AttemptIsOneRender
  BY DEF RenderInv, Ordered, OwnSources, AttemptIsOneRender, Complete
-----------------------------------------------------------------------------
(***************************************************************************)
(* A run from end to end (Lifecycle), for any dispatcher and any number of *)
(* finalizers: what the marker vouches for is one render per shard.  The   *)
(* finalizers' own part is SteadyInv of FinalizeDataset_proofs: in a run   *)
(* from end to end no healthy fragment is misread.                         *)
(***************************************************************************)
FP == INSTANCE FinalizeDataset_proofs
        WITH MaxReadErrors <- 0, MaxFaults <- 0, readErrors <- 0, faults <- 0

\* No slot has work.
AllFree == \A o \in Owners, k \in Slots : job[o][k].step = "free"

\* One job at a time.
StageOK ==
  /\ stage \in {"generate", "finalize"}
  /\ stage = "generate" => \A f \in Finalizers : pc[f] \in F!Ended
  /\ stage = "finalize" => AllFree

LifeInv ==
  /\ RenderInv /\ OwnInput /\ OwnSources
  /\ FP!SteadyInv
  /\ StageOK

\* The types of what finalizing reads, without FinalizeDataset's names.
LEMMA LifeTypes ==
  ASSUME LifeInv
  PROVE  /\ staged \in [Attempts -> Attempt] /\ mtime \in [Attempts -> Nat]
         /\ damaged \subseteq Attempts
<1>1. FP!TypeOK
  BY DEF LifeInv, FP!SteadyInv, FP!TypeInv
<1>2. FP!Attempts = Attempts
  BY DEF FP!Attempts, Attempts
<1>3. staged \in [Attempts -> Attempt]
  BY DEF LifeInv, RenderInv, RenderTypeOK
<1> QED
  BY <1>1, <1>2, <1>3 DEF FP!TypeOK

\* The finalizers' invariant stays while none of them takes a step.
LEMMA FinalizerKept ==
  ASSUME LifeInv, staged' \in [Attempts -> Attempt], mtime' \in [Attempts -> Nat],
         damaged' \subseteq Attempts,
         UNCHANGED <<manifest, welford, norm, card, complete,
                     mode, seen, prefer, winner, reuse, at, sample>>,
         UNCHANGED <<staged, damaged>> \/ (FP!NoneExcluded' /\ FP!RecordedHealthy'),
         \/ UNCHANGED <<staged, mtime, damaged, pc>>
         \/ /\ \A f \in Finalizers : pc[f] \in F!Ended
            /\ UNCHANGED pc \/ pc' = [f \in Finalizers |-> "off"]
  PROVE  FP!SteadyInv'
<1>1. FP!SteadyInv
  BY DEF LifeInv
<1>2. FP!Attempts = Attempts /\ FP!Attempt = Attempt
  BY DEF FP!Attempts, Attempts, FP!NoAttempt, NoAttempt, FP!Attempt, Attempt, FP!Objects, Objects
<1>3. FP!NoneExcluded' /\ FP!RecordedHealthy'
  BY <1>1
  DEF FP!SteadyInv, FP!NoneExcluded, FP!RecordedHealthy, FP!Healthy, FP!AttemptsOf
<1>4. UNCHANGED FP!published
  BY DEF FP!published
<1>5. F!Ended = FP!Ended
  BY DEF F!Ended, FP!Ended
<1> HIDE DEF FP!published
<1>6. UNCHANGED <<FP!published, mode, seen, prefer, winner, reuse, at, sample, 0, 0>>
  BY <1>4
<1> QED
  BY <1>1, <1>2, <1>3, <1>5, <1>6, FP!SteadyKept, LifecycleAssumption, NoShardAssumption,
     MaxAttemptsAssumption

LEMMA LifeStart == RenderInit /\ LifeInit => LifeInv
<1> SUFFICES ASSUME RenderInit, LifeInit PROVE LifeInv
  OBVIOUS
<1>1. F!Init /\ stage = "generate"
  BY DEF LifeInit
<1>2. FP!Init
  BY <1>1
     DEF FP!Init, F!Init, FP!NoSelection, F!NoSelection, FP!NoNorm, F!NoNorm, FP!ForeignNorm,
         F!ForeignNorm, FP!OnTrain, F!OnTrain, FP!Train, F!Train, FP!UnusedAttempt,
         F!UnusedAttempt, FP!NoAttempt, F!NoAttempt, FP!Attempts, F!Attempts
<1>3. FP!SteadyInv
  BY <1>2, FP!SteadyInit, LifecycleAssumption, NoShardAssumption, MaxAttemptsAssumption
<1>4. RenderInv /\ OwnInput /\ OwnSources
  BY RenderInitInv DEF RenderInit, FreeJob, UnusedAttempt, OwnInput, OwnSources
<1>5. StageOK
  BY <1>1 DEF F!Init, F!Ended, StageOK
<1> QED
  BY <1>3, <1>4, <1>5 DEF LifeInv

LEMMA LifeSame ==
  ASSUME LifeInv, UNCHANGED <<renderVars, stage, storage, finalizer>>
  PROVE  LifeInv'
<1>1. UNCHANGED <<staged, job, local, stage, mtime, damaged, manifest, welford, norm, card,
                  complete, pc, mode, seen, prefer, winner, reuse, at, sample>>
  BY DEF renderVars, storage, finalizer
<1>2. FP!SteadyInv'
  BY <1>1, FinalizerKept, LifeTypes
<1>3. RenderInv' /\ OwnInput' /\ OwnSources'
  BY <1>1, RenderInvStep DEF LifeInv, renderVars, OwnInput, OwnSources, Input
<1>4. StageOK'
  BY <1>1 DEF LifeInv, StageOK, AllFree, F!Ended
<1> QED
  BY <1>2, <1>3, <1>4 DEF LifeInv

\* A step of the generate job, by a dispatcher that keeps its slots apart.
LEMMA LifeGenerate ==
  ASSUME LifeInv, stage = "generate", SlotsApart, [RenderNext]_renderVars, Land,
         UNCHANGED <<stage, finalizer>>
  PROVE  LifeInv'
<1>0. /\ RenderInv /\ OwnInput /\ OwnSources /\ FP!SteadyInv /\ StageOK
      /\ mtime \in [Attempts -> Nat] /\ damaged \subseteq Attempts
  BY LifeTypes DEF LifeInv
<1>1. RenderInv'
  BY <1>0, RenderInvStep
<1>2. OwnInput' /\ OwnSources'
  <2>1. CASE RenderNext
    BY <1>0, <2>1, OwnInputStep, OwnSourcesStep
  <2>2. CASE UNCHANGED renderVars
    BY <1>0, <2>2 DEF renderVars, OwnInput, OwnSources, Input
  <2> QED
    BY <2>1, <2>2
<1>3. ASSUME NEW a \in Attempts
      PROVE  /\ ~Unused(a) => /\ staged'[a].shard = staged[a].shard
                              /\ staged[a].objects \subseteq staged'[a].objects
             /\ "invalid" \in staged'[a].objects => "invalid" \in staged[a].objects
  <2>1. CASE RenderNext
    BY <1>0, <2>1, StagedGrows, NeverExcluded
  <2>2. CASE UNCHANGED renderVars
    BY <2>2 DEF renderVars
  <2> QED
    BY <2>1, <2>2
<1>4. Landing \subseteq Attempts /\ \A a \in Landing : "valid" \notin staged[a].objects
  BY DEF Landing
<1> HIDE DEF Landing
<1>5. /\ staged' \in [Attempts -> Attempt]
      /\ mtime' \in [Attempts -> Nat]
      /\ damaged' \in {damaged, damaged \cup Landing}
  <2>1. staged' \in [Attempts -> Attempt]
    BY <1>1 DEF RenderInv, RenderTypeOK
  <2>2. CASE UNCHANGED storage
    BY <1>0, <2>1, <2>2 DEF storage
  <2>3. CASE ~UNCHANGED storage
    <3>1. PICK latest \in {mtime[b] : b \in Attempts} :
            mtime' = [a \in Attempts |-> IF a \in Landing THEN latest + 1 ELSE mtime[a]]
      BY <2>3 DEF Land
    <3>2. latest \in Nat
      BY <1>0
    <3>3. mtime' \in [Attempts -> Nat]
      BY <1>0, <3>1, <3>2
    <3>4. damaged' \in {damaged, damaged \cup Landing}
      BY <2>3 DEF Land
    <3> QED
      BY <2>1, <3>3, <3>4
  <2> QED
    BY <2>2, <2>3
<1>6. FP!Attempts = Attempts /\ FP!NoAttempt = NoAttempt
  BY DEF FP!Attempts, Attempts, FP!NoAttempt, NoAttempt
<1>7. FP!NoneExcluded'
  BY <1>0, <1>3, <1>5, <1>6 DEF FP!SteadyInv, FP!NoneExcluded
<1>8. ASSUME NEW s \in Shards, NEW a, a \in FP!Healthy(s) PROVE a \in FP!Healthy(s)'
  <2>1. /\ a \in Attempts /\ staged[a].shard = s /\ a \notin damaged
        /\ FP!Evidence \subseteq staged[a].objects
    BY <1>6, <1>8 DEF FP!Healthy, FP!AttemptsOf
  <2>2. ~Unused(a) /\ a \notin Landing
    BY <1>4, <2>1, NoShardAssumption DEF Unused, FP!Evidence
  <2>3. /\ staged'[a].shard = s /\ a \notin damaged'
        /\ FP!Evidence \subseteq staged'[a].objects
    BY <1>3, <1>5, <2>1, <2>2
  <2> QED
    BY <1>6, <2>1, <2>3 DEF FP!Healthy, FP!AttemptsOf
<1>9. FP!RecordedHealthy'
  <2>1. card' = card
    BY DEF finalizer
  <2>2. ASSUME NEW s \in Shards, NEW a, a = card[s], a # FP!NoAttempt PROVE a \in FP!Healthy(s)'
    BY <1>0, <1>8, <2>2 DEF FP!SteadyInv, FP!RecordedHealthy
  <2> QED
    BY <2>1, <2>2 DEF FP!RecordedHealthy
<1>10. FP!SteadyInv'
  <2>1. damaged' \subseteq Attempts
    BY <1>0, <1>4, <1>5
  <2> QED
    BY <1>0, <1>5, <1>7, <1>9, <2>1, FinalizerKept DEF finalizer, StageOK
<1>11. StageOK'
  BY <1>0 DEF StageOK, finalizer
<1> QED
  BY <1>1, <1>2, <1>10, <1>11 DEF LifeInv

\* From one job to the other nothing changes but who is to run.
LEMMA LifeToFinalize ==
  ASSUME LifeInv, ToFinalize(TRUE), AllFree, UNCHANGED <<job, local>>
  PROVE  LifeInv'
<1>0. /\ stage = "generate" /\ stage' = "finalize" /\ \A f \in Finalizers : pc[f] \in F!Ended
      /\ pc' = [f \in Finalizers |-> "off"]
      /\ UNCHANGED <<staged, mtime, damaged, manifest, welford, norm, card, complete,
                     mode, seen, prefer, winner, reuse, at, sample>>
  BY DEF ToFinalize, LifeInv, StageOK, storage
<1>1. FP!SteadyInv'
  BY <1>0, FinalizerKept, LifeTypes
<1>2. RenderInv' /\ OwnInput' /\ OwnSources'
  <2>1. [RenderNext]_renderVars /\ UNCHANGED renderVars
    BY <1>0 DEF renderVars
  <2> QED
    BY <2>1, RenderInvStep DEF LifeInv, renderVars, OwnInput, OwnSources, Input
<1>3. StageOK'
  BY <1>0 DEF StageOK, AllFree
<1> QED
  BY <1>1, <1>2, <1>3 DEF LifeInv

LEMMA LifeToGenerate ==
  ASSUME LifeInv, ToGenerate, UNCHANGED <<job, local>>
  PROVE  LifeInv'
<1>0. /\ stage' = "generate"
      /\ \A f \in Finalizers : pc[f] \in F!Ended
      /\ UNCHANGED <<staged, mtime, damaged, manifest, welford, norm, card, complete,
                     pc, mode, seen, prefer, winner, reuse, at, sample>>
  BY DEF ToGenerate, F!Quiescent, storage, finalizer
<1>1. FP!SteadyInv'
  BY <1>0, FinalizerKept, LifeTypes
<1>2. RenderInv' /\ OwnInput' /\ OwnSources'
  <2>1. [RenderNext]_renderVars /\ UNCHANGED renderVars
    BY <1>0 DEF renderVars
  <2> QED
    BY <2>1, RenderInvStep DEF LifeInv, renderVars, OwnInput, OwnSources, Input
<1>3. StageOK'
  BY <1>0 DEF StageOK
<1> QED
  BY <1>1, <1>2, <1>3 DEF LifeInv

\* What one step of a finalizer does to the staged objects.
LEMMA FinalizerEffect ==
  ASSUME LifeInv, NEW f \in Finalizers,
         F!Restart(f) \/ F!SkipFinalized(f) \/ F!Step(f)
  PROVE  /\ FP!Next
         /\ \/ UNCHANGED staged
            \/ \E a \in Attempts :
                 staged' = [staged EXCEPT ![a] = [staged[a] EXCEPT !.objects = @ \cup {"invalid"}]]
<1>1. FP!Next
  <2> USE DEF F!Enter, FP!Enter, F!published, FP!published, F!Ended, FP!Ended, F!NoSelection,
            FP!NoSelection, F!NoAttempt, FP!NoAttempt, F!OnTrain, FP!OnTrain, F!Train,
            FP!Train, F!Attempts, FP!Attempts
  <2>1. F!Restart(f) => FP!Restart(f)
    BY DEF F!Restart, FP!Restart, F!Start, FP!Start
  <2>2. F!SkipFinalized(f) => FP!SkipFinalized(f)
    BY DEF F!SkipFinalized, FP!SkipFinalized
  <2>3. F!List(f) => FP!List(f)
    BY DEF F!List, FP!List, F!Staged, FP!Staged, F!AttemptsOf, FP!AttemptsOf, F!Complete,
           FP!Complete, F!Unused, FP!Unused
  <2>4. F!ReadCard(f) => FP!ReadCard(f)
    BY DEF F!ReadCard, FP!ReadCard
  <2>5. ASSUME NEW s \in Shards
        PROVE  /\ \A a : F!Candidate(f, s, a) <=> FP!Candidate(f, s, a)
               /\ F!NoneHealthy(f, s) => FP!NoneHealthy(f, s)
    BY DEF F!Candidate, FP!Candidate, F!Candidates, FP!Candidates, F!Selecting,
           FP!Selecting, F!Precedes, FP!Precedes, F!AttemptsOf, FP!AttemptsOf,
           F!NoneHealthy, FP!NoneHealthy
  <2>6. ASSUME NEW s \in Shards, NEW a \in F!Attempts
        PROVE  /\ F!Accept(f, s, a) => FP!Accept(f, s, a)
               /\ F!Reject(f, s, a) => FP!Reject(f, s, a)
    BY <2>5 DEF F!Accept, FP!Accept, F!Reject, FP!Reject
  <2>7. F!SelectStep(f) => FP!SelectStep(f)
    BY <2>3, <2>4, <2>5, <2>6 DEF F!SelectStep, FP!SelectStep
  <2>8. F!PublishStep(f) => FP!PublishStep(f)
    BY DEF F!PublishStep, FP!PublishStep, F!Decide, FP!Decide, F!Estimate, FP!Estimate,
           F!Recheck, FP!Recheck, F!UploadEstimate, FP!UploadEstimate, F!UploadWelford,
           FP!UploadWelford, F!UploadStats, FP!UploadStats, F!WriteCard, FP!WriteCard,
           F!MarkComplete, FP!MarkComplete, F!CommitSplit, FP!CommitSplit, F!ReusesStats,
           FP!ReusesStats, F!Advance, FP!Advance
  <2> QED
    BY <2>1, <2>2, <2>7, <2>8 DEF F!Step, FP!Step, FP!Next
<1>2. ASSUME NEW s \in Shards, NEW a \in F!Attempts, F!Reject(f, s, a)
      PROVE  /\ a \in Attempts
             /\ staged' = [staged EXCEPT ![a] = [staged[a] EXCEPT !.objects = @ \cup {"invalid"}]]
  BY <1>2 DEF F!Reject, F!Attempts, Attempts
<1>3. ASSUME \A s \in Shards, a \in F!Attempts : ~F!Reject(f, s, a)
      PROVE  UNCHANGED staged
  BY <1>3
  DEF F!Restart, F!Step, F!SelectStep, F!PublishStep, F!Start, F!SkipFinalized, F!List,
      F!ReadCard, F!Accept, F!NoneHealthy, F!Decide, F!CommitSplit, F!Estimate, F!Recheck,
      F!UploadEstimate, F!UploadWelford, F!UploadStats, F!WriteCard, F!MarkComplete
<1> QED
  BY <1>1, <1>2, <1>3

\* A step of the finalize job.
LEMMA LifeFinalize ==
  ASSUME LifeInv, NEW f \in Finalizers, Finalize(f), UNCHANGED <<job, local>>
  PROVE  LifeInv'
<1>0. /\ RenderInv /\ OwnSources /\ AllFree
      /\ FP!SteadyInv /\ stage = "finalize" /\ stage' = "finalize"
  BY DEF LifeInv, StageOK, Finalize
<1>1. /\ FP!Next
      /\ \/ UNCHANGED staged
         \/ \E a \in Attempts :
              staged' = [staged EXCEPT ![a] = [staged[a] EXCEPT !.objects = @ \cup {"invalid"}]]
  BY FinalizerEffect DEF Finalize
<1>2. FP!SteadyInv'
  <2>1. FP!Steady
    BY DEF FP!Steady
  <2> QED
    BY <1>0, <1>1, <2>1, FP!SteadyStep, LifecycleAssumption, NoShardAssumption,
       MaxAttemptsAssumption
<1>3. ASSUME NEW a \in Attempts
      PROVE  /\ staged'[a] \in Attempt
             /\ staged'[a].shard = staged[a].shard /\ staged'[a].data = staged[a].data
             /\ staged'[a].stats = staged[a].stats
             /\ staged'[a].objects \in {staged[a].objects, staged[a].objects \cup {"invalid"}}
  <2>1. staged \in [Attempts -> Attempt] /\ staged[a] \in Attempt
    BY LifeTypes
  <2>2. ASSUME NEW r \in Attempt
        PROVE  /\ [r EXCEPT !.objects = @ \cup {"invalid"}] \in Attempt
               /\ [r EXCEPT !.objects = @ \cup {"invalid"}].shard = r.shard
               /\ [r EXCEPT !.objects = @ \cup {"invalid"}].data = r.data
               /\ [r EXCEPT !.objects = @ \cup {"invalid"}].stats = r.stats
               /\ [r EXCEPT !.objects = @ \cup {"invalid"}].objects = r.objects \cup {"invalid"}
    BY DEF Attempt, Objects
  <2>3. staged'[a] \in {staged[a], [staged[a] EXCEPT !.objects = @ \cup {"invalid"}]}
    BY <1>1, <2>1
  <2> QED
    BY <2>1, <2>2, <2>3
<1>4. staged' \in [Attempts -> Attempt]
  BY <1>1, <1>3, LifeTypes
<1>5. AllFree'
  BY <1>0 DEF AllFree
<1>6. RenderInv'
  <2>1. RenderTypeOK'
    BY <1>0, <1>4 DEF RenderInv, RenderTypeOK
  <2>2. JobHasAttempt' /\ JobProgress' /\ SuccessIsStaged'
    BY <1>5
       DEF AllFree, JobHasAttempt, JobProgress, SuccessIsStaged, SlotHasAttempt, SlotProgress,
           SlotStaged, Succeeded
  <2>3. Ordered'
    BY <1>0, <1>3 DEF RenderInv, Ordered
  <2> QED
    BY <2>1, <2>2, <2>3 DEF RenderInv
<1>7. OwnInput' /\ OwnSources'
  BY <1>0, <1>3, <1>5 DEF AllFree, OwnInput, OwnSources
<1>8. StageOK'
  BY <1>0, <1>5 DEF StageOK
<1> QED
  BY <1>2, <1>6, <1>7, <1>8 DEF LifeInv

\* What the marker vouches for.
LEMMA LifeIsOneRender == LifeInv => PublishedIsOneRender
<1> SUFFICES ASSUME LifeInv, complete PROVE PublishedIsOneRender!2
  BY DEF PublishedIsOneRender
<1>1. FP!CompleteIsOneSelection /\ FP!RecordedHealthy
  BY DEF LifeInv, FP!SteadyInv
<1>2. F!CompleteIsOneSelection
  BY <1>1
     DEF FP!CompleteIsOneSelection, F!CompleteIsOneSelection, FP!OnTrain, F!OnTrain, FP!Train,
         F!Train, FP!NoAttempt, F!NoAttempt
<1>3. ASSUME NEW s \in Shards
      PROVE  /\ card[s] \in AttemptsOf(s) \ damaged
             /\ "fragment" \in staged[card[s]].objects
             /\ staged[card[s]].data = card[s] /\ staged[card[s]].stats = card[s]
  <2>1. card[s] \in FP!Healthy(s)
    BY <1>1 DEF FP!CompleteIsOneSelection, FP!RecordedHealthy
  <2>2. card[s] \in AttemptsOf(s) \ damaged /\ "valid" \in staged[card[s]].objects
    BY <2>1
    DEF FP!Healthy, FP!Evidence, FP!AttemptsOf, AttemptsOf, FP!Attempts, Attempts
  <2> QED
    BY <2>2 DEF AttemptsOf, LifeInv, RenderInv, Ordered, OwnSources
<1> QED
  BY <1>2, <1>3
=============================================================================

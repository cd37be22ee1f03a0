----------------------------- MODULE Jobs_proofs -----------------------------
(***************************************************************************)
(* Proofs about the jobs around a dataset, for any set of ranks, any       *)
(* number of probes, versions, launches and models: what a launch leaves   *)
(* running (SkypilotLaunch), what an audio probe logs (AudioProbe), what a *)
(* finished export points to (ExportSlap), what a model artifact says      *)
(* (ModelArtifact), where a training run goes on (CheckpointMirror), what  *)
(* a renderer process leaves (RenderBatches) and what a call of one        *)
(* returns (SubprocessStream).  The last section joins the invariants of   *)
(* all components, those of the other proof modules included.              *)
(***************************************************************************)
EXTENDS MCComponents, GrowingLance_proofs, Caches_proofs

-----------------------------------------------------------------------------
(***************************************************************************)
(* A launch: a request is served once, a thread returns what its job did,  *)
(* and only what has to be is cancelled.                                   *)
(***************************************************************************)

\* The service has a job exactly for the requests it has served, and a thread
\* that got an answer has such a job.
RequestOK(r) ==
  /\ asked[r] # "served" => managed[r] = "none"
  /\ rankThread[r] = "submit" => asked[r] = "no"
  /\ rankThread[r] \in {"tail", "ok", "bad"} => asked[r] = "served"

\* What a thread returned is true of its job, and is what is collected.
ResultOK(r) ==
  /\ rankThread[r] \in {"tail", "bad"} => launcher.tail
  /\ rankThread[r] = "ok" /\ launcher.tail => managed[r] = "succeeded"
  /\ rcs[r] # "unset" => rcs[r] = rankThread[r]

\* Nothing is cancelled before the end, and then what has to be.
CancelOK(r) ==
  /\ cancels[r] # "no" => /\ launcher.phase \in {"cancel", "ended"}
                          /\ launcher.tail \/ rcs[r] = "raised"
  /\ managed[r] = "cancelled" => cancels[r] = "done"
  /\ cancels[r] = "done" => managed[r] = "cancelled"
  /\ launcher.phase \in {"cancel", "ended"} =>
       /\ launcher.tail => cancels[r] # "no"
       /\ launcher.outcome # "interrupted" => rcs[r] # "unset"
       /\ launcher.outcome # "interrupted" /\ rcs[r] = "raised" => cancels[r] # "no"
       /\ launcher.outcome = "succeeded" => rcs[r] = "ok"
  /\ launcher.phase = "ended" => cancels[r] # "due"

LaunchInv ==
  /\ LaunchTypeOK
  /\ \A r \in LaunchRanks : RequestOK(r) /\ ResultOK(r) /\ CancelOK(r)

-----------------------------------------------------------------------------

LEMMA LaunchStarts == LaunchInit => LaunchInv
  BY DEF LaunchInit, LaunchInv, LaunchTypeOK, RequestOK, ResultOK, CancelOK

\* The steps that concern one rank leave the others' state alone.
LEMMA RankSteps ==
  ASSUME LaunchInv, NEW r \in LaunchRanks,
         \/ Serve(r) \/ JobEnds(r) \/ Submit(r) \/ Submitted(r) \/ ThreadRaises(r)
         \/ TailEnds(r) \/ Collect(r) \/ CancelJob(r)
  PROVE  LaunchInv'
<1> USE DEF LaunchInv, LaunchTypeOK, RequestOK, ResultOK, CancelOK
<1>1. CASE Serve(r)
  BY <1>1 DEF Serve
<1>2. CASE JobEnds(r)
  BY <1>2 DEF JobEnds
<1>3. CASE Submit(r)
  BY <1>3 DEF Submit, ThreadGoes
<1>4. CASE Submitted(r)
  BY <1>4 DEF Submitted, ThreadGoes
<1>5. CASE ThreadRaises(r)
  BY <1>5 DEF ThreadRaises, ThreadGoes
<1>6. CASE TailEnds(r)
  BY <1>6 DEF TailEnds, ThreadGoes
<1>7. CASE Collect(r)
  BY <1>7 DEF Collect, Ended
<1>8. CASE CancelJob(r)
  BY <1>8 DEF CancelJob
<1> QED
  BY <1>1, <1>2, <1>3, <1>4, <1>5, <1>6, <1>7, <1>8

LEMMA LauncherSteps ==
  ASSUME LaunchInv, InterruptLaunch \/ StartCancelling \/ EndLaunch
  PROVE  LaunchInv'
<1> USE DEF LaunchInv, LaunchTypeOK, RequestOK, ResultOK, CancelOK
<1>1. CASE InterruptLaunch
  BY <1>1 DEF InterruptLaunch
<1>2. CASE StartCancelling
  BY ZenonT(60), <1>2 DEF StartCancelling, ToCancel, Ended
<1>3. CASE EndLaunch
  BY <1>3 DEF EndLaunch
<1> QED
  BY <1>1, <1>2, <1>3

LEMMA LaunchStep == LaunchInv /\ [LaunchNext]_launchVars => LaunchInv'
<1>1. LaunchInv /\ UNCHANGED launchVars => LaunchInv'
  BY DEF launchVars, LaunchInv, LaunchTypeOK, RequestOK, ResultOK, CancelOK
<1> QED
  BY <1>1, RankSteps, LauncherSteps DEF LaunchNext

LEMMA LaunchInvariance == LaunchSpec => []LaunchInv
  BY LaunchStarts, LaunchStep, PTL DEF LaunchSpec

\* The state of a launch keeps its types, for any ranks.
THEOREM LaunchTypes == LaunchSpec => []LaunchTypeOK
<1>1. LaunchInv => LaunchTypeOK
  BY DEF LaunchInv
<1> QED
  BY <1>1, LaunchInvariance, PTL

\* Whatever requests and cancels fail, a launch reports success only for jobs
\* that succeeded or were taken, and leaves running only what it reported or
\* could not cancel.
THEOREM LaunchLeavesWhatItReports == LaunchSpec => []LeavesWhatItReports
<1>1. LaunchInv => LeavesWhatItReports
  <2> SUFFICES ASSUME LaunchInv, launcher.phase = "ended", NEW r \in LaunchRanks
               PROVE  /\ launcher.outcome = "succeeded" =>
                           IF launcher.tail THEN managed[r] = "succeeded" ELSE asked[r] = "served"
                      /\ managed[r] = "live" =>
                           \/ cancels[r] = "swallowed"
                           \/ ~launcher.tail /\ (launcher.outcome = "interrupted" \/ rcs[r] = "ok")
                      /\ managed[r] = "cancelled" => launcher.tail \/ rcs[r] = "raised"
    BY DEF LeavesWhatItReports
  <2>1. RequestOK(r) /\ ResultOK(r) /\ CancelOK(r)
    BY DEF LaunchInv
  <2>2. launcher.outcome = "succeeded" => rcs[r] = "ok" /\ rankThread[r] = "ok"
    BY <2>1 DEF ResultOK, CancelOK
  <2>3. launcher.outcome = "succeeded" =>
          IF launcher.tail THEN managed[r] = "succeeded" ELSE asked[r] = "served"
    BY <2>1, <2>2 DEF RequestOK, ResultOK
  <2>4. /\ cancels[r] \in {"no", "due", "done", "swallowed"}
        /\ rcs[r] \in {"unset", "ok", "bad", "raised"}
    BY DEF LaunchInv, LaunchTypeOK
  <2>5. /\ managed[r] = "live" => cancels[r] \in {"no", "swallowed"}
        /\ managed[r] = "cancelled" => launcher.tail \/ rcs[r] = "raised"
    BY <2>1, <2>4 DEF CancelOK
  <2>6. cancels[r] = "no" =>
          ~launcher.tail /\ (launcher.outcome = "interrupted" \/ rcs[r] \in {"ok", "bad"})
    BY <2>1, <2>4 DEF CancelOK
  <2>7. rcs[r] = "bad" => launcher.tail
    BY <2>1 DEF ResultOK
  <2> QED
    BY <2>3, <2>5, <2>6, <2>7
<1> QED
  BY <1>1, LaunchInvariance, PTL

-----------------------------------------------------------------------------
(***************************************************************************)
(* The audio probe: each stage works on the directory of the probe in      *)
(* flight, and no two probes share one.                                    *)
(***************************************************************************)

\* A staged probe is the last validation's, with its predictions in place.
StagedOK ==
  /\ hookPoint = "train" => stagedProbe = NoProbe
  /\ hookPoint = "validation" => stagedProbe # NoProbe
  /\ stagedProbe # NoProbe => /\ stagedProbe = validated
                              /\ probeDirs[stagedProbe] # NoProbe
                              /\ probeDirs[stagedProbe].preds = stagedProbe

\* The probe in flight is an earlier one, and has what its stages have left.
FlyingOK ==
  InFlight =>
    /\ flying.step <= validated /\ flying.step # stagedProbe
    /\ flying.at \in {"render", "score", "archive", "read"} =>
         Dir # NoProbe /\ Dir.preds = flying.step
    /\ flying.at \in {"score", "archive", "read"} => Dir.audio = flying.step
    /\ flying.at \in {"archive", "read"} => Dir.scores = flying.step
    /\ flying.at = "done" => flying.metrics = flying.step

\* What is logged came before the probe staged and the one in flight.
LogOK ==
  \A i \in 1 .. Len(probeLog) :
    /\ probeLog[i].of = probeLog[i].step
    /\ probeLog[i].step <= validated
    /\ stagedProbe # NoProbe => probeLog[i].step < stagedProbe
    /\ InFlight => probeLog[i].step < flying.step
    /\ i > 1 => probeLog[i - 1].step < probeLog[i].step

ArchiveOK ==
  \A s \in ValSteps : archived[s] # NoProbe =>
    archived[s].audio = s /\ archived[s].scores \in {s, NoProbe}

DirsOK ==
  \A s \in ValSteps : probeDirs[s] # NoProbe =>
    s \in keptDirs \cup {stagedProbe} \/ (InFlight /\ flying.step = s)

ProbeInv == ProbeTypeOK /\ StagedOK /\ FlyingOK /\ LogOK /\ ArchiveOK /\ DirsOK

LEMMA ProbeStarts == ProbeInit => ProbeInv
  BY ProbeAssumption, NoProbeAssumption
     DEF ProbeInit, ProbeInv, ProbeTypeOK, StagedOK, FlyingOK, LogOK, ArchiveOK, DirsOK, InFlight,
         Part, ValSteps

LEMMA StageKeeps == ProbeInv /\ StageProbe => ProbeInv'
<1> SUFFICES ASSUME ProbeInv, StageProbe PROVE ProbeInv'
  OBVIOUS
<1> USE ProbeAssumption, NoProbeAssumption DEF ProbeInv, StageProbe
<1>1. ProbeTypeOK'
  BY DEF ProbeTypeOK, ValSteps, Part, ProbeDir
<1>2. validated + 1 \in ValSteps /\ NoProbe # validated + 1
  BY DEF ProbeTypeOK, ValSteps
<1>2a. /\ validated' = validated + 1 /\ stagedProbe' = validated + 1
       /\ stagedProbe = NoProbe /\ hookPoint' = "validation"
       /\ flying' = flying /\ probeLog' = probeLog /\ archived' = archived /\ keptDirs' = keptDirs
  BY DEF StagedOK
<1>2b. /\ \A s \in ValSteps : s # validated + 1 => (probeDirs')[s] = probeDirs[s]
       /\ (probeDirs')[validated + 1] = [preds |-> validated + 1, audio |-> NoProbe, scores |-> NoProbe]
  BY <1>2, <1>2a DEF ProbeTypeOK
<1>2c. (probeDirs')[validated + 1] # NoProbe /\ (probeDirs')[validated + 1].preds = validated + 1
  BY <1>2, <1>2b DEF ProbeDir, Part
<1>2d. validated \in Nat
  BY DEF ProbeTypeOK
<1> HIDE DEF StageProbe
<1>3. StagedOK'
  BY <1>2, <1>2a, <1>2c DEF StagedOK
<1>4. FlyingOK'
  BY <1>2, <1>2a, <1>2b DEF ProbeTypeOK, FlyingOK, InFlight, Dir, Flight, ValSteps
<1>5. LogOK'
  <2>1. probeLog \in Seq([step : ValSteps, of : ValSteps])
    BY DEF ProbeTypeOK
  <2>2. \A i \in 1 .. Len(probeLog) : probeLog[i].step \in Nat
    <3> DEFINE Entry == [step : ValSteps, of : ValSteps]
    <3>1. probeLog \in Seq(Entry)
      BY <2>1
    <3> HIDE DEF Entry
    <3>2. \A i \in 1 .. Len(probeLog) : probeLog[i] \in Entry
      BY <3>1
    <3> QED
      BY <3>2 DEF Entry, ValSteps
  <2> QED
    BY <2>2, <1>2a, <1>2d DEF LogOK, InFlight
<1>6. ArchiveOK' /\ DirsOK'
  BY <1>2a, <1>2b DEF ArchiveOK, DirsOK, InFlight, ValSteps
<1> QED
  BY <1>1, <1>3, <1>4, <1>5, <1>6

LEMMA EndKeeps == ProbeInv /\ EndValidation => ProbeInv'
<1> SUFFICES ASSUME ProbeInv, EndValidation PROVE ProbeInv'
  OBVIOUS
<1> USE ProbeAssumption, NoProbeAssumption DEF ProbeInv, EndValidation
<1>0. stagedProbe \in ValSteps /\ stagedProbe # NoProbe /\ validated \in Nat
  BY DEF StagedOK, ProbeTypeOK, Part
<1>a. InFlight => flying \in Flight /\ flying.step \in ValSteps /\ flying.step < stagedProbe
  BY <1>0 DEF StagedOK, FlyingOK, ProbeTypeOK, InFlight, Flight, ValSteps
<1>b. \A s \in ValSteps : (probeDirs')[s] = IF s \in Harvested \cup Discarded THEN NoProbe ELSE probeDirs[s]
  OBVIOUS
<1>1. ProbeTypeOK'
  <2>1. flying' \in Flight \cup {NoProbe}
    BY <1>0 DEF ProbeTypeOK, Flight, Part
  <2>2. probeLog' \in Seq([step : ValSteps, of : ValSteps])
    <3>1. CASE ThreadOver /\ flying.at = "done"
      <4>1. flying.step \in ValSteps /\ flying.metrics = flying.step
        BY <3>1, <1>a DEF ThreadOver, FlyingOK
      <4>2. probeLog' = Append(probeLog, [step |-> flying.step, of |-> flying.metrics])
        BY <3>1
      <4>3. probeLog \in Seq([step : ValSteps, of : ValSteps])
        BY DEF ProbeTypeOK
      <4> HIDE DEF EndValidation, ProbeInv
      <4> QED
        BY <4>1, <4>2, <4>3
    <3> QED
      BY <3>1 DEF ProbeTypeOK
  <2>3. keptDirs' \subseteq ValSteps
    BY <1>a DEF ProbeTypeOK, ThreadOver
  <2> QED
    BY <2>1, <2>2, <2>3 DEF ProbeTypeOK, Part
<1>2. CASE InFlight /\ ~ThreadOver
  <2>1. flying' = flying /\ probeLog' = probeLog /\ keptDirs' = keptDirs /\ stagedProbe' = NoProbe
    BY <1>2
  <2>2. \A s \in ValSteps : (probeDirs')[s] = IF s = stagedProbe THEN NoProbe ELSE probeDirs[s]
    BY <1>2 DEF Harvested, Discarded
  <2>3. StagedOK' /\ ArchiveOK'
    BY <2>1 DEF StagedOK, ArchiveOK
  <2>4. FlyingOK'
    BY <1>2, <1>a, <1>0, <2>1, <2>2 DEF FlyingOK, InFlight, Dir, ValSteps
  <2>5. LogOK'
    BY <2>1, <1>2 DEF LogOK, InFlight
  <2>6. DirsOK'
    BY <2>1, <2>2 DEF DirsOK, InFlight
  <2> QED
    BY <1>1, <2>3, <2>4, <2>5, <2>6
<1>3. CASE ~InFlight \/ ThreadOver
  <2>1. flying' = [step |-> stagedProbe, at |-> "render", metrics |-> NoProbe] /\ stagedProbe' = NoProbe
    BY <1>3
  <2>1a. flying' # NoProbe
    BY <2>1, <1>0 DEF Flight, Part
  <2>2. \A s \in ValSteps : (probeDirs')[s] = IF s \in Harvested THEN NoProbe ELSE probeDirs[s]
    BY <1>3 DEF Discarded
  <2>2a. stagedProbe \notin Harvested
    BY <1>a, <1>0 DEF Harvested, ThreadOver, ValSteps
  <2>3. StagedOK' /\ ArchiveOK'
    BY <2>1 DEF StagedOK, ArchiveOK
  <2>4. FlyingOK'
    BY <2>1, <2>2, <2>2a, <1>0 DEF FlyingOK, StagedOK, InFlight, Dir, ValSteps
  <2>5. LogOK'
    <3>1. CASE probeLog' = probeLog
      BY <3>1, <1>0, <2>1, <2>1a DEF LogOK, InFlight
    <3>2. CASE ThreadOver /\ flying.at = "done"
      <4>1. probeLog' = Append(probeLog, [step |-> flying.step, of |-> flying.step])
        BY <3>2 DEF FlyingOK, ThreadOver
      <4>2. flying.step \in ValSteps /\ flying.step <= validated /\ flying.step < stagedProbe
        BY <3>2, <1>a DEF FlyingOK, ThreadOver
      <4>3. probeLog \in Seq([step : ValSteps, of : ValSteps])
        BY DEF ProbeTypeOK
      <4>4. /\ Len(probeLog') = Len(probeLog) + 1
            /\ \A i \in 1 .. Len(probeLog) : (probeLog')[i] = probeLog[i]
            /\ (probeLog')[Len(probeLog) + 1] = [step |-> flying.step, of |-> flying.step]
        BY <4>1, <4>3
      <4>5. ASSUME NEW i \in 1 .. Len(probeLog)
            PROVE  /\ probeLog[i].of = probeLog[i].step /\ probeLog[i].step <= validated
                   /\ probeLog[i].step < stagedProbe /\ probeLog[i].step < flying.step
                   /\ i > 1 => probeLog[i - 1].step < probeLog[i].step
        BY <3>2, <1>0 DEF LogOK, ThreadOver
      <4>6. Len(probeLog) \in Nat
        BY <4>3
      <4> HIDE DEF EndValidation, ProbeInv
      <4>7. ASSUME NEW i \in 1 .. Len(probeLog')
            PROVE  /\ (probeLog')[i].of = (probeLog')[i].step
                   /\ (probeLog')[i].step <= validated
                   /\ (probeLog')[i].step < stagedProbe
                   /\ i > 1 => (probeLog')[i - 1].step < (probeLog')[i].step
        BY <4>2, <4>4, <4>5, <4>6, <1>0
      <4> QED
        BY <4>7, <2>1 DEF LogOK, InFlight, EndValidation
    <3> QED
      BY <3>1, <3>2
  <2>6. DirsOK'
    BY <2>1, <2>1a, <2>2 DEF DirsOK, InFlight, Harvested, ThreadOver, ProbeTypeOK, Flight
  <2> QED
    BY <1>1, <2>3, <2>4, <2>5, <2>6
<1> QED
  BY <1>2, <1>3

LEMMA ThreadKeeps ==
  ASSUME ProbeInv, RenderProbe \/ ScoreProbe \/ ArchiveProbe \/ ReadScores \/ ProbeFails
  PROVE  ProbeInv'
<1> USE ProbeAssumption, NoProbeAssumption DEF ProbeInv
<1>0. /\ flying \in Flight /\ flying.step \in ValSteps /\ InFlight
      /\ flying.at \in {"render", "score", "archive", "read"}
  BY DEF ProbeTypeOK, AtStage, InFlight, ThreadOver, RenderProbe, ScoreProbe, ArchiveProbe,
         ReadScores, ProbeFails, Flight
<1>1. Dir \in ProbeDir /\ Dir.preds = flying.step
  BY <1>0 DEF FlyingOK, ProbeTypeOK, Dir
<1>2. flying' \in Flight /\ flying'.step = flying.step
  BY <1>0, <1>1 DEF RenderProbe, ScoreProbe, ArchiveProbe, ReadScores, ProbeFails, Flight, ProbeDir
<1>3. UNCHANGED <<validated, hookPoint, stagedProbe, probeLog, keptDirs>>
  BY DEF RenderProbe, ScoreProbe, ArchiveProbe, ReadScores, ProbeFails, ThreadOnly
<1>4. LogOK' /\ InFlight'
  BY <1>0, <1>2, <1>3 DEF LogOK, InFlight
<1>5. ASSUME probeDirs' \in [ValSteps -> ProbeDir \cup {NoProbe}],
             \A s \in ValSteps : s # flying.step => (probeDirs')[s] = probeDirs[s],
             (probeDirs')[flying.step] \in ProbeDir,
             (probeDirs')[flying.step].preds = flying.step
      PROVE  StagedOK' /\ DirsOK'
  <2>1. StagedOK'
    BY <1>3, <1>5, <1>0 DEF StagedOK, FlyingOK, ProbeTypeOK, Part
  <2>2. DirsOK'
    BY <1>2, <1>3, <1>4, <1>5, <1>0 DEF DirsOK
  <2> QED
    BY <2>1, <2>2
<1>6. ASSUME archived' \in [ValSteps -> Snapshot \cup {NoProbe}],
             probeDirs' \in [ValSteps -> ProbeDir \cup {NoProbe}]
      PROVE  ProbeTypeOK'
  BY <1>6, <1>2, <1>3 DEF ProbeTypeOK
<1>7. CASE RenderProbe
  <2>1. /\ (probeDirs')[flying.step] = [Dir EXCEPT !.audio = flying.step]
        /\ \A s \in ValSteps : s # flying.step => (probeDirs')[s] = probeDirs[s]
        /\ probeDirs' \in [ValSteps -> ProbeDir \cup {NoProbe}]
    BY <1>0, <1>1, <1>7 DEF RenderProbe, ProbeTypeOK, Dir, ProbeDir, Part
  <2>2. /\ (probeDirs')[flying.step] \in ProbeDir
        /\ (probeDirs')[flying.step].preds = flying.step
        /\ (probeDirs')[flying.step].audio = flying.step
    BY <2>1, <1>0, <1>1 DEF ProbeDir, Part
  <2>3. flying' = [flying EXCEPT !.at = "score"] /\ archived' = archived
    BY <1>7 DEF RenderProbe
  <2>3a. flying'.at = "score"
    BY <2>3, <1>0 DEF Flight
  <2>4. FlyingOK'
    BY <2>2, <2>3a, <1>2, <1>3, <1>0 DEF FlyingOK, Dir
  <2> QED
    BY <2>1, <2>2, <2>3, <2>4, <1>4, <1>5, <1>6 DEF ArchiveOK, ProbeTypeOK
<1>8. CASE ScoreProbe
  <2>1. /\ (probeDirs')[flying.step] = [Dir EXCEPT !.scores = flying.step]
        /\ \A s \in ValSteps : s # flying.step => (probeDirs')[s] = probeDirs[s]
        /\ probeDirs' \in [ValSteps -> ProbeDir \cup {NoProbe}]
    BY <1>0, <1>1, <1>8 DEF ScoreProbe, ProbeTypeOK, Dir, ProbeDir, Part, FlyingOK, AtStage
  <2>2. /\ (probeDirs')[flying.step] \in ProbeDir
        /\ (probeDirs')[flying.step].preds = flying.step
        /\ (probeDirs')[flying.step].audio = flying.step
        /\ (probeDirs')[flying.step].scores = flying.step
    BY <2>1, <1>0, <1>1, <1>8 DEF ProbeDir, Part, FlyingOK, AtStage, ScoreProbe
  <2>3. flying' = [flying EXCEPT !.at = "archive"] /\ archived' = archived
    BY <1>8 DEF ScoreProbe
  <2>3a. flying'.at = "archive"
    BY <2>3, <1>0 DEF Flight
  <2>4. FlyingOK'
    BY <2>2, <2>3a, <1>2, <1>3, <1>0 DEF FlyingOK, Dir
  <2> QED
    BY <2>1, <2>2, <2>3, <2>4, <1>4, <1>5, <1>6 DEF ArchiveOK, ProbeTypeOK
<1>9. CASE ArchiveProbe \/ ReadScores \/ ProbeFails
  <2>1. probeDirs' = probeDirs
    BY <1>9 DEF ArchiveProbe, ReadScores, ProbeFails
  <2>2. StagedOK' /\ DirsOK'
    BY <2>1, <1>5, <1>0, <1>1 DEF Dir, ProbeTypeOK
  <2>3. archived' \in [ValSteps -> Snapshot \cup {NoProbe}] /\ ArchiveOK'
    <3>1. CASE archived' = archived
      BY <3>1 DEF ArchiveOK, ProbeTypeOK
    <3>2. CASE ArchiveProbe /\ archived' # archived
      <4>1. Dir.audio = flying.step /\ Dir.scores = flying.step
        BY <3>2, <1>0 DEF ArchiveProbe, AtStage, FlyingOK
      <4>2. PICK x \in {flying.step, NoProbe} :
              archived' = [archived EXCEPT ![flying.step] = [audio |-> flying.step, scores |-> x]]
        BY <3>2, <4>1 DEF ArchiveProbe
      <4> QED
        BY <4>2, <1>0 DEF ArchiveOK, ProbeTypeOK, Snapshot, Part
    <3> QED
      BY <3>1, <3>2, <1>9 DEF ReadScores, ProbeFails
  <2>4. FlyingOK'
    <3>1. flying'.at \in {"read", "done", "failed"}
      BY <1>9, <1>0 DEF ArchiveProbe, ReadScores, ProbeFails, Flight
    <3>2. flying'.at = "read" => flying.at = "archive"
      BY <1>9, <1>0 DEF ArchiveProbe, ReadScores, ProbeFails, Flight, AtStage
    <3>3. flying'.at = "done" => flying'.metrics = flying.step
      BY <1>9, <1>0 DEF ArchiveProbe, ReadScores, ProbeFails, Flight, AtStage, FlyingOK
    <3> QED
      BY <3>1, <3>2, <3>3, <2>1, <1>0, <1>1, <1>2, <1>3 DEF FlyingOK, Dir
  <2> QED
    BY <2>1, <2>2, <2>3, <2>4, <1>4, <1>6 DEF ProbeTypeOK
<1> QED
  BY <1>7, <1>8, <1>9

LEMMA ProbeStep == ProbeInv /\ [ProbeNext]_probeVars => ProbeInv'
<1> SUFFICES ASSUME ProbeInv, [ProbeNext]_probeVars PROVE ProbeInv'
  OBVIOUS
<1>1. CASE TeardownProbe
  BY <1>1 DEF TeardownProbe, ProbeInv, ProbeTypeOK, StagedOK, FlyingOK, LogOK, ArchiveOK, DirsOK,
              InFlight, Dir
<1>2. CASE UNCHANGED probeVars
  BY <1>2 DEF probeVars, ProbeInv, ProbeTypeOK, StagedOK, FlyingOK, LogOK, ArchiveOK, DirsOK,
              InFlight, Dir
<1> QED
  BY <1>1, <1>2, StageKeeps, EndKeeps, ThreadKeeps DEF ProbeNext

\* However the thread and the validations interleave, a probe's metrics and
\* snapshots are of its own step, logged once and in order, and no directory
\* is left behind unnoticed; for any number of validations.
THEOREM ProbesAreApart == ProbeSpec => []ProbesKeepApart
<1>1. ProbeInv => ProbesKeepApart
  BY DEF ProbeInv, ProbesKeepApart, ProbeTypeOK, FlyingOK, LogOK, ArchiveOK, DirsOK, Flight,
         ThreadOver, InFlight
<1> QED
  BY <1>1, ProbeStarts, ProbeStep, PTL DEF ProbeSpec

-----------------------------------------------------------------------------
(***************************************************************************)
(* The export: the versions of an output are of one request and one input, *)
(* and only an indexed one is completed.                                   *)
(***************************************************************************)

\* One sequence of versions extends another.
Longer(s, t) == Len(s) <= Len(t) /\ \A a \in 1 .. Len(s) : t[a] = s[a]

\* Rows are read from a version with row UUIDs, the requested one or the next.
RowsOK(src, input, request) ==
  input \in 1 .. Len(src) /\ src[input].uuids # 0 /\ input \in {request, request + 1}

\* The versions of an output are of one request and one input, and complete
\* only with the index, which stays.
VersionsOK(src, s) ==
  \A a \in 1 .. Len(s) :
    /\ RowsOK(src, s[a].input, s[a].request)
    /\ s[a].completed => s[a].index
    /\ \A b \in 1 .. Len(s) : s[b].request = s[a].request /\ s[b].input = s[a].input
    /\ \A b \in a .. Len(s) : s[a].index => s[b].index

CompleteAt(s, a, version) == s[a].completed /\ s[a].index /\ s[a].version = version

\* What an exporter works from, by its step.
WorkOK(src, s, me) ==
  /\ me.request \in 1 .. Len(src)
  /\ me.step = "write" => RowsOK(src, me.input, me.request)
  /\ me.step \in {"index", "reopen", "complete", "verify", "point"} =>
       me.head \in 1 .. Len(s) /\ s[me.head].input = me.input
  /\ me.step = "reopen" => \E a \in me.head .. Len(s) : s[a].index
  /\ me.step = "complete" => s[me.head].index
  /\ me.step = "verify" => \E a \in me.head .. Len(s) : CompleteAt(s, a, me.head)
  /\ me.step = "point" => CompleteAt(s, me.head, me.head)

ExporterOK(src, outs, me) ==
  me.step # "idle" => me.output \in Outputs /\ WorkOK(src, outs[me.output], me)

PointerOK(src, outs, p) ==
  /\ p.version \in 1 .. Len(outs[p.output])
  /\ CompleteAt(outs[p.output], p.version, p.version)
  /\ outs[p.output][p.version].input = p.input
  /\ RowsOK(src, p.input, outs[p.output][p.version].request)

PointersOK(src, outs) ==
  \A v \in 1 .. Len(src) :
    src[v].pointer # NoPointer =>
      src[v].pointer.output \in Outputs /\ PointerOK(src, outs, src[v].pointer)

ExportInv ==
  /\ ExportTypeOK
  /\ \A o \in Outputs : VersionsOK(source, outputs[o])
  /\ \A e \in Exporters : ExporterOK(source, outputs, exporter[e])
  /\ PointersOK(source, outputs)

LEMMA ExportStarts == ExportInit => ExportInv
<1> SUFFICES ASSUME ExportInit PROVE ExportInv
  OBVIOUS
<1>1. [uuids |-> 0, pointer |-> NoPointer] \in SourceVersion
  BY ExportAssumption DEF SourceVersion
<1>2. source \in Seq(SourceVersion) /\ Len(source) = 1 /\ source[1].pointer = NoPointer
  BY <1>1 DEF ExportInit
<1>3. outputs \in [Outputs -> Seq(OutputVersion)] /\ \A o \in Outputs : outputs[o] = <<>>
  BY DEF ExportInit
<1>4. IdleExporter \in Exporter /\ IdleExporter.step = "idle"
  BY ExportAssumption DEF IdleExporter, Exporter
<1>5. ExportTypeOK
  BY <1>2, <1>3, <1>4, ExportAssumption DEF ExportInit, ExportTypeOK
<1>6. \A o \in Outputs : VersionsOK(source, outputs[o])
  BY <1>3 DEF VersionsOK
<1>7. \A e \in Exporters : ExporterOK(source, outputs, exporter[e])
  BY <1>4 DEF ExportInit, ExporterOK
<1> QED
  BY <1>2, <1>5, <1>6, <1>7 DEF ExportInv, PointersOK

\* What was so stays so as versions are added.
LEMMA WorkStays ==
  ASSUME NEW src \in Seq(SourceVersion), NEW src2 \in Seq(SourceVersion), Longer(src, src2),
         NEW s \in Seq(OutputVersion), NEW s2 \in Seq(OutputVersion), Longer(s, s2),
         NEW me \in Exporter, WorkOK(src, s, me)
  PROVE  WorkOK(src2, s2, me)
<1>1. /\ me.request \in 1 .. Len(src2)
      /\ me.step = "write" => RowsOK(src2, me.input, me.request)
  BY DEF WorkOK, Longer, RowsOK
<1>2. /\ me.step \in {"index", "reopen", "complete", "verify", "point"} =>
           me.head \in 1 .. Len(s2) /\ s2[me.head].input = me.input
      /\ me.step = "complete" => s2[me.head].index
      /\ me.step = "point" => CompleteAt(s2, me.head, me.head)
  BY DEF WorkOK, Longer, CompleteAt
<1>3. ASSUME me.step = "verify" PROVE \E a \in me.head .. Len(s2) : CompleteAt(s2, a, me.head)
  <2>1. PICK a \in me.head .. Len(s) : CompleteAt(s, a, me.head)
    BY <1>3 DEF WorkOK
  <2>2. me.head \in 1 .. Len(s)
    BY <1>3 DEF WorkOK
  <2>3. a \in me.head .. Len(s2) /\ s2[a] = s[a]
    BY <2>1, <2>2 DEF Longer
  <2> QED
    BY <2>1, <2>3 DEF CompleteAt
<1>4. ASSUME me.step = "reopen" PROVE \E a \in me.head .. Len(s2) : s2[a].index
  <2>1. PICK a \in me.head .. Len(s) : s[a].index
    BY <1>4 DEF WorkOK
  <2>2. me.head \in 1 .. Len(s)
    BY <1>4 DEF WorkOK
  <2>3. a \in me.head .. Len(s2) /\ s2[a] = s[a]
    BY <2>1, <2>2 DEF Longer
  <2> QED
    BY <2>1, <2>3
<1> QED
  BY <1>1, <1>2, <1>3, <1>4 DEF WorkOK

LEMMA PointerStays ==
  ASSUME NEW src, NEW src2, Len(src) \in Nat, Len(src2) \in Nat, Longer(src, src2),
         NEW outs, NEW outs2, NEW p,
         Len(outs[p.output]) \in Nat, Len(outs2[p.output]) \in Nat,
         Longer(outs[p.output], outs2[p.output]), PointerOK(src, outs, p)
  PROVE  PointerOK(src2, outs2, p)
<1>1. p.version \in 1 .. Len(outs2[p.output]) /\ outs2[p.output][p.version] = outs[p.output][p.version]
  BY DEF Longer, PointerOK
<1>2. RowsOK(src2, p.input, outs[p.output][p.version].request)
  BY DEF Longer, PointerOK, RowsOK
<1> QED
  BY <1>1, <1>2 DEF PointerOK, CompleteAt

LEMMA PointersStay ==
  ASSUME NEW src \in Seq(SourceVersion), NEW src2 \in Seq(SourceVersion), Longer(src, src2),
         NEW outs \in [Outputs -> Seq(OutputVersion)], NEW outs2 \in [Outputs -> Seq(OutputVersion)],
         \A o \in Outputs : Longer(outs[o], outs2[o]),
         PointersOK(src, outs),
         \A v \in Len(src) + 1 .. Len(src2) :
           \/ \E u \in 1 .. Len(src) : src2[v].pointer = src[u].pointer
           \/ src2[v].pointer.output \in Outputs /\ PointerOK(src2, outs2, src2[v].pointer)
  PROVE  PointersOK(src2, outs2)
<1> SUFFICES ASSUME NEW v \in 1 .. Len(src2), src2[v].pointer # NoPointer
             PROVE  src2[v].pointer.output \in Outputs /\ PointerOK(src2, outs2, src2[v].pointer)
  BY DEF PointersOK
<1>1. ASSUME NEW u \in 1 .. Len(src), src2[v].pointer = src[u].pointer
      PROVE  src2[v].pointer.output \in Outputs /\ PointerOK(src2, outs2, src2[v].pointer)
  <2>1. src[u].pointer.output \in Outputs /\ PointerOK(src, outs, src[u].pointer)
    BY <1>1 DEF PointersOK
  <2> DEFINE p == src[u].pointer
  <2>2. /\ Len(outs[p.output]) \in Nat /\ Len(outs2[p.output]) \in Nat
        /\ Longer(outs[p.output], outs2[p.output])
    BY <2>1
  <2>3. Len(src) \in Nat /\ Len(src2) \in Nat
    OBVIOUS
  <2> HIDE DEF p
  <2>4. PointerOK(src2, outs2, p)
    BY <2>1, <2>2, <2>3, PointerStays DEF p
  <2> QED
    BY <1>1, <2>1, <2>4 DEF p
<1>2. CASE v \in 1 .. Len(src)
  BY <1>1, <1>2 DEF Longer
<1>3. CASE v \in Len(src) + 1 .. Len(src2)
  BY <1>1, <1>3
<1> QED
  BY <1>2, <1>3

LEMMA VersionsStay ==
  ASSUME NEW src, NEW src2, Len(src) \in Nat, Len(src2) \in Nat, Longer(src, src2),
         NEW s, Len(s) \in Nat, VersionsOK(src, s)
  PROVE  VersionsOK(src2, s)
  BY DEF VersionsOK, RowsOK, Longer

LEMMA Grows ==
  ASSUME NEW S, NEW s \in Seq(S), NEW x \in S
  PROVE  /\ Append(s, x) \in Seq(S) /\ Len(Append(s, x)) = Len(s) + 1
         /\ Append(s, x)[Len(s) + 1] = x /\ Longer(s, Append(s, x)) /\ Longer(s, s)
         /\ Len(s) \in Nat /\ \A a \in 1 .. Len(s) : s[a] \in S
  BY DEF Longer

\* A step of one exporter at most, which adds versions or none.
LEMMA OneMoves ==
  ASSUME ExportInv, NEW e \in Exporters, NEW me \in Exporter,
         exporter' = [exporter EXCEPT ![e] = me],
         NEW src, NEW outs, ExporterOK(src, outs, me)
  PROVE  /\ exporter' \in [Exporters -> Exporter]
         /\ \A f \in Exporters : exporter'[f] = exporter[f] \/ ExporterOK(src, outs, exporter'[f])
<1>1. exporter \in [Exporters -> Exporter]
  BY DEF ExportInv, ExportTypeOK
<1>2. \A f \in Exporters : exporter'[f] = IF f = e THEN me ELSE exporter[f]
  BY <1>1
<1>3. exporter' \in [Exporters -> Exporter]
  BY <1>1
<1> QED
  BY <1>2, <1>3

LEMMA ExporterKeeps ==
  ASSUME ExportInv, exporter' \in [Exporters -> Exporter],
         \A f \in Exporters :
           exporter'[f] = exporter[f] \/ ExporterOK(source', outputs', exporter'[f]),
         source' \in Seq(SourceVersion), Len(source') <= MaxSource, Longer(source, source'),
         outputs' \in [Outputs -> Seq(OutputVersion)],
         \A o \in Outputs : /\ Len(outputs'[o]) <= MaxOutput /\ Longer(outputs[o], outputs'[o])
                            /\ VersionsOK(source', outputs'[o]),
         PointersOK(source', outputs')
  PROVE  ExportInv'
<1>2. Len(source') \in 1 .. MaxSource
  BY DEF ExportInv, ExportTypeOK, Longer
<1>3. ExportTypeOK'
  BY <1>2 DEF ExportInv, ExportTypeOK
<1>4. ASSUME NEW f \in Exporters PROVE ExporterOK(source', outputs', exporter'[f])
  <2>1. CASE exporter'[f] = exporter[f] /\ exporter[f].step # "idle"
    <3>1. /\ exporter'[f] = exporter[f] /\ exporter[f] \in Exporter
          /\ exporter[f].output \in Outputs
          /\ WorkOK(source, outputs[exporter[f].output], exporter[f])
      BY <2>1 DEF ExportInv, ExportTypeOK, ExporterOK
    <3>2. WorkOK(source', outputs'[exporter[f].output], exporter[f])
      BY <3>1, WorkStays DEF ExportInv, ExportTypeOK
    <3> QED
      BY <3>1, <3>2 DEF ExporterOK
  <2> QED
    BY <2>1 DEF ExporterOK
<1>5. (\A f \in Exporters : ExporterOK(source, outputs, exporter[f]))'
  BY <1>4 DEF ExporterOK, WorkOK, RowsOK, CompleteAt
<1>6. (\A o \in Outputs : VersionsOK(source, outputs[o]))'
  BY SMTT(30) DEF VersionsOK, RowsOK
<1>7. PointersOK(source, outputs)'
  BY DEF PointersOK, PointerOK, RowsOK, CompleteAt
<1> QED
  BY <1>3, <1>5, <1>6, <1>7 DEF ExportInv

\* A step that adds no version.
LEMMA OpensOnly ==
  ASSUME ExportInv, NEW e \in Exporters, NEW me \in Exporter,
         exporter' = [exporter EXCEPT ![e] = me], UNCHANGED <<source, outputs>>,
         ExporterOK(source, outputs, me)
  PROVE  ExportInv'
<1>1. /\ source \in Seq(SourceVersion) /\ Len(source) <= MaxSource
      /\ outputs \in [Outputs -> Seq(OutputVersion)]
      /\ Longer(source, source)
      /\ \A o \in Outputs : Len(outputs[o]) <= MaxOutput /\ Longer(outputs[o], outputs[o])
                            /\ VersionsOK(source, outputs[o])
      /\ PointersOK(source, outputs)
  BY DEF ExportInv, ExportTypeOK, Longer
<1>2. /\ exporter' \in [Exporters -> Exporter]
      /\ \A f \in Exporters : exporter'[f] = exporter[f] \/ ExporterOK(source', outputs', exporter'[f])
  BY OneMoves
<1> QED
  BY <1>1, <1>2, ExporterKeeps

\* A step that adds a version to the source.
LEMMA SourceKeeps ==
  ASSUME ExportInv, exporter' \in [Exporters -> Exporter], UNCHANGED outputs,
         \A f \in Exporters :
           exporter'[f] = exporter[f] \/ ExporterOK(source', outputs, exporter'[f]),
         NEW version \in SourceVersion, CommitSource(version),
         \/ version.pointer = Newest(source).pointer
         \/ version.pointer.output \in Outputs /\ PointerOK(source', outputs, version.pointer)
  PROVE  ExportInv'
<1>1. /\ source \in Seq(SourceVersion) /\ Len(source) \in 1 .. MaxSource
      /\ outputs \in [Outputs -> Seq(OutputVersion)]
      /\ \A o \in Outputs : Len(outputs[o]) <= MaxOutput /\ VersionsOK(source, outputs[o])
      /\ PointersOK(source, outputs)
  BY DEF ExportInv, ExportTypeOK
<1>2. Len(source) < MaxSource /\ source' = Append(source, version)
  BY DEF CommitSource
<1>3. /\ source' \in Seq(SourceVersion) /\ Len(source') = Len(source) + 1
      /\ source'[Len(source) + 1] = version /\ Longer(source, source')
  BY <1>1, <1>2, Grows
<1>4. \A o \in Outputs : Longer(outputs[o], outputs[o]) /\ VersionsOK(source', outputs[o])
  <2>1. \A o \in Outputs : outputs[o] \in Seq(OutputVersion) /\ Len(outputs[o]) \in Nat
    BY <1>1
  <2>2. \A o \in Outputs : Longer(outputs[o], outputs[o])
    BY <2>1 DEF Longer
  <2>3. Len(source) \in Nat /\ Len(source') \in Nat
    BY <1>1, <1>3
  <2> QED
    BY <1>1, <1>3, <2>1, <2>2, <2>3, VersionsStay
<1>5. PointersOK(source', outputs)
  <2>1. \A v \in Len(source) + 1 .. Len(source') :
           \/ \E u \in 1 .. Len(source) : source'[v].pointer = source[u].pointer
           \/ source'[v].pointer.output \in Outputs /\ PointerOK(source', outputs, source'[v].pointer)
    <3>1. \A v \in Len(source) + 1 .. Len(source') : source'[v] = version
      BY <1>1, <1>3
    <3>2. Len(source) \in 1 .. Len(source)
      BY <1>1
    <3> QED
      BY <3>1, <3>2 DEF Newest
  <2> QED
    BY <1>1, <1>3, <1>4, <2>1, PointersStay
<1> QED
  <2>1. Len(source') <= MaxSource
    BY <1>1, <1>2, <1>3, ExportAssumption
  <2> QED
    BY <1>1, <1>3, <1>4, <1>5, <2>1, ExporterKeeps

\* A step that adds a version to an output.
LEMMA OutputKeeps ==
  ASSUME ExportInv, NEW e \in Exporters, NEW me \in Exporter,
         exporter' = [exporter EXCEPT ![e] = me], UNCHANGED source,
         NEW o \in Outputs, NEW version \in OutputVersion, CommitOutput(o, version),
         me.output = o,
         RowsOK(source, version.input, version.request),
         version.completed => version.index,
         outputs[o] # <<>> => /\ version.request = Newest(outputs[o]).request
                              /\ version.input = Newest(outputs[o]).input
                              /\ Newest(outputs[o]).index => version.index,
         WorkOK(source, Append(outputs[o], version), me)
  PROVE  ExportInv'
<1>1. /\ source \in Seq(SourceVersion) /\ Len(source) <= MaxSource /\ Longer(source, source)
      /\ outputs \in [Outputs -> Seq(OutputVersion)] /\ outputs[o] \in Seq(OutputVersion)
      /\ \A q \in Outputs : Len(outputs[q]) <= MaxOutput /\ VersionsOK(source, outputs[q])
      /\ PointersOK(source, outputs)
  BY DEF ExportInv, ExportTypeOK, Longer
<1> DEFINE s == outputs[o]
           t == Append(s, version)
<1>2. /\ t \in Seq(OutputVersion) /\ Len(t) = Len(s) + 1
      /\ t[Len(s) + 1] = version /\ Longer(s, t) /\ Len(s) \in Nat
  BY <1>1, Grows
<1>3. Len(s) < MaxOutput /\ outputs' = [outputs EXCEPT ![o] = t]
  BY DEF CommitOutput
<1>4. VersionsOK(source, s)
  BY <1>1
<1>5. s # <<>> => Len(s) \in 1 .. Len(s) /\ Newest(s) = s[Len(s)]
  BY <1>1 DEF Newest
<1>6. Len(s) \in 1 .. Len(s) => s # <<>>
  BY <1>1
<1>7. VersionsOK(source, t)
  <2> HIDE DEF s, t
  <2>0. Len(s) \in 1 .. Len(s) =>
          /\ version.request = s[Len(s)].request /\ version.input = s[Len(s)].input
          /\ s[Len(s)].index => version.index
    BY <1>5, <1>6 DEF s
  <2>1. \A a \in 1 .. Len(t) : (a \in 1 .. Len(s) /\ t[a] = s[a]) \/ (a = Len(s) + 1 /\ t[a] = version)
    <3> SUFFICES ASSUME NEW a \in 1 .. Len(t)
                 PROVE  (a \in 1 .. Len(s) /\ t[a] = s[a]) \/ (a = Len(s) + 1 /\ t[a] = version)
      OBVIOUS
    <3>1. a \in 1 .. Len(s) \/ a = Len(s) + 1
      BY <1>2
    <3>2. CASE a \in 1 .. Len(s)
      <4>1. \A b \in 1 .. Len(s) : t[b] = s[b]
        BY <1>2 DEF Longer
      <4> QED
        BY <3>2, <4>1
    <3>3. CASE a = Len(s) + 1
      BY <1>2, <3>3
    <3> QED
      BY <3>1, <3>2, <3>3
  <2>2. \A a \in 1 .. Len(t) : RowsOK(source, t[a].input, t[a].request)
    BY <1>4, <2>1 DEF VersionsOK
  <2>3. \A a \in 1 .. Len(t) : t[a].completed => t[a].index
    BY <1>4, <2>1 DEF VersionsOK
  <2>4. \A a \in 1 .. Len(s) :
          /\ s[a].request = version.request /\ s[a].input = version.input
          /\ s[a].index => version.index
    BY <1>2, <1>4, <2>0 DEF VersionsOK
  <2>5. \A a, b \in 1 .. Len(t) : t[b].request = t[a].request /\ t[b].input = t[a].input
    BY <1>4, <2>1, <2>4 DEF VersionsOK
  <2>6. \A a \in 1 .. Len(t), b \in 1 .. Len(t) : a <= b /\ t[a].index => t[b].index
    BY <1>2, <1>4, <2>1, <2>4 DEF VersionsOK
  <2> QED
    BY <1>2, <2>2, <2>3, <2>5, <2>6 DEF VersionsOK
<1>8. \A q \in Outputs : outputs'[q] = IF q = o THEN t ELSE outputs[q]
  BY <1>1, <1>3
<1>9. \A q \in Outputs : /\ Len(outputs'[q]) <= MaxOutput /\ Longer(outputs[q], outputs'[q])
                         /\ VersionsOK(source, outputs'[q])
  <2> SUFFICES ASSUME NEW q \in Outputs
               PROVE  /\ Len(outputs'[q]) <= MaxOutput /\ Longer(outputs[q], outputs'[q])
                      /\ VersionsOK(source, outputs'[q])
    OBVIOUS
  <2>1. Longer(outputs[q], outputs[q])
    BY DEF Longer
  <2>2. Len(t) <= MaxOutput
    BY <1>2, <1>3, ExportAssumption
  <2> HIDE DEF t
  <2> QED
    BY <1>1, <1>2, <1>7, <1>8, <2>1, <2>2
<1>10. outputs' \in [Outputs -> Seq(OutputVersion)]
  BY <1>1, <1>2, <1>3
<1>11. PointersOK(source, outputs')
  <2>1. \A v \in Len(source) + 1 .. Len(source) : FALSE
    BY <1>1
  <2>2. \A q \in Outputs : Longer(outputs[q], outputs'[q])
    BY <1>9
  <2> QED
    BY <1>1, <1>10, <2>1, <2>2, PointersStay
<1>12. ExporterOK(source, outputs', me)
  BY <1>8 DEF ExporterOK
<1>13. /\ exporter' \in [Exporters -> Exporter]
       /\ \A f \in Exporters : exporter'[f] = exporter[f] \/ ExporterOK(source', outputs', exporter'[f])
  BY <1>12, OneMoves
<1> QED
  BY <1>1, <1>9, <1>10, <1>11, <1>13, ExporterKeeps

LEMMA IdleExporterIsOK ==
  /\ IdleExporter \in Exporter
  /\ \A src, outs : ExporterOK(src, outs, IdleExporter)
<1>1. IdleExporter \in Exporter /\ IdleExporter.step = "idle"
  BY ExportAssumption DEF IdleExporter, Exporter
<1> QED
  BY <1>1 DEF ExporterOK

\* One step per operation of an exporter.
LEMMA ExporterSteps ==
  ASSUME ExportInv, NEW e \in Exporters,
         \/ \E o \in Outputs, request \in 1 .. Len(source) : LaunchExport(e, o, request)
         \/ LookForNone(e) \/ LookForOutput(e) \/ Migrate(e) \/ AddUuids(e) \/ WriteOutput(e)
         \/ BuildIndex(e) \/ ReopenOutput(e) \/ CompleteOutput(e) \/ VerifyOutput(e)
         \/ PointToOutput(e) \/ ExportFails(e)
  PROVE  ExportInv'
<1> DEFINE me == exporter[e]
           o == me.output
           s == outputs[o]
<1>1. /\ me \in Exporter
      /\ source \in Seq(SourceVersion) /\ Len(source) \in 1 .. MaxSource
      /\ outputs \in [Outputs -> Seq(OutputVersion)]
      /\ \A q \in Outputs : Len(outputs[q]) <= MaxOutput /\ VersionsOK(source, outputs[q])
      /\ ExporterOK(source, outputs, me)
      /\ PointersOK(source, outputs)
      /\ MaxSource \in Nat \ {0} /\ MaxOutput \in Nat
  BY ExportAssumption DEF ExportInv, ExportTypeOK
<1>2. me.step # "idle" =>
        /\ o \in Outputs /\ s \in Seq(OutputVersion) /\ Len(s) \in Nat /\ Len(s) <= MaxOutput
        /\ VersionsOK(source, s) /\ WorkOK(source, s, me)
        /\ \A a \in 1 .. Len(s) : s[a] \in OutputVersion
  BY <1>1 DEF ExporterOK
<1>3. /\ exporter' = [exporter EXCEPT ![e] = IdleExporter] <=> ExportDone(e)
      /\ \A step : ExportAt(e, step) <=> exporter' = [exporter EXCEPT ![e] = [me EXCEPT !.step = step]]
  BY DEF ExportDone, ExportAt
<1>4. ASSUME ExportDone(e), UNCHANGED <<source, outputs>> PROVE ExportInv'
  BY <1>3, <1>4, IdleExporterIsOK, OpensOnly
<1>5. \A a \in 1 .. Len(source) : source[a] \in SourceVersion
  BY <1>1
<1>6. Newest(source) = source[Len(source)] /\ Newest(source) \in SourceVersion
  BY <1>1, <1>5 DEF Newest
<1>7. me.step # "idle" /\ s # <<>> =>
        Len(s) \in 1 .. Len(s) /\ Newest(s) = s[Len(s)] /\ s[Len(s)] \in OutputVersion
  BY <1>2 DEF Newest
<1> HIDE DEF me, o, s
<1>11. ASSUME NEW out \in Outputs, NEW request \in 1 .. Len(source), LaunchExport(e, out, request)
       PROVE  ExportInv'
  <2> DEFINE new == [IdleExporter EXCEPT !.step = "look", !.output = out, !.request = request]
  <2>1. exporter' = [exporter EXCEPT ![e] = new] /\ UNCHANGED <<source, outputs>>
    BY <1>11 DEF LaunchExport
  <2>2. new \in Exporter /\ new.step = "look" /\ new.output = out /\ new.request = request
    <3>1. request \in 0 .. MaxSource
      BY <1>1
    <3> QED
      BY <3>1, IdleExporterIsOK DEF IdleExporter, Exporter
  <2> HIDE DEF new
  <2>3. ExporterOK(source, outputs, new)
    BY <2>2 DEF ExporterOK, WorkOK
  <2> QED
    BY <2>1, <2>2, <2>3, OpensOnly
<1>12. CASE LookForNone(e)
  <2> DEFINE new == [me EXCEPT !.step = "migrate"]
  <2>1. exporter' = [exporter EXCEPT ![e] = new] /\ UNCHANGED <<source, outputs>> /\ me.step = "look"
    BY <1>3, <1>12 DEF LookForNone, me
  <2>2. new \in Exporter /\ new.step = "migrate" /\ new.output = o /\ new.request = me.request
    BY <1>1 DEF Exporter, o
  <2> HIDE DEF new
  <2>3. ExporterOK(source, outputs, new)
    BY <1>2, <2>1, <2>2 DEF ExporterOK, WorkOK
  <2> QED
    BY <2>1, <2>2, <2>3, OpensOnly
<1>13. CASE LookForOutput(e)
  <2>0. me.step = "look" /\ s # <<>> /\ UNCHANGED <<source, outputs>>
    BY <1>13 DEF LookForOutput, me, o, s
  <2>1. CASE ~Usable(e)
    BY <1>4, <1>13, <2>1 DEF LookForOutput
  <2>2. CASE Usable(e)
    <3> DEFINE last == s[Len(s)]
               new == [me EXCEPT !.head = Len(s), !.input = last.input,
                                 !.step = IF Unfinished(last) THEN "index" ELSE "point"]
    <3>1. exporter' = [exporter EXCEPT ![e] = new]
      BY <1>7, <1>13, <2>0, <2>2 DEF LookForOutput, me, o, s
    <3>2. Len(s) \in 1 .. Len(s) /\ last \in OutputVersion /\ Len(s) \in 0 .. MaxOutput
      BY <1>1, <1>2, <1>7, <2>0
    <3>3. last.input \in 0 .. MaxSource
      BY <3>2 DEF OutputVersion
    <3>4. /\ new \in Exporter /\ new.output = o /\ new.request = me.request /\ new.head = Len(s)
          /\ new.input = last.input /\ new.step \in {"index", "point"}
          /\ new.step = "point" => ~Unfinished(last)
      BY <1>1, <3>2, <3>3 DEF Exporter, o
    <3>5. ~Unfinished(last) => CompleteAt(s, Len(s), Len(s))
      BY <1>7, <2>0, <2>2 DEF Usable, Unfinished, CompleteAt, me, o, s
    <3> HIDE DEF new, last
    <3>6. s[Len(s)] = last
      BY DEF last
    <3>7. WorkOK(source, s, new)
      BY <1>2, <2>0, <3>2, <3>4, <3>5, <3>6 DEF WorkOK
    <3>8. ExporterOK(source, outputs, new)
      BY <1>2, <2>0, <3>4, <3>7 DEF ExporterOK, s
    <3> QED
      BY <2>0, <3>1, <3>4, <3>8, OpensOnly
  <2> QED
    BY <2>1, <2>2
<1>14. CASE Migrate(e)
  <2>0. me.step = "migrate" /\ UNCHANGED <<source, outputs>>
    BY <1>14 DEF Migrate, me
  <2>1. CASE ExportDone(e)
    BY <1>4, <2>0, <2>1
  <2>2. CASE ExportAt(e, "add")
    <3> DEFINE new == [me EXCEPT !.step = "add"]
    <3>1. new \in Exporter /\ new.step = "add" /\ new.output = o /\ new.request = me.request
      BY <1>1 DEF Exporter, o
    <3>2. exporter' = [exporter EXCEPT ![e] = new]
      BY <1>3, <2>2
    <3> HIDE DEF new
    <3>3. ExporterOK(source, outputs, new)
      BY <1>2, <2>0, <3>1 DEF ExporterOK, WorkOK
    <3> QED
      BY <2>0, <3>1, <3>2, <3>3, OpensOnly
  <2>3. ASSUME NEW input, RowsOK(source, input, me.request),
               exporter' = [exporter EXCEPT ![e] = [me EXCEPT !.input = input, !.step = "write"]]
        PROVE  ExportInv'
    <3> DEFINE new == [me EXCEPT !.input = input, !.step = "write"]
    <3>1. input \in 0 .. MaxSource
      BY <1>1, <2>3 DEF RowsOK
    <3>2. /\ new \in Exporter /\ new.step = "write" /\ new.output = o /\ new.request = me.request
          /\ new.input = input
      BY <1>1, <3>1 DEF Exporter, o
    <3> HIDE DEF new
    <3>3. ExporterOK(source, outputs, new)
      BY <1>2, <2>0, <2>3, <3>2 DEF ExporterOK, WorkOK
    <3> QED
      BY <2>0, <2>3, <3>2, <3>3, OpensOnly DEF new
  <2>4. me.request \in 1 .. Len(source)
    BY <1>2, <2>0 DEF WorkOK
  <2>5. CASE source[me.request].uuids # 0 /\
             exporter' = [exporter EXCEPT ![e] = [me EXCEPT !.input = me.request, !.step = "write"]]
    BY <2>3, <2>4, <2>5 DEF RowsOK
  <2>6. CASE Migrated(me.request) /\
             exporter' = [exporter EXCEPT ![e] = [me EXCEPT !.input = me.request + 1, !.step = "write"]]
    <3>1. DOMAIN source = 1 .. Len(source)
      BY <1>1
    <3>2. RowsOK(source, me.request + 1, me.request)
      BY <2>4, <2>6, <3>1 DEF RowsOK, Migrated
    <3> QED
      BY <2>3, <2>6, <3>2
  <2> QED
    BY <1>14, <2>1, <2>2, <2>5, <2>6 DEF Migrate, me
<1>15. CASE AddUuids(e)
  <2> DEFINE version == [Newest(source) EXCEPT !.uuids = me.request]
  <2>0. me.step = "add" /\ CommitSource(version) /\ UNCHANGED outputs
    BY <1>15 DEF AddUuids, me
  <2>1. me.request \in 1 .. Len(source)
    BY <1>2, <2>0 DEF WorkOK
  <2>2. me.request \in 0 .. MaxSource
    BY <1>1, <2>1
  <2>3. /\ version \in SourceVersion /\ version.uuids = me.request
        /\ version.pointer = Newest(source).pointer
    BY <1>6, <2>2 DEF SourceVersion
  <2> HIDE DEF version
  <2>4. CASE ExportDone(e)
    <3>1. /\ exporter' \in [Exporters -> Exporter]
          /\ \A f \in Exporters : exporter'[f] = exporter[f] \/ ExporterOK(source', outputs, exporter'[f])
      BY <1>3, <2>4, IdleExporterIsOK, OneMoves
    <3> QED
      BY <2>0, <2>3, <3>1, SourceKeeps
  <2>5. CASE Len(source) = me.request /\
             exporter' = [exporter EXCEPT ![e] = [me EXCEPT !.input = me.request + 1, !.step = "write"]]
    <3> DEFINE new == [me EXCEPT !.input = me.request + 1, !.step = "write"]
    <3>1. source' = Append(source, version) /\ Len(source) < MaxSource
      BY <2>0 DEF CommitSource
    <3>2. Len(source') = Len(source) + 1 /\ source'[Len(source) + 1] = version
      BY <1>1, <2>3, <3>1
    <3>3. me.request + 1 \in 0 .. MaxSource
      BY <1>1, <2>1, <2>5, <3>1
    <3>4. /\ new \in Exporter /\ new.step = "write" /\ new.output = o /\ new.request = me.request
          /\ new.input = me.request + 1
      BY <1>1, <3>3 DEF Exporter, o
    <3> HIDE DEF new
    <3>5. RowsOK(source', me.request + 1, me.request)
      BY <2>1, <2>3, <2>5, <3>2 DEF RowsOK
    <3>6. ExporterOK(source', outputs, new)
      BY <1>2, <2>0, <2>1, <3>2, <3>4, <3>5 DEF ExporterOK, WorkOK
    <3>7. exporter' = [exporter EXCEPT ![e] = new]
      BY <2>5 DEF new
    <3>8. /\ exporter' \in [Exporters -> Exporter]
          /\ \A f \in Exporters : exporter'[f] = exporter[f] \/ ExporterOK(source', outputs, exporter'[f])
      BY <3>4, <3>6, <3>7, OneMoves
    <3> QED
      BY <2>0, <2>3, <3>8, SourceKeeps
  <2> QED
    BY <1>15, <2>4, <2>5 DEF AddUuids, me
<1>16. CASE WriteOutput(e)
  <2> DEFINE version == [request |-> me.request, input |-> me.input, index |-> FALSE,
                         completed |-> FALSE, version |-> 0]
             new == [me EXCEPT !.head = 1, !.step = "index"]
  <2>0. /\ me.step = "write" /\ s = <<>> /\ CommitOutput(o, version) /\ UNCHANGED source
        /\ exporter' = [exporter EXCEPT ![e] = new]
    BY <1>16 DEF WriteOutput, me, o, s
  <2>1. me.request \in 1 .. Len(source) /\ RowsOK(source, me.input, me.request)
    BY <1>2, <2>0 DEF WorkOK
  <2>2. me.request \in 1 .. MaxSource /\ me.input \in 1 .. MaxSource
    BY <1>1, <2>1 DEF RowsOK
  <2>3. /\ version \in OutputVersion /\ version.request = me.request /\ version.input = me.input
        /\ version.completed = FALSE
    BY <1>1, <2>2 DEF OutputVersion
  <2>4. 1 \in 0 .. MaxOutput
    BY <1>1, <1>2, <2>0 DEF CommitOutput, s
  <2>5. /\ new \in Exporter /\ new.step = "index" /\ new.output = o /\ new.request = me.request
        /\ new.head = 1 /\ new.input = me.input
    BY <1>1, <2>4 DEF Exporter, o
  <2> HIDE DEF version, new
  <2>6. Len(Append(s, version)) = 1 /\ Append(s, version)[1] = version
    BY <2>0, <2>3
  <2>7. WorkOK(source, Append(outputs[o], version), new)
    BY <2>1, <2>3, <2>5, <2>6 DEF WorkOK, s
  <2> QED
    BY <1>2, <2>0, <2>1, <2>3, <2>5, <2>7, OutputKeeps DEF s
<1>17. CASE BuildIndex(e)
  <2>0. me.step = "index" /\ UNCHANGED source
    BY <1>17 DEF BuildIndex, me
  <2>1. /\ me.request \in 1 .. Len(source) /\ me.head \in 1 .. Len(s) /\ s[me.head].input = me.input
    BY <1>2, <2>0 DEF WorkOK
  <2>2. CASE s[me.head].index /\ ExportAt(e, "complete") /\ UNCHANGED outputs
    <3> DEFINE new == [me EXCEPT !.step = "complete"]
    <3>1. /\ new \in Exporter /\ new.step = "complete" /\ new.output = o /\ new.request = me.request
          /\ new.head = me.head /\ new.input = me.input
      BY <1>1 DEF Exporter, o
    <3>2. exporter' = [exporter EXCEPT ![e] = new]
      BY <1>3, <2>2
    <3> HIDE DEF new
    <3>3. WorkOK(source, s, new)
      BY <2>1, <2>2, <3>1 DEF WorkOK
    <3>4. ExporterOK(source, outputs, new)
      BY <1>2, <2>0, <3>1, <3>3 DEF ExporterOK, s
    <3> QED
      BY <2>0, <2>2, <3>1, <3>2, <3>4, OpensOnly
  <2> DEFINE version == [Newest(s) EXCEPT !.index = TRUE]
             added == [me EXCEPT !.step = "reopen"]
  <2>3. CASE CommitOutput(o, version) /\ ExportAt(e, "reopen")
    <3>0. s # <<>> /\ Newest(s) = s[Len(s)] /\ s[Len(s)] \in OutputVersion /\ Len(s) \in 1 .. Len(s)
      BY <1>2, <1>7, <2>0, <2>1
    <3>1. /\ version \in OutputVersion /\ version.request = s[Len(s)].request
          /\ version.input = s[Len(s)].input /\ version.index = TRUE
      BY <3>0 DEF OutputVersion
    <3>2. exporter' = [exporter EXCEPT ![e] = added]
      BY <1>3, <2>3
    <3>3. /\ added \in Exporter /\ added.step = "reopen" /\ added.output = o
          /\ added.request = me.request /\ added.head = me.head /\ added.input = me.input
      BY <1>1 DEF Exporter, o
    <3> HIDE DEF version, added
    <3>4. RowsOK(source, version.input, version.request) /\ version.input = me.input
      BY <1>2, <2>0, <2>1, <3>0, <3>1 DEF VersionsOK
    <3>5. Len(Append(s, version)) = Len(s) + 1 /\ Append(s, version)[Len(s) + 1] = version
      BY <1>2, <2>0, <3>1
    <3>6. WorkOK(source, Append(s, version), added)
      <4>1. Append(s, version)[me.head] = s[me.head] /\ me.head \in 1 .. Len(s) + 1
        BY <1>2, <2>0, <2>1, <3>1
      <4>2. Len(s) + 1 \in me.head .. Len(s) + 1
        BY <1>2, <2>0, <2>1
      <4> QED
        BY <2>1, <3>1, <3>3, <3>5, <4>1, <4>2 DEF WorkOK
    <3> QED
      BY <1>2, <2>0, <2>3, <3>0, <3>1, <3>2, <3>3, <3>4, <3>6, OutputKeeps DEF s
  <2> QED
    BY <1>17, <2>2, <2>3 DEF BuildIndex, me, o, s
<1>22. CASE ReopenOutput(e)
  <2> DEFINE new == [me EXCEPT !.step = "complete", !.head = Len(s)]
  <2>0. /\ me.step = "reopen" /\ UNCHANGED <<source, outputs>>
        /\ exporter' = [exporter EXCEPT ![e] = new]
    BY <1>22 DEF ReopenOutput, me, o, s
  <2>1. /\ me.request \in 1 .. Len(source) /\ me.head \in 1 .. Len(s) /\ s[me.head].input = me.input
        /\ \E a \in me.head .. Len(s) : s[a].index
    BY <1>2, <2>0 DEF WorkOK
  <2>2. Len(s) \in 1 .. Len(s) /\ Len(s) \in 0 .. MaxOutput
    BY <1>1, <1>2, <2>0, <2>1
  <2>3. /\ new \in Exporter /\ new.step = "complete" /\ new.output = o
        /\ new.request = me.request /\ new.head = Len(s) /\ new.input = me.input
    BY <1>1, <2>2 DEF Exporter, o
  <2> HIDE DEF new
  <2>4. s[Len(s)].index /\ s[Len(s)].input = me.input
    BY <1>2, <2>0, <2>1, <2>2 DEF VersionsOK
  <2>5. WorkOK(source, s, new)
    BY <2>1, <2>2, <2>3, <2>4 DEF WorkOK
  <2>6. ExporterOK(source, outputs, new)
    BY <1>2, <2>0, <2>3, <2>5 DEF ExporterOK, s
  <2> QED
    BY <2>0, <2>3, <2>6, OpensOnly
<1>18. CASE CompleteOutput(e)
  <2> DEFINE version == [Newest(s) EXCEPT !.completed = TRUE, !.version = me.head + 1]
             new == [me EXCEPT !.head = me.head + 1, !.step = "verify"]
  <2>0. /\ me.step = "complete" /\ UNCHANGED source /\ CommitOutput(o, version)
        /\ exporter' = [exporter EXCEPT ![e] = new]
    BY <1>18 DEF CompleteOutput, PublishedVersion, me, o, s
  <2>1. /\ me.request \in 1 .. Len(source) /\ me.head \in 1 .. Len(s) /\ s[me.head].input = me.input
        /\ s[me.head].index
    BY <1>2, <2>0 DEF WorkOK
  <2>2. s # <<>> /\ Newest(s) = s[Len(s)] /\ s[Len(s)] \in OutputVersion /\ Len(s) \in 1 .. Len(s)
    BY <1>2, <1>7, <2>0, <2>1
  <2>3. me.head + 1 \in 0 .. MaxOutput
    BY <1>1, <1>2, <2>0, <2>1 DEF CommitOutput, s
  <2>4. /\ version \in OutputVersion /\ version.request = s[Len(s)].request
        /\ version.input = s[Len(s)].input /\ version.index = s[Len(s)].index
        /\ version.completed = TRUE /\ version.version = me.head + 1
    <3>1. me.head + 1 \in 0 .. MaxOutput + 1
      BY <1>1, <2>3
    <3> QED
      BY <2>2, <3>1 DEF OutputVersion
  <2>5. /\ new \in Exporter /\ new.step = "verify" /\ new.output = o
        /\ new.request = me.request /\ new.head = me.head + 1 /\ new.input = me.input
    BY <1>1, <2>3 DEF Exporter, o
  <2> HIDE DEF version, new
  <2>6. s[Len(s)].index
    BY <1>2, <2>0, <2>1, <2>2 DEF VersionsOK
  <2>7. \A a \in 1 .. Len(s) : s[a].input = me.input
    BY <1>2, <2>0, <2>1 DEF VersionsOK
  <2>8. RowsOK(source, version.input, version.request)
    BY <1>2, <2>0, <2>2, <2>4 DEF VersionsOK
  <2> DEFINE t == Append(s, version)
  <2>9. /\ Len(t) = Len(s) + 1 /\ t[Len(s) + 1] = version
        /\ \A a \in 1 .. Len(s) : t[a] = s[a]
    BY <1>2, <2>0, <2>4
  <2> HIDE DEF t
  <2>10. t[me.head + 1].input = me.input
    <3>1. CASE me.head + 1 \in 1 .. Len(s)
      BY <2>7, <2>9, <3>1
    <3>2. CASE me.head = Len(s)
      BY <2>2, <2>4, <2>7, <2>9, <3>2
    <3> QED
      BY <2>1, <1>2, <2>0, <3>1, <3>2
  <2>11. CompleteAt(t, Len(s) + 1, me.head + 1)
    BY <2>4, <2>6, <2>9 DEF CompleteAt
  <2>12. Len(s) + 1 \in me.head + 1 .. Len(t) /\ me.head + 1 \in 1 .. Len(t)
    BY <1>2, <2>0, <2>1, <2>9
  <2>13. WorkOK(source, t, new)
    BY <2>1, <2>5, <2>10, <2>11, <2>12 DEF WorkOK
  <2> QED
    BY <1>2, <2>0, <2>2, <2>4, <2>5, <2>6, <2>8, <2>13, OutputKeeps DEF s, t
<1>19. CASE VerifyOutput(e)
  <2>0. me.step = "verify" /\ UNCHANGED <<source, outputs>>
    BY <1>19 DEF VerifyOutput, me
  <2>1. CASE ExportDone(e)
    BY <1>4, <2>0, <2>1
  <2>2. CASE Len(s) = me.head /\ ExportAt(e, "point")
    <3> DEFINE new == [me EXCEPT !.step = "point"]
    <3>1. /\ new \in Exporter /\ new.step = "point" /\ new.output = o /\ new.request = me.request
          /\ new.head = me.head /\ new.input = me.input
      BY <1>1 DEF Exporter, o
    <3>2. exporter' = [exporter EXCEPT ![e] = new]
      BY <1>3, <2>2
    <3> HIDE DEF new
    <3>3. PICK a \in me.head .. Len(s) : CompleteAt(s, a, me.head)
      BY <1>2, <2>0 DEF WorkOK
    <3>4. a = me.head
      BY <1>2, <2>0, <2>2, <3>3
    <3>5. WorkOK(source, s, new)
      BY <1>2, <2>0, <3>1, <3>3, <3>4 DEF WorkOK
    <3>6. ExporterOK(source, outputs, new)
      BY <1>2, <2>0, <3>1, <3>5 DEF ExporterOK, s
    <3> QED
      BY <2>0, <3>1, <3>2, <3>6, OpensOnly
  <2> QED
    BY <1>19, <2>1, <2>2 DEF VerifyOutput, me, o, s
<1>20. CASE PointToOutput(e)
  <2> DEFINE p == [output |-> o, version |-> me.head, input |-> me.input]
             version == [Newest(source) EXCEPT !.pointer = p]
  <2>0. me.step = "point" /\ ExportDone(e) /\ UNCHANGED outputs
    BY <1>20 DEF PointToOutput, me
  <2>1. CASE UNCHANGED source
    BY <1>4, <2>0, <2>1
  <2>2. CASE CommitSource(version)
    <3>1. /\ me.head \in 1 .. Len(s) /\ s[me.head].input = me.input
          /\ CompleteAt(s, me.head, me.head)
      BY <1>2, <2>0 DEF WorkOK
    <3>2. RowsOK(source, me.input, s[me.head].request)
      BY <1>2, <2>0, <3>1 DEF VersionsOK
    <3>3. me.head \in 1 .. MaxOutput /\ me.input \in 1 .. MaxSource
      BY <1>1, <1>2, <2>0, <3>1, <3>2 DEF RowsOK
    <3>4. p \in Pointer
      BY <1>2, <2>0, <3>3 DEF Pointer
    <3>5. version \in SourceVersion /\ version.pointer = p
      BY <1>6, <3>4 DEF SourceVersion
    <3> HIDE DEF version
    <3>6. Longer(source, source') /\ Len(source') \in Nat
      BY <1>1, <2>2, <3>5, Grows DEF CommitSource
    <3>7. RowsOK(source', me.input, s[me.head].request)
      BY <1>1, <3>2, <3>6 DEF RowsOK, Longer
    <3>8. p.output = o /\ p.version = me.head /\ p.input = me.input
      OBVIOUS
    <3> HIDE DEF p
    <3>9. PointerOK(source', outputs, p)
      BY <3>1, <3>7, <3>8 DEF PointerOK, s
    <3>10. /\ exporter' \in [Exporters -> Exporter]
           /\ \A f \in Exporters : exporter'[f] = exporter[f] \/ ExporterOK(source', outputs, exporter'[f])
      BY <1>3, <2>0, IdleExporterIsOK, OneMoves
    <3> QED
      BY <1>2, <2>0, <2>2, <3>5, <3>8, <3>9, <3>10, SourceKeeps
  <2> QED
    BY <1>20, <2>1, <2>2 DEF PointToOutput, PointerOf, me, o
<1>21. CASE ExportFails(e)
  BY <1>4, <1>21 DEF ExportFails
<1> QED
  BY <1>11, <1>12, <1>13, <1>14, <1>15, <1>16, <1>17, <1>18, <1>19, <1>20, <1>21, <1>22

LEMMA ExportStep == ExportInv /\ [ExportNext]_exportVars => ExportInv'
<1> SUFFICES ASSUME ExportInv, [ExportNext]_exportVars PROVE ExportInv'
  OBVIOUS
<1>1. CASE SourceCommit
  <2>1. /\ source \in Seq(SourceVersion) /\ Len(source) \in 1 .. MaxSource
        /\ exporter \in [Exporters -> Exporter]
    BY DEF ExportInv, ExportTypeOK
  <2>2. Newest(source) \in SourceVersion
    BY <2>1 DEF Newest
  <2> QED
    BY <1>1, <2>1, <2>2, SourceKeeps DEF SourceCommit
<1>2. CASE UNCHANGED exportVars
  <2>1. UNCHANGED <<source, outputs, exporter>>
    BY <1>2 DEF exportVars
  <2>2. ExportTypeOK'
    BY <2>1 DEF ExportInv, ExportTypeOK
  <2>3. (\A o \in Outputs : VersionsOK(source, outputs[o]))'
    BY SMTT(30), <2>1 DEF ExportInv, VersionsOK, RowsOK
  <2>4. (\A e \in Exporters : ExporterOK(source, outputs, exporter[e]))'
    BY SMTT(30), <2>1 DEF ExportInv, ExporterOK, WorkOK, RowsOK, CompleteAt
  <2>5. PointersOK(source, outputs)'
    BY <2>1 DEF ExportInv, PointersOK, PointerOK, RowsOK, CompleteAt
  <2> QED
    BY <2>2, <2>3, <2>4, <2>5 DEF ExportInv
<1> QED
  BY <1>1, <1>2, ExporterSteps DEF ExportNext

\* Whatever exports race, fail and are relaunched, a pointer in the source names a
\* complete, indexed version of an output whose rows had row UUIDs; for any
\* number of exporters, outputs and versions.
THEOREM SourcePointsToCompleteOutputs == ExportSpec => []PointsToACompleteOutput
<1>1. ASSUME ExportInv PROVE PointsToACompleteOutput
  <2> SUFFICES ASSUME NEW v \in DOMAIN source, source[v].pointer # NoPointer
               PROVE  LET p == source[v].pointer
                          output == outputs[p.output][p.version]
                      IN  /\ p.version \in DOMAIN outputs[p.output]
                          /\ output.completed /\ output.index /\ output.version = p.version
                          /\ output.input = p.input
                          /\ source[p.input].uuids # 0
                          /\ p.input \in {output.request, output.request + 1}
    BY DEF PointsToACompleteOutput
  <2> DEFINE p == source[v].pointer
  <2>1. source \in Seq(SourceVersion) /\ outputs \in [Outputs -> Seq(OutputVersion)]
    BY <1>1 DEF ExportInv, ExportTypeOK
  <2>2. p.output \in Outputs /\ PointerOK(source, outputs, p)
    BY <1>1, <2>1 DEF ExportInv, PointersOK
  <2>3. DOMAIN outputs[p.output] = 1 .. Len(outputs[p.output])
    BY <2>1, <2>2
  <2> HIDE DEF p
  <2> QED
    BY SMTT(30), <2>2, <2>3 DEF PointerOK, CompleteAt, RowsOK, p
<1> QED
  BY <1>1, ExportStarts, ExportStep, PTL DEF ExportSpec

-----------------------------------------------------------------------------
(***************************************************************************)
(* The model artifact: a launch knows its own best checkpoint and score,   *)
(* and an address holds what the launch that owns it uploaded last.        *)
(***************************************************************************)

UriOf(over, run, l) == IF over THEN OverrideUri ELSE <<run, l>>

\* Where launch l uploads lies its checkpoint w, or that of another launch at a
\* configured destination.
UploadOK(l, w, run, objects, over) ==
  LET there == objects[UriOf(over, run, l)]
  IN  /\ there \in Weights
      /\ over \/ there.by = l
      /\ there.by = l => there = w

\* A launch that runs knows its own best checkpoint and its score from its own
\* ranking, or has an inherited best one and no score.
UpOK(l, t, top, objects, over) ==
  /\ t.score = 0 => t.best = NoModel \/ t.best.by # l
  /\ t.score # 0 => t.best \in Weights /\ t.best.by = l /\ [of |-> t.best, score |-> t.score] \in top
  /\ \A r \in top : r.of.by = l => r.score = t.score
  /\ t.phase \in {"fit", "test"} => t.tested = NoModel
  /\ t.phase \in {"upload", "log"} /\ t.best # NoModel => t.tested \in {t.best, NoModel}
  /\ t.phase # "log" => t.uri = NoUri
  /\ t.phase = "log" /\ t.uri # NoUri =>
       /\ t.uri = UriOf(over, t.run, l)
       /\ t.score # 0
       /\ UploadOK(l, t.best, t.run, objects, over)

\* What an artifact says holds of the one checkpoint its launch uploaded.
LoggedOK(l, t, a, top, objects, over) ==
  /\ a.uri = UriOf(over, t.run, l)
  /\ \E w \in Weights :
       /\ w.by = l
       /\ UploadOK(l, w, t.run, objects, over)
       /\ a.of \in {w, NoModel}
       /\ [of |-> w, score |-> a.score] \in top
       /\ t.tested \in {w, NoModel}

LaunchOK(l, t, a, top, objects, over) ==
  /\ a # NoModel => t # NoModel
  /\ t # NoModel /\ t.phase \notin {"over", "dead"} =>
       a = NoModel /\ UpOK(l, t, top, objects, over)
  /\ a # NoModel /\ a.uri # NoUri => LoggedOK(l, t, a, top, objects, over)

\* A launch keeps ties only, and nothing is known of one that has not started.
RankingOK ==
  /\ \A r, q \in topRanked : r.of.by = q.of.by => r.score = q.score
  /\ \A r \in topRanked : Started(r.of.by)
  /\ \A l \in Trainings : Started(l) /\ training[l].best # NoModel => Started(training[l].best.by)
  /\ \A l \in Trainings : lastSaves[l] # NoModel =>
       Started(l) /\ (lastSaves[l].best # NoModel => Started(lastSaves[l].best.by))

ArtifactInv ==
  /\ ArtifactTypeOK
  /\ RankingOK
  /\ \A l \in Trainings :
       LaunchOK(l, training[l], modelArtifacts[l], topRanked, modelObjects, overridden)

LEMMA NewLaunch ==
  ASSUME NEW on \in TrainHosts, NEW run \in RunIds, NEW step \in Trained,
         NEW best \in Weights \cup {NoModel}
  PROVE  LET t == LaunchOn(on, run, step, best)
         IN  /\ t \in TrainingRun /\ t # NoModel /\ t.run = run /\ t.best = best /\ t.score = 0
             /\ t.phase = "fit" /\ t.tested = NoModel /\ t.uri = NoUri /\ t.host = on
<1>1. /\ "fit" \in {"fit", "test", "upload", "log", "over", "dead"} /\ 0 \in 0 .. MaxScore
      /\ FALSE \in BOOLEAN /\ NoModel \in Weights \cup {NoModel} /\ NoUri \in Uris \cup {NoUri}
  BY ArtifactAssumption
<1>2. LaunchOn(on, run, step, best) \in TrainingRun
  BY <1>1 DEF LaunchOn, TrainingRun
<1> QED
  BY <1>2, NoModelAssumption DEF LaunchOn

LEMMA ArtifactStarts == ArtifactInit => ArtifactInv
<1> SUFFICES ASSUME ArtifactInit PROVE ArtifactInv
  OBVIOUS
<1>1. ArtifactTypeOK
  BY DEF ArtifactInit, ArtifactTypeOK
<1>2. RankingOK
  BY DEF ArtifactInit, RankingOK, Started
<1>3. \A l \in Trainings :
        LaunchOK(l, training[l], modelArtifacts[l], topRanked, modelObjects, overridden)
  BY DEF ArtifactInit, LaunchOK
<1> QED
  BY <1>1, <1>2, <1>3 DEF ArtifactInv

\* What is so of a launch stays so while others rank and upload theirs.
LEMMA LaunchStays ==
  ASSUME NEW k, NEW t, NEW a, NEW top, NEW top2, NEW objects, NEW objects2, NEW over,
         LaunchOK(k, t, a, top, objects, over),
         \A r \in top : r.of.by = k => r \in top2,
         \A r \in top2 : r.of.by = k => r \in top,
         t # NoModel =>
           LET u == UriOf(over, t.run, k)
           IN  \/ objects2[u] = objects[u]
               \/ over /\ objects2[u] \in Weights /\ objects2[u].by # k
  PROVE  LaunchOK(k, t, a, top2, objects2, over)
<1>1. ASSUME NEW w \in Weights, UploadOK(k, w, t.run, objects, over), t # NoModel
      PROVE  UploadOK(k, w, t.run, objects2, over)
  BY <1>1 DEF UploadOK
<1>2. \A w, s : w.by = k /\ [of |-> w, score |-> s] \in top => [of |-> w, score |-> s] \in top2
  OBVIOUS
<1>3. ASSUME UpOK(k, t, top, objects, over), t # NoModel PROVE UpOK(k, t, top2, objects2, over)
  BY <1>1, <1>2, <1>3 DEF UpOK
<1>4. ASSUME LoggedOK(k, t, a, top, objects, over), t # NoModel
      PROVE  LoggedOK(k, t, a, top2, objects2, over)
  <2>1. PICK w \in Weights : /\ w.by = k
                             /\ UploadOK(k, w, t.run, objects, over)
                             /\ a.of \in {w, NoModel}
                             /\ [of |-> w, score |-> a.score] \in top
                             /\ t.tested \in {w, NoModel}
    BY <1>4 DEF LoggedOK
  <2>2. UploadOK(k, w, t.run, objects2, over) /\ [of |-> w, score |-> a.score] \in top2
    BY <1>1, <1>2, <1>4, <2>1
  <2> QED
    BY <1>4, <2>1, <2>2 DEF LoggedOK
<1> QED
  BY <1>3, <1>4 DEF LaunchOK

\* A step of one launch, which may rank, save, upload or log.
LEMMA LaunchKeeps ==
  ASSUME ArtifactInv, NEW l \in Trainings, NEW new \in TrainingRun,
         training' = [training EXCEPT ![l] = new], overridden' = overridden,
         new.best # NoModel => new.best.by = l \/ Started(new.best.by),
         lastSaves' \in [Trainings -> [step : Trained, best : Weights \cup {NoModel}] \cup {NoModel}],
         \A k \in Trainings : \/ lastSaves'[k] = lastSaves[k]
                              \/ k = l /\ lastSaves'[k].best = new.best,
         bestFiles' \subseteq Weights,
         topRanked' \subseteq [of : Weights, score : Scores],
         \A r, q \in topRanked' : r.of.by = q.of.by => r.score = q.score,
         \A r \in topRanked' : r.of.by # l => r \in topRanked,
         \A r \in topRanked : r.of.by # l => r \in topRanked',
         \/ modelObjects' = modelObjects
         \/ \E w \in Weights : w.by = l /\
              modelObjects' = [modelObjects EXCEPT ![UriOf(overridden, new.run, l)] = w],
         modelArtifacts' \in [Trainings -> Artifact \cup {NoModel}],
         \A k \in Trainings : k # l => modelArtifacts'[k] = modelArtifacts[k],
         LaunchOK(l, new, modelArtifacts'[l], topRanked', modelObjects', overridden)
  PROVE  ArtifactInv'
<1>0. /\ ArtifactTypeOK /\ RankingOK /\ new # NoModel
      /\ \A k \in Trainings :
           LaunchOK(k, training[k], modelArtifacts[k], topRanked, modelObjects, overridden)
  BY NoModelAssumption DEF ArtifactInv
<1>1. \A k \in Trainings : training'[k] = IF k = l THEN new ELSE training[k]
  BY <1>0 DEF ArtifactTypeOK
<1>2. \A run \in RunIds, k \in Trainings : UriOf(overridden, run, k) \in Uris
  BY DEF UriOf, Uris
<1>3. modelObjects' \in [Uris -> Weights \cup {NoModel}]
  BY <1>0 DEF ArtifactTypeOK
<1>4. training' \in [Trainings -> TrainingRun \cup {NoModel}]
  BY <1>0 DEF ArtifactTypeOK
<1>5. ArtifactTypeOK'
  BY <1>0, <1>3, <1>4 DEF ArtifactTypeOK
<1>6. \A k \in Trainings : training'[k] # NoModel <=> k = l \/ Started(k)
  BY <1>0, <1>1 DEF Started
<1>7. RankingOK'
  <2>1. \A w \in Weights : w.by \in Trainings
    BY DEF Weights
  <2>2. ASSUME NEW r \in topRanked' PROVE r.of.by \in Trainings
    BY <2>1
  <2>3. \A r \in topRanked' : training'[r.of.by] # NoModel
    BY <1>0, <1>6, <2>2 DEF RankingOK
  <2>4. ASSUME NEW k \in Trainings, training'[k] # NoModel, training'[k].best # NoModel
        PROVE  training'[training'[k].best.by] # NoModel
    <3>1. training'[k].best \in Weights
      <4>1. training'[k] \in TrainingRun
        BY <1>4, <2>4
      <4> QED
        BY <2>4, <4>1 DEF TrainingRun
    <3> QED
      BY <1>0, <1>1, <1>6, <2>1, <2>4, <3>1 DEF RankingOK
  <2>5. ASSUME NEW k \in Trainings, lastSaves'[k] # NoModel
        PROVE  /\ training'[k] # NoModel
               /\ lastSaves'[k].best # NoModel => training'[lastSaves'[k].best.by] # NoModel
    <3>1. lastSaves'[k].best # NoModel => lastSaves'[k].best \in Weights
      BY <2>5
    <3> QED
      BY <1>0, <1>6, <2>1, <2>5, <3>1 DEF RankingOK
  <2> QED
    BY <2>3, <2>4, <2>5 DEF RankingOK, Started
<1>8. ASSUME NEW k \in Trainings
      PROVE  LaunchOK(k, training'[k], modelArtifacts'[k], topRanked', modelObjects', overridden)
  <2>1. CASE k = l
    BY <1>1, <2>1
  <2>2. CASE k # l
    <3>1. training'[k] = training[k] /\ modelArtifacts'[k] = modelArtifacts[k]
      BY <1>1, <2>2
    <3>2. ASSUME training[k] # NoModel
          PROVE  LET u == UriOf(overridden, training[k].run, k)
                 IN  \/ modelObjects'[u] = modelObjects[u]
                     \/ overridden /\ modelObjects'[u] \in Weights /\ modelObjects'[u].by # k
      <4>1. training[k].run \in RunIds /\ new.run \in RunIds
        <5>1. training[k] \in TrainingRun
          BY <1>0, <3>2 DEF ArtifactTypeOK
        <5> QED
          BY <5>1 DEF TrainingRun
      <4> DEFINE u == UriOf(overridden, training[k].run, k)
                 v == UriOf(overridden, new.run, l)
      <4>2. u \in Uris /\ v \in Uris /\ (u = v => overridden)
        BY <1>2, <2>2, <4>1 DEF UriOf
      <4>3. modelObjects \in [Uris -> Weights \cup {NoModel}]
        BY <1>0 DEF ArtifactTypeOK
      <4> HIDE DEF u, v
      <4>4. \/ modelObjects' = modelObjects
            \/ \E w \in Weights : w.by = l /\ modelObjects' = [modelObjects EXCEPT ![v] = w]
        BY DEF v
      <4>5. \/ modelObjects'[u] = modelObjects[u]
            \/ overridden /\ modelObjects'[u] \in Weights /\ modelObjects'[u].by # k
        BY <2>2, <4>2, <4>3, <4>4
      <4> QED
        BY <4>5 DEF u
    <3>3. /\ \A r \in topRanked : r.of.by = k => r \in topRanked'
          /\ \A r \in topRanked' : r.of.by = k => r \in topRanked
      BY <2>2
    <3>4. LaunchOK(k, training[k], modelArtifacts[k], topRanked, modelObjects, overridden)
      BY <1>0
    <3>5. LaunchOK(k, training[k], modelArtifacts[k], topRanked', modelObjects', overridden)
      BY <3>2, <3>3, <3>4, LaunchStays
    <3> QED
      BY <3>1, <3>5
  <2> QED
    BY <2>1, <2>2
<1>9. (\A k \in Trainings :
         LaunchOK(k, training[k], modelArtifacts[k], topRanked, modelObjects, overridden))'
  BY <1>8
<1> QED
  BY <1>5, <1>7, <1>9 DEF ArtifactInv

\* A last checkpoint carries the name of the best one.
SavesOrNot(l, t) ==
  \/ UNCHANGED lastSaves
  \/ \E s \in [step : Trained, best : {t.best}] : lastSaves' = [lastSaves EXCEPT ![l] = s]

\* A step that only changes what the launch knows, or saves.
LEMMA QuietKeeps ==
  ASSUME ArtifactInv, NEW l \in Trainings, NEW new \in TrainingRun,
         training' = [training EXCEPT ![l] = new],
         UNCHANGED <<bestFiles, topRanked, modelObjects, modelArtifacts, overridden>>,
         new.best # NoModel => new.best.by = l \/ Started(new.best.by),
         SavesOrNot(l, new),
         LaunchOK(l, new, modelArtifacts[l], topRanked, modelObjects, overridden)
  PROVE  ArtifactInv'
<1>1. ArtifactTypeOK /\ RankingOK
  BY DEF ArtifactInv
<1> DEFINE SaveOfOne == [step : Trained, best : Weights \cup {NoModel}]
<1>2. new.best \in Weights \cup {NoModel}
  BY DEF TrainingRun
<1>3. \A s \in [step : Trained, best : {new.best}] : s \in SaveOfOne /\ s.best = new.best
  BY <1>2
<1>4. lastSaves \in [Trainings -> SaveOfOne \cup {NoModel}]
  BY <1>1 DEF ArtifactTypeOK
<1> HIDE DEF SaveOfOne
<1>5. /\ lastSaves' \in [Trainings -> SaveOfOne \cup {NoModel}]
      /\ \A k \in Trainings : lastSaves'[k] = lastSaves[k] \/ (k = l /\ lastSaves'[k].best = new.best)
  <2>1. CASE UNCHANGED lastSaves
    BY <1>4, <2>1
  <2>2. ASSUME NEW s \in [step : Trained, best : {new.best}],
               lastSaves' = [lastSaves EXCEPT ![l] = s]
        PROVE  /\ lastSaves' \in [Trainings -> SaveOfOne \cup {NoModel}]
               /\ \A k \in Trainings : lastSaves'[k] = lastSaves[k] \/ (k = l /\ lastSaves'[k].best = new.best)
    <3>1. s \in SaveOfOne /\ s.best = new.best
      BY <1>3
    <3> QED
      BY <1>4, <2>2, <3>1
  <2> QED
    BY <2>1, <2>2 DEF SavesOrNot
<1>6. LaunchOK(l, new, modelArtifacts'[l], topRanked', modelObjects', overridden)
  OBVIOUS
<1>7. /\ bestFiles' \subseteq Weights /\ topRanked' \subseteq [of : Weights, score : Scores]
      /\ modelArtifacts' \in [Trainings -> Artifact \cup {NoModel}]
      /\ \A r, q \in topRanked' : r.of.by = q.of.by => r.score = q.score
      /\ topRanked' = topRanked /\ modelObjects' = modelObjects /\ modelArtifacts' = modelArtifacts
  BY <1>1 DEF ArtifactTypeOK, RankingOK
<1>8. lastSaves' \in [Trainings -> [step : Trained, best : Weights \cup {NoModel}] \cup {NoModel}]
  BY <1>5 DEF SaveOfOne
<1>9. /\ \A k \in Trainings : \/ lastSaves'[k] = lastSaves[k]
                              \/ k = l /\ lastSaves'[k].best = new.best
      /\ \A r \in topRanked' : r.of.by # l => r \in topRanked
      /\ \A r \in topRanked : r.of.by # l => r \in topRanked'
      /\ \A k \in Trainings : k # l => modelArtifacts'[k] = modelArtifacts[k]
      /\ overridden' = overridden
  BY <1>5, <1>7
<1> QED
  BY ZenonT(60), <1>6, <1>7, <1>8, <1>9, LaunchKeeps

\* What holds of a launch that runs.
LEMMA RunningLaunch ==
  ASSUME ArtifactInv, NEW l \in Trainings, StillUp(l)
  PROVE  /\ training[l] \in TrainingRun /\ training[l] # NoModel
         /\ training[l].best \in Weights \cup {NoModel} /\ training[l].score \in 0 .. MaxScore
         /\ training[l].run \in RunIds /\ training[l].host \in TrainHosts
         /\ training[l].tested \in Weights \cup {NoModel} /\ training[l].step \in Trained
         /\ training[l].best # NoModel => Started(training[l].best.by)
         /\ modelArtifacts[l] = NoModel
         /\ UpOK(l, training[l], topRanked, modelObjects, overridden)
<1>1. training[l] \in TrainingRun /\ training[l] # NoModel
  BY DEF ArtifactInv, ArtifactTypeOK, StillUp, Started
<1>2. LaunchOK(l, training[l], modelArtifacts[l], topRanked, modelObjects, overridden)
  BY DEF ArtifactInv
<1>3. modelArtifacts[l] = NoModel /\ UpOK(l, training[l], topRanked, modelObjects, overridden)
  BY <1>1, <1>2 DEF LaunchOK, StillUp
<1>4. training[l].best # NoModel => Started(training[l].best.by)
  BY <1>1 DEF ArtifactInv, RankingOK, Started
<1>5. /\ training[l].best \in Weights \cup {NoModel} /\ training[l].score \in 0 .. MaxScore
      /\ training[l].run \in RunIds /\ training[l].host \in TrainHosts
      /\ training[l].tested \in Weights \cup {NoModel} /\ training[l].step \in Trained
  BY <1>1 DEF TrainingRun
<1> QED
  BY <1>1, <1>3, <1>4, <1>5

\* An artifact is logged by a launch that has started and is over.
LEMMA ExitedLaunch ==
  ASSUME ArtifactInv, NEW l \in Trainings, StillUp(l), NEW phase \in {"over", "dead"}
  PROVE  /\ Exited(l, phase) \in TrainingRun /\ Exited(l, phase) # NoModel
         /\ Exited(l, phase).phase = phase /\ Exited(l, phase).run = training[l].run
         /\ Exited(l, phase).tested = training[l].tested /\ Exited(l, phase).best = NoModel
<1> DEFINE t == LaunchOn(training[l].host, training[l].run, 0, NoModel)
<1>1. /\ training[l].run \in RunIds /\ training[l].host \in TrainHosts
      /\ training[l].tested \in Weights \cup {NoModel}
  BY RunningLaunch
<1>2. t \in TrainingRun /\ t.run = training[l].run /\ t.best = NoModel
  BY <1>1, NewLaunch, ArtifactAssumption DEF Trained
<1>3. Exited(l, phase) = [t EXCEPT !.phase = phase, !.tested = training[l].tested]
  BY DEF Exited
<1> HIDE DEF t
<1>4. Exited(l, phase) \in TrainingRun
  BY <1>1, <1>2, <1>3 DEF TrainingRun
<1>5. /\ Exited(l, phase).phase = phase /\ Exited(l, phase).run = training[l].run
      /\ Exited(l, phase).tested = training[l].tested /\ Exited(l, phase).best = NoModel
  BY <1>2, <1>3 DEF TrainingRun
<1> QED
  BY <1>4, <1>5, NoModelAssumption

LEMMA StartKeeps ==
  ASSUME ArtifactInv, NEW l \in Trainings, NEW h \in TrainHosts, ~Started(l),
         NEW run \in RunIds, NEW step \in Trained, NEW best \in Weights \cup {NoModel},
         best # NoModel => Started(best.by),
         training' = [training EXCEPT ![l] = LaunchOn(h, run, step, best)],
         UNCHANGED <<lastSaves, bestFiles, topRanked, modelObjects, modelArtifacts, overridden>>
  PROVE  ArtifactInv'
<1> DEFINE t == LaunchOn(h, run, step, best)
<1>1. /\ t \in TrainingRun /\ t # NoModel /\ t.run = run /\ t.best = best /\ t.score = 0
      /\ t.phase = "fit" /\ t.tested = NoModel /\ t.uri = NoUri
  BY NewLaunch
<1> HIDE DEF t
<1>2. modelArtifacts[l] = NoModel
  BY DEF ArtifactInv, LaunchOK, Started
<1>3. \A r \in topRanked : r.of.by # l
  BY DEF ArtifactInv, RankingOK
<1>4. UpOK(l, t, topRanked, modelObjects, overridden)
  BY <1>1, <1>3 DEF UpOK
<1>5. LaunchOK(l, t, modelArtifacts[l], topRanked, modelObjects, overridden)
  BY <1>1, <1>2, <1>4 DEF LaunchOK
<1> QED
  BY <1>1, <1>5, QuietKeeps DEF t, SavesOrNot

\* A launch that runs goes on, knowing and having ranked what it did.
LEMMA GoesOnKeeps ==
  ASSUME ArtifactInv, NEW l \in Trainings, StillUp(l), NEW new \in TrainingRun,
         training' = [training EXCEPT ![l] = new],
         UNCHANGED <<bestFiles, topRanked, modelObjects, modelArtifacts, overridden>>,
         new.best = training[l].best, new.score = training[l].score, new.uri = training[l].uri,
         SavesOrNot(l, new),
         \/ /\ new.phase \in {"fit", "test"} /\ training[l].phase = "fit"
            /\ new.tested = training[l].tested
         \/ /\ new.phase = "upload" /\ training[l].phase = "test"
            /\ new.best # NoModel => new.tested \in {new.best, NoModel}
         \/ /\ new.phase = "log" /\ training[l].phase = "upload"
            /\ new.tested = training[l].tested
  PROVE  ArtifactInv'
<1>1. /\ UpOK(l, training[l], topRanked, modelObjects, overridden)
      /\ modelArtifacts[l] = NoModel
      /\ training[l].best # NoModel => Started(training[l].best.by)
  BY RunningLaunch
<1>2. UpOK(l, new, topRanked, modelObjects, overridden)
  BY <1>1 DEF UpOK
<1>3. LaunchOK(l, new, modelArtifacts[l], topRanked, modelObjects, overridden)
  BY <1>1, <1>2, NoModelAssumption DEF LaunchOK
<1> QED
  BY <1>1, <1>3, QuietKeeps

LEMMA TrainModelKeeps ==
  ASSUME ArtifactInv, NEW l \in Trainings, TrainModel(l)
  PROVE  ArtifactInv'
<1> DEFINE t == training[l]
<1>0. StillUp(l) /\ t.phase = "fit" /\ t.step < MaxTrained
  BY DEF TrainModel, In, StillUp
<1>1. t \in TrainingRun /\ t.step \in Trained /\ t.best \in Weights \cup {NoModel}
  BY <1>0, RunningLaunch
<1>2. t.step + 1 \in Trained
  BY <1>0, <1>1, ArtifactAssumption DEF Trained
<1>3. training \in [Trainings -> TrainingRun \cup {NoModel}]
  BY DEF ArtifactInv, ArtifactTypeOK
<1>4. PICK kept \in BOOLEAN :
       /\ training' = [training EXCEPT ![l].step = @ + 1, ![l].deferred = @ \/ kept]
       /\ lastSaves' = IF kept
                       THEN [lastSaves EXCEPT ![l] = [step |-> training'[l].step,
                                                      best |-> training[l].best]]
                       ELSE lastSaves
  BY Zenon DEF TrainModel
<1> DEFINE deferred == t.deferred \/ kept
           new == [t EXCEPT !.step = t.step + 1, !.deferred = deferred]
<1>5. training' = [training EXCEPT ![l] = new]
  BY <1>4
<1>6. deferred \in BOOLEAN
  OBVIOUS
<1> HIDE DEF deferred
<1>7. /\ new \in TrainingRun /\ new.best = t.best /\ new.score = t.score /\ new.phase = t.phase
      /\ new.tested = t.tested /\ new.step = t.step + 1 /\ new.uri = t.uri
  BY <1>1, <1>2, <1>6 DEF TrainingRun
<1> HIDE DEF new
<1>8. training'[l].step \in Trained
  BY <1>2, <1>3, <1>5, <1>7
<1>9. SavesOrNot(l, new)
  BY <1>4, <1>7, <1>8 DEF SavesOrNot
<1>10. UNCHANGED <<bestFiles, topRanked, modelObjects, modelArtifacts, overridden>>
  BY DEF TrainModel
<1> QED
  BY <1>0, <1>5, <1>7, <1>9, <1>10, GoesOnKeeps

LEMMA RankModelKeeps ==
  ASSUME ArtifactInv, NEW l \in Trainings, RankModel(l)
  PROVE  ArtifactInv'
<1> DEFINE t == training[l]
<1>0. /\ StillUp(l) /\ t.phase = "fit"
      /\ UNCHANGED <<lastSaves, modelObjects, modelArtifacts, overridden>>
  BY DEF RankModel, In, StillUp
<1>1. /\ t \in TrainingRun /\ t.step \in Trained /\ t.score \in 0 .. MaxScore
      /\ t.best # NoModel => Started(t.best.by)
      /\ modelArtifacts[l] = NoModel /\ UpOK(l, t, topRanked, modelObjects, overridden)
  BY <1>0, RunningLaunch
<1>2. ArtifactTypeOK /\ RankingOK
  BY DEF ArtifactInv
<1>3. Now(l) \in Weights /\ Now(l).by = l
  BY <1>1 DEF Now, Weights
<1> DEFINE Best(all) == {r \in all : \A q \in all : q.of.by = r.of.by => r.score <= q.score}
<1>4. PICK s \in Scores :
       /\ topRanked' = Best(topRanked \cup {[of |-> Now(l), score |-> s]})
       /\ IF t.score = 0 \/ s < t.score
          THEN /\ training' = [training EXCEPT ![l].deferred = FALSE, ![l].best = Now(l),
                                               ![l].score = s]
               /\ bestFiles' = {w \in bestFiles : w.by # l} \cup {Now(l)}
          ELSE training' = [training EXCEPT ![l].deferred = FALSE] /\ UNCHANGED bestFiles
  BY DEF RankModel
<1> DEFINE entry == [of |-> Now(l), score |-> s]
           all == topRanked \cup {entry}
           Entry == [of : Weights, score : Scores]
<1>5. entry \in Entry /\ entry.of = Now(l) /\ entry.score = s /\ s \in 1 .. MaxScore
  BY <1>3 DEF Scores
<1>6. topRanked \subseteq Entry
  BY <1>2 DEF ArtifactTypeOK
<1>7. \A r \in Entry : r.score \in Nat /\ r.score # 0
  BY DEF Scores
<1> HIDE DEF entry, Entry
<1>8. /\ topRanked' \subseteq all /\ topRanked' \subseteq Entry
      /\ \A r \in topRanked' : \A q \in all : q.of.by = r.of.by => r.score <= q.score
      /\ \A r \in all : (\A q \in all : q.of.by = r.of.by => r.score <= q.score) => r \in topRanked'
  BY <1>4, <1>5, <1>6 DEF entry
<1>9. \A r, q \in topRanked' : r.of.by = q.of.by => r.score = q.score
  BY <1>7, <1>8
<1>10. \A r \in topRanked' : r.of.by # l => r \in topRanked
  BY <1>3, <1>5, <1>8
<1>11. ASSUME NEW r \in topRanked, r.of.by # l PROVE r \in topRanked'
  <2>1. \A q \in all : q.of.by = r.of.by => q \in topRanked
    BY <1>3, <1>5, <1>11
  <2>2. \A q \in all : q.of.by = r.of.by => r.score <= q.score
    BY <1>2, <1>6, <1>7, <1>11, <2>1 DEF RankingOK
  <2> QED
    BY <1>8, <1>11, <2>2
<1>12. \A r \in topRanked : r.of.by = l => r.score = t.score
  BY <1>1 DEF UpOK
<1>13. bestFiles' \subseteq Weights
  BY <1>2, <1>3, <1>4 DEF ArtifactTypeOK
<1>14. ASSUME NEW new \in TrainingRun, training' = [training EXCEPT ![l] = new],
              new.phase = "fit", new.tested = t.tested, new.uri = t.uri,
              new.best # NoModel => new.best.by = l \/ Started(new.best.by),
              new.score = 0 => new.best = NoModel \/ new.best.by # l,
              new.score # 0 => new.best \in Weights /\ new.best.by = l
                               /\ [of |-> new.best, score |-> new.score] \in topRanked',
              \A r \in topRanked' : r.of.by = l => r.score = new.score
       PROVE  ArtifactInv'
  <2>1. UpOK(l, new, topRanked', modelObjects, overridden)
    BY <1>0, <1>1, <1>14 DEF UpOK
  <2>2. LaunchOK(l, new, modelArtifacts'[l], topRanked', modelObjects', overridden)
    BY <1>0, <1>1, <1>14, <2>1, NoModelAssumption DEF LaunchOK
  <2>3. /\ lastSaves' \in [Trainings -> [step : Trained, best : Weights \cup {NoModel}] \cup {NoModel}]
        /\ modelArtifacts' \in [Trainings -> Artifact \cup {NoModel}]
    BY <1>0, <1>2 DEF ArtifactTypeOK
  <2> QED
    BY <1>0, <1>8, <1>9, <1>10, <1>11, <1>13, <1>14, <2>2, <2>3, LaunchKeeps DEF Entry
<1>15. CASE t.score = 0 \/ s < t.score
  <2> DEFINE new == [t EXCEPT !.deferred = FALSE, !.best = Now(l), !.score = s]
  <2>1. training' = [training EXCEPT ![l] = new]
    BY <1>4, <1>15
  <2>2. s \in 0 .. MaxScore /\ s # 0
    BY <1>5, ArtifactAssumption
  <2>3. /\ new \in TrainingRun /\ new.phase = t.phase /\ new.tested = t.tested
        /\ new.best = Now(l) /\ new.score = s /\ new.uri = t.uri
    BY <1>1, <1>3, <2>2 DEF TrainingRun
  <2> HIDE DEF new
  <2>4. \A q \in all : q.of.by = l => s <= q.score
    BY <1>1, <1>5, <1>6, <1>7, <1>12, <1>15
  <2>5. entry \in topRanked'
    BY <1>3, <1>5, <1>8, <2>4
  <2>6. \A r \in topRanked' : r.of.by = l => r.score = s
    BY <1>3, <1>5, <1>9, <2>5
  <2> QED
    BY <1>0, <1>3, <1>14, <2>1, <2>2, <2>3, <2>5, <2>6 DEF entry
<1>16. CASE ~(t.score = 0 \/ s < t.score)
  <2> DEFINE new == [t EXCEPT !.deferred = FALSE]
             own == [of |-> t.best, score |-> t.score]
  <2>1. training' = [training EXCEPT ![l] = new]
    BY <1>4, <1>16
  <2>2. /\ new \in TrainingRun /\ new.phase = t.phase /\ new.tested = t.tested
        /\ new.best = t.best /\ new.score = t.score /\ new.uri = t.uri
    BY <1>1 DEF TrainingRun
  <2> HIDE DEF new
  <2>3. t.score # 0 /\ t.best \in Weights /\ t.best.by = l /\ own \in topRanked
    BY <1>1, <1>16 DEF UpOK
  <2>4. \A q \in all : q.of.by = l => t.score <= q.score
    BY <1>1, <1>5, <1>6, <1>7, <1>12, <1>16
  <2>5. own.of.by = l /\ own.score = t.score
    BY <2>3
  <2> HIDE DEF own
  <2>6. own \in topRanked'
    BY <1>8, <2>3, <2>4, <2>5
  <2>7. \A r \in topRanked' : r.of.by = l => r.score = t.score
    BY <1>9, <2>5, <2>6
  <2> QED
    BY <1>0, <1>14, <2>1, <2>2, <2>3, <2>6, <2>7 DEF own
<1> QED
  BY <1>15, <1>16

LEMMA FitDoneKeeps ==
  ASSUME ArtifactInv, NEW l \in Trainings, FitDone(l)
  PROVE  ArtifactInv'
<1> DEFINE t == training[l]
           new == [t EXCEPT !.phase = "test"]
<1>1. /\ StillUp(l) /\ t.phase = "fit" /\ training' = [training EXCEPT ![l] = new]
      /\ UNCHANGED <<lastSaves, bestFiles, topRanked, modelObjects, modelArtifacts, overridden>>
  BY DEF FitDone, In, StillUp
<1>2. t \in TrainingRun
  BY <1>1, RunningLaunch
<1>3. /\ new \in TrainingRun /\ new.best = t.best /\ new.score = t.score /\ new.phase = "test"
      /\ new.tested = t.tested /\ new.uri = t.uri
  BY <1>2 DEF TrainingRun
<1> HIDE DEF new
<1> QED
  BY <1>1, <1>3, GoesOnKeeps DEF SavesOrNot

LEMMA TestModelKeeps ==
  ASSUME ArtifactInv, NEW l \in Trainings, TestModel(l)
  PROVE  ArtifactInv'
<1> DEFINE t == training[l]
           tested == IF t.best = NoModel THEN Now(l) ELSE t.best
           withTest == [t EXCEPT !.phase = "upload", !.tested = tested]
           without == [t EXCEPT !.phase = "upload"]
<1>1. /\ StillUp(l) /\ t.phase = "test"
      /\ UNCHANGED <<lastSaves, bestFiles, topRanked, modelObjects, modelArtifacts, overridden>>
      /\ \/ training' = [training EXCEPT ![l] = withTest]
         \/ training' = [training EXCEPT ![l] = without]
  BY DEF TestModel, In, StillUp
<1>2. /\ t \in TrainingRun /\ t.best \in Weights \cup {NoModel} /\ t.step \in Trained
      /\ UpOK(l, t, topRanked, modelObjects, overridden)
  BY <1>1, RunningLaunch
<1>3. tested \in Weights \cup {NoModel} /\ (t.best # NoModel => tested = t.best)
  BY <1>2 DEF Now, Weights
<1>4. t.tested = NoModel
  BY <1>1, <1>2 DEF UpOK
<1> HIDE DEF tested
<1>5. /\ withTest \in TrainingRun /\ withTest.best = t.best /\ withTest.score = t.score
      /\ withTest.phase = "upload" /\ withTest.tested = tested
      /\ withTest.uri = t.uri
  BY <1>2, <1>3 DEF TrainingRun
<1>6. /\ without \in TrainingRun /\ without.best = t.best /\ without.score = t.score
      /\ without.phase = "upload" /\ without.tested = t.tested
      /\ without.uri = t.uri
  BY <1>2 DEF TrainingRun
<1> HIDE DEF withTest, without
<1>7. CASE training' = [training EXCEPT ![l] = withTest]
  BY <1>1, <1>3, <1>5, <1>7, GoesOnKeeps DEF SavesOrNot
<1>8. CASE training' = [training EXCEPT ![l] = without]
  BY <1>1, <1>4, <1>6, <1>8, GoesOnKeeps DEF SavesOrNot
<1> QED
  BY <1>1, <1>7, <1>8

LEMMA UploadBestKeeps ==
  ASSUME ArtifactInv, NEW l \in Trainings, UploadBest(l)
  PROVE  ArtifactInv'
<1> DEFINE t == training[l]
<1>0. /\ StillUp(l) /\ t.phase = "upload"
      /\ UNCHANGED <<lastSaves, bestFiles, topRanked, modelArtifacts, overridden>>
  BY DEF UploadBest, In, StillUp
<1>1. /\ t \in TrainingRun /\ t.run \in RunIds /\ t.best \in Weights \cup {NoModel}
      /\ t.best # NoModel => Started(t.best.by)
      /\ modelArtifacts[l] = NoModel /\ UpOK(l, t, topRanked, modelObjects, overridden)
  BY <1>0, RunningLaunch
<1>2. ArtifactTypeOK /\ RankingOK
  BY DEF ArtifactInv
<1>3. ASSUME training' = [training EXCEPT ![l].phase = "log"], UNCHANGED modelObjects
      PROVE  ArtifactInv'
  <2> DEFINE new == [t EXCEPT !.phase = "log"]
  <2>1. training' = [training EXCEPT ![l] = new]
    BY <1>3
  <2>2. /\ new \in TrainingRun /\ new.best = t.best /\ new.score = t.score /\ new.phase = "log"
        /\ new.tested = t.tested /\ new.uri = t.uri /\ new.run = t.run
    BY <1>1 DEF TrainingRun
  <2> HIDE DEF new
  <2> QED
    BY <1>0, <1>3, <2>1, <2>2, GoesOnKeeps DEF SavesOrNot
<1>4. ASSUME WrittenByRun(l) # NoModel,
             modelObjects' = [modelObjects EXCEPT ![CheckpointUri(l)] = WrittenByRun(l)],
             training' = [training EXCEPT ![l].phase = "log", ![l].uri = CheckpointUri(l)]
      PROVE  ArtifactInv'
  <2> DEFINE u == UriOf(overridden, t.run, l)
             new == [t EXCEPT !.phase = "log", !.uri = u]
  <2>1. WrittenByRun(l) = t.best /\ t.best \in Weights /\ t.best.by = l
    BY <1>1, <1>4 DEF WrittenByRun
  <2>2. CheckpointUri(l) = u /\ u \in Uris
    BY <1>1 DEF CheckpointUri, UriOf, Uris
  <2> HIDE DEF u
  <2>3. training' = [training EXCEPT ![l] = new]
    BY <1>4, <2>2
  <2>4. /\ new \in TrainingRun /\ new.best = t.best /\ new.score = t.score /\ new.phase = "log"
        /\ new.tested = t.tested /\ new.uri = u /\ new.run = t.run
    BY <1>1, <2>2 DEF TrainingRun
  <2> HIDE DEF new
  <2>5. modelObjects' = [modelObjects EXCEPT ![u] = t.best]
    BY <1>4, <2>1, <2>2
  <2>6. modelObjects'[u] = t.best
    BY <1>2, <2>2, <2>5 DEF ArtifactTypeOK
  <2>7. UploadOK(l, t.best, t.run, modelObjects', overridden)
    BY <2>1, <2>6 DEF UploadOK, u
  <2>8. t.best # NoModel
    BY <2>1, NoModelAssumption
  <2>9. t.score # 0 /\ t.tested \in {t.best, NoModel}
    BY <1>0, <1>1, <2>1, <2>8 DEF UpOK
  <2>10. UpOK(l, new, topRanked, modelObjects', overridden)
    BY <1>1, <2>4, <2>7, <2>9 DEF UpOK, u
  <2>11. LaunchOK(l, new, modelArtifacts'[l], topRanked', modelObjects', overridden)
    BY <1>0, <1>1, <2>4, <2>10, NoModelAssumption DEF LaunchOK
  <2>12. /\ lastSaves' \in [Trainings -> [step : Trained, best : Weights \cup {NoModel}] \cup {NoModel}]
         /\ modelArtifacts' \in [Trainings -> Artifact \cup {NoModel}]
         /\ bestFiles' \subseteq Weights /\ topRanked' \subseteq [of : Weights, score : Scores]
         /\ \A r, q \in topRanked' : r.of.by = q.of.by => r.score = q.score
    BY <1>0, <1>2 DEF ArtifactTypeOK, RankingOK
  <2>13. modelObjects' = [modelObjects EXCEPT ![UriOf(overridden, new.run, l)] = t.best]
    BY <2>4, <2>5 DEF u
  <2> QED
    BY <1>0, <2>1, <2>3, <2>4, <2>11, <2>12, <2>13, LaunchKeeps
<1> QED
  BY <1>3, <1>4 DEF UploadBest

LEMMA TrainingDiesKeeps ==
  ASSUME ArtifactInv, NEW l \in Trainings, TrainingDies(l)
  PROVE  ArtifactInv'
<1> DEFINE new == Exited(l, "dead")
<1>0. /\ StillUp(l) /\ training' = [training EXCEPT ![l] = new]
      /\ UNCHANGED <<lastSaves, bestFiles, topRanked, modelObjects, modelArtifacts, overridden>>
  BY DEF TrainingDies
<1>1. new \in TrainingRun /\ new # NoModel /\ new.phase = "dead" /\ new.best = NoModel
  BY <1>0, ExitedLaunch
<1> HIDE DEF new
<1>2. modelArtifacts[l] = NoModel
  BY <1>0, RunningLaunch
<1>3. LaunchOK(l, new, modelArtifacts[l], topRanked, modelObjects, overridden)
  BY <1>1, <1>2 DEF LaunchOK
<1> QED
  BY <1>0, <1>1, <1>3, QuietKeeps DEF SavesOrNot

LEMMA LogModelKeeps ==
  ASSUME ArtifactInv, NEW l \in Trainings, LogModel(l)
  PROVE  ArtifactInv'
<1> DEFINE t == training[l]
           new == Exited(l, "over")
<1>0. /\ StillUp(l) /\ t.phase = "log" /\ training' = [training EXCEPT ![l] = new]
      /\ UNCHANGED <<lastSaves, bestFiles, topRanked, modelObjects, overridden>>
  BY DEF LogModel, In, StillUp
<1>1. /\ t \in TrainingRun /\ t.score \in 0 .. MaxScore /\ t.best \in Weights \cup {NoModel}
      /\ modelArtifacts[l] = NoModel /\ UpOK(l, t, topRanked, modelObjects, overridden)
  BY <1>0, RunningLaunch
<1>2. /\ new \in TrainingRun /\ new # NoModel /\ new.phase = "over" /\ new.best = NoModel
      /\ new.run = t.run /\ new.tested = t.tested
  BY <1>0, ExitedLaunch
<1> HIDE DEF new
<1>3. ArtifactTypeOK /\ RankingOK
  BY DEF ArtifactInv
<1>4. /\ lastSaves' \in [Trainings -> [step : Trained, best : Weights \cup {NoModel}] \cup {NoModel}]
      /\ bestFiles' \subseteq Weights /\ topRanked' \subseteq [of : Weights, score : Scores]
      /\ \A r, q \in topRanked' : r.of.by = q.of.by => r.score = q.score
      /\ modelArtifacts \in [Trainings -> Artifact \cup {NoModel}]
  BY <1>0, <1>3 DEF ArtifactTypeOK, RankingOK
<1>5. ASSUME UNCHANGED modelArtifacts PROVE ArtifactInv'
  <2>1. LaunchOK(l, new, modelArtifacts'[l], topRanked', modelObjects', overridden)
    BY <1>1, <1>2, <1>5 DEF LaunchOK
  <2> QED
    BY <1>0, <1>2, <1>4, <1>5, <2>1, LaunchKeeps
<1>6. ASSUME NEW a \in Described(l), modelArtifacts' = [modelArtifacts EXCEPT ![l] = a]
      PROVE  ArtifactInv'
  <2>1. WrittenByRun(l) \in Weights \cup {NoModel}
    BY <1>1 DEF WrittenByRun
  <2>2. t.uri \in Uris \cup {NoUri}
    BY <1>1 DEF TrainingRun
  <2>3. a \in Artifact
    BY <1>1, <1>6, <2>1, <2>2, ArtifactAssumption DEF Described, Artifact
  <2>4. modelArtifacts' \in [Trainings -> Artifact \cup {NoModel}] /\ modelArtifacts'[l] = a
    BY <1>4, <1>6, <2>3
  <2>5. ASSUME a.uri # NoUri
        PROVE  LoggedOK(l, new, a, topRanked, modelObjects, overridden)
    <3>1. t.uri # NoUri
      BY <1>6, <2>5 DEF Described
    <3>2. /\ a.uri = t.uri /\ a.of \in {WrittenByRun(l), NoModel} /\ a.score = t.score
      BY <1>6, <3>1 DEF Described
    <3>3. /\ t.uri = UriOf(overridden, t.run, l) /\ t.score # 0
          /\ UploadOK(l, t.best, t.run, modelObjects, overridden)
      BY <1>0, <1>1, <3>1 DEF UpOK
    <3>4. t.best \in Weights /\ t.best.by = l /\ [of |-> t.best, score |-> t.score] \in topRanked
      BY <1>1, <3>3 DEF UpOK
    <3>5. t.best # NoModel /\ t.tested \in {t.best, NoModel} /\ WrittenByRun(l) = t.best
      BY <1>0, <1>1, <3>4, NoModelAssumption DEF UpOK, WrittenByRun
    <3> QED
      BY <1>2, <3>2, <3>3, <3>4, <3>5 DEF LoggedOK
  <2>6. LaunchOK(l, new, modelArtifacts'[l], topRanked', modelObjects', overridden)
    BY <1>0, <1>2, <2>4, <2>5 DEF LaunchOK
  <2>7. \A k \in Trainings : k # l => modelArtifacts'[k] = modelArtifacts[k]
    BY <1>4, <1>6
  <2> QED
    BY <1>0, <1>2, <1>4, <2>4, <2>6, <2>7, LaunchKeeps
<1> QED
  BY <1>5, <1>6 DEF LogModel

LEMMA ArtifactStep == ArtifactInv /\ [ArtifactNext]_artifactVars => ArtifactInv'
<1> SUFFICES ASSUME ArtifactInv, [ArtifactNext]_artifactVars PROVE ArtifactInv'
  OBVIOUS
<1>1. ASSUME NEW l \in Trainings, NEW h \in TrainHosts, StartFresh(l, h) PROVE ArtifactInv'
  <2>1. PICK run \in RunIds : training' = [training EXCEPT ![l] = LaunchOn(h, run, 0, NoModel)]
    BY <1>1 DEF StartFresh
  <2>2. 0 \in Trained
    BY ArtifactAssumption DEF Trained
  <2> QED
    BY <1>1, <2>1, <2>2, StartKeeps DEF StartFresh, NextToStart
<1>2. ASSUME NEW l \in Trainings, NEW h \in TrainHosts, StartResumed(l, h) PROVE ArtifactInv'
  <2>1. PICK k \in Trainings :
          /\ lastSaves[k] # NoModel
          /\ training' = [training EXCEPT ![l] =
               LaunchOn(h, training[k].run, lastSaves[k].step, lastSaves[k].best)]
    BY <1>2 DEF StartResumed
  <2>2. /\ lastSaves[k] \in [step : Trained, best : Weights \cup {NoModel}]
        /\ training[k] \in TrainingRun
    BY <2>1 DEF ArtifactInv, ArtifactTypeOK, RankingOK, Started
  <2>3. /\ training[k].run \in RunIds /\ lastSaves[k].step \in Trained
        /\ lastSaves[k].best \in Weights \cup {NoModel}
    BY <2>2 DEF TrainingRun
  <2>4. lastSaves[k].best # NoModel => Started(lastSaves[k].best.by)
    BY <2>1 DEF ArtifactInv, RankingOK
  <2> QED
    BY <1>2, <2>1, <2>3, <2>4, StartKeeps DEF StartResumed, NextToStart
<1>3. ASSUME NEW h \in TrainHosts, TrainHostLost(h) PROVE ArtifactInv'
  <2>1. /\ UNCHANGED <<training, lastSaves, topRanked, modelObjects, modelArtifacts, overridden>>
        /\ bestFiles' \subseteq bestFiles
    BY <1>3 DEF TrainHostLost
  <2> QED
    BY <2>1 DEF ArtifactInv, ArtifactTypeOK, RankingOK, Started
<1>4. CASE UNCHANGED artifactVars
  BY <1>4 DEF artifactVars, ArtifactInv, ArtifactTypeOK, RankingOK, Started
<1> QED
  BY <1>1, <1>2, <1>3, <1>4, TrainModelKeeps, RankModelKeeps, FitDoneKeeps, TrainingDiesKeeps,
     TestModelKeeps, UploadBestKeeps, LogModelKeeps DEF ArtifactNext

\* However launches of a run overlap, resume each other and die, what a launch's
\* artifact refers to is the best checkpoint of that launch, described and
\* tested as such; for any number of launches, hosts, run ids and scores.
THEOREM ArtifactDescribesItsModel == ArtifactSpec => []ModelIsTheOneDescribed
<1>1. ASSUME ArtifactInv PROVE ModelIsTheOneDescribed
  <2> SUFFICES ASSUME NEW l \in Trainings, modelArtifacts[l] # NoModel, modelArtifacts[l].uri # NoUri
               PROVE  LET a == modelArtifacts[l] IN
                      /\ overridden \/ modelObjects[a.uri].by = l
                      /\ modelObjects[a.uri].by = l =>
                           /\ a.of \in {modelObjects[a.uri], NoModel}
                           /\ [of |-> modelObjects[a.uri], score |-> a.score] \in topRanked
                           /\ training[l].tested \in {modelObjects[a.uri], NoModel}
    BY DEF ModelIsTheOneDescribed
  <2>1. LoggedOK(l, training[l], modelArtifacts[l], topRanked, modelObjects, overridden)
    BY <1>1 DEF ArtifactInv, LaunchOK
  <2> QED
    BY <2>1 DEF LoggedOK, UploadOK
<1> QED
  BY <1>1, ArtifactStarts, ArtifactStep, PTL DEF ArtifactSpec

-----------------------------------------------------------------------------
(***************************************************************************)
(* A chain of launches: the later one saves the further one.               *)
(***************************************************************************)

\* The times of the saves of a disk, or of the mirrors, grow with their launches.
TimesKept(saves) ==
  \A l \in Fits : saves[l] # NoSave =>
    /\ l <= fits
    /\ saves[l].time <= l
    /\ \A k \in Fits : saves[k] # NoSave /\ k < l => saves[k].time <= saves[l].time

ClocksOK == (\A h \in Hosts : TimesKept(disks[h])) /\ TimesKept(mirrors)

\* So do their steps, where each launch went on from the last.
StepsKept(saves) ==
  \A k, l \in Fits : saves[k] # NoSave /\ saves[l] # NoSave /\ k < l => saves[k].step <= saves[l].step

\* The launch under way is past all that the others saved, and its own saves are
\* between where it began and where it is.
Surpasses(saves) ==
  \A l \in Fits : saves[l] # NoSave =>
    /\ l # fits => saves[l].step <= fit.began
    /\ l = fits => fit.began <= saves[l].step /\ saves[l].step <= fit.step

\* One host at most has checkpoints, and what it has is as far as the mirrors.
ChainOK ==
  steady =>
    /\ (\A h \in Hosts : StepsKept(disks[h])) /\ StepsKept(mirrors)
    /\ \A g, h \in Hosts : \A k, l \in Fits : disks[g][k] # NoSave /\ disks[h][l] # NoSave => g = h
    /\ \A h \in Hosts : \A k, l \in Fits : disks[h][k] # NoSave /\ mirrors[l] # NoSave =>
         \E j \in Fits : disks[h][j] # NoSave /\ mirrors[l].step <= disks[h][j].step
    /\ fit # NoFit =>
         /\ \A g \in Hosts \ {fit.host} : \A l \in Fits : disks[g][l] = NoSave
         /\ fit.began <= fit.step
         /\ Surpasses(disks[fit.host]) /\ Surpasses(mirrors)

\* The launch under way has no save before it trains; the revision it mirrored
\* is not ahead of its token, and is its last save if it is the token.
FitOK ==
  fit # NoFit =>
    /\ fits \in Fits
    /\ fit.phase = "start" => mirrors[fits] = NoSave /\ disks[fit.host][fits] = NoSave
    /\ fit.token <= fit.step
    /\ fit.uploaded # NoSave => fit.uploaded <= fit.token
    /\ fit.uploaded = fit.token /\ Last # NoSave =>
         mirrors[fits] # NoSave /\ mirrors[fits].step = Last.step
    /\ fit.phase = "ended" =>
         Last = NoSave \/ fit.uploaded = fit.token \/ fit.pending = fit.token

MirrorInv == MirrorTypeOK /\ ClocksOK /\ ChainOK /\ FitOK

\* A set of launches that is not empty has a last one.
LEMMA LastLaunch ==
  ASSUME NEW P \in SUBSET Fits, P # {}
  PROVE  \E l \in P : \A k \in P : k <= l
<1> DEFINE L == {ss \in Nat \X Nat : ss[1] < ss[2]}
           Q == {n \in Nat : \E l \in P : n = MaxFits - l}
<1>0. \A l \in P : l \in Nat /\ l <= MaxFits /\ MaxFits - l \in Nat /\ MaxFits \in Nat
  BY MirrorAssumption DEF Fits
<1>1. Q \subseteq Nat /\ Q # {}
  BY <1>0
<1>2. PICK n \in Q : \A m \in Q : ~ (<<m, n>> \in L)
  <2>1. IsWellFoundedOn(L, Nat)
    BY NatLessThanWellFounded DEF OpToRel
  <2> HIDE DEF L, Q
  <2> QED
    BY <1>1, <2>1, WFMin
<1>3. PICK l \in P : n = MaxFits - l
  BY <1>2
<1>4. ASSUME NEW k \in P PROVE k <= l
  <2>1. MaxFits - k \in Q /\ n \in Nat
    BY <1>0, <1>2
  <2>2. ~ (MaxFits - k < n)
    <3>1. ~ (<<MaxFits - k, n>> \in L)
      BY <1>2, <2>1
    <3> QED
      BY <2>1, <3>1
  <2> QED
    BY <1>0, <1>3, <2>2
<1> QED
  BY <1>4

\* Where the times grow with the launches, the newest is the last.
LEMMA NewestIsLast ==
  ASSUME NEW saves \in [Fits -> Save \cup {NoSave}], TimesKept(saves), Present(saves) # {}
  PROVE  /\ NewestOf(saves) \in Fits /\ saves[NewestOf(saves)] # NoSave
         /\ saves[NewestOf(saves)] \in Save
         /\ \A k \in Fits : saves[k] # NoSave => k <= NewestOf(saves)
<1> DEFINE Later(l, k) == \/ saves[l].time > saves[k].time
                          \/ saves[l].time = saves[k].time /\ l >= k
           n == NewestOf(saves)
<1>0. /\ \A l \in Present(saves) : l \in Fits /\ saves[l] # NoSave /\ l \in Nat
                                  /\ saves[l].time \in Nat /\ saves[l] \in Save
      /\ \A k, l \in Present(saves) : k < l => saves[k].time <= saves[l].time
  <2>1. ASSUME NEW l \in Present(saves)
        PROVE  l \in Fits /\ saves[l] # NoSave /\ l \in Nat /\ saves[l].time \in Nat /\ saves[l] \in Save
    BY MirrorAssumption DEF Present, Fits, Save, Times
  <2> QED
    BY <2>1 DEF TimesKept
<1>1. \E l \in Present(saves) : \A k \in Present(saves) : Later(l, k)
  <2>1. PICK l \in Present(saves) : \A k \in Present(saves) : k <= l
    BY LastLaunch DEF Present
  <2>2. ASSUME NEW k \in Present(saves) PROVE Later(l, k)
    BY <1>0, <2>1
  <2> QED
    BY <2>2
<1>2. n = CHOOSE l \in Present(saves) : \A k \in Present(saves) : Later(l, k)
  BY DEF NewestOf
<1> HIDE DEF n, Later
<1>3. n \in Present(saves) /\ \A k \in Present(saves) : Later(n, k)
  BY <1>1, <1>2
<1>4. ASSUME NEW k \in Present(saves) PROVE k <= n
  BY <1>0, <1>3 DEF Later
<1> QED
  BY <1>0, <1>3, <1>4 DEF n, Present

\* A file written now is as late as those of the launches before.
LEMMA LatestIsBefore ==
  ASSUME NEW saves \in [Fits -> Save \cup {NoSave}], TimesKept(saves), fits \in Fits
  PROVE  /\ LatestTime(saves) \in Nat /\ LatestTime(saves) < fits
         /\ \A l \in Fits : saves[l] # NoSave /\ l # fits => saves[l].time <= LatestTime(saves)
<1> DEFINE Earlier == Present(saves) \ {fits}
           Bounds(t) == /\ \A l \in Earlier : saves[l].time <= t
                        /\ t = 0 \/ \E l \in Earlier : saves[l].time = t
           newest == LatestTime(saves)
<1>0. /\ \A l \in Earlier : /\ l \in Nat /\ l < fits /\ l \in Fits /\ saves[l] # NoSave
                           /\ saves[l].time \in Times /\ saves[l].time \in Nat /\ saves[l].time <= l
      /\ \A k, l \in Earlier : k < l => saves[k].time <= saves[l].time
      /\ fits \in Nat /\ fits > 0
  <2>1. ASSUME NEW l \in Earlier
        PROVE  l \in Nat /\ l \in Fits /\ saves[l] # NoSave /\ saves[l].time \in Times
               /\ saves[l].time \in Nat
    BY MirrorAssumption DEF Present, Fits, Save, Times
  <2>2. fits \in Nat /\ fits > 0
    BY MirrorAssumption DEF Fits
  <2> QED
    BY <2>1, <2>2 DEF TimesKept
<1>1. \E t \in Times : Bounds(t)
  <2>1. CASE Earlier = {}
    <3>1. 0 \in Times /\ Bounds(0)
      BY <2>1, MirrorAssumption DEF Times
    <3> QED
      BY <3>1
  <2>2. CASE Earlier # {}
    <3>1. PICK l \in Earlier : \A k \in Earlier : k <= l
      BY <2>2, LastLaunch DEF Present
    <3>2. saves[l].time \in Times /\ \A k \in Earlier : saves[k].time <= saves[l].time
      BY <1>0, <3>1
    <3>3. Bounds(saves[l].time)
      BY <3>1, <3>2
    <3> QED
      BY <3>2, <3>3
  <2> QED
    BY <2>1, <2>2
<1>2. newest = CHOOSE t \in Times : Bounds(t)
  BY DEF LatestTime
<1> HIDE DEF newest, Bounds
<1>3. newest \in Times /\ Bounds(newest)
  BY <1>1, <1>2
<1>4. newest \in Nat
  BY <1>3, MirrorAssumption DEF Times
<1>5. newest < fits
  BY <1>0, <1>3, <1>4 DEF Bounds
<1> QED
  BY <1>3, <1>4, <1>5 DEF newest, Bounds, Present

\* Saves and launches as they are typed.
LEMMA SaveFields ==
  ASSUME MirrorTypeOK
  PROVE  /\ \A h \in Hosts : disks[h] \in [Fits -> Save \cup {NoSave}]
         /\ mirrors \in [Fits -> Save \cup {NoSave}]
         /\ \A h \in Hosts : \A l \in Fits : disks[h][l] # NoSave =>
              /\ disks[h][l] \in Save /\ disks[h][l].step \in Steps
              /\ disks[h][l].step \in Nat /\ disks[h][l].time \in Nat
         /\ \A l \in Fits : mirrors[l] # NoSave =>
              /\ mirrors[l] \in Save /\ mirrors[l].step \in Steps
              /\ mirrors[l].step \in Nat /\ mirrors[l].time \in Nat
<1>1. \A s \in Save : s.step \in Steps /\ s.step \in Nat /\ s.time \in Nat
  BY MirrorAssumption DEF Save, Steps, Times
<1>2. /\ \A h \in Hosts : disks[h] \in [Fits -> Save \cup {NoSave}]
      /\ mirrors \in [Fits -> Save \cup {NoSave}]
  BY DEF MirrorTypeOK
<1>3. /\ \A h \in Hosts : \A l \in Fits : disks[h][l] # NoSave => disks[h][l] \in Save
      /\ \A l \in Fits : mirrors[l] # NoSave => mirrors[l] \in Save
  BY <1>2
<1> QED
  BY <1>1, <1>2, <1>3, Zenon

LEMMA FitFields ==
  ASSUME MirrorTypeOK, fit # NoFit
  PROVE  /\ fit \in Fit /\ fit.host \in Hosts
         /\ fit.began \in Steps /\ fit.step \in Steps /\ fit.token \in Steps
         /\ fit.began \in Nat /\ fit.step \in Nat /\ fit.token \in Nat
         /\ fit.uploaded # NoSave => fit.uploaded \in Nat
         /\ fit.token # NoSave /\ fit.attempts \in 0 .. MaxAttempts
<1>1. fit \in Fit
  BY DEF MirrorTypeOK
<1>2. \A f \in Fit : /\ f.host \in Hosts /\ f.began \in Steps /\ f.step \in Steps
                     /\ f.token \in Steps /\ f.attempts \in 0 .. MaxAttempts
                     /\ f.uploaded # NoSave => f.uploaded \in Steps
  BY DEF Fit, Revision
<1>3. \A s \in Steps : s \in Nat /\ s # NoSave
  BY MirrorAssumption DEF Steps
<1> QED
  BY <1>1, <1>2, <1>3, Zenon

\* What a launch that overlooks nothing finds is as far as all there is.
LEMMA DiscoveredIsFurthest ==
  ASSUME MirrorInv, NEW h \in Hosts, NEW reached \in BOOLEAN
  PROVE  /\ Discovered(h, reached) \in Steps
         /\ steady /\ ~Overlooks(h, reached) =>
              /\ \A l \in Fits : disks[h][l] # NoSave => disks[h][l].step <= Discovered(h, reached)
              /\ \A l \in Fits : mirrors[l] # NoSave => mirrors[l].step <= Discovered(h, reached)
<1> USE DEF MirrorInv
<1> DEFINE disk == disks[h]
<1>0. /\ disk \in [Fits -> Save \cup {NoSave}] /\ mirrors \in [Fits -> Save \cup {NoSave}]
      /\ TimesKept(disk) /\ TimesKept(mirrors)
      /\ steady => StepsKept(disk) /\ StepsKept(mirrors)
      /\ \A l \in Fits : disk[l] # NoSave => disk[l].step \in Steps /\ disk[l].step \in Nat
      /\ \A l \in Fits : mirrors[l] # NoSave => mirrors[l].step \in Steps /\ mirrors[l].step \in Nat
  BY SaveFields DEF ClocksOK, ChainOK
<1> HIDE DEF disk
<1>01. ASSUME NEW saves \in [Fits -> Save \cup {NoSave}], TimesKept(saves), StepsKept(saves),
             Present(saves) # {}, NEW l \in Fits, saves[l] # NoSave,
             \A k \in Fits : saves[k] # NoSave => saves[k].step \in Nat
      PROVE  saves[l].step <= saves[NewestOf(saves)].step
  <2>1. /\ NewestOf(saves) \in Fits /\ saves[NewestOf(saves)] # NoSave /\ l <= NewestOf(saves)
    BY <1>01, NewestIsLast
  <2>2. CASE l = NewestOf(saves)
    BY <1>01, <2>1, <2>2
  <2>3. CASE l # NewestOf(saves)
    <3>1. l < NewestOf(saves)
      BY <2>1, <2>3, MirrorAssumption DEF Fits
    <3> QED
      BY <1>01, <2>1, <3>1 DEF StepsKept
  <2> QED
    BY <2>2, <2>3
<1>1. CASE Present(disk) # {}
  <2>1. Discovered(h, reached) = disk[NewestOf(disk)].step
    BY <1>1 DEF Discovered, disk
  <2>2. NewestOf(disk) \in Fits /\ disk[NewestOf(disk)] # NoSave
    BY <1>0, <1>1, NewestIsLast
  <2>3. ASSUME steady, NEW l \in Fits, disk[l] # NoSave
        PROVE  disk[l].step <= disk[NewestOf(disk)].step
    BY <1>0, <1>01, <1>1, <2>3
  <2>4. ASSUME steady, NEW l \in Fits, mirrors[l] # NoSave
        PROVE  mirrors[l].step <= disk[NewestOf(disk)].step
    <3>1. PICK j \in Fits : disk[j] # NoSave /\ mirrors[l].step <= disk[j].step
      BY <2>2, <2>4 DEF ChainOK, disk
    <3>2. disk[j].step <= disk[NewestOf(disk)].step
      BY <2>3, <2>4, <3>1
    <3> QED
      BY <1>0, <2>2, <2>4, <3>1, <3>2
  <2> QED
    BY <1>0, <2>1, <2>2, <2>3, <2>4 DEF disk
<1>2. CASE Present(disk) = {} /\ reached /\ Present(mirrors) # {}
  <2>1. Discovered(h, reached) = mirrors[NewestOf(mirrors)].step
    BY <1>2 DEF Discovered, disk
  <2>2. NewestOf(mirrors) \in Fits /\ mirrors[NewestOf(mirrors)] # NoSave
    BY <1>0, <1>2, NewestIsLast
  <2>3. ASSUME steady, NEW l \in Fits, mirrors[l] # NoSave
        PROVE  mirrors[l].step <= mirrors[NewestOf(mirrors)].step
    BY <1>0, <1>01, <1>2, <2>3
  <2>4. \A l \in Fits : disk[l] = NoSave
    BY <1>2 DEF Present
  <2> QED
    BY <1>0, <2>1, <2>2, <2>3, <2>4 DEF disk
<1>3. CASE Present(disk) = {} /\ ~(reached /\ Present(mirrors) # {})
  <2>1. Discovered(h, reached) = 0 /\ 0 \in Steps
    BY <1>3, MirrorAssumption DEF Discovered, disk, Steps
  <2>2. ~Overlooks(h, reached) => Present(mirrors) = {}
    BY <1>3 DEF Overlooks, disk
  <2>3. /\ \A l \in Fits : disk[l] = NoSave
        /\ ~Overlooks(h, reached) => \A l \in Fits : mirrors[l] = NoSave
    BY <1>3, <2>2 DEF Present
  <2> QED
    BY <2>1, <2>3 DEF disk
<1> QED
  BY <1>1, <1>2, <1>3

LEMMA MirrorInitKept == MirrorInit => MirrorInv
BY MirrorAssumption
   DEF MirrorInit, MirrorInv, MirrorTypeOK, ClocksOK, TimesKept, ChainOK, StepsKept, FitOK

LEMMA LaunchFitKept ==
  ASSUME MirrorInv, NEW h \in Hosts, NEW reached \in BOOLEAN, LaunchFit(h, reached)
  PROVE  MirrorInv'
<1> USE DEF MirrorInv
<1> DEFINE found == Discovered(h, reached)
<1>1. /\ fit = NoFit /\ fits < MaxFits /\ fits' = fits + 1
      /\ fit' = FitFrom(h, found)
      /\ steady' = (steady /\ ~Overlooks(h, reached))
      /\ disks' = disks /\ mirrors' = mirrors
  BY DEF LaunchFit
<1>2. /\ found \in Steps /\ found \in Nat
      /\ steady' =>
           /\ \A l \in Fits : disks[h][l] # NoSave => disks[h][l].step <= found
           /\ \A l \in Fits : mirrors[l] # NoSave => mirrors[l].step <= found
  <2>1. found \in Steps
    BY DiscoveredIsFurthest
  <2>2. found \in Nat
    BY <2>1, MirrorAssumption DEF Steps
  <2>3. steady' => steady /\ ~Overlooks(h, reached)
    BY <1>1
  <2> QED
    BY <2>1, <2>2, <2>3, DiscoveredIsFurthest
<1> HIDE DEF found
<1>3. fits \in Nat /\ fits + 1 \in Fits /\ fits' \in 0 .. MaxFits
  BY <1>1, MirrorAssumption DEF MirrorTypeOK, Fits
<1>4. /\ fit' \in Fit /\ fit'.host = h /\ fit'.phase = "start" /\ fit'.began = found
      /\ fit'.step = found /\ fit'.token = 0 /\ fit'.uploaded = NoSave
  BY <1>1, <1>2, MirrorAssumption DEF FitFrom, Fit, Revision, Steps
<1>5. MirrorTypeOK'
  <2>1. steady' \in BOOLEAN
    BY <1>1 DEF MirrorTypeOK
  <2> QED
    BY <1>1, <1>3, <1>4, <2>1 DEF MirrorTypeOK
<1>6. /\ \A g \in Hosts : \A l \in Fits : disks[g][l] # NoSave => l < fits + 1
      /\ \A l \in Fits : mirrors[l] # NoSave => l < fits + 1
  <2>1. \A l \in Fits : l <= fits => l < fits + 1
    BY <1>3, MirrorAssumption DEF Fits
  <2> QED
    BY <2>1 DEF ClocksOK, TimesKept
<1>7. ClocksOK'
  <2>1. \A l \in Fits : l < fits + 1 => l <= fits'
    BY <1>1, <1>3, MirrorAssumption DEF Fits
  <2> QED
    BY <1>1, <1>6, <2>1 DEF ClocksOK, TimesKept
<1>8. ChainOK'
  <2> SUFFICES ASSUME steady' PROVE ChainOK'
    BY DEF ChainOK
  <2>1. steady /\ ~Overlooks(h, reached)
    BY <1>1
  <2>2. \A g \in Hosts \ {h} : \A l \in Fits : disks[g][l] = NoSave
    BY <2>1 DEF Overlooks, Present
  <2>3. \A l \in Fits : l < fits + 1 => l # fits'
    BY <1>1, <1>3, MirrorAssumption DEF Fits
  <2>4. Surpasses(disks[fit.host])' /\ Surpasses(mirrors)'
    BY <1>1, <1>2, <1>4, <1>6, <2>3 DEF Surpasses
  <2>5. fit'.began <= fit'.step
    BY <1>2, <1>4
  <2> QED
    BY <1>1, <1>4, <2>1, <2>2, <2>4, <2>5 DEF ChainOK, StepsKept
<1>9. FitOK'
  <2>1. mirrors'[fits'] = NoSave /\ disks'[fit'.host][fits'] = NoSave
    <3>1. ~(fits + 1 < fits + 1)
      BY <1>3
    <3> QED
      BY <1>1, <1>3, <1>4, <1>6, <3>1
  <2>2. fit'.token <= fit'.step /\ fit'.uploaded # fit'.token
    BY <1>2, <1>4, MirrorAssumption DEF Steps
  <2> QED
    BY <1>1, <1>3, <1>4, <2>1, <2>2 DEF FitOK
<1> QED
  BY <1>5, <1>7, <1>8, <1>9

\* A step of a launch that saves and mirrors nothing.
LEMMA QuietKept ==
  ASSUME MirrorInv, fit # NoFit, UNCHANGED <<disks, mirrors, fits, steady>>,
         fit' \in Fit, fit'.host = fit.host, fit'.began = fit.began,
         fit.step <= fit'.step, fit'.phase # "start",
         fit'.token <= fit'.step,
         fit'.uploaded # NoSave => fit'.uploaded <= fit'.token,
         fit'.uploaded = fit'.token => fit.uploaded = fit.token,
         fit'.phase = "ended" =>
           Last = NoSave \/ fit'.uploaded = fit'.token \/ fit'.pending = fit'.token
  PROVE  MirrorInv'
<1> USE DEF MirrorInv
<1>0. fit.step \in Nat /\ fit.began \in Nat /\ fit'.step \in Nat
  <2>1. fit'.step \in Steps
    BY DEF Fit
  <2> QED
    BY <2>1, FitFields, MirrorAssumption DEF Steps
<1>1. MirrorTypeOK'
  BY DEF MirrorTypeOK
<1>2. ClocksOK'
  BY DEF ClocksOK, TimesKept
<1>3. ChainOK'
  <2> SUFFICES ASSUME steady PROVE ChainOK'
    BY DEF ChainOK
  <2>1. Surpasses(disks[fit.host])'
    <3>1. \A l \in Fits : disks[fit.host][l] # NoSave => disks[fit.host][l].step \in Nat
      BY SaveFields, FitFields
    <3> QED
      BY <1>0, <3>1 DEF ChainOK, Surpasses
  <2>2. Surpasses(mirrors)'
    <3>1. \A l \in Fits : mirrors[l] # NoSave => mirrors[l].step \in Nat
      BY SaveFields
    <3> QED
      BY <1>0, <3>1 DEF ChainOK, Surpasses
  <2>3. fit'.began <= fit'.step
    BY <1>0 DEF ChainOK
  <2> QED
    BY <2>1, <2>2, <2>3 DEF ChainOK, StepsKept
<1>4. FitOK'
  BY DEF FitOK, Last
<1> QED
  BY <1>1, <1>2, <1>3, <1>4

\* A save, of a batch or on leaving, is the latest and the furthest on its disk.
LEMMA SavedKept ==
  ASSUME MirrorInv, fit # NoFit, NEW h, h = fit.host,
         NEW s \in Steps, fit.step <= s, fit.token # s,
         NEW t \in {LatestTime(disks[h]), LatestTime(disks[h]) + 1},
         disks' = [disks EXCEPT ![h][fits] = [step |-> s, time |-> t]],
         fit' \in Fit, fit'.host = h, fit'.began = fit.began, fit'.step = s, fit'.token = s,
         fit'.uploaded = fit.uploaded, fit'.phase \in Hooks,
         UNCHANGED <<mirrors, fits, steady>>
  PROVE  MirrorInv'
<1> USE DEF MirrorInv
<1> DEFINE save == [step |-> s, time |-> t]
<1>0. /\ fit \in Fit /\ h \in Hosts /\ fits \in Fits /\ s \in Nat /\ s # NoSave
      /\ fit.step \in Nat /\ fit.began \in Nat /\ fits \in Nat
      /\ fit.uploaded # NoSave =>
           fit.uploaded \in Nat /\ fit.uploaded <= s /\ fit.uploaded # s
  <2>1. /\ fit \in Fit /\ h \in Hosts /\ fits \in Fits /\ s \in Nat /\ s # NoSave
        /\ fit.step \in Nat /\ fit.began \in Nat /\ fits \in Nat /\ fit.token \in Nat
    BY FitFields, MirrorAssumption DEF FitOK, Fits, Steps
  <2>2. fit.uploaded # NoSave => fit.uploaded \in Nat /\ fit.uploaded <= fit.token
    BY FitFields DEF FitOK
  <2>3. fit.token <= fit.step
    BY DEF FitOK
  <2> QED
    BY <2>1, <2>2, <2>3
<1>1. /\ t \in Nat /\ t <= fits
      /\ \A l \in Fits : disks[h][l] # NoSave /\ l # fits => disks[h][l].time <= t
  <2>1. /\ LatestTime(disks[h]) \in Nat /\ LatestTime(disks[h]) < fits
        /\ \A l \in Fits : disks[h][l] # NoSave /\ l # fits =>
             disks[h][l].time <= LatestTime(disks[h])
    BY <1>0, SaveFields, LatestIsBefore DEF ClocksOK
  <2>2. \A l \in Fits : disks[h][l] # NoSave => disks[h][l].time \in Nat
    BY <1>0, SaveFields
  <2> QED
    BY <1>0, <2>1, <2>2
<1>2. save \in Save /\ save # NoSave /\ save.step = s /\ save.time = t
  <2>1. t \in Times
    BY <1>0, <1>1, MirrorAssumption DEF Times, Fits
  <2> QED
    BY <2>1, MirrorAssumption DEF Save
<1> HIDE DEF save
<1>3. /\ disks' \in [Hosts -> [Fits -> Save \cup {NoSave}]]
      /\ disks'[h][fits] = save
      /\ \A l \in Fits : l # fits => disks'[h][l] = disks[h][l]
      /\ \A g \in Hosts : g # h => disks'[g] = disks[g]
  <2>1. disks' = [disks EXCEPT ![h][fits] = save]
    BY DEF save
  <2> QED
    BY <1>0, <1>2, <2>1 DEF MirrorTypeOK
<1>4. fit' # NoFit => fit'.phase # "start" /\ fit'.phase # "ended"
  BY DEF Hooks
<1>5. MirrorTypeOK'
  BY <1>3 DEF MirrorTypeOK
<1>6. ClocksOK'
  <2>1. TimesKept(disks[h])'
    <3> SUFFICES ASSUME NEW l \in Fits, disks'[h][l] # NoSave
                 PROVE  /\ l <= fits /\ disks'[h][l].time <= l
                        /\ \A k \in Fits : disks'[h][k] # NoSave /\ k < l =>
                             disks'[h][k].time <= disks'[h][l].time
      BY <1>0, <1>4 DEF TimesKept
    <3>1. CASE l = fits
      <4>1. ASSUME NEW k \in Fits, disks'[h][k] # NoSave, k < l
            PROVE  disks'[h][k].time <= t
        <5>1. k # fits
          BY <1>0, <3>1, <4>1
        <5> QED
          BY <1>1, <1>3, <4>1, <5>1
      <4> QED
        BY <1>0, <1>1, <1>2, <1>3, <3>1, <4>1
    <3>2. CASE l # fits
      <4>1. disks'[h][l] = disks[h][l] /\ l <= fits /\ disks[h][l].time <= l
        BY <1>0, <1>3, <3>2 DEF ClocksOK, TimesKept
      <4>2. ASSUME NEW k \in Fits, disks'[h][k] # NoSave, k < l
            PROVE  disks'[h][k].time <= disks'[h][l].time
        <5>1. k # fits
          BY <1>0, <4>1, <4>2, MirrorAssumption DEF Fits
        <5> QED
          BY <1>0, <1>3, <4>1, <4>2, <5>1 DEF ClocksOK, TimesKept
      <4> QED
        BY <4>1, <4>2
    <3> QED
      BY <3>1, <3>2
  <2>2. \A g \in Hosts : g # h => TimesKept(disks[g])'
    BY <1>3 DEF ClocksOK, TimesKept
  <2>3. TimesKept(mirrors)'
    BY DEF ClocksOK, TimesKept
  <2>4. \A g \in Hosts : TimesKept(disks[g])'
    <3> SUFFICES ASSUME NEW g \in Hosts PROVE TimesKept(disks[g])'
      OBVIOUS
    <3>1. CASE g = h
      BY <2>1, <3>1 DEF TimesKept
    <3> QED
      BY <2>2, <3>1
  <2> QED
    BY <2>3, <2>4 DEF ClocksOK
<1>7. ChainOK'
  <2> SUFFICES ASSUME steady PROVE ChainOK'
    BY DEF ChainOK
  <2>1. /\ \A g \in Hosts \ {h} : \A l \in Fits : disks[g][l] = NoSave
        /\ fit.began <= fit.step
        /\ \A l \in Fits : disks[h][l] # NoSave =>
             /\ disks[h][l].step \in Nat
             /\ l # fits => disks[h][l].step <= fit.began
        /\ \A l \in Fits : mirrors[l] # NoSave =>
             /\ mirrors[l].step \in Nat
             /\ l # fits => mirrors[l].step <= fit.began
             /\ l = fits => fit.began <= mirrors[l].step /\ mirrors[l].step <= fit.step
    <3>1. /\ \A l \in Fits : disks[h][l] # NoSave => disks[h][l].step \in Nat
          /\ \A l \in Fits : mirrors[l] # NoSave => mirrors[l].step \in Nat
      BY <1>0, SaveFields
    <3>2. /\ \A g \in Hosts \ {h} : \A l \in Fits : disks[g][l] = NoSave
          /\ fit.began <= fit.step
          /\ Surpasses(disks[h]) /\ Surpasses(mirrors)
      BY <1>0 DEF ChainOK
    <3> QED
      BY <3>1, <3>2 DEF Surpasses
  <2>2. \A g \in Hosts \ {h} : \A l \in Fits : disks'[g][l] = NoSave
    BY <1>3, <2>1
  <2>3. Surpasses(disks[h])'
    BY <1>0, <1>2, <1>3, <1>4, <2>1 DEF Surpasses
  <2>4. Surpasses(mirrors)'
    BY <1>0, <1>4, <2>1 DEF Surpasses
  <2>5. StepsKept(disks'[h])
    <3> SUFFICES ASSUME NEW k \in Fits, NEW l \in Fits, disks'[h][k] # NoSave,
                        disks'[h][l] # NoSave, k < l
                 PROVE  disks'[h][k].step <= disks'[h][l].step
      BY DEF StepsKept
    <3>1. k # fits
      <4>1. l <= fits
        BY <1>0, <1>6 DEF ClocksOK, TimesKept
      <4> QED
        BY <1>0, <4>1, MirrorAssumption DEF Fits
    <3>2. disks'[h][k] = disks[h][k]
      BY <1>3, <3>1
    <3>3. CASE l = fits
      <4>1. disks[h][k].step <= fit.began /\ disks[h][k].step \in Nat
        BY <2>1, <3>1, <3>2
      <4>2. disks'[h][l].step = s
        BY <1>2, <1>3, <3>3
      <4> QED
        BY <1>0, <2>1, <3>2, <4>1, <4>2
    <3>4. CASE l # fits
      BY <1>0, <1>3, <3>2, <3>4 DEF ChainOK, StepsKept
    <3> QED
      BY <3>3, <3>4
  <2>6. \A g \in Hosts : StepsKept(disks[g])'
    <3> SUFFICES ASSUME NEW g \in Hosts PROVE StepsKept(disks[g])'
      OBVIOUS
    <3>1. CASE g = h
      BY <2>5, <3>1 DEF StepsKept
    <3>2. CASE g # h
      BY <2>2, <3>2 DEF StepsKept
    <3> QED
      BY <3>1, <3>2
  <2>7. \A l \in Fits : mirrors[l] # NoSave => mirrors[l].step <= disks'[h][fits].step
    BY <1>0, <1>2, <1>3, <2>1
  <2>8. \A g \in Hosts : \A k, l \in Fits : disks'[g][k] # NoSave /\ mirrors[l] # NoSave =>
          \E j \in Fits : disks'[g][j] # NoSave /\ mirrors[l].step <= disks'[g][j].step
    BY <1>0, <1>2, <1>3, <2>2, <2>7
  <2>9. \A f, g \in Hosts : \A k, l \in Fits :
          disks'[f][k] # NoSave /\ disks'[g][l] # NoSave => f = g
    BY <2>2
  <2>10. StepsKept(mirrors)' /\ fit'.began <= fit'.step
    BY <1>0, <1>4, <2>1 DEF ChainOK, StepsKept
  <2> QED
    <3>1. /\ fit' # NoFit =>
               /\ \A g \in Hosts \ {fit'.host} : \A l \in Fits : disks'[g][l] = NoSave
               /\ fit'.began <= fit'.step
               /\ Surpasses(disks[fit.host])' /\ Surpasses(mirrors)'
      BY <1>4, <2>2, <2>3, <2>4, <2>10 DEF Surpasses
    <3> QED
      BY <2>6, <2>8, <2>9, <2>10, <3>1 DEF ChainOK
<1>8. FitOK'
  BY <1>0, <1>4 DEF FitOK
<1> QED
  BY <1>5, <1>6, <1>7, <1>8

LEMMA AttemptedFields ==
  ASSUME MirrorInv, fit # NoFit, ~Spent(fit)
  PROVE  /\ Attempted \in Fit /\ Attempted.host = fit.host /\ Attempted.began = fit.began
         /\ Attempted.step = fit.step /\ Attempted.token = fit.token
         /\ Attempted.uploaded = fit.uploaded /\ Attempted.pending = fit.token
         /\ Attempted.phase = AfterHook
<1>1. fit \in Fit /\ fit.attempts \in 0 .. MaxAttempts /\ fit.token \in Steps
  BY FitFields DEF MirrorInv
<1> DEFINE n == IF fit.pending = CurrentRevision THEN fit.attempts + 1 ELSE 1
<1>2. n \in 0 .. MaxAttempts
  BY <1>1, MirrorAssumption DEF Spent, CurrentRevision
<1>3. AfterHook \in {"train", "ended"}
  BY DEF AfterHook
<1>4. Attempted = [fit EXCEPT !.phase = AfterHook, !.pending = CurrentRevision, !.attempts = n]
  BY <1>1 DEF Attempted, Fit
<1> HIDE DEF n
<1> QED
  BY <1>1, <1>2, <1>3, <1>4 DEF Fit, Revision, CurrentRevision

\* A mirror, by TryUpload, is of the last save, which is the furthest.
LEMMA MirroredKept ==
  ASSUME MirrorInv, fit # NoFit, NEW h, h = fit.host, disks[h][fits] # NoSave,
         NEW save, save = [step |-> disks[h][fits].step, time |-> LatestTime(mirrors) + 1],
         mirrors' = [mirrors EXCEPT ![fits] = save],
         fit' \in Fit, fit'.host = h, fit'.began = fit.began, fit'.step = fit.step,
         fit'.token = fit.token, fit'.uploaded = fit.token, fit'.phase # "start",
         UNCHANGED <<disks, fits, steady>>
  PROVE  MirrorInv'
<1> USE DEF MirrorInv
<1>0. /\ fit # NoFit /\ fit \in Fit /\ h \in Hosts /\ fits \in Fits
      /\ fit.step \in Nat /\ fit.began \in Nat /\ fit.token \in Nat /\ fits \in Nat
  <2>1. fits \in Fits /\ fits \in Nat
    BY MirrorAssumption DEF FitOK, Fits
  <2> QED
    BY <2>1, FitFields
<1>1. /\ LatestTime(mirrors) + 1 \in Nat /\ LatestTime(mirrors) + 1 <= fits
      /\ \A l \in Fits : mirrors[l] # NoSave /\ l # fits => mirrors[l].time <= LatestTime(mirrors) + 1
  <2>1. /\ LatestTime(mirrors) \in Nat /\ LatestTime(mirrors) < fits
        /\ \A l \in Fits : mirrors[l] # NoSave /\ l # fits =>
             mirrors[l].time <= LatestTime(mirrors)
    BY <1>0, SaveFields, LatestIsBefore DEF ClocksOK
  <2>2. \A l \in Fits : mirrors[l] # NoSave => mirrors[l].time \in Nat
    BY <1>0, SaveFields
  <2> QED
    BY <1>0, <2>1, <2>2
<1>2. /\ save \in Save /\ save # NoSave /\ save.step = disks[h][fits].step
      /\ save.time = LatestTime(mirrors) + 1 /\ save.step \in Nat
  <2>1. disks[h][fits].step \in Steps /\ disks[h][fits].step \in Nat
    BY <1>0, SaveFields
  <2>2. LatestTime(mirrors) + 1 \in Times
    BY <1>0, <1>1, MirrorAssumption DEF Times, Fits
  <2> QED
    BY <2>1, <2>2, MirrorAssumption DEF Save
<1>3. /\ mirrors' \in [Fits -> Save \cup {NoSave}]
      /\ mirrors'[fits] = save
      /\ \A l \in Fits : l # fits => mirrors'[l] = mirrors[l]
  BY <1>0, <1>2 DEF MirrorTypeOK
<1>5. MirrorTypeOK'
  BY <1>3 DEF MirrorTypeOK
<1>6. ClocksOK'
  <2>1. TimesKept(mirrors')
    <3> SUFFICES ASSUME NEW l \in Fits, mirrors'[l] # NoSave
                 PROVE  /\ l <= fits /\ mirrors'[l].time <= l
                        /\ \A k \in Fits : mirrors'[k] # NoSave /\ k < l =>
                             mirrors'[k].time <= mirrors'[l].time
      BY DEF TimesKept
    <3>1. CASE l = fits
      <4>1. ASSUME NEW k \in Fits, mirrors'[k] # NoSave, k < l
            PROVE  mirrors'[k].time <= LatestTime(mirrors) + 1
        <5>1. k # fits
          BY <1>0, <3>1, <4>1
        <5> QED
          BY <1>1, <1>3, <4>1, <5>1
      <4> QED
        BY <1>0, <1>1, <1>2, <1>3, <3>1, <4>1
    <3>2. CASE l # fits
      <4>1. mirrors'[l] = mirrors[l] /\ l <= fits /\ mirrors[l].time <= l
        BY <1>0, <1>3, <3>2 DEF ClocksOK, TimesKept
      <4>2. ASSUME NEW k \in Fits, mirrors'[k] # NoSave, k < l
            PROVE  mirrors'[k].time <= mirrors'[l].time
        <5>1. k # fits
          BY <1>0, <4>1, <4>2, MirrorAssumption DEF Fits
        <5> QED
          BY <1>0, <1>3, <4>1, <4>2, <5>1 DEF ClocksOK, TimesKept
      <4> QED
        BY <4>1, <4>2
    <3> QED
      BY <3>1, <3>2
  <2>2. \A g \in Hosts : TimesKept(disks[g])'
    BY DEF ClocksOK, TimesKept
  <2>3. TimesKept(mirrors)'
    BY <2>1 DEF TimesKept
  <2> QED
    BY <2>2, <2>3 DEF ClocksOK
<1>7. ChainOK'
  <2> SUFFICES ASSUME steady PROVE ChainOK'
    BY DEF ChainOK
  <2>1. /\ \A g \in Hosts \ {h} : \A l \in Fits : disks[g][l] = NoSave
        /\ fit.began <= fit.step
        /\ fit.began <= save.step /\ save.step <= fit.step
        /\ \A l \in Fits : mirrors[l] # NoSave =>
             /\ mirrors[l].step \in Nat
             /\ l # fits => mirrors[l].step <= fit.began
    <3>1. \A l \in Fits : mirrors[l] # NoSave => mirrors[l].step \in Nat
      BY <1>0, SaveFields
    <3>2. /\ \A g \in Hosts \ {h} : \A l \in Fits : disks[g][l] = NoSave
          /\ fit.began <= fit.step
          /\ Surpasses(disks[h]) /\ Surpasses(mirrors)
      BY <1>0 DEF ChainOK
    <3> QED
      BY <1>0, <1>2, <3>1, <3>2 DEF Surpasses
  <2>2. Surpasses(mirrors)'
    BY <1>2, <1>3, <2>1 DEF Surpasses
  <2>3. Surpasses(disks[h])'
    BY <1>0 DEF ChainOK, Surpasses
  <2>4. StepsKept(mirrors')
    <3> SUFFICES ASSUME NEW k \in Fits, NEW l \in Fits, mirrors'[k] # NoSave,
                        mirrors'[l] # NoSave, k < l
                 PROVE  mirrors'[k].step <= mirrors'[l].step
      BY DEF StepsKept
    <3>1. k # fits
      <4>1. l <= fits
        BY <1>0, <1>6 DEF ClocksOK, TimesKept
      <4> QED
        BY <1>0, <4>1, MirrorAssumption DEF Fits
    <3>2. mirrors'[k] = mirrors[k]
      BY <1>3, <3>1
    <3>3. CASE l = fits
      <4>1. mirrors[k].step <= fit.began /\ mirrors[k].step \in Nat
        BY <2>1, <3>1, <3>2
      <4> QED
        BY <1>0, <1>2, <1>3, <2>1, <3>2, <3>3, <4>1
    <3>4. CASE l # fits
      BY <1>0, <1>3, <3>2, <3>4 DEF ChainOK, StepsKept
    <3> QED
      BY <3>3, <3>4
  <2>5. ASSUME NEW g \in Hosts, NEW k \in Fits, NEW l \in Fits,
               disks[g][k] # NoSave, mirrors'[l] # NoSave
        PROVE  \E j \in Fits : disks[g][j] # NoSave /\ mirrors'[l].step <= disks[g][j].step
    <3>1. g = h
      BY <2>1, <2>5
    <3>2. CASE l = fits
      <4>1. mirrors'[l].step <= disks[g][fits].step
        BY <1>0, <1>2, <1>3, <3>1, <3>2
      <4> QED
        BY <1>0, <3>1, <4>1
    <3>3. CASE l # fits
      BY <1>3, <2>5, <3>3 DEF ChainOK
    <3> QED
      BY <3>2, <3>3
  <2>6. /\ \A g \in Hosts : StepsKept(disks[g])'
        /\ StepsKept(mirrors)'
        /\ \A f, g \in Hosts : \A k, l \in Fits :
             disks'[f][k] # NoSave /\ disks'[g][l] # NoSave => f = g
    BY <2>1, <2>4 DEF ChainOK, StepsKept
  <2>7. fit' # NoFit =>
          /\ \A g \in Hosts \ {fit'.host} : \A l \in Fits : disks'[g][l] = NoSave
          /\ fit'.began <= fit'.step
          /\ Surpasses(disks[fit.host])' /\ Surpasses(mirrors)'
    BY <2>1, <2>2, <2>3 DEF Surpasses
  <2> QED
    BY <2>5, <2>6, <2>7 DEF ChainOK
<1>8. FitOK'
  <2>1. mirrors'[fits] # NoSave /\ mirrors'[fits].step = disks[h][fits].step
    BY <1>2, <1>3
  <2>2. fit.token <= fit.step
    BY <1>0 DEF FitOK
  <2> QED
    BY <1>0, <2>1, <2>2 DEF FitOK, Last
<1> QED
  BY <1>5, <1>6, <1>7, <1>8

LEMMA TrainBatchKept ==
  ASSUME MirrorInv, TrainBatch PROVE MirrorInv'
<1> USE DEF MirrorInv
<1>1. /\ fit # NoFit /\ fit.phase \in {"start", "train"} /\ fit.step < MaxSteps
      /\ fit \in Fit /\ fit.step \in Nat /\ fit.token \in Nat /\ fit.token <= fit.step
      /\ fit.uploaded # NoSave => fit.uploaded <= fit.token
  <2>1. fit # NoFit /\ fit.phase \in {"start", "train"} /\ fit.step < MaxSteps
    BY DEF TrainBatch, InPhase
  <2> QED
    BY <2>1, FitFields DEF FitOK
<1>2. CASE /\ WriteLast(fit.step + 1)
           /\ fit' = [fit EXCEPT !.step = @ + 1, !.token = fit.step + 1, !.deferred = TRUE,
                                 !.phase = "hook"]
  <2>1. PICK t \in {LatestTime(disks[fit.host]), LatestTime(disks[fit.host]) + 1} :
          disks' = [disks EXCEPT ![fit.host][fits] = [step |-> fit.step + 1, time |-> t]]
    BY <1>2 DEF WriteLast
  <2>2. UNCHANGED <<mirrors, fits, steady>>
    BY DEF TrainBatch
  <2>3. fit.step + 1 \in Steps /\ fit.step <= fit.step + 1 /\ fit.token # fit.step + 1
    BY <1>1, MirrorAssumption DEF Steps
  <2> HIDE DEF MirrorInv
  <2>4. /\ fit' \in Fit /\ fit'.host = fit.host /\ fit'.began = fit.began
        /\ fit'.step = fit.step + 1 /\ fit'.token = fit.step + 1
        /\ fit'.uploaded = fit.uploaded /\ fit'.phase \in Hooks
    BY <1>1, <1>2, <2>3 DEF Fit, Hooks
  <2> QED
    BY <1>1, <2>1, <2>2, <2>3, <2>4, SavedKept
<1>3. CASE fit' = [fit EXCEPT !.step = @ + 1, !.phase = "hook"] /\ UNCHANGED disks
  <2>1. fit.step + 1 \in Steps /\ fit.step + 1 \in Nat
    BY <1>1, MirrorAssumption DEF Steps
  <2>2. /\ fit' \in Fit /\ fit'.host = fit.host /\ fit'.began = fit.began
        /\ fit'.step = fit.step + 1 /\ fit'.token = fit.token
        /\ fit'.uploaded = fit.uploaded /\ fit'.phase = "hook"
    BY <1>1, <1>3, <2>1 DEF Fit, Hooks
  <2>3. UNCHANGED <<disks, mirrors, fits, steady>>
    BY <1>3 DEF TrainBatch
  <2>4. fit.step <= fit'.step /\ fit'.token <= fit'.step
    BY <1>1, <2>2
  <2> QED
    BY <1>1, <2>2, <2>3, <2>4, QuietKept
<1> QED
  BY <1>2, <1>3 DEF TrainBatch

LEMMA ValidateFitKept ==
  ASSUME MirrorInv, ValidateFit PROVE MirrorInv'
<1> USE DEF MirrorInv
<1>1. /\ fit # NoFit /\ UNCHANGED <<disks, mirrors, fits, steady>>
      /\ fit \in Fit /\ fit.step \in Nat /\ fit.token \in Nat /\ fit.token <= fit.step
      /\ fit.step \in Steps /\ fit.token \in Steps
      /\ fit.uploaded # NoSave => fit.uploaded \in Nat /\ fit.uploaded <= fit.token
  <2>1. fit # NoFit /\ UNCHANGED <<disks, mirrors, fits, steady>>
    BY DEF ValidateFit, InPhase
  <2> QED
    BY <2>1, FitFields DEF FitOK
<1> DEFINE token == IF fit.deferred THEN fit.step ELSE fit.token
<1>2. fit' = [fit EXCEPT !.phase = "hook", !.deferred = FALSE, !.token = token]
  BY <1>1 DEF ValidateFit, Fit
<1>3. token \in Steps /\ token \in Nat /\ token <= fit.step /\ fit.token <= token /\ token # NoSave
  <2>1. token = fit.step \/ token = fit.token
    OBVIOUS
  <2> HIDE DEF token
  <2> QED
    BY <1>1, <2>1, MirrorAssumption
<1> HIDE DEF token
<1>4. /\ fit' \in Fit /\ fit'.host = fit.host /\ fit'.began = fit.began
      /\ fit'.step = fit.step /\ fit'.token = token
      /\ fit'.uploaded = fit.uploaded /\ fit'.phase = "hook"
  BY <1>1, <1>2, <1>3 DEF Fit, Hooks
<1>5. /\ fit'.uploaded # NoSave => fit'.uploaded <= fit'.token
      /\ fit'.uploaded = fit'.token => fit.uploaded = fit.token
      /\ fit.step <= fit'.step /\ fit'.token <= fit'.step
  BY <1>1, <1>3, <1>4
<1> QED
  BY <1>1, <1>4, <1>5, QuietKept

\* A launch leaves, for the uploader's hook, with a save or without.
LEMMA LeaveUnsavedKept ==
  ASSUME MirrorInv, fit # NoFit, NEW hook \in Hooks, LeaveUnsaved(hook),
         UNCHANGED <<mirrors, fits, steady>>
  PROVE  MirrorInv'
<1> USE DEF MirrorInv
<1>1. /\ fit \in Fit /\ fit.step \in Nat /\ fit.token <= fit.step
      /\ fit.uploaded # NoSave => fit.uploaded <= fit.token
  BY FitFields DEF FitOK
<1>2. /\ fit' \in Fit /\ fit'.host = fit.host /\ fit'.began = fit.began
      /\ fit'.step = fit.step /\ fit'.token = fit.token
      /\ fit'.uploaded = fit.uploaded /\ fit'.phase \in Hooks
  <2>1. fit' = [fit EXCEPT !.phase = hook]
    BY DEF LeaveUnsaved
  <2> HIDE DEF MirrorInv
  <2> QED
    BY <1>1, <2>1 DEF Fit
<1>3. fit.step <= fit'.step /\ fit'.token <= fit'.step
  <2>1. /\ fit'.step = fit.step /\ fit'.token = fit.token
        /\ fit.step \in Nat /\ fit.token <= fit.step
    BY <1>1, <1>2
  <2> QED
    BY <2>1
<1>4. fit'.phase # "start" /\ fit'.phase # "ended" /\ UNCHANGED disks
  BY <1>2 DEF Hooks, LeaveUnsaved
<1> QED
  BY <1>1, <1>2, <1>3, <1>4, QuietKept

LEMMA SaveOnLeavingKept ==
  ASSUME MirrorInv, fit # NoFit, NEW hook \in Hooks, SaveOnLeaving(hook),
         UNCHANGED <<mirrors, fits, steady>>
  PROVE  MirrorInv'
<1>1. fit \in Fit /\ fit.step \in Steps /\ fit.step \in Nat
  BY FitFields DEF MirrorInv
<1>2. PICK t \in {LatestTime(disks[fit.host]), LatestTime(disks[fit.host]) + 1} :
        disks' = [disks EXCEPT ![fit.host][fits] = [step |-> fit.step, time |-> t]]
  BY DEF SaveOnLeaving, WriteLast
<1>3. fit.token # fit.step /\ fit' = [fit EXCEPT !.phase = hook, !.token = fit.step]
  BY DEF SaveOnLeaving
<1>4. /\ fit' \in Fit /\ fit'.host = fit.host /\ fit'.began = fit.began
      /\ fit'.step = fit.step /\ fit'.token = fit.step
      /\ fit'.uploaded = fit.uploaded /\ fit'.phase \in Hooks
  BY <1>1, <1>3 DEF Fit
<1>5. fit.step <= fit.step
  BY <1>1
<1> QED
  BY <1>1, <1>2, <1>3, <1>4, <1>5, SavedKept

LEMMA FinishFitKept ==
  ASSUME MirrorInv, FinishFit PROVE MirrorInv'
<1>1. fit # NoFit /\ "ending" \in Hooks /\ UNCHANGED <<mirrors, fits, steady>>
  BY DEF FinishFit, InPhase, Hooks
<1>2. LeaveUnsaved("ending") \/ SaveOnLeaving("ending")
  BY DEF FinishFit
<1> QED
  BY <1>1, <1>2, LeaveUnsavedKept, SaveOnLeavingKept

LEMMA FailFitKept ==
  ASSUME MirrorInv, FailFit PROVE MirrorInv'
<1>1. fit # NoFit /\ "failing" \in Hooks /\ UNCHANGED <<mirrors, fits, steady>>
  BY DEF FailFit, InPhase, Hooks
<1>2. LeaveUnsaved("failing") \/ SaveOnLeaving("failing")
  BY DEF FailFit
<1> QED
  BY <1>1, <1>2, LeaveUnsavedKept, SaveOnLeavingKept

LEMMA SkipUploadKept ==
  ASSUME MirrorInv, SkipUpload PROVE MirrorInv'
<1> USE DEF MirrorInv
<1>1. /\ fit # NoFit /\ UNCHANGED <<disks, mirrors, fits, steady>>
      /\ fit \in Fit /\ fit.step \in Nat /\ fit.token <= fit.step
      /\ fit.uploaded # NoSave => fit.uploaded <= fit.token
  <2>1. fit # NoFit /\ UNCHANGED <<disks, mirrors, fits, steady>>
    BY DEF SkipUpload, InPhase
  <2> QED
    BY <2>1, FitFields DEF FitOK
<1>2. AfterHook \in {"train", "ended"}
  BY DEF AfterHook
<1>3. /\ fit' \in Fit /\ fit'.host = fit.host /\ fit'.began = fit.began
      /\ fit'.step = fit.step /\ fit'.token = fit.token /\ fit'.uploaded = fit.uploaded
      /\ fit'.pending = fit.pending /\ fit'.phase # "start"
  BY <1>1, <1>2 DEF SkipUpload, Fit
<1>4. Last = NoSave \/ fit'.uploaded = fit'.token \/ fit'.pending = fit'.token
  BY <1>3 DEF SkipUpload, Spent, CurrentRevision
<1>5. fit.step <= fit'.step
  BY <1>1, <1>3
<1> QED
  BY <1>1, <1>3, <1>4, <1>5, QuietKept

LEMMA TryUploadKept ==
  ASSUME MirrorInv, TryUpload PROVE MirrorInv'
<1> USE DEF MirrorInv
<1>1. /\ fit # NoFit /\ UNCHANGED <<disks, fits, steady>>
      /\ disks[fit.host][fits] # NoSave /\ fit.uploaded # fit.token /\ ~Spent(fit)
      /\ fit \in Fit /\ fit.step \in Nat /\ fit.token <= fit.step
      /\ fit.token \in Steps
      /\ fit.uploaded # NoSave => fit.uploaded <= fit.token
  <2>1. /\ fit # NoFit /\ UNCHANGED <<disks, fits, steady>>
        /\ disks[fit.host][fits] # NoSave /\ fit.uploaded # fit.token /\ ~Spent(fit)
    BY DEF TryUpload, InPhase, Last, CurrentRevision
  <2> QED
    BY <2>1, FitFields DEF FitOK
<1>2. /\ Attempted \in Fit /\ Attempted.host = fit.host /\ Attempted.began = fit.began
      /\ Attempted.step = fit.step /\ Attempted.token = fit.token
      /\ Attempted.uploaded = fit.uploaded /\ Attempted.pending = fit.token
      /\ Attempted.phase # "start"
  <2>1. AfterHook # "start"
    BY DEF AfterHook
  <2> QED
    BY <1>1, <2>1, AttemptedFields
<1>3. CASE fit' = Attempted /\ UNCHANGED mirrors
  <2>1. fit.step <= fit'.step
    BY <1>1, <1>2, <1>3
  <2> QED
    BY <1>1, <1>2, <1>3, <2>1, QuietKept
<1>4. CASE /\ mirrors' = [mirrors EXCEPT ![fits] = [step |-> Last.step, time |-> LatestTime(mirrors) + 1]]
           /\ fit' = [Attempted EXCEPT !.uploaded = CurrentRevision]
  <2>1. /\ fit' \in Fit /\ fit'.host = fit.host /\ fit'.began = fit.began
        /\ fit'.step = fit.step /\ fit'.token = fit.token /\ fit'.uploaded = fit.token
        /\ fit'.phase # "start"
    <3>1. fit' = [Attempted EXCEPT !.uploaded = fit.token]
      BY <1>4 DEF CurrentRevision
    <3> HIDE DEF MirrorInv
    <3> QED
      BY <1>1, <1>2, <3>1 DEF Fit, Revision
  <2>2. PICK save : save = [step |-> disks[fit.host][fits].step, time |-> LatestTime(mirrors) + 1]
    OBVIOUS
  <2>3. mirrors' = [mirrors EXCEPT ![fits] = save]
    BY <1>4, <2>2 DEF Last
  <2> HIDE DEF MirrorInv
  <2> QED
    BY <1>1, <2>1, <2>2, <2>3, MirroredKept
<1> QED
  BY <1>3, <1>4 DEF TryUpload

LEMMA FitEndsKept ==
  ASSUME MirrorInv, FitEnds PROVE MirrorInv'
BY DEF MirrorInv, FitEnds, MirrorTypeOK, ClocksOK, TimesKept, ChainOK, StepsKept, FitOK

LEMMA DiskLostKept ==
  ASSUME MirrorInv, NEW h \in Hosts, DiskLost(h) PROVE MirrorInv'
<1> USE DEF MirrorInv
<1>1. /\ fit = NoFit /\ UNCHANGED <<mirrors, fit, fits, steady>>
      /\ disks' = [disks EXCEPT ![h] = [l \in Fits |-> NoSave]]
  BY DEF DiskLost
<1>2. /\ disks' \in [Hosts -> [Fits -> Save \cup {NoSave}]]
      /\ \A l \in Fits : disks'[h][l] = NoSave
      /\ \A g \in Hosts : g # h => disks'[g] = disks[g]
  BY <1>1 DEF MirrorTypeOK
<1>3. MirrorTypeOK'
  BY <1>1, <1>2 DEF MirrorTypeOK
<1>4. ClocksOK'
  BY <1>1, <1>2 DEF ClocksOK, TimesKept
<1>5. ChainOK'
  <2> SUFFICES ASSUME steady PROVE ChainOK'
    BY <1>1 DEF ChainOK
  <2>1. \A g \in Hosts : \A k \in Fits : disks'[g][k] # NoSave => g # h /\ disks'[g] = disks[g]
    BY <1>2
  <2>2. /\ \A g \in Hosts : StepsKept(disks[g])'
        /\ StepsKept(mirrors)'
    BY <1>1, <2>1 DEF ChainOK, StepsKept
  <2>3. \A f, g \in Hosts : \A k, l \in Fits :
          disks'[f][k] # NoSave /\ disks'[g][l] # NoSave => f = g
    BY <2>1 DEF ChainOK
  <2>4. ASSUME NEW g \in Hosts, NEW k \in Fits, NEW l \in Fits,
               disks'[g][k] # NoSave, mirrors[l] # NoSave
        PROVE  \E j \in Fits : disks'[g][j] # NoSave /\ mirrors[l].step <= disks'[g][j].step
    BY <2>1, <2>4 DEF ChainOK
  <2> QED
    BY <1>1, <2>2, <2>3, <2>4 DEF ChainOK
<1>6. FitOK'
  BY <1>1 DEF FitOK
<1> QED
  BY <1>3, <1>4, <1>5, <1>6

LEMMA MirrorInvKept == MirrorInv /\ [MirrorNext]_mirrorVars => MirrorInv'
<1> SUFFICES ASSUME MirrorInv, [MirrorNext]_mirrorVars PROVE MirrorInv'
  OBVIOUS
<1>1. CASE \E h \in Hosts : \E reached \in BOOLEAN : LaunchFit(h, reached)
  BY <1>1, LaunchFitKept
<1>2. CASE \E h \in Hosts : DiskLost(h)
  BY <1>2, DiskLostKept
<1>3. CASE TrainBatch
  BY <1>3, TrainBatchKept
<1>4. CASE ValidateFit
  BY <1>4, ValidateFitKept
<1>5. CASE FinishFit
  BY <1>5, FinishFitKept
<1>10. CASE FailFit
  BY <1>10, FailFitKept
<1>6. CASE SkipUpload
  BY <1>6, SkipUploadKept
<1>7. CASE TryUpload
  BY <1>7, TryUploadKept
<1>8. CASE FitEnds
  BY <1>8, FitEndsKept
<1>9. CASE UNCHANGED mirrorVars
  BY <1>9 DEF mirrorVars, MirrorInv, MirrorTypeOK, ClocksOK, TimesKept, ChainOK, StepsKept,
              Surpasses, FitOK, Last
<1> QED
  BY <1>1, <1>2, <1>3, <1>4, <1>5, <1>6, <1>7, <1>8, <1>9, <1>10 DEF MirrorNext

LEMMA ProgressFromInv == MirrorInv => ProgressIsKept
<1> SUFFICES ASSUME MirrorInv PROVE ProgressIsKept
  OBVIOUS
<1> USE DEF MirrorInv
<1>1. ResumesTheFurthest
  BY DEF ResumesTheFurthest, InPhase, FitOK, ChainOK, Surpasses, Present
<1>2. MirrorFollows
  BY DEF MirrorFollows, InPhase, FitOK, CurrentRevision
<1> QED
  BY <1>1, <1>2 DEF ProgressIsKept

\* Launches that find every checkpoint there is go on from the furthest one
\* (resume.py), and a launch that ended leaves its last checkpoint, the one
\* saved on an exception included, mirrored unless an upload of that revision
\* failed (callbacks.py).
THEOREM LaunchesKeepProgress == MirrorSpec => []ProgressIsKept
<1>1. MirrorInit => MirrorInv
  BY MirrorInitKept
<1>2. MirrorInv /\ [MirrorNext]_mirrorVars => MirrorInv'
  BY MirrorInvKept
<1>3. MirrorInv => ProgressIsKept
  BY ProgressFromInv
<1> QED
  BY <1>1, <1>2, <1>3, PTL DEF MirrorSpec
-----------------------------------------------------------------------------
(***************************************************************************)
(* A renderer process: what the loop has got through, flushed or not, is   *)
(* the beginning of the shard.                                             *)
(***************************************************************************)
\* What the loop has rendered, flushed or not.
RenderedRows == hidden \o Labelled(loop.batch, loop.start)

\* Each row in its place, and in a shard of one patch the first row's.
RowsInPlace(dir) ==
  \A i \in 1 .. Len(dir) :
    /\ dir[i].debug.at = RowDraw(Plan, setting.job.name, i - 1)
    /\ dir[i].patch = IF setting.cadence = "sample" THEN dir[i].debug ELSE dir[1].debug

LoopTypeOK ==
  /\ setting \in Settings
  /\ loop \in [state : {"none", "running", "returned", "raised"}, row : 0 .. Plan.rows,
               tries : 0 .. RowAttempts - 1,
               batch : Seq([patch : Draws(setting.job), attempt : 0 .. RowAttempts - 1]),
               start : Nat, patch : Draws(setting.job) \cup {NoPatch}, warmed : BOOLEAN,
               warmups : Nat, rejected : Nat]
  /\ hidden \in Seq(ShardRow(setting.job))

\* Each row the loop has got through is flushed or in the batch, labelled with
\* its draw, and the draws rejected before it are counted.
LoopRows ==
  loop.state # "none" =>
    /\ Len(hidden) + Len(loop.batch) = loop.row
    /\ loop.batch # <<>> => loop.start = Len(hidden)
    /\ RowsInPlace(RenderedRows)
    /\ loop.rejected = RejectedIn(RenderedRows)
    /\ setting.cadence = "shard" =>
         loop.patch = IF loop.row = 0 THEN NoPatch ELSE RenderedRows[1].debug

LoopEnd ==
  /\ loop.state = "running" => /\ loop.row < Plan.rows /\ loop.start = Len(hidden)
                               /\ Len(loop.batch) < BatchRows
  /\ loop.state = "returned" => loop.row = Plan.rows /\ loop.batch = <<>>

\* The editor is shown for the first attempt at a row, if at all.
LoopWarmups ==
  /\ loop.warmups <= WarmupsAllowed
  /\ loop.state = "running" =>
       /\ setting.toggle = "once" =>
            /\ loop.warmed <=> loop.row > 0
            /\ loop.row = 0 /\ loop.tries = 0 => loop.warmups = 0
       /\ setting.toggle = "render" =>
            loop.warmups <= loop.row + (IF loop.tries > 0 THEN 1 ELSE 0)

\* The main thread commits what the loop has returned, and counts what it has
\* committed.
HostOK ==
  /\ host \in {"commit", "rename", "metrics", "ok"} => loop.state = "returned"
  /\ host = "metrics" => shardDir = hidden
  /\ host = "ok" => shardDir \notin {NoDir, TornDir}
  /\ IF host = "ok" THEN tally \in Nat /\ tally = RejectedIn(shardDir)
     ELSE tally \in {NoTally, TornTally}
  /\ shardDir \notin {NoDir, TornDir} => HoldsTheShard(shardDir)

RenderInv == LoopTypeOK /\ LoopRows /\ LoopEnd /\ LoopWarmups /\ HostOK

\* The assumptions of a job, one by one.
LEMMA JobIs ==
  ASSUME LoopTypeOK
  PROVE  /\ Plan.rows \in Nat \ {0}
         /\ setting.job \in ShardJobs /\ Plan = setting.job.plan
         /\ setting.cadence \in {"sample", "shard"}
         /\ setting.toggle \in {"never", "once", "render", "always_on"}
         /\ {NoDir, TornDir} \cap Directories(setting.job) = {}
         /\ {NoTally, TornTally} \cap Nat = {}
         /\ RowAttempts \in Nat \ {0} /\ BatchRows \in Nat \ {0}
BY BatchAssumption DEF LoopTypeOK, Settings, Plan, ValidPlan

\* What a row drawn at an attempt looks like.
LEMMA DrawIs ==
  ASSUME LoopTypeOK, NEW i \in 0 .. Plan.rows - 1, NEW a \in 0 .. RowAttempts - 1
  PROVE  [at |-> RowDraw(Plan, setting.job.name, i), attempt |-> a] \in Draws(setting.job)
BY JobIs DEF Draws

LEMMA NoPatchIsNoDraw == ASSUME NEW shard PROVE NoPatch \notin Draws(shard)
<1> SUFFICES ASSUME NoPatch \in Draws(shard) PROVE FALSE
  OBVIOUS
<1>1. PICK i \in 0 .. shard.plan.rows - 1 : NoPatch.at = RowDraw(shard.plan, shard.name, i)
  BY DEF Draws
<1>2. NoPatch.at = <<>>
  BY DEF NoPatch
<1>3. Len(RowDraw(shard.plan, shard.name, i)) = 2 /\ Len(<<>>) = 0
  BY DEF RowDraw
<1> QED
  BY <1>1, <1>2, <1>3

\* A batch is labelled row by row.
LEMMA LabelledIs ==
  ASSUME LoopTypeOK, NEW start \in Nat,
         NEW batch \in Seq([patch : Draws(setting.job), attempt : 0 .. RowAttempts - 1]),
         start + Len(batch) <= Plan.rows
  PROVE  /\ Labelled(batch, start) \in Seq(ShardRow(setting.job))
         /\ Len(Labelled(batch, start)) = Len(batch)
<1> DEFINE label(i) == [patch |-> batch[i].patch,
                        debug |-> [at |-> RowDraw(Plan, setting.job.name, start + i - 1),
                                   attempt |-> batch[i].attempt]]
<1>1. ASSUME NEW i \in 1 .. Len(batch) PROVE label(i) \in ShardRow(setting.job)
  <2>1. batch[i] \in [patch : Draws(setting.job), attempt : 0 .. RowAttempts - 1]
    BY ElementOfSeq
  <2>2. start + i - 1 \in 0 .. Plan.rows - 1
    BY JobIs
  <2>3. label(i).debug \in Draws(setting.job)
    BY <2>1, <2>2, DrawIs
  <2> QED
    BY <2>1, <2>3 DEF ShardRow
<1>2. Labelled(batch, start) = [i \in 1 .. Len(batch) |-> label(i)]
  BY DEF Labelled
<1> HIDE DEF label
<1> QED
  BY <1>1, <1>2

LEMMA LabelledGrows ==
  ASSUME LoopTypeOK, NEW start \in Nat,
         NEW batch \in Seq([patch : Draws(setting.job), attempt : 0 .. RowAttempts - 1]),
         NEW x \in [patch : Draws(setting.job), attempt : 0 .. RowAttempts - 1],
         start + Len(batch) < Plan.rows
  PROVE  Labelled(Append(batch, x), start)
         = Append(Labelled(batch, start),
                  [patch |-> x.patch,
                   debug |-> [at |-> RowDraw(Plan, setting.job.name, start + Len(batch)),
                              attempt |-> x.attempt]])
<1> DEFINE label(b, i) == [patch |-> b[i].patch,
                        debug |-> [at |-> RowDraw(Plan, setting.job.name, start + i - 1),
                                   attempt |-> b[i].attempt]]
<1> DEFINE more == Append(batch, x)
<1> DEFINE old == Labelled(batch, start)
<1>1. /\ more \in Seq([patch : Draws(setting.job), attempt : 0 .. RowAttempts - 1])
      /\ Len(more) = Len(batch) + 1
      /\ \A i \in 1 .. Len(batch) : more[i] = batch[i]
      /\ more[Len(batch) + 1] = x
  OBVIOUS
<1>2. /\ old = [i \in 1 .. Len(batch) |-> label(batch, i)]
      /\ Labelled(more, start) = [i \in 1 .. Len(more) |-> label(more, i)]
  BY DEF Labelled
<1>3. old \in Seq(ShardRow(setting.job)) /\ Len(old) = Len(batch)
  <2>1. Plan.rows \in Nat /\ Len(batch) \in Nat
    BY JobIs
  <2>2. start + Len(batch) <= Plan.rows
    BY <2>1
  <2> QED
    BY <2>2, LabelledIs
<1>9. /\ Labelled(more, start) \in Seq(ShardRow(setting.job))
      /\ Len(Labelled(more, start)) = Len(more)
  <2>1. Plan.rows \in Nat /\ Len(batch) \in Nat
    BY JobIs
  <2>2. start + Len(more) <= Plan.rows
    BY <2>1, <1>1
  <2> HIDE DEF more
  <2> QED
    BY <2>2, <1>1, LabelledIs
<1>4. label(more, Len(batch) + 1)
      = [patch |-> x.patch,
         debug |-> [at |-> RowDraw(Plan, setting.job.name, start + Len(batch)),
                    attempt |-> x.attempt]]
  <2>1. start + (Len(batch) + 1) - 1 = start + Len(batch)
    OBVIOUS
  <2> QED
    BY <1>1, <2>1
<1>5. \A i \in 1 .. Len(batch) : label(more, i) = label(batch, i)
  BY <1>1
<1> DEFINE row == label(more, Len(batch) + 1)
<1> HIDE DEF label, row, old, more
<1>6. row \in ShardRow(setting.job)
  <2>1. Len(more) \in 1 .. Len(more)
    BY <1>1
  <2>2. Labelled(more, start)[Len(more)] = row
    BY <1>1, <1>2, <2>1 DEF row
  <2> QED
    BY <1>9, <2>1, <2>2, ElementOfSeq
<1>7. /\ Append(old, row) \in Seq(ShardRow(setting.job))
      /\ Len(Append(old, row)) = Len(old) + 1
      /\ \A i \in 1 .. Len(old) : Append(old, row)[i] = old[i]
      /\ Append(old, row)[Len(old) + 1] = row
  BY <1>3, <1>6, AppendProperties
<1>8. Labelled(more, start) = Append(old, row)
  <2>1. ASSUME NEW i \in 1 .. Len(more) PROVE Labelled(more, start)[i] = Append(old, row)[i]
    <3>1. CASE i = Len(batch) + 1
      BY <3>1, <1>2, <1>3, <1>7 DEF row
    <3>2. CASE i \in 1 .. Len(batch)
      <4>1. Labelled(more, start)[i] = label(more, i) /\ old[i] = label(batch, i)
        BY <3>2, <1>2
      <4>2. Append(old, row)[i] = old[i]
        BY <3>2, <1>3, <1>7
      <4> QED
        BY <3>2, <4>1, <4>2, <1>5
    <3>3. Len(batch) \in Nat /\ i \in 1 .. Len(batch) + 1
      BY <1>1
    <3>4. i = Len(batch) + 1 \/ i \in 1 .. Len(batch)
      BY <3>3
    <3> QED
      BY <3>1, <3>2, <3>4
  <2> QED
    BY <2>1, <1>1, <1>3, <1>7, <1>9, SeqEqual
<1> QED
  BY <1>4, <1>8 DEF row, old, more

\* One more row adds its own rejected draws.
LEMMA RejectedGrows ==
  ASSUME LoopTypeOK, NEW dir \in Seq(ShardRow(setting.job)), NEW row \in ShardRow(setting.job)
  PROVE  /\ RejectedIn(dir) \in Nat
         /\ RejectedIn(Append(dir, row)) = RejectedIn(dir) + row.debug.attempt
<1> DEFINE n == Len(dir)
<1> DEFINE a == row.debug.attempt
<1> DEFINE own == {n + 1} \X (0 .. a - 1)
<1> DEFINE more == Append(dir, row)
<1>1. n \in Nat /\ a \in 0 .. RowAttempts - 1 /\ RowAttempts \in Nat
  BY JobIs DEF ShardRow, Draws
<1>2. IsFiniteSet(RejectedDraws(dir))
  <2>1. 1 \in Int /\ n \in Int /\ 0 \in Int /\ RowAttempts - 1 \in Int
    BY <1>1
  <2> HIDE DEF n
  <2>4. IsFiniteSet(1 .. n) /\ IsFiniteSet(0 .. RowAttempts - 1)
    BY <2>1, FS_Interval
  <2>2. IsFiniteSet((1 .. n) \X (0 .. RowAttempts - 1))
    BY <2>4, FS_Product
  <2>3. RejectedDraws(dir) \subseteq (1 .. n) \X (0 .. RowAttempts - 1)
    BY DEF RejectedDraws, n
  <2> QED
    BY <2>2, <2>3, FS_Subset
<1>3. IsFiniteSet(own) /\ Cardinality(own) = a
  <2>1. IsFiniteSet(0 .. a - 1) /\ Cardinality(0 .. a - 1) = a
    <3>1. 0 \in Int /\ a - 1 \in Int /\ (IF 0 > a - 1 THEN 0 ELSE a - 1 - 0 + 1) = a
      BY <1>1
    <3> HIDE DEF a
    <3> QED
      BY <3>1, FS_Interval
  <2>2. IsFiniteSet({n + 1}) /\ Cardinality({n + 1}) = 1
    BY FS_Singleton
  <2> HIDE DEF n, a
  <2>3. IsFiniteSet(own) /\ Cardinality(own) = 1 * a
    BY <2>1, <2>2, FS_Product
  <2> QED
    BY <2>3, <1>1
<1>4. RejectedDraws(more) = RejectedDraws(dir) \cup own
  <2>1. /\ DOMAIN more = 1 .. n + 1 /\ DOMAIN dir = 1 .. n
        /\ \A i \in 1 .. n : more[i] = dir[i]
        /\ more[n + 1] = row
    OBVIOUS
  <2> HIDE DEF more, n
  <2>2. ASSUME NEW i \in 1 .. n + 1, NEW t \in 0 .. RowAttempts - 1
        PROVE  t < more[i].debug.attempt <=>
                 (i \in 1 .. n /\ t < dir[i].debug.attempt) \/ (i = n + 1 /\ t < a)
    BY <2>1, <1>1
  <2>3. \A i, t : <<i, t>> \in RejectedDraws(more) <=>
                  <<i, t>> \in RejectedDraws(dir) \/ <<i, t>> \in own
    <3> TAKE i, t
    <3>1. <<i, t>> \in RejectedDraws(more) <=>
            i \in 1 .. n + 1 /\ t \in 0 .. RowAttempts - 1 /\ t < more[i].debug.attempt
      BY <2>1 DEF RejectedDraws
    <3>2. <<i, t>> \in RejectedDraws(dir) <=>
            i \in 1 .. n /\ t \in 0 .. RowAttempts - 1 /\ t < dir[i].debug.attempt
      BY <2>1 DEF RejectedDraws
    <3>3. <<i, t>> \in own <=> i = n + 1 /\ t \in 0 .. a - 1
      OBVIOUS
    <3>4. t \in 0 .. a - 1 <=> t \in 0 .. RowAttempts - 1 /\ t < a
      BY <1>1
    <3>5. i \in 1 .. n \/ i = n + 1 <=> i \in 1 .. n + 1
      BY <1>1
    <3> QED
      BY <3>1, <3>2, <3>3, <3>4, <3>5, <2>2
  <2>4. /\ \A d \in RejectedDraws(more) : d = <<d[1], d[2]>>
        /\ \A d \in RejectedDraws(dir) : d = <<d[1], d[2]>>
        /\ \A d \in own : d = <<d[1], d[2]>>
    BY DEF RejectedDraws
  <2> QED
    BY <2>3, <2>4
<1>5. RejectedDraws(dir) \cap own = {}
  BY <1>1 DEF RejectedDraws
<1> HIDE DEF n, a, own, more
<1>6. Cardinality(RejectedDraws(dir)) \in Nat
  BY <1>2, FS_CardinalityType
<1>7. Cardinality({}) = 0
  BY FS_EmptySet
<1>8. Cardinality(RejectedDraws(dir) \cup own) = Cardinality(RejectedDraws(dir)) + a - 0
  BY <1>2, <1>3, <1>5, <1>7, FS_Union
<1> QED
  BY <1>1, <1>4, <1>6, <1>8 DEF RejectedIn, more, a

LEMMA RenderedIs ==
  ASSUME LoopTypeOK, LoopRows, loop.state # "none"
  PROVE  RenderedRows \in Seq(ShardRow(setting.job)) /\ Len(RenderedRows) = loop.row
<1> DEFINE rest == Labelled(loop.batch, loop.start)
<1> DEFINE Rows == ShardRow(setting.job)
<1>1. rest \in Seq(Rows) /\ Len(rest) = Len(loop.batch)
  <2>1. CASE loop.batch = <<>>
    <3>1. rest = <<>>
      BY <2>1 DEF Labelled
    <3> HIDE DEF rest, Rows
    <3>2. <<>> \in Seq(Rows) /\ Len(<<>>) = 0
      OBVIOUS
    <3> QED
      BY <2>1, <3>1, <3>2
  <2>2. CASE loop.batch # <<>>
    <3>1. /\ loop.batch \in Seq([patch : Draws(setting.job), attempt : 0 .. RowAttempts - 1])
          /\ loop.start \in Nat /\ loop.start + Len(loop.batch) = loop.row
          /\ loop.row \in 0 .. Plan.rows
      BY <2>2 DEF LoopTypeOK, LoopRows
    <3>2. loop.start + Len(loop.batch) <= Plan.rows
      BY <3>1, JobIs
    <3> QED
      BY <3>1, <3>2, LabelledIs
  <2> QED
    BY <2>1, <2>2
<1>2. hidden \in Seq(Rows) /\ Len(hidden) + Len(loop.batch) = loop.row
  BY DEF LoopTypeOK, LoopRows
<1>3. RenderedRows = hidden \o rest
  BY DEF RenderedRows
<1> HIDE DEF rest, Rows
<1>4. hidden \o rest \in Seq(Rows) /\ Len(hidden \o rest) = Len(hidden) + Len(rest)
  BY <1>1, <1>2, ConcatProperties
<1> QED
  BY <1>1, <1>2, <1>3, <1>4 DEF Rows

\* The row that is drawn, or copied from the first.
NextDebug == [at |-> RowDraw(Plan, setting.job.name, loop.row), attempt |-> loop.tries]
NextRow == [patch |-> IF Fixed THEN loop.patch ELSE NextDebug, debug |-> NextDebug]
NextBatch == Append(loop.batch, [patch |-> NextRow.patch, attempt |-> loop.tries])

LEMMA NextRowIs ==
  ASSUME RenderInv, AcceptRow
  PROVE  NextRow \in ShardRow(setting.job) /\ NextDebug \in Draws(setting.job)
<1>1. loop.row \in 0 .. Plan.rows - 1 /\ loop.tries \in 0 .. RowAttempts - 1
  BY JobIs DEF RenderInv, LoopTypeOK, LoopEnd, AcceptRow
<1>2. NextDebug \in Draws(setting.job)
  BY <1>1, DrawIs DEF RenderInv, NextDebug
<1>3. Fixed => loop.patch \in Draws(setting.job)
  BY DEF RenderInv, LoopTypeOK, Fixed
<1> QED
  BY <1>2, <1>3 DEF ShardRow, NextRow

\* An accepted row is flushed with the batch it fills, or stays in it.
LEMMA AcceptIs ==
  ASSUME RenderInv, AcceptRow
  PROVE  /\ UNCHANGED <<setting, host, shardDir, tally, renders>>
         /\ loop.state = "running"
         /\ loop' = [state |-> IF loop.row + 1 = Plan.rows THEN "returned" ELSE "running",
                     row |-> loop.row + 1, tries |-> 0, batch |-> loop'.batch,
                     start |-> loop'.start,
                     patch |-> IF setting.cadence = "shard" THEN NextRow.patch ELSE NoPatch,
                     warmed |-> loop.warmed \/ setting.toggle = "once", warmups |-> Warmed,
                     rejected |-> loop.rejected + loop.tries]
         /\ \/ /\ hidden' = hidden \o Labelled(NextBatch, loop.start)
               /\ loop'.batch = <<>> /\ loop'.start = loop.start + BatchRows
               /\ \/ loop.row + 1 = Plan.rows
                  \/ Len(NextBatch) = BatchRows
            \/ /\ hidden' = hidden
               /\ loop'.batch = NextBatch
               /\ loop'.start = loop.start
               /\ loop.row + 1 # Plan.rows
               /\ Len(NextBatch) # BatchRows
<1> DEFINE x == [patch |-> NextRow.patch, attempt |-> loop.tries]
<1> DEFINE more == Append(loop.batch, x)
<1> DEFINE last == loop.row + 1 = Plan.rows
<1> DEFINE flushed == last \/ Len(more) = BatchRows
<1>1. /\ NextRow.patch = IF Fixed THEN loop.patch ELSE NextDebug
      /\ NextDebug = [at |-> RowDraw(Plan, setting.job.name, loop.row), attempt |-> loop.tries]
  BY DEF NextRow, NextDebug
<1>2. /\ loop.state = "running"
      /\ loop' = [loop EXCEPT
           !.row = @ + 1, !.tries = 0,
           !.patch = IF setting.cadence = "shard" THEN NextRow.patch ELSE NoPatch,
           !.warmups = Warmed, !.warmed = @ \/ setting.toggle = "once",
           !.rejected = @ + loop.tries,
           !.batch = IF flushed THEN <<>> ELSE more,
           !.start = IF flushed THEN @ + BatchRows ELSE @,
           !.state = IF last THEN "returned" ELSE @]
      /\ hidden' = IF flushed THEN hidden \o Labelled(more, loop.start) ELSE hidden
      /\ LoopOnly
  BY <1>1 DEF AcceptRow
<1> HIDE DEF x
<1>3. loop = [state |-> loop.state, row |-> loop.row, tries |-> loop.tries, batch |-> loop.batch,
              start |-> loop.start, patch |-> loop.patch, warmed |-> loop.warmed,
              warmups |-> loop.warmups, rejected |-> loop.rejected]
  BY DEF RenderInv, LoopTypeOK
<1> HIDE DEF more, last
<1>4. /\ loop'.batch = (IF flushed THEN <<>> ELSE more)
      /\ loop'.start = (IF flushed THEN loop.start + BatchRows ELSE loop.start)
  BY <1>2, <1>3
<1>5. loop' = [state |-> IF last THEN "returned" ELSE "running",
               row |-> loop.row + 1, tries |-> 0, batch |-> loop'.batch,
               start |-> loop'.start,
               patch |-> IF setting.cadence = "shard" THEN NextRow.patch ELSE NoPatch,
               warmed |-> loop.warmed \/ setting.toggle = "once", warmups |-> Warmed,
               rejected |-> loop.rejected + loop.tries]
  BY <1>2, <1>3, <1>4
<1>6. \/ flushed /\ hidden' = hidden \o Labelled(more, loop.start)
      \/ ~flushed /\ hidden' = hidden
  BY <1>2
<1> QED
  BY <1>2, <1>4, <1>5, <1>6 DEF LoopOnly, NextBatch, last, more, x

\* What has been rendered grows by that row either way.
LEMMA RenderedGrows ==
  ASSUME RenderInv, AcceptRow
  PROVE  /\ RenderedRows' = Append(RenderedRows, NextRow)
         /\ hidden' \in Seq(ShardRow(setting.job))
         /\ loop'.batch \in Seq([patch : Draws(setting.job), attempt : 0 .. RowAttempts - 1])
         /\ Len(hidden') + Len(loop'.batch) = loop.row + 1
         /\ loop'.start \in Nat
         /\ loop'.batch # <<>> => loop'.start = Len(hidden')
         /\ loop.row + 1 # Plan.rows => loop'.start = Len(hidden') /\ Len(loop'.batch) < BatchRows
         /\ loop.row + 1 = Plan.rows => loop'.batch = <<>>
<1> DEFINE Rows == ShardRow(setting.job)
<1> DEFINE Batched == [patch : Draws(setting.job), attempt : 0 .. RowAttempts - 1]
<1> DEFINE x == [patch |-> NextRow.patch, attempt |-> loop.tries]
<1> DEFINE more == Append(loop.batch, x)
<1> DEFINE flushed == Labelled(more, loop.start)
<1> DEFINE old == Labelled(loop.batch, loop.start)
<1>1. /\ LoopTypeOK /\ loop.batch \in Seq(Batched) /\ loop.start \in Nat /\ hidden \in Seq(Rows)
      /\ loop.start = Len(hidden) /\ Len(hidden) + Len(loop.batch) = loop.row
      /\ loop.row \in 0 .. Plan.rows - 1 /\ Len(loop.batch) < BatchRows
      /\ Plan.rows \in Nat /\ BatchRows \in Nat \ {0} /\ Len(loop.batch) \in Nat
  BY JobIs DEF RenderInv, LoopTypeOK, LoopRows, LoopEnd, AcceptRow
<1>2. NextRow \in Rows /\ NextRow.patch \in Draws(setting.job) /\ NextRow.debug = NextDebug
  BY NextRowIs DEF ShardRow, NextRow
<1>3. x \in Batched
  BY <1>2 DEF RenderInv, LoopTypeOK
<1>4. more \in Seq(Batched) /\ Len(more) = Len(loop.batch) + 1
  BY <1>1, <1>3, AppendProperties
<1>5. loop.start + Len(loop.batch) < Plan.rows
  BY <1>1
<1>6. flushed = Append(old, NextRow)
  <2>1. flushed = Append(old, [patch |-> x.patch,
                   debug |-> [at |-> RowDraw(Plan, setting.job.name, loop.start + Len(loop.batch)),
                              attempt |-> x.attempt]])
    <3> HIDE DEF x
    <3> QED
      BY <1>1, <1>3, <1>5, LabelledGrows
  <2>2. loop.start + Len(loop.batch) = loop.row
    BY <1>1
  <2> QED
    BY <2>1, <2>2 DEF NextRow, NextDebug
<1>7. /\ old \in Seq(Rows) /\ Len(old) = Len(loop.batch)
      /\ flushed \in Seq(Rows) /\ Len(flushed) = Len(more)
  <2>1. loop.start + Len(loop.batch) <= Plan.rows /\ loop.start + Len(more) <= Plan.rows
    BY <1>1, <1>4
  <2> HIDE DEF more
  <2> QED
    BY <1>1, <1>4, <2>1, LabelledIs
<1>8. /\ hidden \o flushed = Append(RenderedRows, NextRow)
      /\ hidden \o flushed \in Seq(Rows) /\ Len(hidden \o flushed) = Len(hidden) + Len(flushed)
  <2>1. RenderedRows = hidden \o old /\ RenderedRows \in Seq(Rows)
    BY <1>1, <1>7, ConcatProperties DEF RenderedRows
  <2>2. flushed = old \o <<NextRow>> /\ Append(RenderedRows, NextRow) = RenderedRows \o <<NextRow>>
    BY <1>2, <1>6, <1>7, <2>1, AppendIsConcat
  <2>3. <<NextRow>> \in Seq(Rows)
    BY <1>2
  <2> HIDE DEF flushed, old, Rows
  <2>4. hidden \o (old \o <<NextRow>>) = (hidden \o old) \o <<NextRow>>
    BY <1>1, <1>7, <2>3, ConcatAssociative
  <2> QED
    BY <1>1, <1>7, <2>1, <2>2, <2>4, ConcatProperties
<1>9. RenderedRows' = hidden' \o Labelled(loop'.batch, loop'.start)
  BY DEF RenderedRows, Labelled, Plan, AcceptRow, LoopOnly
<1> HIDE DEF Rows, Batched, x, flushed, old
<1>10. CASE /\ hidden' = hidden \o flushed
            /\ loop'.batch = <<>> /\ loop'.start = loop.start + BatchRows
            /\ loop.row + 1 = Plan.rows \/ Len(more) = BatchRows
  <2>1. Labelled(loop'.batch, loop'.start) = <<>>
    BY <1>10 DEF Labelled
  <2>2. RenderedRows' = hidden \o flushed
    BY <1>8, <1>9, <1>10, <2>1, ConcatEmptySeq
  <2>3. loop'.batch \in Seq(Batched) /\ Len(loop'.batch) = 0
    BY <1>10
  <2>4. Len(hidden') = loop.row + 1
    BY <1>1, <1>4, <1>7, <1>8, <1>10
  <2>5. loop.row + 1 # Plan.rows => loop'.start = Len(hidden')
    <3>1. loop.row + 1 # Plan.rows => Len(loop.batch) + 1 = BatchRows
      BY <1>4, <1>10
    <3>2. loop'.start = loop.start + BatchRows
      BY <1>10
    <3> QED
      BY <1>1, <2>4, <3>1, <3>2
  <2>6. hidden' \in Seq(Rows) /\ RenderedRows' = Append(RenderedRows, NextRow)
    BY <1>8, <1>10, <2>2
  <2>7. /\ Len(hidden') + Len(loop'.batch) = loop.row + 1
        /\ loop'.start \in Nat /\ loop'.batch = <<>> /\ Len(loop'.batch) < BatchRows
    BY <1>1, <1>10, <2>3, <2>4
  <2> QED
    BY <2>3, <2>5, <2>6, <2>7 DEF Rows, Batched
<1>11. CASE /\ hidden' = hidden
            /\ loop'.batch = more /\ loop'.start = loop.start
            /\ loop.row + 1 # Plan.rows /\ Len(more) # BatchRows
  <2>1. RenderedRows' = hidden \o flushed
    BY <1>9, <1>11 DEF flushed
  <2>2. hidden' \in Seq(Rows) /\ loop'.batch \in Seq(Batched)
    BY <1>1, <1>4, <1>11
  <2>3. RenderedRows' = Append(RenderedRows, NextRow)
    BY <1>8, <2>1
  <2>4. /\ Len(hidden') + Len(loop'.batch) = loop.row + 1
        /\ loop'.start \in Nat /\ loop'.start = Len(hidden') /\ Len(loop'.batch) < BatchRows
    BY <1>1, <1>4, <1>11
  <2> QED
    BY <1>11, <2>2, <2>3, <2>4 DEF Rows, Batched
<1> QED
  BY <1>10, <1>11, AcceptIs DEF flushed, NextBatch, more, x

\* An appended row keeps the others in place.
LEMMA InPlaceGrows ==
  ASSUME NEW Rows, NEW dir \in Seq(Rows), NEW row \in Rows, RowsInPlace(dir),
         row.debug.at = RowDraw(Plan, setting.job.name, Len(dir)),
         row.patch = IF setting.cadence = "sample" THEN row.debug
                     ELSE IF Len(dir) = 0 THEN row.debug ELSE dir[1].debug
  PROVE  RowsInPlace(Append(dir, row))
<1> DEFINE more == Append(dir, row)
<1>1. /\ Len(more) = Len(dir) + 1 /\ Len(dir) \in Nat
      /\ \A i \in 1 .. Len(dir) : more[i] = dir[i]
      /\ more[Len(dir) + 1] = row
  BY AppendProperties
<1> HIDE DEF more
<1>2. SUFFICES ASSUME NEW i \in 1 .. Len(more)
               PROVE  /\ more[i].debug.at = RowDraw(Plan, setting.job.name, i - 1)
                      /\ more[i].patch = IF setting.cadence = "sample" THEN more[i].debug
                                         ELSE more[1].debug
  BY DEF RowsInPlace, more
<1>3. CASE i \in 1 .. Len(dir)
  <2>1. more[i] = dir[i] /\ more[1] = dir[1]
    BY <1>1, <1>3
  <2> QED
    BY <1>3, <2>1 DEF RowsInPlace
<1>4. CASE i = Len(dir) + 1
  <2>1. more[i] = row /\ i - 1 = Len(dir)
    BY <1>1, <1>4
  <2>2. more[1] = IF Len(dir) = 0 THEN row ELSE dir[1]
    BY <1>1
  <2> QED
    BY <2>1, <2>2
<1>5. i \in 1 .. Len(dir) \/ i = Len(dir) + 1
  BY <1>1
<1> QED
  BY <1>3, <1>4, <1>5

LEMMA RenderStarts == BatchInit => RenderInv
<1> SUFFICES ASSUME BatchInit PROVE RenderInv
  OBVIOUS
<1>1. /\ setting \in Settings /\ loop = IdleLoop /\ hidden = <<>> /\ host = "off"
      /\ shardDir = NoDir /\ tally = NoTally
  BY DEF BatchInit
<1>2. LoopTypeOK
  <2>1. setting.job.plan.rows \in Nat \ {0} /\ RowAttempts \in Nat \ {0}
    BY <1>1, BatchAssumption DEF Settings, ValidPlan
  <2> QED
    BY <1>1, <2>1 DEF LoopTypeOK, IdleLoop, Plan
<1>3. LoopRows /\ LoopEnd
  BY <1>1 DEF LoopRows, LoopEnd, IdleLoop
<1>4. LoopWarmups
  <2>1. WarmupsAllowed >= 0
    BY <1>2, JobIs DEF WarmupsAllowed
  <2> QED
    BY <1>1, <2>1 DEF LoopWarmups, IdleLoop
<1>5. HostOK
  BY <1>1 DEF HostOK
<1> QED
  BY <1>2, <1>3, <1>4, <1>5 DEF RenderInv

\* What the main thread does leaves the loop and its rows alone.
LEMMA HostKeeps ==
  ASSUME RenderInv, HostOnly, HostOK'
  PROVE  RenderInv'
<1>1. LoopTypeOK'
  BY DEF RenderInv, HostOnly, LoopTypeOK, Plan
<1>2. LoopRows'
  BY DEF RenderInv, HostOnly, LoopRows, RenderedRows, Labelled, RowsInPlace, Plan
<1>3. LoopEnd'
  BY DEF RenderInv, HostOnly, LoopEnd, Plan
<1>4. LoopWarmups'
  BY DEF RenderInv, HostOnly, LoopWarmups, WarmupsAllowed, Plan
<1> QED
  BY <1>1, <1>2, <1>3, <1>4 DEF RenderInv

\* A directory holds the shard it held, while it is asked for.
LEMMA HoldsStays ==
  ASSUME UNCHANGED <<setting, shardDir>>
  PROVE  HoldsTheShard(shardDir)' <=> HoldsTheShard(shardDir)
BY DEF HoldsTheShard, Plan

LEMMA DirectoryOnly ==
  ASSUME RenderInv, HostOnly, UNCHANGED <<shardDir, tally>>, host # "ok",
         host' \in HostSteps \ {"ok", "metrics"},
         host' \in {"commit", "rename"} => loop.state = "returned"
  PROVE  RenderInv'
<1>1. HostOK'
  BY HoldsStays DEF RenderInv, HostOK, HostOnly, HostSteps, Over
<1> QED
  BY <1>1, HostKeeps

\* The steps of the main thread that touch no file.
LEMMA WaitKeeps ==
  ASSUME RenderInv, LoopEnds \/ EditorCloses \/ JoinEnds \/ SeeCaptured \/ SeeAlive \/ HostRaises
  PROVE  RenderInv'
<1>1. /\ HostOnly /\ UNCHANGED <<shardDir, tally>> /\ host # "ok"
      /\ host' \in HostSteps \ {"ok", "metrics"}
      /\ host' \in {"commit", "rename"} => loop.state = "returned"
  BY DEF LoopEnds, EditorCloses, JoinEnds, SeeCaptured, SeeAlive, HostRaises, HostSteps, Over
<1> QED
  BY <1>1, DirectoryOnly

LEMMA RemoveOldKeeps ==
  ASSUME RenderInv, RemoveOld \/ RemovalBreaks PROVE RenderInv'
<1>1. HostOnly /\ host = "commit" /\ shardDir' \in {NoDir, TornDir} /\ tally' = tally
      /\ host' \in {"rename", "failing"}
  BY DEF RemoveOld, RemovalBreaks
<1>2. HostOK'
  BY <1>1 DEF RenderInv, HostOK, HostOnly
<1> QED
  BY <1>1, <1>2, HostKeeps

\* What the loop returned is the shard.
LEMMA ReturnedIs ==
  ASSUME RenderInv, loop.state = "returned"
  PROVE  /\ RenderedRows = hidden /\ hidden \in Directories(setting.job)
         /\ HoldsTheShard(hidden)
         /\ loop.rejected = RejectedIn(hidden)
<1>1. /\ LoopTypeOK /\ LoopRows /\ loop.batch = <<>> /\ hidden \in Seq(ShardRow(setting.job))
      /\ Len(hidden) + Len(loop.batch) = loop.row /\ loop.row = Plan.rows
      /\ RowsInPlace(RenderedRows) /\ loop.rejected = RejectedIn(RenderedRows)
  BY DEF RenderInv, LoopTypeOK, LoopRows, LoopEnd
<1>2. Len(hidden) = Plan.rows
  BY <1>1
<1>3. RenderedRows = hidden
  <2>1. Labelled(loop.batch, loop.start) = <<>>
    BY <1>1 DEF Labelled
  <2> QED
    BY <1>1, <2>1, ConcatEmptySeq DEF RenderedRows
<1>4. hidden \in Directories(setting.job)
  <2>1. Plan.rows = setting.job.plan.rows
    BY DEF Plan
  <2> QED
    BY <1>1, <1>2, <2>1, LenProperties DEF Directories
<1> QED
  BY <1>1, <1>2, <1>3, <1>4 DEF HoldsTheShard, RowsInPlace

LEMMA RenameKeeps == ASSUME RenderInv, RenameHidden PROVE RenderInv'
<1>1. /\ HostOnly /\ host = "rename" /\ shardDir' = hidden /\ host' = "metrics" /\ tally' = tally
      /\ loop.state = "returned"
  BY DEF RenameHidden, RenderInv, HostOK
<1>2. HoldsTheShard(shardDir)'
  BY <1>1, ReturnedIs DEF HostOnly, HoldsTheShard, Plan
<1>3. HostOK'
  BY <1>1, <1>2 DEF RenderInv, HostOK, HostOnly
<1> QED
  BY <1>1, <1>3, HostKeeps

LEMMA WriteTallyKeeps ==
  ASSUME RenderInv, WriteTally \/ WritingBreaks PROVE RenderInv'
<1>1. /\ HostOnly /\ host = "metrics" /\ shardDir' = shardDir /\ shardDir = hidden
      /\ loop.state = "returned"
      /\ \/ host' = "ok" /\ tally' = loop.rejected
         \/ host' = "failing" /\ tally' = TornTally
  BY DEF WriteTally, WritingBreaks, RenderInv, HostOK
<1>2. HoldsTheShard(shardDir)' /\ RejectedIn(shardDir)' = RejectedIn(shardDir)
  BY <1>1, ReturnedIs, HoldsStays DEF HostOnly, RejectedIn, RejectedDraws
<1>3. loop.rejected \in Nat /\ loop.rejected = RejectedIn(shardDir)
  BY <1>1, ReturnedIs DEF RenderInv, LoopTypeOK
<1>4. shardDir \notin {NoDir, TornDir}
  BY <1>1, ReturnedIs, JobIs DEF RenderInv
<1>5. HostOK'
  BY <1>1, <1>2, <1>3, <1>4 DEF HostOK, HostOnly
<1> QED
  BY <1>1, <1>5, HostKeeps

LEMMA WarmedIs ==
  ASSUME LoopTypeOK
  PROVE  /\ Warmed \in Nat
         /\ Warmed = IF /\ loop.tries = 0
                        /\ setting.toggle = "render" \/ (setting.toggle = "once" /\ ~loop.warmed)
                     THEN loop.warmups + 1 ELSE loop.warmups
BY DEF LoopTypeOK, Warmed, WarmsUp

\* No attempt at a row that is asked for shows the editor more often than the
\* setting allows.
LEMMA WarmedFits ==
  ASSUME RenderInv, loop.state = "running"
  PROVE  /\ Warmed <= WarmupsAllowed
         /\ setting.toggle = "render" => Warmed <= loop.row + 1
<1>1. /\ LoopTypeOK /\ LoopWarmups /\ loop.warmups \in Nat /\ loop.row \in Nat /\ loop.tries \in Nat
      /\ loop.row < Plan.rows /\ Plan.rows \in Nat /\ loop.warmed \in BOOLEAN
  BY JobIs DEF RenderInv, LoopTypeOK, LoopEnd
<1>2. CASE setting.toggle = "once"
  <2>1. WarmupsAllowed = 1
    BY <1>2 DEF WarmupsAllowed
  <2>2. loop.tries = 0 /\ ~loop.warmed => loop.warmups = 0
    BY <1>1, <1>2 DEF LoopWarmups
  <2>3. loop.warmups <= 1
    BY <1>1, <2>1 DEF LoopWarmups
  <2> QED
    BY <1>1, <1>2, <2>1, <2>2, <2>3, WarmedIs
<1>3. CASE setting.toggle = "render"
  <2>1. WarmupsAllowed = Plan.rows
    BY <1>3 DEF WarmupsAllowed
  <2>2. loop.warmups <= loop.row + (IF loop.tries > 0 THEN 1 ELSE 0)
    BY <1>1, <1>3 DEF LoopWarmups
  <2>3. Warmed <= loop.row + 1
    BY <1>1, <1>3, <2>2, WarmedIs
  <2> QED
    BY <1>1, <1>3, <2>1, <2>3, WarmedIs
<1>4. CASE setting.toggle \notin {"once", "render"}
  <2>1. Warmed = loop.warmups
    BY <1>1, <1>4, WarmedIs
  <2> QED
    BY <1>1, <1>4, <2>1 DEF LoopWarmups
<1> QED
  BY <1>2, <1>3, <1>4

\* The main thread is not concerned by what a running loop does.
LEMMA HostStays ==
  ASSUME RenderInv, loop.state = "running",
         UNCHANGED <<setting, host, shardDir, tally, renders>>
  PROVE  HostOK'
<1>1. host \notin {"commit", "rename", "metrics", "ok"}
  BY DEF RenderInv, HostOK
<1>2. HoldsTheShard(shardDir)' <=> HoldsTheShard(shardDir)
  BY HoldsStays
<1> QED
  BY <1>1, <1>2 DEF RenderInv, HostOK

\* A rejected draw, and a loop that raises, leave the rows alone.
LEMMA RowsStay ==
  ASSUME RenderInv, loop.state = "running", LoopOnly, UNCHANGED hidden,
         NEW tries \in 0 .. RowAttempts - 1, NEW state \in {"running", "raised"},
         NEW warmups \in {loop.warmups, Warmed},
         loop' = [loop EXCEPT !.state = state, !.tries = tries, !.warmups = warmups]
  PROVE  LoopTypeOK' /\ LoopRows' /\ LoopEnd' /\ HostOK'
<1>1. /\ loop'.state = state /\ loop'.tries = tries /\ loop'.warmups = warmups
      /\ loop'.row = loop.row /\ loop'.batch = loop.batch /\ loop'.start = loop.start
      /\ loop'.patch = loop.patch /\ loop'.rejected = loop.rejected
  BY DEF RenderInv, LoopTypeOK
<1>2. LoopTypeOK'
  <2>1. warmups \in Nat
    BY WarmedIs DEF RenderInv, LoopTypeOK
  <2>2. LoopTypeOK
    BY DEF RenderInv
  <2> QED
    BY <2>1, <2>2 DEF LoopTypeOK, LoopOnly, Plan
<1>3. RenderedRows' = RenderedRows
  BY <1>1 DEF RenderedRows, Labelled, LoopOnly, Plan
<1>4. RejectedIn(RenderedRows)' = RejectedIn(RenderedRows)
  BY <1>3 DEF RejectedIn, RejectedDraws
<1>5. RowsInPlace(RenderedRows)' <=> RowsInPlace(RenderedRows)
  BY <1>3 DEF RowsInPlace, Plan, LoopOnly
<1>6. LoopRows'
  BY <1>1, <1>3, <1>4, <1>5 DEF RenderInv, LoopRows, LoopOnly
<1>7. LoopEnd'
  BY <1>1 DEF RenderInv, LoopEnd, LoopOnly, Plan
<1> QED
  BY <1>2, <1>6, <1>7, HostStays DEF LoopOnly

LEMMA AllowedStays == ASSUME UNCHANGED setting PROVE WarmupsAllowed' = WarmupsAllowed
BY DEF WarmupsAllowed, Plan

LEMMA RejectDrawKeeps == ASSUME RenderInv, RejectDraw PROVE RenderInv'
<1>1. /\ loop.state = "running" /\ LoopOnly /\ UNCHANGED hidden
      /\ loop.tries + 1 \in 0 .. RowAttempts - 1
      /\ loop' = [loop EXCEPT !.state = "running", !.tries = loop.tries + 1, !.warmups = Warmed]
  <2>1. /\ loop.state = "running" /\ LoopOnly /\ UNCHANGED hidden /\ loop.tries + 1 < RowAttempts
        /\ loop' = [loop EXCEPT !.tries = @ + 1, !.warmups = Warmed]
    BY DEF RejectDraw
  <2>2. loop.tries \in 0 .. RowAttempts - 1 /\ RowAttempts \in Nat
    BY JobIs DEF RenderInv, LoopTypeOK
  <2>3. loop' = [loop EXCEPT !.state = "running", !.tries = loop.tries + 1, !.warmups = Warmed]
    <3>1. loop = [loop EXCEPT !.state = "running"]
      BY <2>1 DEF RenderInv, LoopTypeOK
    <3> QED
      BY <2>1, <3>1 DEF RenderInv, LoopTypeOK
  <2> QED
    BY <2>1, <2>2, <2>3
<1>2. LoopTypeOK' /\ LoopRows' /\ LoopEnd' /\ HostOK'
  BY <1>1, RowsStay
<1>3. LoopWarmups'
  <2>1. /\ loop'.warmups = Warmed /\ loop'.tries = loop.tries + 1 /\ loop'.row = loop.row
        /\ loop'.warmed = loop.warmed /\ loop'.state = "running" /\ setting' = setting
        /\ loop.tries \in Nat /\ loop.row \in Nat
    BY <1>1 DEF RenderInv, LoopTypeOK, LoopOnly
  <2>2. Warmed <= WarmupsAllowed /\ (setting.toggle = "render" => Warmed <= loop.row + 1)
    BY <1>1, WarmedFits
  <2>3. setting.toggle = "once" => (loop.warmed <=> loop.row > 0)
    BY <1>1 DEF RenderInv, LoopWarmups
  <2> QED
    BY <2>1, <2>2, <2>3, AllowedStays DEF LoopWarmups
<1> QED
  BY <1>2, <1>3 DEF RenderInv

LEMMA LoopRaisesKeeps == ASSUME RenderInv, LoopRaises PROVE RenderInv'
<1>1. PICK n \in {loop.warmups, Warmed} :
        loop' = [loop EXCEPT !.state = "raised", !.warmups = n]
  BY DEF LoopRaises
<1>2. /\ loop.state = "running" /\ LoopOnly /\ UNCHANGED hidden
      /\ loop.tries \in 0 .. RowAttempts - 1
      /\ loop' = [loop EXCEPT !.state = "raised", !.tries = loop.tries, !.warmups = n]
  BY <1>1 DEF LoopRaises, RenderInv, LoopTypeOK
<1>3. LoopTypeOK' /\ LoopRows' /\ LoopEnd' /\ HostOK'
  BY <1>2, RowsStay
<1>4. LoopWarmups'
  <2>1. loop'.warmups = n /\ loop'.state = "raised" /\ setting' = setting
    BY <1>1, <1>2 DEF RenderInv, LoopTypeOK, LoopOnly
  <2>2. n <= WarmupsAllowed
    BY <1>2, WarmedFits DEF RenderInv, LoopWarmups
  <2> QED
    BY <2>1, <2>2, AllowedStays DEF LoopWarmups
<1> QED
  BY <1>3, <1>4 DEF RenderInv

LEMMA AcceptRowKeeps == ASSUME RenderInv, AcceptRow PROVE RenderInv'
<1> DEFINE Rows == ShardRow(setting.job)
<1>1. /\ UNCHANGED <<setting, host, shardDir, tally, renders>> /\ loop.state = "running"
      /\ loop'.state = (IF loop.row + 1 = Plan.rows THEN "returned" ELSE "running")
      /\ loop'.row = loop.row + 1 /\ loop'.tries = 0 /\ loop'.warmups = Warmed
      /\ loop'.patch = (IF setting.cadence = "shard" THEN NextRow.patch ELSE NoPatch)
      /\ loop'.rejected = loop.rejected + loop.tries
      /\ loop'.warmed = (loop.warmed \/ setting.toggle = "once")
      /\ loop' = [state |-> loop'.state, row |-> loop'.row, tries |-> loop'.tries,
                  batch |-> loop'.batch, start |-> loop'.start, patch |-> loop'.patch,
                  warmed |-> loop'.warmed, warmups |-> loop'.warmups, rejected |-> loop'.rejected]
  BY AcceptIs
<1>2. /\ LoopTypeOK /\ loop.row \in 0 .. Plan.rows - 1 /\ loop.tries \in 0 .. RowAttempts - 1
      /\ loop.rejected \in Nat /\ loop.warmed \in BOOLEAN /\ loop.warmups \in Nat
      /\ Plan.rows \in Nat \ {0} /\ RowAttempts \in Nat \ {0}
      /\ setting.cadence \in {"sample", "shard"}
      /\ RenderedRows \in Seq(Rows) /\ Len(RenderedRows) = loop.row
      /\ RowsInPlace(RenderedRows) /\ loop.rejected = RejectedIn(RenderedRows)
      /\ setting.cadence = "shard" =>
           loop.patch = IF loop.row = 0 THEN NoPatch ELSE RenderedRows[1].debug
  BY <1>1, JobIs, RenderedIs DEF RenderInv, LoopTypeOK, LoopRows, LoopEnd
<1>3. /\ NextRow \in Rows /\ NextDebug \in Draws(setting.job) /\ NextRow.debug = NextDebug
      /\ NextDebug.at = RowDraw(Plan, setting.job.name, loop.row) /\ NextDebug.attempt = loop.tries
      /\ NextRow.patch = IF Fixed THEN loop.patch ELSE NextDebug
      /\ NextRow.patch \in Draws(setting.job)
  BY NextRowIs DEF NextRow, NextDebug, ShardRow
<1>4. NextRow.patch = IF setting.cadence = "sample" THEN NextDebug
                      ELSE IF loop.row = 0 THEN NextDebug ELSE RenderedRows[1].debug
  <2>1. loop.row # 0 => RenderedRows[1].debug \in Draws(setting.job)
    <3>1. loop.row # 0 => RenderedRows[1] \in Rows
      BY <1>2, ElementOfSeq
    <3> QED
      BY <3>1 DEF ShardRow
  <2>2. setting.cadence = "shard" => (Fixed <=> loop.row # 0)
    BY <1>2, <2>1, NoPatchIsNoDraw DEF Fixed
  <2>3. setting.cadence = "sample" => ~Fixed
    BY DEF Fixed
  <2> QED
    BY <1>2, <1>3, <2>2, <2>3
<1>5. RenderedRows' = Append(RenderedRows, NextRow)
  BY RenderedGrows
<1>6. LoopTypeOK'
  <2>1. /\ hidden' \in Seq(Rows)
        /\ loop'.batch \in Seq([patch : Draws(setting.job), attempt : 0 .. RowAttempts - 1])
        /\ loop'.start \in Nat
    BY RenderedGrows
  <2>2. /\ loop'.state \in {"none", "running", "returned", "raised"}
        /\ loop'.row \in 0 .. Plan.rows /\ loop'.tries \in 0 .. RowAttempts - 1
        /\ loop'.rejected \in Nat /\ loop'.warmed \in BOOLEAN
        /\ loop'.patch \in Draws(setting.job) \cup {NoPatch}
    BY <1>1, <1>2, <1>3
  <2>3. loop'.warmups \in Nat
    BY <1>1, <1>2, WarmedIs
  <2>4. /\ setting' = setting /\ Plan' = Plan /\ setting \in Settings
    BY <1>1, <1>2 DEF Plan, LoopTypeOK
  <2> QED
    BY <1>1, <2>1, <2>2, <2>3, <2>4 DEF LoopTypeOK
<1>7. LoopRows'
  <2>1. Plan' = Plan /\ setting' = setting
    BY <1>1 DEF Plan
  <2>2. RowsInPlace(Append(RenderedRows, NextRow))
    BY <1>2, <1>3, <1>4, InPlaceGrows
  <2>3. RowsInPlace(RenderedRows)'
    BY <1>5, <2>1, <2>2 DEF RowsInPlace
  <2>4. RejectedIn(RenderedRows)' = RejectedIn(Append(RenderedRows, NextRow))
    BY <1>5 DEF RejectedIn, RejectedDraws
  <2>5. loop'.rejected = RejectedIn(RenderedRows)'
    BY <1>1, <1>2, <1>3, <2>4, RejectedGrows
  <2>6. setting.cadence = "shard" => NextRow.patch = Append(RenderedRows, NextRow)[1].debug
    BY <1>2, <1>3, <1>4, AppendProperties
  <2>7. /\ Len(hidden') + Len(loop'.batch) = loop'.row
        /\ loop'.batch # <<>> => loop'.start = Len(hidden')
    BY <1>1, RenderedGrows
  <2>8. loop'.row # 0
    BY <1>1, <1>2
  <2> QED
    BY <1>1, <1>5, <2>1, <2>3, <2>5, <2>6, <2>7, <2>8 DEF LoopRows
<1>8. LoopEnd'
  <2>1. Plan' = Plan
    BY <1>1 DEF Plan
  <2>2. CASE loop.row + 1 = Plan.rows
    <3>1. loop'.batch = <<>>
      BY <2>2, RenderedGrows
    <3> QED
      BY <1>1, <2>1, <2>2, <3>1 DEF LoopEnd
  <2>3. CASE loop.row + 1 # Plan.rows
    <3>1. loop'.start = Len(hidden') /\ Len(loop'.batch) < BatchRows
      BY <2>3, RenderedGrows
    <3>2. loop'.state = "running" /\ loop'.row < Plan.rows
      BY <1>1, <1>2, <2>3
    <3> QED
      BY <2>1, <3>1, <3>2 DEF LoopEnd
  <2> QED
    BY <2>2, <2>3
<1>9. LoopWarmups'
  <2>1. Warmed <= WarmupsAllowed /\ (setting.toggle = "render" => Warmed <= loop.row + 1)
    BY <1>1, WarmedFits
  <2>2. setting.toggle = "once" => (loop'.warmed <=> loop'.row > 0)
    <3>1. loop'.row > 0
      BY <1>1, <1>2
    <3>2. setting.toggle = "once" => loop'.warmed = TRUE
      BY <1>1
    <3> QED
      BY <3>1, <3>2
  <2> QED
    BY <1>1, <1>2, <2>1, <2>2, AllowedStays DEF LoopWarmups
<1> QED
  BY <1>1, <1>6, <1>7, <1>8, <1>9, HostStays DEF RenderInv

\* A process starts with nothing rendered, whatever directory is there.
LEMMA FreshLoop ==
  ASSUME RenderInv, UNCHANGED setting, hidden' = <<>>,
         loop' \in {IdleLoop, [IdleLoop EXCEPT !.state = "running"]}
  PROVE  LoopTypeOK' /\ LoopRows' /\ LoopEnd' /\ LoopWarmups'
<1>1. PICK state \in {"none", "running"} :
        /\ loop' = [state |-> state, row |-> 0, tries |-> 0, batch |-> <<>>, start |-> 0,
                    patch |-> NoPatch, warmed |-> FALSE, warmups |-> 0, rejected |-> 0]
        /\ Plan' = Plan
  <2>1. CASE loop' = IdleLoop
    BY <2>1 DEF IdleLoop, Plan
  <2>2. CASE loop' = [IdleLoop EXCEPT !.state = "running"]
    BY <2>2 DEF IdleLoop, Plan
  <2> QED
    BY <2>1, <2>2
<1>2. LoopTypeOK /\ Plan.rows \in Nat \ {0} /\ RowAttempts \in Nat \ {0} /\ BatchRows \in Nat \ {0}
  BY JobIs DEF RenderInv
<1>3. LoopTypeOK'
  <2>1. setting' \in Settings /\ setting'.job = setting.job
    BY <1>2 DEF LoopTypeOK
  <2>2. hidden' \in Seq(ShardRow(setting'.job))
    OBVIOUS
  <2>3. /\ 0 \in 0 .. Plan'.rows /\ 0 \in 0 .. RowAttempts - 1 /\ 0 \in Nat
        /\ <<>> \in Seq([patch : Draws(setting'.job), attempt : 0 .. RowAttempts - 1])
        /\ NoPatch \in Draws(setting'.job) \cup {NoPatch}
        /\ state \in {"none", "running", "returned", "raised"}
    BY <1>1, <1>2
  <2>4. loop' \in [state : {"none", "running", "returned", "raised"}, row : 0 .. Plan'.rows,
                   tries : 0 .. RowAttempts - 1,
                   batch : Seq([patch : Draws(setting'.job), attempt : 0 .. RowAttempts - 1]),
                   start : Nat, patch : Draws(setting'.job) \cup {NoPatch}, warmed : BOOLEAN,
                   warmups : Nat, rejected : Nat]
    <3> DEFINE Batches == Seq([patch : Draws(setting'.job), attempt : 0 .. RowAttempts - 1])
    <3> DEFINE Patches == Draws(setting'.job) \cup {NoPatch}
    <3>1. <<>> \in Batches /\ NoPatch \in Patches
      BY <2>3
    <3> HIDE DEF Batches, Patches
    <3>2. [state |-> state, row |-> 0, tries |-> 0, batch |-> <<>>, start |-> 0,
           patch |-> NoPatch, warmed |-> FALSE, warmups |-> 0, rejected |-> 0]
          \in [state : {"none", "running", "returned", "raised"}, row : 0 .. Plan'.rows,
              tries : 0 .. RowAttempts - 1, batch : Batches, start : Nat, patch : Patches,
              warmed : BOOLEAN, warmups : Nat, rejected : Nat]
      BY <2>3, <3>1
    <3> QED
      BY <1>1, <3>2 DEF Batches, Patches
  <2> QED
    BY <2>1, <2>2, <2>4 DEF LoopTypeOK
<1>4. RenderedRows' = <<>>
  BY <1>1 DEF RenderedRows, Labelled
<1>5. RejectedIn(RenderedRows)' = 0
  <2>1. RejectedDraws(RenderedRows)' = {}
    BY <1>4 DEF RejectedDraws
  <2> QED
    BY <2>1, FS_EmptySet DEF RejectedIn
<1>6. LoopRows'
  BY <1>1, <1>4, <1>5 DEF LoopRows, RowsInPlace
<1>7. LoopEnd'
  BY <1>1, <1>2 DEF LoopEnd
<1>8. LoopWarmups'
  <2>1. WarmupsAllowed >= 0
    BY <1>2 DEF WarmupsAllowed
  <2> QED
    BY <1>1, <2>1, AllowedStays DEF LoopWarmups
<1> QED
  BY <1>3, <1>6, <1>7, <1>8

LEMMA StartProcessKeeps == ASSUME RenderInv, StartProcess PROVE RenderInv'
<1>1. /\ UNCHANGED <<setting, shardDir>> /\ hidden' = <<>> /\ tally' = NoTally
      /\ host' \in {"editor", "body"} /\ loop' = [IdleLoop EXCEPT !.state = "running"]
  BY DEF StartProcess
<1>2. HostOK'
  BY <1>1, HoldsStays DEF RenderInv, HostOK
<1> QED
  BY <1>1, <1>2, FreshLoop DEF RenderInv

LEMMA ProcessEndsKeeps == ASSUME RenderInv, ProcessEnds PROVE RenderInv'
<1>1. /\ UNCHANGED <<setting, shardDir, tally>> /\ hidden' = <<>> /\ host' = "failed"
      /\ host # "ok" /\ loop' = IdleLoop
  BY DEF ProcessEnds, Over
<1>2. HostOK'
  <2>1. tally' \in {NoTally, TornTally}
    BY <1>1 DEF RenderInv, HostOK
  <2>2. shardDir' \notin {NoDir, TornDir} => HoldsTheShard(shardDir)'
    BY <1>1, HoldsStays DEF RenderInv, HostOK
  <2> QED
    BY <1>1, <2>1, <2>2 DEF HostOK
<1> QED
  BY <1>1, <1>2, FreshLoop DEF RenderInv

LEMMA RenderStep == RenderInv /\ [BatchNext]_renderBatchVars => RenderInv'
<1> SUFFICES ASSUME RenderInv, [BatchNext]_renderBatchVars PROVE RenderInv'
  OBVIOUS
<1>1. CASE LoopStep
  BY <1>1, RejectDrawKeeps, AcceptRowKeeps, LoopRaisesKeeps DEF LoopStep
<1>2. CASE StartProcess \/ ProcessEnds
  BY <1>2, StartProcessKeeps, ProcessEndsKeeps
<1>3. CASE LoopEnds \/ EditorCloses \/ JoinEnds \/ SeeCaptured \/ SeeAlive \/ HostRaises
  BY <1>3, WaitKeeps
<1>4. CASE RemoveOld \/ RemovalBreaks
  BY <1>4, RemoveOldKeeps
<1>5. CASE RenameHidden
  BY <1>5, RenameKeeps
<1>6. CASE WriteTally \/ WritingBreaks
  BY <1>6, WriteTallyKeeps
<1>7. CASE UNCHANGED renderBatchVars
  <2>1. HostOnly /\ UNCHANGED <<host, shardDir, tally>>
    BY <1>7 DEF renderBatchVars, HostOnly
  <2>2. HostOK'
    BY <2>1, HoldsStays DEF RenderInv, HostOK, HostOnly, RejectedIn, RejectedDraws
  <2> QED
    BY <2>1, <2>2, HostKeeps
<1> QED
  BY <1>1, <1>2, <1>3, <1>4, <1>5, <1>6, <1>7 DEF BatchNext

\* Whatever was killed, raised or leaked before: a shard's directory that is
\* whole holds the shard, its metrics count the draws rejected for it, exit code
\* 0 means both, and no row shows the editor twice, for any number of processes,
\* of rows, and of rows to a batch.
THEOREM RendererLeavesItsShard == BatchSpec => []RendersItsShard
<1>1. RenderInv => RendersItsShard
  <2> SUFFICES ASSUME RenderInv PROVE RendersItsShard
    OBVIOUS
  <2>1. host # "ok" => tally \in {NoTally, TornTally}
    BY DEF RenderInv, HostOK
  <2>2. /\ NoTally \notin Nat /\ TornTally \notin Nat
        /\ loop.warmups <= WarmupsAllowed
    BY JobIs DEF RenderInv, LoopWarmups
  <2> QED
    BY <2>1, <2>2 DEF RenderInv, HostOK, RendersItsShard
<1> QED
  BY <1>1, RenderStarts, RenderStep, PTL DEF BatchSpec

\* No row is rejected more often than it is attempted, a batch never overruns its
\* size, and what replaces the shard's directory is one of its kind.
BatchFits ==
  /\ host \in HostSteps
  /\ Len(loop.batch) < BatchRows /\ Len(hidden) + Len(loop.batch) = loop.row
  /\ loop.start <= Plan.rows + BatchRows
  /\ loop.rejected <= loop.row * (RowAttempts - 1)
  /\ shardDir \in {NoDir, TornDir} \cup Directories(setting.job)
  /\ renders \in 0 .. MaxRenders

LEMMA RejectionsGrow ==
  ASSUME NEW row \in Nat, NEW attempts \in Nat \ {0}, NEW rejected \in Nat,
         rejected <= row * (attempts - 1), NEW tries \in 0 .. attempts - 1
  PROVE  rejected + tries <= (row + 1) * (attempts - 1)
<1>1. (row + 1) * (attempts - 1) = row * (attempts - 1) + (attempts - 1)
  BY Z3
<1>2. row * (attempts - 1) \in Int
  OBVIOUS
<1> DEFINE most == row * (attempts - 1)
<1> HIDE DEF most
<1>3. (row + 1) * (attempts - 1) = most + (attempts - 1) /\ most \in Int /\ rejected <= most
  BY <1>1, <1>2 DEF most
<1> DEFINE more == (row + 1) * (attempts - 1)
<1>4. more = most + (attempts - 1)
  BY <1>3
<1> HIDE DEF more
<1>5. rejected + tries <= more
  BY <1>3, <1>4
<1> QED
  BY <1>5 DEF more

LEMMA RejectionsBound ==
  ASSUME NEW all \in Nat, NEW row \in 0 .. all, NEW attempts \in Nat \ {0}, NEW rejected \in Nat,
         rejected <= row * (attempts - 1)
  PROVE  rejected \in 0 .. all * (attempts - 1)
<1>1. PICK most \in Nat : most = attempts - 1
  OBVIOUS
<1>2. row * most <= all * most /\ row * most \in Nat /\ all * most \in Nat
  BY Z3
<1> QED
  BY <1>1, <1>2

LEMMA FitsFirst == BatchInit => BatchFits
<1> SUFFICES ASSUME BatchInit PROVE BatchFits
  OBVIOUS
<1>1. /\ setting \in Settings /\ loop = IdleLoop /\ hidden = <<>> /\ host = "off"
      /\ shardDir = NoDir /\ renders = 0
  BY DEF BatchInit
<1>2. /\ loop.batch = <<>> /\ loop.row = 0 /\ loop.start = 0 /\ loop.rejected = 0
  BY <1>1 DEF IdleLoop
<1>3. Plan.rows \in Nat /\ RowAttempts \in Nat \ {0} /\ BatchRows \in Nat \ {0} /\ MaxRenders \in Nat
  BY RenderStarts, JobIs, BatchAssumption DEF RenderInv
<1>4. 0 * (RowAttempts - 1) = 0
  BY <1>3
<1> QED
  BY <1>1, <1>2, <1>3, <1>4 DEF BatchFits, HostSteps, Over

\* The main thread leaves the loop alone.
LEMMA HostFits ==
  ASSUME RenderInv, BatchFits, HostOnly, host' \in HostSteps,
         shardDir' \in {shardDir, NoDir, TornDir, hidden},
         shardDir' = hidden => loop.state = "returned" \/ shardDir' = shardDir
  PROVE  BatchFits'
<1>1. UNCHANGED <<setting, loop, hidden, renders>> /\ Plan' = Plan
  BY DEF HostOnly, Plan
<1>2. shardDir' \in {NoDir, TornDir} \cup Directories(setting.job)
  BY ReturnedIs DEF BatchFits
<1> QED
  BY <1>1, <1>2 DEF BatchFits

LEMMA MainFits ==
  ASSUME RenderInv, BatchFits,
         \/ LoopEnds \/ EditorCloses \/ JoinEnds \/ SeeCaptured \/ SeeAlive \/ HostRaises
         \/ RemoveOld \/ RemovalBreaks \/ RenameHidden \/ WriteTally \/ WritingBreaks
  PROVE  BatchFits'
<1>1. CASE LoopEnds \/ EditorCloses \/ JoinEnds \/ SeeCaptured \/ SeeAlive \/ HostRaises
  <2>1. HostOnly /\ shardDir' = shardDir /\ host' \in HostSteps
    BY <1>1 DEF LoopEnds, EditorCloses, JoinEnds, SeeCaptured, SeeAlive, HostRaises, HostSteps, Over
  <2> QED
    BY <2>1, HostFits
<1>2. CASE RemoveOld \/ RemovalBreaks \/ WriteTally \/ WritingBreaks
  <2>1. HostOnly /\ shardDir' \in {shardDir, NoDir, TornDir} /\ host' \in HostSteps
    BY <1>2 DEF RemoveOld, RemovalBreaks, WriteTally, WritingBreaks, HostSteps, Over
  <2>2. hidden \notin {NoDir, TornDir} \/ loop.state # "returned"
    BY ReturnedIs, JobIs DEF RenderInv
  <2>3. host \in {"commit", "metrics"} /\ loop.state = "returned"
    BY <1>2 DEF RemoveOld, RemovalBreaks, WriteTally, WritingBreaks, RenderInv, HostOK
  <2> QED
    BY <2>1, <2>2, <2>3, HostFits
<1>3. CASE RenameHidden
  <2>1. HostOnly /\ shardDir' = hidden /\ host' \in HostSteps /\ loop.state = "returned"
    BY <1>3 DEF RenameHidden, HostSteps, Over, RenderInv, HostOK
  <2> QED
    BY <2>1, HostFits
<1> QED
  BY <1>1, <1>2, <1>3

LEMMA AcceptFits == ASSUME RenderInv, BatchFits, AcceptRow PROVE BatchFits'
<1>1. /\ LoopTypeOK /\ loop.row \in 0 .. Plan.rows - 1 /\ loop.tries \in 0 .. RowAttempts - 1
      /\ loop.rejected \in Nat /\ loop.start \in Nat /\ loop.start = Len(hidden)
      /\ Plan.rows \in Nat \ {0} /\ RowAttempts \in Nat \ {0} /\ BatchRows \in Nat \ {0}
      /\ Len(hidden) \in Nat /\ Len(loop.batch) \in Nat
      /\ Len(hidden) + Len(loop.batch) = loop.row
  BY JobIs DEF RenderInv, LoopTypeOK, LoopEnd, AcceptRow, BatchFits
<1>2. /\ UNCHANGED <<setting, host, shardDir, renders>> /\ loop'.row = loop.row + 1
      /\ loop'.rejected = loop.rejected + loop.tries
      /\ loop'.start = loop.start + BatchRows \/ loop'.start = loop.start
  BY AcceptIs
<1>3. /\ Len(hidden') + Len(loop'.batch) = loop'.row
      /\ Len(loop'.batch) < BatchRows
  <2>1. loop'.batch = <<>> => Len(loop'.batch) < BatchRows
    BY <1>1
  <2> QED
    BY <1>2, <2>1, RenderedGrows
<1>4. loop'.rejected <= loop'.row * (RowAttempts - 1)
  <2>1. loop.rejected <= loop.row * (RowAttempts - 1) /\ loop.row \in Nat
    BY <1>1 DEF BatchFits
  <2> QED
    BY <1>1, <1>2, <2>1, RejectionsGrow
<1>5. loop'.start <= Plan.rows + BatchRows
  <2>1. loop.start <= Plan.rows /\ loop.start \in Nat /\ Plan.rows \in Nat /\ BatchRows \in Nat
    BY <1>1
  <2>2. loop'.start = loop.start + BatchRows \/ loop'.start = loop.start
    BY <1>2
  <2> QED
    BY <2>1, <2>2
<1>6. Plan' = Plan
  BY <1>2 DEF Plan
<1> QED
  BY <1>2, <1>3, <1>4, <1>5, <1>6 DEF BatchFits

LEMMA LoopFits == ASSUME RenderInv, BatchFits, RejectDraw \/ LoopRaises PROVE BatchFits'
<1>1. /\ UNCHANGED <<setting, host, shardDir, renders, hidden>>
      /\ loop'.row = loop.row /\ loop'.batch = loop.batch /\ loop'.start = loop.start
      /\ loop'.rejected = loop.rejected
  <2>1. CASE RejectDraw
    BY <2>1 DEF RejectDraw, LoopOnly, RenderInv, LoopTypeOK
  <2>2. CASE LoopRaises
    <3>1. PICK n \in {loop.warmups, Warmed} :
            loop' = [loop EXCEPT !.state = "raised", !.warmups = n]
      BY <2>2 DEF LoopRaises
    <3> QED
      BY <2>2, <3>1 DEF LoopRaises, LoopOnly, RenderInv, LoopTypeOK
  <2> QED
    BY <2>1, <2>2
<1>2. Plan' = Plan
  BY <1>1 DEF Plan
<1> QED
  BY <1>1, <1>2 DEF BatchFits

LEMMA FreshFits == ASSUME RenderInv, BatchFits, StartProcess \/ ProcessEnds PROVE BatchFits'
<1>1. /\ UNCHANGED <<setting, shardDir>> /\ hidden' = <<>> /\ host' \in HostSteps
      /\ loop'.batch = <<>> /\ loop'.row = 0 /\ loop'.start = 0 /\ loop'.rejected = 0
  BY DEF StartProcess, ProcessEnds, IdleLoop, HostSteps, Over
<1>2. renders' \in 0 .. MaxRenders
  BY BatchAssumption DEF StartProcess, ProcessEnds, BatchFits
<1>3. Plan.rows \in Nat /\ RowAttempts \in Nat \ {0} /\ BatchRows \in Nat \ {0} /\ Plan' = Plan
  BY <1>1, JobIs DEF RenderInv, Plan
<1>4. 0 * (RowAttempts - 1) = 0
  BY <1>3
<1> QED
  BY <1>1, <1>2, <1>3, <1>4 DEF BatchFits

LEMMA FitsStep == RenderInv /\ BatchFits /\ [BatchNext]_renderBatchVars => BatchFits'
<1>1. ASSUME BatchFits, UNCHANGED renderBatchVars PROVE BatchFits'
  BY <1>1 DEF renderBatchVars, BatchFits, Plan
<1> QED
  BY <1>1, MainFits, AcceptFits, LoopFits, FreshFits DEF BatchNext, LoopStep

LEMMA FittingIsTyped == RenderInv /\ BatchFits => BatchTypeOK
<1> SUFFICES ASSUME RenderInv, BatchFits PROVE BatchTypeOK
  OBVIOUS
<1>1. /\ LoopTypeOK /\ loop.row \in 0 .. Plan.rows /\ loop.rejected \in Nat /\ loop.start \in Nat
      /\ Plan.rows \in Nat /\ RowAttempts \in Nat \ {0} /\ BatchRows \in Nat \ {0}
      /\ loop.rejected <= loop.row * (RowAttempts - 1)
  BY JobIs DEF RenderInv, LoopTypeOK, BatchFits
<1>2. loop.rejected \in 0 .. Plan.rows * (RowAttempts - 1)
  BY <1>1, RejectionsBound
<1>3. loop.start \in 0 .. Plan.rows + BatchRows
  BY <1>1 DEF BatchFits
<1>4. /\ loop.state \in {"none", "running", "returned", "raised"} /\ setting \in Settings
      /\ loop.tries \in 0 .. RowAttempts - 1
  BY <1>1 DEF LoopTypeOK
<1> QED
  BY <1>1, <1>2, <1>3, <1>4 DEF BatchFits, BatchTypeOK

\* A shard's loop, its batch and its directory are well formed at every step.
THEOREM RenderIsTyped == BatchSpec => []BatchTypeOK
BY FittingIsTyped, FitsFirst, FitsStep, RenderStarts, RenderStep, PTL DEF BatchSpec

-----------------------------------------------------------------------------
(***************************************************************************)
(* A subprocess streamed to its caller.                                    *)
(***************************************************************************)

LEMMA StreamStarts == StreamInit => StreamTypeOK
BY StreamAssumption DEF StreamInit, StreamTypeOK, Call, Leader

\* What TERM to the group leaves.
LEMMA TermIsTyped ==
  ASSUME StreamTypeOK, TermGroup PROVE told' \subseteq Helpers /\ leader' \in Leader
BY DEF StreamTypeOK, TermGroup, Living, Leader

LEMMA ChildIsTyped ==
  ASSUME StreamTypeOK, ChildStep \/ \E d \in Descendants : Fork(d) \/ DescendantEnds(d)
  PROVE  StreamTypeOK'
<1>1. CASE ChildWrites
  <2>1. leader' \in Leader
    <3>1. leader.wrote + 1 \in 0 .. MaxChunks
      BY <1>1, StreamAssumption DEF StreamTypeOK, ChildWrites, Leader
    <3> QED
      BY <1>1, <3>1 DEF StreamTypeOK, ChildWrites, Leader
  <2>2. pipeFill' \in 0 .. PipeRoom
    BY <1>1, StreamAssumption DEF StreamTypeOK, ChildWrites
  <2> QED
    BY <1>1, <2>1, <2>2 DEF StreamTypeOK, ChildWrites, ChildOnly
<1>2. CASE ChildExits
  <2>1. leader' \in Leader
    BY <1>2 DEF StreamTypeOK, ChildExits, Leader
  <2> QED
    BY <1>2, <2>1 DEF StreamTypeOK, ChildExits, ChildOnly
<1>3. CASE \E d \in Descendants : Fork(d) \/ DescendantEnds(d)
  BY <1>3 DEF StreamTypeOK, Fork, DescendantEnds, ChildOnly
<1> QED
  BY <1>1, <1>2, <1>3 DEF ChildStep

LEMMA CallerIsTyped == ASSUME StreamTypeOK, CallStep \/ Cancelled PROVE StreamTypeOK'
<1>1. CASE PumpChunk
  <2>1. PICK tee \in BOOLEAN : call' = [call EXCEPT !.tee = tee]
    BY <1>1, Zenon DEF StreamTypeOK, PumpChunk, Call
  <2>2. call' \in Call
    BY <2>1 DEF StreamTypeOK, Call
  <2>3. pipeFill' \in 0 .. PipeRoom
    BY <1>1, StreamAssumption DEF StreamTypeOK, PumpChunk
  <2> QED
    BY <1>1, <2>2, <2>3 DEF StreamTypeOK, PumpChunk
<1>2. CASE PumpEnds \/ SeeExit \/ Drain \/ Cancelled
  BY <1>2 DEF StreamTypeOK, PumpEnds, SeeExit, Outcome, Drain, Phase, Cancelled, Call
<1>3. CASE TimeOut
  <2>1. call' \in Call
    BY <1>3 DEF StreamTypeOK, TimeOut, Call
  <2> QED
    BY <1>3, <2>1, TermIsTyped DEF StreamTypeOK, TimeOut
<1>4. CASE GraceEnds
  <2>1. call' \in Call
    BY <1>4 DEF StreamTypeOK, GraceEnds, Phase, Call
  <2>2. leader' \in Leader
    BY <1>4 DEF StreamTypeOK, GraceEnds, Leader
  <2>3. members' \in [Descendants -> {"unborn", "alive", "dead"}]
    BY <1>4 DEF StreamTypeOK, GraceEnds
  <2> QED
    BY <1>4, <2>1, <2>2, <2>3 DEF StreamTypeOK, GraceEnds
<1>5. CASE Sweep
  <2>1. call' \in Call
    BY <1>5 DEF StreamTypeOK, Sweep, Call
  <2> QED
    BY <1>5, <2>1, TermIsTyped DEF StreamTypeOK, Sweep
<1> QED
  BY <1>1, <1>2, <1>3, <1>4, <1>5 DEF CallStep

\* What the caller knows of the child in each phase; a pipe once at its end
\* stays there.
StreamKnows ==
  /\ call.phase = "wait" <=> call.outcome = "none"
  /\ call.phase \in {"grace", "killed"} => call.outcome = "timeout"
  /\ call.outcome = "timeout" => call.timed
  /\ call.phase \in {"killed", "drain"} => ~leader.alive
  /\ call.outcome \in {"ok", "failed"} =>
       ~leader.alive /\ (leader.failed <=> call.outcome = "failed")
  /\ call.outcome = "timeout" /\ leader.alive => call.phase = "grace"
  /\ call.outcome = "cancelled" => call.phase \in {"sweep", "returned"}
  /\ call.phase = "returned" /\ leader.alive => leader.termed
  /\ call.pump = "ended" => ~leader.alive /\ pipeFill = 0 /\ Living(Descendants) = {}

StreamInv == StreamTypeOK /\ StreamKnows

LEMMA StreamKnowsFirst == StreamInit => StreamKnows
BY DEF StreamInit, StreamKnows

LEMMA ChildIsKnown ==
  ASSUME StreamInv, ChildStep \/ \E d \in Descendants : Fork(d) \/ DescendantEnds(d)
  PROVE  StreamKnows'
<1>1. CASE ChildStep
  <2>1. leader.alive /\ call' = call
    BY <1>1, Zenon DEF ChildStep, ChildWrites, ChildExits, ChildOnly
  <2>2. leader'.termed = leader.termed
    <3>1. CASE ChildWrites
      BY <3>1 DEF ChildWrites, StreamInv, StreamTypeOK, Leader
    <3>2. CASE ChildExits
      BY <3>2 DEF ChildExits, StreamInv, StreamTypeOK, Leader
    <3> QED
      BY <1>1, <3>1, <3>2 DEF ChildStep
  <2> QED
    BY <2>1, <2>2 DEF StreamInv, StreamKnows, StreamTypeOK, Call
<1>2. CASE \E d \in Descendants : Fork(d) \/ DescendantEnds(d)
  <2>1. UNCHANGED <<call, leader, pipeFill>>
    BY <1>2 DEF Fork, DescendantEnds, ChildOnly
  <2>2. call.pump = "ended" => Living(Descendants)' = {}
    BY <1>2 DEF Fork, DescendantEnds, Living, StreamInv, StreamTypeOK, StreamKnows
  <2> QED
    BY <2>1, <2>2 DEF StreamInv, StreamKnows
<1> QED
  BY <1>1, <1>2

LEMMA CallerKnows == ASSUME StreamInv, CallStep \/ Cancelled PROVE StreamKnows'
<1> USE DEF StreamInv, StreamTypeOK, StreamKnows, Call
<1>1. CASE PumpChunk
  <2>1. PICK tee : call' = [call EXCEPT !.tee = tee]
    BY <1>1 DEF PumpChunk
  <2> QED
    BY <1>1, <2>1 DEF PumpChunk
<1>2. CASE PumpEnds
  BY <1>2 DEF PumpEnds, Living
<1>3. CASE SeeExit
  BY <1>3 DEF SeeExit, Outcome, Living
<1>4. CASE Drain
  BY <1>4 DEF Drain, Phase, Living
<1>8. CASE Cancelled
  BY <1>8 DEF Cancelled, Living
<1>5. CASE TimeOut
  BY <1>5 DEF TimeOut, TermGroup, Leader, Living
<1>6. CASE GraceEnds
  <2>1. Living(Descendants) = {} => Living(Descendants)' = {}
    BY <1>6 DEF GraceEnds, Living
  <2>2. call'.phase = "killed" /\ call'.outcome = call.outcome /\ call'.timed = call.timed
        /\ call'.pump = call.pump
    BY <1>6 DEF GraceEnds, Phase
  <2>3. leader'.alive = FALSE
    BY <1>6 DEF GraceEnds, Leader
  <2> QED
    BY <1>6, <2>1, <2>2, <2>3 DEF GraceEnds
<1>7. CASE Sweep
  BY <1>7 DEF Sweep, TermGroup, Leader, Living
<1> QED
  BY <1>1, <1>2, <1>3, <1>4, <1>5, <1>6, <1>7, <1>8 DEF CallStep

LEMMA StreamKeeps == StreamInv /\ [StreamNext]_streamVars => StreamInv'
<1>1. StreamInv /\ StreamNext => StreamInv'
  BY ChildIsTyped, CallerIsTyped, ChildIsKnown, CallerKnows DEF StreamNext, StreamInv
<1>2. StreamInv /\ UNCHANGED streamVars => StreamInv'
  BY DEF StreamInv, StreamTypeOK, StreamKnows, streamVars, Living
<1> QED
  BY <1>1, <1>2

\* The call, the child and the pipe are well formed, whatever is cancelled, ends
\* or runs out of time.
THEOREM StreamIsTyped == StreamSpec => []StreamTypeOK
<1>1. StreamInit => StreamInv
  BY StreamStarts, StreamKnowsFirst DEF StreamInv
<1>2. StreamInv => StreamTypeOK
  BY DEF StreamInv
<1> QED
  BY <1>1, <1>2, StreamKeeps, PTL DEF StreamSpec

\* A call that was not cancelled returns over a dead child, with what the child
\* did or with a timeout that was set; one that was cancelled has told a child
\* that is still alive to end; and where the pump has ended, it has read all there
\* was and no writer is left.
ReturnsTheTruth ==
  call.phase = "returned" =>
    /\ call.outcome \in {"ok", "failed"} =>
         ~leader.alive /\ (leader.failed <=> call.outcome = "failed")
    /\ call.outcome = "timeout" => call.timed /\ ~leader.alive
    /\ leader.alive => call.outcome = "cancelled" /\ leader.termed
    /\ call.pump = "ended" => pipeFill = 0 /\ Living(Descendants) = {}

\* The exit, the time limit, a cancellation and the end of the pipe in any order.
THEOREM CallReturnsTheTruth == StreamSpec => []ReturnsTheTruth
<1>1. StreamInit => StreamInv
  BY StreamStarts, StreamKnowsFirst DEF StreamInv
<1>2. StreamInv => ReturnsTheTruth
  BY DEF StreamInv, StreamTypeOK, Call, StreamKnows, ReturnsTheTruth
<1> QED
  BY <1>1, <1>2, StreamKeeps, PTL DEF StreamSpec

-----------------------------------------------------------------------------
(***************************************************************************)
(* The components together: what one does is a step or a stutter of each.  *)
(***************************************************************************)

\* The inductive invariants of all of them.
ComponentsInv ==
  /\ GrowInv /\ StartInv /\ LocalInv
  /\ PluginTypeOK /\ HydrateInv /\ CkptInv /\ EmbedInv /\ InstallInv /\ PoolInv
  /\ LaunchInv /\ ProbeInv /\ ExportInv /\ ArtifactInv /\ MirrorInv
  /\ RenderInv /\ BatchFits /\ StreamInv

LEMMA ComponentsStart == Init => ComponentsInv
<1> SUFFICES ASSUME Init PROVE ComponentsInv
  OBVIOUS
<1>1. /\ GrowInit /\ StartInit /\ LocalInit
      /\ PluginInit /\ HydrateInit /\ CkptInit /\ EmbedInit /\ InstallInit /\ PredictInit
      /\ LaunchInit /\ ProbeInit /\ ExportInit /\ ArtifactInit /\ MirrorInit
      /\ BatchInit /\ StreamInit
  BY DEF Init
<1>2. GrowInv /\ StartInv /\ LocalInv
  BY <1>1, GrowStarts, StartInvInit, LocalStarts
<1>3. PluginTypeOK /\ HydrateInv /\ CkptInv /\ EmbedInv /\ InstallInv /\ PoolInv
  BY <1>1, PluginInitTypes, HydrateStarts, CkptStarts, EmbedInitKept, InstallStarts, PoolStarts
<1>4. LaunchInv /\ ProbeInv /\ ExportInv /\ ArtifactInv /\ MirrorInv
  BY <1>1, LaunchStarts, ProbeStarts, ExportStarts, ArtifactStarts, MirrorInitKept
<1>5. RenderInv /\ BatchFits /\ StreamInv
  BY <1>1, RenderStarts, FitsFirst, StreamStarts, StreamKnowsFirst DEF StreamInv
<1> QED
  BY <1>2, <1>3, <1>4, <1>5 DEF ComponentsInv

\* Each component's part of a step.
LEMMA StepsAreOfComponents ==
  ASSUME [Next]_vars
  PROVE  /\ [GrowNext]_growVars /\ [StartNext]_startVars /\ [LocalNext]_localVars
         /\ [PluginNext]_pluginVars /\ [HydrateNext]_hydrateVars /\ [CkptNext]_ckptVars
         /\ [EmbedNext]_embedVars /\ [InstallNext]_installVars /\ [PredictNext]_predictVars
         /\ [LaunchNext]_launchVars /\ [ProbeNext]_probeVars /\ [ExportNext]_exportVars
         /\ [ArtifactNext]_artifactVars /\ [MirrorNext]_mirrorVars
         /\ [BatchNext]_renderBatchVars /\ [StreamNext]_streamVars
<1>1. CASE UNCHANGED vars
  BY <1>1 DEF vars
<1>2. CASE Next
  <2>1. Others
    BY <1>2 DEF Next
  <2>2. \/ which = "growing" /\ GrowNext
        \/ which \in {"materializers", "host"} /\ LocalNext
        \/ which = "hydration" /\ HydrateNext
        \/ which = "plugin" /\ PluginNext
        \/ which = "stream" /\ StreamNext
        \/ which = "export" /\ ExportNext
        \/ which = "embed" /\ EmbedNext
        \/ which = "launch" /\ LaunchNext
        \/ which = "mirror" /\ MirrorNext
        \/ which \in {"install", "installs"} /\ InstallNext
        \/ which = "checkpoint" /\ CkptNext
        \/ which = "renderer" /\ BatchNext
        \/ which = "start" /\ StartNext
        \/ which = "predict" /\ PredictNext
        \/ which = "probe" /\ ProbeNext
        \/ which = "artifact" /\ ArtifactNext
    BY <1>2 DEF Next
  <2> QED
    BY <2>1, <2>2 DEF Others
<1> QED
  BY <1>1, <1>2

LEMMA ComponentsStep == ComponentsInv /\ [Next]_vars => ComponentsInv'
<1> SUFFICES ASSUME ComponentsInv, [Next]_vars PROVE ComponentsInv'
  OBVIOUS
<1>1. /\ GrowInv /\ StartInv /\ LocalInv
      /\ PluginTypeOK /\ HydrateInv /\ CkptInv /\ EmbedInv /\ InstallInv /\ PoolInv
      /\ LaunchInv /\ ProbeInv /\ ExportInv /\ ArtifactInv /\ MirrorInv
      /\ RenderInv /\ BatchFits /\ StreamInv
  BY DEF ComponentsInv
<1>2. GrowInv' /\ StartInv' /\ LocalInv'
  BY <1>1, StepsAreOfComponents, GrowStep, StartInvStep, LocalStep
<1>3. PluginTypeOK' /\ HydrateInv' /\ CkptInv' /\ EmbedInv' /\ InstallInv' /\ PoolInv'
  BY <1>1, StepsAreOfComponents, PluginTypesStep, HydrateStep, CkptStep, EmbedInvKept,
     InstallStep, PoolStep
<1>4. LaunchInv' /\ ProbeInv' /\ ExportInv' /\ ArtifactInv' /\ MirrorInv'
  BY <1>1, StepsAreOfComponents, LaunchStep, ProbeStep, ExportStep, ArtifactStep, MirrorInvKept
<1>5. RenderInv' /\ BatchFits' /\ StreamInv'
  BY <1>1, StepsAreOfComponents, RenderStep, FitsStep, StreamKeeps
<1> QED
  BY <1>2, <1>3, <1>4, <1>5 DEF ComponentsInv

\* Every component keeps its types, for any values of the constants, whichever of
\* them a behaviour is about.
THEOREM ComponentsAreTyped == Spec => []ComponentTypes
<1>1. ComponentsInv => ComponentTypes
  <2> SUFFICES ASSUME ComponentsInv PROVE ComponentTypes
    OBVIOUS
  <2>1. GrowTypeOK /\ StartTypeOK /\ LocalTypeOK
    BY DEF ComponentsInv, GrowInv, StartInv, LocalInv
  <2>2. PluginTypeOK /\ HydrateTypeOK /\ CkptTypeOK /\ EmbedTypeOK /\ InstallTypeOK
    BY DEF ComponentsInv, HydrateInv, CkptInv, EmbedInv, InstallInv
  <2>3. PredictTypeOK /\ BatchTypeOK /\ StreamTypeOK
    BY PoolIsTyped, FittingIsTyped DEF ComponentsInv, StreamInv
  <2>4. LaunchTypeOK /\ ProbeTypeOK /\ ExportTypeOK /\ ArtifactTypeOK /\ MirrorTypeOK
    BY DEF ComponentsInv, LaunchInv, ProbeInv, ExportInv, ArtifactInv, MirrorInv
  <2> QED
    BY <2>1, <2>2, <2>3, <2>4 DEF ComponentTypes
<1> QED
  BY <1>1, ComponentsStart, ComponentsStep, PTL DEF Spec
=============================================================================

------------------------------ MODULE AudioProbe ------------------------------
(***************************************************************************)
(* The audio probe of a training run (ValAudioProbe of utils/callbacks.py, *)
(* run_audio_probe of evaluation/audio_probe.py).  Validation writes a few *)
(* predictions into a directory named after the training step; one thread  *)
(* beside the loop renders, scores and archives them, and a later          *)
(* validation logs the metrics under the step they belong to.  A staged    *)
(* probe that finds another one in flight is dropped with its directory.   *)
(*                                                                         *)
(* Validations follow each other at growing steps: no configuration        *)
(* accumulates gradients, so an optimizer step lies between any two.       *)
(*                                                                         *)
(* Data left out: the samples, time limits (a stage may fail), errors of a *)
(* removal (rmtree ignores them), ranks that stage nothing.                *)
(***************************************************************************)
EXTENDS Naturals, Sequences

CONSTANTS
  NoProbe,
  MaxValidations   \* bound: validations of the run

ASSUME ProbeAssumption == MaxValidations \in Nat /\ NoProbe \notin Nat

VARIABLES
  validated,    \* the last step that was validated
  hookPoint,    \* where the training loop is
  stagedProbe,  \* _staged
  flying,       \* _future, with what its thread is about to do
  probeDirs,    \* what a step's directory holds, each part by the step it is of
  archived,     \* what has been archived of each step
  probeLog,     \* what was logged: a probe_step and the step its metrics are of
  keptDirs      \* directories left for debugging

probeVars == <<validated, hookPoint, stagedProbe, flying, probeDirs, archived, probeLog, keptDirs>>

ValSteps == 1 .. MaxValidations
Part == ValSteps \cup {NoProbe}
Flight == [step : ValSteps, at : {"render", "score", "archive", "read", "done", "failed"},
           metrics : Part]
ProbeDir == [preds : Part, audio : Part, scores : Part]
Snapshot == [audio : Part, scores : Part]

ASSUME NoProbeAssumption == NoProbe \notin Flight \cup ProbeDir \cup Snapshot

ProbeTypeOK ==
  /\ validated \in 0 .. MaxValidations
  /\ hookPoint \in {"train", "validation", "over"}
  /\ stagedProbe \in Part
  /\ flying \in Flight \cup {NoProbe}
  /\ probeDirs \in [ValSteps -> ProbeDir \cup {NoProbe}]
  /\ archived \in [ValSteps -> Snapshot \cup {NoProbe}]
  /\ probeLog \in Seq([step : ValSteps, of : ValSteps])
  /\ keptDirs \subseteq ValSteps

ProbeInit ==
  /\ validated = 0
  /\ hookPoint = "train"
  /\ stagedProbe = NoProbe
  /\ flying = NoProbe
  /\ probeDirs = [s \in ValSteps |-> NoProbe]
  /\ archived = [s \in ValSteps |-> NoProbe]
  /\ probeLog = <<>>
  /\ keptDirs = {}

-----------------------------------------------------------------------------
(***************************************************************************)
(* The hooks, called by the training loop.                                 *)
(***************************************************************************)
InFlight == flying # NoProbe
ThreadOver == InFlight /\ flying.at \in {"done", "failed"}

\* on_validation_batch_end, for the first batch.
StageProbe ==
  /\ hookPoint = "train" /\ validated < MaxValidations
  /\ validated' = validated + 1
  /\ probeDirs' = [probeDirs EXCEPT ![validated'] =
                     [preds |-> validated', audio |-> NoProbe, scores |-> NoProbe]]
  /\ stagedProbe' = validated'
  /\ hookPoint' = "validation"
  /\ UNCHANGED <<flying, archived, probeLog, keptDirs>>

\* _harvest: the directory of a probe that succeeded is removed.
Harvested == IF ThreadOver /\ flying.at = "done" THEN {flying.step} ELSE {}

\* Mutant of Discarded: the directory of the probe in flight.
DiscardsFlight == IF InFlight /\ ~ThreadOver THEN {flying.step} ELSE {}

\* _launch, while another probe is still running.
Discarded == IF InFlight /\ ~ThreadOver THEN {stagedProbe} ELSE {}

\* on_validation_epoch_end: _harvest, then _launch.  The thread may finish in
\* between, and the staged probe is dropped all the same: the slot is freed by
\* _harvest only.
EndValidation ==
  /\ hookPoint = "validation"
  /\ probeLog' = IF ThreadOver /\ flying.at = "done"
                 THEN Append(probeLog, [step |-> flying.step, of |-> flying.metrics])
                 ELSE probeLog
  /\ keptDirs' = keptDirs \cup (IF ThreadOver /\ flying.at = "failed" THEN {flying.step} ELSE {})
  /\ probeDirs' = [s \in ValSteps |->
                     IF s \in Harvested \cup Discarded THEN NoProbe ELSE probeDirs[s]]
  /\ flying' = IF InFlight /\ ~ThreadOver THEN flying
               ELSE [step |-> stagedProbe, at |-> "render", metrics |-> NoProbe]
  /\ stagedProbe' = NoProbe
  /\ hookPoint' = "train"
  /\ UNCHANGED <<validated, archived>>

\* teardown, at the end of the fit or after an exception: the probe in flight
\* goes on until it is through.
TeardownProbe ==
  /\ hookPoint # "over"
  /\ hookPoint' = "over"
  /\ UNCHANGED <<validated, stagedProbe, flying, probeDirs, archived, probeLog, keptDirs>>

-----------------------------------------------------------------------------
(***************************************************************************)
(* The thread: run_audio_probe, a child process for each stage.            *)
(***************************************************************************)
AtStage(stage) == InFlight /\ flying.at = stage
Dir == probeDirs[flying.step]
ThreadOnly == UNCHANGED <<validated, hookPoint, stagedProbe, probeLog, keptDirs>>

RenderProbe ==
  /\ AtStage("render") /\ Dir # NoProbe
  /\ probeDirs' = [probeDirs EXCEPT ![flying.step].audio = Dir.preds]
  /\ flying' = [flying EXCEPT !.at = "score"]
  /\ ThreadOnly /\ UNCHANGED archived

ScoreProbe ==
  /\ AtStage("score") /\ Dir # NoProbe
  /\ probeDirs' = [probeDirs EXCEPT ![flying.step].scores = Dir.audio]
  /\ flying' = [flying EXCEPT !.at = "archive"]
  /\ ThreadOnly /\ UNCHANGED archived

\* upload_dir, whole, in part, or not configured; the predictions stay behind.
ArchiveProbe ==
  /\ AtStage("archive") /\ Dir # NoProbe
  /\ \/ /\ archived' = [archived EXCEPT ![flying.step] =
                           [audio |-> Dir.audio, scores |-> Dir.scores]]
        /\ flying' = [flying EXCEPT !.at = "read"]
     \/ /\ archived' = [archived EXCEPT ![flying.step] =
                           [audio |-> Dir.audio, scores |-> NoProbe]]
        /\ flying' = [flying EXCEPT !.at = "failed"]
     \/ flying' = [flying EXCEPT !.at = "read"] /\ UNCHANGED archived
  /\ ThreadOnly /\ UNCHANGED probeDirs

\* load_aggregated_metrics, the value of the future.
ReadScores ==
  /\ AtStage("read") /\ Dir # NoProbe
  /\ flying' = [flying EXCEPT !.at = "done", !.metrics = Dir.scores]
  /\ ThreadOnly /\ UNCHANGED <<probeDirs, archived>>

\* A child exits with an error or runs out of time, a file is missing.
ProbeFails ==
  /\ InFlight /\ ~ThreadOver
  /\ flying' = [flying EXCEPT !.at = "failed"]
  /\ ThreadOnly /\ UNCHANGED <<probeDirs, archived>>

ProbeNext ==
  \/ StageProbe \/ EndValidation \/ TeardownProbe
  \/ RenderProbe \/ ScoreProbe \/ ArchiveProbe \/ ReadScores \/ ProbeFails

ProbeSpec == ProbeInit /\ [][ProbeNext]_probeVars

-----------------------------------------------------------------------------
\* However the thread and the validations interleave: the probe in flight finds
\* the predictions of its own step until it is through; metrics are logged, and
\* snapshots archived, under the step they were computed for, each once and in
\* the order of the steps; and beside the directories kept after a failure there
\* is at most one of a probe staged and one of a probe in flight.
ProbesKeepApart ==
  /\ InFlight /\ ~ThreadOver => Dir # NoProbe /\ Dir.preds = flying.step
  /\ \A i \in 1 .. Len(probeLog) :
       /\ probeLog[i].of = probeLog[i].step
       /\ i > 1 => probeLog[i - 1].step < probeLog[i].step
  /\ \A s \in ValSteps : archived[s] # NoProbe =>
       archived[s].audio = s /\ archived[s].scores \in {s, NoProbe}
  /\ \A s \in ValSteps : probeDirs[s] # NoProbe =>
       s \in keptDirs \cup {stagedProbe} \/ (InFlight /\ flying.step = s)
=============================================================================

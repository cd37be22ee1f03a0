---------------------------- MODULE ModelArtifact ----------------------------
(***************************************************************************)
(* What a training run publishes (train of cli/train.py).  A launch starts *)
(* afresh or from the last checkpoint of an earlier one, whose run id it   *)
(* then continues and whose best checkpoint it inherits by name; it trains *)
(* and ranks checkpoints, tests its best one, uploads it, and logs a model *)
(* artifact that refers to the upload.                                     *)
(*                                                                         *)
(* Launches overlap, on one host or on several; any of them may end early. *)
(* External (Lightning): a checkpoint carries the name of the best one     *)
(* known when it was saved; a launch that resumes in a directory of its    *)
(* own takes over that name and no scores, keeps the best checkpoint it    *)
(* ranks itself, and removes the one it replaces.                          *)
(*                                                                         *)
(* Data left out: the order in which checkpoints are found (see            *)
(* CheckpointMirror), metrics other than the monitored one (small is       *)
(* good), the trainer's own step in the metadata.                          *)
(***************************************************************************)
EXTENDS Naturals

CONSTANTS
  TrainHosts, RunIds,
  OverrideUri,     \* training.upload_checkpoints_uri
  NoModel, NoUri,
  MaxTrainings,    \* bound: launches
  MaxTrained,      \* bound: training steps of a chain of launches
  MaxScore         \* bound: values of the monitored metric

ASSUME ArtifactAssumption == MaxTrainings \in Nat /\ MaxTrained \in Nat /\ MaxScore \in Nat

VARIABLES
  training,        \* each launch
  lastSaves,       \* its last checkpoint, on its disk or mirrored
  bestFiles,       \* monitored checkpoints on the disks
  topRanked,       \* what each launch has ranked best, with the score (ties kept)
  modelObjects,    \* uploaded checkpoints
  modelArtifacts,  \* artifact each launch has logged
  overridden       \* the upload has a configured destination

artifactVars ==
  <<training, lastSaves, bestFiles, topRanked, modelObjects, modelArtifacts, overridden>>

Trainings == 1 .. MaxTrainings
Trained == 0 .. MaxTrained
Scores == 1 .. MaxScore
Weights == [by : Trainings, step : Trained]

\* Default destinations hold the run id and the uuid of the launch.
Uris == (RunIds \X Trainings) \cup {OverrideUri}

\* score is that of the launch's own best checkpoint, 0 before there is one.
TrainingRun ==
  [phase : {"fit", "test", "upload", "log", "over", "dead"}, host : TrainHosts, run : RunIds,
   step : Trained, best : Weights \cup {NoModel}, score : 0 .. MaxScore, deferred : BOOLEAN,
   tested : Weights \cup {NoModel}, uri : Uris \cup {NoUri}]

Artifact == [uri : Uris \cup {NoUri}, of : Weights \cup {NoModel}, score : 0 .. MaxScore]

ASSUME NoModelAssumption == NoModel \notin TrainingRun \cup Weights

ArtifactTypeOK ==
  /\ training \in [Trainings -> TrainingRun \cup {NoModel}]
  /\ lastSaves \in [Trainings -> [step : Trained, best : Weights \cup {NoModel}] \cup {NoModel}]
  /\ bestFiles \subseteq Weights
  /\ topRanked \subseteq [of : Weights, score : Scores]
  /\ modelObjects \in [Uris -> Weights \cup {NoModel}]
  /\ modelArtifacts \in [Trainings -> Artifact \cup {NoModel}]
  /\ overridden \in BOOLEAN

ArtifactInit ==
  /\ training = [l \in Trainings |-> NoModel]
  /\ lastSaves = [l \in Trainings |-> NoModel]
  /\ bestFiles = {}
  /\ topRanked = {}
  /\ modelObjects = [u \in Uris |-> NoModel]
  /\ modelArtifacts = [l \in Trainings |-> NoModel]
  /\ overridden \in BOOLEAN

Started(l) == training[l] # NoModel
In(l, phase) == Started(l) /\ training[l].phase = phase
StillUp(l) == Started(l) /\ training[l].phase \notin {"over", "dead"}

-----------------------------------------------------------------------------
(***************************************************************************)
(* A launch starts and trains.                                             *)
(***************************************************************************)
LaunchOn(host, run, step, best) ==
  [phase |-> "fit", host |-> host, run |-> run, step |-> step, best |-> best, score |-> 0,
   deferred |-> FALSE, tested |-> NoModel, uri |-> NoUri]

NextToStart(l) == ~Started(l) /\ \A k \in 1 .. l - 1 : Started(k)

\* No checkpoint is looked for or found; two fresh launches may make the same
\* run id, a time in milliseconds.
StartFresh(l, h) ==
  /\ NextToStart(l)
  /\ \E run \in RunIds : training' = [training EXCEPT ![l] = LaunchOn(h, run, 0, NoModel)]
  /\ UNCHANGED <<lastSaves, bestFiles, topRanked, modelObjects, modelArtifacts, overridden>>

\* _apply_auto_resume: the run id of the launch that wrote the checkpoint.
StartResumed(l, h) ==
  /\ NextToStart(l)
  /\ \E k \in Trainings :
       /\ lastSaves[k] # NoModel
       /\ training' = [training EXCEPT ![l] =
            LaunchOn(h, training[k].run, lastSaves[k].step, lastSaves[k].best)]
  /\ UNCHANGED <<lastSaves, bestFiles, topRanked, modelObjects, modelArtifacts, overridden>>

\* A batch, and at the cadence the recovery save.
TrainModel(l) ==
  /\ In(l, "fit") /\ training[l].step < MaxTrained
  /\ \E saved \in BOOLEAN :
       /\ training' = [training EXCEPT ![l].step = @ + 1, ![l].deferred = @ \/ saved]
       /\ lastSaves' = IF saved
                       THEN [lastSaves EXCEPT ![l] = [step |-> training'[l].step,
                                                      best |-> training[l].best]]
                       ELSE lastSaves
  /\ UNCHANGED <<bestFiles, topRanked, modelObjects, modelArtifacts, overridden>>

Now(l) == [by |-> l, step |-> training[l].step]

\* on_validation_end ranks the weights of now if a save was deferred to it.
RankModel(l) ==
  /\ In(l, "fit") /\ training[l].deferred
  /\ \E s \in Scores :
       /\ topRanked' = LET all == topRanked \cup {[of |-> Now(l), score |-> s]} IN
            {r \in all : \A q \in all : q.of.by = r.of.by => r.score <= q.score}
       /\ IF training[l].score = 0 \/ s < training[l].score
          THEN /\ training' = [training EXCEPT ![l].deferred = FALSE, ![l].best = Now(l),
                                               ![l].score = s]
               /\ bestFiles' = {w \in bestFiles : w.by # l} \cup {Now(l)}
          ELSE training' = [training EXCEPT ![l].deferred = FALSE] /\ UNCHANGED bestFiles
  /\ UNCHANGED <<lastSaves, modelObjects, modelArtifacts, overridden>>

\* The fit has reached its stopping condition; a failure while it is torn down
\* changes nothing (_completed_fit_survives_teardown).
FitDone(l) ==
  /\ In(l, "fit")
  /\ training' = [training EXCEPT ![l].phase = "test"]
  /\ UNCHANGED <<lastSaves, bestFiles, topRanked, modelObjects, modelArtifacts, overridden>>

\* The memory of the process is gone.
Exited(l, phase) ==
  [LaunchOn(training[l].host, training[l].run, 0, NoModel) EXCEPT
     !.phase = phase, !.tested = training[l].tested]

\* SIGTERM during the fit, an exception, a crash.
TrainingDies(l) ==
  /\ StillUp(l)
  /\ training' = [training EXCEPT ![l] = Exited(l, "dead")]
  /\ UNCHANGED <<lastSaves, bestFiles, topRanked, modelObjects, modelArtifacts, overridden>>

\* A host is gone, with its files; last checkpoints may be mirrored.
TrainHostLost(h) ==
  /\ \A l \in Trainings : Started(l) /\ training[l].host = h => ~StillUp(l)
  /\ \E w \in bestFiles : training[w.by].host = h
  /\ bestFiles' = {w \in bestFiles : training[w.by].host # h}
  /\ UNCHANGED <<training, lastSaves, topRanked, modelObjects, modelArtifacts, overridden>>

-----------------------------------------------------------------------------
(***************************************************************************)
(* The end of a launch.                                                    *)
(***************************************************************************)
Readable(l, w) == w \in bestFiles /\ training[w.by].host = training[l].host

\* trainer.test with the best checkpoint, an inherited one included; with the
\* weights of now if there is none; not at all if cfg.test is off.  A best
\* checkpoint that cannot be read raises: TrainingDies.
TestModel(l) ==
  /\ In(l, "test")
  /\ \/ /\ training[l].best # NoModel => Readable(l, training[l].best)
        /\ training' = [training EXCEPT ![l].phase = "upload",
             ![l].tested = IF training[l].best = NoModel THEN Now(l) ELSE training[l].best]
     \/ training' = [training EXCEPT ![l].phase = "upload"]
  /\ UNCHANGED <<lastSaves, bestFiles, topRanked, modelObjects, modelArtifacts, overridden>>

\* Mutant of WrittenByRun: an inherited best checkpoint counts.
InheritedToo(l) == training[l].best

\* _checkpoint_path_written_by_run
WrittenByRun(l) ==
  IF training[l].best # NoModel /\ training[l].best.by = l THEN training[l].best ELSE NoModel

\* _derive_checkpoint_uri
CheckpointUri(l) == IF overridden THEN OverrideUri ELSE <<training[l].run, l>>

\* _upload_best_checkpoint: nothing to upload, no object store, a failed upload
\* all leave the artifact without a reference.
UploadBest(l) ==
  /\ In(l, "upload")
  /\ \/ /\ training' = [training EXCEPT ![l].phase = "log"]
        /\ UNCHANGED modelObjects
     \/ /\ WrittenByRun(l) # NoModel /\ Readable(l, WrittenByRun(l))
        /\ modelObjects' = [modelObjects EXCEPT ![CheckpointUri(l)] = WrittenByRun(l)]
        /\ training' = [training EXCEPT ![l].phase = "log", ![l].uri = CheckpointUri(l)]
  /\ UNCHANGED <<lastSaves, bestFiles, topRanked, modelArtifacts, overridden>>

\* _checkpoint_metadata: counters from the file, unless it cannot be read, and
\* the score the callback has.
Described(l) ==
  IF training[l].uri = NoUri
  THEN {[uri |-> NoUri, of |-> NoModel, score |-> 0]}
  ELSE [uri : {training[l].uri}, of : {WrittenByRun(l), NoModel}, score : {training[l].score}]

\* _log_model_artifact; a failure is swallowed.
LogModel(l) ==
  /\ In(l, "log")
  /\ \/ \E a \in Described(l) : modelArtifacts' = [modelArtifacts EXCEPT ![l] = a]
     \/ UNCHANGED modelArtifacts
  /\ training' = [training EXCEPT ![l] = Exited(l, "over")]
  /\ UNCHANGED <<lastSaves, bestFiles, topRanked, modelObjects, overridden>>

ArtifactNext ==
  \/ \E l \in Trainings :
       \/ \E h \in TrainHosts : StartFresh(l, h) \/ StartResumed(l, h)
       \/ TrainModel(l) \/ RankModel(l) \/ FitDone(l) \/ TrainingDies(l)
       \/ TestModel(l) \/ UploadBest(l) \/ LogModel(l)
  \/ \E h \in TrainHosts : TrainHostLost(h)

ArtifactSpec == ArtifactInit /\ [][ArtifactNext]_artifactVars

-----------------------------------------------------------------------------
\* What a launch's artifact refers to was trained by that launch, for good: no
\* resumed launch of the same run, and no launch with the same run id, replaces
\* it or passes off its predecessor's checkpoint as its own.  It is the best the
\* launch has ranked, the metadata describes it, and it is what was tested.
\* Where the destination is configured, launches replace each other's upload,
\* and that much holds of the launch whose upload is there.
ModelIsTheOneDescribed ==
  \A l \in Trainings : modelArtifacts[l] # NoModel =>
    LET a == modelArtifacts[l] IN
    a.uri # NoUri =>
      /\ overridden \/ modelObjects[a.uri].by = l
      /\ modelObjects[a.uri].by = l =>
           /\ a.of \in {modelObjects[a.uri], NoModel}
           /\ [of |-> modelObjects[a.uri], score |-> a.score] \in topRanked
           /\ training[l].tested \in {modelObjects[a.uri], NoModel}
=============================================================================

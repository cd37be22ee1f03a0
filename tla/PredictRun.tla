----------------------------- MODULE PredictRun -----------------------------
(***************************************************************************)
(* An evaluation in predict mode (cli/eval.py): the predictions of every   *)
(* batch are saved, a child renders them and their targets into one        *)
(* directory per sample (evaluation/predict_vst_audio.py), and a second    *)
(* child scores the samples with a pool of processes                       *)
(* (evaluation/compute_audio_metrics.py).  A launch dies anywhere and is   *)
(* repeated over what it left in the output directory.                     *)
(*                                                                         *)
(* One rank predicts.  Launches into one output directory predict the same *)
(* batches.  A wav is the dataset row it sounds and the launch it was      *)
(* written by, whole or cut; a score is the two wavs it compares.          *)
(***************************************************************************)
EXTENDS Naturals, Sequences, FiniteSets

Lists == INSTANCE SequencesExt

CONSTANTS
  DatasetBatches, \* the rows of each batch, in order
  Pool,           \* processes of the metrics pool, by pid
  EvalSettings,   \* settings of a launch
  NoWav,          \* no file
  NoScores,       \* no metrics.csv
  MaxEvals        \* bound: launches

BatchIds == DOMAIN DatasetBatches
DatasetRows == UNION {Lists!ToSet(DatasetBatches[b]) : b \in BatchIds}
Samples == 1 .. Cardinality(DatasetRows)

Wav == [row : DatasetRows, by : 1 .. MaxEvals]
Score == [sample : Samples, target : Wav, pred : Wav]

ASSUME PredictAssumption ==
  /\ DatasetBatches \in Seq(Seq(Nat) \ {<<>>})
  /\ \A b, c \in BatchIds : \A i \in DOMAIN DatasetBatches[b], j \in DOMAIN DatasetBatches[c] :
       DatasetBatches[b][i] = DatasetBatches[c][j] => b = c /\ i = j
  /\ Pool # {} /\ IsFiniteSet(Pool)
  /\ EvalSettings \subseteq [render : BOOLEAN, noParams : BOOLEAN]
  /\ MaxEvals \in Nat \ {0}
  /\ NoWav \notin Wav

VARIABLES
  labelled,  \* do the dataset's rows carry their parameters
  globOrder, \* the order in which the predictions are listed
  saved,     \* the launch each batch's tensors were saved by, 0 without
  wavs,      \* of each sample: its target and its prediction
  eval,      \* the launch
  pool,      \* of the metrics child
  scores     \* metrics.csv, and the settings of the launch that wrote it

predictVars == <<labelled, globOrder, saved, wavs, eval, pool, scores>>

\* at counts the files rendered, offset the samples of those; sample is the one
\* in work, of which the target may be there.
Eval == [launch : 0 .. MaxEvals, set : EvalSettings, step : {"ended", "predict", "render", "score"},
         at : Nat, offset : Nat, sample : Nat, target : BOOLEAN]

\* calls is the pool's queue, ready the calls answered and not yet read, size
\* those not yet read, read the rows the parent has concatenated.  A process in
\* the middle of its file has cut it.
Member == [sublist : Seq(Samples), file : Seq(Score), cut : BOOLEAN]
PoolState == [calls : Seq(Seq(Samples)), member : [Pool -> Member],
              ready : SUBSET (Pool \X Seq(Samples)), read : Seq(Score), size : Nat]

PredictTypeOK ==
  /\ labelled \in BOOLEAN
  /\ globOrder \in Lists!SetToSeqs(BatchIds)
  /\ saved \in [BatchIds -> 0 .. MaxEvals]
  /\ wavs \in [Samples -> [target : Wav \cup {NoWav}, pred : Wav \cup {NoWav}]]
  /\ eval \in Eval
  /\ pool \in PoolState
  /\ scores = NoScores \/ scores \in [launch : 1 .. MaxEvals, set : EvalSettings, rows : Seq(Score)]

\* The files of an earlier launch are named after other processes.
NoPool == [calls |-> <<>>, ready |-> {}, read |-> <<>>, size |-> 0,
           member |-> [p \in Pool |-> [sublist |-> <<>>, file |-> <<>>, cut |-> FALSE]]]

PredictInit ==
  /\ labelled \in BOOLEAN
  /\ globOrder \in Lists!SetToSeqs(BatchIds)
  /\ saved = [b \in BatchIds |-> 0]
  /\ wavs = [n \in Samples |-> [target |-> NoWav, pred |-> NoWav]]
  /\ eval \in {[launch |-> 0, set |-> s, step |-> "ended", at |-> 0, offset |-> 0,
                sample |-> 0, target |-> FALSE] : s \in EvalSettings}
  /\ pool = NoPool
  /\ scores = NoScores

-----------------------------------------------------------------------------
(***************************************************************************)
(* Predicting and rendering.                                               *)
(***************************************************************************)

\* evaluate
Predict(s) ==
  /\ eval.step = "ended"
  /\ eval.launch < MaxEvals
  /\ eval' = [launch |-> eval.launch + 1, set |-> s, step |-> "predict", at |-> 0,
              offset |-> 0, sample |-> 0, target |-> FALSE]
  /\ pool' = NoPool
  /\ UNCHANGED <<labelled, globOrder, saved, wavs, scores>>

\* PredictionWriter saves a batch under its index: the prediction, the audio and,
\* of a labelled dataset, the parameters.  They are read after the last one.
WriteBatch ==
  /\ eval.step = "predict"
  /\ eval.at < Len(DatasetBatches)
  /\ saved' = [saved EXCEPT ![eval.at + 1] = eval.launch]
  /\ eval' = [eval EXCEPT !.at = @ + 1]
  /\ UNCHANGED <<labelled, globOrder, wavs, pool, scores>>

\* _run_predict_postprocessing
Postprocess ==
  /\ eval.step = "predict"
  /\ eval.at = Len(DatasetBatches)
  /\ eval' = [eval EXCEPT !.step = IF eval.set.render THEN "render" ELSE "score", !.at = 0]
  /\ UNCHANGED <<labelled, globOrder, saved, wavs, pool, scores>>

\* All batches are saved by the time they are listed.
PredictionFiles == globOrder

\* The batch in work: its targets are read from the files of the same index.
CurrentFile == PredictionFiles[eval.at + 1]

\* Target parameters are read unless the launch has none.  A target rendered from
\* them and the saved audio are of the same row.
TargetReadable == labelled \/ eval.set.noParams

\* Mutant of NextOffset: one sample per file.
NextOffsetByFile == eval.offset + 1

\* The samples of the next file come after those of this one.
NextOffset == eval.offset + Len(DatasetBatches[CurrentFile])

Rendering == eval.step = "render" /\ eval.at < Len(PredictionFiles)
SampleInWork == eval.offset + eval.sample + 1

WriteTarget ==
  /\ Rendering
  /\ TargetReadable
  /\ ~eval.target
  /\ wavs' = [wavs EXCEPT ![SampleInWork].target =
                [row |-> DatasetBatches[CurrentFile][eval.sample + 1], by |-> eval.launch]]
  /\ eval' = [eval EXCEPT !.target = TRUE]
  /\ UNCHANGED <<labelled, globOrder, saved, pool, scores>>

\* The sample's last row moves the offset on by the batch.
WritePred ==
  /\ Rendering
  /\ eval.target
  /\ wavs' = [wavs EXCEPT ![SampleInWork].pred =
                [row |-> DatasetBatches[CurrentFile][eval.sample + 1], by |-> saved[CurrentFile]]]
  /\ eval' = IF eval.sample + 1 < Len(DatasetBatches[CurrentFile])
             THEN [eval EXCEPT !.sample = @ + 1, !.target = FALSE]
             ELSE [eval EXCEPT !.sample = 0, !.target = FALSE, !.at = @ + 1,
                               !.offset = NextOffset]
  /\ UNCHANGED <<labelled, globOrder, saved, pool, scores>>

Rendered ==
  /\ eval.step = "render"
  /\ eval.at = Len(PredictionFiles)
  /\ eval' = [eval EXCEPT !.step = "score"]
  /\ UNCHANGED <<labelled, globOrder, saved, wavs, pool, scores>>

-----------------------------------------------------------------------------
(***************************************************************************)
(* Scoring.                                                                *)
(***************************************************************************)

\* find_possible_subdirs
Scorable == {n \in Samples : wavs[n].target # NoWav /\ wavs[n].pred # NoWav}

ScoreOf(n) == [sample |-> n, target |-> wavs[n].target, pred |-> wavs[n].pred]
ScoresOf(sublist) == [i \in DOMAIN sublist |-> ScoreOf(sublist[i])]

CeilDiv(n, d) == (n + d - 1) \div d

\* _aggregate_metrics cuts the samples into a sublist per process, for as long as
\* there are any left ...
Sublists(dirs) ==
  LET workers == IF Cardinality(Pool) < Len(dirs) THEN Cardinality(Pool) ELSE Len(dirs)
      length == CeilDiv(Len(dirs), workers)
      Upto(i) == IF i * length < Len(dirs) THEN i * length ELSE Len(dirs)
  IN  [i \in 1 .. CeilDiv(Len(dirs), length) |-> SubSeq(dirs, (i - 1) * length + 1, Upto(i))]

\* ... and submits them.  The directory is listed in any order.
SubmitSublists(dirs) ==
  /\ eval.step = "score"
  /\ pool = NoPool
  /\ dirs \in Lists!SetToSeqs(Scorable) \ {<<>>}
  /\ pool' = [NoPool EXCEPT !.calls = Sublists(dirs), !.size = Len(Sublists(dirs))]
  /\ UNCHANGED <<labelled, globOrder, saved, wavs, eval, scores>>

\* compute_metrics: a process takes the first call nobody has taken, whichever
\* calls it has answered before ...
TakeSublist(p) ==
  /\ pool.calls # <<>>
  /\ pool.member[p].sublist = <<>>
  /\ pool' = [pool EXCEPT !.calls = Tail(@), !.member[p].sublist = Head(pool.calls)]
  /\ UNCHANGED <<labelled, globOrder, saved, wavs, eval, scores>>

\* ... scores its samples and begins the file named after itself over again ...
BeginFile(p, k) ==
  /\ pool.member[p].sublist # <<>>
  /\ ~pool.member[p].cut
  /\ pool' = [pool EXCEPT !.member[p].cut = TRUE,
                          !.member[p].file = SubSeq(ScoresOf(pool.member[p].sublist), 1, k)]
  /\ UNCHANGED <<labelled, globOrder, saved, wavs, eval, scores>>

\* ... of which k rows are there before all are, and returns its name.
WriteFile(p) ==
  LET me == pool.member[p]
  IN  /\ me.cut
      /\ pool' = [pool EXCEPT !.member[p] = [sublist |-> <<>>, cut |-> FALSE,
                                            file |-> ScoresOf(me.sublist)],
                              !.ready = @ \cup {<<p, me.sublist>>}]
      /\ UNCHANGED <<labelled, globOrder, saved, wavs, eval, scores>>

\* The parent reads the file a call has named, as it is by now (an empty one
\* may also raise).
ReadFile(p, sublist) ==
  /\ <<p, sublist>> \in pool.ready
  /\ pool' = [pool EXCEPT !.ready = @ \ {<<p, sublist>>}, !.size = @ - 1,
                          !.read = @ \o pool.member[p].file]
  /\ UNCHANGED <<labelled, globOrder, saved, wavs, eval, scores>>

\* metrics.csv and aggregated_metrics.csv, which the evaluation logs.
Publish ==
  /\ eval.step = "score"
  /\ pool # NoPool /\ pool.size = 0
  /\ scores' = [launch |-> eval.launch, set |-> eval.set, rows |-> pool.read]
  /\ pool' = NoPool
  /\ eval' = [eval EXCEPT !.step = "ended"]
  /\ UNCHANGED <<labelled, globOrder, saved, wavs>>

\* A stage raises, exceeds its time or the launch dies.
EvalFails ==
  /\ eval.step # "ended"
  /\ eval' = [eval EXCEPT !.step = "ended"]
  /\ pool' = NoPool
  /\ UNCHANGED <<labelled, globOrder, saved, wavs, scores>>

PredictNext ==
  \/ \E s \in EvalSettings : Predict(s)
  \/ WriteBatch \/ Postprocess \/ WriteTarget \/ WritePred \/ Rendered
  \/ \E dirs \in Lists!SetToSeqs(Scorable) : SubmitSublists(dirs)
  \/ \E p \in Pool : TakeSublist(p) \/ WriteFile(p)
                     \/ \E k \in 0 .. Len(pool.member[p].sublist) - 1 : BeginFile(p, k)
  \/ \E call \in pool.ready : ReadFile(call[1], call[2])
  \/ Publish \/ EvalFails

PredictSpec == PredictInit /\ [][PredictNext]_predictVars

-----------------------------------------------------------------------------
\* One row per sample of metrics.csv (the per-sample table of an evaluation):
\* no sample is scored twice and, by a launch that rendered, none is missed.
OneRowPerSample ==
  scores # NoScores =>
    LET scored == [i \in DOMAIN scores.rows |-> scores.rows[i].sample]
    IN  /\ Lists!IsInjective(scored)
        /\ scores.set.render => Lists!ToSet(scored) = Samples

\* A score is of one dataset row, its prediction against its own target, in
\* whatever order the files were listed and wherever earlier launches died over
\* the same directory; and a launch that rendered scores every row of the
\* dataset, predicted by itself.
ScoresThePredictions ==
  scores # NoScores =>
    /\ \A i \in DOMAIN scores.rows : scores.rows[i].pred.row = scores.rows[i].target.row
    /\ scores.set.render =>
         {scores.rows[i].pred : i \in DOMAIN scores.rows} = [row : DatasetRows, by : {scores.launch}]

\* The two together.
EveryRowScoredOnce == OneRowPerSample /\ ScoresThePredictions
=============================================================================

----------------------------- MODULE MCComponents -----------------------------
\* One run for the components that share no state: which of them a behaviour
\* is about is chosen at its start, and nothing of the others happens in it.
\* The second fault of a growing branch is the end of an operator's command, or
\* there is an attempt that does not load.
\* A training host is checked twice: with two materializers and no job, and
\* with one and a job.  The sources of hydrated splits move for the first
\* split only, and the first launch of a training run is on the first host.
\* Plugins are installed and adopted in one version, and installed in one while
\* the other's installs, none of which gets as far as a seal, write the same
\* place.  Two evaluations pin one checkpoint; one of two separate ones has no
\* pin; a source nobody asked for does not change.  The renderer is asked for a
\* shard of a plan without split seeds, for a later one of a split, and for one
\* that a branch grows by.  The first of two trainings is on the first host, as is
\* the second where it does not resume.  They save at every step, but for the
\* first of the second, and skip no part of their ends; the first dies only in
\* its fit; with a configured destination each trains one step less.  The first
\* step of the first training scores the maximum.
EXTENDS GrowingLance, GrowingLocal, HydrationCache, PluginAlias, SubprocessStream,
        ExportSlap, AddEmbeddings, SkypilotLaunch, CheckpointMirror, PluginInstall,
        CheckpointCache, RenderBatches, GrowthStart, AudioProbe, ModelArtifact, MCPredictRun

CONSTANTS e1, e2, a1, a2, m2, h1, v2, k1, z1

VARIABLE which    \* the component of this behaviour

\* Ranks are numbered; rank 0 broadcasts.
TwoRanks == {0, 1}

\* Two requests whose copies can serve each other.
TwoRequests == {[columns |-> p, pinned |-> FALSE] : p \in Projections}

\* A job in two passes with a resume cache, the same with another artifact, one
\* whose only pass has the cache path given, and one without a cache.  e1 has an
\* index.
FourJobs ==
  {[selection |-> {e1, e2}, artifact |-> a1, cached |-> TRUE, index |-> TRUE],
   [selection |-> {e1, e2}, artifact |-> a2, cached |-> TRUE, index |-> FALSE],
   [selection |-> {e1}, artifact |-> a2, cached |-> TRUE, index |-> TRUE],
   [selection |-> {e2}, artifact |-> a1, cached |-> FALSE, index |-> FALSE]}

\* Version v2 in the behaviours about an install.
OtherVersionLeft == \A g \in Managers : manager'[g].step = "idle" \/ manager'[g].version # v2
OtherVersionUnsealed ==
  /\ UNCHANGED built
  /\ \A g \in Managers : manager'[g].step # "idle" =>
       manager'[g].kind = "artifact-lock" /\ (manager'[g].step = "own" => manager'[g].version # v2)
  /\ \A r \in Renderers : renderer'[r].step = "idle" \/ renderer'[r].version # v2

Unseeded == [rows |-> 3, shards |-> <<1, 1, 0>>, seeds |-> NoSeeds, base |-> 5]
Seeded == [rows |-> 3, shards |-> <<2, 0, 1>>, seeds |-> <<5, 6, 7>>, base |-> 5]
ThreeShards == {[plan |-> Unseeded, name |-> <<"planned", 1>>],
                [plan |-> Seeded, name |-> <<"planned", 1>>],
                [plan |-> Seeded, name |-> <<"grown", 0>>]}

OneSetting == [job |-> [plan |-> Unseeded, name |-> <<"planned", 1>>],
               cadence |-> "sample", toggle |-> "never"]

AskedFrom(from) == \E k \in Evaluators : evaluator[k].ask.from = from

Evaluations ==
  /\ \A k \in Evaluators : /\ evaluator[k].ask.pin \in {z1, NoFile}
                            /\ evaluator[k].ask.from = "local" => evaluator[k].ask.pin = z1
  /\ ranks \/ evaluator[k1].ask.pin = NoFile
  /\ AskedFrom("remote") \/ remoteCkpt = z1
  /\ AskedFrom("local") \/ localCkpt = z1

Trainers ==
  /\ Started(1)' => training'[1].host = h1
  /\ overridden => \A l \in Trainings : Started(l)' => training'[l].step < MaxTrained
  /\ Started(1)' /\ training'[1].phase = "dead" => In(1, "dead") \/ In(1, "fit")
  /\ \A t \in topRanked' : t.of = [by |-> 1, step |-> 1] => t.score = MaxScore
  /\ \A l \in Trainings : In(l, "fit") /\ In(l, "fit")' /\ Now(l)' # Now(l) =>
       lastSaves'[l] # lastSaves[l] \/ (l = 2 /\ training'[l].step < MaxTrained)
  /\ Started(2)' /\ training'[2].step = 0 => training'[2].host = h1
  /\ In(1, "test") /\ In(1, "upload")' => training'[1].tested # NoModel
  /\ In(1, "upload") /\ In(1, "log")' => WrittenByRun(1) = NoModel \/ training'[1].uri # NoUri
  /\ \A l \in Trainings : In(l, "log") /\ In(l, "over")' => modelArtifacts'[l] # NoModel

Init ==
  /\ which \in {"growing", "materializers", "host", "hydration", "plugin", "stream", "export",
                "embed", "launch", "mirror", "install", "installs", "checkpoint",
                "renderer", "start", "predict", "probe", "artifact"}
  /\ GrowInit /\ LocalInit /\ HydrateInit /\ ExportInit /\ MirrorInit /\ StartInit /\ ProbeInit
  \* One initial state of the components the behaviour is not about.
  /\ PluginInit /\ (which # "plugin" => aliasTarget = NoBundle)
  /\ StreamInit /\ (which # "stream" => ~call.timed /\ ~leader.hangs /\ ~leader.stubborn)
  /\ EmbedInit /\ table.legacy \in {{}, {e1}}
  /\ which # "embed" => cacheFiles[{}] = NoCache /\ table.legacy = {}
  /\ LaunchInit /\ (which # "launch" => launcher.tail)
  /\ InstallInit
  /\ which # "install" => built = NoContent /\ portable = {}
  /\ which \notin {"install", "installs"} => system = NoContent
  /\ portable \subseteq Releases \ {v2}
  /\ BatchInit /\ (which # "renderer" => setting = OneSetting)
  /\ PredictInit /\ (which # "predict" => labelled /\ globOrder = <<1, 2>> /\ eval.set = Rescoring)
  /\ ArtifactInit /\ (which # "artifact" => ~overridden)
  /\ CkptInit
  /\ IF which = "checkpoint" THEN Evaluations
     ELSE /\ ranks /\ remoteCkpt = z1 /\ localCkpt = z1
          /\ \A k \in Evaluators : evaluator[k].ask = [from |-> "remote", pin |-> z1]

\* Nothing happens in the components the behaviour is not about.
Others ==
  /\ which # "growing" => UNCHANGED growVars
  /\ which \notin {"materializers", "host"} => UNCHANGED localVars
  /\ which # "hydration" => UNCHANGED hydrateVars
  /\ which # "plugin" => UNCHANGED pluginVars
  /\ which # "stream" => UNCHANGED streamVars
  /\ which # "export" => UNCHANGED exportVars
  /\ which # "embed" => UNCHANGED embedVars
  /\ which # "launch" => UNCHANGED launchVars
  /\ which # "mirror" => UNCHANGED mirrorVars
  /\ which \notin {"install", "installs"} => UNCHANGED installVars
  /\ which # "checkpoint" => UNCHANGED ckptVars
  /\ which # "renderer" => UNCHANGED renderBatchVars
  /\ which # "start" => UNCHANGED startVars
  /\ which # "predict" => UNCHANGED predictVars
  /\ which # "probe" => UNCHANGED probeVars
  /\ which # "artifact" => UNCHANGED artifactVars

Next ==
  /\ UNCHANGED which /\ Others
  /\ \/ /\ which = "growing" /\ GrowNext
        /\ growFaults' = 2 => growFaults = 2 \/ op' # op \/ unreadable' # {}
     \/ which = "materializers" /\ LocalNext /\ UNCHANGED jobVars
     \/ which = "host" /\ LocalNext /\ UNCHANGED daemon[m2]
     \/ which = "hydration" /\ HydrateNext /\ UNCHANGED latest[2]
     \/ which = "plugin" /\ PluginNext
     \/ which = "stream" /\ StreamNext
     \/ which = "export" /\ ExportNext
     \/ which = "embed" /\ EmbedNext
     \/ which = "launch" /\ LaunchNext
     \/ which = "mirror" /\ MirrorNext /\ (fits = 0 => fit' = NoFit \/ fit'.host = h1)
     \/ which = "install" /\ InstallNext /\ OtherVersionLeft
     \/ which = "installs" /\ InstallNext /\ OtherVersionUnsealed
     \/ which = "checkpoint" /\ CkptNext /\ (AskedFrom("remote") \/ UNCHANGED remoteCkpt)
        /\ (AskedFrom("local") \/ UNCHANGED localCkpt)
     \/ which = "renderer" /\ BatchNext
     \/ which = "start" /\ StartNext
     \/ which = "predict" /\ PredictNext
     \/ which = "probe" /\ ProbeNext
     \/ which = "artifact" /\ ArtifactNext /\ Trainers

vars == <<which, growVars, localVars, hydrateVars, pluginVars, streamVars, exportVars,
          embedVars, launchVars, mirrorVars, installVars, ckptVars,
          renderBatchVars, startVars, predictVars, probeVars, artifactVars>>

\* The fairness of GrowFairSpec and StreamSpec.
Growing(A) == which = "growing" /\ A
Streaming(A) == which = "stream" /\ A

Spec ==
  /\ Init /\ [][Next]_vars
  /\ SF_growVars(Growing(OpLaunch("grow")))
  /\ WF_growVars(Growing(OpStep))
  /\ \A w \in Workers :
       /\ WF_growVars(Growing(WorkerStep(w)))
       /\ \A s \in Positions : SF_growVars(Growing(ClaimRow(w, s)))
  /\ \A s \in Positions : WF_growVars(Growing(LapseOrphan(s)))
  /\ WF_streamVars(Streaming(ChildStep)) /\ WF_streamVars(Streaming(CallStep))

\* The state of the component is well formed.
ComponentTypes ==
  /\ which = "growing" => GrowTypeOK
  /\ which \in {"materializers", "host"} => LocalTypeOK
  /\ which = "hydration" => HydrateTypeOK
  /\ which = "plugin" => PluginTypeOK
  /\ which = "stream" => StreamTypeOK
  /\ which = "export" => ExportTypeOK
  /\ which = "embed" => EmbedTypeOK
  /\ which = "launch" => LaunchTypeOK
  /\ which = "mirror" => MirrorTypeOK
  /\ which \in {"install", "installs"} => InstallTypeOK
  /\ which = "checkpoint" => CkptTypeOK
  /\ which = "renderer" => BatchTypeOK
  /\ which = "start" => StartTypeOK
  /\ which = "predict" => PredictTypeOK
  /\ which = "probe" => ProbeTypeOK
  /\ which = "artifact" => ArtifactTypeOK

\* GrowthCompletes and CallReturns, for the behaviours that are about them.
GrowingCompletes == which = "growing" => GrowthCompletes
StreamReturns == which = "stream" => CallReturns
=============================================================================

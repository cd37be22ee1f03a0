# synth-setter in TLA+

synth-setter renders synthesizer datasets on a fleet of machines and trains
models on them. Its hard part is not the signal processing but the pipeline
around it: many short-lived workers with nothing in common but object storage
divide the shards of a run among themselves, crash, are relaunched and overrun
their leases, and at the end a *finalize* job has to publish one dataset out of
whatever they left behind. That pipeline is what these modules describe.

Paths below are relative to the repository; `pipeline/…`, `cli/…` and `data/…`
stand for `src/synth_setter/pipeline/…` and so on.

## 1. The system

### Parts, state, operations

| Part | State it keeps | Operations | What makes it correct |
| --- | --- | --- | --- |
| Shard claims table (`pipeline/shard_claims.py`) | One Lance row per shard: status, owner, lease expiry, generation. Nothing in a worker but the claim it holds | `populate`, `claim` (clock, scan, conditional update, read-back), `complete` | One holder per generation; no takeover under a live lease; only the holder of the current claim completes; re-seeding loses nothing |
| Staging area (`pipeline/data/lance_staging.py`) | Objects per attempt in storage: `.rendering`, Lance fragment, statistics, metadata sidecar, `.valid`, `.invalid` | uploads in one order; the skip probe `shard_has_complete_attempt` | `.valid` means that everything is there and comes from one render |
| Render job (`cli/generate_dataset.py: _render_one_owned_shard`, `data/vst/writers.py`) | The worker's directory, one path per shard | probe, subprocess render with retries, stage, delete locally | An attempt holds the output of its own render and of no other |
| Queue dispatch (`cli/generate_dataset.py`) | In flight futures, claims held | serial loop, thread pool, drain after a failure | A done shard is staged; a success is reported; nothing is left unclaimed |
| Static dispatch (same file), `pipeline/partitioning.py` | A rank's range, in-flight futures | serial loop, waves in a thread pool, cancellation | Ranges partition the shards; all ranks ok means all shards staged |
| Finalize (`cli/finalize_dataset.py`, `pipeline/data/lance_finalize.py`) | Split manifests, `welford.npz`, `stats.npz`, `dataset.json`, `dataset.complete`; nothing of its own | list, recall recorded winners, check and select, commit splits, statistics, card, marker | The marker vouches for one selection of checked attempts |
| Run lifecycle (`.github/workflows/generate-*.yaml`, the two CLIs) | Which job runs | generate, finalize, generate again | A run ends published, each shard by one render of its own |
| Growing datasets, operator side (`pipeline/data/growing_lance.py`, `cli/growing_lance.py`) | Pending and completed requests, a Lance branch, a ready tag per snapshot, a claims table | `init`; `grow`, `enqueue`, `finalize`; workers that render what is claimed | A branch in use has the bounds it was created with; it is an append-only log, each request appended once; the tag names a described version |
| Growing datasets, training side (`growing_lance.py: materialize_and_activate`, `data/lance_datamodule.py`) | A local dataset, `active.json`, what each rank adopted, what a checkpoint recorded | materializer daemon; adoption between epochs; resume | What is active, trained on and restored is a copy of a ready snapshot, the same on all ranks |
| Lance materialization (`pipeline/data/lance_materialize.py`, `data/lance_datamodule.py`) | Local directories named by split, version and columns, their sidecars, aliases between them | copy to a partial directory, rename, share a wider copy, verify | A job reads the versions it settled on, from one directory on all ranks |
| Subprocess streaming (`pipeline/subprocess_stream.py`) | A child process group, a pump thread, a pipe | run with a time limit, TERM, grace, KILL, drain, sweep of the group | The call returns, whoever holds the pipe |
| SkyPilot launch (`pipeline/skypilot_launch.py`) | One thread per rank, submitted jobs | fan-out, tail, cancel at the end, on failure, on an interrupt | What is left running is what was reported as running, or a job whose cancel failed |
| Plugin alias (`plugin_runtime.py`, `plugin_manager.py`) | A symlink, an ownership record, a write-ahead record | publish under a lock, recover, lease without that lock | Link and record agree when no transaction is open; a lease is of a sealed bundle |
| Plugin installation (`plugin_manager.py`) | The native place, the portable bundle, the artifact lock or seal of each version | install through Studiorack or the native installer, copy, seal, adopt, load | What a lock or seal vouches for is the vendor's bundle, and what a renderer loads is what was sealed |
| Checkpoint upload and resume (`utils/callbacks.py`, `utils/resume.py`) | The local rotating checkpoint and its mirror in object storage | recovery save, upload with an attempt budget, discovery at the next launch | A relaunch resumes from the furthest save it can reach; the mirror follows |
| Model artifact (`cli/train.py`, `utils/callbacks.py`) | The best checkpoint a launch has ranked, the uploaded object, the logged artifact | start afresh or resume, rank, test, upload, describe | What an artifact refers to was trained by its own launch, is its best, and is what was tested |
| Audio probe (`ValAudioProbe` in `utils/callbacks.py`, `evaluation/audio_probe.py`) | A directory per training step, one staged probe, one in flight on a thread | stage, launch or drop, render, score, archive, log | Metrics and snapshots are of the step they are filed under; nothing in use is removed |
| Checkpoint cache (`cli/eval.py`) | A directory of files named by digest, shared by processes | look up, download, verify, rename, load | A pinned evaluation loads the bytes it pinned; the cache holds each digest's own bytes |
| Predict mode of an evaluation (`cli/eval.py`, `PredictionWriter` in `utils/callbacks.py`, `evaluation/predict_vst_audio.py`, `evaluation/compute_audio_metrics.py`) | Tensors per batch, a directory per sample, a file per metrics process, `metrics.csv` | predict and save, render in the order of the listing, score in a process pool, concatenate | Each row of the dataset is scored once, its own prediction against its own target |
| Embedding jobs (`pipeline/data/add_embeddings.py`) | Columns of a dataset, a resume cache per batch, an identity per column | passes over the embeddings, one commit each, an index | A column is of one artifact, over the rows it was committed with |
| Specification (`pipeline/schemas/spec.py`, `GrowingPlan.extra_shard`) | None: seeds and offsets derived from frozen sizes | list the shards, locate a split, add a grown position | No draw is made twice, in a run or in the branch grown from it |
| Renderer process (`data/vst/generate_vst_dataset.py`, `data/vst/writers.py`, `data/vst/core.py`) | Rows flushed to a hidden directory, the shard's directory, its metrics file | draw, reject, accept, flush; hold the editor open; commit, replace, count | The directory holds the shard whole or not at all, each row labelled with its draw |
| SLAP export (`pipeline/data/export_slap.py`) | An output dataset, a pointer to it in the source | a chain of commits over the two datasets | The pointer names an output that is complete, indexed and made of the rows asked for |

The rest of the
repository (audio processing, statistics as numbers, networks and losses, metrics,
code generation, build and CI scripts) keeps no protocol state; section 8 and
`PROJECT.json` give the reason part by part.

### How they interact

A run's specification fixes its shards and the draws each is made of. The operator calls `populate`, then starts workers. A queue worker loops over
*claim, render, complete*, with one thread or a pool; a static worker walks the
range `get_my_shards` gives its rank. Both call the same render job, which starts the renderer
process, again if it fails, and talks to the staging prefix only. Finalize reads the staging prefix and nothing else:
it never looks at the claims table, and the claims table never hears of what
finalize decided. The workflow runs finalize only after generate succeeded; when
finalize fails, the operator generates again.

A growing dataset starts from a finalized one (`init` pins a branch to it and writes down
how far it may grow) and then repeats a smaller version of the same: the operator writes a request, workers claim and render its shards
(`ShardQueue` again), the operator appends them to a Lance branch, tags the version
and files the request. Daemons on training hosts follow the tag and copy each version
into a local dataset; the ranks of a job read which one is active and agree on it.
Nothing runs from the host to the branch.

The other parts meet only through files. Render jobs lease a plugin through the alias;
the plugin manager installs bundles and moves the alias. Training and evaluation
hydrate splits and checkpoints into local caches that other processes fill at the same
time. A training run resumes from what an earlier launch mirrored, continues its run id, and
publishes what it has ranked best itself; its audio probes run beside it. A predicting evaluation starts two children, one after the other, that share only its output
directory. Embedding and export jobs commit to a dataset and may be relaunched at any
point. A SkyPilot launch starts the workers of a run and streams their output.

### Which behaviours are hard

- **Leases.** There is no heartbeat. A claim whose render outlives its lease may
  be taken over by a peer or by its own worker; the late completion must miss.
- **Read, then act.** The clock is read once per claim; the probe comes before
  the render; the marker is read once when finalize starts; the winner of an
  update is known only from a second read.
- **Partial failure.** A thread fails while others render; `complete()` gives up
  on contention; a rank crashes between two uploads; finalize dies between two
  of the objects it publishes.
- **Relaunches.** Everything is relaunched by design: same table, same prefix,
  old attempts and old statistics in place.
- **Coarse and tied timestamps** decide which attempt wins, and which checkpoint is
  the latest.
- **Caches filled by whoever comes first.** Existence is checked, then a copy is made in
  a private place, then a rename races with the peers'; losers use what is there.
- **Two stores, one commit each.** A request and a branch, a local dataset and
  `active.json`, an output and the pointer to it, a symlink and the record of who owns
  it: a process dies between the two, and its relaunch must recognise its own half.
- **A moving source.** A tag, a dataset version or a remote checkpoint changes between
  the look at it and the use of what was looked up.
- **Processes outside the program.** A child that ignores TERM, a descendant that keeps
  the pipe, a service that answers late, an installer that half succeeds.

`PROJECT.json` lists the hazards line by line with the property that watches
each one, and says of the one nothing watches why.

## 2. The modules

```
ShardQueue  <== refinement == ShardClaims          (MCShardClaims, ShardClaims_proofs)
   ^ INSTANCE
GenerateDataset --EXTENDS--> ShardRender --> Staging    (ShardRender_proofs, also of Lifecycle)
   |                            ^              ^        (MCGenerateDataset, GenerateDataset_proofs)
   |      Partitioning <-- StaticDispatch      |        (MCStaticDispatch, StaticDispatch_proofs,
   |                            |              |         which also have DatasetPlan)
   |                            |              |
   |                            |       FinalizeDataset (MCFinalizeDataset, FinalizeDataset_proofs)
   |                            |              ^ INSTANCE
   |                            |          Lifecycle
   v                            v              ^
QueueLifecycle  ------------ StaticLifecycle --+        (MCQueueLifecycle, MCStaticLifecycle;
                                                         GenerateDataset_proofs and
                                                         StaticDispatch_proofs EXTEND them)

DatasetPlan <-- RenderBatches                              (Jobs_proofs)

GrowthRange --> GrowthLog  <== refinement == GrowingLance --> ShardQueue  (GrowingLance_proofs)
                    ^
                    +---- environment of ---- GrowingLocal           (GrowingLance_proofs,
                                                                      MCMaterializerRestart.cfg)
GrowthStart                                                (GrowingLance_proofs)

PluginAlias   HydrationCache   CheckpointCache   AddEmbeddings   PluginInstall  (Caches_proofs,
                                                        which also has PredictRun)
SkypilotLaunch   AudioProbe   ExportSlap   ModelArtifact   CheckpointMirror    (Jobs_proofs)
SubprocessStream                                                           (Jobs_proofs)

MCComponents --EXTENDS--> GrowingLance, GrowingLocal, GrowthStart, RenderBatches
                          the eleven above and MCPredictRun --> PredictRun
                                                           (Jobs_proofs EXTENDS it)
```

The pipeline:

- **ShardQueue** is the abstract specification: what the claims table promises.
  A row is available, claimed, lapsed or done; a grant carries a generation; only
  the current generation finishes a row. Lapsing is an event with no clock.
- **ShardClaims** is the table as the code runs it. `claim()` is four steps
  (`ReadClock`, `ScanPick`/`ScanDrained`, `UpdateWins`/`UpdateLost`,
  `ConfirmWon`/`ConfirmLost`) with `now` kept across them, because other processes
  and the clock run between the awaited calls. `complete()` is `CompleteWins` or
  `LeaveClaim`. `Queue!QueueSpec`, with a claimed row whose expiry is past mapped
  to *lapsed*, is checked as a property and proved.
- **Staging** holds the objects of every attempt and the skip probe. Contents are
  reduced to the attempt whose render they were read from (`data`, `stats`), which
  is exactly what *"one render"* needs.
- **DatasetPlan** is what a specification says of its shards: split, master seed, offset of
  the first row, also for positions a branch adds. No state; operators and one property of
  a plan.
- **RenderBatches** is the renderer process of one shard: the render loop, on the main
  thread or on one of its own under an open editor, and the main thread around it, up to the
  exit. `ShardRender` takes all of it for one step; this module is why it may.
- **ShardRender** is one render job, from probe to cleanup, each upload a step, and
  the directory shared by the slots of a worker. It leaves open who submits jobs.
- **GenerateDataset** is queue dispatch: `Slots` of size one is the serial loop,
  larger ones the pool. Its table is the abstract queue, which `ShardClaims`
  implements.
- **StaticDispatch** is static dispatch, over the ranges of **Partitioning**
  (`get_my_shards`).
- **FinalizeDataset** is the finalize job in both statistics modes, with any number
  of finalizers, late and damaged attempts, and the objects it publishes in the
  order it publishes them.
- **Lifecycle**, **StaticLifecycle**, **QueueLifecycle** put generate and finalize
  over one staging area and let the operator alternate between them.

Growing datasets:

- **GrowthStart** is the `init` command against a branch that may be there already, half made,
  made with other bounds, or grown.
- **GrowthRange** is `next_refresh`: the range of positions that follows a snapshot.
- **GrowthLog** is the abstract specification: the ready manifest grows by exactly the
  next range, one attempt per position.
- **GrowingLance** is the branch as the code runs it: `grow`, `enqueue` and `finalize`
  as one operator whose program is cut at every call to storage (look at the tag, look
  at the pending request, probe the staged attempts, append, describe, tag, file the
  request, delete the pending one), workers that claim rows of an abstract queue and
  render, crashes of both, attempts that turn out unreadable.
- **GrowingLocal** is one training host against a branch that is any behaviour of
  `GrowthLog`: daemons that take a snapshot in steps under the lock the code takes,
  ranks that adopt what `active.json` says and compare notes, a checkpoint and a job
  resumed from it.

Caches and jobs:

- **HydrationCache** is `prepare_data` for several jobs on one disk.
- **PluginAlias** is the alias transaction and its readers; **PluginInstall** what gets
  behind the alias.
- **CheckpointMirror** is a chain of training launches on several hosts, each with the save it makes
  when it fails or ends and the uploader's last hook behind it;
  **CheckpointCache** is what evaluations on one load, **PredictRun** what one does next, in
  predict mode.
- **ModelArtifact** is the other end of those launches: what they rank, test, upload and log.
  **AudioProbe** is the validation hooks of one launch and the thread beside them.
- **ExportSlap** and **AddEmbeddings** are the two jobs that extend a dataset.
- **SubprocessStream** and **SkypilotLaunch** are the two ways of running something else.

`map` in `PROJECT.json` names the lines behind every definition. Definitions called
*"Mutant of X"* are not part of the model: they are X with a plausible bug, kept
beside it to show that a property notices.

## 3. The runs

Bounds are constants of the configurations. Counters that grow are bounded by a
guard: `MaxClock` (time), `MaxAttempts` (attempts opened), `MaxFaults` (raising
steps, crashes, live leases that lapse), `MaxReadErrors`, `MaxRetries`,
`MaxDamaged`, and those of `components` below. Generations and timestamps have no bound
of their own: they grow with the clock, the faults and the attempts.

| Run | Question | Bounds, and why they are enough |
| --- | --- | --- |
| `shard_claims` | Do racing, overrunning and restarting claimants keep the table a fenced queue? | 2 shards, 2 workers, 2 claims each, lease 1, clock up to 4: enough for a claim to lapse, be taken over, lapse again and return while its first holder is still about to complete |
| `generate` | What do pool workers leave behind when a render fails, a process dies or a lease lapses? | 2 shards, 2 workers of 2 slots, 1 fault, 5 attempts: more than the fault can cause |
| `gen_overrun` | Does a job read back what its own renderer wrote, in a pool? **Refuted**, finding 2 | 1 worker of 2 slots, 1 lapsed live lease |
| `static` | Do ranks keep off each other's shards, and is success of all of them enough to finalize? | 3 shards on 2 ranks (an uneven split), 2 slots, 1 fault, 6 attempts, 1 retry of a render by the first rank (`OneRankRetries`; a retry works in a directory of its own rank), directories retained. `SmallPlansDrawApart` evaluates the draws of small plans |
| `finalize` | Does a finalizer that crashes and meets late, damaged and unreadable attempts publish one checked selection, and does it get there? | 2 splits of one shard, 3 attempts (one shard has a choice), both modes, a read error and a crash or two crashes (which allow a run that meets the remains of two earlier ones). A second finalizer starts beside a running one where both are in *estimate* mode and all attempts are there, once, without read errors or a user's statistics, and one of the two may crash once they overlap: does the later of two change anything published? |
| `fin_read_error` | Is it one selection with two finalizers and one transient read error? **Refuted**, finding 3 | 2 finalizers, 3 attempts, *exact* mode, no crash |
| `static_life` | Does a run with static dispatch end published? | 2 ranks, 1 shard each, 1 retry, 1 fault, 2 damaged attempts, 5 attempts: every damaged attempt and every fault can be paid for |
| `queue_life` | The same in queue mode, without damaged attempts, and is each shard one render? | 2 workers, 2 shards, 2 finalizers, 1 fault, 4 attempts |
| `queue_life_damage` | Does it with one damaged attempt? **Refuted**, finding 1 | 1 worker, 2 shards, no fault |
| `components` | Does each of the components beside the pipeline keep its promise? | below |
| `predict_workers` | Is every sample scored once with more than one process? **Refuted**, finding 5 | 1 launch, 3 rows in 2 batches, 2 processes |
| `materializer_restart` | Does a restarted materializer follow the branch? **Refuted**, finding 4 | 1 daemon, capacity 3 of which 2 are grown, 1 try, 1 fault |

Attempts are numbered in the order they are opened, so shards, workers and slots are
interchangeable and the safety runs use symmetry; runs with a liveness property or
ranks that are numbers use none over what is not symmetric.

Deadlock is checked except in seven runs. `shard_claims` stops when the clock has
stopped and all workers have ended (a crashed owner never comes back), the three
lifecycles (`static_life`, `queue_life`, `queue_life_damage`) when the run is
published, `components`, `predict_workers` and `materializer_restart` when the jobs they are about have
ended and the branch has reached its capacity: that is what the system does.

### The run of components

`MCComponents` gathers the components that share no state with each other. A variable
`which` chooses at the start which of them the behaviour is about; in that behaviour
nothing of the others changes. So the run is a union of separate state spaces, not a
composition: it costs their sum, and says about each what a run of its own would. A
property of one component holds trivially in the behaviours about the others. The
bounds, by value of `which`:

| `which` | Bounds |
| --- | --- |
| `growing` | Capacity 3 with 2 positions to grow, 1 worker, 3 tries of a render, 4 generations, 2 faults of which the second is the end of a command: a driver dies twice in one append; a position can use up its tries |
| `materializers` | 2 daemons, 2 faults, no job |
| `host` | 1 daemon and a job of 2 ranks with a checkpoint, 2 faults |
| `hydration` | 2 jobs, 2 splits of which the first moves once, 2 column sets one of which contains the other, tag or pin |
| `plugin` | 2 bundles and a foreign one, 1 publisher, 1 installer, 1 renderer that reads twice (`AliasReads` 1 retry) |
| `install` | 1 manager, 1 renderer, 1 version through to adoption and loading, the native place and the portable bundle empty, partial or built; 2 tries of Studiorack where the code has 3 (`StudiorackAttempts`): a try, and a repeated one |
| `installs` | As `install`, and the other version installs into the same native place at the same time but never gets to a seal, and bundles are not rebuilt |
| `stream` | A leader, one helper in its group, one process outside, 2 chunks of output, room for 1 in the pipe |
| `export` | 2 exporters, one output, source versions up to 4, output versions up to 5: two whole exports, or one and the remains of another |
| `embed` | 2 embeddings (one shares a model), 2 artifacts, 4 job requests (two passes with a cache, the same with another artifact, one pass with a given cache path that builds the index, one without), 2 batches, versions up to 4: a change of rows, a commit of columns, and the index of the first embedding, for which there are rows enough from version 2; its columns may have been there before, without an identity |
| `launch` | 2 ranks, tailing or not |
| `renderer` | A shard of 3 rows in batches of 2 (a full batch and a remainder), 2 attempts per row, 2 processes, all editor toggles, both cadences; the first shard of a run with seeds, the last of one without, and a grown one |
| `start` | 2 pairs of bounds, train versions up to 2, any of them with added columns, 2 appends |
| `predict` | 3 rows in a batch of 2 and one of 1, listed in either order, with parameters or without; 2 launches, each of which may die anywhere, render again or only score; 1 process |
| `probe` | 3 validations: one whose probe is in flight, one that is dropped or launched meanwhile, one that finds the thread done |
| `artifact` | 2 launches on 2 hosts with one run id, fresh or resumed and overlapping in any way, 2 steps (a checkpoint, and a save that carries its name), 2 values of the metric; a fresh second launch is on the first's host, and the first dies only while it fits; derived or configured destination, the latter with 1 step |
| `mirror` | 2 hosts, 3 launches, 2 steps over all, 2 upload attempts; a launch may fail at any hook, save, mirror that, and be resumed |
| `checkpoint` | 2 evaluators as ranks of one evaluation or as two, 2 checkpoints of which one is pinned, 2 tries of a download where the code has 3 (`Downloads`); one of two separate evaluations may have no pin; damage of a cached file |

What `MCComponents` leaves out of these instances is stated at its head and in its
`Next`: the second fault of a growing branch is the operator's, or follows an attempt that does not load; a host is checked with two daemons or with one and a job, never with both; only
the first split's source moves; the first launch of a training run is on the first host; where its model is
followed a launch saves at every step (the second may leave out its first) and skips no part
of its end, the first dies only while it fits, and a second one that does not resume is on the
same host, and the first step of the first launch gets the best score there is, so that a resumed
launch may tie with what it inherits and a later step of the first may not pass it (the theorem
`ArtifactDescribesItsModel` has all scores); and a checkpoint nobody asked for does not change. Each was the price of a run that ends within
minutes; none removes a step of the modules.

### What they check

- **Fencing** (`ClaimedByOne`, `DoneByCurrentClaim`, `NoLiveTakeover`, `ImplementsQueue`): two
  workers never hold the same claim, a live one is not taken over,
  and neither a late completion nor a second `populate` disturbs a peer.
- **Nothing forgotten, nothing done twice** (`DoneImpliesStaged`,
  `OneAttemptPerClaim`, `LeavesNothingAvailable`, `SuccessIsReported`,
  `AllOkMeansStaged`).
- **One render per attempt** (`AttemptIsOneRender`, `NoSharedShard`, and `OwnInput`, which fails in a
  pool: finding 2).
- **One selection per dataset** (`CompleteIsOneSelection`, `PublishedIsChecked`,
  `CardIsStable`, `PublishedIsFinal`).
- **End to end** (`PublishedIsOneRender`, `RunIsPublished`, `PublishesUnlessLost`).
- **A log that grows** (`ImplementsGrowth`, `ReadyIsWhole`, `RequestAccounted`,
  `GrowingCompletes`): no append is repeated or lost through crashes, what the tag
  names is whole, no request vanishes, and the capacity is reached.
- **A start that can be repeated** (`ReadyHasItsContract`): no order of crashes and re-runs of
  `init`, with any bounds, leaves a branch in use under bounds that are not its own.
- **A shard is whole** (`RendersItsShard`): rows in place and labelled, counts that fit.
- **Copies are of what was published** (`ActiveIsReadySnapshot`, `TrainsOnOneSnapshot`,
  `TrainsOnWhatItResolved`, `CheckpointIsTheOneAsked`, `ProgressIsKept`).
- **A model is what its artifact says** (`ModelIsTheOneDescribed`): neither resuming nor a shared run
  id makes a launch publish, replace or describe another one's checkpoint.
- **Probes keep apart** (`ProbesKeepApart`): whichever of thread and validation is first.
- **Every row counts once** (`EveryRowScoredOnce`): over whatever an earlier launch left, and in
  whatever order files are listed. With a pool of one; finding 5 is about larger ones.
- **Two records agree** (`AliasSound`, `BundlesAreSealed`, `PointsToACompleteOutput`,
  `ColumnsAreOneArtifact`).
- **Nothing outlives its caller, and the caller returns** (`LeavesWhatItReports`,
  `StreamReturns`).

`ComponentTypes` is the type invariant of every component of `MCComponents`; those of the pipeline have no
run of their own. All are theorems (section 5).

One thing the code decides for all values at once is no behaviour: the draws of a plan.
`SmallPlansDrawApart`, an assumption of `MCStaticDispatch`, has TLC evaluate
`DrawsAreApartIn` for every plan of up to 2 rows per shard and 2 shards per split, with
and without seeds, and two grown positions; section 5 proves it for all.

### Fairness

Safety needs none. The liveness runs assume fairness of single actors only:

- a running main thread and a running render thread go on (`MainStep`, `RenderStep`
  per worker and slot): the operating system schedules them. For the render step this assumes
  that the renderer ends: its subprocess runs without a time limit
  (`cli/generate_dataset.py:1088`), and nothing in the code ends one that hangs;
- a worker or finalizer that ended without success is started again (`Launch`,
  `Restart`, `SToGenerate`, `QToGenerate`): the relaunch *is* the recovery procedure,
  in the documentation and in the workflow's retry;
- leases run out (`QLapse`, `LapseOrphan`): the clock moves;
- `GrowingCompletes`: a running operator command and a running worker go on (weak,
  `OpStep`, `WorkerStep`); the operator does launch `grow` again (strong,
  `OpLaunch("grow")`, because commands that end without effect disable and enable the
  launch in turn); and a worker that claims again and again comes by each claimable row
  (strong, `ClaimRow` per worker and row: `claim()` picks with `random.choice`);
- `StreamReturns`: the child's processes and the call's threads go on (`ChildStep`,
  `CallStep`). A child that hangs on a call without a time limit is excepted by the
  property; the code waits for it, by design;
- `materializer_restart`: a daemon goes on and, having died, is restarted (`DaemonStep`).

Faults, damaged attempts and read errors are never fair and are finitely many; with
infinitely many no pipeline ends. Nothing in the code bounds the number of attempts
at a shard whose render always fails.

## 4. What the runs found

1. **A damaged attempt is not repaired in queue mode** (`queue_life_damage`,
   `RunIsPublished`). Finalize marks the only attempt of a shard `.invalid` and exits
   1; `docs/design/data-pipeline.md:611` says the shard *"is treated as missing and
   regenerated on next `generate`"*. In static mode it is (`static_life`). In queue
   mode its row is still *done*: `populate` keeps existing rows, a done row is not
   claimable, so nobody ever probes the shard again, and generate and finalize
   alternate for ever.
2. **A pool can render one shard twice into one directory** (`gen_overrun`,
   `OwnInput`). A lapsed claim is claimable by anyone, its own worker included. The
   header of `shard_claims.py` calls a double render safe because output keys are
   idempotent; attempt names differ, but the local directory of the shard is shared
   by the threads of the pool.
3. **A transient read error splits a published dataset** (`fin_read_error`,
   `CompleteIsOneSelection`). An `OSError` while a healthy fragment is read counts as
   a failed check, so one of two finalizers excludes an attempt its peer has accepted,
   and writes its splits over those its peer's marker announced.
   `data-pipeline.md:694` says that both *"produce identical canonical outputs"*.

4. **A materializer that dies at the wrong moment never recovers**
   (`materializer_restart`, `CatchesUp`). The daemon commits its local dataset, then
   records it in `active.json`. If it dies between the two and the ready tag has moved on
   when it is restarted, it finds a local version it did not record and that is not of the
   snapshot it now reads, and raises; so does every restart
   (`pipeline/data/growing_lance.py:1068`, and 1055 for the first copy).
   `docs/operations/growing-lance-runbook.md:103-105` says to restart it. That
   `active.json` stays valid, as the same lines say, does hold.

5. **Metrics of a pool are lost and doubled** (`predict_workers`, `OneRowPerSample`). Each call
  of `compute_metrics` writes `metrics-<pid>.csv` and returns the name
  (`evaluation/compute_audio_metrics.py:968-972`). The pool's queue is shared, so a process that
  is done before another has taken its call takes that one, too, and writes the same file. A
  parent that has not read the first result by then reads the second twice: `metrics.csv`
  misses samples, doubles others, and the means are over what it holds; no error is raised.
  `docs/reference/wandb-integration.md:285` says *"one row per sample"*. The parent has as long
  as the second sublist takes to score; short sublists and a slow parent make it likely. One
  process, the default of an evaluation, is exact (`EveryRowScoredOnce`); the validation probe
  has two, the command line eight.

Five more disagreements break no property stated here. `data-pipeline.md:650` says that
finalize validates the outputs behind an existing `dataset.complete` and removes a stale
marker; `finalize_from_spec` returns as soon as the marker exists
(`cli/finalize_dataset.py:236`), which is what `SkipFinalized` does. And the docstring
of the wave loop (`cli/generate_dataset.py:647-650`) says that no shard beyond the
in-flight set can start once a failure surfaces. The loop looks only at the futures one
`wait()` returned, so a failure that arrives while it handles them is seen after their
replacements were submitted (lines 673-684). A third is a matter of which exception is seen: the
docstring of `run_with_editor_held_open` (`data/vst/core.py:180-182`) says that a worker's own
exception takes precedence over `RenderWorkerLeaked`; one that is raised between the check of
`captured` (line 216) and that of `is_alive` (line 219) is reported as a leak. The process fails
either way. The last is a setting: `cli/eval.py:242` calls `num_workers=0` valid and hands it on as
`-w 0`, which `compute_audio_metrics` refuses (`click.IntRange(min=1)`, line 1092). And the docstring of
`_checkpoint_metadata` (`cli/train.py:427-429`) says that a resumed run can upload an inherited
checkpoint unchanged; `_checkpoint_path_written_by_run` has ruled that out.

## 5. The proofs

Every theorem holds for all values of the constants that satisfy the named `ASSUME`s
of the modules: bounds are numbers; a value that stands for *none* (`NoShard`, `NoRecord`,
`NoDataset`, `NoProbe`, `NoSave`, ...) is none of the values it is told from; ranks are `0 .. World - 1`
and shards `0 .. NumShards - 1` in static mode; a job has a rank 0 (`HostAssumption`); what is
requested of a cache is one of its directories (`RequestsAssumption`); the embeddings a release
knows are finitely many (`EmbedAssumption`); there is a plugin release to install
(`InstallAssumption`). A theorem that needs more (one slot per worker, one
finalizer or no misread fragment, one statistics mode, one process in the metrics pool) says so in its statement. `TLC`
checked each invariant on a small instance, the run's or one of the same size, before it was proved.

**ShardClaims_proofs.** Fencing is not inductive by itself: it says nothing of a worker
between its update and its read-back. The invariant `IInv` adds `PendingConfirmOK` (such
a worker that still owns the row does not hold that generation yet, and the row is
claimed), `CallOK` (the locals of `claim()`; `now` is not in the future) and
`AbsentRowsBlank`. From it: `TypeCorrect`, `Fencing`, `UniqueClaims`, the action
properties `TakeoverAfterLease`, `DoneOnlyByHolder`, `RowsOnlyAdvance`, and
`Refinement`: every step is a step of `ShardQueue` or stutters. A `Tick` maps to
`Lapse` of the set of rows whose expiry it passes, an update with an old clock reading to a
`Take` that lapses at once.

**ShardRender_proofs** knows no dispatcher. `RenderNext` is anything a dispatcher may do
with the render steps; `RenderInv` (a job at work has an attempt on its shard; what the
attempt holds already; objects appear in order; a success is staged) is preserved by
it, and a staged shard stays staged (`StagedStays`). If the slots of a worker are on
different shards (`SlotsApart`), a directory never changes under a job
(`OwnInputStep`), so an attempt is one render.

**GenerateDataset_proofs** shows that each dispatcher step is a step of `RenderNext` or
leaves it alone, and so inherits all that. `GInv` relates table and staging: done rows are
staged, rows exist before workers do, and a worker stops asking when nothing is
available. `SerialAttemptsAreOneRender` assumes one slot, for which `SlotsApart` is
trivial; finding 2 is what happens without. `ClaimsRenderOnce` (`OneAttemptPerClaim`) counts: the
attempts on a shard can be numbered by the generations of the claims they were opened under, each
once (`Ledger`), where a job that has yet to open its attempt and a claim that has yet to be
confirmed keep a generation in reserve. The code records no such number on an attempt, so the
numbering is bound by a quantifier (`OpenedOnce`); a step that opens an attempt extends it.

**StaticDispatch_proofs** proves that `get_my_shards` partitions the shards, for every
number of shards and ranks (`RangesPartition`, `SharesAreBalanced`): ranges are adjacent,
the first starts at 0, the last ends at the total, and the owner of a shard is the
least rank whose range ends after it. `SInv` then follows each rank's frontier: slots at
work are on distinct shards behind it, and while nothing has failed every shard behind
it is staged or in a slot. Hence `SlotsNeverShare`, `AllRanksOkStageTheRun` and, for any
number of slots, `StaticAttemptsAreOneRender`.

The same module proves `PlanDrawsAreApart`: for every valid specification, with split seeds or
without, two rows of a run and of its branch share no draw. Stretches of one seed are told apart
by their offsets (`OneStretch`: two stretches of *rows* indices that start at multiples of *rows*
meet only if they are one), and a grown stretch starts behind every planned one.

**FinalizeDataset_proofs.** `PublishedIsChecked` holds for any number of finalizers: the
invariant adds that a chosen winner is a checked attempt. `CompleteIsOneSelection` does
not hold for several finalizers (finding 3) and is proved for one at a time
(`SerialFinalizersPublishOneSelection`): `Progress` says for each phase what the run has put in
place, `Honest` that statistics of our own are of the attempts their provenance names,
`Sealed` that nobody is at work behind a marker. `SerialFinalizersNeverRewrite` is its action
property. `SerialFinalizersKeepTheCard` (`CardIsStable`) adds `Follows`: what a run has listed
contains every recorded winner that still stands, so that the run, having recalled the card, prefers
and chooses it again.

All three hold for any number of finalizers at a time as well, where no healthy fragment is misread
(`Steady`), which is the case `data-pipeline.md:694` has in mind. An attempt is then excluded only
if it is damaged, and the listings, the markers and the card determine one attempt for each shard
(`Due`), which every run chooses (`Chooses`), whether or not it read the card before a peer wrote
it. What it needs of the attempts is that only damaged ones are excluded (`NoneExcluded`) and that the
card records healthy ones (`RecordedHealthy`); both are stated of attempts staged in part, too, so
that the proofs of a run from end to end can take the invariant over (`SteadyKept`). Runs that publish
therefore publish the same (`PublishersAgree`), so that a peer's step leaves
in place what a run has put there (`OthersProgress`) and a late one the published dataset
(`StaysOneSelection`). Hence `SteadyFinalizersPublishOneSelection`, in whatever modes, and
`SteadyFinalizersKeepTheCard`. `SteadyFinalizersNeverRewrite` asks for one mode (`OneMode`): *estimate* keeps the
statistics a user brought and *exact* replaces them, so a late peer in the other mode does change
`stats.npz`.

**GrowingLance_proofs.** The invariant follows the operator's program: `BranchOK` (each
version is the one before and its next range, in order), `AttemptsOK` (no version holds a
damaged attempt or one that does not exist), `TagOK` (the branch is at most one version
ahead of the tag, and only the tagged versions have their request filed), `PendingOK` (the
pending request follows the ready version or is the one it was made for) and `OperatorOK`
(what the operator has read is still so). That last part is what serialising the operator's
commands buys; the theorems are about one operator and any number of workers. From it:
`BranchImplementsGrowth`, the refinement of `GrowthLog`, `ReadyVersionIsWhole` and
`RequestsAreAccounted`.

Its last section is about `init`. `StartInv` says what an `init` that has got so far knows of the
branch (it is there, at its baseline and, past `replace_metadata`, under the bounds it was asked
for) and that only one at its very end can meet a branch that is in use, at the version it was
made at. Hence `ReadyBranchHasItsContract`.

The part on the training host takes `GrowthLog` as its environment. `LocalsOK`: each version of the
local dataset is a copy of a ready snapshot, and of a later one than the version before, so that the
prefix it kept and the rows it added come from one log. `DaemonOK`: what a daemon has found out of the
local dataset and of `active.json` is still so, because it holds the lock from there on; this is
where a daemon that dies, and so gives the lock back half way, is accounted for. `RecordsOK`: every
record (active, adopted, gathered from a peer, in a checkpoint) names a local version and the snapshot
it was copied from, with its metadata beside it. `JobOK`: ranks have adopted the same. Hence
`LocalCopiesAreReady` (`ActiveIsReadySnapshot`) and `RanksTrainOnOneSnapshot` (`TrainsOnOneSnapshot`).

**A run from end to end.** `PublishedIsOneRender` is proved for both dispatchers, from the
invariants of their parts. `LifeInv` (in ShardRender_proofs, for any dispatcher) joins the render
job's `RenderInv` with the `SteadyInv` of FinalizeDataset_proofs, here instantiated, and adds
that the two jobs take turns: no finalizer is at work while generate runs, and all slots are free while
finalize runs (`StageOK`). A generate step is a step of `RenderNext` and of `Land`. It excludes
no attempt (`NeverExcluded`), and it neither takes an object from an attempt the card records nor
finds a defect in it, because that attempt has landed before: so `SteadyKept` applies. A
finalize step is one of FinalizeDataset's (`FinalizerEffect`), to which `SteadyStep` applies; it
leaves the staged attempts alone but for their `.invalid`. `StaticRunsPublishOneRender` adds
`RankInv`, which while generate runs keeps the slots of a rank apart; `QueueRunsPublishOneRender` adds what a
worker between two claims has (`WorkerOK`). Both hold for any number of finalizers in any modes, as
a run from end to end misreads no fragment (finding 3 is about one that does); the second assumes one
slot per worker (finding 2 is about more).

**Caches_proofs.**

- *PluginAlias.* `AliasInv` says that one publisher at a time is past the alias lock
  and that the record it leaves fixes how ownership record and symlink go together, so that
  the next one can tell which of the two was written. `LeaseInv` says what a renderer knows
  after each of its reads, taken without that lock: once it holds the package lock of the
  bundle it leased, the two agree unless somebody has moved the alias since (`moved`).
- *HydrationCache.* An alias leads to a directory and only directories hold copies (`EntriesOK`); a
  job has resolved what it reads (`ResolvedOK`), and the directory it has selected suits it in
  every split it has been through (`SelectedOK`). The argument is that the disk only grows: an entry, once
  made, stays, and so does a copy (`CacheGrows`), so a peer that wins a rename cannot take away what a job
  has looked at. Hence `JobsTrainOnWhatTheyResolved`.
- *CheckpointCache.* A process with a pin works under its digest from the lock to the load (`PinnedOK`);
  one without, on what the store held since it began (`PrivateOK`); an entry is filed
  under the digest of its bytes or is damaged. With `AskOK` for ranks, which share one
  pin: `EvaluationLoadsWhatItAsked`.
- *AddEmbeddings.* `ColumnsAreOneArtifact` looks at the table alone and needs the caches: a column is
  committed from batches that other launches, with other artifacts, may have written. `CachesKept`: the batches
  under a path carry the identity they are filed under and, as long as its version is the table's or that of a
  job at work, the rows of that version. `JobKept`: a job's pass is on the version it
  looked at. `JobCovers`: whatever of the job's request is not in the table is in the passes it
  has yet to make, columns found without an identity excepted, so that a relaunch neither repeats a commit nor skips one. The partition into
  passes is a fact about sequences of its own (`PassesCover`). Hence `ColumnsOfOneArtifact`.
- *PluginInstall.* A version is installed by one manager or loaded by one renderer at a
  time (`LocksOK`), but the installers of a dead manager know of no lock. So the invariant says
  what a manager may rely on until somebody else writes the place it works on (`clash`): it
  finds what its installer left, what was there before, or nothing (`FoundOK`), and its
  copy is of that (`ManagerOK`). What it then seals under the artifact lock is the
  vendor's bundle (`SealsOK`); a bundle Studiorack unpacks in its place is a portable one's (`PlacesOK`); a renderer has checked the
  bundle it uses against its seal (`RendererOK`). Hence `BundlesStaySealed`.
- *PredictRun.* The samples of a file begin behind the rows of all files listed before it (`Offset`, the
  cardinality of a union, so that no sum has to be taken by induction); hence each sample is of one row and each
  row has a sample (`SamplesApart`, `SampleIsARows`). Since launches predict the same batches and list them in
  one order, whatever an earlier launch left under a sample is of the same row (`WavsOK`), and all samples
  before the one in work are this launch's own (`DoneBefore`). With one process in the pool the call
  is in one place at a time (`SoleCallOK`), and what is read is what it wrote. Hence
  `EveryRowIsScored`, for a pool of one process: with more, finding 5 refutes it. What is left of it for
  any pool is `ScoresAreOfOneRow`: a process that takes a second file may lose or repeat rows of the table, but each
  row compares two wavs of one dataset row. `PoolInv` says so of what processes hold, of the files they
  wrote and of the pieces the main process reads back.

**Jobs_proofs.**

- *SkypilotLaunch.* Per rank: the service has a job exactly for a request it has
  served (`RequestOK`), a thread's result is true of its job and is what is collected
  (`ResultOK`), nothing is cancelled before the end and then all that has to be (`CancelOK`).
- *AudioProbe.* The staged probe is the last validation's (`StagedOK`), the one in flight an earlier one, with
  what its stages have left in a directory of its own (`FlyingOK`), and all that is logged came before
  both (`LogOK`), in order. A directory that exists is kept, staged or in flight (`DirsOK`), which is why dropping
  a probe never removes one in use. Hence `ProbesAreApart`.
- *ExportSlap.* All versions of an output are of one request and one input, and a completed one is
  indexed (`VersionsOK`); what an exporter goes by is in the output (`WorkOK`), whoever put it there, and
  so is the index it has built when it opens the output anew;
  versions are only appended, so that both outlive the steps of a peer. Hence
  `SourcePointsToCompleteOutputs`.
- *ModelArtifact.* A launch that runs has either its own best checkpoint, at the top of what it ranked itself,
  or an inherited one and no score (`UpOK`); at its address lies its own checkpoint, or, with a
  configured destination, that of whoever came last (`UploadOK`); a logged artifact describes what
  its launch uploaded (`LoggedOK`). Nothing is ranked in the name of a launch that has not
  started (`RankingOK`), which is what tells a resumed best from an own one. Hence
  `ArtifactDescribesItsModel`.
- *CheckpointMirror.* `ClocksOK`: the times of what is on a disk, and of what is mirrored, grow with the
  launches that wrote it, so the newest save is the last launch's (`NewestIsLast`). `ChainOK`: as long
  as no mirror had to be skipped and the chain stayed on one host or followed its mirror, steps grow
  with launches too and no mirror is ahead of its disk. `FitOK`: a launch at work is at least as far as what
  it resumed from. Discovery, which goes by time, then finds the furthest save
  (`DiscoveredIsFurthest`). A save on leaving changes one file of the launch at work, as the saves in training
  do (`SavedKept`), under a token of its own; the uploader's hook then mirrors it, has tried and
  failed, or has none of its attempts left. Hence `LaunchesKeepProgress`.
- *RenderBatches.* What the loop has got through, flushed or still in the batch (`RenderedRows`), is the beginning
  of the shard: each row under its draw, with the first row's patch where one serves the shard, and the
  draws rejected before it counted (`LoopRows`); an accepted row appends to it whether it is
  flushed or not (`RenderedGrows`). The count is the cardinality of a set of draws, so that no
  induction over the rows is needed (`RejectedGrows`). The main thread gets to a commit only with a loop that has
  returned, and there are metrics only when it is through (`HostOK`). Hence `RendererLeavesItsShard`. That
  counts and batches stay within their bounds (`RenderIsTyped`) needs `BatchFits`: no row is rejected
  more often than it may be attempted, and a batch never overruns its size.
- *SubprocessStream.* `StreamKnows` is what the caller may rely on after each of its reads: of an exit it has seen,
  that the child is dead and how it ended; of a time limit it acts on, that there is one; of a pump that has ended,
  that all is read and every writer is gone. Hence `CallReturnsTheTruth`, whatever the order of exit, time limit, cancellation and
  end of the pipe: a call returns what its child did, over a dead child unless it was cancelled.

`ComponentsAreTyped` joins all this. `ComponentsInv` is the conjunction of the components' invariants; a step
of one is a step or a stutter of each of the others (`StepsAreOfComponents`), because they share no state. So the
type invariant of `MCComponents` holds for all values of the constants, without the restrictions by which the run
keeps its state space small.

**Only model-checked** is everything under fairness, which is out of the prover's reach:
`RunIsPublished`, `PublishesUnlessLost`, `GrowingCompletes`, `StreamReturns`. Every invariant and every
action property of a passing run is a theorem.

## 6. What is abstracted

The pipeline:

- An update of the claims table is atomic, or gives up: Lance evaluates the condition on
  the version it commits to. Its internal retries are left out.
- Workers share one clock. The code compares epoch seconds of different machines under
  a lease of two hours and says so.
- In `GenerateDataset` a relaunched worker keeps its name where the code draws a new
  owner; the module says why that makes no difference. `ShardClaims` has fresh owners.
- Listing and probing are one atomic read. Objects are only ever added.
- In `FinalizeDataset` attempts land between runs only, never during one. The
  documentation supports finalizing only after generation is quiescent, and the standard
  workflows enforce it.
- A step that raises either has its effect or has none. A render step that has it is followed
  by a failure before the next one (`Fail`); so are the steps of a finalizer, and the claim whose
  update took effect before it raised (`ClaimError`).
- In the lifecycles a finalizer does not fail by itself and misreads no fragment; those are
  FinalizeDataset's.

The other components:

- **Growing datasets.** One grow driver, or its single-step equivalents, at a time: nothing
  in the code keeps two apart. `GrowingLance` starts where `init` has ended; `GrowthStart` has
  the rest, with an append and what makes it ready as its whole environment, and no digests, row
  counts or local copies. Attempts of one position have distinct
  modification times here; `FinalizeDataset` has the tied ones. `GrowingLocal` takes
  the branch to be `GrowthLog`, which `GrowingLance` is proved to implement.
- **DatasetPlan.** A draw is the pair of master seed and index that seeds its generator; the
  generator itself is not modelled.
- **RenderBatches.** One count stands for the three kinds of rejection, audio is left out, and so
  are lists of fixed parameters and input audio. The directory is committed and compacted before
  it is renamed, so nobody sees the layout in between. One process at a time renders into a
  directory here; finding 2 is about two.
- **HydrationCache.** A job materializes its splits one after the other and reads them at the
  end. Copies have a version and columns, no rows.
- **PluginAlias.** Bundles are whole by assumption; what makes them so is `PluginInstall`.
- **PluginInstall.** One native place, one artifact lock that does not change. An installer
  that exits 0 has written the whole bundle, there or elsewhere. `BundlesAreSealed` excepts the case
  in which two installer processes, one of them left by a dead manager, write one place at a
  time (`clashes`): nothing in the code keeps them apart. A manager that dies between the
  native install and the adoption leaves bytes that its re-run refuses to adopt; the docstring of
  `_run_native_install` says so, and the model has it.
- **CheckpointMirror.** The writer is Lightning's `ModelCheckpoint`, used with `save_last` and
  `save_on_exception` (`_configure_checkpoint_durability`): it saves at the cadence, on an exception unless
  that step is saved or training has not begun, and at the end if nothing was saved before. An exception in the test phase, after training has ended,
  is left out. An upload takes effect whole or raises; one that took
  effect although the call was interrupted is left out. A new host has an empty
  disk; so has one that lost it. Modification times of different launches may tie.
- **CheckpointCache.** A download is one version of the object, or shorter than the size that was looked
  up. A damaged cached file is noticed and refused, never repaired: the model says so and the
  property does not ask for more.
- **PredictRun.** One rank predicts: with several, each saves under the same names
  (`PredictionWriter` has no rank in them) and replaces what another has saved. Launches into one
  directory predict the same batches and find the files listed in one order, any; with other batch
  sizes, files of the earlier one would be rendered with those of the later. A child that is stopped is gone, a cut wav counts as its
  sample, every launch computes metrics, and a metric is the pair it compares.
- **ModelArtifact.** A checkpoint is the launch that wrote it and its step; the monitored metric has
  few values, and what Lightning restores is modelled from its use. A configured destination is
  shared by launches on purpose; the property then speaks of the last one to upload.
- **AudioProbe.** Validations are at growing steps: no configuration accumulates gradients. With
  accumulation two validations may share a step, and dropping the second one's probe would remove
  the directory of the first, still in flight.
- **ExportSlap**, **AddEmbeddings.** A commit is atomic. Rows are abstracted to the source
  version they were read from, an encoding to artifact and rows. Jobs ask for one index configuration per
  column, so the mismatch that makes `_matching_index_exists` raise does not occur, and no
  dataset has a part of an embedding's columns.
- **SubprocessStream.** The escalation is ordered by the passing of the limit and the grace, not
  by clock values. The escapee is a descendant that left the group.
- **SkypilotLaunch.** Building the task, credentials and log formatting are left out.

## 7. Plan

Done: the core (claims table, staging and render job, queue and static dispatch, finalize,
lifecycle), then growing datasets on both sides, materialization, plugins, subprocesses,
launches, checkpoints, embeddings and exports, the renderer process, the draws of a
specification, the start of a branch, the predict mode of an evaluation, the audio probe and the
model artifact of a training run.

Proved: every invariant and every action property of the passing runs, from the claims table to the
published run, of both sides of a growing dataset, and of the caches and jobs. What is left to TLC is
listed at the end of section 5.

## 8. Not modelled

The modules cover code that changes state other processes, threads or later runs can see. It is a
small part of the repository: most of its lines are numerical, declarative or interactive, and are
left out on purpose:

- **The rest of an evaluation** (`cli/eval.py`): the mirror of the output
  directory and the artifact that names it are written once, at the end, and not read back.
- **Renderer sessions inside other hosts** (`renderer_factory.py`, the batched and in-process
  backends): one caller at a time in production; what happens otherwise is up to the plugin host.
- **Networks, losses, metrics, signal processing** (`models/`, the rest of `evaluation/`, the rest of `data/vst/`,
  `pipeline/data/stats.py`): floating-point arithmetic on arrays. What the protocols need
  of it is an outcome: a render succeeds or fails, a check accepts or rejects.
- **Schemas and specs** (`schemas/`, `pipeline/schemas/`): validation of frozen values, without
  state, beyond what `DatasetPlan` has. The frozen spec appears as constants.
- **The storage client**: argument building around rclone. Its calls are the atomic
  steps of the modules.
- **Graphical and exploratory tools** (`tools/`, web and Faust export): one user, one
  process, nothing shared.
- **`add_music2latent`, `add_preview_columns`**: one commit each over a dataset or a shard, without
  resume.
- **Build, CI and review scripts** (`.github/`, `scripts/`, `agent/`): about the repository, not the
  program. The workflow order of generate and finalize is in the lifecycles.

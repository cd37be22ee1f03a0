---------------------------- MODULE HydrationCache ----------------------------
(***************************************************************************)
(* Local copies of a dataset's splits for training: materialize_splits and *)
(* materialize_lance_subset (pipeline/data/lance_materialize.py), called   *)
(* from VSTDataModule.prepare_data, which shares a wider copy between      *)
(* requests through an alias (data/vst_datamodule.py).                     *)
(*                                                                         *)
(* Jobs on one disk run at the same time, without a lock, and die at any   *)
(* point.  A split is published by renaming a finished directory, its      *)
(* manifest inside, so nobody sees half of one; a directory a dead job     *)
(* left behind is never looked at.  The source goes on changing: each      *)
(* split has versions of its own.                                          *)
(*                                                                         *)
(* A request's directory is named after its columns and pins.  A request   *)
(* without pins takes each split's latest version, once per job.           *)
(*                                                                         *)
(* Data left out: row limits, batch sizes, what the manifest hashes.       *)
(***************************************************************************)
EXTENDS Naturals, FiniteSets

CONSTANTS
  Hydrators,       \* jobs
  Requests,        \* the directories jobs ask for
  NumSplits,       \* train, val, test
  MaxSourceVersion, \* bound: versions of a split
  NoDataset,       \* the split is not there
  NoRoot           \* no such directory entry

ASSUME HydrateAssumption == NumSplits \in Nat /\ MaxSourceVersion \in Nat \ {0}

VARIABLES
  latest,     \* latest version of each source split
  entries,    \* directory entries: a root is itself, or an alias of another
  copies,     \* the splits published in each root
  hydrator    \* the jobs

hydrateVars == <<latest, entries, copies, hydrator>>

Splits == 1 .. NumSplits
SourceVersions == 1 .. MaxSourceVersion
Projections == {{"mel"}, {"mel", "audio"}}

\* subset_dirname: one directory per request.
Root == [columns : Projections, pinned : BOOLEAN]
ASSUME RequestsAssumption == Requests \subseteq Root /\ NoRoot \notin Root

\* The transaction a pinned request names; it never changes.
PinnedVersion == 1

\* MaterializeManifest
Dataset == [version : SourceVersions, columns : Projections, pinned : BOOLEAN]
ASSUME NoDatasetAssumption == NoDataset \notin Dataset

\* root is the requested directory, selected the dataset_root in use, peer
\* what another rank of the job selects.
Hydrator == [step : {"idle", "resolve", "select", "alias", "look", "publish", "setup", "train"},
             root : Root \cup {NoRoot}, selected : Root \cup {NoRoot},
             peer : Root \cup {NoRoot}, versions : [Splits -> 0 .. MaxSourceVersion],
             split : 1 .. NumSplits + 1]

IdleHydrator == [step |-> "idle", root |-> NoRoot, selected |-> NoRoot, peer |-> NoRoot,
                 versions |-> [s \in Splits |-> 0], split |-> 1]

HydrateTypeOK ==
  /\ latest \in [Splits -> SourceVersions]
  /\ entries \in [Root -> Root \cup {NoRoot}]
  /\ copies \in [Root -> [Splits -> Dataset \cup {NoDataset}]]
  /\ hydrator \in [Hydrators -> Hydrator]

HydrateInit ==
  /\ latest = [s \in Splits |-> 1]
  /\ entries = [r \in Root |-> NoRoot]
  /\ copies = [r \in Root |-> [s \in Splits |-> NoDataset]]
  /\ hydrator = [j \in Hydrators |-> IdleHydrator]

\* The directory a path leads to.
Real(path) == IF entries[path] = NoRoot THEN path ELSE entries[path]

\* Mutant of Reusable: any copy with the columns will do.
ReusableAnyVersion(dataset, root, version) ==
  dataset # NoDataset /\ root.columns \subseteq dataset.columns /\ dataset.pinned = root.pinned

\* _manifest_matches_request, of _reuse_or_raise: a copy may have more columns.
Reusable(dataset, root, version) ==
  /\ dataset # NoDataset
  /\ root.columns \subseteq dataset.columns
  /\ dataset.pinned = root.pinned
  /\ dataset.version = version

\* _candidate_covers_projection
CoversAll(root, request, versions) ==
  \A s \in Splits : Reusable(copies[root][s], request, versions[s])

\* _compatible_cache_candidates: complete siblings, aliases left aside.
Candidates(request) ==
  {r \in Root \ {request} : entries[r] = r /\ \A s \in Splits : copies[r][s] # NoDataset}

-----------------------------------------------------------------------------
HStep(j, step) == hydrator' = [hydrator EXCEPT ![j].step = step]
HDie(j) == hydrator' = [hydrator EXCEPT ![j] = IdleHydrator]
HSelect(j, path) ==
  hydrator' = [hydrator EXCEPT ![j].selected = path, ![j].step = "look", ![j].split = 1]
HNextSplit(j) ==
  LET split == hydrator[j].split + 1
  IN  hydrator' = [hydrator EXCEPT ![j].split = split,
                     ![j].step = IF split > NumSplits THEN "setup" ELSE "look"]
HydrateOnly == UNCHANGED <<latest, entries, copies>>

\* Somebody commits a version of a source split.
AdvanceSource(s) ==
  /\ latest[s] < MaxSourceVersion
  /\ latest' = [latest EXCEPT ![s] = @ + 1]
  /\ UNCHANGED <<entries, copies, hydrator>>

StartHydrate(j, root) ==
  /\ hydrator[j].step = "idle"
  /\ hydrator' = [hydrator EXCEPT ![j].root = root, ![j].step = "resolve"]
  /\ HydrateOnly

\* prepare_data: resolve_latest_versions reads the splits one after the
\* other; pins come from the configuration.
ResolveVersion(j) ==
  LET me == hydrator[j]
      version == IF me.root.pinned THEN PinnedVersion ELSE latest[me.split]
  IN  /\ me.step = "resolve"
      /\ me.split <= NumSplits
      /\ hydrator' = [hydrator EXCEPT ![j].versions[me.split] = version,
                        ![j].split = me.split + 1,
                        ![j].step = IF me.split = NumSplits THEN "select" ELSE "resolve"]
      /\ HydrateOnly

\* _resolve_cache_alias: an alias of a copy that does not fit raises.
FollowAlias(j) ==
  LET me == hydrator[j]
      target == entries[me.root]
  IN  IF CoversAll(target, me.root, me.versions) THEN HSelect(j, target) ELSE HDie(j)

\* _select_compatible_dataset_root
SelectRoot(j) ==
  LET me == hydrator[j]
      fitting == {r \in Candidates(me.root) : CoversAll(r, me.root, me.versions)}
  IN  /\ me.step = "select"
      /\ \/ entries[me.root] \notin {NoRoot, me.root} /\ FollowAlias(j)
         \/ entries[me.root] = me.root /\ HSelect(j, me.root)
         \/ entries[me.root] = NoRoot /\ fitting = {} /\ HSelect(j, me.root)
         \/ /\ entries[me.root] = NoRoot
            /\ \E r \in fitting :
                 hydrator' = [hydrator EXCEPT ![j].selected = r, ![j].step = "alias"]
      /\ HydrateOnly

\* _publish_cache_alias: symlink_to succeeds, or somebody was faster.
PublishCacheAlias(j) ==
  LET me == hydrator[j]
  IN  /\ me.step = "alias"
      /\ \/ /\ entries[me.root] = NoRoot
            /\ entries' = [entries EXCEPT ![me.root] = me.selected]
            /\ IF CoversAll(me.selected, me.root, me.versions)
               THEN HSelect(j, me.selected) ELSE HDie(j)
         \/ /\ entries[me.root] = me.root
            /\ HSelect(j, me.root) /\ UNCHANGED entries
         \/ /\ entries[me.root] \notin {NoRoot, me.root}
            /\ FollowAlias(j) /\ UNCHANGED entries
      /\ UNCHANGED <<latest, copies>>

\* materialize_lance_subset: an existing copy is reused or refused, else one
\* is written to a directory of its own under the root.
LookForCopy(j) ==
  LET me == hydrator[j]
      dataset == copies[Real(me.selected)][me.split]
  IN  /\ me.step = "look"
      /\ \/ /\ dataset # NoDataset
            /\ IF Reusable(dataset, me.root, me.versions[me.split]) THEN HNextSplit(j) ELSE HDie(j)
            /\ UNCHANGED entries
         \/ /\ dataset = NoDataset
            /\ entries' = [entries EXCEPT ![me.selected] = Real(me.selected)]
            /\ HStep(j, "publish")
      /\ UNCHANGED <<latest, copies>>

\* _write_materialized_snapshot ends: the copy is renamed into place; when
\* a peer's is there the rename fails and the winner's is reused or refused.
PublishCopy(j) ==
  LET me == hydrator[j]
      root == Real(me.selected)
      winner == copies[root][me.split]
  IN  /\ me.step = "publish"
      /\ \/ /\ winner = NoDataset
            /\ copies' = [copies EXCEPT ![root][me.split] =
                            [version |-> me.versions[me.split],
                             columns |-> me.root.columns, pinned |-> me.root.pinned]]
            /\ HNextSplit(j)
         \/ /\ winner # NoDataset
            /\ IF Reusable(winner, me.root, me.versions[me.split]) THEN HNextSplit(j) ELSE HDie(j)
            /\ UNCHANGED copies
      /\ UNCHANGED <<latest, entries>>

\* setup on a rank that has not prepared: it follows the directory, or an
\* alias if that fits the latest versions, the only ones it knows.
SetupPeer(j) ==
  LET me == hydrator[j]
      target == entries[me.root]
      versions == [s \in Splits |-> IF me.root.pinned THEN PinnedVersion ELSE latest[s]]
  IN  /\ me.step = "setup"
      /\ IF target = me.root \/ CoversAll(target, me.root, versions)
         THEN hydrator' = [hydrator EXCEPT ![j].peer = target, ![j].step = "train"]
         ELSE HDie(j)
      /\ HydrateOnly

\* The job ends.
EndHydrate(j) == hydrator[j].step = "train" /\ HDie(j) /\ HydrateOnly

HydrateCrash(j) ==
  /\ hydrator[j].step \notin {"idle", "train"}
  /\ HDie(j)
  /\ UNCHANGED <<latest, entries, copies>>

HydrateNext ==
  \/ \E s \in Splits : AdvanceSource(s)
  \/ \E j \in Hydrators :
       \/ \E r \in Requests : StartHydrate(j, r)
       \/ ResolveVersion(j) \/ SelectRoot(j) \/ PublishCacheAlias(j) \/ LookForCopy(j)
       \/ PublishCopy(j) \/ SetupPeer(j) \/ EndHydrate(j) \/ HydrateCrash(j)

HydrateSpec == HydrateInit /\ [][HydrateNext]_hydrateVars

-----------------------------------------------------------------------------
\* A job that trains reads, split by split, the versions it settled on at its
\* start and at least its columns, on every rank from one directory, whatever
\* peers wrote, renamed or aliased meanwhile and however the source moved.
TrainsOnWhatItResolved ==
  \A j \in Hydrators :
    LET me == hydrator[j]
    IN  me.step = "train" =>
          /\ me.peer = Real(me.selected)
          /\ \A s \in Splits :
               LET dataset == copies[me.peer][s]
               IN  /\ dataset # NoDataset
                   /\ dataset.version = me.versions[s]
                   /\ me.root.columns \subseteq dataset.columns
=============================================================================

----------------------------- MODULE GrowingLocal -----------------------------
(***************************************************************************)
(* A training host that follows a growing branch.  Materializer processes  *)
(* (materialize_ready, materialize_and_activate) copy what the ready       *)
(* snapshot has gained into one local dataset, under a file lock, and      *)
(* record the pair of remote and local version in active.json.  The ranks  *)
(* of a training job (LanceVSTDataModule) read that record, adopt it when  *)
(* all of them read the same one, write it into checkpoints and resume     *)
(* from it.                                                                *)
(*                                                                         *)
(* A ready snapshot is named by its high watermark: ranges are never empty *)
(* (GrowthLog).  Reading the remote branch cannot go wrong, since its      *)
(* versions never change.  A materializer dies between any two steps, and  *)
(* the lock is released with it; a job dies as a whole.                    *)
(***************************************************************************)
EXTENDS GrowthLog

CONSTANTS
  Materializers, \* daemons on one local root
  NoHolder,      \* the lock is free
  Ranks,         \* ranks of the job, 0 the one that broadcasts
  NoRecord,      \* active.json does not exist; no snapshot adopted
  NoCheckpoint,  \* the job has not saved yet
  MaxLocalFaults \* bound: faults of a behaviour

ASSUME HostAssumption == NoHolder \notin Materializers /\ 0 \in Ranks /\ MaxLocalFaults \in Nat

\* The branch is the environment: published (GrowthLog) grows at any time.
VARIABLES
  directory,     \* train.lance exists
  locals,        \* versions of the local dataset
  copied,        \* snapshots whose metadata is in the local root
  active,        \* active.json
  holder,        \* who holds the materialize lock
  daemon,        \* the materializers
  job,           \* the training job
  candidate,     \* what each rank has read in this round
  adopted,       \* _growing_snapshot of each rank
  checkpoint,    \* growing_active_snapshot of the saved state
  localFaults

hostVars == <<directory, locals, copied, active, holder>>
jobVars == <<job, candidate, adopted, checkpoint>>
localVars == <<published, hostVars, daemon, jobVars, localFaults>>

\* A local version: the snapshot it was copied from (its transaction's
\* source property), and the fragments it holds.
LocalVersion == [source : 0 .. Capacity, manifest : Manifest]

\* ActiveGrowingSnapshot
Record == [remote : 0 .. Capacity, local : 1 .. Capacity + 1]

ASSUME RecordAssumption == NoRecord \notin Record /\ NoCheckpoint \notin Record \cup {NoRecord}

\* snapshot is the watermark the daemon read from the ready tag.
Daemon == [step : {"poll", "lock", "write", "commit", "copy", "activate", "refused"},
           snapshot : 0 .. Capacity]

\* next is where the job goes on after a round of _read_active_train; skip is
\* _growing_skip_refresh_once; resumed marks the first epoch after a restore.
Job == [step : {"down", "read", "restore", "load", "train"},
        next : {"restore", "load", "train"}, skip : BOOLEAN, resumed : BOOLEAN]

LocalTypeOK ==
  /\ published \in Manifest
  /\ directory \in BOOLEAN
  /\ locals \in Seq(LocalVersion)
  /\ copied \subseteq 0 .. Capacity
  /\ active \in Record \cup {NoRecord}
  /\ holder \in Materializers \cup {NoHolder}
  /\ daemon \in [Materializers -> Daemon]
  /\ job \in Job
  /\ DOMAIN candidate \subseteq Ranks
  /\ \A r \in DOMAIN candidate : candidate[r] \in Record \cup {NoRecord}
  /\ adopted \in [Ranks -> Record \cup {NoRecord}]
  /\ checkpoint \in Record \cup {NoRecord, NoCheckpoint}
  /\ localFaults \in 0 .. MaxLocalFaults

NoneRead == [r \in {} |-> NoRecord]
IdleJob == [step |-> "down", next |-> "load", skip |-> FALSE, resumed |-> FALSE]

LocalInit ==
  /\ published = <<>>
  /\ directory = FALSE
  /\ locals = <<>>
  /\ copied = {}
  /\ active = NoRecord
  /\ holder = NoHolder
  /\ daemon = [m \in Materializers |-> [step |-> "poll", snapshot |-> 0]]
  /\ job = IdleJob
  /\ candidate = NoneRead
  /\ adopted = [r \in Ranks |-> NoRecord]
  /\ checkpoint = NoCheckpoint
  /\ localFaults = 0

LocalFault == localFaults < MaxLocalFaults /\ localFaults' = localFaults + 1

Latest == locals[Len(locals)]

\* The branch grows.  Which attempt won a position makes no difference here.
Grow ==
  /\ GrowsTo(published, published')
  /\ \A p \in DOMAIN published' : published'[p] = <<p, 1>>
  /\ UNCHANGED <<hostVars, daemon, jobVars, localFaults>>

-----------------------------------------------------------------------------
(***************************************************************************)
(* The materializers.                                                      *)
(***************************************************************************)

Proceed(m, step) == daemon' = [daemon EXCEPT ![m].step = step]

Matches(snapshot) == active # NoRecord /\ active.remote = snapshot

\* A tick reads the ready tag, before the lock, and does nothing when the
\* active record matches it.
Poll(m) ==
  /\ daemon[m].step = "poll"
  /\ ~Matches(Len(published))
  /\ daemon' = [daemon EXCEPT ![m] = [step |-> "lock", snapshot |-> Len(published)]]
  /\ UNCHANGED <<published, hostVars, jobVars, localFaults>>

UpToDate(snapshot) == active # NoRecord /\ active.remote >= snapshot

\* train.lance holds a version active.json does not name.
Unrecorded ==
  IF active = NoRecord THEN directory ELSE Len(locals) # active.local

\* It is taken over when it was copied from this very snapshot.
Resumable(snapshot) == locals # <<>> /\ Latest.source = snapshot

\* _materialize_lock, then the checks of materialize_and_activate.
Enter(m) ==
  LET snapshot == daemon[m].snapshot
  IN  /\ daemon[m].step = "lock"
      /\ holder = NoHolder
      /\ \/ /\ UpToDate(snapshot)
            /\ Proceed(m, "poll") /\ UNCHANGED holder
         \/ /\ ~UpToDate(snapshot) /\ ~Unrecorded
            /\ Proceed(m, "write") /\ holder' = m
         \/ /\ ~UpToDate(snapshot) /\ Unrecorded /\ Resumable(snapshot)
            /\ Proceed(m, "copy") /\ holder' = m
         \/ /\ ~UpToDate(snapshot) /\ Unrecorded /\ ~Resumable(snapshot)
            /\ Proceed(m, "refused") /\ UNCHANGED holder
      /\ UNCHANGED <<published, directory, locals, copied, active, jobVars, localFaults>>

\* _write_local_fragments creates train.lance with its first data file.
Write(m) ==
  /\ daemon[m].step = "write"
  /\ directory' = TRUE
  /\ Proceed(m, "commit")
  /\ UNCHANGED <<published, locals, copied, active, holder, jobVars, localFaults>>

\* _commit_local_initial, or _commit_local_append of the fragments beyond
\* those of the active record.
CommitLocal(m) ==
  LET snapshot == daemon[m].snapshot
      first == IF active = NoRecord THEN 1 ELSE active.remote + 1
      old == IF active = NoRecord THEN <<>> ELSE Latest.manifest
  IN  /\ daemon[m].step = "commit"
      /\ locals' = Append(locals, [source |-> snapshot,
                                   manifest |-> old \o SubSeq(published, first, snapshot)])
      /\ Proceed(m, "copy")
      /\ UNCHANGED <<published, directory, copied, active, holder, jobVars, localFaults>>

\* The local fragments are counted, then _copy_version_metadata.
CopyMetadata(m) ==
  /\ daemon[m].step = "copy"
  /\ Len(Latest.manifest) = daemon[m].snapshot
  /\ copied' = copied \cup {daemon[m].snapshot}
  /\ Proceed(m, "activate")
  /\ UNCHANGED <<published, directory, locals, active, holder, jobVars, localFaults>>

\* Mutant of Activate: the ready snapshot is read again for the record.
ActivateLatest(m) ==
  /\ daemon[m].step = "activate"
  /\ active' = [remote |-> Len(published), local |-> Len(locals)]
  /\ holder' = NoHolder
  /\ Proceed(m, "poll")
  /\ UNCHANGED <<published, directory, locals, copied, jobVars, localFaults>>

\* _activate replaces active.json; the lock is released.
Activate(m) ==
  /\ daemon[m].step = "activate"
  /\ active' = [remote |-> daemon[m].snapshot, local |-> Len(locals)]
  /\ holder' = NoHolder
  /\ Proceed(m, "poll")
  /\ UNCHANGED <<published, directory, locals, copied, jobVars, localFaults>>

\* A refusal ends the daemon; it is restarted.
Restart(m) ==
  /\ daemon[m].step = "refused"
  /\ Proceed(m, "poll")
  /\ UNCHANGED <<published, hostVars, jobVars, localFaults>>

DaemonCrash(m) ==
  /\ daemon[m].step \notin {"poll", "refused"}
  /\ LocalFault
  /\ holder' = IF holder = m THEN NoHolder ELSE holder
  /\ Proceed(m, "poll")
  /\ UNCHANGED <<published, directory, locals, copied, active, jobVars>>

DaemonStep(m) ==
  \/ Poll(m) \/ Enter(m) \/ Write(m) \/ CommitLocal(m) \/ CopyMetadata(m)
  \/ Activate(m) \/ Restart(m)

-----------------------------------------------------------------------------
(***************************************************************************)
(* The training job.                                                       *)
(***************************************************************************)

JobOnly == UNCHANGED <<published, hostVars, daemon>>

\* setup("fit"); a checkpoint is restored after it.
StartJob ==
  /\ job.step = "down"
  /\ job' = [IdleJob EXCEPT !.step = "read",
               !.next = IF checkpoint = NoCheckpoint THEN "load" ELSE "restore"]
  /\ JobOnly /\ UNCHANGED <<candidate, adopted, checkpoint, localFaults>>

\* _local_active_candidate: each rank reads and validates the record when it
\* gets there; a rank may fail to.
ReadActive(r) ==
  /\ job.step = "read"
  /\ r \notin DOMAIN candidate
  /\ \E c \in {active, NoRecord} :
       /\ candidate' = [q \in DOMAIN candidate \cup {r} |->
                          IF q = r THEN c ELSE candidate[q]]
       /\ IF c = active THEN UNCHANGED localFaults ELSE LocalFault
  /\ JobOnly /\ UNCHANGED <<job, adopted, checkpoint>>

\* Mutant of Selected: every rank goes by what it has read itself.
SelectedAlone(r) == candidate[r]

\* broadcast_object_list and all_gather_object: rank 0's candidate if every
\* rank has read the same one.
Selected(r) == IF \A q \in Ranks : candidate[q] = candidate[0] THEN candidate[0] ELSE NoRecord

\* _active_train_shard: the snapshot is adopted, or the prior one retained.
Adopt ==
  /\ job.step = "read"
  /\ DOMAIN candidate = Ranks
  /\ adopted' = [r \in Ranks |-> IF Selected(r) = NoRecord THEN adopted[r] ELSE Selected(r)]
  /\ candidate' = NoneRead
  /\ job' = [job EXCEPT !.step = job.next]
  /\ JobOnly /\ UNCHANGED <<checkpoint, localFaults>>

\* load_state_dict: the recorded snapshot is pinned; without one the newest
\* is read once more.
Restore ==
  /\ job.step = "restore"
  /\ adopted' = [r \in Ranks |-> checkpoint]
  /\ job' = IF checkpoint = NoRecord
            THEN [job EXCEPT !.step = "read", !.next = "load"]
            ELSE [job EXCEPT !.step = "load", !.skip = TRUE, !.resumed = TRUE]
  /\ JobOnly /\ UNCHANGED <<candidate, checkpoint, localFaults>>

\* train_dataloader: the first after a restore keeps the snapshot, any other
\* looks for a newer one (_refresh_growing_train).
LoadEpoch ==
  /\ job.step = "load"
  /\ job' = IF job.skip THEN [job EXCEPT !.step = "train", !.skip = FALSE]
            ELSE [job EXCEPT !.step = "read", !.next = "train"]
  /\ JobOnly /\ UNCHANGED <<candidate, adopted, checkpoint, localFaults>>

\* state_dict, on rank 0
SaveCheckpoint ==
  /\ job.step = "train"
  /\ checkpoint' = adopted[0]
  /\ JobOnly /\ UNCHANGED <<job, candidate, adopted, localFaults>>

\* The epoch is over; its loader is reloaded (growing_refresh_epoch_interval).
EndEpoch ==
  /\ job.step = "train"
  /\ job' = [job EXCEPT !.step = "load", !.resumed = FALSE]
  /\ JobOnly /\ UNCHANGED <<candidate, adopted, checkpoint, localFaults>>

KillJob ==
  /\ job.step # "down"
  /\ LocalFault
  /\ job' = IdleJob
  /\ candidate' = NoneRead
  /\ adopted' = [r \in Ranks |-> NoRecord]
  /\ JobOnly /\ UNCHANGED checkpoint

LocalNext ==
  \/ Grow
  \/ \E m \in Materializers : DaemonStep(m) \/ DaemonCrash(m)
  \/ StartJob \/ Adopt \/ Restore \/ LoadEpoch \/ SaveCheckpoint \/ EndEpoch \/ KillJob
  \/ \E r \in Ranks : ReadActive(r)

LocalSpec == LocalInit /\ [][LocalNext]_localVars

\* The daemons go on and are restarted.
LocalFairSpec ==
  LocalSpec /\ \A m \in Materializers : WF_localVars(DaemonStep(m))

-----------------------------------------------------------------------------
(***************************************************************************)
(* Properties.                                                             *)
(***************************************************************************)

\* r names a local version that holds exactly what the branch held when its
\* remote watermark was published, and that snapshot's metadata is there.
IsReadySnapshot(r) ==
  /\ r.local \in DOMAIN locals
  /\ locals[r.local].manifest = SubSeq(published, 1, r.remote)
  /\ r.remote \in copied

\* Whatever daemons do at once and wherever they die, active.json, what the
\* ranks train on and what a checkpoint would restore are copies of a
\* snapshot that was ready, with no fragment lost, repeated or of another.
ActiveIsReadySnapshot ==
  \A r \in {active, checkpoint} \cup {adopted[q] : q \in Ranks} :
    r \notin {NoRecord, NoCheckpoint} => IsReadySnapshot(r)

\* The ranks read active.json each on its own while daemons replace it, and
\* yet never train on two snapshots; a resumed job's first epoch is on the
\* one its checkpoint recorded.
TrainsOnOneSnapshot ==
  job.step = "train" =>
    /\ \A r \in Ranks : adopted[r] = adopted[0]
    /\ job.resumed => adopted[0] = checkpoint

\* The runbook on a crashed materializer: "Restart the daemon".  Restarted,
\* it follows the branch.
CatchesUp == []<>Matches(Len(published))
=============================================================================

------------------------------ MODULE GrowthStart ------------------------------
(***************************************************************************)
(* How a growing branch comes to be (initialize of cli/growing_lance.py,   *)
(* initialize_growing_branch): a native branch is created at a version of  *)
(* the finalized train dataset, the bounds of its growth are written into  *)
(* its metadata, the baseline's snapshot and statistics are uploaded, and  *)
(* the ready tag is set last.                                              *)
(*                                                                         *)
(* The command may die between any two of these calls, and is run again,   *)
(* with the same arguments or with others; the train dataset may have got  *)
(* new versions meanwhile (added columns), and the branch may have grown.  *)
(* As in GrowingLance one command runs at a time; a growth is two steps    *)
(* here, the append and what makes it ready.                               *)
(*                                                                         *)
(* Data left out: digests and row counts, the local copies, the run's      *)
(* completion marker.                                                      *)
(***************************************************************************)
EXTENDS Naturals

CONSTANTS
  GrowthBounds,   \* pairs of max_train_shards and num_extra_shards asked for
  NoBranch,       \* the native branch does not exist
  NoContract,     \* empty branch metadata, or no snapshot
  MaxTrain,       \* bound: versions of the train dataset
  MaxGrown        \* bound: appends to the branch

ASSUME GrowthStartAssumption == MaxTrain \in Nat \ {0} /\ MaxGrown \in Nat

VARIABLES
  train,       \* latest version of the train dataset; finalize left version 1
  widened,     \* its first version with added columns, or 0
  native,      \* the branch
  described,   \* what versions/v holds of each version
  readyTag,    \* version the ready tag names, or 0
  starter      \* the init command

startVars == <<train, widened, native, described, readyTag, starter>>

TrainVersions == 1 .. MaxTrain
BranchVersions == 1 .. MaxTrain + MaxGrown

\* The metadata of the branch; a snapshot repeats it.
Contract == [base : TrainVersions, bounds : GrowthBounds]

ASSUME NoContractAssumption == NoContract \notin Contract

Sidecars == {"stats", "welford"}
Undescribed == [snapshot |-> NoContract, sidecars |-> {}]
DescribedBy(c) == [snapshot |-> c, sidecars |-> Sidecars]

\* The versions of a branch go on from its baseline's.
Branch == [base : TrainVersions, head : BranchVersions, contract : Contract \cup {NoContract}]

ASSUME NoBranchAssumption == NoBranch \notin Branch

StarterSteps == {"idle", "check", "branch", "contract", "snapshot", "stats", "welford", "tag"}
IdleStarter == [step |-> "idle", contract |-> NoContract]

StartTypeOK ==
  /\ train \in TrainVersions /\ widened \in 0 .. train
  /\ native = NoBranch \/ native \in Branch
  /\ described \in [BranchVersions -> [snapshot : Contract \cup {NoContract},
                                       sidecars : SUBSET Sidecars]]
  /\ readyTag \in 0 .. MaxTrain + MaxGrown
  /\ starter \in [step : StarterSteps, contract : Contract \cup {NoContract}]

StartInit ==
  /\ train = 1 /\ widened = 0
  /\ native = NoBranch
  /\ described = [v \in BranchVersions |-> Undescribed]
  /\ readyTag = 0
  /\ starter = IdleStarter

-----------------------------------------------------------------------------
(***************************************************************************)
(* The init command.                                                       *)
(***************************************************************************)
StarterAt(step) == starter' = [starter EXCEPT !.step = step]
StarterStops == starter' = IdleStarter    \* an exit, an exception or a crash
DatasetOnly == UNCHANGED <<train, widened>>

\* A version is given, or the latest one is taken for the baseline.
BeginStart ==
  /\ starter.step = "idle"
  /\ \E version \in 1 .. train, b \in GrowthBounds :
       starter' = [step |-> "check", contract |-> [base |-> version, bounds |-> b]]
  /\ UNCHANGED <<native, described, readyTag>> /\ DatasetOnly

\* A baseline with added columns is refused: shards to come do not have them.
CheckBaseline ==
  /\ starter.step = "check"
  /\ IF widened # 0 /\ widened <= starter.contract.base THEN StarterStops ELSE StarterAt("branch")
  /\ UNCHANGED <<native, described, readyTag>> /\ DatasetOnly

CreateBranch ==
  /\ starter.step = "branch"
  /\ native = NoBranch
  /\ native' = [base |-> starter.contract.base, head |-> starter.contract.base,
                contract |-> NoContract]
  /\ StarterAt("contract")
  /\ UNCHANGED <<described, readyTag>> /\ DatasetOnly

\* The branch is there, at the same baseline, and has not been appended to.
OwnBaseline ==
  /\ native # NoBranch
  /\ native.base = starter.contract.base
  /\ native.head = starter.contract.base

\* Mutant of ResumeBranch: whatever its metadata says.
ResumeAnyBranch ==
  /\ starter.step = "branch"
  /\ OwnBaseline
  /\ StarterAt(IF native.contract = NoContract THEN "contract" ELSE "snapshot")
  /\ UNCHANGED <<native, described, readyTag>> /\ DatasetOnly

\* _create_or_resume_branch: one whose metadata is empty was left by a crash
\* and is completed, one whose metadata is the same is taken up.
ResumeBranch ==
  /\ starter.step = "branch"
  /\ OwnBaseline
  /\ \/ native.contract = NoContract /\ StarterAt("contract")
     \/ native.contract = starter.contract /\ StarterAt("snapshot")
  /\ UNCHANGED <<native, described, readyTag>> /\ DatasetOnly

\* "already exists with a different growing contract", "already advanced"
RefuseBranch ==
  /\ starter.step = "branch"
  /\ native # NoBranch
  /\ ~OwnBaseline \/ native.contract \notin {NoContract, starter.contract}
  /\ StarterStops
  /\ UNCHANGED <<native, described, readyTag>> /\ DatasetOnly

\* replace_metadata
WriteContract ==
  /\ starter.step = "contract"
  /\ native' = [native EXCEPT !.contract = starter.contract]
  /\ StarterAt("snapshot")
  /\ UNCHANGED <<described, readyTag>> /\ DatasetOnly

\* _publish_metadata, one upload after the other.
UploadSnapshot ==
  /\ starter.step = "snapshot"
  /\ described' = [described EXCEPT ![starter.contract.base].snapshot = starter.contract]
  /\ StarterAt("stats")
  /\ UNCHANGED <<native, readyTag>> /\ DatasetOnly

UploadSidecar ==
  /\ starter.step \in Sidecars
  /\ described' = [described EXCEPT ![starter.contract.base].sidecars = @ \cup {starter.step}]
  /\ StarterAt(IF starter.step = "stats" THEN "welford" ELSE "tag")
  /\ UNCHANGED <<native, readyTag>> /\ DatasetOnly

\* _set_ready_tag, to the version the branch had when it was looked at.
SetTag ==
  /\ starter.step = "tag"
  /\ readyTag' = starter.contract.base
  /\ StarterStops
  /\ UNCHANGED <<native, described>> /\ DatasetOnly

StarterCrash ==
  /\ starter.step # "idle"
  /\ StarterStops
  /\ UNCHANGED <<native, described, readyTag>> /\ DatasetOnly

-----------------------------------------------------------------------------
(***************************************************************************)
(* The world around it.                                                    *)
(***************************************************************************)

\* A commit on the train dataset, which may add columns.
TrainMoves ==
  /\ train < MaxTrain
  /\ train' = train + 1
  /\ widened' \in (IF widened = 0 THEN {0, train + 1} ELSE {widened})
  /\ UNCHANGED <<native, described, readyTag, starter>>

\* The growth of GrowingLance: append ...
AppendRange ==
  /\ starter.step = "idle"
  /\ readyTag # 0 /\ native.head = readyTag
  /\ native.head < native.base + MaxGrown
  /\ native' = [native EXCEPT !.head = @ + 1]
  /\ UNCHANGED <<described, readyTag, starter>> /\ DatasetOnly

\* ... and readiness: the next snapshot has the bounds of the one it follows.
ReadyRange ==
  /\ starter.step = "idle"
  /\ readyTag # 0 /\ native.head = readyTag + 1
  /\ described' = [described EXCEPT ![native.head] = described[readyTag]]
  /\ readyTag' = native.head
  /\ UNCHANGED <<native, starter>> /\ DatasetOnly

StartNext ==
  \/ BeginStart \/ CheckBaseline \/ CreateBranch \/ ResumeBranch \/ RefuseBranch
  \/ WriteContract \/ UploadSnapshot \/ UploadSidecar \/ SetTag \/ StarterCrash
  \/ TrainMoves \/ AppendRange \/ ReadyRange

StartSpec == StartInit /\ [][StartNext]_startVars

-----------------------------------------------------------------------------
(***************************************************************************)
(* Property.                                                               *)
(***************************************************************************)

\* However often init died and with what arguments it was run again: a branch
\* whose ready tag is set is described completely, by the contract in its own
\* metadata (growth takes its bounds from the snapshot, not from there), its
\* baseline has the columns of the specification, and no run of init has moved
\* the tag back behind what had become ready.
ReadyHasItsContract ==
  readyTag # 0 =>
    /\ native # NoBranch /\ readyTag \in native.base .. native.head
    /\ native.head <= readyTag + 1
    /\ native.contract # NoContract /\ native.contract.base = native.base
    /\ described[readyTag] = DescribedBy(native.contract)
    /\ widened = 0 \/ native.base < widened
=============================================================================

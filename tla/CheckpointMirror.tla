--------------------------- MODULE CheckpointMirror ---------------------------
(***************************************************************************)
(* Recovery of a training run (utils/callbacks.py, utils/resume.py).  A    *)
(* launch saves its last checkpoint in its own directory and, at most      *)
(* hooks that follow, mirrors a revision it has not mirrored yet; after    *)
(* MaxAttempts failures it waits for the next revision.  A launch that      *)
(* fails saves once more, for the uploader's hook on exceptions to mirror. *)
(* The next launch starts from the newest checkpoint beside its own        *)
(* directory or, if there is none, from the newest mirror.                 *)
(*                                                                         *)
(* Launches follow each other on any host, crash at any step, and a host   *)
(* may lose its disk.  Modification times on a disk may be equal, those of *)
(* the object store grow.  Saving a file is one step (external: Lightning).*)
(*                                                                         *)
(* Data left out: weights; configurations and run ids, which only tell     *)
(* other runs' checkpoints apart.                                          *)
(***************************************************************************)
EXTENDS Naturals

CONSTANTS
  Hosts,
  NoSave, NoFit,
  MaxAttempts,   \* _MAX_UPLOAD_ATTEMPTS
  MaxFits,       \* bound: launches
  MaxSteps       \* bound: training steps, over all launches

VARIABLES
  disks,      \* checkpoint of each launch on each host
  mirrors,    \* checkpoint of each launch in the object store
  fit,        \* the launch under way
  fits,       \* launches so far
  steady      \* every launch so far looked for all there was to resume

mirrorVars == <<disks, mirrors, fit, fits, steady>>

Fits == 1 .. MaxFits
Steps == 0 .. MaxSteps
\* A modification time, by its place among those of the other launches.
Times == 0 .. MaxFits

Save == [step : Steps, time : Times]

ASSUME MirrorAssumption ==
  /\ MaxAttempts \in Nat \ {0} /\ MaxFits \in Nat /\ MaxSteps \in Nat
  /\ NoSave \notin Save /\ NoSave \notin Steps

\* _CheckpointRevision, by its save token: the step of the last save, one of
\* other weights included.  No two saves have the same.
Revision == Steps

\* Where a hook of the uploader runs.
Hooks == {"hook", "ending", "failing"}

\* began is the step the launch started from; deferred says that a save waits
\* for validation.
Fit == [host : Hosts, phase : {"start", "train", "ended"} \cup Hooks, began : Steps,
        step : Steps, token : Steps, deferred : BOOLEAN,
        uploaded : Revision \cup {NoSave}, pending : Revision \cup {NoSave},
        attempts : 0 .. MaxAttempts]

MirrorTypeOK ==
  /\ disks \in [Hosts -> [Fits -> Save \cup {NoSave}]]
  /\ mirrors \in [Fits -> Save \cup {NoSave}]
  /\ fit \in Fit \cup {NoFit}
  /\ fits \in 0 .. MaxFits
  /\ steady \in BOOLEAN

MirrorInit ==
  /\ disks = [h \in Hosts |-> [l \in Fits |-> NoSave]]
  /\ mirrors = [l \in Fits |-> NoSave]
  /\ fit = NoFit
  /\ fits = 0
  /\ steady = TRUE

Present(saves) == {l \in Fits : saves[l] # NoSave}

\* A file written now is as late as the others, or later than all of them.
LatestTime(saves) ==
  CHOOSE t \in Times :
    /\ \A l \in Present(saves) \ {fits} : saves[l].time <= t
    /\ t = 0 \/ \E l \in Present(saves) \ {fits} : saves[l].time = t

-----------------------------------------------------------------------------
(***************************************************************************)
(* A launch looks for a checkpoint.                                        *)
(***************************************************************************)

\* Mutant of NewestOf: the first one listed.
FirstOf(saves) == CHOOSE l \in Present(saves) : \A k \in Present(saves) : l <= k

\* The latest modification, the later directory among equals.
NewestOf(saves) ==
  CHOOSE l \in Present(saves) : \A k \in Present(saves) :
    \/ saves[l].time > saves[k].time
    \/ saves[l].time = saves[k].time /\ l >= k

\* reached: the object store can be listed and read.
Discovered(h, reached) ==
  IF Present(disks[h]) # {} THEN disks[h][NewestOf(disks[h])].step
  ELSE IF reached /\ Present(mirrors) # {} THEN mirrors[NewestOf(mirrors)].step
  ELSE 0

FitFrom(h, step) ==
  [host |-> h, phase |-> "start", began |-> step, step |-> step, token |-> 0, deferred |-> FALSE,
   uploaded |-> NoSave, pending |-> NoSave, attempts |-> 0]

\* What the next launch will not see: checkpoints of other hosts, mirrors when
\* the store is not reached.
Overlooks(h, reached) ==
  \/ \E g \in Hosts \ {h} : Present(disks[g]) # {}
  \/ Present(disks[h]) = {} /\ ~reached /\ Present(mirrors) # {}

\* _apply_auto_resume, with training.resume auto; require raises when nothing
\* is found, and no launch follows.
LaunchFit(h, reached) ==
  /\ fit = NoFit /\ fits < MaxFits
  /\ fits' = fits + 1
  /\ fit' = FitFrom(h, Discovered(h, reached))
  /\ steady' = (steady /\ ~Overlooks(h, reached))
  /\ UNCHANGED <<disks, mirrors>>

-----------------------------------------------------------------------------
(***************************************************************************)
(* Training and its hooks; the uploader's hook follows each.               *)
(***************************************************************************)

InPhase(phases) == fit # NoFit /\ fit.phase \in phases

Last == disks[fit.host][fits]
CurrentRevision == fit.token

\* The writer (external: Lightning's ModelCheckpoint) replaces the launch's
\* last checkpoint; the disk's clock may stand.
WriteLast(step) ==
  \E t \in {LatestTime(disks[fit.host]), LatestTime(disks[fit.host]) + 1} :
    disks' = [disks EXCEPT ![fit.host][fits] = [step |-> step, time |-> t]]

\* A batch, and at the cadence the recovery save.
TrainBatch ==
  /\ InPhase({"start", "train"}) /\ fit.step < MaxSteps
  /\ \/ /\ WriteLast(fit.step + 1)
        /\ fit' = [fit EXCEPT !.step = @ + 1, !.token = fit.step + 1, !.deferred = TRUE,
                              !.phase = "hook"]
     \/ fit' = [fit EXCEPT !.step = @ + 1, !.phase = "hook"] /\ UNCHANGED disks
  /\ UNCHANGED <<mirrors, fits, steady>>

\* Validation ranks monitored weights if a save was deferred to it: the token
\* moves, the last checkpoint does not.
ValidateFit ==
  /\ InPhase({"train"})
  /\ fit' = [fit EXCEPT !.phase = "hook", !.deferred = FALSE,
                        !.token = IF fit.deferred THEN fit.step ELSE @]
  /\ UNCHANGED <<disks, mirrors, fits, steady>>

\* The writer's own hook at the end comes before the uploader's: it saves what
\* it has not saved yet, or leaves the disk alone.
SaveOnLeaving(hook) ==
  /\ fit.token # fit.step
  /\ WriteLast(fit.step)
  /\ fit' = [fit EXCEPT !.phase = hook, !.token = fit.step]

LeaveUnsaved(hook) == fit' = [fit EXCEPT !.phase = hook] /\ UNCHANGED disks

\* on_train_end: a last checkpoint there is already is not replaced.
FinishFit ==
  /\ InPhase({"start", "train"})
  /\ \/ LeaveUnsaved("ending")
     \/ Last = NoSave /\ SaveOnLeaving("ending")
  /\ UNCHANGED <<mirrors, fits, steady>>

\* Mutant of FailFit: the uploader has no hook for exceptions.
FailUnmirrored ==
  /\ InPhase({"start", "train", "hook", "ending"})
  /\ \/ SaveOnLeaving("ended")
     \/ (fit.token = fit.step \/ fit.phase = "start") /\ LeaveUnsaved("ended")
  /\ UNCHANGED <<mirrors, fits, steady>>

\* on_exception, with save_on_exception: the step reached is saved unless it
\* was already, or the launch failed before training (the sanity check).
FailFit ==
  /\ InPhase({"start", "train", "hook", "ending"})
  /\ \/ SaveOnLeaving("failing")
     \/ (fit.token = fit.step \/ fit.phase = "start") /\ LeaveUnsaved("failing")
  /\ UNCHANGED <<mirrors, fits, steady>>

AfterHook == IF fit.phase = "hook" THEN "train" ELSE "ended"

\* Mutant of Spent: one attempt too many.
SpentLater(f) == f.pending = CurrentRevision /\ f.attempts > MaxAttempts

\* _maybe_upload: nothing saved, mirrored already, or no attempt left.
Spent(f) == f.pending = CurrentRevision /\ f.attempts >= MaxAttempts
SkipUpload ==
  /\ InPhase(Hooks)
  /\ \/ Last = NoSave
     \/ Last # NoSave /\ (fit.uploaded = CurrentRevision \/ Spent(fit))
  /\ fit' = [fit EXCEPT !.phase = AfterHook]
  /\ UNCHANGED <<disks, mirrors, fits, steady>>

\* A new revision starts counting again.
Attempted ==
  [fit EXCEPT !.phase = AfterHook, !.pending = CurrentRevision,
              !.attempts = IF fit.pending = CurrentRevision THEN @ + 1 ELSE 1]

TryUpload ==
  /\ InPhase(Hooks)
  /\ Last # NoSave /\ fit.uploaded # CurrentRevision /\ ~Spent(fit)
  /\ \/ /\ mirrors' = [mirrors EXCEPT ![fits] = [step |-> Last.step, time |-> LatestTime(mirrors) + 1]]
        /\ fit' = [Attempted EXCEPT !.uploaded = CurrentRevision]
     \/ fit' = Attempted /\ UNCHANGED mirrors
  /\ UNCHANGED <<disks, fits, steady>>

\* A crash, or the launch is over.
FitEnds ==
  /\ fit # NoFit
  /\ fit' = NoFit
  /\ UNCHANGED <<disks, mirrors, fits, steady>>

\* The disk is lost, with the launch that ran on it.
DiskLost(h) ==
  /\ fit = NoFit
  /\ Present(disks[h]) # {}
  /\ disks' = [disks EXCEPT ![h] = [l \in Fits |-> NoSave]]
  /\ UNCHANGED <<mirrors, fit, fits, steady>>

MirrorNext ==
  \/ \E h \in Hosts :
       (\E reached \in BOOLEAN : LaunchFit(h, reached)) \/ DiskLost(h)
  \/ TrainBatch \/ ValidateFit \/ FinishFit \/ FailFit
  \/ SkipUpload \/ TryUpload \/ FitEnds

MirrorSpec == MirrorInit /\ [][MirrorNext]_mirrorVars

-----------------------------------------------------------------------------
\* A chain of launches that overlooked nothing goes on from the furthest
\* checkpoint there is on its host and in the object store, whatever crashed
\* and whichever disk was lost; and a launch that ended, by an exception
\* too, leaves its last checkpoint mirrored unless an upload of that very
\* revision failed.
ResumesTheFurthest ==
  InPhase({"start"}) /\ steady =>
    /\ \A l \in Present(disks[fit.host]) : disks[fit.host][l].step <= fit.began
    /\ \A l \in Present(mirrors) : mirrors[l].step <= fit.began

MirrorFollows ==
  InPhase({"ended"}) => (Last # NoSave =>
    \/ mirrors[fits] # NoSave /\ mirrors[fits].step = Last.step
    \/ fit.pending = CurrentRevision /\ fit.uploaded # CurrentRevision)

ProgressIsKept == ResumesTheFurthest /\ MirrorFollows
=============================================================================

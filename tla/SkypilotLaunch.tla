---------------------------- MODULE SkypilotLaunch ----------------------------
(***************************************************************************)
(* A launch of worker ranks as managed jobs (pipeline/skypilot_launch.py). *)
(* A thread per rank submits its job and, when the launch tails, follows   *)
(* its log to the end; the main thread collects the results.  A launch     *)
(* that tails cancels every job at the end, an interrupted one once its    *)
(* threads have ended; a detached launch cancels the jobs of the ranks     *)
(* whose submission raised.  A cancel that fails is swallowed.             *)
(*                                                                         *)
(* External: the service, which serves a request at any time after it was  *)
(* sent, also after the client got an error for it.                        *)
(***************************************************************************)
EXTENDS Naturals

CONSTANT LaunchRanks

ASSUME LaunchAssumption == LaunchRanks # {}

VARIABLES
  launcher,    \* the main thread
  rankThread,  \* what each rank's thread is doing
  rcs,         \* _run_workers' result per rank
  asked,       \* the request of each rank, at the service
  managed,     \* the job of each rank, at the service
  cancels      \* the cancel of each rank's job

launchVars == <<launcher, rankThread, rcs, asked, managed, cancels>>

LaunchTypeOK ==
  /\ launcher \in [tail : BOOLEAN,
                   phase : {"collect", "interrupted", "cancel", "ended"},
                   outcome : {"none", "succeeded", "failed", "interrupted"}]
  /\ rankThread \in [LaunchRanks -> {"submit", "submitted", "tail", "ok", "bad", "raised"}]
  /\ rcs \in [LaunchRanks -> {"unset", "ok", "bad", "raised"}]
  /\ asked \in [LaunchRanks -> {"no", "sent", "served", "refused"}]
  /\ managed \in [LaunchRanks -> {"none", "live", "succeeded", "failed", "cancelled"}]
  /\ cancels \in [LaunchRanks -> {"no", "due", "done", "swallowed"}]

LaunchInit ==
  /\ \E t \in BOOLEAN : launcher = [tail |-> t, phase |-> "collect", outcome |-> "none"]
  /\ rankThread = [r \in LaunchRanks |-> "submit"]
  /\ rcs = [r \in LaunchRanks |-> "unset"]
  /\ asked = [r \in LaunchRanks |-> "no"]
  /\ managed = [r \in LaunchRanks |-> "none"]
  /\ cancels = [r \in LaunchRanks |-> "no"]

-----------------------------------------------------------------------------
(***************************************************************************)
(* The service.                                                            *)
(***************************************************************************)

Serve(r) ==
  /\ asked[r] = "sent"
  /\ \/ /\ asked' = [asked EXCEPT ![r] = "served"]
        /\ managed' = [managed EXCEPT ![r] = "live"]
     \/ asked' = [asked EXCEPT ![r] = "refused"] /\ UNCHANGED managed
  /\ UNCHANGED <<launcher, rankThread, rcs, cancels>>

JobEnds(r) ==
  /\ managed[r] = "live"
  /\ \E end \in {"succeeded", "failed"} : managed' = [managed EXCEPT ![r] = end]
  /\ UNCHANGED <<launcher, rankThread, rcs, asked, cancels>>

-----------------------------------------------------------------------------
(***************************************************************************)
(* The thread of a rank: _launch_one_rank, then tail_logs.                 *)
(***************************************************************************)

ThreadGoes(r, to) ==
  /\ rankThread' = [rankThread EXCEPT ![r] = to]
  /\ UNCHANGED <<launcher, rcs, managed, cancels>>

Submit(r) ==
  /\ rankThread[r] = "submit"
  /\ asked' = [asked EXCEPT ![r] = "sent"]
  /\ ThreadGoes(r, "submitted")

Submitted(r) ==
  /\ rankThread[r] = "submitted" /\ asked[r] = "served"
  /\ ThreadGoes(r, IF launcher.tail THEN "tail" ELSE "ok")
  /\ UNCHANGED asked

\* An error, the service's or on the way, or no job id in the answer.
ThreadRaises(r) ==
  /\ rankThread[r] \in {"submit", "submitted", "tail"}
  /\ ThreadGoes(r, "raised")
  /\ UNCHANGED asked

TailEnds(r) ==
  /\ rankThread[r] = "tail" /\ managed[r] # "live"
  /\ ThreadGoes(r, IF managed[r] = "succeeded" THEN "ok" ELSE "bad")
  /\ UNCHANGED asked

-----------------------------------------------------------------------------
(***************************************************************************)
(* The main thread.                                                        *)
(***************************************************************************)

Ended(r) == rankThread[r] \in {"ok", "bad", "raised"}

Collect(r) ==
  /\ launcher.phase = "collect"
  /\ Ended(r) /\ rcs[r] = "unset"
  /\ rcs' = [rcs EXCEPT ![r] = rankThread[r]]
  /\ UNCHANGED <<launcher, rankThread, asked, managed, cancels>>

InterruptLaunch ==
  /\ launcher.phase = "collect"
  /\ launcher' = [launcher EXCEPT !.phase = "interrupted"]
  /\ UNCHANGED <<rankThread, rcs, asked, managed, cancels>>

\* Mutant of ToCancel: only what was collected as failed.
ToCancelCollected == {r \in LaunchRanks : rcs[r] \in {"bad", "raised"}}

\* The finally of _run_workers_tail; failed_jobs of _run_workers_detached,
\* which an interrupt leaves out.
ToCancel ==
  IF launcher.tail THEN LaunchRanks
  ELSE IF launcher.phase = "interrupted" THEN {}
  ELSE {r \in LaunchRanks : rcs[r] = "raised"}

\* The executor waits for its threads, interrupted or not.
StartCancelling ==
  /\ \A r \in LaunchRanks : Ended(r)
  /\ \/ launcher.phase = "interrupted"
     \/ launcher.phase = "collect" /\ \A r \in LaunchRanks : rcs[r] # "unset"
  /\ cancels' = [r \in LaunchRanks |-> IF r \in ToCancel THEN "due" ELSE "no"]
  /\ launcher' = [launcher EXCEPT !.phase = "cancel",
       !.outcome = IF launcher.phase = "interrupted" THEN "interrupted"
                   ELSE IF \A r \in LaunchRanks : rcs[r] = "ok" THEN "succeeded"
                   ELSE "failed"]
  /\ UNCHANGED <<rankThread, rcs, asked, managed>>

\* _cancel_job; the service knows no job of a request it has not served.
CancelJob(r) ==
  /\ launcher.phase = "cancel" /\ cancels[r] = "due"
  /\ \/ /\ managed[r] = "live"
        /\ managed' = [managed EXCEPT ![r] = "cancelled"]
        /\ cancels' = [cancels EXCEPT ![r] = "done"]
     \/ cancels' = [cancels EXCEPT ![r] = "swallowed"] /\ UNCHANGED managed
  /\ UNCHANGED <<launcher, rankThread, rcs, asked>>

EndLaunch ==
  /\ launcher.phase = "cancel"
  /\ \A r \in LaunchRanks : cancels[r] # "due"
  /\ launcher' = [launcher EXCEPT !.phase = "ended"]
  /\ UNCHANGED <<rankThread, rcs, asked, managed, cancels>>

LaunchNext ==
  \/ \E r \in LaunchRanks :
       Serve(r) \/ JobEnds(r) \/ Submit(r) \/ Submitted(r) \/ ThreadRaises(r) \/ TailEnds(r)
         \/ Collect(r) \/ CancelJob(r)
  \/ InterruptLaunch \/ StartCancelling \/ EndLaunch

LaunchSpec == LaunchInit /\ [][LaunchNext]_launchVars

-----------------------------------------------------------------------------
\* A launch reports success only if every job succeeded or, detached, was
\* taken by the service.  What it leaves running is what it reported as
\* detached, or a job whose cancel failed; an interrupted detached launch
\* leaves everything.  It never cancels a job it reported as running.
LeavesWhatItReports ==
  launcher.phase = "ended" =>
    \A r \in LaunchRanks :
      /\ launcher.outcome = "succeeded" =>
           IF launcher.tail THEN managed[r] = "succeeded" ELSE asked[r] = "served"
      /\ managed[r] = "live" =>
           \/ cancels[r] = "swallowed"
           \/ ~launcher.tail /\ (launcher.outcome = "interrupted" \/ rcs[r] = "ok")
      /\ managed[r] = "cancelled" => launcher.tail \/ rcs[r] = "raised"
=============================================================================

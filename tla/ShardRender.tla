----------------------------- MODULE ShardRender -----------------------------
(***************************************************************************)
(* One shard's journey through a worker (_render_one_owned_shard of        *)
(* cli/generate_dataset.py) and the staging area it writes to              *)
(* (Staging).                                                              *)
(*                                                                         *)
(* A job probes the staging prefix, and unless the shard is staged already *)
(* it opens a new attempt, renders into the worker's directory, and stages *)
(* the attempt object by object, the .valid marker last.  Any number of    *)
(* jobs, of one worker or of several, may be at work on a shard at once;   *)
(* the dispatch modules decide when that happens.                          *)
(*                                                                         *)
(* Data left out: rejection counts, logged metrics and the subprocess's    *)
(* output.                                                                 *)
(***************************************************************************)
EXTENDS Staging

CONSTANTS
  Owners,        \* worker processes
  Slots,         \* render threads of a worker; one for the serial loop
  MaxRetries,    \* spec.render.max_retries
  RetainLocal    \* spec.render.retain_local_shards

ASSUME MaxRetriesAssumption == MaxRetries \in Nat
ASSUME RetainLocalAssumption == RetainLocal \in BOOLEAN

VARIABLES
  job,       \* [Owners -> [Slots -> the render the slot is working on]]
  local      \* work_dir/shard.filename of each worker: the attempt rendered there

renderVars == <<job, local, staged>>

\* What the slot does next; the last three wait for the dispatcher.
Steps == {"free", "probe", "marker", "render", "fragment", "stats", "sidecar",
          "valid", "cleanup", "rendered", "skipped", "failed"}

Succeeded == {"rendered", "skipped"}
Finished == Succeeded \cup {"failed"}

Job == [step : Steps, shard : Shards \cup {NoShard},
        attempt : Attempts \cup {NoAttempt}, tries : 0 .. MaxRetries]

RenderTypeOK ==
  /\ job \in [Owners -> [Slots -> Job]]
  /\ local \in [Owners -> [Shards -> Attempts \cup {NoAttempt}]]
  /\ staged \in [Attempts -> Attempt]

FreeJob == [step |-> "free", shard |-> NoShard, attempt |-> NoAttempt, tries |-> 0]

RenderInit ==
  /\ job = [o \in Owners |-> [k \in Slots |-> FreeJob]]
  /\ local = [o \in Owners |-> [s \in Shards |-> NoAttempt]]
  /\ staged = [a \in Attempts |-> UnusedAttempt]

-----------------------------------------------------------------------------
(***************************************************************************)
(* The steps of a job.                                                     *)
(***************************************************************************)
Working(o, k) == job[o][k].step \notin {"free"} \cup Finished

\* Slot k of worker o moves to its next step.
Goto(o, k, step) == job' = [job EXCEPT ![o][k].step = step]

\* Object obj of slot k's attempt is uploaded.
Upload(o, k, obj) ==
  staged' = [staged EXCEPT ![job[o][k].attempt].objects = @ \cup {obj}]

\* The dispatcher hands shard s to a free slot.
Submit(o, k, s) ==
  /\ job[o][k].step = "free"
  /\ job' = [job EXCEPT ![o][k] = [FreeJob EXCEPT !.step = "probe", !.shard = s]]
  /\ UNCHANGED <<local, staged>>

\* The skip probe, read once before anything is written.
Probe(o, k) ==
  /\ job[o][k].step = "probe"
  /\ Goto(o, k, IF Staged(job[o][k].shard) THEN "skipped" ELSE "marker")
  /\ UNCHANGED <<local, staged>>

\* A new attempt is opened by its .rendering marker.
WriteMarker(o, k) ==
  /\ job[o][k].step = "marker"
  /\ \E a \in Attempts :
       /\ Unused(a)
       /\ \A b \in Attempts : Unused(b) => a <= b
       /\ job' = [job EXCEPT ![o][k] = [@ EXCEPT !.step = "render", !.attempt = a]]
       /\ staged' = [staged EXCEPT ![a] = [@ EXCEPT !.shard = job[o][k].shard,
                                                    !.objects = {"rendering"}]]
  /\ UNCHANGED local

\* The renderer failed with tries left.  It fails before it replaces the
\* directory, or between removing the old one and renaming the new one.
RetryRender(o, k) ==
  /\ job[o][k].step = "render"
  /\ job[o][k].tries < MaxRetries
  /\ job' = [job EXCEPT ![o][k].tries = @ + 1]
  /\ local' \in {local, [local EXCEPT ![o][job[o][k].shard] = NoAttempt]}
  /\ UNCHANGED staged

\* Mutant of Render: staging starts with the statistics.
RenderThenStats(o, k) ==
  /\ job[o][k].step = "render"
  /\ local' = [local EXCEPT ![o][job[o][k].shard] = job[o][k].attempt]
  /\ Goto(o, k, "stats")
  /\ UNCHANGED staged

\* The renderer exits 0: its output has replaced the shard's directory.
Render(o, k) ==
  /\ job[o][k].step = "render"
  /\ local' = [local EXCEPT ![o][job[o][k].shard] = job[o][k].attempt]
  /\ Goto(o, k, "fragment")
  /\ UNCHANGED staged

\* The directory slot k reads, at the time it reads it.
Input(o, k) == local[o][job[o][k].shard]

\* The validated shard is written into its split as an uncommitted fragment.
WriteFragment(o, k) ==
  /\ job[o][k].step = "fragment"
  /\ Input(o, k) # NoAttempt
  /\ LET a == job[o][k].attempt
     IN  staged' = [staged EXCEPT ![a] =
                     [staged[a] EXCEPT !.objects = @ \cup {"fragment"}, !.data = Input(o, k)]]
  /\ Goto(o, k, "stats")
  /\ UNCHANGED local

\* The directory is read again for the shard's statistics.
WriteStats(o, k) ==
  /\ job[o][k].step = "stats"
  /\ Input(o, k) # NoAttempt
  /\ LET a == job[o][k].attempt
     IN  staged' = [staged EXCEPT ![a] =
                     [staged[a] EXCEPT !.objects = @ \cup {"stats"}, !.stats = Input(o, k)]]
  /\ Goto(o, k, "sidecar")
  /\ UNCHANGED local

WriteSidecar(o, k) ==
  /\ job[o][k].step = "sidecar"
  /\ Upload(o, k, "sidecar")
  /\ Goto(o, k, "valid")
  /\ UNCHANGED local

\* The commit point of the attempt.
WriteValid(o, k) ==
  /\ job[o][k].step = "valid"
  /\ Upload(o, k, "valid")
  /\ Goto(o, k, "cleanup")
  /\ UNCHANGED local

\* The rendered directory is deleted unless it is to be retained; an error
\* while deleting is swallowed.
Cleanup(o, k) ==
  /\ job[o][k].step = "cleanup"
  /\ \/ UNCHANGED local
     \/ ~RetainLocal /\ local' = [local EXCEPT ![o][job[o][k].shard] = NoAttempt]
  /\ Goto(o, k, "rendered")
  /\ UNCHANGED staged

\* The shard's directory has gone since it was rendered: an exception.
InputMissing(o, k) ==
  /\ job[o][k].step \in {"fragment", "stats"}
  /\ Input(o, k) = NoAttempt
  /\ Goto(o, k, "failed")
  /\ UNCHANGED <<local, staged>>

\* Any other step raises: the probe, an upload, the last render try, the
\* validation of the output, the metrics row.
Fail(o, k) ==
  /\ Working(o, k)
  /\ Goto(o, k, "failed")
  /\ UNCHANGED <<local, staged>>

JobStep(o, k) ==
  \/ Probe(o, k) \/ WriteMarker(o, k) \/ RetryRender(o, k) \/ Render(o, k)
  \/ WriteFragment(o, k) \/ WriteStats(o, k) \/ WriteSidecar(o, k)
  \/ WriteValid(o, k) \/ Cleanup(o, k) \/ InputMissing(o, k)

\* The dispatcher has taken the outcome of slot k.
Release(o, k) ==
  /\ job' = [job EXCEPT ![o][k] = FreeJob]
  /\ UNCHANGED <<local, staged>>

\* The process dies.  Its directory belongs to that process alone.
Kill(o) ==
  /\ job' = [job EXCEPT ![o] = [k \in Slots |-> FreeJob]]
  /\ local' = [local EXCEPT ![o] = [s \in Shards |-> NoAttempt]]
  /\ UNCHANGED staged

-----------------------------------------------------------------------------
\* What a dispatcher may make of these steps, in any order.
RenderNext ==
  \E o \in Owners :
    \/ Kill(o)
    \/ \E k \in Slots :
         \/ JobStep(o, k) \/ Fail(o, k) \/ Release(o, k)
         \/ \E s \in Shards : Submit(o, k, s)

RenderSpec == RenderInit /\ [][RenderNext]_renderVars

-----------------------------------------------------------------------------
(***************************************************************************)
(* Properties, for any dispatcher that gives a worker one slot.            *)
(***************************************************************************)

\* A complete attempt is one render: its fragment is written, and both the
\* fragment and the statistics were read from the attempt's own output.
AttemptIsOneRender ==
  \A a \in Attempts :
    Complete(a) => /\ "fragment" \in staged[a].objects
                   /\ staged[a].data = a /\ staged[a].stats = a

\* A job reads back the directory its own renderer wrote.  shard_claims.py
\* says that a shard rendered twice because its lease ran out stays safe; a
\* serial worker keeps this, a parallel one can re-claim its own lapsed shard
\* and render it twice into one directory.
OwnInput ==
  \A o \in Owners, k \in Slots :
    job[o][k].step \in {"fragment", "stats"} => Input(o, k) = job[o][k].attempt
=============================================================================

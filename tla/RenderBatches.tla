----------------------------- MODULE RenderBatches -----------------------------
(***************************************************************************)
(* The renderer process of one shard (main of generate_vst_dataset.py,     *)
(* make_lance_dataset of writers.py).  A loop draws and renders the rows   *)
(* of the shard, rejects draws that clip, are not finite or are silent,    *)
(* and flushes the rows batch by batch into a hidden directory of its own, *)
(* which replaces the shard's directory when the loop has returned; the    *)
(* counts of rejected draws are written beside it last.                    *)
(*                                                                         *)
(* When the editor is held open (gui_toggle_cadence "always_on") the loop  *)
(* runs on a thread of its own while the main thread sits in show_editor   *)
(* (run_with_editor_held_open of core.py); the editor may be closed before *)
(* the loop is through, and the main thread waits two seconds and no more. *)
(*                                                                         *)
(* The process may be killed, or any step raise; ShardRender starts it     *)
(* again, over whatever the last one left.                                 *)
(*                                                                         *)
(* Data left out: the audio, the three kinds of rejection (one count       *)
(* stands for them), parameters given from outside, and the layout of the  *)
(* directory, compacted to one fragment before anyone else sees it.        *)
(***************************************************************************)
EXTENDS DatasetPlan, FiniteSets

CONSTANTS
  ShardJobs,     \* shards of plans the process may be asked for
  BatchRows,     \* samples_per_render_batch
  RowAttempts,   \* attempts_per_sample
  MaxRenders,    \* bound: processes started
  NoDir,         \* the shard's directory does not exist
  TornDir,       \* a directory whose removal was cut off
  NoTally,       \* there is no metrics file
  TornTally      \* a metrics file whose writing was cut off

\* The draws a row of the job may be made from, and what its directory may hold.
Draws(job) == [at : {RowDraw(job.plan, job.name, i) : i \in 0 .. job.plan.rows - 1},
               attempt : 0 .. RowAttempts - 1]
ShardRow(job) == [patch : Draws(job), debug : Draws(job)]
Directories(job) == [1 .. job.plan.rows -> ShardRow(job)]

ASSUME BatchAssumption ==
  /\ BatchRows \in Nat \ {0} /\ RowAttempts \in Nat \ {0} /\ MaxRenders \in Nat
  /\ \A job \in ShardJobs : /\ ValidPlan(job.plan) /\ job.name \in ShardNames(job.plan)
                            /\ {NoDir, TornDir} \cap Directories(job) = {}
  /\ {NoTally, TornTally} \cap Nat = {}

VARIABLES
  setting,     \* what is rendered and how
  host,        \* the main thread
  loop,        \* the render loop, and what it has counted
  hidden,      \* rows flushed to the process's own directory
  shardDir,    \* the shard's directory
  tally,       \* its metrics file
  renders      \* processes started

renderBatchVars == <<setting, host, loop, hidden, shardDir, tally, renders>>

Plan == setting.job.plan

\* When parameters are drawn, and when the editor is shown.
Settings == [job : ShardJobs, cadence : {"sample", "shard"},
             toggle : {"never", "once", "render", "always_on"}]

Over == {"off", "ok", "failed"}
HostSteps == Over \cup {"body", "editor", "join", "joined", "alive",
                         "commit", "rename", "metrics", "failing"}

\* A draw: the row's seed and index, and the attempt that was accepted.
NoPatch == [at |-> <<>>, attempt |-> 0]

IdleLoop == [state |-> "none", row |-> 0, tries |-> 0, batch |-> <<>>, start |-> 0,
             patch |-> NoPatch, warmed |-> FALSE, warmups |-> 0, rejected |-> 0]

BatchTypeOK ==
  /\ setting \in Settings
  /\ host \in HostSteps
  /\ loop.state \in {"none", "running", "returned", "raised"}
  /\ loop.row \in 0 .. Plan.rows /\ loop.start \in 0 .. Plan.rows + BatchRows
  /\ loop.tries \in 0 .. RowAttempts - 1
  /\ Len(loop.batch) < BatchRows /\ Len(hidden) + Len(loop.batch) = loop.row
  /\ loop.rejected \in 0 .. Plan.rows * (RowAttempts - 1)
  /\ shardDir \in {NoDir, TornDir} \cup Directories(setting.job)
  /\ renders \in 0 .. MaxRenders

BatchInit ==
  /\ setting \in Settings
  /\ host = "off"
  /\ loop = IdleLoop
  /\ hidden = <<>>
  /\ shardDir = NoDir
  /\ tally = NoTally
  /\ renders = 0

-----------------------------------------------------------------------------
(***************************************************************************)
(* The render loop.                                                        *)
(***************************************************************************)
LoopOnly == UNCHANGED <<setting, host, shardDir, tally, renders>>

\* The patch of the shard is drawn once and then reused.
Fixed == setting.cadence = "shard" /\ loop.patch # NoPatch

\* The attempt shows the editor: never again within a row, nor, with "once",
\* after the first row.
WarmsUp ==
  /\ loop.tries = 0
  /\ setting.toggle = "render" \/ (setting.toggle = "once" /\ ~loop.warmed)

Warmed == loop.warmups + (IF WarmsUp THEN 1 ELSE 0)

\* Mutant of Labelled: every batch is labelled from the first row on.
LabelledFromFirst(batch, start) ==
  [i \in 1 .. Len(batch) |->
     [patch |-> batch[i].patch,
      debug |-> [at |-> RowDraw(Plan, setting.job.name, i - 1),
                 attempt |-> batch[i].attempt]]]

\* _flush: a batch's rows with their provenance, counted from its start.
Labelled(batch, start) ==
  [i \in 1 .. Len(batch) |->
     [patch |-> batch[i].patch,
      debug |-> [at |-> RowDraw(Plan, setting.job.name, start + i - 1),
                 attempt |-> batch[i].attempt]]]

\* generate_sample rejects a draw and tries the next one.
RejectDraw ==
  /\ loop.state = "running" /\ ~Fixed
  /\ loop.tries + 1 < RowAttempts
  /\ loop' = [loop EXCEPT !.tries = @ + 1, !.warmups = Warmed]
  /\ LoopOnly /\ UNCHANGED hidden

\* generate_sample returns the row; a full batch, and the last one, is flushed.
AcceptRow ==
  LET drawn == [at |-> RowDraw(Plan, setting.job.name, loop.row), attempt |-> loop.tries]
      patch == IF Fixed THEN loop.patch ELSE drawn
      batch == Append(loop.batch, [patch |-> patch, attempt |-> loop.tries])
      last == loop.row + 1 = Plan.rows
      flushed == last \/ Len(batch) = BatchRows
  IN  /\ loop.state = "running"
      /\ loop' = [loop EXCEPT
           !.row = @ + 1, !.tries = 0,
           !.patch = IF setting.cadence = "shard" THEN patch ELSE NoPatch,
           !.warmups = Warmed, !.warmed = @ \/ setting.toggle = "once",
           !.rejected = @ + loop.tries,
           !.batch = IF flushed THEN <<>> ELSE batch,
           !.start = IF flushed THEN @ + BatchRows ELSE @,
           !.state = IF last THEN "returned" ELSE @]
      /\ hidden' = IF flushed THEN hidden \o Labelled(batch, loop.start) ELSE hidden
      /\ LoopOnly

\* The attempts are used up, a given patch is rejected, the plugin or the
\* flush fails.
LoopRaises ==
  /\ loop.state = "running"
  /\ \E n \in {loop.warmups, Warmed} : loop' = [loop EXCEPT !.state = "raised", !.warmups = n]
  /\ LoopOnly /\ UNCHANGED hidden

LoopStep == RejectDraw \/ AcceptRow \/ LoopRaises

-----------------------------------------------------------------------------
(***************************************************************************)
(* The main thread.                                                        *)
(***************************************************************************)
HostOnly == UNCHANGED <<setting, loop, hidden, renders>>

\* The process is started: the metrics of an earlier render are removed.
StartProcess ==
  /\ host \in Over
  /\ renders < MaxRenders
  /\ renders' = renders + 1
  /\ host' = IF setting.toggle = "always_on" THEN "editor" ELSE "body"
  /\ loop' = [IdleLoop EXCEPT !.state = "running"]
  /\ hidden' = <<>>
  /\ tally' = NoTally
  /\ UNCHANGED <<setting, shardDir>>

\* The loop was run by the main thread itself.
LoopEnds ==
  /\ host = "body"
  /\ \/ loop.state = "returned" /\ host' = "commit"
     \/ loop.state = "raised" /\ host' = "failing"
  /\ HostOnly /\ UNCHANGED <<shardDir, tally>>

\* show_editor returns, because the loop is through or for its own reasons.
EditorCloses ==
  /\ host = "editor"
  /\ host' = "join"
  /\ HostOnly /\ UNCHANGED <<shardDir, tally>>

\* The thread has ended, or the two seconds are over.
JoinEnds ==
  /\ host = "join"
  /\ host' = "joined"
  /\ HostOnly /\ UNCHANGED <<shardDir, tally>>

\* if captured: the loop's own exception is raised.
SeeCaptured ==
  /\ host = "joined"
  /\ host' = IF loop.state = "raised" THEN "failing" ELSE "alive"
  /\ HostOnly /\ UNCHANGED <<shardDir, tally>>

\* Mutant of SeeAlive: what has been rendered is taken for the result.
TakeResult ==
  /\ host = "alive"
  /\ host' = "commit"
  /\ HostOnly /\ UNCHANGED <<shardDir, tally>>

\* RenderWorkerLeaked if the thread is still alive, or has ended without a
\* result; a loop that has returned may not have left its thread yet.
SeeAlive ==
  /\ host = "alive"
  /\ \/ host' = "failing"
     \/ loop.state = "returned" /\ host' = "commit"
  /\ HostOnly /\ UNCHANGED <<shardDir, tally>>

\* The rows are committed and compacted; an old directory is removed ...
RemoveOld ==
  /\ host = "commit"
  /\ shardDir' = NoDir
  /\ host' = "rename"
  /\ HostOnly /\ UNCHANGED tally

\* ... or the removal breaks off.
RemovalBreaks ==
  /\ host = "commit"
  /\ shardDir # NoDir
  /\ shardDir' = TornDir
  /\ host' = "failing"
  /\ HostOnly /\ UNCHANGED tally

RenameHidden ==
  /\ host = "rename"
  /\ shardDir' = hidden
  /\ host' = "metrics"
  /\ HostOnly /\ UNCHANGED tally

\* The metrics file is written, and the process exits 0.
WriteTally ==
  /\ host = "metrics"
  /\ tally' = loop.rejected
  /\ host' = "ok"
  /\ HostOnly /\ UNCHANGED shardDir

WritingBreaks ==
  /\ host = "metrics"
  /\ tally' = TornTally
  /\ host' = "failing"
  /\ HostOnly /\ UNCHANGED shardDir

\* Any other step raises: no plugin, show_editor, the commit.
HostRaises ==
  /\ host \notin Over \cup {"body", "failing"}
  /\ host' = "failing"
  /\ HostOnly /\ UNCHANGED <<shardDir, tally>>

\* The process exits after an exception, or is killed; a thread that is still
\* rendering goes with it.
ProcessEnds ==
  /\ host \notin Over
  /\ host' = "failed"
  /\ loop' = IdleLoop
  /\ hidden' = <<>>
  /\ UNCHANGED <<setting, shardDir, tally, renders>>

BatchNext ==
  \/ LoopStep
  \/ StartProcess \/ LoopEnds \/ EditorCloses \/ JoinEnds \/ SeeCaptured \/ SeeAlive
  \/ RemoveOld \/ RemovalBreaks \/ RenameHidden \/ WriteTally \/ WritingBreaks
  \/ HostRaises \/ ProcessEnds

BatchSpec == BatchInit /\ [][BatchNext]_renderBatchVars

-----------------------------------------------------------------------------
(***************************************************************************)
(* Properties.                                                             *)
(***************************************************************************)

\* The directory holds each row of the shard in its place, labelled with the
\* draw it was made from; with one patch per shard that is the first row's.
HoldsTheShard(dir) ==
  /\ Len(dir) = Plan.rows
  /\ \A i \in 1 .. Plan.rows :
       /\ dir[i].debug.at = RowDraw(Plan, setting.job.name, i - 1)
       /\ dir[i].patch = IF setting.cadence = "sample" THEN dir[i].debug ELSE dir[1].debug

\* The draws rejected before a row was accepted.
RejectedDraws(dir) ==
  {d \in (DOMAIN dir) \X (0 .. RowAttempts - 1) : d[2] < dir[d[1]].debug.attempt}

RejectedIn(dir) == Cardinality(RejectedDraws(dir))

\* How often a process may show the editor for a warm-up.
WarmupsAllowed ==
  CASE setting.toggle = "once" -> 1
    [] setting.toggle = "render" -> Plan.rows
    [] OTHER -> 0

\* Whatever was killed, raised or leaked before: a shard's directory that is
\* whole holds the shard, never part of its rows or another labelling of them;
\* a metrics file counts the rejections of the directory beside it; and exit
\* code 0 means both are there.  A retried row does not show the editor again.
RendersItsShard ==
  /\ shardDir \notin {NoDir, TornDir} => HoldsTheShard(shardDir)
  /\ tally \notin {NoTally, TornTally} => tally = RejectedIn(shardDir)
  /\ host = "ok" => shardDir \notin {NoDir, TornDir} /\ tally \notin {NoTally, TornTally}
  /\ loop.warmups <= WarmupsAllowed
=============================================================================

----------------------------- MODULE GrowingLance -----------------------------
(***************************************************************************)
(* Append-only growth of a train branch (pipeline/data/growing_lance.py,   *)
(* cli/growing_lance.py).  An operator process writes down the next range  *)
(* of positions (pending.json), seeds the branch's claims table, waits     *)
(* until workers have staged every position, appends one attempt per       *)
(* position as the next version of the branch, publishes its metadata,     *)
(* moves the ready tag, and clears the request.  Workers poll the tag and  *)
(* the request and drain the claims.                                       *)
(*                                                                         *)
(* One operator command runs at a time (the runbook's one grow driver, or  *)
(* its single-step equivalents enqueue and finalize).  It may die between  *)
(* any two calls to the object store and is launched again; everything it  *)
(* knows it reads back.  Workers are as many as there are hosts.           *)
(*                                                                         *)
(* A version of the branch is its manifest: the fragments of the positions *)
(* beyond the baseline, in order.  What the deterministic identity of an   *)
(* append digests (source transaction, request, fragments) is the manifest *)
(* it would commit.                                                        *)
(*                                                                         *)
(* The claims table is ShardQueue; a worker takes a new owner name for     *)
(* each request, which nothing compares with a name that has no token.  A  *)
(* render is one step that stages a complete attempt: ShardRender is about *)
(* its parts.  Attempts on a position are numbered in the order of their   *)
(* .valid markers, the order winners are selected in.                      *)
(*                                                                         *)
(* Data left out: row counts, schemas and digests (they follow from the    *)
(* manifest), cumulative statistics, the branch's contract.                *)
(***************************************************************************)
EXTENDS GrowthRange

CONSTANTS
  Workers,     \* generate processes
  NoWorker,    \* owner of a row nobody has claimed
  NoRequest,   \* pending.json does not exist
  MaxGen,      \* bound: claims on a row before it lapses no more
  MaxFaults    \* bound: faults of a behaviour

ASSUME WorkersAssumption == NoWorker \notin Workers
ASSUME GrowFaultsAssumption == MaxFaults \in Nat /\ MaxGen \in Nat

VARIABLES
  branch,      \* manifests of versions 1, 2, ... of the native branch
  snapshots,   \* versions/v/snapshot.json: high watermark of the described versions
  ready,       \* version the ready tag names; 0 is the baseline
  pending,     \* pending.json
  completed,   \* completed/v.json: the request version v was made for
  staged,      \* number of complete attempts on each position
  unreadable,  \* attempts whose sidecar or statistics do not load
  rows, tokens,    \* the branch's claims table
  op,          \* the operator process
  worker,      \* the generate processes
  growFaults

Ready(v) == IF v = 0 THEN <<>> ELSE branch[v]

Growth == INSTANCE GrowthLog WITH published <- Ready(ready)
INSTANCE ShardQueue WITH Shards <- Positions, Owners <- Workers, NoOwner <- NoWorker

store == <<branch, snapshots, ready, pending, completed>>
staging == <<staged, unreadable>>
queue == <<rows, tokens>>
growVars == <<store, staging, queue, op, worker, growFaults>>

Versions == 0 .. Capacity

\* PendingRefreshRequest: a range bound to the snapshot it follows.
Request == [source : Versions, high : 0 .. Capacity]
RequestNext(r) == NextHigh(r.high)

ASSUME RequestAssumption == NoRequest \notin Request

Commands == {"grow", "enqueue", "finalize"}
OpSteps == {"down", "read", "enqueue", "stale", "seed", "probe", "final",
            "append", "publish", "tag", "record", "clear"}

\* version and high are the ready snapshot the process has read; then is
\* where it goes on once a request is completed.
Operator == [step : OpSteps, cmd : Commands, version : Versions,
             high : 0 .. Capacity, then : {"down", "read", "enqueue"}]

WorkerSteps == {"idle", "claim", "confirm", "render", "complete", "raised"}

\* high is the watermark of the snapshot the worker's request follows.
Worker == [step : WorkerSteps, high : 0 .. Capacity, shard : 0 .. Capacity]

IdleWorker == [step |-> "idle", high |-> 0, shard |-> 0]
DownOperator == [step |-> "down", cmd |-> "grow", version |-> 0, high |-> 0,
                 then |-> "down"]

GrowTypeOK ==
  /\ branch \in Seq(Manifest)
  /\ snapshots \in [Versions -> 0 .. Capacity]
  /\ ready \in 0 .. Len(branch) /\ Len(branch) <= Capacity
  /\ pending \in Request \cup {NoRequest}
  /\ completed \in [Versions -> Request \cup {NoRequest}]
  /\ staged \in [Positions -> 0 .. MaxTries]
  /\ unreadable \subseteq Fragment
  /\ QueueTypeOK
  /\ op \in Operator
  /\ worker \in [Workers -> Worker]
  /\ growFaults \in 0 .. MaxFaults

\* The branch has been initialized: its ready tag names the baseline.
GrowInit ==
  /\ branch = <<>>
  /\ snapshots = [v \in Versions |-> 0]
  /\ ready = 0
  /\ pending = NoRequest
  /\ completed = [v \in Versions |-> NoRequest]
  /\ staged = [p \in Positions |-> 0]
  /\ unreadable = {}
  /\ QueueInit
  /\ op = DownOperator
  /\ worker = [w \in Workers |-> IdleWorker]
  /\ growFaults = 0

GrowFault == growFaults < MaxFaults /\ growFaults' = growFaults + 1

-----------------------------------------------------------------------------
(***************************************************************************)
(* The operator.                                                           *)
(***************************************************************************)

\* The request that follows the snapshot the operator has read.
Current == [source |-> op.version, high |-> op.high]
AtCapacity == op.high = Capacity

GoTo(step) == op' = [op EXCEPT !.step = step]
Die == op' = DownOperator    \* an exit, an exception or a crash

OpOnly == UNCHANGED <<staging, queue, worker, growFaults>>

\* A command is started.
OpLaunch(cmd) ==
  /\ op.step = "down"
  /\ op' = [DownOperator EXCEPT !.step = "read", !.cmd = cmd]
  /\ OpOnly /\ UNCHANGED store

\* _ready_snapshot, then what the command does first: grow completes a
\* request whose publication already advanced the watermark
\* (_reconcile_completed_pending).
OpRead ==
  /\ op.step = "read"
  /\ op' = [op EXCEPT
       !.version = ready, !.high = snapshots[ready],
       !.step = IF op.cmd = "finalize" THEN "final"
                ELSE IF /\ op.cmd = "grow"
                        /\ pending # NoRequest
                        /\ RequestNext(pending) = snapshots[ready] THEN "record"
                ELSE "enqueue",
       !.then = IF op.cmd = "grow" THEN "enqueue" ELSE "down"]
  /\ OpOnly /\ UNCHANGED store

\* _enqueue_pending at capacity, or refused by another pending request.
OpEnqueueNothing ==
  /\ op.step = "enqueue"
  /\ \/ AtCapacity /\ IF op.cmd = "grow" THEN GoTo("stale") ELSE Die
     \/ ~AtCapacity /\ pending \notin {NoRequest, Current} /\ Die
  /\ OpOnly /\ UNCHANGED store

\* _enqueue_pending uploads the request, or finds its own.
OpEnqueue ==
  /\ op.step = "enqueue"
  /\ ~AtCapacity
  /\ pending \in {NoRequest, Current}
  /\ pending' = Current
  /\ GoTo("seed")
  /\ OpOnly /\ UNCHANGED <<branch, snapshots, ready, completed>>

\* _complete_stale_pending: at capacity a request left behind is completed.
OpStale ==
  /\ op.step = "stale"
  /\ IF pending # NoRequest /\ RequestNext(pending) = op.high
     THEN op' = [op EXCEPT !.step = "record", !.then = "down"]
     ELSE Die
  /\ OpOnly /\ UNCHANGED store

\* claims.populate(enqueue_shard_ids)
OpSeed ==
  /\ op.step = "seed"
  /\ Populate(NextRange(op.high))
  /\ IF op.cmd = "grow" THEN GoTo("probe") ELSE Die
  /\ UNCHANGED <<store, staging, worker, growFaults>>

\* _pending_fully_staged: any complete attempt counts.
OpProbe ==
  /\ op.step = "probe"
  /\ GoTo(IF \A p \in NextRange(op.high) : staged[p] > 0 THEN "final" ELSE "read")
  /\ OpOnly /\ UNCHANGED store

\* _finalize_pending re-reads the ready snapshot and the request.
OpFinal ==
  /\ op.step = "final"
  /\ LET high == snapshots[ready]
         then == IF op.cmd = "grow" THEN "read" ELSE "down"
         next == [op EXCEPT !.version = ready, !.high = high, !.then = then]
     IN  \/ high = Capacity /\ op' = [next EXCEPT !.step = "stale"]
         \/ /\ high # Capacity
            /\ pending # NoRequest
            /\ \/ /\ RequestNext(pending) = high
                  /\ op' = [next EXCEPT !.step = "record"]
               \/ /\ pending = [source |-> ready, high |-> high]
                  /\ op' = [next EXCEPT !.step = "append"]
         \/ high # Capacity /\ pending = NoRequest /\ Die
  /\ OpOnly /\ UNCHANGED store

Healthy(p) == {n \in 1 .. staged[p] : <<p, n>> \notin unreadable}

\* Mutant of Winner: damaged attempts are not skipped.
WinnerUnchecked(p) == 1

\* select_winner over the attempts that load.
Winner(p) == CHOOSE n \in Healthy(p) : \A m \in Healthy(p) : n <= m

Chosen == [i \in 1 .. NextHigh(op.high) - op.high |->
             <<op.high + i, Winner(op.high + i)>>]

\* finalize_staged_refresh: some position has no attempt that loads.
OpNoWinner ==
  /\ op.step = "append"
  /\ \E p \in NextRange(op.high) : Healthy(p) = {}
  /\ Die
  /\ OpOnly /\ UNCHANGED store

\* Mutant of OpAppend: an append that is there is not recognised.
OpAppendFresh ==
  /\ op.step = "append"
  /\ \A p \in NextRange(op.high) : Healthy(p) # {}
  /\ \/ /\ Len(branch) = op.version
        /\ branch' = Append(branch, Ready(op.version) \o Chosen)
        /\ GoTo("publish")
     \/ Len(branch) # op.version /\ Die /\ UNCHANGED branch
  /\ OpOnly /\ UNCHANGED <<snapshots, ready, pending, completed>>

\* Mutant of OpAppend: the append is committed on whatever is latest.
OpAppendAgain ==
  /\ op.step = "append"
  /\ \A p \in NextRange(op.high) : Healthy(p) # {}
  /\ Len(branch) < Capacity
  /\ branch' = Append(branch, Ready(Len(branch)) \o Chosen)
  /\ GoTo("publish")
  /\ OpOnly /\ UNCHANGED <<snapshots, ready, pending, completed>>

\* publish_growing_branch commits the append, or recognises its own from
\* before a crash by its identity.
OpAppend ==
  /\ op.step = "append"
  /\ \A p \in NextRange(op.high) : Healthy(p) # {}
  /\ \/ /\ Len(branch) = op.version
        /\ branch' = Append(branch, Ready(op.version) \o Chosen)
     \/ /\ Len(branch) = op.version + 1
        /\ branch[op.version + 1] = Ready(op.version) \o Chosen
        /\ UNCHANGED branch
  /\ GoTo("publish")
  /\ OpOnly /\ UNCHANGED <<snapshots, ready, pending, completed>>

\* Statistics and snapshot of the published version are uploaded.
OpPublish ==
  /\ op.step = "publish"
  /\ snapshots' = [snapshots EXCEPT ![Len(branch)] = NextHigh(op.high)]
  /\ GoTo("tag")
  /\ OpOnly /\ UNCHANGED <<branch, ready, pending, completed>>

\* Mutant of OpTag: the request is cleared without a record.
OpTagAndClear ==
  /\ op.step = "tag"
  /\ ready' = Len(branch)
  /\ op' = [op EXCEPT !.step = "clear", !.version = Len(branch)]
  /\ OpOnly /\ UNCHANGED <<branch, snapshots, pending, completed>>

\* _set_ready_tag
OpTag ==
  /\ op.step = "tag"
  /\ ready' = Len(branch)
  /\ op' = [op EXCEPT !.step = "record", !.version = Len(branch)]
  /\ OpOnly /\ UNCHANGED <<branch, snapshots, pending, completed>>

\* _complete_pending uploads completed/version.json ...
OpRecord ==
  /\ op.step = "record"
  /\ completed' = [completed EXCEPT ![op.version] = pending]
  /\ GoTo("clear")
  /\ OpOnly /\ UNCHANGED <<branch, snapshots, ready, pending>>

\* ... and deletes pending.json.
OpClear ==
  /\ op.step = "clear"
  /\ pending' = NoRequest
  /\ IF op.then = "down" THEN Die ELSE GoTo(op.then)
  /\ OpOnly /\ UNCHANGED <<branch, snapshots, ready, completed>>

OpCrash ==
  /\ op.step # "down"
  /\ GrowFault
  /\ Die
  /\ UNCHANGED <<store, staging, queue, worker>>

OpStep ==
  \/ OpRead \/ OpEnqueueNothing \/ OpEnqueue \/ OpStale \/ OpSeed \/ OpProbe
  \/ OpFinal \/ OpNoWinner \/ OpAppend \/ OpPublish \/ OpTag \/ OpRecord \/ OpClear

-----------------------------------------------------------------------------
(***************************************************************************)
(* The workers.                                                            *)
(***************************************************************************)

Move(w, step) == worker' = [worker EXCEPT ![w].step = step]
Stop(w, step) == worker' = [worker EXCEPT ![w] = [IdleWorker EXCEPT !.step = step]]

WorkOnly == UNCHANGED <<store, op>>

\* generate finds the request of the snapshot it has read (the tag may have
\* moved on between the two reads) and seeds its range.
Look(w) ==
  /\ worker[w].step = "idle"
  /\ pending # NoRequest
  /\ Populate(NextRange(pending.high))
  /\ worker' = [worker EXCEPT ![w] = [step |-> "claim", high |-> pending.high, shard |-> 0]]
  /\ WorkOnly /\ UNCHANGED <<staging, growFaults>>

\* The claim's conditional update wins, on a row of whatever request.
ClaimRow(w, s) ==
  /\ worker[w].step = "claim"
  /\ Take(w, s)
  /\ IF rows'[s].status = "lapsed" THEN GrowFault ELSE UNCHANGED growFaults
  /\ worker' = [worker EXCEPT ![w].step = "confirm", ![w].shard = s]
  /\ WorkOnly /\ UNCHANGED staging

\* The read-back confirms a claim on the request's range.
StartRender(w) ==
  /\ worker[w].step = "confirm"
  /\ worker[w].shard \in NextRange(worker[w].high)
  /\ Grant(w, worker[w].shard)
  /\ Move(w, "render")
  /\ WorkOnly /\ UNCHANGED <<staging, growFaults>>

\* "growing queue returned unsafe shard": the claim of another request's row
\* stays in the table.
RefuseRow(w) ==
  /\ worker[w].step = "confirm"
  /\ worker[w].shard \notin NextRange(worker[w].high)
  /\ rows[worker[w].shard].owner = w
  /\ Stop(w, "raised")
  /\ WorkOnly /\ UNCHANGED <<staging, queue, growFaults>>

\* A peer took the lapsed claim over first.
LoseRow(w) ==
  /\ worker[w].step = "confirm"
  /\ rows[worker[w].shard].owner # w
  /\ worker' = [worker EXCEPT ![w].step = "claim", ![w].shard = 0]
  /\ WorkOnly /\ UNCHANGED <<staging, queue, growFaults>>

\* render_and_upload_shard without a skip probe: one more complete attempt,
\* which may turn out unreadable.
Render(w) ==
  LET p == worker[w].shard
  IN  /\ worker[w].step = "render"
      /\ staged[p] < MaxTries
      /\ staged' = [staged EXCEPT ![p] = @ + 1]
      /\ \/ UNCHANGED <<unreadable, growFaults>>
         \/ unreadable' = unreadable \cup {<<p, staged[p] + 1>>} /\ GrowFault
      /\ Move(w, "complete")
      /\ WorkOnly /\ UNCHANGED queue

\* complete(), on a claim that is still the row's or on one taken over.
CompleteRow(w) ==
  /\ worker[w].step = "complete"
  /\ \E t \in tokens[w] :
       \/ Finish(w, t)
       \/ rows[t.shard].gen # t.gen /\ Drop(w, {t})
  /\ worker' = [worker EXCEPT ![w].step = "claim", ![w].shard = 0]
  /\ WorkOnly /\ UNCHANGED <<staging, growFaults>>

\* Nothing is claimable: generate polls again, or exits and is started again.
Drained(w) ==
  /\ worker[w].step = "claim"
  /\ \A s \in Positions : ~Claimable(rows[s])
  /\ Stop(w, "idle")
  /\ WorkOnly /\ UNCHANGED <<staging, queue, growFaults>>

WorkerCrash(w) ==
  /\ worker[w].step \notin {"idle", "raised"}
  /\ GrowFault
  /\ Stop(w, "idle")
  /\ Drop(w, tokens[w])
  /\ WorkOnly /\ UNCHANGED staging

WorkerRelaunch(w) ==
  /\ worker[w].step = "raised"
  /\ Stop(w, "idle")
  /\ WorkOnly /\ UNCHANGED <<staging, queue, growFaults>>

WorkerStep(w) ==
  \/ Look(w) \/ StartRender(w) \/ RefuseRow(w) \/ LoseRow(w)
  \/ Render(w) \/ CompleteRow(w) \/ Drained(w) \/ WorkerRelaunch(w)

\* Somebody holds, or is about to confirm, the current claim of s.
UnderWork(s) ==
  \E w \in Workers :
    \/ [shard |-> s, gen |-> rows[s].gen] \in tokens[w]
    \/ worker[w].step = "confirm" /\ worker[w].shard = s /\ rows[s].owner = w

\* A row of a published range is claimed, refused and lapses over and over.
LapseOrphan(s) ==
  /\ ~UnderWork(s)
  /\ rows[s].gen < MaxGen
  /\ Lapse({s})
  /\ UNCHANGED <<store, staging, op, worker, growFaults>>

\* A render outlives its lease.
LapseLive(s) ==
  /\ UnderWork(s)
  /\ Lapse({s})
  /\ GrowFault
  /\ UNCHANGED <<store, staging, op, worker>>

GrowNext ==
  \/ \E cmd \in Commands : OpLaunch(cmd)
  \/ OpStep \/ OpCrash
  \/ \E w \in Workers :
       \/ WorkerStep(w) \/ WorkerCrash(w)
       \/ \E s \in Positions : ClaimRow(w, s)
  \/ \E s \in Positions : LapseOrphan(s) \/ LapseLive(s)

GrowSpec == GrowInit /\ [][GrowNext]_growVars

\* The driver and the hosts are restarted and go on, leases run out, and
\* claim()'s random choice among the claimable rows does not avoid one for
\* ever.  Nothing makes a lease lapse under a worker.
GrowFairSpec ==
  /\ GrowSpec
  /\ SF_growVars(OpLaunch("grow"))
  /\ WF_growVars(OpStep)
  /\ \A w \in Workers :
       /\ WF_growVars(WorkerStep(w))
       /\ \A s \in Positions : SF_growVars(ClaimRow(w, s))
  /\ \A s \in Positions : WF_growVars(LapseOrphan(s))

-----------------------------------------------------------------------------
(***************************************************************************)
(* Properties.                                                             *)
(***************************************************************************)

\* Through crashes, relaunches and duplicate attempts the ready snapshot only
\* ever grows by the next range, one attempt per position: the append of a
\* crashed driver is neither repeated nor lost, and no other command's.
ImplementsGrowth == Growth!GrowthSpec

\* Whoever reads the ready tag finds that version described, with the
\* watermark of what it holds, and no damaged attempt in it, although damaged
\* attempts count as staged for the driver's probe.
ReadyIsWhole ==
  /\ snapshots[ready] = Len(Ready(ready))
  /\ \A p \in 1 .. Len(Ready(ready)) : Ready(ready)[p] \notin unreadable

\* Every published version's request is on record, or still pending: a crash
\* between the upload of the record and the delete loses neither.
RequestAccounted ==
  \A v \in 1 .. ready :
    LET r == IF v = ready /\ completed[v] = NoRequest THEN pending ELSE completed[v]
    IN  r # NoRequest /\ r.source = v - 1

\* A position is given up only when its row is done and no attempt loads:
\* generate never renders a done row again.
GivenUp(p) == rows[p].status = "done" /\ Healthy(p) = {}

\* The branch has reached capacity, with no request left over.
Grown ==
  \/ snapshots[ready] = Capacity /\ pending = NoRequest
  \/ \E p \in Positions : GivenUp(p)

\* Under GrowFairSpec the branch reaches its capacity and stays there, through
\* finitely many crashes, lapsed leases and damaged attempts, unless a position
\* is given up.
GrowthCompletes == <>[]Grown
=============================================================================

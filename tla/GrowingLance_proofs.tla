-------------------------- MODULE GrowingLance_proofs --------------------------
(***************************************************************************)
(* Append-only growth for any capacity, any range size and any set of      *)
(* workers: the branch implements GrowthLog, its ready version is whole,   *)
(* and no request is lost.                                                 *)
(*                                                                         *)
(* The invariant follows the operator from call to call: what it has read  *)
(* stays true until it changes it itself, since nobody else writes to the  *)
(* store, and at most one version is ahead of the ready tag.  The last     *)
(* sections are about how the branch comes to be (GrowthStart) and about   *)
(* the copies that hosts keep of its snapshots (GrowingLocal).             *)
(***************************************************************************)
EXTENDS GrowingLance, GrowthStart, GrowingLocal, SequenceTheorems, WellFoundedInduction, TLAPS

-----------------------------------------------------------------------------
(***************************************************************************)
(* Ranges and manifests.                                                   *)
(***************************************************************************)

\* The next range is not empty and stays within the capacity.
LEMMA RangeBounds ==
  ASSUME NEW h \in 0 .. Capacity
  PROVE  /\ NextHigh(h) \in h .. Capacity
         /\ h < Capacity => h < NextHigh(h)
         /\ NextRange(h) \subseteq Positions
<1>1. h \in Nat /\ h <= Capacity /\ Capacity \in Nat /\ NumExtra \in Nat /\ NumExtra > 0
  BY CapacityAssumption, NumExtraAssumption
<1>2. NextHigh(h) \in Nat /\ NextHigh(h) <= Capacity /\ h <= NextHigh(h)
  BY <1>1 DEF NextHigh
<1>3. h < Capacity => h < NextHigh(h)
  BY <1>1 DEF NextHigh
<1>4. NextRange(h) \subseteq Positions
  BY <1>1, <1>2 DEF NextRange, Positions
<1> QED
  BY <1>1, <1>2, <1>3, <1>4

\* A manifest is a sequence of at most Capacity fragments, and the other way.
LEMMA ManifestIsSeq ==
  ASSUME NEW m \in Manifest
  PROVE  m \in Seq(Fragment) /\ Len(m) \in 0 .. Capacity /\ m \in [1 .. Len(m) -> Fragment]
<1>1. PICK h \in 0 .. Capacity : m \in [1 .. h -> Fragment]
  BY DEF Manifest
<1>2. m \in Seq(Fragment)
  BY <1>1, SeqDef, CapacityAssumption
<1>3. Len(m) \in Nat /\ DOMAIN m = 1 .. Len(m)
  BY <1>2, LenProperties
<1>4. Len(m) = h
  BY <1>1, <1>3, CapacityAssumption
<1> QED
  BY <1>1, <1>2, <1>4

LEMMA SeqIsManifest ==
  ASSUME NEW m \in Seq(Fragment), Len(m) <= Capacity
  PROVE  m \in Manifest
<1>1. Len(m) \in Nat /\ m \in [1 .. Len(m) -> Fragment]
  BY LenProperties
<1>2. Len(m) \in 0 .. Capacity
  BY <1>1, CapacityAssumption
<1> QED
  BY <1>1, <1>2, Zenon DEF Manifest

\* A manifest followed by one fragment for each position of the next range.
LEMMA GrownManifest ==
  ASSUME NEW m \in Manifest, Len(m) < Capacity,
         NEW c \in [1 .. NextHigh(Len(m)) - Len(m) -> Fragment]
  PROVE  /\ m \o c \in Manifest
         /\ Len(m \o c) = NextHigh(Len(m))
         /\ \A p \in 1 .. Len(m) : (m \o c)[p] = m[p]
         /\ \A p \in Len(m) + 1 .. NextHigh(Len(m)) : (m \o c)[p] = c[p - Len(m)]
<1> DEFINE k == NextHigh(Len(m)) - Len(m)
<1>1. /\ m \in Seq(Fragment) /\ Len(m) \in 0 .. Capacity /\ Len(m) \in Nat
      /\ NextHigh(Len(m)) \in Len(m) .. Capacity /\ k \in Nat
  BY ManifestIsSeq, RangeBounds, CapacityAssumption
<1>2. c \in Seq(Fragment)
  BY <1>1, SeqDef
<1>3. Len(c) \in Nat /\ DOMAIN c = 1 .. Len(c)
  BY <1>2, LenProperties
<1>4. Len(c) = k
  BY <1>1, <1>3
<1>5. /\ m \o c \in Seq(Fragment)
      /\ Len(m \o c) = Len(m) + Len(c)
      /\ \A i \in 1 .. Len(m) + Len(c) :
           (m \o c)[i] = IF i <= Len(m) THEN m[i] ELSE c[i - Len(m)]
  BY <1>1, <1>2, ConcatProperties, Zenon
<1>6. Len(m \o c) = NextHigh(Len(m))
  BY <1>1, <1>4, <1>5
<1>7. m \o c \in Manifest
  <2>1. Len(m \o c) <= Capacity
    BY <1>1, <1>6, CapacityAssumption
  <2> QED
    BY <1>5, <2>1, SeqIsManifest
<1>8. Len(m) + Len(c) = NextHigh(Len(m))
  BY <1>1, <1>4
<1> HIDE DEF k
<1>9. \A p \in 1 .. Len(m) : (m \o c)[p] = m[p]
  BY <1>1, <1>5, <1>8, RangeBounds
<1>10. \A p \in Len(m) + 1 .. NextHigh(Len(m)) : (m \o c)[p] = c[p - Len(m)]
  BY <1>1, <1>5, <1>8
<1> QED
  BY <1>6, <1>7, <1>9, <1>10

\* The winner among attempts that load is one of them.
LEMMA WinnerIsHealthy ==
  ASSUME NEW p, staged[p] \in Nat, Healthy(p) # {}
  PROVE  Winner(p) \in Healthy(p)
<1> DEFINE H == Healthy(p)
           L == {ss \in Nat \X Nat : ss[1] < ss[2]}
<1>1. H \subseteq Nat
  BY DEF Healthy
<1>2. PICK n \in H : \A m \in H : ~ (<<m, n>> \in L)
  <2>1. IsWellFoundedOn(L, Nat)
    BY NatLessThanWellFounded DEF OpToRel
  <2> HIDE DEF L, H
  <2> QED
    BY <1>1, <2>1, WFMin DEF H
<1>3. n \in Healthy(p) /\ \A m \in Healthy(p) : n <= m
  <2>1. n \in Healthy(p) /\ n \in Nat
    BY <1>1, <1>2
  <2>2. ASSUME NEW m \in Healthy(p) PROVE n <= m
    <3>1. m \in Nat /\ ~ (<<m, n>> \in L)
      BY <1>1, <1>2, <2>2
    <3> QED
      BY <2>1, <3>1
  <2> QED
    BY <2>1, <2>2
<1> QED
  BY <1>3 DEF Winner

-----------------------------------------------------------------------------
(***************************************************************************)
(* The invariant.                                                          *)
(***************************************************************************)

\* A worker with a row in hand knows which.
WorkerOK ==
  \A w \in Workers :
    worker[w].step \in {"confirm", "render", "complete"} => worker[w].shard \in Positions

\* Every version is the one before it and its next range, in order.
VersionOK(v) ==
  /\ Ready(v) \in Manifest /\ Ready(v - 1) \in Manifest
  /\ Len(Ready(v - 1)) < Capacity
  /\ Len(Ready(v)) = NextHigh(Len(Ready(v - 1)))
  /\ v <= Len(Ready(v))
  /\ \A p \in 1 .. Len(Ready(v)) : Ready(v)[p][1] = p
  /\ \A p \in 1 .. Len(Ready(v - 1)) : Ready(v)[p] = Ready(v - 1)[p]

BranchOK == \A v \in 1 .. Len(branch) : VersionOK(v)

\* No version holds a damaged attempt or one that is not there yet.
AttemptsOK ==
  \A v \in 1 .. Len(branch) : \A p \in 1 .. Len(branch[v]) :
    branch[v][p] \notin unreadable /\ branch[v][p][2] <= staged[p]

\* The branch is at most one version ahead of the tag, whose version is
\* described, and nothing is recorded of what is not published.
TagOK ==
  /\ Len(branch) \in {ready, ready + 1}
  /\ snapshots[ready] = Len(Ready(ready))
  /\ \A v \in Versions : v > ready => completed[v] = NoRequest

\* The pending request follows the ready version, or is the one it was made
\* for.
PendingOK ==
  pending # NoRequest =>
    \/ pending.source = ready /\ pending.high = snapshots[ready] /\ pending.high < Capacity
    \/ pending.source + 1 = ready

\* What the operator has read is still so, and what it has done is done.
OperatorOK ==
  /\ op.step \in {"enqueue", "stale", "seed", "probe", "append", "publish", "tag"} =>
       op.version = ready /\ op.high = snapshots[ready]
  /\ op.step \in {"record", "clear"} =>
       /\ op.version = ready
       /\ op.then = "enqueue" => op.high = snapshots[ready]
       /\ pending # NoRequest /\ pending.source + 1 = ready
  /\ op.step \in {"append", "publish", "tag"} => op.then # "enqueue"
  /\ op.step \in {"seed", "probe", "append", "publish", "tag"} =>
       pending = Current /\ op.high < Capacity
  /\ op.step \in {"publish", "tag"} => Len(branch) = ready + 1
  /\ op.step = "tag" => snapshots[ready + 1] = Len(branch[ready + 1])
  /\ op.step = "clear" => completed[ready] # NoRequest

GrowInv ==
  /\ GrowTypeOK /\ WorkerOK
  /\ BranchOK /\ AttemptsOK
  /\ TagOK /\ PendingOK /\ OperatorOK
  /\ RequestAccounted

-----------------------------------------------------------------------------
(***************************************************************************)
(* Initially, and when only the operator moves.                            *)
(***************************************************************************)

LEMMA GrowStarts == GrowInit => GrowInv
<1> SUFFICES ASSUME GrowInit PROVE GrowInv
  OBVIOUS
<1> USE CapacityAssumption, MaxTriesAssumption, GrowFaultsAssumption DEF GrowInit, Versions
<1>1. Len(branch) = 0 /\ branch \in Seq(Manifest) /\ Ready(ready) = <<>>
  BY EmptySeq DEF Ready
<1>2. op \in Operator
  BY DEF Operator, OpSteps, Commands, DownOperator
<1>3. worker \in [Workers -> Worker]
  BY DEF Worker, WorkerSteps, IdleWorker
<1>4. QueueTypeOK
  BY DEF QueueInit, QueueTypeOK, Row, Statuses, AbsentRow
<1>5. GrowTypeOK
  BY <1>1, <1>2, <1>3, <1>4 DEF GrowTypeOK
<1>6. WorkerOK
  BY DEF WorkerOK, IdleWorker
<1>7. BranchOK /\ AttemptsOK /\ RequestAccounted
  BY <1>1 DEF BranchOK, AttemptsOK, RequestAccounted
<1>8. TagOK /\ PendingOK /\ OperatorOK
  BY <1>1, EmptySeq DEF TagOK, PendingOK, OperatorOK, DownOperator
<1> QED
  BY <1>5, <1>6, <1>7, <1>8 DEF GrowInv

\* The operator goes on without writing to the branch's store.
LEMMA OperatorMoves ==
  ASSUME GrowInv, UNCHANGED <<store, staging, worker>>, QueueTypeOK',
         growFaults' \in 0 .. MaxFaults, op' \in Operator, OperatorOK'
  PROVE  GrowInv'
<1> USE DEF GrowInv, store, staging
<1>1. GrowTypeOK'
  BY DEF GrowTypeOK
<1>2. WorkerOK' /\ BranchOK' /\ AttemptsOK' /\ RequestAccounted'
  BY DEF WorkerOK, BranchOK, VersionOK, AttemptsOK, RequestAccounted, Ready
<1>3. TagOK' /\ PendingOK'
  BY DEF TagOK, PendingOK, Ready
<1> QED
  BY <1>1, <1>2, <1>3

\* The queue keeps its types whatever is done to it.
LEMMA QueueTypes ==
  ASSUME QueueTypeOK,
         \/ UNCHANGED queue
         \/ \E S \in SUBSET Positions : Populate(S) \/ Lapse(S)
         \/ \E w \in Workers, p \in Positions : Take(w, p) \/ Grant(w, p)
         \/ \E w \in Workers : \E t \in tokens[w] : Finish(w, t)
         \/ \E w \in Workers : \E T \in SUBSET tokens[w] : Drop(w, T)
  PROVE  QueueTypeOK'
<1> USE DEF QueueTypeOK, Row, Statuses
<1>1. CASE UNCHANGED queue
  BY <1>1 DEF queue
<1>2. ASSUME NEW S \in SUBSET Positions, Populate(S) PROVE QueueTypeOK'
  BY <1>2 DEF Populate, AvailableRow, AbsentRow
<1>3. ASSUME NEW S \in SUBSET Positions, Lapse(S) PROVE QueueTypeOK'
  BY <1>3 DEF Lapse
<1>4. ASSUME NEW w \in Workers, NEW p \in Positions, Take(w, p) PROVE QueueTypeOK'
  BY <1>4 DEF Take
<1>5. ASSUME NEW w \in Workers, NEW p \in Positions, Grant(w, p) PROVE QueueTypeOK'
  <2>1. [shard |-> p, gen |-> rows[p].gen] \in Token
    BY DEF Token
  <2> QED
    BY <1>5, <2>1 DEF Grant
<1>6. ASSUME NEW w \in Workers, NEW t \in tokens[w], Finish(w, t) PROVE QueueTypeOK'
  <2>1. t.shard \in Positions
    BY DEF Token
  <2>2. [rows[t.shard] EXCEPT !.status = "done"] \in Row
    BY <2>1
  <2> QED
    BY <1>6, <2>1, <2>2 DEF Finish
<1>7. ASSUME NEW w \in Workers, NEW T \in SUBSET tokens[w], Drop(w, T) PROVE QueueTypeOK'
  BY <1>7 DEF Drop
<1> QED
  BY <1>1, <1>2, <1>3, <1>4, <1>5, <1>6, <1>7

\* The range a snapshot is followed by consists of positions.
LEMMA NextRangeInside == \A h \in 0 .. Capacity : NextRange(h) \in SUBSET Positions
  BY RangeBounds

\* The types the operator's steps rest on.
LEMMA GrowTypes ==
  ASSUME GrowInv
  PROVE  /\ op \in Operator /\ ready \in Versions /\ snapshots[ready] \in 0 .. Capacity
         /\ QueueTypeOK /\ growFaults \in 0 .. MaxFaults /\ DownOperator \in Operator
         /\ op.high \in 0 .. Capacity /\ ready \in Nat
         /\ snapshots \in [Versions -> 0 .. Capacity]
<1> USE DEF GrowInv, GrowTypeOK
<1>1. op \in Operator /\ op.high \in 0 .. Capacity
  BY DEF Operator
<1>2. ready \in Versions /\ ready \in Nat
  <2>1. Len(branch) \in Nat /\ Len(branch) <= Capacity /\ ready \in 0 .. Len(branch)
    BY LenProperties
  <2> QED
    BY <2>1, CapacityAssumption DEF Versions
<1>3. snapshots[ready] \in 0 .. Capacity
  BY <1>2
<1>4. DownOperator \in Operator
  BY CapacityAssumption DEF Operator, DownOperator, OpSteps, Commands, Versions
<1> QED
  BY <1>1, <1>2, <1>3, <1>4

LEMMA ReadsKeep ==
  ASSUME GrowInv,
         \/ \E cmd \in Commands : OpLaunch(cmd)
         \/ OpRead \/ OpEnqueueNothing \/ OpStale \/ OpSeed \/ OpProbe \/ OpFinal
         \/ OpNoWinner \/ OpCrash
  PROVE  GrowInv'
<1> DEFINE n == op'
<1>1. /\ op \in Operator /\ ready \in Versions /\ snapshots[ready] \in 0 .. Capacity
      /\ QueueTypeOK /\ growFaults \in 0 .. MaxFaults /\ DownOperator \in Operator
      /\ op.high \in 0 .. Capacity
  BY GrowTypes
<1>2. OperatorOK /\ PendingOK /\ (pending # NoRequest => pending \in Request)
  BY DEF GrowInv, GrowTypeOK
<1>3. UNCHANGED <<store, staging, worker>> /\ QueueTypeOK' /\ growFaults' \in 0 .. MaxFaults
  <2>1. CASE OpSeed
    BY <1>1, <2>1, QueueTypes, NextRangeInside DEF OpSeed
  <2>2. CASE ~OpSeed
    <3>1. UNCHANGED <<store, staging, worker, queue>>
      BY <2>2 DEF OpLaunch, OpRead, OpEnqueueNothing, OpStale, OpProbe, OpFinal, OpNoWinner,
           OpCrash, OpOnly
    <3>2. growFaults' \in 0 .. MaxFaults
      <4>1. CASE OpCrash
        BY <1>1, <4>1, GrowFaultsAssumption DEF OpCrash, GrowFault
      <4>2. CASE ~OpCrash
        BY <1>1, <2>2, <4>2 DEF OpLaunch, OpRead, OpEnqueueNothing, OpStale, OpProbe, OpFinal,
             OpNoWinner, OpOnly
      <4> QED
        BY <4>1, <4>2
    <3> QED
      BY <1>1, <3>1, <3>2, QueueTypes
  <2> QED
    BY <2>1, <2>2
<1>4. SUFFICES n \in Operator /\ OperatorOK'
  BY <1>3, OperatorMoves
<1>5. UNCHANGED <<branch, snapshots, ready, pending, completed>>
  BY <1>3 DEF store
\* A pending request whose range is published is the ready version's.
<1>6. pending # NoRequest /\ RequestNext(pending) = snapshots[ready] => pending.source + 1 = ready
  <2>1. ASSUME pending # NoRequest, pending.high = snapshots[ready], pending.high < Capacity
        PROVE  RequestNext(pending) # snapshots[ready]
    BY <1>1, <2>1, RangeBounds DEF RequestNext
  <2> QED
    BY <1>2, <2>1 DEF PendingOK
<1>7. CASE n = DownOperator
  BY <1>1, <1>7 DEF OperatorOK, DownOperator
<1>8. CASE \E cmd \in Commands : OpLaunch(cmd)
  BY ZenonT(60), <1>1, <1>8 DEF OpLaunch, OperatorOK, Operator, OpSteps, Commands, DownOperator
<1>9. CASE OpRead
  <2>1. n.version = ready /\ n.high = snapshots[ready] /\ n \in Operator
        /\ n.step \in {"final", "record", "enqueue"}
        /\ (n.step = "record" => pending # NoRequest /\ RequestNext(pending) = snapshots[ready])
    BY <1>1, <1>9 DEF OpRead, Operator, OpSteps, Commands
  <2> QED
    BY <1>5, <1>6, <2>1 DEF OperatorOK
<1>10. CASE OpEnqueueNothing /\ op' # DownOperator
  <2>1. n.version = op.version /\ n.high = op.high /\ n \in Operator
        /\ n.step = "stale" /\ op.step = "enqueue"
    BY <1>1, <1>10 DEF OpEnqueueNothing, GoTo, Die, Operator, OpSteps, Commands
  <2> QED
    BY <1>2, <1>5, <2>1 DEF OperatorOK
<1>11. CASE OpStale /\ op' # DownOperator
  <2>1. n.version = op.version /\ n.high = op.high /\ n \in Operator /\ n.then = "down"
        /\ n.step = "record" /\ op.step = "stale"
        /\ pending # NoRequest /\ RequestNext(pending) = op.high
    BY <1>1, <1>11 DEF OpStale, Die, Operator, OpSteps, Commands
  <2> QED
    BY <1>2, <1>5, <1>6, <2>1 DEF OperatorOK
<1>12. CASE OpSeed /\ op' # DownOperator
  <2>1. n.version = op.version /\ n.high = op.high /\ n \in Operator
        /\ n.step = "probe" /\ op.step = "seed"
    BY <1>1, <1>12 DEF OpSeed, GoTo, Die, Operator, OpSteps, Commands
  <2> QED
    BY <1>2, <1>5, <2>1 DEF OperatorOK, Current
<1>13. CASE OpProbe
  <2>1. n \in Operator /\ n.step \in {"final", "read"}
    BY <1>1, <1>13 DEF OpProbe, GoTo, Operator, OpSteps, Commands
  <2> QED
    BY <2>1 DEF OperatorOK
<1>14. CASE OpFinal /\ op' # DownOperator
  <2>1. n.version = ready /\ n.high = snapshots[ready] /\ n \in Operator /\ n.then # "enqueue"
        /\ n.step \in {"stale", "record", "append"}
    BY <1>1, <1>14 DEF OpFinal, Die, Operator, OpSteps, Commands
  <2>2. n.step = "record" => pending # NoRequest /\ RequestNext(pending) = snapshots[ready]
    BY <1>1, <1>14 DEF OpFinal, Die, Operator
  <2>3. n.step = "append" =>
          pending = [source |-> ready, high |-> snapshots[ready]] /\ snapshots[ready] < Capacity
    <3>1. n.step = "append" =>
            pending = [source |-> ready, high |-> snapshots[ready]] /\ snapshots[ready] # Capacity
      BY <1>1, <1>14 DEF OpFinal, Die, Operator
    <3> QED
      BY <1>1, <3>1, CapacityAssumption
  <2> QED
    BY <1>5, <1>6, <2>1, <2>2, <2>3 DEF OperatorOK, Current
<1> QED
  BY <1>7, <1>8, <1>9, <1>10, <1>11, <1>12, <1>13, <1>14
     DEF OpNoWinner, OpCrash, Die

-----------------------------------------------------------------------------
(***************************************************************************)
(* The operator's writes to the store.                                     *)
(***************************************************************************)

\* What the writes leave alone.
LEMMA WritesOnly ==
  ASSUME GrowInv, OpOnly
  PROVE  /\ UNCHANGED <<staged, unreadable, worker, growFaults, rows, tokens>>
         /\ QueueTypeOK' /\ WorkerOK'
  BY DEF GrowInv, GrowTypeOK, OpOnly, staging, queue, QueueTypeOK, WorkerOK

\* The branch is unchanged, and with it what is said of its versions.
LEMMA BranchKept ==
  ASSUME GrowInv, UNCHANGED <<branch, staged, unreadable>>
  PROVE  BranchOK' /\ AttemptsOK'
  BY DEF GrowInv, BranchOK, VersionOK, AttemptsOK, Ready

LEMMA EnqueueKeeps == ASSUME GrowInv, OpEnqueue PROVE GrowInv'
<1> DEFINE n == op'
<1> USE DEF OpEnqueue
<1>1. UNCHANGED <<branch, snapshots, ready, completed, staged, unreadable, worker, growFaults>>
      /\ QueueTypeOK' /\ WorkerOK' /\ BranchOK' /\ AttemptsOK'
  BY WritesOnly, BranchKept
<1>2. /\ op.step = "enqueue" /\ op.version = ready /\ op.high = snapshots[ready]
      /\ op \in Operator /\ op.high < Capacity /\ pending' = Current
      /\ Current = [source |-> ready, high |-> snapshots[ready]]
      /\ Current \in Request /\ Current # NoRequest
  BY GrowTypes, CapacityAssumption, RequestAssumption
     DEF GrowInv, OperatorOK, AtCapacity, Current, Request
<1>3. n = [op EXCEPT !.step = "seed"]
  BY DEF GoTo
<1>4. /\ n \in Operator /\ n.step = "seed" /\ n.version = op.version /\ n.high = op.high
  BY <1>2, <1>3 DEF Operator, OpSteps
<1>5. GrowTypeOK'
  BY <1>1, <1>2, <1>4 DEF GrowInv, GrowTypeOK
<1>6. TagOK' /\ PendingOK'
  BY <1>1, <1>2 DEF GrowInv, TagOK, PendingOK, Ready
<1>7. OperatorOK'
  BY <1>1, <1>2, <1>4 DEF OperatorOK, Current
<1>8. RequestAccounted'
  BY <1>1, <1>2 DEF GrowInv, RequestAccounted
<1> QED
  BY <1>1, <1>5, <1>6, <1>7, <1>8 DEF GrowInv

LEMMA PublishKeeps == ASSUME GrowInv, OpPublish PROVE GrowInv'
<1> DEFINE n == op'
<1> USE DEF OpPublish
<1>1. UNCHANGED <<branch, pending, ready, completed, staged, unreadable, worker, growFaults>>
      /\ QueueTypeOK' /\ WorkerOK' /\ BranchOK' /\ AttemptsOK'
  BY WritesOnly, BranchKept
<1>2. /\ op.step = "publish" /\ op.version = ready /\ op.high = snapshots[ready]
      /\ op \in Operator /\ Len(branch) = ready + 1 /\ Len(branch) \in Versions
      /\ ready \in Versions /\ ready \in Nat
      /\ NextHigh(op.high) \in 0 .. Capacity
      /\ snapshots \in [Versions -> 0 .. Capacity]
  <2>1. op.step = "publish" /\ op \in Operator /\ ready \in Versions /\ ready \in Nat
        /\ op.high \in 0 .. Capacity /\ snapshots \in [Versions -> 0 .. Capacity]
    BY GrowTypes
  <2>2. op.version = ready /\ op.high = snapshots[ready] /\ Len(branch) = ready + 1
    BY <2>1 DEF GrowInv, OperatorOK
  <2>3. Len(branch) \in Versions
    BY <2>1, <2>2, CapacityAssumption DEF GrowInv, GrowTypeOK, Versions
  <2>4. NextHigh(op.high) \in 0 .. Capacity
    BY <2>1, RangeBounds, CapacityAssumption
  <2> QED
    BY <2>1, <2>2, <2>3, <2>4
<1>3. /\ n = [op EXCEPT !.step = "tag"]
      /\ snapshots' = [snapshots EXCEPT ![ready + 1] = NextHigh(op.high)]
  BY <1>2 DEF GoTo
<1>4. /\ n \in Operator /\ n.step = "tag" /\ n.version = op.version /\ n.high = op.high
      /\ n.then = op.then
  BY <1>2, <1>3 DEF Operator, OpSteps
<1>5. snapshots'[ready] = snapshots[ready] /\ snapshots'[ready + 1] = NextHigh(op.high)
      /\ snapshots' \in [Versions -> 0 .. Capacity]
  BY <1>2, <1>3
<1>6. GrowTypeOK'
  BY <1>1, <1>4, <1>5 DEF GrowInv, GrowTypeOK
<1>7. TagOK' /\ PendingOK'
  BY <1>1, <1>5 DEF GrowInv, TagOK, PendingOK, Ready
<1>8. Len(branch[ready + 1]) = NextHigh(op.high)
  <2>1. VersionOK(ready + 1) /\ Ready(ready + 1) = branch[ready + 1]
    BY <1>2 DEF GrowInv, BranchOK, Ready
  <2>2. Ready(ready + 1 - 1) = Ready(ready)
    BY <1>2
  <2> QED
    BY <1>2, <2>1, <2>2 DEF GrowInv, TagOK, VersionOK
<1>9. OperatorOK'
  BY <1>1, <1>2, <1>4, <1>5, <1>8 DEF GrowInv, OperatorOK, Current
<1>10. RequestAccounted'
  BY <1>1 DEF GrowInv, RequestAccounted
<1> QED
  BY <1>1, <1>6, <1>7, <1>9, <1>10 DEF GrowInv

LEMMA TagKeeps == ASSUME GrowInv, OpTag PROVE GrowInv'
<1> DEFINE n == op'
<1> USE DEF OpTag
<1>1. UNCHANGED <<branch, pending, snapshots, completed, staged, unreadable, worker, growFaults>>
      /\ QueueTypeOK' /\ WorkerOK' /\ BranchOK' /\ AttemptsOK'
  BY WritesOnly, BranchKept
<1>2. /\ op.step = "tag" /\ op \in Operator /\ op.then # "enqueue" /\ ready \in Nat
      /\ Len(branch) = ready + 1 /\ ready' = ready + 1 /\ ready + 1 \in Versions
      /\ pending = Current /\ pending # NoRequest /\ pending.source = ready
      /\ snapshots[ready + 1] = Len(branch[ready + 1])
  <2>1. op.step = "tag" /\ op \in Operator /\ ready \in Versions /\ ready \in Nat
        /\ op.high \in 0 .. Capacity
    BY GrowTypes, CapacityAssumption DEF Versions
  <2>2. op.version = ready /\ Len(branch) = ready + 1 /\ pending = Current
        /\ op.then # "enqueue" /\ snapshots[ready + 1] = Len(branch[ready + 1])
    BY <2>1 DEF GrowInv, OperatorOK
  <2>3. ready + 1 \in Versions
    BY <2>1, <2>2, CapacityAssumption DEF GrowInv, GrowTypeOK, Versions
  <2>4. Current \in Request /\ Current.source = ready
    BY <2>1, <2>2 DEF Current, Request
  <2> QED
    BY <2>1, <2>2, <2>3, <2>4, RequestAssumption
<1>3. n = [op EXCEPT !.step = "record", !.version = ready + 1]
  BY <1>2
<1>4. n \in Operator /\ n.step = "record" /\ n.version = ready + 1 /\ n.then = op.then
  BY <1>2, <1>3 DEF Operator, OpSteps
<1>5. GrowTypeOK'
  BY <1>1, <1>2, <1>4 DEF GrowInv, GrowTypeOK
<1>6. TagOK'
  BY <1>1, <1>2 DEF GrowInv, TagOK, Ready, Versions
<1>7. PendingOK'
  BY <1>1, <1>2 DEF PendingOK
<1>8. OperatorOK'
  BY <1>1, <1>2, <1>4 DEF OperatorOK
\* The request of the version now behind the tag is on record.
<1>9. RequestAccounted'
  <2>1. ASSUME NEW v \in 1 .. ready, v # ready \/ completed[ready] # NoRequest
        PROVE  completed[v] # NoRequest /\ completed[v].source = v - 1
    BY <2>1 DEF GrowInv, RequestAccounted
  <2>2. ready \in 1 .. ready => completed[ready] # NoRequest
    BY <1>2 DEF GrowInv, RequestAccounted
  <2>3. completed[ready + 1] = NoRequest
    BY <1>2 DEF GrowInv, TagOK
  <2> QED
    BY <1>1, <1>2, <2>1, <2>2, <2>3 DEF RequestAccounted
<1> QED
  BY <1>1, <1>5, <1>6, <1>7, <1>8, <1>9 DEF GrowInv

LEMMA RecordKeeps == ASSUME GrowInv, OpRecord PROVE GrowInv'
<1> DEFINE n == op'
<1> USE DEF OpRecord
<1>1. UNCHANGED <<branch, pending, snapshots, ready, staged, unreadable, worker, growFaults>>
      /\ QueueTypeOK' /\ WorkerOK' /\ BranchOK' /\ AttemptsOK'
  BY WritesOnly, BranchKept
<1>2. /\ op.step = "record" /\ op \in Operator /\ op.version = ready /\ ready \in Versions
      /\ op.then = "enqueue" => op.high = snapshots[ready]
      /\ pending # NoRequest /\ pending.source + 1 = ready /\ pending \in Request
      /\ completed \in [Versions -> Request \cup {NoRequest}]
      /\ pending.source = ready - 1 /\ ready \in Nat
  <2>1. /\ op.step = "record" /\ op \in Operator /\ op.version = ready /\ ready \in Versions
        /\ op.then = "enqueue" => op.high = snapshots[ready]
        /\ pending # NoRequest /\ pending.source + 1 = ready /\ pending \in Request
        /\ completed \in [Versions -> Request \cup {NoRequest}]
    BY GrowTypes DEF GrowInv, GrowTypeOK, OperatorOK
  <2> QED
    BY <2>1, CapacityAssumption DEF Request, Versions
<1>3. n = [op EXCEPT !.step = "clear"] /\ completed' = [completed EXCEPT ![ready] = pending]
  BY <1>2 DEF GoTo
<1>4. n \in Operator /\ n.step = "clear" /\ n.version = ready /\ n.then = op.then
      /\ n.high = op.high
  BY <1>2, <1>3 DEF Operator, OpSteps
<1>5. completed' \in [Versions -> Request \cup {NoRequest}] /\ completed'[ready] = pending
      /\ \A v \in Versions : v # ready => completed'[v] = completed[v]
  BY <1>2, <1>3
<1>6. GrowTypeOK'
  BY <1>1, <1>4, <1>5 DEF GrowInv, GrowTypeOK
<1>7. TagOK' /\ PendingOK'
  BY <1>1, <1>2, <1>5 DEF GrowInv, TagOK, PendingOK, Ready, Versions
<1>8. OperatorOK'
  BY <1>1, <1>2, <1>4, <1>5 DEF OperatorOK
<1>9. RequestAccounted'
  BY <1>1, <1>2, <1>5, CapacityAssumption DEF GrowInv, RequestAccounted, Versions
<1> QED
  BY <1>1, <1>6, <1>7, <1>8, <1>9 DEF GrowInv

LEMMA ClearKeeps == ASSUME GrowInv, OpClear PROVE GrowInv'
<1> DEFINE n == op'
<1> USE DEF OpClear
<1>1. UNCHANGED <<branch, completed, snapshots, ready, staged, unreadable, worker, growFaults>>
      /\ QueueTypeOK' /\ WorkerOK' /\ BranchOK' /\ AttemptsOK'
  BY WritesOnly, BranchKept
<1>2. /\ op.step = "clear" /\ op \in Operator /\ op.version = ready
      /\ op.then = "enqueue" => op.high = snapshots[ready]
      /\ op.then \in {"down", "read", "enqueue"}
      /\ completed[ready] # NoRequest /\ pending' = NoRequest
  BY GrowTypes DEF GrowInv, OperatorOK, Operator
<1>3. /\ n \in Operator /\ n.step = op.then
      /\ op.then # "down" => n.version = op.version /\ n.high = op.high
  BY <1>2, GrowTypes DEF GoTo, Die, DownOperator, Operator, OpSteps
<1>4. GrowTypeOK'
  BY <1>1, <1>2, <1>3 DEF GrowInv, GrowTypeOK
<1>5. TagOK' /\ PendingOK'
  BY <1>1, <1>2 DEF GrowInv, TagOK, PendingOK, Ready
<1>6. OperatorOK'
  BY <1>1, <1>2, <1>3 DEF OperatorOK
<1>7. RequestAccounted'
  BY <1>1, <1>2 DEF GrowInv, RequestAccounted
<1> QED
  BY <1>1, <1>4, <1>5, <1>6, <1>7 DEF GrowInv

\* The attempts chosen for the next range of the ready version: one for each
\* position, none damaged.
LEMMA ChosenAttempts ==
  ASSUME GrowInv, op.step = "append", \A p \in NextRange(op.high) : Healthy(p) # {}
  PROVE  /\ op.high = Len(Ready(ready)) /\ op.version = ready /\ op.high < Capacity
         /\ Ready(ready) \in Manifest /\ ready <= Len(Ready(ready))
         /\ Chosen \in [1 .. NextHigh(op.high) - op.high -> Fragment]
         /\ \A i \in 1 .. NextHigh(op.high) - op.high :
              /\ Chosen[i][1] = op.high + i
              /\ Chosen[i] \notin unreadable
              /\ Chosen[i][2] <= staged[op.high + i]
<1> DEFINE h == op.high
           k == NextHigh(h) - h
<1>1. h \in 0 .. Capacity /\ h \in Nat /\ NextHigh(h) \in h .. Capacity /\ ready \in Nat
      /\ op.version = ready /\ h = snapshots[ready] /\ h < Capacity
  <2>1. h \in 0 .. Capacity /\ ready \in Nat
    BY GrowTypes
  <2>2. op.version = ready /\ h = snapshots[ready] /\ h < Capacity
    BY DEF GrowInv, OperatorOK
  <2> QED
    BY <2>1, <2>2, RangeBounds, CapacityAssumption
<1>2. h = Len(Ready(ready))
  BY <1>1 DEF GrowInv, TagOK
<1>3. Ready(ready) \in Manifest /\ ready <= Len(Ready(ready))
  <2>1. CASE ready = 0
    <3>1. Ready(ready) = <<>>
      BY <2>1 DEF Ready
    <3>2. <<>> \in Seq(Fragment) /\ Len(<<>>) = 0
      BY EmptySeq
    <3>3. <<>> \in Manifest
      <4>1. Len(<<>>) <= Capacity
        BY <3>2, CapacityAssumption
      <4> QED
        BY <3>2, <4>1, SeqIsManifest
    <3> QED
      BY <2>1, <3>1, <3>2, <3>3
  <2>2. CASE ready # 0
    <3>1. ready \in 1 .. Len(branch)
      BY <1>1, <2>2, LenProperties DEF GrowInv, GrowTypeOK
    <3> QED
      BY <3>1 DEF GrowInv, BranchOK, VersionOK
  <2> QED
    BY <2>1, <2>2
<1>4. ASSUME NEW i \in 1 .. k
      PROVE  /\ <<h + i, Winner(h + i)>> \in Fragment
             /\ <<h + i, Winner(h + i)>> \notin unreadable
             /\ Winner(h + i) <= staged[h + i]
  <2>1. h + i \in NextRange(h) /\ h + i \in Positions
    <3>1. i \in Nat /\ 1 <= i /\ i <= NextHigh(h) - h /\ NextHigh(h) \in Nat
          /\ NextHigh(h) <= Capacity
      BY <1>1, CapacityAssumption
    <3>2. h + i \in h + 1 .. NextHigh(h) /\ h + i \in 1 .. Capacity
      BY <1>1, <3>1, CapacityAssumption
    <3> QED
      BY <3>2 DEF NextRange, Positions
  <2>2. staged[h + i] \in 0 .. MaxTries /\ staged[h + i] \in Nat
    BY <2>1, MaxTriesAssumption DEF GrowInv, GrowTypeOK
  <2>3. Winner(h + i) \in Healthy(h + i)
    BY <2>1, <2>2, WinnerIsHealthy
  <2>4. Winner(h + i) \in 1 .. staged[h + i] /\ <<h + i, Winner(h + i)>> \notin unreadable
    BY <2>3 DEF Healthy
  <2>5. Winner(h + i) \in 1 .. MaxTries
    BY <2>2, <2>4, MaxTriesAssumption
  <2> QED
    BY <2>1, <2>2, <2>4, <2>5 DEF Fragment
<1>5. Chosen \in [1 .. k -> Fragment]
  BY <1>4 DEF Chosen
<1>6. ASSUME NEW i \in 1 .. k
      PROVE  /\ Chosen[i][1] = h + i
             /\ Chosen[i] \notin unreadable
             /\ Chosen[i][2] <= staged[h + i]
  <2>1. Chosen[i] = <<h + i, Winner(h + i)>>
    BY DEF Chosen
  <2> QED
    BY <1>4, <2>1
<1> QED
  BY <1>1, <1>2, <1>3, <1>5, <1>6

\* An append keeps the branch's versions and adds the next one.
LEMMA BranchGrows ==
  ASSUME GrowInv, NEW new \in Manifest, Len(branch) = ready, ready \in Nat,
         branch' = Append(branch, new), UNCHANGED <<ready, staged, unreadable>>,
         Len(Ready(ready)) < Capacity, Ready(ready) \in Manifest,
         ready <= Len(Ready(ready)),
         Len(new) = NextHigh(Len(Ready(ready))),
         \A p \in 1 .. Len(Ready(ready)) : new[p] = Ready(ready)[p],
         \A p \in Len(Ready(ready)) + 1 .. Len(new) :
           new[p][1] = p /\ new[p] \notin unreadable /\ new[p][2] <= staged[p]
  PROVE  /\ BranchOK' /\ AttemptsOK'
         /\ branch' \in Seq(Manifest) /\ Len(branch') = ready + 1 /\ Len(branch') <= Capacity
         /\ branch'[ready + 1] = new
         /\ \A v \in 0 .. ready : Ready(v)' = Ready(v)
<1> DEFINE m == Ready(ready)
<1>1. /\ branch \in Seq(Manifest) /\ branch' \in Seq(Manifest) /\ Len(branch') = ready + 1
      /\ \A v \in 1 .. ready : branch'[v] = branch[v]
      /\ branch'[ready + 1] = new
  BY AppendProperties DEF GrowInv, GrowTypeOK
<1>2. /\ Len(m) \in Nat /\ Len(m) \in 0 .. Capacity /\ Len(new) \in Len(m) .. Capacity
      /\ Len(m) < Len(new)
  BY ManifestIsSeq, RangeBounds, CapacityAssumption
<1>3. /\ \A v \in 0 .. ready : Ready(v)' = Ready(v)
      /\ Ready(ready + 1)' = new
  BY <1>1 DEF Ready
<1>4. /\ \A p \in 1 .. Len(m) : m[p][1] = p /\ m[p] \notin unreadable /\ m[p][2] <= staged[p]
  <2>1. CASE ready = 0
    BY <2>1, EmptySeq DEF Ready
  <2>2. CASE ready # 0
    <3>1. ready \in 1 .. Len(branch) /\ m = branch[ready]
      BY <2>2 DEF Ready
    <3> QED
      BY <3>1 DEF GrowInv, BranchOK, VersionOK, AttemptsOK
  <2> QED
    BY <2>1, <2>2
<1>5. \A p \in 1 .. Len(new) : new[p][1] = p /\ new[p] \notin unreadable /\ new[p][2] <= staged[p]
  <2> SUFFICES ASSUME NEW p \in 1 .. Len(new)
               PROVE  new[p][1] = p /\ new[p] \notin unreadable /\ new[p][2] <= staged[p]
    OBVIOUS
  <2>1. CASE p \in 1 .. Len(m)
    BY <1>4, <2>1
  <2>2. CASE p \in Len(m) + 1 .. Len(new)
    BY <2>2
  <2> QED
    BY <1>2, <2>1, <2>2
<1>6. ASSUME NEW v \in 1 .. ready PROVE VersionOK(v)'
  <2>1. v \in 0 .. ready /\ v - 1 \in 0 .. ready /\ VersionOK(v)
    BY DEF GrowInv, BranchOK
  <2>2. Ready(v)' = Ready(v) /\ Ready(v - 1)' = Ready(v - 1)
    BY <1>3, <2>1
  <2> QED
    BY <2>1, <2>2 DEF VersionOK
<1>7. VersionOK(ready + 1)'
  <2>1. Ready(ready + 1 - 1)' = m
    BY <1>3
  <2>2. ready + 1 <= Len(new)
    BY <1>2
  <2> QED
    BY <1>2, <1>3, <1>5, <2>1, <2>2 DEF VersionOK
<1>8. BranchOK'
  <2>1. \A v \in 1 .. ready + 1 : v \in 1 .. ready \/ v = ready + 1
    OBVIOUS
  <2> QED
    BY <1>1, <1>6, <1>7, <2>1 DEF BranchOK
<1>9. AttemptsOK'
  <2> SUFFICES ASSUME NEW v \in 1 .. ready + 1, NEW p \in 1 .. Len(branch'[v])
               PROVE  branch'[v][p] \notin unreadable /\ branch'[v][p][2] <= staged[p]
    BY <1>1 DEF AttemptsOK
  <2>1. CASE v \in 1 .. ready
    BY <1>1, <2>1 DEF GrowInv, AttemptsOK
  <2>2. CASE v = ready + 1
    BY <1>1, <1>5, <2>2
  <2> QED
    BY <2>1, <2>2
<1>10. ready + 1 <= Capacity
  BY <1>2, CapacityAssumption
<1> QED
  BY <1>1, <1>3, <1>8, <1>9, <1>10

LEMMA AppendKeeps == ASSUME GrowInv, OpAppend PROVE GrowInv' /\ Ready(ready)' = Ready(ready)
<1> DEFINE n == op'
           m == Ready(ready)
           new == m \o Chosen
<1>1. /\ UNCHANGED <<snapshots, pending, ready, completed, staged, unreadable, worker, growFaults>>
      /\ QueueTypeOK' /\ WorkerOK'
  BY WritesOnly DEF OpAppend
<1>2. /\ op.step = "append" /\ op.high = Len(m) /\ op.version = ready /\ op.high < Capacity
      /\ m \in Manifest /\ ready <= Len(m)
      /\ Chosen \in [1 .. NextHigh(Len(m)) - Len(m) -> Fragment]
      /\ \A i \in 1 .. NextHigh(Len(m)) - Len(m) :
              /\ Chosen[i][1] = Len(m) + i
              /\ Chosen[i] \notin unreadable
              /\ Chosen[i][2] <= staged[Len(m) + i]
  BY ChosenAttempts DEF OpAppend
<1>3. ready \in Nat /\ Len(m) \in Nat /\ NextHigh(Len(m)) \in Nat /\ op \in Operator
  BY <1>2, ManifestIsSeq, RangeBounds, GrowTypes, CapacityAssumption
<1>4. /\ new \in Manifest /\ Len(new) = NextHigh(Len(m))
      /\ \A p \in 1 .. Len(m) : new[p] = m[p]
      /\ \A p \in Len(m) + 1 .. NextHigh(Len(m)) : new[p] = Chosen[p - Len(m)]
  BY <1>2, GrownManifest
<1>5. \A p \in Len(m) + 1 .. Len(new) :
        new[p][1] = p /\ new[p] \notin unreadable /\ new[p][2] <= staged[p]
  <2> SUFFICES ASSUME NEW p \in Len(m) + 1 .. NextHigh(Len(m))
               PROVE  new[p][1] = p /\ new[p] \notin unreadable /\ new[p][2] <= staged[p]
    BY <1>4
  <2>1. p - Len(m) \in 1 .. NextHigh(Len(m)) - Len(m) /\ Len(m) + (p - Len(m)) = p
    BY <1>3
  <2>2. new[p] = Chosen[p - Len(m)]
    BY <1>4
  <2> HIDE DEF m, new
  <2> QED
    BY <1>2, <2>1, <2>2
<1>6. n = [op EXCEPT !.step = "publish"]
  BY DEF OpAppend, GoTo
<1>7. /\ n \in Operator /\ n.step = "publish" /\ n.version = op.version /\ n.high = op.high
      /\ n.then = op.then
  BY <1>3, <1>6 DEF Operator, OpSteps
<1>8. /\ branch' \in Seq(Manifest) /\ Len(branch') = ready + 1 /\ Len(branch') <= Capacity
      /\ BranchOK' /\ AttemptsOK' /\ Ready(ready)' = Ready(ready)
  <2>1. CASE Len(branch) = ready /\ branch' = Append(branch, new)
    <3>1. Len(m) < Capacity
      BY <1>2
    <3> HIDE DEF new
    <3> QED
      BY <1>1, <1>2, <1>3, <1>4, <1>5, <2>1, <3>1, BranchGrows
  <2>2. CASE Len(branch) = ready + 1 /\ branch' = branch
    BY <1>1, <2>2, BranchKept DEF GrowInv, GrowTypeOK, Ready
  <2> QED
    BY <1>2, <2>1, <2>2 DEF OpAppend
<1>9. GrowTypeOK'
  BY <1>1, <1>3, <1>7, <1>8 DEF GrowInv, GrowTypeOK
<1>10. TagOK' /\ PendingOK'
  BY <1>1, <1>8 DEF GrowInv, TagOK, PendingOK
<1>11. OperatorOK'
  BY <1>1, <1>2, <1>7, <1>8 DEF GrowInv, OperatorOK, Current
<1>12. RequestAccounted'
  BY <1>1 DEF GrowInv, RequestAccounted
<1> QED
  BY <1>1, <1>8, <1>9, <1>10, <1>11, <1>12 DEF GrowInv

-----------------------------------------------------------------------------
(***************************************************************************)
(* Workers and leases.                                                     *)
(***************************************************************************)

\* Steps that leave the store, the operator and the staging area alone.
LEMMA QueueMoves ==
  ASSUME GrowInv, UNCHANGED <<store, staging, op>>, QueueTypeOK',
         growFaults' \in 0 .. MaxFaults, worker' \in [Workers -> Worker], WorkerOK'
  PROVE  GrowInv'
<1> USE DEF GrowInv, store, staging
<1>1. GrowTypeOK'
  BY DEF GrowTypeOK
<1>2. BranchOK' /\ AttemptsOK' /\ RequestAccounted'
  BY DEF BranchOK, VersionOK, AttemptsOK, RequestAccounted, Ready
<1>3. TagOK' /\ PendingOK' /\ OperatorOK'
  BY DEF TagOK, PendingOK, OperatorOK, Current, Ready
<1> QED
  BY <1>1, <1>2, <1>3

LEMMA WorkerTypes ==
  ASSUME GrowInv
  PROVE  /\ worker \in [Workers -> Worker] /\ growFaults \in 0 .. MaxFaults
         /\ \A w \in Workers : /\ IdleWorker \in Worker
                               /\ [IdleWorker EXCEPT !.step = "raised"] \in Worker
         /\ \A w \in Workers : worker[w] \in Worker
  BY CapacityAssumption DEF GrowInv, GrowTypeOK, Worker, WorkerSteps, IdleWorker

LEMMA WorkersKeep ==
  ASSUME GrowInv, NEW w \in Workers,
         \/ Look(w) \/ StartRender(w) \/ RefuseRow(w) \/ LoseRow(w) \/ CompleteRow(w)
         \/ Drained(w) \/ WorkerRelaunch(w) \/ WorkerCrash(w)
         \/ \E s \in Positions : ClaimRow(w, s)
  PROVE  GrowInv'
<1> DEFINE n == worker'[w]
<1>1. /\ worker \in [Workers -> Worker] /\ growFaults \in 0 .. MaxFaults /\ QueueTypeOK
      /\ worker[w] \in Worker /\ WorkerOK
  BY WorkerTypes DEF GrowInv, GrowTypeOK
<1>2. UNCHANGED <<store, staging, op>>
  BY DEF Look, StartRender, RefuseRow, LoseRow, CompleteRow, Drained, WorkerRelaunch,
         WorkerCrash, ClaimRow, WorkOnly
<1>3. growFaults' \in 0 .. MaxFaults
  BY <1>1, GrowFaultsAssumption
     DEF Look, StartRender, RefuseRow, LoseRow, CompleteRow, Drained, WorkerRelaunch,
         WorkerCrash, ClaimRow, GrowFault
<1>4. QueueTypeOK'
  <2>1. CASE Look(w)
    <3>1. pending \in Request
      BY <2>1 DEF Look, GrowInv, GrowTypeOK
    <3>2. NextRange(pending.high) \in SUBSET Positions
      BY <3>1, NextRangeInside DEF Request
    <3> QED
      BY <1>1, <2>1, <3>2, QueueTypes DEF Look
  <2>2. CASE StartRender(w)
    <3>1. worker[w].shard \in Positions
      BY <1>1, <2>2 DEF StartRender, WorkerOK
    <3> QED
      BY <1>1, <2>2, <3>1, QueueTypes DEF StartRender
  <2>3. CASE CompleteRow(w)
    BY <1>1, <2>3, QueueTypes DEF CompleteRow
  <2>4. CASE WorkerCrash(w)
    BY <1>1, <2>4, QueueTypes DEF WorkerCrash
  <2>5. CASE \E s \in Positions : ClaimRow(w, s)
    BY <1>1, <2>5, QueueTypes DEF ClaimRow
  <2>6. CASE RefuseRow(w) \/ LoseRow(w) \/ Drained(w) \/ WorkerRelaunch(w)
    BY <1>1, <2>6, QueueTypes DEF RefuseRow, LoseRow, Drained, WorkerRelaunch
  <2> QED
    BY <2>1, <2>2, <2>3, <2>4, <2>5, <2>6
<1>5. /\ worker' = [worker EXCEPT ![w] = n] /\ n \in Worker
      /\ n.step \in {"confirm", "render", "complete"} => n.shard \in Positions
  <2>1. CASE Look(w)
    <3>1. pending.high \in 0 .. Capacity
      BY <2>1 DEF Look, GrowInv, GrowTypeOK, Request
    <3> QED
      BY <1>1, <2>1, <3>1, CapacityAssumption DEF Look, Worker, WorkerSteps
  <2>2. CASE StartRender(w)
    BY <1>1, <2>2 DEF StartRender, Move, Worker, WorkerSteps, WorkerOK
  <2>3. CASE LoseRow(w) \/ CompleteRow(w)
    BY <1>1, <2>3, CapacityAssumption DEF LoseRow, CompleteRow, Worker, WorkerSteps
  <2>4. CASE RefuseRow(w) \/ Drained(w) \/ WorkerRelaunch(w) \/ WorkerCrash(w)
    BY <1>1, <2>4, WorkerTypes
       DEF RefuseRow, Drained, WorkerRelaunch, WorkerCrash, Stop, IdleWorker
  <2>5. ASSUME NEW s \in Positions, ClaimRow(w, s)
        PROVE  /\ worker' = [worker EXCEPT ![w] = n] /\ n \in Worker
               /\ n.step \in {"confirm", "render", "complete"} => n.shard \in Positions
    <3>1. s \in 0 .. Capacity
      BY CapacityAssumption DEF Positions
    <3> QED
      BY <1>1, <2>5, <3>1 DEF ClaimRow, Worker, WorkerSteps
  <2> QED
    BY <2>1, <2>2, <2>3, <2>4, <2>5
<1>6. worker' \in [Workers -> Worker] /\ WorkerOK'
  <2> HIDE DEF n
  <2>1. worker' \in [Workers -> Worker] /\ worker'[w] = n
        /\ \A v \in Workers \ {w} : worker'[v] = worker[v]
    BY <1>1, <1>5
  <2> QED
    BY <1>1, <1>5, <2>1 DEF WorkerOK
<1> QED
  BY <1>2, <1>3, <1>4, <1>6, QueueMoves

LEMMA LeasesKeep ==
  ASSUME GrowInv, NEW s \in Positions, LapseOrphan(s) \/ LapseLive(s)
  PROVE  GrowInv'
<1>1. UNCHANGED <<store, staging, op, worker>> /\ Lapse({s})
  BY DEF LapseOrphan, LapseLive
<1>2. growFaults' \in 0 .. MaxFaults
  BY WorkerTypes, GrowFaultsAssumption DEF LapseOrphan, LapseLive, GrowFault
<1>3. QueueTypeOK'
  BY <1>1, GrowTypes, QueueTypes
<1>4. worker' \in [Workers -> Worker] /\ WorkerOK'
  BY <1>1 DEF GrowInv, GrowTypeOK, WorkerOK
<1> QED
  BY <1>1, <1>2, <1>3, <1>4, QueueMoves

\* A new attempt is none of a version's.
LEMMA RenderKeeps == ASSUME GrowInv, NEW w \in Workers, Render(w) PROVE GrowInv'
<1> DEFINE p == worker[w].shard
<1> USE DEF Render
<1>1. /\ p \in Positions /\ staged[p] \in Nat /\ staged[p] < MaxTries
      /\ staged \in [Positions -> 0 .. MaxTries] /\ MaxTries \in Nat
      /\ worker \in [Workers -> Worker] /\ worker[w] \in Worker
  BY MaxTriesAssumption, WorkerTypes DEF GrowInv, GrowTypeOK, WorkerOK
<1>2. UNCHANGED <<branch, snapshots, ready, pending, completed, op, rows, tokens>>
  BY DEF WorkOnly, store, queue
<1>3. staged' = [staged EXCEPT ![p] = staged[p] + 1]
      /\ unreadable' \subseteq unreadable \cup {<<p, staged[p] + 1>>}
      /\ worker' = [worker EXCEPT ![w].step = "complete"]
  BY DEF Move
<1> HIDE DEF Render
<1>4. <<p, staged[p] + 1>> \in Fragment
  BY <1>1 DEF Fragment
<1>5. staged' \in [Positions -> 0 .. MaxTries] /\ unreadable' \subseteq Fragment
      /\ \A q \in Positions : staged[q] <= staged'[q]
  <2>1. unreadable' \subseteq Fragment
    BY <1>3, <1>4 DEF GrowInv, GrowTypeOK
  <2>2. staged[p] + 1 \in 0 .. MaxTries
    BY <1>1
  <2> HIDE DEF p
  <2>3. staged' \in [Positions -> 0 .. MaxTries]
    BY <1>1, <1>3, <2>2
  <2>4. ASSUME NEW q \in Positions PROVE staged[q] <= staged'[q]
    <3>1. staged[q] \in Nat
      BY <1>1
    <3> QED
      BY <1>1, <1>3, <3>1
  <2> QED
    BY <2>1, <2>3, <2>4
<1>6. worker' \in [Workers -> Worker] /\ WorkerOK'
  BY <1>1, <1>3 DEF GrowInv, WorkerOK, Worker, WorkerSteps
<1>7. growFaults' \in 0 .. MaxFaults
  BY WorkerTypes, GrowFaultsAssumption DEF Render, GrowFault
<1>8. QueueTypeOK'
  BY <1>2 DEF GrowInv, GrowTypeOK, QueueTypeOK
<1>9. GrowTypeOK'
  BY <1>2, <1>5, <1>6, <1>7, <1>8 DEF GrowInv, GrowTypeOK
<1>10. BranchOK' /\ TagOK' /\ PendingOK' /\ OperatorOK' /\ RequestAccounted'
  <2>1. BranchOK' /\ RequestAccounted'
    BY <1>2 DEF GrowInv, BranchOK, VersionOK, RequestAccounted, Ready
  <2> QED
    BY <1>2, <2>1 DEF GrowInv, TagOK, PendingOK, OperatorOK, Current, Ready
<1>11. AttemptsOK'
  <2> SUFFICES ASSUME NEW v \in 1 .. Len(branch), NEW i \in 1 .. Len(branch[v])
               PROVE  branch[v][i] \notin unreadable' /\ branch[v][i][2] <= staged'[i]
    BY <1>2 DEF AttemptsOK
  <2>1. branch[v][i] \notin unreadable /\ branch[v][i][2] <= staged[i]
    BY DEF GrowInv, AttemptsOK
  <2>2. branch[v][i] \in Fragment /\ branch[v][i][1] = i
    <3>1. Ready(v) = branch[v] /\ VersionOK(v)
      BY DEF GrowInv, BranchOK, Ready
    <3> QED
      BY <3>1, ManifestIsSeq DEF VersionOK
  <2>3. i \in Positions /\ branch[v][i][2] \in Nat
    BY <2>2, <1>1 DEF Fragment
  <2>4. branch[v][i] # <<p, staged[p] + 1>>
    BY <1>1, <2>1, <2>2, <2>3
  <2>5. staged[i] \in Nat /\ staged'[i] \in Nat /\ staged[i] <= staged'[i]
    BY <1>1, <1>5, <2>3
  <2> QED
    BY <1>3, <2>1, <2>3, <2>4, <2>5
<1> QED
  BY <1>6, <1>9, <1>10, <1>11 DEF GrowInv

-----------------------------------------------------------------------------
(***************************************************************************)
(* The theorems.                                                           *)
(***************************************************************************)

LEMMA GrowStep == GrowInv /\ [GrowNext]_growVars => GrowInv'
<1>1. ASSUME GrowInv, UNCHANGED growVars PROVE GrowInv'
  <2>1. UNCHANGED <<store, staging, op, worker, growFaults, rows, tokens>>
    BY <1>1 DEF growVars, queue
  <2>2. QueueTypeOK' /\ growFaults' \in 0 .. MaxFaults /\ worker' \in [Workers -> Worker]
        /\ WorkerOK'
    BY <1>1, <2>1 DEF GrowInv, GrowTypeOK, QueueTypeOK, WorkerOK
  <2> QED
    BY <1>1, <2>1, <2>2, QueueMoves
<1>2. ASSUME GrowInv, OpStep \/ OpCrash \/ \E cmd \in Commands : OpLaunch(cmd) PROVE GrowInv'
  BY <1>2, ReadsKeep, EnqueueKeeps, AppendKeeps, PublishKeeps, TagKeeps, RecordKeeps, ClearKeeps
     DEF OpStep
<1>3. ASSUME GrowInv, NEW w \in Workers,
             WorkerStep(w) \/ WorkerCrash(w) \/ \E s \in Positions : ClaimRow(w, s)
      PROVE  GrowInv'
  BY <1>3, WorkersKeep, RenderKeeps DEF WorkerStep
<1> QED
  BY <1>1, <1>2, <1>3, LeasesKeep DEF GrowNext

LEMMA GrowInvariance == GrowSpec => []GrowInv
  BY GrowStarts, GrowStep, PTL DEF GrowSpec

\* The state of a growing branch keeps its types, for any capacity.
THEOREM GrowthTypes == GrowSpec => []GrowTypeOK
<1>1. GrowInv => GrowTypeOK
  BY DEF GrowInv
<1> QED
  BY <1>1, GrowInvariance, PTL

\* Every published version's request is on record or pending, whenever the
\* driver died.
THEOREM RequestsAreAccounted == GrowSpec => []RequestAccounted
<1>1. GrowInv => RequestAccounted
  BY DEF GrowInv
<1> QED
  BY <1>1, GrowInvariance, PTL

\* The version the ready tag names is described and holds no damaged attempt.
THEOREM ReadyVersionIsWhole == GrowSpec => []ReadyIsWhole
<1>1. ASSUME GrowInv PROVE ReadyIsWhole
  <2>1. snapshots[ready] = Len(Ready(ready))
    BY <1>1 DEF GrowInv, TagOK
  <2>2. CASE ready = 0
    BY <2>1, <2>2, EmptySeq DEF ReadyIsWhole, Ready
  <2>3. CASE ready # 0
    <3>1. ready \in 1 .. Len(branch) /\ Ready(ready) = branch[ready]
      BY <1>1, <2>3, LenProperties DEF GrowInv, GrowTypeOK, Ready
    <3> QED
      BY <1>1, <2>1, <3>1 DEF GrowInv, AttemptsOK, ReadyIsWhole
  <2> QED
    BY <2>2, <2>3
<1> QED
  BY <1>1, GrowInvariance, PTL

\* A step of the branch is a growth by the next range, or none.
LEMMA TagGrows ==
  ASSUME GrowInv, OpTag
  PROVE  Growth!GrowthNext
<1> DEFINE m == Ready(ready)
           n == Ready(ready + 1)
<1>1. /\ branch' = branch /\ ready \in Nat /\ Len(branch) = ready + 1 /\ ready' = ready + 1
  BY GrowTypes DEF OpTag, GrowInv, OperatorOK
<1>2. m' = n
  BY <1>1 DEF Ready
<1>3. /\ m \in Manifest /\ n \in Manifest /\ Len(m) < Capacity /\ Len(n) = NextHigh(Len(m))
      /\ \A p \in 1 .. Len(n) : n[p][1] = p
      /\ \A p \in 1 .. Len(m) : n[p] = m[p]
  <2>1. VersionOK(ready + 1) /\ Ready((ready + 1) - 1) = m
    BY <1>1 DEF GrowInv, BranchOK
  <2> HIDE DEF m
  <2> QED
    BY <2>1 DEF VersionOK
<1> HIDE DEF m, n
<1>4. /\ Len(m) \in 0 .. Capacity /\ DOMAIN m = 1 .. Len(m)
      /\ n \in [1 .. NextHigh(Len(m)) -> Fragment] /\ DOMAIN n = 1 .. Len(n)
      /\ Len(m) \in Nat /\ Len(m) <= Len(n) /\ Len(n) \in Nat
  BY <1>3, ManifestIsSeq, RangeBounds, CapacityAssumption
<1>5. Growth!InOrder(n) /\ Growth!Extends(n, m)
  BY <1>3, <1>4 DEF Growth!InOrder, Growth!Extends
<1>6. Growth!GrowsTo(m, n)
  <2>1. Growth!NextHigh(Len(m)) = NextHigh(Len(m)) /\ Growth!Fragment = Fragment
    BY DEF Growth!NextHigh, NextHigh, Growth!Fragment, Fragment, Growth!Positions, Positions
  <2> QED
    BY <1>3, <1>4, <1>5, <2>1, Zenon DEF Growth!GrowsTo
<1> QED
  BY <1>2, <1>6 DEF Growth!GrowthNext, m

LEMMA OthersKeepReady ==
  ASSUME GrowInv, GrowNext, ~OpTag
  PROVE  Ready(ready)' = Ready(ready)
<1>1. CASE OpAppend
  BY <1>1, AppendKeeps
<1>2. CASE ~OpAppend
  <2>1. UNCHANGED <<branch, ready>>
    BY <1>2 DEF GrowNext, OpLaunch, OpStep, OpRead, OpEnqueueNothing, OpEnqueue, OpStale, OpSeed,
         OpProbe, OpFinal, OpNoWinner, OpPublish, OpRecord, OpClear, OpCrash,
         WorkerStep, WorkerCrash, Look, ClaimRow, StartRender, RefuseRow, LoseRow, Render,
         CompleteRow, Drained, WorkerRelaunch, LapseOrphan, LapseLive, WorkOnly, store
  <2> QED
    BY SMTT(30), <2>1 DEF Ready
<1> QED
  BY <1>1, <1>2

\* The branch implements GrowthLog: the ready version only grows, by exactly
\* the next range, whatever dies and is launched again.
THEOREM BranchImplementsGrowth == GrowSpec => ImplementsGrowth
<1>1. GrowInit => Growth!GrowthInit
  BY DEF GrowInit, Growth!GrowthInit, Ready
<1>2. GrowInv /\ [GrowNext]_growVars => [Growth!GrowthNext]_(Ready(ready))
  <2>1. ASSUME UNCHANGED growVars PROVE Ready(ready)' = Ready(ready)
    BY <2>1 DEF growVars, store, Ready
  <2> QED
    BY <2>1, TagGrows, OthersKeepReady
<1> QED
  BY <1>1, <1>2, GrowInvariance, PTL DEF GrowSpec, ImplementsGrowth, Growth!GrowthSpec


-----------------------------------------------------------------------------
(***************************************************************************)
(* The start of a branch.                                                  *)
(***************************************************************************)

\* A baseline without added columns.
Spare(v) == widened = 0 \/ v < widened

\* What a branch is like once it exists.
BranchSound ==
  /\ native.base <= train /\ native.base <= native.head /\ Spare(native.base)
  /\ native.contract # NoContract => native.contract.base = native.base
  /\ readyTag = 0 => native.head = native.base
  /\ readyTag # 0 => /\ native.contract # NoContract
                     /\ readyTag \in native.base .. native.head
                     /\ native.head <= readyTag + 1
                     /\ described[readyTag] = DescribedBy(native.contract)

Uploading == {"snapshot", "stats", "welford", "tag"}

\* What the init command has found or done before the step it is at.
StarterSound ==
  /\ starter.step # "idle" => starter.contract \in Contract /\ starter.contract.base <= train
  /\ starter.step \notin {"idle", "check"} => Spare(starter.contract.base)
  /\ starter.step \in {"contract"} \cup Uploading =>
       native # NoBranch /\ native.base = starter.contract.base /\ native.head = native.base
  /\ starter.step = "contract" => native.contract = NoContract
  /\ starter.step \in Uploading => native.contract = starter.contract
  /\ starter.step \in {"stats", "welford", "tag"} =>
       described[starter.contract.base].snapshot = starter.contract
  /\ starter.step \in {"welford", "tag"} => "stats" \in described[starter.contract.base].sidecars
  /\ starter.step = "tag" => "welford" \in described[starter.contract.base].sidecars

StartInv ==
  /\ StartTypeOK
  /\ native = NoBranch => readyTag = 0
  /\ native # NoBranch => BranchSound
  /\ StarterSound

\* Before the first command there is no branch to be unsound.
LEMMA StartInvInit == StartInit => StartInv
<1> SUFFICES ASSUME StartInit PROVE StartInv
  OBVIOUS
<1> USE GrowthStartAssumption, NoContractAssumption, NoBranchAssumption
<1>1. StartTypeOK
  BY DEF StartInit, StartTypeOK, Undescribed, IdleStarter, TrainVersions, BranchVersions,
         StarterSteps
<1>2. StarterSound
  BY DEF StartInit, StarterSound, IdleStarter, Uploading
<1> QED
  BY <1>1, <1>2 DEF StartInit, StartInv

\* Only init writes to an unready branch, and nothing but growth to a ready one.
LEMMA StartInvStep == StartInv /\ [StartNext]_startVars => StartInv'
<1> SUFFICES ASSUME StartInv, [StartNext]_startVars PROVE StartInv'
  OBVIOUS
<1> USE GrowthStartAssumption, NoContractAssumption, NoBranchAssumption
<1>0. /\ StartTypeOK /\ StarterSound
      /\ native = NoBranch => readyTag = 0
      /\ native # NoBranch => BranchSound
  BY DEF StartInv
<1>t. /\ TrainVersions \subseteq Nat /\ BranchVersions \subseteq Nat
      /\ TrainVersions \subseteq BranchVersions
  BY DEF TrainVersions, BranchVersions
<1>1. CASE BeginStart
  <2>1. PICK version \in 1 .. train, b \in GrowthBounds :
          starter' = [step |-> "check", contract |-> [base |-> version, bounds |-> b]]
    BY <1>1 DEF BeginStart
  <2>2. [base |-> version, bounds |-> b] \in Contract
    BY <1>0, <2>1 DEF StartTypeOK, TrainVersions, Contract
  <2>3. StartTypeOK'
    BY <1>0, <1>1, <2>1, <2>2 DEF BeginStart, DatasetOnly, StartTypeOK, StarterSteps
  <2>4. StarterSound'
    <3>1. version <= train
      BY <1>0, <2>1, <1>t DEF StartTypeOK
    <3> QED
      BY <1>1, <2>1, <2>2, <3>1 DEF BeginStart, DatasetOnly, StarterSound, Uploading
  <2>5. native' # NoBranch => BranchSound'
    BY <1>0, <1>1 DEF BeginStart, DatasetOnly, BranchSound, Spare
  <2> QED
    BY <1>0, <1>1, <2>3, <2>4, <2>5 DEF BeginStart, StartInv
<1>2. CASE CheckBaseline
  <2>1. StartTypeOK'
    BY <1>0, <1>2 DEF CheckBaseline, StarterAt, StarterStops, IdleStarter, DatasetOnly,
                      StartTypeOK, StarterSteps
  <2>2. StarterSound'
    <3>1. starter.contract \in Contract /\ starter.contract.base \in Nat
      BY <1>0, <1>2, <1>t DEF CheckBaseline, StarterSound, Contract
    <3>2. widened \in Nat
      BY <1>0, <1>t DEF StartTypeOK
    <3> QED
      BY <1>0, <1>2, <3>1, <3>2 DEF CheckBaseline, StarterAt, StarterStops, IdleStarter, DatasetOnly,
                          StarterSound, Uploading, Spare, StartTypeOK
  <2>3. native' # NoBranch => BranchSound'
    BY <1>0, <1>2 DEF CheckBaseline, DatasetOnly, BranchSound, Spare
  <2> QED
    BY <1>0, <1>2, <2>1, <2>2, <2>3 DEF CheckBaseline, StartInv
<1>3. CASE CreateBranch
  <2> DEFINE c == starter.contract
  <2>1. c \in Contract /\ c.base \in TrainVersions /\ c.base \in BranchVersions /\ c.base \in Nat
    BY <1>0, <1>3, <1>t DEF CreateBranch, StarterSound, Contract
  <2>2. native' \in Branch /\ native' # NoBranch
    BY <1>3, <2>1 DEF CreateBranch, Branch
  <2>3. StartTypeOK'
    BY <1>0, <1>3, <2>2 DEF CreateBranch, StarterAt, DatasetOnly, StartTypeOK, StarterSteps
  <2>4. BranchSound'
    BY <1>0, <1>3, <2>1 DEF CreateBranch, DatasetOnly, BranchSound, StarterSound, Spare
  <2>5. StarterSound'
    BY <1>0, <1>3, <2>1, <2>2 DEF CreateBranch, StarterAt, DatasetOnly, StartTypeOK,
                                  StarterSound, Uploading, Spare
  <2> QED
    BY <2>2, <2>3, <2>4, <2>5 DEF StartInv
<1>4. CASE ResumeBranch
  <2>1. StartTypeOK'
    BY <1>0, <1>4 DEF ResumeBranch, StarterAt, DatasetOnly, StartTypeOK, StarterSteps
  <2>2. native' # NoBranch => BranchSound'
    BY <1>0, <1>4 DEF ResumeBranch, DatasetOnly, BranchSound, Spare
  <2>3. StarterSound'
    BY <1>0, <1>4 DEF ResumeBranch, OwnBaseline, StarterAt, DatasetOnly, StartTypeOK,
                      StarterSound, Uploading, Spare
  <2> QED
    BY <1>0, <1>4, <2>1, <2>2, <2>3 DEF ResumeBranch, StartInv
<1>5. CASE RefuseBranch
  <2>1. StartTypeOK' /\ StarterSound'
    BY <1>0, <1>5 DEF RefuseBranch, StarterStops, IdleStarter, DatasetOnly, StartTypeOK,
                      StarterSteps, StarterSound, Uploading
  <2>2. native' # NoBranch => BranchSound'
    BY <1>0, <1>5 DEF RefuseBranch, DatasetOnly, BranchSound, Spare
  <2> QED
    BY <1>0, <1>5, <2>1, <2>2 DEF RefuseBranch, StartInv
<1>6. CASE WriteContract
  <2> DEFINE c == starter.contract
  <2>1. /\ c \in Contract /\ c # NoContract
        /\ native # NoBranch /\ native \in Branch
        /\ native.base = c.base /\ native.head = native.base /\ native.contract = NoContract
    BY <1>0, <1>6 DEF WriteContract, StarterSound, StartTypeOK
  <2>2. /\ native' \in Branch /\ native'.base = native.base /\ native'.head = native.head
        /\ native'.contract = c /\ native' # NoBranch
    BY <1>6, <2>1 DEF WriteContract, Branch
  <2>3. readyTag = 0
    BY <1>0, <2>1 DEF BranchSound
  <2>4. StartTypeOK'
    BY <1>0, <1>6, <2>2 DEF WriteContract, StarterAt, DatasetOnly, StartTypeOK, StarterSteps
  <2>5. BranchSound'
    BY <1>0, <1>6, <2>1, <2>2, <2>3 DEF WriteContract, DatasetOnly, BranchSound, Spare
  <2>6. StarterSound'
    BY <1>0, <1>6, <2>1, <2>2 DEF WriteContract, StarterAt, DatasetOnly, StartTypeOK,
                                  StarterSound, Uploading, Spare
  <2> QED
    BY <2>2, <2>4, <2>5, <2>6 DEF StartInv
<1>7. CASE UploadSnapshot
  <2> DEFINE c == starter.contract
             v == c.base
  <2>1. /\ c \in Contract /\ native # NoBranch
        /\ native.base = v /\ native.head = v /\ native.contract = c
        /\ v \in BranchVersions /\ v \in Nat
    BY <1>0, <1>7, <1>t DEF UploadSnapshot, StarterSound, Uploading, Contract
  <2>2. /\ described'[v].snapshot = c
        /\ described'[v].sidecars = described[v].sidecars
        /\ \A u \in BranchVersions \ {v} : described'[u] = described[u]
        /\ described' \in [BranchVersions -> [snapshot : Contract \cup {NoContract},
                                              sidecars : SUBSET Sidecars]]
    BY <1>0, <1>7, <2>1 DEF UploadSnapshot, StartTypeOK
  <2>3. readyTag # 0 => readyTag = v /\ described'[v] = DescribedBy(c)
    <3>1. readyTag # 0 => readyTag = v /\ described[v] = DescribedBy(c)
      BY <1>0, <2>1 DEF BranchSound
    <3> QED
      BY <1>0, <1>7, <2>1, <3>1 DEF UploadSnapshot, StartTypeOK, DescribedBy
  <2>4. StartTypeOK'
    BY <1>0, <1>7, <2>2 DEF UploadSnapshot, StarterAt, DatasetOnly, StartTypeOK, StarterSteps
  <2>5. BranchSound'
    BY <1>0, <1>7, <2>1, <2>3 DEF UploadSnapshot, DatasetOnly, BranchSound, Spare
  <2>6. StarterSound'
    BY <1>0, <1>7, <2>1, <2>2 DEF UploadSnapshot, StarterAt, DatasetOnly, StartTypeOK,
                                  StarterSound, Uploading, Spare
  <2> QED
    BY <1>7, <2>1, <2>4, <2>5, <2>6 DEF UploadSnapshot, StartInv
<1>8. CASE UploadSidecar
  <2> DEFINE c == starter.contract
             v == c.base
  <2>1. /\ c \in Contract /\ native # NoBranch
        /\ native.base = v /\ native.head = v /\ native.contract = c
        /\ v \in BranchVersions /\ v \in Nat
    BY <1>0, <1>8, <1>t DEF UploadSidecar, Sidecars, StarterSound, Uploading, Contract
  <2>2. /\ described'[v].snapshot = described[v].snapshot
        /\ described'[v].sidecars = described[v].sidecars \cup {starter.step}
        /\ described' \in [BranchVersions -> [snapshot : Contract \cup {NoContract},
                                              sidecars : SUBSET Sidecars]]
    BY <1>0, <1>8, <2>1 DEF UploadSidecar, StartTypeOK
  <2>3. readyTag # 0 => readyTag = v /\ described'[v] = DescribedBy(c)
    <3>1. readyTag # 0 => readyTag = v /\ described[v] = DescribedBy(c)
      BY <1>0, <2>1 DEF BranchSound
    <3>2. Sidecars \cup {starter.step} = Sidecars
      BY <1>8 DEF UploadSidecar
    <3>3. ASSUME described[v] = DescribedBy(c)
          PROVE  described'[v] = DescribedBy(c)
      <4>1. /\ described[v].snapshot = c /\ described[v].sidecars = Sidecars
            /\ described'[v] \in [snapshot : Contract \cup {NoContract}, sidecars : SUBSET Sidecars]
        BY <2>1, <2>2, <3>3 DEF DescribedBy
      <4>2. described'[v].snapshot = c /\ described'[v].sidecars = Sidecars
        BY <2>2, <3>2, <4>1
      <4> QED
        BY <4>1, <4>2 DEF DescribedBy
    <3> QED
      BY <3>1, <3>3
  <2>4. StartTypeOK'
    BY <1>0, <1>8, <2>2 DEF UploadSidecar, StarterAt, DatasetOnly, StartTypeOK, StarterSteps
  <2>5. BranchSound'
    BY <1>0, <1>8, <2>1, <2>3 DEF UploadSidecar, DatasetOnly, BranchSound, Spare
  <2>6. StarterSound'
    BY <1>0, <1>8, <2>1, <2>2 DEF UploadSidecar, Sidecars, StarterAt, DatasetOnly, StartTypeOK,
                                  StarterSound, Uploading, Spare
  <2> QED
    BY <1>8, <2>1, <2>4, <2>5, <2>6 DEF UploadSidecar, StartInv
<1>9. CASE SetTag
  <2> DEFINE c == starter.contract
             v == c.base
  <2>1. /\ c \in Contract /\ c # NoContract /\ native # NoBranch
        /\ native.base = v /\ native.head = v /\ native.contract = c
        /\ v \in BranchVersions /\ v \in Nat
    BY <1>0, <1>9, <1>t DEF SetTag, StarterSound, Uploading, Contract
  <2>2. v # 0 /\ v \in 0 .. MaxTrain + MaxGrown
    BY <2>1 DEF BranchVersions
  <2>3. described[v] = DescribedBy(c)
    <3>1. /\ described[v].snapshot = c /\ Sidecars = described[v].sidecars
          /\ described[v] \in [snapshot : Contract \cup {NoContract}, sidecars : SUBSET Sidecars]
      BY <1>0, <1>9, <2>1 DEF SetTag, StarterSound, StartTypeOK, Sidecars
    <3> QED
      BY <3>1 DEF DescribedBy
  <2>4. StartTypeOK' /\ StarterSound'
    BY <1>0, <1>9, <2>2 DEF SetTag, StarterStops, IdleStarter, DatasetOnly, StartTypeOK,
                            StarterSteps, StarterSound, Uploading
  <2>5. BranchSound'
    BY <1>0, <1>9, <2>1, <2>2, <2>3 DEF SetTag, DatasetOnly, BranchSound, Spare
  <2> QED
    BY <1>9, <2>1, <2>4, <2>5 DEF SetTag, StartInv
<1>10. CASE StarterCrash
  <2>1. StartTypeOK' /\ StarterSound'
    BY <1>0, <1>10 DEF StarterCrash, StarterStops, IdleStarter, DatasetOnly, StartTypeOK,
                       StarterSteps, StarterSound, Uploading
  <2>2. native' # NoBranch => BranchSound'
    BY <1>0, <1>10 DEF StarterCrash, DatasetOnly, BranchSound, Spare
  <2> QED
    BY <1>0, <1>10, <2>1, <2>2 DEF StarterCrash, StartInv
<1>11. CASE TrainMoves
  <2>1. /\ train \in Nat /\ widened \in Nat /\ widened <= train /\ train' = train + 1
        /\ train' \in TrainVersions
        /\ widened' = widened \/ (widened = 0 /\ widened' = train + 1)
    BY <1>0, <1>t, <1>11 DEF TrainMoves, StartTypeOK, TrainVersions
  <2>2. \A v \in Nat : v <= train /\ Spare(v) => v <= train' /\ Spare(v)'
    BY <2>1 DEF Spare
  <2>3. StartTypeOK'
    BY <1>0, <1>11, <2>1 DEF TrainMoves, StartTypeOK
  <2>4. native' # NoBranch => BranchSound'
    <3>1. native # NoBranch => native.base \in Nat
      BY <1>0, <1>t DEF StartTypeOK, Branch
    <3>2. native # NoBranch => native.base <= train' /\ Spare(native.base)'
      BY <1>0, <2>2, <3>1, <1>11 DEF BranchSound, TrainMoves, Spare
    <3> QED
      BY <1>0, <1>11, <3>2 DEF TrainMoves, BranchSound, Spare
  <2>5. StarterSound'
    <3>1. starter.step # "idle" => starter.contract.base \in Nat
      BY <1>0, <1>t DEF StarterSound, Contract
    <3>2. starter' = starter
      BY <1>11 DEF TrainMoves
    <3>3. starter.step # "idle" => starter.contract.base <= train'
      BY <1>0, <2>1, <3>1, <1>t DEF StarterSound, StartTypeOK
    <3>4. starter.step \notin {"idle", "check"} =>
            widened' = 0 \/ starter.contract.base < widened'
      BY <1>0, <2>1, <3>1, <1>t DEF StarterSound, StartTypeOK, Spare
    <3> QED
      BY <1>0, <1>11, <3>2, <3>3, <3>4 DEF TrainMoves, StarterSound, Spare
  <2> QED
    BY <1>0, <1>11, <2>3, <2>4, <2>5 DEF TrainMoves, StartInv
<1>12. CASE AppendRange
  <2>1. /\ native # NoBranch /\ native \in Branch
        /\ native.base \in Nat /\ native.head \in Nat /\ native.base <= MaxTrain
        /\ native.head < native.base + MaxGrown /\ native.head = readyTag /\ readyTag # 0
        /\ starter.step = "idle"
    BY <1>0, <1>12, <1>t DEF AppendRange, StartTypeOK, Branch, TrainVersions
  <2>2. /\ native' \in Branch /\ native'.base = native.base
        /\ native'.head = native.head + 1 /\ native'.contract = native.contract
    <3>1. native.head + 1 \in BranchVersions
      BY <2>1 DEF BranchVersions
    <3> QED
      BY <1>12, <2>1, <3>1 DEF AppendRange, Branch
  <2>3. StartTypeOK' /\ StarterSound'
    BY <1>0, <1>12, <2>1, <2>2 DEF AppendRange, DatasetOnly, StartTypeOK, StarterSound, Uploading
  <2>4. BranchSound'
    BY <1>0, <1>12, <2>1, <2>2 DEF AppendRange, DatasetOnly, BranchSound, Spare
  <2> QED
    BY <2>1, <2>2, <2>3, <2>4, <1>12 DEF AppendRange, StartInv
<1>13. CASE ReadyRange
  <2>0. /\ native # NoBranch /\ native \in Branch /\ readyTag # 0
        /\ native.head = readyTag + 1 /\ starter.step = "idle" /\ native' = native
    BY <1>0, <1>13 DEF ReadyRange, StartTypeOK
  <2>a. native.base \in Nat /\ native.head \in BranchVersions /\ native.head \in Nat
    BY <2>0, <1>t DEF Branch
  <2>b. readyTag \in BranchVersions
    BY <1>0, <2>0 DEF StartTypeOK, BranchVersions
  <2>1. /\ native # NoBranch /\ native \in Branch
        /\ native.base \in Nat /\ native.head \in BranchVersions /\ native.head \in Nat
        /\ native.head = readyTag + 1 /\ readyTag # 0 /\ readyTag \in BranchVersions
        /\ starter.step = "idle" /\ native' = native
    BY <2>0, <2>a, <2>b
  <2>2. described'[native.head] = DescribedBy(native.contract)
    BY <1>0, <1>13, <2>1 DEF ReadyRange, StartTypeOK, BranchSound
  <2>3. StartTypeOK'
    BY <1>0, <1>13, <2>1 DEF ReadyRange, DatasetOnly, StartTypeOK, BranchVersions
  <2>4. StarterSound'
    BY <1>0, <1>13, <2>1 DEF ReadyRange, DatasetOnly, StarterSound, Uploading
  <2>5. BranchSound'
    BY <1>0, <1>13, <2>1, <2>2 DEF ReadyRange, DatasetOnly, BranchSound, Spare
  <2> QED
    BY <2>1, <2>3, <2>4, <2>5 DEF StartInv
<1>14. CASE UNCHANGED startVars
  BY <1>0, <1>14 DEF startVars, StartInv, StartTypeOK, BranchSound, StarterSound, Spare
<1> QED
  BY <1>1, <1>2, <1>3, <1>4, <1>5, <1>6, <1>7, <1>8, <1>9, <1>10, <1>11, <1>12, <1>13, <1>14
  DEF StartNext
\* The fields of the ready branch, from the invariant.
LEMMA StartInvImplies == StartInv => ReadyHasItsContract
BY DEF StartInv, BranchSound, Spare, ReadyHasItsContract

\* What init leaves behind at every step is an invariant.
THEOREM StartInvariance == StartSpec => []StartInv
BY StartInvInit, StartInvStep, PTL DEF StartSpec

\* For any bounds, any number of dataset versions and appends, and any number of
\* runs of init that die on the way: a ready branch has the contract its
\* snapshots say (initialize_growing_branch, _set_ready_tag).
THEOREM ReadyBranchHasItsContract == StartSpec => []ReadyHasItsContract
BY StartInvariance, StartInvImplies, PTL

-----------------------------------------------------------------------------
(***************************************************************************)
(* The local copies: each is a copy of a ready snapshot, a record names a  *)
(* local version and the snapshot it was copied from, and the ranks of a   *)
(* job have adopted the same record.                                       *)
(***************************************************************************)

Working == {"write", "commit", "copy", "activate"}

\* Each local version is a copy of a ready snapshot, and of a later one than the
\* version before it.
LocalsOK ==
  \A i \in 1 .. Len(locals) :
    /\ locals[i].source \in i - 1 .. Len(published)
    /\ locals[i].manifest = SubSeq(published, 1, locals[i].source)

\* What a daemon that works has found cannot change: it has the lock.
DaemonOK(m) ==
  LET snapshot == daemon[m].snapshot
  IN  /\ snapshot \in 0 .. Len(published)
      /\ daemon[m].step \in Working <=> holder = m
      /\ daemon[m].step \in {"write", "commit"} =>
           IF active = NoRecord THEN locals = <<>>
           ELSE Len(locals) = active.local /\ active.remote < snapshot
      /\ daemon[m].step = "commit" => directory
      /\ daemon[m].step \in {"copy", "activate"} => locals # <<>> /\ Latest.source = snapshot
      /\ daemon[m].step = "activate" => snapshot \in copied

\* A record names a local version and the snapshot it was copied from.
Names(r) ==
  /\ r.local \in 1 .. Len(locals)
  /\ locals[r.local].source = r.remote
  /\ r.remote \in copied

RecordsOK ==
  /\ active # NoRecord => Names(active)
  /\ checkpoint \notin {NoRecord, NoCheckpoint} => Names(checkpoint)
  /\ \A r \in Ranks : adopted[r] # NoRecord => Names(adopted[r])
  /\ \A r \in DOMAIN candidate : candidate[r] # NoRecord => Names(candidate[r])

\* The ranks have adopted the same, and a resumed job nothing else yet.
JobOK ==
  /\ \A r, q \in Ranks : adopted[r] = adopted[q]
  /\ job.resumed => /\ job.step \in {"load", "train"} /\ (job.step = "load" => job.skip)
                    /\ adopted[0] = checkpoint
  /\ job.step = "restore" \/ job.next = "restore" => checkpoint # NoCheckpoint

LocalInv ==
  /\ LocalTypeOK
  /\ LocalsOK /\ (locals # <<>> => directory)
  /\ \A m \in Materializers : DaemonOK(m)
  /\ RecordsOK
  /\ JobOK

\* A copy of a ready snapshot, put together from two adjacent parts, and seen
\* again when the branch has grown.
LEMMA CopyIsManifest ==
  ASSUME NEW m \in Manifest, NEW n \in 0 .. Len(m)
  PROVE  /\ SubSeq(m, 1, n) \in Manifest /\ Len(SubSeq(m, 1, n)) = n
         /\ \A i \in 1 .. n : SubSeq(m, 1, n)[i] = m[i]
<1>1. m \in Seq(Fragment) /\ Len(m) \in 0 .. Capacity /\ Capacity \in Nat
  BY ManifestIsSeq, CapacityAssumption
<1>2. n \in Int /\ n \in Nat /\ \A i \in 1 .. n : m[i] \in Fragment
  BY <1>1
<1>3. /\ SubSeq(m, 1, n) \in Seq(Fragment)
      /\ Len(SubSeq(m, 1, n)) = IF 1 <= n THEN n - 1 + 1 ELSE 0
      /\ \A i \in 1 .. n - 1 + 1 : SubSeq(m, 1, n)[i] = m[1 + i - 1]
  BY <1>2, SubSeqProperties
<1>4. Len(SubSeq(m, 1, n)) = n
  BY <1>2, <1>3
<1>5. SubSeq(m, 1, n) \in Manifest
  <2>1. Len(SubSeq(m, 1, n)) <= Capacity
    BY <1>1, <1>2, <1>4
  <2> QED
    BY <1>3, <2>1, SeqIsManifest
<1>6. \A i \in 1 .. n : SubSeq(m, 1, n)[i] = m[i]
  <2> TAKE i \in 1 .. n
  <2>1. i \in 1 .. n - 1 + 1 /\ 1 + i - 1 = i
    BY <1>2
  <2> QED
    BY <1>3, <2>1
<1> QED
  BY <1>4, <1>5, <1>6

LEMMA CopyContinued ==
  ASSUME NEW m \in Manifest, NEW n \in 0 .. Len(m), NEW k \in 0 .. n
  PROVE  SubSeq(m, 1, k) \o SubSeq(m, k + 1, n) = SubSeq(m, 1, n)
<1>1. m \in Seq(Fragment) /\ Len(m) \in Nat
  BY ManifestIsSeq, CapacityAssumption
<1>2. 1 \in 1 .. Len(m) + 1 /\ k \in 1 - 1 .. Len(m) /\ n \in k .. Len(m)
  BY <1>1
<1> QED
  BY <1>1, <1>2, ConcatAdjacentSubSeq

LEMMA CopyOfGrown ==
  ASSUME NEW m \in Manifest, NEW n \in Manifest, Extends(n, m)
  PROVE  /\ Len(m) <= Len(n)
         /\ \A k \in 0 .. Len(m) : SubSeq(n, 1, k) = SubSeq(m, 1, k)
<1>1. /\ m \in Seq(Fragment) /\ Len(m) \in Nat /\ DOMAIN m = 1 .. Len(m)
      /\ n \in Seq(Fragment) /\ Len(n) \in Nat /\ DOMAIN n = 1 .. Len(n)
  BY ManifestIsSeq, CapacityAssumption
<1>2. \A p \in 1 .. Len(m) : p \in 1 .. Len(n) /\ n[p] = m[p]
  BY <1>1 DEF Extends
<1>3. Len(m) <= Len(n)
  <2>1. Len(m) # 0 => Len(m) \in 1 .. Len(n)
    BY <1>1, <1>2
  <2> QED
    BY <1>1, <2>1
<1>4. ASSUME NEW k \in 0 .. Len(m) PROVE SubSeq(n, 1, k) = SubSeq(m, 1, k)
  <2>1. k \in 0 .. Len(n) /\ k \in Nat
    BY <1>1, <1>3
  <2>2. /\ SubSeq(m, 1, k) \in Manifest /\ Len(SubSeq(m, 1, k)) = k
        /\ \A i \in 1 .. k : SubSeq(m, 1, k)[i] = m[i]
    BY CopyIsManifest
  <2>3. /\ SubSeq(n, 1, k) \in Manifest /\ Len(SubSeq(n, 1, k)) = k
        /\ \A i \in 1 .. k : SubSeq(n, 1, k)[i] = n[i]
    BY <2>1, CopyIsManifest
  <2>4. SubSeq(n, 1, k) \in Seq(Fragment) /\ SubSeq(m, 1, k) \in Seq(Fragment)
    BY <2>2, <2>3, ManifestIsSeq
  <2>5. \A i \in 1 .. k : SubSeq(n, 1, k)[i] = SubSeq(m, 1, k)[i]
    BY <1>1, <1>2, <2>2, <2>3
  <2> QED
    BY <2>2, <2>3, <2>4, <2>5, SeqEqual
<1> QED
  BY <1>3, <1>4

LEMMA LocalStarts == LocalInit => LocalInv
<1> SUFFICES ASSUME LocalInit PROVE LocalInv
  OBVIOUS
<1>1. published \in Manifest /\ Len(published) = 0
  <2>1. <<>> \in Seq(Fragment) /\ Len(<<>>) = 0
    BY EmptySeq
  <2>2. Len(<<>>) <= Capacity
    BY <2>1, CapacityAssumption
  <2>3. <<>> \in Manifest
    BY <2>1, <2>2, SeqIsManifest
  <2> QED
    BY <2>1, <2>3 DEF LocalInit
<1>2. IdleJob \in Job /\ IdleJob.step = "down" /\ IdleJob.next = "load" /\ ~IdleJob.resumed
  BY DEF IdleJob, Job
<1>3. DOMAIN NoneRead = {}
  BY DEF NoneRead
<1>4. \A m \in Materializers : daemon[m].step = "poll" /\ daemon[m].snapshot = 0 /\ daemon[m] \in Daemon
  BY CapacityAssumption DEF LocalInit, Daemon
<1>5. LocalTypeOK
  BY <1>1, <1>2, <1>3, <1>4, HostAssumption DEF LocalInit, LocalTypeOK
<1>6. \A m \in Materializers : DaemonOK(m)
  BY <1>1, <1>4, HostAssumption DEF LocalInit, DaemonOK, Working
<1>7. LocalsOK /\ RecordsOK /\ JobOK
  BY <1>2, <1>3 DEF LocalInit, LocalsOK, RecordsOK, JobOK
<1> QED
  BY <1>5, <1>6, <1>7 DEF LocalInv, LocalInit

-----------------------------------------------------------------------------
\* What the sequences and their lengths are, for the arithmetic of every step.
LEMMA LocalTypes ==
  ASSUME LocalInv
  PROVE  /\ Capacity \in Nat
         /\ published \in Manifest /\ published \in Seq(Fragment)
         /\ Len(published) \in 0 .. Capacity /\ Len(published) \in Nat
         /\ locals \in Seq(LocalVersion) /\ Len(locals) \in Nat
         /\ Len(locals) = 0 <=> locals = <<>>
         /\ Len(locals) <= Capacity + 1
         /\ \A i \in 1 .. Len(locals) : locals[i] \in LocalVersion
<1>1. /\ Capacity \in Nat /\ published \in Manifest /\ locals \in Seq(LocalVersion)
      /\ LocalsOK
  BY CapacityAssumption DEF LocalInv, LocalTypeOK
<1>2. published \in Seq(Fragment) /\ Len(published) \in 0 .. Capacity
  BY <1>1, ManifestIsSeq
<1>3. Len(locals) \in Nat /\ (Len(locals) = 0 <=> locals = <<>>)
  BY <1>1, EmptySeq, LenProperties
<1>4. \A i \in 1 .. Len(locals) : locals[i] \in LocalVersion
  BY <1>1, ElementOfSeq
<1>5. Len(locals) <= Capacity + 1
  <2>1. CASE Len(locals) = 0
    BY <1>1, <2>1
  <2>2. CASE Len(locals) # 0
    <3>1. Len(locals) \in 1 .. Len(locals)
      BY <1>3, <2>2
    <3>2. locals[Len(locals)].source \in Len(locals) - 1 .. Len(published)
      BY <1>1, <3>1 DEF LocalsOK
    <3> QED
      BY <1>1, <1>2, <1>3, <3>2
  <2> QED
    BY <2>1, <2>2
<1> QED
  BY <1>1, <1>2, <1>3, <1>4, <1>5

\* A daemon that does nothing keeps what it has found, unless the lock is its
\* and what it protects has changed.
LEMMA OthersKeep ==
  ASSUME LocalInv, NEW m \in Materializers, DaemonOK(m)',
         UNCHANGED published,
         \A q \in Materializers \ {m} :
            /\ daemon'[q] = daemon[q]
            /\ holder' = q <=> holder = q
            /\ holder = q => UNCHANGED <<directory, locals, copied, active>>
  PROVE  \A q \in Materializers : DaemonOK(q)'
<1> SUFFICES ASSUME NEW q \in Materializers PROVE DaemonOK(q)'
  OBVIOUS
<1>1. CASE q = m
  BY <1>1
<1>2. CASE q # m
  <2>1. DaemonOK(q) /\ daemon'[q] = daemon[q] /\ (holder' = q <=> holder = q)
    BY <1>2 DEF LocalInv
  <2>2. CASE holder = q
    BY <1>2, <2>1, <2>2 DEF DaemonOK, Latest
  <2>3. CASE holder # q
    BY <2>1, <2>3 DEF DaemonOK, Working
  <2> QED
    BY <2>2, <2>3
<1> QED
  BY <1>1, <1>2

\* A record goes on naming a version of which nothing changes.
LEMMA NamesStay ==
  ASSUME NEW r, Names(r), Len(locals) \in Nat, Len(locals') \in Nat,
         Len(locals) <= Len(locals'),
         \A i \in 1 .. Len(locals) : locals'[i] = locals[i],
         copied \subseteq copied'
  PROVE  Names(r)'
<1>1. r.local \in 1 .. Len(locals')
  BY DEF Names
<1> QED
  BY <1>1 DEF Names

LEMMA RecordsStay ==
  ASSUME LocalInv, UNCHANGED <<active, jobVars>>, Len(locals') \in Nat,
         Len(locals) <= Len(locals'),
         \A i \in 1 .. Len(locals) : locals'[i] = locals[i],
         copied \subseteq copied'
  PROVE  RecordsOK'
<1>1. \A r : Names(r) => Names(r)'
  BY LocalTypes, NamesStay DEF Names
<1> QED
  BY <1>1 DEF LocalInv, RecordsOK, jobVars, Names

-----------------------------------------------------------------------------
(***************************************************************************)
(* The branch and the daemons.                                             *)
(***************************************************************************)

\* What was copied is still what the branch held then.
LEMMA GrowLocalKeeps == ASSUME LocalInv, Grow PROVE LocalInv'
<1> USE LocalTypes
<1>1. /\ UNCHANGED <<directory, locals, copied, active, holder, daemon, localFaults>>
      /\ UNCHANGED jobVars
      /\ GrowsTo(published, published')
  BY DEF Grow, hostVars
<1>2. published' \in Manifest /\ Extends(published', published)
  <2>1. PICK h \in 0 .. Capacity : /\ h < Capacity
                                   /\ published' \in [1 .. NextHigh(h) -> Fragment]
                                   /\ Extends(published', published)
    BY <1>1 DEF GrowsTo
  <2>2. NextHigh(h) \in 0 .. Capacity
    BY RangeBounds
  <2> QED
    BY <2>1, <2>2 DEF Manifest
<1>3. /\ Len(published) <= Len(published') /\ Len(published') \in Nat
      /\ \A k \in 0 .. Len(published) : SubSeq(published', 1, k) = SubSeq(published, 1, k)
  BY <1>2, CopyOfGrown, ManifestIsSeq
<1>4. LocalTypeOK'
  BY <1>1, <1>2 DEF LocalInv, LocalTypeOK, jobVars
<1>5. LocalsOK'
  <2> SUFFICES ASSUME NEW i \in 1 .. Len(locals)
               PROVE  /\ locals[i].source \in i - 1 .. Len(published')
                      /\ locals[i].manifest = SubSeq(published', 1, locals[i].source)
    BY <1>1 DEF LocalsOK
  <2>1. /\ locals[i].source \in i - 1 .. Len(published)
        /\ locals[i].manifest = SubSeq(published, 1, locals[i].source)
    BY DEF LocalInv, LocalsOK
  <2>2. locals[i].source \in 0 .. Len(published)
    BY <2>1
  <2> QED
    BY <1>3, <2>1, <2>2
<1>6. ASSUME NEW m \in Materializers PROVE DaemonOK(m)'
  <2>1. DaemonOK(m)
    BY DEF LocalInv
  <2>2. daemon[m].snapshot \in 0 .. Len(published')
    BY <1>3, <2>1 DEF DaemonOK
  <2> QED
    BY <1>1, <2>1, <2>2 DEF DaemonOK, Latest
<1>7. RecordsOK' /\ JobOK'
  BY <1>1 DEF LocalInv, RecordsOK, JobOK, Names, jobVars
<1> QED
  BY <1>1, <1>4, <1>5, <1>6, <1>7 DEF LocalInv

\* A step of a daemon that changes only itself and the lock.
LEMMA LockOnly ==
  ASSUME LocalInv, NEW m \in Materializers, NEW d \in Daemon,
         daemon' = [daemon EXCEPT ![m] = d],
         UNCHANGED <<published, directory, locals, copied, active, jobVars>>,
         holder' \in Materializers \cup {NoHolder}, localFaults' \in 0 .. MaxLocalFaults,
         \A q \in Materializers \ {m} : holder' = q <=> holder = q,
         DaemonOK(m)'
  PROVE  LocalInv'
<1>1. daemon' \in [Materializers -> Daemon]
      /\ \A q \in Materializers \ {m} : daemon'[q] = daemon[q]
  BY DEF LocalInv, LocalTypeOK
<1>2. LocalTypeOK'
  BY <1>1 DEF LocalInv, LocalTypeOK, jobVars
<1>3. \A q \in Materializers : DaemonOK(q)'
  BY <1>1, OthersKeep
<1>4. LocalsOK' /\ (locals # <<>> => directory)' /\ RecordsOK' /\ JobOK'
  BY DEF LocalInv, LocalsOK, RecordsOK, JobOK, Names, jobVars
<1> QED
  BY <1>2, <1>3, <1>4 DEF LocalInv

\* What the daemon's record is after a move.
LEMMA DaemonMoves ==
  ASSUME LocalInv, NEW m \in Materializers,
         NEW step \in {"poll", "lock", "write", "commit", "copy", "activate", "refused"},
         Proceed(m, step)
  PROVE  /\ daemon' = [daemon EXCEPT ![m] = [step |-> step, snapshot |-> daemon[m].snapshot]]
         /\ [step |-> step, snapshot |-> daemon[m].snapshot] \in Daemon
         /\ daemon'[m].step = step /\ daemon'[m].snapshot = daemon[m].snapshot
<1>1. daemon \in [Materializers -> Daemon] /\ daemon[m] \in Daemon
  BY DEF LocalInv, LocalTypeOK
<1>2. [daemon[m] EXCEPT !.step = step] = [step |-> step, snapshot |-> daemon[m].snapshot]
  BY <1>1 DEF Daemon
<1>3. daemon' = [daemon EXCEPT ![m] = [daemon[m] EXCEPT !.step = step]]
  BY DEF Proceed
<1> QED
  BY <1>1, <1>2, <1>3 DEF Daemon

LEMMA PollKeeps ==
  ASSUME LocalInv, NEW m \in Materializers, Poll(m) PROVE LocalInv'
<1> DEFINE d == [step |-> "lock", snapshot |-> Len(published)]
<1>1. /\ daemon' = [daemon EXCEPT ![m] = d] /\ daemon[m].step = "poll"
      /\ UNCHANGED <<published, directory, locals, copied, active, jobVars>>
      /\ holder' = holder /\ localFaults' = localFaults
  BY DEF Poll, hostVars
<1>2. d \in Daemon /\ d.step = "lock" /\ d.snapshot = Len(published)
  BY LocalTypes DEF Daemon
<1> HIDE DEF d
<1>3. daemon'[m] = d
  BY <1>1, <1>2 DEF LocalInv, LocalTypeOK
<1>4. DaemonOK(m) /\ holder \in Materializers \cup {NoHolder} /\ localFaults \in 0 .. MaxLocalFaults
  BY DEF LocalInv, LocalTypeOK
<1>5. DaemonOK(m)'
  BY <1>1, <1>2, <1>3, <1>4, LocalTypes DEF DaemonOK, Working
<1> QED
  BY <1>1, <1>2, <1>4, <1>5, LockOnly

\* The daemon that takes the lock has found the active record older than its
\* snapshot, and either nothing unrecorded or its own copy of that snapshot.
LEMMA EnterKeeps ==
  ASSUME LocalInv, NEW m \in Materializers, Enter(m) PROVE LocalInv'
<1> USE LocalTypes
<1>1. /\ daemon[m].step = "lock" /\ holder = NoHolder /\ NoHolder \notin Materializers
      /\ UNCHANGED <<published, directory, locals, copied, active, jobVars>>
      /\ localFaults' = localFaults
  BY HostAssumption DEF Enter
<1>2. /\ DaemonOK(m) /\ RecordsOK /\ (locals # <<>> => directory)
      /\ active \in Record \cup {NoRecord} /\ localFaults \in 0 .. MaxLocalFaults
      /\ daemon[m].snapshot \in 0 .. Len(published)
  BY DEF LocalInv, LocalTypeOK, DaemonOK
<1>3. ASSUME NEW step \in {"poll", "refused"}, Proceed(m, step), UNCHANGED holder
      PROVE  LocalInv'
  <2>1. /\ daemon' = [daemon EXCEPT ![m] = [step |-> step, snapshot |-> daemon[m].snapshot]]
        /\ [step |-> step, snapshot |-> daemon[m].snapshot] \in Daemon
        /\ daemon'[m].step = step /\ daemon'[m].snapshot = daemon[m].snapshot
    BY <1>3, DaemonMoves
  <2>2. DaemonOK(m)'
    BY <1>1, <1>2, <1>3, <2>1 DEF DaemonOK, Working
  <2> QED
    BY <1>1, <1>2, <1>3, <2>1, <2>2, LockOnly
<1>4. CASE ~UpToDate(daemon[m].snapshot) /\ ~Unrecorded /\ Proceed(m, "write") /\ holder' = m
  <2>1. /\ daemon' = [daemon EXCEPT ![m] = [step |-> "write", snapshot |-> daemon[m].snapshot]]
        /\ [step |-> "write", snapshot |-> daemon[m].snapshot] \in Daemon
        /\ daemon'[m].step = "write" /\ daemon'[m].snapshot = daemon[m].snapshot
    BY <1>4, DaemonMoves
  <2>2. IF active = NoRecord THEN locals = <<>>
        ELSE Len(locals) = active.local /\ active.remote < daemon[m].snapshot
    <3>1. CASE active = NoRecord
      BY <1>2, <1>4, <3>1 DEF Unrecorded
    <3>2. CASE active # NoRecord
      <4>1. active.remote \in Int /\ daemon[m].snapshot \in Int
        BY <1>2, <3>2 DEF Record
      <4>2. Len(locals) = active.local
        BY <1>4, <3>2 DEF Unrecorded
      <4>3. ~(active.remote >= daemon[m].snapshot)
        BY <1>4, <3>2 DEF UpToDate
      <4> QED
        BY <3>2, <4>1, <4>2, <4>3
    <3> QED
      BY <3>1, <3>2
  <2>3. DaemonOK(m)'
    BY <1>1, <1>2, <1>4, <2>1, <2>2 DEF DaemonOK, Working
  <2> QED
    BY <1>1, <1>2, <1>4, <2>1, <2>3, LockOnly
<1>5. CASE Resumable(daemon[m].snapshot) /\ Proceed(m, "copy") /\ holder' = m
  <2>1. /\ daemon' = [daemon EXCEPT ![m] = [step |-> "copy", snapshot |-> daemon[m].snapshot]]
        /\ [step |-> "copy", snapshot |-> daemon[m].snapshot] \in Daemon
        /\ daemon'[m].step = "copy" /\ daemon'[m].snapshot = daemon[m].snapshot
    BY <1>5, DaemonMoves
  <2>2. DaemonOK(m)'
    BY <1>1, <1>2, <1>5, <2>1 DEF DaemonOK, Working, Resumable, Latest
  <2> QED
    BY <1>1, <1>2, <1>5, <2>1, <2>2, LockOnly
<1> QED
  BY <1>3, <1>4, <1>5 DEF Enter

LEMMA RestartKeeps ==
  ASSUME LocalInv, NEW m \in Materializers, Restart(m) \/ DaemonCrash(m) PROVE LocalInv'
<1> DEFINE free == IF holder = m THEN NoHolder ELSE holder
<1>1. /\ Proceed(m, "poll")
      /\ UNCHANGED <<published, directory, locals, copied, active, jobVars>>
      /\ localFaults' \in 0 .. MaxLocalFaults
      /\ holder' = free
  <2>1. localFaults \in 0 .. MaxLocalFaults /\ MaxLocalFaults \in Nat /\ DaemonOK(m)
    BY HostAssumption DEF LocalInv, LocalTypeOK
  <2>2. CASE Restart(m)
    BY <2>1, <2>2 DEF Restart, hostVars, DaemonOK, Working
  <2>3. CASE DaemonCrash(m)
    BY <2>1, <2>3 DEF DaemonCrash, LocalFault
  <2> QED
    BY <2>2, <2>3
<1>2. /\ daemon' = [daemon EXCEPT ![m] = [step |-> "poll", snapshot |-> daemon[m].snapshot]]
      /\ [step |-> "poll", snapshot |-> daemon[m].snapshot] \in Daemon
      /\ daemon'[m].step = "poll" /\ daemon'[m].snapshot = daemon[m].snapshot
  BY <1>1, DaemonMoves
<1>3. DaemonOK(m) /\ holder \in Materializers \cup {NoHolder} /\ NoHolder \notin Materializers
  BY HostAssumption DEF LocalInv, LocalTypeOK
<1>4. DaemonOK(m)'
  BY <1>1, <1>2, <1>3 DEF DaemonOK, Working
<1> QED
  BY <1>1, <1>2, <1>3, <1>4, LockOnly

LEMMA WriteKeeps ==
  ASSUME LocalInv, NEW m \in Materializers, Write(m) PROVE LocalInv'
<1>1. /\ daemon[m].step = "write" /\ directory' = TRUE /\ Proceed(m, "commit")
      /\ UNCHANGED <<published, locals, copied, active, holder, jobVars, localFaults>>
  BY DEF Write
<1>2. /\ daemon' = [daemon EXCEPT ![m] = [step |-> "commit", snapshot |-> daemon[m].snapshot]]
      /\ [step |-> "commit", snapshot |-> daemon[m].snapshot] \in Daemon
      /\ daemon'[m].step = "commit" /\ daemon'[m].snapshot = daemon[m].snapshot
  BY <1>1, DaemonMoves
<1>3. DaemonOK(m) /\ holder = m
  BY <1>1 DEF LocalInv, DaemonOK, Working
<1>4. DaemonOK(m)'
  BY <1>1, <1>2, <1>3 DEF DaemonOK, Working
<1>5. /\ daemon' \in [Materializers -> Daemon]
      /\ \A q \in Materializers \ {m} : daemon'[q] = daemon[q]
  BY <1>2 DEF LocalInv, LocalTypeOK
<1>6. \A q \in Materializers : DaemonOK(q)'
  BY <1>1, <1>3, <1>4, <1>5, OthersKeep
<1>7. LocalTypeOK'
  BY <1>1, <1>5 DEF LocalInv, LocalTypeOK, jobVars
<1>8. LocalsOK' /\ RecordsOK' /\ JobOK'
  BY <1>1 DEF LocalInv, LocalsOK, RecordsOK, JobOK, Names, jobVars
<1> QED
  BY <1>1, <1>6, <1>7, <1>8 DEF LocalInv

\* The fragments beyond the active record's, put after its own, are the whole
\* snapshot; it is a later one than any the host has.
LEMMA CommitKeeps ==
  ASSUME LocalInv, NEW m \in Materializers, CommitLocal(m) PROVE LocalInv'
<1> USE LocalTypes
<1> DEFINE snapshot == daemon[m].snapshot
           first == IF active = NoRecord THEN 1 ELSE active.remote + 1
           old == IF active = NoRecord THEN <<>> ELSE Latest.manifest
           new == [source |-> snapshot, manifest |-> old \o SubSeq(published, first, snapshot)]
<1>1. /\ daemon[m].step = "commit" /\ locals' = Append(locals, new) /\ Proceed(m, "copy")
      /\ UNCHANGED <<published, directory, copied, active, holder, jobVars, localFaults>>
  BY DEF CommitLocal
<1>2. /\ daemon' = [daemon EXCEPT ![m] = [step |-> "copy", snapshot |-> daemon[m].snapshot]]
      /\ [step |-> "copy", snapshot |-> daemon[m].snapshot] \in Daemon
      /\ daemon'[m].step = "copy" /\ daemon'[m].snapshot = daemon[m].snapshot
  BY <1>1, DaemonMoves
<1>3. /\ DaemonOK(m) /\ holder = m /\ directory /\ snapshot \in 0 .. Len(published)
      /\ IF active = NoRecord THEN locals = <<>>
         ELSE Len(locals) = active.local /\ active.remote < snapshot
      /\ active \in Record \cup {NoRecord} /\ LocalsOK /\ RecordsOK
  BY <1>1 DEF LocalInv, LocalTypeOK, DaemonOK, Working
<1>4. /\ old \o SubSeq(published, first, snapshot) = SubSeq(published, 1, snapshot)
      /\ snapshot \in Len(locals) .. Len(published)
  <2>1. CASE active = NoRecord
    <3>1. SubSeq(published, 1, snapshot) \in Seq(Fragment)
      BY <1>3, CopyIsManifest, ManifestIsSeq
    <3>2. <<>> \o SubSeq(published, 1, snapshot) = SubSeq(published, 1, snapshot)
      BY <3>1, ConcatEmptySeq
    <3> QED
      BY <1>3, <2>1, <3>2
  <2>2. CASE active # NoRecord
    <3>1. /\ Len(locals) = active.local /\ active.remote < snapshot
          /\ active.local \in 1 .. Len(locals) /\ Latest.source = active.remote
          /\ active.remote \in Nat
      BY <1>3, <2>2 DEF RecordsOK, Names, Latest, Record
    <3>2. /\ Latest.source \in Len(locals) - 1 .. Len(published)
          /\ Latest.manifest = SubSeq(published, 1, active.remote)
      BY <1>3, <3>1 DEF LocalsOK, Latest
    <3>3. active.remote \in 0 .. snapshot /\ snapshot \in Len(locals) .. Len(published)
      BY <1>3, <3>1, <3>2
    <3>4. SubSeq(published, 1, active.remote) \o SubSeq(published, active.remote + 1, snapshot)
            = SubSeq(published, 1, snapshot)
      BY <1>3, <3>3, CopyContinued
    <3> QED
      BY <2>2, <3>2, <3>3, <3>4
  <2> QED
    BY <2>1, <2>2
<1>5. new \in LocalVersion /\ new.source = snapshot /\ new.manifest = SubSeq(published, 1, snapshot)
  <2>1. SubSeq(published, 1, snapshot) \in Manifest /\ snapshot \in 0 .. Capacity
    BY <1>3, CopyIsManifest
  <2> QED
    BY <1>4, <2>1 DEF LocalVersion
<1> HIDE DEF old, first, new
<1>6. /\ locals' \in Seq(LocalVersion) /\ Len(locals') = Len(locals) + 1
      /\ \A i \in 1 .. Len(locals) : locals'[i] = locals[i]
      /\ locals'[Len(locals) + 1] = new
  BY <1>1, <1>5, AppendProperties
<1>7. locals' # <<>> /\ Latest' = new
  BY <1>6 DEF Latest
<1>8. LocalsOK'
  <2> SUFFICES ASSUME NEW i \in 1 .. Len(locals) + 1
               PROVE  /\ locals'[i].source \in i - 1 .. Len(published)
                      /\ locals'[i].manifest = SubSeq(published, 1, locals'[i].source)
    BY <1>1, <1>6 DEF LocalsOK
  <2>1. CASE i = Len(locals) + 1
    BY SMTT(30), <1>4, <1>5, <1>6, <2>1
  <2>2. CASE i \in 1 .. Len(locals)
    BY <1>3, <1>6, <2>2 DEF LocalsOK
  <2> QED
    BY <2>1, <2>2
<1>9. DaemonOK(m)'
  BY <1>1, <1>2, <1>3, <1>5, <1>7 DEF DaemonOK, Working
<1>10. /\ daemon' \in [Materializers -> Daemon]
       /\ \A q \in Materializers \ {m} : daemon'[q] = daemon[q]
  BY <1>2 DEF LocalInv, LocalTypeOK
<1>11. \A q \in Materializers : DaemonOK(q)'
  BY <1>1, <1>3, <1>9, <1>10, OthersKeep
<1>12. LocalTypeOK'
  BY <1>1, <1>6, <1>10 DEF LocalInv, LocalTypeOK, jobVars
<1>13. RecordsOK' /\ JobOK'
  <2>1. RecordsOK'
    BY <1>1, <1>6, RecordsStay
  <2> QED
    BY <1>1, <2>1 DEF LocalInv, JobOK, jobVars
<1> QED
  BY <1>1, <1>3, <1>8, <1>11, <1>12, <1>13 DEF LocalInv

LEMMA CopyMetadataKeeps ==
  ASSUME LocalInv, NEW m \in Materializers, CopyMetadata(m) PROVE LocalInv'
<1> USE LocalTypes
<1>1. /\ daemon[m].step = "copy" /\ copied' = copied \cup {daemon[m].snapshot}
      /\ Proceed(m, "activate")
      /\ UNCHANGED <<published, directory, locals, active, holder, jobVars, localFaults>>
  BY DEF CopyMetadata
<1>2. /\ daemon' = [daemon EXCEPT ![m] = [step |-> "activate", snapshot |-> daemon[m].snapshot]]
      /\ [step |-> "activate", snapshot |-> daemon[m].snapshot] \in Daemon
      /\ daemon'[m].step = "activate" /\ daemon'[m].snapshot = daemon[m].snapshot
  BY <1>1, DaemonMoves
<1>3. DaemonOK(m) /\ holder = m /\ daemon[m].snapshot \in 0 .. Len(published)
  BY <1>1 DEF LocalInv, DaemonOK, Working
<1>4. DaemonOK(m)'
  BY <1>1, <1>2, <1>3 DEF DaemonOK, Working, Latest
<1>5. /\ daemon' \in [Materializers -> Daemon]
      /\ \A q \in Materializers \ {m} : daemon'[q] = daemon[q]
  BY <1>2 DEF LocalInv, LocalTypeOK
<1>6. \A q \in Materializers : DaemonOK(q)'
  BY <1>1, <1>3, <1>4, <1>5, OthersKeep
<1>7. LocalTypeOK'
  <2>1. copied' \subseteq 0 .. Capacity
    <3>1. daemon[m].snapshot \in 0 .. Capacity /\ copied \subseteq 0 .. Capacity
      BY <1>3 DEF LocalInv, LocalTypeOK
    <3> QED
      BY <1>1, <3>1
  <2> QED
    BY <1>1, <1>5, <2>1 DEF LocalInv, LocalTypeOK, jobVars
<1>8. RecordsOK'
  BY <1>1, RecordsStay
<1>9. LocalsOK' /\ (locals # <<>> => directory)' /\ JobOK'
  BY <1>1 DEF LocalInv, LocalsOK, JobOK, jobVars
<1> QED
  BY <1>6, <1>7, <1>8, <1>9 DEF LocalInv

\* The record names the latest local version, copied from the daemon's snapshot.
LEMMA ActivateKeeps ==
  ASSUME LocalInv, NEW m \in Materializers, Activate(m) PROVE LocalInv'
<1> USE LocalTypes
<1> DEFINE record == [remote |-> daemon[m].snapshot, local |-> Len(locals)]
<1>1. /\ daemon[m].step = "activate" /\ active' = record /\ holder' = NoHolder
      /\ Proceed(m, "poll")
      /\ UNCHANGED <<published, directory, locals, copied, jobVars, localFaults>>
  BY DEF Activate
<1>2. /\ daemon' = [daemon EXCEPT ![m] = [step |-> "poll", snapshot |-> daemon[m].snapshot]]
      /\ [step |-> "poll", snapshot |-> daemon[m].snapshot] \in Daemon
      /\ daemon'[m].step = "poll" /\ daemon'[m].snapshot = daemon[m].snapshot
  BY <1>1, DaemonMoves
<1>3. /\ DaemonOK(m) /\ holder = m /\ daemon[m].snapshot \in 0 .. Len(published)
      /\ locals # <<>> /\ Latest.source = daemon[m].snapshot /\ daemon[m].snapshot \in copied
      /\ NoHolder \notin Materializers
  BY <1>1, HostAssumption DEF LocalInv, DaemonOK, Working
<1>4. /\ record \in Record /\ record.remote = daemon[m].snapshot /\ record.local = Len(locals)
      /\ Len(locals) \in 1 .. Len(locals)
  <2>1. Len(locals) \in 1 .. Capacity + 1 /\ daemon[m].snapshot \in 0 .. Capacity
    BY <1>3
  <2> QED
    BY <2>1 DEF Record
<1> HIDE DEF record
<1>5. DaemonOK(m)'
  BY <1>1, <1>2, <1>3 DEF DaemonOK, Working
<1>6. /\ daemon' \in [Materializers -> Daemon]
      /\ \A q \in Materializers \ {m} : daemon'[q] = daemon[q]
  BY <1>2 DEF LocalInv, LocalTypeOK
<1>7. \A q \in Materializers : DaemonOK(q)'
  BY <1>1, <1>3, <1>5, <1>6, OthersKeep
<1>8. LocalTypeOK'
  BY <1>1, <1>4, <1>6 DEF LocalInv, LocalTypeOK, jobVars
<1>9. RecordsOK'
  <2>1. Names(record) /\ Names(active)'
    BY <1>1, <1>3, <1>4 DEF Names, Latest
  <2> QED
    BY <1>1, <2>1 DEF LocalInv, RecordsOK, Names, jobVars
<1>10. LocalsOK' /\ (locals # <<>> => directory)' /\ JobOK'
  BY <1>1 DEF LocalInv, LocalsOK, JobOK, jobVars
<1> QED
  BY <1>7, <1>8, <1>9, <1>10 DEF LocalInv

-----------------------------------------------------------------------------
(***************************************************************************)
(* The job.                                                                *)
(***************************************************************************)

LEMMA JobOnlyKeeps ==
  ASSUME LocalInv, JobOnly, job' \in Job, localFaults' \in 0 .. MaxLocalFaults,
         DOMAIN candidate' \subseteq Ranks,
         \A r \in DOMAIN candidate' :
            candidate'[r] # NoRecord => candidate'[r] \in Record /\ Names(candidate'[r]),
         adopted' \in [Ranks -> Record \cup {NoRecord}],
         \A r \in Ranks : adopted'[r] # NoRecord => Names(adopted'[r]),
         checkpoint' \in Record \cup {NoRecord, NoCheckpoint},
         checkpoint' \notin {NoRecord, NoCheckpoint} => Names(checkpoint'),
         JobOK'
  PROVE  LocalInv'
<1>1. UNCHANGED <<published, directory, locals, copied, active, holder, daemon>>
  BY DEF JobOnly, hostVars
<1>2. LocalTypeOK'
  BY <1>1 DEF LocalInv, LocalTypeOK
<1>3. LocalsOK' /\ (locals # <<>> => directory)'
  BY <1>1 DEF LocalInv, LocalsOK
<1>4. \A m \in Materializers : DaemonOK(m)'
  BY <1>1 DEF LocalInv, DaemonOK, Latest
<1>5. RecordsOK'
  <2>1. active # NoRecord => Names(active)
    BY DEF LocalInv, RecordsOK
  <2> QED
    BY <1>1, <2>1 DEF RecordsOK, Names
<1> QED
  BY <1>2, <1>3, <1>4, <1>5 DEF LocalInv

\* What the job's variables are, and that their records name local versions.
LEMMA JobFacts ==
  ASSUME LocalInv
  PROVE  /\ job \in Job /\ localFaults \in 0 .. MaxLocalFaults /\ MaxLocalFaults \in Nat
         /\ DOMAIN candidate \subseteq Ranks
         /\ \A r \in DOMAIN candidate :
              candidate[r] # NoRecord => candidate[r] \in Record /\ Names(candidate[r])
         /\ active # NoRecord => active \in Record /\ Names(active)
         /\ adopted \in [Ranks -> Record \cup {NoRecord}]
         /\ \A r \in Ranks : adopted[r] # NoRecord => Names(adopted[r])
         /\ checkpoint \in Record \cup {NoRecord, NoCheckpoint}
         /\ checkpoint \notin {NoRecord, NoCheckpoint} => Names(checkpoint)
         /\ \A r, q \in Ranks : adopted[r] = adopted[q]
         /\ JobOK
  BY HostAssumption DEF LocalInv, LocalTypeOK, RecordsOK, JobOK

LEMMA JobStepsKeep ==
  ASSUME LocalInv, StartJob \/ LoadEpoch \/ SaveCheckpoint \/ EndEpoch \/ KillJob
  PROVE  LocalInv'
<1> USE JobFacts
<1>1. CASE StartJob
  <2>1. /\ JobOnly /\ UNCHANGED <<candidate, adopted, checkpoint, localFaults>>
        /\ job' \in Job /\ job'.step = "read" /\ ~job'.resumed
        /\ job'.next = "restore" => checkpoint # NoCheckpoint
    BY <1>1 DEF StartJob, IdleJob, Job
  <2>2. JobOK'
    BY <2>1 DEF JobOK
  <2> QED
    BY <2>1, <2>2, JobOnlyKeeps
<1>2. CASE LoadEpoch
  <2>1. /\ JobOnly /\ UNCHANGED <<candidate, adopted, checkpoint, localFaults>>
        /\ job.step = "load" /\ job' \in Job /\ job'.resumed = job.resumed
        /\ IF job.skip THEN job'.step = "train" /\ job'.next = job.next
           ELSE job'.step = "read" /\ job'.next = "train"
    BY <1>2 DEF LoadEpoch, Job
  <2>2. JobOK'
    BY <2>1 DEF JobOK
  <2> QED
    BY <2>1, <2>2, JobOnlyKeeps
<1>3. CASE SaveCheckpoint
  <2>1. /\ JobOnly /\ UNCHANGED <<job, candidate, adopted, localFaults>>
        /\ job.step = "train" /\ checkpoint' = adopted[0]
        /\ adopted[0] \in Record \cup {NoRecord} /\ (adopted[0] # NoRecord => Names(adopted[0]))
        /\ NoCheckpoint \notin Record \cup {NoRecord}
    BY <1>3, HostAssumption, RecordAssumption DEF SaveCheckpoint
  <2>2. JobOK'
    BY <2>1 DEF JobOK
  <2>3. /\ checkpoint' \in Record \cup {NoRecord, NoCheckpoint}
        /\ checkpoint' \notin {NoRecord, NoCheckpoint} => Names(checkpoint')
    BY <2>1
  <2> QED
    BY <2>1, <2>2, <2>3, JobOnlyKeeps
<1>4. CASE EndEpoch
  <2>1. /\ JobOnly /\ UNCHANGED <<candidate, adopted, checkpoint, localFaults>>
        /\ job' \in Job /\ job'.step = "load" /\ ~job'.resumed /\ job'.next = job.next
    BY <1>4 DEF EndEpoch, Job
  <2>2. JobOK'
    BY <2>1 DEF JobOK
  <2> QED
    BY <2>1, <2>2, JobOnlyKeeps
<1>5. CASE KillJob
  <2>1. /\ JobOnly /\ UNCHANGED checkpoint /\ localFaults' \in 0 .. MaxLocalFaults
        /\ job' \in Job /\ job'.step = "down" /\ job'.next = "load" /\ ~job'.resumed
        /\ DOMAIN candidate' = {}
        /\ adopted' = [r \in Ranks |-> NoRecord]
    BY <1>5 DEF KillJob, LocalFault, IdleJob, Job, NoneRead
  <2>2. JobOK'
    BY <2>1 DEF JobOK
  <2>3. /\ adopted' \in [Ranks -> Record \cup {NoRecord}]
        /\ \A r \in Ranks : adopted'[r] = NoRecord
    BY <2>1
  <2> QED
    BY <2>1, <2>2, <2>3, JobOnlyKeeps
<1> QED
  BY <1>1, <1>2, <1>3, <1>4, <1>5

LEMMA ReadActiveKeeps ==
  ASSUME LocalInv, NEW r \in Ranks, ReadActive(r) PROVE LocalInv'
<1> USE JobFacts
<1>1. PICK c \in {active, NoRecord} :
        /\ candidate' = [q \in DOMAIN candidate \cup {r} |-> IF q = r THEN c ELSE candidate[q]]
        /\ IF c = active THEN UNCHANGED localFaults ELSE LocalFault
  BY Zenon DEF ReadActive
<1>2. JobOnly /\ UNCHANGED <<job, adopted, checkpoint>>
  BY DEF ReadActive
<1>3. c # NoRecord => c \in Record /\ Names(c)
  BY <1>1
<1>4. /\ DOMAIN candidate' \subseteq Ranks
      /\ \A q \in DOMAIN candidate' :
            candidate'[q] # NoRecord => candidate'[q] \in Record /\ Names(candidate'[q])
  <2>1. DOMAIN candidate' = DOMAIN candidate \cup {r}
    BY <1>1
  <2>2. \A q \in DOMAIN candidate' : candidate'[q] = IF q = r THEN c ELSE candidate[q]
    BY <1>1
  <2> HIDE DEF Names
  <2> QED
    BY <1>3, <2>1, <2>2
<1>5. localFaults' \in 0 .. MaxLocalFaults
  BY <1>1 DEF LocalFault
<1>6. JobOK'
  BY <1>2 DEF JobOK
<1> QED
  BY <1>2, <1>4, <1>5, <1>6, JobOnlyKeeps

\* All ranks take rank 0's candidate, or none does.
LEMMA AdoptKeeps == ASSUME LocalInv, Adopt PROVE LocalInv'
<1> USE JobFacts
<1> DEFINE same == \A q \in Ranks : candidate[q] = candidate[0]
           selected == IF same THEN candidate[0] ELSE NoRecord
<1>1. /\ JobOnly /\ UNCHANGED <<checkpoint, localFaults>>
      /\ job.step = "read" /\ DOMAIN candidate = Ranks
      /\ job' \in Job /\ job'.step = job.next /\ job'.next = job.next /\ job'.resumed = job.resumed
      /\ DOMAIN candidate' = {}
  BY DEF Adopt, Job, NoneRead
<1>2. selected # NoRecord => selected \in Record /\ Names(selected)
  BY <1>1, HostAssumption
<1>3. adopted' = [r \in Ranks |-> IF selected = NoRecord THEN adopted[r] ELSE selected]
  BY DEF Adopt, Selected
<1> HIDE DEF selected
<1>4. adopted' \in [Ranks -> Record \cup {NoRecord}]
  BY <1>2, <1>3
<1>5. /\ \A r \in Ranks : adopted'[r] # NoRecord => Names(adopted'[r])
      /\ \A r, q \in Ranks : adopted'[r] = adopted'[q]
  BY <1>2, <1>3
<1>6. JobOK'
  BY <1>1, <1>5 DEF JobOK
<1> QED
  BY <1>1, <1>4, <1>5, <1>6, JobOnlyKeeps

\* All ranks take the checkpoint's record.
LEMMA RestoreKeeps == ASSUME LocalInv, Restore PROVE LocalInv'
<1> USE JobFacts
<1>1. /\ JobOnly /\ UNCHANGED <<candidate, checkpoint, localFaults>>
      /\ job.step = "restore" /\ ~job.resumed /\ checkpoint # NoCheckpoint
      /\ adopted' = [r \in Ranks |-> checkpoint]
  BY DEF Restore, JobOK
<1>2. /\ job' \in Job
      /\ IF checkpoint = NoRecord
         THEN job'.step = "read" /\ job'.next = "load" /\ ~job'.resumed
         ELSE job'.step = "load" /\ job'.skip /\ job'.resumed /\ job'.next = job.next
  BY <1>1 DEF Restore, Job
<1>3. /\ adopted' \in [Ranks -> Record \cup {NoRecord}]
      /\ \A r \in Ranks : adopted'[r] = checkpoint
  BY <1>1
<1>4. JobOK'
  BY <1>1, <1>2, <1>3, HostAssumption DEF JobOK
<1> QED
  BY <1>1, <1>2, <1>3, <1>4, JobOnlyKeeps

LEMMA LocalStep == LocalInv /\ [LocalNext]_localVars => LocalInv'
<1> SUFFICES ASSUME LocalInv, [LocalNext]_localVars PROVE LocalInv'
  OBVIOUS
<1>1. CASE UNCHANGED localVars
  BY <1>1 DEF localVars, hostVars, jobVars, LocalInv, LocalTypeOK, LocalsOK, DaemonOK,
              Latest, RecordsOK, Names, JobOK
<1>2. CASE Grow
  BY <1>2, GrowLocalKeeps
<1>3. ASSUME NEW m \in Materializers, DaemonStep(m) \/ DaemonCrash(m) PROVE LocalInv'
  BY <1>3, PollKeeps, EnterKeeps, WriteKeeps, CommitKeeps, CopyMetadataKeeps, ActivateKeeps,
     RestartKeeps DEF DaemonStep
<1>4. CASE \/ StartJob \/ Adopt \/ Restore \/ LoadEpoch \/ SaveCheckpoint \/ EndEpoch \/ KillJob
           \/ \E r \in Ranks : ReadActive(r)
  BY <1>4, JobStepsKeep, AdoptKeeps, RestoreKeeps, ReadActiveKeeps
<1> QED
  BY <1>1, <1>2, <1>3, <1>4 DEF LocalNext

LEMMA LocalInvariance == LocalSpec => []LocalInv
  BY LocalStarts, LocalStep, PTL DEF LocalSpec

\* Whatever daemons do at once and wherever they die, what active.json, the
\* ranks and the checkpoint name are copies of snapshots that were ready.
THEOREM LocalCopiesAreReady == LocalSpec => []ActiveIsReadySnapshot
<1>1. LocalInv => ActiveIsReadySnapshot
  <2> SUFFICES ASSUME LocalInv,
                      NEW r \in {active, checkpoint} \cup {adopted[q] : q \in Ranks},
                      r \notin {NoRecord, NoCheckpoint}
               PROVE  IsReadySnapshot(r)
    BY DEF ActiveIsReadySnapshot
  <2>1. Names(r)
    BY DEF LocalInv, RecordsOK
  <2> QED
    BY <2>1, LocalTypes, LenProperties DEF LocalInv, LocalsOK, Names, IsReadySnapshot
<1> QED
  BY <1>1, LocalInvariance, PTL

\* The ranks never train on two snapshots, and a resumed job's first epoch is
\* on the one its checkpoint recorded.
THEOREM RanksTrainOnOneSnapshot == LocalSpec => []TrainsOnOneSnapshot
<1>1. LocalInv => TrainsOnOneSnapshot
  BY HostAssumption DEF LocalInv, JobOK, TrainsOnOneSnapshot
<1> QED
  BY <1>1, LocalInvariance, PTL
=============================================================================

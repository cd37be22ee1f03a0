------------------------- MODULE ShardClaims_proofs -------------------------
(***************************************************************************)
(* Proofs about the claim table, for every set of shards and workers,      *)
(* every lease and every clock bound.                                      *)
(***************************************************************************)
EXTENDS ShardClaims, TLAPS

\* Where a process is inside claim() fits its local variables.
CallOK ==
  \A o \in Owners :
    /\ pc[o] \in {"update", "confirm"} => cand[o] \in Shards
    /\ now[o] <= clock

\* A process between its update and the read back either still owns the row,
\* claimed, or was overtaken; it does not hold the generation it is about to
\* be granted.
PendingConfirmOK ==
  \A o \in Owners :
    pc[o] = "confirm" /\ rows[cand[o]].owner = o =>
      /\ rows[cand[o]].status = "claimed"
      /\ [shard |-> cand[o], gen |-> rows[cand[o]].gen] \notin held[o]

\* A row that populate() has not inserted carries no owner and no generation.
AbsentRowsBlank ==
  \A s \in Shards : rows[s].status = "absent" => rows[s] = AbsentRow

\* The inductive invariant.
IInv ==
  /\ TypeOK
  /\ CallOK
  /\ AbsentRowsBlank
  /\ PendingConfirmOK
  /\ HeldClaimIsCurrentOrStale
  /\ ClaimedByOne

-----------------------------------------------------------------------------

\* The variables keep their types, for every instance: TypeOK is an invariant
\* of the claim protocol together with the ranges of the locals of claim().
LEMMA TypeStep == TypeOK /\ CallOK /\ [Next]_vars => TypeOK' /\ CallOK'
<1> SUFFICES ASSUME TypeOK, CallOK, [Next]_vars
             PROVE  TypeOK' /\ CallOK'
  OBVIOUS
<1> USE LeaseAssumption, OwnerAssumption, ShardAssumption
        DEF TypeOK, CallOK, Row, ClaimedShard, Statuses, ProcessStates
<1>1. CASE Tick
  BY <1>1 DEF Tick
<1>2. ASSUME NEW S \in SUBSET Shards, Populate(S)
      PROVE  TypeOK' /\ CallOK'
  BY <1>2 DEF Populate, AvailableRow, AbsentRow
<1>3. ASSUME NEW o \in Owners, ReadClock(o)
      PROVE  TypeOK' /\ CallOK'
  BY <1>3 DEF ReadClock
<1>4. ASSUME NEW o \in Owners, ScanDrained(o)
      PROVE  TypeOK' /\ CallOK'
  BY <1>4 DEF ScanDrained
<1>5. ASSUME NEW o \in Owners, NEW s \in Shards, ScanPick(o, s)
      PROVE  TypeOK' /\ CallOK'
  BY <1>5 DEF ScanPick
<1>6. ASSUME NEW o \in Owners, UpdateWins(o)
      PROVE  TypeOK' /\ CallOK'
  <2>1. cand[o] \in Shards /\ now[o] \in Nat /\ rows[cand[o]] \in Row
    BY <1>6 DEF UpdateWins
  <2>2. ClaimedRow(rows[cand[o]], o, now[o]) \in Row
    BY <2>1 DEF ClaimedRow
  <2> QED
    BY <1>6, <2>1, <2>2 DEF UpdateWins
<1>7. ASSUME NEW o \in Owners, UpdateLost(o)
      PROVE  TypeOK' /\ CallOK'
  BY <1>7 DEF UpdateLost
<1>8. ASSUME NEW o \in Owners, ConfirmWon(o)
      PROVE  TypeOK' /\ CallOK'
  <2>1. [shard |-> cand[o], gen |-> rows[cand[o]].gen] \in ClaimedShard
    BY <1>8 DEF ConfirmWon
  <2> QED
    BY <1>8, <2>1 DEF ConfirmWon
<1>9. ASSUME NEW o \in Owners, ConfirmLost(o)
      PROVE  TypeOK' /\ CallOK'
  BY <1>9 DEF ConfirmLost
<1>10. ASSUME NEW o \in Owners, NEW c \in held[o], CompleteWins(o, c)
       PROVE  TypeOK' /\ CallOK'
  <2>1. c \in ClaimedShard
    OBVIOUS
  <2>2. [rows[c.shard] EXCEPT !.status = "done"] \in Row
    BY <2>1
  <2> QED
    BY <1>10, <2>1, <2>2 DEF CompleteWins
<1>11. ASSUME NEW o \in Owners, NEW c \in held[o], LeaveClaim(o, c)
       PROVE  TypeOK' /\ CallOK'
  BY <1>11 DEF LeaveClaim
<1>12. ASSUME NEW o \in Owners, Crash(o)
       PROVE  TypeOK' /\ CallOK'
  BY <1>12 DEF Crash
<1>13. CASE UNCHANGED vars
  BY <1>13 DEF vars
<1> QED
  BY <1>1, <1>2, <1>3, <1>4, <1>5, <1>6, <1>7, <1>8, <1>9, <1>10, <1>11,
     <1>12, <1>13 DEF Next

\* Rows leave "absent" for good, so the blank ones stay blank.
LEMMA AbsentStep ==
  TypeOK /\ CallOK /\ AbsentRowsBlank /\ [Next]_vars => AbsentRowsBlank'
<1> SUFFICES ASSUME TypeOK, CallOK, AbsentRowsBlank, [Next]_vars
             PROVE  AbsentRowsBlank'
  OBVIOUS
<1> USE DEF TypeOK, CallOK, Row, Statuses, AbsentRowsBlank
<1>1. ASSUME NEW S \in SUBSET Shards, Populate(S)
      PROVE  AbsentRowsBlank'
  BY <1>1 DEF Populate, AvailableRow, AbsentRow
<1>2. ASSUME NEW o \in Owners, UpdateWins(o)
      PROVE  AbsentRowsBlank'
  BY <1>2 DEF UpdateWins, ClaimedRow
<1>3. ASSUME NEW o \in Owners, NEW c \in held[o], CompleteWins(o, c)
      PROVE  AbsentRowsBlank'
  BY <1>3 DEF CompleteWins, ClaimedShard
<1>4. CASE UNCHANGED rows
  BY <1>4
<1> QED
  BY <1>1, <1>2, <1>3, <1>4
  DEF Next, vars, Tick, ReadClock, ScanDrained, ScanPick, UpdateLost,
      ConfirmWon, ConfirmLost, LeaveClaim, Crash

\* The three conjuncts about held claims are kept by every step.
LEMMA FenceStep ==
  IInv /\ [Next]_vars =>
    PendingConfirmOK' /\ HeldClaimIsCurrentOrStale' /\ ClaimedByOne'
<1> SUFFICES ASSUME IInv, [Next]_vars
             PROVE  PendingConfirmOK' /\ HeldClaimIsCurrentOrStale' /\ ClaimedByOne'
  OBVIOUS
<1> USE OwnerAssumption, ShardAssumption
        DEF IInv, TypeOK, CallOK, AbsentRowsBlank, Row, ClaimedShard, PendingConfirmOK,
            HeldClaimIsCurrentOrStale, ClaimedByOne, ProcessStates
<1>1. CASE Tick
  BY <1>1 DEF Tick
<1>2. ASSUME NEW S \in SUBSET Shards, Populate(S)
      PROVE  PendingConfirmOK' /\ HeldClaimIsCurrentOrStale' /\ ClaimedByOne'
  <2>1. \A s \in Shards :
          /\ rows'[s].gen = rows[s].gen
          /\ rows'[s].owner = rows[s].owner
          /\ rows[s].status = "claimed" => rows'[s].status = "claimed"
    BY <1>2 DEF Populate, AvailableRow, AbsentRow
  <2>2. \A o \in Owners : pc[o] = "confirm" => cand[o] \in Shards
    OBVIOUS
  <2>3. pc' = pc /\ cand' = cand /\ held' = held
    BY <1>2 DEF Populate
  <2> QED
    BY <2>1, <2>2, <2>3
<1>3. ASSUME NEW o \in Owners, ReadClock(o)
      PROVE  PendingConfirmOK' /\ HeldClaimIsCurrentOrStale' /\ ClaimedByOne'
  BY <1>3 DEF ReadClock
<1>4. ASSUME NEW o \in Owners, ScanDrained(o)
      PROVE  PendingConfirmOK' /\ HeldClaimIsCurrentOrStale' /\ ClaimedByOne'
  BY <1>4 DEF ScanDrained
<1>5. ASSUME NEW o \in Owners, NEW s \in Shards, ScanPick(o, s)
      PROVE  PendingConfirmOK' /\ HeldClaimIsCurrentOrStale' /\ ClaimedByOne'
  BY <1>5 DEF ScanPick
<1>6. ASSUME NEW o \in Owners, UpdateWins(o)
      PROVE  PendingConfirmOK' /\ HeldClaimIsCurrentOrStale' /\ ClaimedByOne'
  BY <1>6 DEF UpdateWins, ClaimedRow
<1>7. ASSUME NEW o \in Owners, UpdateLost(o)
      PROVE  PendingConfirmOK' /\ HeldClaimIsCurrentOrStale' /\ ClaimedByOne'
  BY <1>7 DEF UpdateLost
<1>8. ASSUME NEW o \in Owners, ConfirmWon(o)
      PROVE  PendingConfirmOK' /\ HeldClaimIsCurrentOrStale' /\ ClaimedByOne'
  BY <1>8 DEF ConfirmWon
<1>9. ASSUME NEW o \in Owners, ConfirmLost(o)
      PROVE  PendingConfirmOK' /\ HeldClaimIsCurrentOrStale' /\ ClaimedByOne'
  BY <1>9 DEF ConfirmLost
<1>10. ASSUME NEW o \in Owners, NEW c \in held[o], CompleteWins(o, c)
       PROVE  PendingConfirmOK' /\ HeldClaimIsCurrentOrStale' /\ ClaimedByOne'
  BY <1>10 DEF CompleteWins, FenceHolds
<1>11. ASSUME NEW o \in Owners, NEW c \in held[o], LeaveClaim(o, c)
       PROVE  PendingConfirmOK' /\ HeldClaimIsCurrentOrStale' /\ ClaimedByOne'
  BY <1>11 DEF LeaveClaim
<1>12. ASSUME NEW o \in Owners, Crash(o)
       PROVE  PendingConfirmOK' /\ HeldClaimIsCurrentOrStale' /\ ClaimedByOne'
  BY <1>12 DEF Crash
<1>13. CASE UNCHANGED vars
  BY <1>13 DEF vars
<1> QED
  BY <1>1, <1>2, <1>3, <1>4, <1>5, <1>6, <1>7, <1>8, <1>9, <1>10, <1>11,
     <1>12, <1>13 DEF Next

-----------------------------------------------------------------------------

LEMMA InitIInv == Init => IInv
BY OwnerAssumption, ShardAssumption
DEF Init, IInv, TypeOK, CallOK, AbsentRowsBlank, PendingConfirmOK,
    HeldClaimIsCurrentOrStale, ClaimedByOne, Row, Statuses, ClaimedShard,
    ProcessStates, AbsentRow

\* The inductive invariant holds in every reachable state of the claim table.
THEOREM Invariance == Spec => []IInv
<1>1. IInv /\ [Next]_vars => IInv'
  BY TypeStep, AbsentStep, FenceStep DEF IInv
<1> QED
  BY <1>1, InitIInv, PTL DEF Spec

\* Every variable of the claim protocol keeps its type.
THEOREM TypeCorrect == Spec => []TypeOK
BY Invariance, PTL DEF IInv

\* Fencing: a held claim is the row's current one or an older generation.
THEOREM Fencing == Spec => []HeldClaimIsCurrentOrStale
BY Invariance, PTL DEF IInv

\* No two workers hold the same shard and generation.
THEOREM UniqueClaims == Spec => []ClaimedByOne
BY Invariance, PTL DEF IInv

-----------------------------------------------------------------------------

\* A takeover overrides only a lapsed lease, however old the clock reading it
\* was decided on: now_s is never ahead of the clock.
THEOREM TakeoverAfterLease == Spec => NoLiveTakeover
<1> DEFINE A == \A s \in Shards :
                  rows[s].status = "claimed" /\ rows'[s].gen # rows[s].gen =>
                    rows[s].expiry < clock
<1>1. IInv /\ [Next]_vars => [A]_vars
  <2> SUFFICES ASSUME IInv, Next
               PROVE  A
    BY DEF vars
  <2> USE DEF IInv, TypeOK, CallOK, Row, ClaimedShard
  <2>1. ASSUME NEW S \in SUBSET Shards, Populate(S)
        PROVE  A
    BY <2>1 DEF Populate
  <2>2. ASSUME NEW o \in Owners, UpdateWins(o)
        PROVE  A
    BY <2>2 DEF UpdateWins, Claimable
  <2>3. ASSUME NEW o \in Owners, NEW c \in held[o], CompleteWins(o, c)
        PROVE  A
    BY <2>3 DEF CompleteWins
  <2>4. CASE UNCHANGED rows
    BY <2>4
  <2> QED
    BY <2>1, <2>2, <2>3, <2>4
    DEF Next, Tick, ReadClock, ScanDrained, ScanPick, UpdateLost, ConfirmWon,
        ConfirmLost, LeaveClaim, Crash
<1> QED
  BY <1>1, Invariance, PTL DEF Spec, NoLiveTakeover

\* Only the holder of a row's current claim can mark it done.
THEOREM DoneOnlyByHolder == Spec => DoneByCurrentClaim
<1> DEFINE A == \A s \in Shards :
       rows[s].status # "done" /\ rows'[s].status = "done" =>
         \E o \in Owners :
           /\ rows[s].owner = o
           /\ [shard |-> s, gen |-> rows[s].gen] \in held[o] \ held'[o]
<1>1. IInv /\ [Next]_vars => [A]_vars
  <2> SUFFICES ASSUME IInv, Next
               PROVE  A
    BY DEF vars
  <2> USE DEF IInv, TypeOK, CallOK, Row, ClaimedShard
  <2>1. ASSUME NEW S \in SUBSET Shards, Populate(S)
        PROVE  A
    BY <2>1 DEF Populate, AvailableRow, AbsentRow
  <2>2. ASSUME NEW o \in Owners, UpdateWins(o)
        PROVE  A
    BY <2>2 DEF UpdateWins, ClaimedRow
  <2>3. ASSUME NEW o \in Owners, NEW c \in held[o], CompleteWins(o, c)
        PROVE  A
    <3>1. /\ c \in ClaimedShard /\ c = [shard |-> c.shard, gen |-> c.gen]
          /\ rows[c.shard].owner = o /\ rows[c.shard].gen = c.gen
      BY <2>3 DEF CompleteWins, FenceHolds
    <3>2. c \in held[o] \ held'[o]
      BY <2>3 DEF CompleteWins
    <3> QED
      BY <2>3, <3>1, <3>2 DEF CompleteWins
  <2>4. CASE UNCHANGED rows
    BY <2>4
  <2> QED
    BY <2>1, <2>2, <2>3, <2>4
    DEF Next, Tick, ReadClock, ScanDrained, ScanPick, UpdateLost, ConfirmWon,
        ConfirmLost, LeaveClaim, Crash
<1> QED
  BY <1>1, Invariance, PTL DEF Spec, DoneByCurrentClaim

\* Rows only advance; a done row never changes again.
THEOREM RowsOnlyAdvance == Spec => RowsAdvance
<1> DEFINE A == \A s \in Shards :
       \/ rows'[s] = rows[s]
       \/ rows[s].status = "absent" /\ rows'[s] = AvailableRow
       \/ /\ rows[s].status \in {"available", "claimed"}
          /\ rows'[s].status = "claimed"
          /\ rows'[s].gen = rows[s].gen + 1
       \/ /\ rows[s].status = "claimed"
          /\ rows'[s] = [rows[s] EXCEPT !.status = "done"]
<1>1. IInv /\ [Next]_vars => [A]_vars
  <2> SUFFICES ASSUME IInv, Next
               PROVE  A
    BY DEF vars
  <2> USE DEF IInv, TypeOK, CallOK, Row, ClaimedShard
  <2>1. ASSUME NEW S \in SUBSET Shards, Populate(S)
        PROVE  A
    BY <2>1 DEF Populate
  <2>2. ASSUME NEW o \in Owners, UpdateWins(o)
        PROVE  A
    BY <2>2 DEF UpdateWins, Claimable, ClaimedRow
  <2>3. ASSUME NEW o \in Owners, NEW c \in held[o], CompleteWins(o, c)
        PROVE  A
    BY <2>3 DEF CompleteWins, FenceHolds, HeldClaimIsCurrentOrStale
  <2>4. CASE UNCHANGED rows
    BY <2>4
  <2> QED
    BY <2>1, <2>2, <2>3, <2>4
    DEF Next, Tick, ReadClock, ScanDrained, ScanPick, UpdateLost, ConfirmWon,
        ConfirmLost, LeaveClaim, Crash
<1> QED
  BY <1>1, Invariance, PTL DEF Spec, RowsAdvance

-----------------------------------------------------------------------------
(***************************************************************************)
(* The table implements the abstract queue.                                *)
(***************************************************************************)

LEMMA InitRefines == Init => Queue!QueueInit
BY DEF Init, Queue!QueueInit, queueRows, QueueRow, AbsentRow, Queue!AbsentRow

LEMMA StepRefines == IInv /\ [Next]_vars => [Queue!QueueNext]_(Queue!queueVars)
<1> SUFFICES ASSUME IInv, [Next]_vars
             PROVE  [Queue!QueueNext]_(Queue!queueVars)
  OBVIOUS
<1>0. TypeOK /\ CallOK /\ PendingConfirmOK
  BY DEF IInv
<1>1. CASE Tick
  <2>1. PICK S \in SUBSET Shards :
          S = {s \in Shards : rows[s].status = "claimed"
                               /\ ~(rows[s].expiry < clock)
                               /\ rows[s].expiry < clock'}
    OBVIOUS
  <2>2. queueRows' = [s \in Shards |->
                        IF s \in S THEN [queueRows[s] EXCEPT !.status = "lapsed"]
                                   ELSE queueRows[s]]
    BY <1>0, <1>1, <2>1 DEF Tick, queueRows, QueueRow, TypeOK, Row
  <2>3. \A s \in S : queueRows[s].status = "claimed"
    BY <2>1 DEF queueRows, QueueRow
  <2>4. held' = held
    BY <1>1 DEF Tick
  <2>5. Queue!Lapse(S)
    BY <2>2, <2>3, <2>4 DEF Queue!Lapse
  <2> QED
    BY <2>5 DEF Queue!QueueNext
<1>2. ASSUME NEW S \in SUBSET Shards, Populate(S)
      PROVE  Queue!QueueNext
  <2>1. queueRows' = [s \in Shards |->
                        IF s \in S /\ queueRows[s].status = "absent"
                        THEN Queue!AvailableRow ELSE queueRows[s]]
    BY <1>0, <1>2
    DEF Populate, queueRows, QueueRow, AvailableRow, AbsentRow,
        Queue!AvailableRow, Queue!AbsentRow, TypeOK, Row
  <2>2. Queue!Populate(S)
    BY <1>2, <2>1 DEF Populate, Queue!Populate
  <2> QED
    BY <2>2 DEF Queue!QueueNext
<1>3. ASSUME NEW o \in Owners, UpdateWins(o)
      PROVE  Queue!QueueNext
  <2>1. PICK s \in Shards : s = cand[o]
    BY <1>0, <1>3 DEF CallOK, UpdateWins
  <2>2. rows[s] \in Row /\ now[o] \in Nat /\ clock \in Nat /\ now[o] <= clock
    BY <1>0 DEF TypeOK, CallOK
  <2>3. queueRows[s].status \in {"available", "lapsed"}
    BY <1>3, <2>1, <2>2 DEF UpdateWins, Claimable, queueRows, QueueRow, Row
  <2>4. PICK st \in {"claimed", "lapsed"} :
          st = IF now[o] + Lease < clock THEN "lapsed" ELSE "claimed"
    OBVIOUS
  <2>5. queueRows' = [queueRows EXCEPT ![s] =
                        [status |-> st, owner |-> o, gen |-> queueRows[s].gen + 1]]
    BY <1>0, <1>3, <2>1, <2>4
    DEF UpdateWins, ClaimedRow, queueRows, QueueRow, TypeOK
  <2>6. held' = held
    BY <1>3 DEF UpdateWins
  <2>7. Queue!Take(o, s)
    BY <2>3, <2>5, <2>6 DEF Queue!Take, Queue!Claimable
  <2> QED
    BY <2>7 DEF Queue!QueueNext
<1>4. ASSUME NEW o \in Owners, ConfirmWon(o)
      PROVE  Queue!QueueNext
  <2>1. PICK s \in Shards : s = cand[o]
    BY <1>0, <1>4 DEF CallOK, ConfirmWon
  <2>2. /\ queueRows[s].status \in {"claimed", "lapsed"}
        /\ queueRows[s].owner = o
        /\ queueRows[s].gen = rows[s].gen
    BY <1>0, <1>4, <2>1 DEF PendingConfirmOK, ConfirmWon, queueRows, QueueRow
  <2>3. queueRows' = queueRows
    BY <1>4 DEF ConfirmWon, queueRows, QueueRow
  <2>4. held' = [held EXCEPT ![o] = @ \cup {[shard |-> s, gen |-> rows[s].gen]}]
    BY <1>4, <2>1 DEF ConfirmWon
  <2>5. Queue!Grant(o, s)
    BY <2>2, <2>3, <2>4 DEF Queue!Grant, Queue!UnderClaim
  <2> QED
    BY <2>5 DEF Queue!QueueNext
<1>5. ASSUME NEW o \in Owners, NEW c \in held[o], CompleteWins(o, c)
      PROVE  Queue!QueueNext
  <2>1. c.shard \in Shards
    BY <1>0 DEF TypeOK, ClaimedShard
  <2>2. queueRows[c.shard].owner = o /\ queueRows[c.shard].gen = c.gen
    BY <1>5, <2>1 DEF CompleteWins, FenceHolds, queueRows, QueueRow
  <2>3. queueRows' = [queueRows EXCEPT ![c.shard].status = "done"]
    <3>1. rows \in [Shards -> Row] /\ clock' = clock
      BY <1>0, <1>5 DEF TypeOK, CompleteWins
    <3>2. rows' = [rows EXCEPT ![c.shard].status = "done"]
      BY <1>5 DEF CompleteWins
    <3>3. ASSUME NEW s \in Shards, s # c.shard
          PROVE  queueRows'[s] = queueRows[s]
      BY <2>1, <3>1, <3>2, <3>3 DEF queueRows, QueueRow
    <3>4. rows'[c.shard] = [rows[c.shard] EXCEPT !.status = "done"]
      BY <2>1, <3>1, <3>2
    <3>5. queueRows'[c.shard] = [queueRows[c.shard] EXCEPT !.status = "done"]
      BY <2>1, <3>1, <3>4 DEF queueRows, QueueRow, Row
    <3> QED
      BY <2>1, <3>3, <3>5 DEF queueRows
  <2>4. held' = [held EXCEPT ![o] = @ \ {c}]
    BY <1>5 DEF CompleteWins
  <2>5. Queue!Finish(o, c)
    BY <2>2, <2>3, <2>4 DEF Queue!Finish
  <2> QED
    BY <2>5 DEF Queue!QueueNext
<1>6. ASSUME NEW o \in Owners, NEW c \in held[o], LeaveClaim(o, c)
      PROVE  Queue!QueueNext
  <2>1. Queue!Drop(o, {c})
    BY <1>6 DEF LeaveClaim, Queue!Drop, queueRows, QueueRow
  <2> QED
    BY <2>1 DEF Queue!QueueNext
<1>7. ASSUME NEW o \in Owners, Crash(o)
      PROVE  Queue!QueueNext
  <2>1. Queue!Drop(o, held[o])
    BY <1>7 DEF Crash, Queue!Drop, queueRows, QueueRow
  <2> QED
    BY <2>1 DEF Queue!QueueNext
<1>8. CASE UNCHANGED <<clock, rows, held>>
  BY <1>8 DEF Queue!queueVars, queueRows, QueueRow
<1> QED
  BY <1>1, <1>2, <1>3, <1>4, <1>5, <1>6, <1>7, <1>8
  DEF Next, vars, ReadClock, ScanDrained, ScanPick, UpdateLost, ConfirmLost

\* The four steps of claim(), the two outcomes of complete() and every crash
\* behave as the atomic grants, completions and losses of the queue.
THEOREM Refinement == Spec => ImplementsQueue
BY InitRefines, StepRefines, Invariance, PTL
DEF Spec, ImplementsQueue, Queue!QueueSpec
=============================================================================

------------------------ MODULE FinalizeDataset_proofs ------------------------
(***************************************************************************)
(* Proofs about FinalizeDataset.                                           *)
(*                                                                         *)
(* What is published is checked, for any number of finalizers: a chosen    *)
(* winner is a checked attempt (WinnersAreChecked), and nothing a          *)
(* finalizer or a straggler does takes that away.                          *)
(*                                                                         *)
(* What the marker vouches for is one selection, in two cases.  For        *)
(* finalizers that run one after the other: the inductive invariant says   *)
(* for each phase what the run has already put in place (Progress), and    *)
(* that after the marker nobody is at work (Sealed).  That such runs keep  *)
(* the recorded winners needs what a run knows of them since it listed the *)
(* attempts (Follows).                                                     *)
(*                                                                         *)
(* And for any number at a time, where no healthy fragment is misread: all *)
(* of them then choose the same attempt for a shard (Chooses), so one run  *)
(* overwrites what another has put in place with the same.  What happens   *)
(* where one is misread is the run fin_read_error.                         *)
(***************************************************************************)
EXTENDS FinalizeDataset, TLAPS

\* Whatever a finalizer has chosen for a shard passed the checks.
WinnersAreChecked ==
  \A f \in Finalizers, s \in Shards :
    winner[f][s] # NoAttempt => winner[f][s] \in AttemptsOf(s) \ damaged

\* No split is committed before the winners are chosen, and there is one left
\* while splits are being committed.
SplitLeft ==
  \A f \in Finalizers :
    /\ pc[f] \in {"list", "recall", "select", "decide"} => at[f] = 1
    /\ pc[f] \in {"commit", "estimate", "recheck", "upload"} => at[f] \in 1 .. NumSplits

TypeInv == TypeOK /\ SplitLeft
CheckedInv == TypeInv /\ WinnersAreChecked /\ PublishedIsChecked

-----------------------------------------------------------------------------
(***************************************************************************)
(* Types.                                                                  *)
(***************************************************************************)

LEMMA RestrictedType ==
  ASSUME NEW sel \in Selection
  PROVE  OnTrain(sel) \in TrainSelection
  BY DEF OnTrain, TrainSelection, Selection, Train

LEMMA NoSelectionType ==
  /\ NoSelection \in Selection
  /\ NoNorm \in Normalization /\ ForeignNorm \in Normalization
<1>1. NoSelection \in Selection
  BY DEF NoSelection, Selection
<1>2. OnTrain(NoSelection) \in TrainSelection
  BY <1>1, RestrictedType
<1>3. NoNorm \in Normalization
  BY <1>2 DEF NoNorm, Normalization
<1>4. ForeignNorm \in Normalization
  BY <1>2 DEF NoNorm, ForeignNorm, Normalization
<1> QED BY <1>1, <1>3, <1>4

LEMMA AttemptChange ==
  ASSUME NEW a \in Attempts, NEW rec \in Attempt, staged \in [Attempts -> Attempt]
  PROVE  [staged EXCEPT ![a] = rec] \in [Attempts -> Attempt]
  OBVIOUS

LEMMA InitTypes == Init => TypeInv
<1> SUFFICES ASSUME Init PROVE TypeInv
  OBVIOUS
<1>1. UnusedAttempt \in Attempt
  BY DEF UnusedAttempt, Attempt, Objects
<1>2. staged \in [Attempts -> Attempt]
  BY <1>1 DEF Init
<1>3. norm \in Normalization
  BY NoSelectionType DEF Init
<1>4. /\ manifest \in Selection /\ card \in Selection
      /\ welford \in TrainSelection
      /\ prefer \in [Finalizers -> Selection] /\ winner \in [Finalizers -> Selection]
      /\ sample \in [Finalizers -> TrainSelection]
  BY NoSelectionType, RestrictedType DEF Init
<1>5. at \in [Finalizers -> 1 .. NumSplits + 1]
  BY SplitAssumption DEF Init
<1>6. reuse \in [Finalizers -> BOOLEAN] /\ complete \in BOOLEAN
  BY DEF Init
<1> QED
  BY <1>2, <1>3, <1>4, <1>5, <1>6, BoundsAssumption
  DEF Init, TypeInv, TypeOK, SplitLeft, Phases, Ended

LEMMA AdvanceTypes ==
  ASSUME TypeInv, NEW f \in Finalizers, Advance(f),
         pc[f] \in {"commit", "recheck", "upload"}
  PROVE  /\ at' \in [Finalizers -> 1 .. NumSplits + 1]
         /\ pc' \in [Finalizers -> Phases]
         /\ SplitLeft'
<1>1. /\ at \in [Finalizers -> 1 .. NumSplits + 1] /\ pc \in [Finalizers -> Phases]
      /\ at' = [at EXCEPT ![f] = at[f] + 1]
      /\ pc' = [pc EXCEPT ![f] = IF at[f] = NumSplits THEN "welford" ELSE "commit"]
      /\ at[f] \in 1 .. NumSplits
  BY DEF TypeInv, TypeOK, SplitLeft, Advance, Enter
<1>2. at[f] + 1 \in 1 .. NumSplits + 1 /\ (at[f] # NumSplits => at[f] + 1 \in 1 .. NumSplits)
  BY <1>1, SplitAssumption
<1>3. at' \in [Finalizers -> 1 .. NumSplits + 1] /\ pc' \in [Finalizers -> Phases]
  BY <1>1, <1>2 DEF Phases
<1>4. ASSUME NEW g \in Finalizers
      PROVE  /\ pc'[g] \in {"list", "recall", "select", "decide"} => at'[g] = 1
             /\ pc'[g] \in {"commit", "estimate", "recheck", "upload"} =>
                  at'[g] \in 1 .. NumSplits
  <2>1. CASE g = f
    BY <1>1, <1>2, <2>1
  <2>2. CASE g # f
    BY <1>1, <2>2 DEF TypeInv, SplitLeft
  <2> QED BY <2>1, <2>2
<1> QED BY <1>3, <1>4 DEF SplitLeft

LEMMA TypeStep == TypeInv /\ [Next]_vars => TypeInv'
<1> SUFFICES ASSUME TypeInv, [Next]_vars PROVE TypeInv'
  OBVIOUS
<1> USE SplitAssumption
<1>1. ASSUME NEW a \in Attempts, NEW s \in Shards, Arrive(a, s)
      PROVE  TypeInv'
  <2> DEFINE rec == [shard |-> s, objects |-> Objects \ {"invalid"}, data |-> a, stats |-> a]
  <2>1. rec \in Attempt
    BY DEF Attempt
  <2>2. staged' = [staged EXCEPT ![a] = rec] /\ staged \in [Attempts -> Attempt]
    BY <1>1 DEF Arrive, TypeInv, TypeOK
  <2>3. staged' \in [Attempts -> Attempt]
    BY <2>1, <2>2, AttemptChange
  <2>4. mtime' \in [Attempts -> Nat] /\ damaged' \in SUBSET Attempts
    BY <1>1 DEF Arrive, TypeInv, TypeOK
  <2> QED
    BY <1>1, <2>3, <2>4 DEF Arrive, TypeInv, TypeOK, SplitLeft, published, run
<1>2. ASSUME NEW f \in Finalizers, NEW m \in Modes, Start(f, m)
      PROVE  TypeInv'
  BY <1>2, NoSelectionType, RestrictedType, ModesAssumption
  DEF Start, Enter, Advance, TypeInv, TypeOK, SplitLeft, Phases, Ended, published, run,
      Selection, Normalization
<1>3. ASSUME NEW f \in Finalizers, SkipFinalized(f)
      PROVE  TypeInv'
  BY <1>3
  DEF SkipFinalized, Enter, Advance, TypeInv, TypeOK, SplitLeft, Phases, Ended, published, run,
      Selection, Normalization
<1>4. ASSUME NEW f \in Finalizers, List(f)
      PROVE  TypeInv'
  <2>1. {a \in Attempts : ~Unused(a) /\ Complete(a)} \in SUBSET Attempts
    OBVIOUS
  <2>2. seen' \in [Finalizers -> SUBSET Attempts]
    BY <1>4, <2>1 DEF List, TypeInv, TypeOK
  <2>3. pc' = [pc EXCEPT ![f] = "recall"] \/ pc' = [pc EXCEPT ![f] = "failed"]
    BY <1>4 DEF List, Enter
  <2>4. pc[f] = "list"
    BY <1>4 DEF List
  <2>5. /\ UNCHANGED <<staged, mtime, damaged, published, mode, prefer, winner,
                        reuse, at, sample, readErrors, faults>>
    BY <1>4 DEF List
  <2> QED
    BY <2>2, <2>3, <2>4, <2>5 DEF TypeInv, TypeOK, SplitLeft, Phases, Ended, published
<1>5. ASSUME NEW f \in Finalizers, ReadCard(f)
      PROVE  TypeInv'
  BY <1>5
  DEF ReadCard, Enter, Advance, TypeInv, TypeOK, SplitLeft, Phases, Ended, published, run,
      Selection, Normalization
<1>6. ASSUME NEW f \in Finalizers, NEW s \in Shards, NEW a \in Attempts, Accept(f, s, a)
      PROVE  TypeInv'
  <2>1. /\ pc[f] = "select"
        /\ pc' = [pc EXCEPT ![f] = "select"] \/ pc' = [pc EXCEPT ![f] = "decide"]
             \/ pc' = [pc EXCEPT ![f] = "commit"]
    BY <1>6 DEF Accept, Enter, Candidate, Selecting
  <2>2. winner' \in [Finalizers -> Selection]
    BY <1>6 DEF Accept, TypeInv, TypeOK, Selection
  <2>3. UNCHANGED at /\ 1 \in 1 .. NumSplits
    BY <1>6 DEF Accept
  <2>4. SplitLeft' /\ pc' \in [Finalizers -> Phases]
    BY <2>1, <2>3 DEF TypeInv, TypeOK, SplitLeft, Phases
  <2> QED
    BY <1>6, <2>2, <2>4 DEF Accept, TypeInv, TypeOK, published
<1>7. ASSUME NEW f \in Finalizers, NEW s \in Shards, NEW a \in Attempts, Reject(f, s, a)
      PROVE  TypeInv'
  <2> DEFINE rec == [staged[a] EXCEPT !.objects = staged[a].objects \cup {"invalid"}]
  <2>1. staged \in [Attempts -> Attempt] /\ staged' = [staged EXCEPT ![a] = rec]
    BY <1>7 DEF Reject, TypeInv, TypeOK
  <2>2. rec \in Attempt
    <3>1. staged[a] \in Attempt
      BY <2>1
    <3> QED
      BY <3>1 DEF Attempt, Objects
  <2>3. staged' \in [Attempts -> Attempt]
    BY <2>1, <2>2, AttemptChange
  <2>4. readErrors' \in 0 .. MaxReadErrors
    BY <1>7, BoundsAssumption DEF Reject, TypeInv, TypeOK
  <2>5. seen' \in [Finalizers -> SUBSET Attempts]
    BY <1>7 DEF Reject, TypeInv, TypeOK
  <2> QED
    BY <1>7, <2>3, <2>4, <2>5 DEF Reject, TypeInv, TypeOK, SplitLeft, published
<1>8. ASSUME NEW f \in Finalizers, NEW s \in Shards, NoneHealthy(f, s)
      PROVE  TypeInv'
  BY <1>8
  DEF NoneHealthy, Enter, Advance, TypeInv, TypeOK, SplitLeft, Phases, Ended, published, run,
      Selection, Normalization
<1>9. ASSUME NEW f \in Finalizers, Decide(f)
      PROVE  TypeInv'
  <2>1. ReusesStats(f) \in BOOLEAN
    BY DEF ReusesStats
  <2>2. reuse' \in [Finalizers -> BOOLEAN]
    BY <1>9, <2>1, Zenon DEF Decide, TypeInv, TypeOK
  <2>3. UNCHANGED <<staged, mtime, damaged, published, mode, seen, prefer, winner,
                    at, sample, readErrors, faults>>
    BY <1>9 DEF Decide
  <2>4. pc[f] = "decide" /\ pc' = [pc EXCEPT ![f] = "commit"]
    BY <1>9 DEF Decide, Enter
  <2>5. pc' \in [Finalizers -> Phases] /\ SplitLeft'
    BY <2>3, <2>4 DEF TypeInv, TypeOK, SplitLeft, Phases
  <2> QED
    BY <2>2, <2>3, <2>5 DEF TypeInv, TypeOK, published
<1>10. ASSUME NEW f \in Finalizers, CommitSplit(f)
      PROVE  TypeInv'
  <2>1. manifest' \in Selection
    BY <1>10 DEF CommitSplit, TypeInv, TypeOK, Selection
  <2>2. at' \in [Finalizers -> 1 .. NumSplits + 1] /\ pc' \in [Finalizers -> Phases] /\ SplitLeft'
    <3>1. CASE Advance(f)
      BY <1>10, <3>1, AdvanceTypes DEF CommitSplit
    <3>2. CASE Enter(f, "estimate") /\ UNCHANGED at
      BY <1>10, <3>2 DEF CommitSplit, Enter, TypeInv, TypeOK, SplitLeft, Phases
    <3> QED BY <1>10, <3>1, <3>2 DEF CommitSplit
  <2> QED
    BY <1>10, <2>1, <2>2 DEF CommitSplit, TypeInv, TypeOK
<1>11. ASSUME NEW f \in Finalizers, Estimate(f)
      PROVE  TypeInv'
  BY <1>11, RestrictedType
  DEF Estimate, Enter, Advance, TypeInv, TypeOK, SplitLeft, Phases, Ended, published, run,
      Selection, Normalization
<1>12. ASSUME NEW f \in Finalizers, Recheck(f)
      PROVE  TypeInv'
  <2>1. at' \in [Finalizers -> 1 .. NumSplits + 1] /\ pc' \in [Finalizers -> Phases] /\ SplitLeft'
    <3>1. CASE Advance(f)
      BY <1>12, <3>1, AdvanceTypes DEF Recheck
    <3>2. CASE Enter(f, "upload") /\ UNCHANGED at
      BY <1>12, <3>2 DEF Recheck, Enter, TypeInv, TypeOK, SplitLeft, Phases
    <3> QED BY <1>12, <3>1, <3>2 DEF Recheck
  <2> QED
    BY <1>12, <2>1 DEF Recheck, TypeInv, TypeOK, published
<1>13. ASSUME NEW f \in Finalizers, UploadEstimate(f)
      PROVE  TypeInv'
  <2>1. at' \in [Finalizers -> 1 .. NumSplits + 1] /\ pc' \in [Finalizers -> Phases] /\ SplitLeft'
    BY <1>13, AdvanceTypes DEF UploadEstimate
  <2>2. OnTrain(winner[f]) \in TrainSelection /\ sample[f] \in TrainSelection
    BY RestrictedType DEF TypeInv, TypeOK
  <2>3. norm' \in Normalization
    BY <1>13, <2>2 DEF UploadEstimate, Normalization
  <2> QED
    BY <1>13, <2>1, <2>3 DEF UploadEstimate, TypeInv, TypeOK
<1>14. ASSUME NEW f \in Finalizers, UploadWelford(f)
      PROVE  TypeInv'
  BY <1>14, RestrictedType
  DEF UploadWelford, Enter, Advance, TypeInv, TypeOK, SplitLeft, Phases, Ended, published, run,
      Selection, Normalization
<1>15. ASSUME NEW f \in Finalizers, UploadStats(f)
      PROVE  TypeInv'
  BY <1>15, RestrictedType
  DEF UploadStats, Enter, Advance, TypeInv, TypeOK, SplitLeft, Phases, Ended, published, run,
      Selection, Normalization
<1>16. ASSUME NEW f \in Finalizers, WriteCard(f)
      PROVE  TypeInv'
  BY <1>16
  DEF WriteCard, Enter, Advance, TypeInv, TypeOK, SplitLeft, Phases, Ended, published, run,
      Selection, Normalization
<1>17. ASSUME NEW f \in Finalizers, MarkComplete(f)
      PROVE  TypeInv'
  BY <1>17
  DEF MarkComplete, Enter, Advance, TypeInv, TypeOK, SplitLeft, Phases, Ended, published, run,
      Selection, Normalization
<1>18. ASSUME NEW f \in Finalizers, Fail(f)
      PROVE  TypeInv'
  BY <1>18, BoundsAssumption
  DEF Fail, Enter, Advance, TypeInv, TypeOK, SplitLeft, Phases, Ended, published, run,
      Selection, Normalization
<1>19. ASSUME UNCHANGED vars
      PROVE  TypeInv'
  BY <1>19 DEF vars, published, run, TypeInv, TypeOK, SplitLeft
<1> QED
  BY <1>1, <1>2, <1>3, <1>4, <1>5, <1>6, <1>7, <1>8, <1>9, <1>10, <1>11, <1>12, <1>13, <1>14, <1>15, <1>16, <1>17, <1>18, <1>19
  DEF Next, Restart, Step, SelectStep, PublishStep

\* FinalizeDataset's state stays in its types, for any number of finalizers:
\* in particular a run never commits a split beyond the last one.
THEOREM FinalizeTypes == Spec => []TypeOK
<1>1. TypeInv /\ [Next]_vars => TypeInv'
  BY TypeStep
<1>2. TypeInv => TypeOK
  BY DEF TypeInv
<1> QED BY InitTypes, <1>1, <1>2, PTL DEF Spec

-----------------------------------------------------------------------------
(***************************************************************************)
(* What is published is checked.                                           *)
(***************************************************************************)

\* A healthy attempt of a shard stays one.
LEMMA HealthyStays ==
  ASSUME TypeInv, [Next]_vars, NEW s \in Shards, NEW a \in AttemptsOf(s) \ damaged
  PROVE  a \in (AttemptsOf(s))' \ damaged'
<1>1. a \in Attempts /\ staged[a].shard = s /\ a \notin damaged
  BY DEF AttemptsOf
<1>2. ASSUME NEW b \in Attempts, NEW r \in Shards, Arrive(b, r)
      PROVE  staged'[a].shard = s /\ a \notin damaged'
  <2>1. a # b
    BY <1>1, <1>2, NoShardAssumption DEF Arrive, Unused
  <2> QED
    BY <1>1, <1>2, <2>1 DEF Arrive, TypeInv, TypeOK
<1>3. ASSUME NEW f \in Finalizers, NEW r \in Shards, NEW b \in Attempts, Reject(f, r, b)
      PROVE  staged'[a].shard = s /\ a \notin damaged'
  <2>1. staged[a] \in Attempt /\ staged[b] \in Attempt
    BY <1>1 DEF TypeInv, TypeOK
  <2>2. [staged[b] EXCEPT !.objects = staged[b].objects \cup {"invalid"}].shard
          = staged[b].shard
    BY <2>1 DEF Attempt
  <2>3. staged' = [staged EXCEPT ![b] =
          [staged[b] EXCEPT !.objects = staged[b].objects \cup {"invalid"}]]
    BY <1>3 DEF Reject
  <2>4. staged'[a].shard = s
    BY <1>1, <2>2, <2>3 DEF TypeInv, TypeOK
  <2> QED
    BY <1>1, <1>3, <2>4 DEF Reject
<1>4. ASSUME /\ \A b \in Attempts, r \in Shards : ~Arrive(b, r)
             /\ \A f \in Finalizers, r \in Shards, b \in Attempts : ~Reject(f, r, b)
      PROVE  UNCHANGED <<staged, damaged>>
  BY <1>4
  DEF Next, vars, Restart, Step, SelectStep, PublishStep, Start, SkipFinalized, List, ReadCard,
      Accept, NoneHealthy, Decide, CommitSplit, Estimate, Recheck, UploadEstimate,
      UploadWelford, UploadStats, WriteCard, MarkComplete, Fail
<1> QED
  BY <1>1, <1>2, <1>3, <1>4 DEF AttemptsOf

LEMMA CheckedStep == CheckedInv /\ [Next]_vars => CheckedInv'
<1> SUFFICES ASSUME CheckedInv, [Next]_vars PROVE CheckedInv'
  OBVIOUS
<1>1. TypeInv /\ TypeInv'
  BY TypeStep DEF CheckedInv
<1>2. \A s \in Shards : \A a \in AttemptsOf(s) \ damaged : a \in (AttemptsOf(s))' \ damaged'
  BY <1>1, HealthyStays
<1>3. ASSUME NEW f \in Finalizers, NEW s \in Shards, winner'[f][s] # NoAttempt
      PROVE  winner'[f][s] = winner[f][s] \/ winner'[f][s] \in AttemptsOf(s) \ damaged
  <2>1. ASSUME NEW g \in Finalizers, NEW m \in Modes, Start(g, m)
        PROVE  winner'[f][s] = winner[f][s]
    BY <1>1, <1>3, <2>1 DEF Start, NoSelection, TypeInv, TypeOK
  <2>2. ASSUME NEW g \in Finalizers, NEW r \in Shards, NEW a \in Attempts, Accept(g, r, a)
        PROVE  winner'[f][s] = winner[f][s] \/ winner'[f][s] \in AttemptsOf(s) \ damaged
    <3>1. a \in AttemptsOf(r) \ damaged /\ winner' = [winner EXCEPT ![g][r] = a]
      BY <2>2 DEF Accept, Candidate, Candidates
    <3>2. winner'[f][s] = winner[f][s] \/ (r = s /\ winner'[f][s] = a)
      BY <1>1, <3>1 DEF TypeInv, TypeOK, Selection
    <3> QED BY <3>1, <3>2
  <2>3. ASSUME /\ \A g \in Finalizers, m \in Modes : ~Start(g, m)
               /\ \A g \in Finalizers, r \in Shards, a \in Attempts : ~Accept(g, r, a)
        PROVE  UNCHANGED winner
    BY <2>3
    DEF Next, vars, run, Restart, Step, SelectStep, PublishStep, Arrive, SkipFinalized, List,
        ReadCard, Reject, NoneHealthy, Decide, CommitSplit, Estimate, Recheck, UploadEstimate,
        UploadWelford, UploadStats, WriteCard, MarkComplete, Fail
  <2> QED BY <2>1, <2>2, <2>3
<1>4. WinnersAreChecked'
  BY <1>2, <1>3 DEF CheckedInv, WinnersAreChecked
<1>5. ASSUME NEW s \in Shards
      PROVE  /\ manifest'[s] = manifest[s] \/ \E f \in Finalizers : manifest'[s] = winner[f][s]
             /\ card'[s] = card[s] \/ \E f \in Finalizers : card'[s] = winner[f][s]
  <2>1. ASSUME NEW f \in Finalizers, CommitSplit(f)
        PROVE  /\ manifest'[s] = manifest[s] \/ manifest'[s] = winner[f][s]
               /\ card' = card
    BY <2>1 DEF CommitSplit
  <2>2. ASSUME NEW f \in Finalizers, WriteCard(f)
        PROVE  card' = winner[f] /\ manifest' = manifest
    BY <2>2 DEF WriteCard
  <2>3. ASSUME \A f \in Finalizers : ~CommitSplit(f) /\ ~WriteCard(f)
        PROVE  UNCHANGED <<manifest, card>>
    BY <2>3
    DEF Next, vars, published, Restart, Step, SelectStep, PublishStep, Arrive, Start,
        SkipFinalized, List, ReadCard, Accept, Reject, NoneHealthy, Decide, Estimate, Recheck,
        UploadEstimate, UploadWelford, UploadStats, MarkComplete, Fail
  <2> QED BY <2>1, <2>2, <2>3
<1>6. ASSUME NEW s \in Shards, NEW a \in {manifest'[s], card'[s]} \ {NoAttempt}
      PROVE  a \in (AttemptsOf(s))' \ damaged'
  <2>1. a \in AttemptsOf(s) \ damaged
    BY <1>5, <1>6 DEF CheckedInv, WinnersAreChecked, PublishedIsChecked
  <2> QED BY <1>2, <2>1
<1> QED
  BY <1>1, <1>4, <1>6 DEF CheckedInv, PublishedIsChecked

\* Every attempt in a split's manifest or in the card belongs to its shard and
\* passed finalize's checks, whatever other finalizers, stragglers, failures and
\* restarts do in between.
THEOREM PublishedAttemptsAreChecked == Spec => []PublishedIsChecked
<1>1. Init => CheckedInv
  <2>1. Init => WinnersAreChecked /\ PublishedIsChecked
    BY DEF Init, WinnersAreChecked, PublishedIsChecked, NoSelection
  <2> QED BY <2>1, InitTypes DEF CheckedInv
<1>2. CheckedInv => PublishedIsChecked
  BY DEF CheckedInv
<1> QED BY <1>1, <1>2, CheckedStep, PTL DEF Spec

-----------------------------------------------------------------------------
(***************************************************************************)
(* One finalizer at a time: the marker vouches for one selection.          *)
(***************************************************************************)
Serial == \A f, g \in Finalizers : f = g

Publishing == {"commit", "estimate", "recheck", "upload", "welford", "stats", "record", "mark"}
Summing == {"welford", "stats", "record", "mark"}

\* The normalization statistics may be published with selection sel.
NormIsOf(sel) ==
  \/ norm.kind = "foreign"
  \/ norm.kind = "ours" /\ norm.of = OnTrain(sel) /\ norm.stamp = OnTrain(sel)

\* Statistics are of the attempts their provenance names.
Honest == norm.kind = "ours" => norm.of = norm.stamp

AllChosen(f) ==
  pc[f] \in Publishing \cup {"decide"} => \A s \in Shards : winner[f][s] # NoAttempt

SplitsCommitted(f) ==
  /\ pc[f] \in Publishing =>
       \A s \in Shards : SplitOf[s] < at[f] => manifest[s] = winner[f][s]
  /\ pc[f] \in Summing => at[f] = NumSplits + 1

SampleTaken(f) ==
  /\ pc[f] \in {"estimate", "recheck", "upload"} =>
       at[f] = 1 /\ OnTrain(manifest) = OnTrain(winner[f])
  /\ pc[f] \in {"recheck", "upload"} => sample[f] = OnTrain(winner[f])

NormReady(f) ==
  /\ pc[f] \in Publishing /\ mode[f] = "estimate" /\ (reuse[f] \/ at[f] > 1) =>
       NormIsOf(winner[f])
  /\ pc[f] \in {"record", "mark"} => NormIsOf(winner[f])

SumsReady(f) ==
  /\ pc[f] \in {"stats", "record", "mark"} => welford = OnTrain(winner[f])
  /\ pc[f] = "mark" => card = winner[f]

Progress(f) ==
  AllChosen(f) /\ SplitsCommitted(f) /\ SampleTaken(f) /\ NormReady(f) /\ SumsReady(f)

\* After the marker nobody is at work.
Sealed == complete => CompleteIsOneSelection /\ \A f \in Finalizers : pc[f] \in Ended

SerialInv == TypeInv /\ Honest /\ Sealed /\ \A f \in Finalizers : Progress(f)

LEMMA SerialInit == Init => SerialInv
<1> SUFFICES ASSUME Init PROVE SerialInv
  OBVIOUS
<1>1. norm.kind # "ours"
  BY DEF Init, NoNorm, ForeignNorm
<1>2. Honest /\ Sealed
  BY <1>1 DEF Init, Honest, Sealed
<1>3. ASSUME NEW f \in Finalizers PROVE Progress(f)
  <2>1. pc[f] = "off"
    BY DEF Init
  <2> QED
    BY <2>1 DEF Progress, AllChosen, SplitsCommitted, SampleTaken, NormReady, SumsReady,
                Publishing, Summing
<1> QED BY InitTypes, <1>2, <1>3 DEF SerialInv

\* Past the train split, whose manifest and statistics are in place.
LEMMA TrainCommitted ==
  ASSUME TypeInv, NEW f \in Finalizers, Advance(f), pc[f] \in {"recheck", "upload"},
         UNCHANGED <<winner, manifest>>,
         at[f] = 1, OnTrain(manifest) = OnTrain(winner[f]),
         \A s \in Shards : winner[f][s] # NoAttempt,
         NormIsOf(winner[f])'
  PROVE  Progress(f)'
<1> USE SplitAssumption
<1>1. at'[f] = 2 /\ pc'[f] = IF NumSplits = 1 THEN "welford" ELSE "commit"
  BY DEF Advance, Enter, TypeInv, TypeOK
<1>2. ASSUME NEW s \in Shards, SplitOf[s] < 2 PROVE manifest[s] = winner[f][s]
  <2>1. s \in Train
    BY <1>2 DEF Train
  <2> QED BY <2>1 DEF OnTrain
<1>3. SplitsCommitted(f)'
  BY <1>1, <1>2 DEF SplitsCommitted, Summing
<1>4. NormReady(f)'
  BY DEF NormReady
<1> QED
  BY <1>1, <1>3, <1>4 DEF Progress, AllChosen, SampleTaken, SumsReady

\* What a finalizer's own step does to what it has put in place.
LEMMA ProgressStep ==
  ASSUME TypeInv, Honest, NEW f \in Finalizers, Progress(f),
         Restart(f) \/ SkipFinalized(f) \/ Step(f) \/ Fail(f)
  PROVE  Progress(f)' /\ Honest'
<1> USE SplitAssumption
<1>1. ASSUME NEW m \in Modes, Start(f, m)
      PROVE  Progress(f)' /\ Honest'
  <2>1. Honest'
    BY <1>1 DEF Start, Honest, published
  <2>2. Progress(f)'
    BY <1>1 DEF Start, Candidate, Selecting, Enter, TypeInv, TypeOK,
      SplitLeft, published, NormIsOf,
      Progress, AllChosen, SplitsCommitted, SampleTaken, NormReady, SumsReady, Publishing, Summing
  <2> QED BY <2>1, <2>2
<1>2. ASSUME SkipFinalized(f)
      PROVE  Progress(f)' /\ Honest'
  <2>1. Honest'
    BY <1>2 DEF SkipFinalized, Honest, published
  <2>2. Progress(f)'
    BY <1>2 DEF SkipFinalized, Candidate, Selecting, Enter, TypeInv, TypeOK,
      SplitLeft, published, NormIsOf,
      Progress, AllChosen, SplitsCommitted, SampleTaken, NormReady, SumsReady, Publishing, Summing
  <2> QED BY <2>1, <2>2
<1>3. ASSUME List(f)
      PROVE  Progress(f)' /\ Honest'
  <2>1. Honest'
    BY <1>3 DEF List, Honest, published
  <2>2. Progress(f)'
    BY <1>3 DEF List, Candidate, Selecting, Enter, TypeInv, TypeOK,
      SplitLeft, published, NormIsOf,
      Progress, AllChosen, SplitsCommitted, SampleTaken, NormReady, SumsReady, Publishing, Summing
  <2> QED BY <2>1, <2>2
<1>4. ASSUME ReadCard(f)
      PROVE  Progress(f)' /\ Honest'
  <2>1. Honest'
    BY <1>4 DEF ReadCard, Honest, published
  <2>2. Progress(f)'
    BY <1>4 DEF ReadCard, Candidate, Selecting, Enter, TypeInv, TypeOK,
      SplitLeft, published, NormIsOf,
      Progress, AllChosen, SplitsCommitted, SampleTaken, NormReady, SumsReady, Publishing, Summing
  <2> QED BY <2>1, <2>2
<1>5. ASSUME NEW s \in Shards, NEW a \in Attempts, Accept(f, s, a)
      PROVE  Progress(f)' /\ Honest'
  <2>1. Honest'
    BY <1>5 DEF Accept, Honest, published
  <2>2. /\ winner' = [winner EXCEPT ![f][s] = a] /\ a # NoAttempt /\ pc[f] = "select"
        /\ pc' = [pc EXCEPT ![f] =
              IF \E r \in Shards \ {s} : winner[f][r] = NoAttempt THEN "select"
              ELSE IF mode[f] = "estimate" THEN "decide" ELSE "commit"]
        /\ UNCHANGED <<at, mode>>
    BY <1>5 DEF Accept, Candidate, Selecting, Enter, Attempts, NoAttempt
  <2>3. at'[f] = 1
    BY <2>2 DEF TypeInv, SplitLeft
  <2>4. AllChosen(f)'
    <3>1. ASSUME NEW r \in Shards, pc'[f] # "select" PROVE winner'[f][r] # NoAttempt
      BY <2>2, <3>1 DEF TypeInv, TypeOK, Selection
    <3> QED BY <3>1 DEF AllChosen, Publishing
  <2>5. pc'[f] \in {"select", "decide", "commit"} /\ (pc'[f] = "commit" => mode'[f] # "estimate")
    BY <2>2 DEF TypeInv, TypeOK
  <2>6. ASSUME NEW r \in Shards PROVE ~(SplitOf[r] < 1)
    OBVIOUS
  <2>7. Progress(f)'
    BY <2>3, <2>4, <2>5, <2>6
    DEF Progress, SplitsCommitted, SampleTaken, NormReady, SumsReady, Publishing, Summing
  <2> QED BY <2>1, <2>7
<1>6. ASSUME NEW s \in Shards, NEW a \in Attempts, Reject(f, s, a)
      PROVE  Progress(f)' /\ Honest'
  <2>1. Honest'
    BY <1>6 DEF Reject, Honest, published
  <2>2. Progress(f)'
    BY <1>6 DEF Reject, Candidate, Selecting, Enter, TypeInv, TypeOK,
      SplitLeft, published, NormIsOf,
      Progress, AllChosen, SplitsCommitted, SampleTaken, NormReady, SumsReady, Publishing, Summing
  <2> QED BY <2>1, <2>2
<1>7. ASSUME NEW s \in Shards, NoneHealthy(f, s)
      PROVE  Progress(f)' /\ Honest'
  <2>1. Honest'
    BY <1>7 DEF NoneHealthy, Honest, published
  <2>2. Progress(f)'
    BY <1>7 DEF NoneHealthy, Candidate, Selecting, Enter, TypeInv, TypeOK,
      SplitLeft, published, NormIsOf,
      Progress, AllChosen, SplitsCommitted, SampleTaken, NormReady, SumsReady, Publishing, Summing
  <2> QED BY <2>1, <2>2
<1>8. ASSUME Decide(f)
      PROVE  Progress(f)' /\ Honest'
  <2>1. Honest'
    BY <1>8 DEF Decide, Honest, published
  <2>2. /\ pc[f] = "decide" /\ pc'[f] = "commit" /\ at'[f] = 1
        /\ UNCHANGED <<winner, norm>>
    BY <1>8 DEF Decide, Enter, TypeInv, TypeOK, SplitLeft, published
  <2>3. reuse'[f] => ReusesStats(f)
    BY <1>8, Zenon DEF Decide, TypeInv, TypeOK
  <2>4. ReusesStats(f) => NormIsOf(winner[f])
    BY DEF ReusesStats, NormIsOf, Honest
  <2>5. reuse'[f] => NormIsOf(winner[f])'
    BY <2>2, <2>3, <2>4 DEF NormIsOf, OnTrain
  <2>6. AllChosen(f)'
    BY <2>2 DEF Progress, AllChosen
  <2>7. ASSUME NEW r \in Shards PROVE ~(SplitOf[r] < 1)
    OBVIOUS
  <2>8. Progress(f)'
    BY <2>2, <2>5, <2>6, <2>7
    DEF Progress, SplitsCommitted, SampleTaken, NormReady, SumsReady, Publishing, Summing
  <2> QED BY <2>1, <2>8
<1>9. ASSUME CommitSplit(f)
      PROVE  Progress(f)' /\ Honest'
  <2>1. Honest'
    BY <1>9 DEF CommitSplit, Honest, published
  <2>2. /\ pc[f] = "commit" /\ UNCHANGED <<winner, norm, mode, reuse>>
        /\ manifest' = [s \in Shards |->
                          IF SplitOf[s] = at[f] THEN winner[f][s] ELSE manifest[s]]
        /\ \A s \in Shards : winner[f][s] # NoAttempt
        /\ \A s \in Shards : SplitOf[s] < at[f] => manifest[s] = winner[f][s]
        /\ at[f] \in 1 .. NumSplits
    BY <1>9
    DEF CommitSplit, Progress, AllChosen, SplitsCommitted, Publishing, TypeInv, SplitLeft
  <2>3. ASSUME NEW s \in Shards, SplitOf[s] < at[f] + 1
        PROVE  manifest'[s] = winner[f][s]
    BY <2>2, <2>3
  <2>4. mode[f] = "estimate" /\ (reuse[f] \/ at[f] > 1) => NormIsOf(winner[f])'
    BY <2>2 DEF Progress, NormReady, NormIsOf, OnTrain, Publishing
  <2>5. ASSUME at[f] = 1 /\ mode[f] = "estimate" /\ ~reuse[f]
        PROVE  Progress(f)'
    <3>1. pc'[f] = "estimate" /\ at'[f] = 1
      BY <1>9, <2>5 DEF CommitSplit, Enter, TypeInv, TypeOK
    <3>2. OnTrain(manifest') = OnTrain(winner[f])
      BY <2>2, <2>5 DEF OnTrain, Train
    <3>3. \A s \in Shards : ~(SplitOf[s] < 1)
      OBVIOUS
    <3>4. ~reuse'[f]
      BY <2>2, <2>5
    <3> QED
      BY <2>2, <3>1, <3>2, <3>3, <3>4
      DEF Progress, AllChosen, SplitsCommitted, SampleTaken, NormReady, SumsReady, Publishing,
          Summing, OnTrain
  <2>6. ASSUME ~(at[f] = 1 /\ mode[f] = "estimate" /\ ~reuse[f])
        PROVE  Progress(f)'
    <3>1. /\ at'[f] = at[f] + 1
          /\ pc'[f] = IF at[f] = NumSplits THEN "welford" ELSE "commit"
      BY <1>9, <2>6 DEF CommitSplit, Advance, Enter, TypeInv, TypeOK
    <3>2. mode[f] = "estimate" => NormIsOf(winner[f])'
      <4>1. at[f] # 1 => at[f] > 1
        BY <2>2
      <4> QED BY <2>4, <2>6, <4>1
    <3>3. NormReady(f)'
      BY <2>2, <3>1, <3>2 DEF NormReady, NormIsOf, Publishing
    <3>4. SplitsCommitted(f)'
      BY <2>2, <2>3, <3>1 DEF SplitsCommitted, Summing
    <3> QED
      BY <2>2, <3>1, <3>3, <3>4 DEF Progress, AllChosen, SampleTaken, SumsReady
  <2>7. Progress(f)'
    BY <2>5, <2>6
  <2> QED BY <2>1, <2>7
<1>10. ASSUME Estimate(f)
      PROVE  Progress(f)' /\ Honest'
  <2>1. Honest'
    BY <1>10 DEF Estimate, Honest, published
  <2>2. Progress(f)'
    BY <1>10 DEF Estimate, Candidate, Selecting, Enter, TypeInv, TypeOK,
      SplitLeft, published, NormIsOf,
      Progress, AllChosen, SplitsCommitted, SampleTaken, NormReady, SumsReady, Publishing, Summing
  <2> QED BY <2>1, <2>2
<1>11. ASSUME Recheck(f)
      PROVE  Progress(f)' /\ Honest'
  <2>1. Honest'
    BY <1>11 DEF Recheck, Honest, published
  <2>2. /\ pc[f] = "recheck" /\ UNCHANGED <<winner, norm, mode, reuse, manifest, sample>>
        /\ at[f] = 1 /\ OnTrain(manifest) = OnTrain(winner[f])
        /\ \A s \in Shards : winner[f][s] # NoAttempt
        /\ sample[f] = OnTrain(winner[f])
    BY <1>11
    DEF Recheck, Progress, AllChosen, SampleTaken, Publishing, published
  <2>3. ASSUME ReusesStats(f), Advance(f)
        PROVE  Progress(f)'
    <3>1. NormIsOf(winner[f])'
      BY <2>2, <2>3 DEF ReusesStats, NormIsOf, Honest, OnTrain
    <3> QED BY <2>2, <2>3, <3>1, TrainCommitted
  <2>4. ASSUME Enter(f, "upload"), UNCHANGED at
        PROVE  Progress(f)'
    <3>1. pc'[f] = "upload" /\ at'[f] = 1
      BY <2>2, <2>4 DEF Enter, TypeInv, TypeOK
    <3>2. \A s \in Shards : ~(SplitOf[s] < 1)
      OBVIOUS
    <3>3. NormReady(f)'
      BY <2>2, <3>1 DEF Progress, NormReady, NormIsOf, Publishing, OnTrain
    <3> QED
      BY <2>2, <3>1, <3>2, <3>3
      DEF Progress, AllChosen, SplitsCommitted, SampleTaken, SumsReady, Publishing,
          Summing, OnTrain
  <2>5. Progress(f)'
    BY <1>11, <2>3, <2>4 DEF Recheck
  <2> QED BY <2>1, <2>5
<1>12. ASSUME UploadEstimate(f)
      PROVE  Progress(f)' /\ Honest'
  <2>1. /\ pc[f] = "upload" /\ UNCHANGED <<winner, manifest>> /\ Advance(f)
        /\ norm' = [kind |-> "ours", of |-> sample[f], stamp |-> OnTrain(winner[f])]
        /\ at[f] = 1 /\ OnTrain(manifest) = OnTrain(winner[f])
        /\ \A s \in Shards : winner[f][s] # NoAttempt
        /\ sample[f] = OnTrain(winner[f])
    BY <1>12
    DEF UploadEstimate, Progress, AllChosen, SampleTaken, Publishing
  <2>2. Honest' /\ NormIsOf(winner[f])'
    BY <2>1 DEF Honest, NormIsOf, OnTrain
  <2>3. Progress(f)'
    BY <2>1, <2>2, TrainCommitted
  <2> QED BY <2>2, <2>3
<1>13. ASSUME UploadWelford(f)
      PROVE  Progress(f)' /\ Honest'
  <2>1. Honest'
    BY <1>13 DEF UploadWelford, Honest, published
  <2>2. Progress(f)'
    BY <1>13 DEF UploadWelford, Candidate, Selecting, Enter, TypeInv, TypeOK,
      SplitLeft, published, NormIsOf,
      Progress, AllChosen, SplitsCommitted, SampleTaken, NormReady, SumsReady, Publishing, Summing
  <2> QED BY <2>1, <2>2
<1>14. ASSUME UploadStats(f)
      PROVE  Progress(f)' /\ Honest'
  <2>1. Honest'
    BY <1>14 DEF UploadStats, Honest, published
  <2>2. Progress(f)'
    BY <1>14 DEF UploadStats, Candidate, Selecting, Enter, TypeInv, TypeOK,
      SplitLeft, published, NormIsOf,
      Progress, AllChosen, SplitsCommitted, SampleTaken, NormReady, SumsReady, Publishing, Summing
  <2> QED BY <2>1, <2>2
<1>15. ASSUME WriteCard(f)
      PROVE  Progress(f)' /\ Honest'
  <2>1. Honest'
    BY <1>15 DEF WriteCard, Honest, published
  <2>2. Progress(f)'
    BY <1>15 DEF WriteCard, Candidate, Selecting, Enter, TypeInv, TypeOK,
      SplitLeft, published, NormIsOf,
      Progress, AllChosen, SplitsCommitted, SampleTaken, NormReady, SumsReady, Publishing, Summing
  <2> QED BY <2>1, <2>2
<1>16. ASSUME MarkComplete(f)
      PROVE  Progress(f)' /\ Honest'
  <2>1. Honest'
    BY <1>16 DEF MarkComplete, Honest, published
  <2>2. Progress(f)'
    BY <1>16 DEF MarkComplete, Candidate, Selecting, Enter, TypeInv, TypeOK,
      SplitLeft, published, NormIsOf,
      Progress, AllChosen, SplitsCommitted, SampleTaken, NormReady, SumsReady, Publishing, Summing
  <2> QED BY <2>1, <2>2
<1>17. ASSUME Fail(f)
      PROVE  Progress(f)' /\ Honest'
  <2>1. Honest'
    BY <1>17 DEF Fail, Honest, published
  <2>2. Progress(f)'
    BY <1>17 DEF Fail, Candidate, Selecting, Enter, TypeInv, TypeOK,
      SplitLeft, published, NormIsOf,
      Progress, AllChosen, SplitsCommitted, SampleTaken, NormReady, SumsReady, Publishing, Summing
  <2> QED BY <2>1, <2>2
<1> QED
  BY <1>1, <1>2, <1>3, <1>4, <1>5, <1>6, <1>7, <1>8, <1>9, <1>10,
     <1>11, <1>12, <1>13, <1>14, <1>15, <1>16, <1>17
  DEF Restart, Step, SelectStep, PublishStep

\* The marker is written over one selection.
LEMMA MarkedIsOneSelection ==
  ASSUME TypeInv, NEW f \in Finalizers, Progress(f), MarkComplete(f)
  PROVE  CompleteIsOneSelection'
<1>1. pc[f] = "mark" /\ UNCHANGED <<manifest, welford, norm, card>>
  BY DEF MarkComplete
<1>2. /\ card = winner[f] /\ welford = OnTrain(winner[f]) /\ NormIsOf(winner[f])
      /\ at[f] = NumSplits + 1
      /\ \A s \in Shards : winner[f][s] # NoAttempt
      /\ \A s \in Shards : SplitOf[s] < at[f] => manifest[s] = winner[f][s]
  BY <1>1
  DEF Progress, AllChosen, SplitsCommitted, NormReady, SumsReady, Publishing, Summing
<1>3. \A s \in Shards : manifest[s] = card[s]
  BY <1>2, SplitAssumption
<1>4. manifest = card
  BY <1>3 DEF TypeInv, TypeOK, Selection
<1> QED
  BY <1>1, <1>2, <1>4 DEF CompleteIsOneSelection, NormIsOf, OnTrain

\* Only a finalizer that has chosen its winners publishes anything.
LEMMA OnlyPublishersPublish ==
  ASSUME NEW f \in Finalizers, pc[f] \notin Publishing,
         Restart(f) \/ SkipFinalized(f) \/ Step(f) \/ Fail(f)
  PROVE  UNCHANGED published
<1>1. ASSUME SelectStep(f) \/ Decide(f) PROVE UNCHANGED published
  BY <1>1 DEF SelectStep, List, ReadCard, Accept, Reject, NoneHealthy, Decide
<1>2. ASSUME PublishStep(f) PROVE Decide(f)
  BY <1>2
  DEF PublishStep, CommitSplit, Estimate, Recheck, UploadEstimate, UploadWelford, UploadStats,
      WriteCard, MarkComplete, Publishing
<1>3. ASSUME Restart(f) \/ SkipFinalized(f) \/ Fail(f) PROVE UNCHANGED published
  BY <1>3 DEF Restart, Start, SkipFinalized, Fail
<1> QED BY <1>1, <1>2, <1>3 DEF Step

LEMMA SerialStep ==
  ASSUME Serial, SerialInv, [Next]_vars
  PROVE  SerialInv'
<1>1. TypeInv /\ TypeInv'
  BY TypeStep DEF SerialInv
<1>2. ASSUME UNCHANGED <<published, run>>
      PROVE  SerialInv'
  BY <1>1, <1>2
  DEF SerialInv, Sealed, Honest, CompleteIsOneSelection, NormIsOf, published, run,
      Progress, AllChosen, SplitsCommitted, SampleTaken, NormReady, SumsReady, Publishing, Summing
<1>3. ASSUME NEW f \in Finalizers, Restart(f) \/ SkipFinalized(f) \/ Step(f) \/ Fail(f)
      PROVE  SerialInv'
  <2>1. Progress(f)' /\ Honest'
    BY <1>1, <1>3, ProgressStep DEF SerialInv
  <2>2. Sealed'
    <3>1. CASE MarkComplete(f)
      <4>1. pc'[f] = "ok"
        BY <1>1, <3>1 DEF MarkComplete, Enter, TypeInv, TypeOK
      <4>2. CompleteIsOneSelection'
        BY <1>1, <3>1, MarkedIsOneSelection DEF SerialInv
      <4> QED BY <4>1, <4>2 DEF Serial, Sealed, Ended
    <3>2. CASE SkipFinalized(f)
      <4>1. pc'[f] = "ok" /\ complete /\ UNCHANGED published
        BY <1>1, <3>2 DEF SkipFinalized, Enter, TypeInv, TypeOK
      <4>2. CompleteIsOneSelection'
        BY <4>1 DEF SerialInv, Sealed, CompleteIsOneSelection, published
      <4> QED BY <4>1, <4>2 DEF Serial, Sealed, Ended
    <3>3. CASE ~MarkComplete(f) /\ ~SkipFinalized(f)
      <4>1. UNCHANGED complete /\ ~complete
        BY <1>1, <1>3, <3>3
        DEF SerialInv, Sealed, TypeInv, TypeOK, Ended, published, Restart, Step, SelectStep,
            PublishStep, Start, List, ReadCard, Accept, Reject, NoneHealthy, Candidate,
            Selecting, Decide, CommitSplit, Estimate, Recheck, UploadEstimate, UploadWelford,
            UploadStats, WriteCard, Fail
      <4> QED BY <4>1 DEF Sealed
    <3> QED BY <3>1, <3>2, <3>3
  <2> QED BY <1>1, <2>1, <2>2 DEF Serial, SerialInv
<1> QED
  BY <1>2, <1>3 DEF Next, vars, Arrive

\* With one finalizer at a time, a dataset that is marked complete was built from
\* one selection of attempts, whatever crashed runs and other modes left behind.
THEOREM SerialFinalizersPublishOneSelection ==
  ASSUME Serial
  PROVE  Spec => []CompleteIsOneSelection
<1>1. Init => SerialInv
  BY SerialInit
<1>2. SerialInv /\ [Next]_vars => SerialInv'
  BY SerialStep
<1>3. SerialInv => CompleteIsOneSelection
  BY DEF SerialInv, Sealed, CompleteIsOneSelection
<1> QED BY <1>1, <1>2, <1>3, PTL DEF Spec

\* With one finalizer at a time, nothing published changes after the marker.
THEOREM SerialFinalizersNeverRewrite ==
  ASSUME Serial
  PROVE  Spec => PublishedIsFinal
<1>1. Init => SerialInv
  BY SerialInit
<1>2. SerialInv /\ [Next]_vars => SerialInv'
  BY SerialStep
<1>3. SerialInv /\ [Next]_vars => [complete => UNCHANGED published]_vars
  <2> SUFFICES ASSUME SerialInv, Next, complete PROVE UNCHANGED published
    BY DEF vars
  <2>1. \A f \in Finalizers : pc[f] \in Ended
    BY DEF SerialInv, Sealed
  <2>2. ASSUME NEW f \in Finalizers, Restart(f) \/ SkipFinalized(f) \/ Step(f) \/ Fail(f)
        PROVE  UNCHANGED published
    BY <2>1, <2>2, OnlyPublishersPublish DEF Publishing, Ended
  <2> QED BY <2>2 DEF Next, Arrive
<1> QED BY <1>1, <1>2, <1>3, PTL DEF Spec, PublishedIsFinal

-----------------------------------------------------------------------------
(***************************************************************************)
(* One finalizer at a time: a recorded winner stays until it is excluded.  *)
(* The run that could displace it lists it, recalls it and then prefers    *)
(* it to every other candidate (Follows).                                  *)
(***************************************************************************)
Recalled == {"select", "decide", "commit", "estimate", "recheck", "upload", "welford",
             "stats", "record"}
Listed == Recalled \cup {"recall"}

Evidence == {"stats", "sidecar", "valid"}

\* The attempt's render was complete once; it may have been excluded since.
Landed(a, s) == a \in AttemptsOf(s) /\ Evidence \subseteq staged[a].objects

\* The shard has a recorded winner, and it is not excluded.
Stands(s) == card[s] # NoAttempt /\ "invalid" \notin staged[card[s]].objects

RecordedLanded == \A s \in Shards : card[s] # NoAttempt => Landed(card[s], s)

SawLanded(f) ==
  pc[f] \in Listed => \A a \in seen[f] : \E s \in Shards : Landed(a, s)

ChoseLanded(f) ==
  /\ pc[f] \in {"list", "recall"} => \A s \in Shards : winner[f][s] = NoAttempt
  /\ pc[f] \in Listed =>
       \A s \in Shards : winner[f][s] # NoAttempt => Landed(winner[f][s], s)

SawStanding(f) ==
  pc[f] \in {"recall", "select"} => \A s \in Shards : Stands(s) => card[s] \in seen[f]

ChoseStanding(f) ==
  pc[f] \in Recalled =>
    /\ prefer[f] = card
    /\ \A s \in Shards : Stands(s) /\ winner[f][s] # NoAttempt => winner[f][s] = card[s]

Follows(f) == SawLanded(f) /\ ChoseLanded(f) /\ SawStanding(f) /\ ChoseStanding(f)

StableInv == SerialInv /\ RecordedLanded /\ \A f \in Finalizers : Follows(f)

\* A step keeps an attempt's shard, and objects are only added to it.
LEMMA ObjectsStay ==
  ASSUME TypeInv, [Next]_vars, NEW s \in Shards, NEW a \in AttemptsOf(s)
  PROVE  a \in (AttemptsOf(s))' /\ staged[a].objects \subseteq staged'[a].objects
<1>1. a \in Attempts /\ staged[a].shard = s
  BY DEF AttemptsOf
<1>2. ASSUME NEW b \in Attempts, NEW r \in Shards, Arrive(b, r)
      PROVE  staged'[a] = staged[a]
  <2>1. a # b
    BY <1>1, <1>2, NoShardAssumption DEF Arrive, Unused
  <2> QED
    BY <1>1, <1>2, <2>1 DEF Arrive, TypeInv, TypeOK
<1>3. ASSUME NEW f \in Finalizers, NEW r \in Shards, NEW b \in Attempts, Reject(f, r, b)
      PROVE  /\ staged'[a].shard = staged[a].shard
             /\ staged[a].objects \subseteq staged'[a].objects
  <2>1. staged[a] \in Attempt /\ staged[b] \in Attempt
    BY <1>1 DEF TypeInv, TypeOK
  <2>2. /\ [staged[b] EXCEPT !.objects = staged[b].objects \cup {"invalid"}].shard
             = staged[b].shard
        /\ staged[b].objects \subseteq
             [staged[b] EXCEPT !.objects = staged[b].objects \cup {"invalid"}].objects
    BY <2>1 DEF Attempt
  <2>3. staged' = [staged EXCEPT ![b] =
          [staged[b] EXCEPT !.objects = staged[b].objects \cup {"invalid"}]]
    BY <1>3 DEF Reject
  <2> QED
    BY <1>1, <2>2, <2>3 DEF TypeInv, TypeOK
<1>4. ASSUME /\ \A b \in Attempts, r \in Shards : ~Arrive(b, r)
             /\ \A f \in Finalizers, r \in Shards, b \in Attempts : ~Reject(f, r, b)
      PROVE  UNCHANGED staged
  BY <1>4
  DEF Next, vars, Restart, Step, SelectStep, PublishStep, Start, SkipFinalized, List, ReadCard,
      Accept, NoneHealthy, Decide, CommitSplit, Estimate, Recheck, UploadEstimate,
      UploadWelford, UploadStats, WriteCard, MarkComplete, Fail
<1> QED
  BY <1>1, <1>2, <1>3, <1>4 DEF AttemptsOf

LEMMA LandedStays ==
  ASSUME TypeInv, [Next]_vars, NEW s \in Shards, NEW a, Landed(a, s)
  PROVE  Landed(a, s)'
<1>1. a \in AttemptsOf(s) /\ Evidence \subseteq staged[a].objects
  BY DEF Landed
<1>2. a \in (AttemptsOf(s))' /\ staged[a].objects \subseteq staged'[a].objects
  BY <1>1, ObjectsStay
<1> QED BY <1>1, <1>2 DEF Landed

\* What stands after a step that leaves the card alone stood before it.
LEMMA StoodBefore ==
  ASSUME TypeInv, RecordedLanded, [Next]_vars, UNCHANGED card, NEW s \in Shards, Stands(s)'
  PROVE  Stands(s)
<1>1. card[s] # NoAttempt /\ "invalid" \notin staged'[card[s]].objects
  BY DEF Stands
<1>2. card[s] \in AttemptsOf(s)
  BY <1>1 DEF RecordedLanded, Landed
<1>3. staged[card[s]].objects \subseteq staged'[card[s]].objects
  BY <1>2, ObjectsStay
<1> QED
  BY <1>1, <1>3 DEF Stands

\* A run that only carries on with what it saw and chose.
LEMMA CarriesOn ==
  ASSUME StableInv, [Next]_vars, NEW f \in Finalizers,
         UNCHANGED <<card, winner, prefer>>, seen'[f] \subseteq seen[f],
         pc'[f] \notin {"list", "recall"},
         pc'[f] \in Recalled => pc[f] \in Recalled,
         SawStanding(f)'
  PROVE  RecordedLanded' /\ Follows(f)'
<1>1. TypeInv /\ RecordedLanded /\ Follows(f)
  BY DEF StableInv, SerialInv
<1>2. RecordedLanded'
  <2> SUFFICES ASSUME NEW s \in Shards, card[s] # NoAttempt
               PROVE  Landed(card[s], s)'
    BY DEF RecordedLanded, Landed
  <2> QED BY <1>1, LandedStays DEF RecordedLanded, Landed
<1>3. pc'[f] \in Listed => pc[f] \in Listed /\ pc[f] \in Recalled
  BY DEF Listed
<1>4. SawLanded(f)'
  <2> SUFFICES ASSUME pc'[f] \in Listed, NEW a \in seen'[f]
               PROVE  \E s \in Shards : Landed(a, s)'
    BY DEF SawLanded
  <2>1. PICK s \in Shards : Landed(a, s)
    BY <1>1, <1>3 DEF Follows, SawLanded
  <2> QED BY <1>1, <2>1, LandedStays
<1>5. ChoseLanded(f)'
  <2> SUFFICES ASSUME pc'[f] \in Listed, NEW s \in Shards, winner[f][s] # NoAttempt
               PROVE  Landed(winner[f][s], s)'
    BY DEF ChoseLanded, Landed
  <2>1. Landed(winner[f][s], s)
    BY <1>1, <1>3 DEF Follows, ChoseLanded
  <2>2. ASSUME NEW a, a = winner[f][s] PROVE Landed(a, s)'
    BY <1>1, <2>1, <2>2, LandedStays
  <2> QED BY <2>2 DEF Landed
<1>6. ChoseStanding(f)'
  <2> SUFFICES ASSUME pc'[f] \in Recalled
               PROVE  /\ prefer[f] = card
                      /\ \A s \in Shards : Stands(s)' /\ winner[f][s] # NoAttempt =>
                           winner[f][s] = card[s]
    BY DEF ChoseStanding
  <2>1. ChoseStanding(f) /\ pc[f] \in Recalled
    BY <1>1 DEF Follows
  <2>2. ASSUME NEW s \in Shards, Stands(s)', winner[f][s] # NoAttempt
        PROVE  winner[f][s] = card[s]
    BY <1>1, <2>1, <2>2, StoodBefore DEF ChoseStanding
  <2> QED BY <2>1, <2>2 DEF ChoseStanding
<1> QED BY <1>2, <1>4, <1>5, <1>6 DEF Follows

LEMMA StableInit == Init => StableInv
  BY SerialInit
  DEF Init, StableInv, NoSelection, RecordedLanded, Follows, SawLanded, ChoseLanded,
      SawStanding, ChoseStanding, Listed, Recalled

\* Nothing of the protocol past the selection changes what was seen or chosen.
LEMMA PublishingCarriesOn ==
  ASSUME Serial, StableInv, [Next]_vars, NEW f \in Finalizers,
         \/ Decide(f) \/ CommitSplit(f) \/ Estimate(f) \/ Recheck(f) \/ UploadEstimate(f)
         \/ UploadWelford(f) \/ UploadStats(f) \/ MarkComplete(f) \/ Fail(f)
         \/ SkipFinalized(f) \/ (\E s \in Shards : NoneHealthy(f, s))
  PROVE  RecordedLanded' /\ Follows(f)'
<1>1. TypeInv
  BY DEF StableInv, SerialInv
<1>2. UNCHANGED <<card, winner, prefer, seen>>
  BY DEF Decide, CommitSplit, Estimate, Recheck, UploadEstimate, UploadWelford, UploadStats,
         MarkComplete, Fail, SkipFinalized, NoneHealthy, published
<1>3. /\ pc'[f] \notin {"list", "recall", "select"}
      /\ pc'[f] \in Recalled => pc[f] \in Recalled
  BY <1>1
  DEF Decide, CommitSplit, Estimate, Recheck, UploadEstimate, UploadWelford, UploadStats,
      MarkComplete, Fail, SkipFinalized, NoneHealthy, Advance, Enter, Recalled, TypeInv, TypeOK
<1>4. SawStanding(f)'
  BY <1>3 DEF SawStanding
<1> QED BY <1>2, <1>3, <1>4, CarriesOn

LEMMA StableStep ==
  ASSUME Serial, StableInv, [Next]_vars
  PROVE  StableInv'
<1>1. TypeInv /\ TypeInv' /\ SerialInv'
  BY SerialStep, TypeStep DEF StableInv, SerialInv
<1>2. ASSUME NEW f \in Finalizers, RecordedLanded', Follows(f)'
      PROVE  StableInv'
  BY <1>1, <1>2 DEF Serial, StableInv
<1>3. RecordedLanded /\ \A f \in Finalizers : Follows(f)
  BY DEF StableInv
<1>4. ASSUME UNCHANGED card PROVE RecordedLanded'
  <2> SUFFICES ASSUME NEW s \in Shards, card[s] # NoAttempt
               PROVE  Landed(card[s], s)'
    BY <1>4 DEF RecordedLanded, Landed
  <2> QED BY <1>1, <1>3, <1>4, LandedStays DEF RecordedLanded, Landed
<1>5. ASSUME NEW f \in Finalizers, UNCHANGED <<card, pc, winner, prefer, seen>>,
             pc[f] \in Ended
      PROVE  RecordedLanded' /\ Follows(f)'
  BY <1>4, <1>5
  DEF Follows, SawLanded, ChoseLanded, SawStanding, ChoseStanding, Listed, Recalled, Ended
<1>6. ASSUME UNCHANGED vars PROVE StableInv'
  BY <1>1, <1>3, <1>6
  DEF vars, published, run, StableInv, RecordedLanded, Follows, SawLanded, ChoseLanded,
      SawStanding, ChoseStanding, Landed, Stands, AttemptsOf
<1>7. ASSUME NEW a \in Attempts, NEW s \in Shards, Arrive(a, s)
      PROVE  StableInv'
  <2>1. UNCHANGED <<card, pc, winner, prefer, seen>> /\ \A f \in Finalizers : pc[f] \in Ended
    BY <1>7 DEF Arrive, Quiescent, published, run
  <2>2. RecordedLanded' /\ \A f \in Finalizers : Follows(f)'
    BY <1>4, <1>5, <2>1
  <2> QED BY <1>1, <2>2 DEF StableInv
<1>8. ASSUME NEW f \in Finalizers, NEW m \in Modes, Start(f, m)
      PROVE  StableInv'
  <2>1. pc'[f] = "list" /\ winner'[f] = NoSelection /\ UNCHANGED card
    BY <1>1, <1>8 DEF Start, Enter, TypeInv, TypeOK, published
  <2>2. Follows(f)'
    BY <2>1 DEF Follows, SawLanded, ChoseLanded, SawStanding, ChoseStanding, Listed, Recalled,
                NoSelection
  <2> QED BY <1>2, <1>4, <2>1, <2>2
<1>9. ASSUME NEW f \in Finalizers, List(f)
      PROVE  StableInv'
  <2>1. pc[f] = "list" /\ pc'[f] \in {"recall", "failed"} /\ UNCHANGED <<card, winner, staged>>
    BY <1>1, <1>9 DEF List, Enter, TypeInv, TypeOK, published
  <2>2. ASSUME pc'[f] = "recall"
        PROVE  seen'[f] = {a \in Attempts : ~Unused(a) /\ Complete(a)}
    <3>1. pc' = [pc EXCEPT ![f] = "failed"] => pc'[f] = "failed"
      BY <1>1 DEF TypeInv, TypeOK
    <3> QED
      BY <1>1, <1>9, <2>2, <3>1 DEF List, Enter, TypeInv, TypeOK
  <2>3. SawLanded(f)'
    <3> SUFFICES ASSUME pc'[f] = "recall", NEW a \in seen'[f]
                 PROVE  \E s \in Shards : Landed(a, s)'
      BY <2>1 DEF SawLanded, Listed, Recalled
    <3>1. a \in Attempts /\ ~Unused(a) /\ Complete(a)
      BY <2>2
    <3>2. staged[a].shard \in Shards /\ a \in AttemptsOf(staged[a].shard)
      BY <1>1, <3>1 DEF TypeInv, TypeOK, Attempt, Unused, AttemptsOf
    <3> QED BY <2>1, <3>1, <3>2 DEF Landed, Complete, Evidence, AttemptsOf
  <2>4. SawStanding(f)'
    <3> SUFFICES ASSUME pc'[f] = "recall", NEW s \in Shards, Stands(s)
                 PROVE  card[s] \in seen'[f]
      BY <2>1 DEF SawStanding, Stands
    <3>1. Landed(card[s], s) /\ "invalid" \notin staged[card[s]].objects
      BY <1>3 DEF Stands, RecordedLanded
    <3>2. card[s] \in Attempts /\ ~Unused(card[s]) /\ Complete(card[s])
      BY <3>1, NoShardAssumption DEF Landed, AttemptsOf, Unused, Complete, Evidence
    <3> QED BY <2>2, <3>2
  <2>5. \A s \in Shards : winner'[f][s] = NoAttempt
    BY <1>3, <2>1 DEF Follows, ChoseLanded
  <2>6. Follows(f)'
    BY <2>1, <2>3, <2>4, <2>5 DEF Follows, ChoseLanded, ChoseStanding, Listed, Recalled
  <2> QED BY <1>2, <1>4, <2>1, <2>6
<1>10. ASSUME NEW f \in Finalizers, ReadCard(f)
      PROVE  StableInv'
  <2>1. /\ pc[f] = "recall" /\ pc'[f] = "select" /\ prefer'[f] = card
        /\ UNCHANGED <<card, winner, seen, staged>>
    BY <1>1, <1>10 DEF ReadCard, Enter, TypeInv, TypeOK, published
  <2>2. Follows(f)
    BY <1>3
  <2>3. Follows(f)'
    BY <2>1, <2>2
    DEF Follows, SawLanded, ChoseLanded, SawStanding, ChoseStanding, Listed, Recalled, Landed,
        Stands, AttemptsOf
  <2> QED BY <1>2, <1>4, <2>1, <2>3
<1>11. ASSUME NEW f \in Finalizers, NEW s \in Shards, NEW a \in Attempts, Accept(f, s, a)
      PROVE  StableInv'
  <2>1. /\ pc[f] = "select" /\ pc'[f] \in {"select", "decide", "commit"}
        /\ a \in Candidates(f, s) /\ \A b \in Candidates(f, s) : Precedes(f, s, a, b)
        /\ UNCHANGED <<card, prefer, seen, staged>>
    BY <1>1, <1>11
    DEF Accept, Candidate, Selecting, Enter, TypeInv, TypeOK, published
  <2>2. /\ winner'[f][s] = a
        /\ \A r \in Shards \ {s} : winner'[f][r] = winner[f][r]
    BY <1>1, <1>11 DEF Accept, TypeInv, TypeOK, Selection
  <2>3. Follows(f)
    BY <1>3
  <2>4. Landed(a, s)
    BY <2>1, <2>3
    DEF Candidates, Follows, SawLanded, Listed, Recalled, Landed, AttemptsOf
  <2>5. Stands(s) => a = card[s]
    <3> SUFFICES ASSUME Stands(s) PROVE a = card[s]
      OBVIOUS
    <3>1. card[s] \in seen[f] /\ Landed(card[s], s) /\ prefer[f][s] = card[s]
      BY <1>3, <2>1, <2>3
      DEF Follows, SawStanding, ChoseStanding, RecordedLanded, Stands, Recalled
    <3>2. Precedes(f, s, a, card[s])
      BY <2>1, <3>1 DEF Candidates, Landed
    <3> QED BY <3>1, <3>2 DEF Precedes
  <2>6. SawLanded(f)' /\ SawStanding(f)'
    BY <2>1, <2>3
    DEF Follows, SawLanded, SawStanding, Listed, Recalled, Landed, Stands, AttemptsOf
  <2>7. ChoseLanded(f)'
    <3>1. ASSUME NEW r \in Shards, NEW b, b = winner'[f][r], b # NoAttempt
          PROVE  Landed(b, r)
      <4>1. CASE r = s
        BY <2>2, <2>4, <3>1, <4>1
      <4>2. CASE r # s
        <5>1. b = winner[f][r]
          BY <2>2, <3>1, <4>2
        <5> QED BY <2>1, <2>3, <3>1, <5>1 DEF Follows, ChoseLanded, Listed, Recalled
      <4> QED BY <4>1, <4>2
    <3>2. ASSUME NEW r \in Shards, winner'[f][r] # NoAttempt
          PROVE  /\ winner'[f][r] \in (AttemptsOf(r))'
                 /\ Evidence \subseteq staged'[winner'[f][r]].objects
      BY <2>1, <3>1, <3>2 DEF Landed, AttemptsOf
    <3> QED BY <2>1, <3>2 DEF ChoseLanded, Landed
  <2>8. ChoseStanding(f)'
    BY <2>1, <2>2, <2>3, <2>5 DEF Follows, ChoseStanding, Recalled, Stands
  <2>9. Follows(f)'
    BY <2>6, <2>7, <2>8 DEF Follows
  <2> QED BY <1>2, <1>4, <2>1, <2>9
<1>12. ASSUME NEW f \in Finalizers, NEW s \in Shards, NEW a \in Attempts, Reject(f, s, a)
      PROVE  StableInv'
  <2>1. /\ pc[f] = "select" /\ pc'[f] = "select"
        /\ seen'[f] = seen[f] \ {a} /\ UNCHANGED <<card, prefer, winner>>
        /\ a \in Attempts
        /\ staged' = [staged EXCEPT ![a] =
             [staged[a] EXCEPT !.objects = staged[a].objects \cup {"invalid"}]]
    BY <1>1, <1>12 DEF Reject, Candidate, Selecting, TypeInv, TypeOK, published
  <2>2. "invalid" \in staged'[a].objects
    <3>1. staged \in [Attempts -> Attempt] /\ staged[a] \in Attempt
      BY <1>1 DEF TypeInv, TypeOK
    <3> QED BY <2>1, <3>1 DEF Attempt
  <2>3. SawStanding(f)'
    <3> SUFFICES ASSUME NEW r \in Shards, Stands(r)'
                 PROVE  card[r] \in seen'[f]
      BY <2>1 DEF SawStanding
    <3>1. Stands(r)
      BY <1>1, <1>3, <2>1, StoodBefore
    <3>2. card[r] \in seen[f]
      BY <1>3, <2>1, <3>1 DEF Follows, SawStanding
    <3>3. card[r] # a
      BY <2>1, <2>2 DEF Stands
    <3> QED BY <2>1, <3>2, <3>3
  <2>4. seen'[f] \subseteq seen[f] /\ pc[f] \in Recalled
    BY <2>1 DEF Recalled
  <2>5. RecordedLanded' /\ Follows(f)'
    BY <2>1, <2>3, <2>4, CarriesOn
  <2> QED BY <1>2, <2>5
<1>13. ASSUME NEW f \in Finalizers, WriteCard(f)
      PROVE  StableInv'
  <2>1. pc[f] = "record" /\ pc'[f] = "mark" /\ card' = winner[f] /\ UNCHANGED staged
    BY <1>1, <1>13 DEF WriteCard, Enter, TypeInv, TypeOK
  <2>2. \A s \in Shards : winner[f][s] # NoAttempt => Landed(winner[f][s], s)
    BY <1>3, <2>1 DEF Follows, ChoseLanded, Listed, Recalled
  <2>3. RecordedLanded'
    BY <2>1, <2>2 DEF RecordedLanded, Landed, AttemptsOf
  <2>4. Follows(f)'
    BY <2>1
    DEF Follows, SawLanded, ChoseLanded, SawStanding, ChoseStanding, Listed, Recalled
  <2> QED BY <1>2, <2>3, <2>4
<1>14. ASSUME NEW f \in Finalizers,
              \/ Decide(f) \/ CommitSplit(f) \/ Estimate(f) \/ Recheck(f) \/ UploadEstimate(f)
              \/ UploadWelford(f) \/ UploadStats(f) \/ MarkComplete(f) \/ Fail(f)
              \/ SkipFinalized(f) \/ (\E s \in Shards : NoneHealthy(f, s))
      PROVE  StableInv'
  BY <1>2, <1>14, PublishingCarriesOn
<1> QED
  BY <1>6, <1>7, <1>8, <1>9, <1>10, <1>11, <1>12, <1>13, <1>14
  DEF Next, Restart, Step, SelectStep, PublishStep

\* With one finalizer at a time, the winner recorded for a shard is displaced only
\* after its exclusion: neither a crashed run nor a straggler whose timestamp ties
\* changes what the card says.
THEOREM SerialFinalizersKeepTheCard ==
  ASSUME Serial
  PROVE  Spec => CardIsStable
<1>1. Init => StableInv
  BY StableInit
<1>2. StableInv /\ [Next]_vars => StableInv'
  BY StableStep
<1>3. StableInv /\ [Next]_vars =>
        [\A s \in Shards :
           card[s] # NoAttempt /\ card'[s] # card[s] =>
             "invalid" \in staged[card[s]].objects]_vars
  <2> SUFFICES ASSUME StableInv, Next, NEW s \in Shards,
                      card[s] # NoAttempt, card'[s] # card[s]
               PROVE  "invalid" \in staged[card[s]].objects
    BY DEF vars
  <2>1. ASSUME NEW f \in Finalizers, WriteCard(f)
        PROVE  "invalid" \in staged[card[s]].objects
    <3>1. pc[f] = "record" /\ card' = winner[f]
      BY <2>1 DEF WriteCard
    <3>2. winner[f][s] # NoAttempt
      BY <3>1 DEF StableInv, SerialInv, Progress, AllChosen, Publishing
    <3>3. Stands(s) => winner[f][s] = card[s]
      BY <3>1, <3>2 DEF StableInv, Follows, ChoseStanding, Recalled
    <3> QED BY <3>1, <3>3 DEF Stands
  <2>2. ASSUME \A f \in Finalizers : ~WriteCard(f)
        PROVE  UNCHANGED card
    BY <2>2
    DEF Next, published, Restart, Step, SelectStep, PublishStep, Arrive, Start, SkipFinalized,
        List, ReadCard, Accept, Reject, NoneHealthy, Decide, CommitSplit, Estimate, Recheck,
        UploadEstimate, UploadWelford, UploadStats, MarkComplete, Fail
  <2> QED BY <2>1, <2>2
<1> QED BY <1>1, <1>2, <1>3, PTL DEF Spec, CardIsStable

-----------------------------------------------------------------------------
(***************************************************************************)
(* Several finalizers at a time, where a healthy fragment is never         *)
(* misread.  They need not know of each other: the listings and the        *)
(* markers determine one attempt for every shard (Due), whoever selects    *)
(* and whenever, so what a peer overwrites is overwritten with the same.   *)
(***************************************************************************)
Steady == MaxReadErrors = 0

\* Attempts that are there as a whole and have no defect.
Healthy(s) == {a \in AttemptsOf(s) \ damaged : Evidence \subseteq staged[a].objects}

\* The healthy attempt that was valid first.
First(s, a) ==
  /\ a \in Healthy(s)
  /\ \A b \in Healthy(s) : mtime[a] < mtime[b] \/ (mtime[a] = mtime[b] /\ a <= b)

\* The attempt any run that selects for the shard chooses.
Due(s, a) ==
  /\ a \in Healthy(s)
  /\ a = card[s] \/ (card[s] = NoAttempt /\ First(s, a))

\* Only damaged attempts were ever excluded.
NoneExcluded == \A a \in Attempts \ damaged : "invalid" \notin staged[a].objects

RecordedHealthy == \A s \in Shards : card[s] # NoAttempt => card[s] \in Healthy(s)

\* Of the attempts without a defect, a run sees those that are there as a whole.
SawHealthy(f) ==
  pc[f] \in {"recall", "select"} =>
    \A s \in Shards : Healthy(s) = seen[f] \cap (AttemptsOf(s) \ damaged)

\* A card that was written since the run read it records first attempts.
Prefers(f) ==
  pc[f] = "select" =>
    \A s \in Shards :
      prefer[f][s] = card[s] \/ (prefer[f][s] = NoAttempt /\ First(s, card[s]))

ChoseDue(f) ==
  pc[f] \notin Ended =>
    \A s \in Shards : winner[f][s] # NoAttempt => Due(s, winner[f][s])

Chooses(f) == SawHealthy(f) /\ Prefers(f) /\ ChoseDue(f)

SteadyInv ==
  /\ TypeInv /\ Honest /\ NoneExcluded /\ RecordedHealthy /\ CompleteIsOneSelection
  /\ \A f \in Finalizers : Progress(f) /\ Chooses(f)

LEMMA FirstIsUnique ==
  ASSUME TypeInv, NEW s \in Shards, NEW a, NEW b, First(s, a), First(s, b)
  PROVE  a = b
<1>1. a \in Healthy(s) /\ b \in Healthy(s)
  BY DEF First
<1>2. a \in Nat /\ b \in Nat /\ mtime[a] \in Nat /\ mtime[b] \in Nat
  BY <1>1, MaxAttemptsAssumption DEF Healthy, AttemptsOf, Attempts, TypeInv, TypeOK
<1>3. /\ mtime[a] < mtime[b] \/ (mtime[a] = mtime[b] /\ a <= b)
      /\ mtime[b] < mtime[a] \/ (mtime[b] = mtime[a] /\ b <= a)
  BY <1>1 DEF First
<1> QED BY <1>2, <1>3

LEMMA HealthyIsSome ==
  ASSUME NEW s \in Shards, NEW a \in Healthy(s)
  PROVE  a # NoAttempt
  BY MaxAttemptsAssumption DEF Healthy, AttemptsOf, Attempts, NoAttempt

LEMMA DueIsUnique ==
  ASSUME TypeInv, NEW s \in Shards, NEW a, NEW b, Due(s, a), Due(s, b)
  PROVE  a = b
<1>1. a \in Healthy(s) /\ b \in Healthy(s)
  BY DEF Due
<1>2. a # NoAttempt /\ b # NoAttempt
  BY <1>1, HealthyIsSome
<1>3. CASE card[s] = NoAttempt
  BY <1>2, <1>3, FirstIsUnique DEF Due
<1>4. CASE card[s] # NoAttempt
  BY <1>4 DEF Due
<1> QED BY <1>3, <1>4

\* While a finalizer works no attempt arrives, and which attempts are healthy and
\* which of them was first does not change.
LEMMA HealthyKept ==
  ASSUME TypeInv, NEW f \in Finalizers,
         Restart(f) \/ SkipFinalized(f) \/ Step(f) \/ Fail(f), NEW s \in Shards
  PROVE  /\ Healthy(s)' = Healthy(s)
         /\ (AttemptsOf(s) \ damaged)' = AttemptsOf(s) \ damaged
         /\ \A a : First(s, a)' <=> First(s, a)
<1>1. ASSUME NEW r \in Shards, NEW b \in Attempts, Reject(f, r, b)
      PROVE  /\ UNCHANGED <<mtime, damaged>>
             /\ \A a \in Attempts :
                  /\ staged'[a].shard = staged[a].shard
                  /\ Evidence \subseteq staged'[a].objects <=> Evidence \subseteq staged[a].objects
  <2>1. /\ UNCHANGED <<mtime, damaged>>
        /\ staged' = [staged EXCEPT ![b] =
             [staged[b] EXCEPT !.objects = staged[b].objects \cup {"invalid"}]]
    BY <1>1 DEF Reject
  <2>2. ASSUME NEW a \in Attempts
        PROVE  /\ staged'[a].shard = staged[a].shard
               /\ staged'[a].objects \in {staged[a].objects, staged[a].objects \cup {"invalid"}}
    <3>1. staged[a] \in Attempt /\ staged[b] \in Attempt
      BY DEF TypeInv, TypeOK
    <3>2. /\ [staged[b] EXCEPT !.objects = staged[b].objects \cup {"invalid"}].shard
               = staged[b].shard
          /\ [staged[b] EXCEPT !.objects = staged[b].objects \cup {"invalid"}].objects
               = staged[b].objects \cup {"invalid"}
      BY <3>1 DEF Attempt
    <3> QED BY <2>1, <3>2 DEF TypeInv, TypeOK
  <2>3. "invalid" \notin Evidence
    BY DEF Evidence
  <2> QED BY <2>1, <2>2, <2>3
<1>2. ASSUME \A r \in Shards, b \in Attempts : ~Reject(f, r, b)
      PROVE  UNCHANGED <<staged, mtime, damaged>>
  BY <1>2
  DEF Restart, Step, SelectStep, PublishStep, Start, SkipFinalized, List, ReadCard,
      Accept, NoneHealthy, Decide, CommitSplit, Estimate, Recheck, UploadEstimate,
      UploadWelford, UploadStats, WriteCard, MarkComplete, Fail
<1>3. /\ UNCHANGED <<mtime, damaged>>
      /\ \A a \in Attempts :
           /\ staged'[a].shard = staged[a].shard
           /\ Evidence \subseteq staged'[a].objects <=> Evidence \subseteq staged[a].objects
  BY <1>1, <1>2
<1>4. Healthy(s)' = Healthy(s) /\ (AttemptsOf(s))' = AttemptsOf(s)
  BY <1>3 DEF Healthy, AttemptsOf
<1> QED BY <1>3, <1>4 DEF First

LEMMA NoneExcludedStays ==
  ASSUME Steady, TypeInv, NoneExcluded, [Next]_vars
  PROVE  NoneExcluded'
<1> SUFFICES ASSUME NEW a \in Attempts, a \notin damaged'
             PROVE  "invalid" \notin staged'[a].objects
  BY DEF NoneExcluded
<1>1. a \notin damaged => "invalid" \notin staged[a].objects
  BY DEF NoneExcluded
<1>2. ASSUME NEW b \in Attempts, NEW r \in Shards, Arrive(b, r)
      PROVE  "invalid" \notin staged'[a].objects
  <2>1. /\ staged' = [staged EXCEPT ![b] =
             [shard |-> r, objects |-> Objects \ {"invalid"}, data |-> b, stats |-> b]]
        /\ damaged \subseteq damaged'
    BY <1>2 DEF Arrive
  <2> QED BY <1>1, <2>1 DEF TypeInv, TypeOK
<1>3. ASSUME NEW f \in Finalizers, NEW r \in Shards, NEW b \in Attempts, Reject(f, r, b)
      PROVE  "invalid" \notin staged'[a].objects
  <2>1. ~(readErrors < MaxReadErrors)
    BY DEF Steady, TypeInv, TypeOK
  <2>2. b \in damaged /\ UNCHANGED damaged
    BY <1>3, <2>1 DEF Reject
  <2>3. a # b
    BY <2>2
  <2> QED BY <1>1, <1>3, <2>2, <2>3 DEF Reject, TypeInv, TypeOK
<1>4. ASSUME /\ \A b \in Attempts, r \in Shards : ~Arrive(b, r)
             /\ \A f \in Finalizers, r \in Shards, b \in Attempts : ~Reject(f, r, b)
      PROVE  "invalid" \notin staged'[a].objects
  <2>1. UNCHANGED <<staged, damaged>>
    BY <1>4
    DEF Next, vars, Restart, Step, SelectStep, PublishStep, Start, SkipFinalized, List,
        ReadCard, Accept, NoneHealthy, Decide, CommitSplit, Estimate, Recheck, UploadEstimate,
        UploadWelford, UploadStats, WriteCard, MarkComplete, Fail
  <2> QED BY <1>1, <2>1
<1> QED BY <1>2, <1>3, <1>4

\* The card keeps what it records, and what it records anew was first.
LEMMA CardFollows ==
  ASSUME SteadyInv, NEW f \in Finalizers,
         Restart(f) \/ SkipFinalized(f) \/ Step(f) \/ Fail(f), NEW s \in Shards
  PROVE  card'[s] = card[s] \/ (card[s] = NoAttempt /\ First(s, card'[s]))
<1>1. CASE WriteCard(f)
  <2>1. pc[f] = "record" /\ card' = winner[f]
    BY <1>1 DEF WriteCard
  <2>2. winner[f][s] # NoAttempt
    BY <2>1 DEF SteadyInv, Progress, AllChosen, Publishing
  <2>3. Due(s, winner[f][s])
    BY <2>1, <2>2 DEF SteadyInv, Chooses, ChoseDue, Ended
  <2> QED BY <2>1, <2>3 DEF Due
<1>2. CASE ~WriteCard(f)
  BY <1>2
  DEF published, Restart, Step, SelectStep, PublishStep, Start, SkipFinalized,
      List, ReadCard, Accept, Reject, NoneHealthy, Decide, CommitSplit, Estimate, Recheck,
      UploadEstimate, UploadWelford, UploadStats, MarkComplete, Fail
<1> QED BY <1>1, <1>2

\* What is recorded is there as a whole, and without a defect.
LEMMA RecordedStays ==
  ASSUME SteadyInv, NEW f \in Finalizers,
         Restart(f) \/ SkipFinalized(f) \/ Step(f) \/ Fail(f)
  PROVE  RecordedHealthy'
<1>1. ASSUME NEW s \in Shards PROVE card'[s] # NoAttempt => card'[s] \in Healthy(s)
  BY CardFollows DEF SteadyInv, RecordedHealthy, First
<1>2. \A s \in Shards : Healthy(s)' = Healthy(s)
  BY HealthyKept DEF SteadyInv
<1> QED BY <1>1, <1>2 DEF RecordedHealthy

LEMMA DueStays ==
  ASSUME SteadyInv, NEW f \in Finalizers,
         Restart(f) \/ SkipFinalized(f) \/ Step(f) \/ Fail(f),
         NEW s \in Shards, NEW a, Due(s, a)
  PROVE  Due(s, a)'
<1>1. TypeInv
  BY DEF SteadyInv
<1>2. Healthy(s)' = Healthy(s) /\ (First(s, a)' <=> First(s, a))
  BY <1>1, HealthyKept
<1>3. a \in Healthy(s) /\ a # NoAttempt
  BY HealthyIsSome DEF Due
<1>4. CASE card'[s] = card[s]
  BY <1>2, <1>3, <1>4 DEF Due
<1>5. CASE card[s] = NoAttempt /\ First(s, card'[s])
  <2>1. a = card'[s]
    BY <1>1, <1>3, <1>5, FirstIsUnique DEF Due
  <2> QED BY <1>2, <1>3, <2>1 DEF Due
<1> QED BY <1>4, <1>5, CardFollows

\* A run that is at work chooses no other winner for a shard it has chosen for.
LEMMA ChoicesStayDue ==
  ASSUME SteadyInv, NEW f \in Finalizers,
         Restart(f) \/ SkipFinalized(f) \/ Step(f) \/ Fail(f),
         NEW g \in Finalizers, winner'[g] = winner[g],
         pc'[g] \notin Ended => pc[g] \notin Ended
  PROVE  ChoseDue(g)'
<1> SUFFICES ASSUME pc'[g] \notin Ended, NEW s \in Shards, winner'[g][s] # NoAttempt
             PROVE  Due(s, winner[g][s])'
  BY DEF ChoseDue, Due, First
<1>1. PICK a : a = winner[g][s]
  OBVIOUS
<1>2. Due(s, a)
  BY <1>1 DEF SteadyInv, Chooses, ChoseDue
<1>3. Due(s, a)'
  BY <1>2, DueStays
<1>4. winner'[g][s] = a
  BY <1>1
<1> QED BY <1>3, <1>4 DEF Due, First

\* The candidate accepted for a shard is the one that is due.
LEMMA AcceptsDue ==
  ASSUME SteadyInv, NEW f \in Finalizers, NEW s \in Shards, NEW a \in Attempts, Accept(f, s, a)
  PROVE  Due(s, a)
<1>1. /\ pc[f] = "select" /\ a \in Candidates(f, s) /\ a \notin damaged
      /\ \A b \in Candidates(f, s) : Precedes(f, s, a, b)
  BY DEF Accept, Candidate, Selecting
<1>2. a \in Healthy(s) /\ Healthy(s) \subseteq Candidates(f, s)
  BY <1>1 DEF SteadyInv, Chooses, SawHealthy, Candidates
<1>3. prefer[f][s] = card[s] \/ (prefer[f][s] = NoAttempt /\ First(s, card[s]))
  BY <1>1 DEF SteadyInv, Chooses, Prefers
<1>4. a # NoAttempt
  BY <1>2, HealthyIsSome
<1>5. ASSUME prefer[f][s] = NoAttempt PROVE First(s, a)
  BY <1>1, <1>2, <1>4, <1>5 DEF Precedes, First
<1>6. CASE card[s] = NoAttempt
  <2>1. ~First(s, card[s])
    BY <1>6, HealthyIsSome DEF First
  <2> QED BY <1>2, <1>3, <1>5, <1>6, <2>1 DEF Due
<1>7. CASE card[s] # NoAttempt /\ prefer[f][s] = card[s]
  <2>1. card[s] \in Healthy(s)
    BY <1>7 DEF SteadyInv, RecordedHealthy
  <2>2. Precedes(f, s, a, card[s])
    BY <1>1, <1>2, <2>1
  <2> QED BY <1>2, <1>7, <2>2 DEF Precedes, Due
<1>8. CASE prefer[f][s] = NoAttempt /\ First(s, card[s])
  <2>1. a = card[s]
    BY <1>5, <1>8, FirstIsUnique DEF SteadyInv
  <2> QED BY <1>2, <2>1 DEF Due
<1> QED BY <1>3, <1>6, <1>7, <1>8

\* What a finalizer's step does to its own choices.
LEMMA ChoosesStep ==
  ASSUME SteadyInv, Steady, NEW f \in Finalizers,
         Restart(f) \/ SkipFinalized(f) \/ Step(f) \/ Fail(f)
  PROVE  Chooses(f)'
<1>1. TypeInv /\ Chooses(f) /\ NoneExcluded
  BY DEF SteadyInv
<1>2. \A s \in Shards :
        /\ Healthy(s)' = Healthy(s) /\ (AttemptsOf(s) \ damaged)' = AttemptsOf(s) \ damaged
        /\ \A a : First(s, a)' <=> First(s, a)
  BY <1>1, HealthyKept
<1>3. ASSUME NEW m \in Modes, Start(f, m) PROVE Chooses(f)'
  BY <1>1, <1>3
  DEF Start, Enter, TypeInv, TypeOK, NoSelection, Chooses, SawHealthy, Prefers, ChoseDue
<1>4. ASSUME List(f) PROVE Chooses(f)'
  <2>1. pc[f] = "list" /\ pc'[f] \in {"recall", "failed"} /\ UNCHANGED winner
    BY <1>1, <1>4 DEF List, Enter, TypeInv, TypeOK
  <2>2. pc'[f] = "recall" => seen'[f] = {a \in Attempts : ~Unused(a) /\ Complete(a)}
    BY <1>1, <1>4, <2>1 DEF List, Enter, TypeInv, TypeOK
  <2>3. ASSUME NEW s \in Shards, NEW a \in AttemptsOf(s) \ damaged
        PROVE  a \in Healthy(s) <=> a \in {b \in Attempts : ~Unused(b) /\ Complete(b)}
    BY <1>1, NoShardAssumption
    DEF NoneExcluded, Healthy, AttemptsOf, Unused, Complete, Evidence
  <2>4. \A s \in Shards :
          Healthy(s) = {b \in Attempts : ~Unused(b) /\ Complete(b)} \cap (AttemptsOf(s) \ damaged)
    BY <2>3 DEF Healthy
  <2>5. SawHealthy(f)'
    BY <1>2, <2>1, <2>2, <2>4 DEF SawHealthy
  <2>6. ChoseDue(f)'
    BY <2>1, ChoicesStayDue DEF Ended
  <2> QED BY <2>1, <2>5, <2>6 DEF Chooses, Prefers
<1>5. ASSUME ReadCard(f) PROVE Chooses(f)'
  <2>1. /\ pc[f] = "recall" /\ pc'[f] = "select" /\ prefer'[f] = card
        /\ UNCHANGED <<winner, seen, card>>
    BY <1>1, <1>5 DEF ReadCard, Enter, TypeInv, TypeOK, published
  <2>2. SawHealthy(f)' /\ Prefers(f)'
    BY <1>1, <1>2, <2>1 DEF Chooses, SawHealthy, Prefers
  <2>3. ChoseDue(f)'
    BY <2>1, ChoicesStayDue DEF Ended
  <2> QED BY <2>2, <2>3 DEF Chooses
<1>6. ASSUME NEW s \in Shards, NEW a \in Attempts, Accept(f, s, a) PROVE Chooses(f)'
  <2>1. /\ pc[f] = "select" /\ pc'[f] \in {"select", "decide", "commit"}
        /\ UNCHANGED <<seen, prefer, card>>
        /\ winner'[f][s] = a /\ \A r \in Shards \ {s} : winner'[f][r] = winner[f][r]
    BY <1>1, <1>6
    DEF Accept, Candidate, Selecting, Enter, TypeInv, TypeOK, Selection, published
  <2>2. SawHealthy(f)' /\ Prefers(f)'
    BY <1>1, <1>2, <2>1 DEF Chooses, SawHealthy, Prefers
  <2>3. ASSUME NEW r \in Shards, NEW b, b = winner'[f][r], b # NoAttempt
        PROVE  Due(r, b)'
    <3>1. Due(r, b)
      <4>1. CASE r = s
        BY <1>6, <2>1, <2>3, <4>1, AcceptsDue
      <4>2. CASE r # s
        BY <1>1, <2>1, <2>3, <4>2 DEF Chooses, ChoseDue, Ended
      <4> QED BY <4>1, <4>2
    <3> QED BY <3>1, DueStays
  <2>4. ChoseDue(f)'
    BY <2>3 DEF ChoseDue, Due, First
  <2> QED BY <2>2, <2>4 DEF Chooses
<1>7. ASSUME NEW s \in Shards, NEW a \in Attempts, Reject(f, s, a) PROVE Chooses(f)'
  <2>1. /\ pc[f] = "select" /\ pc'[f] = "select" /\ seen'[f] = seen[f] \ {a}
        /\ UNCHANGED <<winner, prefer, card>>
    BY <1>1, <1>7 DEF Reject, Candidate, Selecting, TypeInv, TypeOK, published
  <2>2. a \in damaged
    <3>1. ~(readErrors < MaxReadErrors)
      BY <1>1 DEF Steady, TypeInv, TypeOK
    <3> QED BY <1>7, <3>1 DEF Reject
  <2>3. SawHealthy(f)'
    BY <1>1, <1>2, <2>1, <2>2 DEF Chooses, SawHealthy
  <2>4. Prefers(f)'
    BY <1>1, <1>2, <2>1 DEF Chooses, Prefers
  <2>5. ChoseDue(f)'
    BY <2>1, ChoicesStayDue DEF Ended
  <2> QED BY <2>3, <2>4, <2>5 DEF Chooses
<1>8. ASSUME SkipFinalized(f) \/ Fail(f) \/ \E s \in Shards : NoneHealthy(f, s)
      PROVE  Chooses(f)'
  <2>1. pc'[f] \in Ended
    BY <1>1, <1>8 DEF SkipFinalized, Fail, NoneHealthy, Enter, TypeInv, TypeOK, Ended
  <2> QED BY <2>1 DEF Chooses, SawHealthy, Prefers, ChoseDue, Ended
<1>9. ASSUME PublishStep(f) PROVE Chooses(f)'
  <2>1. pc[f] \notin Ended /\ pc'[f] \notin {"recall", "select"} /\ UNCHANGED winner
    BY <1>1, <1>9
    DEF PublishStep, Decide, CommitSplit, Estimate, Recheck, UploadEstimate, UploadWelford,
        UploadStats, WriteCard, MarkComplete, Advance, Enter, TypeInv, TypeOK, Ended
  <2>2. ChoseDue(f)'
    BY <2>1, ChoicesStayDue
  <2> QED BY <2>1, <2>2 DEF Chooses, SawHealthy, Prefers
<1> QED
  BY <1>3, <1>4, <1>5, <1>6, <1>7, <1>8, <1>9 DEF Restart, Step, SelectStep

\* A finalizer's step leaves the variables of the others alone.
LEMMA OthersStay ==
  ASSUME TypeInv, NEW f \in Finalizers, NEW g \in Finalizers \ {f},
         Restart(f) \/ SkipFinalized(f) \/ Step(f) \/ Fail(f)
  PROVE  /\ pc'[g] = pc[g] /\ mode'[g] = mode[g] /\ seen'[g] = seen[g]
         /\ prefer'[g] = prefer[g] /\ winner'[g] = winner[g] /\ reuse'[g] = reuse[g]
         /\ at'[g] = at[g] /\ sample'[g] = sample[g]
  BY DEF TypeInv, TypeOK, Restart, Step, SelectStep, PublishStep, Start, SkipFinalized, List,
         ReadCard, Accept, Reject, NoneHealthy, Decide, CommitSplit, Estimate, Recheck,
         UploadEstimate, UploadWelford, UploadStats, WriteCard, MarkComplete, Fail, Advance,
         Enter

\* What a publishing step may replace, and by what.
Writes(f) ==
  /\ pc[f] \in Publishing
  /\ \A s \in Shards : manifest'[s] \in {manifest[s], winner[f][s]}
  /\ card' \in {card, winner[f]}
  /\ welford' \in {welford, OnTrain(winner[f])}
  /\ \/ UNCHANGED norm
     \/ norm'.kind = "ours" /\ norm'.of = OnTrain(winner[f]) /\ norm'.stamp = norm'.of

LEMMA StepWrites ==
  ASSUME TypeInv, NEW f \in Finalizers, Progress(f),
         Restart(f) \/ SkipFinalized(f) \/ Step(f) \/ Fail(f)
  PROVE  UNCHANGED <<manifest, welford, norm, card>> \/ Writes(f)
<1>1. CASE pc[f] \notin Publishing
  BY <1>1, OnlyPublishersPublish DEF published
<1>2. CASE pc[f] \in Publishing /\ CommitSplit(f)
  <2>1. \A s \in Shards : manifest'[s] \in {manifest[s], winner[f][s]}
    BY <1>2 DEF CommitSplit
  <2> QED BY <1>2, <2>1 DEF CommitSplit, Writes
<1>3. CASE pc[f] \in Publishing /\ UploadEstimate(f)
  <2>1. sample[f] = OnTrain(winner[f])
    BY <1>3 DEF UploadEstimate, Progress, SampleTaken
  <2>2. norm'.kind = "ours" /\ norm'.of = OnTrain(winner[f]) /\ norm'.stamp = norm'.of
    BY <1>3, <2>1 DEF UploadEstimate
  <2> QED BY <1>3, <2>2 DEF UploadEstimate, Writes
<1>4. CASE pc[f] \in Publishing /\ UploadStats(f)
  <2>1. norm'.kind = "ours" /\ norm'.of = OnTrain(winner[f]) /\ norm'.stamp = norm'.of
    BY <1>4 DEF UploadStats
  <2> QED BY <1>4, <2>1 DEF UploadStats, Writes
<1>5. CASE pc[f] \in Publishing /\ (UploadWelford(f) \/ WriteCard(f))
  BY <1>5 DEF UploadWelford, WriteCard, Writes
<1>6. CASE /\ ~CommitSplit(f) /\ ~UploadEstimate(f) /\ ~UploadStats(f)
           /\ ~UploadWelford(f) /\ ~WriteCard(f)
  BY <1>6
  DEF published, Restart, Step, SelectStep, PublishStep, Start, SkipFinalized, List, ReadCard,
      Accept, Reject, NoneHealthy, Decide, Estimate, Recheck, MarkComplete, Fail
<1> QED BY <1>1, <1>2, <1>3, <1>4, <1>5, <1>6

\* Two runs that publish publish the same.
LEMMA PublishersAgree ==
  ASSUME SteadyInv, NEW f \in Finalizers, NEW g \in Finalizers,
         pc[f] \in Publishing, pc[g] \in Publishing
  PROVE  winner[f] = winner[g]
<1>1. TypeInv
  BY DEF SteadyInv
<1>2. ASSUME NEW s \in Shards PROVE winner[f][s] = winner[g][s]
  <2>1. winner[f][s] # NoAttempt /\ winner[g][s] # NoAttempt
    BY DEF SteadyInv, Progress, AllChosen
  <2>2. Due(s, winner[f][s]) /\ Due(s, winner[g][s])
    BY <2>1 DEF SteadyInv, Chooses, ChoseDue, Publishing, Ended
  <2> QED BY <1>1, <2>2, DueIsUnique
<1> QED BY <1>1, <1>2 DEF TypeInv, TypeOK, Selection

\* What a run publishes once the marker is there is what is published.
LEMMA PublishersFollowTheCard ==
  ASSUME SteadyInv, NEW f \in Finalizers, pc[f] \in Publishing,
         \A s \in Shards : card[s] # NoAttempt
  PROVE  winner[f] = card
<1>1. TypeInv
  BY DEF SteadyInv
<1>2. ASSUME NEW s \in Shards PROVE winner[f][s] = card[s]
  <2>1. winner[f][s] # NoAttempt
    BY DEF SteadyInv, Progress, AllChosen
  <2>2. Due(s, winner[f][s])
    BY <2>1 DEF SteadyInv, Chooses, ChoseDue, Publishing, Ended
  <2> QED BY <2>2 DEF Due
<1> QED BY <1>1, <1>2 DEF TypeInv, TypeOK, Selection

\* What a run has put in place, a peer's step leaves in place.
LEMMA OthersProgress ==
  ASSUME SteadyInv, NEW f \in Finalizers, NEW g \in Finalizers \ {f},
         Restart(f) \/ SkipFinalized(f) \/ Step(f) \/ Fail(f)
  PROVE  Progress(g)'
<1>1. TypeInv /\ Progress(f) /\ Progress(g)
  BY DEF SteadyInv
<1>2. /\ pc'[g] = pc[g] /\ mode'[g] = mode[g] /\ winner'[g] = winner[g]
      /\ reuse'[g] = reuse[g] /\ at'[g] = at[g] /\ sample'[g] = sample[g]
  BY <1>1, OthersStay
<1>3. CASE UNCHANGED <<manifest, welford, norm, card>> \/ pc[g] \notin Publishing
  BY <1>1, <1>2, <1>3
  DEF Progress, AllChosen, SplitsCommitted, SampleTaken, NormReady, SumsReady, NormIsOf,
      OnTrain, Publishing, Summing
<1>4. CASE Writes(f) /\ pc[g] \in Publishing
  <2>1. winner[f] = winner[g]
    BY <1>4, PublishersAgree DEF Writes
  <2>2. \A s \in Shards : manifest[s] = winner[g][s] => manifest'[s] = winner[g][s]
    BY <1>4, <2>1 DEF Writes
  <2>3. NormIsOf(winner[g]) => NormIsOf(winner[g])'
    BY <1>2, <1>4, <2>1 DEF Writes, NormIsOf, OnTrain
  <2>4. AllChosen(g)' /\ SplitsCommitted(g)'
    BY <1>1, <1>2, <2>2 DEF Progress, AllChosen, SplitsCommitted
  <2>5. OnTrain(manifest) = OnTrain(winner[g]) => OnTrain(manifest') = OnTrain(winner[g])
    BY <2>2 DEF OnTrain, Train
  <2>6. SampleTaken(g)'
    BY <1>1, <1>2, <2>5 DEF Progress, SampleTaken, OnTrain
  <2>7. NormReady(g)'
    BY <1>1, <1>2, <2>3 DEF Progress, NormReady, NormIsOf
  <2>8. SumsReady(g)'
    BY <1>1, <1>2, <1>4, <2>1 DEF Progress, SumsReady, Writes, OnTrain
  <2> QED BY <2>4, <2>6, <2>7, <2>8 DEF Progress
<1> QED BY <1>1, <1>3, <1>4, StepWrites

\* What a run has chosen, a peer's step leaves due.
LEMMA OthersChoose ==
  ASSUME SteadyInv, NEW f \in Finalizers, NEW g \in Finalizers \ {f},
         Restart(f) \/ SkipFinalized(f) \/ Step(f) \/ Fail(f)
  PROVE  Chooses(g)'
<1>1. TypeInv /\ Chooses(g)
  BY DEF SteadyInv
<1>2. /\ pc'[g] = pc[g] /\ seen'[g] = seen[g] /\ prefer'[g] = prefer[g]
      /\ winner'[g] = winner[g]
  BY <1>1, OthersStay
<1>3. \A s \in Shards :
        /\ Healthy(s)' = Healthy(s) /\ (AttemptsOf(s) \ damaged)' = AttemptsOf(s) \ damaged
        /\ \A a : First(s, a)' <=> First(s, a)
  BY <1>1, HealthyKept
<1>4. SawHealthy(g)'
  BY <1>1, <1>2, <1>3 DEF Chooses, SawHealthy
<1>5. Prefers(g)'
  <2> SUFFICES ASSUME pc[g] = "select", NEW s \in Shards
               PROVE  \/ prefer[g][s] = card'[s]
                      \/ prefer[g][s] = NoAttempt /\ First(s, card'[s])
    BY <1>2, <1>3 DEF Prefers, First
  <2>1. prefer[g][s] = card[s] \/ (prefer[g][s] = NoAttempt /\ First(s, card[s]))
    BY <1>1 DEF Chooses, Prefers
  <2>2. card'[s] = card[s] \/ (card[s] = NoAttempt /\ First(s, card'[s]))
    BY CardFollows
  <2>3. card[s] = NoAttempt => ~First(s, card[s])
    BY HealthyIsSome DEF First
  <2> QED BY <2>1, <2>2, <2>3
<1>6. ChoseDue(g)'
  BY <1>2, ChoicesStayDue
<1> QED BY <1>4, <1>5, <1>6 DEF Chooses

\* The marker goes on vouching for one selection while late peers write.
LEMMA StaysOneSelection ==
  ASSUME SteadyInv, NEW f \in Finalizers,
         Restart(f) \/ SkipFinalized(f) \/ Step(f) \/ Fail(f)
  PROVE  CompleteIsOneSelection'
<1>1. TypeInv /\ TypeInv' /\ Progress(f) /\ CompleteIsOneSelection
  BY TypeStep DEF SteadyInv, Next
<1>2. CASE MarkComplete(f)
  BY <1>1, <1>2, MarkedIsOneSelection
<1>3. CASE ~MarkComplete(f)
  <2>1. UNCHANGED complete
    BY <1>3
    DEF published, Restart, Step, SelectStep, PublishStep, Start, SkipFinalized, List, ReadCard,
        Accept, Reject, NoneHealthy, Decide, CommitSplit, Estimate, Recheck, UploadEstimate,
        UploadWelford, UploadStats, WriteCard, Fail
  <2>2. CASE UNCHANGED <<manifest, welford, norm, card>>
    BY <1>1, <2>1, <2>2 DEF CompleteIsOneSelection, OnTrain
  <2>3. CASE complete /\ Writes(f)
    <3>1. winner[f] = card
      BY <1>1, <2>3, PublishersFollowTheCard DEF CompleteIsOneSelection, Writes
    <3>2. /\ \A s \in Shards : card[s] # NoAttempt
          /\ manifest = card /\ welford = OnTrain(card) /\ NormIsOf(card)
      BY <1>1, <2>3 DEF CompleteIsOneSelection, NormIsOf
    <3>3. card' = card /\ welford' = OnTrain(card) /\ \A s \in Shards : manifest'[s] = card[s]
      BY <2>3, <3>1, <3>2 DEF Writes
    <3>4. manifest' = card
      BY <1>1, <3>3 DEF TypeInv, TypeOK, Selection
    <3>5. norm'.kind = "foreign" \/ (norm'.kind = "ours" /\ norm'.of = OnTrain(card)
                                       /\ norm'.stamp = OnTrain(card))
      BY <2>3, <3>1, <3>2 DEF Writes, NormIsOf
    <3> QED BY <3>2, <3>3, <3>4, <3>5 DEF CompleteIsOneSelection, OnTrain
  <2>4. CASE ~complete
    BY <2>1, <2>4 DEF CompleteIsOneSelection
  <2> QED BY <1>1, <2>2, <2>3, <2>4, StepWrites
<1> QED BY <1>2, <1>3

LEMMA SteadyInit == Init => SteadyInv
<1> SUFFICES ASSUME Init PROVE SteadyInv
  OBVIOUS
<1>1. SerialInv
  BY SerialInit
<1>2. NoneExcluded
  BY DEF Init, NoneExcluded, UnusedAttempt
<1>3. RecordedHealthy /\ CompleteIsOneSelection
  BY DEF Init, RecordedHealthy, NoSelection, CompleteIsOneSelection
<1>4. ASSUME NEW f \in Finalizers PROVE Chooses(f)
  BY DEF Init, Chooses, SawHealthy, Prefers, ChoseDue, Ended
<1> QED BY <1>1, <1>2, <1>3, <1>4 DEF SteadyInv, SerialInv

\* What concerns neither the published objects nor a run at work leaves the
\* invariant alone: attempts that arrive, and runs that are yet to start.
LEMMA SteadyKept ==
  ASSUME SteadyInv, NoneExcluded', RecordedHealthy',
         staged' \in [Attempts -> Attempt], mtime' \in [Attempts -> Nat], damaged' \subseteq Attempts,
         UNCHANGED <<published, mode, seen, prefer, winner, reuse, at, sample, readErrors, faults>>,
         \/ UNCHANGED <<staged, mtime, damaged, pc>>
         \/ /\ \A f \in Finalizers : pc[f] \in Ended
            /\ UNCHANGED pc \/ pc' = [f \in Finalizers |-> "off"]
  PROVE  SteadyInv'
<1>1. TypeOK /\ SplitLeft /\ Honest /\ CompleteIsOneSelection
  BY DEF SteadyInv, TypeInv
<1>2. pc' \in [Finalizers -> Phases] /\ \A f \in Finalizers : pc'[f] \in {pc[f], "off"}
  BY <1>1 DEF TypeOK, Phases, Ended
<1>3. TypeOK'
  BY <1>1, <1>2 DEF TypeOK, published, Selection, TrainSelection, Normalization, Train
<1>4. SplitLeft'
  BY <1>1, <1>2 DEF SplitLeft
<1>5. ASSUME NEW f \in Finalizers PROVE Progress(f)'
  <2>1. Progress(f)
    BY DEF SteadyInv
  <2>2. CASE pc'[f] = pc[f]
    BY <2>1, <2>2
       DEF Progress, AllChosen, SplitsCommitted, SampleTaken, NormReady, SumsReady, NormIsOf,
           OnTrain, published
  <2>3. CASE pc'[f] = "off"
    BY <2>3
       DEF Progress, AllChosen, SplitsCommitted, SampleTaken, NormReady, SumsReady, Publishing,
           Summing
  <2> QED
    BY <1>2, <2>2, <2>3
<1>6. CompleteIsOneSelection' /\ Honest'
  BY <1>1 DEF CompleteIsOneSelection, Honest, OnTrain, published
<1>7. ASSUME NEW f \in Finalizers PROVE Chooses(f)'
  <2>1. CASE pc'[f] \in Ended
    BY <2>1 DEF Chooses, SawHealthy, Prefers, ChoseDue, Ended
  <2>2. CASE UNCHANGED <<staged, mtime, damaged, pc>>
    BY <2>2
    DEF SteadyInv, published, Chooses, SawHealthy, Prefers, ChoseDue, Due, First, Healthy,
        AttemptsOf
  <2> QED BY <1>2, <2>1, <2>2 DEF Ended
<1> QED
  BY <1>3, <1>4, <1>5, <1>6, <1>7 DEF SteadyInv, TypeInv

LEMMA SteadyStep ==
  ASSUME Steady, SteadyInv, [Next]_vars
  PROVE  SteadyInv'
<1>1. TypeInv /\ TypeInv' /\ NoneExcluded'
  BY TypeStep, NoneExcludedStays DEF SteadyInv
<1>2. ASSUME NEW f \in Finalizers, Restart(f) \/ SkipFinalized(f) \/ Step(f) \/ Fail(f)
      PROVE  SteadyInv'
  <2>1. Progress(f)' /\ Honest'
    BY <1>1, <1>2, ProgressStep DEF SteadyInv
  <2>2. Chooses(f)'
    BY <1>2, ChoosesStep
  <2>3. \A g \in Finalizers \ {f} : Progress(g)' /\ Chooses(g)'
    BY <1>2, OthersProgress, OthersChoose
  <2>4. CompleteIsOneSelection' /\ RecordedHealthy'
    BY <1>2, StaysOneSelection, RecordedStays
  <2> QED BY <1>1, <2>1, <2>2, <2>3, <2>4 DEF SteadyInv
<1>3. staged' \in [Attempts -> Attempt] /\ mtime' \in [Attempts -> Nat] /\ damaged' \subseteq Attempts
  BY <1>1 DEF TypeInv, TypeOK
<1>4. ASSUME NEW a \in Attempts, NEW r \in Shards, Arrive(a, r) PROVE SteadyInv'
  <2>1. /\ Unused(a) /\ damaged' \subseteq damaged \cup {a} /\ UNCHANGED card
        /\ \A b \in Attempts \ {a} : staged'[b] = staged[b]
    BY <1>1, <1>4 DEF Arrive, published, TypeInv, TypeOK
  <2>2. ASSUME NEW s \in Shards, card[s] # NoAttempt PROVE card[s] \in Healthy(s)'
    <3>1. card[s] \in Healthy(s)
      BY <2>2 DEF SteadyInv, RecordedHealthy
    <3>2. card[s] # a
      BY <2>1, <3>1, NoShardAssumption DEF Healthy, AttemptsOf, Unused
    <3> QED BY <2>1, <3>1, <3>2 DEF Healthy, AttemptsOf
  <2>3. RecordedHealthy'
    BY <2>1, <2>2 DEF RecordedHealthy
  <2> QED BY <1>1, <1>3, <1>4, <2>3, SteadyKept DEF Arrive, Quiescent, run
<1>5. ASSUME UNCHANGED vars PROVE SteadyInv'
  <2>1. RecordedHealthy'
    BY <1>5 DEF SteadyInv, RecordedHealthy, Healthy, AttemptsOf, vars, published
  <2> QED BY <1>1, <1>3, <1>5, <2>1, SteadyKept DEF vars, run
<1> QED BY <1>2, <1>4, <1>5 DEF Next

\* Where no healthy fragment is misread, a dataset that is marked complete was built
\* from one selection of attempts, however many finalizers interleave, crash and start
\* over, in whatever modes, and although some still write after the marker.
THEOREM SteadyFinalizersPublishOneSelection ==
  ASSUME Steady
  PROVE  Spec => []CompleteIsOneSelection
<1>1. Init => SteadyInv
  BY SteadyInit
<1>2. SteadyInv /\ [Next]_vars => SteadyInv'
  BY SteadyStep
<1>3. SteadyInv => CompleteIsOneSelection
  BY DEF SteadyInv
<1> QED BY <1>1, <1>2, <1>3, PTL DEF Spec

\* There, no finalizer displaces the winner another one recorded: the card changes
\* only where it records nothing yet.
THEOREM SteadyFinalizersKeepTheCard ==
  ASSUME Steady
  PROVE  Spec => CardIsStable
<1>1. Init => SteadyInv
  BY SteadyInit
<1>2. SteadyInv /\ [Next]_vars => SteadyInv'
  BY SteadyStep
<1>3. SteadyInv /\ [Next]_vars =>
        [\A s \in Shards :
           card[s] # NoAttempt /\ card'[s] # card[s] =>
             "invalid" \in staged[card[s]].objects]_vars
  <2> SUFFICES ASSUME SteadyInv, Next, NEW s \in Shards, card[s] # NoAttempt
               PROVE  card'[s] = card[s]
    BY DEF vars
  <2>1. CASE \E a \in Attempts, r \in Shards : Arrive(a, r)
    BY <2>1 DEF Arrive, published
  <2>2. CASE \E f \in Finalizers : Restart(f) \/ SkipFinalized(f) \/ Step(f) \/ Fail(f)
    BY <2>2, CardFollows
  <2> QED BY <2>1, <2>2 DEF Next
<1> QED BY <1>1, <1>2, <1>3, PTL DEF Spec, CardIsStable

-----------------------------------------------------------------------------
(***************************************************************************)
(* Statistics a user brought are kept in one mode and replaced in the      *)
(* other, so late peers leave what is published alone if the mode is the   *)
(* same for all.                                                           *)
(***************************************************************************)
OneMode == \E m : Modes \subseteq {m}

KeepsMode(f) ==
  /\ pc[f] \notin Ended => mode[f] \in Modes
  /\ pc[f] = "stats" => mode[f] = "exact"
  /\ pc[f] = "decide" => mode[f] = "estimate"
  /\ pc[f] = "commit" /\ mode[f] = "estimate" /\ ~reuse[f] => norm.kind # "foreign"
  /\ pc[f] \in {"estimate", "recheck", "upload"} =>
       mode[f] = "estimate" /\ norm.kind # "foreign"
  /\ pc[f] \in {"record", "mark"} /\ mode[f] = "exact" => norm.kind # "foreign"

ForeignIsKept == complete /\ norm.kind = "foreign" => "exact" \notin Modes

ModeInv == TypeInv /\ ForeignIsKept /\ \A f \in Finalizers : KeepsMode(f)

\* No finalizer makes the statistics a user's.
LEMMA ForeignIsOlder ==
  ASSUME NEW f \in Finalizers, Restart(f) \/ SkipFinalized(f) \/ Step(f) \/ Fail(f),
         norm'.kind = "foreign"
  PROVE  UNCHANGED norm
<1>1. ASSUME UploadEstimate(f) \/ UploadStats(f) PROVE FALSE
  BY <1>1 DEF UploadEstimate, UploadStats
<1> QED
  BY <1>1
  DEF published, Restart, Step, SelectStep, PublishStep, Start, SkipFinalized, List, ReadCard,
      Accept, Reject, NoneHealthy, Decide, CommitSplit, Estimate, Recheck, UploadWelford,
      WriteCard, MarkComplete, Fail

LEMMA KeepsModeStep ==
  ASSUME ModeInv, NEW f \in Finalizers,
         Restart(f) \/ SkipFinalized(f) \/ Step(f) \/ Fail(f)
  PROVE  KeepsMode(f)'
<1>1. TypeInv /\ KeepsMode(f)
  BY DEF ModeInv
<1>2. norm'.kind = "foreign" => norm.kind = "foreign"
  BY ForeignIsOlder
<1>3. ASSUME NEW m \in Modes, Start(f, m) PROVE KeepsMode(f)'
  BY <1>1, <1>3, ModesAssumption DEF Start, Enter, KeepsMode, TypeInv, TypeOK, Ended
<1>4. ASSUME SkipFinalized(f) \/ Fail(f) \/ \E s \in Shards : NoneHealthy(f, s)
      PROVE  KeepsMode(f)'
  BY <1>1, <1>4 DEF SkipFinalized, Fail, NoneHealthy, Enter, KeepsMode, TypeInv, TypeOK, Ended
<1>5. ASSUME \/ List(f) \/ ReadCard(f)
             \/ \E s \in Shards, a \in Attempts : Reject(f, s, a)
      PROVE  KeepsMode(f)'
  BY <1>1, <1>5
  DEF List, ReadCard, Reject, Candidate, Selecting, Enter, KeepsMode, TypeInv, TypeOK, Ended
<1>6. ASSUME NEW s \in Shards, NEW a \in Attempts, Accept(f, s, a) PROVE KeepsMode(f)'
  <2>1. /\ pc[f] = "select" /\ UNCHANGED mode /\ pc'[f] \in {"select", "decide", "commit"}
        /\ pc'[f] = "decide" => mode[f] = "estimate"
        /\ pc'[f] = "commit" => mode[f] # "estimate"
    BY <1>1, <1>6 DEF Accept, Candidate, Selecting, Enter, TypeInv, TypeOK
  <2> QED BY <1>1, <2>1 DEF KeepsMode, Ended
<1>7. ASSUME Decide(f) PROVE KeepsMode(f)'
  <2>1. pc[f] = "decide" /\ pc'[f] = "commit" /\ UNCHANGED <<mode, norm>>
    BY <1>1, <1>7 DEF Decide, Enter, TypeInv, TypeOK, published
  <2>2. norm.kind = "foreign" => reuse'[f]
    BY <1>1, <1>7, Zenon DEF Decide, ReusesStats, TypeInv, TypeOK
  <2> QED BY <1>1, <2>1, <2>2 DEF KeepsMode, Ended
<1>8. ASSUME CommitSplit(f) PROVE KeepsMode(f)'
  <2>1. /\ pc[f] = "commit" /\ UNCHANGED <<mode, norm, reuse>>
        /\ pc'[f] \in {"estimate", "welford", "commit"}
        /\ pc'[f] = "estimate" => mode[f] = "estimate" /\ ~reuse[f]
    BY <1>1, <1>8 DEF CommitSplit, Advance, Enter, TypeInv, TypeOK
  <2> QED BY <1>1, <2>1 DEF KeepsMode, Ended
<1>9. ASSUME Estimate(f) \/ Recheck(f) \/ UploadEstimate(f) PROVE KeepsMode(f)'
  <2>1. /\ pc[f] \in {"estimate", "recheck", "upload"} /\ UNCHANGED mode
        /\ pc'[f] \in {"recheck", "upload", "welford", "commit"}
    BY <1>1, <1>9
    DEF Estimate, Recheck, UploadEstimate, Advance, Enter, TypeInv, TypeOK
  <2> QED BY <1>1, <1>2, <2>1 DEF KeepsMode, Ended
<1>10. ASSUME UploadWelford(f) PROVE KeepsMode(f)'
  <2>1. /\ pc[f] = "welford" /\ UNCHANGED mode
        /\ pc'[f] = IF mode[f] = "estimate" THEN "record" ELSE "stats"
        /\ mode[f] \in {"exact", "estimate"}
    BY <1>1, <1>10 DEF UploadWelford, Enter, TypeInv, TypeOK
  <2> QED BY <1>1, <2>1 DEF KeepsMode, Ended
<1>11. ASSUME UploadStats(f) \/ WriteCard(f) \/ MarkComplete(f) PROVE KeepsMode(f)'
  <2>1. /\ UNCHANGED mode
        /\ \/ pc[f] = "stats" /\ pc'[f] = "record" /\ norm'.kind = "ours"
           \/ pc[f] = "record" /\ pc'[f] = "mark" /\ UNCHANGED norm
           \/ pc[f] = "mark" /\ pc'[f] = "ok" /\ UNCHANGED norm
    BY <1>1, <1>11 DEF UploadStats, WriteCard, MarkComplete, Enter, TypeInv, TypeOK
  <2> QED BY <1>1, <2>1 DEF KeepsMode, Ended
<1> QED
  BY <1>3, <1>4, <1>5, <1>6, <1>7, <1>8, <1>9, <1>10, <1>11
  DEF Restart, Step, SelectStep, PublishStep

LEMMA ModeStep ==
  ASSUME OneMode, ModeInv, [Next]_vars
  PROVE  ModeInv'
<1>1. TypeInv /\ TypeInv'
  BY TypeStep DEF ModeInv
<1>2. ASSUME NEW f \in Finalizers, Restart(f) \/ SkipFinalized(f) \/ Step(f) \/ Fail(f)
      PROVE  ModeInv'
  <2>1. norm'.kind = "foreign" => norm.kind = "foreign"
    BY <1>2, ForeignIsOlder
  <2>2. ASSUME NEW g \in Finalizers \ {f} PROVE KeepsMode(g)'
    <3>1. pc'[g] = pc[g] /\ mode'[g] = mode[g] /\ reuse'[g] = reuse[g]
      BY <1>1, <1>2, OthersStay
    <3> QED BY <2>1, <3>1 DEF ModeInv, KeepsMode
  <2>3. ForeignIsKept'
    <3>1. CASE MarkComplete(f)
      <4>1. pc[f] = "mark" /\ mode[f] \in Modes /\ UNCHANGED norm
        BY <3>1 DEF MarkComplete, ModeInv, KeepsMode, Ended
      <4>2. norm.kind = "foreign" => mode[f] # "exact"
        BY <4>1 DEF ModeInv, KeepsMode
      <4> QED BY <4>1, <4>2 DEF OneMode, ForeignIsKept
    <3>2. CASE ~MarkComplete(f)
      <4>1. UNCHANGED complete
        BY <1>2, <3>2
        DEF published, Restart, Step, SelectStep, PublishStep, Start, SkipFinalized, List,
            ReadCard, Accept, Reject, NoneHealthy, Decide, CommitSplit, Estimate, Recheck,
            UploadEstimate, UploadWelford, UploadStats, WriteCard, Fail
      <4> QED BY <2>1, <4>1 DEF ModeInv, ForeignIsKept
    <3> QED BY <3>1, <3>2
  <2>4. KeepsMode(f)'
    BY <1>2, KeepsModeStep
  <2> QED BY <1>1, <2>2, <2>3, <2>4 DEF ModeInv
<1>3. ASSUME UNCHANGED <<published, run>> PROVE ModeInv'
  BY <1>1, <1>3 DEF ModeInv, ForeignIsKept, KeepsMode, published, run
<1> QED BY <1>2, <1>3 DEF Next, Arrive, vars

\* Where no healthy fragment is misread and all finalizers compute the statistics in
\* the same mode, nothing published changes after the marker, although peers that
\* started before it go on writing.
THEOREM SteadyFinalizersNeverRewrite ==
  ASSUME Steady, OneMode
  PROVE  Spec => PublishedIsFinal
<1> DEFINE Inv == SteadyInv /\ ModeInv
<1>1. Init => Inv
  <2>1. Init => TypeInv /\ SteadyInv
    BY SteadyInit, InitTypes
  <2>2. Init => ForeignIsKept /\ \A f \in Finalizers : KeepsMode(f)
    BY DEF Init, ForeignIsKept, KeepsMode, Ended
  <2> QED BY <2>1, <2>2 DEF ModeInv
<1>2. Inv /\ [Next]_vars => Inv'
  BY SteadyStep, ModeStep
<1>3. Inv /\ [Next]_vars => [complete => UNCHANGED published]_vars
  <2> SUFFICES ASSUME SteadyInv, ModeInv, Next, complete PROVE UNCHANGED published
    BY DEF vars
  <2>1. ASSUME NEW f \in Finalizers, Restart(f) \/ SkipFinalized(f) \/ Step(f) \/ Fail(f)
        PROVE  UNCHANGED published
    <3>1. TypeInv /\ TypeInv' /\ Progress(f)
      BY TypeStep DEF SteadyInv
    <3>2. complete'
      BY <2>1
      DEF published, Restart, Step, SelectStep, PublishStep, Start, SkipFinalized, List,
          ReadCard, Accept, Reject, NoneHealthy, Decide, CommitSplit, Estimate, Recheck,
          UploadEstimate, UploadWelford, UploadStats, WriteCard, MarkComplete, Fail
    <3>3. CASE Writes(f)
      <4>1. /\ \A s \in Shards : card[s] # NoAttempt
            /\ manifest = card /\ welford = OnTrain(card) /\ NormIsOf(card)
        BY DEF SteadyInv, CompleteIsOneSelection, NormIsOf
      <4>2. winner[f] = card
        BY <3>3, <4>1, PublishersFollowTheCard DEF Writes
      <4>3. /\ card' = card /\ welford' = welford
            /\ \A s \in Shards : manifest'[s] = manifest[s]
        BY <3>3, <4>1, <4>2 DEF Writes
      <4>4. manifest' = manifest
        BY <3>1, <4>3 DEF TypeInv, TypeOK, Selection
      <4>5. CASE norm.kind = "foreign"
        <5>1. "exact" \notin Modes
          BY <4>5 DEF ModeInv, ForeignIsKept
        <5>2. ~UploadStats(f) /\ ~UploadEstimate(f)
          BY <4>5, <5>1 DEF ModeInv, KeepsMode, UploadStats, UploadEstimate, Ended
        <5>3. UNCHANGED norm
          BY <2>1, <5>2
          DEF published, Restart, Step, SelectStep, PublishStep, Start, SkipFinalized, List,
              ReadCard, Accept, Reject, NoneHealthy, Decide, CommitSplit, Estimate, Recheck,
              UploadWelford, WriteCard, MarkComplete, Fail
        <5> QED BY <3>2, <4>3, <4>4, <5>3 DEF published
      <4>6. CASE norm.kind = "ours" /\ norm.of = OnTrain(card) /\ norm.stamp = OnTrain(card)
        <5>1. norm \in Normalization /\ norm' \in Normalization
          BY <3>1 DEF TypeInv, TypeOK
        <5>2. norm'.kind = norm.kind /\ norm'.of = norm.of /\ norm'.stamp = norm.stamp
          BY <3>3, <4>2, <4>6 DEF Writes
        <5>3. norm' = norm
          BY <5>1, <5>2 DEF Normalization
        <5> QED BY <3>2, <4>3, <4>4, <5>3 DEF published
      <4> QED BY <4>1, <4>5, <4>6 DEF NormIsOf
    <3> QED BY <2>1, <3>1, <3>2, <3>3, StepWrites DEF published
  <2>2. CASE \E a \in Attempts, s \in Shards : Arrive(a, s)
    BY <2>2 DEF Arrive
  <2> QED BY <2>1, <2>2 DEF Next
<1> QED BY <1>1, <1>2, <1>3, PTL DEF Spec, PublishedIsFinal
=============================================================================

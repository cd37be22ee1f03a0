--------------------------- MODULE FinalizeDataset ---------------------------
(***************************************************************************)
(* The finalize stage (cli/finalize_dataset.py and                         *)
(* pipeline/data/lance_finalize.py): choose one healthy attempt per shard, *)
(* commit each split's manifest, upload the statistics and the dataset     *)
(* card, and write dataset.complete last.                                  *)
(*                                                                         *)
(* Any number of finalizers may run; nothing arbitrates between them but   *)
(* the marker, read once on entry.  A finalizer keeps nothing across runs: *)
(* the next run starts over from what is stored.                           *)
(*                                                                         *)
(* Splits are numbered in the order they are committed, 1 being train.     *)
(* Attempts are ordered by their number where the code compares the keys   *)
(* of their .valid markers.                                                *)
(*                                                                         *)
(* Data left out: the statistics' values (named by the attempts they were  *)
(* computed from), the language artifact, tracking and progress events.    *)
(***************************************************************************)
EXTENDS Staging

CONSTANTS
  SplitOf,        \* [Shards -> split of the shard]
  NumSplits,      \* splits with at least one shard
  Finalizers,     \* finalize processes
  Modes,          \* statistics modes a finalizer may be started with
  MaxReadErrors,  \* bound: healthy fragments that fail to be read
  MaxFaults       \* bound: steps that raise, crashes

ASSUME ShardsAreNumbered == Shards \subseteq Nat
ASSUME SplitAssumption ==
  /\ NumSplits \in Nat \ {0}
  /\ SplitOf \in [Shards -> 1 .. NumSplits]
  /\ \E s \in Shards : SplitOf[s] = 1     \* _require_nonempty_train
ASSUME ModesAssumption == Modes \subseteq {"exact", "estimate"}
ASSUME BoundsAssumption == MaxReadErrors \in Nat /\ MaxFaults \in Nat

VARIABLES
  mtime,       \* LastModified of each attempt's .valid marker
  damaged,     \* attempts the structural checks reject
  manifest,    \* [Shards -> attempt committed in the shard's split]
  welford,     \* train attempts welford.npz folds
  norm,        \* stats.npz: the train attempts it is of, and its provenance
  card,        \* dataset.json: the attempt recorded for each shard
  complete,    \* dataset.complete exists
  pc, mode, seen, prefer, winner, reuse, at, sample,   \* of each finalizer
  readErrors, faults

published == <<manifest, welford, norm, card, complete>>
run == <<pc, mode, seen, prefer, winner, reuse, at, sample>>
vars == <<staged, mtime, damaged, published, run, readErrors, faults>>

Train == {s \in Shards : SplitOf[s] = 1}

Selection == [Shards -> Attempts \cup {NoAttempt}]
TrainSelection == [Train -> Attempts \cup {NoAttempt}]
NoSelection == [s \in Shards |-> NoAttempt]
OnTrain(sel) == [s \in Train |-> sel[s]]

\* "foreign" statistics carry no provenance: supplied by a user.
Normalization ==
  [kind : {"none", "foreign", "ours"}, of : TrainSelection, stamp : TrainSelection]

NoNorm == [kind |-> "none", of |-> OnTrain(NoSelection), stamp |-> OnTrain(NoSelection)]
ForeignNorm == [NoNorm EXCEPT !.kind = "foreign"]

Ended == {"off", "ok", "failed"}
Phases == Ended \cup {"list", "recall", "select", "decide", "commit", "estimate",
                      "recheck", "upload", "welford", "stats", "record", "mark"}

TypeOK ==
  /\ staged \in [Attempts -> Attempt]
  /\ mtime \in [Attempts -> Nat]
  /\ damaged \in SUBSET Attempts
  /\ manifest \in Selection
  /\ welford \in TrainSelection
  /\ norm \in Normalization
  /\ card \in Selection
  /\ complete \in BOOLEAN
  /\ pc \in [Finalizers -> Phases]
  /\ mode \in [Finalizers -> {"exact", "estimate"}]
  /\ seen \in [Finalizers -> SUBSET Attempts]
  /\ prefer \in [Finalizers -> Selection]
  /\ winner \in [Finalizers -> Selection]
  /\ reuse \in [Finalizers -> BOOLEAN]
  /\ at \in [Finalizers -> 1 .. NumSplits + 1]
  /\ sample \in [Finalizers -> TrainSelection]
  /\ readErrors \in 0 .. MaxReadErrors
  /\ faults \in 0 .. MaxFaults

Init ==
  /\ staged = [a \in Attempts |-> UnusedAttempt]
  /\ mtime = [a \in Attempts |-> 0]
  /\ damaged = {}
  /\ manifest = NoSelection
  /\ welford = OnTrain(NoSelection)
  /\ norm \in {NoNorm, ForeignNorm}
  /\ card = NoSelection
  /\ complete = FALSE
  /\ pc = [f \in Finalizers |-> "off"]
  /\ mode = [f \in Finalizers |-> "exact"]
  /\ seen = [f \in Finalizers |-> {}]
  /\ prefer = [f \in Finalizers |-> NoSelection]
  /\ winner = [f \in Finalizers |-> NoSelection]
  /\ reuse = [f \in Finalizers |-> FALSE]
  /\ at = [f \in Finalizers |-> 1]
  /\ sample = [f \in Finalizers |-> OnTrain(NoSelection)]
  /\ readErrors = 0
  /\ faults = 0

Enter(f, phase) == pc' = [pc EXCEPT ![f] = phase]

-----------------------------------------------------------------------------
(***************************************************************************)
(* Workers.  Generation is quiescent while a finalizer runs; between runs  *)
(* a straggler may still land.                                             *)
(***************************************************************************)
Quiescent == \A f \in Finalizers : pc[f] \in Ended

\* An attempt becomes complete.  Storage timestamps do not go back, but they
\* are coarse.
Arrive(a, s) ==
  /\ Quiescent
  /\ Unused(a)
  /\ \E latest \in {mtime[b] : b \in Attempts} :
       /\ \A b \in Attempts : mtime[b] <= latest
       /\ \E t \in {latest, latest + 1} \ {0} : mtime' = [mtime EXCEPT ![a] = t]
  /\ staged' = [staged EXCEPT ![a] =
                  [shard |-> s, objects |-> Objects \ {"invalid"}, data |-> a, stats |-> a]]
  /\ damaged' \in {damaged, damaged \cup {a}}
  /\ UNCHANGED <<published, run, readErrors, faults>>

-----------------------------------------------------------------------------
(***************************************************************************)
(* Selection of the winners.                                               *)
(***************************************************************************)

\* The marker is absent: this run finalizes.
Start(f, m) ==
  /\ pc[f] \in Ended
  /\ ~complete
  /\ Enter(f, "list")
  /\ mode' = [mode EXCEPT ![f] = m]
  /\ seen' = [seen EXCEPT ![f] = {}]
  /\ prefer' = [prefer EXCEPT ![f] = NoSelection]
  /\ winner' = [winner EXCEPT ![f] = NoSelection]
  /\ reuse' = [reuse EXCEPT ![f] = FALSE]
  /\ at' = [at EXCEPT ![f] = 1]
  /\ sample' = [sample EXCEPT ![f] = OnTrain(NoSelection)]
  /\ UNCHANGED <<staged, mtime, damaged, published, readErrors, faults>>

\* The marker is there: nothing to do.
SkipFinalized(f) ==
  /\ pc[f] \in Ended
  /\ complete
  /\ Enter(f, "ok")
  /\ UNCHANGED <<staged, mtime, damaged, published, mode, seen, prefer, winner,
                 reuse, at, sample, readErrors, faults>>

\* One listing of the staging prefix; a shard without a complete attempt is
\* missing.
List(f) ==
  /\ pc[f] = "list"
  /\ IF \A s \in Shards : Staged(s)
     THEN /\ seen' = [seen EXCEPT ![f] = {a \in Attempts : ~Unused(a) /\ Complete(a)}]
          /\ Enter(f, "recall")
     ELSE /\ Enter(f, "failed")
          /\ UNCHANGED seen
  /\ UNCHANGED <<staged, mtime, damaged, published, mode, prefer, winner,
                 reuse, at, sample, readErrors, faults>>

\* Mutant of ReadCard: the recorded winners are ignored.
ReadCardIgnored(f) ==
  /\ pc[f] = "recall"
  /\ Enter(f, "select")
  /\ UNCHANGED <<staged, mtime, damaged, published, mode, seen, prefer, winner,
                 reuse, at, sample, readErrors, faults>>

\* The winners a previous run recorded.
ReadCard(f) ==
  /\ pc[f] = "recall"
  /\ prefer' = [prefer EXCEPT ![f] = card]
  /\ Enter(f, "select")
  /\ UNCHANGED <<staged, mtime, damaged, published, mode, seen, winner,
                 reuse, at, sample, readErrors, faults>>

\* The shard being selected for: shards are taken in order.
Selecting(f, s) ==
  /\ pc[f] = "select"
  /\ winner[f][s] = NoAttempt
  /\ \A r \in Shards : winner[f][r] = NoAttempt => s <= r

Candidates(f, s) == seen[f] \cap AttemptsOf(s)

\* Mutant of Precedes: candidates are tried as they come.
PrecedesNot(f, s, a, b) == TRUE

\* The recorded winner first, then the earliest marker, ties by key.
Precedes(f, s, a, b) ==
  \/ a = prefer[f][s]
  \/ /\ b # prefer[f][s]
     /\ mtime[a] < mtime[b] \/ (mtime[a] = mtime[b] /\ a <= b)

Candidate(f, s, a) ==
  /\ Selecting(f, s)
  /\ a \in Candidates(f, s)
  /\ \A b \in Candidates(f, s) : Precedes(f, s, a, b)

\* Mutant of Accept: nothing is checked.
AcceptUnchecked(f, s, a) ==
  /\ Candidate(f, s, a)
  /\ winner' = [winner EXCEPT ![f][s] = a]
  /\ Enter(f, IF \E r \in Shards \ {s} : winner[f][r] = NoAttempt THEN "select"
              ELSE IF mode[f] = "estimate" THEN "decide" ELSE "commit")
  /\ UNCHANGED <<staged, mtime, damaged, published, mode, seen, prefer,
                 reuse, at, sample, readErrors, faults>>

\* The candidate passes every check; after the last shard the run goes on.
Accept(f, s, a) ==
  /\ Candidate(f, s, a)
  /\ a \notin damaged
  /\ winner' = [winner EXCEPT ![f][s] = a]
  /\ Enter(f, IF \E r \in Shards \ {s} : winner[f][r] = NoAttempt THEN "select"
              ELSE IF mode[f] = "estimate" THEN "decide" ELSE "commit")
  /\ UNCHANGED <<staged, mtime, damaged, published, mode, seen, prefer,
                 reuse, at, sample, readErrors, faults>>

\* Mutant of Reject: the run fails on the spot and leaves the attempt valid.
RejectAndRaise(f, s, a) ==
  /\ Candidate(f, s, a)
  /\ a \in damaged
  /\ Enter(f, "failed")
  /\ UNCHANGED <<staged, mtime, damaged, published, mode, seen, prefer, winner,
                 reuse, at, sample, readErrors, faults>>

\* A check fails, on a damaged attempt or because a healthy fragment could
\* not be read (an OSError counts as a failed check): the attempt is excluded
\* for good and the next candidate is tried.
Reject(f, s, a) ==
  /\ Candidate(f, s, a)
  /\ IF a \in damaged THEN UNCHANGED readErrors
     ELSE /\ readErrors < MaxReadErrors
          /\ readErrors' = readErrors + 1
  /\ staged' = [staged EXCEPT ![a] = [staged[a] EXCEPT !.objects = @ \cup {"invalid"}]]
  /\ seen' = [seen EXCEPT ![f] = @ \ {a}]
  /\ UNCHANGED <<mtime, damaged, published, pc, mode, prefer, winner,
                 reuse, at, sample, faults>>

\* No candidate is left: the run fails.
NoneHealthy(f, s) ==
  /\ Selecting(f, s)
  /\ Candidates(f, s) = {}
  /\ Enter(f, "failed")
  /\ UNCHANGED <<staged, mtime, damaged, published, mode, seen, prefer, winner,
                 reuse, at, sample, readErrors, faults>>

-----------------------------------------------------------------------------
(***************************************************************************)
(* Publication.                                                            *)
(***************************************************************************)

\* Mutant of ReusesStats: any statistics that are there will do.
ReusesAnyStats(f) == norm.kind # "none"

\* _reuses_existing_stats: foreign, or of the same train attempts.
ReusesStats(f) ==
  \/ norm.kind = "foreign"
  \/ norm.kind = "ours" /\ norm.stamp = OnTrain(winner[f])

Decide(f) ==
  /\ pc[f] = "decide"
  /\ reuse' = [reuse EXCEPT ![f] = ReusesStats(f)]
  /\ Enter(f, "commit")
  /\ UNCHANGED <<staged, mtime, damaged, published, mode, seen, prefer, winner,
                 at, sample, readErrors, faults>>

\* On to the next split, or to the statistics after the last one.
Advance(f) ==
  /\ at' = [at EXCEPT ![f] = @ + 1]
  /\ Enter(f, IF at[f] = NumSplits THEN "welford" ELSE "commit")

\* One Overwrite commit replaces the split's fragments by the winners'.
CommitSplit(f) ==
  /\ pc[f] = "commit"
  /\ manifest' = [s \in Shards |-> IF SplitOf[s] = at[f] THEN winner[f][s] ELSE manifest[s]]
  /\ IF at[f] = 1 /\ mode[f] = "estimate" /\ ~reuse[f]
     THEN Enter(f, "estimate") /\ UNCHANGED at
     ELSE Advance(f)
  /\ UNCHANGED <<staged, mtime, damaged, welford, norm, card, complete, mode, seen,
                 prefer, winner, reuse, sample, readErrors, faults>>

\* Statistics are estimated from the train split as it is committed now.
Estimate(f) ==
  /\ pc[f] = "estimate"
  /\ sample' = [sample EXCEPT ![f] = OnTrain(manifest)]
  /\ Enter(f, "recheck")
  /\ UNCHANGED <<staged, mtime, damaged, published, mode, seen, prefer, winner,
                 reuse, at, readErrors, faults>>

\* Someone may have uploaded statistics of these attempts in the meantime.
Recheck(f) ==
  /\ pc[f] = "recheck"
  /\ IF ReusesStats(f) THEN Advance(f) ELSE Enter(f, "upload") /\ UNCHANGED at
  /\ UNCHANGED <<staged, mtime, damaged, published, mode, seen, prefer, winner,
                 reuse, sample, readErrors, faults>>

UploadEstimate(f) ==
  /\ pc[f] = "upload"
  /\ norm' = [kind |-> "ours", of |-> sample[f], stamp |-> OnTrain(winner[f])]
  /\ Advance(f)
  /\ UNCHANGED <<staged, mtime, damaged, manifest, welford, card, complete, mode,
                 seen, prefer, winner, reuse, sample, readErrors, faults>>

\* The cumulative state of the train winners' sidecars.
UploadWelford(f) ==
  /\ pc[f] = "welford"
  /\ welford' = OnTrain(winner[f])
  /\ Enter(f, IF mode[f] = "estimate" THEN "record" ELSE "stats")
  /\ UNCHANGED <<staged, mtime, damaged, manifest, norm, card, complete, mode, seen,
                 prefer, winner, reuse, at, sample, readErrors, faults>>

\* stats.npz derived from that state, whatever is there already.
UploadStats(f) ==
  /\ pc[f] = "stats"
  /\ norm' = [kind |-> "ours", of |-> OnTrain(winner[f]), stamp |-> OnTrain(winner[f])]
  /\ Enter(f, "record")
  /\ UNCHANGED <<staged, mtime, damaged, manifest, welford, card, complete, mode,
                 seen, prefer, winner, reuse, at, sample, readErrors, faults>>

WriteCard(f) ==
  /\ pc[f] = "record"
  /\ card' = winner[f]
  /\ Enter(f, "mark")
  /\ UNCHANGED <<staged, mtime, damaged, manifest, welford, norm, complete, mode,
                 seen, prefer, winner, reuse, at, sample, readErrors, faults>>

MarkComplete(f) ==
  /\ pc[f] = "mark"
  /\ complete' = TRUE
  /\ Enter(f, "ok")
  /\ UNCHANGED <<staged, mtime, damaged, manifest, welford, norm, card, mode, seen,
                 prefer, winner, reuse, at, sample, readErrors, faults>>

\* A step raises, before or after it took effect, or the process dies.
Fail(f) ==
  /\ pc[f] \notin Ended
  /\ faults < MaxFaults
  /\ faults' = faults + 1
  /\ Enter(f, "failed")
  /\ UNCHANGED <<staged, mtime, damaged, published, mode, seen, prefer, winner,
                 reuse, at, sample, readErrors>>

-----------------------------------------------------------------------------
SelectStep(f) ==
  \/ List(f) \/ ReadCard(f)
  \/ \E s \in Shards, a \in Attempts : Accept(f, s, a) \/ Reject(f, s, a)
  \/ \E s \in Shards : NoneHealthy(f, s)

PublishStep(f) ==
  \/ Decide(f) \/ CommitSplit(f)
  \/ Estimate(f) \/ Recheck(f) \/ UploadEstimate(f)
  \/ UploadWelford(f) \/ UploadStats(f)
  \/ WriteCard(f) \/ MarkComplete(f)

Step(f) == SelectStep(f) \/ PublishStep(f)
Restart(f) == \E m \in Modes : Start(f, m)

Next ==
  \/ \E a \in Attempts, s \in Shards : Arrive(a, s)
  \/ \E f \in Finalizers : Restart(f) \/ SkipFinalized(f) \/ Step(f) \/ Fail(f)

Spec == Init /\ [][Next]_vars

\* A running finalizer goes on, and the operator starts it again when it has
\* ended without the marker.
FairSpec ==
  /\ Spec
  /\ \A f \in Finalizers : WF_vars(Restart(f)) /\ WF_vars(Step(f))

-----------------------------------------------------------------------------
(***************************************************************************)
(* Properties.                                                             *)
(***************************************************************************)

\* dataset.complete vouches for one selection: every split's manifest, the
\* cumulative statistics, the normalization statistics (unless a user brought
\* them) and the card all come from the same attempts, whatever earlier runs
\* left behind and whatever arrived in between.
CompleteIsOneSelection ==
  complete =>
    /\ \A s \in Shards : card[s] # NoAttempt
    /\ manifest = card
    /\ welford = OnTrain(card)
    /\ \/ norm.kind = "foreign"
       \/ norm.kind = "ours" /\ norm.of = OnTrain(card) /\ norm.stamp = OnTrain(card)

\* What is committed or recorded for a shard is a checked attempt of that
\* shard, at every moment and not only at the end.
PublishedIsChecked ==
  \A s \in Shards : \A a \in {manifest[s], card[s]} \ {NoAttempt} :
    a \in AttemptsOf(s) \ damaged

\* A recorded winner is displaced only if it was excluded: a straggler with a
\* tied timestamp and a smaller key does not win the next run.
CardIsStable ==
  [][\A s \in Shards :
       card[s] # NoAttempt /\ card'[s] # card[s] =>
         "invalid" \in staged[card[s]].objects]_vars

\* Nothing published changes once the marker is there, although finalizers
\* that started before it go on writing.
PublishedIsFinal == [][complete => UNCHANGED published]_vars

\* Finalizing again and again ends with the marker, unless a shard has no
\* healthy attempt left.
PublishesUnlessLost ==
  <>[](complete \/ \E s \in Shards : \A a \in AttemptsOf(s) \ damaged : ~Complete(a))
=============================================================================

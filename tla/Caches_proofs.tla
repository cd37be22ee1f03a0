---------------------------- MODULE Caches_proofs ----------------------------
(***************************************************************************)
(* Proofs about the local copies of remote things, for any number of       *)
(* processes: the alias of a plugin (PluginAlias), the copies of a dataset *)
(* (HydrationCache), the checkpoints of an evaluation (CheckpointCache),   *)
(* the resume caches of embedding jobs (AddEmbeddings) and the bundles of  *)
(* installed plugins (PluginInstall); and about the evaluation that uses   *)
(* them (PredictRun).                                                      *)
(***************************************************************************)
EXTENDS PluginAlias, HydrationCache, CheckpointCache, AddEmbeddings, PluginInstall,
        PredictRun, FiniteSetTheorems, SequenceTheorems, TLAPS

-----------------------------------------------------------------------------
(***************************************************************************)
(* The plugin alias: who holds the lock and what the installers have seen. *)
(***************************************************************************)

\* What a lease notices keeps its other fields, and its type.
LEMMA NoticedFields ==
  ASSUME PluginTypeOK
  PROVE  /\ Noticed \in [Consumers -> Consumer]
         /\ \A c \in Consumers :
              /\ Noticed[c].step = consumer[c].step
              /\ Noticed[c].before = consumer[c].before
              /\ Noticed[c].owner = consumer[c].owner
              /\ Noticed[c].target = consumer[c].target
              /\ Noticed[c].tries = consumer[c].tries
              /\ Noticed[c].round = consumer[c].round
              /\ Noticed[c].leased = consumer[c].leased
              /\ Noticed[c].lockOf = consumer[c].lockOf
              /\ Noticed[c].unmanaged <=>
                   \/ consumer[c].unmanaged
                   \/ consumer[c].round = 1 /\ consumer[c].step \in Sampling /\ Unmanaged'
              /\ Noticed[c].moved <=>
                   \/ consumer[c].moved
                   \/ consumer[c].round > 1 /\ consumer[c].step # "using" /\ aliasTarget' # aliasTarget
<1> DEFINE U(m) == m.unmanaged \/ (m.round = 1 /\ m.step \in Sampling /\ Unmanaged')
           V(m) == m.moved \/ (m.round > 1 /\ m.step # "using" /\ aliasTarget' # aliasTarget)
<1> DEFINE N(m, u, v) == [m EXCEPT !.unmanaged = u, !.moved = v]
<1>1. ASSUME NEW m \in Consumer, NEW u \in BOOLEAN, NEW v \in BOOLEAN
      PROVE  /\ N(m, u, v) \in Consumer
             /\ N(m, u, v).step = m.step /\ N(m, u, v).before = m.before
             /\ N(m, u, v).owner = m.owner /\ N(m, u, v).target = m.target
             /\ N(m, u, v).tries = m.tries /\ N(m, u, v).round = m.round
             /\ N(m, u, v).leased = m.leased /\ N(m, u, v).lockOf = m.lockOf
             /\ N(m, u, v).unmanaged = u /\ N(m, u, v).moved = v
  BY DEF Consumer
<1>2. ASSUME NEW m \in Consumer PROVE U(m) \in BOOLEAN /\ V(m) \in BOOLEAN
  BY <1>2 DEF Consumer
<1>3. \A c \in Consumers : consumer[c] \in Consumer
  BY DEF PluginTypeOK
<1>4. Noticed = [c \in Consumers |-> N(consumer[c], U(consumer[c]), V(consumer[c]))]
  BY Zenon DEF Noticed
<1> HIDE DEF U, V, N
<1>5. ASSUME NEW c \in Consumers
      PROVE  /\ Noticed[c] \in Consumer
             /\ Noticed[c].step = consumer[c].step
             /\ Noticed[c].before = consumer[c].before
             /\ Noticed[c].owner = consumer[c].owner
             /\ Noticed[c].target = consumer[c].target
             /\ Noticed[c].tries = consumer[c].tries
             /\ Noticed[c].round = consumer[c].round
             /\ Noticed[c].leased = consumer[c].leased
             /\ Noticed[c].lockOf = consumer[c].lockOf
             /\ Noticed[c].unmanaged = U(consumer[c])
             /\ Noticed[c].moved = V(consumer[c])
  <2>1. Noticed[c] = N(consumer[c], U(consumer[c]), V(consumer[c]))
    BY <1>4, <1>5, Zenon
  <2>2. consumer[c] \in Consumer /\ U(consumer[c]) \in BOOLEAN /\ V(consumer[c]) \in BOOLEAN
    BY <1>2, <1>3, <1>5, Zenon
  <2>3. /\ Noticed[c] \in Consumer
        /\ Noticed[c].step = consumer[c].step /\ Noticed[c].before = consumer[c].before
        /\ Noticed[c].owner = consumer[c].owner /\ Noticed[c].target = consumer[c].target
    BY <1>1, <2>1, <2>2
  <2>4. /\ Noticed[c].tries = consumer[c].tries /\ Noticed[c].round = consumer[c].round
        /\ Noticed[c].leased = consumer[c].leased /\ Noticed[c].lockOf = consumer[c].lockOf
    BY <1>1, <2>1, <2>2
  <2>5. /\ Noticed[c].unmanaged = U(consumer[c])
        /\ Noticed[c].moved = V(consumer[c])
    BY <1>1, <2>1, <2>2
  <2> QED
    BY <2>3, <2>4, <2>5
<1>6. Noticed \in [Consumers -> Consumer]
  BY <1>4, <1>5, Zenon
<1> QED
  BY <1>5, <1>6, Zenon DEF U, V

-----------------------------------------------------------------------------
(***************************************************************************)
(* Types.                                                                  *)
(***************************************************************************)

LEMMA PluginInitTypes == PluginInit => PluginTypeOK
BY AliasAssumption
   DEF PluginInit, PluginTypeOK, Target, Owner, Publisher, IdlePublisher, Consumer, IdleConsumer

LEMMA PublisherTypes ==
  ASSUME PluginTypeOK, NEW p \in Publishers,
         \/ \E b \in Bundles : Link(p, b)
         \/ LockAlias(p) \/ Recover(p) \/ RecoverUnlink(p) \/ Prepare(p) \/ Own(p)
         \/ Swap(p) \/ Finished(p) \/ PublishError(p) \/ PublisherCrash(p)
  PROVE  PluginTypeOK'
<1> USE DEF PluginTypeOK
<1> DEFINE Linked(f) == /\ f \in [Publishers -> Publisher]
                        /\ \A q \in Publishers : f[q].step # "idle" => f[q].bundle \in Bundles
<1>0. publisher[p] \in Publisher /\ IdlePublisher \in Publisher /\ Linked(publisher)
  BY DEF Publisher, IdlePublisher, Owner
<1>1. \A s \in {"alias", "recover", "unlink", "prepare", "own", "swap", "finish"} :
        publisher[p].step # "idle" => Linked([publisher EXCEPT ![p].step = s])
  BY <1>0 DEF Publisher
<1>2. Linked([publisher EXCEPT ![p] = IdlePublisher])
  BY <1>0 DEF IdlePublisher
<1>3. ASSUME NEW b \in Bundles, Link(p, b) PROVE PluginTypeOK'
  <2>1. [step |-> "alias", bundle |-> b, failed |-> FALSE] \in Publisher
    BY DEF Publisher, Owner
  <2> QED
    BY <1>3, <2>1 DEF Link, aliasRecords
<1>4. CASE LockAlias(p)
  BY <1>1, <1>4 DEF LockAlias, PublisherAt, aliasRecords
<1>5. CASE Recover(p)
  <2>1. Linked(publisher')
    BY <1>1, <1>2, <1>5 DEF Recover, PublisherAt, PublisherDone
  <2>2. publication # NoPublication => Recovered \in Owner
    BY DEF Recovered, Publication, Owner
  <2>3. aliasOwner' \in Owner
    BY <1>5, <2>2 DEF Recover, aliasRecords
  <2>4. consumer' \in [Consumers -> Consumer]
    BY <1>5, NoticedFields DEF Recover
  <2> QED
    BY <1>5, <2>1, <2>3, <2>4 DEF Recover, aliasRecords
<1>6. CASE RecoverUnlink(p)
  <2>1. Linked(publisher')
    BY <1>1, <1>2, <1>6 DEF RecoverUnlink, PublisherAt, PublisherDone
  <2> QED
    BY <1>6, <2>1 DEF RecoverUnlink
<1>7. CASE Prepare(p)
  <2>1. Linked(publisher')
    BY <1>1, <1>2, <1>7 DEF Prepare, PublisherAt, PublisherDone
  <2>2. publisher[p].bundle \in Bundles =>
          [next |-> publisher[p].bundle, prior |-> aliasOwner, priorTarget |-> aliasTarget] \in Publication
    BY DEF Publication
  <2> QED
    BY <1>7, <2>1, <2>2 DEF Prepare
<1>8. CASE Own(p)
  <2>1. consumer' \in [Consumers -> Consumer] /\ Linked(publisher')
    BY <1>1, <1>8, NoticedFields DEF Own, PublisherAt
  <2> QED
    BY <1>0, <1>8, <2>1 DEF Own, Publisher
<1>9. CASE Swap(p)
  <2>1. consumer' \in [Consumers -> Consumer] /\ Linked(publisher')
    BY <1>1, <1>9, NoticedFields DEF Swap, PublisherAt
  <2> QED
    BY <1>0, <1>9, <2>1 DEF Swap, Publisher, Target, Owner
<1>10. CASE Finished(p)
  BY <1>2, <1>10 DEF Finished, PublisherDone
<1>11. CASE PublishError(p)
  <2>1. \A x \in Publisher : /\ [x EXCEPT !.step = "recover", !.failed = TRUE] \in Publisher
                            /\ [x EXCEPT !.step = "recover", !.failed = TRUE].bundle = x.bundle
    BY DEF Publisher
  <2>2. publisher' = [publisher EXCEPT ![p] = [publisher[p] EXCEPT !.step = "recover", !.failed = TRUE]]
    BY <1>11, Zenon DEF PublishError
  <2>3. publisher[p].step # "idle" /\ publisher'[p].bundle = publisher[p].bundle
    BY <1>0, <1>11, <2>1, <2>2 DEF PublishError
  <2>4. Linked(publisher')
    BY <1>0, <2>1, <2>2, <2>3
  <2> QED
    BY <1>11, <2>4 DEF PublishError, aliasRecords
<1>12. CASE PublisherCrash(p)
  BY <1>2, <1>12 DEF PublisherCrash, PublisherDone, aliasRecords
<1> QED
  BY <1>3, <1>4, <1>5, <1>6, <1>7, <1>8, <1>9, <1>10, <1>11, <1>12

LEMMA InstallerTypes ==
  ASSUME PluginTypeOK, NEW i \in Installers,
         (\E b \in Bundles : InstallRemove(i, b)) \/ InstallSeal(i) \/ InstallerCrash(i)
  PROVE  PluginTypeOK'
BY DEF PluginTypeOK, InstallRemove, InstallSeal, InstallerCrash, Owner, aliasRecords

\* The steps of a lease, by what the lease becomes.
LEMMA ConsumerTypes ==
  ASSUME PluginTypeOK, NEW c \in Consumers,
         \/ Lease(c) \/ ReadBefore(c) \/ ReadOwner(c) \/ ReadTarget(c) \/ ReadAfter(c)
         \/ LockPackage(c) \/ Validate(c) \/ EndLease(c)
  PROVE  PluginTypeOK'
<1> USE DEF PluginTypeOK
<1> DEFINE me == consumer[c]
<1>0. me \in Consumer /\ IdleConsumer \in Consumer
  BY AliasAssumption DEF Consumer, IdleConsumer, Owner, Target
<1>a. SUFFICES consumer' \in [Consumers -> Consumer]
  BY DEF ConsumeOnly, aliasRecords, Lease, ReadBefore, ReadOwner, ReadTarget, ReadAfter,
         LockPackage, Validate, EndLease
<1>b. SUFFICES ASSUME consumer' # [consumer EXCEPT ![c] = IdleConsumer]
      PROVE  \E m \in Consumer : consumer' = [consumer EXCEPT ![c] = m]
  BY <1>0
<1>1. CASE Lease(c)
  <2>1. PICK u \in BOOLEAN : u = Unmanaged
    BY Zenon DEF Unmanaged
  <2>2. consumer' = [consumer EXCEPT ![c] = [me EXCEPT !.step = "before", !.unmanaged = u]]
    BY <1>1, <2>1, Zenon DEF Lease
  <2>3. [me EXCEPT !.step = "before", !.unmanaged = u] \in Consumer
    BY <1>0, <2>1 DEF Consumer
  <2> QED
    BY <2>2, <2>3
<1>2. CASE ReadBefore(c)
  <2>1. [me EXCEPT !.before = publication, !.step = "owner"] \in Consumer
    BY <1>0 DEF Consumer
  <2> QED
    BY <1>2, <2>1 DEF ReadBefore
<1>3. CASE ReadOwner(c)
  <2>1. [me EXCEPT !.owner = aliasOwner, !.step = "target"] \in Consumer
    BY <1>0 DEF Consumer
  <2> QED
    BY <1>3, <2>1 DEF ReadOwner
<1>4. CASE ReadTarget(c)
  <2>1. [me EXCEPT !.target = aliasTarget, !.step = "after"] \in Consumer
    BY <1>0 DEF Consumer
  <2> QED
    BY <1>4, <2>1 DEF ReadTarget
<1>5. CASE ReadAfter(c)
  <2>1. CASE SampleAgain(c)
    <3>1. ASSUME NEW t \in 0 .. AliasReads, NEW r \in 1 .. 3, NEW l \in Owner,
                 NEW k \in Owner, NEW u \in BOOLEAN, NEW v \in BOOLEAN
          PROVE  [IdleConsumer EXCEPT !.step = "before", !.tries = t, !.round = r, !.leased = l,
                    !.lockOf = k, !.unmanaged = u, !.moved = v] \in Consumer
      BY <1>0, <3>1 DEF Consumer
    <3>2. /\ me.tries \in 0 .. AliasReads /\ me.round \in 1 .. 3 /\ me.leased \in Owner
          /\ me.lockOf \in Owner /\ me.unmanaged \in BOOLEAN /\ me.moved \in BOOLEAN
      BY <1>0 DEF Consumer
    <3>3. me.tries + 1 < AliasReads => me.tries + 1 \in 0 .. AliasReads
      BY <3>2, AliasAssumption
    <3>4. me.tries + 1 < AliasReads =>
            [IdleConsumer EXCEPT !.step = "before", !.tries = me.tries + 1,
                !.round = me.round, !.leased = me.leased, !.lockOf = me.lockOf,
                !.unmanaged = me.unmanaged, !.moved = me.moved] \in Consumer
      BY ZenonT(60), <3>1, <3>2, <3>3
    <3> QED
      BY <1>b, <2>1, <3>4 DEF SampleAgain, ConsumerDone
  <2>2. CASE Judged(me) # NoBundle /\ Found(c, Judged(me))
    <3>1. Judged(me) \in Owner
      BY <1>0 DEF Judged, FromPublication, Consumer, Publication, Owner
    <3>2. \A b \in Owner :
            /\ [IdleConsumer EXCEPT !.leased = b, !.lockOf = me.lockOf, !.moved = me.moved] \in Consumer
            /\ [IdleConsumer EXCEPT !.leased = b, !.lockOf = me.lockOf, !.moved = me.moved].leased = b
      BY <1>0 DEF Consumer, IdleConsumer
    <3>3. ASSUME NEW x \in Consumer, NEW r \in 1 .. 3, NEW l \in Owner, NEW v \in BOOLEAN
          PROVE  /\ [x EXCEPT !.step = "validate", !.round = r] \in Consumer
                 /\ [x EXCEPT !.step = "before", !.round = r] \in Consumer
                 /\ [x EXCEPT !.step = "lock", !.lockOf = l, !.moved = v] \in Consumer
      BY <3>3 DEF Consumer
    <3>4. 3 \in 1 .. 3 /\ NoBundle \in Owner
      BY DEF Owner
    <3> QED
      BY <2>2, <3>1, <3>2, <3>3, <3>4 DEF Found
  <2>3. [me EXCEPT !.step = "unguarded"] \in Consumer
    BY <1>0 DEF Consumer
  <2> QED
    BY <1>b, <1>5, <2>1, <2>2, <2>3 DEF ReadAfter, ConsumerDone
<1>6. CASE LockPackage(c)
  <2>1. ASSUME NEW r \in 1 .. 3, NEW l \in Owner
        PROVE  [me EXCEPT !.step = "before", !.round = r, !.lockOf = l] \in Consumer
    BY <1>0, <2>1 DEF Consumer
  <2>2. 2 \in 1 .. 3 /\ me.leased \in Owner
    BY <1>0 DEF Consumer
  <2> QED
    BY <1>6, <2>1, <2>2 DEF LockPackage
<1>7. CASE Validate(c)
  <2>1. [me EXCEPT !.step = "using"] \in Consumer
    BY <1>0 DEF Consumer
  <2> QED
    BY <1>b, <1>7, <2>1 DEF Validate, ConsumerDone
<1>8. CASE EndLease(c)
  BY <1>b, <1>8 DEF EndLease, ConsumerDone
<1> QED
  BY <1>1, <1>2, <1>3, <1>4, <1>5, <1>6, <1>7, <1>8

LEMMA PluginTypesStep == PluginTypeOK /\ [PluginNext]_pluginVars => PluginTypeOK'
<1>1. PluginTypeOK /\ UNCHANGED pluginVars => PluginTypeOK'
  BY DEF PluginTypeOK, pluginVars, aliasRecords
<1> QED
  BY <1>1, PublisherTypes, InstallerTypes, ConsumerTypes DEF PluginNext

\* Type correctness of the alias' records, of publishers, installers and leases.
THEOREM PluginTypes == PluginSpec => []PluginTypeOK
BY PluginInitTypes, PluginTypesStep, PTL DEF PluginSpec

-----------------------------------------------------------------------------
(***************************************************************************)
(* The alias.  One publisher at a time is past the alias lock; the record  *)
(* it leaves always says how the ownership record and the symlink go       *)
(* together, so that the next one can tell which of the two was written.   *)
(***************************************************************************)

Linking(p) == publisher[p].step \notin {"idle", "alias"}

\* What a transaction record says the alias was before.
SoundRecord(t) ==
  t.prior \in {NoBundle, t.priorTarget} /\ (t.prior = NoBundle => t.priorTarget \notin Bundles)

AliasInv ==
  /\ \A p, q \in Publishers : Linking(p) /\ Linking(q) => p = q
  /\ aliasOwner = NoBundle => aliasTarget \notin Bundles
  /\ AliasIsSettled
  /\ publication # NoPublication =>
       /\ SoundRecord(publication)
       /\ aliasOwner \in {publication.next, publication.prior}
       /\ aliasTarget \in {publication.next, publication.priorTarget}
  /\ \A p \in Publishers :
       /\ publisher[p].step \in {"own", "swap", "finish"} =>
            publication # NoPublication /\ publication.next = publisher[p].bundle
       /\ publisher[p].step = "unlink" =>
            publication # NoPublication /\ aliasOwner \in {NoBundle, aliasTarget}
       /\ publisher[p].step \in {"swap", "finish"} => aliasOwner = publisher[p].bundle
       /\ publisher[p].step = "finish" => aliasTarget = publisher[p].bundle

LEMMA AliasInit == PluginInit => AliasInv
BY AliasAssumption
   DEF PluginInit, AliasInv, AliasIsSettled, Linking, IdlePublisher

LEMMA AliasStep == PluginTypeOK /\ AliasInv /\ [PluginNext]_pluginVars => AliasInv'
<1> SUFFICES ASSUME PluginTypeOK, AliasInv, [PluginNext]_pluginVars PROVE AliasInv'
  OBVIOUS
<1> USE DEF AliasIsSettled, Linking
<1>1. CASE UNCHANGED <<aliasRecords, publisher>>
  BY <1>1 DEF AliasInv, aliasRecords, SoundRecord
<1>2. ASSUME NEW p \in Publishers, NEW s, publisher' = [publisher EXCEPT ![p].step = s]
      PROVE  /\ publisher'[p].step = s /\ publisher'[p].bundle = publisher[p].bundle
             /\ \A q \in Publishers \ {p} : publisher'[q] = publisher[q]
  BY <1>2 DEF PluginTypeOK, Publisher
<1>3. ASSUME NEW p \in Publishers, publisher' = [publisher EXCEPT ![p] = IdlePublisher]
      PROVE  /\ publisher'[p].step = "idle"
             /\ \A q \in Publishers \ {p} : publisher'[q] = publisher[q]
  BY <1>3 DEF PluginTypeOK, IdlePublisher
<1>4. ASSUME NEW p \in Publishers, Linking(p)
      PROVE  /\ publisher[p].bundle \in Bundles
             /\ \A q \in Publishers \ {p} : publisher[q].step \in {"idle", "alias"}
  BY <1>4 DEF PluginTypeOK, AliasInv
<1>5. ASSUME NEW p \in Publishers, NEW b \in Bundles, Link(p, b) PROVE AliasInv'
  <2>1. /\ publisher'[p].step = "alias"
        /\ \A q \in Publishers \ {p} : publisher'[q] = publisher[q]
    BY <1>5 DEF Link, PluginTypeOK
  <2> QED
    BY <1>5, <2>1 DEF Link, AliasInv, aliasRecords, SoundRecord
<1>6. ASSUME NEW p \in Publishers, LockAlias(p) PROVE AliasInv'
  BY <1>2, <1>6 DEF LockAlias, AliasFree, PublisherAt, AliasInv, aliasRecords, SoundRecord
<1>7. ASSUME NEW p \in Publishers, Recover(p) PROVE AliasInv'
  <2>1. CASE publication = NoPublication
    BY SMTT(30), <1>2, <1>3, <1>4, <1>7, <2>1
       DEF Recover, PublisherAt, PublisherDone, AliasInv, aliasRecords, SoundRecord
  <2>2. CASE publication # NoPublication /\ aliasTarget \notin {publication.next, publication.priorTarget}
    BY <2>2 DEF AliasInv
  <2>3. CASE publication # NoPublication /\ aliasTarget \in {publication.next, publication.priorTarget}
    <3>1. /\ aliasOwner' = Recovered /\ publisher' = [publisher EXCEPT ![p].step = "unlink"]
          /\ UNCHANGED <<aliasTarget, publication>>
      BY <1>7, <2>3 DEF Recover, PublisherAt
    <3>2. /\ Recovered \in {publication.next, publication.prior}
          /\ Recovered \in {NoBundle, aliasTarget}
          /\ Recovered = NoBundle => aliasTarget \notin Bundles
      BY <2>3, AliasAssumption DEF Recovered, AliasInv, SoundRecord, PluginTypeOK, Publication
    <3> QED
      BY <1>2, <1>4, <1>7, <2>3, <3>1, <3>2 DEF Recover, AliasInv, SoundRecord
  <2> QED
    BY <2>1, <2>2, <2>3
<1>8. ASSUME NEW p \in Publishers, RecoverUnlink(p) PROVE AliasInv'
  BY <1>2, <1>3, <1>4, <1>8 DEF RecoverUnlink, PublisherAt, PublisherDone, AliasInv, SoundRecord
<1>9. ASSUME NEW p \in Publishers, Prepare(p) PROVE AliasInv'
  <2>1. CASE aliasOwner \in {NoBundle, aliasTarget}
    <3> DEFINE t == [next |-> publisher[p].bundle, prior |-> aliasOwner, priorTarget |-> aliasTarget]
    <3>1. publication' = t /\ publisher' = [publisher EXCEPT ![p].step = "own"]
          /\ UNCHANGED <<aliasTarget, aliasOwner>>
      BY <1>9, <2>1 DEF Prepare, PublisherAt
    <3>2. t \in Publication
      BY <1>4, <1>9 DEF Publication, PluginTypeOK, Prepare
    <3>3. publication' # NoPublication /\ SoundRecord(publication')
      BY <2>1, <3>1, <3>2, PublicationAssumption DEF SoundRecord, AliasInv
    <3>4. /\ publication'.next = publisher[p].bundle
          /\ publication'.prior = aliasOwner /\ publication'.priorTarget = aliasTarget
      BY <3>1
    <3> HIDE DEF t
    <3> QED
      BY <1>2, <1>4, <1>9, <3>1, <3>3, <3>4 DEF Prepare, AliasInv, SoundRecord
  <2>2. CASE aliasOwner \notin {NoBundle, aliasTarget}
    BY <1>3, <1>4, <1>9, <2>2 DEF Prepare, PublisherDone, AliasInv, SoundRecord
  <2> QED
    BY <2>1, <2>2
<1>10. ASSUME NEW p \in Publishers, Own(p) PROVE AliasInv'
  BY <1>2, <1>4, <1>10, AliasAssumption DEF Own, PublisherAt, AliasInv, SoundRecord
<1>11. ASSUME NEW p \in Publishers, Swap(p) PROVE AliasInv'
  BY <1>2, <1>4, <1>11, AliasAssumption DEF Swap, PublisherAt, AliasInv, SoundRecord
<1>12. ASSUME NEW p \in Publishers, Finished(p) PROVE AliasInv'
  <2>1. \A q \in Publishers : publisher'[q].step \in {"idle", "alias"}
    BY ZenonT(60), <1>3, <1>4, <1>12 DEF Finished, PublisherDone
  <2>2. aliasOwner = aliasTarget /\ aliasOwner # NoBundle
    BY <1>4, <1>12, AliasAssumption DEF Finished, AliasInv
  <2> QED
    BY <1>12, <2>1, <2>2 DEF Finished, AliasInv
<1>13. ASSUME NEW p \in Publishers, PublishError(p) PROVE AliasInv'
  <2>1. /\ publisher'[p].step = "recover"
        /\ \A q \in Publishers \ {p} : publisher'[q] = publisher[q]
    BY <1>13 DEF PublishError, PluginTypeOK, Publisher
  <2> QED
    BY ZenonT(60), <1>4, <1>13, <2>1 DEF PublishError, AliasInv, aliasRecords, SoundRecord
<1>14. ASSUME NEW p \in Publishers, PublisherCrash(p) PROVE AliasInv'
  <2>1. publisher'[p].step = "idle" /\ \A q \in Publishers \ {p} : publisher'[q] = publisher[q]
    BY <1>3, <1>14 DEF PublisherCrash, PublisherDone
  <2>2. UNCHANGED <<aliasTarget, aliasOwner, publication>>
    BY <1>14 DEF PublisherCrash, aliasRecords
  <2>3. \A q \in Publishers : publisher'[q].step # "idle" => publisher'[q] = publisher[q]
    BY <2>1
  <2>4. \A q, r \in Publishers : Linking(q)' /\ Linking(r)' => q = r
    BY <2>3 DEF AliasInv
  <2>5. \A q \in Publishers : publisher'[q].step \in {"own", "swap", "finish", "unlink"} =>
          publisher'[q] = publisher[q]
    BY <2>3
  <2> QED
    BY <2>2, <2>4, <2>5 DEF AliasInv, SoundRecord
<1>15. ASSUME NEW i \in Installers, (\E b \in Bundles : InstallRemove(i, b)) \/ InstallSeal(i) \/ InstallerCrash(i)
       PROVE  AliasInv'
  BY <1>1, <1>15 DEF InstallRemove, InstallSeal, InstallerCrash
<1>16. ASSUME NEW c \in Consumers,
              \/ Lease(c) \/ ReadBefore(c) \/ ReadOwner(c) \/ ReadTarget(c) \/ ReadAfter(c)
              \/ LockPackage(c) \/ Validate(c) \/ EndLease(c)
       PROVE  AliasInv'
  BY <1>1, <1>16 DEF Lease, ReadBefore, ReadOwner, ReadTarget, ReadAfter, LockPackage, Validate,
                     EndLease, ConsumeOnly
<1> QED
  BY <1>1, <1>5, <1>6, <1>7, <1>8, <1>9, <1>10, <1>11, <1>12, <1>13, <1>14, <1>15, <1>16
     DEF PluginNext, pluginVars

-----------------------------------------------------------------------------
(***************************************************************************)
(* The leases.  A sample of the alias that gives a bundle gives the one    *)
(* the symlink led to when it was read, so as long as the symlink stays    *)
(* what it was when the package was locked, the lock is that bundle's.     *)
(***************************************************************************)

LeaseOK(m) ==
  /\ m.before # NoPublication => SoundRecord(m.before)
  /\ m.step \in {"validate", "using"} => m.round = 3
  /\ m.round = 1 /\ m.step \in Sampling /\ Unmanaged => m.unmanaged
  /\ m.round = 1 /\ m.step \in {"target", "after"} /\ m.owner = NoBundle => m.unmanaged
  /\ m.step = "unguarded" => m.unmanaged
  /\ m.round = 2 => m.lockOf = m.leased
  /\ m.round = 3 /\ ~m.moved => m.lockOf = m.leased
  /\ m.round = 3 /\ ~m.moved /\ m.step # "using" => m.leased = aliasTarget
  /\ m.round > 1 /\ m.step = "after" /\ ~m.moved => m.target = aliasTarget
  /\ m.step = "using" /\ ~m.moved => m.leased \in sealed

LeaseInv ==
  /\ \A i \in Installers, c \in Consumers :
       installer[i] # NoBundle => consumer[c].lockOf # installer[i]
  /\ \A c \in Consumers : LeaseOK(consumer[c])

PluginInv == PluginTypeOK /\ AliasInv /\ LeaseInv

LEMMA IdleIsOK == IdleConsumer \in Consumer /\ IdleConsumer.lockOf = NoBundle /\ LeaseOK(IdleConsumer)
<1>1. /\ IdleConsumer.step = "idle" /\ IdleConsumer.before = NoPublication
      /\ IdleConsumer.round = 1 /\ IdleConsumer.lockOf = NoBundle
  BY DEF IdleConsumer
<1>2. IdleConsumer \in Consumer
  BY AliasAssumption DEF IdleConsumer, Consumer, Owner, Target
<1> QED
  BY <1>1, <1>2 DEF LeaseOK, Sampling

LEMMA LeaseInit == PluginInit => LeaseInv
BY IdleIsOK DEF PluginInit, LeaseInv

LEMMA JudgedIsTarget ==
  ASSUME NEW m \in Consumer, LeaseOK(m), Judged(m) # NoBundle
  PROVE  Judged(m) = m.target
BY DEF Judged, FromPublication, Owned, LeaseOK, SoundRecord

\* Steps that leave the symlink, its record and the leases alone.
LEMMA LeaseUndisturbed ==
  ASSUME PluginInv, UNCHANGED <<aliasTarget, aliasOwner, consumer, sealed, installer>>
  PROVE  LeaseInv'
<1>1. \A m : LeaseOK(m)' <=> LeaseOK(m)
  BY DEF LeaseOK, Unmanaged
<1> QED
  BY <1>1 DEF PluginInv, LeaseInv

\* Steps that replace them, and are noticed.
LEMMA LeaseNotices ==
  ASSUME PluginInv, consumer' = Noticed, UNCHANGED <<sealed, installer>>
  PROVE  LeaseInv'
<1> SUFFICES ASSUME NEW c \in Consumers
             PROVE  consumer'[c].lockOf = consumer[c].lockOf /\ LeaseOK(consumer[c])'
  BY DEF PluginInv, LeaseInv
<1> DEFINE m == consumer[c]
           n == consumer'[c]
<1>1. /\ n.step = m.step /\ n.before = m.before /\ n.owner = m.owner /\ n.target = m.target
      /\ n.round = m.round /\ n.leased = m.leased /\ n.lockOf = m.lockOf
      /\ n.unmanaged <=> m.unmanaged \/ (m.round = 1 /\ m.step \in Sampling /\ Unmanaged')
      /\ n.moved <=> m.moved \/ (m.round > 1 /\ m.step # "using" /\ aliasTarget' # aliasTarget)
  BY NoticedFields DEF PluginInv
<1>2. LeaseOK(m) /\ m.round \in 1 .. 3
  BY DEF PluginInv, LeaseInv, PluginTypeOK, Consumer
<1>3. m.round = 3 => m.round > 1
  BY <1>2
<1> QED
  BY <1>1, <1>2, <1>3 DEF LeaseOK

LEMMA InstallerKeepsLeases ==
  ASSUME PluginInv, NEW i \in Installers,
         (\E b \in Bundles : InstallRemove(i, b)) \/ InstallSeal(i) \/ InstallerCrash(i)
  PROVE  LeaseInv'
<1> USE DEF PluginInv, PluginTypeOK, LeaseInv
<1>1. UNCHANGED <<aliasTarget, aliasOwner, consumer>>
  BY DEF InstallRemove, InstallSeal, InstallerCrash, aliasRecords
<1>2. \A j \in Installers, c \in Consumers :
        installer'[j] # NoBundle => consumer[c].lockOf # installer'[j]
  BY DEF InstallRemove, InstallSeal, InstallerCrash, PackageFree
<1>3. ASSUME NEW c \in Consumers, consumer[c].step = "using", ~consumer[c].moved
      PROVE  consumer[c].leased \in sealed'
  BY <1>3 DEF InstallRemove, InstallSeal, InstallerCrash, PackageFree, LeaseOK
<1>4. ASSUME NEW c \in Consumers PROVE LeaseOK(consumer[c])'
  BY <1>1, <1>3, <1>4 DEF LeaseOK, Unmanaged
<1> QED
  BY <1>1, <1>2, <1>4

\* A lease that becomes m.
LEMMA LeaseBecomes ==
  ASSUME PluginInv, NEW c \in Consumers, ConsumeOnly,
         NEW m \in Consumer, consumer' = [consumer EXCEPT ![c] = m], LeaseOK(m),
         m.lockOf \in {NoBundle, consumer[c].lockOf}
           \/ \A i \in Installers : installer[i] # m.lockOf
  PROVE  LeaseInv'
<1> USE DEF PluginInv, PluginTypeOK, LeaseInv
<1>1. UNCHANGED <<aliasTarget, aliasOwner, sealed, installer>>
  BY DEF ConsumeOnly, aliasRecords
<1>2. consumer'[c] = m /\ \A d \in Consumers \ {c} : consumer'[d] = consumer[d]
  OBVIOUS
<1>3. ASSUME NEW d \in Consumers PROVE LeaseOK(consumer'[d])
  BY <1>2, <1>3
<1>4. ASSUME NEW d \in Consumers PROVE LeaseOK(consumer[d])'
  BY <1>1, <1>3, <1>4 DEF LeaseOK, Unmanaged
<1> QED
  BY <1>1, <1>2, <1>4

LEMMA LeaseSteps ==
  ASSUME PluginInv, NEW c \in Consumers,
         \/ Lease(c) \/ ReadBefore(c) \/ ReadOwner(c) \/ ReadTarget(c) \/ ReadAfter(c)
         \/ LockPackage(c) \/ Validate(c) \/ EndLease(c)
  PROVE  LeaseInv'
<1> DEFINE me == consumer[c]
           m == consumer'[c]
<1>1. /\ me \in Consumer /\ m \in Consumer /\ me.round \in 1 .. 3
      /\ consumer \in [Consumers -> Consumer]
      /\ LeaseOK(me)
  BY ConsumerTypes DEF PluginInv, PluginTypeOK, LeaseInv, Consumer
<1>2. consumer' = [consumer EXCEPT ![c] = m] /\ ConsumeOnly
  BY <1>1 DEF Lease, ReadBefore, ReadOwner, ReadTarget, ReadAfter, LockPackage, Validate, EndLease,
              SampleAgain, Found, ConsumerDone
<1>3. SUFFICES /\ LeaseOK(m)
               /\ \/ m.lockOf \in {NoBundle, me.lockOf}
                  \/ \A i \in Installers : installer[i] # m.lockOf
  BY <1>1, <1>2, LeaseBecomes
<1>4. CASE consumer' = [consumer EXCEPT ![c] = IdleConsumer]
  BY <1>1, <1>4, IdleIsOK
<1>5. CASE Lease(c)
  <2>1. PICK u \in BOOLEAN : u = Unmanaged
    BY Zenon DEF Unmanaged
  <2>2. consumer' = [consumer EXCEPT ![c] = [me EXCEPT !.step = "before", !.unmanaged = u]]
    BY <1>5, <2>1, Zenon DEF Lease
  <2>3. /\ m.step = "before" /\ m.before = me.before /\ m.lockOf = me.lockOf /\ m.unmanaged = u
        /\ m.round = me.round /\ m.leased = me.leased /\ m.moved = me.moved
    BY <1>1, <2>2 DEF Consumer
  <2> QED
    BY <1>1, <1>5, <2>1, <2>3 DEF LeaseOK, Lease
<1>6. CASE ReadBefore(c)
  <2>1. /\ m.step = "owner" /\ m.before = publication /\ m.lockOf = me.lockOf
        /\ m.unmanaged = me.unmanaged /\ m.round = me.round /\ m.leased = me.leased
        /\ m.moved = me.moved
    BY <1>1, <1>6 DEF Consumer, ReadBefore
  <2> QED
    BY <1>1, <1>6, <2>1 DEF LeaseOK, ReadBefore, PluginInv, AliasInv, Sampling
<1>7. CASE ReadOwner(c)
  <2>1. /\ m.step = "target" /\ m.before = me.before /\ m.lockOf = me.lockOf
        /\ m.unmanaged = me.unmanaged /\ m.round = me.round /\ m.leased = me.leased
        /\ m.moved = me.moved /\ m.owner = aliasOwner
    BY <1>1, <1>7 DEF Consumer, ReadOwner
  <2>2. aliasOwner = NoBundle => Unmanaged
    BY DEF PluginInv, AliasInv, Unmanaged
  <2> QED
    BY <1>1, <1>7, <2>1, <2>2 DEF LeaseOK, ReadOwner, Sampling
<1>8. CASE ReadTarget(c)
  <2>1. /\ m.step = "after" /\ m.before = me.before /\ m.lockOf = me.lockOf
        /\ m.unmanaged = me.unmanaged /\ m.round = me.round /\ m.leased = me.leased
        /\ m.moved = me.moved /\ m.owner = me.owner /\ m.target = aliasTarget
    BY <1>1, <1>8 DEF Consumer, ReadTarget
  <2> QED
    BY <1>1, <1>8, <2>1 DEF LeaseOK, ReadTarget, Sampling
<1>9. CASE SampleAgain(c) /\ ReadAfter(c)
  <2>1. CASE me.tries + 1 < AliasReads
    <3>1. /\ m.step = "before" /\ m.before = NoPublication /\ m.lockOf = me.lockOf
          /\ m.unmanaged = me.unmanaged /\ m.round = me.round /\ m.leased = me.leased
          /\ m.moved = me.moved
      BY ZenonT(60), <1>1, <1>9, <2>1 DEF SampleAgain, IdleConsumer
    <3> QED
      BY <1>1, <1>9, <3>1 DEF LeaseOK, ReadAfter, Sampling
  <2> QED
    BY <1>4, <1>9, <2>1 DEF SampleAgain, ConsumerDone
<1>10. CASE ReadAfter(c) /\ Judged(me) # NoBundle /\ Found(c, Judged(me))
  <2>1. Judged(me) = me.target /\ me.step = "after"
    BY <1>1, <1>10, JudgedIsTarget DEF ReadAfter
  <2>2. /\ m.before = NoPublication /\ m.leased = me.target
        /\ m.step \in {"validate", "before", "lock"}
        /\ m.step = "validate" => me.round = 3 /\ m.round = 3
        /\ m.step = "before" => me.round = 2 /\ m.round = 3 /\ me.target = me.leased
        /\ m.step = "lock" => m.round = 1 /\ m.lockOf = NoBundle
        /\ m.step # "lock" => m.lockOf = me.lockOf /\ m.moved = me.moved
    BY <1>1, <1>10, <2>1 DEF Found, IdleConsumer
  <2> QED
    BY <1>1, <2>1, <2>2 DEF LeaseOK, Sampling
<1>11. CASE ReadAfter(c) /\ consumer' = [consumer EXCEPT ![c].step = "unguarded"]
  <2>1. /\ m.step = "unguarded" /\ m.before = me.before /\ m.lockOf = me.lockOf
        /\ m.unmanaged = me.unmanaged /\ m.round = me.round /\ m.leased = me.leased
        /\ m.moved = me.moved
    BY <1>1, <1>11 DEF Consumer
  <2>5. ASSUME ConsumerDone(c) PROVE FALSE
    <3>1. m.step = "idle"
      BY <1>1, <2>5 DEF ConsumerDone, IdleConsumer
    <3> QED
      BY <2>1, <3>1
  <2>6. ASSUME SampleAgain(c) PROVE FALSE
    <3>1. CASE me.tries + 1 < AliasReads
      <4>1. m.step = "before"
        BY <1>1, <2>6, <3>1 DEF SampleAgain, IdleConsumer
      <4> QED
        BY <2>1, <4>1
    <3>2. CASE ~(me.tries + 1 < AliasReads)
      BY <2>5, <2>6, <3>2 DEF SampleAgain
    <3> QED
      BY <3>1, <3>2
  <2>7. ASSUME Found(c, Judged(me)) PROVE FALSE
    <3>1. m.step \in {"validate", "before", "lock"}
      BY <1>1, <2>7 DEF Found, IdleConsumer
    <3> QED
      BY <2>1, <3>1
  <2>2. ~SampleAgain(c) /\ ~ConsumerDone(c) /\ ~Found(c, Judged(me))
    BY <2>5, <2>6, <2>7
  <2>3. me.step = "after" /\ Unclaimed(me) /\ ~(me.round > 1)
    BY <1>11, <2>2, Zenon DEF ReadAfter
  <2>4. me.round = 1 /\ me.owner = NoBundle
    BY <1>1, <2>3 DEF Unclaimed
  <2> QED
    BY <1>1, <2>1, <2>3, <2>4 DEF LeaseOK, Sampling
<1>12. CASE LockPackage(c)
  <2>1. /\ m.step = "before" /\ m.before = me.before /\ m.lockOf = me.leased
        /\ m.round = 2 /\ m.leased = me.leased
    BY <1>1, <1>12 DEF Consumer, LockPackage
  <2> QED
    BY <1>1, <1>12, <2>1 DEF LeaseOK, LockPackage, PackageFree
<1>13. CASE Validate(c)
  <2>1. CASE me.leased \in sealed
    <3>1. /\ m.step = "using" /\ m.before = me.before /\ m.lockOf = me.lockOf
          /\ m.round = me.round /\ m.leased = me.leased /\ m.moved = me.moved
      BY <1>1, <1>13, <2>1 DEF Consumer, Validate
    <3> QED
      BY <1>1, <1>13, <2>1, <3>1 DEF LeaseOK, Validate, Sampling
  <2> QED
    BY <1>4, <1>13, <2>1 DEF Validate, ConsumerDone
<1> QED
  BY <1>4, <1>5, <1>6, <1>7, <1>8, <1>9, <1>10, <1>11, <1>12, <1>13
     DEF ReadAfter, EndLease, ConsumerDone, Validate

LEMMA LeaseStep == PluginInv /\ [PluginNext]_pluginVars => LeaseInv'
<1>1. PluginInv /\ UNCHANGED pluginVars => LeaseInv'
  BY LeaseUndisturbed DEF pluginVars, aliasRecords
<1>2. ASSUME PluginInv, NEW p \in Publishers,
             \/ \E b \in Bundles : Link(p, b)
             \/ LockAlias(p) \/ Recover(p) \/ RecoverUnlink(p) \/ Prepare(p) \/ Own(p)
             \/ Swap(p) \/ Finished(p) \/ PublishError(p) \/ PublisherCrash(p)
      PROVE  LeaseInv'
  <2>1. \/ UNCHANGED <<aliasTarget, aliasOwner, consumer, sealed, installer>>
        \/ consumer' = Noticed /\ UNCHANGED <<sealed, installer>>
    BY <1>2 DEF Link, LockAlias, Recover, RecoverUnlink, Prepare, Own, Swap, Finished, PublishError,
                PublisherCrash, aliasRecords
  <2> QED
    BY <1>2, <2>1, LeaseUndisturbed, LeaseNotices
<1> QED
  BY <1>1, <1>2, InstallerKeepsLeases, LeaseSteps DEF PluginNext

LEMMA PluginInvariance == PluginSpec => []PluginInv
<1>1. PluginInit => PluginInv
  BY PluginInitTypes, AliasInit, LeaseInit DEF PluginInv
<1>2. PluginInv /\ [PluginNext]_pluginVars => PluginInv'
  BY PluginTypesStep, AliasStep, LeaseStep DEF PluginInv
<1> QED
  BY <1>1, <1>2, PTL DEF PluginSpec

\* The alias' ownership record and symlink agree whenever no transaction is
\* recorded, and a lease is of a sealed bundle under its own package's lock.
THEOREM AliasIsSound == PluginSpec => []AliasSound
<1>1. PluginInv => AliasSound
  <2> SUFFICES ASSUME PluginInv, NEW c \in Consumers
               PROVE  /\ consumer[c].step = "using" /\ ~consumer[c].moved =>
                           consumer[c].lockOf = consumer[c].leased /\ consumer[c].leased \in sealed
                      /\ consumer[c].step = "unguarded" => consumer[c].unmanaged
    BY DEF AliasSound, LeasesASealedBundle, PluginInv, AliasInv
  <2> QED
    BY DEF PluginInv, LeaseInv, LeaseOK
<1> QED
  BY <1>1, PluginInvariance, PTL

-----------------------------------------------------------------------------
(***************************************************************************)
(* The hydrated dataset: a copy never shrinks, a directory's alias never   *)
(* moves, and a job that has selected a directory finds its versions       *)
(* there.                                                                  *)
(***************************************************************************)

\* A copy a job may train on.
Suits(dataset, request, version) ==
  /\ dataset # NoDataset
  /\ dataset.version = version
  /\ request.columns \subseteq dataset.columns

\* An alias leads to a directory, and only directories hold copies.
EntriesOK ==
  /\ \A r \in Root : entries[r] \notin {NoRoot, r} => entries[entries[r]] = entries[r]
  /\ \A r \in Root : \A s \in Splits : copies[r][s] # NoDataset => entries[r] = r

\* The versions a job has resolved so far are all real ones.
ResolvedOK(j) ==
  LET me == hydrator[j]
  IN  /\ me.step = "idle" => me.split = 1
      /\ me.step \notin {"idle", "resolve"} =>
           NumSplits > 0 /\ \A s \in Splits : me.versions[s] # 0
      /\ me.step = "resolve" => \A s \in Splits : s < me.split => me.versions[s] # 0

Settled == {"look", "publish", "setup", "train"}

\* The directory a job has selected is its own or the one that is aliased, and
\* suits it in every split it has been through.
SelectedOK(j) ==
  LET me == hydrator[j]
  IN  /\ me.step # "idle" => me.root \in Root
      /\ me.step = "alias" => me.selected \in Root /\ entries[me.selected] = me.selected
      /\ me.step \in Settled =>
           /\ me.selected \in Root
           /\ me.selected # me.root => /\ entries[me.root] = me.selected
                                       /\ entries[me.selected] = me.selected
           /\ me.split > 1 => entries[me.selected] # NoRoot
           /\ \A s \in Splits :
                s < me.split => Suits(copies[Real(me.selected)][s], me.root, me.versions[s])
      /\ me.step = "publish" => entries[me.selected] # NoRoot
      /\ me.step \in {"look", "publish"} => me.split \in Splits
      /\ me.step \in {"setup", "train"} => me.split > NumSplits /\ me.split > 1
      /\ me.step = "train" => me.peer = Real(me.selected)

HydrateInv ==
  /\ HydrateTypeOK
  /\ EntriesOK
  /\ \A j \in Hydrators : ResolvedOK(j) /\ SelectedOK(j)

\* An entry is made once, and so is a copy.
CacheGrows ==
  /\ \A r \in Root : entries[r] # NoRoot => entries'[r] = entries[r]
  /\ \A r \in Root : \A s \in Splits :
       copies[r][s] # NoDataset => copies'[r][s] = copies[r][s]

-----------------------------------------------------------------------------
LEMMA HydratorIs ==
  ASSUME HydrateInv, NEW j \in Hydrators
  PROVE  /\ hydrator[j] \in Hydrator
         /\ hydrator[j].root \in Root \cup {NoRoot} /\ hydrator[j].selected \in Root \cup {NoRoot}
         /\ hydrator[j].peer \in Root \cup {NoRoot}
         /\ hydrator[j].versions \in [Splits -> 0 .. MaxSourceVersion]
         /\ hydrator[j].split \in 1 .. NumSplits + 1
         /\ hydrator[j].step \in
              {"idle", "resolve", "select", "alias", "look", "publish", "setup", "train"}
         /\ NumSplits \in Nat /\ MaxSourceVersion \in Nat /\ MaxSourceVersion > 0
         /\ NoRoot \notin Root /\ NoDataset \notin Dataset
  BY HydrateAssumption, RequestsAssumption, NoDatasetAssumption
     DEF HydrateInv, HydrateTypeOK, Hydrator

\* Where a path leads: to itself until it has an entry, then to a directory.
LEMMA RealIs ==
  ASSUME HydrateInv, NEW p \in Root
  PROVE  /\ Real(p) \in Root
         /\ entries[p] # NoRoot => Real(p) = entries[p] /\ entries[Real(p)] = Real(p)
         /\ entries[p] = NoRoot => Real(p) = p
  BY DEF HydrateInv, HydrateTypeOK, EntriesOK, Real

LEMMA IdleHydrates == IdleHydrator \in Hydrator
<1>1. /\ 1 \in 1 .. NumSplits + 1
      /\ [s \in Splits |-> 0] \in [Splits -> 0 .. MaxSourceVersion]
  BY HydrateAssumption
<1> QED
  BY <1>1 DEF IdleHydrator, Hydrator

LEMMA IdleHydratorOK ==
  ASSUME NEW j, hydrator[j] = IdleHydrator
  PROVE  ResolvedOK(j) /\ SelectedOK(j)
<1>1. hydrator[j].step = "idle" /\ hydrator[j].split = 1
  BY DEF IdleHydrator
<1> QED
  BY <1>1 DEF ResolvedOK, SelectedOK, Settled

LEMMA HydrateStarts == HydrateInit => HydrateInv
<1> SUFFICES ASSUME HydrateInit PROVE HydrateInv
  OBVIOUS
<1>1. HydrateTypeOK
  BY IdleHydrates, HydrateAssumption DEF HydrateInit, HydrateTypeOK, SourceVersions
<1>2. EntriesOK
  BY DEF HydrateInit, EntriesOK
<1>3. \A j \in Hydrators : hydrator[j] = IdleHydrator
  BY DEF HydrateInit
<1>4. \A j \in Hydrators : ResolvedOK(j) /\ SelectedOK(j)
  BY <1>3, IdleHydratorOK
<1> QED
  BY <1>1, <1>2, <1>4 DEF HydrateInv

\* A job that does nothing loses nothing: what it relies on is never changed.
LEMMA HydratorStays ==
  ASSUME HydrateInv, NEW j \in Hydrators, hydrator'[j] = hydrator[j], CacheGrows
  PROVE  ResolvedOK(j)' /\ SelectedOK(j)'
<1> USE HydratorIs
<1>1. ResolvedOK(j) /\ SelectedOK(j)
  BY DEF HydrateInv
<1>2. ResolvedOK(j)'
  BY <1>1 DEF ResolvedOK
<1>3. CASE hydrator[j].step \notin Settled
  <2>1. /\ hydrator[j].step = "alias" =>
             hydrator[j].selected \in Root /\ entries[hydrator[j].selected] = hydrator[j].selected
        /\ hydrator[j].step # "idle" => hydrator[j].root \in Root
        /\ NoRoot \notin Root
    BY <1>1 DEF SelectedOK
  <2>2. hydrator[j].step = "alias" => entries'[hydrator[j].selected] = hydrator[j].selected
    BY <2>1 DEF CacheGrows
  <2> QED
    BY <1>2, <1>3, <2>1, <2>2 DEF SelectedOK, Settled
<1>4. CASE hydrator[j].step \in Settled
  <2>1. /\ hydrator[j].selected \in Root /\ hydrator[j].root \in Root
        /\ hydrator[j].selected # hydrator[j].root =>
             /\ entries[hydrator[j].root] = hydrator[j].selected
             /\ entries[hydrator[j].selected] = hydrator[j].selected
        /\ hydrator[j].split > 1 => entries[hydrator[j].selected] # NoRoot
    BY <1>1, <1>4 DEF SelectedOK, Settled
  <2>2. /\ hydrator[j].selected # hydrator[j].root =>
             /\ entries'[hydrator[j].root] = hydrator[j].selected
             /\ entries'[hydrator[j].selected] = hydrator[j].selected
        /\ entries[hydrator[j].selected] # NoRoot =>
             /\ entries'[hydrator[j].selected] # NoRoot
             /\ Real(hydrator[j].selected)' = Real(hydrator[j].selected)
    BY <2>1 DEF CacheGrows, Real
  <2>3. ASSUME NEW s \in Splits, s < hydrator[j].split
        PROVE  Suits(copies'[Real(hydrator[j].selected)'][s], hydrator[j].root,
                     hydrator[j].versions[s])
    <3>1. Suits(copies[Real(hydrator[j].selected)][s], hydrator[j].root, hydrator[j].versions[s])
      BY <1>1, <1>4, <2>3 DEF SelectedOK
    <3>2. hydrator[j].split > 1
      BY <2>3 DEF Splits
    <3>3. Real(hydrator[j].selected)' = Real(hydrator[j].selected)
      BY <2>1, <2>2, <3>2
    <3>4. Real(hydrator[j].selected) \in Root
      BY <2>1, RealIs
    <3>5. copies'[Real(hydrator[j].selected)][s] = copies[Real(hydrator[j].selected)][s]
      BY <3>1, <3>4 DEF Suits, CacheGrows
    <3> QED
      BY <3>1, <3>3, <3>5
  <2>4. hydrator[j].step = "train" => hydrator[j].peer = Real(hydrator[j].selected)'
    BY <1>1, <1>4, <2>1, <2>2 DEF SelectedOK
  <2>5. hydrator[j].step = "publish" => entries'[hydrator[j].selected] # NoRoot
    BY <1>1, <2>2 DEF SelectedOK
  <2>6. \A s \in Splits :
          s < hydrator'[j].split => Suits(copies'[Real(hydrator[j].selected)'][s], hydrator'[j].root,
                                          hydrator'[j].versions[s])
    BY <2>3
  <2>7. /\ hydrator[j].step \in {"look", "publish"} => hydrator[j].split \in Splits
        /\ hydrator[j].step \in {"setup", "train"} =>
             hydrator[j].split > NumSplits /\ hydrator[j].split > 1
        /\ hydrator[j].step \notin {"idle", "alias"}
        /\ hydrator[j].split > 1 => entries'[hydrator[j].selected] # NoRoot
    BY <1>1, <1>4, <2>1, <2>2 DEF SelectedOK, Settled
  <2> QED
    BY <1>2, <1>4, <2>1, <2>2, <2>4, <2>5, <2>6, <2>7 DEF SelectedOK, Settled
<1> QED
  BY <1>2, <1>3, <1>4

\* It is enough to look at the job that moves.
LEMMA OneHydrates ==
  ASSUME HydrateInv, NEW j \in Hydrators, CacheGrows,
         hydrator' \in [Hydrators -> Hydrator],
         \A k \in Hydrators \ {j} : hydrator'[k] = hydrator[k],
         latest' \in [Splits -> SourceVersions],
         entries' \in [Root -> Root \cup {NoRoot}],
         copies' \in [Root -> [Splits -> Dataset \cup {NoDataset}]],
         EntriesOK', ResolvedOK(j)', SelectedOK(j)'
  PROVE  HydrateInv'
<1>1. \A k \in Hydrators : ResolvedOK(k)' /\ SelectedOK(k)'
  BY HydratorStays
<1> QED
  BY <1>1 DEF HydrateInv, HydrateTypeOK

\* The same for a job that only reads the cache.
LEMMA HydratesOnly ==
  ASSUME HydrateInv, NEW j \in Hydrators, HydrateOnly,
         hydrator' \in [Hydrators -> Hydrator],
         \A k \in Hydrators \ {j} : hydrator'[k] = hydrator[k],
         ResolvedOK(j)', SelectedOK(j)'
  PROVE  HydrateInv'
<1>1. CacheGrows /\ EntriesOK'
  BY DEF HydrateOnly, CacheGrows, HydrateInv, EntriesOK
<1> QED
  BY <1>1, OneHydrates DEF HydrateOnly, HydrateInv, HydrateTypeOK

LEMMA DieIs ==
  ASSUME HydrateInv, NEW j \in Hydrators, HDie(j)
  PROVE  /\ hydrator' \in [Hydrators -> Hydrator]
         /\ \A k \in Hydrators \ {j} : hydrator'[k] = hydrator[k]
         /\ ResolvedOK(j)' /\ SelectedOK(j)'
<1>1. hydrator'[j] = IdleHydrator
  BY DEF HDie, HydrateInv, HydrateTypeOK
<1>2. hydrator'[j].step = "idle" /\ hydrator'[j].split = 1
  BY <1>1 DEF IdleHydrator
<1> QED
  BY <1>2, IdleHydrates DEF HDie, HydrateInv, HydrateTypeOK, ResolvedOK, SelectedOK, Settled

\* What changes of a job that goes on.
OtherHydrators(j) == \A k \in Hydrators \ {j} : hydrator'[k] = hydrator[k]
SameJob(j) == hydrator'[j].root = hydrator[j].root /\ hydrator'[j].versions = hydrator[j].versions

LEMMA SelectIs ==
  ASSUME HydrateInv, NEW j \in Hydrators, NEW path \in Root, HSelect(j, path)
  PROVE  /\ hydrator' \in [Hydrators -> Hydrator] /\ OtherHydrators(j) /\ SameJob(j)
         /\ hydrator'[j].step = "look" /\ hydrator'[j].split = 1 /\ hydrator'[j].selected = path
<1> DEFINE d == [hydrator[j] EXCEPT !.selected = path, !.step = "look", !.split = 1]
<1>1. hydrator' = [hydrator EXCEPT ![j] = d]
  BY DEF HSelect
<1>2. 1 \in 1 .. NumSplits + 1 /\ path \in Root \cup {NoRoot}
  BY HydrateAssumption
<1>3. d \in Hydrator /\ hydrator \in [Hydrators -> Hydrator]
  BY <1>2, HydratorIs DEF Hydrator, HydrateInv, HydrateTypeOK
<1>4. /\ d.step = "look" /\ d.split = 1 /\ d.selected = path
      /\ d.root = hydrator[j].root /\ d.versions = hydrator[j].versions
  BY HydratorIs DEF Hydrator
<1> HIDE DEF d
<1> QED
  BY <1>1, <1>3, <1>4 DEF OtherHydrators, SameJob

LEMMA NextSplitIs ==
  ASSUME HydrateInv, NEW j \in Hydrators, HNextSplit(j), hydrator[j].split \in Splits
  PROVE  /\ hydrator' \in [Hydrators -> Hydrator] /\ OtherHydrators(j) /\ SameJob(j)
         /\ hydrator'[j].selected = hydrator[j].selected
         /\ hydrator'[j].split = hydrator[j].split + 1
         /\ hydrator'[j].step = IF hydrator[j].split = NumSplits THEN "setup" ELSE "look"
<1> DEFINE split == hydrator[j].split + 1
           step == IF split > NumSplits THEN "setup" ELSE "look"
           d == [hydrator[j] EXCEPT !.split = split, !.step = step]
<1>1. hydrator' = [hydrator EXCEPT ![j] = d]
  BY DEF HNextSplit
<1>2. /\ split \in 1 .. NumSplits + 1 /\ step \in {"setup", "look"}
      /\ step = IF hydrator[j].split = NumSplits THEN "setup" ELSE "look"
  BY HydrateAssumption DEF Splits
<1> HIDE DEF step
<1>3. d \in Hydrator /\ hydrator \in [Hydrators -> Hydrator]
  BY <1>2, HydratorIs DEF Hydrator, HydrateInv, HydrateTypeOK
<1>4. /\ d.step = step /\ d.split = split /\ d.selected = hydrator[j].selected
      /\ d.root = hydrator[j].root /\ d.versions = hydrator[j].versions
  BY HydratorIs DEF Hydrator
<1> HIDE DEF d
<1> QED
  BY <1>1, <1>2, <1>3, <1>4 DEF OtherHydrators, SameJob

\* A job that moves on has been through one more split, the copy there suits it.
LEMMA NextSplitKeeps ==
  ASSUME HydrateInv, NEW j \in Hydrators, HNextSplit(j), CacheGrows,
         hydrator[j].step \in {"look", "publish"},
         entries[hydrator[j].selected] # NoRoot,
         Suits(copies'[Real(hydrator[j].selected)][hydrator[j].split], hydrator[j].root,
               hydrator[j].versions[hydrator[j].split])
  PROVE  /\ hydrator' \in [Hydrators -> Hydrator] /\ OtherHydrators(j)
         /\ ResolvedOK(j)' /\ SelectedOK(j)'
<1> USE HydratorIs
<1> DEFINE me == hydrator[j]
<1>1. /\ ResolvedOK(j) /\ me.root \in Root /\ me.selected \in Root /\ me.split \in Splits
      /\ me.selected # me.root => /\ entries[me.root] = me.selected
                                  /\ entries[me.selected] = me.selected
      /\ \A s \in Splits :
            s < me.split => Suits(copies[Real(me.selected)][s], me.root, me.versions[s])
      /\ me.step \notin {"idle", "resolve"}
  BY DEF HydrateInv, SelectedOK, Settled
<1>2. /\ hydrator' \in [Hydrators -> Hydrator] /\ OtherHydrators(j) /\ SameJob(j)
      /\ hydrator'[j].selected = me.selected
      /\ hydrator'[j].split = me.split + 1
      /\ hydrator'[j].step = IF me.split = NumSplits THEN "setup" ELSE "look"
  BY <1>1, NextSplitIs
<1>3. ResolvedOK(j)'
  BY <1>1, <1>2 DEF ResolvedOK, SameJob
<1>4. /\ entries'[me.selected] = entries[me.selected]
      /\ Real(hydrator[j].selected)' = Real(me.selected)
      /\ me.selected # me.root => /\ entries'[me.root] = me.selected
                                  /\ entries'[me.selected] = me.selected
  BY <1>1, <1>2 DEF CacheGrows, Real
<1>5. ASSUME NEW s \in Splits, s < me.split + 1
      PROVE  Suits(copies'[Real(me.selected)][s], me.root, me.versions[s])
  <2>1. CASE s = me.split
    BY <2>1
  <2>2. CASE s # me.split
    <3>1. s < me.split
      BY <1>1, <1>5, <2>2 DEF Splits
    <3>2. Suits(copies[Real(me.selected)][s], me.root, me.versions[s]) /\ Real(me.selected) \in Root
      BY <1>1, <3>1, RealIs
    <3> QED
      BY <3>2 DEF Suits, CacheGrows
  <2> QED
    BY <2>1, <2>2
<1>6. /\ me.split + 1 > 1
      /\ me.split = NumSplits => me.split + 1 > NumSplits
      /\ me.split # NumSplits => me.split + 1 \in Splits
  BY <1>1 DEF Splits
<1>7. \A s \in Splits :
        s < hydrator'[j].split =>
          Suits(copies'[Real(hydrator[j].selected)'][s], hydrator'[j].root,
                hydrator'[j].versions[s])
  BY <1>2, <1>4, <1>5 DEF SameJob
<1>8. SelectedOK(j)'
  BY <1>1, <1>2, <1>4, <1>6, <1>7 DEF SelectedOK, Settled, SameJob
<1> QED
  BY <1>2, <1>3, <1>8

-----------------------------------------------------------------------------
\* The directory of a job that has chosen is its own, or the one its root is an
\* alias of.
LEMMA ChoiceOK ==
  ASSUME HydrateInv, NEW j \in Hydrators, NEW path \in Root, HSelect(j, path),
         CacheGrows, hydrator[j].step \in {"select", "alias"},
         path = hydrator[j].root
           \/ (entries'[hydrator[j].root] = path /\ entries'[path] = path)
  PROVE  /\ hydrator' \in [Hydrators -> Hydrator] /\ OtherHydrators(j)
         /\ ResolvedOK(j)' /\ SelectedOK(j)'
<1> USE HydratorIs
<1>1. ResolvedOK(j) /\ SelectedOK(j)
  BY DEF HydrateInv
<1>2. /\ hydrator' \in [Hydrators -> Hydrator] /\ OtherHydrators(j) /\ SameJob(j)
      /\ hydrator'[j].step = "look" /\ hydrator'[j].split = 1 /\ hydrator'[j].selected = path
  BY SelectIs
<1>3. hydrator[j].root \in Root /\ 1 \in Splits
  BY <1>1 DEF SelectedOK, ResolvedOK, Splits
<1>4. ResolvedOK(j)'
  BY <1>1, <1>2 DEF ResolvedOK, SameJob
<1>5. ~(hydrator'[j].split > 1) /\ \A s \in Splits : ~(s < hydrator'[j].split)
  BY <1>2 DEF Splits
<1>6. SelectedOK(j)'
  BY <1>2, <1>3, <1>5 DEF SelectedOK, Settled, SameJob
<1> QED
  BY <1>2, <1>4, <1>6

LEMMA FollowAliasKeeps ==
  ASSUME HydrateInv, NEW j \in Hydrators, FollowAlias(j), HydrateOnly,
         hydrator[j].step \in {"select", "alias"},
         entries[hydrator[j].root] \notin {NoRoot, hydrator[j].root}
  PROVE  HydrateInv'
<1> DEFINE target == entries[hydrator[j].root]
<1>1. /\ hydrator[j].root \in Root /\ target \in Root /\ entries[target] = target
      /\ CacheGrows /\ UNCHANGED entries
  BY DEF HydrateInv, HydrateTypeOK, EntriesOK, SelectedOK, HydrateOnly, CacheGrows
<1>2. CASE HSelect(j, target)
  BY <1>1, <1>2, ChoiceOK, HydratesOnly DEF OtherHydrators
<1>3. CASE HDie(j)
  BY <1>3, DieIs, HydratesOnly
<1> QED
  BY <1>2, <1>3 DEF FollowAlias

-----------------------------------------------------------------------------
LEMMA AdvanceSourceKeeps ==
  ASSUME HydrateInv, NEW s \in Splits, AdvanceSource(s) PROVE HydrateInv'
<1>1. UNCHANGED <<entries, copies, hydrator>> /\ latest[s] < MaxSourceVersion
      /\ latest' = [latest EXCEPT ![s] = @ + 1]
  BY DEF AdvanceSource
<1>2. latest' \in [Splits -> SourceVersions]
  BY <1>1, HydrateAssumption DEF HydrateInv, HydrateTypeOK, SourceVersions
<1>3. CacheGrows /\ EntriesOK'
  BY <1>1 DEF CacheGrows, HydrateInv, EntriesOK
<1>4. \A j \in Hydrators : ResolvedOK(j)' /\ SelectedOK(j)'
  BY <1>1, <1>3, HydratorStays
<1> QED
  BY <1>1, <1>2, <1>3, <1>4 DEF HydrateInv, HydrateTypeOK

LEMMA StartHydrateKeeps ==
  ASSUME HydrateInv, NEW j \in Hydrators, NEW r \in Requests, StartHydrate(j, r)
  PROVE  HydrateInv'
<1> DEFINE d == [hydrator[j] EXCEPT !.root = r, !.step = "resolve"]
<1>1. hydrator' = [hydrator EXCEPT ![j] = d] /\ HydrateOnly /\ hydrator[j].step = "idle"
  BY DEF StartHydrate
<1>2. r \in Root
  BY RequestsAssumption
<1>3. d \in Hydrator /\ hydrator \in [Hydrators -> Hydrator]
  BY <1>2, HydratorIs DEF Hydrator, HydrateInv, HydrateTypeOK
<1>4. d.step = "resolve" /\ d.root = r /\ d.split = hydrator[j].split
  BY HydratorIs DEF Hydrator
<1>5. hydrator[j].split = 1
  BY <1>1 DEF HydrateInv, ResolvedOK
<1> HIDE DEF d
<1>6. /\ hydrator' \in [Hydrators -> Hydrator] /\ hydrator'[j] = d
      /\ \A k \in Hydrators \ {j} : hydrator'[k] = hydrator[k]
  BY <1>1, <1>3
<1>7. ResolvedOK(j)' /\ SelectedOK(j)'
  BY <1>2, <1>4, <1>5, <1>6 DEF ResolvedOK, SelectedOK, Settled, Splits
<1> QED
  BY <1>1, <1>6, <1>7, HydratesOnly

LEMMA ResolveKeeps ==
  ASSUME HydrateInv, NEW j \in Hydrators, ResolveVersion(j) PROVE HydrateInv'
<1> USE HydratorIs
<1> DEFINE me == hydrator[j]
           version == IF me.root.pinned THEN PinnedVersion ELSE latest[me.split]
           step == IF me.split = NumSplits THEN "select" ELSE "resolve"
           versions == [me.versions EXCEPT ![me.split] = version]
           d == [me EXCEPT !.versions = versions, !.split = me.split + 1, !.step = step]
<1>1. /\ hydrator' = [hydrator EXCEPT ![j] = d] /\ HydrateOnly
      /\ me.step = "resolve" /\ me.split <= NumSplits
  BY DEF ResolveVersion
<1>2. me.split \in Splits /\ me.split + 1 \in 1 .. NumSplits + 1 /\ step \in {"select", "resolve"}
  BY <1>1 DEF Splits
<1>3. version \in 1 .. MaxSourceVersion
  BY <1>2 DEF HydrateInv, HydrateTypeOK, SourceVersions, PinnedVersion
<1> HIDE DEF version
<1>4. /\ versions \in [Splits -> 0 .. MaxSourceVersion] /\ versions[me.split] # 0
      /\ \A s \in Splits \ {me.split} : versions[s] = me.versions[s]
  BY <1>2, <1>3
<1> HIDE DEF versions
<1>5. d \in Hydrator /\ hydrator \in [Hydrators -> Hydrator]
  <2>1. /\ step \in {"idle", "resolve", "select", "alias", "look", "publish", "setup", "train"}
        /\ me \in Hydrator /\ hydrator \in [Hydrators -> Hydrator]
    BY DEF HydrateInv, HydrateTypeOK
  <2> HIDE DEF step, me
  <2> QED
    BY <1>2, <1>4, <2>1 DEF Hydrator
<1>6. d.step = step /\ d.root = me.root /\ d.split = me.split + 1 /\ d.versions = versions
  <2> HIDE DEF step
  <2> QED
    BY DEF Hydrator
<1> HIDE DEF d
<1>7. /\ hydrator' \in [Hydrators -> Hydrator] /\ hydrator'[j] = d
      /\ \A k \in Hydrators \ {j} : hydrator'[k] = hydrator[k]
  BY <1>1, <1>5
<1>8. ResolvedOK(j) /\ me.root \in Root
  BY <1>1 DEF HydrateInv, SelectedOK
<1>9. \A s \in Splits : s < me.split + 1 => versions[s] # 0
  <2> SUFFICES ASSUME NEW s \in Splits, s < me.split + 1, s # me.split PROVE versions[s] # 0
    BY <1>4
  <2>1. s < me.split
    BY <1>2 DEF Splits
  <2> QED
    BY <1>1, <1>4, <1>8, <2>1 DEF ResolvedOK
<1>10. me.split = NumSplits => NumSplits > 0 /\ \A s \in Splits : s < me.split + 1
  BY <1>2 DEF Splits
<1>11. ResolvedOK(j)'
  BY <1>6, <1>7, <1>9, <1>10 DEF ResolvedOK
<1>12. SelectedOK(j)'
  BY <1>2, <1>6, <1>7, <1>8 DEF SelectedOK, Settled
<1> QED
  BY <1>1, <1>7, <1>11, <1>12, HydratesOnly

LEMMA SelectRootKeeps ==
  ASSUME HydrateInv, NEW j \in Hydrators, SelectRoot(j) PROVE HydrateInv'
<1> USE HydratorIs
<1> DEFINE me == hydrator[j]
           fitting == {r \in Candidates(me.root) : CoversAll(r, me.root, me.versions)}
<1>1. me.step = "select" /\ HydrateOnly
  BY DEF SelectRoot
<1>2. me.root \in Root /\ CacheGrows /\ UNCHANGED entries
  BY <1>1 DEF HydrateInv, SelectedOK, HydrateOnly, CacheGrows
<1>3. CASE entries[me.root] \notin {NoRoot, me.root} /\ FollowAlias(j)
  BY <1>1, <1>3, FollowAliasKeeps
<1>4. CASE HSelect(j, me.root)
  BY <1>1, <1>2, <1>4, ChoiceOK, HydratesOnly DEF OtherHydrators
<1>5. ASSUME NEW r \in fitting,
             hydrator' = [hydrator EXCEPT ![j].selected = r, ![j].step = "alias"]
      PROVE  HydrateInv'
  <2> DEFINE d == [me EXCEPT !.selected = r, !.step = "alias"]
  <2>1. hydrator' = [hydrator EXCEPT ![j] = d]
    BY <1>5
  <2>2. r \in Root /\ entries[r] = r
    BY DEF Candidates
  <2>3. d \in Hydrator /\ hydrator \in [Hydrators -> Hydrator]
    BY <2>2 DEF Hydrator, HydrateInv, HydrateTypeOK
  <2>4. /\ d.step = "alias" /\ d.selected = r /\ d.root = me.root /\ d.versions = me.versions
    BY DEF Hydrator
  <2> HIDE DEF d
  <2>5. /\ hydrator' \in [Hydrators -> Hydrator] /\ hydrator'[j] = d
        /\ \A k \in Hydrators \ {j} : hydrator'[k] = hydrator[k]
    BY <2>1, <2>3
  <2>6. ResolvedOK(j)' /\ SelectedOK(j)'
    <3>1. ResolvedOK(j)
      BY DEF HydrateInv
    <3> QED
      BY <1>1, <1>2, <2>2, <2>4, <2>5, <3>1 DEF ResolvedOK, SelectedOK, Settled
  <2> QED
    BY <1>1, <2>5, <2>6, HydratesOnly
<1> QED
  BY <1>3, <1>4, <1>5 DEF SelectRoot

LEMMA PublishAliasKeeps ==
  ASSUME HydrateInv, NEW j \in Hydrators, PublishCacheAlias(j) PROVE HydrateInv'
<1> USE HydratorIs
<1> DEFINE me == hydrator[j]
<1>1. me.step = "alias" /\ UNCHANGED <<latest, copies>>
  BY DEF PublishCacheAlias
<1>2. me.root \in Root /\ me.selected \in Root /\ entries[me.selected] = me.selected
  BY <1>1 DEF HydrateInv, SelectedOK
<1>3. CASE /\ entries[me.root] = NoRoot
           /\ entries' = [entries EXCEPT ![me.root] = me.selected]
           /\ HSelect(j, me.selected) \/ HDie(j)
  <2>1. /\ entries' \in [Root -> Root \cup {NoRoot}]
        /\ entries'[me.root] = me.selected /\ me.root # me.selected
        /\ \A r \in Root \ {me.root} : entries'[r] = entries[r]
    BY <1>2, <1>3 DEF HydrateInv, HydrateTypeOK
  <2>2. CacheGrows
    BY <1>1, <1>3, <2>1 DEF CacheGrows
  <2>3. EntriesOK'
    <3>1. \A r \in Root : entries'[r] \notin {NoRoot, r} => entries'[entries'[r]] = entries'[r]
      <4> SUFFICES ASSUME NEW r \in Root, entries'[r] \notin {NoRoot, r}
                   PROVE  entries'[entries'[r]] = entries'[r]
        OBVIOUS
      <4>1. CASE r = me.root
        BY <1>2, <2>1, <4>1
      <4>2. CASE r # me.root
        <5>1. entries'[r] = entries[r] /\ entries[r] \in Root /\ entries[entries[r]] = entries[r]
          BY <2>1, <4>2 DEF HydrateInv, HydrateTypeOK, EntriesOK
        <5>2. entries[r] # me.root
          BY <1>3, <5>1
        <5> QED
          BY <2>1, <5>1, <5>2
      <4> QED
        BY <4>1, <4>2
    <3>2. \A r \in Root : \A s \in Splits : copies'[r][s] # NoDataset => entries'[r] = r
      BY <1>1, <1>2, <1>3, <2>1 DEF HydrateInv, EntriesOK
    <3> QED
      BY <3>1, <3>2 DEF EntriesOK
  <2>4. /\ hydrator' \in [Hydrators -> Hydrator]
        /\ \A k \in Hydrators \ {j} : hydrator'[k] = hydrator[k]
        /\ ResolvedOK(j)' /\ SelectedOK(j)'
    <3>1. CASE HSelect(j, me.selected)
      BY <1>1, <1>2, <2>1, <2>2, <3>1, ChoiceOK DEF OtherHydrators
    <3>2. CASE HDie(j)
      BY <3>2, DieIs
    <3> QED
      BY <1>3, <3>1, <3>2
  <2> QED
    BY <1>1, <2>1, <2>2, <2>3, <2>4, OneHydrates DEF HydrateInv, HydrateTypeOK
<1>4. CASE entries[me.root] = me.root /\ HSelect(j, me.root) /\ UNCHANGED entries
  <2>1. CacheGrows /\ HydrateOnly
    BY <1>1, <1>4 DEF CacheGrows, HydrateOnly
  <2> QED
    BY <1>1, <1>2, <1>4, <2>1, ChoiceOK, HydratesOnly DEF OtherHydrators
<1>5. CASE entries[me.root] \notin {NoRoot, me.root} /\ FollowAlias(j) /\ UNCHANGED entries
  BY <1>1, <1>5, FollowAliasKeeps DEF HydrateOnly
<1> QED
  BY <1>3, <1>4, <1>5 DEF PublishCacheAlias

LEMMA LookKeeps ==
  ASSUME HydrateInv, NEW j \in Hydrators, LookForCopy(j) PROVE HydrateInv'
<1> USE HydratorIs
<1> DEFINE me == hydrator[j]
           dataset == copies[Real(me.selected)][me.split]
<1>1. me.step = "look" /\ UNCHANGED <<latest, copies>>
  BY DEF LookForCopy
<1>2. /\ me.root \in Root /\ me.selected \in Root /\ me.split \in Splits
      /\ Real(me.selected) \in Root
  BY <1>1, RealIs DEF HydrateInv, SelectedOK, Settled
<1>3. CASE /\ dataset # NoDataset /\ UNCHANGED entries
           /\ IF Reusable(dataset, me.root, me.versions[me.split]) THEN HNextSplit(j) ELSE HDie(j)
  <2>1. CacheGrows /\ HydrateOnly
    BY <1>1, <1>3 DEF CacheGrows, HydrateOnly
  <2>2. CASE HDie(j)
    BY <2>1, <2>2, DieIs, HydratesOnly
  <2>3. CASE HNextSplit(j) /\ Reusable(dataset, me.root, me.versions[me.split])
    <3>1. Suits(copies'[Real(me.selected)][me.split], me.root, me.versions[me.split])
      BY <1>1, <2>3 DEF Reusable, Suits
    <3>2. entries[me.selected] # NoRoot
      <4>1. entries[Real(me.selected)] = Real(me.selected)
        BY <1>2, <1>3 DEF HydrateInv, EntriesOK
      <4> QED
        BY <1>2, <1>3, <4>1, RealIs
    <3>3. /\ hydrator' \in [Hydrators -> Hydrator] /\ OtherHydrators(j)
          /\ ResolvedOK(j)' /\ SelectedOK(j)'
      BY <1>1, <2>1, <2>3, <3>1, <3>2, NextSplitKeeps
    <3> QED
      BY <2>1, <3>3, HydratesOnly DEF OtherHydrators
  <2> QED
    BY <1>3, <2>2, <2>3
<1>4. CASE /\ dataset = NoDataset /\ HStep(j, "publish")
           /\ entries' = [entries EXCEPT ![me.selected] = Real(me.selected)]
  <2>1. /\ entries' \in [Root -> Root \cup {NoRoot}]
        /\ entries'[me.selected] = Real(me.selected)
        /\ \A r \in Root \ {me.selected} : entries'[r] = entries[r]
    BY <1>2, <1>4 DEF HydrateInv, HydrateTypeOK
  <2>2. CacheGrows
    BY <1>1, <1>2, <2>1, RealIs DEF CacheGrows
  <2>3. EntriesOK'
    <3>1. \A r \in Root : entries'[r] \notin {NoRoot, r} => entries'[entries'[r]] = entries'[r]
      <4> SUFFICES ASSUME NEW r \in Root, entries'[r] \notin {NoRoot, r}
                   PROVE  entries'[entries'[r]] = entries'[r]
        OBVIOUS
      <4>1. entries'[r] = entries[r] /\ entries[r] \in Root /\ entries[entries[r]] = entries[r]
        BY <1>2, <2>1, RealIs DEF HydrateInv, HydrateTypeOK, EntriesOK
      <4> QED
        BY <2>2, <4>1 DEF CacheGrows
    <3>2. \A r \in Root : \A s \in Splits : copies'[r][s] # NoDataset => entries'[r] = r
      BY <1>1, <2>2 DEF HydrateInv, EntriesOK, CacheGrows
    <3> QED
      BY <3>1, <3>2 DEF EntriesOK
  <2>4. /\ hydrator' \in [Hydrators -> Hydrator] /\ OtherHydrators(j) /\ SameJob(j)
        /\ hydrator'[j].step = "publish" /\ hydrator'[j].split = me.split
        /\ hydrator'[j].selected = me.selected
    <3> DEFINE d == [me EXCEPT !.step = "publish"]
    <3>1. hydrator' = [hydrator EXCEPT ![j] = d]
      BY <1>4 DEF HStep
    <3>2. d \in Hydrator /\ hydrator \in [Hydrators -> Hydrator]
      BY DEF Hydrator, HydrateInv, HydrateTypeOK
    <3>3. /\ d.step = "publish" /\ d.split = me.split /\ d.selected = me.selected
          /\ d.root = me.root /\ d.versions = me.versions
      BY DEF Hydrator
    <3> HIDE DEF d
    <3> QED
      BY <3>1, <3>2, <3>3 DEF OtherHydrators, SameJob
  <2>5. ResolvedOK(j)'
    BY <1>1, <2>4 DEF HydrateInv, ResolvedOK, SameJob
  <2>6. entries'[me.selected] # NoRoot /\ Real(hydrator[j].selected)' = Real(me.selected)
    BY <1>2, <2>1, <2>4, RealIs DEF Real
  <2>7. \A s \in Splits :
          s < hydrator'[j].split =>
            Suits(copies'[Real(hydrator[j].selected)'][s], hydrator'[j].root,
                  hydrator'[j].versions[s])
    BY <1>1, <2>4, <2>6 DEF HydrateInv, SelectedOK, Settled, SameJob
  <2>8. me.selected # me.root => /\ entries'[me.root] = me.selected
                                 /\ entries'[me.selected] = me.selected
    BY <1>1, <1>2, <2>2 DEF HydrateInv, SelectedOK, Settled, CacheGrows
  <2>9. SelectedOK(j)'
    BY <1>2, <2>4, <2>6, <2>7, <2>8 DEF SelectedOK, Settled, SameJob
  <2> QED
    BY <1>1, <2>1, <2>2, <2>3, <2>4, <2>5, <2>9, OneHydrates DEF HydrateInv, HydrateTypeOK, OtherHydrators
<1> QED
  BY <1>3, <1>4 DEF LookForCopy

LEMMA PublishCopyKeeps ==
  ASSUME HydrateInv, NEW j \in Hydrators, PublishCopy(j) PROVE HydrateInv'
<1> USE HydratorIs
<1> DEFINE me == hydrator[j]
           root == Real(me.selected)
           winner == copies[root][me.split]
           new == [version |-> me.versions[me.split],
                   columns |-> me.root.columns, pinned |-> me.root.pinned]
<1>1. me.step = "publish" /\ UNCHANGED <<latest, entries>>
  BY DEF PublishCopy
<1>2. /\ me.root \in Root /\ me.selected \in Root /\ me.split \in Splits
      /\ entries[me.selected] # NoRoot /\ root \in Root /\ entries[root] = root
  BY <1>1, RealIs DEF HydrateInv, SelectedOK, Settled
<1>3. CASE winner # NoDataset /\ UNCHANGED copies
  <2>1. CacheGrows /\ HydrateOnly
    BY <1>1, <1>3 DEF CacheGrows, HydrateOnly
  <2>2. CASE HDie(j)
    BY <2>1, <2>2, DieIs, HydratesOnly
  <2>3. CASE HNextSplit(j) /\ Reusable(winner, me.root, me.versions[me.split])
    <3>1. Suits(copies'[Real(me.selected)][me.split], me.root, me.versions[me.split])
      BY <1>3, <2>3 DEF Reusable, Suits
    <3>2. /\ hydrator' \in [Hydrators -> Hydrator] /\ OtherHydrators(j)
          /\ ResolvedOK(j)' /\ SelectedOK(j)'
      BY <1>1, <1>2, <2>1, <2>3, <3>1, NextSplitKeeps
    <3> QED
      BY <2>1, <3>2, HydratesOnly DEF OtherHydrators
  <2> QED
    BY <1>3, <2>2, <2>3 DEF PublishCopy
<1>4. CASE /\ winner = NoDataset /\ HNextSplit(j)
           /\ copies' = [copies EXCEPT ![root][me.split] = new]
  <2>1. new \in Dataset /\ new.version = me.versions[me.split] /\ new.columns = me.root.columns
    <3>1. me.versions[me.split] \in SourceVersions
      <4>1. me.versions[me.split] \in 0 .. MaxSourceVersion /\ me.versions[me.split] # 0
        BY <1>1, <1>2 DEF HydrateInv, ResolvedOK
      <4> QED
        BY <4>1 DEF SourceVersions
    <3>2. me.root.columns \in Projections /\ me.root.pinned \in BOOLEAN
      BY <1>2 DEF Root
    <3> QED
      BY <3>1, <3>2 DEF Dataset
  <2> HIDE DEF new
  <2>2. /\ copies' \in [Root -> [Splits -> Dataset \cup {NoDataset}]]
        /\ copies'[root][me.split] = new
        /\ \A r \in Root, s \in Splits :
             ~(r = root /\ s = me.split) => copies'[r][s] = copies[r][s]
    <3> HIDE DEF root
    <3> QED
      BY <1>2, <1>4, <2>1 DEF HydrateInv, HydrateTypeOK
  <2>3. CacheGrows
    BY <1>1, <1>4, <2>2 DEF CacheGrows
  <2>4. EntriesOK'
    BY <1>1, <1>2, <2>2 DEF HydrateInv, EntriesOK
  <2>5. Suits(copies'[root][me.split], me.root, me.versions[me.split])
    BY <2>1, <2>2 DEF Suits
  <2>6. /\ hydrator' \in [Hydrators -> Hydrator] /\ OtherHydrators(j)
        /\ ResolvedOK(j)' /\ SelectedOK(j)'
    BY <1>1, <1>2, <1>4, <2>3, <2>5, NextSplitKeeps
  <2> QED
    BY <1>1, <2>2, <2>3, <2>4, <2>6, OneHydrates DEF HydrateInv, HydrateTypeOK, OtherHydrators
<1> QED
  BY <1>3, <1>4 DEF PublishCopy

\* The entry of the requested root leads every rank to the selected directory.
LEMMA SetupKeeps ==
  ASSUME HydrateInv, NEW j \in Hydrators, SetupPeer(j) PROVE HydrateInv'
<1> USE HydratorIs
<1> DEFINE me == hydrator[j]
           target == entries[me.root]
           d == [me EXCEPT !.peer = target, !.step = "train"]
<1>1. me.step = "setup" /\ HydrateOnly
  BY DEF SetupPeer
<1>2. CASE HDie(j)
  BY <1>1, <1>2, DieIs, HydratesOnly
<1>3. CASE hydrator' = [hydrator EXCEPT ![j] = d]
  <2>1. /\ me.root \in Root /\ me.selected \in Root /\ entries[me.selected] # NoRoot
        /\ me.selected # me.root => /\ entries[me.root] = me.selected
                                    /\ entries[me.selected] = me.selected
        /\ \A s \in Splits :
             s < me.split => Suits(copies[Real(me.selected)][s], me.root, me.versions[s])
        /\ me.split > NumSplits /\ me.split > 1
    BY <1>1 DEF HydrateInv, SelectedOK, Settled
  <2>2. target = Real(me.selected) /\ target \in Root
    BY <2>1, RealIs DEF HydrateInv, HydrateTypeOK
  <2>3. d \in Hydrator /\ hydrator \in [Hydrators -> Hydrator]
    BY <2>2 DEF Hydrator, HydrateInv, HydrateTypeOK
  <2>4. /\ d.step = "train" /\ d.peer = target /\ d.selected = me.selected /\ d.split = me.split
        /\ d.root = me.root /\ d.versions = me.versions
    BY DEF Hydrator
  <2> HIDE DEF d
  <2>5. /\ hydrator' \in [Hydrators -> Hydrator] /\ hydrator'[j] = d
        /\ \A k \in Hydrators \ {j} : hydrator'[k] = hydrator[k]
    BY <1>3, <2>3
  <2>6. ResolvedOK(j)'
    BY <1>1, <2>4, <2>5 DEF HydrateInv, ResolvedOK
  <2>7. UNCHANGED <<entries, copies>> /\ Real(hydrator[j].selected)' = Real(me.selected)
    BY <1>1, <2>4, <2>5 DEF HydrateOnly, Real
  <2>8. SelectedOK(j)'
    BY <2>1, <2>2, <2>4, <2>5, <2>7 DEF SelectedOK, Settled
  <2> QED
    BY <1>1, <2>5, <2>6, <2>8, HydratesOnly
<1> QED
  BY <1>2, <1>3 DEF SetupPeer

LEMMA HydrateStep == HydrateInv /\ [HydrateNext]_hydrateVars => HydrateInv'
<1> SUFFICES ASSUME HydrateInv, [HydrateNext]_hydrateVars PROVE HydrateInv'
  OBVIOUS
<1>1. CASE UNCHANGED hydrateVars
  BY <1>1 DEF hydrateVars, HydrateInv, HydrateTypeOK, EntriesOK, ResolvedOK, SelectedOK, Real
<1>2. ASSUME NEW s \in Splits, AdvanceSource(s) PROVE HydrateInv'
  BY <1>2, AdvanceSourceKeeps
<1>3. ASSUME NEW j \in Hydrators, NEW r \in Requests, StartHydrate(j, r) PROVE HydrateInv'
  BY <1>3, StartHydrateKeeps
<1>4. ASSUME NEW j \in Hydrators,
             \/ ResolveVersion(j) \/ SelectRoot(j) \/ PublishCacheAlias(j) \/ LookForCopy(j)
             \/ PublishCopy(j) \/ SetupPeer(j)
      PROVE  HydrateInv'
  BY <1>4, ResolveKeeps, SelectRootKeeps, PublishAliasKeeps, LookKeeps, PublishCopyKeeps, SetupKeeps
<1>5. ASSUME NEW j \in Hydrators, EndHydrate(j) \/ HydrateCrash(j) PROVE HydrateInv'
  BY <1>5, DieIs, HydratesOnly DEF EndHydrate, HydrateCrash, HydrateOnly
<1> QED
  BY <1>1, <1>2, <1>3, <1>4, <1>5 DEF HydrateNext

\* A job that trains reads the versions it settled on and at least its columns,
\* on every rank from one directory, however many jobs share the cache.
THEOREM JobsTrainOnWhatTheyResolved == HydrateSpec => []TrainsOnWhatItResolved
<1>1. HydrateInv => TrainsOnWhatItResolved
  <2> SUFFICES ASSUME HydrateInv, NEW j \in Hydrators, hydrator[j].step = "train"
               PROVE  /\ hydrator[j].peer = Real(hydrator[j].selected)
                      /\ \A s \in Splits :
                           Suits(copies[hydrator[j].peer][s], hydrator[j].root, hydrator[j].versions[s])
    BY DEF TrainsOnWhatItResolved, Suits
  <2>1. hydrator[j].split > NumSplits /\ hydrator[j].split \in 1 .. NumSplits + 1 /\ NumSplits \in Nat
    BY HydratorIs DEF HydrateInv, SelectedOK
  <2>2. \A s \in Splits : s < hydrator[j].split
    BY <2>1 DEF Splits
  <2> QED
    BY <2>2 DEF HydrateInv, SelectedOK, Settled
<1> QED
  BY <1>1, HydrateStarts, HydrateStep, PTL DEF HydrateSpec

-----------------------------------------------------------------------------
(***************************************************************************)
(* The checkpoint cache: an entry is filed under its digest, and what a    *)
(* process holds has the digest it asked for.                              *)
(***************************************************************************)

\* The ranks of one evaluation ask for the same, and for a pin.
AskOK ==
  ranks => /\ \A e, f \in Evaluators : evaluator[e].ask = evaluator[f].ask
           /\ \A e \in Evaluators : evaluator[e].step # "idle" => evaluator[e].ask.pin # NoFile

\* A process with a pin works under its digest, from the lock to the load.
PinnedOK(me) ==
  me.ask.pin # NoFile =>
    /\ me.step = "key" => me.staging = me.ask.pin
    /\ me.step \in {"size", "download", "cache", "publish"} => me.key = me.ask.pin
    /\ me.step = "loaded" => me.loaded = me.ask.pin

\* One without works on what the store held since it began, under that digest.
PrivateOK(me) ==
  me.ask.pin = NoFile =>
    /\ me.step \in {"size", "download"} => {remoteCkpt} \ {NoFile} \subseteq me.seen
    /\ me.step \in {"key", "cache", "publish"} => me.staging \in me.seen
    /\ me.step \in {"cache", "publish"} => me.key = me.staging
    /\ me.step = "loaded" => me.loaded \in me.seen

CkptInv ==
  /\ CkptTypeOK
  /\ AskOK
  /\ \A e \in Evaluators : PinnedOK(evaluator[e]) /\ PrivateOK(evaluator[e])
  /\ CacheIsByContent

LEMMA Files == /\ NoFile \in File /\ 0 \in 0 .. Downloads
               /\ Checkpoints \subseteq Bytes /\ Torn \in Bytes /\ Bytes \subseteq File
               /\ NoFile \notin Bytes
  BY CheckpointAssumption DEF File, Bytes

LEMMA AskIs ==
  ASSUME NEW ask \in Ask
  PROVE  /\ ask.pin \in File /\ ask.pin \in Bytes \cup {NoFile}
         /\ ask = [from |-> ask.from, pin |-> ask.pin] /\ ask.from \in {"remote", "local"}
<1>1. ask.pin \in Checkpoints \cup {NoFile} /\ ask.from \in {"remote", "local"}
  BY DEF Ask
<1>2. ask = [from |-> ask.from, pin |-> ask.pin]
  BY DEF Ask
<1> QED
  BY <1>1, <1>2, Files

LEMMA FreshIsOK ==
  ASSUME NEW ask \in Ask
  PROVE  /\ Fresh(ask) \in Evaluator /\ Fresh(ask).ask = ask /\ Fresh(ask).step = "idle"
         /\ PinnedOK(Fresh(ask)) /\ PrivateOK(Fresh(ask))
<1>1. Fresh(ask) \in Evaluator
  BY Files DEF Fresh, Evaluator
<1>2. Fresh(ask).ask = ask /\ Fresh(ask).step = "idle"
  BY DEF Fresh
<1> QED
  BY <1>1, <1>2 DEF PinnedOK, PrivateOK

LEMMA CkptStarts == CkptInit => CkptInv
<1> SUFFICES ASSUME CkptInit PROVE CkptInv
  OBVIOUS
<1> USE CheckpointAssumption
<1>1. PICK asks \in [Evaluators -> Ask] :
        /\ ranks => \A e, f \in Evaluators : asks[e] = asks[f]
        /\ evaluator = [e \in Evaluators |-> Fresh(asks[e])]
  BY DEF CkptInit
<1>2. \A e \in Evaluators : /\ evaluator[e] \in Evaluator
                            /\ evaluator[e].ask = asks[e] /\ evaluator[e].step = "idle"
  BY <1>1, FreshIsOK
<1>3. CkptTypeOK
  <2>1. evaluator \in [Evaluators -> Evaluator]
    BY <1>1, FreshIsOK
  <2>2. cachedCkpt \in [Bytes -> File] /\ remoteCkpt \in Checkpoints \cup {NoFile} /\ localCkpt \in File
    BY Files DEF CkptInit
  <2> QED
    BY <2>1, <2>2 DEF CkptInit, CkptTypeOK
<1> QED
  BY <1>1, <1>2, <1>3 DEF CkptInit, CkptInv, AskOK, PinnedOK, PrivateOK, CacheIsByContent

\* A step of one process that leaves the files alone.
LEMMA EvaluatorKeeps ==
  ASSUME CkptInv, NEW e \in Evaluators, NEW me \in Evaluator,
         evaluator' = [evaluator EXCEPT ![e] = me],
         UNCHANGED <<ranks, remoteCkpt, localCkpt>>,
         cachedCkpt' \in [Bytes -> File], damaged' \subseteq Bytes, CacheIsByContent',
         me.ask = evaluator[e].ask,
         ranks /\ me.step # "idle" => me.ask.pin # NoFile,
         PinnedOK(me), PrivateOK(me)
  PROVE  CkptInv'
<1>1. CkptTypeOK'
  BY DEF CkptInv, CkptTypeOK
<1>2. \A f \in Evaluators : evaluator'[f] = IF f = e THEN me ELSE evaluator[f]
  BY DEF CkptInv, CkptTypeOK
<1>3. AskOK'
  BY <1>2 DEF CkptInv, AskOK
<1>4. ASSUME NEW f \in Evaluators
      PROVE  PinnedOK(evaluator'[f]) /\ PrivateOK(evaluator'[f])
  BY <1>2 DEF CkptInv
<1>5. \A f \in Evaluators : (PinnedOK(evaluator[f]) /\ PrivateOK(evaluator[f]))'
  BY <1>4 DEF PinnedOK, PrivateOK
<1> QED
  BY <1>1, <1>3, <1>5 DEF CkptInv

LEMMA FailingKeeps ==
  ASSUME CkptInv, NEW e \in Evaluators, EvaluatorFails(e),
         UNCHANGED <<ranks, remoteCkpt, localCkpt, cachedCkpt, damaged>>
  PROVE  CkptInv'
<1>1. evaluator[e].ask \in Ask
  BY DEF CkptInv, CkptTypeOK, Evaluator
<1>2. cachedCkpt' \in [Bytes -> File] /\ damaged' \subseteq Bytes /\ CacheIsByContent'
  BY DEF CkptInv, CkptTypeOK, CacheIsByContent
<1> QED
  BY <1>1, <1>2, FreshIsOK, EvaluatorKeeps DEF EvaluatorFails

LEMMA LoadedByIsOK ==
  ASSUME NEW me \in Evaluator, NEW b \in Bytes,
         IF me.ask.pin = NoFile THEN b \in me.seen ELSE b = me.ask.pin
  PROVE  /\ LoadedBy(me, b) \in Evaluator /\ LoadedBy(me, b).ask = me.ask
         /\ PinnedOK(LoadedBy(me, b)) /\ PrivateOK(LoadedBy(me, b))
<1>1. /\ LoadedBy(me, b).ask = me.ask /\ LoadedBy(me, b).step = "loaded"
      /\ LoadedBy(me, b).loaded = b /\ LoadedBy(me, b).seen = me.seen
  BY DEF LoadedBy, Fresh
<1>2. me.ask \in Ask /\ me.seen \in SUBSET Checkpoints
  BY DEF Evaluator
<1>3. Fresh(me.ask) \in Evaluator /\ b \in File
  BY <1>2, FreshIsOK, Files
<1>4. LoadedBy(me, b) \in Evaluator
  BY <1>2, <1>3 DEF LoadedBy, Evaluator
<1> QED
  BY <1>1, <1>4 DEF PinnedOK, PrivateOK

\* One step per operation of a process.
LEMMA EvaluatorSteps ==
  ASSUME CkptInv, NEW e \in Evaluators,
         \/ Localize(e) \/ LookUpSize(e) \/ \E b \in Bytes : Download(e, b)
         \/ LockDigest(e) \/ CacheHit(e) \/ CacheMiss(e) \/ PublishCkpt(e) \/ EvaluatorEnds(e)
  PROVE  CkptInv'
<1> DEFINE me == evaluator[e]
<1> USE CheckpointAssumption
<1>0. /\ me \in Evaluator /\ me.ask \in Ask /\ me.tries \in 0 .. Downloads
      /\ PinnedOK(me) /\ PrivateOK(me)
      /\ ranks /\ me.step # "idle" => me.ask.pin # NoFile
      /\ remoteCkpt \in Checkpoints \cup {NoFile} /\ localCkpt \in File
      /\ cachedCkpt \in [Bytes -> File] /\ damaged \subseteq Bytes /\ CacheIsByContent
  BY DEF CkptInv, CkptTypeOK, Evaluator, AskOK
<1>a. UNCHANGED <<cachedCkpt, damaged>> =>
        cachedCkpt' \in [Bytes -> File] /\ damaged' \subseteq Bytes /\ CacheIsByContent'
  BY <1>0 DEF CacheIsByContent
<1> HIDE DEF me
<1>1. CASE Localize(e)
  <2> DEFINE new == [Fresh(me.ask) EXCEPT !.step = IF me.ask.pin = NoFile THEN "size" ELSE "key",
                       !.staging = me.ask.pin,
                       !.seen = IF me.ask.pin = NoFile THEN {remoteCkpt} \ {NoFile} ELSE {}]
  <2>1. /\ evaluator' = [evaluator EXCEPT ![e] = new]
        /\ UNCHANGED <<ranks, remoteCkpt, localCkpt, cachedCkpt, damaged>>
    BY <1>1 DEF Localize, me
  <2>2. new \in Evaluator /\ new.ask = me.ask
    <3>1. /\ (IF me.ask.pin = NoFile THEN {remoteCkpt} \ {NoFile} ELSE {}) \in SUBSET Checkpoints
          /\ me.ask.pin \in File
      BY <1>0, AskIs
    <3>2. Fresh(me.ask) \in Evaluator /\ Fresh(me.ask).ask = me.ask
      BY <1>0, FreshIsOK
    <3> QED
      BY <3>1, <3>2 DEF Evaluator
  <2>3. ranks => me.ask.pin # NoFile
    <3>1. me.ask = [from |-> me.ask.from, pin |-> me.ask.pin] /\ me.ask.from \in {"remote", "local"}
      BY <1>0 DEF Ask
    <3> QED
      BY <1>1, <3>1 DEF Localize, Refused, me
  <2>4. PinnedOK(new) /\ PrivateOK(new)
    BY <1>0 DEF Fresh, PinnedOK, PrivateOK
  <2> QED
    BY <2>1, <2>2, <2>3, <2>4, <1>a, EvaluatorKeeps DEF me
<1>2. CASE LookUpSize(e)
  <2>1. CASE remoteCkpt = NoFile
    BY <1>2, <2>1, FailingKeeps DEF LookUpSize
  <2>2. CASE remoteCkpt # NoFile
    <3> DEFINE new == [me EXCEPT !.step = "download", !.sized = remoteCkpt]
    <3>1. /\ evaluator' = [evaluator EXCEPT ![e] = new]
          /\ UNCHANGED <<ranks, remoteCkpt, localCkpt, cachedCkpt, damaged>> /\ me.step = "size"
      BY <1>2, <2>2 DEF LookUpSize, me
    <3>2. new \in Evaluator /\ new.ask = me.ask
      BY <1>0 DEF Evaluator, File, Bytes
    <3>3. PinnedOK(new) /\ PrivateOK(new)
      BY <1>0, <3>1 DEF Evaluator, PinnedOK, PrivateOK
    <3> QED
      BY <1>0, <3>1, <3>2, <3>3, <1>a, EvaluatorKeeps DEF me
  <2> QED
    BY <2>1, <2>2
<1>3. ASSUME NEW b \in Bytes, Download(e, b) PROVE CkptInv'
  <2>0. /\ UNCHANGED <<ranks, remoteCkpt, localCkpt, cachedCkpt, damaged>>
        /\ me.step = "download" /\ b \in {remoteCkpt, Torn} \ {NoFile}
    BY <1>3 DEF Download, me
  <2>1. CASE EvaluatorFails(e)
    BY <2>0, <2>1, FailingKeeps
  <2>2. CASE b \in Checkpoints /\ evaluator' = [evaluator EXCEPT ![e] =
                 [me EXCEPT !.staging = b, !.sized = NoFile, !.tries = 0,
                            !.step = IF me.ask.pin = NoFile THEN "key" ELSE "publish"]]
    <3> DEFINE new == [me EXCEPT !.staging = b, !.sized = NoFile, !.tries = 0,
                            !.step = IF me.ask.pin = NoFile THEN "key" ELSE "publish"]
    <3>1. new \in Evaluator /\ new.ask = me.ask
      <4>1. b \in File
        BY Files
      <4> QED
        BY <1>0, <4>1, Files DEF Evaluator
    <3>2. me.ask.pin = NoFile => b \in me.seen
      BY <1>0, <2>0, <2>2 DEF PrivateOK
    <3>3. PinnedOK(new) /\ PrivateOK(new)
      BY <1>0, <2>0, <3>2 DEF Evaluator, PinnedOK, PrivateOK
    <3> QED
      BY <1>0, <2>0, <2>2, <3>1, <3>3, <1>a, EvaluatorKeeps DEF me
  <2>3. CASE me.tries + 1 < Downloads /\ evaluator' = [evaluator EXCEPT ![e] =
                 [me EXCEPT !.tries = @ + 1, !.sized = NoFile, !.step = "size"]]
    <3> DEFINE new == [me EXCEPT !.tries = @ + 1, !.sized = NoFile, !.step = "size"]
    <3>1. new \in Evaluator /\ new.ask = me.ask
      <4>1. me.tries + 1 \in 0 .. Downloads
        BY <1>0, <2>3
      <4> QED
        BY <1>0, <4>1, Files DEF Evaluator
    <3>2. PinnedOK(new) /\ PrivateOK(new)
      BY <1>0, <2>0 DEF Evaluator, PinnedOK, PrivateOK
    <3> QED
      BY <1>0, <2>0, <2>3, <3>1, <3>2, <1>a, EvaluatorKeeps DEF me
  <2> QED
    BY <1>3, <2>1, <2>2, <2>3 DEF Download, me
<1>4. CASE LockDigest(e)
  <2> DEFINE new == [me EXCEPT !.step = "cache", !.key = me.staging]
  <2>1. /\ evaluator' = [evaluator EXCEPT ![e] = new]
        /\ UNCHANGED <<ranks, remoteCkpt, localCkpt, cachedCkpt, damaged>> /\ me.step = "key"
    BY <1>4 DEF LockDigest, me
  <2>2. new \in Evaluator /\ new.ask = me.ask
    BY <1>0 DEF Evaluator, File, Bytes
  <2>3. PinnedOK(new) /\ PrivateOK(new)
    BY <1>0, <2>1 DEF Evaluator, PinnedOK, PrivateOK
  <2> QED
    BY <1>0, <2>1, <2>2, <2>3, <1>a, EvaluatorKeeps DEF me
<1>b. me.step \in {"cache", "publish"} =>
        me.key \in Bytes /\ (IF me.ask.pin = NoFile THEN me.key \in me.seen ELSE me.key = me.ask.pin)
  BY <1>0 DEF PinnedOK, PrivateOK, Evaluator, Ask, Bytes
<1>5. CASE CacheHit(e)
  <2>0. UNCHANGED <<ranks, remoteCkpt, localCkpt, cachedCkpt, damaged>> /\ me.step = "cache"
    BY <1>5 DEF CacheHit, me
  <2>1. CASE EvaluatorFails(e)
    BY <2>0, <2>1, FailingKeeps
  <2>2. CASE evaluator' = [evaluator EXCEPT ![e] = LoadedBy(me, me.key)]
    BY <1>0, <1>b, <2>0, <2>2, <1>a, LoadedByIsOK, EvaluatorKeeps DEF me
  <2> QED
    BY <1>5, <2>1, <2>2 DEF CacheHit, me
<1>6. CASE CacheMiss(e)
  <2>0. UNCHANGED <<ranks, remoteCkpt, localCkpt, cachedCkpt, damaged>> /\ me.step = "cache"
    BY <1>6 DEF CacheMiss, me
  <2>1. CASE EvaluatorFails(e)
    BY <2>0, <2>1, FailingKeeps
  <2>2. ASSUME NEW new \in Evaluator, new.ask = me.ask, new.key = me.key, new.seen = me.seen,
               evaluator' = [evaluator EXCEPT ![e] = new],
               \/ new.step = "publish" /\ (me.ask.pin = NoFile => new.staging = me.staging)
               \/ new.step = "size" /\ me.ask.pin # NoFile
        PROVE  CkptInv'
    <3>1. PinnedOK(new) /\ PrivateOK(new)
      BY <1>0, <2>0, <2>2 DEF PinnedOK, PrivateOK
    <3> QED
      BY <1>0, <2>0, <2>2, <3>1, <1>a, EvaluatorKeeps DEF me
  <2>3. CASE me.ask.pin = NoFile /\ EvaluatorAt(e, "publish")
    <3>1. evaluator' = [evaluator EXCEPT ![e] = [me EXCEPT !.step = "publish"]]
      BY <2>3 DEF EvaluatorAt, me
    <3> QED
      BY <1>0, <3>1, <2>2 DEF Evaluator
  <2>4. CASE me.ask.pin # NoFile /\ EvaluatorAt(e, "size")
    <3>1. evaluator' = [evaluator EXCEPT ![e] = [me EXCEPT !.step = "size"]]
      BY <2>4 DEF EvaluatorAt, me
    <3> QED
      BY <1>0, <2>4, <3>1, <2>2 DEF Evaluator
  <2>5. ASSUME me.ask.pin # NoFile, NEW b \in {localCkpt, Torn} \ {NoFile},
               evaluator' = [evaluator EXCEPT ![e] = [me EXCEPT !.step = "publish", !.staging = b]]
        PROVE  CkptInv'
    <3>1. b \in File
      BY <1>0 DEF File, Bytes
    <3>2. [me EXCEPT !.step = "publish", !.staging = b] \in Evaluator
      BY <1>0, <3>1 DEF Evaluator
    <3> QED
      BY <1>0, <2>5, <3>1, <3>2, <2>2 DEF Evaluator
  <2> QED
    <3>1. CASE me.ask.pin = NoFile /\ EvaluatorAt(e, "publish")
      BY <3>1, <2>3
    <3>2. CASE me.ask.pin # NoFile /\ EvaluatorAt(e, "size")
      BY <3>2, <2>4
    <3>3. CASE /\ me.ask.pin # NoFile
               /\ \E b \in {localCkpt, Torn} \ {NoFile} :
                    evaluator' = [evaluator EXCEPT ![e].step = "publish", ![e].staging = b]
      <4>1. PICK b \in {localCkpt, Torn} \ {NoFile} :
                    evaluator' = [evaluator EXCEPT ![e].step = "publish", ![e].staging = b]
        BY <3>3
      <4>2. evaluator' = [evaluator EXCEPT ![e] = [me EXCEPT !.step = "publish", !.staging = b]]
        BY <4>1 DEF me
      <4> QED
        BY <3>3, <4>2, <2>5
    <3> QED
      BY <1>6, <2>1, <3>1, <3>2, <3>3 DEF CacheMiss, me
<1>7. CASE PublishCkpt(e)
  <2>0. UNCHANGED <<ranks, remoteCkpt, localCkpt>> /\ me.step = "publish"
    BY <1>7 DEF PublishCkpt, me
  <2>1. CASE ~Verified(e)
    BY <1>7, <2>1, FailingKeeps DEF PublishCkpt
  <2>2. CASE Verified(e)
    <3>1. me.staging = me.key
      BY <1>0, <2>0, <2>2 DEF Verified, PinnedOK, PrivateOK, me
    <3>2. /\ cachedCkpt' = [cachedCkpt EXCEPT ![me.key] = me.key]
          /\ damaged' = damaged \ {me.key}
          /\ evaluator' = [evaluator EXCEPT ![e] = LoadedBy(me, me.key)]
      BY <1>7, <2>2, <3>1 DEF PublishCkpt, me
    <3>3. cachedCkpt' \in [Bytes -> File] /\ damaged' \subseteq Bytes /\ CacheIsByContent'
      BY <1>0, <1>b, <2>0, <3>2 DEF CacheIsByContent, File
    <3> QED
      BY <1>0, <1>b, <2>0, <3>2, <3>3, LoadedByIsOK, EvaluatorKeeps DEF me
  <2> QED
    BY <2>1, <2>2
<1>8. CASE EvaluatorEnds(e)
  BY <1>8, FailingKeeps DEF EvaluatorEnds
<1> QED
  BY <1>1, <1>2, <1>3, <1>4, <1>5, <1>6, <1>7, <1>8

\* What happens around the processes.
LEMMA ReplaceRemoteKeeps ==
  ASSUME CkptInv, NEW b \in Checkpoints \cup {NoFile}, ReplaceRemote(b)
  PROVE  CkptInv'
<1> DEFINE new(me) == [me EXCEPT !.seen = @ \cup ({b} \ {NoFile})]
<1>1. ASSUME NEW me \in Evaluator
      PROVE  /\ new(me) \in Evaluator /\ new(me).ask = me.ask /\ new(me).step = me.step
             /\ new(me).key = me.key /\ new(me).staging = me.staging
             /\ new(me).loaded = me.loaded /\ new(me).seen = me.seen \cup ({b} \ {NoFile})
  BY DEF Evaluator
<1>2. \A e \in Evaluators :
        /\ evaluator[e] \in Evaluator
        /\ evaluator'[e] = IF evaluator[e].step \in {"idle", "loaded"} \/ evaluator[e].ask.pin # NoFile
                           THEN evaluator[e] ELSE new(evaluator[e])
  BY DEF CkptInv, CkptTypeOK, ReplaceRemote
<1>3. CkptTypeOK'
  BY <1>1, <1>2 DEF CkptInv, CkptTypeOK, ReplaceRemote
<1> HIDE DEF new
<1>4. AskOK'
  BY <1>1, <1>2 DEF CkptInv, AskOK, ReplaceRemote
<1>5. ASSUME NEW e \in Evaluators PROVE PinnedOK(evaluator[e])' /\ PrivateOK(evaluator[e])'
  BY <1>1, <1>2 DEF CkptInv, PinnedOK, PrivateOK, ReplaceRemote
<1> QED
  BY <1>3, <1>4, <1>5 DEF CkptInv, CacheIsByContent, ReplaceRemote

LEMMA CkptStep == CkptInv /\ [CkptNext]_ckptVars => CkptInv'
<1> SUFFICES ASSUME CkptInv, [CkptNext]_ckptVars PROVE CkptInv'
  OBVIOUS
<1>1. ASSUME NEW b \in Checkpoints \cup {NoFile}, ReplaceLocal(b) PROVE CkptInv'
  BY <1>1 DEF ReplaceLocal, CkptInv, CkptTypeOK, AskOK, PinnedOK, PrivateOK, CacheIsByContent,
              File, Bytes
<1>2. ASSUME NEW d \in Bytes, DamageCached(d) PROVE CkptInv'
  BY <1>2 DEF DamageCached, CkptInv, CkptTypeOK, AskOK, PinnedOK, PrivateOK, CacheIsByContent,
              File, Bytes
<1>3. CASE UNCHANGED ckptVars
  BY <1>3 DEF ckptVars, CkptInv, CkptTypeOK, AskOK, PinnedOK, PrivateOK, CacheIsByContent
<1> QED
  BY <1>1, <1>2, <1>3, EvaluatorSteps, ReplaceRemoteKeeps DEF CkptNext

\* Whatever is replaced, damaged or cut off meanwhile, an evaluation loads the
\* bytes it asked for, and no file lies under another digest than its own; for
\* any number of processes, checkpoints and tries.
THEOREM EvaluationLoadsWhatItAsked == CkptSpec => []CheckpointIsTheOneAsked
<1>1. CkptInv => LoadsWhatItAsked
  BY DEF CkptInv, AskOK, PinnedOK, PrivateOK, LoadsWhatItAsked
<1>2. CkptInv => CheckpointIsTheOneAsked
  BY <1>1 DEF CkptInv, CheckpointIsTheOneAsked
<1> QED
  BY <1>2, CkptStarts, CkptStep, PTL DEF CkptSpec

-----------------------------------------------------------------------------
(***************************************************************************)
(* Resume caches of embedding jobs.                                        *)
(***************************************************************************)

\* What the batches of a column are of, as the column says.
ColumnsKept ==
  \A e \in Embeddings : table.columns[e] # NoColumn =>
    \A b \in 1 .. NumBatches :
      /\ table.columns[e].batches[b].artifact = table.columns[e].artifact
      /\ table.columns[e].batches[b].rows = table.columns[e].rows

\* A cache that is identified holds batches of that artifact and of the rows of
\* that version, as far as the dataset and the job can tell them.
CacheKept(p) ==
  sidecars[p] # NoIdentity =>
    /\ sidecars[p].version <= table.version
    /\ cacheFiles[p] # NoCache =>
         \A b \in 1 .. Len(cacheFiles[p]) :
           /\ cacheFiles[p][b].artifact = sidecars[p].artifact
           /\ sidecars[p].version = table.version => cacheFiles[p][b].rows = table.rows
           /\ embedJob # NoJob /\ sidecars[p].version = embedJob.version =>
                cacheFiles[p][b].rows = embedJob.rows

CachesKept == \A p \in CachePath : CacheKept(p)

\* A job has the batches of its own artifact and rows, and encodes over a cache
\* that is identified as its own.
JobKept ==
  embedJob # NoJob =>
    /\ embedJob.version <= table.version
    /\ embedJob.version = table.version => embedJob.rows = table.rows
    /\ \A b \in 1 .. Len(embedJob.batches) :
         /\ embedJob.batches[b].artifact = embedJob.request.artifact
         /\ embedJob.batches[b].rows = embedJob.rows
    /\ embedJob.step = "encode" /\ embedJob.request.cached =>
         sidecars[PathOf(embedJob)] = IdentityOf(embedJob)

\* An embedding of the request is written, or is in a pass from i on.
Covered(e, job, i) ==
  \/ e \in table.legacy
  \/ table.columns[e] # NoColumn /\ table.columns[e].artifact = job.request.artifact
  \/ \E k \in i .. Len(job.passes) : e \in job.passes[k]

\* The first of the passes that are not committed.
Uncommitted(job) == IF job.step \in {"delete cache", "delete identity"} THEN 2 ELSE 1

JobCovers ==
  embedJob # NoJob =>
    /\ \A e \in embedJob.request.selection : Covered(e, embedJob, Uncommitted(embedJob))
    /\ embedJob.step \in {"index", "done"} => embedJob.passes = <<>>
    /\ embedJob.step = "done" => Unindexed(embedJob) = {}

EmbedInv == EmbedTypeOK /\ ColumnsKept /\ CachesKept /\ JobKept /\ JobCovers

\* A finite set in some order: nothing is lost.
LEMMA Listed ==
  ASSUME NEW S, IsFiniteSet(S)
  PROVE  /\ Cardinality(S) \in Nat
         /\ Seqs!SetToSeq(S) \in [1 .. Cardinality(S) -> S]
         /\ \A x \in S : \E i \in 1 .. Cardinality(S) : Seqs!SetToSeq(S)[i] = x
<1> DEFINE n == Cardinality(S)
           q == Seqs!SetToSeq(S)
<1>1. n \in Nat /\ ExistsBijection(1 .. n, S)
  BY FS_CardinalityType
<1>2. PICK f \in [1 .. n -> S] : \A i, j \in 1 .. n : f[i] = f[j] => i = j
  BY <1>1 DEF ExistsBijection, Bijection, Injection, IsInjective
<1>3. q \in [1 .. n -> S] /\ \A i, j \in 1 .. n : q[i] = q[j] => i = j
  <2>1. Seqs!Cardinality(S) = n
    BY Zenon DEF Seqs!Cardinality, Cardinality
  <2>2. f \in [1 .. n -> S] /\ Seqs!IsInjective(f)
    BY <1>2 DEF Seqs!IsInjective
  <2>3. q = CHOOSE g \in [1 .. n -> S] : Seqs!IsInjective(g)
    BY <2>1, Zenon DEF Seqs!SetToSeq
  <2>4. q \in [1 .. n -> S] /\ Seqs!IsInjective(q)
    BY <2>2, <2>3, Zenon
  <2> HIDE DEF q
  <2> QED
    BY <2>4 DEF Seqs!IsInjective
<1> HIDE DEF q
<1>4. q \in Injection(1 .. n, S)
  BY <1>3 DEF Injection, IsInjective
<1>5. IsFiniteSet(1 .. n) /\ Cardinality(1 .. n) = n
  BY <1>1, FS_Interval
<1>6. q \in Surjection(1 .. n, S)
  BY <1>4, <1>5, FS_Injection
<1>7. \A x \in S : \E i \in 1 .. n : q[i] = x
  BY <1>6 DEF Surjection
<1> QED
  BY <1>1, <1>3, <1>7 DEF q

\* The passes of a job are sets of embeddings, and none is left out.
LEMMA PassesCover ==
  ASSUME NEW pending \in SUBSET Embeddings
  PROVE  /\ Passes(pending) \in Seq(SUBSET Embeddings)
         /\ \A e \in pending : \E i \in 1 .. Len(Passes(pending)) : e \in Passes(pending)[i]
<1> DEFINE together == pending \cap CoResident
           rest == pending \ CoResident
           n == Cardinality(rest)
           alone == Seqs!SetToSeq(rest)
           one == IF together = {} THEN <<>> ELSE <<together>>
           singles == [i \in DOMAIN alone |-> {alone[i]}]
<1>1. /\ n \in Nat /\ alone \in [1 .. n -> rest]
      /\ \A x \in rest : \E i \in 1 .. n : alone[i] = x
  <2>1. IsFiniteSet(rest)
    BY FS_Subset, EmbedAssumption
  <2> QED
    BY <2>1, Listed
<1> HIDE DEF alone, n
<1>2. /\ singles \in Seq(SUBSET Embeddings) /\ Len(singles) = n
      /\ \A i \in 1 .. n : singles[i] = {alone[i]}
  <2>1. singles \in [1 .. n -> SUBSET Embeddings]
    BY <1>1
  <2>2. singles \in Seq(SUBSET Embeddings)
    BY <1>1, <2>1, SeqDef, Zenon
  <2>3. Len(singles) = n
    <3>1. DOMAIN singles = 1 .. n
      BY <1>1
    <3> QED
      BY <1>1, <2>2, <3>1, LenProperties
  <2> QED
    BY <1>1, <2>2, <2>3
<1>3. one \in Seq(SUBSET Embeddings) /\ (together # {} => Len(one) = 1 /\ one[1] = together)
  <2>1. CASE together = {}
    BY <2>1, EmptySeq
  <2>2. CASE together # {}
    <3>1. together \in SUBSET Embeddings
      BY EmbedAssumption
    <3> HIDE DEF together
    <3>2. <<together>> \in Seq(SUBSET Embeddings) /\ Len(<<together>>) = 1 /\ <<together>>[1] = together
      BY <3>1
    <3> QED
      BY <2>2, <3>2
  <2> QED
    BY <2>1, <2>2
<1> HIDE DEF singles, one
<1>4. Passes(pending) = one \o singles
  BY DEF Passes, one, singles, alone
<1>5. /\ one \o singles \in Seq(SUBSET Embeddings)
      /\ Len(one \o singles) = Len(one) + Len(singles)
      /\ \A i \in 1 .. Len(one) + Len(singles) :
           (one \o singles)[i] = IF i <= Len(one) THEN one[i] ELSE singles[i - Len(one)]
  <2>1. ASSUME NEW T, NEW s1 \in Seq(T), NEW s2 \in Seq(T)
        PROVE  /\ s1 \o s2 \in Seq(T)
               /\ Len(s1 \o s2) = Len(s1) + Len(s2)
               /\ \A i \in 1 .. Len(s1) + Len(s2) :
                    (s1 \o s2)[i] = IF i <= Len(s1) THEN s1[i] ELSE s2[i - Len(s1)]
    BY ConcatProperties
  <2>2. one \in Seq(SUBSET Embeddings) /\ singles \in Seq(SUBSET Embeddings)
    BY <1>2, <1>3
  <2> QED
    BY <2>1, <2>2
<1>6. ASSUME NEW e \in pending
      PROVE  \E i \in 1 .. Len(one \o singles) : e \in (one \o singles)[i]
  <2>0. Len(one) \in Nat
    BY <1>3, LenProperties
  <2>1. CASE e \in together
    <3>1. 1 \in 1 .. Len(one \o singles) /\ (one \o singles)[1] = together
      BY <1>1, <1>2, <1>3, <1>5, <2>1
    <3> QED
      BY <2>1, <3>1
  <2>2. CASE e \in rest
    <3>1. PICK i \in 1 .. n : alone[i] = e
      BY <1>1, <2>2
    <3>2. Len(one) + i \in 1 .. Len(one \o singles) /\ (one \o singles)[Len(one) + i] = singles[i]
      BY <1>1, <1>2, <1>5, <2>0, <3>1
    <3>3. e \in (one \o singles)[Len(one) + i]
      BY <1>2, <3>1, <3>2
    <3> QED
      BY <3>2, <3>3
  <2> QED
    BY <2>1, <2>2
<1> QED
  BY <1>4, <1>5, <1>6

LEMMA HeadIsFirst ==
  ASSUME NEW T, NEW s \in Seq(T), s # <<>>
  PROVE  Head(s) \in T /\ Head(s) = s[1]
<1>1. Len(s) \in Nat \ {0}
  BY EmptySeq
<1>2. Head(s) = s[1]
  BY <1>1
<1> QED
  BY <1>2, HeadTailProperties

\* What is at hand while a job has a pass.
LEMMA PassAtHand ==
  ASSUME EmbedTypeOK, embedJob # NoJob,
         embedJob.step \in {"prepare", "encode", "delete cache", "delete identity"}
  PROVE  /\ embedJob \in EmbedJob /\ embedJob.passes # <<>>
         /\ Head(embedJob.passes) \in SUBSET Embeddings
         /\ Head(embedJob.passes) = embedJob.passes[1]
         /\ PathOf(embedJob) \in CachePath
         /\ IdentityOf(embedJob) \in CacheIdentity
         /\ IdentityOf(embedJob).artifact = embedJob.request.artifact
         /\ IdentityOf(embedJob).version = embedJob.version
<1>1. embedJob \in EmbedJob /\ embedJob.passes # <<>>
  BY DEF EmbedTypeOK
<1>2. /\ embedJob.passes \in Seq(SUBSET Embeddings) /\ embedJob.version \in 1 .. MaxCommits
      /\ embedJob.request.artifact \in Artifacts
  BY <1>1 DEF EmbedJob, EmbedRequest
<1>3. Head(embedJob.passes) \in SUBSET Embeddings /\ Head(embedJob.passes) = embedJob.passes[1]
  <2> DEFINE T == SUBSET Embeddings
  <2>1. embedJob.passes \in Seq(T) /\ embedJob.passes # <<>>
    BY <1>1, <1>2
  <2> HIDE DEF T
  <2>2. Head(embedJob.passes) \in T /\ Head(embedJob.passes) = embedJob.passes[1]
    BY <2>1, HeadIsFirst
  <2> QED
    BY <2>2 DEF T
<1>4. PathOf(embedJob) \in CachePath
  BY <1>3 DEF PathOf, CachePath
<1>5. /\ IdentityOf(embedJob) \in CacheIdentity
      /\ IdentityOf(embedJob).artifact = embedJob.request.artifact
      /\ IdentityOf(embedJob).version = embedJob.version
  BY <1>2, <1>3 DEF IdentityOf, CacheIdentity
<1> QED
  BY <1>1, <1>3, <1>4, <1>5

LEMMA StartedJob ==
  ASSUME NEW j \in EmbedJob
  PROVE  /\ StartPasses(j) \in EmbedJob
         /\ StartPasses(j).request = j.request
         /\ StartPasses(j).version = j.version /\ StartPasses(j).rows = j.rows
         /\ StartPasses(j).passes = j.passes /\ StartPasses(j).batches = j.batches
         /\ StartPasses(j).step = IF j.passes = <<>> THEN "index" ELSE "prepare"
BY DEF StartPasses, EmbedJob

\* The next pass of a job has the others of its passes to write.
LEMMA NextPassFields ==
  ASSUME NEW j \in EmbedJob, j.passes # <<>>
  PROVE  /\ NextPass(j) \in EmbedJob
         /\ NextPass(j).request = j.request
         /\ NextPass(j).version = j.version /\ NextPass(j).rows = j.rows
         /\ NextPass(j).batches = <<>> /\ Len(NextPass(j).batches) = 0
         /\ NextPass(j).passes = Tail(j.passes)
         /\ NextPass(j).step = IF NextPass(j).passes = <<>> THEN "index" ELSE "prepare"
         /\ \A k \in 2 .. Len(j.passes) :
              k - 1 \in 1 .. Len(NextPass(j).passes) /\ NextPass(j).passes[k - 1] = j.passes[k]
<1> DEFINE moved == [j EXCEPT !.passes = Tail(@), !.batches = <<>>]
<1>0. j.passes \in Seq(SUBSET Embeddings)
  BY DEF EmbedJob
<1>1. /\ Tail(j.passes) \in Seq(SUBSET Embeddings)
      /\ Len(Tail(j.passes)) = Len(j.passes) - 1
      /\ \A k \in 1 .. Len(j.passes) - 1 : Tail(j.passes)[k] = j.passes[k + 1]
  BY <1>0, HeadTailProperties
<1>2. /\ moved \in EmbedJob /\ moved.request = j.request /\ moved.version = j.version
      /\ moved.rows = j.rows /\ moved.batches = <<>> /\ moved.passes = Tail(j.passes)
  <2>1. <<>> \in Seq(Batch)
    BY EmptySeq
  <2> QED
    BY <1>1, <2>1 DEF EmbedJob
<1> HIDE DEF moved
<1>3. NextPass(j) = StartPasses(moved)
  BY DEF NextPass, moved
<1>4. \A k \in 2 .. Len(j.passes) :
        k - 1 \in 1 .. Len(Tail(j.passes)) /\ Tail(j.passes)[k - 1] = j.passes[k]
  <2>1. Len(j.passes) \in Nat
    BY <1>0, LenProperties
  <2> QED
    BY <1>1, <2>1
<1>5. Len(NextPass(j).batches) = 0
  BY <1>2, <1>3, StartedJob, EmptySeq
<1>6. /\ NextPass(j) \in EmbedJob /\ NextPass(j).request = j.request
      /\ NextPass(j).version = j.version /\ NextPass(j).rows = j.rows
      /\ NextPass(j).batches = <<>> /\ NextPass(j).passes = Tail(j.passes)
      /\ NextPass(j).step = IF NextPass(j).passes = <<>> THEN "index" ELSE "prepare"
  BY <1>2, <1>3, StartedJob
<1> QED
  BY <1>4, <1>5, <1>6

LEMMA NoBatchYet ==
  ASSUME NEW n, n = 0
  PROVE  n <= NumBatches /\ \A b \in 1 .. n : FALSE
BY EmbedAssumption

LEMMA SteppedJob ==
  ASSUME NEW j \in EmbedJob,
         NEW s \in {"prepare", "encode", "delete cache", "delete identity", "index", "done"}
  PROVE  /\ [j EXCEPT !.step = s] \in EmbedJob
         /\ [j EXCEPT !.step = s].request = j.request
         /\ [j EXCEPT !.step = s].version = j.version /\ [j EXCEPT !.step = s].rows = j.rows
         /\ [j EXCEPT !.step = s].passes = j.passes /\ [j EXCEPT !.step = s].batches = j.batches
         /\ [j EXCEPT !.step = s].step = s
BY DEF EmbedJob

LEMMA EmbedInitKept == EmbedInit => EmbedInv
<1> SUFFICES ASSUME EmbedInit PROVE EmbedInv
  OBVIOUS
<1>1. PICK old \in {NoCache} \cup {<<[artifact |-> a, rows |-> 1]>> : a \in Artifacts} :
        cacheFiles = [p \in CachePath |-> IF p = {} THEN old ELSE NoCache]
  BY DEF EmbedInit
<1>2. /\ old \in Seq(Batch) \cup {NoCache}
      /\ old # NoCache => Len(old) <= NumBatches
  <2>1. ASSUME NEW a \in Artifacts, old = <<[artifact |-> a, rows |-> 1]>>
        PROVE  old \in Seq(Batch) /\ Len(old) <= NumBatches
    <3>1. [artifact |-> a, rows |-> 1] \in Batch
      BY EmbedAssumption DEF Batch
    <3> QED
      BY <2>1, <3>1, EmbedAssumption
  <2> QED
    BY <2>1
<1>3. EmbedTypeOK
  <2>1. /\ cacheFiles \in [CachePath -> Seq(Batch) \cup {NoCache}]
        /\ \A p \in CachePath : cacheFiles[p] # NoCache => Len(cacheFiles[p]) <= NumBatches
    BY <1>1, <1>2
  <2>2. table \in [version : 1 .. MaxCommits, rows : 1 .. MaxCommits,
                   columns : [Embeddings -> Column \cup {NoColumn}],
                   indexed : SUBSET Embeddings, legacy : SUBSET Embeddings]
    BY EmbedAssumption DEF EmbedInit
  <2>3. sidecars \in [CachePath -> CacheIdentity \cup {NoIdentity}] /\ embedJob = NoJob
    BY DEF EmbedInit
  <2> QED
    BY <2>1, <2>2, <2>3 DEF EmbedTypeOK
<1>4. ColumnsKept
  BY DEF EmbedInit, ColumnsKept
<1>5. CachesKept
  BY DEF EmbedInit, CachesKept, CacheKept
<1> QED
  BY <1>3, <1>4, <1>5 DEF EmbedInit, EmbedInv, JobKept, JobCovers

\* The dataset as it is typed.
LEMMA TableFields ==
  ASSUME EmbedTypeOK
  PROVE  /\ table.version \in 1 .. MaxCommits /\ table.rows \in 1 .. MaxCommits
         /\ table.columns \in [Embeddings -> Column \cup {NoColumn}]
         /\ table.indexed \in SUBSET Embeddings
         /\ \A p \in CachePath : sidecars[p] # NoIdentity =>
              sidecars[p].version \in Nat /\ sidecars[p].artifact \in Artifacts
         /\ embedJob # NoJob => embedJob \in EmbedJob /\ embedJob.version \in Nat
<1>1. \A p \in CachePath : sidecars[p] # NoIdentity => sidecars[p] \in CacheIdentity
  BY DEF EmbedTypeOK
<1>2. \A i \in CacheIdentity : i.version \in Nat /\ i.artifact \in Artifacts
  BY DEF CacheIdentity
<1>3. embedJob # NoJob => embedJob \in EmbedJob /\ embedJob.version \in Nat
  <2>1. ASSUME NEW j \in EmbedJob PROVE j.version \in Nat
    <3>1. j.version \in 1 .. MaxCommits
      BY DEF EmbedJob
    <3> QED
      BY <3>1, EmbedAssumption
  <2>2. embedJob # NoJob => embedJob \in EmbedJob
    BY DEF EmbedTypeOK
  <2> QED
    BY <2>1, <2>2, Zenon
<1>4. /\ table.version \in 1 .. MaxCommits /\ table.rows \in 1 .. MaxCommits
      /\ table.columns \in [Embeddings -> Column \cup {NoColumn}]
      /\ table.indexed \in SUBSET Embeddings
  BY DEF EmbedTypeOK
<1> QED
  BY <1>1, <1>2, <1>3, <1>4, Zenon

LEMMA RowsCommittedKept ==
  ASSUME EmbedInv, RowsCommitted PROVE EmbedInv'
<1> USE DEF EmbedInv
<1>1. /\ table.version < MaxCommits
      /\ table' = [table EXCEPT !.version = @ + 1, !.rows = table.version + 1]
      /\ cacheFiles' = cacheFiles /\ sidecars' = sidecars /\ embedJob' = embedJob
  BY DEF RowsCommitted
<1>2. /\ table' \in [version : 1 .. MaxCommits, rows : 1 .. MaxCommits,
                     columns : [Embeddings -> Column \cup {NoColumn}],
                     indexed : SUBSET Embeddings, legacy : SUBSET Embeddings]
      /\ table'.version = table.version + 1
      /\ table'.columns = table.columns /\ table'.indexed = table.indexed
      /\ table'.legacy = table.legacy
  <2>1. table.version + 1 \in 1 .. MaxCommits
    BY <1>1, TableFields, EmbedAssumption
  <2> QED
    BY <1>1, <2>1 DEF EmbedTypeOK
<1>3. EmbedTypeOK'
  BY <1>1, <1>2 DEF EmbedTypeOK
<1>4. ColumnsKept'
  BY <1>2 DEF ColumnsKept
<1>5. CachesKept'
  <2> SUFFICES ASSUME NEW p \in CachePath, sidecars[p] # NoIdentity
               PROVE  CacheKept(p)'
    BY <1>1 DEF CachesKept, CacheKept
  <2>1. sidecars[p].version <= table.version /\ sidecars[p].version \in Nat
    BY TableFields DEF CachesKept, CacheKept
  <2>2. sidecars[p].version <= table'.version /\ sidecars[p].version # table'.version
    BY <1>2, <2>1, TableFields
  <2> QED
    BY <1>1, <2>2 DEF CachesKept, CacheKept
<1>6. JobKept'
  <2> SUFFICES ASSUME embedJob # NoJob PROVE JobKept'
    BY <1>1 DEF JobKept
  <2>1. embedJob.version <= table'.version /\ embedJob.version # table'.version
    BY <1>2, TableFields DEF JobKept
  <2> QED
    BY <1>1, <2>1 DEF JobKept, PathOf, IdentityOf
<1>7. JobCovers'
  BY <1>1, <1>2 DEF JobCovers, Covered, Uncommitted, Unindexed
<1> QED
  BY <1>3, <1>4, <1>5, <1>6, <1>7

LEMMA StopKept ==
  ASSUME EmbedInv, EmbedStops, UNCHANGED <<table, cacheFiles, sidecars>> PROVE EmbedInv'
BY DEF EmbedInv, EmbedStops, EmbedTypeOK, ColumnsKept, CachesKept, CacheKept, JobKept, JobCovers

LEMMA LaunchEmbedKept ==
  ASSUME EmbedInv, NEW request \in JobRequests, LaunchEmbed(request) PROVE EmbedInv'
<1> USE DEF EmbedInv
<1> DEFINE fresh == [step |-> "prepare", request |-> request,
                     version |-> table.version, rows |-> table.rows,
                     passes |-> Passes(Missing(request)), batches |-> <<>>]
<1>1. /\ embedJob' = StartPasses(fresh) /\ embedJob = NoJob /\ Compatible(request)
      /\ table' = table /\ cacheFiles' = cacheFiles /\ sidecars' = sidecars
  BY DEF LaunchEmbed
<1>2. request \in EmbedRequest /\ request.selection \in SUBSET Embeddings
  BY EmbedAssumption DEF EmbedRequest
<1>3. Missing(request) \in SUBSET Embeddings
  BY <1>2 DEF Missing
<1>4. fresh \in EmbedJob
  <2>1. Passes(Missing(request)) \in Seq(SUBSET Embeddings)
    BY <1>3, PassesCover, Zenon
  <2>2. <<>> \in Seq(Batch)
    BY EmptySeq
  <2>3. table.version \in 1 .. MaxCommits /\ table.rows \in 1 .. MaxCommits
    BY TableFields
  <2> QED
    BY <1>2, <2>1, <2>2, <2>3 DEF EmbedJob
<1>5. /\ fresh.request = request /\ fresh.version = table.version /\ fresh.rows = table.rows
      /\ fresh.passes = Passes(Missing(request)) /\ fresh.batches = <<>>
  OBVIOUS
<1> HIDE DEF fresh
<1>6. /\ embedJob' \in EmbedJob
      /\ embedJob'.request = request
      /\ embedJob'.version = table.version /\ embedJob'.rows = table.rows
      /\ embedJob'.passes = Passes(Missing(request)) /\ embedJob'.batches = <<>>
      /\ embedJob'.step = IF embedJob'.passes = <<>> THEN "index" ELSE "prepare"
  BY <1>1, <1>4, <1>5, StartedJob
<1>7. Len(embedJob'.batches) = 0
  BY <1>6, EmptySeq
<1>8. EmbedTypeOK'
  <2>1. Len(embedJob'.batches) <= NumBatches
    BY <1>7, EmbedAssumption
  <2>2. embedJob'.step \in {"prepare", "encode", "delete cache", "delete identity"} =>
          embedJob'.passes # <<>>
    BY <1>6
  <2> QED
    BY <1>1, <1>6, <2>1, <2>2 DEF EmbedTypeOK
<1>9. ColumnsKept'
  BY <1>1 DEF ColumnsKept
<1>10. CachesKept'
  <2>1. embedJob'.version = table'.version /\ embedJob'.rows = table'.rows
    BY <1>1, <1>6
  <2> QED
    BY <1>1, <2>1 DEF CachesKept, CacheKept
<1>11. JobKept'
  <2>1. embedJob'.version <= table'.version
    BY <1>1, <1>6, TableFields
  <2>2. embedJob'.step # "encode"
    BY <1>6
  <2>3. \A b \in 1 .. Len(embedJob'.batches) : FALSE
    BY <1>7
  <2> QED
    BY <1>1, <1>6, <2>1, <2>2, <2>3 DEF JobKept
<1>12. JobCovers'
  <2>1. Uncommitted(embedJob') = 1 /\ embedJob'.step # "done"
        /\ (embedJob'.step \in {"index", "done"} => embedJob'.passes = <<>>)
    BY <1>6 DEF Uncommitted
  <2>2. ASSUME NEW e \in request.selection
        PROVE  \/ e \in table.legacy
               \/ table.columns[e] # NoColumn /\ table.columns[e].artifact = request.artifact
               \/ \E k \in 1 .. Len(embedJob'.passes) : e \in embedJob'.passes[k]
    <3>1. CASE e \in Missing(request)
      <4>1. \E k \in 1 .. Len(Passes(Missing(request))) : e \in Passes(Missing(request))[k]
        BY <1>3, <3>1, PassesCover, Zenon
      <4> QED
        BY <1>6, <4>1
    <3>2. CASE e \notin Missing(request)
      BY <1>1, <3>2 DEF Compatible, Missing
    <3> QED
      BY <3>1, <3>2
  <2>3. \A e \in request.selection : Covered(e, embedJob, 1)'
    BY <1>1, <1>6, <2>2 DEF Covered
  <2> QED
    BY <1>6, <2>1, <2>3 DEF JobCovers, Uncommitted
<1> QED
  BY <1>8, <1>9, <1>10, <1>11, <1>12

\* A job that is prepared encodes the same pass; its cache holds what it says.
LEMMA PreparedKept ==
  ASSUME EmbedInv, Preparing, EmbedAt("encode"), table' = table,
         cacheFiles' \in [CachePath -> Seq(Batch) \cup {NoCache}],
         \A p \in CachePath : cacheFiles'[p] # NoCache => Len(cacheFiles'[p]) <= NumBatches,
         sidecars' \in [CachePath -> CacheIdentity \cup {NoIdentity}],
         \A p \in CachePath : \/ sidecars'[p] = sidecars[p] /\ cacheFiles'[p] = cacheFiles[p]
                              \/ sidecars'[p] = IdentityOf(embedJob) /\ cacheFiles'[p] = NoCache,
         embedJob.request.cached => sidecars'[PathOf(embedJob)] = IdentityOf(embedJob)
  PROVE  EmbedInv'
<1> USE DEF EmbedInv
<1>1. /\ embedJob # NoJob /\ embedJob.step = "prepare"
      /\ embedJob \in EmbedJob /\ embedJob.passes # <<>>
  BY PassAtHand DEF Preparing
<1>2. /\ embedJob' \in EmbedJob /\ embedJob'.request = embedJob.request
      /\ embedJob'.version = embedJob.version /\ embedJob'.rows = embedJob.rows
      /\ embedJob'.passes = embedJob.passes /\ embedJob'.batches = embedJob.batches
      /\ embedJob'.step = "encode"
  BY <1>1, SteppedJob DEF EmbedAt
<1>3. EmbedTypeOK'
  <2>1. Len(embedJob'.batches) <= NumBatches /\ embedJob'.passes # <<>>
    BY <1>1, <1>2 DEF EmbedTypeOK
  <2> QED
    BY <1>2, <2>1 DEF EmbedTypeOK
<1>4. ColumnsKept'
  BY DEF ColumnsKept
<1>5. CachesKept'
  <2> SUFFICES ASSUME NEW p \in CachePath PROVE CacheKept(p)'
    BY DEF CachesKept
  <2>1. CASE sidecars'[p] = sidecars[p] /\ cacheFiles'[p] = cacheFiles[p]
    BY <1>1, <1>2, <2>1 DEF CachesKept, CacheKept
  <2>2. CASE sidecars'[p] = IdentityOf(embedJob) /\ cacheFiles'[p] = NoCache
    <3>1. IdentityOf(embedJob).version <= table.version
      BY <1>1, PassAtHand DEF JobKept
    <3> QED
      BY <2>2, <3>1 DEF CacheKept
  <2> QED
    BY <2>1, <2>2
<1>6. JobKept'
  <2>1. PathOf(embedJob') = PathOf(embedJob) /\ IdentityOf(embedJob') = IdentityOf(embedJob)
    BY <1>2 DEF PathOf, IdentityOf
  <2> QED
    BY <1>1, <1>2, <2>1 DEF JobKept
<1>7. JobCovers'
  BY <1>1, <1>2 DEF JobCovers, Covered, Uncommitted
<1> QED
  BY <1>3, <1>4, <1>5, <1>6, <1>7

LEMMA PreparesKept ==
  ASSUME EmbedInv, PrepareNoCache \/ PrepareFresh \/ PrepareExisting PROVE EmbedInv'
<1> USE DEF EmbedInv
<1>0. /\ cacheFiles \in [CachePath -> Seq(Batch) \cup {NoCache}]
      /\ \A p \in CachePath : cacheFiles[p] # NoCache => Len(cacheFiles[p]) <= NumBatches
      /\ sidecars \in [CachePath -> CacheIdentity \cup {NoIdentity}]
  BY DEF EmbedTypeOK
<1>1. CASE PrepareNoCache
  BY <1>0, <1>1, PreparedKept DEF PrepareNoCache
<1>2. CASE PrepareFresh
  <2> DEFINE p == PathOf(embedJob)
  <2>1. /\ p \in CachePath /\ IdentityOf(embedJob) \in CacheIdentity
        /\ cacheFiles' = [cacheFiles EXCEPT ![p] = NoCache]
        /\ sidecars' = [sidecars EXCEPT ![p] = IdentityOf(embedJob)]
        /\ Preparing /\ EmbedAt("encode") /\ table' = table
    BY <1>2, PassAtHand DEF PrepareFresh, Preparing
  <2> HIDE DEF p
  <2>2. /\ cacheFiles' \in [CachePath -> Seq(Batch) \cup {NoCache}]
        /\ \A q \in CachePath : cacheFiles'[q] = IF q = p THEN NoCache ELSE cacheFiles[q]
    BY <1>0, <2>1
  <2>3. /\ sidecars' \in [CachePath -> CacheIdentity \cup {NoIdentity}]
        /\ \A q \in CachePath :
             sidecars'[q] = IF q = p THEN IdentityOf(embedJob) ELSE sidecars[q]
    BY <1>0, <2>1
  <2>4. /\ \A q \in CachePath : cacheFiles'[q] # NoCache => Len(cacheFiles'[q]) <= NumBatches
        /\ \A q \in CachePath : \/ sidecars'[q] = sidecars[q] /\ cacheFiles'[q] = cacheFiles[q]
                                \/ sidecars'[q] = IdentityOf(embedJob) /\ cacheFiles'[q] = NoCache
        /\ sidecars'[PathOf(embedJob)] = IdentityOf(embedJob)
    BY <1>0, <2>1, <2>2, <2>3 DEF p
  <2> QED
    BY <2>1, <2>2, <2>3, <2>4, PreparedKept
<1>3. CASE PrepareExisting
  <2>1. CASE sidecars[PathOf(embedJob)] = IdentityOf(embedJob)
    BY <1>0, <1>3, <2>1, PreparedKept DEF PrepareExisting
  <2>2. CASE sidecars[PathOf(embedJob)] # IdentityOf(embedJob)
    BY <1>3, <2>2, StopKept DEF PrepareExisting
  <2> QED
    BY <2>1, <2>2
<1> QED
  BY <1>1, <1>2, <1>3

\* The resume cache of a job that encodes is of its artifact and rows.
LEMMA CacheOfJob ==
  ASSUME EmbedInv, Encoding
  PROVE  /\ embedJob # NoJob /\ embedJob.step = "encode"
         /\ embedJob \in EmbedJob /\ embedJob.batches \in Seq(Batch)
         /\ Len(embedJob.batches) \in Nat /\ Len(embedJob.batches) < NumBatches
         /\ PathOf(embedJob) \in CachePath
         /\ embedJob.request.cached =>
              /\ sidecars[PathOf(embedJob)] # NoIdentity
              /\ sidecars[PathOf(embedJob)].artifact = embedJob.request.artifact
              /\ sidecars[PathOf(embedJob)].version = embedJob.version
         /\ Cached(embedJob) \in Seq(Batch) /\ Len(Cached(embedJob)) \in Nat
         /\ DOMAIN Cached(embedJob) = 1 .. Len(Cached(embedJob))
         /\ \A b \in 1 .. Len(Cached(embedJob)) :
              /\ Cached(embedJob)[b].artifact = embedJob.request.artifact
              /\ Cached(embedJob)[b].rows = embedJob.rows
<1> USE DEF EmbedInv
<1>1. /\ embedJob # NoJob /\ embedJob.step = "encode" /\ Len(embedJob.batches) < NumBatches
      /\ embedJob \in EmbedJob /\ PathOf(embedJob) \in CachePath
      /\ IdentityOf(embedJob) \in CacheIdentity
      /\ IdentityOf(embedJob).artifact = embedJob.request.artifact
      /\ IdentityOf(embedJob).version = embedJob.version
  BY PassAtHand DEF Encoding
<1>2. embedJob.batches \in Seq(Batch)
  BY <1>1 DEF EmbedJob
<1>3. Len(embedJob.batches) \in Nat
  BY <1>2, LenProperties
<1>4. embedJob.request.cached =>
        /\ sidecars[PathOf(embedJob)] # NoIdentity
        /\ sidecars[PathOf(embedJob)].artifact = embedJob.request.artifact
        /\ sidecars[PathOf(embedJob)].version = embedJob.version
  BY <1>1, EmbedAssumption DEF JobKept
<1> DEFINE p == PathOf(embedJob)
<1>5. /\ Cached(embedJob) \in Seq(Batch)
      /\ \A b \in 1 .. Len(Cached(embedJob)) :
           /\ Cached(embedJob)[b].artifact = embedJob.request.artifact
           /\ Cached(embedJob)[b].rows = embedJob.rows
  <2>1. CASE embedJob.request.cached /\ cacheFiles[p] # NoCache
    <3>1. Cached(embedJob) = cacheFiles[p]
      BY <2>1 DEF Cached
    <3>2. cacheFiles[p] \in Seq(Batch)
      BY <1>1, <2>1 DEF EmbedTypeOK
    <3>3. CacheKept(p)
      BY <1>1 DEF CachesKept
    <3> QED
      BY <1>1, <1>4, <2>1, <3>1, <3>2, <3>3 DEF CacheKept
  <2>2. CASE ~(embedJob.request.cached /\ cacheFiles[p] # NoCache)
    <3>1. Cached(embedJob) = <<>>
      BY <2>2 DEF Cached
    <3> QED
      BY <3>1, EmptySeq
  <2> QED
    BY <2>1, <2>2
<1>6. /\ Len(Cached(embedJob)) \in Nat
      /\ DOMAIN Cached(embedJob) = 1 .. Len(Cached(embedJob))
  BY <1>5, LenProperties
<1> QED
  BY <1>1, <1>2, <1>3, <1>4, <1>5, <1>6

\* One more batch of its own artifact and rows, in the job and perhaps its cache.
LEMMA BatchTakenKept ==
  ASSUME EmbedInv, Encoding, NEW c \in Batch,
         c.artifact = embedJob.request.artifact, c.rows = embedJob.rows,
         embedJob' = [embedJob EXCEPT !.batches = Append(@, c)],
         table' = table, sidecars' = sidecars,
         cacheFiles' \in [CachePath -> Seq(Batch) \cup {NoCache}],
         \A p \in CachePath : cacheFiles'[p] # NoCache => Len(cacheFiles'[p]) <= NumBatches,
         \A p \in CachePath :
           \/ cacheFiles'[p] = cacheFiles[p]
           \/ /\ p = PathOf(embedJob) /\ embedJob.request.cached
              /\ cacheFiles'[p] = Append(Cached(embedJob), c)
  PROVE  EmbedInv'
<1> USE DEF EmbedInv
<1>1. /\ embedJob # NoJob /\ embedJob.step = "encode"
      /\ embedJob \in EmbedJob /\ embedJob.batches \in Seq(Batch)
      /\ Len(embedJob.batches) \in Nat /\ Len(embedJob.batches) < NumBatches
      /\ PathOf(embedJob) \in CachePath
  BY CacheOfJob
<1>2. ASSUME NEW s \in Seq(Batch)
      PROVE  /\ Append(s, c) \in Seq(Batch) /\ Len(Append(s, c)) = Len(s) + 1
             /\ \A b \in 1 .. Len(Append(s, c)) :
                  Append(s, c)[b] = c \/ (b \in 1 .. Len(s) /\ Append(s, c)[b] = s[b])
  OBVIOUS
<1>3. /\ embedJob' \in EmbedJob /\ embedJob'.request = embedJob.request
      /\ embedJob'.version = embedJob.version /\ embedJob'.rows = embedJob.rows
      /\ embedJob'.passes = embedJob.passes /\ embedJob'.step = "encode"
      /\ embedJob'.batches = Append(embedJob.batches, c)
  BY <1>1, <1>2 DEF EmbedJob
<1>4. EmbedTypeOK'
  <2>1. Len(embedJob'.batches) <= NumBatches
    BY <1>1, <1>2, <1>3, EmbedAssumption
  <2>2. embedJob'.passes # <<>>
    BY <1>1, <1>3 DEF EmbedTypeOK
  <2> QED
    BY <1>3, <2>1, <2>2 DEF EmbedTypeOK
<1>5. ColumnsKept'
  BY DEF ColumnsKept
<1>6. CachesKept'
  <2> SUFFICES ASSUME NEW p \in CachePath PROVE CacheKept(p)'
    BY DEF CachesKept
  <2>1. CASE cacheFiles'[p] = cacheFiles[p]
    BY <1>1, <1>3, <2>1 DEF CachesKept, CacheKept
  <2>2. CASE /\ p = PathOf(embedJob) /\ embedJob.request.cached
             /\ cacheFiles'[p] = Append(Cached(embedJob), c)
    <3>1. /\ sidecars[p].artifact = embedJob.request.artifact
          /\ sidecars[p].version = embedJob.version
      BY <2>2, CacheOfJob
    <3>2. \A b \in 1 .. Len(cacheFiles'[p]) :
            /\ cacheFiles'[p][b].artifact = embedJob.request.artifact
            /\ cacheFiles'[p][b].rows = embedJob.rows
      BY <1>2, <2>2, CacheOfJob
    <3>3. /\ embedJob.version <= table.version
          /\ embedJob.version = table.version => embedJob.rows = table.rows
      BY <1>1 DEF JobKept
    <3> QED
      BY <1>3, <3>1, <3>2, <3>3 DEF CacheKept
  <2> QED
    BY <2>1, <2>2
<1>7. JobKept'
  <2>1. PathOf(embedJob') = PathOf(embedJob) /\ IdentityOf(embedJob') = IdentityOf(embedJob)
    BY <1>3 DEF PathOf, IdentityOf
  <2>2. \A b \in 1 .. Len(embedJob'.batches) :
          /\ embedJob'.batches[b].artifact = embedJob.request.artifact
          /\ embedJob'.batches[b].rows = embedJob.rows
    BY <1>1, <1>2, <1>3 DEF JobKept
  <2> QED
    BY <1>1, <1>3, <2>1, <2>2 DEF JobKept
<1>8. JobCovers'
  BY <1>1, <1>3 DEF JobCovers, Covered, Uncommitted
<1> QED
  BY <1>4, <1>5, <1>6, <1>7, <1>8

LEMMA BatchesKept ==
  ASSUME EmbedInv, ReuseBatch \/ EncodeBatch PROVE EmbedInv'
<1> USE DEF EmbedInv
<1>0. /\ cacheFiles \in [CachePath -> Seq(Batch) \cup {NoCache}]
      /\ \A p \in CachePath : cacheFiles[p] # NoCache => Len(cacheFiles[p]) <= NumBatches
  BY DEF EmbedTypeOK
<1>1. CASE ReuseBatch
  <2> DEFINE c == Cached(embedJob)[Len(embedJob.batches) + 1]
  <2>1. /\ Encoding /\ Len(embedJob.batches) + 1 \in DOMAIN Cached(embedJob)
        /\ embedJob' = [embedJob EXCEPT !.batches = Append(@, c)]
        /\ table' = table /\ cacheFiles' = cacheFiles /\ sidecars' = sidecars
    BY <1>1 DEF ReuseBatch
  <2>2. c \in Batch /\ c.artifact = embedJob.request.artifact /\ c.rows = embedJob.rows
    BY <2>1, CacheOfJob, ElementOfSeq
  <2> QED
    BY <1>0, <2>1, <2>2, BatchTakenKept
<1>2. CASE EncodeBatch
  <2> DEFINE c == [artifact |-> embedJob.request.artifact, rows |-> embedJob.rows]
             p == PathOf(embedJob)
  <2>1. /\ Encoding /\ Len(embedJob.batches) + 1 \notin DOMAIN Cached(embedJob)
        /\ embedJob' = [embedJob EXCEPT !.batches = Append(@, c)]
        /\ cacheFiles' = IF embedJob.request.cached
                         THEN [cacheFiles EXCEPT ![p] = Append(Cached(embedJob), c)]
                         ELSE cacheFiles
        /\ table' = table /\ sidecars' = sidecars
    BY <1>2 DEF EncodeBatch
  <2>2. c \in Batch /\ c.artifact = embedJob.request.artifact /\ c.rows = embedJob.rows
    BY <2>1, CacheOfJob DEF Batch, EmbedJob, EmbedRequest
  <2> HIDE DEF c, p
  <2>3. /\ Append(Cached(embedJob), c) \in Seq(Batch)
        /\ Len(Append(Cached(embedJob), c)) <= NumBatches
    <3>1. Len(Cached(embedJob)) < NumBatches
      BY <2>1, CacheOfJob, EmbedAssumption
    <3>2. /\ Append(Cached(embedJob), c) \in Seq(Batch)
          /\ Len(Append(Cached(embedJob), c)) = Len(Cached(embedJob)) + 1
      BY <2>1, <2>2, CacheOfJob, AppendProperties
    <3> QED
      BY <2>1, <3>1, <3>2, CacheOfJob, EmbedAssumption
  <2>4. /\ cacheFiles' \in [CachePath -> Seq(Batch) \cup {NoCache}]
        /\ \A q \in CachePath :
             cacheFiles'[q] = IF q = p /\ embedJob.request.cached
                              THEN Append(Cached(embedJob), c) ELSE cacheFiles[q]
    BY <1>0, <2>1, <2>3
  <2>5. /\ \A q \in CachePath : cacheFiles'[q] # NoCache => Len(cacheFiles'[q]) <= NumBatches
        /\ \A q \in CachePath :
             \/ cacheFiles'[q] = cacheFiles[q]
             \/ /\ q = PathOf(embedJob) /\ embedJob.request.cached
                /\ cacheFiles'[q] = Append(Cached(embedJob), c)
    BY <1>0, <2>3, <2>4 DEF p
  <2> QED
    BY <2>1, <2>2, <2>4, <2>5, BatchTakenKept
<1> QED
  BY <1>1, <1>2

\* What a commit does to the dataset.
LEMMA CommittedTable ==
  ASSUME EmbedInv, CommitColumns, table.version = embedJob.version
  PROVE  /\ table' \in [version : 1 .. MaxCommits, rows : 1 .. MaxCommits,
                        columns : [Embeddings -> Column \cup {NoColumn}],
                        indexed : SUBSET Embeddings, legacy : SUBSET Embeddings]
         /\ table'.version = table.version + 1 /\ table'.version \in 1 .. MaxCommits
         /\ table'.rows = table.rows /\ table'.indexed = table.indexed
         /\ table'.legacy = table.legacy
         /\ \A e \in Embeddings :
              table'.columns[e] = IF e \in Head(embedJob.passes) THEN ColumnOf(embedJob)
                                  ELSE table.columns[e]
         /\ ColumnOf(embedJob) # NoColumn
         /\ ColumnOf(embedJob).artifact = embedJob.request.artifact
         /\ ColumnOf(embedJob).rows = table.rows
         /\ ColumnOf(embedJob).batches = embedJob.batches
<1> USE DEF EmbedInv
<1>1. /\ embedJob # NoJob /\ embedJob.step = "encode" /\ embedJob \in EmbedJob
      /\ Len(embedJob.batches) = NumBatches /\ table.version < MaxCommits
      /\ table' = [table EXCEPT !.version = @ + 1,
                    !.columns = [e \in Embeddings |->
                      IF e \in Head(embedJob.passes) THEN ColumnOf(embedJob) ELSE @[e]]]
  BY PassAtHand DEF CommitColumns
<1>2. /\ ColumnOf(embedJob).artifact = embedJob.request.artifact
      /\ ColumnOf(embedJob).rows = table.rows
      /\ ColumnOf(embedJob).batches = embedJob.batches
      /\ ColumnOf(embedJob) \in Column
  <2>1. /\ embedJob.request.artifact \in Artifacts /\ embedJob.batches \in Seq(Batch)
        /\ table.rows \in 1 .. MaxCommits
    BY <1>1, TableFields DEF EmbedJob, EmbedRequest
  <2>2. embedJob.batches \in [1 .. NumBatches -> Batch]
    BY <1>1, <2>1, LenProperties
  <2> QED
    BY <2>1, <2>2 DEF ColumnOf, Column
<1>3. ColumnOf(embedJob) # NoColumn
  BY <1>2, EmbedAssumption
<1> DEFINE cols == [e \in Embeddings |-> IF e \in Head(embedJob.passes) THEN ColumnOf(embedJob)
                                         ELSE table.columns[e]]
<1>4. cols \in [Embeddings -> Column \cup {NoColumn}]
  BY <1>2, TableFields
<1>5. table.version + 1 \in 1 .. MaxCommits
  BY <1>1, TableFields, EmbedAssumption
<1>6. /\ table' \in [version : 1 .. MaxCommits, rows : 1 .. MaxCommits,
                      columns : [Embeddings -> Column \cup {NoColumn}],
                      indexed : SUBSET Embeddings, legacy : SUBSET Embeddings]
      /\ table'.version = table.version + 1
      /\ table'.rows = table.rows /\ table'.indexed = table.indexed
      /\ table'.legacy = table.legacy
      /\ table'.columns = cols
  <2>1. table' = [table EXCEPT !.version = @ + 1, !.columns = cols]
    BY <1>1 DEF EmbedTypeOK
  <2> HIDE DEF cols
  <2> QED
    BY <1>4, <1>5, <2>1 DEF EmbedTypeOK
<1>7. \A e \in Embeddings :
        table'.columns[e] = IF e \in Head(embedJob.passes) THEN ColumnOf(embedJob)
                            ELSE table.columns[e]
  BY <1>6
<1> QED
  BY <1>2, <1>3, <1>5, <1>6, <1>7

\* A commit leaves the job with its caches, or goes on to the next pass.
LEMMA CommitColumnsKept ==
  ASSUME EmbedInv, CommitColumns PROVE EmbedInv'
<1> USE DEF EmbedInv
<1>0. CASE table.version # embedJob.version
  BY <1>0, StopKept DEF CommitColumns
<1>1. CASE table.version = embedJob.version
  <2>1. /\ embedJob # NoJob /\ embedJob.step = "encode" /\ embedJob \in EmbedJob
        /\ embedJob.passes # <<>> /\ Head(embedJob.passes) \in SUBSET Embeddings
        /\ Head(embedJob.passes) = embedJob.passes[1]
        /\ Len(embedJob.batches) = NumBatches
        /\ cacheFiles' = cacheFiles /\ sidecars' = sidecars
    BY PassAtHand DEF CommitColumns
  <2> DEFINE committed == [embedJob EXCEPT !.version = @ + 1]
  <2>2. embedJob' = IF embedJob.request.cached THEN [committed EXCEPT !.step = "delete cache"]
                    ELSE NextPass(committed)
    BY <1>1 DEF CommitColumns
  <2>3. /\ committed \in EmbedJob /\ committed.version = table.version + 1
        /\ committed.request = embedJob.request /\ committed.rows = embedJob.rows
        /\ committed.passes = embedJob.passes /\ committed.batches = embedJob.batches
    <3>1. embedJob.version + 1 \in 1 .. MaxCommits
      BY <1>1, CommittedTable
    <3> QED
      BY <1>1, <2>1, <3>1 DEF EmbedJob
  <2> HIDE DEF committed
  <2>4. /\ embedJob' \in EmbedJob /\ embedJob'.request = embedJob.request
        /\ embedJob'.version = table.version + 1 /\ embedJob'.rows = embedJob.rows
        /\ Len(embedJob'.batches) <= NumBatches
        /\ embedJob'.step # "encode" /\ embedJob'.step # "done"
        /\ embedJob'.step \in {"prepare", "encode", "delete cache", "delete identity"} =>
             embedJob'.passes # <<>>
        /\ embedJob'.step \in {"index", "done"} => embedJob'.passes = <<>>
        /\ \A b \in 1 .. Len(embedJob'.batches) :
             b \in 1 .. Len(embedJob.batches) /\ embedJob'.batches[b] = embedJob.batches[b]
        /\ \A k \in 2 .. Len(embedJob.passes) :
             \E i \in Uncommitted(embedJob') .. Len(embedJob'.passes) :
               embedJob'.passes[i] = embedJob.passes[k]
    <3>1. CASE embedJob.request.cached
      <4>1. embedJob' = [committed EXCEPT !.step = "delete cache"]
        BY <2>2, <3>1
      <4>2. /\ embedJob' \in EmbedJob /\ embedJob'.request = embedJob.request
            /\ embedJob'.version = table.version + 1 /\ embedJob'.rows = embedJob.rows
            /\ embedJob'.batches = embedJob.batches /\ embedJob'.passes = embedJob.passes
            /\ embedJob'.step = "delete cache"
        BY <2>3, <4>1, SteppedJob
      <4>3. Uncommitted(embedJob') = 2
        BY <4>2 DEF Uncommitted
      <4>4. NumBatches <= NumBatches
        BY EmbedAssumption
      <4> QED
        BY <2>1, <4>2, <4>3, <4>4
    <3>2. CASE ~embedJob.request.cached
      <4>1. embedJob' = NextPass(committed) /\ committed.passes # <<>>
        BY <2>1, <2>2, <2>3, <3>2
      <4>2. /\ embedJob' \in EmbedJob /\ embedJob'.request = embedJob.request
            /\ embedJob'.version = table.version + 1 /\ embedJob'.rows = embedJob.rows
            /\ Len(embedJob'.batches) = 0
            /\ embedJob'.step = IF embedJob'.passes = <<>> THEN "index" ELSE "prepare"
            /\ \A k \in 2 .. Len(embedJob.passes) :
                 /\ k - 1 \in 1 .. Len(embedJob'.passes)
                 /\ embedJob'.passes[k - 1] = embedJob.passes[k]
        BY <2>3, <4>1, NextPassFields
      <4>3. Uncommitted(embedJob') = 1
        BY <4>2 DEF Uncommitted
      <4> QED
        BY <4>2, <4>3, EmbedAssumption
    <3> QED
      BY <3>1, <3>2
  <2>5. /\ table'.version = table.version + 1 /\ embedJob'.version = table.version + 1
        /\ table.version \in Nat /\ table'.version = embedJob'.version
        /\ embedJob'.version \in Nat /\ table'.rows = table.rows /\ embedJob'.rows = embedJob.rows
    <3>1. table.version \in Nat
      BY TableFields, EmbedAssumption
    <3>2. table'.version = table.version + 1 /\ table'.rows = table.rows
      BY <1>1, CommittedTable
    <3>3. embedJob'.version = table.version + 1 /\ embedJob'.rows = embedJob.rows
      BY <2>4
    <3> QED
      BY <3>1, <3>2, <3>3
  <2>10. EmbedTypeOK'
    <3>1. table' \in [version : 1 .. MaxCommits, rows : 1 .. MaxCommits,
                      columns : [Embeddings -> Column \cup {NoColumn}],
                      indexed : SUBSET Embeddings, legacy : SUBSET Embeddings]
      BY <1>1, CommittedTable
    <3> QED
      BY <2>1, <2>4, <3>1 DEF EmbedTypeOK
  <2>6. ColumnsKept'
    <3> SUFFICES ASSUME NEW e \in Embeddings, table'.columns[e] # NoColumn,
                        NEW b \in 1 .. NumBatches
                 PROVE  /\ table'.columns[e].batches[b].artifact = table'.columns[e].artifact
                        /\ table'.columns[e].batches[b].rows = table'.columns[e].rows
      BY DEF ColumnsKept
    <3>1. CASE e \in Head(embedJob.passes)
      <4>1. /\ embedJob.batches[b].artifact = embedJob.request.artifact
            /\ embedJob.batches[b].rows = table.rows
        BY <1>1, <2>1 DEF JobKept
      <4> QED
        BY <1>1, <3>1, <4>1, CommittedTable
    <3>2. CASE e \notin Head(embedJob.passes)
      <4>1. table'.columns[e] = table.columns[e]
        BY <1>1, <3>2, CommittedTable
      <4> QED
        BY <4>1 DEF ColumnsKept
    <3> QED
      BY <3>1, <3>2
  <2>7. CachesKept'
    <3> SUFFICES ASSUME NEW p \in CachePath, sidecars[p] # NoIdentity
                 PROVE  CacheKept(p)'
      BY <2>1 DEF CachesKept, CacheKept
    <3>1. sidecars[p].version <= table.version /\ sidecars[p].version \in Nat
      BY TableFields DEF CachesKept, CacheKept
    <3>2. /\ sidecars[p].version <= table'.version /\ sidecars[p].version # table'.version
          /\ sidecars[p].version # embedJob'.version
      <4>1. /\ table'.version = table.version + 1 /\ embedJob'.version = table.version + 1
            /\ table.version \in Nat
        BY <2>5
      <4> QED
        BY <3>1, <4>1
    <3> QED
      BY <2>1, <3>2 DEF CachesKept, CacheKept
  <2>8. JobKept'
    <3>1. embedJob'.version <= table'.version /\ embedJob'.rows = table'.rows
      <4>1. embedJob.rows = table.rows
        BY <1>1, <2>1 DEF JobKept
      <4> QED
        BY <2>5, <4>1
    <3>2. \A b \in 1 .. Len(embedJob'.batches) :
            /\ embedJob'.batches[b].artifact = embedJob'.request.artifact
            /\ embedJob'.batches[b].rows = embedJob'.rows
      BY <2>1, <2>4 DEF JobKept
    <3> QED
      BY <2>4, <3>1, <3>2 DEF JobKept
  <2>9. JobCovers'
    <3>1. ASSUME NEW e \in embedJob.request.selection
          PROVE  \/ e \in table'.legacy
                 \/ /\ table'.columns[e] # NoColumn
                    /\ table'.columns[e].artifact = embedJob.request.artifact
                 \/ \E i \in Uncommitted(embedJob') .. Len(embedJob'.passes) :
                      e \in embedJob'.passes[i]
      <4>0. e \in Embeddings
        BY <2>1 DEF EmbedJob, EmbedRequest
      <4>1. CASE e \in Head(embedJob.passes)
        BY <1>1, <4>0, <4>1, CommittedTable
      <4>2. CASE e \notin Head(embedJob.passes)
        <5>1. table'.columns[e] = table.columns[e]
          BY <1>1, <4>0, <4>2, CommittedTable
        <5>2. Covered(e, embedJob, 1)
          BY <2>1 DEF JobCovers, Uncommitted
        <5>5. CASE e \in table.legacy
          BY <1>1, <5>5, CommittedTable
        <5>3. CASE table.columns[e] # NoColumn /\ table.columns[e].artifact = embedJob.request.artifact
          BY <5>1, <5>3
        <5>4. CASE \E k \in 1 .. Len(embedJob.passes) : e \in embedJob.passes[k]
          <6>1. PICK k \in 1 .. Len(embedJob.passes) : e \in embedJob.passes[k]
            BY <5>4
          <6>2. k \in 2 .. Len(embedJob.passes)
            BY <2>1, <4>2, <6>1
          <6> QED
            BY <2>4, <6>1, <6>2
        <5> QED
          BY <5>2, <5>3, <5>4, <5>5 DEF Covered
      <4> QED
        BY <4>1, <4>2
    <3>2. \A e \in embedJob.request.selection : Covered(e, embedJob, Uncommitted(embedJob))'
      BY <2>4, <3>1 DEF Covered
    <3> QED
      BY <2>4, <3>2 DEF JobCovers
  <2> QED
    BY <2>6, <2>7, <2>8, <2>9, <2>10
<1> QED
  BY <1>0, <1>1

\* After a commit the cache or its identity goes, or stays, and the job goes on.
LEMMA DeletedKept ==
  ASSUME EmbedInv, embedJob # NoJob, embedJob.step \in {"delete cache", "delete identity"},
         embedJob' = [embedJob EXCEPT !.step = "delete identity"] \/ embedJob' = NextPass(embedJob),
         table' = table,
         cacheFiles' \in [CachePath -> Seq(Batch) \cup {NoCache}],
         sidecars' \in [CachePath -> CacheIdentity \cup {NoIdentity}],
         \A p \in CachePath : /\ cacheFiles'[p] \in {cacheFiles[p], NoCache}
                              /\ sidecars'[p] \in {sidecars[p], NoIdentity}
  PROVE  EmbedInv'
<1> USE DEF EmbedInv
<1>1. embedJob \in EmbedJob /\ embedJob.passes # <<>>
  BY PassAtHand
<1>2. /\ embedJob' \in EmbedJob /\ embedJob'.request = embedJob.request
      /\ embedJob'.version = embedJob.version /\ embedJob'.rows = embedJob.rows
      /\ Len(embedJob'.batches) <= NumBatches
      /\ embedJob'.step # "encode" /\ embedJob'.step # "done"
      /\ embedJob'.step \in {"prepare", "encode", "delete cache", "delete identity"} =>
           embedJob'.passes # <<>>
      /\ embedJob'.step \in {"index", "done"} => embedJob'.passes = <<>>
      /\ \A b \in 1 .. Len(embedJob'.batches) :
           b \in 1 .. Len(embedJob.batches) /\ embedJob'.batches[b] = embedJob.batches[b]
      /\ \A k \in 2 .. Len(embedJob.passes) :
           \E i \in Uncommitted(embedJob') .. Len(embedJob'.passes) :
             embedJob'.passes[i] = embedJob.passes[k]
  <2>1. CASE embedJob' = [embedJob EXCEPT !.step = "delete identity"]
    <3>1. /\ embedJob' \in EmbedJob /\ embedJob'.request = embedJob.request
          /\ embedJob'.version = embedJob.version /\ embedJob'.rows = embedJob.rows
          /\ embedJob'.batches = embedJob.batches /\ embedJob'.passes = embedJob.passes
          /\ embedJob'.step = "delete identity"
      BY <1>1, <2>1, SteppedJob
    <3>2. Uncommitted(embedJob') = 2
      BY <3>1 DEF Uncommitted
    <3>3. Len(embedJob.batches) <= NumBatches
      BY DEF EmbedTypeOK
    <3> QED
      BY <1>1, <3>1, <3>2, <3>3
  <2>2. CASE embedJob' = NextPass(embedJob)
    <3>1. /\ embedJob' \in EmbedJob /\ embedJob'.request = embedJob.request
          /\ embedJob'.version = embedJob.version /\ embedJob'.rows = embedJob.rows
          /\ Len(embedJob'.batches) = 0
          /\ embedJob'.step = IF embedJob'.passes = <<>> THEN "index" ELSE "prepare"
          /\ \A k \in 2 .. Len(embedJob.passes) :
               /\ k - 1 \in 1 .. Len(embedJob'.passes)
               /\ embedJob'.passes[k - 1] = embedJob.passes[k]
      BY <1>1, <2>2, NextPassFields
    <3>2. Uncommitted(embedJob') = 1
      BY <3>1 DEF Uncommitted
    <3>3. ASSUME NEW k \in 2 .. Len(embedJob.passes)
          PROVE  \E i \in Uncommitted(embedJob') .. Len(embedJob'.passes) :
                   embedJob'.passes[i] = embedJob.passes[k]
      BY <3>1, <3>2
    <3>4. /\ Len(embedJob'.batches) <= NumBatches
          /\ \A b \in 1 .. Len(embedJob'.batches) : FALSE
      BY <3>1, NoBatchYet
    <3>5. \/ embedJob'.step = "index" /\ embedJob'.passes = <<>>
          \/ embedJob'.step = "prepare" /\ embedJob'.passes # <<>>
      BY <3>1
    <3> QED
      BY <3>1, <3>3, <3>4, <3>5
  <2> QED
    BY <2>1, <2>2
<1>3. EmbedTypeOK'
  <2>1. \A p \in CachePath : cacheFiles'[p] # NoCache => Len(cacheFiles'[p]) <= NumBatches
    BY DEF EmbedTypeOK
  <2> QED
    BY <1>2, <2>1 DEF EmbedTypeOK
<1>4. ColumnsKept'
  BY DEF ColumnsKept
<1>5. CachesKept'
  <2> SUFFICES ASSUME NEW p \in CachePath, sidecars'[p] # NoIdentity PROVE CacheKept(p)'
    BY DEF CachesKept, CacheKept
  <2>1. sidecars'[p] = sidecars[p] /\ cacheFiles'[p] \in {cacheFiles[p], NoCache}
    OBVIOUS
  <2>2. CacheKept(p)
    BY DEF CachesKept
  <2> QED
    BY <1>2, <2>1, <2>2 DEF CacheKept
<1>6. JobKept'
  <2>1. \A b \in 1 .. Len(embedJob'.batches) :
          /\ embedJob'.batches[b].artifact = embedJob'.request.artifact
          /\ embedJob'.batches[b].rows = embedJob'.rows
    BY <1>2 DEF JobKept
  <2> QED
    BY <1>2, <2>1 DEF JobKept
<1>7. JobCovers'
  <2>1. ASSUME NEW e \in embedJob.request.selection
        PROVE  \/ e \in table.legacy
               \/ table.columns[e] # NoColumn /\ table.columns[e].artifact = embedJob.request.artifact
               \/ \E i \in Uncommitted(embedJob') .. Len(embedJob'.passes) : e \in embedJob'.passes[i]
    <3>1. Covered(e, embedJob, 2)
      BY DEF JobCovers, Uncommitted
    <3>2. CASE \E k \in 2 .. Len(embedJob.passes) : e \in embedJob.passes[k]
      <4>1. PICK k \in 2 .. Len(embedJob.passes) : e \in embedJob.passes[k]
        BY <3>2
      <4> QED
        BY <1>2, <4>1
    <3> QED
      BY <3>1, <3>2 DEF Covered
  <2>2. \A e \in embedJob.request.selection : Covered(e, embedJob, Uncommitted(embedJob))'
    BY <1>2, <2>1 DEF Covered
  <2> QED
    BY <1>2, <2>2 DEF JobCovers
<1> QED
  BY <1>3, <1>4, <1>5, <1>6, <1>7

LEMMA DeletesKept ==
  ASSUME EmbedInv, DeleteCache \/ DeleteIdentity PROVE EmbedInv'
<1> USE DEF EmbedInv
<1> DEFINE p == PathOf(embedJob)
<1>0. /\ cacheFiles \in [CachePath -> Seq(Batch) \cup {NoCache}]
      /\ sidecars \in [CachePath -> CacheIdentity \cup {NoIdentity}]
  BY DEF EmbedTypeOK
<1> HIDE DEF p
<1>1. /\ [cacheFiles EXCEPT ![p] = NoCache] \in [CachePath -> Seq(Batch) \cup {NoCache}]
      /\ \A q \in CachePath : [cacheFiles EXCEPT ![p] = NoCache][q] \in {cacheFiles[q], NoCache}
  BY <1>0
<1>2. /\ [sidecars EXCEPT ![p] = NoIdentity] \in [CachePath -> CacheIdentity \cup {NoIdentity}]
      /\ \A q \in CachePath : [sidecars EXCEPT ![p] = NoIdentity][q] \in {sidecars[q], NoIdentity}
  BY <1>0
<1>3. CASE DeleteCache
  <2>1. /\ embedJob # NoJob /\ embedJob.step = "delete cache"
        /\ cacheFiles' = [cacheFiles EXCEPT ![p] = NoCache] \/ cacheFiles' = cacheFiles
        /\ \/ embedJob' = [embedJob EXCEPT !.step = "delete identity"]
           \/ embedJob' = NextPass(embedJob)
        /\ table' = table /\ sidecars' = sidecars
    BY <1>3 DEF DeleteCache, EmbedAt, p
  <2>2. /\ cacheFiles' \in [CachePath -> Seq(Batch) \cup {NoCache}]
        /\ \A q \in CachePath : cacheFiles'[q] \in {cacheFiles[q], NoCache}
    BY <1>0, <1>1, <2>1
  <2> QED
    BY <1>0, <2>1, <2>2, DeletedKept
<1>4. CASE DeleteIdentity
  <2>1. /\ embedJob # NoJob /\ embedJob.step = "delete identity"
        /\ sidecars' = [sidecars EXCEPT ![p] = NoIdentity] \/ sidecars' = sidecars
        /\ embedJob' = NextPass(embedJob)
        /\ table' = table /\ cacheFiles' = cacheFiles
    BY <1>4 DEF DeleteIdentity, p
  <2>2. /\ sidecars' \in [CachePath -> CacheIdentity \cup {NoIdentity}]
        /\ \A q \in CachePath : sidecars'[q] \in {sidecars[q], NoIdentity}
    BY <1>0, <1>2, <2>1
  <2> QED
    BY <1>0, <2>1, <2>2, DeletedKept
<1> QED
  BY <1>3, <1>4

LEMMA IndexColumnKept ==
  ASSUME EmbedInv, IndexColumn PROVE EmbedInv'
<1> USE DEF EmbedInv
<1>1. /\ embedJob # NoJob /\ embedJob.step = "index" /\ embedJob \in EmbedJob
      /\ cacheFiles' = cacheFiles /\ sidecars' = sidecars
  BY TableFields DEF IndexColumn
<1>2. CASE Unindexed(embedJob) = {}
  <2>1. /\ embedJob' \in EmbedJob /\ embedJob'.request = embedJob.request
        /\ embedJob'.version = embedJob.version /\ embedJob'.rows = embedJob.rows
        /\ embedJob'.passes = embedJob.passes /\ embedJob'.batches = embedJob.batches
        /\ embedJob'.step = "done" /\ table' = table
    <3>1. embedJob' = [embedJob EXCEPT !.step = "done"] /\ table' = table
      BY <1>2 DEF IndexColumn, EmbedAt
    <3> QED
      BY <1>1, <3>1, SteppedJob
  <2>2. EmbedTypeOK'
    BY <1>1, <2>1 DEF EmbedTypeOK
  <2>3. ColumnsKept'
    BY <2>1 DEF ColumnsKept
  <2>4. CachesKept'
    BY <1>1, <2>1 DEF CachesKept, CacheKept
  <2>5. JobKept'
    BY <1>1, <2>1 DEF JobKept
  <2>6. JobCovers'
    BY <1>1, <1>2, <2>1 DEF JobCovers, Covered, Uncommitted, Unindexed
  <2> QED
    BY <2>2, <2>3, <2>4, <2>5, <2>6
<1>3. CASE Unindexed(embedJob) # {}
  <2>1. PICK e \in Unindexed(embedJob) :
          table' = [table EXCEPT !.version = @ + 1, !.indexed = @ \cup {e}]
    BY <1>3 DEF IndexColumn
  <2>2. table.version < MaxCommits /\ embedJob' = embedJob
    BY <1>3 DEF IndexColumn
  <2>3. e \in Embeddings
    BY <1>1 DEF Unindexed, EmbedJob, EmbedRequest
  <2>4. /\ table' \in [version : 1 .. MaxCommits, rows : 1 .. MaxCommits,
                       columns : [Embeddings -> Column \cup {NoColumn}],
                       indexed : SUBSET Embeddings, legacy : SUBSET Embeddings]
        /\ table'.version = table.version + 1
        /\ table'.columns = table.columns /\ table'.rows = table.rows
        /\ table'.legacy = table.legacy
    <3>1. table.version + 1 \in 1 .. MaxCommits /\ table.indexed \cup {e} \in SUBSET Embeddings
      BY <2>2, <2>3, TableFields, EmbedAssumption
    <3> QED
      BY <2>1, <3>1 DEF EmbedTypeOK
  <2>5. table.version \in Nat
    BY TableFields, EmbedAssumption
  <2>6. EmbedTypeOK'
    BY <1>1, <2>2, <2>4 DEF EmbedTypeOK
  <2>7. ColumnsKept'
    BY <2>4 DEF ColumnsKept
  <2>8. CachesKept'
    <3> SUFFICES ASSUME NEW p \in CachePath, sidecars[p] # NoIdentity
                 PROVE  CacheKept(p)'
      BY <1>1 DEF CachesKept, CacheKept
    <3>1. sidecars[p].version <= table.version /\ sidecars[p].version \in Nat
      BY TableFields DEF CachesKept, CacheKept
    <3>2. sidecars[p].version <= table'.version /\ sidecars[p].version # table'.version
      BY <2>4, <2>5, <3>1
    <3> QED
      BY <1>1, <2>2, <3>2 DEF CachesKept, CacheKept
  <2>9. JobKept'
    <3>1. embedJob.version <= table.version /\ embedJob.version \in Nat
      BY <1>1, TableFields DEF JobKept
    <3>2. embedJob.version <= table'.version /\ embedJob.version # table'.version
      BY <2>4, <2>5, <3>1
    <3> QED
      BY <1>1, <2>2, <3>2 DEF JobKept
  <2>10. JobCovers'
    BY <1>1, <2>2, <2>4 DEF JobCovers, Covered, Uncommitted
  <2> QED
    BY <2>6, <2>7, <2>8, <2>9, <2>10
<1> QED
  BY <1>2, <1>3

LEMMA EmbedInvKept == EmbedInv /\ [EmbedNext]_embedVars => EmbedInv'
<1> SUFFICES ASSUME EmbedInv, [EmbedNext]_embedVars PROVE EmbedInv'
  OBVIOUS
<1>1. CASE RowsCommitted
  BY <1>1, RowsCommittedKept
<1>2. CASE \E request \in JobRequests : LaunchEmbed(request)
  BY <1>2, LaunchEmbedKept
<1>3. CASE PrepareNoCache \/ PrepareFresh \/ PrepareExisting
  BY <1>3, PreparesKept
<1>4. CASE ReuseBatch \/ EncodeBatch
  BY <1>4, BatchesKept
<1>5. CASE CommitColumns
  BY <1>5, CommitColumnsKept
<1>6. CASE DeleteCache \/ DeleteIdentity
  BY <1>6, DeletesKept
<1>7. CASE IndexColumn
  BY <1>7, IndexColumnKept
<1>8. CASE EmbedEnds
  BY <1>8, StopKept DEF EmbedEnds
<1>9. CASE UNCHANGED embedVars
  BY <1>9 DEF embedVars, EmbedInv, EmbedTypeOK, ColumnsKept, CachesKept, CacheKept, JobKept,
              PathOf, IdentityOf, JobCovers, Covered, Uncommitted, Unindexed
<1> QED
  BY <1>1, <1>2, <1>3, <1>4, <1>5, <1>6, <1>7, <1>8, <1>9 DEF EmbedNext

\* EmbedInv says that the columns are of one artifact and one set of rows, and
\* that a job which is done wrote all it was asked for.
LEMMA ColumnsFromInv == EmbedInv => ColumnsAreOneArtifact
<1> SUFFICES ASSUME EmbedInv PROVE ColumnsAreOneArtifact
  OBVIOUS
<1> USE DEF EmbedInv
<1>1. ASSUME NEW e \in Embeddings, table.columns[e] # NoColumn, NEW b \in 1 .. NumBatches
      PROVE  table.columns[e].batches[b] =
               [artifact |-> table.columns[e].artifact, rows |-> table.columns[e].rows]
  <2>1. table.columns[e] \in Column
    BY <1>1, TableFields
  <2>2. table.columns[e].batches[b] \in Batch
    BY <1>1, <2>1 DEF Column
  <2>3. /\ table.columns[e].batches[b].artifact = table.columns[e].artifact
        /\ table.columns[e].batches[b].rows = table.columns[e].rows
    BY <1>1 DEF ColumnsKept
  <2> QED
    BY <2>2, <2>3 DEF Batch
<1>2. ASSUME embedJob # NoJob, embedJob.step = "done"
      PROVE  /\ Unindexed(embedJob) = {}
             /\ \A e \in embedJob.request.selection \ table.legacy :
                  table.columns[e] # NoColumn /\ table.columns[e].artifact = embedJob.request.artifact
  <2>1. Uncommitted(embedJob) = 1 /\ embedJob.passes = <<>>
    BY <1>2 DEF JobCovers, Uncommitted
  <2>2. \A k \in 1 .. Len(embedJob.passes) : FALSE
    BY <2>1, EmptySeq
  <2> QED
    BY <1>2, <2>1, <2>2 DEF JobCovers, Covered
<1> QED
  BY <1>1, <1>2 DEF ColumnsAreOneArtifact

\* A column committed by add_embeddings.py was encoded by the artifact it names
\* from the rows it was committed over, whatever caches earlier jobs left, and a
\* job that ends well has written and indexed all it was asked for.
THEOREM ColumnsOfOneArtifact == EmbedSpec => []ColumnsAreOneArtifact
<1>1. EmbedInit => EmbedInv
  BY EmbedInitKept
<1>2. EmbedInv /\ [EmbedNext]_embedVars => EmbedInv'
  BY EmbedInvKept
<1>3. EmbedInv => ColumnsAreOneArtifact
  BY ColumnsFromInv
<1> QED
  BY <1>1, <1>2, <1>3, PTL DEF EmbedSpec

-----------------------------------------------------------------------------
(***************************************************************************)
(* Plugin installation: what a manager has found is its installer's, unless*)
(* it is told of another writer, and so is what it seals.                  *)
(***************************************************************************)

\* Versions are installed, adopted and loaded under their locks.
LocksOK ==
  /\ \A m, n \in Managers :
       /\ manager[m].step # "idle" /\ manager[n].step # "idle"
       /\ manager[m].version = manager[n].version
       => m = n
  /\ \A q, r \in Renderers :
       /\ renderer[q].step # "idle" /\ renderer[r].step # "idle"
       /\ renderer[q].version = renderer[r].version
       => q = r
  /\ \A m \in Managers : \A r \in Renderers :
       manager[m].step # "idle" /\ renderer[r].step # "idle" =>
         manager[m].version # renderer[r].version

\* Studiorack itself unpacks portable versions only, and a seal under the
\* artifact lock is of the vendor's bundle.
PlacesOK == \A v \in Releases : place[v] = "unpacked" => v \in portable

SealsOK ==
  \A v \in Releases :
    seal[v] # NoSeal /\ seal[v].kind = "artifact-lock" /\ v \notin clashes => seal[v].content = v

\* As long as nobody else writes its place, an install finds what its installer
\* left there, or what was there before, or nothing.
FoundOK(me) ==
  me.kind = "artifact-lock" /\ ~me.clash =>
    /\ me.step = "finish" =>
         IF me.version \in portable
         THEN place[me.version] = "unpacked" /\ unpacked[me.version] = me.version
         ELSE system \in {me.version, me.before, NoContent}
    /\ me.step \in {"adopt", "copy"} =>
         /\ me.version \notin portable
         /\ me.from = "system"
         /\ system \in {me.version, NoContent}
    /\ me.step \in {"own", "seal"} => me.copy = me.version

ManagerOK(me) ==
  /\ me.from = "unpacked" => me.version \in portable
  /\ me.step \in {"own", "seal"} => me.copy # NoContent
  /\ FoundOK(me)

\* As long as nobody else writes its place, a bundle in use is what its seal said.
RendererOK(me) ==
  me.step # "idle" =>
    /\ me.seal # NoSeal
    /\ ~me.clash /\ me.seal.kind = "artifact-lock" => me.seal.content = me.version
    /\ ~me.clash /\ me.step = "in place" =>
         place[me.version] = "unpacked" /\ unpacked[me.version] = me.seal.content
    /\ me.step = "copied" => me.content = me.seal.content

InstallInv ==
  /\ InstallTypeOK
  /\ LocksOK
  /\ PlacesOK
  /\ SealsOK
  /\ \A m \in Managers : ManagerOK(manager[m])
  /\ \A r \in Renderers : RendererOK(renderer[r])


\* Someone who is idle holds nothing.
LEMMA IdleIs ==
  /\ IdleManager \in Manager /\ IdleManager.step = "idle" /\ IdleManager.from = "none"
  /\ IdleManager.kind = "explicit"
  /\ IdleRenderer \in Renderer /\ IdleRenderer.step = "idle"
<1>1. (CHOOSE v \in Releases : TRUE) \in Releases
  BY InstallAssumption
<1>2. 0 \in 0 .. StudiorackAttempts
  BY InstallAssumption
<1> QED
  BY <1>1, <1>2 DEF IdleManager, Manager, IdleRenderer, Renderer, Bundle, Place, Kind

LEMMA InstallStarts == InstallInit => InstallInv
<1> SUFFICES ASSUME InstallInit PROVE InstallInv
  OBVIOUS
<1>1. InstallTypeOK
  BY IdleIs DEF InstallInit, InstallTypeOK, Bundle, Content, Place, Copy, NoCopy
<1>2. LocksOK /\ PlacesOK /\ SealsOK
  BY IdleIs DEF InstallInit, LocksOK, PlacesOK, SealsOK
<1>3. ASSUME NEW m \in Managers PROVE ManagerOK(manager[m])
  BY IdleIs DEF InstallInit, ManagerOK, FoundOK
<1>4. ASSUME NEW r \in Renderers PROVE RendererOK(renderer[r])
  BY IdleIs DEF InstallInit, RendererOK
<1> QED
  BY <1>1, <1>2, <1>3, <1>4 DEF InstallInv

\* Locks that are only given back.
LEMMA LocksStay ==
  ASSUME LocksOK,
         \A n \in Managers : manager'[n].step # "idle" =>
           manager[n].step # "idle" /\ manager'[n].version = manager[n].version,
         \A r \in Renderers : renderer'[r].step # "idle" =>
           renderer[r].step # "idle" /\ renderer'[r].version = renderer[r].version
  PROVE  LocksOK'
  BY DEF LocksOK

\* What a manager found stays found, unless it is told.
LEMMA ManagerStays ==
  ASSUME NEW me \in Manager, NEW new \in Manager, ManagerOK(me),
         new.step = me.step, new.version = me.version, new.before = me.before,
         new.from = me.from, new.copy = me.copy, new.kind = me.kind,
         me.clash => new.clash,
         UNCHANGED portable,
         me.kind = "artifact-lock" /\ ~new.clash /\ me.step # "idle" =>
           IF me.version \in portable
           THEN place'[me.version] = place[me.version] /\ unpacked'[me.version] = unpacked[me.version]
           ELSE system' \in {system, NoContent}
  PROVE  ManagerOK(new)'
<1>1. /\ new.from = "unpacked" => new.version \in portable'
      /\ new.step \in {"own", "seal"} => new.copy # NoContent
  BY DEF ManagerOK
<1>2. FoundOK(new)'
  BY DEF ManagerOK, FoundOK
<1> QED
  BY <1>1, <1>2 DEF ManagerOK

\* So does what a renderer loaded.
LEMMA RendererStays ==
  ASSUME NEW me \in Renderer, NEW new \in Renderer, RendererOK(me),
         new.step = me.step, new.version = me.version, new.seal = me.seal,
         new.content = me.content,
         me.clash => new.clash,
         me.step # "idle" /\ ~new.clash =>
           place'[me.version] = place[me.version] /\ unpacked'[me.version] = unpacked[me.version]
  PROVE  RendererOK(new)'
  BY DEF RendererOK

\* A step of one manager that disturbs nobody: it writes in its own directory.
LEMMA OwnStepKeeps ==
  ASSUME InstallInv, NEW m \in Managers, NEW new \in Manager,
         manager' = [manager EXCEPT ![m] = new],
         manager[m].step # "idle",
         new.step # "idle" => new.version = manager[m].version,
         UNCHANGED <<portable, system, built, renderer>>,
         place' \in [Releases -> Place], unpacked' \in [Releases -> Bundle],
         \A w \in Releases \ {manager[m].version} :
           place'[w] = place[w] /\ unpacked'[w] = unpacked[w],
         ownership' \in [Releases -> Kind \cup {NoSeal}],
         seal' \in [Releases -> Seal \cup {NoSeal}],
         runtimeCopies' \in [Releases -> Copy],
         strays' \subseteq Releases, clashes' \subseteq Releases,
         PlacesOK', SealsOK', ManagerOK(new)'
  PROVE  InstallInv'
<1>1. InstallTypeOK /\ LocksOK
  BY DEF InstallInv
<1>2. manager \in [Managers -> Manager] /\ renderer \in [Renderers -> Renderer]
  BY <1>1 DEF InstallTypeOK
<1>3. InstallTypeOK'
  <2>1. manager' \in [Managers -> Manager]
    BY <1>2
  <2>2. portable \subseteq Releases /\ system \in Bundle /\ built \in Bundle
    BY <1>1 DEF InstallTypeOK
  <2> QED
    BY <1>2, <2>1, <2>2 DEF InstallTypeOK
<1>4. LocksOK'
  <2>1. \A n \in Managers : manager'[n].step # "idle" =>
          manager[n].step # "idle" /\ manager'[n].version = manager[n].version
    BY <1>2
  <2> QED
    BY <1>1, <2>1, LocksStay
<1>5. ASSUME NEW n \in Managers PROVE ManagerOK(manager[n])'
  <2>1. CASE n = m
    <3>1. manager'[n] = new
      BY <1>2, <2>1
    <3> QED
      BY <3>1 DEF ManagerOK, FoundOK
  <2>2. CASE n # m
    <3>1. manager'[n] = manager[n] /\ manager[n] \in Manager /\ manager[n].version \in Releases
      BY <1>2, <2>2 DEF Manager
    <3>2. manager[n].step # "idle" => manager[n].version # manager[m].version
      BY <1>1, <2>2 DEF LocksOK
    <3>3. PICK me \in Manager : me = manager[n]
      BY <3>1
    <3>4. ManagerOK(me)
      BY <3>3 DEF InstallInv
    <3>5. ManagerOK(me)'
      BY <3>1, <3>2, <3>3, <3>4, ManagerStays
    <3> QED
      BY <3>1, <3>3, <3>5 DEF ManagerOK, FoundOK
  <2> QED
    BY <2>1, <2>2
<1>6. ASSUME NEW r \in Renderers PROVE RendererOK(renderer[r])'
  <2>1. renderer'[r] = renderer[r] /\ renderer[r] \in Renderer /\ renderer[r].version \in Releases
    BY <1>2 DEF Renderer
  <2>2. renderer[r].step # "idle" => renderer[r].version # manager[m].version
    BY <1>1 DEF LocksOK
  <2>3. PICK me \in Renderer : me = renderer[r]
    BY <2>1
  <2>4. RendererOK(me)
    BY <2>3 DEF InstallInv
  <2>5. RendererOK(me)'
    BY <2>1, <2>2, <2>3, <2>4, RendererStays
  <2> QED
    BY <2>1, <2>3, <2>5 DEF RendererOK
<1> QED
  BY <1>3, <1>4, <1>5, <1>6 DEF InstallInv

\* What a step of manager m starts from.
LEMMA ManagerAtWork ==
  ASSUME InstallInv, NEW m \in Managers
  PROVE  /\ manager[m] \in Manager /\ manager[m].version \in Releases
         /\ manager[m].tries \in 0 .. StudiorackAttempts /\ manager[m].before \in Bundle
         /\ manager[m].from \in Place /\ manager[m].copy \in Bundle
         /\ manager[m].kind \in Kind /\ manager[m].clash \in BOOLEAN
         /\ ManagerOK(manager[m])
  BY DEF InstallInv, InstallTypeOK, Manager

LEMMA FileTypes ==
  ASSUME InstallInv
  PROVE  /\ portable \subseteq Releases /\ system \in Bundle /\ built \in Bundle
         /\ place \in [Releases -> Place] /\ unpacked \in [Releases -> Bundle]
         /\ ownership \in [Releases -> Kind \cup {NoSeal}]
         /\ seal \in [Releases -> Seal \cup {NoSeal}]
         /\ runtimeCopies \in [Releases -> Copy]
         /\ strays \subseteq Releases /\ clashes \subseteq Releases
         /\ manager \in [Managers -> Manager] /\ renderer \in [Renderers -> Renderer]
         /\ PlacesOK /\ SealsOK /\ LocksOK
  BY DEF InstallInv, InstallTypeOK


\* Taking a lock that is free.
LEMMA LockKeeps ==
  ASSUME InstallInv, NEW m \in Managers, NEW v \in Releases, NEW new \in Manager,
         manager[m].step = "idle", VersionFree(v), new.version = v,
         manager' = [manager EXCEPT ![m] = new], ManagerOK(new), FilesUnchanged
  PROVE  InstallInv'
<1>1. UNCHANGED <<portable, system, built, place, unpacked, ownership, seal, runtimeCopies, strays,
                  clashes, renderer>>
  BY DEF FilesUnchanged, versionRecords
<1>2. manager \in [Managers -> Manager] /\ renderer \in [Renderers -> Renderer]
  BY FileTypes
<1>3. /\ manager'[m] = new
      /\ \A n \in Managers \ {m} : manager'[n] = manager[n]
  BY <1>2
<1>4. InstallTypeOK'
  BY <1>1, <1>2, FileTypes DEF InstallTypeOK
<1>5. LocksOK'
  <2>1. /\ \A n \in Managers : manager[n].step # "idle" => manager[n].version # v
        /\ \A r \in Renderers : renderer[r].step # "idle" => renderer[r].version # v
    BY DEF VersionFree
  <2>2. LocksOK
    BY FileTypes
  <2> QED
    BY <1>1, <1>3, <2>1, <2>2 DEF LocksOK
<1>6. PlacesOK' /\ SealsOK'
  BY <1>1, FileTypes DEF PlacesOK, SealsOK
<1>7. ASSUME NEW n \in Managers PROVE ManagerOK(manager[n])'
  <2>1. ManagerOK(manager'[n])
    BY <1>3 DEF InstallInv
  <2> QED
    BY <1>1, <2>1 DEF ManagerOK, FoundOK
<1>8. ASSUME NEW r \in Renderers PROVE RendererOK(renderer[r])'
  <2>1. RendererOK(renderer[r])
    BY DEF InstallInv
  <2> QED
    BY <1>1, <2>1 DEF RendererOK
<1> QED
  BY <1>4, <1>5, <1>6, <1>7, <1>8 DEF InstallInv

\* Removing the version's directory.
LEMMA RemovalKeeps ==
  ASSUME InstallInv, NEW m \in Managers, manager[m].step # "idle",
         RemoveVersion(manager[m].version), NEW new \in Manager,
         manager' = [manager EXCEPT ![m] = new],
         new.step # "idle" => new.version = manager[m].version,
         ManagerOK(new)', strays' \subseteq Releases,
         UNCHANGED <<portable, system, built, clashes, renderer>>
  PROVE  InstallInv'
<1> DEFINE v == manager[m].version
<1>1. v \in Releases
  BY ManagerAtWork
<1>2. /\ place' \in [Releases -> Place] /\ PlacesOK'
      /\ \A w \in Releases \ {v} : place'[w] = place[w]
  BY <1>1, FileTypes DEF RemoveVersion, PlacesOK, Place
<1>3. /\ unpacked' \in [Releases -> Bundle]
      /\ \A w \in Releases \ {v} : unpacked'[w] = unpacked[w]
  BY <1>1, FileTypes DEF RemoveVersion, Bundle
<1>4. seal' \in [Releases -> Seal \cup {NoSeal}] /\ SealsOK'
  BY <1>1, FileTypes DEF RemoveVersion, SealsOK
<1>5. ownership' \in [Releases -> Kind \cup {NoSeal}]
  BY <1>1, FileTypes DEF RemoveVersion
<1>6. runtimeCopies' \in [Releases -> Copy]
  <2>1. NoCopy \in Copy
    BY DEF NoCopy, Copy, Bundle
  <2> QED
    BY <1>1, <2>1, FileTypes DEF RemoveVersion
<1> QED
  BY <1>2, <1>3, <1>4, <1>5, <1>6, FileTypes, OwnStepKeeps

LEMMA InstallKeeps ==
  ASSUME InstallInv, NEW m \in Managers, NEW v \in Releases, Install(m, v)
  PROVE  InstallInv'
<1> DEFINE new == [IdleManager EXCEPT
       !.step = IF LockedBundleIsSealed(v) THEN "refresh" ELSE "clear",
       !.version = v, !.kind = "artifact-lock"]
<1>1. new \in Manager /\ new.step \in {"refresh", "clear"} /\ new.version = v /\ new.from = "none"
  BY IdleIs DEF Manager, Kind
<1> HIDE DEF new
<1>2. manager[m].step = "idle" /\ VersionFree(v) /\ manager' = [manager EXCEPT ![m] = new]
      /\ FilesUnchanged
  BY DEF Install, new
<1> QED
  BY <1>1, <1>2, LockKeeps DEF ManagerOK, FoundOK

LEMMA AdoptBundleKeeps ==
  ASSUME InstallInv, NEW m \in Managers, NEW v \in Releases, NEW from \in {"system", "built"},
         AdoptBundle(m, v, from)
  PROVE  InstallInv'
<1> DEFINE new == [IdleManager EXCEPT
                   !.step = "adopt", !.version = v, !.from = from, !.kind = "explicit"]
<1>1. new \in Manager /\ new.step = "adopt" /\ new.version = v /\ new.from = from
      /\ new.kind = "explicit"
  BY IdleIs DEF Manager, Kind, Place
<1> HIDE DEF new
<1>2. manager[m].step = "idle" /\ VersionFree(v) /\ manager' = [manager EXCEPT ![m] = new]
      /\ FilesUnchanged
  BY DEF AdoptBundle, new
<1> QED
  BY <1>1, <1>2, LockKeeps DEF ManagerOK, FoundOK

LEMMA ClearingKeeps == ASSUME InstallInv, NEW m \in Managers, Clear(m) PROVE InstallInv'
<1> DEFINE v == manager[m].version
<1>1. /\ manager[m].step = "clear"
      /\ UNCHANGED <<portable, system, built, strays, clashes, renderer>>
  BY DEF Clear
<1>2. CASE RemoveVersion(v) /\ ManagerAt(m, "record")
  <2>0. [manager[m] EXCEPT !.step = "record"] \in Manager
    BY ManagerAtWork DEF Manager
  <2>1. PICK new \in Manager : new = [manager[m] EXCEPT !.step = "record"]
    BY <2>0
  <2>4. new.step = "record" /\ new.version = v /\ new.from = manager[m].from
    BY <2>1, ManagerAtWork DEF Manager
  <2>2. manager' = [manager EXCEPT ![m] = new]
    BY <1>2, <2>1, FileTypes DEF ManagerAt
  <2>3. ManagerOK(new)'
    BY <1>1, <2>4, ManagerAtWork DEF ManagerOK, FoundOK
  <2> QED
    BY <1>1, <1>2, <2>2, <2>3, <2>4, RemovalKeeps, FileTypes
<1>3. CASE /\ \/ place' = [place EXCEPT ![v] = IF @ = "unpacked" THEN @ ELSE "none"]
              \/ UNCHANGED place
           /\ unpacked' = [unpacked EXCEPT ![v] = IF @ = NoContent THEN @ ELSE Partial]
           /\ \/ ownership' = [ownership EXCEPT ![v] = NoSeal]
              \/ UNCHANGED ownership
           /\ \/ seal' = [seal EXCEPT ![v] = NoSeal]
              \/ UNCHANGED seal
           /\ UNCHANGED runtimeCopies
           /\ ManagerDone(m)
  <2>1. manager' = [manager EXCEPT ![m] = IdleManager]
    BY <1>3 DEF ManagerDone
  <2>2. /\ place' \in [Releases -> Place] /\ PlacesOK'
        /\ \A w \in Releases \ {v} : place'[w] = place[w]
    BY <1>1, <1>3, FileTypes, ManagerAtWork DEF PlacesOK, Place
  <2>3. /\ unpacked' \in [Releases -> Bundle]
        /\ \A w \in Releases \ {v} : unpacked'[w] = unpacked[w]
    BY <1>3, FileTypes, ManagerAtWork DEF Bundle, Content
  <2>4. seal' \in [Releases -> Seal \cup {NoSeal}] /\ SealsOK'
    BY <1>1, <1>3, FileTypes, ManagerAtWork DEF SealsOK
  <2>5. ownership' \in [Releases -> Kind \cup {NoSeal}] /\ runtimeCopies' \in [Releases -> Copy]
    BY <1>3, FileTypes
  <2>6. ManagerOK(IdleManager)'
    BY IdleIs DEF ManagerOK, FoundOK
  <2> QED
    BY <1>1, <2>1, <2>2, <2>3, <2>4, <2>5, <2>6, IdleIs, FileTypes, OwnStepKeeps
<1> QED
  BY <1>2, <1>3 DEF Clear

\* A manager that gives up its lock.
LEMMA DoneKeeps ==
  ASSUME InstallInv, NEW m \in Managers, manager[m].step # "idle", ManagerDone(m),
         UNCHANGED <<portable, system, built, place, unpacked, renderer, runtimeCopies, clashes>>,
         ownership' \in [Releases -> Kind \cup {NoSeal}],
         seal' \in [Releases -> Seal \cup {NoSeal}], SealsOK',
         strays' \subseteq Releases
  PROVE  InstallInv'
<1>1. manager' = [manager EXCEPT ![m] = IdleManager]
  BY DEF ManagerDone
<1>2. ManagerOK(IdleManager)'
  BY IdleIs DEF ManagerOK, FoundOK
<1>3. PlacesOK'
  BY FileTypes DEF PlacesOK
<1>4. place' \in [Releases -> Place] /\ unpacked' \in [Releases -> Bundle]
      /\ runtimeCopies' \in [Releases -> Copy] /\ clashes' \subseteq Releases
  BY FileTypes
<1> QED
  BY <1>1, <1>2, <1>3, <1>4, IdleIs, OwnStepKeeps

\* A manager that goes on, with the files as they are.
LEMMA GoesOnInstalling ==
  ASSUME InstallInv, NEW m \in Managers, manager[m].step # "idle", NEW new \in Manager,
         manager' = [manager EXCEPT ![m] = new], new.version = manager[m].version,
         ManagerOK(new), FilesUnchanged
  PROVE  InstallInv'
<1>1. UNCHANGED <<portable, system, built, place, unpacked, ownership, seal, runtimeCopies, strays,
                  clashes, renderer>>
  BY DEF FilesUnchanged, versionRecords
<1>2. ManagerOK(new)'
  BY <1>1 DEF ManagerOK, FoundOK
<1>3. PlacesOK' /\ SealsOK'
  BY <1>1, FileTypes DEF PlacesOK, SealsOK
<1>4. /\ place' \in [Releases -> Place] /\ unpacked' \in [Releases -> Bundle]
      /\ ownership' \in [Releases -> Kind \cup {NoSeal}]
      /\ seal' \in [Releases -> Seal \cup {NoSeal}]
      /\ runtimeCopies' \in [Releases -> Copy] /\ clashes' \subseteq Releases
      /\ strays' \subseteq Releases
  BY <1>1, FileTypes
<1> QED
  BY <1>1, <1>2, <1>3, <1>4, OwnStepKeeps


LEMMA RecordSystemKeeps ==
  ASSUME InstallInv, NEW m \in Managers, RecordSystem(m) PROVE InstallInv'
<1>1. [manager[m] EXCEPT !.step = "run", !.before = system] \in Manager
  BY ManagerAtWork, FileTypes DEF Manager
<1>2. PICK new \in Manager : new = [manager[m] EXCEPT !.step = "run", !.before = system]
  BY <1>1
<1>3. /\ new.step = "run" /\ new.version = manager[m].version /\ new.from = manager[m].from
      /\ manager' = [manager EXCEPT ![m] = new]
      /\ manager[m].step = "record" /\ FilesUnchanged
  BY <1>2, FileTypes, ManagerAtWork DEF RecordSystem, Manager
<1>4. ManagerOK(new)
  BY <1>3, ManagerAtWork DEF ManagerOK, FoundOK
<1> QED
  BY <1>3, <1>4, GoesOnInstalling

LEMMA FinishOutputKeeps ==
  ASSUME InstallInv, NEW m \in Managers, FinishOutput(m) PROVE InstallInv'
<1> DEFINE v == manager[m].version
<1>1. manager[m].step = "finish" /\ FilesUnchanged
  BY DEF FinishOutput
<1>2. UNCHANGED <<portable, system, built, place, unpacked, renderer, runtimeCopies, clashes, ownership,
                  seal, strays>>
  BY <1>1 DEF FilesUnchanged, versionRecords
<1>3. CASE ManagerDone(m)
  <2>1. SealsOK'
    BY <1>2, FileTypes DEF SealsOK
  <2>2. ownership' \in [Releases -> Kind \cup {NoSeal}] /\ seal' \in [Releases -> Seal \cup {NoSeal}]
        /\ strays' \subseteq Releases
    BY <1>2, FileTypes
  <2> QED
    BY <1>1, <1>2, <1>3, <2>1, <2>2, DoneKeeps
<1>4. CASE /\ place[v] = "unpacked" /\ Inspected(unpacked[v], v)
           /\ manager' = [manager EXCEPT ![m].step = "own", ![m].from = "unpacked",
                                         ![m].copy = unpacked[v]]
  <2>1. [manager[m] EXCEPT !.step = "own", !.from = "unpacked", !.copy = unpacked[v]] \in Manager
    BY ManagerAtWork, FileTypes DEF Manager, Place
  <2>2. PICK new \in Manager :
          new = [manager[m] EXCEPT !.step = "own", !.from = "unpacked", !.copy = unpacked[v]]
    BY <2>1
  <2>3. /\ new.step = "own" /\ new.version = v /\ new.from = "unpacked"
        /\ new.copy = unpacked[v] /\ new.kind = manager[m].kind /\ new.clash = manager[m].clash
    BY <2>2, ManagerAtWork DEF Manager
  <2>4. manager' = [manager EXCEPT ![m] = new]
    BY <1>4, <2>2, FileTypes
  <2>5. v \in portable
    BY <1>4, FileTypes, ManagerAtWork DEF PlacesOK
  <2>6. unpacked[v] # NoContent
    BY <1>4, ManagerAtWork, InstallAssumption DEF Inspected
  <2>7. ManagerOK(new)
    BY <1>1, <1>4, <2>3, <2>5, <2>6, ManagerAtWork DEF ManagerOK, FoundOK
  <2> QED
    BY <1>1, <2>3, <2>4, <2>7, GoesOnInstalling
<1>5. CASE /\ place[v] # "unpacked" /\ Changed(m)
           /\ manager' = [manager EXCEPT ![m].step = "adopt", ![m].from = "system"]
  <2>1. [manager[m] EXCEPT !.step = "adopt", !.from = "system"] \in Manager
    BY ManagerAtWork, FileTypes DEF Manager, Place
  <2>2. PICK new \in Manager : new = [manager[m] EXCEPT !.step = "adopt", !.from = "system"]
    BY <2>1
  <2>3. /\ new.step = "adopt" /\ new.version = v /\ new.from = "system"
        /\ new.kind = manager[m].kind /\ new.clash = manager[m].clash
    BY <2>2, ManagerAtWork DEF Manager
  <2>4. manager' = [manager EXCEPT ![m] = new]
    BY <1>5, <2>2, FileTypes
  <2>5. system \notin {NoContent, manager[m].before}
    BY <1>5 DEF Changed
  <2>6. ManagerOK(new)
    BY <1>1, <1>5, <2>3, <2>5, ManagerAtWork DEF ManagerOK, FoundOK
  <2> QED
    BY <1>1, <2>3, <2>4, <2>6, GoesOnInstalling
<1> QED
  BY <1>3, <1>4, <1>5 DEF FinishOutput

\* Giving up with the files as they are.
LEMMA GivesUpKeeps ==
  ASSUME InstallInv, NEW m \in Managers, manager[m].step # "idle", ManagerDone(m), FilesUnchanged
  PROVE  InstallInv'
<1>1. UNCHANGED <<portable, system, built, place, unpacked, renderer, runtimeCopies, clashes,
                  ownership, seal, strays>>
  BY DEF FilesUnchanged, versionRecords
<1>2. SealsOK'
  BY <1>1, FileTypes DEF SealsOK
<1>3. ownership' \in [Releases -> Kind \cup {NoSeal}] /\ seal' \in [Releases -> Seal \cup {NoSeal}]
      /\ strays' \subseteq Releases
  BY <1>1, FileTypes
<1> QED
  BY <1>1, <1>2, <1>3, DoneKeeps

LEMMA StartAdoptionKeeps ==
  ASSUME InstallInv, NEW m \in Managers, StartAdoption(m) PROVE InstallInv'
<1>1. manager[m].step = "adopt" /\ FilesUnchanged
  BY DEF StartAdoption
<1>2. CASE ManagerDone(m)
  BY <1>1, <1>2, GivesUpKeeps
<1>3. CASE ManagerAt(m, "copy")
  <2>1. [manager[m] EXCEPT !.step = "copy"] \in Manager
    BY ManagerAtWork DEF Manager
  <2>2. PICK new \in Manager : new = [manager[m] EXCEPT !.step = "copy"]
    BY <2>1
  <2>3. /\ new.step = "copy" /\ new.version = manager[m].version /\ new.from = manager[m].from
        /\ new.kind = manager[m].kind /\ new.clash = manager[m].clash
        /\ manager' = [manager EXCEPT ![m] = new]
    BY <1>3, <2>2, FileTypes, ManagerAtWork DEF ManagerAt, Manager
  <2>4. ManagerOK(new)
    BY <1>1, <2>3, ManagerAtWork DEF ManagerOK, FoundOK
  <2> QED
    BY <1>1, <2>3, <2>4, GoesOnInstalling
<1> QED
  BY <1>2, <1>3 DEF StartAdoption

LEMMA CopySourceKeeps ==
  ASSUME InstallInv, NEW m \in Managers, CopySource(m) PROVE InstallInv'
<1>1. manager[m].step = "copy" /\ FilesUnchanged
  BY DEF CopySource
<1>2. CASE ManagerDone(m)
  BY <1>1, <1>2, GivesUpKeeps
<1>3. CASE /\ Inspected(At(manager[m].from), manager[m].version)
           /\ manager' = [manager EXCEPT ![m].step = "own", ![m].copy = At(manager[m].from)]
  <2>1. At(manager[m].from) \in Bundle \ {NoContent}
    BY <1>3, FileTypes, ManagerAtWork, InstallAssumption DEF At, Inspected
  <2>2. PICK c \in Bundle \ {NoContent} : c = At(manager[m].from)
    BY <2>1
  <2>3. [manager[m] EXCEPT !.step = "own", !.copy = c] \in Manager
    BY ManagerAtWork DEF Manager
  <2>4. PICK new \in Manager : new = [manager[m] EXCEPT !.step = "own", !.copy = c]
    BY <2>3
  <2>5. /\ new.step = "own" /\ new.version = manager[m].version /\ new.copy = c
        /\ new.from = manager[m].from
        /\ new.kind = manager[m].kind /\ new.clash = manager[m].clash
    BY <2>4, ManagerAtWork DEF Manager
  <2>6. manager' = [manager EXCEPT ![m] = new]
    BY <1>3, <2>2, <2>4, FileTypes
  <2>7. ManagerOK(new)
    BY <1>1, <2>2, <2>5, ManagerAtWork DEF ManagerOK, FoundOK, At
  <2> QED
    BY <1>1, <2>5, <2>6, <2>7, GoesOnInstalling
<1> QED
  BY <1>2, <1>3 DEF CopySource

LEMMA WriteOwnershipKeeps ==
  ASSUME InstallInv, NEW m \in Managers, WriteOwnership(m) PROVE InstallInv'
<1>1. [manager[m] EXCEPT !.step = "seal"] \in Manager
  BY ManagerAtWork DEF Manager
<1>2. PICK new \in Manager : new = [manager[m] EXCEPT !.step = "seal"]
  BY <1>1
<1>3. /\ new.step = "seal" /\ new.version = manager[m].version /\ new.from = manager[m].from
      /\ new.copy = manager[m].copy /\ new.kind = manager[m].kind /\ new.clash = manager[m].clash
  BY <1>2, ManagerAtWork DEF Manager
<1>4. /\ manager' = [manager EXCEPT ![m] = new] /\ manager[m].step = "own"
      /\ UNCHANGED <<portable, system, built, place, unpacked, seal, runtimeCopies, strays, clashes,
                     renderer>>
  BY <1>2, FileTypes DEF WriteOwnership, ManagerAt
<1>5. ownership' \in [Releases -> Kind \cup {NoSeal}]
  BY FileTypes, ManagerAtWork DEF WriteOwnership
<1>6. ManagerOK(new)'
  BY <1>3, <1>4, ManagerAtWork DEF ManagerOK, FoundOK
<1>7. PlacesOK' /\ SealsOK'
  BY <1>4, FileTypes DEF PlacesOK, SealsOK
<1> QED
  BY <1>3, <1>4, <1>5, <1>6, <1>7, FileTypes, OwnStepKeeps

LEMMA WriteSealKeeps ==
  ASSUME InstallInv, NEW m \in Managers, WriteSeal(m) PROVE InstallInv'
<1> DEFINE v == manager[m].version
           s == [kind |-> manager[m].kind, content |-> manager[m].copy]
<1>1. /\ manager[m].step = "seal"
      /\ seal' = [seal EXCEPT ![v] = s]
      /\ clashes' = IF manager[m].clash THEN clashes \cup {v} ELSE clashes \ {v}
      /\ ManagerDone(m) \/ ManagerAt(m, "link")
      /\ UNCHANGED <<portable, system, built, place, unpacked, ownership, runtimeCopies, strays,
                     renderer>>
  BY DEF WriteSeal
<1>2. v \in Releases /\ manager[m].copy # NoContent
  BY <1>1, ManagerAtWork DEF ManagerOK
<1>3. s \in Seal
  BY <1>2, ManagerAtWork DEF Seal, Bundle
<1>4. s.kind = "artifact-lock" /\ ~manager[m].clash => s.content = v
  BY <1>1, ManagerAtWork DEF ManagerOK, FoundOK
<1> HIDE DEF s
<1>5. seal' \in [Releases -> Seal \cup {NoSeal}] /\ clashes' \subseteq Releases
  BY <1>1, <1>2, <1>3, FileTypes
<1>6. SealsOK'
  BY <1>1, <1>2, <1>4, FileTypes DEF SealsOK
<1>7. PlacesOK'
  BY <1>1, FileTypes DEF PlacesOK
<1>8. /\ place' \in [Releases -> Place] /\ unpacked' \in [Releases -> Bundle]
      /\ ownership' \in [Releases -> Kind \cup {NoSeal}]
      /\ runtimeCopies' \in [Releases -> Copy] /\ strays' \subseteq Releases
  BY <1>1, FileTypes
<1>9. CASE ManagerDone(m)
  <2>1. manager' = [manager EXCEPT ![m] = IdleManager]
    BY <1>9 DEF ManagerDone
  <2>2. ManagerOK(IdleManager)'
    BY IdleIs DEF ManagerOK, FoundOK
  <2> QED
    BY <1>1, <1>5, <1>6, <1>7, <1>8, <2>1, <2>2, IdleIs, OwnStepKeeps
<1>10. CASE ManagerAt(m, "link")
  <2>1. [manager[m] EXCEPT !.step = "link"] \in Manager
    BY ManagerAtWork DEF Manager
  <2>2. PICK new \in Manager : new = [manager[m] EXCEPT !.step = "link"]
    BY <2>1
  <2>3. new.step = "link" /\ new.version = v /\ new.from = manager[m].from
    BY <2>2, ManagerAtWork DEF Manager
  <2>4. manager' = [manager EXCEPT ![m] = new]
    BY <1>10, <2>2, FileTypes DEF ManagerAt
  <2>5. ManagerOK(new)'
    BY <1>1, <2>3, ManagerAtWork DEF ManagerOK, FoundOK
  <2> QED
    BY <1>1, <1>5, <1>6, <1>7, <1>8, <2>3, <2>4, <2>5, OwnStepKeeps
<1> QED
  BY <1>1, <1>9, <1>10

LEMMA LinkSourceKeeps ==
  ASSUME InstallInv, NEW m \in Managers, LinkSource(m) PROVE InstallInv'
<1> DEFINE v == manager[m].version
<1>1. /\ manager[m].step = "link" /\ place[v] = "none"
      /\ place' = [place EXCEPT ![v] = manager[m].from]
      /\ manager' = [manager EXCEPT ![m] = IdleManager]
      /\ UNCHANGED <<portable, system, built, unpacked, ownership, seal, runtimeCopies, strays,
                     clashes, renderer>>
  BY DEF LinkSource, ManagerDone
<1>2. v \in Releases /\ manager[m].from \in Place
  BY ManagerAtWork
<1>3. /\ place' \in [Releases -> Place] /\ PlacesOK'
      /\ \A w \in Releases \ {v} : place'[w] = place[w]
  BY <1>1, <1>2, FileTypes, ManagerAtWork DEF PlacesOK, ManagerOK
<1>4. SealsOK'
  BY <1>1, FileTypes DEF SealsOK
<1>5. ManagerOK(IdleManager)'
  BY IdleIs DEF ManagerOK, FoundOK
<1>6. /\ unpacked' \in [Releases -> Bundle] /\ ownership' \in [Releases -> Kind \cup {NoSeal}]
      /\ seal' \in [Releases -> Seal \cup {NoSeal}]
      /\ runtimeCopies' \in [Releases -> Copy] /\ strays' \subseteq Releases /\ clashes' \subseteq Releases
  BY <1>1, FileTypes
<1> QED
  BY <1>1, <1>3, <1>4, <1>5, <1>6, IdleIs, OwnStepKeeps

LEMMA LinkErrorKeeps ==
  ASSUME InstallInv, NEW m \in Managers, LinkError(m) PROVE InstallInv'
<1> DEFINE v == manager[m].version
<1>1. /\ manager[m].step = "link" /\ ManagerDone(m)
      /\ UNCHANGED <<portable, system, built, place, unpacked, runtimeCopies, strays, clashes,
                     renderer>>
  BY DEF LinkError
<1>2. \/ /\ ownership' = [ownership EXCEPT ![v] = NoSeal]
         /\ seal' = [seal EXCEPT ![v] = NoSeal]
      \/ UNCHANGED <<ownership, seal>>
  BY DEF LinkError
<1>3. /\ ownership' \in [Releases -> Kind \cup {NoSeal}]
      /\ seal' \in [Releases -> Seal \cup {NoSeal}] /\ SealsOK' /\ strays' \subseteq Releases
  BY <1>1, <1>2, FileTypes, ManagerAtWork DEF SealsOK
<1> QED
  BY <1>1, <1>3, DoneKeeps

LEMMA ManagerCrashKeeps ==
  ASSUME InstallInv, NEW m \in Managers, ManagerCrash(m) PROVE InstallInv'
<1>1. /\ manager[m].step # "idle" /\ ManagerDone(m)
      /\ UNCHANGED <<portable, system, built, place, unpacked, ownership, seal, runtimeCopies, clashes,
                     renderer>>
  BY DEF ManagerCrash, versionRecords
<1>2. strays' \subseteq Releases
  BY FileTypes, ManagerAtWork DEF ManagerCrash
<1>3. SealsOK'
  BY <1>1, FileTypes DEF SealsOK
<1> QED
  BY <1>1, <1>2, <1>3, FileTypes, DoneKeeps

LEMMA StudiorackFailsKeeps ==
  ASSUME InstallInv, NEW m \in Managers, StudiorackFails(m) PROVE InstallInv'
<1> DEFINE v == manager[m].version
<1>1. /\ manager[m].step \in Attempting
      /\ IF manager[m].step = "running" THEN RemoveVersion(v) ELSE UNCHANGED versionRecords
      /\ strays' \in {strays, strays \cup {v}}
      /\ UNCHANGED <<portable, system, built, clashes, renderer>>
  BY DEF StudiorackFails
<1>2. manager[m].step # "idle" /\ strays' \subseteq Releases
  BY <1>1, FileTypes, ManagerAtWork DEF Attempting
<1>3. PICK new \in Manager :
        /\ manager' = [manager EXCEPT ![m] = new]
        /\ \/ new = IdleManager
           \/ /\ new.step \in {"run", "refresh"} /\ new.version = v
              /\ new.from = manager[m].from
  <2>1. CASE ManagerDone(m)
    BY <2>1, IdleIs DEF ManagerDone
  <2>2. CASE /\ manager[m].tries + 1 < StudiorackAttempts
             /\ manager' = [manager EXCEPT ![m].tries = @ + 1,
                  ![m].step = IF manager[m].step = "running" THEN "run" ELSE "refresh"]
    <3> DEFINE new == [manager[m] EXCEPT !.tries = @ + 1,
                         !.step = IF manager[m].step = "running" THEN "run" ELSE "refresh"]
    <3>1. manager[m].tries + 1 \in 0 .. StudiorackAttempts
      BY <2>2, ManagerAtWork, InstallAssumption
    <3>2. new \in Manager /\ new.step \in {"run", "refresh"} /\ new.version = v
          /\ new.from = manager[m].from
      BY <3>1, ManagerAtWork DEF Manager
    <3>3. manager' = [manager EXCEPT ![m] = new]
      BY <2>2, FileTypes
    <3> QED
      BY <3>2, <3>3
  <2> QED
    BY <2>1, <2>2 DEF StudiorackFails
<1>4. ManagerOK(new)'
  BY <1>1, <1>3, IdleIs, ManagerAtWork DEF ManagerOK, FoundOK
<1>5. new.step # "idle" => new.version = v
  BY <1>3, IdleIs
<1>6. CASE RemoveVersion(v)
  BY <1>1, <1>2, <1>3, <1>4, <1>5, <1>6, RemovalKeeps
<1>7. CASE UNCHANGED versionRecords
  <2>1. UNCHANGED <<place, unpacked, ownership, seal, runtimeCopies>>
    BY <1>7 DEF versionRecords
  <2>2. PlacesOK' /\ SealsOK'
    BY <1>1, <2>1, FileTypes DEF PlacesOK, SealsOK
  <2> QED
    BY <1>1, <1>2, <1>3, <1>4, <1>5, <2>1, <2>2, FileTypes, OwnStepKeeps
<1> QED
  BY <1>1, <1>6, <1>7


\* A manager that is told of another writer knows the same as before.
LEMMA DisturbedKnows ==
  ASSUME InstallInv, NEW v \in Releases, NEW others \in SUBSET Managers, NEW n \in Managers,
         NEW new, new = Disturbed(others, v)[n]
  PROVE  /\ new \in Manager
         /\ new.step = manager[n].step /\ new.version = manager[n].version
         /\ new.before = manager[n].before /\ new.from = manager[n].from
         /\ new.copy = manager[n].copy /\ new.kind = manager[n].kind
         /\ manager[n].clash => new.clash
         /\ n \in others /\ manager[n].kind = "artifact-lock" /\ ~new.clash =>
              ~SamePlace(v, manager[n].version)
         /\ n \notin others => new = manager[n]
<1> DEFINE hit == n \in others /\ manager[n].kind = "artifact-lock" /\ SamePlace(v, manager[n].version)
<1>1. new = IF hit THEN [manager[n] EXCEPT !.clash = TRUE] ELSE manager[n]
  BY DEF Disturbed
<1>2. CASE hit
  <2>1. new = [manager[n] EXCEPT !.clash = TRUE]
    BY <1>1, <1>2
  <2> QED
    BY <1>2, <2>1, ManagerAtWork DEF Manager
<1>3. CASE ~hit
  <2>1. new = manager[n]
    BY <1>1, <1>3
  <2> QED
    BY <1>3, <2>1, ManagerAtWork
<1> QED
  BY <1>2, <1>3

LEMMA RendererDisturbed ==
  ASSUME InstallInv, NEW v \in Releases, NEW r \in Renderers,
         NEW new, new = RenderersDisturbed(v)[r]
  PROVE  /\ new \in Renderer
         /\ new.step = renderer[r].step /\ new.version = renderer[r].version
         /\ new.seal = renderer[r].seal /\ new.content = renderer[r].content
         /\ renderer[r].clash => new.clash
         /\ new.step # "idle" /\ ~new.clash => new.version # v
<1>1. renderer[r] \in Renderer
  BY FileTypes
<1>2. new = IF renderer[r].step # "idle" /\ renderer[r].version = v
            THEN [renderer[r] EXCEPT !.clash = TRUE] ELSE renderer[r]
  BY DEF RenderersDisturbed
<1> QED
  BY <1>1, <1>2 DEF Renderer

\* What a write for version v changes.
LEMMA WriteChanges ==
  ASSUME InstallInv, NEW v \in Releases,
         UNCHANGED <<system, place, unpacked>> \/ \E c \in Content : Written(v, c)
  PROVE  /\ place' \in [Releases -> Place] /\ unpacked' \in [Releases -> Bundle] /\ system' \in Bundle
         /\ \A w \in Releases : place'[w] = "unpacked" => w \in portable
         /\ v \in portable => system' = system
         /\ v \notin portable => UNCHANGED <<place, unpacked>>
         /\ \A w \in Releases \ {v} : place'[w] = place[w] /\ unpacked'[w] = unpacked[w]
<1>1. CASE UNCHANGED <<system, place, unpacked>>
  BY <1>1, FileTypes DEF PlacesOK
<1>2. CASE \E c \in Content : Written(v, c)
  <2>1. PICK c \in Content : Written(v, c)
    BY <1>2
  <2>2. CASE v \in portable
    BY <2>1, <2>2, FileTypes DEF Written, Place, Bundle, PlacesOK
  <2>3. CASE v \notin portable
    BY <2>1, <2>3, FileTypes DEF Written, Bundle, PlacesOK
  <2> QED
    BY <2>2, <2>3
<1> QED
  BY <1>1, <1>2

\* A write, told to those who might have seen it.
LEMMA WritingKeeps ==
  ASSUME InstallInv, NEW v \in Releases,
         UNCHANGED <<system, place, unpacked>> \/ \E c \in Content : Written(v, c),
         UNCHANGED <<portable, built, ownership, seal, runtimeCopies, clashes>>,
         strays' \subseteq Releases, NEW others \in SUBSET Managers,
         manager' \in [Managers -> Manager], renderer' \in [Renderers -> Renderer],
         \A n \in others : manager'[n] = Disturbed(others, v)[n],
         \A n \in Managers \ others : /\ manager[n].step # "idle"
                                      /\ manager'[n].step # "idle" =>
                                           manager'[n].version = manager[n].version
                                      /\ ManagerOK(manager[n])',
         \/ renderer' = RenderersDisturbed(v)
         \/ /\ UNCHANGED renderer
            /\ \A r \in Renderers : renderer[r].step # "idle" => renderer[r].version # v
  PROVE  InstallInv'
<1>1. /\ place' \in [Releases -> Place] /\ unpacked' \in [Releases -> Bundle] /\ system' \in Bundle
      /\ PlacesOK'
      /\ v \in portable => system' = system
      /\ v \notin portable => UNCHANGED <<place, unpacked>>
      /\ \A w \in Releases \ {v} : place'[w] = place[w] /\ unpacked'[w] = unpacked[w]
  BY WriteChanges DEF PlacesOK
<1>2. InstallTypeOK'
  BY <1>1, FileTypes DEF InstallTypeOK
<1>3. SealsOK'
  BY FileTypes DEF SealsOK
<1>4. ASSUME NEW n \in Managers
      PROVE  /\ ManagerOK(manager[n])'
             /\ manager'[n].step # "idle" =>
                  manager[n].step # "idle" /\ manager'[n].version = manager[n].version
  <2>1. CASE n \in others
    <3>1. PICK new \in Manager : new = manager'[n]
      OBVIOUS
    <3>2. PICK me \in Manager : me = manager[n] /\ ManagerOK(me) /\ me.version \in Releases
      BY ManagerAtWork
    <3>3. new = Disturbed(others, v)[n]
      BY <2>1, <3>1
    <3>4. /\ new.step = me.step /\ new.version = me.version /\ new.before = me.before
          /\ new.from = me.from /\ new.copy = me.copy /\ new.kind = me.kind
          /\ me.clash => new.clash
          /\ me.kind = "artifact-lock" /\ ~new.clash => ~SamePlace(v, me.version)
      BY <2>1, <3>2, <3>3, DisturbedKnows
    <3>5. ~SamePlace(v, me.version) =>
            IF me.version \in portable
            THEN place'[me.version] = place[me.version] /\ unpacked'[me.version] = unpacked[me.version]
            ELSE system' = system
      BY <1>1, <3>2 DEF SamePlace
    <3>6. ManagerOK(new)'
      BY <3>2, <3>4, <3>5, ManagerStays
    <3> QED
      BY <3>1, <3>2, <3>4, <3>6 DEF ManagerOK, FoundOK
  <2>2. CASE n \notin others
    BY <2>2
  <2> QED
    BY <2>1, <2>2
<1>5. ASSUME NEW r \in Renderers
      PROVE  /\ RendererOK(renderer[r])'
             /\ renderer'[r].step # "idle" =>
                  renderer[r].step # "idle" /\ renderer'[r].version = renderer[r].version
  <2>1. PICK new \in Renderer : new = renderer'[r]
    OBVIOUS
  <2>2. PICK me \in Renderer : me = renderer[r] /\ RendererOK(me) /\ me.version \in Releases
    BY FileTypes DEF InstallInv, Renderer
  <2>3. /\ new.step = me.step /\ new.version = me.version /\ new.seal = me.seal
        /\ new.content = me.content
        /\ me.clash => new.clash
        /\ me.step # "idle" /\ ~new.clash => me.version # v
    <3>1. CASE renderer' = RenderersDisturbed(v)
      BY <2>1, <2>2, <3>1, RendererDisturbed
    <3>2. CASE /\ UNCHANGED renderer
               /\ \A q \in Renderers : renderer[q].step # "idle" => renderer[q].version # v
      BY <2>1, <2>2, <3>2
    <3> QED
      BY <3>1, <3>2
  <2>4. RendererOK(new)'
    BY <1>1, <2>2, <2>3, RendererStays
  <2> QED
    BY <2>1, <2>2, <2>3, <2>4 DEF RendererOK
<1>6. LocksOK'
  BY <1>4, <1>5, FileTypes, LocksStay
<1> QED
  BY <1>1, <1>2, <1>3, <1>4, <1>5, <1>6 DEF InstallInv


\* A write by the installer of a manager, which has the version's lock.
LEMMA OwnWriteKeeps ==
  ASSUME InstallInv, NEW m \in Managers, manager[m].step # "idle",
         \/ UNCHANGED <<system, place, unpacked>>
         \/ \E c \in Content : Written(manager[m].version, c),
         UNCHANGED <<portable, built, ownership, seal, runtimeCopies, strays, clashes, renderer>>,
         NEW new \in Manager,
         manager' = [Disturbed(Managers \ {m}, manager[m].version) EXCEPT ![m] = new],
         new.step # "idle" => new.version = manager[m].version,
         ManagerOK(new)'
  PROVE  InstallInv'
<1>1. PICK v \in Releases : v = manager[m].version
  BY ManagerAtWork
<1>2. PICK others \in SUBSET Managers : others = Managers \ {m}
  OBVIOUS
<1>3. manager' = [Disturbed(others, v) EXCEPT ![m] = new]
  BY <1>1, <1>2
<1>4. DOMAIN Disturbed(others, v) = Managers
  BY DEF Disturbed
<1>5. manager' = [n \in Managers |-> IF n = m THEN new ELSE Disturbed(others, v)[n]]
  BY <1>3, <1>4, Zenon
<1>6. \A n \in Managers : Disturbed(others, v)[n] \in Manager
  BY DisturbedKnows
<1>7. manager' \in [Managers -> Manager]
  BY <1>5, <1>6
<1>8. \A n \in others : manager'[n] = Disturbed(others, v)[n]
  BY <1>2, <1>5
<1>9. manager'[m] = new
  BY <1>5
<1>10. ManagerOK(manager[m])'
  BY <1>9 DEF ManagerOK, FoundOK
<1>11. \A n \in Managers \ others : n = m
  BY <1>2
<1>12. \A r \in Renderers : renderer[r].step # "idle" => renderer[r].version # v
  BY <1>1, FileTypes DEF LocksOK
<1>13. strays' \subseteq Releases /\ renderer' \in [Renderers -> Renderer]
  BY FileTypes
<1>14. ASSUME NEW n \in Managers \ others
       PROVE  /\ manager[n].step # "idle"
              /\ manager'[n].step # "idle" => manager'[n].version = manager[n].version
              /\ ManagerOK(manager[n])'
  <2>1. n = m
    BY <1>11
  <2> QED
    BY <1>9, <1>10, <2>1
<1>15. UNCHANGED <<system, place, unpacked>> \/ \E c \in Content : Written(v, c)
  BY <1>1
<1>16. UNCHANGED <<portable, built, ownership, seal, runtimeCopies, clashes, renderer>>
  OBVIOUS
<1>17. others \in SUBSET Managers /\ v \in Releases
  BY <1>1, <1>2
<1> QED
  BY ZenonT(60), <1>7, <1>8, <1>12, <1>13, <1>14, <1>15, <1>16, <1>17, WritingKeeps

LEMMA StudiorackBeginsKeeps ==
  ASSUME InstallInv, NEW m \in Managers, StudiorackBegins(m) PROVE InstallInv'
<1> DEFINE v == manager[m].version
           others == Managers \ {m}
           mixed == Mixed(others, {}, v)
           step == IF manager[m].step = "run" THEN "running" ELSE "refreshing"
<1>1. /\ manager[m].step \in {"run", "refresh"}
      /\ UNCHANGED <<portable, built, ownership, seal, runtimeCopies, strays, clashes, renderer>>
  BY DEF StudiorackBegins
<1>2. UNCHANGED <<system, place, unpacked>> \/ \E c \in Content : Written(v, c)
  <2>1. {Partial, v} \subseteq Content
    BY ManagerAtWork DEF Content
  <2> QED
    BY <2>1 DEF StudiorackBegins
<1>3. manager' = [Disturbed(others, v) EXCEPT ![m].step = step, ![m].clash = manager[m].clash \/ mixed]
  <2>1. Disturbed(others, v)[m] = manager[m] /\ m \in DOMAIN Disturbed(others, v)
    BY DEF Disturbed
  <2> QED
    BY <2>1 DEF StudiorackBegins
<1> HIDE DEF mixed
<1>4. PICK flag \in BOOLEAN : flag = (manager[m].clash \/ mixed)
  OBVIOUS
<1>5. PICK new \in Manager : new = [manager[m] EXCEPT !.step = step, !.clash = flag]
  BY ManagerAtWork DEF Manager
<1>6. /\ new.step \in {"running", "refreshing"} /\ new.version = v /\ new.from = manager[m].from
  BY <1>5, ManagerAtWork DEF Manager
<1>7. manager' = [Disturbed(others, v) EXCEPT ![m] = new]
  <2>1. Disturbed(others, v)[m] = manager[m] /\ m \in DOMAIN Disturbed(others, v)
    BY DEF Disturbed
  <2> QED
    BY <1>3, <1>4, <1>5, <2>1
<1> QED
  BY <1>1, <1>2, <1>6, <1>7, ManagerAtWork, OwnWriteKeeps DEF ManagerOK, FoundOK

LEMMA StudiorackEndsKeeps ==
  ASSUME InstallInv, NEW m \in Managers, StudiorackEnds(m) PROVE InstallInv'
<1> DEFINE v == manager[m].version
           others == Managers \ {m}
           mixed == Mixed(others, {}, v)
<1>1. /\ manager[m].step \in Attempting
      /\ UNCHANGED <<portable, built, ownership, seal, runtimeCopies, strays, clashes, renderer>>
      /\ v \in Releases
  BY ManagerAtWork DEF StudiorackEnds
<1>2. \/ Written(v, IF mixed THEN Partial ELSE v)
      \/ v \notin portable /\ system = manager[m].before /\ UNCHANGED <<system, place, unpacked>>
  BY DEF StudiorackEnds
<1>3. UNCHANGED <<system, place, unpacked>> \/ \E c \in Content : Written(v, c)
  <2>1. {Partial, v} \subseteq Content
    BY <1>1 DEF Content
  <2> QED
    BY <1>2, <2>1
<1>4. manager' = [Disturbed(others, v) EXCEPT ![m] =
           IF manager[m].step = "running"
           THEN [manager[m] EXCEPT !.step = "finish", !.clash = manager[m].clash \/ mixed]
           ELSE IdleManager]
  <2>1. manager[m] \in Manager
    BY ManagerAtWork
  <2>2. [manager[m] EXCEPT !.step = "finish", !.clash = @ \/ mixed]
          = [manager[m] EXCEPT !.step = "finish", !.clash = manager[m].clash \/ mixed]
    OBVIOUS
  <2> QED
    BY <2>2 DEF StudiorackEnds
<1>5. CASE manager[m].step = "running"
  <2>1. PICK flag \in BOOLEAN : flag = (manager[m].clash \/ mixed)
    BY ManagerAtWork
  <2>2. PICK new \in Manager : new = [manager[m] EXCEPT !.step = "finish", !.clash = flag]
    BY ManagerAtWork DEF Manager
  <2>3. /\ new.step = "finish" /\ new.version = v /\ new.from = manager[m].from
        /\ new.before = manager[m].before /\ new.clash = flag
    BY <2>2, ManagerAtWork DEF Manager
  <2>4. manager' = [Disturbed(others, v) EXCEPT ![m] = new]
    BY <1>4, <1>5, <2>1, <2>2
  <2>5. FoundOK(new)'
    <3>1. CASE ~new.clash
      <4>1. ~mixed
        BY <2>1, <2>3, <3>1
      <4>2. CASE Written(v, v)
        BY <1>1, <2>3, <4>2, FileTypes DEF FoundOK, Written
      <4>3. CASE v \notin portable /\ system = manager[m].before /\ UNCHANGED <<system, place, unpacked>>
        BY <1>1, <2>3, <4>3 DEF FoundOK
      <4> QED
        BY <1>2, <4>1, <4>2, <4>3
    <3>2. CASE new.clash
      BY <3>2 DEF FoundOK
    <3> QED
      BY <3>1, <3>2
  <2>6. ManagerOK(new)'
    BY <1>1, <2>3, <2>5, ManagerAtWork DEF ManagerOK
  <2> QED
    BY <1>1, <1>3, <1>5, <2>3, <2>4, <2>6, OwnWriteKeeps
<1>6. CASE manager[m].step # "running"
  <2>1. manager' = [Disturbed(others, v) EXCEPT ![m] = IdleManager]
    BY <1>4, <1>6
  <2>2. ManagerOK(IdleManager)'
    BY IdleIs DEF ManagerOK, FoundOK
  <2>3. manager[m].step # "idle"
    BY <1>1 DEF Attempting
  <2> QED
    BY <1>1, <1>3, <2>1, <2>2, <2>3, IdleIs, OwnWriteKeeps
<1> QED
  BY <1>5, <1>6

LEMMA StrayWritesKeeps ==
  ASSUME InstallInv, NEW v \in Releases, StrayWrites(v) PROVE InstallInv'
<1>1. /\ manager' = Disturbed(Managers, v) /\ renderer' = RenderersDisturbed(v)
      /\ UNCHANGED <<portable, built, ownership, seal, runtimeCopies, clashes>>
      /\ strays' \subseteq Releases
  BY FileTypes DEF StrayWrites
<1>2. \E c \in Content : Written(v, c)
  <2>1. {Partial, v} \subseteq Content
    BY DEF Content
  <2> QED
    BY <2>1 DEF StrayWrites
<1>3. manager' \in [Managers -> Manager]
  <2>1. manager' = [n \in Managers |-> Disturbed(Managers, v)[n]]
    BY <1>1 DEF Disturbed
  <2>2. \A n \in Managers : Disturbed(Managers, v)[n] \in Manager
    BY DisturbedKnows
  <2> QED
    BY <2>1, <2>2
<1>4. renderer' \in [Renderers -> Renderer]
  <2>1. renderer' = [r \in Renderers |-> RenderersDisturbed(v)[r]]
    BY <1>1 DEF RenderersDisturbed
  <2>2. \A r \in Renderers : RenderersDisturbed(v)[r] \in Renderer
    BY RendererDisturbed
  <2> QED
    BY <2>1, <2>2
<1> QED
  BY <1>1, <1>2, <1>3, <1>4, WritingKeeps


\* The managers and their files as they are: the other steps.
LEMMA ManagersStay ==
  ASSUME InstallInv, UNCHANGED <<portable, place, unpacked, ownership, seal, manager>>,
         system' \in {system, NoContent}, built' \in Bundle,
         runtimeCopies' \in [Releases -> Copy],
         strays' \subseteq Releases, UNCHANGED clashes,
         renderer' \in [Renderers -> Renderer], LocksOK',
         \A r \in Renderers : RendererOK(renderer'[r])
  PROVE  InstallInv'
<1>1. InstallTypeOK'
  <2>1. system' \in Bundle
    BY FileTypes DEF Bundle
  <2> QED
    BY <2>1, FileTypes DEF InstallTypeOK
<1>2. PlacesOK' /\ SealsOK'
  BY FileTypes DEF PlacesOK, SealsOK
<1>3. ASSUME NEW n \in Managers PROVE ManagerOK(manager[n])'
  <2>1. PICK me \in Manager : me = manager[n] /\ ManagerOK(me)
    BY ManagerAtWork
  <2>2. ManagerOK(me)'
    BY <2>1, ManagerStays
  <2> QED
    BY <2>1, <2>2 DEF ManagerOK, FoundOK
<1>4. ASSUME NEW r \in Renderers PROVE RendererOK(renderer[r])'
  BY DEF RendererOK
<1> QED
  BY <1>1, <1>2, <1>3, <1>4 DEF InstallInv

LEMMA EnvironmentKeeps ==
  ASSUME InstallInv,
         \/ \E v \in Releases : StrayStops(v)
         \/ \E c \in Bundle : Build(c)
         \/ Uninstall
  PROVE  InstallInv'
<1>1. /\ UNCHANGED <<portable, place, unpacked, ownership, seal, runtimeCopies, clashes, manager,
                     renderer>>
      /\ system' \in {system, NoContent} /\ built' \in Bundle /\ strays' \subseteq Releases
  BY FileTypes DEF StrayStops, Build, Uninstall, versionRecords
<1>2. LocksOK'
  BY <1>1, FileTypes DEF LocksOK
<1> QED
  BY <1>1, <1>2, FileTypes, ManagersStay DEF InstallInv

\* A step of a renderer.
LEMMA RendererSteps ==
  ASSUME InstallInv, NEW r \in Renderers, NEW new \in Renderer,
         renderer' = [renderer EXCEPT ![r] = new],
         UNCHANGED <<portable, system, built, place, unpacked, ownership, seal, strays, clashes,
                     manager>>,
         runtimeCopies' \in [Releases -> Copy], RendererOK(new),
         new.step # "idle" =>
           (renderer[r].step # "idle" /\ new.version = renderer[r].version) \/ VersionFree(new.version)
  PROVE  InstallInv'
<1>1. /\ renderer' \in [Renderers -> Renderer]
      /\ renderer'[r] = new
      /\ \A q \in Renderers \ {r} : renderer'[q] = renderer[q]
  BY FileTypes
<1>2. ASSUME NEW q \in Renderers PROVE RendererOK(renderer'[q])
  <2>1. RendererOK(renderer[q])
    BY DEF InstallInv
  <2>2. renderer'[q] = new \/ renderer'[q] = renderer[q]
    BY <1>1
  <2> QED
    BY <2>1, <2>2
<1>3. LocksOK'
  <2>1. ASSUME NEW m \in Managers, manager[m].step # "idle", new.step # "idle"
        PROVE  manager[m].version # new.version
    BY <2>1, FileTypes DEF LocksOK, VersionFree
  <2>2. ASSUME NEW q \in Renderers \ {r}, renderer[q].step # "idle", new.step # "idle"
        PROVE  renderer[q].version # new.version
    BY <2>2, FileTypes DEF LocksOK, VersionFree
  <2>3. LocksOK
    BY FileTypes
  <2> QED
    BY <1>1, <2>1, <2>2, <2>3 DEF LocksOK
<1> QED
  BY <1>1, <1>2, <1>3, FileTypes, ManagersStay

LEMMA LoadVersionKeeps ==
  ASSUME InstallInv, NEW r \in Renderers, NEW v \in Releases, LoadVersion(r, v) PROVE InstallInv'
<1>0. PICK flag \in BOOLEAN : flag = (v \in clashes)
  <2>1. CASE v \in clashes
    <3>1. TRUE = (v \in clashes)
      BY <2>1
    <3> QED
      BY <3>1
  <2>2. CASE v \notin clashes
    <3>1. FALSE = (v \in clashes)
      BY <2>2
    <3> QED
      BY <3>1
  <2> QED
    BY <2>1, <2>2
<1> DEFINE new == [step |-> IF place[v] = "unpacked" THEN "in place" ELSE "copy", version |-> v,
                   seal |-> seal[v], content |-> NoContent, clash |-> flag]
<1>1. /\ VersionFree(v) /\ BundleIsSealed(v) /\ renderer' = [renderer EXCEPT ![r] = new]
      /\ UNCHANGED <<portable, system, built, place, unpacked, ownership, seal, runtimeCopies, strays,
                     clashes, manager>>
  BY <1>0 DEF LoadVersion, versionRecords
<1>2. new \in Renderer
  BY FileTypes DEF Renderer, Bundle
<1>3. RendererOK(new)
  <2>1. seal[v] # NoSeal /\ Live(v) = seal[v].content
    BY <1>1 DEF BundleIsSealed
  <2>2. place[v] = "unpacked" => unpacked[v] = seal[v].content
    BY <2>1 DEF Live
  <2>3. seal[v].kind = "artifact-lock" /\ v \notin clashes => seal[v].content = v
    BY <2>1, FileTypes DEF SealsOK
  <2> QED
    BY <1>0, <2>1, <2>2, <2>3 DEF RendererOK
<1>4. new.version = v
  OBVIOUS
<1> HIDE DEF new
<1>5. runtimeCopies' \in [Releases -> Copy]
  BY <1>1, FileTypes
<1> QED
  BY <1>1, <1>2, <1>3, <1>4, <1>5, RendererSteps

LEMMA LoadCopyKeeps ==
  ASSUME InstallInv, NEW r \in Renderers, LoadCopy(r) PROVE InstallInv'
<1> DEFINE v == renderer[r].version
<1>1. /\ renderer[r].step = "copy"
      /\ UNCHANGED <<portable, system, built, place, unpacked, ownership, seal, strays, clashes,
                     manager>>
      /\ renderer[r] \in Renderer /\ v \in Releases /\ renderer[r].seal \in Seal \cup {NoSeal}
      /\ RendererOK(renderer[r])
  BY FileTypes DEF LoadCopy, Renderer, InstallInv
<1>2. renderer[r].seal \in Seal
  BY <1>1 DEF RendererOK
<1>3. CASE renderer' = [renderer EXCEPT ![r] = IdleRenderer] /\ UNCHANGED runtimeCopies
  BY <1>1, <1>3, IdleIs, FileTypes, RendererSteps DEF RendererOK
<1>4. CASE /\ renderer' = [renderer EXCEPT ![r].step = "copied",
                                           ![r].content = renderer[r].seal.content]
           /\ runtimeCopies' \in [Releases -> Copy]
  <2>1. renderer[r].seal.content \in Bundle
    BY <1>2 DEF Seal, Bundle
  <2>2. PICK new \in Renderer :
          new = [renderer[r] EXCEPT !.step = "copied", !.content = renderer[r].seal.content]
    BY <1>1, <2>1 DEF Renderer
  <2>3. /\ new.step = "copied" /\ new.version = v /\ new.seal = renderer[r].seal
        /\ new.content = renderer[r].seal.content /\ new.clash = renderer[r].clash
    BY <1>1, <2>2 DEF Renderer
  <2>4. renderer' = [renderer EXCEPT ![r] = new]
    BY <1>4, <2>2, FileTypes
  <2>5. RendererOK(new)
    BY <1>1, <2>3 DEF RendererOK
  <2> QED
    BY <1>1, <1>4, <2>3, <2>4, <2>5, RendererSteps
<1>5. ASSUME runtimeCopies' = [runtimeCopies EXCEPT ![v] =
                                 [of |-> renderer[r].seal, content |-> renderer[r].seal.content]]
      PROVE  runtimeCopies' \in [Releases -> Copy]
  <2>1. [of |-> renderer[r].seal, content |-> renderer[r].seal.content] \in Copy
    BY <1>2 DEF Copy, Seal, Bundle
  <2> QED
    BY <1>5, <2>1, FileTypes
<1> QED
  BY <1>1, <1>3, <1>4, <1>5, FileTypes DEF LoadCopy, Matching

LEMMA UnloadKeeps ==
  ASSUME InstallInv, NEW r \in Renderers, Unload(r) PROVE InstallInv'
<1>1. /\ renderer' = [renderer EXCEPT ![r] = IdleRenderer]
      /\ UNCHANGED <<portable, system, built, place, unpacked, ownership, seal, runtimeCopies, strays,
                     clashes, manager>>
  BY DEF Unload, versionRecords
<1> QED
  BY <1>1, IdleIs, FileTypes, RendererSteps DEF RendererOK

LEMMA InstallStep == InstallInv /\ [InstallNext]_installVars => InstallInv'
<1> SUFFICES ASSUME InstallInv, [InstallNext]_installVars PROVE InstallInv'
  OBVIOUS
<1>1. CASE UNCHANGED installVars
  <2>1. UNCHANGED <<portable, system, built, place, unpacked, ownership, seal, runtimeCopies, strays,
                    clashes, manager, renderer>>
    BY <1>1 DEF installVars, versionRecords
  <2>2. LocksOK'
    BY <2>1, FileTypes DEF LocksOK
  <2> QED
    BY <2>1, <2>2, FileTypes, ManagersStay DEF InstallInv
<1>2. ASSUME NEW m \in Managers,
             \/ \E v \in Releases :
                  \/ Install(m, v)
                  \/ \E from \in {"system", "built"} : AdoptBundle(m, v, from)
             \/ Clear(m) \/ RecordSystem(m)
             \/ StudiorackBegins(m) \/ StudiorackEnds(m) \/ StudiorackFails(m)
      PROVE  InstallInv'
  BY <1>2, InstallKeeps, AdoptBundleKeeps, ClearingKeeps, RecordSystemKeeps, StudiorackBeginsKeeps,
     StudiorackEndsKeeps, StudiorackFailsKeeps
<1>3. ASSUME NEW m \in Managers,
             \/ FinishOutput(m) \/ StartAdoption(m) \/ CopySource(m)
             \/ WriteOwnership(m) \/ WriteSeal(m) \/ LinkSource(m) \/ LinkError(m) \/ ManagerCrash(m)
      PROVE  InstallInv'
  BY <1>3, FinishOutputKeeps, StartAdoptionKeeps, CopySourceKeeps, WriteOwnershipKeeps, WriteSealKeeps,
     LinkSourceKeeps, LinkErrorKeeps, ManagerCrashKeeps
<1>4. CASE \E v \in Releases : StrayWrites(v)
  BY <1>4, StrayWritesKeeps
<1>5. CASE \/ \E v \in Releases : StrayStops(v)
           \/ \E c \in Bundle : Build(c)
           \/ Uninstall
  BY <1>5, EnvironmentKeeps
<1>6. CASE \E r \in Renderers :
             \/ \E v \in Releases : LoadVersion(r, v)
             \/ LoadCopy(r) \/ Unload(r)
  BY <1>6, LoadVersionKeeps, LoadCopyKeeps, UnloadKeeps
<1> QED
  BY <1>1, <1>2, <1>3, <1>4, <1>5, <1>6 DEF InstallNext

\* What counts as installed under the artifact lock is the vendor's whole bundle,
\* and what a renderer loads is what was sealed, through failures and deaths of
\* managers, installers that outlive them, and owners that change an adopted
\* bundle, for any number of versions, managers and renderers.
THEOREM BundlesStaySealed == InstallSpec => []BundlesAreSealed
<1>1. InstallInv => InstalledIsVendors
  BY FileTypes DEF SealsOK, InstalledIsVendors, LockedBundleIsSealed, BundleIsSealed
<1>2. InstallInv => LoadsSealedContent
  <2> SUFFICES ASSUME InstallInv, NEW r \in Renderers,
                      renderer[r].step \in {"in place", "copied"}, ~renderer[r].clash
               PROVE  LET me == renderer[r]
                          content == IF me.step = "in place" THEN Live(me.version) ELSE me.content
                      IN  /\ content = me.seal.content
                          /\ me.seal.kind = "artifact-lock" => content = me.version
    BY DEF LoadsSealedContent
  <2>1. RendererOK(renderer[r])
    BY DEF InstallInv
  <2>2. renderer[r].step = "in place" => Live(renderer[r].version) = unpacked[renderer[r].version]
    BY <2>1 DEF RendererOK, Live
  <2> QED
    BY <2>1, <2>2 DEF RendererOK
<1>3. InstallInv => BundlesAreSealed
  BY <1>1, <1>2 DEF BundlesAreSealed
<1> QED
  BY <1>3, InstallStarts, InstallStep, PTL DEF InstallSpec

-----------------------------------------------------------------------------
(***************************************************************************)
(* The evaluation in predict mode, scored by a pool of one process: whose  *)
(* row each sample's files are of, how far the launch has rendered, and    *)
(* where its one call is.                                                  *)
(***************************************************************************)

\* Files are rendered in the order of the listing, each from its own offset on.
FileCount == Len(DatasetBatches)
RowCount(order, k) == Len(DatasetBatches[order[k]])
RowsBefore(order, k) == UNION {Lists!ToSet(DatasetBatches[order[j]]) : j \in 1 .. k - 1}
Offset(order, k) == Cardinality(RowsBefore(order, k))

\* The i-th row of the k-th file, and its sample.
RowAt(order, k, i) == DatasetBatches[order[k]][i]
SampleAt(order, k, i) == Offset(order, k) + i

\* A sample's files, whichever launches wrote them, are of its row.
FilesOf(order, files, k, i) ==
  /\ files.target # NoWav => files.target.row = RowAt(order, k, i)
  /\ files.pred # NoWav => files.pred.row = RowAt(order, k, i)

WavsOK(order, w) ==
  \A k \in 1 .. FileCount : \A i \in 1 .. RowCount(order, k) :
    FilesOf(order, w[SampleAt(order, k, i)], k, i)

\* The sample is rendered, from this launch's prediction.
Done(files, launch) == files.target # NoWav /\ files.pred # NoWav /\ files.pred.by = launch

\* All rows before row i of file k.
DoneBefore(order, w, k, i, launch) ==
  \A l \in 1 .. FileCount : \A j \in 1 .. RowCount(order, l) :
    l < k \/ (l = k /\ j < i) => Done(w[SampleAt(order, l, j)], launch)

PredictedOK ==
  /\ eval.step # "ended" => eval.launch # 0
  /\ eval.step = "predict" =>
       /\ eval.at <= FileCount /\ \A b \in 1 .. eval.at : saved[b] = eval.launch
       /\ eval.offset = 0 /\ eval.sample = 0 /\ ~eval.target
  /\ eval.step \in {"render", "score"} => \A b \in BatchIds : saved[b] = eval.launch

RenderedOK ==
  /\ WavsOK(globOrder, wavs)
  /\ eval.step = "render" =>
       /\ eval.at <= FileCount /\ eval.offset = Offset(globOrder, eval.at + 1)
       /\ eval.at < FileCount => eval.sample < RowCount(globOrder, eval.at + 1)
       /\ DoneBefore(globOrder, wavs, eval.at + 1, eval.sample + 1, eval.launch)
       /\ eval.target => wavs[SampleInWork].target # NoWav
       /\ eval.at = FileCount => eval.sample = 0
  /\ eval.step = "score" /\ eval.set.render =>
       DoneBefore(globOrder, wavs, FileCount + 1, 1, eval.launch)

PredictTypes ==
  /\ globOrder \in Lists!SetToSeqs(BatchIds)
  /\ saved \in [BatchIds -> 0 .. MaxEvals]
  /\ wavs \in [Samples -> [target : Wav \cup {NoWav}, pred : Wav \cup {NoWav}]]
  /\ eval \in Eval

\* A pool whose processes are all in one state, as the only one is.
AllIn(member, calls, ready, read, size) ==
  [calls |-> calls, ready |-> ready, read |-> read, size |-> size,
   member |-> [q \in Pool |-> member]]
Member1(sublist, file, cut) == [sublist |-> sublist, file |-> file, cut |-> cut]

\* One process has one call, of all samples there are.
SoleCallOK(p, dirs, q) ==
  \/ q = AllIn(Member1(<<>>, <<>>, FALSE), <<dirs>>, {}, <<>>, 1)
  \/ \E file : \/ q = AllIn(Member1(dirs, file, FALSE), <<>>, {}, <<>>, 1)
               \/ q = AllIn(Member1(dirs, file, TRUE), <<>>, {}, <<>>, 1)
  \/ q = AllIn(Member1(<<>>, ScoresOf(dirs), FALSE), <<>>, {<<p, dirs>>}, <<>>, 1)
  \/ q = AllIn(Member1(<<>>, ScoresOf(dirs), FALSE), <<>>, {}, ScoresOf(dirs), 0)

ScoringOK(p) ==
  \/ pool = NoPool
  \/ /\ eval.step = "score"
     /\ \E dirs \in Lists!SetToSeqs(Scorable) \ {<<>>} : SoleCallOK(p, dirs, pool)

\* The files of the evaluation, whatever scores them ...
FilesInv == PredictTypes /\ PredictedOK /\ RenderedOK

\* ... and one process.
PredictInv(p) == FilesInv /\ ScoringOK(p) /\ EveryRowScoredOnce

\* A finite set in some order.
LEMMA OrderIs ==
  ASSUME NEW S, IsFiniteSet(S), NEW s \in Lists!SetToSeqs(S)
  PROVE  /\ s \in Seq(S) /\ Len(s) = Cardinality(S) /\ Len(s) \in Nat
         /\ \A i, j \in 1 .. Len(s) : s[i] = s[j] => i = j
         /\ \A x \in S : \E i \in 1 .. Len(s) : s[i] = x
<1> DEFINE n == Cardinality(S)
<1>1. n \in Nat
  BY FS_CardinalityType
<1>2. Lists!Cardinality(S) = n
  BY Zenon DEF Lists!Cardinality, Cardinality
<1> HIDE DEF n
<1>3. s \in [1 .. n -> S] /\ \A i, j \in 1 .. n : i # j => s[i] # s[j]
  BY <1>2 DEF Lists!SetToSeqs
<1>4. s \in Injection(1 .. n, S)
  BY <1>3 DEF Injection, IsInjective
<1>5. IsFiniteSet(1 .. n) /\ Cardinality(1 .. n) = n
  BY <1>1, FS_Interval
<1>6. s \in Surjection(1 .. n, S)
  BY <1>4, <1>5, FS_Injection DEF n
<1>7. s \in Seq(S) /\ Len(s) = n
  BY <1>1, <1>3
<1>8. \A x \in S : \E i \in 1 .. n : s[i] = x
  BY <1>6 DEF Surjection
<1> QED
  BY <1>1, <1>3, <1>7, <1>8 DEF n

LEMMA BatchIs ==
  /\ FileCount \in Nat /\ BatchIds = 1 .. FileCount
  /\ IsFiniteSet(BatchIds) /\ Cardinality(BatchIds) = FileCount
  /\ \A b \in BatchIds : /\ DatasetBatches[b] \in Seq(Nat)
                         /\ Len(DatasetBatches[b]) \in Nat \ {0}
<1>1. FileCount \in Nat /\ BatchIds = 1 .. FileCount
  BY PredictAssumption DEF FileCount, BatchIds
<1>2. IsFiniteSet(BatchIds) /\ Cardinality(BatchIds) = FileCount
  BY <1>1, FS_Interval
<1>3. ASSUME NEW b \in BatchIds
      PROVE  DatasetBatches[b] \in Seq(Nat) /\ Len(DatasetBatches[b]) \in Nat \ {0}
  <2>1. DatasetBatches[b] \in Seq(Nat) \ {<<>>}
    BY <1>1, PredictAssumption, ElementOfSeq DEF FileCount
  <2> QED
    BY <2>1, EmptySeq
<1> QED
  BY <1>1, <1>2, <1>3

\* A batch has as many rows as its length says.
LEMMA RowsOfBatch ==
  ASSUME NEW b \in BatchIds
  PROVE  /\ IsFiniteSet(Lists!ToSet(DatasetBatches[b]))
         /\ Cardinality(Lists!ToSet(DatasetBatches[b])) = Len(DatasetBatches[b])
<1> DEFINE s == DatasetBatches[b]
           T == Lists!ToSet(DatasetBatches[b])
           n == Len(s)
<1>1. s \in Seq(Nat) /\ n \in Nat /\ DOMAIN s = 1 .. n
  BY BatchIs
<1>2. T = {s[i] : i \in 1 .. n}
  BY <1>1 DEF Lists!ToSet
<1>3. \A i, j \in 1 .. n : s[i] = s[j] => i = j
  BY <1>1, PredictAssumption
<1> HIDE DEF s, T, n
<1>4. s \in [1 .. n -> T]
  BY <1>1, <1>2
<1>5. s \in Injection(1 .. n, T) /\ s \in Surjection(1 .. n, T)
  BY <1>1, <1>2, <1>3, <1>4 DEF Injection, Surjection, IsInjective
<1>6. IsFiniteSet(1 .. n) /\ Cardinality(1 .. n) = n
  BY <1>1, FS_Interval
<1>7. IsFiniteSet(T) /\ Cardinality(T) = n
  BY <1>5, <1>6, FS_Surjection
<1> QED
  BY <1>7 DEF s, T, n

LEMMA RowsAreFinite == IsFiniteSet(DatasetRows) /\ Cardinality(DatasetRows) \in Nat
<1> DEFINE f == [b \in BatchIds |-> Lists!ToSet(DatasetBatches[b])]
           R == {Lists!ToSet(DatasetBatches[b]) : b \in BatchIds}
<1>1. f \in Surjection(BatchIds, R)
  BY DEF Surjection
<1> HIDE DEF f
<1>2. IsFiniteSet(R)
  <2> HIDE DEF R
  <2> QED
    BY <1>1, BatchIs, FS_Surjection
<1>3. \A T \in R : IsFiniteSet(T)
  BY RowsOfBatch
<1>4. DatasetRows = UNION R
  BY DEF DatasetRows
<1> HIDE DEF R
<1> QED
  BY <1>2, <1>3, <1>4, FS_UNION, FS_CardinalityType

\* A listing of the batches.
LEMMA ListingIs ==
  ASSUME NEW order \in Lists!SetToSeqs(BatchIds)
  PROVE  /\ Len(order) = FileCount
         /\ \A k \in 1 .. FileCount : order[k] \in BatchIds /\ RowCount(order, k) \in Nat \ {0}
         /\ \A k, l \in 1 .. FileCount : order[k] = order[l] => k = l
         /\ \A b \in BatchIds : \E k \in 1 .. FileCount : order[k] = b
<1>1. /\ order \in Seq(BatchIds) /\ Len(order) = FileCount
      /\ \A k, l \in 1 .. FileCount : order[k] = order[l] => k = l
      /\ \A b \in BatchIds : \E k \in 1 .. FileCount : order[k] = b
  <2>1. IsFiniteSet(BatchIds) /\ Cardinality(BatchIds) = FileCount
    BY BatchIs
  <2>2. /\ order \in Seq(BatchIds) /\ Len(order) = Cardinality(BatchIds)
        /\ \A k, l \in 1 .. Len(order) : order[k] = order[l] => k = l
        /\ \A b \in BatchIds : \E k \in 1 .. Len(order) : order[k] = b
    BY <2>1, OrderIs
  <2> QED
    BY <2>1, <2>2
<1>2. \A k \in 1 .. FileCount : order[k] \in BatchIds
  BY <1>1, ElementOfSeq
<1> QED
  BY <1>1, <1>2, BatchIs DEF RowCount

LEMMA OffsetIs ==
  ASSUME NEW order \in Lists!SetToSeqs(BatchIds), NEW k \in 1 .. FileCount + 1
  PROVE  /\ RowsBefore(order, k) \subseteq DatasetRows
         /\ IsFiniteSet(RowsBefore(order, k)) /\ Offset(order, k) \in Nat
<1>1. RowsBefore(order, k) \subseteq DatasetRows
  <2>1. \A j \in 1 .. k - 1 : order[j] \in BatchIds
    BY BatchIs, ListingIs
  <2> QED
    BY <2>1 DEF RowsBefore, DatasetRows
<1> QED
  BY <1>1, RowsAreFinite, FS_Subset, FS_CardinalityType DEF Offset

LEMMA OffsetEnds ==
  ASSUME NEW order \in Lists!SetToSeqs(BatchIds)
  PROVE  Offset(order, 1) = 0 /\ Offset(order, FileCount + 1) = Cardinality(DatasetRows)
<1>1. RowsBefore(order, 1) = {}
  BY DEF RowsBefore
<1>2. RowsBefore(order, FileCount + 1) = DatasetRows
  <2>1. \A k \in 1 .. FileCount : order[k] \in BatchIds
    BY ListingIs
  <2>2. \A b \in BatchIds : \E k \in 1 .. FileCount : order[k] = b
    BY ListingIs
  <2>3. \A x : x \in RowsBefore(order, FileCount + 1) <=>
                 \E j \in 1 .. FileCount : x \in Lists!ToSet(DatasetBatches[order[j]])
    <3> DEFINE last == FileCount + 1
    <3> HIDE DEF last
    <3>1. \A x : x \in RowsBefore(order, last) <=>
                 \E j \in 1 .. last - 1 : x \in Lists!ToSet(DatasetBatches[order[j]])
      BY DEF RowsBefore
    <3>2. \A j : j \in 1 .. last - 1 <=> j \in 1 .. FileCount
      BY BatchIs DEF last
    <3>3. \A x : x \in RowsBefore(order, last) <=>
                 \E j \in 1 .. FileCount : x \in Lists!ToSet(DatasetBatches[order[j]])
      BY <3>1, <3>2
    <3> QED
      BY <3>3 DEF last
  <2>4. \A x : x \in DatasetRows <=> \E b \in BatchIds : x \in Lists!ToSet(DatasetBatches[b])
    BY DEF DatasetRows
  <2>5. \A x : x \in RowsBefore(order, FileCount + 1) <=> x \in DatasetRows
    BY <2>1, <2>2, <2>3, <2>4
  <2> QED
    BY <2>5
<1> QED
  BY <1>1, <1>2, FS_EmptySet DEF Offset

\* The samples of the next file come after those of this one.
LEMMA OffsetGrows ==
  ASSUME NEW order \in Lists!SetToSeqs(BatchIds), NEW k \in 1 .. FileCount
  PROVE  Offset(order, k + 1) = Offset(order, k) + RowCount(order, k)
<1> DEFINE own == Lists!ToSet(DatasetBatches[order[k]])
           before == RowsBefore(order, k)
<1>1. /\ k \in Nat /\ k + 1 \in 1 .. FileCount + 1 /\ k \in 1 .. FileCount + 1
      /\ k + 1 - 1 = k /\ (1 .. k) = (1 .. k - 1) \cup {k}
  BY BatchIs
<1>2. order[k] \in BatchIds /\ RowCount(order, k) \in Nat
  BY ListingIs
<1>3. IsFiniteSet(before) /\ Cardinality(before) \in Nat
  BY <1>1, OffsetIs DEF Offset
<1>4. IsFiniteSet(own) /\ Cardinality(own) = RowCount(order, k)
  BY <1>2, RowsOfBatch DEF RowCount
<1>5. RowsBefore(order, k + 1) = before \cup own
  BY <1>1 DEF RowsBefore
<1>6. before \cap own = {}
  <2> SUFFICES ASSUME NEW j \in 1 .. k - 1, NEW x, x \in Lists!ToSet(DatasetBatches[order[j]]), x \in own
               PROVE  FALSE
    BY DEF RowsBefore
  <2>1. j \in 1 .. FileCount /\ j # k /\ order[j] \in BatchIds
    BY BatchIs, ListingIs
  <2>2. order[j] # order[k]
    BY <2>1, ListingIs
  <2>3. PICK a \in DOMAIN DatasetBatches[order[j]] : DatasetBatches[order[j]][a] = x
    BY DEF Lists!ToSet
  <2>4. PICK b \in DOMAIN DatasetBatches[order[k]] : DatasetBatches[order[k]][b] = x
    BY DEF Lists!ToSet
  <2> QED
    BY <2>1, <2>2, <2>3, <2>4, <1>2, PredictAssumption
<1> HIDE DEF own, before
<1>7. Cardinality(before \cup own) = Cardinality(before) + Cardinality(own) - Cardinality({})
  BY <1>3, <1>4, <1>6, FS_Union
<1>8. Cardinality({}) = 0
  BY FS_EmptySet
<1>9. Cardinality(before \cup own) = Cardinality(before) + RowCount(order, k)
  BY <1>2, <1>3, <1>4, <1>7, <1>8
<1> QED
  BY <1>5, <1>9 DEF Offset, before

LEMMA OffsetsAscend ==
  ASSUME NEW order \in Lists!SetToSeqs(BatchIds), NEW l \in 1 .. FileCount + 1, NEW k \in 1 .. l
  PROVE  Offset(order, k) <= Offset(order, l)
<1>1. k \in 1 .. FileCount + 1 /\ (1 .. k - 1) \subseteq (1 .. l - 1)
  BY BatchIs
<1>2. RowsBefore(order, k) \subseteq RowsBefore(order, l)
  BY <1>1 DEF RowsBefore
<1> QED
  BY <1>1, <1>2, OffsetIs, FS_Subset DEF Offset

\* Each row has a sample of its own, and each sample is a row's.
LEMMA SamplesApart ==
  ASSUME NEW order \in Lists!SetToSeqs(BatchIds),
         NEW k \in 1 .. FileCount, NEW i \in 1 .. RowCount(order, k),
         NEW l \in 1 .. FileCount, NEW j \in 1 .. RowCount(order, l),
         SampleAt(order, k, i) = SampleAt(order, l, j)
  PROVE  k = l /\ i = j
<1>0. FileCount \in Nat /\ RowCount(order, k) \in Nat /\ RowCount(order, l) \in Nat
  BY BatchIs, ListingIs
<1>1. /\ k \in 1 .. FileCount + 1 /\ k + 1 \in 1 .. FileCount + 1
      /\ l \in 1 .. FileCount + 1 /\ l + 1 \in 1 .. FileCount + 1
  BY <1>0
<1>2. /\ Offset(order, k) \in Nat /\ Offset(order, l) \in Nat
      /\ Offset(order, k + 1) = Offset(order, k) + RowCount(order, k)
      /\ Offset(order, l + 1) = Offset(order, l) + RowCount(order, l)
  BY <1>1, OffsetIs, OffsetGrows
<1>3. CASE k < l
  <2>1. k + 1 \in 1 .. l
    BY <1>3, <1>0
  <2>2. Offset(order, k + 1) <= Offset(order, l)
    BY <1>1, <2>1, OffsetsAscend
  <2> QED
    BY <1>0, <1>2, <2>2 DEF SampleAt
<1>4. CASE l < k
  <2>1. l + 1 \in 1 .. k
    BY <1>4, <1>0
  <2>2. Offset(order, l + 1) <= Offset(order, k)
    BY <1>1, <2>1, OffsetsAscend
  <2> QED
    BY <1>0, <1>2, <2>2 DEF SampleAt
<1>5. CASE k = l
  BY <1>0, <1>2, <1>5 DEF SampleAt
<1> QED
  BY <1>0, <1>3, <1>4, <1>5

LEMMA SampleIs ==
  ASSUME NEW order \in Lists!SetToSeqs(BatchIds),
         NEW k \in 1 .. FileCount, NEW i \in 1 .. RowCount(order, k)
  PROVE  /\ SampleAt(order, k, i) \in Samples
         /\ RowAt(order, k, i) \in DatasetRows
<1>0. FileCount \in Nat /\ RowCount(order, k) \in Nat /\ order[k] \in BatchIds
  BY BatchIs, ListingIs
<1>1. k + 1 \in 1 .. FileCount + 1 /\ k \in 1 .. FileCount + 1 /\ FileCount + 1 \in 1 .. FileCount + 1
  BY <1>0
<1>2. k + 1 \in 1 .. FileCount + 1 /\ Offset(order, k + 1) <= Offset(order, FileCount + 1)
  BY <1>1, OffsetsAscend
<1>3. /\ Offset(order, k) \in Nat /\ Offset(order, k + 1) = Offset(order, k) + RowCount(order, k)
      /\ Offset(order, FileCount + 1) = Cardinality(DatasetRows) /\ Cardinality(DatasetRows) \in Nat
  BY <1>1, OffsetIs, OffsetGrows, OffsetEnds, RowsAreFinite
<1>4. SampleAt(order, k, i) \in Samples
  BY <1>0, <1>2, <1>3 DEF SampleAt, Samples
<1>5. i \in DOMAIN DatasetBatches[order[k]]
  BY <1>0, BatchIs DEF RowCount
<1> QED
  BY <1>0, <1>4, <1>5 DEF RowAt, DatasetRows, Lists!ToSet

LEMMA SampleIsARows ==
  ASSUME NEW order \in Lists!SetToSeqs(BatchIds), NEW n \in Samples
  PROVE  \E k \in 1 .. FileCount : \E i \in 1 .. RowCount(order, k) : n = SampleAt(order, k, i)
<1> DEFINE L == {ss \in Nat \X Nat : ss[1] < ss[2]}
           Q == {k \in Nat : k \in 1 .. FileCount + 1 /\ n <= Offset(order, k)}
<1>1. FileCount + 1 \in Q
  <2>1. Offset(order, FileCount + 1) = Cardinality(DatasetRows)
    BY OffsetEnds
  <2> QED
    BY <2>1, BatchIs DEF Samples
<1>2. PICK m \in Q : \A k \in Q : ~ (<<k, m>> \in L)
  <2>1. IsWellFoundedOn(L, Nat)
    BY NatLessThanWellFounded DEF OpToRel
  <2>2. Q \subseteq Nat /\ Q # {}
    BY <1>1
  <2> HIDE DEF L, Q
  <2> QED
    BY <2>1, <2>2, WFMin
<1>3. m \in Nat /\ m \in 1 .. FileCount + 1 /\ n <= Offset(order, m) /\ FileCount \in Nat
  BY <1>2, BatchIs
<1>4. n \in Nat \ {0} /\ Offset(order, 1) = 0
  BY OffsetEnds, RowsAreFinite DEF Samples
<1>5. m - 1 \in 1 .. FileCount
  <2>1. m # 1
    BY <1>3, <1>4
  <2> QED
    BY <1>3, <2>1
<1>6. ~(n <= Offset(order, m - 1))
  <2>1. m - 1 \in Nat /\ m - 1 \in 1 .. FileCount + 1 /\ <<m - 1, m>> \in L
    BY <1>3, <1>5
  <2> QED
    BY <1>2, <2>1
<1>7. Offset(order, m) = Offset(order, m - 1) + RowCount(order, m - 1)
  <2>1. (m - 1) + 1 = m
    BY <1>3
  <2> QED
    BY <1>5, <2>1, OffsetGrows
<1>8. Offset(order, m - 1) \in Nat /\ RowCount(order, m - 1) \in Nat
  <2>1. m - 1 \in 1 .. FileCount + 1
    BY <1>3, <1>5
  <2> QED
    BY <1>5, <2>1, OffsetIs, ListingIs
<1> DEFINE i == n - Offset(order, m - 1)
<1>9. i \in 1 .. RowCount(order, m - 1)
  BY <1>3, <1>4, <1>6, <1>7, <1>8
<1>10. n = SampleAt(order, m - 1, i)
  BY <1>4, <1>8 DEF SampleAt
<1> QED
  BY <1>5, <1>9, <1>10

LEMMA FilesStart == ASSUME PredictInit PROVE FilesInv
<1>1. /\ globOrder \in Lists!SetToSeqs(BatchIds) /\ saved = [b \in BatchIds |-> 0]
      /\ wavs = [n \in Samples |-> [target |-> NoWav, pred |-> NoWav]]
  BY DEF PredictInit
<1>2. eval \in Eval /\ eval.step = "ended"
  <2>1. PICK s \in EvalSettings :
          eval = [launch |-> 0, set |-> s, step |-> "ended", at |-> 0, offset |-> 0,
                  sample |-> 0, target |-> FALSE]
    BY DEF PredictInit
  <2>2. 0 \in 0 .. MaxEvals /\ 0 \in Nat /\ FALSE \in BOOLEAN
    BY PredictAssumption
  <2> QED
    BY <2>1, <2>2 DEF Eval
<1>3. PredictTypes
  BY <1>1, <1>2, PredictAssumption DEF PredictTypes
<1>4. PredictedOK
  BY <1>2 DEF PredictedOK
<1>5. RenderedOK
  <2>1. \A n \in Samples : wavs[n].target = NoWav /\ wavs[n].pred = NoWav
    BY <1>1
  <2>2. WavsOK(globOrder, wavs)
    BY <1>1, <2>1, SampleIs DEF WavsOK, FilesOf
  <2> QED
    BY <1>2, <2>2 DEF RenderedOK
<1> QED
  BY <1>3, <1>4, <1>5 DEF FilesInv

LEMMA PredictStarts == ASSUME NEW p, PredictInit PROVE PredictInv(p)
<1>1. pool = NoPool /\ scores = NoScores
  BY DEF PredictInit
<1> QED
  BY <1>1, FilesStart
  DEF PredictInv, ScoringOK, EveryRowScoredOnce, OneRowPerSample, ScoresThePredictions

\* What is known of a launch in a step.
LEMMA EvalIs ==
  ASSUME PredictTypes
  PROVE  /\ eval.launch \in 0 .. MaxEvals /\ eval.set \in EvalSettings
         /\ eval.at \in Nat /\ eval.offset \in Nat /\ eval.sample \in Nat
         /\ eval.target \in BOOLEAN
         /\ eval.step \in {"ended", "predict", "render", "score"}
         /\ globOrder \in Lists!SetToSeqs(BatchIds) /\ Len(globOrder) = FileCount
         /\ FileCount \in Nat /\ Len(DatasetBatches) = FileCount
         /\ MaxEvals \in Nat
BY BatchIs, ListingIs, PredictAssumption DEF PredictTypes, Eval, FileCount

LEMMA PredictKeeps == ASSUME FilesInv, NEW s \in EvalSettings, Predict(s) PROVE FilesInv'
<1>1. /\ eval.step = "ended" /\ eval.launch < MaxEvals
      /\ eval' = [launch |-> eval.launch + 1, set |-> s, step |-> "predict", at |-> 0,
                  offset |-> 0, sample |-> 0, target |-> FALSE]
      /\ pool' = NoPool /\ UNCHANGED <<globOrder, saved, wavs, scores>>
  BY DEF Predict
<1>2. PredictTypes /\ RenderedOK /\ eval.launch \in Nat /\ MaxEvals \in Nat
  BY EvalIs DEF FilesInv
<1>3. PredictTypes'
  <2>1. eval' \in Eval
    BY <1>1, <1>2 DEF Eval
  <2> QED
    BY <1>1, <1>2, <2>1 DEF PredictTypes
<1>4. PredictedOK'
  <2>1. 0 <= FileCount /\ eval.launch + 1 # 0 /\ 1 .. 0 = {}
    BY <1>2, BatchIs
  <2> QED
    BY <1>1, <2>1 DEF PredictedOK
<1>5. RenderedOK'
  BY <1>1, <1>2 DEF RenderedOK
<1> QED
  BY <1>1, <1>3, <1>4, <1>5 DEF FilesInv

LEMMA WriteBatchKeeps == ASSUME FilesInv, WriteBatch PROVE FilesInv'
<1>1. /\ eval.step = "predict" /\ eval.at < FileCount
      /\ saved' = [saved EXCEPT ![eval.at + 1] = eval.launch]
      /\ eval' = [eval EXCEPT !.at = @ + 1]
      /\ UNCHANGED <<globOrder, wavs, pool, scores>>
  BY DEF WriteBatch, FileCount
<1>2. /\ PredictTypes /\ PredictedOK /\ RenderedOK
      /\ eval.at \in Nat /\ FileCount \in Nat /\ eval.launch \in 0 .. MaxEvals
      /\ saved \in [BatchIds -> 0 .. MaxEvals] /\ BatchIds = 1 .. FileCount
  BY EvalIs, BatchIs DEF FilesInv, PredictTypes
<1>3. /\ eval' \in Eval /\ eval'.at = eval.at + 1 /\ eval'.step = "predict"
      /\ eval'.launch = eval.launch /\ eval'.offset = eval.offset
      /\ eval'.sample = eval.sample /\ eval'.target = eval.target
  BY <1>1, <1>2 DEF PredictTypes, Eval
<1>4. PredictTypes'
  BY <1>1, <1>2, <1>3 DEF PredictTypes
<1>5. PredictedOK'
  <2>1. \A b \in 1 .. eval.at + 1 : saved'[b] = eval.launch
    BY <1>1, <1>2 DEF PredictedOK
  <2> QED
    BY <1>1, <1>2, <1>3, <2>1 DEF PredictedOK
<1>6. RenderedOK'
  BY <1>1, <1>2, <1>3 DEF RenderedOK
<1> QED
  BY <1>1, <1>4, <1>5, <1>6 DEF FilesInv

LEMMA PostprocessKeeps == ASSUME FilesInv, Postprocess PROVE FilesInv'
<1>1. /\ eval.step = "predict" /\ eval.at = FileCount
      /\ eval' = [eval EXCEPT !.step = IF eval.set.render THEN "render" ELSE "score", !.at = 0]
      /\ UNCHANGED <<globOrder, saved, wavs, pool, scores>>
  BY DEF Postprocess, FileCount
<1>2. /\ PredictTypes /\ PredictedOK /\ RenderedOK /\ FileCount \in Nat /\ BatchIds = 1 .. FileCount
      /\ globOrder \in Lists!SetToSeqs(BatchIds) /\ eval.launch # 0
      /\ eval.offset = 0 /\ eval.sample = 0 /\ ~eval.target
      /\ \A b \in BatchIds : saved[b] = eval.launch
  BY <1>1, EvalIs, BatchIs DEF FilesInv, PredictedOK
<1>3. /\ eval' \in Eval /\ eval'.at = 0 /\ eval'.set = eval.set
      /\ eval'.step = (IF eval.set.render THEN "render" ELSE "score")
      /\ eval'.launch = eval.launch /\ eval'.offset = 0
      /\ eval'.sample = 0 /\ ~eval'.target
  BY <1>1, <1>2 DEF PredictTypes, Eval
<1>4. PredictTypes'
  BY <1>1, <1>2, <1>3 DEF PredictTypes
<1>5. PredictedOK'
  BY <1>1, <1>2, <1>3 DEF PredictedOK
<1>6. RenderedOK'
  <2>1. DoneBefore(globOrder, wavs, 1, 1, eval.launch)
    BY <1>2, ListingIs DEF DoneBefore
  <2>2. 0 < FileCount => 0 < RowCount(globOrder, 1)
    BY <1>2, ListingIs
  <2>3. Offset(globOrder, 1) = 0
    BY <1>2, OffsetEnds
  <2> QED
    BY <1>1, <1>2, <1>3, <2>1, <2>2, <2>3 DEF RenderedOK
<1> QED
  BY <1>1, <1>4, <1>5, <1>6 DEF FilesInv

\* The sample in work is that of the row in work, and no other row's.
LEMMA InWork ==
  ASSUME PredictTypes, RenderedOK, Rendering
  PROVE  /\ eval.at + 1 \in 1 .. FileCount /\ CurrentFile = globOrder[eval.at + 1]
         /\ eval.sample + 1 \in 1 .. RowCount(globOrder, eval.at + 1)
         /\ SampleInWork = SampleAt(globOrder, eval.at + 1, eval.sample + 1)
         /\ SampleInWork \in Samples
         /\ DatasetBatches[CurrentFile][eval.sample + 1]
            = RowAt(globOrder, eval.at + 1, eval.sample + 1)
         /\ RowAt(globOrder, eval.at + 1, eval.sample + 1) \in DatasetRows
         /\ \A k \in 1 .. FileCount : \A i \in 1 .. RowCount(globOrder, k) :
              SampleAt(globOrder, k, i) = SampleInWork => k = eval.at + 1 /\ i = eval.sample + 1
<1> DEFINE k == eval.at + 1
           i == eval.sample + 1
<1>1. /\ eval.step = "render" /\ eval.at < FileCount /\ CurrentFile = globOrder[k]
      /\ eval.at \in Nat /\ eval.sample \in Nat /\ FileCount \in Nat
      /\ globOrder \in Lists!SetToSeqs(BatchIds)
  BY EvalIs DEF Rendering, PredictionFiles, CurrentFile
<1>2. k \in 1 .. FileCount
  BY <1>1
<1>3. /\ RowCount(globOrder, k) \in Nat /\ eval.sample < RowCount(globOrder, k)
      /\ eval.offset = Offset(globOrder, k) /\ Offset(globOrder, k) \in Nat
  <2>1. k \in 1 .. FileCount + 1
    BY <1>1
  <2> QED
    BY <1>1, <1>2, <2>1, ListingIs, OffsetIs DEF RenderedOK
<1>4. i \in 1 .. RowCount(globOrder, k)
  BY <1>1, <1>3
<1>5. SampleInWork = SampleAt(globOrder, k, i)
  BY <1>1, <1>3 DEF SampleInWork, SampleAt
<1> HIDE DEF k, i
<1>6. SampleAt(globOrder, k, i) \in Samples /\ RowAt(globOrder, k, i) \in DatasetRows
  BY <1>1, <1>2, <1>4, SampleIs
<1>7. \A l \in 1 .. FileCount : \A j \in 1 .. RowCount(globOrder, l) :
        SampleAt(globOrder, l, j) = SampleAt(globOrder, k, i) => l = k /\ j = i
  BY <1>1, <1>2, <1>4, SamplesApart
<1>8. DatasetBatches[CurrentFile][i] = RowAt(globOrder, k, i)
  BY <1>1 DEF RowAt
<1> QED
  BY <1>1, <1>2, <1>4, <1>5, <1>6, <1>7, <1>8 DEF k, i

\* One file of the sample in work is written, of its row.
LEMMA WavsStayOK ==
  ASSUME PredictTypes, RenderedOK, Rendering, NEW f,
         wavs' = [wavs EXCEPT ![SampleInWork] = f],
         FilesOf(globOrder, f, eval.at + 1, eval.sample + 1)
  PROVE  /\ WavsOK(globOrder, wavs')
         /\ DoneBefore(globOrder, wavs', eval.at + 1, eval.sample + 1, eval.launch)
         /\ wavs'[SampleInWork] = f
<1> DEFINE k == eval.at + 1
           i == eval.sample + 1
           g == globOrder
<1>1. /\ SampleInWork \in Samples /\ k \in Nat /\ i \in Nat
      /\ g \in Lists!SetToSeqs(BatchIds)
      /\ \A l \in 1 .. FileCount : \A j \in 1 .. RowCount(g, l) :
           SampleAt(g, l, j) = SampleInWork => l = k /\ j = i
  BY EvalIs, InWork
<1>2. wavs'[SampleInWork] = f /\ \A n \in Samples : n # SampleInWork => wavs'[n] = wavs[n]
  BY <1>1 DEF PredictTypes
<1>3. /\ WavsOK(g, wavs) /\ DoneBefore(g, wavs, k, i, eval.launch) /\ FilesOf(g, f, k, i)
  BY DEF RenderedOK, Rendering
<1> HIDE DEF k, i, g
<1>4. ASSUME NEW l \in 1 .. FileCount, NEW j \in 1 .. RowCount(g, l)
      PROVE  /\ FilesOf(g, wavs'[SampleAt(g, l, j)], l, j)
             /\ l < k \/ (l = k /\ j < i) => wavs'[SampleAt(g, l, j)] = wavs[SampleAt(g, l, j)]
  <2>1. SampleAt(g, l, j) \in Samples
    BY <1>1, SampleIs
  <2>2. l \in Nat /\ j \in Nat
    BY <1>1, BatchIs, ListingIs
  <2>3. CASE SampleAt(g, l, j) = SampleInWork
    BY <1>1, <1>2, <1>3, <2>2, <2>3
  <2>4. CASE SampleAt(g, l, j) # SampleInWork
    BY <1>2, <1>3, <2>1, <2>4 DEF WavsOK
  <2> QED
    BY <2>3, <2>4
<1>5. WavsOK(g, wavs')
  BY <1>4 DEF WavsOK
<1>6. DoneBefore(g, wavs', k, i, eval.launch)
  BY <1>3, <1>4 DEF DoneBefore
<1> QED
  BY <1>2, <1>5, <1>6 DEF k, i, g

LEMMA WriteTargetKeeps == ASSUME FilesInv, WriteTarget PROVE FilesInv'
<1> DEFINE n == SampleInWork
           w == [row |-> DatasetBatches[CurrentFile][eval.sample + 1], by |-> eval.launch]
           f == [target |-> w, pred |-> wavs[n].pred]
<1>1. /\ Rendering /\ wavs' = [wavs EXCEPT ![n].target = w]
      /\ eval' = [eval EXCEPT !.target = TRUE] /\ UNCHANGED <<globOrder, saved, pool, scores>>
  BY DEF WriteTarget
<1>2. PredictTypes /\ PredictedOK /\ RenderedOK /\ eval.step = "render"
  BY <1>1 DEF FilesInv, Rendering
<1>3. /\ n \in Samples /\ wavs[n] \in [target : Wav \cup {NoWav}, pred : Wav \cup {NoWav}]
      /\ wavs \in [Samples -> [target : Wav \cup {NoWav}, pred : Wav \cup {NoWav}]]
  BY <1>1, <1>2, InWork DEF PredictTypes
<1>4. w \in Wav /\ w # NoWav /\ w.row = RowAt(globOrder, eval.at + 1, eval.sample + 1)
  <2>1. eval.launch \in 1 .. MaxEvals
    BY <1>2, EvalIs DEF PredictedOK
  <2> QED
    BY <1>1, <1>2, <2>1, InWork, PredictAssumption DEF Wav
<1> HIDE DEF w
<1>5. f \in [target : Wav \cup {NoWav}, pred : Wav \cup {NoWav}]
  BY <1>3, <1>4
<1>6. wavs' = [wavs EXCEPT ![n] = f]
  <2>1. [wavs[n] EXCEPT !.target = w] = f
    BY <1>3
  <2> QED
    BY <1>1, <2>1
<1>7. FilesOf(globOrder, f, eval.at + 1, eval.sample + 1)
  <2>1. FilesOf(globOrder, wavs[n], eval.at + 1, eval.sample + 1)
    BY <1>1, <1>2, InWork DEF RenderedOK, WavsOK
  <2> QED
    BY <1>4, <2>1 DEF FilesOf
<1> HIDE DEF f
<1>8. /\ WavsOK(globOrder, wavs') /\ wavs'[n] = f
      /\ DoneBefore(globOrder, wavs', eval.at + 1, eval.sample + 1, eval.launch)
  BY <1>1, <1>2, <1>6, <1>7, WavsStayOK
<1>9. /\ eval' \in Eval /\ eval'.at = eval.at /\ eval'.set = eval.set /\ eval'.step = eval.step
      /\ eval'.launch = eval.launch /\ eval'.offset = eval.offset /\ eval'.sample = eval.sample
  BY <1>1, <1>2 DEF PredictTypes, Eval
<1>10. PredictTypes'
  BY <1>1, <1>2, <1>3, <1>5, <1>6, <1>9 DEF PredictTypes
<1>11. PredictedOK'
  BY <1>1, <1>2, <1>9 DEF PredictedOK
<1>12. RenderedOK'
  <2>1. f.target # NoWav
    BY <1>4 DEF f
  <2>2. SampleInWork' = SampleInWork
    BY <1>9 DEF SampleInWork
  <2> QED
    BY <1>1, <1>2, <1>8, <1>9, <2>1, <2>2 DEF RenderedOK
<1> QED
  BY <1>1, <1>2, <1>10, <1>11, <1>12 DEF FilesInv

LEMMA WritePredKeeps == ASSUME FilesInv, WritePred PROVE FilesInv'
<1> DEFINE n == SampleInWork
           k == eval.at + 1
           i == eval.sample + 1
           w == [row |-> DatasetBatches[CurrentFile][eval.sample + 1], by |-> saved[CurrentFile]]
           f == [target |-> wavs[n].target, pred |-> w]
<1>1. /\ Rendering /\ eval.target /\ wavs' = [wavs EXCEPT ![n].pred = w]
      /\ eval' = IF i < RowCount(globOrder, k)
                 THEN [eval EXCEPT !.sample = @ + 1, !.target = FALSE]
                 ELSE [eval EXCEPT !.sample = 0, !.target = FALSE, !.at = @ + 1,
                                   !.offset = NextOffset]
      /\ UNCHANGED <<globOrder, saved, pool, scores>>
  BY DEF WritePred, RowCount, CurrentFile, PredictionFiles
<1>2. PredictTypes /\ PredictedOK /\ RenderedOK /\ eval.step = "render" /\ wavs[n].target # NoWav
  BY <1>1 DEF FilesInv, Rendering, RenderedOK
<1>3. /\ n \in Samples /\ wavs[n] \in [target : Wav \cup {NoWav}, pred : Wav \cup {NoWav}]
      /\ wavs \in [Samples -> [target : Wav \cup {NoWav}, pred : Wav \cup {NoWav}]]
  BY <1>1, <1>2, InWork DEF PredictTypes
<1>4. /\ globOrder \in Lists!SetToSeqs(BatchIds) /\ eval.at \in Nat /\ eval.sample \in Nat
      /\ FileCount \in Nat /\ k \in 1 .. FileCount /\ i \in 1 .. RowCount(globOrder, k)
      /\ RowCount(globOrder, k) \in Nat /\ eval.offset = Offset(globOrder, k)
      /\ Offset(globOrder, k + 1) = Offset(globOrder, k) + RowCount(globOrder, k)
      /\ CurrentFile = globOrder[k] /\ CurrentFile \in BatchIds
  BY <1>1, <1>2, EvalIs, InWork, ListingIs, OffsetGrows DEF RenderedOK
<1>5. /\ w \in Wav /\ w # NoWav /\ w.row = RowAt(globOrder, k, i) /\ w.by = eval.launch
  <2>1. eval.launch \in 1 .. MaxEvals
    BY <1>2, EvalIs DEF PredictedOK
  <2>2. saved[CurrentFile] = eval.launch
    BY <1>2, <1>4 DEF PredictedOK
  <2> QED
    BY <1>1, <1>2, <2>1, <2>2, InWork, PredictAssumption DEF Wav
<1> HIDE DEF w
<1>6. f \in [target : Wav \cup {NoWav}, pred : Wav \cup {NoWav}]
  BY <1>3, <1>5
<1>7. wavs' = [wavs EXCEPT ![n] = f]
  <2>1. [wavs[n] EXCEPT !.pred = w] = f
    BY <1>3
  <2> QED
    BY <1>1, <2>1
<1>8. FilesOf(globOrder, f, k, i) /\ Done(f, eval.launch)
  <2>1. FilesOf(globOrder, wavs[n], k, i)
    BY <1>1, <1>2, InWork DEF RenderedOK, WavsOK
  <2> QED
    BY <1>2, <1>5, <2>1 DEF FilesOf, Done
<1> HIDE DEF f
<1>9. /\ WavsOK(globOrder, wavs') /\ wavs'[n] = f
      /\ DoneBefore(globOrder, wavs', k, i, eval.launch)
  BY <1>1, <1>2, <1>7, <1>8, WavsStayOK
<1>10. n = SampleAt(globOrder, k, i)
  BY <1>1, <1>2, InWork
<1> HIDE DEF n
<1>11. PredictedOK' /\ PredictTypes' /\ RenderedOK'
  <2>1. CASE i < RowCount(globOrder, k)
    <3>1. /\ eval' \in Eval /\ eval'.at = eval.at /\ eval'.set = eval.set
          /\ eval'.step = "render" /\ eval'.launch = eval.launch
          /\ eval'.offset = eval.offset /\ eval'.sample = eval.sample + 1 /\ ~eval'.target
      <4>1. eval' = [eval EXCEPT !.sample = @ + 1, !.target = FALSE]
        BY <1>1, <2>1
      <4>2. eval.sample + 1 \in Nat
        BY <1>4
      <4> QED
        BY <1>2, <4>1, <4>2 DEF PredictTypes, Eval
    <3>2. DoneBefore(globOrder, wavs', k, i + 1, eval.launch)
      <4> SUFFICES ASSUME NEW l \in 1 .. FileCount, NEW j \in 1 .. RowCount(globOrder, l),
                          l < k \/ (l = k /\ j < i + 1)
                   PROVE  Done(wavs'[SampleAt(globOrder, l, j)], eval.launch)
        BY DEF DoneBefore
      <4>1. CASE l < k \/ (l = k /\ j < i)
        BY <1>9, <4>1 DEF DoneBefore
      <4>2. CASE l = k /\ j = i
        BY <1>8, <1>9, <1>10, <4>2
      <4>3. l \in Nat /\ j \in Nat
        BY <1>4, ListingIs
      <4> QED
        BY <1>4, <4>1, <4>2, <4>3
    <3>3. PredictTypes'
      BY <1>1, <1>2, <1>3, <1>6, <1>7, <3>1 DEF PredictTypes
    <3>4. PredictedOK'
      BY <1>1, <1>2, <3>1 DEF PredictedOK
    <3>5. RenderedOK'
      BY <1>1, <1>2, <1>4, <1>9, <2>1, <3>1, <3>2 DEF RenderedOK
    <3> QED
      BY <3>3, <3>4, <3>5
  <2>2. CASE ~(i < RowCount(globOrder, k))
    <3>1. NextOffset = Offset(globOrder, k + 1)
      BY <1>4 DEF NextOffset, RowCount
    <3>2. NextOffset \in Nat
      BY <1>2, <1>4, <3>1, EvalIs
    <3>3. /\ eval' \in Eval /\ eval'.at = eval.at + 1 /\ eval'.set = eval.set
          /\ eval'.step = "render" /\ eval'.launch = eval.launch
          /\ eval'.offset = NextOffset /\ eval'.sample = 0 /\ ~eval'.target
      <4>1. eval' = [eval EXCEPT !.sample = 0, !.target = FALSE, !.at = @ + 1,
                                 !.offset = NextOffset]
        BY <1>1, <2>2
      <4>2. eval.at + 1 \in Nat
        BY <1>4
      <4> QED
        BY <1>2, <3>2, <4>1, <4>2 DEF PredictTypes, Eval
    <3>4. DoneBefore(globOrder, wavs', k + 1, 1, eval.launch)
      <4> SUFFICES ASSUME NEW l \in 1 .. FileCount, NEW j \in 1 .. RowCount(globOrder, l),
                          l < k + 1 \/ (l = k + 1 /\ j < 1)
                   PROVE  Done(wavs'[SampleAt(globOrder, l, j)], eval.launch)
        BY DEF DoneBefore
      <4>1. CASE l < k \/ (l = k /\ j < i)
        BY <1>9, <4>1 DEF DoneBefore
      <4>2. CASE l = k /\ j = i
        BY <1>8, <1>9, <1>10, <4>2
      <4>3. l \in Nat /\ j \in Nat /\ 1 <= j /\ j <= RowCount(globOrder, l)
        BY <1>4, ListingIs
      <4>4. l = k => j <= i
        BY <1>4, <2>2, <4>3
      <4> QED
        BY <1>4, <4>1, <4>2, <4>3, <4>4
    <3>5. PredictTypes'
      BY <1>1, <1>2, <1>3, <1>6, <1>7, <3>3 DEF PredictTypes
    <3>6. PredictedOK'
      BY <1>1, <1>2, <3>3 DEF PredictedOK
    <3>7. RenderedOK'
      <4>1. k < FileCount => 0 < RowCount(globOrder, k + 1)
        BY <1>4, ListingIs
      <4> QED
        BY <1>1, <1>2, <1>4, <1>9, <3>1, <3>3, <3>4, <4>1 DEF RenderedOK
    <3> QED
      BY <3>5, <3>6, <3>7
  <2> QED
    BY <2>1, <2>2
<1> QED
  BY <1>1, <1>2, <1>11 DEF FilesInv

LEMMA RenderedKeeps == ASSUME FilesInv, Rendered PROVE FilesInv'
<1>1. /\ eval.step = "render" /\ eval.at = Len(globOrder) /\ eval' = [eval EXCEPT !.step = "score"]
      /\ UNCHANGED <<globOrder, saved, wavs, pool, scores>>
  BY DEF Rendered, PredictionFiles
<1>2. /\ PredictTypes /\ PredictedOK /\ RenderedOK /\ eval.at = FileCount
  BY <1>1, EvalIs DEF FilesInv
<1>3. /\ eval' \in Eval /\ eval'.set = eval.set /\ eval'.step = "score"
      /\ eval'.launch = eval.launch
  BY <1>1, <1>2 DEF PredictTypes, Eval
<1>4. PredictTypes' /\ PredictedOK'
  BY <1>1, <1>2, <1>3 DEF PredictTypes, PredictedOK
<1>5. DoneBefore(globOrder, wavs, FileCount + 1, 1, eval.launch)
  BY <1>1, <1>2 DEF RenderedOK
<1>6. RenderedOK'
  BY <1>1, <1>2, <1>3, <1>5 DEF RenderedOK
<1> QED
  BY <1>1, <1>4, <1>6 DEF FilesInv

\* The metrics child and its parent leave the files alone, and so does the end
\* of a launch.
LEMMA FilesStay ==
  ASSUME FilesInv, UNCHANGED <<globOrder, saved, wavs, eval>> PROVE FilesInv'
<1>1. globOrder' = globOrder /\ saved' = saved /\ wavs' = wavs /\ eval' = eval
  OBVIOUS
<1> QED
  BY <1>1 DEF FilesInv, PredictTypes, PredictedOK, RenderedOK, SampleInWork

LEMMA FilesEndKeep ==
  ASSUME FilesInv, eval' = [eval EXCEPT !.step = "ended"], UNCHANGED <<globOrder, saved, wavs>>
  PROVE  FilesInv'
<1>1. eval' \in Eval /\ eval'.step = "ended"
  BY DEF FilesInv, PredictTypes, Eval
<1> QED
  BY <1>1 DEF FilesInv, PredictTypes, PredictedOK, RenderedOK

\* Predicting and rendering.
FileStep ==
  \/ \E s \in EvalSettings : Predict(s)
  \/ WriteBatch \/ Postprocess \/ WriteTarget \/ WritePred \/ Rendered

LEMMA FileStepKeeps == ASSUME FilesInv, FileStep PROVE FilesInv'
BY PredictKeeps, WriteBatchKeeps, PostprocessKeeps, WriteTargetKeeps, WritePredKeeps,
   RenderedKeeps DEF FileStep

LEMMA FileStepIs ==
  ASSUME FileStep
  PROVE  /\ eval.step # "score" /\ UNCHANGED <<labelled, scores>>
         /\ pool' = pool \/ pool' = NoPool
BY DEF FileStep, Predict, WriteBatch, Postprocess, WriteTarget, WritePred, Rendered, Rendering

LEMMA ScoredStays == ASSUME EveryRowScoredOnce, UNCHANGED scores PROVE EveryRowScoredOnce'
BY DEF EveryRowScoredOnce, OneRowPerSample, ScoresThePredictions

\* Before the samples are scored there is no pool.
LEMMA UnscoredKeeps == ASSUME NEW p, PredictInv(p), FileStep PROVE PredictInv(p)'
<1>1. pool' = NoPool
  BY FileStepIs DEF PredictInv, ScoringOK
<1>2. ScoringOK(p)'
  BY <1>1 DEF ScoringOK, NoPool
<1> QED
  BY <1>2, FileStepIs, FileStepKeeps, ScoredStays DEF PredictInv

\* A step of the metrics child.
LEMMA PoolKeeps ==
  ASSUME NEW p, PredictInv(p), eval.step = "score",
         UNCHANGED <<globOrder, saved, wavs, eval, scores>>,
         NEW dirs \in Lists!SetToSeqs(Scorable) \ {<<>>}, SoleCallOK(p, dirs, pool')
  PROVE  PredictInv(p)'
<1>1. eval' = eval /\ wavs' = wavs /\ scores' = scores
  OBVIOUS
<1>2. Scorable' = Scorable
  BY <1>1 DEF Scorable
<1>3. ScoresOf(dirs)' = ScoresOf(dirs)
  BY <1>1 DEF ScoresOf, ScoreOf
<1>4. SoleCallOK(p, dirs, pool)'
  BY <1>3 DEF SoleCallOK
<1>5. ScoringOK(p)'
  BY <1>1, <1>2, <1>4 DEF ScoringOK
<1> QED
  BY <1>1, <1>5, FilesStay, ScoredStays DEF PredictInv

LEMMA DividedByItself == ASSUME NEW n \in Nat \ {0} PROVE CeilDiv(n, 1) = n /\ CeilDiv(n, n) = 1
<1>1. n + 1 - 1 = n * 1 + 0
  OBVIOUS
<1>2. n + n - 1 = n * 1 + (n - 1) /\ n - 1 \in 0 .. n - 1
  OBVIOUS
<1> QED
  BY <1>1, <1>2 DEF CeilDiv

LEMMA OneSublist ==
  ASSUME NEW p, Pool = {p}, NEW T, NEW dirs \in Seq(T), dirs # <<>>
  PROVE  Sublists(dirs) = <<dirs>> /\ Len(Sublists(dirs)) = 1
<1> DEFINE n == Len(dirs)
<1>1. Cardinality(Pool) = 1
  BY FS_Singleton
<1>2. n \in Nat \ {0}
  BY EmptySeq
<1>3. SubSeq(dirs, 1, n) = dirs
  OBVIOUS
<1> HIDE DEF n
<1>4. Sublists(dirs)
      = [i \in 1 .. 1 |-> SubSeq(dirs, (i - 1) * n + 1, IF i * n < n THEN i * n ELSE n)]
  <2>1. (IF 1 < n THEN 1 ELSE n) = 1
    BY <1>2
  <2> QED
    BY <1>1, <1>2, <2>1, DividedByItself DEF Sublists, n
<1>5. SubSeq(dirs, (1 - 1) * n + 1, IF 1 * n < n THEN 1 * n ELSE n) = dirs
  <2>1. (1 - 1) * n + 1 = 1 /\ (IF 1 * n < n THEN 1 * n ELSE n) = n
    BY <1>2
  <2> QED
    BY <1>3, <2>1
<1>6. Sublists(dirs) = [i \in 1 .. 1 |-> dirs]
  BY <1>4, <1>5
<1> QED
  BY <1>6

LEMMA DirsAre ==
  ASSUME PredictTypes, NEW dirs \in Lists!SetToSeqs(Scorable)
  PROVE  /\ dirs \in Seq(Samples) /\ Len(dirs) \in Nat
         /\ \A i \in 1 .. Len(dirs) : dirs[i] \in Scorable
         /\ \A i, j \in 1 .. Len(dirs) : dirs[i] = dirs[j] => i = j
         /\ \A n \in Scorable : \E i \in 1 .. Len(dirs) : dirs[i] = n
<1>1. Scorable \subseteq Samples
  BY DEF Scorable
<1>2. IsFiniteSet(Samples)
  BY RowsAreFinite, FS_Interval DEF Samples
<1>3. IsFiniteSet(Scorable)
  BY <1>1, <1>2, FS_Subset
<1>4. /\ dirs \in Seq(Scorable) /\ Len(dirs) \in Nat
      /\ \A i, j \in 1 .. Len(dirs) : dirs[i] = dirs[j] => i = j
      /\ \A x \in Scorable : \E i \in 1 .. Len(dirs) : dirs[i] = x
  BY <1>3, OrderIs
<1>5. \A i \in 1 .. Len(dirs) : dirs[i] \in Scorable
  BY <1>4, ElementOfSeq
<1>6. dirs \in Seq(Samples)
  <2>1. dirs \in [1 .. Len(dirs) -> Samples]
    BY <1>1, <1>4, <1>5
  <2> QED
    BY <1>4, <2>1, SeqDef
<1> QED
  BY <1>4, <1>5, <1>6

LEMMA SubmitSublistsKeeps ==
  ASSUME NEW p, Pool = {p}, PredictInv(p), NEW dirs \in Lists!SetToSeqs(Scorable),
         SubmitSublists(dirs)
  PROVE  PredictInv(p)'
<1>1. /\ eval.step = "score" /\ dirs # <<>> /\ dirs \in Lists!SetToSeqs(Scorable) \ {<<>>}
      /\ pool' = [NoPool EXCEPT !.calls = Sublists(dirs), !.size = Len(Sublists(dirs))]
      /\ UNCHANGED <<globOrder, saved, wavs, eval, scores>>
  BY DEF SubmitSublists
<1>2. dirs \in Seq(Samples)
  BY DirsAre DEF PredictInv, FilesInv
<1>3. Sublists(dirs) = <<dirs>> /\ Len(Sublists(dirs)) = 1
  BY <1>1, <1>2, OneSublist
<1>4. pool' = AllIn(Member1(<<>>, <<>>, FALSE), <<dirs>>, {}, <<>>, 1)
  BY <1>1, <1>3 DEF NoPool, AllIn, Member1
<1> QED
  BY <1>1, <1>4, PoolKeeps DEF SoleCallOK

\* A pool of any values, and what becomes of a process.
AnyPool(A, B, C, D, E) == [calls : A, ready : B, read : C, size : D, member : E]

LEMMA MemberBecomes ==
  ASSUME NEW s, NEW f, NEW t, NEW u, NEW h
  PROVE  /\ [Member1(s, f, t) EXCEPT !.cut = u] = Member1(s, f, u)
         /\ [Member1(s, f, t) EXCEPT !.file = h] = Member1(s, h, t)
         /\ [Member1(s, f, t) EXCEPT !.sublist = h] = Member1(h, f, t)
BY DEF Member1

\* The steps of a process and of the parent, with a pool of one.
LEMMA WriteIs ==
  ASSUME NEW p, Pool = {p}, NEW s, NEW f, NEW t, NEW c, NEW r, NEW d, NEW z,
         pool = AllIn(Member1(s, f, t), c, r, d, z), WriteFile(p)
  PROVE  t /\ pool' = AllIn(Member1(<<>>, ScoresOf(s), FALSE), c, r \cup {<<p, s>>}, d, z)
BY DEF AllIn, Member1, WriteFile

LEMMA ReadIs ==
  ASSUME NEW p, NEW list, Pool = {p}, ReadFile(p, list),
         NEW s, NEW f, NEW t, NEW c, NEW r, NEW d, NEW z,
         pool = AllIn(Member1(s, f, t), c, r, d, z)
  PROVE  /\ <<p, list>> \in r
         /\ pool' = AllIn(Member1(s, f, t), c, r \ {<<p, list>>}, d \o f, z - 1)
BY DEF AllIn, Member1, ReadFile

\* A pool of one process is in one state at a time.
LEMMA NoPoolIs == NoPool = AllIn(Member1(<<>>, <<>>, FALSE), <<>>, {}, <<>>, 0)
BY DEF NoPool, AllIn, Member1

LEMMA TakeSublistKeeps ==
  ASSUME NEW p, Pool = {p}, PredictInv(p), TakeSublist(p)
  PROVE  PredictInv(p)'
<1>1. UNCHANGED <<globOrder, saved, wavs, eval, scores>>
  BY DEF TakeSublist
<1>2. \A m, r, d, z : pool # AllIn(m, <<>>, r, d, z)
  BY DEF TakeSublist, AllIn
<1>3. pool # NoPool
  BY <1>2, NoPoolIs, Zenon
<1>4. eval.step = "score"
  BY <1>3 DEF PredictInv, ScoringOK
<1>5. PICK dirs \in Lists!SetToSeqs(Scorable) \ {<<>>} : SoleCallOK(p, dirs, pool)
  BY <1>3 DEF PredictInv, ScoringOK
<1>6. PICK s, f, t, c, r, d, z :
        s = <<>> /\ f = <<>> /\ t = FALSE /\ c = <<dirs>> /\ r = {} /\ d = <<>> /\ z = 1
  OBVIOUS
<1>7. pool = AllIn(Member1(s, f, t), c, r, d, z)
  BY <1>2, <1>5, <1>6, Zenon DEF SoleCallOK
<1>8. pool.calls = c
  BY <1>7 DEF AllIn
<1>9. Head(c) = dirs /\ Tail(c) = <<>>
  BY <1>6
<1>10. PICK h, e : h = dirs /\ e = <<>>
  OBVIOUS
<1>11. pool' = [pool EXCEPT !.calls = e, !.member[p].sublist = h]
  BY <1>8, <1>9, <1>10 DEF TakeSublist
<1>12. [pool EXCEPT !.calls = e, !.member[p].sublist = h] = AllIn(Member1(h, f, t), e, r, d, z)
  <2> DEFINE M == [q \in {p} |-> Member1(s, f, t)]
  <2>1. [M EXCEPT ![p].sublist = h] = [q \in {p} |-> Member1(h, f, t)]
    <3>1. [Member1(s, f, t) EXCEPT !.sublist = h] = Member1(h, f, t)
      BY DEF Member1
    <3>2. [M EXCEPT ![p] = Member1(h, f, t)] = [q \in {p} |-> Member1(h, f, t)]
      OBVIOUS
    <3>3. M[p] = Member1(s, f, t)
      OBVIOUS
    <3> QED
      BY <3>1, <3>2, <3>3
  <2>2. pool = [calls |-> c, ready |-> r, read |-> d, size |-> z, member |-> M]
    BY <1>7 DEF AllIn
  <2> HIDE DEF M
  <2>3. [pool EXCEPT !.calls = e, !.member[p].sublist = h]
        = [calls |-> e, ready |-> r, read |-> d, size |-> z, member |-> [M EXCEPT ![p].sublist = h]]
    <3>1. pool \in AnyPool({c}, {r}, {d}, {z}, {M})
      BY <2>2 DEF AnyPool
    <3>2. PICK n : n = [pool EXCEPT !.calls = e]
      OBVIOUS
    <3>3. n = [calls |-> e, ready |-> r, read |-> d, size |-> z, member |-> M]
      BY <2>2, <3>1, <3>2 DEF AnyPool
    <3>4. n \in AnyPool({e}, {r}, {d}, {z}, {M})
      BY <3>3 DEF AnyPool
    <3>5. [n EXCEPT !.member[p].sublist = h]
          = [calls |-> e, ready |-> r, read |-> d, size |-> z, member |-> [M EXCEPT ![p].sublist = h]]
      BY <3>3, <3>4 DEF AnyPool
    <3>6. [pool EXCEPT !.calls = e, !.member[p].sublist = h] = [n EXCEPT !.member[p].sublist = h]
      BY <3>2
    <3> QED
      BY <3>5, <3>6
  <2> QED
    BY <2>1, <2>3 DEF AllIn
<1>13. pool' = AllIn(Member1(dirs, <<>>, FALSE), <<>>, {}, <<>>, 1)
  BY <1>6, <1>10, <1>11, <1>12
<1>14. SoleCallOK(p, dirs, pool')
  BY <1>13, Zenon DEF SoleCallOK
<1> QED
  BY <1>1, <1>4, <1>14, PoolKeeps

LEMMA BeginFileKeeps ==
  ASSUME NEW p, Pool = {p}, PredictInv(p), NEW k, BeginFile(p, k)
  PROVE  PredictInv(p)'
<1>1. UNCHANGED <<globOrder, saved, wavs, eval, scores>>
  BY DEF BeginFile
<1>2. /\ \A f, t, c, r, d, z : pool # AllIn(Member1(<<>>, f, t), c, r, d, z)
      /\ \A s, f, c, r, d, z : pool # AllIn(Member1(s, f, TRUE), c, r, d, z)
  BY DEF BeginFile, AllIn, Member1
<1>3. pool # NoPool
  BY <1>2, NoPoolIs, Zenon
<1>4. eval.step = "score"
  BY <1>3 DEF PredictInv, ScoringOK
<1>5. PICK dirs \in Lists!SetToSeqs(Scorable) \ {<<>>} : SoleCallOK(p, dirs, pool)
  BY <1>3 DEF PredictInv, ScoringOK
<1>6. PICK f : pool = AllIn(Member1(dirs, f, FALSE), <<>>, {}, <<>>, 1)
  BY <1>2, <1>5, Zenon DEF SoleCallOK
<1>7. PICK s, t, u, c, r, d, z :
        s = dirs /\ t = FALSE /\ u = TRUE /\ c = <<>> /\ r = {} /\ d = <<>> /\ z = 1
  OBVIOUS
<1>8. pool = AllIn(Member1(s, f, t), c, r, d, z)
  BY <1>6, <1>7, Zenon
<1>9. pool.member[p].sublist = s
  BY <1>8 DEF AllIn, Member1
<1>10. PICK h : h = SubSeq(ScoresOf(s), 1, k)
  OBVIOUS
<1>11. pool' = [pool EXCEPT !.member[p].cut = u, !.member[p].file = h]
  BY <1>7, <1>9, <1>10 DEF BeginFile
<1>12. [pool EXCEPT !.member[p].cut = u, !.member[p].file = h]
       = AllIn(Member1(s, h, u), c, r, d, z)
  <2> DEFINE M == [q \in {p} |-> Member1(s, f, t)]
             N == [q \in {p} |-> Member1(s, f, u)]
  <2>1. [M EXCEPT ![p].cut = u] = N
    <3>1. [Member1(s, f, t) EXCEPT !.cut = u] = Member1(s, f, u)
      BY MemberBecomes
    <3>2. [M EXCEPT ![p] = Member1(s, f, u)] = N
      OBVIOUS
    <3>3. M[p] = Member1(s, f, t)
      OBVIOUS
    <3> QED
      BY <3>1, <3>2, <3>3
  <2>2. [N EXCEPT ![p].file = h] = [q \in {p} |-> Member1(s, h, u)]
    <3>1. [Member1(s, f, u) EXCEPT !.file = h] = Member1(s, h, u)
      BY MemberBecomes
    <3>2. [N EXCEPT ![p] = Member1(s, h, u)] = [q \in {p} |-> Member1(s, h, u)]
      OBVIOUS
    <3>3. N[p] = Member1(s, f, u)
      OBVIOUS
    <3> QED
      BY <3>1, <3>2, <3>3
  <2>3. pool = [calls |-> c, ready |-> r, read |-> d, size |-> z, member |-> M]
    BY <1>8 DEF AllIn
  <2> HIDE DEF M, N
  <2>4. [pool EXCEPT !.member[p].cut = u, !.member[p].file = h]
        = [calls |-> c, ready |-> r, read |-> d, size |-> z,
           member |-> [[M EXCEPT ![p].cut = u] EXCEPT ![p].file = h]]
    <3>1. pool \in AnyPool({c}, {r}, {d}, {z}, {M})
      BY <2>3 DEF AnyPool
    <3>2. PICK n : n = [pool EXCEPT !.member[p].cut = u]
      OBVIOUS
    <3>3. n = [calls |-> c, ready |-> r, read |-> d, size |-> z,
               member |-> [M EXCEPT ![p].cut = u]]
      BY <2>3, <3>1, <3>2 DEF AnyPool
    <3>4. n \in AnyPool({c}, {r}, {d}, {z}, {[M EXCEPT ![p].cut = u]})
      BY <3>3 DEF AnyPool
    <3>5. [n EXCEPT !.member[p].file = h]
          = [calls |-> c, ready |-> r, read |-> d, size |-> z,
             member |-> [[M EXCEPT ![p].cut = u] EXCEPT ![p].file = h]]
      BY <3>3, <3>4 DEF AnyPool
    <3>6. [pool EXCEPT !.member[p].cut = u, !.member[p].file = h] = [n EXCEPT !.member[p].file = h]
      BY <3>2
    <3> QED
      BY <3>5, <3>6
  <2> QED
    BY <2>1, <2>2, <2>4 DEF AllIn
<1>13. pool' = AllIn(Member1(dirs, h, TRUE), <<>>, {}, <<>>, 1)
  BY <1>7, <1>11, <1>12
<1>14. SoleCallOK(p, dirs, pool')
  BY <1>13, Zenon DEF SoleCallOK
<1> QED
  BY <1>1, <1>4, <1>14, PoolKeeps

LEMMA WriteFileKeeps ==
  ASSUME NEW p, Pool = {p}, PredictInv(p), WriteFile(p)
  PROVE  PredictInv(p)'
<1>1. UNCHANGED <<globOrder, saved, wavs, eval, scores>>
  BY DEF WriteFile
<1>2. \A s, f, c, r, d, z : pool # AllIn(Member1(s, f, FALSE), c, r, d, z)
  BY WriteIs, Zenon
<1>3. pool # NoPool
  BY <1>2, NoPoolIs, Zenon
<1>4. PICK dirs \in Lists!SetToSeqs(Scorable) \ {<<>>} : SoleCallOK(p, dirs, pool)
  BY <1>3 DEF PredictInv, ScoringOK
<1>5. PICK file : pool = AllIn(Member1(dirs, file, TRUE), <<>>, {}, <<>>, 1)
  BY <1>2, <1>4, Zenon DEF SoleCallOK
<1>6. pool' = AllIn(Member1(<<>>, ScoresOf(dirs), FALSE), <<>>, {} \cup {<<p, dirs>>}, <<>>, 1)
  BY <1>5, WriteIs, Zenon
<1>7. {} \cup {<<p, dirs>>} = {<<p, dirs>>}
  OBVIOUS
<1>8. pool' = AllIn(Member1(<<>>, ScoresOf(dirs), FALSE), <<>>, {<<p, dirs>>}, <<>>, 1)
  BY <1>6, <1>7, Zenon
<1>9. SoleCallOK(p, dirs, pool')
  BY <1>8, Zenon DEF SoleCallOK
<1>10. eval.step = "score"
  BY <1>3 DEF PredictInv, ScoringOK
<1> QED
  BY <1>1, <1>9, <1>10, PoolKeeps

LEMMA ReadFileKeeps ==
  ASSUME NEW p, Pool = {p}, PredictInv(p), NEW list, ReadFile(p, list)
  PROVE  PredictInv(p)'
<1>1. UNCHANGED <<globOrder, saved, wavs, eval, scores>>
  BY DEF ReadFile
<1>2. \A m, c, d, z : pool # AllIn(m, c, {}, d, z)
  <2>1. \A m, c, r, d, z : pool = AllIn(m, c, r, d, z) => pool.ready = r
    BY DEF AllIn
  <2>2. pool.ready # {}
    BY DEF ReadFile
  <2> QED
    BY <2>1, <2>2
<1>3. pool # NoPool
  BY <1>2, NoPoolIs, Zenon
<1>4. PICK dirs \in Lists!SetToSeqs(Scorable) \ {<<>>} : SoleCallOK(p, dirs, pool)
  BY <1>3 DEF PredictInv, ScoringOK
<1>5. pool = AllIn(Member1(<<>>, ScoresOf(dirs), FALSE), <<>>, {<<p, dirs>>}, <<>>, 1)
  BY <1>2, <1>4, Zenon DEF SoleCallOK
<1>6. /\ <<p, list>> \in {<<p, dirs>>}
      /\ pool' = AllIn(Member1(<<>>, ScoresOf(dirs), FALSE), <<>>,
                       {<<p, dirs>>} \ {<<p, list>>}, <<>> \o ScoresOf(dirs), 1 - 1)
  <2>1. PICK u : u = FALSE
    OBVIOUS
  <2>2. pool = AllIn(Member1(<<>>, ScoresOf(dirs), u), <<>>, {<<p, dirs>>}, <<>>, 1)
    BY <1>5, <2>1
  <2>3. /\ <<p, list>> \in {<<p, dirs>>}
        /\ pool' = AllIn(Member1(<<>>, ScoresOf(dirs), u), <<>>,
                         {<<p, dirs>>} \ {<<p, list>>}, <<>> \o ScoresOf(dirs), 1 - 1)
    <3>1. \A s, f, t, c, r, d, z : pool = AllIn(Member1(s, f, t), c, r, d, z) =>
            /\ <<p, list>> \in r
            /\ pool' = AllIn(Member1(s, f, t), c, r \ {<<p, list>>}, d \o f, z - 1)
      BY ReadIs, Zenon
    <3> QED
      BY <2>2, <3>1
  <2> QED
    BY <2>1, <2>3
<1>7. {<<p, dirs>>} \ {<<p, list>>} = {} /\ 1 - 1 = 0
  BY <1>6
<1>8. <<>> \o ScoresOf(dirs) = ScoresOf(dirs)
  <2>1. dirs \in Seq(Samples)
    BY DirsAre DEF PredictInv, FilesInv
  <2>2. ScoresOf(dirs) \in Seq({ScoreOf(n) : n \in Samples})
    BY <2>1 DEF ScoresOf
  <2> QED
    BY <2>2, ConcatEmptySeq
<1>9. pool' = AllIn(Member1(<<>>, ScoresOf(dirs), FALSE), <<>>, {}, ScoresOf(dirs), 0)
  BY <1>6, <1>7, <1>8, Zenon
<1>10. SoleCallOK(p, dirs, pool')
  BY <1>9, Zenon DEF SoleCallOK
<1>11. eval.step = "score"
  BY <1>3 DEF PredictInv, ScoringOK
<1> QED
  BY <1>1, <1>10, <1>11, PoolKeeps

\* Each row of the dataset is in one of the files.
LEMMA RowIsInAFile ==
  ASSUME NEW order \in Lists!SetToSeqs(BatchIds), NEW x \in DatasetRows
  PROVE  \E k \in 1 .. FileCount : \E i \in 1 .. RowCount(order, k) : x = RowAt(order, k, i)
<1>1. PICK b \in BatchIds : x \in Lists!ToSet(DatasetBatches[b])
  BY DEF DatasetRows
<1>2. PICK k \in 1 .. FileCount : order[k] = b
  BY ListingIs
<1>3. PICK i \in 1 .. Len(DatasetBatches[b]) : x = DatasetBatches[b][i]
  BY <1>1, BatchIs DEF Lists!ToSet
<1> QED
  BY <1>2, <1>3 DEF RowCount, RowAt

\* The files of a sample are of one row; of a launch that rendered, of its own.
LEMMA FilesAre ==
  ASSUME PredictTypes, RenderedOK, eval.step = "score", NEW n \in Samples
  PROVE  /\ n \in Scorable => /\ wavs[n].pred.row = wavs[n].target.row
                              /\ wavs[n].pred \in Wav /\ wavs[n].target \in Wav
         /\ eval.set.render => n \in Scorable /\ wavs[n].pred.by = eval.launch
<1>1. /\ globOrder \in Lists!SetToSeqs(BatchIds)
      /\ wavs \in [Samples -> [target : Wav \cup {NoWav}, pred : Wav \cup {NoWav}]]
      /\ FileCount \in Nat
  BY BatchIs DEF PredictTypes
<1>2. PICK k \in 1 .. FileCount : \E i \in 1 .. RowCount(globOrder, k) :
        n = SampleAt(globOrder, k, i)
  BY <1>1, SampleIsARows
<1>3. PICK i \in 1 .. RowCount(globOrder, k) : n = SampleAt(globOrder, k, i)
  BY <1>2
<1>4. FilesOf(globOrder, wavs[n], k, i)
  BY <1>3 DEF RenderedOK, WavsOK
<1>5. n \in Scorable => wavs[n].pred.row = wavs[n].target.row
  BY <1>4 DEF FilesOf, Scorable
<1>6. n \in Scorable => wavs[n].pred \in Wav /\ wavs[n].target \in Wav
  BY <1>1 DEF Scorable
<1>7. ASSUME eval.set.render PROVE n \in Scorable /\ wavs[n].pred.by = eval.launch
  <2>1. DoneBefore(globOrder, wavs, FileCount + 1, 1, eval.launch)
    BY <1>7 DEF RenderedOK
  <2>2. k < FileCount + 1
    BY <1>1
  <2>3. Done(wavs[n], eval.launch)
    BY <1>3, <2>1, <2>2 DEF DoneBefore
  <2> QED
    BY <2>3 DEF Done, Scorable
<1> QED
  BY <1>5, <1>6, <1>7

\* Of a launch that rendered, the predictions scored are the dataset's.
LEMMA PredictionsAre ==
  ASSUME PredictTypes, RenderedOK, eval.step = "score", eval.set.render, NEW r \in DatasetRows
  PROVE  \E n \in Scorable : wavs[n].pred.row = r
<1>1. globOrder \in Lists!SetToSeqs(BatchIds)
  BY DEF PredictTypes
<1>2. PICK k \in 1 .. FileCount : \E i \in 1 .. RowCount(globOrder, k) : r = RowAt(globOrder, k, i)
  BY <1>1, RowIsInAFile
<1>3. PICK i \in 1 .. RowCount(globOrder, k) : r = RowAt(globOrder, k, i)
  BY <1>2
<1>4. PICK n \in Samples : n = SampleAt(globOrder, k, i)
  BY <1>1, SampleIs
<1>5. n \in Scorable
  BY FilesAre
<1>6. FilesOf(globOrder, wavs[n], k, i)
  BY <1>4 DEF RenderedOK, WavsOK
<1> QED
  BY <1>3, <1>5, <1>6 DEF FilesOf, Scorable

\* What is scored by the launch is what EveryRowScoredOnce says.
ScoredRowsOK(rows) ==
  /\ Lists!IsInjective([i \in DOMAIN rows |-> rows[i].sample])
  /\ eval.set.render => Lists!ToSet([i \in DOMAIN rows |-> rows[i].sample]) = Samples
  /\ \A i \in DOMAIN rows : rows[i].pred.row = rows[i].target.row
  /\ eval.set.render =>
       {rows[i].pred : i \in DOMAIN rows} = [row : DatasetRows, by : {eval.launch}]

LEMMA ScoresAre ==
  ASSUME PredictTypes, RenderedOK, eval.step = "score", NEW dirs \in Lists!SetToSeqs(Scorable),
         NEW rows, rows = ScoresOf(dirs)
  PROVE  ScoredRowsOK(rows)
<1>1. /\ dirs \in Seq(Samples) /\ DOMAIN dirs = 1 .. Len(dirs)
      /\ \A i \in 1 .. Len(dirs) : dirs[i] \in Scorable
      /\ \A i, j \in 1 .. Len(dirs) : dirs[i] = dirs[j] => i = j
      /\ \A n \in Scorable : \E i \in 1 .. Len(dirs) : dirs[i] = n
  BY DirsAre
<1>2. /\ DOMAIN rows = 1 .. Len(dirs)
      /\ \A i \in 1 .. Len(dirs) : /\ rows[i].sample = dirs[i]
                                   /\ rows[i].target = wavs[dirs[i]].target
                                   /\ rows[i].pred = wavs[dirs[i]].pred
  BY <1>1 DEF ScoresOf, ScoreOf
<1>3. Scorable \subseteq Samples
  BY DEF Scorable
<1>4. [i \in DOMAIN rows |-> rows[i].sample] = [i \in 1 .. Len(dirs) |-> dirs[i]]
  BY <1>2
<1>5. Lists!IsInjective([i \in DOMAIN rows |-> rows[i].sample])
  BY <1>1, <1>4 DEF Lists!IsInjective
<1>6. eval.set.render => Lists!ToSet([i \in DOMAIN rows |-> rows[i].sample]) = Samples
  <2>1. eval.set.render => Scorable = Samples
    BY <1>3, FilesAre
  <2>2. Lists!ToSet([i \in 1 .. Len(dirs) |-> dirs[i]]) = Scorable
    BY <1>1 DEF Lists!ToSet
  <2> QED
    BY <1>4, <2>1, <2>2
<1>7. \A i \in DOMAIN rows : rows[i].pred.row = rows[i].target.row
  BY <1>1, <1>2, <1>3, FilesAre
<1>8. ASSUME eval.set.render
      PROVE  {rows[i].pred : i \in DOMAIN rows} = [row : DatasetRows, by : {eval.launch}]
  <2>1. ASSUME NEW i \in 1 .. Len(dirs)
        PROVE  rows[i].pred \in [row : DatasetRows, by : {eval.launch}]
    <3>1. PICK n \in Samples : n = dirs[i] /\ n \in Scorable
      BY <1>1, <1>3
    <3>2. rows[i].pred = wavs[n].pred
      BY <1>2, <3>1
    <3>3. wavs[n].pred \in [row : DatasetRows, by : 1 .. MaxEvals] /\ wavs[n].pred.by = eval.launch
      BY <1>8, <3>1, FilesAre DEF Wav
    <3> QED
      BY <3>2, <3>3
  <2>2. ASSUME NEW x \in [row : DatasetRows, by : {eval.launch}]
        PROVE  \E i \in 1 .. Len(dirs) : rows[i].pred = x
    <3>1. PICK n \in Scorable : wavs[n].pred.row = x.row
      BY <1>8, PredictionsAre
    <3>2. wavs[n].pred \in [row : DatasetRows, by : 1 .. MaxEvals] /\ wavs[n].pred.by = eval.launch
      BY <1>3, <1>8, <3>1, FilesAre DEF Wav
    <3>3. wavs[n].pred = x
      BY <3>1, <3>2
    <3>4. PICK i \in 1 .. Len(dirs) : dirs[i] = n
      BY <1>1
    <3> QED
      BY <1>2, <3>3, <3>4
  <2> DEFINE S == {rows[i].pred : i \in DOMAIN rows}
             R == [row : DatasetRows, by : {eval.launch}]
  <2>3. \A x : x \in S <=> \E i \in 1 .. Len(dirs) : rows[i].pred = x
    BY <1>2
  <2>4. /\ \A i \in 1 .. Len(dirs) : rows[i].pred \in R
        /\ \A x \in R : \E i \in 1 .. Len(dirs) : rows[i].pred = x
    BY <2>1, <2>2
  <2> HIDE DEF S, R
  <2>5. S = R
    BY <2>3, <2>4
  <2> QED
    BY <2>5 DEF S, R
<1> QED
  BY <1>5, <1>6, <1>7, <1>8 DEF ScoredRowsOK

LEMMA PublishScoresKeeps ==
  ASSUME NEW p, Pool = {p}, PredictInv(p), Publish PROVE PredictInv(p)'
<1>1. /\ eval.step = "score" /\ pool # NoPool /\ pool.size = 0
      /\ scores' = [launch |-> eval.launch, set |-> eval.set, rows |-> pool.read]
      /\ pool' = NoPool /\ eval' = [eval EXCEPT !.step = "ended"]
      /\ UNCHANGED <<globOrder, saved, wavs>>
  BY DEF Publish
<1>2. PredictTypes /\ RenderedOK
  BY DEF PredictInv, FilesInv
<1>3. PICK dirs \in Lists!SetToSeqs(Scorable) \ {<<>>} : SoleCallOK(p, dirs, pool)
  BY <1>1 DEF PredictInv, ScoringOK
<1>4. \A m, c, r, d : pool # AllIn(m, c, r, d, 1)
  BY <1>1 DEF AllIn
<1>5. pool = AllIn(Member1(<<>>, ScoresOf(dirs), FALSE), <<>>, {}, ScoresOf(dirs), 0)
  BY <1>3, <1>4, Zenon DEF SoleCallOK
<1>6. pool.read = ScoresOf(dirs)
  BY <1>5 DEF AllIn
<1>7. PICK rows : rows = ScoresOf(dirs)
  OBVIOUS
<1>8. ScoredRowsOK(rows)
  BY <1>1, <1>2, <1>7, ScoresAre
<1>9. scores'.rows = rows /\ scores'.set = eval.set /\ scores'.launch = eval.launch
  BY <1>1, <1>6, <1>7
<1>10. EveryRowScoredOnce'
  BY <1>8, <1>9 DEF ScoredRowsOK, EveryRowScoredOnce, OneRowPerSample, ScoresThePredictions
<1> QED
  BY <1>1, <1>10, FilesEndKeep DEF PredictInv, ScoringOK, NoPool

LEMMA EvalFailsKeeps == ASSUME NEW p, PredictInv(p), EvalFails PROVE PredictInv(p)'
<1>1. /\ pool' = NoPool /\ eval' = [eval EXCEPT !.step = "ended"]
      /\ UNCHANGED <<globOrder, saved, wavs, scores>>
  BY DEF EvalFails
<1> QED
  BY <1>1, FilesEndKeep, ScoredStays DEF PredictInv, ScoringOK, NoPool

LEMMA PredictStutters == ASSUME NEW p, PredictInv(p), UNCHANGED predictVars PROVE PredictInv(p)'
<1>1. /\ globOrder' = globOrder /\ saved' = saved /\ wavs' = wavs /\ eval' = eval
      /\ pool' = pool /\ scores' = scores
  BY DEF predictVars
<1>2. ScoringOK(p)'
  BY <1>1 DEF PredictInv, ScoringOK, Scorable, SoleCallOK, ScoresOf, ScoreOf
<1> QED
  BY <1>1, <1>2, FilesStay, ScoredStays DEF PredictInv

LEMMA PredictStep ==
  ASSUME NEW p, Pool = {p}, PredictInv(p), [PredictNext]_predictVars
  PROVE  PredictInv(p)'
<1>1. CASE FileStep
  BY <1>1, UnscoredKeeps
<1>2. CASE \E dirs \in Lists!SetToSeqs(Scorable) : SubmitSublists(dirs)
  BY <1>2, SubmitSublistsKeeps
<1>3. CASE \E q \in Pool : \/ TakeSublist(q) \/ WriteFile(q)
                           \/ \E k \in 0 .. Len(pool.member[q].sublist) - 1 : BeginFile(q, k)
  <2>1. CASE TakeSublist(p)
    BY <2>1, TakeSublistKeeps
  <2>2. CASE WriteFile(p)
    BY <2>2, WriteFileKeeps
  <2>3. CASE \E k \in 0 .. Len(pool.member[p].sublist) - 1 : BeginFile(p, k)
    BY <2>3, BeginFileKeeps
  <2> QED
    BY <1>3, <2>1, <2>2, <2>3
<1>4. CASE \E call \in pool.ready : ReadFile(call[1], call[2])
  <2>1. PICK call \in pool.ready : ReadFile(call[1], call[2])
    BY <1>4
  <2>2. PICK q, list : q = call[1] /\ list = call[2] /\ ReadFile(q, list)
    BY <2>1
  <2>3. <<q, list>> \in pool.ready
    BY <2>2 DEF ReadFile
  <2>4. q = p
    <3>1. pool # NoPool
      BY <2>3 DEF NoPool
    <3>2. PICK dirs : SoleCallOK(p, dirs, pool)
      BY <3>1 DEF PredictInv, ScoringOK
    <3>3. pool.ready = {} \/ pool.ready = {<<p, dirs>>}
      <4>1. \A m, c, r, d, z : pool = AllIn(m, c, r, d, z) => pool.ready = r
        BY DEF AllIn
      <4> QED
        BY <3>2, <4>1, Zenon DEF SoleCallOK
    <3> QED
      BY <2>3, <3>3
  <2> QED
    BY <2>2, <2>4, ReadFileKeeps
<1>5. CASE Publish
  BY <1>5, PublishScoresKeeps
<1>6. CASE EvalFails
  BY <1>6, EvalFailsKeeps
<1>7. CASE UNCHANGED predictVars
  BY <1>7, PredictStutters
<1> QED
  BY <1>1, <1>2, <1>3, <1>4, <1>5, <1>6, <1>7 DEF PredictNext, FileStep

\* With one process in the metrics pool, metrics.csv has one row per sample, and
\* a launch that rendered scores every row of the dataset, its own prediction
\* against its own target: for any batches, in any order of their listing, and
\* however earlier launches died over the directory.
THEOREM EveryRowIsScored ==
  ASSUME NEW p, Pool = {p} PROVE PredictSpec => []EveryRowScoredOnce
<1>1. PredictInit => PredictInv(p)
  BY PredictStarts
<1>2. PredictInv(p) /\ [PredictNext]_predictVars => PredictInv(p)'
  BY PredictStep
<1>3. PredictInv(p) => EveryRowScoredOnce
  BY DEF PredictInv
<1> QED
  BY <1>1, <1>2, <1>3, PTL DEF PredictSpec
-----------------------------------------------------------------------------
(***************************************************************************)
(* The same evaluation scored by a pool of any size: which call a file is  *)
(* read for is not known, but whatever it holds are scores of one row each.*)
(***************************************************************************)

\* A prediction scored against its own target.
RowScore == {x \in Score : x.pred.row = x.target.row}

\* A pool at work on the samples of S: a call that is still to be read is in the
\* queue, at a process or answered.
MemberOf(S) == [sublist : Seq(S), file : Seq(RowScore), cut : BOOLEAN]

Answers(S) == SUBSET (Pool \X Seq(S))

PoolOf(S) == [calls : Seq(Seq(S)), ready : Answers(S), read : Seq(RowScore), size : Nat,
              member : [Pool -> MemberOf(S)]]

Busy(q) == {p \in Pool : q.member[p].sublist # <<>>}

PoolFits(q, S) ==
  /\ q \in PoolOf(S)
  /\ \A p \in Pool : q.member[p].cut => q.member[p].sublist # <<>>
  /\ IsFiniteSet(q.ready)
  /\ Len(q.calls) + Cardinality(Busy(q)) + Cardinality(q.ready) <= q.size

ScoredRows == [launch : 1 .. MaxEvals, set : EvalSettings, rows : Seq(RowScore)]

PoolInv ==
  /\ FilesInv
  /\ labelled \in BOOLEAN
  /\ pool = NoPool \/ (eval.step = "score" /\ PoolFits(pool, Scorable))
  /\ scores = NoScores \/ scores \in ScoredRows

\* The parts of a pool, whatever they hold.
LEMMA PoolParts ==
  ASSUME NEW S, NEW q \in PoolOf(S)
  PROVE  /\ q.ready \in Answers(S) /\ q.member \in [Pool -> MemberOf(S)]
         /\ \A p \in Pool : q.member[p] \in MemberOf(S)
BY DEF PoolOf

\* What an action makes of them.
PoolAs(calls, ready, read, size, f) ==
  [calls |-> calls, ready |-> ready, read |-> read, size |-> size, member |-> f]
WithMembers(q, f, ready) == [q EXCEPT !.member = f, !.ready = ready]
WithMember(f, p, m) == [f EXCEPT ![p] = m]
Begins(m, begun, h) == [m EXCEPT !.cut = begun, !.file = h]
Resting(h) == [sublist |-> <<>>, file |-> h, cut |-> FALSE]
Queued(calls) == [NoPool EXCEPT !.calls = calls, !.size = Len(calls)]
AnsweredBy(q, p, h) == [q EXCEPT !.member[p] = [sublist |-> <<>>, cut |-> FALSE, file |-> h],
                                 !.ready = @ \cup {<<p, q.member[p].sublist>>}]
BegunBy(q, p, begun, h) == [q EXCEPT !.member[p].cut = begun, !.member[p].file = h]

LEMMA PoolMade ==
  ASSUME NEW S, NEW calls \in Seq(Seq(S)), NEW ready \in Answers(S), NEW read \in Seq(RowScore),
         NEW size \in Nat, NEW f \in [Pool -> MemberOf(S)],
         NEW q, q = PoolAs(calls, ready, read, size, f)
  PROVE  /\ q \in PoolOf(S)
         /\ q.calls = calls /\ q.ready = ready /\ q.size = size /\ q.member = f
BY DEF PoolOf, PoolAs

LEMMA MembersEdited ==
  ASSUME NEW S, NEW q \in PoolOf(S), NEW f \in [Pool -> MemberOf(S)], NEW ready \in Answers(S),
         NEW r, r = WithMembers(q, f, ready)
  PROVE  /\ r \in PoolOf(S)
         /\ r.calls = q.calls /\ r.ready = ready /\ r.size = q.size /\ r.member = f
BY DEF PoolOf, WithMembers

LEMMA MemberEdited ==
  ASSUME NEW S, NEW f \in [Pool -> MemberOf(S)], NEW p \in Pool, NEW m \in MemberOf(S),
         NEW g, g = WithMember(f, p, m)
  PROVE  g \in [Pool -> MemberOf(S)] /\ g[p] = m /\ \A o \in Pool \ {p} : g[o] = f[o]
BY DEF WithMember

LEMMA OneEdited ==
  ASSUME NEW S, NEW q \in PoolOf(S), NEW p \in Pool, NEW m \in MemberOf(S), NEW ready \in Answers(S),
         NEW r, r = WithMembers(q, WithMember(q.member, p, m), ready)
  PROVE  /\ r \in PoolOf(S) /\ r.calls = q.calls /\ r.ready = ready /\ r.size = q.size
         /\ r.member[p] = m /\ \A o \in Pool \ {p} : r.member[o] = q.member[o]
<1>1. q.member \in [Pool -> MemberOf(S)]
  BY PoolParts
<1>2. PICK g : g = WithMember(q.member, p, m)
  OBVIOUS
<1>3. g \in [Pool -> MemberOf(S)] /\ g[p] = m /\ \A o \in Pool \ {p} : g[o] = q.member[o]
  BY <1>1, <1>2, MemberEdited
<1>4. r.calls = q.calls /\ r.ready = ready /\ r.size = q.size /\ r.member = g /\ r \in PoolOf(S)
  BY <1>2, <1>3, MembersEdited
<1> QED
  BY <1>3, <1>4

\* All processes are alike.
LEMMA AllAlike ==
  ASSUME NEW S, NEW m \in MemberOf(S), NEW f, f = [p \in Pool |-> m]
  PROVE  f \in [Pool -> MemberOf(S)] /\ \A p \in Pool : f[p] = m
OBVIOUS

LEMMA MemberBegins ==
  ASSUME NEW S, NEW begun \in BOOLEAN, NEW h \in Seq(RowScore), NEW m \in MemberOf(S),
         NEW n, n = Begins(m, begun, h)
  PROVE  n \in MemberOf(S) /\ n.sublist = m.sublist
BY DEF MemberOf, Begins

\* Two fields of a process are written in one step.
LEMMA BeginsAtOnce ==
  ASSUME NEW S, NEW q \in PoolOf(S), NEW p \in Pool, NEW begun \in BOOLEAN, NEW h \in Seq(RowScore)
  PROVE  BegunBy(q, p, begun, h)
         = WithMembers(q, WithMember(q.member, p, Begins(q.member[p], begun, h)), q.ready)
<1>1. PICK f \in [Pool -> MemberOf(S)] : f = q.member
  BY PoolParts
<1>2. [[f EXCEPT ![p].cut = begun] EXCEPT ![p].file = h]
      = [f EXCEPT ![p] = [f[p] EXCEPT !.cut = begun, !.file = h]]
  BY DEF MemberOf
<1> QED
  BY <1>1, <1>2 DEF PoolOf, BegunBy, WithMembers, WithMember, Begins

LEMMA BusyIs ==
  ASSUME NEW q
  PROVE  IsFiniteSet(Busy(q)) /\ Cardinality(Busy(q)) \in Nat
<1>1. Busy(q) \subseteq Pool
  BY DEF Busy
<1> QED
  BY <1>1, PredictAssumption, FS_Subset, FS_CardinalityType

\* The sublists are of the samples, and there are so many.
LEMMA CeilDivIs ==
  ASSUME NEW n \in Nat \ {0}, NEW d \in Nat \ {0} PROVE CeilDiv(n, d) \in Nat \ {0}
<1> DEFINE q == (n + d - 1) \div d
<1>1. /\ n + d - 1 \in Nat /\ n + d - 1 >= d /\ q \in Int
      /\ d * q <= n + d - 1 /\ n + d - 1 < d * (q + 1)
  BY Z3
<1>2. ~(q <= 0)
  <2> SUFFICES ASSUME q + 1 <= 1 PROVE FALSE
    BY <1>1
  <2> HIDE DEF q
  <2>1. \A a \in Int : a <= 1 => d * a <= d
    BY Z3
  <2>2. q + 1 \in Int
    BY <1>1
  <2>3. d * (q + 1) <= d
    BY <2>1, <2>2
  <2>4. d * (q + 1) \in Int
    BY <2>2
  <2> QED
    BY <1>1, <2>3, <2>4
<1> QED
  BY <1>1, <1>2 DEF CeilDiv

LEMMA SublistsFit ==
  ASSUME NEW S, NEW dirs \in Seq(S), dirs # <<>>
  PROVE  Sublists(dirs) \in Seq(Seq(S)) /\ Len(Sublists(dirs)) \in Nat
<1> DEFINE n == Len(dirs)
           w == IF Cardinality(Pool) < n THEN Cardinality(Pool) ELSE n
           length == CeilDiv(n, w)
           Upto(i) == IF i * length < n THEN i * length ELSE n
           list(i) == SubSeq(dirs, (i - 1) * length + 1, Upto(i))
<1>1. n \in Nat \ {0}
  BY EmptySeq
<1>2. w \in Nat \ {0}
  <2>1. Cardinality(Pool) \in Nat
    BY PredictAssumption, FS_CardinalityType
  <2>2. Cardinality(Pool) # 0
    BY PredictAssumption, FS_EmptySet
  <2> QED
    BY <1>1, <2>1, <2>2
<1>3. length \in Nat \ {0} /\ CeilDiv(n, length) \in Nat
  <2> HIDE DEF n, w
  <2> QED
    BY <1>1, <1>2, CeilDivIs
<1>4. Sublists(dirs) = [i \in 1 .. CeilDiv(n, length) |-> list(i)]
  BY DEF Sublists
<1> HIDE DEF length
<1>5. ASSUME NEW i \in 1 .. CeilDiv(n, length) PROVE list(i) \in Seq(S)
  <2>1. i \in Int /\ i >= 1
    BY <1>3
  <2>2. (i - 1) * length \in Nat /\ i * length \in Nat
    BY <1>3, <2>1
  <2> DEFINE a == (i - 1) * length + 1
             b == Upto(i)
  <2>3. a \in Int /\ b \in Int /\ 1 <= a /\ b <= n
    BY <1>1, <2>2
  <2>4. list(i) = SubSeq(dirs, a, b)
    OBVIOUS
  <2> HIDE DEF a, b
  <2>5. \A j \in a .. b : dirs[j] \in S
    BY <1>1, <2>3, ElementOfSeq
  <2>6. SubSeq(dirs, a, b) \in Seq(S)
    BY <2>3, <2>5, SubSeqProperties
  <2> QED
    BY <2>4, <2>6
<1> HIDE DEF list
<1> QED
  BY <1>3, <1>4, <1>5

\* A process that has nothing to do, with a file or without.
LEMMA AtRest ==
  ASSUME NEW S, NEW h \in Seq(RowScore)
  PROVE  \E m \in MemberOf(S) : m = Resting(h) /\ m.sublist = <<>> /\ ~m.cut
<1>1. PICK s \in Seq(S), no \in BOOLEAN : s = <<>> /\ no = FALSE
  <2>1. <<>> \in Seq(S) /\ FALSE \in BOOLEAN
    OBVIOUS
  <2> QED
    BY <2>1, Zenon
<1>2. [sublist |-> s, file |-> h, cut |-> no] \in MemberOf(S)
  BY <1>1 DEF MemberOf
<1> QED
  BY <1>1, <1>2 DEF Resting

\* The samples are submitted, and nothing else is to be read.
LEMMA SubmittedFits ==
  ASSUME NEW S, NEW calls \in Seq(Seq(S)), NEW q, q = Queued(calls)
  PROVE  PoolFits(q, S)
<1>2. PICK read \in Seq(RowScore) : read = <<>>
  <2>1. <<>> \in Seq(RowScore)
    OBVIOUS
  <2> QED
    BY <2>1, Zenon
<1>1. PICK m \in MemberOf(S) : m = Resting(read) /\ m.sublist = <<>> /\ ~m.cut
  BY AtRest
<1>3. PICK size \in Nat : size = Len(calls)
  OBVIOUS
<1>10. PICK none \in Answers(S) : none = {}
  BY DEF Answers
<1>9. PICK f : f = [p \in Pool |-> m]
  OBVIOUS
<1>4. q = PoolAs(calls, none, read, size, f)
  BY <1>1, <1>2, <1>3, <1>9, <1>10 DEF NoPool, PoolAs, Queued, Resting
<1>11. f \in [Pool -> MemberOf(S)] /\ \A p \in Pool : f[p] = m
  BY <1>1, <1>9, AllAlike
<1>12. q \in PoolOf(S) /\ q.calls = calls /\ q.ready = none /\ q.size = size /\ q.member = f
  <2>1. none \in Answers(S) /\ read \in Seq(RowScore) /\ size \in Nat
    BY <1>2, <1>3, <1>10
  <2> QED
    BY <1>4, <1>11, <2>1, PoolMade, SMTT(60)
<1>5. /\ q.calls = calls /\ q.ready = {} /\ q.size = size
      /\ \A p \in Pool : q.member[p] = m
  BY <1>10, <1>11, <1>12
<1>6. Busy(q) = {}
  BY <1>1, <1>5 DEF Busy
<1>7. IsFiniteSet({}) /\ Cardinality({}) = 0
  BY FS_EmptySet
<1>8. Len(q.calls) + Cardinality(Busy(q)) + Cardinality(q.ready) <= q.size
  <2>1. Cardinality(Busy(q)) = 0 /\ Cardinality(q.ready) = 0
    BY <1>5, <1>6, <1>7
  <2>2. Len(q.calls) = size /\ q.size = size
    BY <1>3, <1>5
  <2> QED
    BY <2>1, <2>2
<1> QED
  BY <1>1, <1>5, <1>7, <1>8, <1>12 DEF PoolFits

LEMMA TakenCounts ==
  ASSUME NEW S, NEW q, PoolFits(q, S), NEW r, Len(r.calls) = Len(q.calls) - 1,
         r.ready = q.ready, r.size = q.size, Cardinality(Busy(r)) <= Cardinality(Busy(q)) + 1
  PROVE  Len(r.calls) + Cardinality(Busy(r)) + Cardinality(r.ready) <= r.size
<1>1. /\ Len(q.calls) \in Nat /\ q.size \in Nat /\ Cardinality(q.ready) \in Nat
      /\ Len(q.calls) + Cardinality(Busy(q)) + Cardinality(q.ready) <= q.size
  BY FS_CardinalityType DEF PoolFits, PoolOf, MemberOf, Answers
<1>2. Cardinality(Busy(q)) \in Nat /\ Cardinality(Busy(r)) \in Nat
  BY BusyIs
<1> QED
  BY <1>1, <1>2

\* A process takes a call from the queue.
LEMMA TakenFits ==
  ASSUME NEW S, NEW q, PoolFits(q, S), NEW p \in Pool, q.calls # <<>>,
         q.member[p].sublist = <<>>,
         NEW r, r = [q EXCEPT !.calls = Tail(@), !.member[p].sublist = Head(q.calls)]
  PROVE  PoolFits(r, S)
<1>1. /\ q \in PoolOf(S) /\ q.calls \in Seq(Seq(S)) /\ q.size \in Nat
      /\ q.member \in [Pool -> [sublist : Seq(S), file : Seq(RowScore), cut : BOOLEAN]]
  BY DEF PoolFits, PoolOf, MemberOf, Answers
<1>2. PICK head \in Seq(S), tail \in Seq(Seq(S)) :
        head = Head(q.calls) /\ tail = Tail(q.calls) /\ Len(tail) = Len(q.calls) - 1
  BY <1>1, HeadTailProperties
<1>3. /\ r \in PoolOf(S) /\ r.calls = tail /\ r.ready = q.ready /\ r.size = q.size
      /\ r.member = [q.member EXCEPT ![p].sublist = head]
  BY <1>1, <1>2 DEF PoolOf, MemberOf, Answers
<1>4. /\ \A o \in Pool : r.member[o].cut = q.member[o].cut
      /\ \A o \in Pool \ {p} : r.member[o].sublist = q.member[o].sublist
  BY <1>1, <1>3
<1>5. \A o \in Pool : r.member[o].cut => r.member[o].sublist # <<>>
  BY <1>4 DEF PoolFits
<1>6. Cardinality(Busy(r)) <= Cardinality(Busy(q)) + 1
  <2>1. Busy(r) \subseteq Busy(q) \cup {p}
    BY <1>4 DEF Busy
  <2>4. /\ IsFiniteSet(Busy(q) \cup {p})
        /\ Cardinality(Busy(q) \cup {p})
           = IF p \in Busy(q) THEN Cardinality(Busy(q)) ELSE Cardinality(Busy(q)) + 1
    BY BusyIs, FS_AddElement
  <2>2. /\ IsFiniteSet(Busy(q) \cup {p})
        /\ Cardinality(Busy(q) \cup {p}) <= Cardinality(Busy(q)) + 1
    BY <2>4, BusyIs
  <2>3. Cardinality(Busy(r)) <= Cardinality(Busy(q) \cup {p})
    BY <2>1, <2>2, FS_Subset
  <2> QED
    BY <2>2, <2>3, BusyIs, FS_CardinalityType
<1>7. Len(r.calls) + Cardinality(Busy(r)) + Cardinality(r.ready) <= r.size
  <2>1. Len(r.calls) = Len(q.calls) - 1 /\ r.ready = q.ready /\ r.size = q.size
    BY <1>2, <1>3
  <2> QED
    BY <1>6, <2>1, TakenCounts, Zenon
<1> QED
  BY <1>3, <1>5, <1>7 DEF PoolFits

\* It begins its file ...
LEMMA BegunIs ==
  ASSUME NEW S, NEW q \in PoolOf(S), NEW p \in Pool, NEW h \in Seq(RowScore),
         NEW begun \in BOOLEAN, NEW r, r = BegunBy(q, p, begun, h)
  PROVE  /\ r \in PoolOf(S) /\ r.calls = q.calls /\ r.ready = q.ready /\ r.size = q.size
         /\ \A o \in Pool : r.member[o].sublist = q.member[o].sublist
         /\ \A o \in Pool \ {p} : r.member[o] = q.member[o]
<1>1. /\ q.member \in [Pool -> MemberOf(S)] /\ q.member[p] \in MemberOf(S)
      /\ q.ready \in Answers(S)
  BY PoolParts
<1>2. PICK n : n = Begins(q.member[p], begun, h)
  OBVIOUS
<1>3. n \in MemberOf(S) /\ n.sublist = q.member[p].sublist
  BY <1>1, <1>2, MemberBegins
<1>4. PICK g : g = WithMember(q.member, p, n)
  OBVIOUS
<1>5. g \in [Pool -> MemberOf(S)] /\ g[p] = n /\ \A o \in Pool \ {p} : g[o] = q.member[o]
  BY <1>1, <1>3, <1>4, MemberEdited
<1>6. r = WithMembers(q, g, q.ready)
  BY <1>2, <1>4, BeginsAtOnce
<1>7. r.calls = q.calls /\ r.ready = q.ready /\ r.size = q.size /\ r.member = g /\ r \in PoolOf(S)
  BY <1>1, <1>5, <1>6, MembersEdited
<1> QED
  BY <1>3, <1>5, <1>7

\* A pool of which nothing but one busy process has changed.
LEMMA BusyStays ==
  ASSUME NEW S, NEW q, PoolFits(q, S), NEW p \in Pool, q.member[p].sublist # <<>>,
         NEW r \in PoolOf(S), r.calls = q.calls, r.ready = q.ready, r.size = q.size,
         \A o \in Pool : r.member[o].sublist = q.member[o].sublist,
         \A o \in Pool \ {p} : r.member[o] = q.member[o]
  PROVE  PoolFits(r, S)
<1>1. \A o \in Pool : r.member[o].cut => r.member[o].sublist # <<>>
  BY DEF PoolFits
<1>2. Busy(r) = Busy(q)
  BY DEF Busy
<1> QED
  BY <1>1, <1>2 DEF PoolFits

LEMMA BegunFits ==
  ASSUME NEW S, NEW q, PoolFits(q, S), NEW p \in Pool, q.member[p].sublist # <<>>,
         NEW h \in Seq(RowScore), NEW begun \in BOOLEAN, NEW r, r = BegunBy(q, p, begun, h)
  PROVE  PoolFits(r, S)
<1>1. q \in PoolOf(S)
  BY DEF PoolFits
<1>2. /\ r \in PoolOf(S) /\ r.calls = q.calls /\ r.ready = q.ready /\ r.size = q.size
      /\ \A o \in Pool : r.member[o].sublist = q.member[o].sublist
      /\ \A o \in Pool \ {p} : r.member[o] = q.member[o]
  BY <1>1, BegunIs
<1> QED
  BY <1>2, BusyStays

\* ... and answers.
LEMMA WrittenFits ==
  ASSUME NEW S, NEW q, PoolFits(q, S), NEW p \in Pool, q.member[p].cut,
         NEW h \in Seq(RowScore), NEW r, r = AnsweredBy(q, p, h)
  PROVE  PoolFits(r, S)
<1>1. /\ q \in PoolOf(S) /\ q.size \in Nat /\ q.calls \in Seq(Seq(S))
      /\ q.ready \in SUBSET (Pool \X Seq(S))
      /\ q.member \in [Pool -> [sublist : Seq(S), file : Seq(RowScore), cut : BOOLEAN]]
  BY DEF PoolFits, PoolOf, MemberOf, Answers
<1>2. PICK list \in Seq(S) : list = q.member[p].sublist /\ list # <<>>
  BY <1>1 DEF PoolFits
<1>3. PICK m \in MemberOf(S) : m = Resting(h) /\ m.sublist = <<>> /\ ~m.cut
  BY AtRest
<1>4. <<p, list>> \in Pool \X Seq(S)
  OBVIOUS
<1>5. PICK ready \in Answers(S) : ready = q.ready \cup {<<p, list>>}
  BY <1>1, <1>4 DEF Answers
<1>6. [sublist |-> <<>>, cut |-> FALSE, file |-> h] = m
  BY <1>3 DEF Resting
<1>7. r = WithMembers(q, WithMember(q.member, p, m), ready)
  BY <1>2, <1>5, <1>6, Zenon DEF WithMembers, WithMember, AnsweredBy
<1>8. /\ r \in PoolOf(S) /\ r.calls = q.calls /\ r.ready = ready /\ r.size = q.size
      /\ r.member[p] = m /\ \A o \in Pool \ {p} : r.member[o] = q.member[o]
  BY <1>1, <1>7, OneEdited
<1>9. \A o \in Pool : r.member[o].cut => r.member[o].sublist # <<>>
  BY <1>3, <1>8 DEF PoolFits
<1>10. Cardinality(Busy(r)) = Cardinality(Busy(q)) - 1
  <2>1. p \in Busy(q) /\ Busy(r) = Busy(q) \ {p}
    BY <1>2, <1>3, <1>8 DEF Busy
  <2> QED
    BY <2>1, BusyIs, FS_RemoveElement
<1>11. IsFiniteSet(r.ready) /\ Cardinality(r.ready) <= Cardinality(q.ready) + 1
  <2>1. IsFiniteSet(q.ready) /\ Cardinality(q.ready) \in Nat
    BY FS_CardinalityType DEF PoolFits
  <2>2. PICK x : x = <<p, list>>
    OBVIOUS
  <2>3. PICK more : more = q.ready \cup {x}
    OBVIOUS
  <2>4. /\ IsFiniteSet(more)
        /\ Cardinality(more)
           = IF x \in q.ready THEN Cardinality(q.ready) ELSE Cardinality(q.ready) + 1
    BY <2>1, <2>3, FS_AddElement
  <2>5. Cardinality(more) <= Cardinality(q.ready) + 1
    BY <2>1, <2>4
  <2>6. r.ready = more
    BY <1>5, <1>8, <2>2, <2>3
  <2> QED
    BY <2>4, <2>5, <2>6
<1>12. Len(r.calls) + Cardinality(Busy(r)) + Cardinality(r.ready) <= r.size
  <2>1. /\ Len(q.calls) + Cardinality(Busy(q)) + Cardinality(q.ready) <= q.size
        /\ Cardinality(q.ready) \in Nat /\ Cardinality(r.ready) \in Nat
    BY <1>11, FS_CardinalityType DEF PoolFits
  <2>2. Len(q.calls) \in Nat
    BY <1>1
  <2>3. Cardinality(Busy(q)) \in Nat /\ Cardinality(Busy(r)) \in Nat
    BY BusyIs
  <2> QED
    BY <1>1, <1>8, <1>10, <1>11, <2>1, <2>2, <2>3
<1> QED
  BY <1>8, <1>9, <1>11, <1>12 DEF PoolFits

\* The parent reads what a process has in its file by then.
LEMMA ReadFits ==
  ASSUME NEW S, NEW q, PoolFits(q, S), NEW p, NEW list, <<p, list>> \in q.ready,
         NEW r, r = [q EXCEPT !.ready = @ \ {<<p, list>>}, !.size = @ - 1,
                              !.read = @ \o q.member[p].file]
  PROVE  PoolFits(r, S)
<1>1. /\ q \in PoolOf(S) /\ q.size \in Nat /\ q.calls \in Seq(Seq(S))
      /\ q.read \in Seq(RowScore) /\ q.ready \in SUBSET (Pool \X Seq(S))
      /\ q.member \in [Pool -> [sublist : Seq(S), file : Seq(RowScore), cut : BOOLEAN]]
  BY DEF PoolFits, PoolOf, MemberOf, Answers
<1>2. p \in Pool
  BY <1>1
<1>3. PICK read \in Seq(RowScore) : read = q.read \o q.member[p].file
  BY <1>1, <1>2, ConcatProperties
<1>4. PICK ready \in SUBSET (Pool \X Seq(S)) : ready = q.ready \ {<<p, list>>}
  BY <1>1
<1>5. IsFiniteSet(ready) /\ Cardinality(ready) = Cardinality(q.ready) - 1
  BY <1>4, FS_RemoveElement DEF PoolFits
<1>6. /\ Len(q.calls) + Cardinality(Busy(q)) + Cardinality(q.ready) <= q.size
      /\ Len(q.calls) \in Nat /\ Cardinality(Busy(q)) \in Nat
      /\ Cardinality(q.ready) \in Nat /\ Cardinality(ready) \in Nat
  BY <1>1, <1>5, BusyIs, FS_CardinalityType DEF PoolFits
<1>7. PICK size \in Nat : size = q.size - 1
  BY <1>1, <1>5, <1>6
<1>8. r = [q EXCEPT !.ready = ready, !.size = size, !.read = read]
  BY <1>3, <1>4, <1>7
<1>9. /\ r \in PoolOf(S) /\ r.calls = q.calls /\ r.ready = ready /\ r.size = size
      /\ r.member = q.member
  BY <1>1, <1>8 DEF PoolOf, MemberOf, Answers
<1>10. Busy(r) = Busy(q)
  BY <1>9 DEF Busy
<1>11. Len(r.calls) + Cardinality(Busy(r)) + Cardinality(r.ready) <= r.size
  <2>1. /\ Len(r.calls) = Len(q.calls) /\ Cardinality(Busy(r)) = Cardinality(Busy(q))
        /\ Cardinality(r.ready) = Cardinality(q.ready) - 1 /\ r.size = q.size - 1
    BY <1>5, <1>7, <1>9, <1>10
  <2> QED
    BY <1>1, <1>6, <2>1
<1>12. \A o \in Pool : r.member[o].cut => r.member[o].sublist # <<>>
  BY <1>9 DEF PoolFits
<1> QED
  BY <1>5, <1>9, <1>11, <1>12 DEF PoolFits

\* Whatever samples are scored, in whatever order, each is of one row.
LEMMA ScoresOfRows ==
  ASSUME FilesInv, eval.step = "score", NEW list \in Seq(Scorable)
  PROVE  ScoresOf(list) \in Seq(RowScore) /\ Len(ScoresOf(list)) = Len(list)
<1>1. ASSUME NEW n \in Scorable PROVE ScoreOf(n) \in RowScore
  <2>1. n \in Samples
    BY DEF Scorable
  <2>2. wavs[n].pred.row = wavs[n].target.row /\ wavs[n].pred \in Wav /\ wavs[n].target \in Wav
    BY <2>1, FilesAre DEF FilesInv
  <2> QED
    BY <2>1, <2>2 DEF RowScore, Score, ScoreOf
<1>2. \A i \in 1 .. Len(list) : list[i] \in Scorable
  BY ElementOfSeq
<1>3. ScoresOf(list) = [i \in 1 .. Len(list) |-> ScoreOf(list[i])] /\ Len(list) \in Nat
  BY DEF ScoresOf
<1> QED
  BY <1>1, <1>2, <1>3

\* A step of the pool goes on with the samples there are.
LEMMA PoolGoesOn ==
  ASSUME PoolInv, eval.step = "score", PoolFits(pool', Scorable),
         UNCHANGED <<labelled, globOrder, saved, wavs, eval, scores>>
  PROVE  PoolInv'
<1>1. FilesInv'
  BY FilesStay DEF PoolInv
<1>2. Scorable' = Scorable /\ eval' = eval
  BY DEF Scorable
<1> QED
  BY <1>1, <1>2 DEF PoolInv

LEMMA PoolStarts == PredictInit => PoolInv
<1> SUFFICES ASSUME PredictInit PROVE PoolInv
  OBVIOUS
<1>1. labelled \in BOOLEAN /\ pool = NoPool /\ scores = NoScores
  BY DEF PredictInit
<1> QED
  BY <1>1, FilesStart DEF PoolInv

LEMMA SubmitGoesOn ==
  ASSUME PoolInv, NEW dirs \in Lists!SetToSeqs(Scorable), SubmitSublists(dirs) PROVE PoolInv'
<1>1. /\ eval.step = "score" /\ dirs # <<>>
      /\ pool' = [NoPool EXCEPT !.calls = Sublists(dirs), !.size = Len(Sublists(dirs))]
      /\ UNCHANGED <<labelled, globOrder, saved, wavs, eval, scores>>
  BY DEF SubmitSublists
<1>2. dirs \in Seq(Scorable)
  <2>1. /\ dirs \in Seq(Samples) /\ Len(dirs) \in Nat
        /\ \A i \in 1 .. Len(dirs) : dirs[i] \in Scorable
    BY DirsAre DEF PoolInv, FilesInv
  <2>2. dirs = [i \in 1 .. Len(dirs) |-> dirs[i]]
    BY <2>1
  <2> QED
    BY <2>1, <2>2, SeqDef
<1>3. Sublists(dirs) \in Seq(Seq(Scorable)) /\ Len(Sublists(dirs)) \in Nat
  BY <1>1, <1>2, SublistsFit
<1>4. PICK calls \in Seq(Seq(Scorable)) : calls = Sublists(dirs) /\ Len(calls) \in Nat
  BY <1>3
<1>5. pool' = Queued(calls)
  BY <1>1, <1>4, Zenon DEF Queued
<1>6. PoolFits(pool', Scorable)
  BY <1>4, <1>5, SubmittedFits, Zenon
<1> QED
  BY <1>1, <1>6, PoolGoesOn

\* Only a pool that scores has calls or answers.
LEMMA AtWork ==
  ASSUME PoolInv, pool # NoPool PROVE eval.step = "score" /\ PoolFits(pool, Scorable)
BY DEF PoolInv

LEMMA NoPoolRests ==
  /\ NoPool.calls = <<>> /\ NoPool.ready = {}
  /\ \A p \in Pool : NoPool.member[p].sublist = <<>> /\ ~NoPool.member[p].cut
BY DEF NoPool

LEMMA TakeGoesOn == ASSUME PoolInv, NEW p \in Pool, TakeSublist(p) PROVE PoolInv'
<1>1. /\ pool.calls # <<>> /\ pool.member[p].sublist = <<>>
      /\ pool' = [pool EXCEPT !.calls = Tail(@), !.member[p].sublist = Head(pool.calls)]
      /\ UNCHANGED <<labelled, globOrder, saved, wavs, eval, scores>>
  BY DEF TakeSublist
<1>2. eval.step = "score" /\ PoolFits(pool, Scorable)
  BY <1>1, AtWork, NoPoolRests
<1>3. PoolFits(pool', Scorable)
  BY <1>1, <1>2, TakenFits, Zenon
<1> QED
  BY <1>1, <1>2, <1>3, PoolGoesOn

LEMMA BeginGoesOn ==
  ASSUME PoolInv, NEW p \in Pool, NEW k \in 0 .. Len(pool.member[p].sublist) - 1, BeginFile(p, k)
  PROVE  PoolInv'
<1>1. /\ pool.member[p].sublist # <<>>
      /\ pool' = [pool EXCEPT !.member[p].cut = TRUE,
                              !.member[p].file = SubSeq(ScoresOf(pool.member[p].sublist), 1, k)]
      /\ UNCHANGED <<labelled, globOrder, saved, wavs, eval, scores>>
  BY DEF BeginFile
<1>2. eval.step = "score" /\ PoolFits(pool, Scorable)
  BY <1>1, AtWork, NoPoolRests
<1>3. PICK list \in Seq(Scorable) : list = pool.member[p].sublist
  BY <1>2 DEF PoolFits, PoolOf, MemberOf, Answers
<1>4. ScoresOf(list) \in Seq(RowScore) /\ Len(ScoresOf(list)) = Len(list) /\ Len(list) \in Nat
  BY <1>2, <1>3, ScoresOfRows DEF PoolInv
<1>5. SubSeq(ScoresOf(list), 1, k) \in Seq(RowScore)
  <2>1. 1 \in Int /\ k \in Int /\ k <= Len(list)
    BY <1>3, <1>4
  <2>2. \A j \in 1 .. k : ScoresOf(list)[j] \in RowScore
    BY <1>4, <2>1, ElementOfSeq
  <2> QED
    BY <2>1, <2>2, SubSeqProperties
<1>6. PICK h \in Seq(RowScore) : h = SubSeq(ScoresOf(list), 1, k)
  BY <1>5
<1>9. PICK begun : begun = TRUE
  OBVIOUS
<1>10. begun \in BOOLEAN
  BY <1>9
<1>11. h = SubSeq(ScoresOf(pool.member[p].sublist), 1, k)
  BY <1>3, <1>6
<1>7. pool' = BegunBy(pool, p, begun, h)
  BY <1>9, <1>11 DEF BeginFile, BegunBy
<1>8. PoolFits(pool', Scorable)
  BY <1>1, <1>2, <1>7, <1>10, BegunFits, Zenon
<1> QED
  BY <1>1, <1>2, <1>8, PoolGoesOn

LEMMA WriteGoesOn == ASSUME PoolInv, NEW p \in Pool, WriteFile(p) PROVE PoolInv'
<1>1. /\ pool.member[p].cut
      /\ pool' = [pool EXCEPT !.member[p] = [sublist |-> <<>>, cut |-> FALSE,
                                             file |-> ScoresOf(pool.member[p].sublist)],
                              !.ready = @ \cup {<<p, pool.member[p].sublist>>}]
      /\ UNCHANGED <<labelled, globOrder, saved, wavs, eval, scores>>
  BY DEF WriteFile
<1>2. eval.step = "score" /\ PoolFits(pool, Scorable)
  BY <1>1, AtWork, NoPoolRests
<1>3. PICK list \in Seq(Scorable) : list = pool.member[p].sublist
  BY <1>2 DEF PoolFits, PoolOf, MemberOf, Answers
<1>4. PICK h \in Seq(RowScore) : h = ScoresOf(list)
  BY <1>2, <1>3, ScoresOfRows DEF PoolInv
<1>5. pool' = AnsweredBy(pool, p, h)
  BY <1>1, <1>3, <1>4 DEF AnsweredBy
<1>6. PoolFits(pool', Scorable)
  BY <1>1, <1>2, <1>5, WrittenFits, Zenon
<1> QED
  BY <1>1, <1>2, <1>6, PoolGoesOn

LEMMA ReadGoesOn == ASSUME PoolInv, NEW p, NEW list, ReadFile(p, list) PROVE PoolInv'
<1>1. /\ <<p, list>> \in pool.ready
      /\ pool' = [pool EXCEPT !.ready = @ \ {<<p, list>>}, !.size = @ - 1,
                              !.read = @ \o pool.member[p].file]
      /\ UNCHANGED <<labelled, globOrder, saved, wavs, eval, scores>>
  BY DEF ReadFile
<1>2. eval.step = "score" /\ PoolFits(pool, Scorable)
  BY <1>1, AtWork, NoPoolRests
<1>3. PoolFits(pool', Scorable)
  BY <1>1, <1>2, ReadFits, Zenon
<1> QED
  BY <1>1, <1>2, <1>3, PoolGoesOn

LEMMA PublishGoesOn == ASSUME PoolInv, Publish PROVE PoolInv'
<1>1. /\ eval.step = "score" /\ pool # NoPool
      /\ scores' = [launch |-> eval.launch, set |-> eval.set, rows |-> pool.read]
      /\ pool' = NoPool /\ eval' = [eval EXCEPT !.step = "ended"]
      /\ UNCHANGED <<labelled, globOrder, saved, wavs>>
  BY DEF Publish
<1>2. PredictTypes /\ PredictedOK
  BY DEF PoolInv, FilesInv
<1>3. eval.launch \in 1 .. MaxEvals /\ eval.set \in EvalSettings
  BY <1>1, <1>2, EvalIs DEF PredictedOK
<1>4. pool.read \in Seq(RowScore)
  BY <1>1, AtWork DEF PoolFits, PoolOf, MemberOf, Answers
<1>5. scores' \in ScoredRows
  BY <1>1, <1>3, <1>4 DEF ScoredRows
<1> QED
  BY <1>1, <1>5, FilesEndKeep DEF PoolInv

LEMMA PoolStep == PoolInv /\ [PredictNext]_predictVars => PoolInv'
<1> SUFFICES ASSUME PoolInv, [PredictNext]_predictVars PROVE PoolInv'
  OBVIOUS
<1>1. CASE FileStep
  <2>1. pool' = NoPool /\ UNCHANGED <<labelled, scores>>
    BY <1>1, FileStepIs DEF PoolInv
  <2> QED
    BY <1>1, <2>1, FileStepKeeps DEF PoolInv
<1>2. CASE \E dirs \in Lists!SetToSeqs(Scorable) : SubmitSublists(dirs)
  BY <1>2, SubmitGoesOn
<1>3. CASE \E p \in Pool : \/ TakeSublist(p) \/ WriteFile(p)
                           \/ \E k \in 0 .. Len(pool.member[p].sublist) - 1 : BeginFile(p, k)
  BY <1>3, TakeGoesOn, WriteGoesOn, BeginGoesOn
<1>4. CASE \E call \in pool.ready : ReadFile(call[1], call[2])
  <2>1. PICK call \in pool.ready : ReadFile(call[1], call[2])
    BY <1>4
  <2>2. PICK p, list : p = call[1] /\ list = call[2] /\ ReadFile(p, list)
    BY <2>1
  <2> QED
    BY <2>2, ReadGoesOn
<1>5. CASE Publish
  BY <1>5, PublishGoesOn
<1>6. CASE EvalFails
  <2>1. /\ pool' = NoPool /\ eval' = [eval EXCEPT !.step = "ended"]
        /\ UNCHANGED <<labelled, globOrder, saved, wavs, scores>>
    BY <1>6 DEF EvalFails
  <2> QED
    BY <2>1, FilesEndKeep DEF PoolInv
<1>7. CASE UNCHANGED predictVars
  <2>1. UNCHANGED <<labelled, globOrder, saved, wavs, eval, pool, scores>>
    BY <1>7 DEF predictVars
  <2>2. Scorable' = Scorable
    BY <2>1 DEF Scorable
  <2> QED
    BY <2>1, <2>2, FilesStay DEF PoolInv
<1> QED
  BY <1>1, <1>2, <1>3, <1>4, <1>5, <1>6, <1>7 DEF PredictNext, FileStep

LEMMA PoolIsTyped == PoolInv => PredictTypeOK
<1> SUFFICES ASSUME PoolInv PROVE PredictTypeOK
  OBVIOUS
<1>1. Scorable \subseteq Samples /\ RowScore \subseteq Score
  BY DEF Scorable, RowScore
<1>2. Seq(Scorable) \subseteq Seq(Samples) /\ Seq(RowScore) \subseteq Seq(Score)
  BY <1>1
<1>3. Seq(Seq(Scorable)) \subseteq Seq(Seq(Samples))
  BY <1>2
<1>4. pool \in PoolState
  <2>1. CASE pool = NoPool
    <3>1. <<>> \in Seq(Samples) /\ <<>> \in Seq(Score) /\ <<>> \in Seq(Seq(Samples))
      OBVIOUS
    <3> QED
      BY <2>1, <3>1 DEF NoPool, PoolState, Member
  <2>2. CASE pool \in PoolOf(Scorable)
    <3>1. [Pool -> [sublist : Seq(Scorable), file : Seq(RowScore), cut : BOOLEAN]]
          \subseteq [Pool -> Member]
      BY <1>2 DEF Member
    <3>2. SUBSET (Pool \X Seq(Scorable)) \subseteq SUBSET (Pool \X Seq(Samples))
      BY <1>2
    <3> QED
      BY <1>2, <1>3, <2>2, <3>1, <3>2 DEF PoolOf, MemberOf, Answers, PoolState
  <2> QED
    BY <2>1, <2>2 DEF PoolInv, PoolFits
<1>5. scores = NoScores \/ scores \in [launch : 1 .. MaxEvals, set : EvalSettings, rows : Seq(Score)]
  BY <1>2 DEF PoolInv, ScoredRows
<1> QED
  BY <1>4, <1>5 DEF PoolInv, FilesInv, PredictTypes, PredictTypeOK

\* Whatever the pool, a row of metrics.csv compares two wavs of one dataset row:
\* a process's second file may take the place of its first (one row of a sample
\* is then missing, another there twice), but no file mixes rows.
THEOREM ScoresAreOfOneRow ==
  PredictSpec => [](scores # NoScores => scores.rows \in Seq(RowScore))
<1>1. PoolInv => (scores # NoScores => scores.rows \in Seq(RowScore))
  BY DEF PoolInv, ScoredRows
<1> QED
  BY <1>1, PoolStarts, PoolStep, PTL DEF PredictSpec

\* The launch, its files and its pool are well formed.
THEOREM PredictionIsTyped == PredictSpec => []PredictTypeOK
BY PoolStarts, PoolStep, PoolIsTyped, PTL DEF PredictSpec
=============================================================================

----------------------------- MODULE PluginAlias -----------------------------
(***************************************************************************)
(* The stable alias of a plugin, a symlink to one of the installed         *)
(* bundles (plugin_manager.py, plugin_runtime.py).  link_plugin publishes  *)
(* it under two file locks: an ownership record first, then the symlink,   *)
(* bridged by a transaction record from which the next publisher recovers. *)
(* Renderers lease the bundle: they read the alias without a lock, take    *)
(* the lock of the package they found, read the alias again and check the  *)
(* bundle against its seal.  Installers replace a bundle under its         *)
(* package's lock.                                                         *)
(*                                                                         *)
(* A file lock goes with its process, so who holds one follows from the    *)
(* processes' steps.  Records and the symlink are replaced atomically.     *)
(* Publishers and installers die at any step.                              *)
(*                                                                         *)
(* Data left out: manifests and seals (a bundle is sealed or it is not),   *)
(* runtime snapshots of adopted bundles, chains of aliases.                *)
(***************************************************************************)
EXTENDS Naturals

CONSTANTS
  Bundles,     \* managed bundles one alias can lead to
  Foreign,     \* a target nobody manages
  NoBundle,    \* no target, no record
  NoPublication, \* there is no transaction record
  Publishers, Installers, Consumers, \* processes
  AliasReads   \* times a reader samples a changing alias

ASSUME AliasAssumption ==
  /\ {Foreign, NoBundle} \cap Bundles = {}
  /\ AliasReads \in Nat \ {0}

VARIABLES
  aliasTarget,  \* where the symlink leads
  aliasOwner,   \* bundle of the ownership record
  publication,  \* the transaction record
  sealed,       \* bundles whose content matches their seal
  publisher,    \* link_plugin calls
  installer,    \* the bundle each installer is at
  consumer      \* leases

aliasRecords == <<aliasTarget, aliasOwner, publication>>
pluginVars == <<aliasRecords, sealed, publisher, installer, consumer>>

Target == Bundles \cup {Foreign, NoBundle}
Owner == Bundles \cup {NoBundle}

\* _AliasPublicationTransaction
Publication == [next : Bundles, prior : Owner, priorTarget : Target]

ASSUME PublicationAssumption == NoPublication \notin Publication

\* failed marks the recovery of a publication that met an OSError.
Publisher == [step : {"idle", "alias", "recover", "unlink", "prepare", "own", "swap",
                      "finish"},
              bundle : Owner, failed : BOOLEAN]
IdlePublisher == [step |-> "idle", bundle |-> NoBundle, failed |-> FALSE]

\* A lease resolves the alias three times: to find the package to lock, to see
\* under the lock whether it is still the one, and to validate it.  leased is
\* the bundle found, lockOf the one whose lock is held.  unmanaged and moved
\* are history variables: nobody managed the alias at some moment of the
\* lease; the symlink was replaced after the lock was taken.
Consumer == [step : {"idle", "before", "owner", "target", "after", "lock",
                     "validate", "using", "unguarded"},
             before : Publication \cup {NoPublication}, owner : Owner, target : Target,
             tries : 0 .. AliasReads, round : 1 .. 3, leased : Owner,
             lockOf : Owner, unmanaged : BOOLEAN, moved : BOOLEAN]
IdleConsumer == [step |-> "idle", before |-> NoPublication, owner |-> NoBundle,
                 target |-> NoBundle, tries |-> 0, round |-> 1,
                 leased |-> NoBundle, lockOf |-> NoBundle, unmanaged |-> FALSE,
                 moved |-> FALSE]

PluginTypeOK ==
  /\ aliasTarget \in Target
  /\ aliasOwner \in Owner
  /\ publication \in Publication \cup {NoPublication}
  /\ sealed \subseteq Bundles
  /\ publisher \in [Publishers -> Publisher]
  /\ \A p \in Publishers : publisher[p].step # "idle" => publisher[p].bundle \in Bundles
  /\ installer \in [Installers -> Owner]
  /\ consumer \in [Consumers -> Consumer]

PluginInit ==
  /\ aliasTarget \in {Foreign, NoBundle}
  /\ aliasOwner = NoBundle
  /\ publication = NoPublication
  /\ sealed = {}
  /\ publisher = [p \in Publishers |-> IdlePublisher]
  /\ installer = [i \in Installers |-> NoBundle]
  /\ consumer = [c \in Consumers |-> IdleConsumer]

\* package_install_lock
PackageFree(b) ==
  /\ \A p \in Publishers : publisher[p].bundle # b
  /\ \A i \in Installers : installer[i] # b
  /\ \A c \in Consumers : consumer[c].lockOf # b

\* _alias_publication_lock
AliasFree == \A p \in Publishers : publisher[p].step \in {"idle", "alias"}

Unmanaged == aliasOwner = NoBundle /\ aliasTarget \notin Bundles

Sampling == {"before", "owner", "target", "after"}

\* What the leases under way record of a change of the alias.
Noticed == [c \in Consumers |->
  LET me == consumer[c]
  IN  [me EXCEPT
        !.unmanaged = me.unmanaged \/ (me.round = 1 /\ me.step \in Sampling /\ Unmanaged'),
        !.moved = me.moved \/ (me.round > 1 /\ me.step # "using"
                                /\ aliasTarget' # aliasTarget)]]

-----------------------------------------------------------------------------
(***************************************************************************)
(* link_plugin                                                             *)
(***************************************************************************)

PublisherAt(p, step) == publisher' = [publisher EXCEPT ![p].step = step]
PublisherDone(p) == publisher' = [publisher EXCEPT ![p] = IdlePublisher]

\* The package lock is taken; a bundle that is not sealed raises
\* (resolve_plugin_bundle).
Link(p, b) ==
  /\ publisher[p].step = "idle"
  /\ PackageFree(b)
  /\ b \in sealed
  /\ publisher' = [publisher EXCEPT ![p] = [step |-> "alias", bundle |-> b, failed |-> FALSE]]
  /\ UNCHANGED <<aliasRecords, sealed, installer, consumer>>

LockAlias(p) ==
  /\ publisher[p].step = "alias"
  /\ AliasFree
  /\ PublisherAt(p, "recover")
  /\ UNCHANGED <<aliasRecords, sealed, installer, consumer>>

\* Mutant of Recovered: an interrupted publication leaves nothing behind.
RecoveredNone == NoBundle

\* _recover_alias_publication restores the record that fits the symlink.
Recovered == IF aliasTarget = publication.next THEN publication.next ELSE publication.prior

Recover(p) ==
  /\ publisher[p].step = "recover"
  /\ \/ /\ publication = NoPublication
        /\ IF publisher[p].failed THEN PublisherDone(p) ELSE PublisherAt(p, "prepare")
        /\ UNCHANGED <<aliasRecords, consumer>>
     \/ /\ publication # NoPublication
        /\ IF aliasTarget \in {publication.next, publication.priorTarget}
           THEN aliasOwner' = Recovered /\ PublisherAt(p, "unlink")
           ELSE PublisherDone(p) /\ UNCHANGED aliasOwner
        /\ UNCHANGED <<aliasTarget, publication>>
        /\ consumer' = Noticed
  /\ UNCHANGED <<sealed, installer>>

\* ... and removes the transaction record.
RecoverUnlink(p) ==
  /\ publisher[p].step = "unlink"
  /\ publication' = NoPublication
  /\ IF publisher[p].failed THEN PublisherDone(p) ELSE PublisherAt(p, "prepare")
  /\ UNCHANGED <<aliasTarget, aliasOwner, sealed, installer, consumer>>

\* _alias_publication_transaction refuses an alias somebody else has moved;
\* the transaction record is written.
Prepare(p) ==
  /\ publisher[p].step = "prepare"
  /\ IF aliasOwner \in {NoBundle, aliasTarget}
     THEN /\ publication' = [next |-> publisher[p].bundle, prior |-> aliasOwner,
                             priorTarget |-> aliasTarget]
          /\ PublisherAt(p, "own")
     ELSE PublisherDone(p) /\ UNCHANGED publication
  /\ UNCHANGED <<aliasTarget, aliasOwner, sealed, installer, consumer>>

\* replace_managed_alias: the ownership record ...
Own(p) ==
  /\ publisher[p].step = "own"
  /\ aliasOwner' = publisher[p].bundle
  /\ PublisherAt(p, "swap")
  /\ UNCHANGED <<aliasTarget, publication, sealed, installer>>
  /\ consumer' = Noticed

\* ... the symlink ...
Swap(p) ==
  /\ publisher[p].step = "swap"
  /\ aliasTarget' = publisher[p].bundle
  /\ PublisherAt(p, "finish")
  /\ UNCHANGED <<aliasOwner, publication, sealed, installer>>
  /\ consumer' = Noticed

\* ... and the end of the transaction.
Finished(p) ==
  /\ publisher[p].step = "finish"
  /\ publication' = NoPublication
  /\ PublisherDone(p)
  /\ UNCHANGED <<aliasTarget, aliasOwner, sealed, installer, consumer>>

\* Writing the ownership record or the symlink raises an OSError.
PublishError(p) ==
  /\ publisher[p].step \in {"own", "swap"}
  /\ publisher' = [publisher EXCEPT ![p].step = "recover", ![p].failed = TRUE]
  /\ UNCHANGED <<aliasRecords, sealed, installer, consumer>>

PublisherCrash(p) ==
  /\ publisher[p].step # "idle"
  /\ PublisherDone(p)
  /\ UNCHANGED <<aliasRecords, sealed, installer, consumer>>

-----------------------------------------------------------------------------
(***************************************************************************)
(* install_plugins                                                         *)
(***************************************************************************)

\* Under the package lock the version's directory is removed, the seal with
\* it (_prepare_native_transaction).  A bundle the artifact lock asks for is
\* left as it is.
InstallRemove(i, b) ==
  /\ installer[i] = NoBundle
  /\ PackageFree(b)
  /\ sealed' = sealed \ {b}
  /\ installer' = [installer EXCEPT ![i] = b]
  /\ UNCHANGED <<aliasRecords, publisher, consumer>>

\* _finish_install_output seals what Studiorack has written.
InstallSeal(i) ==
  /\ installer[i] # NoBundle
  /\ sealed' = sealed \cup {installer[i]}
  /\ installer' = [installer EXCEPT ![i] = NoBundle]
  /\ UNCHANGED <<aliasRecords, publisher, consumer>>

InstallerCrash(i) ==
  /\ installer[i] # NoBundle
  /\ installer' = [installer EXCEPT ![i] = NoBundle]
  /\ UNCHANGED <<aliasRecords, sealed, publisher, consumer>>

-----------------------------------------------------------------------------
(***************************************************************************)
(* validated_bundle_lease                                                  *)
(***************************************************************************)

ConsumeOnly == UNCHANGED <<aliasRecords, sealed, publisher, installer>>
ConsumerDone(c) == consumer' = [consumer EXCEPT ![c] = IdleConsumer]

Lease(c) ==
  /\ consumer[c].step = "idle"
  /\ consumer' = [consumer EXCEPT ![c].step = "before", ![c].unmanaged = Unmanaged]
  /\ ConsumeOnly

\* _stable_alias_snapshot reads transaction, ownership, target, transaction.
ReadBefore(c) ==
  /\ consumer[c].step = "before"
  /\ consumer' = [consumer EXCEPT ![c].before = publication, ![c].step = "owner"]
  /\ ConsumeOnly

ReadOwner(c) ==
  /\ consumer[c].step = "owner"
  /\ consumer' = [consumer EXCEPT ![c].owner = aliasOwner, ![c].step = "target"]
  /\ ConsumeOnly

ReadTarget(c) ==
  /\ consumer[c].step = "target"
  /\ consumer' = [consumer EXCEPT ![c].target = aliasTarget, ![c].step = "after"]
  /\ ConsumeOnly

\* _managed_from_publication, for an ownership of the transaction's.
FromPublication(me) ==
  IF me.target = me.before.next THEN me.before.next
  ELSE IF me.before.prior # NoBundle /\ me.target = me.before.priorTarget THEN me.before.prior
  ELSE NoBundle

\* The record and the symlink agree.
Owned(me) == me.owner # NoBundle /\ me.owner = me.target

\* The bundle _adjudicate_alias_snapshot returns, NoBundle when it cannot.
Judged(me) ==
  IF Owned(me) THEN me.owner
  ELSE IF me.before # NoPublication THEN FromPublication(me)
  ELSE NoBundle

\* An owned alias that is gone raises, and so does an ownership of neither
\* side of the transaction.
Contradicts(me) ==
  \/ me.owner # NoBundle /\ me.target = NoBundle
  \/ /\ ~Owned(me)
     /\ me.before # NoPublication
     /\ me.owner \notin {me.before.next, me.before.prior}

Unclaimed(me) == me.owner = NoBundle /\ me.before = NoPublication

\* A sample without a result: another one, or the reader raises.
SampleAgain(c) ==
  LET me == consumer[c]
  IN  IF me.tries + 1 < AliasReads
      THEN consumer' = [consumer EXCEPT ![c] =
             [IdleConsumer EXCEPT !.step = "before", !.tries = me.tries + 1,
                !.round = me.round, !.leased = me.leased, !.lockOf = me.lockOf,
                !.unmanaged = me.unmanaged, !.moved = me.moved]]
      ELSE ConsumerDone(c)

\* A bundle is found.  Its lock is asked for; or it is still the one locked
\* and is resolved once more; or it is not, and its own lock is asked for.
Found(c, b) ==
  LET me == consumer[c]
      next == [IdleConsumer EXCEPT !.leased = b, !.lockOf = me.lockOf, !.moved = me.moved]
  IN  consumer' = [consumer EXCEPT ![c] =
        IF me.round = 3 THEN [next EXCEPT !.step = "validate", !.round = 3]
        ELSE IF me.round = 2 /\ b = me.leased THEN [next EXCEPT !.step = "before", !.round = 3]
        ELSE [next EXCEPT !.step = "lock", !.lockOf = NoBundle, !.moved = FALSE]]

\* The second read of the transaction, then one of the rounds of
\* _runtime_alias_managed_bundle.
ReadAfter(c) ==
  LET me == consumer[c]
      same == me.before = publication
  IN  /\ me.step = "after"
      /\ \/ ~same /\ SampleAgain(c)
         \/ same /\ Contradicts(me) /\ ConsumerDone(c)
         \/ /\ same /\ ~Contradicts(me)
            /\ \/ Judged(me) # NoBundle /\ Found(c, Judged(me))
               \/ /\ Judged(me) = NoBundle /\ Unclaimed(me)
                  /\ IF me.round > 1 THEN ConsumerDone(c)
                     ELSE consumer' = [consumer EXCEPT ![c].step = "unguarded"]
               \/ Judged(me) = NoBundle /\ ~Unclaimed(me) /\ SampleAgain(c)
      /\ ConsumeOnly

\* _locked_runtime_identity resolves the alias again under the lock.
LockPackage(c) ==
  /\ consumer[c].step = "lock"
  /\ PackageFree(consumer[c].leased)
  /\ consumer' = [consumer EXCEPT ![c].step = "before", ![c].round = 2,
                                  ![c].lockOf = consumer[c].leased]
  /\ ConsumeOnly

\* ManagedBundleStorage.validate
Validate(c) ==
  /\ consumer[c].step = "validate"
  /\ IF consumer[c].leased \in sealed
     THEN consumer' = [consumer EXCEPT ![c].step = "using"]
     ELSE ConsumerDone(c)
  /\ ConsumeOnly

EndLease(c) ==
  /\ consumer[c].step \in {"using", "unguarded"}
  /\ ConsumerDone(c)
  /\ ConsumeOnly

PluginNext ==
  \/ \E p \in Publishers :
       \/ \E b \in Bundles : Link(p, b)
       \/ LockAlias(p) \/ Recover(p) \/ RecoverUnlink(p) \/ Prepare(p)
       \/ Own(p) \/ Swap(p) \/ Finished(p) \/ PublishError(p) \/ PublisherCrash(p)
  \/ \E i \in Installers :
       \/ \E b \in Bundles : InstallRemove(i, b)
       \/ InstallSeal(i) \/ InstallerCrash(i)
  \/ \E c \in Consumers :
       \/ Lease(c) \/ ReadBefore(c) \/ ReadOwner(c) \/ ReadTarget(c) \/ ReadAfter(c)
       \/ LockPackage(c) \/ Validate(c) \/ EndLease(c)

PluginSpec == PluginInit /\ [][PluginNext]_pluginVars

-----------------------------------------------------------------------------
\* Without a transaction record the ownership record is the symlink's,
\* wherever a publisher died or met an error.
AliasIsSettled == publication = NoPublication => aliasOwner \in {NoBundle, aliasTarget}

\* A renderer that leases through an alias being republished, recovered and
\* reinstalled uses a sealed bundle no installer touches, unless the symlink
\* was replaced between its second and its third look; it goes without a
\* lease only if nobody managed the alias at some moment of its reads.
LeasesASealedBundle ==
  \A c \in Consumers :
    LET me == consumer[c]
    IN  /\ me.step = "using" /\ ~me.moved => me.lockOf = me.leased /\ me.leased \in sealed
        /\ me.step = "unguarded" => me.unmanaged

\* The two together: what renderers load through the alias is whole.
AliasSound == AliasIsSettled /\ LeasesASealedBundle
=============================================================================

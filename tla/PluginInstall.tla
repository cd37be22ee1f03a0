---------------------------- MODULE PluginInstall ----------------------------
(***************************************************************************)
(* The bundles a sealed version of a plugin leads to (plugin_manager.py,   *)
(* plugin_integrity.py, plugin_runtime.py).  Studiorack installs a version *)
(* into its own directory or, through the vendor's installer, at the       *)
(* system's place, which all versions share.  install_plugins seals the    *)
(* first and adopts the second: a symlink, sealed from a private copy of   *)
(* what changed there during the call.  adopt_plugin_bundle does the same  *)
(* with a bundle the user has built.  A renderer validates a version and   *)
(* loads the directory, or its own copy of an adopted bundle.              *)
(*                                                                         *)
(* A version has a file lock, which goes with its process; a Studiorack    *)
(* process outlives a manager that dies and writes on.  A bundle is its    *)
(* content.  A torn one may report any version and hold a valid binary.    *)
(*                                                                         *)
(* Data left out: the artifact lock does not change, so a seal has its     *)
(* digest; one place for native bundles; the ownership record of the       *)
(* adopted symlink (PluginAlias has the aliases).                          *)
(***************************************************************************)
EXTENDS Naturals

CONSTANTS
  Releases,    \* of one plugin; also the vendor's bundle of each
  Built,       \* a bundle the user has built
  Partial,     \* part of a bundle, or a mixture of two
  NoContent,   \* nothing
  NoSeal,      \* there is no completion record
  Managers, Renderers, \* processes
  StudiorackAttempts

ASSUME InstallAssumption ==
  /\ Releases # {}
  /\ {Built, Partial, NoContent} \cap Releases = {}
  /\ Built # Partial /\ NoContent \notin {Built, Partial}
  /\ StudiorackAttempts \in Nat \ {0}

VARIABLES
  portable,  \* versions Studiorack unpacks itself
  system,    \* the bundle at the system's place
  built,     \* the bundle the user has built
  place,     \* what a version's directory holds: a bundle, or a symlink
  unpacked,  \* content of that bundle
  ownership, \* .synth-setter-managed.json
  seal,      \* .synth-setter-complete.json
  runtimeCopies,    \* the latest runtime snapshot of a version
  strays,    \* versions a Studiorack process without a manager is installing
  clashes,   \* versions sealed while somebody else wrote the same place
  manager, renderer

versionRecords == <<place, unpacked, ownership, seal, runtimeCopies>>
installVars == <<portable, system, built, versionRecords, strays, clashes, manager, renderer>>

Content == Releases \cup {Built, Partial}
Bundle == Content \cup {NoContent}
Kind == {"artifact-lock", "explicit"}
Seal == [kind : Kind, content : Content]
Place == {"none", "unpacked", "system", "built"}

\* A runtime snapshot lies under the digest of a seal.
Copy == [of : Seal \cup {NoSeal}, content : Bundle]

ASSUME SealAssumption == NoSeal \notin Seal

\* before is the system's bundle at the start of the call (the transaction
\* record, which nothing reads back); copy the content to be sealed.  clash is a
\* history variable: somebody else wrote this place during the call.
Manager == [step : {"idle", "clear", "record", "refresh", "refreshing", "run", "running", "finish",
                    "adopt", "copy", "own", "seal", "link"},
            version : Releases, tries : 0 .. StudiorackAttempts, before : Bundle,
            from : Place, copy : Bundle, kind : Kind, clash : BOOLEAN]

Renderer == [step : {"idle", "copy", "in place", "copied"}, version : Releases,
             seal : Seal \cup {NoSeal}, content : Bundle, clash : BOOLEAN]

InstallTypeOK ==
  /\ portable \subseteq Releases
  /\ {system, built} \subseteq Bundle
  /\ place \in [Releases -> Place]
  /\ unpacked \in [Releases -> Bundle]
  /\ ownership \in [Releases -> Kind \cup {NoSeal}]
  /\ seal \in [Releases -> Seal \cup {NoSeal}]
  /\ runtimeCopies \in [Releases -> Copy]
  /\ {strays, clashes} \subseteq SUBSET Releases
  /\ manager \in [Managers -> Manager]
  /\ renderer \in [Renderers -> Renderer]

IdleManager == [step |-> "idle", version |-> CHOOSE v \in Releases : TRUE, tries |-> 0,
                before |-> NoContent, from |-> "none", copy |-> NoContent,
                kind |-> "explicit", clash |-> FALSE]
IdleRenderer == [step |-> "idle", version |-> CHOOSE v \in Releases : TRUE,
                 seal |-> NoSeal, content |-> NoContent, clash |-> FALSE]
NoCopy == [of |-> NoSeal, content |-> NoContent]

InstallInit ==
  /\ portable \in SUBSET Releases
  /\ system \in {NoContent, Built}
  /\ built \in {NoContent, Built}
  /\ place = [v \in Releases |-> "none"]
  /\ unpacked = [v \in Releases |-> NoContent]
  /\ ownership = [v \in Releases |-> NoSeal]
  /\ seal = [v \in Releases |-> NoSeal]
  /\ runtimeCopies = [v \in Releases |-> NoCopy]
  /\ strays = {} /\ clashes = {}
  /\ manager = [m \in Managers |-> IdleManager]
  /\ renderer = [r \in Renderers |-> IdleRenderer]

\* What a version leads to.
Live(v) ==
  CASE place[v] = "unpacked" -> unpacked[v]
    [] place[v] = "system" -> system
    [] place[v] = "built" -> built
    [] OTHER -> NoContent

\* bundle_is_sealed: ownership, completion record and content agree.
BundleIsSealed(v) ==
  /\ seal[v] # NoSeal
  /\ ownership[v] = seal[v].kind
  /\ Live(v) = seal[v].content

LockedBundleIsSealed(v) == BundleIsSealed(v) /\ seal[v].kind = "artifact-lock"

\* package_install_lock
VersionFree(v) ==
  /\ \A m \in Managers : manager[m].step # "idle" => manager[m].version # v
  /\ \A r \in Renderers : renderer[r].step # "idle" => renderer[r].version # v

ManagerAt(m, step) == manager' = [manager EXCEPT ![m].step = step]
ManagerDone(m) == manager' = [manager EXCEPT ![m] = IdleManager]
FilesUnchanged == UNCHANGED <<portable, system, built, versionRecords, strays, clashes, renderer>>

\* rmtree of the version's directory, records, copies and all.
RemoveVersion(v) ==
  /\ place' = [place EXCEPT ![v] = "none"]
  /\ unpacked' = [unpacked EXCEPT ![v] = NoContent]
  /\ ownership' = [ownership EXCEPT ![v] = NoSeal]
  /\ seal' = [seal EXCEPT ![v] = NoSeal]
  /\ runtimeCopies' = [runtimeCopies EXCEPT ![v] = NoCopy]

-----------------------------------------------------------------------------
(***************************************************************************)
(* install_plugins                                                         *)
(***************************************************************************)

\* _install_plugin takes the version's lock.  A bundle sealed under the artifact
\* lock is left to Studiorack; anything else is replaced.
Install(m, v) ==
  /\ manager[m].step = "idle"
  /\ VersionFree(v)
  /\ manager' = [manager EXCEPT ![m] = [IdleManager EXCEPT
       !.step = IF LockedBundleIsSealed(v) THEN "refresh" ELSE "clear",
       !.version = v, !.kind = "artifact-lock"]]
  /\ FilesUnchanged

\* _prepare_native_transaction; a manager that dies leaves a part.
Clear(m) ==
  LET v == manager[m].version
  IN  /\ manager[m].step = "clear"
      /\ \/ RemoveVersion(v) /\ ManagerAt(m, "record")
         \/ /\ \/ place' = [place EXCEPT ![v] = IF @ = "unpacked" THEN @ ELSE "none"]
               \/ UNCHANGED place
            /\ unpacked' = [unpacked EXCEPT ![v] = IF @ = NoContent THEN @ ELSE Partial]
            /\ \/ ownership' = [ownership EXCEPT ![v] = NoSeal]
               \/ UNCHANGED ownership
            /\ \/ seal' = [seal EXCEPT ![v] = NoSeal]
               \/ UNCHANGED seal
            /\ UNCHANGED runtimeCopies
            /\ ManagerDone(m)
      /\ UNCHANGED <<portable, system, built, strays, clashes, renderer>>

\* _persist_native_transaction, once for all attempts of the call.
RecordSystem(m) ==
  /\ manager[m].step = "record"
  /\ manager' = [manager EXCEPT ![m].step = "run", ![m].before = system]
  /\ FilesUnchanged

\* A Studiorack process writes the version's own directory or the system's place.
Written(v, c) ==
  IF v \in portable
  THEN /\ place' = [place EXCEPT ![v] = "unpacked"]
       /\ unpacked' = [unpacked EXCEPT ![v] = c]
       /\ UNCHANGED system
  ELSE /\ system' = c
       /\ UNCHANGED <<place, unpacked>>

SamePlace(v, w) == v = w \/ {v, w} \cap portable = {}

Attempting == {"running", "refreshing"}

\* Is a Studiorack process of these managers, or a stray one other than these,
\* writing where version v goes?
Mixed(others, known, v) ==
  \/ \E w \in strays \ known : SamePlace(v, w)
  \/ \E n \in others : manager[n].step \in Attempting /\ SamePlace(v, manager[n].version)

\* The installs of these managers, and the leases, that see somebody else write
\* where version v goes.
Disturbed(others, v) == [n \in Managers |->
  IF n \in others /\ manager[n].kind = "artifact-lock" /\ SamePlace(v, manager[n].version)
  THEN [manager[n] EXCEPT !.clash = TRUE] ELSE manager[n]]

RenderersDisturbed(v) == [r \in Renderers |->
  IF renderer[r].step # "idle" /\ renderer[r].version = v
  THEN [renderer[r] EXCEPT !.clash = TRUE] ELSE renderer[r]]

\* _invoke_studiorack starts one, which may write before it fails.
StudiorackBegins(m) ==
  LET v == manager[m].version
      others == Managers \ {m}
      mixed == Mixed(others, {}, v)
  IN  /\ manager[m].step \in {"run", "refresh"}
      /\ \/ \E c \in {Partial, IF mixed THEN Partial ELSE v} : Written(v, c)
         \/ UNCHANGED <<system, place, unpacked>>
      /\ manager' = [Disturbed(others, v) EXCEPT
           ![m].step = IF @ = "run" THEN "running" ELSE "refreshing",
           ![m].clash = @ \/ mixed]
      /\ UNCHANGED <<portable, built, ownership, seal, runtimeCopies, strays, clashes, renderer>>

\* It exits with 0: the bundle is whole, or went to a place nobody looks at.
StudiorackEnds(m) ==
  LET me == manager[m]
      v == me.version
      others == Managers \ {m}
      mixed == Mixed(others, {}, v)
  IN  /\ me.step \in Attempting
      /\ \/ Written(v, IF mixed THEN Partial ELSE v)
         \/ v \notin portable /\ system = me.before /\ UNCHANGED <<system, place, unpacked>>
      /\ manager' = [Disturbed(others, v) EXCEPT ![m] =
           IF me.step = "running" THEN [me EXCEPT !.step = "finish", !.clash = @ \/ mixed]
           ELSE IdleManager]
      /\ UNCHANGED <<portable, built, ownership, seal, runtimeCopies, strays, clashes, renderer>>

\* One whose manager died or gave it up writes on, ends, or stops.
StrayWrites(v) ==
  /\ v \in strays
  /\ \/ Written(v, Partial) /\ UNCHANGED strays
     \/ /\ Written(v, IF Mixed(Managers, {v}, v) THEN Partial ELSE v)
        /\ strays' = strays \ {v}
  /\ manager' = Disturbed(Managers, v)
  /\ renderer' = RenderersDisturbed(v)
  /\ UNCHANGED <<portable, built, ownership, seal, runtimeCopies, clashes>>

StrayStops(v) ==
  /\ v \in strays
  /\ strays' = strays \ {v}
  /\ UNCHANGED <<portable, system, built, versionRecords, clashes, manager, renderer>>

\* It fails or runs out of time, when what it started may go on.
\* _invoke_native_install_attempt removes what is in the version's directory; a
\* failure that may pass is tried again.
StudiorackFails(m) ==
  LET me == manager[m]
      again == me.tries + 1 < StudiorackAttempts
  IN  /\ me.step \in Attempting
      /\ IF me.step = "running" THEN RemoveVersion(me.version) ELSE UNCHANGED versionRecords
      /\ \/ /\ again
            /\ manager' = [manager EXCEPT ![m].tries = @ + 1,
                 ![m].step = IF me.step = "running" THEN "run" ELSE "refresh"]
         \/ ManagerDone(m)
      /\ strays' \in {strays, strays \cup {me.version}}
      /\ UNCHANGED <<portable, system, built, clashes, renderer>>

\* _require_renderer_version and _validate_platform_binary
Inspected(c, v) == c \in {v, Built, Partial}

\* Mutant of Changed: any bundle at the system's place is the installer's.
ChangedAny(m) == system # NoContent

\* _changed_native_candidates
Changed(m) == system \notin {NoContent, manager[m].before}

\* _finish_install_output: a bundle in the version's directory is sealed; else
\* the system's place is adopted if it has changed.
FinishOutput(m) ==
  LET me == manager[m]
      v == me.version
  IN  /\ me.step = "finish"
      /\ IF place[v] = "unpacked"
         THEN \/ /\ Inspected(unpacked[v], v)
                 /\ manager' = [manager EXCEPT ![m].step = "own", ![m].from = "unpacked",
                                               ![m].copy = unpacked[v]]
              \/ unpacked[v] # v /\ ManagerDone(m)
         ELSE IF Changed(m)
         THEN manager' = [manager EXCEPT ![m].step = "adopt", ![m].from = "system"]
         ELSE ManagerDone(m)
      /\ FilesUnchanged

-----------------------------------------------------------------------------
(***************************************************************************)
(* adopt_plugin_bundle and the seal                                        *)
(***************************************************************************)

At(from) == IF from = "system" THEN system ELSE built

AdoptBundle(m, v, from) ==
  /\ manager[m].step = "idle"
  /\ VersionFree(v)
  /\ At(from) # NoContent
  /\ manager' = [manager EXCEPT ![m] = [IdleManager EXCEPT
                   !.step = "adopt", !.version = v, !.from = from, !.kind = "explicit"]]
  /\ FilesUnchanged

\* _adopt_plugin_bundle: a source already adopted and sealed is left as it is,
\* another bundle is never replaced.
StartAdoption(m) ==
  LET me == manager[m]
      same == place[me.version] = me.from /\ At(me.from) # NoContent
  IN  /\ me.step = "adopt"
      /\ IF \/ same /\ BundleIsSealed(me.version)
            \/ ~same /\ place[me.version] # "none"
            \/ At(me.from) = NoContent
         THEN ManagerDone(m) ELSE ManagerAt(m, "copy")
      /\ FilesUnchanged

\* _bundle_snapshot
CopySource(m) ==
  LET me == manager[m]
      c == At(me.from)
  IN  /\ me.step = "copy"
      /\ \/ /\ Inspected(c, me.version)
            /\ manager' = [manager EXCEPT ![m].step = "own", ![m].copy = c]
         \/ c # me.version /\ ManagerDone(m)
      /\ FilesUnchanged

\* seal_plugin_bundle: the ownership record ...
WriteOwnership(m) ==
  LET me == manager[m]
  IN  /\ me.step = "own"
      /\ ownership' = [ownership EXCEPT ![me.version] = me.kind]
      /\ ManagerAt(m, "seal")
      /\ UNCHANGED <<portable, system, built, place, unpacked, seal, runtimeCopies, strays, clashes,
                      renderer>>

\* ... and the completion record.
WriteSeal(m) ==
  LET me == manager[m]
      v == me.version
  IN  /\ me.step = "seal"
      /\ seal' = [seal EXCEPT ![v] = [kind |-> me.kind, content |-> me.copy]]
      /\ clashes' = IF me.clash THEN clashes \cup {v} ELSE clashes \ {v}
      /\ IF place[v] = me.from THEN ManagerDone(m) ELSE ManagerAt(m, "link")
      /\ UNCHANGED <<portable, system, built, place, unpacked, ownership, runtimeCopies, strays,
                      renderer>>

\* _create_adopted_bundle_alias
LinkSource(m) ==
  LET me == manager[m]
  IN  /\ me.step = "link"
      /\ place[me.version] = "none"
      /\ place' = [place EXCEPT ![me.version] = me.from]
      /\ ManagerDone(m)
      /\ UNCHANGED <<portable, system, built, unpacked, ownership, seal, runtimeCopies, strays,
                     clashes, renderer>>

\* An OSError: the records go with the symlink.  A directory in its place cannot
\* be unlinked, and they stay.
LinkError(m) ==
  LET v == manager[m].version
  IN  /\ manager[m].step = "link"
      /\ \/ /\ place[v] = "none"
            /\ ownership' = [ownership EXCEPT ![v] = NoSeal]
            /\ seal' = [seal EXCEPT ![v] = NoSeal]
         \/ place[v] # "none" /\ UNCHANGED <<ownership, seal>>
      /\ ManagerDone(m)
      /\ UNCHANGED <<portable, system, built, place, unpacked, runtimeCopies, strays, clashes,
                     renderer>>

ManagerCrash(m) ==
  LET me == manager[m]
  IN  /\ me.step # "idle"
      /\ strays' = IF me.step \in Attempting THEN strays \cup {me.version} ELSE strays
      /\ ManagerDone(m)
      /\ UNCHANGED <<portable, system, built, versionRecords, clashes, renderer>>

\* The user builds the bundle anew, or removes it.
Build(c) ==
  /\ c # built
  /\ c \in {Built, Partial, NoContent}
  /\ built' = c
  /\ UNCHANGED <<portable, system, versionRecords, strays, clashes, manager, renderer>>

\* The user removes the system's bundle.
Uninstall ==
  /\ system # NoContent
  /\ system' = NoContent
  /\ UNCHANGED <<portable, built, versionRecords, strays, clashes, manager, renderer>>

-----------------------------------------------------------------------------
(***************************************************************************)
(* validated_bundle_lease, of a version                                    *)
(***************************************************************************)

\* ManagedBundleStorage.validate, under the version's lock.  An unpacked bundle
\* is loaded as it is.
LoadVersion(r, v) ==
  /\ renderer[r].step = "idle"
  /\ VersionFree(v)
  /\ BundleIsSealed(v)
  /\ renderer' = [renderer EXCEPT ![r] =
       [step |-> IF place[v] = "unpacked" THEN "in place" ELSE "copy", version |-> v,
        seal |-> seal[v], content |-> NoContent, clash |-> v \in clashes]]
  /\ UNCHANGED <<portable, system, built, versionRecords, strays, clashes, manager>>

Matching(c, s) == c = s.content

\* _verified_runtime_snapshot: an earlier copy, or a new one of what is there
\* now, if it is what the seal says.
LoadCopy(r) ==
  LET me == renderer[r]
      v == me.version
      old == runtimeCopies[v]
      source == Live(v)
  IN  /\ me.step = "copy"
      /\ IF old = [of |-> me.seal, content |-> me.seal.content]
         THEN /\ renderer' = [renderer EXCEPT ![r].step = "copied", ![r].content = old.content]
              /\ UNCHANGED runtimeCopies
         ELSE IF Matching(source, me.seal)
         THEN /\ runtimeCopies' = [runtimeCopies EXCEPT ![v] = [of |-> me.seal, content |-> source]]
              /\ renderer' = [renderer EXCEPT ![r].step = "copied", ![r].content = source]
         ELSE /\ renderer' = [renderer EXCEPT ![r] = IdleRenderer]
              /\ UNCHANGED runtimeCopies
      /\ UNCHANGED <<portable, system, built, place, unpacked, ownership, seal, strays, clashes,
                      manager>>

Unload(r) ==
  /\ renderer[r].step # "idle"
  /\ renderer' = [renderer EXCEPT ![r] = IdleRenderer]
  /\ UNCHANGED <<portable, system, built, versionRecords, strays, clashes, manager>>

InstallNext ==
  \/ \E m \in Managers :
       \/ \E v \in Releases :
            \/ Install(m, v)
            \/ \E from \in {"system", "built"} : AdoptBundle(m, v, from)
       \/ Clear(m) \/ RecordSystem(m)
       \/ StudiorackBegins(m) \/ StudiorackEnds(m) \/ StudiorackFails(m)
       \/ FinishOutput(m) \/ StartAdoption(m) \/ CopySource(m)
       \/ WriteOwnership(m) \/ WriteSeal(m) \/ LinkSource(m) \/ LinkError(m) \/ ManagerCrash(m)
  \/ \E v \in Releases : StrayWrites(v) \/ StrayStops(v)
  \/ \E c \in Bundle : Build(c)
  \/ Uninstall
  \/ \E r \in Renderers :
       \/ \E v \in Releases : LoadVersion(r, v)
       \/ LoadCopy(r) \/ Unload(r)

InstallSpec == InstallInit /\ [][InstallNext]_installVars

-----------------------------------------------------------------------------
\* A version that counts as installed under the artifact lock leads to the whole
\* bundle of its vendor, unless two Studiorack processes wrote one place at a
\* time: not to bytes that were there before, nor to what an attempt left.
InstalledIsVendors ==
  \A v \in Releases : LockedBundleIsSealed(v) /\ v \notin clashes => Live(v) = v

\* A renderer loads the content the version is sealed with, although the owner
\* of an adopted bundle may change it at any time.
LoadsSealedContent ==
  \A r \in Renderers :
    LET me == renderer[r]
        content == IF me.step = "in place" THEN Live(me.version) ELSE me.content
    IN  me.step \in {"in place", "copied"} /\ ~me.clash =>
          /\ content = me.seal.content
          /\ me.seal.kind = "artifact-lock" => content = me.version

\* The two together.
BundlesAreSealed == InstalledIsVendors /\ LoadsSealedContent
=============================================================================

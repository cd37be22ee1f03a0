--------------------------- MODULE CheckpointCache ---------------------------
(***************************************************************************)
(* The checkpoint an evaluation loads (cli/eval.py).  A remote object, or  *)
(* a pinned local file, is copied into a cache shared by the processes of  *)
(* a machine, under the digest of its bytes: a digest has one path, one    *)
(* lock and, once there, one file.  Without a pin the digest is that of a  *)
(* private download.  Meanwhile the object in the store and the local file *)
(* are replaced, cached files are damaged and processes die.  The ranks of *)
(* a distributed evaluation localize its checkpoint each on its own.       *)
(*                                                                         *)
(* A file lock goes with its process.  A file is its bytes, and its digest *)
(* the same: two files of one digest are equal.                            *)
(***************************************************************************)
EXTENDS Naturals

CONSTANTS
  Evaluators,  \* processes
  Checkpoints, \* bytes of whole checkpoints
  Torn,        \* a part of a checkpoint, or a mixture of two
  NoFile,      \* no file; no digest is asked for
  Downloads    \* times a download is tried

ASSUME CheckpointAssumption ==
  /\ {Torn, NoFile} \cap Checkpoints = {} /\ Torn # NoFile
  /\ Downloads \in Nat \ {0}

VARIABLES
  ranks,      \* do the evaluators form one distributed evaluation
  remoteCkpt, \* the object in the store
  localCkpt,  \* the file on disk
  cachedCkpt, \* the cache, by digest
  damaged,    \* digests whose cached file was damaged
  evaluator

ckptVars == <<ranks, remoteCkpt, localCkpt, cachedCkpt, damaged, evaluator>>

Bytes == Checkpoints \cup {Torn}
File == Bytes \cup {NoFile}

\* The path and digest an evaluation is configured with.  A local path without
\* a digest is used as it is.
Ask == [from : {"remote", "local"}, pin : Checkpoints \cup {NoFile}]

\* key is the digest under whose lock the process is.  seen is a history
\* variable: what the store held since a process without a pin began.
Evaluator == [ask : Ask, step : {"idle", "size", "download", "key", "cache", "publish", "loaded"},
              tries : 0 .. Downloads, sized : File, staging : File, key : File,
              loaded : File, seen : SUBSET Checkpoints]

CkptTypeOK ==
  /\ ranks \in BOOLEAN
  /\ remoteCkpt \in Checkpoints \cup {NoFile}
  /\ localCkpt \in File
  /\ cachedCkpt \in [Bytes -> File]
  /\ damaged \subseteq Bytes
  /\ evaluator \in [Evaluators -> Evaluator]

Fresh(ask) == [ask |-> ask, step |-> "idle", tries |-> 0, sized |-> NoFile, staging |-> NoFile,
               key |-> NoFile, loaded |-> NoFile, seen |-> {}]

CkptInit ==
  /\ ranks \in BOOLEAN
  /\ remoteCkpt \in Checkpoints
  /\ localCkpt \in Checkpoints
  /\ cachedCkpt = [d \in Bytes |-> NoFile]
  /\ damaged = {}
  /\ \E asks \in [Evaluators -> Ask] :
       /\ ranks => \A e, f \in Evaluators : asks[e] = asks[f]
       /\ evaluator = [e \in Evaluators |-> Fresh(asks[e])]

EvaluatorAt(e, step) == evaluator' = [evaluator EXCEPT ![e].step = step]
EvaluatorFails(e) == evaluator' = [evaluator EXCEPT ![e] = Fresh(evaluator[e].ask)]

\* _cached_checkpoint holds the lock of its digest to its end.
DigestFree(d) == \A e \in Evaluators : evaluator[e].key # d

\* An object that may change is for a single process.
Refused(e) == ranks /\ evaluator[e].ask = [from |-> "remote", pin |-> NoFile]

\* _localize_eval_checkpoint
Localize(e) ==
  LET ask == evaluator[e].ask
  IN  /\ evaluator[e].step = "idle"
      /\ ~Refused(e)
      /\ ask # [from |-> "local", pin |-> NoFile]
      /\ evaluator' = [evaluator EXCEPT ![e] =
           [Fresh(ask) EXCEPT !.step = IF ask.pin = NoFile THEN "size" ELSE "key",
              !.staging = ask.pin,
              !.seen = IF ask.pin = NoFile THEN {remoteCkpt} \ {NoFile} ELSE {}]]
      /\ UNCHANGED <<ranks, remoteCkpt, localCkpt, cachedCkpt, damaged>>

\* _download_checkpoint looks the size up ...
LookUpSize(e) ==
  /\ evaluator[e].step = "size"
  /\ IF remoteCkpt = NoFile THEN EvaluatorFails(e)
     ELSE evaluator' = [evaluator EXCEPT ![e].step = "download", ![e].sized = remoteCkpt]
  /\ UNCHANGED <<ranks, remoteCkpt, localCkpt, cachedCkpt, damaged>>

\* ... downloads, and starts again when the sizes differ.  Two checkpoints may
\* have one size; a torn copy is shorter than the object looked up.
Download(e, b) ==
  LET me == evaluator[e]
  IN  /\ me.step = "download"
      /\ b \in {remoteCkpt, Torn} \ {NoFile}
      /\ \/ /\ b \in Checkpoints
            /\ evaluator' = [evaluator EXCEPT ![e] =
                 [me EXCEPT !.staging = b, !.sized = NoFile, !.tries = 0,
                            !.step = IF me.ask.pin = NoFile THEN "key" ELSE "publish"]]
         \/ /\ b # me.sized
            /\ IF me.tries + 1 < Downloads
               THEN evaluator' = [evaluator EXCEPT ![e].tries = me.tries + 1,
                                                   ![e].sized = NoFile, ![e].step = "size"]
               ELSE EvaluatorFails(e)
      /\ UNCHANGED <<ranks, remoteCkpt, localCkpt, cachedCkpt, damaged>>

\* _cached_checkpoint locks the digest: of the pin, or of the download.
LockDigest(e) ==
  /\ evaluator[e].step = "key"
  /\ DigestFree(evaluator[e].staging)
  /\ evaluator' = [evaluator EXCEPT ![e].step = "cache", ![e].key = evaluator[e].staging]
  /\ UNCHANGED <<ranks, remoteCkpt, localCkpt, cachedCkpt, damaged>>

LoadedBy(me, b) == [Fresh(me.ask) EXCEPT !.step = "loaded", !.loaded = b, !.seen = me.seen]

\* A cached file is checked against its digest and returned.
CacheHit(e) ==
  LET me == evaluator[e]
      there == cachedCkpt[me.key]
  IN  /\ me.step = "cache"
      /\ there # NoFile
      /\ IF there = me.key
         THEN evaluator' = [evaluator EXCEPT ![e] = LoadedBy(me, there)]
         ELSE EvaluatorFails(e)
      /\ UNCHANGED <<ranks, remoteCkpt, localCkpt, cachedCkpt, damaged>>

\* Without one, the local file is copied, the object downloaded, or the private
\* download moved.
CacheMiss(e) ==
  LET me == evaluator[e]
  IN  /\ me.step = "cache"
      /\ cachedCkpt[me.key] = NoFile
      /\ \/ me.ask.pin = NoFile /\ EvaluatorAt(e, "publish")
         \/ me.ask.pin # NoFile /\ me.ask.from = "remote" /\ EvaluatorAt(e, "size")
         \/ /\ me.ask.pin # NoFile /\ me.ask.from = "local"
            /\ \/ localCkpt = NoFile /\ EvaluatorFails(e)
               \/ \E b \in {localCkpt, Torn} \ {NoFile} :
                    evaluator' = [evaluator EXCEPT ![e].step = "publish", ![e].staging = b]
      /\ UNCHANGED <<ranks, remoteCkpt, localCkpt, cachedCkpt, damaged>>

\* Mutant of Verified: the staged copy is taken for the pinned bytes.
VerifiedNever(e) == TRUE

\* _verify_checkpoint_sha256; a private download is its own digest.
Verified(e) == evaluator[e].ask.pin \in {NoFile, evaluator[e].staging}

\* The staged file replaces the cached one atomically.
PublishCkpt(e) ==
  LET me == evaluator[e]
  IN  /\ me.step = "publish"
      /\ IF Verified(e)
         THEN /\ cachedCkpt' = [cachedCkpt EXCEPT ![me.key] = me.staging]
              /\ damaged' = damaged \ {me.key}
              /\ evaluator' = [evaluator EXCEPT ![e] = LoadedBy(me, me.staging)]
         ELSE EvaluatorFails(e) /\ UNCHANGED <<cachedCkpt, damaged>>
      /\ UNCHANGED <<ranks, remoteCkpt, localCkpt>>

\* rclone fails, or the process dies; its staging files are left or removed.
EvaluatorEnds(e) ==
  /\ evaluator[e].step # "idle"
  /\ EvaluatorFails(e)
  /\ UNCHANGED <<ranks, remoteCkpt, localCkpt, cachedCkpt, damaged>>

\* A training run replaces or removes its checkpoint in the store ...
ReplaceRemote(b) ==
  /\ b # remoteCkpt
  /\ remoteCkpt' = b
  /\ evaluator' = [e \in Evaluators |->
       IF evaluator[e].step \in {"idle", "loaded"} \/ evaluator[e].ask.pin # NoFile
       THEN evaluator[e]
       ELSE [evaluator[e] EXCEPT !.seen = @ \cup ({b} \ {NoFile})]]
  /\ UNCHANGED <<ranks, localCkpt, cachedCkpt, damaged>>

\* ... and on disk.
ReplaceLocal(b) ==
  /\ b # localCkpt
  /\ localCkpt' = b
  /\ UNCHANGED <<ranks, remoteCkpt, cachedCkpt, damaged, evaluator>>

DamageCached(d) ==
  /\ cachedCkpt[d] \in Checkpoints
  /\ cachedCkpt' = [cachedCkpt EXCEPT ![d] = Torn]
  /\ damaged' = damaged \cup {d}
  /\ UNCHANGED <<ranks, remoteCkpt, localCkpt, evaluator>>

CkptNext ==
  \/ \E e \in Evaluators :
       \/ Localize(e) \/ LookUpSize(e) \/ \E b \in Bytes : Download(e, b)
       \/ LockDigest(e) \/ CacheHit(e) \/ CacheMiss(e) \/ PublishCkpt(e) \/ EvaluatorEnds(e)
  \/ \E b \in Checkpoints \cup {NoFile} : ReplaceRemote(b) \/ ReplaceLocal(b)
  \/ \E d \in Bytes : DamageCached(d)

CkptSpec == CkptInit /\ [][CkptNext]_ckptVars

-----------------------------------------------------------------------------
\* What an evaluation loads is what it asked for: the pinned bytes, or, without
\* a pin, one whole checkpoint the store held since the evaluation began.  The
\* ranks of one evaluation load the same bytes.
LoadsWhatItAsked ==
  \A e, f \in Evaluators :
    LET me == evaluator[e]
        peer == evaluator[f]
    IN  me.step = "loaded" =>
          /\ IF me.ask.pin = NoFile THEN me.loaded \in me.seen ELSE me.loaded = me.ask.pin
          /\ ranks /\ peer.step = "loaded" => me.loaded = peer.loaded

\* No process, wherever it dies, leaves a file under another digest than its own.
CacheIsByContent == \A d \in Bytes \ damaged : cachedCkpt[d] \in {NoFile, d}

\* The two together.
CheckpointIsTheOneAsked == LoadsWhatItAsked /\ CacheIsByContent
=============================================================================

----------------------------- MODULE AddEmbeddings -----------------------------
(***************************************************************************)
(* Embedding columns of a dataset (pipeline/data/add_embeddings.py).  A    *)
(* job writes the selected embeddings that are missing: those whose        *)
(* encoders fit in memory together in one pass, the others in a pass each. *)
(* A pass encodes the rows batch by batch and commits all its columns at   *)
(* once.  With a resume cache, batches encoded before a crash are taken    *)
(* from it; a file beside the cache says which artifact, source version    *)
(* and pass it was made for.                                               *)
(*                                                                         *)
(* Jobs over one dataset and cache follow each other; each stops at any    *)
(* step, and others commit to the dataset meanwhile.  External: a commit   *)
(* of columns is refused when the dataset has moved since it was opened.   *)
(*                                                                         *)
(* Data left out: audio, encoders and vectors; a batch is named by the     *)
(* artifact that encoded it and the rows it was encoded from.  A           *)
(* checkpoint does not change while a job that loaded it runs.  Jobs give  *)
(* the settings of an index, and give the same.                            *)
(***************************************************************************)
EXTENDS Naturals, Sequences, FiniteSets

Seqs == INSTANCE SequencesExt

CONSTANTS
  Embeddings,
  CoResident,    \* embeddings whose encoders are loaded together
  Indexable,     \* embeddings that have an index
  EnoughRows,    \* the version that brings MIN_ROWS_FOR_INDEX rows
  Artifacts,     \* checkpoints, with the policies that affect the output
  JobRequests,   \* the jobs launched
  NumBatches,
  NoColumn, NoCache, NoIdentity, NoJob,
  MaxCommits     \* bound: versions of the dataset

\* cached says whether the job has a resume cache, index whether it builds
\* the indexes.
EmbedRequest == [selection : SUBSET Embeddings, artifact : Artifacts, cached : BOOLEAN,
                 index : BOOLEAN]

VARIABLES
  table,       \* the dataset
  cacheFiles,  \* resume cache at each path
  sidecars,    \* the identity beside it
  embedJob

embedVars == <<table, cacheFiles, sidecars, embedJob>>

\* A batch, by what it was computed from; rows is the version that brought the
\* rows.
Batch == [artifact : Artifacts, rows : 1 .. MaxCommits]

\* A column says which artifact it is of; rows is what it was committed over.
Column == [artifact : Artifacts, rows : 1 .. MaxCommits, batches : [1 .. NumBatches -> Batch]]

\* A path is named by the pass it is for, the empty one is the path the user
\* gave.
CachePath == SUBSET Embeddings

CacheIdentity == [artifact : Artifacts, version : 1 .. MaxCommits, pass : SUBSET Embeddings]

ASSUME EmbedAssumption ==
  /\ CoResident \subseteq Embeddings /\ Indexable \subseteq Embeddings /\ EnoughRows \in Nat
  /\ NumBatches \in Nat \ {0} /\ MaxCommits \in Nat \ {0}
  /\ JobRequests \subseteq EmbedRequest
  /\ IsFiniteSet(Embeddings) /\ NoColumn \notin Column /\ NoIdentity \notin CacheIdentity

\* version and rows are those of the dataset the job has open; passes are
\* still to be written, the first one now.
EmbedJob == [step : {"prepare", "encode", "delete cache", "delete identity", "index", "done"},
             request : EmbedRequest, version : 1 .. MaxCommits, rows : 1 .. MaxCommits,
             passes : Seq(SUBSET Embeddings), batches : Seq(Batch)]

EmbedTypeOK ==
  /\ table \in [version : 1 .. MaxCommits, rows : 1 .. MaxCommits,
                columns : [Embeddings -> Column \cup {NoColumn}],
                indexed : SUBSET Embeddings, legacy : SUBSET Embeddings]
  /\ cacheFiles \in [CachePath -> Seq(Batch) \cup {NoCache}]
  /\ \A p \in CachePath : cacheFiles[p] # NoCache => Len(cacheFiles[p]) <= NumBatches
  /\ sidecars \in [CachePath -> CacheIdentity \cup {NoIdentity}]
  /\ embedJob # NoJob =>
       /\ embedJob \in EmbedJob
       /\ Len(embedJob.batches) <= NumBatches
       /\ embedJob.step \in {"prepare", "encode", "delete cache", "delete identity"} =>
            embedJob.passes # <<>>

\* A cache and columns (legacy) of before there were identities may be there.
EmbedInit ==
  /\ \E old \in SUBSET Embeddings :
       table = [version |-> 1, rows |-> 1, columns |-> [e \in Embeddings |-> NoColumn],
                indexed |-> {}, legacy |-> old]
  /\ \E old \in {NoCache} \cup {<<[artifact |-> a, rows |-> 1]>> : a \in Artifacts} :
       cacheFiles = [p \in CachePath |-> IF p = {} THEN old ELSE NoCache]
  /\ sidecars = [p \in CachePath |-> NoIdentity]
  /\ embedJob = NoJob

EmbedAt(step) == embedJob' = [embedJob EXCEPT !.step = step]
EmbedStops == embedJob' = NoJob

-----------------------------------------------------------------------------
\* Somebody else commits rows to the dataset.
RowsCommitted ==
  /\ table.version < MaxCommits
  /\ table' = [table EXCEPT !.version = @ + 1, !.rows = table.version + 1]
  /\ UNCHANGED <<cacheFiles, sidecars, embedJob>>

\* _missing_embedding_specs; a column of another artifact raises, one that does
\* not say is kept.
Missing(request) == {e \in request.selection \ table.legacy : table.columns[e] = NoColumn}
Compatible(request) ==
  \A e \in request.selection \ (Missing(request) \cup table.legacy) :
    table.columns[e].artifact = request.artifact

\* add_embeddings: co-resident embeddings in one pass, the others one by one.
Passes(pending) ==
  LET together == pending \cap CoResident
      alone == Seqs!SetToSeq(pending \ CoResident)
  IN  (IF together = {} THEN <<>> ELSE <<together>>) \o [i \in DOMAIN alone |-> {alone[i]}]

StartPasses(job) == [job EXCEPT !.step = IF job.passes = <<>> THEN "index" ELSE "prepare"]

LaunchEmbed(request) ==
  /\ embedJob = NoJob
  /\ Compatible(request)
  /\ embedJob' = StartPasses([step |-> "prepare", request |-> request,
                              version |-> table.version, rows |-> table.rows,
                              passes |-> Passes(Missing(request)), batches |-> <<>>])
  /\ UNCHANGED <<table, cacheFiles, sidecars>>

\* _resume_cache_for_specs: the whole selection in one pass has the path given.
PathOf(job) ==
  IF Head(job.passes) = job.request.selection THEN {} ELSE Head(job.passes)

\* Mutant of IdentityOf: the source version is left out.
IdentityOfArtifact(job) ==
  [artifact |-> job.request.artifact, version |-> 1, pass |-> Head(job.passes)]

\* The digest of _prepare_resume_cache.
IdentityOf(job) ==
  [artifact |-> job.request.artifact, version |-> job.version, pass |-> Head(job.passes)]

Preparing == embedJob # NoJob /\ embedJob.step = "prepare"

PrepareNoCache ==
  /\ Preparing /\ ~embedJob.request.cached
  /\ EmbedAt("encode")
  /\ UNCHANGED <<table, cacheFiles, sidecars>>

\* No cache, or one without identity, which is discarded: the identity is
\* written first, the cache comes with the first batch.
PrepareFresh ==
  LET p == PathOf(embedJob)
  IN  /\ Preparing /\ embedJob.request.cached
      /\ cacheFiles[p] = NoCache \/ sidecars[p] = NoIdentity
      /\ cacheFiles' = [cacheFiles EXCEPT ![p] = NoCache]
      /\ sidecars' = [sidecars EXCEPT ![p] = IdentityOf(embedJob)]
      /\ EmbedAt("encode")
      /\ UNCHANGED table

\* A cache of its own is resumed, another one raises.
PrepareExisting ==
  LET p == PathOf(embedJob)
  IN  /\ Preparing /\ embedJob.request.cached
      /\ cacheFiles[p] # NoCache /\ sidecars[p] # NoIdentity
      /\ IF sidecars[p] = IdentityOf(embedJob) THEN EmbedAt("encode") ELSE EmbedStops
      /\ UNCHANGED <<table, cacheFiles, sidecars>>

\* The batches the cache holds, for a job that has one.
Cached(job) ==
  IF job.request.cached /\ cacheFiles[PathOf(job)] # NoCache THEN cacheFiles[PathOf(job)] ELSE <<>>

Encoding == embedJob # NoJob /\ embedJob.step = "encode" /\ Len(embedJob.batches) < NumBatches

\* External (lance.batch_udf): a batch in the cache is not encoded again.
ReuseBatch ==
  LET b == Len(embedJob.batches) + 1
  IN  /\ Encoding /\ b \in DOMAIN Cached(embedJob)
      /\ embedJob' = [embedJob EXCEPT !.batches = Append(@, Cached(embedJob)[b])]
      /\ UNCHANGED <<table, cacheFiles, sidecars>>

\* A batch encoded goes into the cache.
EncodeBatch ==
  LET b == Len(embedJob.batches) + 1
      batch == [artifact |-> embedJob.request.artifact, rows |-> embedJob.rows]
  IN  /\ Encoding /\ b \notin DOMAIN Cached(embedJob)
      /\ embedJob' = [embedJob EXCEPT !.batches = Append(@, batch)]
      /\ cacheFiles' = IF embedJob.request.cached
                       THEN [cacheFiles EXCEPT ![PathOf(embedJob)] = Append(Cached(embedJob), batch)]
                       ELSE cacheFiles
      /\ UNCHANGED <<table, sidecars>>

NextPass(job) == StartPasses([job EXCEPT !.passes = Tail(@), !.batches = <<>>])

ColumnOf(job) ==
  [artifact |-> job.request.artifact, rows |-> table.rows, batches |-> job.batches]

\* add_columns commits, or raises because the dataset moved.
CommitColumns ==
  /\ embedJob # NoJob /\ embedJob.step = "encode"
  /\ Len(embedJob.batches) = NumBatches
  /\ IF table.version = embedJob.version
     THEN /\ table.version < MaxCommits
          /\ table' = [table EXCEPT !.version = @ + 1,
               !.columns = [e \in Embeddings |->
                 IF e \in Head(embedJob.passes) THEN ColumnOf(embedJob) ELSE @[e]]]
          /\ LET committed == [embedJob EXCEPT !.version = @ + 1]
             IN  embedJob' = IF embedJob.request.cached
                             THEN [committed EXCEPT !.step = "delete cache"]
                             ELSE NextPass(committed)
     ELSE EmbedStops /\ UNCHANGED table
  /\ UNCHANGED <<cacheFiles, sidecars>>

\* _delete_resume_cache: the cache, then its identity; an error leaves the
\* rest where it is.
DeleteCache ==
  /\ embedJob # NoJob /\ embedJob.step = "delete cache"
  /\ \/ /\ cacheFiles' = [cacheFiles EXCEPT ![PathOf(embedJob)] = NoCache]
        /\ EmbedAt("delete identity")
     \/ embedJob' = NextPass(embedJob) /\ UNCHANGED cacheFiles
  /\ UNCHANGED <<table, sidecars>>

DeleteIdentity ==
  /\ embedJob # NoJob /\ embedJob.step = "delete identity"
  /\ \/ sidecars' = [sidecars EXCEPT ![PathOf(embedJob)] = NoIdentity]
     \/ UNCHANGED sidecars
  /\ embedJob' = NextPass(embedJob)
  /\ UNCHANGED <<table, cacheFiles>>

\* _matching_index_exists, build_index: none over too few rows.
Unindexed(job) ==
  IF job.request.index /\ job.rows >= EnoughRows
  THEN (job.request.selection \cap Indexable) \ table.indexed ELSE {}

\* One embedding at a time, over the newest version.
IndexColumn ==
  /\ embedJob # NoJob /\ embedJob.step = "index"
  /\ IF Unindexed(embedJob) = {}
     THEN EmbedAt("done") /\ UNCHANGED table
     ELSE /\ table.version < MaxCommits
          /\ \E e \in Unindexed(embedJob) :
               table' = [table EXCEPT !.version = @ + 1, !.indexed = @ \cup {e}]
          /\ UNCHANGED embedJob
  /\ UNCHANGED <<cacheFiles, sidecars>>

\* A crash, an exception, or the end.
EmbedEnds ==
  /\ embedJob # NoJob
  /\ EmbedStops
  /\ UNCHANGED <<table, cacheFiles, sidecars>>

EmbedNext ==
  \/ RowsCommitted
  \/ \E request \in JobRequests : LaunchEmbed(request)
  \/ PrepareNoCache \/ PrepareFresh \/ PrepareExisting
  \/ ReuseBatch \/ EncodeBatch \/ CommitColumns
  \/ DeleteCache \/ DeleteIdentity \/ IndexColumn
  \/ EmbedEnds

EmbedSpec == EmbedInit /\ [][EmbedNext]_embedVars

-----------------------------------------------------------------------------
\* However jobs crash, resume from caches and are launched with other
\* checkpoints or over other rows, every batch of a committed column was
\* encoded by the artifact the column names from the rows it was committed
\* over; and a job that ends well leaves what it was asked for, or the columns
\* found without an identity.
ColumnsAreOneArtifact ==
  /\ \A e \in Embeddings : table.columns[e] # NoColumn =>
       \A b \in 1 .. NumBatches :
         table.columns[e].batches[b] =
           [artifact |-> table.columns[e].artifact, rows |-> table.columns[e].rows]
  /\ embedJob # NoJob => (embedJob.step = "done" =>
       /\ Unindexed(embedJob) = {}
       /\ \A e \in embedJob.request.selection \ table.legacy :
            table.columns[e] # NoColumn /\ table.columns[e].artifact = embedJob.request.artifact)
=============================================================================

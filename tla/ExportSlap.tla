------------------------------ MODULE ExportSlap ------------------------------
(***************************************************************************)
(* Export of embeddings from a split of a dataset into a dataset of their  *)
(* own (pipeline/data/export_slap.py), which goes through commits on two   *)
(* datasets: row UUIDs are added to the source if it has none, the rows    *)
(* are written to the output, an index is built on it, its metadata is     *)
(* completed with the version that commit will have, and the source gets   *)
(* a pointer to that version.  A relaunch recognises what an earlier       *)
(* export left and goes on from there.                                     *)
(*                                                                         *)
(* Exports are launched at the same time by whoever likes, fail at any     *)
(* step, and others commit to the source meanwhile.  A commit lands on the *)
(* latest version, or is refused when another one was faster (external: an *)
(* index is refused, metadata may go either way).                          *)
(*                                                                         *)
(* Data left out: rows, models and checkpoints.  Every export has rows     *)
(* and asks for an index.                                                  *)
(***************************************************************************)
EXTENDS Naturals, Sequences

CONSTANTS
  Exporters,   \* exports under way
  Outputs,     \* output datasets of one split
  NoPointer,   \* the source has no pointer
  NoOutput,    \* an exporter that is idle
  MaxSource,   \* bound: versions of the source
  MaxOutput    \* bound: versions of an output

ASSUME ExportAssumption == MaxSource \in Nat \ {0} /\ MaxOutput \in Nat

VARIABLES
  source,      \* versions of the source split
  outputs,     \* versions of each output
  exporter

exportVars == <<source, outputs, exporter>>

\* _SourcePointer; input is the source version the rows were read from.
Pointer == [output : Outputs, version : 1 .. MaxOutput, input : 1 .. MaxSource]

\* uuids is the version the row UUIDs were added for (_UuidMigration), 0
\* without them.
SourceVersion == [uuids : 0 .. MaxSource, pointer : Pointer \cup {NoPointer}]

\* _ExportMetadata, and whether the index is there.  The request is named by
\* the source version it pins.
OutputVersion == [request : 1 .. MaxSource, input : 1 .. MaxSource, index : BOOLEAN,
                  completed : BOOLEAN, version : 0 .. MaxOutput + 1]

\* input is the source the rows are read from, head the version of the
\* dataset the export has open.
Exporter == [step : {"idle", "look", "migrate", "add", "write", "index", "reopen",
                     "complete", "verify", "point"},
             output : Outputs \cup {NoOutput}, request : 0 .. MaxSource,
             input : 0 .. MaxSource, head : 0 .. MaxOutput]
IdleExporter == [step |-> "idle", output |-> NoOutput, request |-> 0, input |-> 0, head |-> 0]

ExportTypeOK ==
  /\ source \in Seq(SourceVersion) /\ Len(source) \in 1 .. MaxSource
  /\ outputs \in [Outputs -> Seq(OutputVersion)]
  /\ \A o \in Outputs : Len(outputs[o]) <= MaxOutput
  /\ exporter \in [Exporters -> Exporter]

ExportInit ==
  /\ source = <<[uuids |-> 0, pointer |-> NoPointer]>>
  /\ outputs = [o \in Outputs |-> <<>>]
  /\ exporter = [e \in Exporters |-> IdleExporter]

Newest(versions) == versions[Len(versions)]
CommitSource(version) == Len(source) < MaxSource /\ source' = Append(source, version)
CommitOutput(o, version) ==
  Len(outputs[o]) < MaxOutput /\ outputs' = [outputs EXCEPT ![o] = Append(@, version)]

ExportAt(e, step) == exporter' = [exporter EXCEPT ![e].step = step]
ExportDone(e) == exporter' = [exporter EXCEPT ![e] = IdleExporter]

-----------------------------------------------------------------------------
\* Somebody else commits to the source.
SourceCommit ==
  /\ CommitSource(Newest(source))
  /\ UNCHANGED <<outputs, exporter>>

LaunchExport(e, o, request) ==
  /\ exporter[e].step = "idle"
  /\ exporter' = [exporter EXCEPT ![e] = [IdleExporter EXCEPT !.step = "look", !.output = o,
                                            !.request = request]]
  /\ UNCHANGED <<source, outputs>>

\* _existing_completed finds no output.
LookForNone(e) ==
  /\ exporter[e].step = "look"
  /\ outputs[exporter[e].output] = <<>>
  /\ ExportAt(e, "migrate")
  /\ UNCHANGED <<source, outputs>>

\* A conflicting request, or a completion that is not the head's, raises.
Usable(e) ==
  LET output == Newest(outputs[exporter[e].output])
  IN  /\ output.request = exporter[e].request
      /\ output.completed => output.version = Len(outputs[exporter[e].output])

\* Mutant of Unfinished: what is there is taken for complete.
UnfinishedNever(output) == ~output.index

\* _resume_output goes on with an output that is not complete.
Unfinished(output) == ~output.completed \/ ~output.index

LookForOutput(e) ==
  LET versions == outputs[exporter[e].output]
  IN  /\ exporter[e].step = "look"
      /\ versions # <<>>
      /\ IF Usable(e)
         THEN exporter' = [exporter EXCEPT ![e].head = Len(versions), ![e].input = Newest(versions).input,
                ![e].step = IF Unfinished(Newest(versions)) THEN "index" ELSE "point"]
         ELSE ExportDone(e)
      /\ UNCHANGED <<source, outputs>>

\* _attributable_uuid_migration: the next version, if made for this one.
Migrated(request) ==
  /\ request + 1 \in DOMAIN source
  /\ source[request + 1].uuids = request

\* _ensure_row_uuids takes the version itself, its migration or, on the head,
\* adds the UUIDs; it raises on a historical version without them.
Migrate(e) ==
  LET request == exporter[e].request
  IN  /\ exporter[e].step = "migrate"
      /\ \/ /\ source[request].uuids # 0
            /\ exporter' = [exporter EXCEPT ![e].input = request, ![e].step = "write"]
         \/ /\ source[request].uuids = 0 /\ Migrated(request)
            /\ exporter' = [exporter EXCEPT ![e].input = request + 1, ![e].step = "write"]
         \/ /\ source[request].uuids = 0 /\ ~Migrated(request)
            /\ IF request = Len(source) THEN ExportAt(e, "add") ELSE ExportDone(e)
      /\ UNCHANGED <<source, outputs>>

\* add_columns lands on the latest version; the one expected to follow the
\* request must carry this migration.
AddUuids(e) ==
  LET request == exporter[e].request
  IN  /\ exporter[e].step = "add"
      /\ Newest(source).uuids = 0
      /\ CommitSource([Newest(source) EXCEPT !.uuids = request])
      /\ IF Len(source) = request
         THEN exporter' = [exporter EXCEPT ![e].input = request + 1, ![e].step = "write"]
         ELSE ExportDone(e)
      /\ UNCHANGED outputs

\* _write_new_output creates the dataset.
WriteOutput(e) ==
  LET o == exporter[e].output
  IN  /\ exporter[e].step = "write"
      /\ outputs[o] = <<>>
      /\ CommitOutput(o, [request |-> exporter[e].request, input |-> exporter[e].input,
                          index |-> FALSE, completed |-> FALSE, version |-> 0])
      /\ exporter' = [exporter EXCEPT ![e].head = 1, ![e].step = "index"]
      /\ UNCHANGED source

\* _complete_output: the index, unless it is there.
BuildIndex(e) ==
  LET o == exporter[e].output
      head == exporter[e].head
  IN  /\ exporter[e].step = "index"
      /\ \/ /\ outputs[o][head].index
            /\ ExportAt(e, "complete") /\ UNCHANGED outputs
         \/ /\ ~outputs[o][head].index
            /\ ~Newest(outputs[o]).index
            /\ CommitOutput(o, [Newest(outputs[o]) EXCEPT !.index = TRUE])
            /\ ExportAt(e, "reopen")
      /\ UNCHANGED source

\* The dataset is opened again, whoever committed meanwhile.
ReopenOutput(e) ==
  /\ exporter[e].step = "reopen"
  /\ exporter' = [exporter EXCEPT ![e].step = "complete",
                                  ![e].head = Len(outputs[exporter[e].output])]
  /\ UNCHANGED <<source, outputs>>

\* The version the completion will have if nobody else commits.
PublishedVersion(e) == exporter[e].head + 1

CompleteOutput(e) ==
  LET o == exporter[e].output
  IN  /\ exporter[e].step = "complete"
      /\ CommitOutput(o, [Newest(outputs[o]) EXCEPT !.completed = TRUE,
                                                  !.version = PublishedVersion(e)])
      /\ exporter' = [exporter EXCEPT ![e].head = PublishedVersion(e), ![e].step = "verify"]
      /\ UNCHANGED source

\* The output opened again must have that version.
VerifyOutput(e) ==
  /\ exporter[e].step = "verify"
  /\ IF Len(outputs[exporter[e].output]) = exporter[e].head
     THEN ExportAt(e, "point") ELSE ExportDone(e)
  /\ UNCHANGED <<source, outputs>>

PointerOf(e) ==
  [output |-> exporter[e].output, version |-> exporter[e].head, input |-> exporter[e].input]

\* _update_source_pointer
PointToOutput(e) ==
  /\ exporter[e].step = "point"
  /\ \/ Newest(source).pointer = PointerOf(e) /\ UNCHANGED source
     \/ /\ Newest(source).pointer # PointerOf(e)
        /\ CommitSource([Newest(source) EXCEPT !.pointer = PointerOf(e)])
  /\ ExportDone(e)
  /\ UNCHANGED outputs

\* A crash, an exception, a commit that is refused.
ExportFails(e) ==
  /\ exporter[e].step # "idle"
  /\ ExportDone(e)
  /\ UNCHANGED <<source, outputs>>

ExportNext ==
  \/ SourceCommit
  \/ \E e \in Exporters :
       \/ \E o \in Outputs, request \in 1 .. Len(source) : LaunchExport(e, o, request)
       \/ LookForNone(e) \/ LookForOutput(e) \/ Migrate(e) \/ AddUuids(e) \/ WriteOutput(e)
       \/ BuildIndex(e) \/ ReopenOutput(e) \/ CompleteOutput(e) \/ VerifyOutput(e)
       \/ PointToOutput(e) \/ ExportFails(e)

ExportSpec == ExportInit /\ [][ExportNext]_exportVars

-----------------------------------------------------------------------------
\* Whatever exports race, fail and are relaunched, a pointer in the source
\* names a version of the output that says it is complete at that very
\* version, with its index, and whose rows came from a version that had row
\* UUIDs: the one requested or the migration of it.
PointsToACompleteOutput ==
  \A v \in DOMAIN source : source[v].pointer # NoPointer =>
    LET p == source[v].pointer
    IN  /\ p.version \in DOMAIN outputs[p.output]
        /\ LET output == outputs[p.output][p.version]
           IN  /\ output.completed /\ output.index /\ output.version = p.version
               /\ output.input = p.input
               /\ source[p.input].uuids # 0
               /\ p.input \in {output.request, output.request + 1}
=============================================================================

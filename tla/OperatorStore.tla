---------------------------- MODULE OperatorStore ----------------------------
(***************************************************************************)
(* core/operator_db/: a partition of the operator database, that is the    *)
(* files the collector writes under one version of vLLM, and the store     *)
(* that loads them.                                                        *)
(*                                                                         *)
(* A line is a record, FOREIGN (it parses, but the importer does not know  *)
(* it), TORN (the fragment a dying writer leaves at the end of the file)   *)
(* or GLUED (a fragment and the line appended to it).                      *)
(***************************************************************************)
EXTENDS OperatorSchema

CONSTANTS DbVersion,   \* version of vLLM the partition was collected under
          Prices,      \* latencies a measurement may yield
          MaxLines     \* bound: lines of all files together

ASSUME StoreOK == Prices \subseteq Nat /\ MaxLines \in Nat

VARIABLES files,   \* kind -> lines on disk
          store,   \* signature -> price: the records of the store
          raised   \* what the last load raised, "" when it returned

storeVars == <<files, store, raised>>

\* The order in which load_partition reads the files.
OpKinds == <<"gemm", "attention", "moe", "collective">>
Kinds   == Range(OpKinds)

Record(sig, price) == [status |-> "record", sig |-> sig, price |-> price]
FOREIGN == [status |-> "foreign"]
TORN    == [status |-> "torn"]
GLUED   == [status |-> "glued"]

IsRecord(line)   == line.status = "record"
Unreadable(line) == line.status \in {"torn", "glued"}

StoreInit ==
  /\ files = [k \in Kinds |-> <<>>]
  /\ store = << >>
  /\ raised = ""

(***************************************************************************)
(* collector/writer.py, as Collector has it.                               *)
(***************************************************************************)
EndsTorn(lines) == lines # <<>> /\ Last(lines).status = "torn"

HasRoom == MapThenSumSet(LAMBDA k : Len(files[k]), Kinds) < MaxLines

AppendLine(kind, line) ==
  /\ HasRoom \/ EndsTorn(files[kind])
  /\ files' = [files EXCEPT ![kind] = IF EndsTorn(@) THEN Append(Front(@), GLUED)
                                                     ELSE Append(@, line)]
  /\ UNCHANGED <<store, raised>>

TearLine(kind) ==
  /\ HasRoom
  /\ ~ EndsTorn(files[kind])
  /\ files' = [files EXCEPT ![kind] = Append(@, TORN)]
  /\ UNCHANGED <<store, raised>>

(***************************************************************************)
(* stores/memory.py, stores/jsonl.py, version_check.py                     *)
(***************************************************************************)

\* MemoryOperatorStore.add: the last record of a signature stays.
Add(records, record) ==
  [sig \in DOMAIN records \cup {record.sig} |->
     IF sig = record.sig THEN record.price ELSE records[sig]]

\* import_record and add; a row that cannot be imported is passed over.
Import(records, line) == IF IsRecord(line) THEN Add(records, line) ELSE records

\* Mutant: an unreadable line ends the file.
RaisesNever(lines) == FALSE

\* json.loads is outside the try of load_jsonl, import_record is inside.
Raises(lines) == \E i \in DOMAIN lines : Unreadable(lines[i])

\* load_jsonl up to its end, or to the line that raises.
LoadJsonl(records, lines) ==
  LET bad == {i \in DOMAIN lines : Unreadable(lines[i])}
      n   == IF bad = {} THEN Len(lines) ELSE Min(bad) - 1
  IN  FoldLeft(Import, records, SubSeq(lines, 1, n))

UNKNOWN == [release |-> "unknown", build |-> ""]

\* verify_db_framework_version: builds of a release are taken for the same,
\* a runtime without vLLM is let through.
VersionMatches(runtime) == runtime = UNKNOWN \/ runtime.release = DbVersion.release

\* load_partition, into the store of an earlier load or into an empty one.
\* What was added before a line raised stays added.
LoadPartition(runtime, ignoreMismatch) ==
  IF ~ (VersionMatches(runtime) \/ ignoreMismatch)
    THEN /\ raised' = "OperatorDBVersionMismatch"
         /\ UNCHANGED <<files, store>>
    ELSE LET bad  == {i \in DOMAIN OpKinds : Raises(files[OpKinds[i]])}
             last == IF bad = {} THEN Len(OpKinds) ELSE Min(bad)
         IN  /\ store' = FoldLeft(LAMBDA records, kind : LoadJsonl(records, files[kind]),
                                  store, SubSeq(OpKinds, 1, last))
             /\ raised' = IF bad = {} THEN "" ELSE "JSONDecodeError"
             /\ UNCHANGED files
=============================================================================

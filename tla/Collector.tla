------------------------------ MODULE Collector ------------------------------
(***************************************************************************)
(* One operator's measurement campaign as collector/scheduler.py runs it:  *)
(* run_op loads the checkpoint, filters the case list, measures the cases  *)
(* one by one, appends a record (or an error) to a JSONL file and saves    *)
(* the checkpoint after each case.  The process may die between any two    *)
(* system calls, in the middle of an append too, and is launched again.    *)
(*                                                                         *)
(* Cases are numbered by their position in the list get_cases() returns    *)
(* (case ids are unique in it: cases/_dedup.py).  A JSONL file is the bag  *)
(* of its lines; an append to a file that ends in a torn line is glued to  *)
(* the fragment and neither is readable.                                   *)
(***************************************************************************)
EXTENDS Checkpoint

CONSTANTS Limits,         \* values of --limit; NumCases stands for "no limit"
          MaxCrashes,     \* bound: process deaths
          MaxTears,       \* bound: deaths that tear the line being appended
          MaxCorruptions  \* bound: checkpoint files damaged between runs

ASSUME ConstantsOK == /\ Limits \subseteq Nat
                      /\ MaxCrashes \in Nat
                      /\ MaxTears \in Nat
                      /\ MaxCorruptions \in Nat

VARIABLES
  pc,          \* where run_op is; "idle" when no process runs
  state,       \* the CheckpointState in memory
  todo,        \* cases_to_run not yet visited
  cur,         \* the case of the current iteration (0: none)
  summary,     \* RunSummary of the current run
  records,     \* <op>.jsonl
  errors,      \* errors/<op>.jsonl
  progress,    \* last line of progress.jsonl
  cp,          \* checkpoints/<op>.json
  tmp,         \* checkpoints/<op>.json.tmp
  crashes, tears, corruptions

proc == <<pc, state, todo, cur, summary>>
disk == <<records, errors, progress, cp, tmp>>
env  == <<crashes, tears, corruptions>>
vars == <<proc, disk, env>>

Summary   == [total : Nat, done : Nat, failed : Nat]
NoSummary == [total |-> 0, done |-> 0, failed |-> 0]

\* copies[c]: readable lines of case c; glued: unreadable lines; torn: the
\* file ends in a fragment with no newline.
JsonlFile == [copies : [Case -> Nat], glued : Nat, torn : BOOLEAN]
EmptyFile == [copies |-> [c \in Case |-> 0], glued |-> 0, torn |-> FALSE]

TypeOK ==
  /\ pc \in {"idle", "pick", "append", "appendError",
             "mark", "markFailed", "fill", "replace"}
  /\ state \in Ledger
  /\ todo \in SUBSET Case
  /\ cur \in Case \cup {0}
  /\ (pc \notin {"idle", "pick"} => cur \in Case)
  /\ summary \in Summary
  /\ records \in JsonlFile
  /\ errors \in [logged : SUBSET Case, torn : BOOLEAN]
  /\ progress \in Summary
  /\ cp \in LedgerFile
  /\ tmp \in LedgerFile
  /\ crashes \in 0..MaxCrashes
  /\ tears \in 0..MaxTears
  /\ corruptions \in 0..MaxCorruptions

Init ==
  /\ pc = "idle"
  /\ state = Empty
  /\ todo = {}
  /\ cur = 0
  /\ summary = NoSummary
  /\ records = EmptyFile
  /\ errors = [logged |-> {}, torn |-> FALSE]
  /\ progress = NoSummary
  /\ cp = Absent
  /\ tmp = Absent
  /\ crashes = 0
  /\ tears = 0
  /\ corruptions = 0

-----------------------------------------------------------------------------
(* writer.py                                                               *)

\* Mutant: the line that heals a torn file ends in no newline either.
AppendedUnended(file, c) ==
  IF file.torn THEN [file EXCEPT !.glued = @ + 1] ELSE [file EXCEPT !.copies[c] = @ + 1]

\* writer.append_record, run to its end: a line, glued when the file is torn.
Appended(file, c) ==
  IF file.torn THEN [file EXCEPT !.glued = @ + 1, !.torn = FALSE]
               ELSE [file EXCEPT !.copies[c] = @ + 1]

\* writer.append_error: only which cases have a readable error matters.
ErrorAppended(file, c) ==
  IF file.torn THEN [file EXCEPT !.torn = FALSE]
               ELSE [file EXCEPT !.logged = @ \cup {c}]

-----------------------------------------------------------------------------
(* scheduler.run_op                                                        *)

CasesToRun(requested, retryFailed, limit) ==
  FirstN(FilterCases(Load(cp), requested, retryFailed), limit)

\* run_op up to its loop: load, filter, limit.  (--dry-run returns here and
\* changes nothing: it is no action.)
Launch(requested, retryFailed, limit) ==
  /\ pc = "idle"
  /\ pc' = "pick"
  /\ state' = Load(cp)
  /\ todo' = CasesToRun(requested, retryFailed, limit)
  /\ summary' = [NoSummary EXCEPT !.total = Cardinality(todo')]
  /\ UNCHANGED <<cur, disk, env>>

\* Mutant: the ledger is marked before anything is appended.
RunCaseMarksFirst ==
  /\ pc = "pick"
  /\ \E c \in todo : /\ \A d \in todo : c <= d
                     /\ cur' = c
                     /\ todo' = todo \ {c}
  /\ pc' \in {"mark", "appendError"}
  /\ UNCHANGED <<state, summary, disk, env>>

\* The next case in list order is measured: _run_one_case returns a record
\* or an error, it does not raise.
RunCase ==
  /\ pc = "pick"
  /\ \E c \in todo :
       /\ \A d \in todo : c <= d
       /\ cur' = c
       /\ todo' = todo \ {c}
  /\ pc' \in {"append", "appendError"}
  /\ UNCHANGED <<state, summary, disk, env>>

AppendRecord ==
  /\ pc = "append"
  /\ records' = Appended(records, cur)
  /\ pc' = "mark"
  /\ UNCHANGED <<state, todo, cur, summary, errors, progress, cp, tmp, env>>

AppendError ==
  /\ pc = "appendError"
  /\ errors' = ErrorAppended(errors, cur)
  /\ pc' = "markFailed"
  /\ UNCHANGED <<state, todo, cur, summary, records, progress, cp, tmp, env>>

\* Mutant: the checkpoint is written in place.
MarkDoneInPlace ==
  /\ pc = "mark"
  /\ state' = WithDone(state, cur)
  /\ summary' = [summary EXCEPT !.done = @ + 1]
  /\ tmp' = Damaged
  /\ cp' = Damaged
  /\ pc' = "fill"
  /\ UNCHANGED <<todo, cur, records, errors, progress, env>>

\* mark_done / mark_failed change the ledger in memory, then save opens
\* the temporary file for writing, which truncates it ...
MarkDone ==
  /\ pc = "mark"
  /\ state' = WithDone(state, cur)
  /\ summary' = [summary EXCEPT !.done = @ + 1]
  /\ tmp' = Damaged
  /\ pc' = "fill"
  /\ UNCHANGED <<todo, cur, records, errors, progress, cp, env>>

MarkFailed ==
  /\ pc = "markFailed"
  /\ state' = WithFailed(state, cur)
  /\ summary' = [summary EXCEPT !.failed = @ + 1]
  /\ tmp' = Damaged
  /\ pc' = "fill"
  /\ UNCHANGED <<todo, cur, records, errors, progress, cp, env>>

\* Mutant: what is written is the ledger the run started from.
FillTmpStale ==
  /\ pc = "fill"
  /\ tmp' = Whole(Load(cp))
  /\ pc' = "replace"
  /\ UNCHANGED <<state, todo, cur, summary, records, errors, progress, cp, env>>

\* ... writes and fsyncs it ...
FillTmp ==
  /\ pc = "fill"
  /\ tmp' = Whole(state)
  /\ pc' = "replace"
  /\ UNCHANGED <<state, todo, cur, summary, records, errors, progress, cp, env>>

\* ... and renames it over the checkpoint (os.replace).
ReplaceCheckpoint ==
  /\ pc = "replace"
  /\ cp' = tmp
  /\ tmp' = Absent
  /\ pc' = "pick"
  /\ UNCHANGED <<state, todo, cur, summary, records, errors, progress, env>>

\* The locals of run_op, once it is gone.
Gone == /\ pc' = "idle"
        /\ state' = Empty
        /\ todo' = {}
        /\ cur' = 0
        /\ summary' = NoSummary

\* The loop is over: one progress line, and the process ends.
Finish ==
  /\ pc = "pick"
  /\ todo = {}
  /\ progress' = summary
  /\ Gone
  /\ UNCHANGED <<records, errors, cp, tmp, env>>

-----------------------------------------------------------------------------
(* The world around the process                                            *)

Die == /\ crashes < MaxCrashes
       /\ crashes' = crashes + 1
       /\ Gone
       /\ UNCHANGED <<progress, cp, tmp, corruptions>>

\* KeyboardInterrupt, kill, a full disk: nothing catches them and the run
\* ends between two steps.
Crash == /\ pc # "idle"
         /\ Die
         /\ UNCHANGED <<records, errors, tears>>

\* The process dies, or the disk fills up, while the line is being written.
CrashInAppend ==
  /\ tears < MaxTears
  /\ tears' = tears + 1
  /\ \/ /\ pc = "append"
        /\ records' = [records EXCEPT !.torn = TRUE]
        /\ UNCHANGED errors
     \/ /\ pc = "appendError"
        /\ errors' = [errors EXCEPT !.torn = TRUE]
        /\ UNCHANGED records
  /\ Die

\* The checkpoint file is damaged from outside while no run is active.
Corrupt ==
  /\ pc = "idle"
  /\ corruptions < MaxCorruptions
  /\ cp.status = "whole"
  /\ cp' = Damaged
  /\ corruptions' = corruptions + 1
  /\ UNCHANGED <<proc, records, errors, progress, tmp, crashes, tears>>

-----------------------------------------------------------------------------
Start == \E requested \in SUBSET Case, retryFailed \in BOOLEAN, limit \in Limits :
           Launch(requested, retryFailed, limit)

Work == \/ RunCase \/ AppendRecord \/ AppendError \/ MarkDone \/ MarkFailed
        \/ FillTmp \/ ReplaceCheckpoint \/ Finish

Next == Start \/ Work \/ Crash \/ CrashInAppend \/ Corrupt

Spec == Init /\ [][Next]_vars

\* A started run makes progress, and the operator keeps resuming the whole
\* list: python -m collector without --retry-failed, --filter or --limit.
Resume == Launch(Case, FALSE, NumCases)
FairSpec == Spec /\ WF_vars(Work) /\ SF_vars(Resume)

-----------------------------------------------------------------------------
(* Properties                                                              *)

\* The ledger a new run would start from.
Durable == Load(cp)

Published == {c \in Case : records.copies[c] > 0}

\* Every case the checkpoint calls done has a readable record and every case
\* it calls failed a logged error, unless some append was torn: the append
\* precedes the mark (checkpoint.py:10-13), so a crash may duplicate a
\* measurement but not lose one.
LedgerBacked ==
  tears = 0 => Durable.done \subseteq Published /\ Durable.failed \subseteq errors.logged

\* Torn appends cost at most one published case each: what the glued line
\* swallows is bounded by the number of tears (writer.py:25-51).
LossBoundedByTears == Cardinality(Durable.done \ Published) <= tears

\* No case is both done and failed in what a run would load: mark_done
\* redeems a failure, and a done case is never run again.
NeverDoneAndFailed == Durable.done \cap Durable.failed = {}

\* The case being measured or recorded is not one the checkpoint on disk
\* already calls done: the filter of the launch stays valid to the end.
NeverRemeasured == pc \in {"append", "appendError", "mark"} => cur \notin Durable.done

\* A done mark, once on disk, survives everything but outside damage to the
\* checkpoint: every crash point of save leaves the old or the new file.
DoneKept == [][corruptions' = corruptions => Durable.done \subseteq Load(cp').done]_vars

\* Under repeated resumption every case ends up done or failed, for good.
EventuallyAccounted == <>[](Durable.done \cup Durable.failed = Case)

\* The collector implements the abstract campaign until a line is torn.
Campaign == INSTANCE CollectorCampaign WITH
              recorded <- Published, logged <- errors.logged,
              done <- Durable.done, failed <- Durable.failed
CampaignUntilTorn ==
  Campaign!Init /\ [][tears' = 0 => Campaign!Next]_(Campaign!vars)

\* "一次 case 完成立刻 checkpoint 持久化, crash 也只丢一条" and "那样 crash
\* 会丢数据" (of the other order): a done case has its data.
DoneNeverLosesData == Durable.done \subseteq Published
-----------------------------------------------------------------------------
(* Why it works: the inductive invariant                                   *)

\* The checkpoint on disk and the ledger in memory differ by at most the
\* case of the iteration under way.
InSync ==
  /\ pc \in {"pick", "append", "appendError", "mark", "markFailed"} => state = Durable
  /\ pc \in {"fill", "replace"} =>
        state \in {WithDone(Durable, cur), WithFailed(Durable, cur)}
  /\ pc = "replace" => tmp = Whole(state)

\* What the ledger calls done is not run again, and not called failed.
Fresh ==
  /\ NeverDoneAndFailed
  /\ todo \cap state.done = {} /\ cur \notin todo
  /\ pc = "idle" => cur = 0
  /\ pc \notin {"idle", "pick"} => cur \notin Durable.done

\* Until a line is torn, a readable line backs everything the ledgers in
\* memory and on disk say.
Backed ==
  tears = 0 =>
    /\ ~ records.torn /\ ~ errors.torn
    /\ state.done \cup Durable.done \subseteq Published
    /\ state.failed \cup Durable.failed \subseteq errors.logged
    /\ pc = "mark" => cur \in Published
    /\ pc = "markFailed" => cur \in errors.logged

IInv == TypeOK /\ InSync /\ Fresh /\ Backed

\* What is done, in either ledger or by the mark about to be made, and has no
\* readable record.
Claimed == Durable.done \cup state.done \cup (IF pc = "mark" THEN {cur} ELSE {})
Lost    == Claimed \ Published

\* Behind LossBoundedByTears: each tear is a fragment still at the end of the
\* file, or has swallowed one record since.
LossCounted == Cardinality(Lost) + (IF records.torn THEN 1 ELSE 0) <= tears
=============================================================================

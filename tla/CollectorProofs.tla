--------------------------- MODULE CollectorProofs ---------------------------
(***************************************************************************)
(* What holds of Collector for every number of cases, crashes, tears and   *)
(* corruptions.  The checkpoint on disk and the ledger in memory differ by *)
(* at most the case of the iteration under way (InSync); everything the    *)
(* ledger says is backed by a line on disk (Backed); a case the ledger     *)
(* calls done is not run again (Fresh).  LossCounted bounds what tears   *)
(* cost.                                                                   *)
(***************************************************************************)
EXTENDS Collector, SumLemmas

-----------------------------------------------------------------------------
\* The sets of cases the collector counts are finite.
LEMMA CasesFinite ==
  ASSUME NEW S \in SUBSET Case
  PROVE  IsFiniteSet(S) /\ Cardinality(S) \in Nat
BY PartOfInterval, NumCasesOK DEF Case

\* A run only sets out to run requested cases that the loaded ledger does
\* not call done (checkpoint.py:66-83).
LEMMA CasesToRunFresh ==
  ASSUME NEW requested \in SUBSET Case, NEW retryFailed \in BOOLEAN, NEW limit \in Limits
  PROVE  /\ CasesToRun(requested, retryFailed, limit) \in SUBSET Case
         /\ CasesToRun(requested, retryFailed, limit) \cap Durable.done = {}
BY DEF CasesToRun, FirstN, FilterCases, Durable

\* What a run loads is a ledger whatever the checkpoint file holds.
LEMMA DurableType ==
  ASSUME TypeOK
  PROVE  Durable \in Ledger
BY DEF TypeOK, Durable, Load, LedgerFile, Ledger, Empty

\* The two updates of the ledger keep its type.
LEMMA LedgerUpdate ==
  ASSUME NEW l \in Ledger, NEW c \in Case
  PROVE  /\ WithDone(l, c) \in Ledger
         /\ WithFailed(l, c) \in Ledger
         /\ WithFailed(l, c) = [done |-> l.done, failed |-> l.failed \cup {c}]
BY DEF Ledger, WithDone, WithFailed

\* An append yields a JSONL file.
LEMMA AppendedType ==
  ASSUME NEW f \in JsonlFile, NEW c \in Case
  PROVE  Appended(f, c) \in JsonlFile
<1> DEFINE more == [f.copies EXCEPT ![c] = @ + 1]
<1>1. f.copies \in [Case -> Nat] /\ f.glued \in Nat /\ f.torn \in BOOLEAN
  BY DEF JsonlFile
<1>2. more \in [Case -> Nat]
  BY <1>1
<1>3. CASE f.torn
  <2>1. Appended(f, c) = [copies |-> f.copies, glued |-> f.glued + 1, torn |-> FALSE]
    BY <1>3 DEF Appended, JsonlFile
  <2> QED
    BY <2>1, <1>1 DEF JsonlFile
<1>4. CASE ~ f.torn
  <2>1. Appended(f, c) = [f EXCEPT !.copies = more]
    BY <1>4 DEF Appended
  <2> HIDE DEF more
  <2>2. [f EXCEPT !.copies = more] = [copies |-> more, glued |-> f.glued, torn |-> f.torn]
    BY DEF JsonlFile
  <2> QED
    BY <2>1, <2>2, <1>1, <1>2 DEF JsonlFile
<1> QED
  BY <1>3, <1>4

-----------------------------------------------------------------------------
\* Type correctness of the initial state and of every step.
LEMMA TypeInit == Init => TypeOK
BY ConstantsOK DEF Init, TypeOK, Ledger, Empty, Summary, NoSummary, JsonlFile,
   EmptyFile, LedgerFile, Absent

LEMMA TypeNext ==
  ASSUME TypeOK, [Next]_vars
  PROVE  TypeOK'
<1> USE DEF TypeOK, Case
<1>1. ASSUME NEW requested \in SUBSET Case, NEW retryFailed \in BOOLEAN,
             NEW limit \in Limits, Launch(requested, retryFailed, limit)
      PROVE  TypeOK'
  <2>1. todo' \in SUBSET Case
    BY <1>1, CasesToRunFresh DEF Launch
  <2>2. summary' \in Summary
    BY <1>1, <2>1, CasesFinite DEF Launch, Summary, NoSummary
  <2>3. state' \in Ledger
    BY <1>1, DurableType DEF Launch, Durable
  <2> QED
    BY <1>1, <2>1, <2>2, <2>3 DEF Launch, disk, env
<1>2. CASE RunCase
  BY <1>2 DEF RunCase, disk, env
<1>3. CASE AppendRecord
  <2>1. records' \in JsonlFile
    BY <1>3, AppendedType DEF AppendRecord
  <2> QED
    BY <1>3, <2>1 DEF AppendRecord, env
<1>4. CASE AppendError
  BY <1>4 DEF AppendError, ErrorAppended, env
<1>5. CASE MarkDone
  BY <1>5, LedgerUpdate DEF MarkDone, Summary, LedgerFile, Damaged, Empty, Ledger, env
<1>6. CASE MarkFailed
  BY <1>6, LedgerUpdate DEF MarkFailed, Summary, LedgerFile, Damaged, Empty, Ledger, env
<1>7. CASE FillTmp
  BY <1>7 DEF FillTmp, LedgerFile, Whole, env
<1>8. CASE ReplaceCheckpoint
  BY <1>8 DEF ReplaceCheckpoint, LedgerFile, Absent, Empty, Ledger, env
<1>9. CASE Finish
  BY <1>9 DEF Finish, Gone, Empty, Ledger, NoSummary, Summary, env
<1>10. CASE Crash
  BY <1>10, ConstantsOK DEF Crash, Die, Gone, Empty, Ledger, NoSummary, Summary
<1>11. CASE CrashInAppend
  <2>1. records' \in JsonlFile /\ errors' \in [logged : SUBSET Case, torn : BOOLEAN]
    BY <1>11 DEF CrashInAppend, JsonlFile
  <2> QED
    BY <1>11, <2>1, ConstantsOK
    DEF CrashInAppend, Die, Gone, Empty, Ledger, NoSummary, Summary
<1>12. CASE Corrupt
  BY <1>12, ConstantsOK DEF Corrupt, LedgerFile, Damaged, Empty, Ledger, proc
<1>13. CASE UNCHANGED vars
  BY <1>13 DEF vars, proc, disk, env
<1> QED
  BY <1>1, <1>2, <1>3, <1>4, <1>5, <1>6, <1>7, <1>8, <1>9, <1>10, <1>11, <1>12, <1>13
  DEF Next, Start, Work

\* The variables keep their types in every behaviour.
THEOREM TypeCorrect == Spec => []TypeOK
<1>1. Init => TypeOK
  BY TypeInit
<1>2. TypeOK /\ [Next]_vars => TypeOK'
  BY TypeNext
<1> QED
  BY <1>1, <1>2, PTL DEF Spec
-----------------------------------------------------------------------------
\* What a complete append does to the published cases: the case is added,
\* unless the file was torn (writer.py:48-51).
LEMMA AppendPublishes ==
  ASSUME TypeOK, AppendRecord
  PROVE  /\ ~ records'.torn
         /\ Published' = IF records.torn THEN Published ELSE Published \cup {cur}
<1> USE DEF TypeOK
<1>1. cur \in Case /\ records \in JsonlFile /\ records' = Appended(records, cur)
  BY DEF AppendRecord
<1> DEFINE more == [records.copies EXCEPT ![cur] = @ + 1]
<1>2. CASE records.torn
  <2>1. records' = [copies |-> records.copies, glued |-> records.glued + 1, torn |-> FALSE]
    BY <1>1, <1>2 DEF Appended, JsonlFile
  <2> QED
    BY <2>1, <1>2 DEF Published
<1>3. CASE ~ records.torn
  <2>1. records' = [records EXCEPT !.copies = more]
    BY <1>1, <1>3 DEF Appended
  <2>2. /\ \A c \in Case : more[c] = IF c = cur THEN records.copies[c] + 1
                                                ELSE records.copies[c]
        /\ \A c \in Case : records.copies[c] \in Nat
    BY <1>1 DEF JsonlFile
  <2> HIDE DEF more
  <2>3. records'.copies = more /\ records'.torn = records.torn
    BY <2>1, <1>1 DEF JsonlFile
  <2>4. \A c \in Case : more[c] > 0 <=> (records.copies[c] > 0 \/ c = cur)
    BY <2>2
  <2> QED
    BY <2>3, <2>4, <1>1, <1>3 DEF Published
<1> QED
  BY <1>2, <1>3

\* Steps that leave the files alone leave the ledger and the published cases
\* alone.
LEMMA Frame ==
  /\ cp' = cp => Durable' = Durable
  /\ records' = records => Published' = Published
BY DEF Durable, Published

-----------------------------------------------------------------------------
\* The three parts of the invariant hold initially.
LEMMA InvInit == Init => IInv
<1> SUFFICES ASSUME Init PROVE IInv
  OBVIOUS
<1>1. TypeOK
  BY TypeInit
<1>2. Durable = Empty
  BY DEF Init, Durable, Load, Absent
<1>3. InSync
  BY DEF Init, InSync
<1>4. Fresh
  BY <1>2 DEF Init, Fresh, NeverDoneAndFailed, Empty, Case
<1>5. Backed
  BY <1>2 DEF Init, Backed, Empty, EmptyFile
<1> QED
  BY <1>1, <1>3, <1>4, <1>5 DEF IInv

\* A launch loads the ledger and runs nothing it calls done.
LEMMA LaunchInv ==
  ASSUME IInv, TypeOK', NEW requested \in SUBSET Case, NEW retryFailed \in BOOLEAN,
         NEW limit \in Limits, Launch(requested, retryFailed, limit)
  PROVE  IInv'
<1>1. /\ pc' = "pick" /\ state' = Durable /\ cur' = cur
      /\ Durable' = Durable /\ Published' = Published
      /\ UNCHANGED <<records, errors, tears>>
  BY Frame DEF Launch, Durable, disk, env
<1>2. todo' \cap Durable.done = {} /\ todo' \in SUBSET Case
  BY CasesToRunFresh DEF Launch
<1>3. cur' \notin todo'
  BY <1>2 DEF IInv, Fresh, Launch, Case
<1>4. InSync'
  BY <1>1 DEF InSync
<1>5. Fresh'
  BY <1>1, <1>2, <1>3 DEF IInv, Fresh, NeverDoneAndFailed
<1>6. Backed'
  BY <1>1 DEF IInv, Backed
<1> QED
  BY <1>4, <1>5, <1>6 DEF IInv
\* The case picked was not done, and leaves the cases to run.
LEMMA RunCaseInv ==
  ASSUME IInv, TypeOK', RunCase
  PROVE  IInv'
<1>1. /\ pc = "pick" /\ pc' \in {"append", "appendError"}
      /\ cur' \in todo /\ todo' = todo \ {cur'}
      /\ Durable' = Durable /\ Published' = Published
      /\ UNCHANGED <<state, records, errors, tears>>
  BY Frame DEF RunCase, disk, env
<1>2. state = Durable
  BY <1>1 DEF IInv, InSync
<1>3. InSync'
  BY <1>1, <1>2 DEF InSync
<1>4. Fresh'
  BY <1>1, <1>2 DEF IInv, Fresh, NeverDoneAndFailed
<1>5. Backed'
  BY <1>1 DEF IInv, Backed
<1> QED
  BY <1>3, <1>4, <1>5 DEF IInv

\* The line is published before the ledger hears of it.
LEMMA AppendRecordInv ==
  ASSUME IInv, TypeOK', AppendRecord
  PROVE  IInv'
<1>1. /\ pc = "append" /\ pc' = "mark"
      /\ Durable' = Durable
      /\ UNCHANGED <<state, todo, cur, errors, tears>>
  BY Frame DEF AppendRecord, env
<1>2. /\ ~ records'.torn
      /\ Published \subseteq Published'
      /\ ~ records.torn => cur \in Published'
  BY AppendPublishes DEF IInv
<1>3. InSync'
  BY <1>1 DEF IInv, InSync
<1>4. Fresh'
  BY <1>1 DEF IInv, Fresh, NeverDoneAndFailed
<1>5. Backed'
  BY <1>1, <1>2 DEF IInv, Backed
<1> QED
  BY <1>3, <1>4, <1>5 DEF IInv

LEMMA AppendErrorInv ==
  ASSUME IInv, TypeOK', AppendError
  PROVE  IInv'
<1>1. /\ pc = "appendError" /\ pc' = "markFailed"
      /\ Durable' = Durable /\ Published' = Published
      /\ UNCHANGED <<state, todo, cur, records, tears>>
  BY Frame DEF AppendError, env
<1>2. errors' = ErrorAppended(errors, cur)
  BY DEF AppendError
<1>3. /\ ~ errors'.torn
      /\ errors.logged \subseteq errors'.logged
      /\ ~ errors.torn => cur \in errors'.logged
  BY <1>2 DEF IInv, TypeOK, ErrorAppended
<1>4. InSync'
  BY <1>1 DEF IInv, InSync
<1>5. Fresh'
  BY <1>1 DEF IInv, Fresh, NeverDoneAndFailed
<1>6. Backed'
  BY <1>1, <1>3 DEF IInv, Backed
<1> QED
  BY <1>4, <1>5, <1>6 DEF IInv

\* The ledger in memory runs ahead of the file by the current case.
LEMMA MarkDoneInv ==
  ASSUME IInv, TypeOK', MarkDone
  PROVE  IInv'
<1>1. /\ pc = "mark" /\ pc' = "fill" /\ state' = WithDone(state, cur)
      /\ Durable' = Durable /\ Published' = Published
      /\ UNCHANGED <<todo, cur, records, errors, tears>>
  BY Frame DEF MarkDone, env
<1>2. state = Durable
  BY <1>1 DEF IInv, InSync
<1>3. InSync'
  BY <1>1, <1>2 DEF InSync
<1>4. Fresh'
  BY <1>1 DEF IInv, Fresh, NeverDoneAndFailed, WithDone
<1>5. Backed'
  BY <1>1 DEF IInv, Backed, WithDone
<1> QED
  BY <1>3, <1>4, <1>5 DEF IInv

LEMMA MarkFailedInv ==
  ASSUME IInv, TypeOK', MarkFailed
  PROVE  IInv'
<1>1. /\ pc = "markFailed" /\ pc' = "fill" /\ state' = WithFailed(state, cur)
      /\ Durable' = Durable /\ Published' = Published
      /\ UNCHANGED <<todo, cur, records, errors, tears>>
  BY Frame DEF MarkFailed, env
<1>2. state = Durable
  BY <1>1 DEF IInv, InSync
<1>3. state'.done = state.done /\ state'.failed = state.failed \cup {cur}
  BY <1>1, LedgerUpdate DEF IInv, TypeOK
<1>4. InSync'
  BY <1>1, <1>2 DEF InSync
<1>5. Fresh'
  BY <1>1, <1>3 DEF IInv, Fresh, NeverDoneAndFailed
<1>6. Backed'
  BY <1>1, <1>3 DEF IInv, Backed
<1> QED
  BY <1>4, <1>5, <1>6 DEF IInv
LEMMA FillTmpInv ==
  ASSUME IInv, TypeOK', FillTmp
  PROVE  IInv'
<1>1. /\ pc = "fill" /\ pc' = "replace" /\ tmp' = Whole(state)
      /\ Durable' = Durable /\ Published' = Published
      /\ UNCHANGED <<state, todo, cur, records, errors, tears>>
  BY Frame DEF FillTmp, env
<1>2. InSync'
  BY <1>1 DEF IInv, InSync, Whole
<1>3. Fresh'
  BY <1>1 DEF IInv, Fresh, NeverDoneAndFailed
<1>4. Backed'
  BY <1>1 DEF IInv, Backed
<1> QED
  BY <1>2, <1>3, <1>4 DEF IInv

\* The rename makes the ledger on disk the one in memory.
LEMMA ReplaceInv ==
  ASSUME IInv, TypeOK', ReplaceCheckpoint
  PROVE  /\ IInv'
         /\ Durable' = state
<1>1. /\ pc = "replace" /\ pc' = "pick" /\ cp' = tmp
      /\ Published' = Published
      /\ UNCHANGED <<state, todo, cur, records, errors, tears>>
  BY Frame DEF ReplaceCheckpoint, env
<1>2. Durable' = state
  BY <1>1 DEF IInv, InSync, Durable, Load, Whole
<1>3. InSync'
  BY <1>1, <1>2 DEF InSync
<1>4. Fresh'
  <2>1. Durable \in Ledger /\ cur \in Case
    BY <1>1, DurableType DEF IInv, TypeOK
  <2>2. state.done \cap state.failed = {}
    <3>1. CASE state = WithDone(Durable, cur)
      BY <3>1 DEF IInv, Fresh, NeverDoneAndFailed, WithDone
    <3>2. CASE state = WithFailed(Durable, cur)
      <4>1. state.done = Durable.done /\ state.failed = Durable.failed \cup {cur}
        BY <3>2, <2>1, LedgerUpdate
      <4>2. cur \notin Durable.done
        BY <1>1 DEF IInv, Fresh
      <4> QED
        BY <4>1, <4>2 DEF IInv, Fresh, NeverDoneAndFailed
    <3> QED
      BY <3>1, <3>2, <1>1 DEF IInv, InSync
  <2> QED
    BY <1>1, <1>2, <2>2 DEF IInv, Fresh, NeverDoneAndFailed
<1>5. Backed'
  BY <1>1, <1>2 DEF IInv, Backed
<1> QED
  BY <1>2, <1>3, <1>4, <1>5 DEF IInv

\* When a run ends or dies its ledger is gone, and what is on disk stands;
\* a torn append counts as one of the tears.
LEMMA GoneInv ==
  ASSUME IInv, TypeOK', Gone, cp' = cp,
         \/ UNCHANGED <<records, errors, tears>>
         \/ tears' = tears + 1
  PROVE  IInv'
<1>1. /\ pc' = "idle" /\ state' = Empty /\ todo' = {} /\ cur' = 0
      /\ Durable' = Durable
  BY Frame DEF Gone
<1>2. InSync'
  BY <1>1 DEF InSync
<1>3. Fresh'
  BY <1>1 DEF IInv, Fresh, NeverDoneAndFailed
<1>4. Backed'
  <2>1. CASE UNCHANGED <<records, errors, tears>>
    BY <1>1, <2>1, Frame DEF IInv, Backed, Empty
  <2>2. CASE tears' = tears + 1
    BY <2>2 DEF IInv, TypeOK, Backed
  <2> QED
    BY <2>1, <2>2
<1> QED
  BY <1>2, <1>3, <1>4 DEF IInv

\* A damaged checkpoint is an empty ledger.
LEMMA CorruptInv ==
  ASSUME IInv, TypeOK', Corrupt
  PROVE  IInv'
<1>1. /\ pc = "idle" /\ Durable' = Empty /\ Published' = Published
      /\ UNCHANGED <<pc, state, todo, cur, records, errors, tears>>
  BY Frame DEF Corrupt, proc, Durable, Load, Damaged
<1>2. InSync'
  BY <1>1 DEF InSync
<1>3. Fresh'
  BY <1>1 DEF IInv, Fresh, NeverDoneAndFailed, Empty
<1>4. Backed'
  BY <1>1 DEF IInv, Backed, Empty
<1> QED
  BY <1>2, <1>3, <1>4 DEF IInv

-----------------------------------------------------------------------------
\* Every step preserves the invariant.
LEMMA InvNext ==
  ASSUME IInv, [Next]_vars
  PROVE  IInv'
<1>0. TypeOK'
  BY TypeNext DEF IInv
<1>1. ASSUME NEW requested \in SUBSET Case, NEW retryFailed \in BOOLEAN,
             NEW limit \in Limits, Launch(requested, retryFailed, limit)
      PROVE  IInv'
  BY <1>0, <1>1, LaunchInv
<1>2. CASE Finish
  BY <1>0, <1>2, GoneInv DEF Finish, env
<1>3. CASE Crash
  BY <1>0, <1>3, GoneInv DEF Crash, Die
<1>4. CASE CrashInAppend
  BY <1>0, <1>4, GoneInv DEF CrashInAppend, Die
<1>5. CASE UNCHANGED vars
  <2>1. /\ Durable' = Durable /\ Published' = Published
        /\ UNCHANGED <<pc, state, todo, cur, records, errors, tmp, tears>>
    BY <1>5, Frame DEF vars, proc, disk, env
  <2>2. InSync'
    BY <2>1 DEF IInv, InSync
  <2>3. Fresh'
    BY <2>1 DEF IInv, Fresh, NeverDoneAndFailed
  <2>4. Backed'
    BY <2>1 DEF IInv, Backed
  <2> QED
    BY <1>0, <2>2, <2>3, <2>4 DEF IInv
<1> QED
  BY <1>0, <1>1, <1>2, <1>3, <1>4, <1>5, RunCaseInv, AppendRecordInv, AppendErrorInv,
     MarkDoneInv, MarkFailedInv, FillTmpInv, ReplaceInv, CorruptInv
  DEF Next, Start, Work

\* The inductive invariant holds in every behaviour.
THEOREM InvCorrect == Spec => []IInv
<1>1. Init => IInv
  BY InvInit
<1>2. IInv /\ [Next]_vars => IInv'
  BY InvNext
<1> QED
  BY <1>1, <1>2, PTL DEF Spec

\* Whatever crashes and corruptions happen, a case the checkpoint calls done
\* has a readable record, and one it calls failed a logged error, as long as
\* no append was torn ...
THEOREM LedgerBackedAlways == Spec => []LedgerBacked
<1>1. IInv => LedgerBacked
  BY DEF IInv, Backed, LedgerBacked
<1> QED
  BY <1>1, InvCorrect, PTL

\* ... and, torn lines or not, no case is both done and failed ...
THEOREM NeverDoneAndFailedAlways == Spec => []NeverDoneAndFailed
<1>1. IInv => NeverDoneAndFailed
  BY DEF IInv, Fresh
<1> QED
  BY <1>1, InvCorrect, PTL

\* ... no case the checkpoint calls done is measured again ...
THEOREM NeverRemeasuredAlways == Spec => []NeverRemeasured
<1>1. IInv => NeverRemeasured
  BY DEF IInv, Fresh, NeverRemeasured
<1> QED
  BY <1>1, InvCorrect, PTL
-----------------------------------------------------------------------------
\* No step but outside damage takes a done mark off the disk: not a crash,
\* not a save, not a launch (checkpoint.py:37-50).
THEOREM DoneKeptAlways == Spec => DoneKept
<1>1. ASSUME IInv, IInv', [Next]_vars, corruptions' = corruptions
      PROVE  Durable.done \subseteq Load(cp').done
  <2>1. CASE ReplaceCheckpoint
    <3>1. Load(cp') = state
      BY <2>1, <1>1, ReplaceInv DEF Durable, IInv
    <3>2. state \in {WithDone(Durable, cur), WithFailed(Durable, cur)}
      BY <2>1, <1>1 DEF ReplaceCheckpoint, IInv, InSync
    <3>3. Durable \in Ledger /\ cur \in Case
      BY <2>1, <1>1, DurableType DEF ReplaceCheckpoint, IInv, TypeOK
    <3>4. Durable.done \subseteq state.done
      <4>1. CASE state = WithDone(Durable, cur)
        BY <4>1 DEF WithDone
      <4>2. CASE state = WithFailed(Durable, cur)
        BY <4>2, <3>3, LedgerUpdate
      <4> QED
        BY <3>2, <4>1, <4>2
    <3> QED
      BY <3>1, <3>4
  <2>2. CASE Corrupt
    BY <1>1, <2>2 DEF Corrupt, IInv, TypeOK
  <2>3. CASE cp' = cp
    BY <2>3 DEF Durable
  <2> QED
    BY <1>1, <2>1, <2>2, <2>3
    DEF Next, Start, Work, Launch, RunCase, AppendRecord, AppendError, MarkDone,
        MarkFailed, FillTmp, Finish, Crash, CrashInAppend, Die, vars, disk
<1>2. IInv /\ IInv' /\ [Next]_vars
        => [corruptions' = corruptions => Durable.done \subseteq Load(cp').done]_vars
  BY <1>1
<1> QED
  BY <1>2, InvCorrect, PTL DEF Spec, DoneKept

-----------------------------------------------------------------------------
\* Initial states of the collector are initial states of the campaign.
LEMMA CampaignInit == Init => Campaign!Init
<1> SUFFICES ASSUME Init PROVE Campaign!Init
  OBVIOUS
<1>1. Durable = Empty
  BY DEF Init, Durable, Load, Absent
<1> QED
  BY <1>1 DEF Init, Campaign!Init, Empty, Published, EmptyFile, JsonlFile

\* Every step of the collector is a step of the campaign or none: appends
\* publish, the rename accounts, damage loses the ledger.
LEMMA CampaignStep ==
  ASSUME IInv, IInv', [Next]_vars, tears' = 0
  PROVE  [Campaign!Next]_(Campaign!vars)
<1>0. tears = 0 /\ ~ CrashInAppend
  <2>1. tears \in Nat /\ tears + 1 # 0
    BY DEF IInv, TypeOK
  <2>2. ~ CrashInAppend
    BY <2>1 DEF CrashInAppend
  <2>3. CASE Start
    BY <2>2, <2>3 DEF Start, Launch, env
  <2>4. CASE Work
    BY <2>2, <2>4 DEF Work, RunCase, AppendRecord, AppendError, MarkDone, MarkFailed, FillTmp,
                ReplaceCheckpoint, Finish, env
  <2>5. CASE Crash \/ Corrupt
    BY <2>2, <2>5 DEF Crash, Corrupt
  <2>6. CASE UNCHANGED vars
    BY <2>2, <2>6 DEF vars, env
  <2> QED
    BY <2>2, <2>3, <2>4, <2>5, <2>6 DEF Next
<1> DEFINE Stutter == /\ Durable' = Durable
                      /\ Published' = Published
                      /\ errors'.logged = errors.logged
<1>1. Stutter => UNCHANGED Campaign!vars
  BY DEF Campaign!vars
<1>2. CASE AppendRecord
  <2>1. Published' = Published \cup {cur} /\ cur \in Case
    BY <1>0, <1>2, AppendPublishes DEF IInv, Backed, AppendRecord, TypeOK
  <2>2. Durable' = Durable /\ errors' = errors
    BY <1>2, Frame DEF AppendRecord
  <2>3. Campaign!Publish(cur)
    BY <2>1, <2>2 DEF Campaign!Publish
  <2> QED
    BY <2>1, <2>3 DEF Campaign!Next
<1>3. CASE AppendError
  <2>1. errors'.logged = errors.logged \cup {cur} /\ cur \in Case
    BY <1>0, <1>3 DEF IInv, Backed, AppendError, ErrorAppended, TypeOK
  <2>2. Durable' = Durable /\ Published' = Published
    BY <1>3, Frame DEF AppendError
  <2>3. Campaign!LogError(cur)
    BY <2>1, <2>2 DEF Campaign!LogError
  <2> QED
    BY <2>1, <2>3 DEF Campaign!Next
<1>4. CASE ReplaceCheckpoint
  <2>1. Durable' = state /\ Published' = Published /\ errors' = errors
    BY <1>4, ReplaceInv, Frame DEF IInv, ReplaceCheckpoint
  <2>2. /\ Durable \in Ledger /\ cur \in Case /\ cur \notin Durable.done
        /\ state.done \subseteq Published /\ state.failed \subseteq errors.logged
    BY <1>0, <1>4, DurableType DEF ReplaceCheckpoint, IInv, TypeOK, Fresh, Backed
  <2>3. CASE state = WithDone(Durable, cur)
    <3>1. Campaign!Complete(cur)
      BY <2>1, <2>2, <2>3 DEF Campaign!Complete, WithDone
    <3> QED
      BY <3>1, <2>2 DEF Campaign!Next
  <2>4. CASE state = WithFailed(Durable, cur)
    <3>1. state.done = Durable.done /\ state.failed = Durable.failed \cup {cur}
      BY <2>2, <2>4, LedgerUpdate
    <3>2. Campaign!GiveUp(cur)
      BY <2>1, <2>2, <3>1 DEF Campaign!GiveUp
    <3> QED
      BY <3>2, <2>2 DEF Campaign!Next
  <2> QED
    BY <1>4, <2>3, <2>4 DEF ReplaceCheckpoint, IInv, InSync
<1>5. CASE Corrupt
  <2>1. Durable' = Empty /\ Published' = Published /\ errors' = errors
    BY <1>5, Frame DEF Corrupt, Durable, Load, Damaged
  <2> QED
    BY <2>1 DEF Campaign!Next, Campaign!LoseLedger, Empty
<1>6. CASE CrashInAppend
  BY <1>0, <1>6 DEF CrashInAppend
<1>7. CASE cp' = cp /\ records' = records /\ errors' = errors
  BY <1>1, <1>7, Frame
<1> QED
  BY <1>2, <1>3, <1>4, <1>5, <1>6, <1>7
  DEF Next, Start, Work, Launch, RunCase, MarkDone, MarkFailed, FillTmp, Finish,
      Crash, Die, vars, disk

\* The collector implements the abstract campaign, for any number of crashes
\* and corruptions, until an append is torn.
THEOREM CampaignRefined == Spec => CampaignUntilTorn
<1>1. Init => Campaign!Init
  BY CampaignInit
<1>2. IInv /\ IInv' /\ [Next]_vars => [tears' = 0 => Campaign!Next]_(Campaign!vars)
  BY CampaignStep
<1> QED
  BY <1>1, <1>2, InvCorrect, PTL DEF Spec, CampaignUntilTorn

-----------------------------------------------------------------------------
(* The price of torn lines.                                                *)

\* A step that claims nothing new and tears a line if it leaves one torn.
LEMMA LossKept ==
  ASSUME TypeOK, TypeOK', LossCounted, Lost' \subseteq Lost,
         \/ records'.torn = records.torn /\ tears' = tears
         \/ tears' = tears + 1
  PROVE  LossCounted'
<1>1. Lost \in SUBSET Case
  BY DEF Lost, Claimed, TypeOK, Durable, Load, LedgerFile, Ledger, Empty
<1>2. /\ IsFiniteSet(Lost) /\ Cardinality(Lost) \in Nat
      /\ Cardinality(Lost') \in Nat /\ Cardinality(Lost') <= Cardinality(Lost)
  BY <1>1, CasesFinite, FS_Subset
<1>3. tears \in Nat /\ tears' \in Nat
  BY ConstantsOK DEF TypeOK
<1> QED
  BY <1>2, <1>3 DEF LossCounted

\* An append that is glued to a fragment loses its case and heals the file.
LEMMA AppendLoses ==
  ASSUME IInv, TypeOK', LossCounted, AppendRecord
  PROVE  LossCounted'
<1>1. /\ Durable' = Durable /\ state' = state /\ tears' = tears /\ cur' = cur
      /\ pc = "append" /\ pc' = "mark" /\ cur \in Case
  BY Frame DEF AppendRecord, env, IInv, TypeOK
<1>2. /\ ~ records'.torn
      /\ Published' = IF records.torn THEN Published ELSE Published \cup {cur}
  BY AppendPublishes DEF IInv
<1>3. CASE ~ records.torn
  <2>1. Lost' \subseteq Lost
    BY <1>1, <1>2, <1>3 DEF Lost, Claimed
  <2> QED
    BY <2>1, <1>1, <1>2, <1>3, LossKept DEF IInv, TypeOK, JsonlFile
<1>4. CASE records.torn
  <2>1. Lost \in SUBSET Case /\ Lost' = Lost \cup ({cur} \ Published)
    BY <1>1, <1>2, <1>4 DEF Lost, Claimed, IInv, TypeOK, Durable, Load, LedgerFile, Ledger, Empty
  <2>2. Cardinality(Lost) \in Nat /\ Cardinality(Lost \cup {cur}) <= Cardinality(Lost) + 1
    <3>1. IsFiniteSet(Lost) /\ Cardinality(Lost) \in Nat
      BY <2>1, CasesFinite
    <3>2. Cardinality(Lost \cup {cur}) \in {Cardinality(Lost), Cardinality(Lost) + 1}
      BY <3>1, FS_AddElement
    <3> QED
      BY <3>1, <3>2
  <2>3. Lost' \in SUBSET (Lost \cup {cur}) /\ Lost \cup {cur} \in SUBSET Case
    BY <2>1, <1>1
  <2>4. Cardinality(Lost') \in Nat /\ Cardinality(Lost') <= Cardinality(Lost \cup {cur})
    BY <2>3, CasesFinite, FS_Subset
  <2>5. Cardinality(Lost \cup {cur}) \in Nat /\ tears \in Nat
    BY <2>3, CasesFinite, ConstantsOK DEF IInv, TypeOK
  <2> QED
    BY <2>2, <2>4, <2>5, <1>1, <1>2, <1>4 DEF LossCounted
<1> QED
  BY <1>3, <1>4

LEMMA LossNext ==
  ASSUME IInv, LossCounted, [Next]_vars
  PROVE  LossCounted'
<1>1. TypeOK /\ TypeOK'
  BY TypeNext DEF IInv
<1>2. CASE AppendRecord
  BY <1>1, <1>2, AppendLoses
<1>3. CASE Start \/ RunCase \/ MarkFailed \/ FillTmp \/ AppendError \/ UNCHANGED vars
  <2>1. Durable' = Durable /\ Published' = Published
        /\ UNCHANGED <<records, tears>>
    BY <1>3, Frame DEF Start, Launch, RunCase, MarkFailed, FillTmp, AppendError, vars, disk, env
  <2>2. state'.done \subseteq Durable.done \cup state.done
    <3>1. CASE MarkFailed
      <4>1. state' = WithFailed(state, cur) /\ state \in Ledger /\ cur \in Case
        BY <1>1, <3>1 DEF MarkFailed, TypeOK
      <4>2. state'.done = state.done
        BY <4>1, LedgerUpdate
      <4> QED
        BY <4>2
    <3>2. CASE ~ MarkFailed
      BY <1>3, <3>2 DEF Start, Launch, Durable, RunCase, FillTmp, AppendError, vars, proc
    <3> QED
      BY <3>1, <3>2
  <2>3. pc' = "mark" => pc = "mark" /\ cur' = cur
    BY <1>3 DEF Start, Launch, RunCase, MarkFailed, FillTmp, AppendError, vars, proc
  <2>4. Lost' \subseteq Lost
    BY <2>1, <2>2, <2>3 DEF Lost, Claimed
  <2> QED
    BY <2>1, <2>4, <1>1, LossKept
<1>4. CASE MarkDone
  <2>1. /\ Durable' = Durable /\ Published' = Published /\ UNCHANGED <<records, tears>>
        /\ pc = "mark" /\ pc' = "fill" /\ state'.done = state.done \cup {cur}
    BY <1>4, Frame DEF MarkDone, env, WithDone
  <2>2. Lost' \subseteq Lost
    BY <2>1 DEF Lost, Claimed
  <2> QED
    BY <2>1, <2>2, <1>1, LossKept
<1>5. CASE ReplaceCheckpoint
  <2>1. /\ Durable' = state /\ Published' = Published /\ UNCHANGED <<state, records, tears>>
        /\ pc' = "pick"
    BY <1>1, <1>5, ReplaceInv, Frame DEF ReplaceCheckpoint, env
  <2>2. Lost' \subseteq Lost
    BY <2>1 DEF Lost, Claimed
  <2> QED
    BY <2>1, <2>2, <1>1, LossKept
<1>6. CASE Finish \/ Crash \/ CrashInAppend
  <2>1. /\ Durable' = Durable /\ state'.done = {} /\ pc' = "idle"
        /\ \/ UNCHANGED <<records, tears>>
           \/ tears' = tears + 1
    BY <1>6, Frame DEF Finish, Crash, CrashInAppend, Die, Gone, Empty, env
  <2>2. Published' = Published
    <3>1. records'.copies = records.copies
      BY <1>1, <1>6 DEF Finish, Crash, CrashInAppend, Die, TypeOK, JsonlFile
    <3> QED
      BY <3>1 DEF Published
  <2>3. Lost' \subseteq Lost
    BY <2>1, <2>2 DEF Lost, Claimed
  <2> QED
    BY <2>1, <2>3, <1>1, LossKept
<1>7. CASE Corrupt
  <2>1. /\ Durable' = Empty /\ Published' = Published
        /\ UNCHANGED <<pc, state, cur, records, tears>>
    BY <1>7, Frame DEF Corrupt, proc, Durable, Load, Damaged
  <2>2. Lost' \subseteq Lost
    BY <2>1 DEF Lost, Claimed, Empty
  <2> QED
    BY <2>1, <2>2, <1>1, LossKept
<1> QED
  BY <1>2, <1>3, <1>4, <1>5, <1>6, <1>7 DEF Next, Work

\* However often a line is torn, the records that done cases have lost are no
\* more than the tears (writer.py:25-51).
THEOREM LossBoundedByTearsAlways == Spec => []LossBoundedByTears
<1>1. Init => LossCounted
  <2> SUFFICES ASSUME Init PROVE LossCounted
    OBVIOUS
  <2>1. Lost = {} /\ ~ records.torn /\ tears = 0
    BY DEF Init, Lost, Claimed, Durable, Load, Absent, Empty, EmptyFile
  <2> QED
    BY <2>1, FS_EmptySet DEF LossCounted
<1>2. IInv /\ LossCounted /\ [Next]_vars => LossCounted'
  BY LossNext
<1>3. IInv /\ LossCounted => LossBoundedByTears
  <2> SUFFICES ASSUME IInv, LossCounted PROVE LossBoundedByTears
    OBVIOUS
  <2>1. Lost \in SUBSET Case /\ Durable.done \ Published \in SUBSET Lost
    BY DEF Lost, Claimed, IInv, TypeOK, Durable, Load, LedgerFile, Ledger, Empty
  <2>2. /\ Cardinality(Lost) \in Nat /\ Cardinality(Durable.done \ Published) \in Nat
        /\ Cardinality(Durable.done \ Published) <= Cardinality(Lost)
    BY <2>1, CasesFinite, FS_Subset
  <2>3. tears \in Nat
    BY ConstantsOK DEF IInv, TypeOK
  <2> QED
    BY <2>2, <2>3 DEF LossCounted, LossBoundedByTears
<1> QED
  BY <1>1, <1>2, <1>3, InvCorrect, PTL DEF Spec
=============================================================================

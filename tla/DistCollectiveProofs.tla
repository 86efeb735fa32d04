------------------------- MODULE DistCollectiveProofs -------------------------
(***************************************************************************)
(* What is proved of DistCollective, for every number of ranks, cases,     *)
(* lone errors, failing writes and crashes: type correctness, that the     *)
(* checkpoint never says more than the record and error files back, that   *)
(* ranks that meet only common errors stay together, and that rank 0       *)
(* accounts for every case.                                                *)
(***************************************************************************)
EXTENDS DistCollective, SumLemmas

-----------------------------------------------------------------------------
\* The sets of cases the collector counts are finite.
LEMMA CasesFinite ==
  ASSUME NEW S \in SUBSET Case
  PROVE  IsFiniteSet(S) /\ Cardinality(S) \in Nat
BY PartOfInterval, NumCasesOK DEF Case

\* Loading a well-formed checkpoint file gives a ledger (checkpoint.py:25-34).
LEMMA LoadType ==
  ASSUME NEW file \in LedgerFile
  PROVE  Load(file) \in Ledger
BY DEF Load, LedgerFile, Ledger, Empty

\* A saved ledger is the one the next run loads.
LEMMA SavedLoads ==
  ASSUME NEW l \in Ledger
  PROVE  Whole(l) \in LedgerFile /\ Load(Whole(l)) = l
BY DEF Whole, Load, LedgerFile

\* mark_done and mark_failed keep the ledger a ledger and change it by the
\* case they are given (checkpoint.py:53-63).
LEMMA Marked ==
  ASSUME NEW l \in Ledger, NEW c \in Case
  PROVE  /\ WithDone(l, c) \in Ledger /\ WithFailed(l, c) \in Ledger
         /\ WithDone(l, c).done = l.done \cup {c}
         /\ WithDone(l, c).failed \subseteq l.failed
         /\ WithFailed(l, c).done = l.done
         /\ WithFailed(l, c).failed = l.failed \cup {c}
BY DEF WithDone, WithFailed, Ledger

\* The list rank 0 broadcasts holds cases (run_collective.py:343-363).
LEMMA Broadcast ==
  ASSUME NEW l \in Ledger, NEW retryFailed \in BOOLEAN, NEW limit \in Limits
  PROVE  LET left == FilterCases(l, Case, retryFailed)
         IN  (IF limit = 0 THEN left ELSE FirstN(left, limit)) \in SUBSET Case
BY DEF FilterCases, FirstN

LEMMA InvInit == Init => IInv
BY DistOK DEF Init, IInv, TypeOK, Backed, LedgerBacked, Ledger, Empty, Summary, NoSummary,
   LedgerFile, Absent, Load, Places, Rank

-----------------------------------------------------------------------------
(* One lemma per action                                                    *)

LEMMA RootIsRank == Root \in Rank
BY DEF Rank

LEMMA LaunchInv ==
  ASSUME IInv, NEW retryFailed \in BOOLEAN, NEW limit \in Limits, Launch(retryFailed, limit)
  PROVE  IInv'
<1> DEFINE left  == FilterCases(Load(cp), Case, retryFailed)
           cases == IF limit = 0 THEN left ELSE FirstN(left, limit)
<1>1. Load(cp) \in Ledger
  BY LoadType DEF IInv, TypeOK
<1>2. cases \in SUBSET Case
  BY <1>1, Broadcast
<1>3. Cardinality(cases) \in Nat
  BY <1>2, CasesFinite
<1>4. /\ pc' = [r \in Rank |-> "loop"] /\ todo' = [r \in Rank |-> cases] /\ state' = Load(cp)
      /\ summary' = [NoSummary EXCEPT !.total = Cardinality(cases)]
      /\ UNCHANGED <<cur, files, env>>
  BY DEF Launch
<1> HIDE DEF cases
<1>5. TypeOK'
  BY <1>1, <1>2, <1>3, <1>4 DEF IInv, TypeOK, files, env, Places, Summary, NoSummary
<1>6. Backed'
  BY <1>1, <1>4, RootIsRank DEF IInv, Backed, LedgerBacked, files
<1> QED
  BY <1>5, <1>6 DEF IInv

LEMMA NextCaseInv ==
  ASSUME IInv, NEW r \in Rank, NextCase(r)
  PROVE  IInv'
<1>1. PICK c \in todo[r] : /\ cur' = [cur EXCEPT ![r] = c]
                           /\ todo' = [todo EXCEPT ![r] = @ \ {c}]
                           /\ pc' = [pc EXCEPT ![r] = IF outcome[c] = "early" THEN "except"
                                                                              ELSE "enter"]
  BY DEF NextCase
<1>2. c \in Case
  BY <1>1 DEF IInv, TypeOK
<1>3. pc[r] = "loop" /\ UNCHANGED <<state, summary, files, env>>
  BY DEF NextCase
<1>4. TypeOK'
  BY <1>1, <1>2, <1>3 DEF IInv, TypeOK, files, env, Places
<1>5. Backed'
  BY <1>1, <1>2, <1>3, RootIsRank DEF IInv, TypeOK, Backed, LedgerBacked, files
<1> QED
  BY <1>4, <1>5 DEF IInv

\* Steps that only move ranks from place to place.
LEMMA MoveInv ==
  ASSUME IInv, pc' \in [Rank -> Places],
         pc'[Root] \notin {"mark", "markFailed"},
         \A r \in Rank : pc[r] \in {"idle", "loop"} => pc'[r] = pc[r],
         UNCHANGED <<todo, cur, state, summary, files, outcome, writeFaults, crashes>>,
         alone' \in 0..MaxAlone
  PROVE  IInv'
<1>1. TypeOK'
  BY DEF IInv, TypeOK, files
<1>2. Backed'
  BY RootIsRank DEF IInv, Backed, LedgerBacked, files
<1> QED
  BY <1>1, <1>2 DEF IInv

LEMMA OtherMovesInv ==
  ASSUME IInv, NEW r \in Rank, Prepare(r) \/ RaiseAlone(r) \/ ExceptOther(r)
  PROVE  IInv'
<1>1. /\ pc[r] \in {"bench", "except"} /\ (pc[r] = "bench" \/ r # Root)
      /\ pc' \in [Rank -> Places]
      /\ pc'[r] \in {"except", "op", "rejoin"}
      /\ \A s \in Rank \ {r} : pc'[s] = pc[s]
  BY DEF Prepare, RaiseAlone, ExceptOther, AfterExcept, IInv, TypeOK, Places
<1>2. alone' \in 0..MaxAlone
  BY DistOK DEF Prepare, RaiseAlone, ExceptOther, IInv, TypeOK, env
<1>3. UNCHANGED <<todo, cur, state, summary, files, outcome, writeFaults, crashes>>
  BY DEF Prepare, RaiseAlone, ExceptOther, env
<1>4. TypeOK'
  BY <1>1, <1>2, <1>3 DEF IInv, TypeOK, files
<1>5. Backed'
  BY <1>1, <1>3, RootIsRank DEF IInv, Backed, LedgerBacked, files
<1> QED
  BY <1>4, <1>5 DEF IInv

LEMMA MeetInv ==
  ASSUME IInv, Meet
  PROVE  IInv'
<1>1. /\ pc' \in [Rank -> Places]
      /\ pc'[Root] \notin {"mark", "markFailed"}
      /\ \A r \in Rank : pc[r] \notin {"idle", "loop"}
  BY RootIsRank DEF Meet, Barriers, Places
<1>2. UNCHANGED <<todo, cur, state, summary, files, outcome, writeFaults, crashes>>
      /\ alone' \in 0..MaxAlone
  BY DEF Meet, env, IInv, TypeOK
<1> QED
  BY <1>1, <1>2, MoveInv

LEMMA AppendInv ==
  ASSUME IInv, AppendRecord \/ AppendError
  PROVE  IInv'
<1>1. cur[Root] \in Case
  BY RootIsRank DEF AppendRecord, AppendError, IInv, Backed
<1>2. TypeOK'
  BY <1>1, RootIsRank DEF AppendRecord, AppendError, RootTo, IInv, TypeOK, env, Places
<1>3. Backed'
  BY <1>1, RootIsRank DEF AppendRecord, AppendError, RootTo, IInv, TypeOK, Backed, LedgerBacked
<1> QED
  BY <1>2, <1>3 DEF IInv

LEMMA MarkInv ==
  ASSUME IInv, MarkDone \/ MarkFailed
  PROVE  IInv'
<1>1. cur[Root] \in Case /\ state \in Ledger
  BY RootIsRank DEF MarkDone, MarkFailed, IInv, TypeOK, Backed
<1>2. /\ state' \in Ledger /\ cp' = Whole(state')
      /\ state'.done \subseteq records /\ state'.failed \subseteq errors
  BY <1>1, Marked DEF MarkDone, MarkFailed, IInv, Backed
<1>3. cp' \in LedgerFile /\ Load(cp') = state'
  BY <1>2, SavedLoads
<1>4. /\ pc' \in [Rank -> Places] /\ pc'[Root] \in {"loop", "rejoin"}
      /\ \A r \in Rank \ {Root} : pc'[r] = pc[r]
      /\ pc[Root] \in {"mark", "markFailed"}
      /\ UNCHANGED <<todo, cur, records, errors, progress, env>>
      /\ summary' \in Summary
  BY RootIsRank DEF MarkDone, MarkFailed, RootTo, AfterExcept, IInv, TypeOK, Places, Summary
<1>5. TypeOK'
  BY <1>2, <1>3, <1>4 DEF IInv, TypeOK, env
<1>6. Backed'
  BY <1>1, <1>2, <1>3, <1>4 DEF IInv, Backed, LedgerBacked
<1> QED
  BY <1>5, <1>6 DEF IInv

LEMMA WriteFaultInv ==
  ASSUME IInv, WriteFault
  PROVE  IInv'
<1>1. /\ pc' \in [Rank -> Places] /\ pc'[Root] \in {"except", "dead"}
      /\ \A r \in Rank \ {Root} : pc'[r] = pc[r]
      /\ pc[Root] \notin {"idle", "loop"}
      /\ UNCHANGED <<todo, cur, summary, files, outcome, alone, crashes>>
      /\ writeFaults' \in 0..MaxWriteFaults
  BY RootIsRank, DistOK DEF WriteFault, RootTo, IInv, TypeOK, Places
<1>2. cur[Root] \in Case
  BY <1>1, RootIsRank DEF IInv, Backed
<1>3. state' \in Ledger /\ state'.done \subseteq records /\ state'.failed \subseteq errors
  BY <1>2, Marked DEF WriteFault, IInv, TypeOK, Backed
<1>4. TypeOK'
  BY <1>1, <1>3 DEF IInv, TypeOK, files
<1>5. Backed'
  BY <1>1, <1>2, <1>3 DEF IInv, Backed, LedgerBacked, files
<1> QED
  BY <1>4, <1>5 DEF IInv

LEMMA EndInv ==
  ASSUME IInv, (\E r \in Rank : Finish(r)) \/ Crash
  PROVE  IInv'
<1>1. CASE \E r \in Rank : Finish(r)
  <2>1. PICK r \in Rank : Finish(r)
    BY <1>1
  <2>2. TypeOK'
    BY <2>1 DEF Finish, IInv, TypeOK, env, Places
  <2>3. Backed'
    BY <2>1, RootIsRank DEF Finish, IInv, TypeOK, Backed, LedgerBacked
  <2> QED
    BY <2>2, <2>3 DEF IInv
<1>2. CASE Crash
  <2>1. TypeOK'
    BY <1>2, DistOK DEF Crash, IInv, TypeOK, files, Places
  <2>2. Backed'
    BY <1>2, RootIsRank DEF Crash, IInv, Backed, LedgerBacked, files
  <2> QED
    BY <2>1, <2>2 DEF IInv
<1> QED
  BY <1>1, <1>2

\* IInv is inductive.
LEMMA InvNext == IInv /\ [Next]_vars => IInv'
<1> SUFFICES ASSUME IInv, [Next]_vars PROVE IInv'
  OBVIOUS
<1>1. CASE Start
  BY <1>1, LaunchInv DEF Start
<1>2. CASE \E r \in Rank : NextCase(r)
  BY <1>2, NextCaseInv
<1>3. CASE \E r \in Rank : Prepare(r) \/ RaiseAlone(r) \/ ExceptOther(r)
  BY <1>3, OtherMovesInv
<1>4. CASE (\E r \in Rank : Finish(r)) \/ Crash
  BY <1>4, EndInv
<1>5. CASE Meet
  BY <1>5, MeetInv
<1>6. CASE AppendRecord \/ AppendError
  BY <1>6, AppendInv
<1>7. CASE MarkDone \/ MarkFailed
  BY <1>7, MarkInv
<1>8. CASE WriteFault
  BY <1>8, WriteFaultInv
<1>9. CASE UNCHANGED vars
  BY <1>9 DEF vars, ranks, files, env, IInv, TypeOK, Backed, LedgerBacked
<1> QED
  BY <1>1, <1>2, <1>3, <1>4, <1>5, <1>6, <1>7, <1>8, <1>9 DEF Next, Work

\* IInv holds throughout.
THEOREM InvCorrect == Spec => []IInv
BY InvInit, InvNext, PTL DEF Spec

\* However many ranks there are, whatever raises in one of them and whenever
\* the group dies, the checkpoint is backed by the files
\* (run_collective.py:376-406).
THEOREM LedgerBackedAlways == Spec => []LedgerBacked
<1>1. IInv => LedgerBacked
  BY DEF IInv, Backed
<1> QED
  BY <1>1, InvCorrect, PTL

-----------------------------------------------------------------------------
(* Lock step.  IInv says nothing of how the ranks stand to each other; what *)
(* does is Aligned, and it holds as long as no rank has met an error of its *)
(* own.                                                                    *)

LEMMA AlignedInit == Init => Aligned
<1> SUFFICES ASSUME Init PROVE BetweenCases({})
  BY DEF Aligned
<1> QED
  BY DEF Init, BetweenCases

\* All ranks start with the list that rank 0 broadcast.
LEMMA LaunchAligned ==
  ASSUME IInv, NEW retryFailed \in BOOLEAN, NEW limit \in Limits, Launch(retryFailed, limit)
  PROVE  Aligned'
<1> DEFINE left  == FilterCases(Load(cp), Case, retryFailed)
           cases == IF limit = 0 THEN left ELSE FirstN(left, limit)
<1>1. cases \in SUBSET Case
  BY LoadType, Broadcast DEF IInv, TypeOK
<1>2. pc' = [r \in Rank |-> "loop"] /\ todo' = [r \in Rank |-> cases]
  BY DEF Launch
<1> HIDE DEF cases
<1>3. PICK T \in SUBSET Case : T = cases
  BY <1>1
<1>4. BetweenCases(T)'
  BY <1>2, <1>3 DEF BetweenCases
<1> QED
  BY <1>4 DEF Aligned

\* A rank that takes its next case takes the least of the same list.
LEMMA NextCaseAligned ==
  ASSUME IInv, Aligned, Together, NEW r \in Rank, NextCase(r)
  PROVE  Aligned'
<1>1. PICK T \in SUBSET Case : BetweenCases(T)
  BY DEF NextCase, Aligned, InCase
<1>2. PICK c \in todo[r] : /\ \A d \in todo[r] : c <= d
                           /\ cur' = [cur EXCEPT ![r] = c]
                           /\ todo' = [todo EXCEPT ![r] = @ \ {c}]
                           /\ pc' = [pc EXCEPT ![r] = IF outcome[c] = "early" THEN "except"
                                                                              ELSE "enter"]
  BY DEF NextCase
<1>3. pc[r] = "loop" /\ todo[r] = T /\ outcome' = outcome
  BY <1>1 DEF NextCase, BetweenCases, env
<1>4. /\ pc'[r] = (IF outcome[c] = "early" THEN "except" ELSE "enter")
      /\ todo'[r] = T \ {c} /\ cur'[r] = c
  BY <1>2, <1>3 DEF IInv, TypeOK
<1>5. \A s \in Rank \ {r} : pc'[s] = pc[s] /\ todo'[s] = todo[s] /\ cur'[s] = cur[s]
  BY <1>2 DEF IInv, TypeOK
<1>6. BetweenCases(T)'
  <2> SUFFICES ASSUME NEW s \in Rank
               PROVE  \/ pc'[s] \in {"loop", "record", "mark"} /\ todo'[s] = T
                      \/ pc'[s] = "idle" /\ todo'[s] = {} /\ T = {}
                      \/ /\ cur'[s] \in T /\ (\A d \in T : cur'[s] <= d)
                         /\ todo'[s] = T \ {cur'[s]}
                         /\ \/ pc'[s] = "enter" /\ outcome'[cur'[s]] # "early"
                            \/ /\ pc'[s] \in {"except", "markFailed", "rejoin"}
                               /\ outcome'[cur'[s]] = "early"
    BY DEF BetweenCases
  <2>1. CASE s = r
    BY <2>1, <1>2, <1>3, <1>4
  <2>2. CASE s # r
    BY <2>2, <1>1, <1>3, <1>5 DEF BetweenCases
  <2> QED
    BY <2>1, <2>2
<1> QED
  BY <1>6 DEF Aligned

\* A rank that goes on with its case goes on as the case's parameters say.
LEMMA GoOnAligned ==
  ASSUME IInv, Aligned, Together, NEW r \in Rank,
         \/ Prepare(r) \/ ExceptOther(r)
         \/ r = Root /\ (AppendRecord \/ MarkDone \/ AppendError \/ MarkFailed)
  PROVE  Aligned'
<1>1. /\ UNCHANGED <<todo, cur, outcome>>
      /\ \A s \in Rank \ {r} : pc'[s] = pc[s]
      /\ \/ pc[r] = "bench" /\ pc'[r] = IF outcome[cur[r]] = "late" THEN "except" ELSE "op"
         \/ pc[r] \in {"except", "markFailed"} /\ pc'[r] \in {"markFailed", "rejoin"}
         \/ pc[r] \in {"record", "mark"} /\ pc'[r] \in {"mark", "loop"}
  BY DEF Prepare, ExceptOther, AppendRecord, MarkDone, AppendError, MarkFailed, RootTo,
     AfterExcept, IInv, TypeOK, env
<1>2. ASSUME NEW T \in SUBSET Case, NEW c \in Case, InCase(T, c) PROVE InCase(T, c)'
  BY <1>1, <1>2 DEF InCase
<1>3. ASSUME NEW T \in SUBSET Case, BetweenCases(T) PROVE BetweenCases(T)'
  BY <1>1, <1>3 DEF BetweenCases
<1> QED
  BY <1>2, <1>3 DEF Aligned

\* Ranks that meet are all before the same case, or all past it.
LEMMA MeetAligned ==
  ASSUME IInv, Aligned, Together, Meet
  PROVE  Aligned'
<1>1. UNCHANGED <<todo, cur, outcome>>
  BY DEF Meet, env
<1>2. \A r \in Rank : pc'[r] = CASE pc[r] = "enter"  -> "bench"
                                 [] pc[r] = "rejoin" -> "loop"
                                 [] pc[r] = "op"     -> IF r = Root THEN "record" ELSE "loop"
  BY DEF Meet
<1>3. ASSUME NEW T \in SUBSET Case, NEW c \in Case, InCase(T, c) PROVE BetweenCases(T)'
  <2>1. \A r \in Rank : pc[r] \in {"rejoin", "op"} /\ todo[r] = T
    BY <1>3 DEF InCase, Meet, Barriers
  <2>2. \A r \in Rank : pc'[r] \in {"loop", "record"}
    BY <2>1, <1>2
  <2> QED
    BY <2>1, <2>2, <1>1 DEF BetweenCases
<1>4. ASSUME NEW T \in SUBSET Case, BetweenCases(T) PROVE Aligned'
  <2>1. \A r \in Rank : /\ pc[r] \in {"enter", "rejoin"}
                        /\ cur[r] \in T /\ (\A d \in T : cur[r] <= d) /\ todo[r] = T \ {cur[r]}
                        /\ pc[r] = "enter" <=> outcome[cur[r]] # "early"
    BY <1>4 DEF BetweenCases, Meet, Barriers
  <2>2. PICK c \in T : c = cur[Root]
    BY <2>1, RootIsRank
  <2>3. PICK U \in SUBSET Case : U = T \ {c}
    OBVIOUS
  <2>4. \A r \in Rank : cur[r] = c /\ todo[r] = U
    BY <2>1, <2>2, <2>3, RootIsRank DEF Case
  <2>5. CASE outcome[c] # "early"
    <3>1. \A r \in Rank : pc'[r] = "bench"
      BY <2>1, <2>4, <2>5, <1>2
    <3>2. InCase(U, c)'
      BY <3>1, <2>4, <1>1 DEF InCase
    <3> QED
      BY <3>2 DEF Aligned
  <2>6. CASE outcome[c] = "early"
    <3>1. \A r \in Rank : pc'[r] = "loop"
      BY <2>1, <2>4, <2>6, <1>2
    <3>2. BetweenCases(U)'
      BY <3>1, <2>4, <1>1 DEF BetweenCases
    <3> QED
      BY <3>2 DEF Aligned
  <2> QED
    BY <2>5, <2>6
<1> QED
  BY <1>3, <1>4 DEF Aligned

LEMMA EndAligned ==
  ASSUME IInv, Aligned, Together, (\E r \in Rank : Finish(r)) \/ Crash
  PROVE  Aligned'
<1>1. ASSUME NEW r \in Rank, Finish(r) PROVE Aligned'
  <2>1. PICK T \in SUBSET Case : BetweenCases(T)
    BY <1>1 DEF Finish, Aligned, InCase
  <2>2. /\ todo[r] = {} /\ T = {} /\ pc'[r] = "idle"
        /\ \A s \in Rank \ {r} : pc'[s] = pc[s] /\ cur'[s] = cur[s]
        /\ UNCHANGED <<todo, outcome>>
    BY <1>1, <2>1 DEF Finish, BetweenCases, IInv, TypeOK, env
  <2>3. BetweenCases(T)'
    BY <2>1, <2>2 DEF BetweenCases
  <2> QED
    BY <2>3 DEF Aligned
<1>2. ASSUME Crash PROVE Aligned'
  <2>1. BetweenCases({})'
    BY <1>2 DEF Crash, BetweenCases
  <2> QED
    BY <2>1 DEF Aligned
<1> QED
  BY <1>1, <1>2

\* An error of one rank ends the assumption, not the invariant.
LEMMA AlignedNext == IInv /\ Aligned /\ [Next]_vars => Aligned'
<1> SUFFICES ASSUME IInv, Aligned, [Next]_vars, Together' PROVE Aligned'
  BY DEF Aligned
<1>1. Together /\ ~WriteFault /\ ~(\E r \in Rank : RaiseAlone(r))
  <2>1. alone \in Nat /\ writeFaults \in Nat
    BY DistOK DEF IInv, TypeOK
  <2>2. ~WriteFault /\ ~(\E r \in Rank : RaiseAlone(r))
    BY <2>1 DEF Together, WriteFault, RaiseAlone
  <2>3. alone' = alone /\ writeFaults' = writeFaults
    BY <2>2 DEF Next, Start, Launch, Work, NextCase, Prepare, ExceptOther, Finish, Meet,
       AppendRecord, MarkDone, AppendError, MarkFailed, Crash, env, vars
  <2> QED
    BY <2>2, <2>3 DEF Together
<1>2. CASE Start
  BY <1>2, LaunchAligned DEF Start
<1>3. CASE \E r \in Rank : NextCase(r)
  BY <1>1, <1>3, NextCaseAligned
<1>4. CASE \E r \in Rank : Prepare(r) \/ ExceptOther(r)
  BY <1>1, <1>4, GoOnAligned
<1>5. CASE AppendRecord \/ MarkDone \/ AppendError \/ MarkFailed
  BY <1>1, <1>5, RootIsRank, GoOnAligned
<1>6. CASE Meet
  BY <1>1, <1>6, MeetAligned
<1>7. CASE (\E r \in Rank : Finish(r)) \/ Crash
  BY <1>1, <1>7, EndAligned
<1>8. CASE UNCHANGED vars
  BY <1>8 DEF vars, ranks, env, Aligned, Together, BetweenCases, InCase
<1> QED
  BY <1>1, <1>2, <1>3, <1>4, <1>5, <1>6, <1>7, <1>8 DEF Next, Work

\* However many ranks and cases there are, ranks that meet in a call are at
\* the same case as long as every error is met by all of them
\* (run_collective.py:369-408).
THEOREM LockStepTogetherAlways == Spec => []LockStepTogether
<1>1. Aligned => LockStepTogether
  <2> SUFFICES ASSUME Aligned, Together, NEW r \in Rank, NEW s \in Rank, Waiting(r), Waiting(s)
               PROVE  cur[r] = cur[s] /\ (pc[r] = "op" <=> pc[s] = "op")
    BY DEF LockStepTogether, LockStep
  <2>1. ASSUME NEW T \in SUBSET Case, NEW c \in Case, InCase(T, c)
        PROVE  cur[r] = cur[s] /\ (pc[r] = "op" <=> pc[s] = "op")
    BY <2>1 DEF InCase, Waiting, Barriers
  <2>2. ASSUME NEW T \in SUBSET Case, BetweenCases(T)
        PROVE  cur[r] = cur[s] /\ (pc[r] = "op" <=> pc[s] = "op")
    <3>1. \A q \in {r, s} : /\ pc[q] # "op"
                           /\ cur[q] \in T /\ (\A d \in T : cur[q] <= d)
      BY <2>2 DEF BetweenCases, Waiting, Barriers
    <3>2. cur[r] <= cur[s] /\ cur[s] <= cur[r]
      BY <3>1
    <3>3. cur[r] \in Case /\ cur[s] \in Case
      BY <3>1
    <3>4. cur[r] = cur[s]
      BY <3>2, <3>3, NumCasesOK DEF Case
    <3> QED
      BY <3>1, <3>4
  <2> QED
    BY <2>1, <2>2 DEF Aligned
<1> QED
  BY <1>1, AlignedInit, AlignedNext, InvCorrect, PTL DEF Spec

-----------------------------------------------------------------------------
(* Accounting is rank 0's alone: no other rank, wherever it is, changes it. *)

\* What is counted is natural.
LEMMA Counts ==
  ASSUME TypeOK
  PROVE  /\ {summary.done, summary.failed, summary.total} \subseteq Nat
         /\ IsFiniteSet(todo[Root]) /\ Cardinality(todo[Root]) \in Nat
<1>1. todo[Root] \in SUBSET Case
  BY RootIsRank DEF TypeOK
<1> QED
  BY <1>1, CasesFinite DEF TypeOK, Summary

\* Steps that neither begin nor count a case of rank 0.
LEMMA StaysAccounted ==
  ASSUME Accounted, todo'[Root] = todo[Root], UNCHANGED <<summary, cp>>,
         \/ pc'[Root] = pc[Root] /\ state' = state
         \/ pc'[Root] \in {"idle", "dead"}
         \/ pc[Root] \notin {"idle", "dead", "loop", "rejoin"} /\ pc'[Root] \in {"except", "markFailed"}
         \/ /\ pc[Root] \in {"enter", "bench", "op", "record"} /\ state' = state
            /\ pc'[Root] \in {"bench", "op", "record", "mark"}
         \/ pc[Root] \in {"rejoin"} /\ pc'[Root] = "loop" /\ state' = state
  PROVE  Accounted'
BY DEF Accounted, InHand

LEMMA LaunchAccounted ==
  ASSUME IInv, TypeOK', NEW retryFailed \in BOOLEAN, NEW limit \in Limits,
         Launch(retryFailed, limit)
  PROVE  Accounted'
<1> DEFINE left  == FilterCases(Load(cp), Case, retryFailed)
           cases == IF limit = 0 THEN left ELSE FirstN(left, limit)
<1>1. /\ pc' = [r \in Rank |-> "loop"] /\ todo' = [r \in Rank |-> cases] /\ state' = Load(cp)
      /\ summary' = [NoSummary EXCEPT !.total = Cardinality(cases)] /\ cp' = cp
  BY DEF Launch, files
<1> HIDE DEF cases
<1>2. pc'[Root] = "loop" /\ todo'[Root] = cases
  BY <1>1, RootIsRank
<1>3. summary'.done = 0 /\ summary'.failed = 0 /\ summary'.total = Cardinality(cases)
  BY <1>1 DEF NoSummary
<1>4. summary'.total \in Nat
  BY DEF TypeOK, Summary
<1> QED
  BY <1>1, <1>2, <1>3, <1>4 DEF Accounted, InHand

\* A case leaves the list of rank 0 when rank 0 takes it ...
LEMMA NextCaseAccounted ==
  ASSUME IInv, Accounted, NextCase(Root)
  PROVE  Accounted'
<1>1. PICK c \in todo[Root] : /\ todo' = [todo EXCEPT ![Root] = @ \ {c}]
                              /\ pc' = [pc EXCEPT ![Root] = IF outcome[c] = "early" THEN "except"
                                                                                    ELSE "enter"]
  BY DEF NextCase
<1>2. pc[Root] = "loop" /\ UNCHANGED <<state, summary, cp>>
  BY DEF NextCase, files
<1>3. todo'[Root] = todo[Root] \ {c} /\ pc'[Root] \in {"except", "enter"}
  BY <1>1, RootIsRank DEF IInv, TypeOK
<1>4. Cardinality(todo'[Root]) = Cardinality(todo[Root]) - 1
  BY <1>3, Counts, FS_RemoveElement DEF IInv
<1>5. InHand = 0 /\ InHand' = 1
  BY <1>2, <1>3 DEF InHand
<1>6. summary.done + summary.failed + Cardinality(todo[Root]) + InHand = summary.total
  BY <1>2 DEF Accounted
<1>7. summary'.done + summary'.failed + Cardinality(todo'[Root]) + InHand' = summary'.total
  BY <1>2, <1>4, <1>5, <1>6, Counts DEF IInv
<1> QED
  BY <1>2, <1>3, <1>7 DEF Accounted

\* ... and is counted when it is marked.
LEMMA MarkAccounted ==
  ASSUME IInv, Accounted, MarkDone \/ MarkFailed
  PROVE  Accounted'
<1>1. /\ todo' = todo /\ cp' = Whole(state')
      /\ pc[Root] \in {"mark", "markFailed"} /\ pc'[Root] \in {"loop", "rejoin"}
  BY RootIsRank DEF MarkDone, MarkFailed, RootTo, AfterExcept, IInv, TypeOK
<1>2. \/ summary' = [summary EXCEPT !.done = @ + 1]
      \/ summary' = [summary EXCEPT !.failed = @ + 1]
  BY DEF MarkDone, MarkFailed
<1>3. state' = Load(cp')
  BY <1>1 DEF Whole, Load
<1>4. summary.done + summary.failed + Cardinality(todo[Root]) + InHand = summary.total
  BY <1>1 DEF Accounted
<1>5. InHand = 1 /\ InHand' = 0
  BY <1>1 DEF InHand
<1>6. /\ summary'.done + summary'.failed = summary.done + summary.failed + 1
      /\ summary'.total = summary.total
  BY <1>2, Counts DEF IInv, TypeOK, Summary
<1>7. summary'.done + summary'.failed + Cardinality(todo'[Root]) + InHand' = summary'.total
  <2>1. {summary'.done, summary'.failed} \subseteq Nat
    BY <1>2, Counts DEF IInv, TypeOK, Summary
  <2> QED
    BY <2>1, <1>1, <1>4, <1>5, <1>6, Counts DEF IInv
<1> QED
  BY <1>1, <1>3, <1>7 DEF Accounted

LEMMA AccountedNext == IInv /\ Accounted /\ [Next]_vars => Accounted'
<1> SUFFICES ASSUME IInv, Accounted, [Next]_vars PROVE Accounted'
  OBVIOUS
<1>0. TypeOK /\ TypeOK'
  BY InvNext DEF IInv
<1>1. CASE Start
  BY <1>0, <1>1, LaunchAccounted DEF Start
<1>2. ASSUME NEW r \in Rank, NextCase(r) \/ Prepare(r) \/ RaiseAlone(r) \/ ExceptOther(r) \/ Finish(r)
      PROVE  Accounted'
  <2>1. CASE r = Root
    <3>1. CASE NextCase(Root)
      BY <3>1, NextCaseAccounted
    <3>2. CASE Prepare(Root) \/ RaiseAlone(Root)
      <4>1. /\ pc[Root] = "bench" /\ pc'[Root] \in {"except", "op"}
            /\ UNCHANGED <<todo, state, summary, cp>>
        BY <3>2, <1>0, RootIsRank DEF Prepare, RaiseAlone, TypeOK, files
      <4> QED
        BY <4>1, StaysAccounted
    <3>3. CASE Finish(Root)
      <4>1. pc'[Root] = "idle" /\ UNCHANGED <<todo, state, summary, cp>>
        BY <3>3, <1>0, RootIsRank DEF Finish, TypeOK
      <4> QED
        BY <4>1, StaysAccounted
    <3> QED
      BY <1>2, <2>1, <3>1, <3>2, <3>3 DEF ExceptOther
  <2>2. CASE r # Root
    <3>1. /\ pc'[Root] = pc[Root] /\ todo'[Root] = todo[Root] /\ UNCHANGED <<state, summary, cp>>
      BY <1>2, <2>2, <1>0, RootIsRank
      DEF NextCase, Prepare, RaiseAlone, ExceptOther, Finish, TypeOK, files
    <3> QED
      BY <3>1, StaysAccounted
  <2> QED
    BY <2>1, <2>2
<1>3. CASE Meet
  <2>1. /\ UNCHANGED <<todo, state, summary, cp>>
        /\ \/ pc[Root] = "enter" /\ pc'[Root] = "bench"
           \/ pc[Root] = "rejoin" /\ pc'[Root] = "loop"
           \/ pc[Root] = "op" /\ pc'[Root] = "record"
    BY <1>3, RootIsRank DEF Meet, Barriers, files
  <2> QED
    BY <2>1, StaysAccounted
<1>4. CASE AppendRecord \/ AppendError
  <2>1. /\ UNCHANGED <<todo, state, summary, cp>>
        /\ \/ pc[Root] = "record" /\ pc'[Root] = "mark"
           \/ pc[Root] = "except" /\ pc'[Root] = "markFailed"
    BY <1>0, <1>4, RootIsRank DEF AppendRecord, AppendError, RootTo, TypeOK
  <2> QED
    BY <2>1, StaysAccounted
<1>5. CASE MarkDone \/ MarkFailed
  BY <1>5, MarkAccounted
<1>6. CASE WriteFault
  <2>1. /\ UNCHANGED <<todo, summary, cp>>
        /\ \/ pc[Root] \in {"record", "mark"} /\ pc'[Root] = "except"
           \/ pc'[Root] = "dead"
    BY <1>0, <1>6, RootIsRank DEF WriteFault, RootTo, TypeOK, files
  <2> QED
    BY <2>1, StaysAccounted
<1>7. CASE Crash
  <2>1. pc'[Root] = "idle"
    BY <1>7, RootIsRank DEF Crash
  <2> QED
    BY <2>1 DEF Accounted
<1>8. CASE UNCHANGED vars
  BY <1>8, StaysAccounted DEF vars, ranks, files
<1> QED
  BY <1>1, <1>2, <1>3, <1>4, <1>5, <1>6, <1>7, <1>8 DEF Next, Work

\* Whatever one rank meets alone, a run that writes its progress line has
\* accounted for every case it set out to measure, and saved that
\* (run_collective.py:343-416).
THEOREM AllAccountedAlways == Spec => AllAccounted
<1>1. Init => Accounted
  BY RootIsRank DEF Init, Accounted
<1>2. ASSUME IInv, Accounted, [Next]_vars, progress' # progress
      PROVE  /\ progress'.done + progress'.failed = progress'.total
             /\ state = Load(cp)
  <2>1. PICK r \in Rank : Finish(r)
    BY <1>2 DEF Next, Start, Launch, Work, NextCase, Prepare, ExceptOther, Meet, AppendRecord,
       MarkDone, AppendError, MarkFailed, WriteFault, Crash, RaiseAlone, files, vars
  <2>2. r = Root /\ pc[Root] = "loop" /\ todo[Root] = {} /\ progress' = summary
    BY <1>2, <2>1 DEF Finish
  <2>3. summary.done + summary.failed + 0 + 0 = summary.total /\ state = Load(cp)
    BY <1>2, <2>2, FS_EmptySet DEF Accounted, InHand
  <2> QED
    BY <1>2, <2>2, <2>3, Counts DEF IInv
<1>3. IInv /\ Accounted /\ [Next]_vars
        => [progress' # progress => /\ progress'.done + progress'.failed = progress'.total
                                    /\ state = Load(cp)]_vars
  BY <1>2
<1> QED
  BY <1>1, <1>3, AccountedNext, InvCorrect, PTL DEF Spec, AllAccounted
=============================================================================

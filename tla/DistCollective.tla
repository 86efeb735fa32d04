---------------------------- MODULE DistCollective ----------------------------
(***************************************************************************)
(* collector/distributed/run_collective.py under torchrun: every rank runs *)
(* the same loop over the same cases, meets the others in barriers and in  *)
(* the measured collective, and rank 0 alone writes records and the        *)
(* checkpoint.  The n-th collective call of a rank is matched with the     *)
(* n-th of every other rank, whatever line it comes from; calls of         *)
(* different kinds never complete.                                         *)
(*                                                                         *)
(* Files are whole here: torn lines and the steps of a checkpoint's save   *)
(* are Collector's subject.                                                *)
(***************************************************************************)
EXTENDS Checkpoint

CONSTANTS Others,       \* ranks other than rank 0
          Root,         \* rank 0
          Limits,       \* values of --limit; 0 stands for none: "if args.limit"
          MaxAlone,     \* bound: errors that a single rank meets in a case
          MaxWriteFaults, \* bound: writes of rank 0 that raise
          MaxCrashes    \* bound: process groups torn down by torchrun

Rank == Others \cup {Root}

ASSUME DistOK == /\ IsFiniteSet(Others) /\ Root \notin Others
                 /\ Limits \subseteq Nat
                 /\ {MaxAlone, MaxWriteFaults, MaxCrashes} \subseteq Nat

VARIABLES
  pc,        \* per rank, see Places
  todo,      \* per rank: cases not yet visited
  cur,       \* per rank: the case of the iteration (0: none)
  state,     \* rank 0: the CheckpointState in memory
  summary,   \* rank 0: total, done and failed of the run
  records,   \* cases with a line in collective.jsonl
  errors,    \* cases with a line in errors/collective.jsonl
  progress,  \* last line of progress.jsonl
  cp,        \* checkpoints/collective.json
  outcome,   \* what every rank makes of a case: it is a matter of its parameters
  alone, writeFaults, crashes

ranks == <<pc, todo, cur>>
files == <<records, errors, progress, cp>>
env   == <<outcome, alone, writeFaults, crashes>>
vars  == <<ranks, state, summary, files, env>>

\* "enter" and "rejoin" are the barriers of _bench_collective and of the
\* except clause, "op" the measured collective.
Places == {"idle", "loop", "enter", "bench", "op", "record", "mark",
           "except", "markFailed", "rejoin", "dead"}
Barriers == {"enter", "rejoin"}
Waiting(r) == pc[r] \in Barriers \cup {"op"}

Summary   == [total : Nat, done : Nat, failed : Nat]
NoSummary == [total |-> 0, done |-> 0, failed |-> 0]

TypeOK == /\ pc \in [Rank -> Places]
          /\ todo \in [Rank -> SUBSET Case]
          /\ cur \in [Rank -> Case \cup {0}]
          /\ state \in Ledger
          /\ summary \in Summary
          /\ records \subseteq Case /\ errors \subseteq Case
          /\ progress \in Summary
          /\ cp \in LedgerFile
          /\ outcome \in [Case -> {"fine", "early", "late"}]
          /\ alone \in 0..MaxAlone
          /\ writeFaults \in 0..MaxWriteFaults
          /\ crashes \in 0..MaxCrashes

Init == /\ pc = [r \in Rank |-> "idle"]
        /\ todo = [r \in Rank |-> {}]
        /\ cur = [r \in Rank |-> 0]
        /\ state = Empty
        /\ summary = NoSummary
        /\ records = {} /\ errors = {}
        /\ progress = NoSummary
        /\ cp = Absent
        /\ outcome \in [Case -> {"fine", "early", "late"}]
        /\ alone = 0 /\ writeFaults = 0 /\ crashes = 0

-----------------------------------------------------------------------------
\* main up to its loop: rank 0 loads and filters, broadcasts the list.
Launch(retryFailed, limit) ==
  LET left  == FilterCases(Load(cp), Case, retryFailed)
      cases == IF limit = 0 THEN left ELSE FirstN(left, limit)
  IN  /\ \A r \in Rank : pc[r] = "idle"
      /\ pc' = [r \in Rank |-> "loop"]
      /\ todo' = [r \in Rank |-> cases]
      /\ state' = Load(cp)
      /\ summary' = [NoSummary EXCEPT !.total = Cardinality(cases)]
      /\ UNCHANGED <<cur, files, env>>

\* A rank takes its next case.  A case whose parameters are refused at once
\* never reaches the barrier.
NextCase(r) ==
  /\ pc[r] = "loop"
  /\ \E c \in todo[r] :
       /\ \A d \in todo[r] : c <= d
       /\ cur' = [cur EXCEPT ![r] = c]
       /\ todo' = [todo EXCEPT ![r] = @ \ {c}]
       /\ pc' = [pc EXCEPT ![r] = IF outcome[c] = "early" THEN "except" ELSE "enter"]
  /\ UNCHANGED <<state, summary, files, env>>

\* Between the barrier and the collective: allocation, and what the
\* parameters are refused for there.
Prepare(r) ==
  /\ pc[r] = "bench"
  /\ pc' = [pc EXCEPT ![r] = IF outcome[cur[r]] = "late" THEN "except" ELSE "op"]
  /\ UNCHANGED <<todo, cur, state, summary, files, env>>

\* One rank alone raises there (out of memory, say).
RaiseAlone(r) ==
  /\ pc[r] = "bench"
  /\ alone < MaxAlone
  /\ alone' = alone + 1
  /\ pc' = [pc EXCEPT ![r] = "except"]
  /\ UNCHANGED <<todo, cur, state, summary, files, outcome, writeFaults, crashes>>

\* Mutant: the except clause of the other ranks does not meet rank 0.
AfterExceptAlone(r) == IF r = Root THEN "rejoin" ELSE "loop"

\* What a rank does once its error is dealt with.
AfterExcept(r) == "rejoin"

\* A collective call completes once every rank is in one of the same kind.
Meet ==
  /\ \/ \A r \in Rank : pc[r] \in Barriers
     \/ \A r \in Rank : pc[r] = "op"
  /\ pc' = [r \in Rank |-> CASE pc[r] = "enter"  -> "bench"
                             [] pc[r] = "rejoin" -> "loop"
                             [] pc[r] = "op"     -> IF r = Root THEN "record" ELSE "loop"]
  /\ UNCHANGED <<todo, cur, state, summary, files, env>>

\* The except clause of the other ranks only meets rank 0 again.
ExceptOther(r) ==
  /\ r # Root /\ pc[r] = "except"
  /\ pc' = [pc EXCEPT ![r] = AfterExcept(r)]
  /\ UNCHANGED <<todo, cur, state, summary, files, env>>

RootTo(place) == pc' = [pc EXCEPT ![Root] = place]

AppendRecord ==
  /\ pc[Root] = "record"
  /\ records' = records \cup {cur[Root]}
  /\ RootTo("mark")
  /\ UNCHANGED <<todo, cur, state, summary, errors, progress, cp, env>>

\* Mutant: the checkpoint is saved for failures only.
MarkDoneUnsaved ==
  /\ pc[Root] = "mark"
  /\ state' = WithDone(state, cur[Root])
  /\ summary' = [summary EXCEPT !.done = @ + 1]
  /\ RootTo("loop")
  /\ UNCHANGED <<todo, cur, files, env>>

MarkDone ==
  /\ pc[Root] = "mark"
  /\ state' = WithDone(state, cur[Root])
  /\ cp' = Whole(state')
  /\ summary' = [summary EXCEPT !.done = @ + 1]
  /\ RootTo("loop")
  /\ UNCHANGED <<todo, cur, records, errors, progress, env>>

\* Mutant: the error itself is not logged.
AppendErrorSilent ==
  /\ pc[Root] = "except"
  /\ RootTo("markFailed")
  /\ UNCHANGED <<todo, cur, state, summary, files, env>>

AppendError ==
  /\ pc[Root] = "except"
  /\ errors' = errors \cup {cur[Root]}
  /\ RootTo("markFailed")
  /\ UNCHANGED <<todo, cur, state, summary, records, progress, cp, env>>

MarkFailed ==
  /\ pc[Root] = "markFailed"
  /\ state' = WithFailed(state, cur[Root])
  /\ cp' = Whole(state')
  /\ summary' = [summary EXCEPT !.failed = @ + 1]
  /\ RootTo(AfterExcept(Root))
  /\ UNCHANGED <<todo, cur, records, errors, progress, env>>

\* A write of rank 0 raises.  In the try clause the error is handled like
\* any other, with mark_done's change to the ledger in memory made; in the
\* except clause nothing handles it.
WriteFault ==
  /\ writeFaults < MaxWriteFaults
  /\ writeFaults' = writeFaults + 1
  /\ \/ pc[Root] = "record" /\ RootTo("except") /\ UNCHANGED state
     \/ /\ pc[Root] = "mark" /\ RootTo("except")
        /\ state' = WithDone(state, cur[Root])
     \/ pc[Root] \in {"except", "markFailed"} /\ RootTo("dead") /\ UNCHANGED state
  /\ UNCHANGED <<todo, cur, summary, files, outcome, alone, crashes>>

\* The loop of a rank is over.
Finish(r) ==
  /\ pc[r] = "loop" /\ todo[r] = {}
  /\ pc' = [pc EXCEPT ![r] = "idle"]
  /\ cur' = [cur EXCEPT ![r] = 0]
  /\ progress' = IF r = Root THEN summary ELSE progress
  /\ UNCHANGED <<todo, state, summary, records, errors, cp, env>>

\* torchrun takes the process group down.
Crash ==
  /\ crashes < MaxCrashes
  /\ \E r \in Rank : pc[r] # "idle"
  /\ crashes' = crashes + 1
  /\ pc' = [r \in Rank |-> "idle"]
  /\ todo' = [r \in Rank |-> {}]
  /\ cur' = [r \in Rank |-> 0]
  /\ UNCHANGED <<state, summary, files, outcome, alone, writeFaults>>

Start == \E retryFailed \in BOOLEAN, limit \in Limits : Launch(retryFailed, limit)

Work == \/ \E r \in Rank : NextCase(r) \/ Prepare(r) \/ ExceptOther(r) \/ Finish(r)
        \/ Meet
        \/ AppendRecord \/ MarkDone \/ AppendError \/ MarkFailed

Next == \/ Start \/ Work \/ WriteFault \/ Crash
        \/ \E r \in Rank : RaiseAlone(r)

Spec == Init /\ [][Next]_vars

\* A process that can take a step takes it.
FairSpec == Spec /\ WF_vars(Work)

-----------------------------------------------------------------------------
(* Properties                                                              *)

\* What the checkpoint calls done has a record and what it calls failed has
\* a logged error, whatever raises or dies in whatever rank.
LedgerBacked == Load(cp).done \subseteq records /\ Load(cp).failed \subseteq errors

\* The inductive invariant behind it: the ledger in memory is backed too,
\* and so is the mark about to be made.
Backed ==
  /\ LedgerBacked
  /\ state.done \subseteq records /\ state.failed \subseteq errors
  /\ pc[Root] = "mark" => cur[Root] \in records
  /\ pc[Root] = "markFailed" => cur[Root] \in errors
  /\ \A r \in Rank : pc[r] \notin {"idle", "loop"} => cur[r] \in Case

IInv == TypeOK /\ Backed

\* "all ranks must keep moving in lockstep" (run_collective.py:405): ranks
\* that meet in a call are at the same case.
LockStep ==
  \A r, s \in Rank : Waiting(r) /\ Waiting(s) => cur[r] = cur[s] /\ (pc[r] = "op" <=> pc[s] = "op")

\* They are, as long as every error is met by all ranks.
Together == alone = 0 /\ writeFaults = 0
LockStepTogether == Together => LockStep

\* The invariant behind it.  Between two meetings every rank is at case c of
\* those before it, and its parameters decide how it goes on ...
InCase(T, c) ==
  \A r \in Rank : /\ todo[r] = T /\ cur[r] = c
                  /\ \/ pc[r] = "bench"
                     \/ pc[r] = "op" /\ outcome[c] # "late"
                     \/ pc[r] \in {"except", "markFailed", "rejoin"} /\ outcome[c] = "late"

\* ... or every rank is about to take the least case of T, or has taken it.
BetweenCases(T) ==
  \A r \in Rank : \/ pc[r] \in {"loop", "record", "mark"} /\ todo[r] = T
                  \/ pc[r] = "idle" /\ todo[r] = {} /\ T = {}
                  \/ /\ cur[r] \in T /\ (\A d \in T : cur[r] <= d) /\ todo[r] = T \ {cur[r]}
                     /\ \/ pc[r] = "enter" /\ outcome[cur[r]] # "early"
                        \/ /\ pc[r] \in {"except", "markFailed", "rejoin"}
                           /\ outcome[cur[r]] = "early"

Aligned ==
  Together => \E T \in SUBSET Case : BetweenCases(T) \/ \E c \in Case : InCase(T, c)

\* A launched run ends on every rank, if the ranks meet the same errors.
RunEnds == []Together => \A r \in Rank : pc[r] # "idle" ~> pc[r] = "idle"

\* A run that ends has accounted for every case it set out to measure.
AllAccounted ==
  [][progress' # progress =>
       /\ progress'.done + progress'.failed = progress'.total
       /\ state = Load(cp)]_vars

\* Behind it: rank 0 is to count the cases of its list and the one it is at,
\* and what it has counted is saved, but for the case of an error.
InHand == IF pc[Root] \in {"loop", "rejoin"} THEN 0 ELSE 1

Accounted ==
  /\ pc[Root] \notin {"idle", "dead"} =>
       summary.done + summary.failed + Cardinality(todo[Root]) + InHand = summary.total
  /\ pc[Root] \notin {"idle", "dead", "except", "markFailed"} => state = Load(cp)
=============================================================================

-------------------------- MODULE MeasurementProofs ---------------------------
(***************************************************************************)
(* What a launch of the collector leaves behind, for any table of cases,   *)
(* any releases, any number of launches.                                   *)
(***************************************************************************)
EXTENDS Measurement, SumLemmas

-----------------------------------------------------------------------------
(* The inductive invariant.                                                *)

Types ==
  /\ installed \in Releases /\ snap \in Releases /\ call \in Calls
  /\ pc \in {"idle", "framework", "op", "case"}
  /\ frameworks \in Seq({"vllm", "sglang"})
  /\ ops \subseteq 1..4
  /\ todo \subseteq Case
  /\ failed \in Nat
  /\ \A k \in DOMAIN ledgers : ledgers[k] \in Ledger

\* Where the process is: the operators to go are those of the current
\* framework, whose manifest names the release in use; the cases to go are
\* those of the current operator.
Place ==
  /\ pc \in {"op", "case"} =>
       /\ frameworks # << >>
       /\ ops \subseteq Selected(call, Head(frameworks))
       /\ ~call.dryRun => Dir \in DOMAIN manifests
  /\ pc = "case" => ops # {}
  /\ todo # {} => pc = "case" /\ ~call.dryRun
  /\ \A c \in todo : CaseTable[c].op = Op

\* A directory is named for the release its manifest names, and a record for
\* the release and the runner it was made with.
Filed ==
  /\ \A d \in DOMAIN manifests :
       manifests[d] \in Releases /\ d.version = FrameworkVersion(d.framework, manifests[d])
  /\ \A r \in records :
       /\ r.dir \in DOMAIN manifests
       /\ r.dir.framework = "vllm"
       /\ r.mode = Mode(CaseTable[r.case].params)
       /\ \E release \in Releases : /\ r.version = release.text
                                    /\ r.dir.version = release.text
                                    /\ r.runner = ResolveRunner(r.op, release)

\* A case that is done in a directory has a record there.
Backed ==
  \A k \in DOMAIN ledgers : \A c \in ledgers[k].done :
    \E r \in records : r.case = c /\ r.dir = k[1]

\* All cases of an operator are done.
Complete(f, i) ==
  ~Entries[i].multiGpu =>
    \A c \in Case : CaseTable[c].op = Entries[i].op =>
      c \in LedgerOf(DataPaths(call, f, snap), Entries[i].op).done

AllComplete(f) == \A i \in Selected(call, f) : Complete(f, i)

\* A launch that is to measure all that is left.
Full == call.retryFailed /\ ~call.dryRun /\ call.limit = NumCases

\* Until something fails, what such a launch has gone through is complete.
Behind ==
  /\ Full /\ failed = 0 =>
       /\ pc # "idle" => \A f \in ToSet(call.frameworks) :
                           f \in ToSet(frameworks) \/ AllComplete(f)
       /\ pc \in {"op", "case"} =>
            \A i \in Selected(call, Head(frameworks)) \ ops : Complete(Head(frameworks), i)
       /\ pc = "case" /\ ~Entry.multiGpu =>
            \A c \in Case : CaseTable[c].op = Op => c \in todo \/ c \in LedgerOf(Dir, Op).done
  /\ Full /\ pc = "idle" /\ exit = 0 => \A f \in ToSet(call.frameworks) : AllComplete(f)

Inv == Types /\ Place /\ Filed /\ Backed /\ Behind

-----------------------------------------------------------------------------
(* Lemmas.                                                                 *)

\* A limit of the length of the case list is none (scheduler.py:171-174).
LEMMA FirstNAll ==
  ASSUME NEW S \in SUBSET Case
  PROVE  FirstN(S, NumCases) = S
<1> SUFFICES ASSUME NEW c \in S
             PROVE  Cardinality({d \in S : d < c}) < NumCases
  BY DEF FirstN
<1> DEFINE before == {d \in S : d < c}
<1>1. c \in Nat /\ 1 <= c /\ c <= NumCases
  BY NumCasesOK DEF Case
<1>2. IsFiniteSet(1..(c - 1)) /\ Cardinality(1..(c - 1)) = c - 1
  BY <1>1, FS_Interval
<1>3. before \subseteq 1..(c - 1)
  <2> SUFFICES ASSUME NEW d \in S, d < c
               PROVE  d \in 1..(c - 1)
    OBVIOUS
  <2>1. d \in 1..NumCases
    BY DEF Case
  <2> QED
    BY <1>1, <2>1, NumCasesOK
<1>4. Cardinality(before) \in Nat /\ Cardinality(before) <= c - 1
  BY <1>2, <1>3, FS_Subset, FS_CardinalityType
<1> QED
  BY <1>1, <1>4, NumCasesOK

\* The ledger of an operator is one, whether or not it has a file.
LEMMA LedgerOfType ==
  ASSUME Types, NEW dir, NEW op
  PROVE  LedgerOf(dir, op) \in Ledger
BY DEF Types, LedgerOf, Ledger, Empty

\* Marking a case done or failed (checkpoint.py:53-63).
LEMMA Marked ==
  ASSUME NEW l \in Ledger, NEW c \in Case
  PROVE  /\ WithDone(l, c) \in Ledger /\ WithFailed(l, c) \in Ledger
         /\ WithDone(l, c).done = l.done \cup {c}
         /\ WithDone(l, c).failed \subseteq l.failed
         /\ WithFailed(l, c).done = l.done
         /\ WithFailed(l, c).failed = l.failed \cup {c}
BY DEF WithDone, WithFailed, Ledger

\* Operators are selected for vLLM only.
LEMMA SelectedOK ==
  ASSUME NEW c, NEW f
  PROVE  /\ Selected(c, f) \subseteq 1..4
         /\ Selected(c, f) # {} => f = "vllm"
         /\ \A i \in 1..4 : Entries[i].framework = "vllm"
BY DEF Selected, Entries

\* The elements of a sequence of frameworks are its head and those of its tail.
LEMMA HeadTail ==
  ASSUME NEW s \in Seq({"vllm", "sglang"}), s # << >>
  PROVE  /\ Head(s) \in {"vllm", "sglang"}
         /\ Tail(s) \in Seq({"vllm", "sglang"})
         /\ \A f \in ToSet(s) : f = Head(s) \/ f \in ToSet(Tail(s))
<1>1. \A f \in ToSet(s) : f = Head(s) \/ f \in ToSet(Tail(s))
  <2> SUFFICES ASSUME NEW i \in 1..Len(s), i # 1
               PROVE  s[i] \in ToSet(Tail(s))
    BY DEF ToSet
  <2>1. i - 1 \in DOMAIN Tail(s) /\ Tail(s)[i - 1] = s[i]
    OBVIOUS
  <2>2. Tail(s)[i - 1] \in ToSet(Tail(s))
    BY <2>1, Zenon DEF ToSet
  <2> QED
    BY <2>1, <2>2
<1> QED
  BY <1>1

-----------------------------------------------------------------------------
(* The initial states.                                                     *)

LEMMA InvInit == Init => Inv
<1> SUFFICES ASSUME Init PROVE Inv
  OBVIOUS
<1>1. call \in Calls
  BY ReleasesOK DEF Init
<1>2. Types
  BY <1>1 DEF Init, Types, Ledger
<1>3. Place /\ Filed /\ Backed
  BY DEF Init, Place, Filed, Backed
<1>4. Behind
  BY ReleasesOK DEF Init, Behind
<1> QED
  BY <1>2, <1>3, <1>4 DEF Inv

-----------------------------------------------------------------------------
(* The steps.                                                              *)

\* What is on disk stays as good as it was while it is not written to.
LEMMA DiskKept ==
  ASSUME Filed, Backed, UNCHANGED disk
  PROVE  Filed' /\ Backed'
BY DEF Filed, Backed, disk

\* What is complete stays so within a launch as long as no mark is lost.
LEMMA CompleteKept ==
  ASSUME UNCHANGED <<call, snap>>,
         \A dir, op : LedgerOf(dir, op).done \subseteq LedgerOf(dir, op)'.done
  PROVE  /\ \A f, i : Complete(f, i) => Complete(f, i)'
         /\ \A f : AllComplete(f) => AllComplete(f)'
<1>1. ASSUME NEW f, NEW i, Complete(f, i)
      PROVE  Complete(f, i)'
  BY <1>1 DEF Complete
<1>2. ASSUME NEW f, AllComplete(f)
      PROVE  AllComplete(f)'
  BY <1>1, <1>2 DEF AllComplete
<1> QED
  BY <1>1, <1>2

\* A step that leaves the ledgers alone loses no mark.
LEMMA LedgersKept ==
  ASSUME UNCHANGED ledgers
  PROVE  \A dir, op : LedgerOf(dir, op)' = LedgerOf(dir, op)
BY DEF LedgerOf

\* pip changes nothing a launch depends on.
LEMMA UpgradeKeeps ==
  ASSUME Inv, Upgrade
  PROVE  Inv'
<1> USE DEF Inv, Upgrade, proc
<1>1. Types'
  BY DEF Types, disk
<1>2. Place'
  BY DEF Place, Dir, Op, Entry, disk
<1>3. Filed' /\ Backed'
  BY DiskKept
<1>4. Behind'
  BY DEF Behind, AllComplete, Complete, LedgerOf, Full, Dir, Op, Entry, disk
<1> QED
  BY <1>1, <1>2, <1>3, <1>4

\* A launch starts with all its frameworks to go, or ends at once with 2.
LEMMA LaunchKeeps ==
  ASSUME Inv, Launch
  PROVE  Inv'
<1> USE DEF Inv, Launch
<1>1. Types'
  <2>1. frameworks' \in Seq({"vllm", "sglang"})
    <3>1. call'.frameworks \in Seq({"vllm", "sglang"}) /\ << >> \in Seq({"vllm", "sglang"})
      BY ReleasesOK
    <3>2. frameworks' \in {call'.frameworks, << >>}
      OBVIOUS
    <3> QED
      BY <3>1, <3>2
  <2> QED
    BY <2>1 DEF Types, disk
<1>2. Place'
  BY DEF Place
<1>3. Filed' /\ Backed'
  BY DiskKept
<1>4. Behind'
  BY ReleasesOK DEF Behind
<1> QED
  BY <1>1, <1>2, <1>3, <1>4

\* A framework without operators is complete; of another, all are to go.
LEMMA NextFrameworkKeeps ==
  ASSUME Inv, NextFramework
  PROVE  Inv'
<1> USE DEF Inv, NextFramework
<1>1. /\ Head(frameworks) \in {"vllm", "sglang"}
      /\ Tail(frameworks) \in Seq({"vllm", "sglang"})
      /\ \A f \in ToSet(frameworks) : f = Head(frameworks) \/ f \in ToSet(Tail(frameworks))
  BY HeadTail DEF Types
<1>2. ops' \subseteq 1..4
  BY SelectedOK
<1>3. /\ \A f, i : Complete(f, i) => Complete(f, i)'
      /\ \A f : AllComplete(f) => AllComplete(f)'
  BY CompleteKept, LedgersKept
<1>4. Types'
  BY <1>1, <1>2 DEF Types
<1>5. Place'
  <2>1. todo' = {}
    BY DEF Place
  <2>2. ~ call'.dryRun => Dir \in DOMAIN manifests'
    BY DEF Put
  <2>3. CASE ops' = {}
    BY <2>1, <2>3 DEF Place
  <2>4. CASE ops' # {}
    <3>1. Dir' = Dir /\ frameworks' # << >> /\ ops' \subseteq Selected(call', Head(frameworks'))
      BY <2>4 DEF Dir
    <3> QED
      BY <2>1, <2>2, <2>4, <3>1 DEF Place
  <2> QED
    BY <2>3, <2>4
<1>6. Filed'
  <2>1. /\ Dir.framework = Head(frameworks)
        /\ Dir.version = FrameworkVersion(Head(frameworks), snap)
    BY DEF Dir, DataPaths
  <2>2. ASSUME NEW d \in DOMAIN manifests'
        PROVE  manifests'[d] \in Releases /\ d.version = FrameworkVersion(d.framework, manifests'[d])
    BY <2>1, <2>2 DEF Filed, Put, Types
  <2>3. DOMAIN manifests \subseteq DOMAIN manifests'
    BY DEF Put
  <2> QED
    BY <2>2, <2>3 DEF Filed
<1>7. Backed'
  BY DEF Backed
<1>8. Behind'
  <2>1. ops' = {} => AllComplete(Head(frameworks))
    BY DEF AllComplete
  <2>2. ASSUME Full, failed = 0, NEW f \in ToSet(call.frameworks)
        PROVE  f \in ToSet(frameworks') \/ AllComplete(f)'
    BY <1>1, <1>3, <2>1, <2>2 DEF Behind
  <2>3. pc' = "op" => Selected(call', Head(frameworks')) \ ops' = {}
    OBVIOUS
  <2> QED
    BY <2>2, <2>3 DEF Behind, Full
<1> QED
  BY <1>4, <1>5, <1>6, <1>7, <1>8

\* The cases to go of an operator are those that are not done yet, when none
\* is left out.
LEMMA BeginOpKeeps ==
  ASSUME Inv, BeginOp
  PROVE  Inv'
<1> USE DEF Inv, BeginOp
<1> DEFINE cases == {c \in Case : CaseTable[c].op = Op}
           left  == FilterCases(LedgerOf(Dir, Op), cases, call.retryFailed)
<1>1. /\ Dir' = Dir /\ Op' = Op /\ Entry' = Entry
      /\ \A dir, op : LedgerOf(dir, op)' = LedgerOf(dir, op)
  BY LedgersKept DEF Dir, Op, Entry, disk
<1>2. /\ \A f, i : Complete(f, i) => Complete(f, i)'
      /\ \A f : AllComplete(f) => AllComplete(f)'
  BY <1>1, CompleteKept
<1>3. /\ todo' \subseteq left /\ left \subseteq cases
      /\ call.dryRun => todo' = {}
  BY DEF FirstN, FilterCases
<1>4. Types'
  BY <1>3 DEF Types, disk
<1>5. Place'
  BY <1>1, <1>3 DEF Place, disk
<1>6. Filed' /\ Backed'
  BY DiskKept
<1>7. Behind'
  <2>1. Full /\ ~Entry.multiGpu => todo' = cases \ LedgerOf(Dir, Op).done
    <3>1. left \in SUBSET Case
      BY <1>3
    <3>2. FirstN(left, NumCases) = left
      BY <3>1, FirstNAll
    <3>3. call.retryFailed => left = cases \ LedgerOf(Dir, Op).done
      BY DEF FilterCases
    <3> QED
      BY <3>2, <3>3 DEF Full
  <2>2. Full /\ ~Entry.multiGpu =>
          \A c \in Case : CaseTable[c].op = Op => c \in todo' \/ c \in LedgerOf(Dir, Op).done
    BY <2>1
  <2> QED
    BY <1>1, <1>2, <2>2 DEF Behind, Full
<1> QED
  BY <1>4, <1>5, <1>6, <1>7

\* An exception nobody catches ends the launch with 1.
LEMMA ImportFailsKeeps ==
  ASSUME Inv, ImportFails
  PROVE  Inv'
<1> USE DEF Inv, ImportFails
<1>1. Types'
  BY DEF Types, disk
<1>2. Place'
  BY DEF Place, Dir, Op, Entry, disk
<1>3. Filed' /\ Backed'
  BY DiskKept
<1>4. Behind'
  BY DEF Behind
<1> QED
  BY <1>1, <1>2, <1>3, <1>4

\* A mark of the current case, done or failed, loses no mark of another.
LEMMA Marks ==
  ASSUME Inv, NEW c \in Case, NEW ledger,
         ledger \in {WithDone(LedgerOf(Dir, Op), c), WithFailed(LedgerOf(Dir, Op), c)},
         ledgers' = Put(ledgers, <<Dir, Op>>, ledger)
  PROVE  /\ \A k \in DOMAIN ledgers' : ledgers'[k] \in Ledger
         /\ LedgerOf(Dir, Op).done \subseteq ledger.done
         /\ ledger.done \subseteq LedgerOf(Dir, Op).done \cup {c}
         /\ \A dir, op : LedgerOf(dir, op).done \subseteq LedgerOf(dir, op)'.done
         /\ <<Dir, Op>> \in DOMAIN ledgers' /\ ledgers'[<<Dir, Op>>] = ledger
         /\ \A k \in DOMAIN ledgers' : k # <<Dir, Op>> =>
              k \in DOMAIN ledgers /\ ledgers'[k] = ledgers[k]
<1>1. LedgerOf(Dir, Op) \in Ledger
  BY LedgerOfType DEF Inv
<1>2. /\ ledger \in Ledger
      /\ LedgerOf(Dir, Op).done \subseteq ledger.done
      /\ ledger.done \subseteq LedgerOf(Dir, Op).done \cup {c}
  BY <1>1, Marked
<1>3. /\ <<Dir, Op>> \in DOMAIN ledgers' /\ ledgers'[<<Dir, Op>>] = ledger
      /\ DOMAIN ledgers' = DOMAIN ledgers \cup {<<Dir, Op>>}
      /\ \A k \in DOMAIN ledgers' : k # <<Dir, Op>> =>
           k \in DOMAIN ledgers /\ ledgers'[k] = ledgers[k]
  BY DEF Put
<1>4. \A k \in DOMAIN ledgers' : ledgers'[k] \in Ledger
  BY <1>2, <1>3 DEF Inv, Types
<1>5. ASSUME NEW dir, NEW op
      PROVE  LedgerOf(dir, op).done \subseteq LedgerOf(dir, op)'.done
  <2>1. CASE <<dir, op>> = <<Dir, Op>>
    BY <1>2, <1>3, <2>1 DEF LedgerOf
  <2>2. CASE <<dir, op>> # <<Dir, Op>>
    BY <1>3, <2>2 DEF LedgerOf, Empty
  <2> QED
    BY <2>1, <2>2
<1> QED
  BY <1>2, <1>3, <1>4, <1>5

\* The next case to go is one of those to go.
LEMMA FirstIn ==
  ASSUME Inv, todo # {}
  PROVE  First \in todo /\ First \in Case
<1>1. IsFiniteSet(Case) /\ \A c \in Case : c \in Int
  BY NumCasesOK, FS_Interval DEF Case
<1>2. todo \in SUBSET Case
  BY DEF Inv, Types
<1>3. IsFiniteSet(todo) /\ \A c \in todo : c \in Int
  BY <1>1, <1>2, FS_Subset
<1> QED
  BY <1>2, <1>3, MinIn DEF First

\* A case is measured, its record is filed where its mark is.
LEMMA MeasureKeeps ==
  ASSUME Inv, Measure
  PROVE  Inv'
<1> DEFINE p == CaseTable[First].params
<1>1. PICK captured \in BOOLEAN, timed \in Timings[First] :
        /\ ~MeasureRaises(BenchConfig(p), captured)
        /\ records' = records \cup {BuildRecord(First, UsedGraph(BenchConfig(p), captured), timed)}
  BY DEF Measure
<1> DEFINE record == BuildRecord(First, UsedGraph(BenchConfig(p), captured), timed)
           done   == WithDone(LedgerOf(Dir, Op), First)
<1>2. /\ ledgers' = Put(ledgers, <<Dir, Op>>, done)
      /\ todo' = todo \ {First}
      /\ UNCHANGED <<installed, pc, call, snap, frameworks, ops, failed, exit, manifests>>
      /\ pc = "case" /\ todo # {}
  BY DEF Measure
<1>3. First \in todo /\ First \in Case
  BY <1>2, FirstIn
<1>4. Dir' = Dir /\ Op' = Op /\ Entry' = Entry
  BY <1>2 DEF Dir, Op, Entry
<1>5. /\ \A k \in DOMAIN ledgers' : ledgers'[k] \in Ledger
      /\ done.done \subseteq LedgerOf(Dir, Op).done \cup {First}
      /\ \A dir, op : LedgerOf(dir, op).done \subseteq LedgerOf(dir, op)'.done
      /\ <<Dir, Op>> \in DOMAIN ledgers' /\ ledgers'[<<Dir, Op>>] = done
      /\ \A k \in DOMAIN ledgers' : k # <<Dir, Op>> =>
           k \in DOMAIN ledgers /\ ledgers'[k] = ledgers[k]
  <2> HIDE DEF done
  <2> QED
    BY <1>2, <1>3, Marks DEF done
<1>6. /\ \A f, i : Complete(f, i) => Complete(f, i)'
      /\ \A f : AllComplete(f) => AllComplete(f)'
  BY <1>2, <1>5, CompleteKept
<1>7. Types'
  BY <1>2, <1>5 DEF Inv, Types
<1>8. Place'
  BY <1>2, <1>4 DEF Inv, Place
<1>9. Filed'
  <2>1. /\ record.dir = Dir /\ record.op = Op /\ record.case = First
        /\ record.version = snap.text /\ record.runner = ResolveRunner(Op, snap)
    BY DEF BuildRecord
  <2>2. Dir \in DOMAIN manifests /\ Dir.framework = "vllm" /\ Dir.version = snap.text
    <3>1. Dir \in DOMAIN manifests /\ Selected(call, Head(frameworks)) # {}
      BY <1>2 DEF Inv, Place
    <3>2. Head(frameworks) = "vllm"
      BY <3>1, SelectedOK
    <3> QED
      BY <3>1, <3>2 DEF Dir, DataPaths, FrameworkVersion
  <2>3. record.mode = Mode(CaseTable[First].params)
    <3>1. Mode(p) \in {"eager", "cudagraph"}
      BY <1>1, <1>3 DEF Timings, Supported
    <3>2. record.mode = IF UsedGraph(BenchConfig(p), captured) THEN "cudagraph" ELSE "eager"
      BY DEF BuildRecord
    <3>3. UsedGraph(BenchConfig(p), captured) <=> Mode(p) = "cudagraph"
      BY <1>1 DEF UsedGraph, MeasureRaises, BenchConfig
    <3> QED
      BY <3>1, <3>2, <3>3
  <2>4. snap \in Releases
    BY DEF Inv, Types
  <2> HIDE DEF record
  <2> QED
    BY <1>1, <1>2, <2>1, <2>2, <2>3, <2>4 DEF Inv, Filed, record
<1>10. Backed'
  <2> SUFFICES ASSUME NEW k \in DOMAIN ledgers', NEW c \in ledgers'[k].done
               PROVE  \E r \in records' : r.case = c /\ r.dir = k[1]
    BY DEF Backed
  <2>1. records \subseteq records' /\ record \in records'
    BY <1>1
  <2>2. record.case = First /\ record.dir = Dir
    BY DEF BuildRecord
  <2> HIDE DEF record, done
  <2>3. CASE k # <<Dir, Op>>
    BY <1>5, <2>1, <2>3 DEF Inv, Backed
  <2>4. CASE k = <<Dir, Op>> /\ c = First
    BY <2>1, <2>2, <2>4
  <2>5. CASE k = <<Dir, Op>> /\ c # First
    <3>1. c \in LedgerOf(Dir, Op).done
      BY <1>5, <2>5
    <3>2. k \in DOMAIN ledgers /\ c \in ledgers[k].done
      BY <2>5, <3>1 DEF LedgerOf, Empty
    <3> QED
      BY <2>1, <3>2 DEF Inv, Backed
  <2> QED
    BY <2>3, <2>4, <2>5
<1>11. Behind'
  <2>1. First \in LedgerOf(Dir, Op)'.done
    BY <1>4, <1>5 DEF LedgerOf, WithDone
  <2> HIDE DEF done
  <2> QED
    BY <1>2, <1>4, <1>5, <1>6, <2>1 DEF Inv, Behind, Full
<1> QED
  BY <1>7, <1>8, <1>9, <1>10, <1>11 DEF Inv

\* A failure is counted, so that nothing is claimed of the launch any more.
LEMMA FailKeeps ==
  ASSUME Inv, Fail
  PROVE  Inv'
<1> DEFINE marked == WithFailed(LedgerOf(Dir, Op), First)
<1>1. /\ ledgers' = Put(ledgers, <<Dir, Op>>, marked)
      /\ todo' = todo \ {First}
      /\ failed' = failed + 1
      /\ UNCHANGED <<installed, pc, call, snap, frameworks, ops, exit, records, manifests>>
      /\ pc = "case" /\ todo # {}
  BY DEF Fail
<1>2. First \in todo /\ First \in Case
  BY <1>1, FirstIn
<1>3. Dir' = Dir /\ Op' = Op
  BY <1>1 DEF Dir, Op, Entry
<1>4. LedgerOf(Dir, Op) \in Ledger /\ marked.done = LedgerOf(Dir, Op).done
  BY <1>2, LedgerOfType, Marked DEF Inv
<1>5. /\ \A k \in DOMAIN ledgers' : ledgers'[k] \in Ledger
      /\ <<Dir, Op>> \in DOMAIN ledgers' /\ ledgers'[<<Dir, Op>>] = marked
      /\ \A k \in DOMAIN ledgers' : k # <<Dir, Op>> =>
           k \in DOMAIN ledgers /\ ledgers'[k] = ledgers[k]
  <2> HIDE DEF marked
  <2> QED
    BY <1>1, <1>2, Marks DEF marked
<1> HIDE DEF marked
<1>6. Types'
  BY <1>1, <1>5 DEF Inv, Types
<1>7. Place'
  BY <1>1, <1>3 DEF Inv, Place
<1>8. Filed'
  BY <1>1 DEF Inv, Filed
<1>9. Backed'
  <2> SUFFICES ASSUME NEW k \in DOMAIN ledgers', NEW c \in ledgers'[k].done
               PROVE  k \in DOMAIN ledgers /\ c \in ledgers[k].done
    BY <1>1 DEF Inv, Backed
  <2>1. CASE k # <<Dir, Op>>
    BY <1>5, <2>1
  <2>2. CASE k = <<Dir, Op>>
    BY <1>4, <1>5, <2>2 DEF LedgerOf, Empty
  <2> QED
    BY <2>1, <2>2
<1>10. Behind'
  BY <1>1 DEF Inv, Types, Behind
<1> QED
  BY <1>6, <1>7, <1>8, <1>9, <1>10 DEF Inv

\* The operator that is left behind is complete.
LEMMA EndOpKeeps ==
  ASSUME Inv, EndOp
  PROVE  Inv'
<1> USE DEF Inv, EndOp
<1>1. Types'
  BY DEF Types, disk
<1>2. Dir' = Dir /\ \A dir, op : LedgerOf(dir, op)' = LedgerOf(dir, op)
  BY LedgersKept DEF Dir, disk
<1>3. Place'
  BY <1>2 DEF Place, disk
<1>4. Filed' /\ Backed'
  BY DiskKept
<1>5. /\ \A f, i : Complete(f, i) => Complete(f, i)'
      /\ \A f : AllComplete(f) => AllComplete(f)'
  BY <1>2, CompleteKept
<1>6. Behind'
  <2>1. Full /\ failed = 0 => Complete(Head(frameworks), Min(ops))
    BY DEF Behind, Complete, Entry, Op, Dir
  <2> QED
    BY <1>5, <2>1 DEF Behind, Full
<1> QED
  BY <1>1, <1>3, <1>4, <1>6

\* The framework that is left behind is complete.
LEMMA EndFrameworkKeeps ==
  ASSUME Inv, EndFramework
  PROVE  Inv'
<1> USE DEF Inv, EndFramework
<1>1. frameworks # << >> /\ pc = "op"
  BY DEF Place
<1>2. /\ Tail(frameworks) \in Seq({"vllm", "sglang"})
      /\ \A f \in ToSet(frameworks) : f = Head(frameworks) \/ f \in ToSet(Tail(frameworks))
  BY <1>1, HeadTail DEF Types
<1>3. Types'
  BY <1>2 DEF Types, disk
<1>4. Place'
  BY DEF Place
<1>5. Filed' /\ Backed'
  BY DiskKept
<1>6. /\ \A f, i : Complete(f, i) => Complete(f, i)'
      /\ \A f : AllComplete(f) => AllComplete(f)'
  BY CompleteKept, LedgersKept DEF disk
<1>7. Behind'
  <2>1. Full /\ failed = 0 => AllComplete(Head(frameworks))
    BY <1>1 DEF Behind, AllComplete
  <2> QED
    BY <1>1, <1>2, <1>6, <2>1 DEF Behind, Full
<1> QED
  BY <1>3, <1>4, <1>5, <1>7

\* The exit code is 0 only if nothing failed.
LEMMA ExitKeeps ==
  ASSUME Inv, Exit
  PROVE  Inv'
<1> USE DEF Inv, Exit
<1>1. Types'
  BY DEF Types, disk
<1>2. Place'
  BY DEF Place
<1>3. Filed' /\ Backed'
  BY DiskKept
<1>4. /\ \A f, i : Complete(f, i) => Complete(f, i)'
      /\ \A f : AllComplete(f) => AllComplete(f)'
  BY CompleteKept, LedgersKept DEF disk
<1>5. ToSet(frameworks) = {}
  BY DEF ToSet
<1>6. Behind'
  BY <1>4, <1>5 DEF Behind, Full
<1> QED
  BY <1>1, <1>2, <1>3, <1>6

LEMMA InvNext == Inv /\ [Next]_vars => Inv'
<1> SUFFICES ASSUME Inv, [Next]_vars
             PROVE  Inv'
  OBVIOUS
<1>1. CASE UNCHANGED vars
  <2>1. Types'
    BY <1>1 DEF vars, proc, disk, Inv, Types
  <2>2. Place'
    BY <1>1 DEF vars, proc, disk, Inv, Place, Dir, Op, Entry
  <2>3. Filed' /\ Backed'
    BY <1>1, DiskKept DEF vars, Inv
  <2>4. Behind'
    BY <1>1 DEF vars, proc, disk, Inv, Behind, Full, AllComplete, Complete, LedgerOf, Dir, Op, Entry
  <2> QED
    BY <2>1, <2>2, <2>3, <2>4 DEF Inv
<1> QED
  BY <1>1, UpgradeKeeps, LaunchKeeps, NextFrameworkKeeps, BeginOpKeeps, ImportFailsKeeps,
     MeasureKeeps, FailKeeps, EndOpKeeps, EndFrameworkKeeps, ExitKeeps DEF Next

-----------------------------------------------------------------------------
(* The theorems.                                                           *)

\* Inv holds in every launch of every machine.
THEOREM InvCorrect == Spec => []Inv
<1> QED
  BY InvInit, InvNext, PTL DEF Spec

\* The lines of a file come from one release, one runner and the mode their
\* case asks for, whatever is installed between the launches
\* (version_resolver.py:46-64, paths.py:28).
THEOREM FiledAsTimedAlways == Spec => []FiledAsTimed
<1>1. Inv => FiledAsTimed
  <2> SUFFICES ASSUME Inv, NEW r \in records
               PROVE  /\ r.mode = Mode(CaseTable[r.case].params)
                      /\ manifests[r.dir].text = r.version
                      /\ \A q \in records : q.dir = r.dir /\ q.op = r.op
                            => q.version = r.version /\ q.runner = r.runner
    BY DEF FiledAsTimed
  <2>1. /\ r.mode = Mode(CaseTable[r.case].params) /\ r.dir \in DOMAIN manifests
        /\ r.dir.framework = "vllm"
    BY DEF Inv, Filed
  <2>2. PICK a \in Releases : /\ r.version = a.text /\ r.dir.version = a.text
                              /\ r.runner = ResolveRunner(r.op, a)
    BY DEF Inv, Filed
  <2>3. manifests[r.dir].text = r.dir.version
    BY <2>1 DEF Inv, Filed, FrameworkVersion
  <2>4. ASSUME NEW q \in records, q.dir = r.dir, q.op = r.op
        PROVE  q.version = r.version /\ q.runner = r.runner
    <3>1. PICK b \in Releases : /\ q.version = b.text /\ q.dir.version = b.text
                                /\ q.runner = ResolveRunner(q.op, b)
      BY DEF Inv, Filed
    <3>2. a = b
      BY <2>2, <2>4, <3>1, ReleasesOK
    <3> QED
      BY <2>2, <2>4, <3>1, <3>2
  <2> QED
    BY <2>1, <2>2, <2>3, <2>4
<1> QED
  BY <1>1, InvCorrect, PTL

\* A launch that retries failures, has no limit and exits with 0 leaves every
\* case of its operators done, and each with a record (cli.py:217-243).
THEOREM ExitZeroMeansMeasuredAlways == Spec => []ExitZeroMeansMeasured
<1>1. Inv => ExitZeroMeansMeasured
  <2> SUFFICES ASSUME Inv, pc = "idle", exit = 0, Full,
                      NEW f \in ToSet(call.frameworks), NEW i \in Selected(call, f),
                      ~Entries[i].multiGpu,
                      NEW c \in Case, CaseTable[c].op = Entries[i].op
               PROVE  LET dir == DataPaths(call, f, snap)
                      IN  /\ c \in LedgerOf(dir, Entries[i].op).done
                          /\ \E r \in records : r.case = c /\ r.dir = dir
    BY DEF ExitZeroMeansMeasured, Full
  <2> DEFINE dir == DataPaths(call, f, snap)
             k   == <<dir, Entries[i].op>>
  <2>1. c \in LedgerOf(dir, Entries[i].op).done
    BY DEF Inv, Behind, AllComplete, Complete
  <2>2. k \in DOMAIN ledgers /\ c \in ledgers[k].done
    BY <2>1 DEF LedgerOf, Empty
  <2>3. \E r \in records : r.case = c /\ r.dir = k[1]
    BY <2>2 DEF Inv, Backed
  <2> QED
    BY <2>1, <2>3
<1> QED
  BY <1>1, InvCorrect, PTL

-----------------------------------------------------------------------------
(* The paged cache: blocks and the slots in them.                          *)

\* A slot has one block and one place in it.
LEMMA OneBlock ==
  ASSUME NEW n \in Nat \ {0}, NEW a \in Int, NEW c \in Int,
         NEW x \in 0..(n - 1), NEW y \in 0..(n - 1), a * n + x = c * n + y
  PROVE  a = c /\ x = y
<1>1. ASSUME NEW d \in Int, NEW e \in Int, d < e
      PROVE  d * n + n <= e * n
  <2>1. d + 1 <= e
    BY <1>1
  <2>2. (d + 1) * n <= e * n
    BY <2>1
  <2>3. (d + 1) * n = d * n + n
    OBVIOUS
  <2> QED
    BY <2>2, <2>3
<1>2. a * n \in Int /\ c * n \in Int
  OBVIOUS
<1>3. ~ (a < c) /\ ~ (c < a)
  BY <1>1, <1>2
<1>4. a = c
  BY <1>3
<1> QED
  BY <1>2, <1>4

LEMMA BlockAndPlace ==
  ASSUME NEW n \in Nat \ {0}, NEW q \in Nat
  PROVE  q \div n \in Nat /\ q % n \in 0..(n - 1) /\ q = (q \div n) * n + (q % n)
OBVIOUS

LEMMA SlotParts ==
  ASSUME NEW n \in Nat \ {0}, NEW a \in Nat, NEW x \in 0..(n - 1)
  PROVE  /\ a * n + x \in Nat
         /\ (a * n + x) \div n = a /\ (a * n + x) % n = x
<1>1. a * n \in Nat
  OBVIOUS
<1> DEFINE s     == a * n + x
           block == s \div n
           place == s % n
<1>2. s \in Nat
  BY <1>1
<1> HIDE DEF s
<1>3. block \in Nat /\ place \in 0..(n - 1) /\ s = block * n + place
  BY <1>2, BlockAndPlace
<1> HIDE DEF block, place
<1>4. a * n + x = block * n + place
  BY <1>3 DEF s
<1>5. a = block /\ x = place
  <2>1. a \in Int /\ block \in Int
    BY <1>3
  <2> QED
    BY <1>3, <1>4, <2>1, OneBlock
<1> QED
  BY <1>2, <1>5 DEF s, block, place

\* A batch of n sequences, each with some new tokens.
IsSpec(spec, n) ==
  /\ n \in Nat
  /\ spec \in [1..n -> [len : Nat \ {0}, new : Nat \ {0}]]
  /\ \A i \in 1..n : spec[i].new <= spec[i].len

\* The blocks of a sequence have room for its tokens.
LEMMA BlocksHold ==
  ASSUME NEW n, NEW spec, IsSpec(spec, n), NEW i \in 1..n
  PROVE  /\ Blocks(spec, i) \in Nat
         /\ \A q \in 0..(spec[i].len - 1) : q \div BlockSize < Blocks(spec, i)
<1> DEFINE len == spec[i].len
           all == len + BlockSize - 1
           k   == Blocks(spec, i)
<1>1. BlockSize \in Nat \ {0} /\ len \in Nat \ {0}
  BY TableOK DEF IsSpec
<1>2. all \in Nat /\ k = all \div BlockSize
  BY <1>1 DEF Blocks
<1>3. k \in Nat /\ all % BlockSize \in 0..(BlockSize - 1) /\ all = k * BlockSize + (all % BlockSize)
  <2> HIDE DEF all, k
  <2> QED
    BY <1>1, <1>2, BlockAndPlace
<1>4. k * BlockSize \in Nat
  BY <1>1, <1>3
<1>5. len <= k * BlockSize
  <2> HIDE DEF k
  <2> QED
    BY <1>1, <1>3, <1>4
<1>6. ASSUME NEW q \in 0..(len - 1)
      PROVE  q \div BlockSize < k
  <2> DEFINE b == q \div BlockSize
             place == q % BlockSize
  <2>1. b \in Nat /\ place \in 0..(BlockSize - 1) /\ q = b * BlockSize + place
    <3>1. q \in Nat
      BY <1>1
    <3> QED
      BY <1>1, <3>1, BlockAndPlace
  <2> HIDE DEF b, k, place
  <2>2. b * BlockSize \in Nat /\ b * BlockSize < k * BlockSize
    BY <1>1, <1>4, <1>5, <2>1
  <2>3. ASSUME k <= b PROVE FALSE
    <3>1. k * BlockSize <= b * BlockSize
      BY <1>1, <1>3, <2>1, <2>3
    <3> QED
      BY <1>4, <2>2, <3>1
  <2> QED
    BY <1>3, <2>1, <2>3 DEF b
<1> QED
  BY <1>3, <1>6

\* The blocks of a sequence come after those of the sequences before it.
LEMMA RowsFollow ==
  ASSUME NEW n, NEW spec, IsSpec(spec, n), NEW i \in 1..(n + 1)
  PROVE  /\ FirstBlock(spec, i) \in Nat \ {0}
         /\ \A j \in 1..n : j < i => FirstBlock(spec, j) + Blocks(spec, j) <= FirstBlock(spec, i)
<1> DEFINE held == [j \in DOMAIN spec |-> Blocks(spec, j)]
<1>1. n \in Nat /\ DOMAIN spec = 1..n /\ \A j \in 1..n : held[j] \in Int /\ held[j] >= 0
  <2>1. n \in Nat /\ DOMAIN spec = 1..n
    BY DEF IsSpec
  <2>2. \A j \in 1..n : Blocks(spec, j) \in Nat
    BY BlocksHold
  <2> QED
    BY <2>1, <2>2
<1>2. \A j \in 1..n : held[j] = Blocks(spec, j)
  BY <1>1
<1>3. FirstBlock(spec, i) = 1 + SumFunctionOnSet(held, 1..(i - 1))
  BY DEF FirstBlock
<1> HIDE DEF held
<1>4. ASSUME NEW S \in SUBSET (1..n)
      PROVE  /\ IsFiniteSet(S) /\ SumFunctionOnSet(held, S) \in Int
             /\ SumFunctionOnSet(held, S) >= 0
  <2>1. IsFiniteSet(S)
    BY <1>1, PartOfInterval
  <2> QED
    BY <1>1, <2>1, SumType
<1>5. 1..(i - 1) \in SUBSET (1..n)
  BY <1>1
<1>6. FirstBlock(spec, i) \in Nat \ {0}
  BY <1>3, <1>4, <1>5
<1>7. ASSUME NEW j \in 1..n, j < i
      PROVE  FirstBlock(spec, j) + Blocks(spec, j) <= FirstBlock(spec, i)
  <2> DEFINE before == 1..(j - 1)
             after  == (j + 1)..(i - 1)
             others == before \cup after
  <2>1. FirstBlock(spec, j) = 1 + SumFunctionOnSet(held, before)
    BY DEF FirstBlock, held
  <2>2. /\ before \in SUBSET (1..n) /\ after \in SUBSET (1..n) /\ others \in SUBSET (1..n)
        /\ before \cap after = {} /\ j \notin others /\ 1..(i - 1) = others \cup {j}
    BY <1>1, <1>7
  <2> HIDE DEF before, after
  <2>3. SumFunctionOnSet(held, others)
         = SumFunctionOnSet(held, before) + SumFunctionOnSet(held, after)
    <3>1. \A k \in before \cup after : held[k] \in Int
      BY <1>1, <2>2
    <3> QED
      BY <1>4, <2>2, <3>1, SumUnion
  <2> HIDE DEF others
  <2>4. SumFunctionOnSet(held, others \cup {j}) = held[j] + SumFunctionOnSet(held, others)
    BY <1>1, <1>4, <2>2, SumAdd
  <2>5. SumFunctionOnSet(held, 1..(i - 1)) = held[j] + SumFunctionOnSet(held, others)
    BY ONLY <2>2, <2>4, Zenon
  <2>6. /\ SumFunctionOnSet(held, before) \in Int
        /\ SumFunctionOnSet(held, after) \in Int /\ SumFunctionOnSet(held, after) >= 0
        /\ held[j] \in Int /\ held[j] = Blocks(spec, j)
    BY <1>1, <1>2, <1>4, <2>2
  <2> QED
    BY <1>3, <2>1, <2>3, <2>5, <2>6
<1> QED
  BY <1>6, <1>7

\* The block a token is copied to before the shuffle.
TokenBlock(spec, i, q) == FirstBlock(spec, i) + (q \div BlockSize)

\* Two tokens of a batch never share a slot, and none uses block 0.
LEMMA TokensApart ==
  ASSUME NEW n, NEW spec, IsSpec(spec, n),
         NEW i \in 1..n, NEW q \in 0..(spec[i].len - 1)
  PROVE  /\ TokenBlock(spec, i, q) \in 1..(FirstBlock(spec, n + 1) - 1)
         /\ \A j \in 1..n : \A s \in 0..(spec[j].len - 1) :
              TokenBlock(spec, i, q) = TokenBlock(spec, j, s) /\ q % BlockSize = s % BlockSize
                => i = j /\ q = s
<1>1. BlockSize \in Nat \ {0} /\ n \in Nat /\ \A j \in 1..n : spec[j].len \in Nat
  BY TableOK DEF IsSpec
<1>2. n + 1 \in 1..(n + 1) /\ \A j \in 1..n : j \in 1..(n + 1) /\ j < n + 1
  BY <1>1
<1>3. ASSUME NEW j \in 1..n, NEW s \in 0..(spec[j].len - 1)
      PROVE  /\ TokenBlock(spec, j, s) \in Nat /\ FirstBlock(spec, j) <= TokenBlock(spec, j, s)
             /\ FirstBlock(spec, j) \in Nat \ {0} /\ Blocks(spec, j) \in Nat
             /\ TokenBlock(spec, j, s) < FirstBlock(spec, j) + Blocks(spec, j)
             /\ s \in Nat /\ s \div BlockSize \in Nat /\ s % BlockSize \in 0..(BlockSize - 1)
             /\ s = (s \div BlockSize) * BlockSize + (s % BlockSize)
  <2>1. s \in Nat
    BY <1>1
  <2>2. /\ s \div BlockSize \in Nat /\ s % BlockSize \in 0..(BlockSize - 1)
        /\ s = (s \div BlockSize) * BlockSize + (s % BlockSize)
    BY <1>1, <2>1, BlockAndPlace
  <2>3. FirstBlock(spec, j) \in Nat \ {0} /\ Blocks(spec, j) \in Nat
    BY <1>2, RowsFollow, BlocksHold
  <2>4. s \div BlockSize < Blocks(spec, j)
    BY BlocksHold
  <2> QED
    BY <2>1, <2>2, <2>3, <2>4 DEF TokenBlock
<1>4. TokenBlock(spec, i, q) \in 1..(FirstBlock(spec, n + 1) - 1)
  <2>1. /\ FirstBlock(spec, n + 1) \in Nat
        /\ FirstBlock(spec, i) + Blocks(spec, i) <= FirstBlock(spec, n + 1)
    BY <1>2, RowsFollow
  <2> QED
    BY <1>3, <2>1
<1>5. ASSUME NEW j \in 1..n, NEW s \in 0..(spec[j].len - 1),
             TokenBlock(spec, i, q) = TokenBlock(spec, j, s), q % BlockSize = s % BlockSize
      PROVE  i = j /\ q = s
  <2>1. /\ j < i => FirstBlock(spec, j) + Blocks(spec, j) <= FirstBlock(spec, i)
        /\ i < j => FirstBlock(spec, i) + Blocks(spec, i) <= FirstBlock(spec, j)
    BY <1>2, RowsFollow
  <2>2. ~ (j < i) /\ ~ (i < j)
    BY <1>3, <1>5, <2>1
  <2>3. i = j
    BY <1>1, <2>2
  <2>4. q \div BlockSize = s \div BlockSize
    BY <1>3, <1>5, <2>3 DEF TokenBlock
  <2> QED
    BY <1>3, <1>5, <2>3, <2>4
<1> QED
  BY <1>4, <1>5

\* A permutation has an inverse (_vllm_attn.py:233-235).
LEMMA InverseOf ==
  ASSUME NEW n \in Nat, NEW perm \in Permutations1(n), NEW b \in 1..n
  PROVE  InvPerm(perm)[b] \in 1..n /\ perm[InvPerm(perm)[b]] = b
<1>1. perm \in [1..n -> 1..n] /\ \A x, y \in 1..n : perm[x] = perm[y] => x = y
  BY DEF Permutations1
<1>2. perm \in Injection(1..n, 1..n)
  BY <1>1 DEF Injection, IsInjective
<1>3. perm \in Surjection(1..n, 1..n)
  <2>1. IsFiniteSet(1..n)
    BY FS_Interval
  <2> QED
    BY <1>2, <2>1, FS_Injection
<1>4. \E x \in 1..n : perm[x] = b
  BY <1>3 DEF Surjection
<1>5. DOMAIN perm = 1..n
  BY <1>1
<1> QED
  BY <1>4, <1>5 DEF InvPerm

\* After the shuffle, a token is where the block table says.
LEMMA SlotOf ==
  ASSUME NEW n, NEW spec, IsSpec(spec, n), NEW perm \in Permutations1(FirstBlock(spec, n + 1) - 1),
         NEW i \in 1..n, NEW q \in 0..(spec[i].len - 1)
  PROVE  /\ Slot(spec, perm, i, q) \in BlockSize..(FirstBlock(spec, n + 1) * BlockSize - 1)
         /\ perm[Slot(spec, perm, i, q) \div BlockSize] = TokenBlock(spec, i, q)
         /\ Slot(spec, perm, i, q) % BlockSize = q % BlockSize
<1> DEFINE end == FirstBlock(spec, n + 1)
           b   == TokenBlock(spec, i, q)
           to  == InvPerm(perm)[b]
           place == q % BlockSize
<1>1. BlockSize \in Nat \ {0} /\ n \in Nat /\ q \in Nat
  BY TableOK DEF IsSpec
<1>2. end \in Nat \ {0} /\ n + 1 \in 1..(n + 1)
  BY <1>1, RowsFollow
<1>3. b \in 1..(end - 1)
  BY TokensApart
<1>4. to \in 1..(end - 1) /\ perm[to] = b
  <2>1. end - 1 \in Nat
    BY <1>2
  <2> QED
    BY <1>3, <2>1, InverseOf
<1>5. place \in 0..(BlockSize - 1)
  BY <1>1, BlockAndPlace
<1>6. Slot(spec, perm, i, q) = to * BlockSize + place
  BY DEF Slot, TokenBlock
<1> HIDE DEF end, b, to, place
<1>7. /\ (to * BlockSize + place) \div BlockSize = to
      /\ (to * BlockSize + place) % BlockSize = place
  <2>1. to \in Nat
    BY <1>2, <1>4
  <2> QED
    BY <1>1, <1>5, <2>1, SlotParts
<1>8. to * BlockSize + place \in BlockSize..(end * BlockSize - 1)
  <2>1. /\ 1 * BlockSize <= to * BlockSize /\ (to + 1) * BlockSize <= end * BlockSize
        /\ (to + 1) * BlockSize = to * BlockSize + BlockSize
        /\ to * BlockSize \in Int /\ end * BlockSize \in Int
    BY <1>1, <1>2, <1>4
  <2> QED
    BY <1>1, <1>5, <2>1
<1> QED
  BY <1>4, <1>6, <1>7, <1>8 DEF end, b, to, place

\* Two tokens have two slots.
LEMMA SlotsApart ==
  ASSUME NEW n, NEW spec, IsSpec(spec, n), NEW perm \in Permutations1(FirstBlock(spec, n + 1) - 1),
         NEW i \in 1..n, NEW q \in 0..(spec[i].len - 1),
         NEW j \in 1..n, NEW s \in 0..(spec[j].len - 1),
         Slot(spec, perm, i, q) = Slot(spec, perm, j, s)
  PROVE  i = j /\ q = s
<1>1. TokenBlock(spec, i, q) = TokenBlock(spec, j, s) /\ q % BlockSize = s % BlockSize
  <2>1. /\ perm[Slot(spec, perm, i, q) \div BlockSize] = TokenBlock(spec, i, q)
        /\ Slot(spec, perm, i, q) % BlockSize = q % BlockSize
    BY SlotOf
  <2>2. /\ perm[Slot(spec, perm, j, s) \div BlockSize] = TokenBlock(spec, j, s)
        /\ Slot(spec, perm, j, s) % BlockSize = s % BlockSize
    BY SlotOf
  <2> QED
    BY <2>1, <2>2
<1> QED
  BY <1>1, TokensApart

LEMMA CellsOf ==
  ASSUME NEW n, NEW spec, IsSpec(spec, n)
  PROVE  /\ \A i \in 1..n : \A q \in 0..(spec[i].len - 1) : <<i, q>> \in Cells(spec)
         /\ \A cell \in Cells(spec) :
              /\ cell[1] \in 1..n /\ cell[2] \in 0..(spec[cell[1]].len - 1)
              /\ cell = <<cell[1], cell[2]>>
         /\ \A i \in 1..n : Context(spec, i) \subseteq 0..(spec[i].len - 1)
<1>1. DOMAIN spec = 1..n
  BY DEF IsSpec
<1>2. \A i \in 1..n : Context(spec, i) \subseteq 0..(spec[i].len - 1)
  BY DEF IsSpec, Context
<1>3. ASSUME NEW cell \in Cells(spec)
      PROVE  /\ cell[1] \in 1..n /\ cell[2] \in 0..(spec[cell[1]].len - 1)
             /\ cell = <<cell[1], cell[2]>>
  <2>1. PICK i \in 1..n : cell \in {i} \X (0..(spec[i].len - 1))
    BY <1>1 DEF Cells
  <2> QED
    BY <2>1
<1>4. ASSUME NEW i \in 1..n, NEW q \in 0..(spec[i].len - 1)
      PROVE  <<i, q>> \in Cells(spec)
  BY <1>1 DEF Cells
<1> QED
  BY <1>2, <1>3, <1>4

\* A token of the context is copied to its place in its block, alone
\* (_vllm_attn.py:222-230).
LEMMA CopiedAlone ==
  ASSUME NEW n, NEW spec, IsSpec(spec, n), NEW i \in 1..n, NEW q \in Context(spec, i)
  PROVE  LET s == TokenBlock(spec, i, q) * BlockSize + (q % BlockSize)
         IN  /\ s \in DOMAIN Prepopulated(spec)
             /\ Prepopulated(spec)[s] = <<i, q>>
<1> DEFINE end == FirstBlock(spec, n + 1)
           s   == TokenBlock(spec, i, q) * BlockSize + (q % BlockSize)
           at  == {cell \in Cells(spec) : /\ cell[2] \in Context(spec, cell[1])
                                         /\ s = FirstBlock(spec, cell[1]) * BlockSize + cell[2]}
<1>1. /\ BlockSize \in Nat \ {0} /\ n \in Nat /\ Len(spec) = n
      /\ \A j \in 1..n : spec[j].len \in Nat
  BY TableOK DEF IsSpec
<1>2. ASSUME NEW j \in 1..n, NEW r \in 0..(spec[j].len - 1)
      PROVE  /\ FirstBlock(spec, j) * BlockSize + r
                   = TokenBlock(spec, j, r) * BlockSize + (r % BlockSize)
             /\ TokenBlock(spec, j, r) \in 1..(end - 1)
             /\ r % BlockSize \in 0..(BlockSize - 1)
  <2> DEFINE f == FirstBlock(spec, j)
             d == r \div BlockSize
             m == r % BlockSize
  <2>1. f \in Nat /\ r \in Nat
    BY <1>1, RowsFollow
  <2>2. d \in Nat /\ m \in 0..(BlockSize - 1) /\ r = d * BlockSize + m
    BY <1>1, <2>1, BlockAndPlace
  <2>3. TokenBlock(spec, j, r) = f + d
    BY DEF TokenBlock
  <2> HIDE DEF f, d, m
  <2>4. (f + d) * BlockSize = f * BlockSize + d * BlockSize
    BY <1>1, <2>1, <2>2
  <2>5. f * BlockSize \in Int /\ d * BlockSize \in Int
    BY <1>1, <2>1, <2>2
  <2>6. f * BlockSize + r = (f + d) * BlockSize + m
    BY <2>1, <2>2, <2>4, <2>5
  <2>7. TokenBlock(spec, j, r) \in 1..(end - 1)
    BY TokensApart
  <2> QED
    BY <2>2, <2>3, <2>6, <2>7 DEF f, m
<1>3. q \in 0..(spec[i].len - 1) /\ <<i, q>> \in Cells(spec)
  BY CellsOf
<1>4. <<i, q>> \in at
  BY <1>2, <1>3
<1>5. ASSUME NEW cell \in at
      PROVE  cell = <<i, q>>
  <2>1. /\ cell[1] \in 1..n /\ cell[2] \in 0..(spec[cell[1]].len - 1)
        /\ cell = <<cell[1], cell[2]>>
    BY CellsOf
  <2>2. TokenBlock(spec, cell[1], cell[2]) * BlockSize + (cell[2] % BlockSize) = s
    BY <1>2, <2>1
  <2>3. /\ TokenBlock(spec, cell[1], cell[2]) = TokenBlock(spec, i, q)
        /\ cell[2] % BlockSize = q % BlockSize
    <3> DEFINE a == TokenBlock(spec, cell[1], cell[2])
               b == TokenBlock(spec, i, q)
               x == cell[2] % BlockSize
               y == q % BlockSize
    <3>1. a \in Nat /\ b \in Nat /\ x \in 0..(BlockSize - 1) /\ y \in 0..(BlockSize - 1)
      BY <1>2, <1>3, <2>1
    <3>2. a * BlockSize + x = b * BlockSize + y
      BY <2>2
    <3> HIDE DEF a, b, x, y
    <3>3. (a * BlockSize + x) \div BlockSize = a /\ (a * BlockSize + x) % BlockSize = x
      BY <1>1, <3>1, SlotParts
    <3>4. (b * BlockSize + y) \div BlockSize = b /\ (b * BlockSize + y) % BlockSize = y
      BY <1>1, <3>1, SlotParts
    <3> QED
      BY <3>2, <3>3, <3>4 DEF a, b, x, y
  <2>4. cell[1] = i /\ cell[2] = q
    BY <1>3, <2>1, <2>3, TokensApart
  <2> QED
    BY <2>1, <2>4
<1>6. at = {<<i, q>>}
  <2> HIDE DEF at
  <2> QED
    BY <1>4, <1>5
<1>7. s \in 0..(end * BlockSize - 1)
  <2> DEFINE b     == TokenBlock(spec, i, q)
             place == q % BlockSize
  <2>1. b \in 1..(end - 1) /\ place \in 0..(BlockSize - 1) /\ end \in Nat
    <3>1. n + 1 \in 1..(n + 1)
      BY <1>1
    <3>2. end \in Nat
      BY <3>1, RowsFollow
    <3> QED
      BY <1>2, <1>3, <3>2
  <2> HIDE DEF b, end, place
  <2>2. /\ (b + 1) * BlockSize <= end * BlockSize /\ (b + 1) * BlockSize = b * BlockSize + BlockSize
        /\ b * BlockSize \in Nat /\ end * BlockSize \in Nat
    BY <1>1, <2>1
  <2>3. b * BlockSize + place \in 0..(end * BlockSize - 1)
    BY <1>1, <2>1, <2>2
  <2> QED
    BY <2>3 DEF b, end, place
<1>8. /\ DOMAIN Prepopulated(spec) = 0..(end * BlockSize - 1)
      /\ Prepopulated(spec)[s] = IF at = {} THEN NONE ELSE CHOOSE cell \in at : TRUE
  BY <1>1, <1>7 DEF Prepopulated
<1> HIDE DEF at, s
<1> QED
  BY <1>6, <1>7, <1>8 DEF s

\* Whatever the permutation, every token is read back in its place.
LEMMA ForwardReads ==
  ASSUME NEW n, NEW spec, IsSpec(spec, n), NEW perm \in Permutations1(FirstBlock(spec, n + 1) - 1)
  PROVE  Forward(spec, perm) = [i \in DOMAIN spec |-> [q \in 0..(spec[i].len - 1) |-> <<i, q>>]]
<1> DEFINE end   == FirstBlock(spec, n + 1)
           new   == {cell \in Cells(spec) : cell[2] \notin Context(spec, cell[1])}
           old   == Shuffled(Prepopulated(spec), perm)
           to(s) == {cell \in new : Slot(spec, perm, cell[1], cell[2]) = s}
           written == [s \in DOMAIN old |-> IF to(s) = {} THEN old[s] ELSE CHOOSE cell \in to(s) : TRUE]
<1>1. /\ BlockSize \in Nat \ {0} /\ n \in Nat /\ Len(spec) = n /\ DOMAIN spec = 1..n
  BY TableOK DEF IsSpec
<1>2. DOMAIN old = 0..(end * BlockSize - 1)
  BY <1>1 DEF Shuffled, Prepopulated
<1>3. ASSUME NEW i \in 1..n, NEW q \in 0..(spec[i].len - 1)
      PROVE  written[Slot(spec, perm, i, q)] = <<i, q>>
  <2> DEFINE s == Slot(spec, perm, i, q)
  <2>1. /\ s \in BlockSize..(end * BlockSize - 1)
        /\ perm[s \div BlockSize] = TokenBlock(spec, i, q) /\ s % BlockSize = q % BlockSize
    BY SlotOf
  <2>2. s \in DOMAIN old /\ ~ (s < BlockSize)
    BY <1>1, <1>2, <2>1
  <2>3. ASSUME NEW cell \in to(s)
        PROVE  cell = <<i, q>>
    <3>1. /\ cell[1] \in 1..n /\ cell[2] \in 0..(spec[cell[1]].len - 1)
          /\ cell = <<cell[1], cell[2]>> /\ Slot(spec, perm, cell[1], cell[2]) = s
      BY CellsOf
    <3>2. cell[1] = i /\ cell[2] = q
      BY <3>1, SlotsApart
    <3> QED
      BY <3>1, <3>2
  <2>4. written[s] = IF to(s) = {} THEN old[s] ELSE CHOOSE cell \in to(s) : TRUE
    BY <2>2
  <2>5. CASE q \in Context(spec, i)
    <3>1. to(s) = {}
      BY <2>3, <2>5
    <3>2. old[s] = Prepopulated(spec)[perm[s \div BlockSize] * BlockSize + (s % BlockSize)]
      BY <2>2 DEF Shuffled
    <3>3. old[s] = <<i, q>>
      <4> HIDE DEF s, old
      <4> QED
        BY <2>1, <2>5, <3>2, CopiedAlone
    <3> HIDE DEF s, old, to, written
    <3> QED
      BY <2>4, <3>1, <3>3 DEF s
  <2>6. CASE q \notin Context(spec, i)
    <3>1. <<i, q>> \in to(s)
      BY <2>6, CellsOf
    <3>2. to(s) = {<<i, q>>}
      <4> HIDE DEF to, s
      <4> QED
        BY <2>3, <3>1
    <3> HIDE DEF s, old, to, written
    <3> QED
      BY <2>4, <3>2 DEF s
  <2> QED
    BY <2>5, <2>6
<1>4. Forward(spec, perm) =
        [i \in DOMAIN spec |-> [q \in 0..(spec[i].len - 1) |-> written[Slot(spec, perm, i, q)]]]
  BY DEF Forward
<1> HIDE DEF written
<1> QED
  BY <1>1, <1>3, <1>4

\* The batch of a case is one.
LEMMA SpecOf ==
  ASSUME NEW c \in Case, CaseTable[c].op = "attention"
  PROVE  IsSpec(BatchSpec(CaseTable[c].params), CaseTable[c].params.seqs)
<1>1. CaseTable[c].params.seqs \in Nat /\ CaseTable[c].params.len \in Nat \ {0}
  BY TableOK
<1> QED
  BY <1>1 DEF BatchSpec, IsSpec

\* Every sequence of a timed attention case reads its own tokens, each in its
\* place, for any batch, block size and permutation (_vllm_attn.py:223-253).
THEOREM ReadsItsOwnContextAlways == Spec => []ReadsItsOwnContext
<1>1. Init => ReadsItsOwnContext
  BY DEF Init, ReadsItsOwnContext
<1>2. Inv /\ ReadsItsOwnContext /\ [Next]_vars => ReadsItsOwnContext'
  <2> SUFFICES ASSUME Inv, ReadsItsOwnContext, [Next]_vars
               PROVE  ReadsItsOwnContext'
    OBVIOUS
  <2>1. CASE Measure
    <3> DEFINE c == First
               p == CaseTable[c].params
               spec == BatchSpec(p)
    <3>1. PICK captured \in BOOLEAN, timed \in Timings[c] :
            records' = records \cup {BuildRecord(c, UsedGraph(BenchConfig(p), captured), timed)}
      BY <2>1 DEF Measure
    <3>2. c \in Case /\ CaseTable[c].op = Op
      BY <2>1, FirstIn DEF Measure, Inv, Types, Place
    <3>3. ASSUME Op = "attention"
          PROVE  timed = [i \in DOMAIN spec |-> [q \in 0..(spec[i].len - 1) |-> <<i, q>>]]
      <4>1. IsSpec(spec, p.seqs)
        BY <3>2, <3>3, SpecOf
      <4>2. timed \in Timed("attention", p)
        BY <3>1, <3>2, <3>3 DEF Timings
      <4>3. PICK perm \in Permutations1(FirstBlock(spec, p.seqs + 1) - 1) :
              timed = Forward(spec, perm)
        BY <4>2 DEF Timed
      <4> HIDE DEF spec
      <4> QED
        BY <4>1, <4>3, ForwardReads
    <3>4. ASSUME NEW r \in records', r \notin records, r.op = "attention"
          PROVE  r.timed = [i \in DOMAIN BatchSpec(CaseTable[r.case].params) |->
                              [q \in 0..(BatchSpec(CaseTable[r.case].params)[i].len - 1) |-> <<i, q>>]]
      <4>1. r.case = c /\ r.op = Op /\ r.timed = timed
        BY <3>1, <3>4 DEF BuildRecord
      <4> QED
        BY <3>3, <3>4, <4>1
    <3> QED
      BY <3>1, <3>4 DEF ReadsItsOwnContext
  <2>2. CASE records' = records
    BY <2>2 DEF ReadsItsOwnContext
  <2> QED
    BY <2>1, <2>2 DEF Next, Upgrade, Launch, NextFramework, BeginOp, ImportFails, Fail, EndOp,
                      EndFramework, Exit, vars, disk
<1> QED
  BY <1>1, <1>2, InvCorrect, PTL DEF Spec
-----------------------------------------------------------------------------
(* Balanced routing.  The experts of a token are those of one remainder by *)
(* the stride; how many choices fall on the experts before a given one     *)
(* then has a closed form.                                                 *)

\* A case of balanced routing, its experts divided evenly among choices and GPUs.
IsBalanced(p) ==
  /\ p.tokens \in Nat \ {0} /\ p.experts \in Nat \ {0}
  /\ p.topk \in Nat \ {0} /\ p.ep \in Nat \ {0}
  /\ p.distribution = "balanced"
  /\ p.experts % p.topk = 0 /\ p.experts % p.ep = 0

Stride(p)   == p.experts \div p.topk
Tokens(p)   == 0..(p.tokens - 1)
Spread(p, t) == IF p.tokens >= Stride(p) THEN t ELSE (t * Stride(p)) \div p.tokens

ExpertsFor(p, t) ==
  {e \in 0..(p.experts - 1) : e % Stride(p) = Spread(p, t) % Stride(p)}

LEMMA Divided ==
  ASSUME NEW n \in Nat \ {0}, NEW m \in Nat \ {0}, m % n = 0
  PROVE  m \div n \in Nat \ {0} /\ m = (m \div n) * n
<1> DEFINE q == m \div n
<1>1. q \in Nat /\ m = q * n + (m % n)
  BY BlockAndPlace
<1> HIDE DEF q
<1>2. m = q * n /\ q # 0
  <2>1. q * n \in Nat
    BY <1>1
  <2>2. m = q * n
    BY <1>1, <2>1
  <2>3. q = 0 => q * n = 0
    BY <1>1
  <2> QED
    BY <2>2, <2>3
<1> QED
  BY <1>1, <1>2 DEF q

\* The stride of _balanced_logits is the number of experts for every choice.
LEMMA StrideIs ==
  ASSUME NEW p, IsBalanced(p)
  PROVE  /\ Stride(p) \in Nat \ {0} /\ p.experts = Stride(p) * p.topk
         /\ \A t \in Tokens(p) : Spread(p, t) \in Nat
         /\ \A t \in Tokens(p), j \in Nat :
              BalancedExpert(p, t, j) = (Spread(p, t) + j * Stride(p)) % p.experts
<1> DEFINE s == Stride(p)
           k == p.topk
<1>1. s \in Nat \ {0} /\ p.experts = s * k /\ k \in Nat \ {0} /\ p.tokens \in Nat \ {0}
  BY Divided DEF IsBalanced, Stride
<1>2. (p.experts + k - 1) \div k = s
  <2> HIDE DEF s, k
  <2> DEFINE m == s * k
  <2>1. m \in Nat /\ k - 1 \in 0..(k - 1)
    BY <1>1
  <2>2. (m + (k - 1)) \div k = s
    BY <1>1, <2>1, SlotParts
  <2> HIDE DEF m
  <2>3. m + k - 1 = m + (k - 1)
    BY <1>1, <2>1
  <2>4. p.experts = m
    BY <1>1 DEF m
  <2> QED
    BY <2>2, <2>3, <2>4
<1>3. \A t \in Tokens(p) : Spread(p, t) \in Nat
  <2> SUFFICES ASSUME NEW t \in Tokens(p) PROVE Spread(p, t) \in Nat
    OBVIOUS
  <2>1. t \in Nat
    BY DEF Tokens
  <2> HIDE DEF s
  <2> DEFINE m == t * s
  <2>2. m \in Nat
    BY <1>1, <2>1
  <2> HIDE DEF m
  <2>3. m \div p.tokens \in Nat
    BY <1>1, <2>2
  <2> QED
    BY <2>1, <2>3 DEF Spread, m, s
<1>4. \A t \in Tokens(p), j \in Nat :
        BalancedExpert(p, t, j) = (Spread(p, t) + j * s) % p.experts
  <2> SUFFICES ASSUME NEW t \in Tokens(p), NEW j \in Nat
               PROVE  BalancedExpert(p, t, j) = (Spread(p, t) + j * s) % p.experts
    OBVIOUS
  <2> QED
    BY <1>2, Zenon DEF BalancedExpert, Spread
<1> QED
  BY <1>1, <1>3, <1>4

\* How many numbers below n have the remainder x.
LEMMA RemaindersCounted ==
  ASSUME NEW s \in Nat \ {0}, NEW n \in Nat, NEW x \in 0..(s - 1)
  PROVE  LET C == {t \in 0..(n - 1) : t % s = x}
         IN  /\ IsFiniteSet(C)
             /\ Cardinality(C) = (n \div s) + (IF x < n % s THEN 1 ELSE 0)
<1> DEFINE C == {t \in 0..(n - 1) : t % s = x}
           q == n \div s
           r == n % s
           m == q + (IF x < r THEN 1 ELSE 0)
           f == [j \in 0..(m - 1) |-> j * s + x]
<1>1. q \in Nat /\ r \in 0..(s - 1) /\ n = q * s + r
  BY BlockAndPlace
<1>2. m \in Nat /\ m \in {q, q + 1} /\ (m = q + 1 <=> x < r)
  <2> HIDE DEF q, r
  <2> QED
    BY <1>1
<1> HIDE DEF q, r
<1>3. \A a, b \in Nat : a <= b => a * s <= b * s
  OBVIOUS
<1>4. \A a \in Nat : a * s \in Nat /\ (a + 1) * s = a * s + s
  OBVIOUS
<1>5. ASSUME NEW j \in 0..(m - 1)
      PROVE  f[j] \in C /\ f[j] \div s = j
  <2>1. j \in Nat /\ j <= q
    BY <1>1, <1>2
  <2>2. j * s + x \in Nat /\ (j * s + x) \div s = j /\ (j * s + x) % s = x
    BY <2>1, SlotParts
  <2>3. j * s + x < n
    <3>1. CASE j = q
      <4>1. x < r
        BY <1>1, <1>2, <3>1
      <4>2. q * s \in Nat
        BY <1>1, <1>4
      <4> QED
        BY <1>1, <3>1, <4>1, <4>2
    <3>2. CASE j # q
      <4>1. j + 1 <= q
        BY <1>1, <2>1, <3>2
      <4>2. (j + 1) * s <= q * s
        BY <1>1, <1>3, <2>1, <4>1
      <4>3. j * s + s <= q * s /\ j * s \in Nat /\ q * s \in Nat
        BY <1>1, <1>4, <2>1, <4>2
      <4> QED
        BY <1>1, <4>3
    <3> QED
      BY <3>1, <3>2
  <2> QED
    BY <2>2, <2>3
<1>6. ASSUME NEW t \in C
      PROVE  \E j \in 0..(m - 1) : f[j] = t
  <2> DEFINE j == t \div s
  <2>1. j \in Nat /\ t = j * s + x /\ t \in Nat /\ t < n
    BY BlockAndPlace
  <2> HIDE DEF j
  <2>2. j <= q
    <3>1. SUFFICES ASSUME q + 1 <= j PROVE FALSE
      BY <1>1, <2>1
    <3>2. (q + 1) * s <= j * s
      BY <1>1, <1>3, <2>1, <3>1
    <3>3. q * s + s <= j * s /\ q * s \in Nat /\ j * s \in Nat
      BY <1>1, <1>4, <2>1, <3>2
    <3> QED
      BY <1>1, <2>1, <3>3
  <2>3. j = q => x < r
    <3>1. q * s \in Nat
      BY <1>1, <1>4
    <3> QED
      BY <1>1, <2>1, <3>1
  <2>4. j \in 0..(m - 1)
    BY <1>1, <1>2, <2>1, <2>2, <2>3
  <2>5. f[j] = t
    BY <2>1, <2>4
  <2> QED
    BY <2>4, <2>5
<1>7. f \in Bijection(0..(m - 1), C)
  <2>1. f \in [0..(m - 1) -> C]
    BY <1>5
  <2>2. \A a, b \in 0..(m - 1) : f[a] = f[b] => a = b
    <3> HIDE DEF f, C
    <3>1. \A a \in 0..(m - 1) : f[a] \div s = a
      BY <1>5
    <3> QED
      BY <3>1, Zenon
  <2> HIDE DEF f, C
  <2> QED
    BY <1>6, <2>1, <2>2 DEF Bijection, Injection, Surjection, IsInjective
<1>8. IsFiniteSet(0..(m - 1)) /\ Cardinality(0..(m - 1)) = m
  <2> HIDE DEF m
  <2> QED
    BY <1>2, FS_Interval
<1>9. IsFiniteSet(C) /\ Cardinality(C) = m
  <2> HIDE DEF f, C, m
  <2>1. ExistsBijection(0..(m - 1), C)
    BY <1>7 DEF ExistsBijection
  <2> QED
    BY <1>8, <2>1, FS_Bijection
<1> QED
  BY <1>9 DEF q, r

\* The choices of a token are exactly the experts of its remainder.
LEMMA LogitIs ==
  ASSUME NEW p, IsBalanced(p), NEW t \in Tokens(p), NEW e \in 0..(p.experts - 1)
  PROVE  /\ Logit(p, t, e) \in Nat
         /\ Logit(p, t, e) # 0 <=> e \in ExpertsFor(p, t)
<1> DEFINE s == Stride(p)
           k == p.topk
           E == p.experts
           a == Spread(p, t)
           u == a \div s
           v == a % s
           i == e \div s
           y == e % s
           J == {j \in 0..(k - 1) : BalancedExpert(p, t, j) = e}
<1>1. /\ s \in Nat \ {0} /\ k \in Nat \ {0} /\ E \in Nat \ {0} /\ E = s * k
      /\ a \in Nat /\ \A j \in Nat : BalancedExpert(p, t, j) = (a + j * s) % E
  BY StrideIs DEF IsBalanced
<1>2. e \in ExpertsFor(p, t) <=> y = v
  BY DEF ExpertsFor
<1>3. IsFiniteSet(J)
  <2>1. IsFiniteSet(0..(k - 1))
    <3>1. 0 \in Int /\ k - 1 \in Int
      BY <1>1
    <3> HIDE DEF k
    <3> QED
      BY <3>1, FS_Interval
  <2> QED
    BY <2>1, FS_Subset
<1> HIDE DEF s, k, E, a
<1>4. /\ u \in Nat /\ v \in 0..(s - 1) /\ a = u * s + v
      /\ i \in Nat /\ y \in 0..(s - 1) /\ e = i * s + y
  <2>1. e \in Nat
    BY <1>1 DEF E
  <2> QED
    BY <1>1, <2>1, BlockAndPlace
<1>5. e < E
  BY <1>1 DEF E
<1> HIDE DEF u, v, i, y
<1>6. ASSUME NEW j \in J
      PROVE  y = v
  <2> DEFINE b == a + j * s
             w == b \div E
             d == u + j - w * k
  <2>1. j \in Nat /\ b \in Nat /\ b % E = e
    <3>1. j \in Nat
      BY <1>1
    <3>2. BalancedExpert(p, t, j) = e
      OBVIOUS
    <3>3. j * s \in Nat
      BY <1>1, <3>1
    <3> QED
      BY <1>1, <3>1, <3>2, <3>3
  <2>2. w \in Nat /\ b = w * E + e
    <3> HIDE DEF b
    <3> QED
      BY <1>1, <2>1, BlockAndPlace
  <2> HIDE DEF w
  <2>3. d \in Int /\ d * s + v = i * s + y
    <3>1. (u + j - w * k) * s = u * s + j * s - w * (s * k)
      BY <1>1, <1>4, <2>1, <2>2
    <3>2. u * s + v + j * s = w * (s * k) + (i * s + y)
      BY <1>1, <1>4, <2>2
    <3>3. u * s \in Int /\ j * s \in Int /\ w * (s * k) \in Int /\ i * s \in Int /\ w * k \in Int
      BY <1>1, <1>4, <2>1, <2>2
    <3> QED
      BY <1>4, <2>1, <3>1, <3>2, <3>3
  <2> HIDE DEF d
  <2>4. /\ d \in Int /\ i \in Int /\ s \in Nat \ {0} /\ v \in 0..(s - 1) /\ y \in 0..(s - 1)
        /\ d * s + v = i * s + y
    BY <1>1, <1>4, <2>3
  <2>5. v = y
    BY ONLY <2>4, OneBlock
  <2> QED
    BY <2>5
<1>7. ASSUME y = v
      PROVE  \E j \in 0..(k - 1) : BalancedExpert(p, t, j) = e
  <2> DEFINE g == i - u
             w == g \div k
             j == g % k
             h == - w
  <2>0. g \in Int
    BY <1>4
  <2>1. w \in Int /\ j \in 0..(k - 1) /\ g = k * w + j
    <3> HIDE DEF g
    <3> QED
      BY <1>1, <2>0
  <2>2. i < k
    <3>1. SUFFICES ASSUME k <= i PROVE FALSE
      BY <1>1, <1>4
    <3>2. k * s <= i * s
      BY <1>1, <1>4, <3>1
    <3>3. k * s \in Nat /\ i * s \in Nat /\ k * s = s * k
      BY <1>1, <1>4
    <3> QED
      BY <1>1, <1>4, <1>5, <3>2, <3>3
  <2>3. g <= k - 1 /\ g \in Int
    BY <1>1, <1>4, <2>2
  <2> HIDE DEF w, j, g
  <2>4. h \in Nat
    <3>1. SUFFICES ASSUME w >= 1 PROVE FALSE
      BY <2>1
    <3>2. k * w >= k * 1
      BY <1>1, <2>1, <3>1
    <3>3. k * w \in Int
      BY <1>1, <2>1
    <3> QED
      BY <1>1, <2>1, <2>3, <3>2, <3>3
  <2>5. a + j * s = h * E + e
    <3>1. i = u + (k * w + j)
      BY <1>4, <2>1 DEF g
    <3>2. (u + (k * w + j)) * s = u * s + w * (s * k) + j * s
      BY <1>1, <1>4, <2>1
    <3>3. (- w) * (s * k) = - (w * (s * k))
      BY <1>1, <2>1
    <3>4. e = u * s + w * (s * k) + j * s + v
      BY <1>4, <1>7, <3>1, <3>2
    <3>5. u * s \in Int /\ j * s \in Int /\ w * (s * k) \in Int
      BY <1>1, <1>4, <2>1
    <3>6. h * E = - (w * (s * k))
      BY <1>1, <3>3
    <3> QED
      BY <1>4, <3>4, <3>5, <3>6
  <2>6. (a + j * s) % E = e
    <3> HIDE DEF h
    <3>1. e \in 0..(E - 1)
      BY <1>1, <1>5
    <3>2. (h * E + e) % E = e
      BY <1>1, <2>4, <3>1, SlotParts
    <3> QED
      BY <2>5, <3>2
  <2>7. BalancedExpert(p, t, j) = e
    <3>1. j \in Nat
      BY <1>1, <2>1
    <3> QED
      BY <1>1, <2>6, <3>1
  <2> QED
    BY <2>1, <2>7
<1>8. Logit(p, t, e) = Cardinality(J)
  BY DEF Logit, k
<1>9. J # {} <=> y = v
  BY <1>6, <1>7
<1> HIDE DEF J
<1> QED
  BY <1>2, <1>3, <1>8, <1>9, FS_CardinalityType, FS_EmptySet

LEMMA ChosenExperts ==
  ASSUME NEW p, IsBalanced(p), NEW t \in Tokens(p), NEW S \in ExpertChoices(p, t)
  PROVE  S = ExpertsFor(p, t)
<1> DEFINE C == ExpertsFor(p, t)
           all == 0..(p.experts - 1)
<1>1. /\ S \in SUBSET all /\ Cardinality(S) = p.topk
      /\ \A e \in S, f \in all \ S : Logit(p, t, e) >= Logit(p, t, f)
  BY DEF ExpertChoices, kSubset, IsBalanced
<1>2. IsFiniteSet(C) /\ Cardinality(C) = p.topk
  <2> DEFINE s == Stride(p)
             n == p.experts
             x == Spread(p, t) % s
  <2>1. s \in Nat \ {0} /\ p.topk \in Nat \ {0} /\ n = p.topk * s /\ n \in Nat
    <3>1. s \in Nat \ {0} /\ p.topk \in Nat \ {0} /\ n = s * p.topk
      BY StrideIs DEF IsBalanced
    <3> HIDE DEF s
    <3>2. s * p.topk = p.topk * s /\ s * p.topk \in Nat
      BY <3>1
    <3> QED
      BY <3>1, <3>2
  <2>2. x \in 0..(s - 1)
    <3>1. Spread(p, t) \in Nat
      BY StrideIs
    <3> HIDE DEF s
    <3> QED
      BY <2>1, <3>1
  <2>3. n \div s = p.topk /\ n % s = 0
    <3> HIDE DEF n, s
    <3>1. 0 \in 0..(s - 1) /\ p.topk \in Nat
      BY <2>1
    <3>2. (p.topk * s + 0) \div s = p.topk /\ (p.topk * s + 0) % s = 0
      BY <2>1, <3>1, SlotParts
    <3>3. p.topk * s + 0 = n
      BY <2>1
    <3> QED
      BY <3>2, <3>3
  <2>4. C = {e \in 0..(n - 1) : e % s = x}
    BY DEF ExpertsFor
  <2> HIDE DEF n, s, x, C
  <2>5. IsFiniteSet(C) /\ Cardinality(C) = n \div s + (IF x < n % s THEN 1 ELSE 0)
    BY <2>1, <2>2, <2>4, RemaindersCounted
  <2>6. ~ (x < n % s)
    BY <2>2, <2>3
  <2>7. n \div s + 0 = p.topk
    BY <2>1, <2>3
  <2> QED
    BY <2>5, <2>6, <2>7
<1>3. C \subseteq all
  BY DEF ExpertsFor
<1>4. IsFiniteSet(S)
  <2>1. 0 \in Int /\ p.experts - 1 \in Int
    BY DEF IsBalanced
  <2>2. IsFiniteSet(all)
    BY <2>1, FS_Interval
  <2> QED
    BY <1>1, <2>2, FS_Subset
<1> HIDE DEF C
<1>5. CASE S \subseteq C
  BY <1>1, <1>2, <1>5, FS_Subset DEF C
<1>6. CASE C \subseteq S
  BY <1>1, <1>2, <1>4, <1>6, FS_Subset DEF C
<1>7. CASE ~ (S \subseteq C) /\ ~ (C \subseteq S)
  <2>1. PICK e \in S : e \notin C
    BY <1>7
  <2>2. PICK f \in C : f \notin S
    BY <1>7
  <2>3. Logit(p, t, e) >= Logit(p, t, f)
    BY <1>1, <1>3, <2>2
  <2>4. Logit(p, t, e) = 0 /\ Logit(p, t, f) \in Nat /\ Logit(p, t, f) # 0
    BY <1>1, <1>3, <2>1, <2>2, LogitIs DEF C
  <2> QED
    BY <2>3, <2>4
<1> QED
  BY <1>5, <1>6, <1>7

-----------------------------------------------------------------------------
(* The choices that fall before expert x, with s experts between two       *)
(* choices of a token: in closed form for as many tokens as experts in a   *)
(* stride, or more, and for fewer.                                         *)

Lesser(a, b) == IF a < b THEN a ELSE b

ManyBefore(s, n, x) == (n \div s) * x + (n % s) * (x \div s) + Lesser(x % s, n % s)
FewBefore(s, n, x)  == (x * n + s - 1) \div s

LEMMA ManyStep ==
  ASSUME NEW s \in Nat \ {0}, NEW n \in Nat, NEW x \in Nat
  PROVE  /\ ManyBefore(s, n, x) \in Nat
         /\ ManyBefore(s, n, x + 1)
              = ManyBefore(s, n, x) + (n \div s) + (IF x % s < n % s THEN 1 ELSE 0)
<1> DEFINE q == n \div s
           r == n % s
           i == x \div s
           y == x % s
<1>1. /\ q \in Nat /\ r \in 0..(s - 1) /\ i \in Nat /\ y \in 0..(s - 1) /\ x = i * s + y
  BY BlockAndPlace
<1>2. ManyBefore(s, n, x) = q * x + r * i + Lesser(y, r)
  BY DEF ManyBefore
<1>3. ManyBefore(s, n, x + 1) = q * (x + 1) + r * ((x + 1) \div s) + Lesser((x + 1) % s, r)
  BY DEF ManyBefore
<1> HIDE DEF q, r, i, y
<1>4. /\ q * x \in Nat /\ r * i \in Nat /\ q * (x + 1) = q * x + q /\ r * (i + 1) = r * i + r
  BY <1>1
<1> DEFINE a == q * x
           b == r * i
<1>5. ASSUME y + 1 < s
      PROVE  /\ ManyBefore(s, n, x) \in Nat
             /\ ManyBefore(s, n, x + 1)
                  = ManyBefore(s, n, x) + q + (IF y < r THEN 1 ELSE 0)
  <2>1. x + 1 = i * s + (y + 1) /\ y + 1 \in 0..(s - 1)
    <3>1. i * s \in Nat
      BY <1>1
    <3> QED
      BY <1>1, <1>5, <3>1
  <2>2. (x + 1) \div s = i /\ (x + 1) % s = y + 1
    BY <1>1, <2>1, SlotParts
  <2>3. ManyBefore(s, n, x + 1) = a + q + b + Lesser(y + 1, r)
    BY <1>3, <1>4, <2>2
  <2>4. a \in Nat /\ b \in Nat /\ ManyBefore(s, n, x) = a + b + Lesser(y, r)
    BY <1>2, <1>4
  <2> HIDE DEF a, b
  <2> QED
    BY <1>1, <1>5, <2>3, <2>4 DEF Lesser
<1>6. ASSUME ~ (y + 1 < s)
      PROVE  /\ ManyBefore(s, n, x) \in Nat
             /\ ManyBefore(s, n, x + 1)
                  = ManyBefore(s, n, x) + q + (IF y < r THEN 1 ELSE 0)
  <2>1. x + 1 = (i + 1) * s + 0 /\ 0 \in 0..(s - 1) /\ i + 1 \in Nat
    <3>1. (i + 1) * s = i * s + s /\ i * s \in Nat
      BY <1>1
    <3> QED
      BY <1>1, <1>6, <3>1
  <2>2. (x + 1) \div s = i + 1 /\ (x + 1) % s = 0
    BY <1>1, <2>1, SlotParts
  <2>3. ManyBefore(s, n, x + 1) = a + q + b + r + Lesser(0, r)
    BY <1>1, <1>3, <1>4, <2>2
  <2>4. a \in Nat /\ b \in Nat /\ ManyBefore(s, n, x) = a + b + Lesser(y, r)
    BY <1>2, <1>4
  <2> HIDE DEF a, b
  <2> QED
    BY <1>1, <1>6, <2>3, <2>4 DEF Lesser
<1> QED
  BY <1>5, <1>6 DEF q, r, y

LEMMA ManyAdded ==
  ASSUME NEW s \in Nat \ {0}, NEW n \in Nat, NEW x \in Nat, NEW z \in Nat
  PROVE  ManyBefore(s, n, x + z) <= ManyBefore(s, n, x) + ManyBefore(s, n, z)
<1> DEFINE q == n \div s
           r == n % s
           i == x \div s
           y == x % s
           j == z \div s
           w == z % s
<1>1. /\ q \in Nat /\ r \in 0..(s - 1)
      /\ i \in Nat /\ y \in 0..(s - 1) /\ x = i * s + y
      /\ j \in Nat /\ w \in 0..(s - 1) /\ z = j * s + w
  BY BlockAndPlace
<1>2. /\ ManyBefore(s, n, x) = q * x + r * i + Lesser(y, r)
      /\ ManyBefore(s, n, z) = q * z + r * j + Lesser(w, r)
      /\ ManyBefore(s, n, x + z)
           = q * (x + z) + r * ((x + z) \div s) + Lesser((x + z) % s, r)
  BY DEF ManyBefore
<1> HIDE DEF q, r, i, y, j, w
<1>3. /\ q * x \in Nat /\ q * z \in Nat /\ r * i \in Nat /\ r * j \in Nat
      /\ q * (x + z) = q * x + q * z
      /\ r * (i + j) = r * i + r * j /\ r * (i + j + 1) = r * i + r * j + r
  BY <1>1
<1>4. i * s \in Nat /\ j * s \in Nat /\ (i + j) * s = i * s + j * s
      /\ (i + j + 1) * s = i * s + j * s + s
  BY <1>1
<1> DEFINE a == q * x
           b == q * z
           c == r * i
           d == r * j
<1>5. CASE y + w < s
  <2>1. x + z = (i + j) * s + (y + w) /\ y + w \in 0..(s - 1) /\ i + j \in Nat
    BY <1>1, <1>4, <1>5
  <2>2. (x + z) \div s = i + j /\ (x + z) % s = y + w
    BY <2>1, SlotParts
  <2>3. /\ ManyBefore(s, n, x + z) = a + b + c + d + Lesser(y + w, r)
        /\ ManyBefore(s, n, x) = a + c + Lesser(y, r)
        /\ ManyBefore(s, n, z) = b + d + Lesser(w, r)
        /\ a \in Nat /\ b \in Nat /\ c \in Nat /\ d \in Nat
    BY <1>2, <1>3, <2>2
  <2> HIDE DEF a, b, c, d
  <2> QED
    BY <1>1, <2>3 DEF Lesser
<1>6. CASE ~ (y + w < s)
  <2>1. /\ x + z = (i + j + 1) * s + (y + w - s) /\ y + w - s \in 0..(s - 1)
        /\ i + j + 1 \in Nat
    <3> DEFINE is == i * s
               js == j * s
               next == (i + j + 1) * s
    <3>1. is \in Nat /\ js \in Nat /\ next = is + js + s /\ x = is + y /\ z = js + w
      BY <1>1, <1>4
    <3> HIDE DEF is, js, next
    <3>2. x + z = next + (y + w - s)
      BY <1>1, <3>1
    <3>3. y + w - s \in 0..(s - 1) /\ i + j + 1 \in Nat
      BY <1>1, <1>6
    <3> QED
      BY <3>2, <3>3 DEF next
  <2>2. (x + z) \div s = i + j + 1 /\ (x + z) % s = y + w - s
    <3> DEFINE u == i + j + 1
               v == y + w - s
    <3>1. u \in Nat /\ v \in 0..(s - 1) /\ x + z = u * s + v
      BY <2>1
    <3> HIDE DEF u, v
    <3>2. (u * s + v) \div s = u /\ (u * s + v) % s = v
      BY <3>1, SlotParts
    <3> QED
      BY <3>1, <3>2 DEF u, v
  <2>3. /\ ManyBefore(s, n, x + z) = a + b + c + d + r + Lesser(y + w - s, r)
        /\ ManyBefore(s, n, x) = a + c + Lesser(y, r)
        /\ ManyBefore(s, n, z) = b + d + Lesser(w, r)
        /\ a \in Nat /\ b \in Nat /\ c \in Nat /\ d \in Nat
    BY <1>1, <1>2, <1>3, <2>2
  <2> HIDE DEF a, b, c, d
  <2> QED
    BY <1>1, <1>6, <2>3 DEF Lesser
<1> QED
  BY <1>5, <1>6

\* Division rounded up.
LEMMA RoundedUp ==
  ASSUME NEW s \in Nat \ {0}, NEW a \in Nat
  PROVE  LET c == (a + s - 1) \div s
         IN  c \in Nat /\ a <= c * s /\ c * s < a + s
<1> DEFINE m == a + s - 1
           c == m \div s
           r == m % s
<1>1. c \in Nat /\ r \in 0..(s - 1) /\ m = c * s + r
  <2>1. m \in Nat
    OBVIOUS
  <2> HIDE DEF m
  <2> QED
    BY <2>1, BlockAndPlace
<1> HIDE DEF c, r
<1>2. c * s \in Nat
  BY <1>1
<1>3. c \in Nat /\ a <= c * s /\ c * s < a + s
  BY <1>1, <1>2
<1> QED
  BY <1>3 DEF c, m

LEMMA RoundedUpAlone ==
  ASSUME NEW s \in Nat \ {0}, NEW a \in Nat, NEW c \in Int, a <= c * s, c * s < a + s
  PROVE  (a + s - 1) \div s = c
<1> DEFINE d == (a + s - 1) \div s
<1>1. d \in Nat /\ a <= d * s /\ d * s < a + s
  BY RoundedUp
<1> HIDE DEF d
<1>2. ASSUME NEW u \in Int, NEW v \in Int, u < v, a <= u * s, v * s < a + s
      PROVE  FALSE
  <2>1. (u + 1) * s <= v * s
    BY <1>2
  <2>2. (u + 1) * s = u * s + s /\ u * s \in Int /\ v * s \in Int
    OBVIOUS
  <2> QED
    BY <1>2, <2>1, <2>2
<1>3. ~ (c < d) /\ ~ (d < c)
  <2>1. c \in Int /\ d \in Int
    BY <1>1
  <2> QED
    BY <1>1, <1>2, <2>1
<1> QED
  BY <1>1, <1>3 DEF d

LEMMA FewAdded ==
  ASSUME NEW s \in Nat \ {0}, NEW n \in Nat, NEW x \in Nat, NEW z \in Nat
  PROVE  FewBefore(s, n, x + z) <= FewBefore(s, n, x) + FewBefore(s, n, z)
<1> DEFINE a == x * n
           b == z * n
           A == (a + s - 1) \div s
           B == (b + s - 1) \div s
           C == (a + b + s - 1) \div s
<1>1. a \in Nat /\ b \in Nat /\ a + b \in Nat /\ (x + z) * n = a + b
  OBVIOUS
<1>2. FewBefore(s, n, x) = A /\ FewBefore(s, n, z) = B
  BY DEF FewBefore
<1>3. FewBefore(s, n, x + z) = C
  BY <1>1 DEF FewBefore
<1> HIDE DEF a, b
<1>4. /\ A \in Nat /\ a <= A * s
      /\ B \in Nat /\ b <= B * s
      /\ C \in Nat /\ C * s < a + b + s
  BY <1>1, RoundedUp
<1> HIDE DEF A, B, C
<1>5. ASSUME A + B + 1 <= C PROVE FALSE
  <2>1. (A + B + 1) * s <= C * s
    BY <1>4, <1>5
  <2>2. (A + B + 1) * s = A * s + B * s + s /\ A * s \in Nat /\ B * s \in Nat /\ C * s \in Nat
    BY <1>4
  <2> QED
    BY <1>1, <1>4, <2>1, <2>2
<1> QED
  BY <1>2, <1>3, <1>4, <1>5

\* With fewer tokens than experts in a stride no two of them share an expert.
LEMMA FewStep ==
  ASSUME NEW s \in Nat \ {0}, NEW n \in Nat \ {0}, n < s, NEW x \in Nat
  PROVE  LET C == {t \in 0..(n - 1) : ((t * s) \div n) % s = x % s}
         IN  /\ FewBefore(s, n, x) \in Nat
             /\ FewBefore(s, n, x + 1) = FewBefore(s, n, x) + Cardinality(C)
<1> DEFINE C == {t \in 0..(n - 1) : ((t * s) \div n) % s = x % s}
           i == x \div s
           y == x % s
           yn == y * n
           c == (yn + s - 1) \div s
           cs == c * s
           all == (i * n) * s
<1>1. i \in Nat /\ y \in 0..(s - 1) /\ x = i * s + y
  BY BlockAndPlace
<1> HIDE DEF i, y
<1>2. yn \in Nat /\ i * n \in Nat /\ all \in Nat
  BY <1>1
<1>3. yn + n <= s * n
  <2>1. (y + 1) * n <= s * n
    BY <1>1
  <2>2. (y + 1) * n = y * n + n
    BY <1>1
  <2> QED
    BY <2>1, <2>2
<1>4. x * n = all + yn /\ (x + 1) * n = all + yn + n
  <2>1. (i * s + y) * n = (i * n) * s + y * n /\ (x + 1) * n = x * n + n
    BY <1>1
  <2> QED
    BY <1>1, <2>1
<1> HIDE DEF yn
<1>5. c \in Nat /\ yn <= c * s /\ c * s < yn + s
  BY <1>2, RoundedUp
<1> HIDE DEF c
<1>6. cs \in Nat /\ yn <= cs /\ cs < yn + s
  BY <1>5
<1>7. \A d \in Int : (i * n + d) * s = all + d * s
  BY <1>1
<1> DEFINE k == i * n
<1>8. /\ k \in Nat /\ k + c \in Nat /\ k + c + 1 \in Nat
      /\ (k + c) * s = all + cs /\ (k + c + 1) * s = all + cs + s
  <2>1. (c + 1) * s = cs + s /\ c + 1 \in Int /\ c \in Int
    BY <1>5
  <2>2. (k + c) * s = all + cs /\ (k + (c + 1)) * s = all + (c + 1) * s
    BY <1>7, <2>1
  <2>3. k + c + 1 = k + (c + 1)
    BY <1>2, <1>5
  <2> QED
    BY <1>2, <1>5, <2>1, <2>2, <2>3
<1> HIDE DEF k, cs, all
<1>9. FewBefore(s, n, x) = k + c
  <2>1. (all + yn + s - 1) \div s = k + c
    <3> DEFINE a == all + yn
               b == k + c
    <3>1. a \in Nat /\ b \in Int /\ a <= b * s /\ b * s < a + s
      BY <1>2, <1>6, <1>8
    <3> HIDE DEF a, b
    <3>2. (a + s - 1) \div s = b
      BY <3>1, RoundedUpAlone
    <3> QED
      BY <3>2 DEF a, b
  <2> QED
    BY <1>4, <2>1 DEF FewBefore
<1>10. ASSUME NEW t \in 0..(n - 1)
       PROVE  /\ t * s \in Nat
              /\ t \in C <=> yn <= t * s /\ t * s < yn + n
  <2> DEFINE m == t * s
             b == m \div n
             r == m % n
  <2>1. m \in Nat /\ m < s * n /\ s * n \in Nat
    <3>1. (t + 1) * s <= n * s /\ (t + 1) * s = t * s + s /\ n * s = s * n
      BY DEF m
    <3> QED
      BY <3>1
  <2>2. t \in C <=> b % s = y
    BY DEF y
  <2> HIDE DEF m, C
  <2>3. b \in Nat /\ r \in 0..(n - 1) /\ m = b * n + r
    BY <2>1, BlockAndPlace
  <2>4. ASSUME b = y PROVE yn <= m /\ m < yn + n
    <3> HIDE DEF b, r
    <3>1. m = yn + r
      BY <2>3, <2>4 DEF yn
    <3> QED
      BY <1>2, <2>3, <3>1
  <2>5. ASSUME yn <= m, m < yn + n PROVE b = y
    <3> DEFINE d == m - yn
    <3>1. d \in 0..(n - 1) /\ m = y * n + d /\ y \in Nat
      BY <1>1, <1>2, <2>1, <2>5 DEF yn
    <3> HIDE DEF d, b
    <3>2. (y * n + d) \div n = y
      BY <3>1, SlotParts
    <3> QED
      BY <3>1, <3>2 DEF b
  <2>6. b % s = b
    <3>1. b < s
      <4> HIDE DEF b, r
      <4>1. SUFFICES ASSUME s <= b PROVE FALSE
        BY <2>3
      <4>2. s * n <= b * n /\ b * n \in Nat
        BY <2>3, <4>1
      <4> QED
        BY <2>1, <2>3, <4>2
    <3> HIDE DEF b, r
    <3>2. b \in 0..(s - 1)
      BY <2>3, <3>1
    <3>3. b % s = b
      BY <3>2
    <3> QED
      BY <3>3
  <2> HIDE DEF b
  <2> QED
    BY <2>1, <2>2, <2>4, <2>5, <2>6 DEF m
<1> HIDE DEF C
<1>11. \A t \in 0..(n - 1) : (t < c => t * s + s <= cs) /\ (c <= t => cs <= t * s)
                             /\ (c + 1 <= t => cs + s <= t * s)
  <2> SUFFICES ASSUME NEW t \in 0..(n - 1)
               PROVE  /\ t < c => t * s + s <= cs
                      /\ c <= t => cs <= t * s
                      /\ c + 1 <= t => cs + s <= t * s
    OBVIOUS
  <2>1. \A u, v \in Int : u <= v => u * s <= v * s
    OBVIOUS
  <2>2. (t + 1) * s = t * s + s /\ (c + 1) * s = c * s + s
    BY <1>5
  <2> QED
    BY <1>5, <2>1, <2>2 DEF cs
<1>12. CASE cs < yn + n
  <2>1. c < n
    <3>1. SUFFICES ASSUME n <= c PROVE FALSE
      BY <1>5
    <3>2. n * s <= c * s /\ n * s = s * n /\ n * s \in Nat
      BY <1>5, <3>1
    <3> QED
      BY <1>2, <1>3, <1>6, <1>12, <3>2 DEF cs
  <2>2. c \in 0..(n - 1)
    BY <1>5, <2>1
  <2>3. c \in C
    BY <1>6, <1>10, <1>12, <2>2 DEF cs
  <2>4. C \subseteq 0..(n - 1)
    BY DEF C
  <2>5. ASSUME NEW t \in C PROVE t = c
    <3>1. t \in 0..(n - 1) /\ t * s \in Nat /\ yn <= t * s /\ t * s < yn + n
      BY <1>10, <2>4
    <3>2. /\ t < c => t * s + s <= cs
          /\ c + 1 <= t => cs + s <= t * s
      BY <1>11, <3>1
    <3>3. ~ (t < c) /\ ~ (c + 1 <= t)
      BY <1>2, <1>6, <3>1, <3>2
    <3> QED
      BY <1>5, <3>1, <3>3
  <2>6. C = {c}
    BY <2>3, <2>5
  <2>7. FewBefore(s, n, x + 1) = k + c + 1
    <3> DEFINE a == all + yn + n
               b == k + c + 1
    <3>1. a \in Nat /\ b \in Int /\ a <= b * s /\ b * s < a + s
      BY <1>2, <1>6, <1>8, <1>12
    <3> HIDE DEF a, b
    <3>2. (a + s - 1) \div s = b
      BY <3>1, RoundedUpAlone
    <3>3. FewBefore(s, n, x + 1) = (a + s - 1) \div s
      BY <1>4 DEF FewBefore, a
    <3> QED
      BY <3>2, <3>3 DEF b
  <2>8. Cardinality(C) = 1
    BY <2>6, FS_Singleton
  <2> QED
    BY <1>8, <1>9, <2>7, <2>8 DEF C
<1>13. CASE ~ (cs < yn + n)
  <2>1. C = {}
    <3> SUFFICES ASSUME NEW t \in C PROVE FALSE
      OBVIOUS
    <3>1. t \in 0..(n - 1)
      BY DEF C
    <3>2. t * s \in Nat /\ yn <= t * s /\ t * s < yn + n
      BY <1>10, <3>1
    <3>3. /\ t < c => t * s + s <= cs
          /\ c <= t => cs <= t * s
      BY <1>11, <3>1
    <3>4. t < c \/ c <= t
      BY <1>5, <3>1
    <3> QED
      BY <1>2, <1>6, <1>13, <3>2, <3>3, <3>4
  <2>2. FewBefore(s, n, x + 1) = k + c
    <3> DEFINE a == all + yn + n
               b == k + c
    <3>1. a \in Nat /\ b \in Int /\ a <= b * s /\ b * s < a + s
      BY <1>2, <1>6, <1>8, <1>13
    <3> HIDE DEF a, b
    <3>2. (a + s - 1) \div s = b
      BY <3>1, RoundedUpAlone
    <3>3. FewBefore(s, n, x + 1) = (a + s - 1) \div s
      BY <1>4 DEF FewBefore, a
    <3> QED
      BY <3>2, <3>3 DEF b
  <2>3. Cardinality(C) = 0
    BY <2>1, FS_EmptySet
  <2> QED
    BY <1>8, <1>9, <2>2, <2>3 DEF C
<1> QED
  BY <1>12, <1>13

-----------------------------------------------------------------------------
(* The loads of the ranks.                                                 *)

TokensFor(p, e) == {t \in Tokens(p) : e \in ExpertsFor(p, t)}

Before(p, e) == IF p.tokens >= Stride(p) THEN ManyBefore(Stride(p), p.tokens, e)
                ELSE FewBefore(Stride(p), p.tokens, e)

\* How many choices fall on the experts from a up to b, b excluded.
Fallen(p, a, b) == [t \in Tokens(p) |-> Cardinality(ExpertsFor(p, t) \cap (a..(b - 1)))]
Falls(p, a, b)  == SumFunctionOnSet(Fallen(p, a, b), Tokens(p))

LEMMA TokensFinite ==
  ASSUME NEW p, IsBalanced(p)
  PROVE  IsFiniteSet(Tokens(p))
<1>1. 0 \in Int /\ p.tokens - 1 \in Int
  BY DEF IsBalanced
<1> QED
  BY <1>1, FS_Interval DEF Tokens

LEMMA BeforeStep ==
  ASSUME NEW p, IsBalanced(p), NEW e \in 0..(p.experts - 1)
  PROVE  /\ IsFiniteSet(TokensFor(p, e)) /\ Before(p, e) \in Nat
         /\ Before(p, e + 1) = Before(p, e) + Cardinality(TokensFor(p, e))
<1> DEFINE s == Stride(p)
           n == p.tokens
           C == TokensFor(p, e)
<1>1. s \in Nat \ {0} /\ n \in Nat \ {0} /\ e \in Nat
  BY StrideIs DEF IsBalanced
<1>2. C = {t \in 0..(n - 1) : Spread(p, t) % s = e % s}
  BY DEF TokensFor, ExpertsFor, Tokens
<1>3. IsFiniteSet(C)
  BY TokensFinite, FS_Subset DEF TokensFor
<1> HIDE DEF C
<1>4. CASE n >= s
  <2>1. C = {t \in 0..(n - 1) : t % s = e % s}
    BY <1>2, <1>4 DEF Spread
  <2>2. Before(p, e) = ManyBefore(s, n, e) /\ Before(p, e + 1) = ManyBefore(s, n, e + 1)
    BY <1>4 DEF Before
  <2> HIDE DEF s, n
  <2>3. e % s \in 0..(s - 1) /\ n \in Nat
    BY <1>1
  <2>4. Cardinality(C) = (n \div s) + (IF e % s < n % s THEN 1 ELSE 0)
    <3> DEFINE x == e % s
    <3>1. x \in 0..(s - 1) /\ C = {t \in 0..(n - 1) : t % s = x}
      BY <2>1, <2>3
    <3> HIDE DEF x
    <3>2. Cardinality(C) = (n \div s) + (IF x < n % s THEN 1 ELSE 0)
      BY <1>1, <2>3, <3>1, RemaindersCounted
    <3> QED
      BY <3>2 DEF x
  <2>5. /\ ManyBefore(s, n, e) \in Nat
        /\ ManyBefore(s, n, e + 1)
             = ManyBefore(s, n, e) + (n \div s) + (IF e % s < n % s THEN 1 ELSE 0)
    BY <1>1, <2>3, ManyStep
  <2>6. n \div s \in Nat /\ (IF e % s < n % s THEN 1 ELSE 0) \in Nat
    BY <1>1
  <2> QED
    BY <1>3, <2>2, <2>4, <2>5, <2>6 DEF C
<1>5. CASE ~ (n >= s)
  <2>1. C = {t \in 0..(n - 1) : ((t * s) \div n) % s = e % s}
    BY <1>2, <1>5 DEF Spread
  <2>2. Before(p, e) = FewBefore(s, n, e) /\ Before(p, e + 1) = FewBefore(s, n, e + 1)
    BY <1>5 DEF Before
  <2> HIDE DEF s, n
  <2>3. n < s
    BY <1>1, <1>5
  <2>4. /\ FewBefore(s, n, e) \in Nat
        /\ FewBefore(s, n, e + 1) = FewBefore(s, n, e) + Cardinality(C)
    BY <1>1, <2>1, <2>3, FewStep
  <2> QED
    BY <1>3, <2>2, <2>4 DEF C
<1> QED
  BY <1>4, <1>5

LEMMA BeforeAdded ==
  ASSUME NEW p, IsBalanced(p), NEW a \in Nat, NEW b \in Nat
  PROVE  Before(p, 0) = 0 /\ Before(p, a + b) <= Before(p, a) + Before(p, b)
<1> DEFINE s == Stride(p)
           n == p.tokens
<1>1. s \in Nat \ {0} /\ n \in Nat
  BY StrideIs DEF IsBalanced
<1>2. CASE n >= s
  <2>1. \A e \in Nat : Before(p, e) = ManyBefore(s, n, e)
    BY <1>2 DEF Before
  <2> HIDE DEF s, n
  <2>2. a + b \in Nat /\ 0 \in Nat
    OBVIOUS
  <2>3. ManyBefore(s, n, 0) = 0
    <3>1. 0 \div s = 0 /\ 0 % s = 0 /\ n \div s \in Nat /\ n % s \in Nat
      BY <1>1
    <3>2. (n \div s) * 0 = 0 /\ (n % s) * 0 = 0
      BY <3>1
    <3> QED
      BY <3>1, <3>2 DEF ManyBefore, Lesser
  <2> QED
    BY <1>1, <2>1, <2>2, <2>3, ManyAdded
<1>3. CASE ~ (n >= s)
  <2>1. \A e \in Nat : Before(p, e) = FewBefore(s, n, e)
    BY <1>3 DEF Before
  <2> HIDE DEF s, n
  <2>2. a + b \in Nat /\ 0 \in Nat
    OBVIOUS
  <2>3. FewBefore(s, n, 0) = 0
    <3>1. 0 * n = 0 /\ (0 + s - 1) \div s = 0
      <4>1. 0 \in Nat /\ 0 <= 0 * s /\ 0 * s < 0 + s /\ 0 \in Int
        BY <1>1
      <4> QED
        BY <1>1, <4>1, RoundedUpAlone
    <3> QED
      BY <3>1 DEF FewBefore
  <2> QED
    BY <1>1, <2>1, <2>2, <2>3, FewAdded
<1> QED
  BY <1>2, <1>3

LEMMA FallsStep ==
  ASSUME NEW p, IsBalanced(p), NEW a \in Nat, NEW b \in a..(p.experts - 1)
  PROVE  /\ Falls(p, a, b) \in Int
         /\ Falls(p, a, b + 1) = Falls(p, a, b) + Cardinality(TokensFor(p, b))
<1> DEFINE T == Tokens(p)
           C == TokensFor(p, b)
           f == Fallen(p, a, b)
           g == Fallen(p, a, b + 1)
           h == [t \in T |-> IF t \in C THEN 1 ELSE 0]
           one == [t \in C |-> 1]
<1>1. IsFiniteSet(T) /\ C \in SUBSET T /\ IsFiniteSet(C) /\ Cardinality(C) \in Nat
  BY TokensFinite, FS_Subset, FS_CardinalityType DEF TokensFor
<1>2. ASSUME NEW t \in T
      PROVE  f[t] \in Int /\ h[t] \in Int /\ g[t] = f[t] + h[t]
  <2> DEFINE E == ExpertsFor(p, t)
             S == E \cap (a..(b - 1))
             R == E \cap (a..b)
  <2>1. IsFiniteSet(S)
    <3>1. IsFiniteSet(a..(b - 1))
      BY FS_Interval
    <3> QED
      BY <3>1, FS_Subset
  <2>2. f[t] = Cardinality(S) /\ g[t] = Cardinality(R)
    <3>1. (b + 1) - 1 = b
      OBVIOUS
    <3> QED
      BY <3>1 DEF Fallen
  <2>3. h[t] = IF b \in E THEN 1 ELSE 0
    BY DEF TokensFor
  <2>4. R = IF b \in E THEN S \cup {b} ELSE S
    <3>1. a..b = (a..(b - 1)) \cup {b}
      OBVIOUS
    <3> HIDE DEF E
    <3> QED
      BY <3>1
  <2>5. b \notin S
    OBVIOUS
  <2> HIDE DEF E, S, R, f, g, h
  <2>6. Cardinality(S) \in Nat /\ Cardinality(S \cup {b}) = Cardinality(S) + 1
    BY <2>1, <2>5, FS_AddElement, FS_CardinalityType
  <2> QED
    BY <2>2, <2>3, <2>4, <2>6
<1>3. SumFunctionOnSet(h, T) = Cardinality(C)
  <2>1. \A t \in C : one[t] \in Int /\ h[t] = one[t]
    BY <1>1
  <2>2. \A t \in T \ C : h[t] = 0
    OBVIOUS
  <2>3. \A t \in C : one[t] = 1
    OBVIOUS
  <2> HIDE DEF T, C, h, one
  <2>4. SumFunctionOnSet(h, T) = SumFunctionOnSet(one, C)
    BY <1>1, <2>1, <2>2, SumPadded
  <2>5. SumFunctionOnSet(one, C) = 1 * Cardinality(C)
    BY <1>1, <2>3, SumConstant
  <2> QED
    BY <1>1, <2>4, <2>5
<1> HIDE DEF T, C, f, g, h
<1>4. SumFunctionOnSet(g, T) = SumFunctionOnSet(f, T) + SumFunctionOnSet(h, T)
  BY <1>1, <1>2, SumPlus
<1>5. SumFunctionOnSet(f, T) \in Int
  BY <1>1, <1>2, SumType
<1> QED
  BY <1>3, <1>4, <1>5 DEF Falls, f, g, T, C

LEMMA BeforeType ==
  ASSUME NEW p, IsBalanced(p), NEW a \in 0..p.experts
  PROVE  Before(p, a) \in Nat
<1> DEFINE e == p.experts - 1
<1>1. e \in 0..(p.experts - 1) /\ (a = e + 1 \/ a \in 0..(p.experts - 1))
  BY DEF IsBalanced
<1> HIDE DEF e
<1>2. /\ Before(p, e) \in Nat /\ Cardinality(TokensFor(p, e)) \in Nat
      /\ Before(p, e + 1) = Before(p, e) + Cardinality(TokensFor(p, e))
  BY <1>1, BeforeStep, FS_CardinalityType
<1>3. a \in 0..(p.experts - 1) => Before(p, a) \in Nat
  BY BeforeStep
<1> QED
  BY <1>1, <1>2, <1>3

LEMMA FallsIs ==
  ASSUME NEW p, IsBalanced(p), NEW a \in Nat, NEW b \in a..p.experts
  PROVE  Falls(p, a, b) = Before(p, b) - Before(p, a)
<1> DEFINE n == b - a
           Good == {d \in 0..n : Falls(p, a, a + d) = Before(p, a + d) - Before(p, a)}
<1>0. n \in Nat /\ p.experts \in Nat /\ a \in 0..p.experts
  BY DEF IsBalanced
<1>1. Before(p, a) \in Nat
  BY <1>0, BeforeType
<1>2. 0 \in Good
  <2> DEFINE T == Tokens(p)
             f == Fallen(p, a, a)
  <2>1. a..(a - 1) = {}
    OBVIOUS
  <2>2. IsFiniteSet(T)
    BY TokensFinite
  <2>3. \A t \in T : f[t] = 0
    BY <2>1, FS_EmptySet DEF Fallen
  <2> HIDE DEF T, f
  <2>4. SumFunctionOnSet(f, T) = 0 * Cardinality(T)
    BY <2>2, <2>3, SumConstant
  <2>5. Falls(p, a, a) = 0
    BY <2>2, <2>4, FS_CardinalityType DEF Falls, T, f
  <2>6. a + 0 = a
    OBVIOUS
  <2> HIDE DEF n
  <2> QED
    BY <1>0, <1>1, <2>5, <2>6
<1>3. ASSUME NEW d \in 0..n, d < n, d \in Good
      PROVE  d + 1 \in Good
  <2> DEFINE e == a + d
  <2>1. e \in a..(p.experts - 1) /\ e \in 0..(p.experts - 1) /\ a + (d + 1) = e + 1 /\ d + 1 \in 0..n
    BY <1>0, <1>3
  <2>2. Falls(p, a, e) = Before(p, e) - Before(p, a)
    BY <1>3
  <2> HIDE DEF e, n
  <2>3. /\ Falls(p, a, e) \in Int
        /\ Falls(p, a, e + 1) = Falls(p, a, e) + Cardinality(TokensFor(p, e))
    BY <2>1, FallsStep
  <2>4. /\ Before(p, e) \in Nat /\ Cardinality(TokensFor(p, e)) \in Nat
        /\ Before(p, e + 1) = Before(p, e) + Cardinality(TokensFor(p, e))
    BY <2>1, BeforeStep, FS_CardinalityType
  <2>5. Falls(p, a, e + 1) = Before(p, e + 1) - Before(p, a)
    BY <1>1, <2>2, <2>3, <2>4
  <2> QED
    BY <2>1, <2>5
<1>4. n \in Good
  <2> HIDE DEF Good, n
  <2>1. 0..n \subseteq Good
    BY <1>0, <1>2, <1>3, UpToBound
  <2> QED
    BY <1>0, <2>1
<1>5. a + n = b
  OBVIOUS
<1> QED
  BY <1>4, <1>5

\* A rank has the choices that fall on its experts.
LEMMA RankLoadIs ==
  ASSUME NEW p, IsBalanced(p), NEW routing, DOMAIN routing = Tokens(p),
         \A t \in Tokens(p) : routing[t] = ExpertsFor(p, t),
         NEW rank \in 0..(p.ep - 1)
  PROVE  LET share == p.experts \div p.ep
         IN  /\ RankLoad(p, routing, rank)
                  = Before(p, rank * share + share) - Before(p, rank * share)
             /\ rank * share \in Nat /\ rank * share + share \in 0..p.experts
<1> DEFINE share == p.experts \div p.ep
           a == rank * share
           b == a + share
<1>1. share \in Nat \ {0} /\ p.experts = share * p.ep /\ p.ep \in Nat \ {0} /\ p.experts \in Nat
  BY Divided DEF IsBalanced
<1> HIDE DEF share
<1>2. a \in Nat /\ b \in a..p.experts /\ b \in 0..p.experts
  <2>1. (rank + 1) * share <= p.ep * share
    BY <1>1
  <2>2. (rank + 1) * share = a + share /\ p.ep * share = share * p.ep /\ a \in Nat
    BY <1>1
  <2> QED
    BY <1>1, <2>1, <2>2
<1>3. ExpertsOf(p, rank) = a..(b - 1)
  <2>1. ASSUME NEW e \in 0..(p.experts - 1), e \div share = rank
        PROVE  e \in a..(b - 1)
    <3> DEFINE q == e \div share
               r == e % share
    <3>1. e \in Nat
      BY <1>1
    <3>2. q \in Nat /\ r \in 0..(share - 1) /\ e = q * share + r
      BY <1>1, <3>1, BlockAndPlace
    <3>3. q = rank
      BY <2>1
    <3> HIDE DEF q, r
    <3>4. e = a + r
      BY <3>2, <3>3
    <3> HIDE DEF a
    <3> QED
      BY <1>1, <1>2, <3>2, <3>4
  <2>2. ASSUME NEW e \in a..(b - 1)
        PROVE  e \in 0..(p.experts - 1) /\ e \div share = rank
    <3> DEFINE r == e - a
    <3>1. r \in 0..(share - 1) /\ e = a + r /\ e \in 0..(p.experts - 1)
      <4> HIDE DEF a
      <4> QED
        BY <1>1, <1>2
    <3> HIDE DEF r
    <3>2. (rank * share + r) \div share = rank
      <4>1. rank \in Nat /\ share \in Nat \ {0} /\ r \in 0..(share - 1)
        BY <1>1, <3>1
      <4> QED
        BY ONLY <4>1, SlotParts
    <3> QED
      BY <3>1, <3>2
  <2>3. ExpertsOf(p, rank) = {e \in 0..(p.experts - 1) : e \div share = rank}
    BY DEF ExpertsOf, share
  <2> HIDE DEF a, b
  <2> QED
    BY <2>1, <2>2, <2>3
<1> HIDE DEF a, b
<1>4. [t \in DOMAIN routing |-> Cardinality(routing[t] \cap ExpertsOf(p, rank))] = Fallen(p, a, b)
  BY <1>3 DEF Fallen
<1>5. RankLoad(p, routing, rank) = Falls(p, a, b)
  BY <1>4, Zenon DEF RankLoad, Falls
<1>6. Falls(p, a, b) = Before(p, b) - Before(p, a)
  BY <1>2, FallsIs
<1> QED
  BY <1>2, <1>5, <1>6 DEF a, b, share

LEMMA Cancelled ==
  ASSUME NEW s \in Nat \ {0}, NEW u \in Int, NEW v \in Int
  PROVE  /\ s * u <= s * v => u <= v
         /\ s * u < s * v => u < v
<1>1. v < u => s * v < s * u
  <2>1. SUFFICES ASSUME v + 1 <= u PROVE s * v < s * u
    OBVIOUS
  <2>2. s * (v + 1) <= s * u
    BY <2>1
  <2>3. s * (v + 1) = s * v + s /\ s * v \in Int /\ s * u \in Int
    OBVIOUS
  <2> QED
    BY <2>2, <2>3
<1>2. s * v \in Int /\ s * u \in Int
  OBVIOUS
<1>3. u = v => s * u = s * v
  OBVIOUS
<1> QED
  BY <1>1, <1>2, <1>3

\* The experts of rank 0 get at most the mean, rounded up, each ...
LEMMA FirstShareMean ==
  ASSUME NEW p, IsBalanced(p)
  PROVE  LET share == p.experts \div p.ep
         IN  Before(p, share)
               <= share * ((p.tokens * p.topk + p.experts - 1) \div p.experts)
<1> DEFINE B == p.experts \div p.ep
           s == Stride(p)
           k == p.topk
           n == p.tokens
           E == p.experts
           m == n * k
           c == (m + E - 1) \div E
<1>1. /\ B \in Nat \ {0} /\ s \in Nat \ {0} /\ k \in Nat \ {0} /\ n \in Nat \ {0}
      /\ E \in Nat \ {0} /\ E = s * k
  BY Divided, StrideIs DEF IsBalanced
<1> HIDE DEF B, s, k, n, E
<1>2. m \in Nat
  BY <1>1
<1> HIDE DEF m
<1>3. c \in Nat /\ m <= c * E
  BY <1>1, <1>2, RoundedUp
<1> HIDE DEF c
<1>4. n <= c * s
  <2>1. c * (s * k) = k * (c * s) /\ m = k * n /\ c * s \in Int /\ n \in Int
    BY <1>1, <1>3 DEF m
  <2>2. k * n <= k * (c * s)
    BY <1>1, <1>3, <2>1
  <2> QED
    BY <1>1, <2>1, <2>2, Cancelled
<1>5. CASE n >= s
  <2> DEFINE q == n \div s
             r == n % s
             i == B \div s
             y == B % s
  <2>1. /\ q \in Nat /\ r \in 0..(s - 1) /\ n = q * s + r
        /\ i \in Nat /\ y \in 0..(s - 1) /\ B = i * s + y
    BY <1>1, BlockAndPlace
  <2>2. Before(p, B) = q * B + r * i + Lesser(y, r)
    BY <1>5 DEF Before, ManyBefore, s, n
  <2> HIDE DEF q, r, i, y
  <2>3. r # 0 => q + 1 <= c
    <3>1. SUFFICES ASSUME r # 0, c <= q PROVE FALSE
      BY <1>3, <2>1
    <3>2. c * s <= q * s /\ c * s \in Nat /\ q * s \in Nat
      BY <1>1, <1>3, <2>1, <3>1
    <3> QED
      BY <1>1, <1>4, <2>1, <3>1, <3>2
  <2>4. q <= c
    <3>1. SUFFICES ASSUME c + 1 <= q PROVE FALSE
      BY <1>3, <2>1
    <3>2. (c + 1) * s <= q * s /\ (c + 1) * s = c * s + s /\ c * s \in Nat /\ q * s \in Nat
      BY <1>1, <1>3, <2>1, <3>1
    <3> QED
      BY <1>1, <1>4, <2>1, <3>2
  <2>5. q * B \in Nat /\ B * c \in Nat /\ B * q = q * B
    BY <1>1, <1>3, <2>1
  <2>6. CASE r = 0
    <3>1. r * i = 0 /\ Lesser(y, r) = 0
      BY <2>1, <2>6 DEF Lesser
    <3>2. B * q <= B * c
      BY <1>1, <1>3, <2>1, <2>4
    <3> QED
      BY <2>2, <2>5, <3>1, <3>2 DEF B, c, m, n, k, E
  <2>7. CASE r # 0
    <3>1. B * (q + 1) <= B * c /\ B * (q + 1) = q * B + B
      BY <1>1, <1>3, <2>1, <2>3, <2>7
    <3>2. r * i <= s * i /\ s * i = i * s /\ r * i \in Nat /\ i * s \in Nat
      BY <1>1, <2>1
    <3>3. Lesser(y, r) <= y /\ Lesser(y, r) \in Nat
      BY <2>1 DEF Lesser
    <3>4. r * i + Lesser(y, r) <= B
      BY <1>1, <2>1, <3>2, <3>3
    <3> QED
      BY <1>1, <2>2, <2>5, <3>1, <3>2, <3>3, <3>4 DEF B, c, m, n, k, E
  <2> QED
    BY <2>6, <2>7
<1>6. CASE ~ (n >= s)
  <2> DEFINE a == B * n
             d == (a + s - 1) \div s
  <2>1. a \in Nat
    BY <1>1
  <2>2. Before(p, B) = d
    BY <1>6 DEF Before, FewBefore, s, n
  <2> HIDE DEF a
  <2>3. d \in Nat /\ d * s < a + s
    BY <1>1, <2>1, RoundedUp
  <2> HIDE DEF d
  <2>4. d <= B
    <3>1. SUFFICES ASSUME B + 1 <= d PROVE FALSE
      BY <1>1, <2>3
    <3>2. (B + 1) * s <= d * s /\ (B + 1) * s = B * s + s /\ B * s \in Nat /\ d * s \in Nat
      BY <1>1, <2>3, <3>1
    <3>3. B * n <= B * s
      BY <1>1, <1>6
    <3> QED
      BY <1>1, <2>1, <2>3, <3>2, <3>3 DEF a
  <2>5. 1 <= c
    <3>1. c = 0 => c * s = 0
      BY <1>1
    <3> QED
      BY <1>1, <1>3, <1>4, <3>1
  <2>6. B * 1 <= B * c /\ B * c \in Nat
    BY <1>1, <1>3, <2>5
  <2> QED
    BY <1>1, <2>2, <2>3, <2>4, <2>6 DEF B, c, m, n, k, E
<1> QED
  BY <1>5, <1>6

\* ... and with fewer choices than experts its share of them, rounded up.
LEMMA FirstShareFew ==
  ASSUME NEW p, IsBalanced(p), p.tokens * p.topk < p.experts
  PROVE  Before(p, p.experts \div p.ep) = (p.tokens * p.topk + p.ep - 1) \div p.ep
<1> DEFINE B == p.experts \div p.ep
           s == Stride(p)
           k == p.topk
           n == p.tokens
           ep == p.ep
           E == p.experts
           m == n * k
           a == B * n
           d == (a + s - 1) \div s
<1>1. /\ B \in Nat \ {0} /\ s \in Nat \ {0} /\ k \in Nat \ {0} /\ n \in Nat \ {0}
      /\ ep \in Nat \ {0} /\ E = s * k /\ E = B * ep /\ n * k < E
  BY Divided, StrideIs DEF IsBalanced
<1> HIDE DEF B, s, k, n, E, ep
<1>2. n < s
  <2>1. k * n < k * s /\ n \in Int /\ s \in Int
    <3>1. n * k = k * n /\ s * k = k * s
      BY <1>1
    <3> QED
      BY <1>1, <3>1
  <2> QED
    BY <1>1, <2>1, Cancelled
<1>3. Before(p, B) = d
  BY <1>1, <1>2 DEF Before, FewBefore, s, n
<1>4. a \in Nat /\ m \in Nat
  BY <1>1
<1>5. d \in Nat /\ a <= d * s /\ d * s < a + s
  <2> HIDE DEF a
  <2> QED
    BY <1>1, <1>4, RoundedUp
<1> HIDE DEF d
<1> DEFINE u == d * ep
<1>6. u \in Int /\ a * ep = s * m /\ (d * s) * ep = s * u /\ d * s \in Nat
  <2>1. (B * n) * ep = (B * ep) * n /\ (s * k) * n = s * (n * k)
    BY <1>1
  <2>2. (d * s) * ep = s * (d * ep) /\ d * ep \in Int /\ d * s \in Nat
    BY <1>1, <1>5
  <2> QED
    BY <1>1, <2>1, <2>2
<1>7. a * ep <= (d * s) * ep /\ (d * s) * ep < (a + s) * ep
  <2> DEFINE v == d * s
             w == a + s
  <2>1. v \in Int /\ w \in Int /\ a <= v /\ v + 1 <= w
    BY <1>1, <1>4, <1>5, <1>6
  <2> HIDE DEF v, w, a
  <2>2. a * ep <= v * ep /\ (v + 1) * ep <= w * ep /\ (v + 1) * ep = v * ep + ep
    BY <1>1, <1>4, <2>1
  <2>3. v * ep \in Int /\ w * ep \in Int
    BY <1>1, <2>1
  <2> QED
    BY <1>1, <2>2, <2>3 DEF v, w
<1>8. (a + s) * ep = s * m + s * ep /\ s * m + s * ep = s * (m + ep)
  <2> HIDE DEF a, m
  <2>1. (a + s) * ep = a * ep + s * ep /\ s * m + s * ep = s * (m + ep)
    BY <1>1, <1>4
  <2> QED
    BY <1>6, <2>1
<1> HIDE DEF u, m, a
<1>9. m <= u /\ u < m + ep
  <2>1. s * m <= s * u /\ s * u < s * (m + ep)
    BY <1>6, <1>7, <1>8
  <2>2. m \in Int /\ u \in Int /\ m + ep \in Int
    BY <1>1, <1>4, <1>6
  <2> QED
    BY <1>1, <2>1, <2>2, Cancelled
<1>10. (m + ep - 1) \div ep = d
  <2>1. d \in Int /\ m <= d * ep /\ d * ep < m + ep
    BY <1>5, <1>9 DEF u
  <2> QED
    BY <1>1, <1>4, <2>1, RoundedUpAlone
<1> QED
  BY <1>3, <1>10 DEF B, m, n, k, ep, E

LEMMA BusiestTimed ==
  ASSUME NEW p, IsBalanced(p), NEW timed \in Timed("moe", p)
  PROVE  LET choices == p.tokens * p.topk
         IN  /\ \A rank \in DOMAIN timed.others : timed.load >= timed.others[rank]
             /\ timed.load <= (p.experts \div p.ep) * ((choices + p.experts - 1) \div p.experts)
             /\ choices < p.experts => timed.load <= (choices + p.ep - 1) \div p.ep
<1> DEFINE B == p.experts \div p.ep
<1>1. PICK routing \in Routings(p) :
        timed = [load |-> RankLoad(p, routing, 0),
                 others |-> [rank \in 0..(p.ep - 1) |-> RankLoad(p, routing, rank)]]
  BY DEF Timed
<1>2. DOMAIN routing = Tokens(p) /\ \A t \in Tokens(p) : routing[t] = ExpertsFor(p, t)
  <2> DEFINE chosen == [t \in 0..(p.tokens - 1) |-> ExpertChoices(p, t)]
  <2>1. DOMAIN chosen = Tokens(p) /\ \A t \in Tokens(p) : chosen[t] = ExpertChoices(p, t)
    BY DEF Tokens
  <2>2. routing \in {r \in [DOMAIN chosen -> UNION Range(chosen)] : \A t \in DOMAIN r : r[t] \in chosen[t]}
    BY Zenon DEF Routings
  <2> HIDE DEF chosen
  <2>3. DOMAIN routing = Tokens(p) /\ \A t \in Tokens(p) : routing[t] \in ExpertChoices(p, t)
    BY <2>1, <2>2
  <2> QED
    BY <2>3, ChosenExperts
<1>3. B \in Nat \ {0} /\ 0 \in 0..(p.ep - 1) /\ 0 * B = 0 /\ 0 + B = B
  BY Divided DEF IsBalanced
<1> HIDE DEF B
<1>4. \A rank \in 0..(p.ep - 1) :
        /\ RankLoad(p, routing, rank) = Before(p, rank * B + B) - Before(p, rank * B)
        /\ rank * B \in Nat /\ rank * B + B \in 0..p.experts
  BY <1>2, RankLoadIs DEF B
<1>5. RankLoad(p, routing, 0) = Before(p, B)
  <2>1. RankLoad(p, routing, 0) = Before(p, 0 * B + B) - Before(p, 0 * B) /\ 0 * B + B \in 0..p.experts
    BY <1>3, <1>4
  <2>2. B \in 0..p.experts
    BY <1>3, <2>1
  <2>3. Before(p, B) \in Nat /\ Before(p, 0) = 0
    BY <1>3, <2>2, BeforeType, BeforeAdded
  <2> QED
    BY <1>3, <2>1, <2>3
<1>6. ASSUME NEW rank \in 0..(p.ep - 1)
      PROVE  RankLoad(p, routing, 0) >= RankLoad(p, routing, rank)
  <2> DEFINE a == rank * B
             b == a + B
  <2>1. /\ RankLoad(p, routing, rank) = Before(p, b) - Before(p, a)
        /\ a \in Nat /\ b \in 0..p.experts
    BY <1>4
  <2>2. a \in 0..p.experts /\ B \in 0..p.experts
    <3> HIDE DEF a
    <3> QED
      BY <1>3, <2>1 DEF IsBalanced
  <2>3. Before(p, b) <= Before(p, a) + Before(p, B)
    <3> HIDE DEF a
    <3> QED
      BY <1>3, <2>1, BeforeAdded
  <2>4. Before(p, a) \in Nat /\ Before(p, b) \in Nat /\ Before(p, B) \in Nat
    <3> HIDE DEF a, b
    <3> QED
      BY <2>1, <2>2, BeforeType
  <2> HIDE DEF a, b
  <2> QED
    BY <1>5, <2>1, <2>3, <2>4
<1>7. /\ timed.load = RankLoad(p, routing, 0)
      /\ timed.others = [rank \in 0..(p.ep - 1) |-> RankLoad(p, routing, rank)]
  BY <1>1
<1>8. \A rank \in DOMAIN timed.others : timed.load >= timed.others[rank]
  BY <1>6, <1>7
<1>9. timed.load <= B * ((p.tokens * p.topk + p.experts - 1) \div p.experts)
  BY <1>5, <1>7, FirstShareMean DEF B
<1>10. ASSUME p.tokens * p.topk < p.experts
       PROVE  timed.load <= (p.tokens * p.topk + p.ep - 1) \div p.ep
  <2>1. timed.load = (p.tokens * p.topk + p.ep - 1) \div p.ep
    BY <1>5, <1>7, <1>10, FirstShareFew DEF B
  <2>2. timed.load \in Int
    <3>1. B \in 0..p.experts
      BY <1>3, <1>4
    <3> QED
      BY <1>5, <1>7, <3>1, BeforeType
  <2> QED
    BY <2>1, <2>2
<1> QED
  BY <1>8, <1>9, <1>10 DEF B

LEMMA BalancedCase ==
  ASSUME NEW c \in Case, CaseTable[c].op = "moe", Timings[c] # {},
         CaseTable[c].params.distribution = "balanced",
         CaseTable[c].params.experts % CaseTable[c].params.topk = 0
  PROVE  IsBalanced(CaseTable[c].params)
<1>1. Supported("moe", CaseTable[c].params)
  BY DEF Timings
<1> QED
  BY <1>1, TableOK DEF Supported, IsBalanced

\* The rank that is timed is the busiest, and no busier than its share, for
\* any table of cases (vllm_moe.py:76-93, cases/moe.py:7,13).
THEOREM BusiestRankTimedAlways == Spec => []BusiestRankTimed
<1>1. Init => BusiestRankTimed
  BY DEF Init, BusiestRankTimed
<1>2. Inv /\ BusiestRankTimed /\ [Next]_vars => BusiestRankTimed'
  <2> SUFFICES ASSUME Inv, BusiestRankTimed, [Next]_vars
               PROVE  BusiestRankTimed'
    OBVIOUS
  <2>1. CASE Measure
    <3> DEFINE c == First
               p == CaseTable[c].params
    <3>1. PICK captured \in BOOLEAN, timed \in Timings[c] :
            records' = records \cup {BuildRecord(c, UsedGraph(BenchConfig(p), captured), timed)}
      BY <2>1 DEF Measure
    <3>2. c \in Case /\ CaseTable[c].op = Op
      BY <2>1, FirstIn DEF Measure, Inv, Types, Place
    <3> HIDE DEF c
    <3>3. ASSUME NEW r \in records', r \notin records, r.op = "moe",
                 CaseTable[r.case].params.distribution = "balanced",
                 CaseTable[r.case].params.experts % CaseTable[r.case].params.topk = 0
          PROVE  /\ IsBalanced(CaseTable[r.case].params)
                 /\ r.timed \in Timed("moe", CaseTable[r.case].params)
      <4>1. r.case = c /\ r.op = Op /\ r.timed = timed
        BY <3>1, <3>3 DEF BuildRecord
      <4>2. Timings[c] # {} /\ CaseTable[c].op = "moe"
        BY <3>1, <3>2, <3>3, <4>1
      <4>3. IsBalanced(p)
        BY <3>2, <3>3, <4>1, <4>2, BalancedCase
      <4>4. timed \in Timed("moe", p)
        BY <3>1, <3>2, <4>2 DEF Timings
      <4> QED
        BY <4>1, <4>3, <4>4
    <3>4. \A r \in records' : r \notin records => r \in records' /\ r \notin records
      OBVIOUS
    <3> SUFFICES ASSUME NEW r \in records', r \notin records, r.op = "moe",
                        CaseTable[r.case].params.distribution = "balanced",
                        CaseTable[r.case].params.experts % CaseTable[r.case].params.topk = 0
                 PROVE  LET q       == CaseTable[r.case].params
                            choices == q.tokens * q.topk
                        IN  /\ \A rank \in DOMAIN r.timed.others :
                                 r.timed.load >= r.timed.others[rank]
                            /\ r.timed.load
                                 <= (q.experts \div q.ep) * ((choices + q.experts - 1) \div q.experts)
                            /\ choices < q.experts => r.timed.load <= (choices + q.ep - 1) \div q.ep
      BY DEF BusiestRankTimed
    <3> QED
      BY <3>3, BusiestTimed
  <2>2. CASE records' = records
    BY <2>2 DEF BusiestRankTimed
  <2> QED
    BY <2>1, <2>2 DEF Next, Upgrade, Launch, NextFramework, BeginOp, ImportFails, Fail, EndOp,
                      EndFramework, Exit, vars, disk
<1> QED
  BY <1>1, <1>2, InvCorrect, PTL DEF Spec
=============================================================================

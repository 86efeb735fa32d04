---------------------------- MODULE PricingProofs ----------------------------
(***************************************************************************)
(* Theorems about Pricing, for any deployments, steps, policies, files and *)
(* prices: see the README for the argument.                                *)
(***************************************************************************)
EXTENDS Pricing, SumLemmas, FunctionTheorems

-----------------------------------------------------------------------------
\* The numbers of a deployment, by name.
LEMMA DeploymentTyped ==
  ASSUME deployment \in Deployments
  PROVE  LET d == deployment
         IN  /\ d.layers \in Nat /\ d.heads \in Nat /\ d.kvHeads \in Nat /\ d.headDim \in Nat
             /\ d.ffn \in Nat /\ d.vocab \in Nat /\ d.hidden \in Nat
             /\ d.experts \in Nat /\ d.topk \in Nat /\ d.expertDim \in Nat /\ d.shared \in Nat
             /\ d.qLora \in Nat /\ d.kvLora \in Nat /\ d.nope \in Nat /\ d.rope \in Nat
             /\ d.vDim \in Nat
             /\ d.tp \in Nat /\ d.tp # 0 /\ d.ep \in Nat /\ d.ep # 0 /\ d.headDim # 0
             /\ d.mode \in Modes
<1>1. \A dim \in Dimensions : deployment[dim] \in Nat
  BY DeploymentsOK
<1>2. \A dim : dim \in Dimensions => deployment[dim] \in Nat
  BY <1>1
<1> QED
  BY <1>2, DeploymentsOK DEF Dimensions

-----------------------------------------------------------------------------
(* Intervals and folds.                                                    *)

\* What FoldLeft computes with, for a step that is a function of what was
\* folded so far and of the index.
IsFold(base, step, n, g) ==
  g = [s \in SUBSET (1..n) |-> IF s = {} THEN base
                               ELSE step[<<g[s \ {Max(s)}], Max(s)>>]]

LEMMA MaxOfPart ==
  ASSUME NEW n \in Nat, NEW s \in SUBSET (1..n), s # {}
  PROVE  Max(s) \in s /\ \A x \in s : x <= Max(s)
<1>1. IsFiniteSet(s) /\ \A x \in s : x \in Int
  BY PartOfInterval
<1> QED
  BY <1>1, MaxIn

LEMMA MinOfPart ==
  ASSUME NEW n \in Nat, NEW s \in SUBSET (1..n), s # {}
  PROVE  Min(s) \in s /\ \A x \in s : Min(s) <= x
<1>1. IsFiniteSet(s) /\ \A x \in s : x \in Int
  BY PartOfInterval
<1> QED
  BY <1>1, MinIn

LEMMA FoldExists ==
  ASSUME NEW n \in Nat, NEW V, NEW base \in V, NEW step \in [V \X (1..n) -> V]
  PROVE  \E g \in [SUBSET (1..n) -> V] : IsFold(base, step, n, g)
<1> DEFINE Good == {i \in 0..n : \E g \in [SUBSET (1..i) -> V] : IsFold(base, step, i, g)}
<1>1. 0 \in Good
  <2> DEFINE g == [s \in SUBSET (1..0) |-> base]
  <2>1. \A s \in SUBSET (1..0) : s = {}
    OBVIOUS
  <2>2. g \in [SUBSET (1..0) -> V] /\ IsFold(base, step, 0, g)
    BY <2>1 DEF IsFold
  <2> QED
    BY <2>2
<1>2. ASSUME NEW i \in 0..n, i < n, i \in Good
      PROVE  i + 1 \in Good
  <2>1. PICK g \in [SUBSET (1..i) -> V] : IsFold(base, step, i, g)
    BY <1>2
  <2> DEFINE k == i + 1
             h == [s \in SUBSET (1..k) |-> IF k \in s THEN step[<<g[s \ {k}], k>>] ELSE g[s]]
  <2>2. k \in 1..n /\ k \in 0..n /\ \A s \in SUBSET (1..k) : s \ {k} \in SUBSET (1..i)
    BY <1>2
  <2>3. \A s \in SUBSET (1..k) : k \notin s => s \in SUBSET (1..i)
    BY <2>2
  <2>4. \A s \in SUBSET (1..i) : s \in SUBSET (1..k) /\ k \notin s
    OBVIOUS
  <2>5. \A s \in SUBSET (1..i) : h[s] = g[s]
    BY <2>4
  <2>6. h \in [SUBSET (1..k) -> V]
    <3>1. ASSUME NEW s \in SUBSET (1..k) PROVE h[s] \in V
      <4>1. CASE k \in s
        <5>1. g[s \ {k}] \in V
          BY <2>1, <2>2
        <5> QED
          BY <2>2, <4>1, <5>1
      <4>2. CASE k \notin s
        BY <2>1, <2>3, <4>2
      <4> QED
        BY <4>1, <4>2
    <3> QED
      BY <3>1
  <2>7. ASSUME NEW s \in SUBSET (1..k)
        PROVE  h[s] = IF s = {} THEN base ELSE step[<<h[s \ {Max(s)}], Max(s)>>]
    <3>1. CASE k \in s
      <4>1. Max(s) = k
        <5>0. \A x \in s : x \in Int /\ x <= k
          OBVIOUS
        <5>1. Max(s) \in s /\ \A x \in s : x <= Max(s)
          <6>1. k \in Nat /\ s \in SUBSET (1..k) /\ s # {}
            BY <2>2, <3>1
          <6> HIDE DEF k
          <6> QED
            BY <6>1, MaxOfPart
        <5>2. k \in Int /\ k \in s
          BY <2>2, <3>1
        <5> HIDE DEF h, k
        <5>3. Max(s) \in Int /\ Max(s) <= k
          BY <5>0, <5>1
        <5>4. k <= Max(s)
          BY <5>1, <5>2
        <5> QED
          BY <5>2, <5>3, <5>4
      <4>2. h[s \ {k}] = g[s \ {k}]
        BY <2>2, <2>5
      <4>3. h[s] = step[<<g[s \ {k}], k>>]
        BY <3>1
      <4> HIDE DEF h
      <4> QED
        BY <3>1, <4>1, <4>2, <4>3
    <3>2. CASE k \notin s
      <4>1. s \in SUBSET (1..i) /\ s \ {Max(s)} \in SUBSET (1..i)
        BY <2>3, <3>2
      <4>2. h[s] = g[s] /\ h[s \ {Max(s)}] = g[s \ {Max(s)}]
        BY <2>5, <4>1
      <4>3. g[s] = IF s = {} THEN base ELSE step[<<g[s \ {Max(s)}], Max(s)>>]
        BY <2>1, <4>1 DEF IsFold
      <4> HIDE DEF h
      <4> QED
        BY <4>2, <4>3
    <3> QED
      BY <3>1, <3>2
  <2>8. IsFold(base, step, k, h)
    <3>1. DOMAIN h = SUBSET (1..k) /\ h = [s \in SUBSET (1..k) |-> h[s]]
      OBVIOUS
    <3> HIDE DEF h
    <3> QED
      BY <2>7, <3>1 DEF IsFold
  <2> HIDE DEF h
  <2> QED
    BY <2>2, <2>6, <2>8
<1>3. n \in 0..n /\ 0..n \subseteq Good
  <2>1. \A i \in 0..n : i < n /\ i \in Good => i + 1 \in Good
    BY <1>2
  <2> HIDE DEF Good
  <2> QED
    BY <1>1, <2>1, UpToBound
<1> QED
  BY <1>3
-----------------------------------------------------------------------------
(* What a load leaves in the store.                                        *)

\* Prices filed under some of a set of signatures.
Stores(sigs) == UNION {[S -> Prices] : S \in SUBSET sigs}

Imports(records, lines, g) ==
  g = [s \in SUBSET DOMAIN lines |-> IF s = {} THEN records
                                     ELSE Import(g[s \ {Max(s)}], lines[Max(s)])]

LEMMA ImportsChosen ==
  ASSUME NEW records, NEW lines
  PROVE  FoldLeft(Import, records, lines) = (CHOOSE g : Imports(records, lines, g))[DOMAIN lines]
BY DEF FoldLeft, MapThenFoldSet, Imports

LoadsFiles(records, kinds, lines, g) ==
  g = [s \in SUBSET DOMAIN kinds |-> IF s = {} THEN records
                                     ELSE LoadJsonl(g[s \ {Max(s)}], lines[kinds[Max(s)]])]

LEMMA LoadsFilesChosen ==
  ASSUME NEW records, NEW kinds
  PROVE  FoldLeft(LAMBDA r, kind : LoadJsonl(r, files[kind]), records, kinds)
           = (CHOOSE g : LoadsFiles(records, kinds, files, g))[DOMAIN kinds]
BY DEF FoldLeft, MapThenFoldSet, LoadsFiles

LEMMA ImportTyped ==
  ASSUME NEW sigs, NEW records \in Stores(sigs), NEW line,
         IsRecord(line) => line.sig \in sigs /\ line.price \in Prices
  PROVE  Import(records, line) \in Stores(sigs)
<1>1. PICK S \in SUBSET sigs : records \in [S -> Prices]
  BY DEF Stores
<1>2. CASE IsRecord(line)
  <2> DEFINE T == S \cup {line.sig}
  <2>1. Add(records, line) \in [T -> Prices]
    BY <1>1, <1>2 DEF Add
  <2>2. T \in SUBSET sigs
    BY <1>2
  <2> QED
    BY <1>2, <2>1, <2>2 DEF Import, Stores
<1>3. CASE ~ IsRecord(line)
  BY <1>3 DEF Import
<1> QED
  BY <1>2, <1>3

LEMMA IntervalTop ==
  ASSUME NEW k \in Nat, k # 0
  PROVE  Max(1..k) = k /\ (1..k) \ {k} = 1..(k - 1) /\ 1..k # {}
<1>1. k \in 1..k
  OBVIOUS
<1>2. \A x \in 1..k : x \in Int /\ x <= k
  OBVIOUS
<1> DEFINE S == 1..k
<1>3. Max(S) \in S /\ \A x \in S : x <= Max(S)
  <2>1. S \in SUBSET (1..k) /\ S # {}
    BY <1>1
  <2> HIDE DEF S
  <2> QED
    BY <2>1, MaxOfPart
<1>4. Max(S) \in Int /\ Max(S) <= k
  BY <1>2, <1>3
<1>5. k <= Max(S)
  BY <1>1, <1>3
<1>6. Max(S) = k
  <2> HIDE DEF S
  <2> QED
    BY <1>4, <1>5
<1>7. (1..k) \ {k} = 1..(k - 1)
  OBVIOUS
<1> QED
  BY <1>1, <1>6, <1>7

\* The last record of each signature is in the store at its price, and what
\* no line has a record for is as it was.
LeftBy(records, lines, n, result) ==
  /\ \A i \in 1..n :
       /\ IsRecord(lines[i])
       /\ \A j \in 1..n : j > i /\ IsRecord(lines[j]) => lines[j].sig # lines[i].sig
       => lines[i].sig \in DOMAIN result /\ result[lines[i].sig] = lines[i].price
  /\ \A sig \in DOMAIN records :
       (\A i \in 1..n : IsRecord(lines[i]) => lines[i].sig # sig)
         => sig \in DOMAIN result /\ result[sig] = records[sig]

LEMMA LeftByOneMore ==
  ASSUME NEW records, NEW lines, NEW n \in Nat, NEW result, LeftBy(records, lines, n, result)
  PROVE  LeftBy(records, lines, n + 1, Import(result, lines[n + 1]))
<1> DEFINE k   == n + 1
           new == Import(result, lines[k])
<1>1. k \in 1..k /\ (\A i \in 1..k : i = k \/ i \in 1..n)
  OBVIOUS
<1>2. \A i \in 1..n : i \in 1..k /\ k > i
  OBVIOUS
<1>3. IsRecord(lines[k]) =>
        /\ DOMAIN new = DOMAIN result \cup {lines[k].sig}
        /\ new[lines[k].sig] = lines[k].price
        /\ \A sig \in DOMAIN result : sig # lines[k].sig => new[sig] = result[sig]
  BY DEF Import, Add
<1>4. ~ IsRecord(lines[k]) => new = result
  BY DEF Import
<1>5. ASSUME NEW i \in 1..k, IsRecord(lines[i]),
             \A j \in 1..k : j > i /\ IsRecord(lines[j]) => lines[j].sig # lines[i].sig
      PROVE  lines[i].sig \in DOMAIN new /\ new[lines[i].sig] = lines[i].price
  <2>1. CASE i = k
    <3> HIDE DEF new, k
    <3> QED
      BY <1>3, <1>5, <2>1
  <2>2. CASE i # k
    <3>1. i \in 1..n
      BY <1>1, <2>2
    <3>2. lines[i].sig \in DOMAIN result /\ result[lines[i].sig] = lines[i].price
      BY <1>2, <1>5, <3>1 DEF LeftBy
    <3>3. IsRecord(lines[k]) => lines[k].sig # lines[i].sig
      BY <1>1, <1>2, <1>5, <3>1
    <3> HIDE DEF new, k
    <3> QED
      BY <1>3, <1>4, <3>2, <3>3
  <2> QED
    BY <2>1, <2>2
<1>6. ASSUME NEW sig \in DOMAIN records, \A i \in 1..k : IsRecord(lines[i]) => lines[i].sig # sig
      PROVE  sig \in DOMAIN new /\ new[sig] = records[sig]
  <2>1. sig \in DOMAIN result /\ result[sig] = records[sig]
    BY <1>2, <1>6 DEF LeftBy
  <2>2. IsRecord(lines[k]) => lines[k].sig # sig
    BY <1>1, <1>6
  <2> HIDE DEF new, k
  <2> QED
    BY <1>3, <1>4, <2>1, <2>2
<1>7. LeftBy(records, lines, k, new)
  <2> HIDE DEF new, k
  <2> QED
    BY <1>5, <1>6 DEF LeftBy
<1> QED
  BY <1>7

\* load_jsonl up to the line it stops at.
LEMMA FoldedImports ==
  ASSUME NEW sigs, NEW records \in Stores(sigs), NEW lines, NEW n \in Nat,
         DOMAIN lines = 1..n,
         \A i \in 1..n : IsRecord(lines[i]) => lines[i].sig \in sigs /\ lines[i].price \in Prices
  PROVE  LET result == FoldLeft(Import, records, lines)
         IN  result \in Stores(sigs) /\ LeftBy(records, lines, n, result)
<1> DEFINE V    == Stores(sigs)
           step == [x \in V \X (1..n) |-> Import(x[1], lines[x[2]])]
           g    == CHOOSE h : Imports(records, lines, h)
<1>1. \A r \in V, i \in 1..n : Import(r, lines[i]) \in V
  BY ImportTyped
<1>2. step \in [V \X (1..n) -> V] /\ \A r \in V, i \in 1..n : step[<<r, i>>] = Import(r, lines[i])
  <2>1. \A x \in V \X (1..n) : x[1] \in V /\ x[2] \in 1..n
    OBVIOUS
  <2> HIDE DEF V
  <2> QED
    BY <1>1, <2>1
<1>3. PICK f \in [SUBSET (1..n) -> V] : IsFold(records, step, n, f)
  <2> HIDE DEF V, step
  <2>1. records \in V
    BY DEF V
  <2> QED
    BY <1>2, <2>1, FoldExists
<1>4. Imports(records, lines, f)
  <2>1. ASSUME NEW s \in SUBSET (1..n), s # {}
        PROVE  step[<<f[s \ {Max(s)}], Max(s)>>] = Import(f[s \ {Max(s)}], lines[Max(s)])
    <3>1. Max(s) \in 1..n /\ s \ {Max(s)} \in SUBSET (1..n)
      BY <2>1, MaxOfPart
    <3>2. f[s \ {Max(s)}] \in V
      BY <1>3, <3>1
    <3> HIDE DEF V, step
    <3> QED
      BY <1>2, <3>1, <3>2
  <2> HIDE DEF step, V
  <2> QED
    BY <1>3, <2>1 DEF IsFold, Imports
<1>5. Imports(records, lines, g)
  BY <1>4
<1> HIDE DEF g
<1> DEFINE Good == {i \in 0..n : g[1..i] \in V /\ LeftBy(records, lines, i, g[1..i])}
<1>6. 0 \in Good
  <2>1. 1..0 = {} /\ 1..0 \in SUBSET (1..n)
    OBVIOUS
  <2>2. g[1..0] = records
    BY <1>5, <2>1 DEF Imports
  <2>3. LeftBy(records, lines, 0, records)
    BY DEF LeftBy
  <2> QED
    BY <2>2, <2>3
<1>7. ASSUME NEW i \in 0..n, i < n, i \in Good
      PROVE  i + 1 \in Good
  <2> DEFINE k == i + 1
  <2>1. k \in Nat /\ k # 0 /\ k \in 1..n /\ k \in 0..n /\ k - 1 = i /\ 1..k \in SUBSET (1..n)
    BY <1>7
  <2>2. g[1..k] = Import(g[1..i], lines[k])
    <3>1. Max(1..k) = k /\ (1..k) \ {k} = 1..i /\ 1..k # {}
      <4> HIDE DEF k
      <4> QED
        BY <2>1, IntervalTop
    <3> DEFINE s == 1..k
    <3>2. s \in SUBSET DOMAIN lines /\ s # {}
      BY <2>1, <3>1
    <3>3. g[s] = Import(g[s \ {Max(s)}], lines[Max(s)])
      <4> HIDE DEF s, k
      <4> QED
        BY <1>5, <3>2 DEF Imports
    <3>4. Max(s) = k /\ s \ {k} = 1..i
      BY <3>1
    <3>5. g[s] = Import(g[1..i], lines[k])
      <4> HIDE DEF s, k
      <4> QED
        BY <3>3, <3>4
    <3> QED
      BY <3>5
  <2>3. LeftBy(records, lines, k, Import(g[1..i], lines[k]))
    BY <1>7, LeftByOneMore
  <2>4. Import(g[1..i], lines[k]) \in V
    BY <1>1, <1>7, <2>1
  <2> HIDE DEF V
  <2> QED
    BY <2>1, <2>2, <2>3, <2>4
<1>8. n \in Good
  <2>1. \A i \in 0..n : i < n /\ i \in Good => i + 1 \in Good
    BY <1>7
  <2>2. n \in 0..n
    OBVIOUS
  <2> HIDE DEF Good
  <2> QED
    BY <1>6, <2>1, <2>2, UpToBound
<1>9. FoldLeft(Import, records, lines) = g[1..n]
  BY ImportsChosen DEF g
<1> QED
  BY <1>8, <1>9

LEMMA LoadJsonlLeaves ==
  ASSUME NEW sigs, NEW records \in Stores(sigs), NEW L, NEW lines \in Seq(L),
         \A i \in DOMAIN lines :
           IsRecord(lines[i]) => lines[i].sig \in sigs /\ lines[i].price \in Prices
  PROVE  /\ LoadJsonl(records, lines) \in Stores(sigs)
         /\ ~ Raises(lines) => LeftBy(records, lines, Len(lines), LoadJsonl(records, lines))
<1> DEFINE bad  == {i \in DOMAIN lines : Unreadable(lines[i])}
           n    == IF bad = {} THEN Len(lines) ELSE Min(bad) - 1
           read == SubSeq(lines, 1, n)
<1>1. n \in Nat /\ n <= Len(lines)
  <2>1. CASE bad = {}
    BY <2>1
  <2>2. CASE bad # {}
    <3>1. bad \in SUBSET (1..Len(lines)) /\ Len(lines) \in Nat
      OBVIOUS
    <3>2. Min(bad) \in 1..Len(lines)
      <4> HIDE DEF bad
      <4>1. Min(bad) \in bad
        BY <2>2, <3>1, MinOfPart
      <4> QED
        BY <3>1, <4>1
    <3>3. n = Min(bad) - 1
      BY <2>2
    <3> HIDE DEF bad, n
    <3> QED
      BY <3>1, <3>2, <3>3
  <2> QED
    BY <2>1, <2>2
<1>2. DOMAIN read = 1..n /\ \A i \in 1..n : read[i] = lines[i] /\ i \in DOMAIN lines
  <2> HIDE DEF n
  <2> QED
    BY <1>1
<1>3. FoldLeft(Import, records, read) \in Stores(sigs)
      /\ LeftBy(records, read, n, FoldLeft(Import, records, read))
  <2>1. \A i \in 1..n : IsRecord(read[i]) => read[i].sig \in sigs /\ read[i].price \in Prices
    <3> HIDE DEF read, n
    <3> QED
      BY <1>2
  <2> HIDE DEF read, n
  <2> QED
    BY <1>1, <1>2, <2>1, FoldedImports
<1>4. LoadJsonl(records, lines) = FoldLeft(Import, records, read)
  BY DEF LoadJsonl
<1>5. ASSUME ~ Raises(lines)
      PROVE  LeftBy(records, lines, Len(lines), LoadJsonl(records, lines))
  <2>1. n = Len(lines)
    BY <1>5 DEF Raises
  <2> HIDE DEF n, read
  <2> QED
    BY <1>2, <1>3, <1>4, <2>1 DEF LeftBy
<1> HIDE DEF read, n
<1> QED
  BY <1>3, <1>4, <1>5

-----------------------------------------------------------------------------
(* The store and the files.                                                *)

FiledSigs(d) == {CaseSignature(c, DbVersion) : c \in CasesOf(d)}

Lines(d) == {FOREIGN, TORN, GLUED}
              \cup {Record(sig, price) : sig \in FiledSigs(d), price \in Prices}

\* A record is in the file of its kind.
FilesOK ==
  /\ files \in [Kinds -> Seq(Lines(deployment))]
  /\ \A k \in Kinds : \A i \in DOMAIN files[k] :
        IsRecord(files[k][i]) => files[k][i].sig.kind = k

LEMMA RecordFiled ==
  ASSUME NEW d, NEW line \in Lines(d), IsRecord(line)
  PROVE  line.sig \in FiledSigs(d) /\ line.price \in Prices
BY DEF Lines, IsRecord, FOREIGN, TORN, GLUED, Record

LEMMA KindsAre ==
  /\ Kinds = {"gemm", "attention", "moe", "collective"}
  /\ DOMAIN OpKinds = 1..4
  /\ \A i \in 1..4 : OpKinds[i] \in Kinds
  /\ \A i, j \in 1..4 : OpKinds[i] = OpKinds[j] => i = j
  /\ Len(OpKinds) = 4
<1>1. DOMAIN OpKinds = 1..4 /\ Len(OpKinds) = 4
  BY DEF OpKinds
<1>2. /\ OpKinds[1] = "gemm" /\ OpKinds[2] = "attention"
      /\ OpKinds[3] = "moe" /\ OpKinds[4] = "collective"
  BY DEF OpKinds
<1>3. \A i \in 1..4 : i = 1 \/ i = 2 \/ i = 3 \/ i = 4
  OBVIOUS
<1>4. Kinds = {"gemm", "attention", "moe", "collective"}
  <2>1. Kinds = {OpKinds[i] : i \in 1..4}
    BY <1>1 DEF Kinds, Range
  <2> QED
    BY <1>2, <1>3, <2>1
<1>5. \A i \in 1..4 : OpKinds[i] \in Kinds
  BY <1>1 DEF Kinds, Range
<1>6. \A i, j \in 1..4 : OpKinds[i] = OpKinds[j] => i = j
  BY <1>2, <1>3
<1> QED
  BY <1>1, <1>4, <1>5, <1>6

\* Every signature of a file has the price of its last line.
Taken(lines, result) ==
  \A i \in DOMAIN lines :
    /\ IsRecord(lines[i])
    /\ \A j \in DOMAIN lines : j > i /\ IsRecord(lines[j]) => lines[j].sig # lines[i].sig
    => lines[i].sig \in DOMAIN result /\ result[lines[i].sig] = lines[i].price

LEMMA FileLoaded ==
  ASSUME FilesOK, NEW records \in Stores(FiledSigs(deployment)), NEW k \in Kinds
  PROVE  LET result == LoadJsonl(records, files[k])
         IN  /\ result \in Stores(FiledSigs(deployment))
             /\ ~ Raises(files[k]) =>
                  /\ Taken(files[k], result)
                  /\ \A q \in Kinds : q # k /\ Taken(files[q], records) => Taken(files[q], result)
<1> DEFINE result == LoadJsonl(records, files[k])
<1>1. \A q \in Kinds : /\ files[q] \in Seq(Lines(deployment))
                       /\ \A i \in DOMAIN files[q] : files[q][i] \in Lines(deployment)
  BY DEF FilesOK
<1>2. \A q \in Kinds : \A i \in DOMAIN files[q] : IsRecord(files[q][i]) =>
        /\ files[q][i].sig \in FiledSigs(deployment) /\ files[q][i].price \in Prices
        /\ files[q][i].sig.kind = q
  BY <1>1, RecordFiled DEF FilesOK
<1>3. result \in Stores(FiledSigs(deployment))
      /\ (~ Raises(files[k]) => LeftBy(records, files[k], Len(files[k]), result))
  BY <1>1, <1>2, LoadJsonlLeaves
<1> HIDE DEF result
<1>4. SUFFICES ASSUME ~ Raises(files[k])
               PROVE  /\ Taken(files[k], result)
                      /\ \A q \in Kinds : q # k /\ Taken(files[q], records)
                                            => Taken(files[q], result)
  BY <1>3 DEF result
<1>5. DOMAIN files[k] = 1..Len(files[k])
  BY <1>1
<1>6. Taken(files[k], result)
  BY <1>3, <1>4, <1>5 DEF Taken, LeftBy
<1>7. ASSUME NEW q \in Kinds, q # k, Taken(files[q], records)
      PROVE  Taken(files[q], result)
  <2>1. SUFFICES ASSUME NEW i \in DOMAIN files[q], IsRecord(files[q][i]),
                        \A j \in DOMAIN files[q] : j > i /\ IsRecord(files[q][j])
                                                    => files[q][j].sig # files[q][i].sig
                 PROVE  LET sig == files[q][i].sig
                        IN  sig \in DOMAIN result /\ result[sig] = files[q][i].price
    BY DEF Taken
  <2> DEFINE sig == files[q][i].sig
  <2>2. sig \in DOMAIN records /\ records[sig] = files[q][i].price
    BY <1>7, <2>1 DEF Taken
  <2>3. \A j \in 1..Len(files[k]) : IsRecord(files[k][j]) => files[k][j].sig # sig
    BY <1>2, <1>5, <1>7, <2>1
  <2> QED
    BY <1>3, <1>4, <2>2, <2>3 DEF LeftBy
<1> QED
  BY <1>6, <1>7

LEMMA FilesFolded ==
  ASSUME FilesOK, NEW records \in Stores(FiledSigs(deployment)), NEW last \in 0..4
  PROVE  LET result == FoldLeft(LAMBDA r, kind : LoadJsonl(r, files[kind]), records,
                                SubSeq(OpKinds, 1, last))
         IN  /\ result \in Stores(FiledSigs(deployment))
             /\ (\A m \in 1..last : ~ Raises(files[OpKinds[m]])) =>
                   \A m \in 1..last : Taken(files[OpKinds[m]], result)
<1> DEFINE V     == Stores(FiledSigs(deployment))
           kinds == SubSeq(OpKinds, 1, last)
           step  == [x \in V \X (1..last) |-> LoadJsonl(x[1], files[kinds[x[2]]])]
           g     == CHOOSE h : LoadsFiles(records, kinds, files, h)
<1>1. DOMAIN kinds = 1..last
      /\ \A m \in 1..last : kinds[m] = OpKinds[m] /\ kinds[m] \in Kinds /\ m \in 1..4
  <2>1. OpKinds \in Seq(Kinds) /\ Len(OpKinds) = 4
    <3>1. OpKinds = [m \in 1..4 |-> OpKinds[m]]
      BY DEF OpKinds
    <3> QED
      BY <3>1, KindsAre
  <2> QED
    BY <2>1, KindsAre
<1>2. \A r \in V, m \in 1..last : LoadJsonl(r, files[kinds[m]]) \in V
  BY <1>1, FileLoaded
<1>3. step \in [V \X (1..last) -> V]
      /\ \A r \in V, m \in 1..last : step[<<r, m>>] = LoadJsonl(r, files[kinds[m]])
  <2>1. \A x \in V \X (1..last) : x[1] \in V /\ x[2] \in 1..last
    OBVIOUS
  <2> HIDE DEF V, kinds
  <2> QED
    BY <1>2, <2>1
<1>4. PICK f \in [SUBSET (1..last) -> V] : IsFold(records, step, last, f)
  <2>1. records \in V /\ last \in Nat
    OBVIOUS
  <2> HIDE DEF V, step
  <2> QED
    BY <1>3, <2>1, FoldExists
<1>5. LoadsFiles(records, kinds, files, f)
  <2>1. ASSUME NEW s \in SUBSET (1..last), s # {}
        PROVE  step[<<f[s \ {Max(s)}], Max(s)>>]
                 = LoadJsonl(f[s \ {Max(s)}], files[kinds[Max(s)]])
    <3>0. last \in Nat
      OBVIOUS
    <3>1. Max(s) \in 1..last /\ s \ {Max(s)} \in SUBSET (1..last)
      BY <2>1, <3>0, MaxOfPart
    <3>2. f[s \ {Max(s)}] \in V
      BY <1>4, <3>1
    <3> HIDE DEF V, step, kinds
    <3> QED
      BY <1>3, <3>1, <3>2
  <2> HIDE DEF step, V, kinds
  <2> QED
    BY <1>1, <1>4, <2>1 DEF IsFold, LoadsFiles
<1>6. LoadsFiles(records, kinds, files, g)
  <2> HIDE DEF kinds
  <2> QED
    BY <1>5
<1> HIDE DEF g
<1> DEFINE P(i) == (\A m \in 1..i : ~ Raises(files[OpKinds[m]])) =>
                      \A m \in 1..i : Taken(files[OpKinds[m]], g[1..i])
           Good == {i \in 0..last : g[1..i] \in V /\ P(i)}
<1>7. 0 \in Good
  <2>1. 1..0 = {} /\ 1..0 \in SUBSET (1..last)
    OBVIOUS
  <2>2. g[1..0] = records
    <3> HIDE DEF kinds
    <3> QED
      BY <1>1, <1>6, <2>1 DEF LoadsFiles
  <2> QED
    BY <2>1, <2>2
<1>8. ASSUME NEW i \in 0..last, i < last, i \in Good
      PROVE  i + 1 \in Good
  <2> DEFINE k == i + 1
             r == g[1..i]
  <2>1. k \in Nat /\ k # 0 /\ k \in 1..last /\ k \in 0..last /\ k - 1 = i
        /\ 1..k \in SUBSET (1..last) /\ (\A m \in 1..k : m = k \/ m \in 1..i)
        /\ \A m \in 1..i : m \in 1..k /\ m # k
    BY <1>8
  <2>2. g[1..k] = LoadJsonl(r, files[kinds[k]])
    <3>1. Max(1..k) = k /\ (1..k) \ {k} = 1..i /\ 1..k # {}
      <4> HIDE DEF k
      <4> QED
        BY <2>1, IntervalTop
    <3> DEFINE s == 1..k
    <3>2. s \in SUBSET DOMAIN kinds /\ s # {}
      BY <1>1, <2>1, <3>1
    <3>3. g[s] = LoadJsonl(g[s \ {Max(s)}], files[kinds[Max(s)]])
      <4> HIDE DEF s, k, kinds
      <4> QED
        BY <1>6, <3>2 DEF LoadsFiles
    <3>4. Max(s) = k /\ s \ {k} = 1..i
      BY <3>1
    <3>5. g[s] = LoadJsonl(r, files[kinds[k]])
      <4> HIDE DEF s, k, kinds
      <4> QED
        BY <3>3, <3>4
    <3> QED
      BY <3>5
  <2>3. kinds[k] = OpKinds[k] /\ kinds[k] \in Kinds
    BY <1>1, <2>1
  <2>4. r \in V /\ P(i)
    BY <1>8
  <2> HIDE DEF k, kinds
  <2>5. g[1..k] \in V
    BY <1>2, <2>1, <2>2, <2>4
  <2>6. ASSUME \A m \in 1..k : ~ Raises(files[OpKinds[m]]), NEW m \in 1..k
        PROVE  Taken(files[OpKinds[m]], g[1..k])
    <3>1. /\ Taken(files[OpKinds[k]], g[1..k])
          /\ \A q \in Kinds : q # OpKinds[k] /\ Taken(files[q], r) => Taken(files[q], g[1..k])
      <4>1. k \in 1..k
        BY <2>1
      <4>2. ~ Raises(files[OpKinds[k]])
        BY <2>6, <4>1
      <4> HIDE DEF r
      <4> QED
        BY <2>2, <2>3, <2>4, <4>2, FileLoaded
    <3>2. CASE m = k
      BY <3>1, <3>2
    <3>3. CASE m # k
      <4>1. m \in 1..i
        BY <2>1, <3>3
      <4>2. Taken(files[OpKinds[m]], r)
        BY <2>1, <2>4, <2>6, <4>1
      <4>3. m \in 1..4 /\ k \in 1..4 /\ OpKinds[m] \in Kinds
        BY <1>1, <2>1, <4>1, KindsAre
      <4>4. OpKinds[m] # OpKinds[k]
        BY <3>3, <4>3, KindsAre
      <4> QED
        BY <3>1, <4>2, <4>3, <4>4
    <3> QED
      BY <3>2, <3>3
  <2>7. k \in Good
    BY <2>1, <2>5, <2>6
  <2> QED
    BY <2>7 DEF k
<1>9. last \in Good
  <2>1. \A i \in 0..last : i < last /\ i \in Good => i + 1 \in Good
    BY <1>8
  <2>2. last \in 0..last /\ last \in Nat
    OBVIOUS
  <2> HIDE DEF Good
  <2> QED
    BY <1>7, <2>1, <2>2, UpToBound
<1>10. FoldLeft(LAMBDA r, kind : LoadJsonl(r, files[kind]), records, kinds) = g[1..last]
  <2>1. FoldLeft(LAMBDA r, kind : LoadJsonl(r, files[kind]), records, kinds) = g[DOMAIN kinds]
    <3> HIDE DEF kinds
    <3> QED
      BY LoadsFilesChosen DEF g
  <2> QED
    BY <1>1, <2>1
<1> QED
  BY <1>9, <1>10

\* load_partition
LEMMA LoadPartitionLeaves ==
  ASSUME FilesOK, store \in Stores(FiledSigs(deployment)), NEW runtime, NEW ignoreMismatch,
         LoadPartition(runtime, ignoreMismatch)
  PROVE  /\ store' \in Stores(FiledSigs(deployment)) /\ files' = files
         /\ raised' = "" => \A k \in Kinds : ~ Raises(files[k]) /\ Taken(files[k], store')
<1>1. CASE ~ (VersionMatches(runtime) \/ ignoreMismatch)
  BY <1>1 DEF LoadPartition
<1>2. CASE VersionMatches(runtime) \/ ignoreMismatch
  <2> DEFINE bad  == {i \in DOMAIN OpKinds : Raises(files[OpKinds[i]])}
             last == IF bad = {} THEN Len(OpKinds) ELSE Min(bad)
             new  == FoldLeft(LAMBDA r, kind : LoadJsonl(r, files[kind]), store,
                              SubSeq(OpKinds, 1, last))
  <2>1. bad \in SUBSET (1..4)
    BY KindsAre
  <2>2. last \in 0..4
    <3>1. CASE bad = {}
      BY <3>1, KindsAre
    <3>2. CASE bad # {}
      <4> HIDE DEF bad
      <4>1. 4 \in Nat
        OBVIOUS
      <4>2. Min(bad) \in 1..4
        BY <2>1, <3>2, <4>1, MinOfPart
      <4> QED
        BY <3>2, <4>2
    <3> QED
      BY <3>1, <3>2
  <2>3. store' = new /\ files' = files /\ (raised' = "" => bad = {})
    BY <1>2 DEF LoadPartition
  <2>4. /\ new \in Stores(FiledSigs(deployment))
        /\ (\A m \in 1..last : ~ Raises(files[OpKinds[m]])) =>
              \A m \in 1..last : Taken(files[OpKinds[m]], new)
    <3> HIDE DEF last
    <3> QED
      BY <2>2, FilesFolded
  <2>5. ASSUME bad = {}, NEW k \in Kinds
        PROVE  ~ Raises(files[k]) /\ Taken(files[k], new)
    <3>1. last = 4 /\ \A m \in 1..4 : ~ Raises(files[OpKinds[m]])
      BY <2>5, KindsAre
    <3>2. \A m \in 1..4 : Taken(files[OpKinds[m]], new)
      <4> HIDE DEF last, new
      <4> QED
        BY <2>4, <3>1
    <3>3. PICK m \in 1..4 : k = OpKinds[m]
      BY KindsAre DEF Kinds, Range
    <3> HIDE DEF new
    <3> QED
      BY <3>1, <3>2, <3>3
  <2> HIDE DEF new, bad
  <2> QED
    BY <2>3, <2>4, <2>5
<1> QED
  BY <1>1, <1>2

\* writer.py, whatever the file ends with.
LEMMA LineAppended ==
  ASSUME FilesOK, NEW k \in Kinds, NEW line \in Lines(deployment),
         IsRecord(line) => line.sig.kind = k,
         AppendLine(k, line) \/ TearLine(k), deployment' = deployment
  PROVE  FilesOK'
<1> DEFINE L == Lines(deployment)
<1>1. files[k] \in Seq(L) /\ files \in [Kinds -> Seq(L)]
  BY DEF FilesOK
<1>2. TORN \in L /\ GLUED \in L /\ ~ IsRecord(TORN) /\ ~ IsRecord(GLUED)
  BY DEF Lines, IsRecord, TORN, GLUED
<1>3. PICK new \in Seq(L) :
        /\ files' = [files EXCEPT ![k] = new]
        /\ \A i \in DOMAIN new : IsRecord(new[i]) => new[i].sig.kind = k
  <2>1. ASSUME NEW l \in L, IsRecord(l) => l.sig.kind = k, NEW old \in Seq(L),
               \A i \in DOMAIN old : IsRecord(old[i]) => old[i].sig.kind = k
        PROVE  /\ Append(old, l) \in Seq(L)
               /\ \A i \in DOMAIN Append(old, l) :
                     IsRecord(Append(old, l)[i]) => Append(old, l)[i].sig.kind = k
    <3>1. Append(old, l) \in Seq(L) /\ Len(Append(old, l)) = Len(old) + 1
          /\ DOMAIN Append(old, l) = 1..(Len(old) + 1)
      BY <2>1
    <3>2. \A i \in 1..Len(old) : Append(old, l)[i] = old[i] /\ i \in DOMAIN old
      BY <2>1
    <3>3. Append(old, l)[Len(old) + 1] = l
      BY <2>1
    <3>4. \A i \in 1..(Len(old) + 1) : i = Len(old) + 1 \/ i \in 1..Len(old)
      BY <2>1
    <3> QED
      BY <2>1, <3>1, <3>2, <3>3, <3>4
  <2>2. \A i \in DOMAIN files[k] : IsRecord(files[k][i]) => files[k][i].sig.kind = k
    BY DEF FilesOK
  <2>3. CASE TearLine(k)
    <3>1. files' = [files EXCEPT ![k] = Append(files[k], TORN)]
      BY <1>1, <2>3 DEF TearLine
    <3> QED
      BY <1>1, <1>2, <2>1, <2>2, <3>1
  <2>4. CASE AppendLine(k, line) /\ ~ EndsTorn(files[k])
    <3>1. files' = [files EXCEPT ![k] = Append(files[k], line)]
      BY <1>1, <2>4 DEF AppendLine
    <3> QED
      BY <1>1, <2>1, <2>2, <3>1
  <2>5. CASE AppendLine(k, line) /\ EndsTorn(files[k])
    <3> DEFINE old == Front(files[k])
    <3>1. files' = [files EXCEPT ![k] = Append(old, GLUED)]
      BY <1>1, <2>5 DEF AppendLine
    <3>2. files[k] # <<>>
      BY <2>5 DEF EndsTorn
    <3>3. old \in Seq(L) /\ DOMAIN old = 1..(Len(files[k]) - 1)
          /\ \A i \in DOMAIN old : old[i] = files[k][i] /\ i \in DOMAIN files[k]
      BY <1>1, <3>2 DEF Front
    <3>4. \A i \in DOMAIN old : IsRecord(old[i]) => old[i].sig.kind = k
      BY <2>2, <3>3
    <3> HIDE DEF old
    <3> QED
      BY <1>2, <2>1, <3>1, <3>3, <3>4
  <2> QED
    BY <2>3, <2>4, <2>5
<1>4. files' \in [Kinds -> Seq(L)]
  BY <1>1, <1>3
<1>5. ASSUME NEW q \in Kinds, NEW i \in DOMAIN files'[q], IsRecord(files'[q][i])
      PROVE  files'[q][i].sig.kind = q
  <2>1. CASE q = k
    <3>1. files'[q] = new
      BY <1>1, <1>3, <2>1
    <3> QED
      BY <1>3, <1>5, <2>1, <3>1
  <2>2. CASE q # k
    <3>1. files'[q] = files[q]
      BY <1>1, <1>3, <2>2
    <3> QED
      BY <1>5, <3>1 DEF FilesOK
  <2> QED
    BY <2>1, <2>2
<1>6. Lines(deployment)' = L
  BY DEF Lines, FiledSigs
<1> QED
  BY <1>4, <1>5, <1>6 DEF FilesOK

-----------------------------------------------------------------------------
(* Signatures.                                                             *)

\* A measured case is filed in the file of its kind and under the version of
\* the database.
LEMMA CaseFiled ==
  ASSUME NEW d, NEW c \in CasesOf(d)
  PROVE  /\ c.kind \in Kinds
         /\ CaseSignature(c, DbVersion).kind = c.kind
         /\ CaseSignature(c, DbVersion).runtime.version = DbVersion
<1>1. c.kind \in {"gemm", "attention", "moe", "collective"}
  <2>1. CASE c \in GemmCases(d)
    BY <2>1 DEF GemmCases
  <2>2. CASE c \in AttentionCases(d)
    BY <2>2 DEF AttentionCases
  <2>3. CASE c \in MoeCases(d)
    BY <2>3 DEF MoeCases
  <2>4. CASE c \in CollectiveCases(d)
    BY <2>4 DEF CollectiveCases
  <2> QED
    BY <2>1, <2>2, <2>3, <2>4 DEF CasesOf
<1>2. CASE c.kind = "gemm"
  BY <1>2, KindsAre DEF CaseSignature, GemmCaseSignature, Signature, Runtime
<1>3. CASE c.kind = "attention"
  BY <1>3, KindsAre DEF CaseSignature, AttentionCaseSignature, Signature, AttentionRuntime
<1>4. CASE c.kind = "moe"
  BY <1>4, KindsAre DEF CaseSignature, MoeCaseSignature, Signature, Runtime
<1>5. CASE c.kind = "collective"
  BY <1>5, KindsAre DEF CaseSignature, CollectiveCaseSignature, Signature, CollectiveRuntime
<1> QED
  BY <1>1, <1>2, <1>3, <1>4, <1>5, KindsAre

\* What is looked up carries the version that runs.
LEMMA KeyVersion ==
  ASSUME NEW d, NEW op, HasSignature(op)
  PROVE  OpSignature(d, op).runtime.version = d.version
<1>1. CASE op.kind = "gemm"
  BY <1>1 DEF OpSignature, OpRuntime, Signature, Runtime
<1>2. CASE op.kind = "attention"
  <2>1. OpSignature(d, op) = FlashSignature(d, op)
    BY <1>2 DEF OpSignature
  <2>2. FlashSignature(d, op).runtime.version = d.version
    BY DEF FlashSignature, Signature, AttentionRuntime
  <2> QED
    BY <2>1, <2>2
<1>3. CASE op.kind = "mla"
  <2>1. OpSignature(d, op) = MLASignature(d, op)
    BY <1>3 DEF OpSignature
  <2>2. MLASignature(d, op).runtime.version = d.version
    BY DEF MLASignature, Signature, AttentionRuntime
  <2> QED
    BY <2>1, <2>2
<1>4. CASE op.kind = "moe"
  <2>1. OpSignature(d, op) = MoeSignature(d, op)
    BY <1>4 DEF OpSignature
  <2>2. MoeSignature(d, op).runtime.version = d.version
    BY DEF MoeSignature, OpRuntime, Signature, Runtime
  <2> QED
    BY <2>1, <2>2
<1>5. CASE op.kind = "collective"
  <2>1. OpSignature(d, op) = CollectiveSignature(d, op)
    BY <1>5 DEF OpSignature
  <2>2. CollectiveSignature(d, op).runtime.version = d.version
    BY DEF CollectiveSignature, OpRuntime, Signature, Runtime, CollectiveRuntime
  <2> QED
    BY <2>1, <2>2
<1> QED
  BY <1>1, <1>2, <1>3, <1>4, <1>5 DEF HasSignature

-----------------------------------------------------------------------------
(* The inductive invariant.                                                *)

\* An estimate is that of the store as it is.
EstimateOK ==
  \/ estimate = NoEstimate
  \/ \E so \in Steps, policy \in Policies : estimate = EstimateOf(so, policy)

\* The store holds what the collector filed for the deployment's model, under
\* the version of the database.
IInv ==
  /\ deployment \in Deployments
  /\ FilesOK
  /\ store \in Stores(FiledSigs(deployment))
  /\ EstimateOK

LEMMA EstimateKept ==
  ASSUME NEW so, NEW policy, deployment' = deployment, store' = store
  PROVE  EstimateOf(so, policy)' = EstimateOf(so, policy)
BY DEF EstimateOf, SourceOf, PriceOf, NodePrice, PlanPrice, Hit, Key

LEMMA InitInv == Init => IInv
<1> SUFFICES ASSUME Init PROVE IInv
  OBVIOUS
<1>1. FilesOK
  <2>1. << >> \in Seq(Lines(deployment)) /\ DOMAIN << >> = {}
    OBVIOUS
  <2>2. files = [k \in Kinds |-> << >>]
    BY DEF Init, StoreInit
  <2> QED
    BY <2>1, <2>2 DEF FilesOK
<1>2. store \in Stores(FiledSigs(deployment))
  <2>1. store = << >>
    BY DEF Init, StoreInit
  <2>2. << >> \in [{} -> Prices] /\ {} \in SUBSET FiledSigs(deployment)
    OBVIOUS
  <2> QED
    BY <2>1, <2>2 DEF Stores
<1> QED
  BY <1>1, <1>2 DEF Init, IInv, EstimateOK

LEMMA EstimateInv ==
  ASSUME IInv, NEW so \in Steps, NEW policy \in Policies, Estimate(so, policy)
  PROVE  IInv'
<1>1. files' = files /\ store' = store /\ deployment' = deployment
  BY DEF Estimate, storeVars
<1>2. FilesOK' /\ Stores(FiledSigs(deployment))' = Stores(FiledSigs(deployment))
  BY <1>1 DEF IInv, FilesOK, Stores, FiledSigs, Lines
<1>3. EstimateOK'
  <2>1. estimate' = EstimateOf(so, policy)'
    BY <1>1, EstimateKept DEF Estimate
  <2> QED
    BY <2>1 DEF EstimateOK
<1> QED
  BY <1>1, <1>2, <1>3 DEF IInv

LEMMA CollectInv ==
  ASSUME IInv, Collect
  PROVE  IInv'
<1>1. deployment' = deployment /\ estimate' = NoEstimate
  BY DEF Collect
<1>2. store' = store
  BY DEF Collect, AppendLine, TearLine
<1>3. FilesOK'
  <2>1. CASE \E c \in CasesOf(deployment), price \in Prices :
               AppendLine(c.kind, Record(CaseSignature(c, DbVersion), price))
    <3>1. PICK c \in CasesOf(deployment), price \in Prices :
                 AppendLine(c.kind, Record(CaseSignature(c, DbVersion), price))
      BY <2>1
    <3> DEFINE line == Record(CaseSignature(c, DbVersion), price)
    <3>2. line \in Lines(deployment) /\ line.sig = CaseSignature(c, DbVersion)
      BY DEF Lines, FiledSigs, Record
    <3>3. c.kind \in Kinds /\ line.sig.kind = c.kind
      BY <3>2, CaseFiled
    <3> HIDE DEF line
    <3>4. AppendLine(c.kind, line)
      BY <3>1 DEF line
    <3> QED
      BY <1>1, <3>2, <3>3, <3>4, LineAppended DEF IInv
  <2>2. CASE \E c \in CasesOf(deployment) : TearLine(c.kind)
    <3>1. PICK c \in CasesOf(deployment) : TearLine(c.kind)
      BY <2>2
    <3>2. c.kind \in Kinds /\ FOREIGN \in Lines(deployment) /\ ~ IsRecord(FOREIGN)
      BY CaseFiled DEF Lines, FOREIGN, IsRecord
    <3> QED
      BY <1>1, <3>1, <3>2, LineAppended DEF IInv
  <2>3. CASE AppendLine("attention", FOREIGN)
    <3>1. "attention" \in Kinds /\ FOREIGN \in Lines(deployment) /\ ~ IsRecord(FOREIGN)
      BY KindsAre DEF Lines, FOREIGN, IsRecord
    <3> QED
      BY <1>1, <2>3, <3>1, LineAppended DEF IInv
  <2> QED
    BY <2>1, <2>2, <2>3 DEF Collect
<1> QED
  BY <1>1, <1>2, <1>3 DEF IInv, EstimateOK, Stores, FiledSigs

LEMMA LoadInv ==
  ASSUME IInv, NEW ignoreMismatch \in BOOLEAN, Load(ignoreMismatch)
  PROVE  IInv'
<1>1. deployment' = deployment /\ estimate' = NoEstimate
  BY DEF Load
<1>2. store' \in Stores(FiledSigs(deployment)) /\ files' = files
  BY LoadPartitionLeaves DEF Load, IInv
<1>3. FilesOK' /\ Stores(FiledSigs(deployment))' = Stores(FiledSigs(deployment))
  BY <1>1, <1>2 DEF IInv, FilesOK, Stores, FiledSigs, Lines
<1> QED
  BY <1>1, <1>2, <1>3 DEF IInv, EstimateOK

\* What is filed, what is loaded and what is estimated agree, whatever is
\* measured, torn, loaded and let in (operator_db/stores/jsonl.py,
\* core/cost/router.py).
THEOREM InvCorrect == Spec => []IInv
<1>1. ASSUME IInv, [Next]_vars
      PROVE  IInv'
  <2>1. CASE \E so \in Steps, policy \in Policies : Estimate(so, policy)
    BY <1>1, <2>1, EstimateInv
  <2>2. CASE Collect
    BY <1>1, <2>2, CollectInv
  <2>3. CASE \E ignoreMismatch \in BOOLEAN : Load(ignoreMismatch)
    BY <1>1, <2>3, LoadInv
  <2>4. CASE UNCHANGED vars
    <3>1. files' = files /\ store' = store /\ deployment' = deployment /\ estimate' = estimate
      BY <2>4 DEF vars, storeVars
    <3>2. FilesOK' /\ Stores(FiledSigs(deployment))' = Stores(FiledSigs(deployment))
      BY <1>1, <3>1 DEF IInv, FilesOK, Stores, FiledSigs, Lines
    <3>3. EstimateOK'
      <4>1. \A so, policy : EstimateOf(so, policy)' = EstimateOf(so, policy)
        BY <3>1, EstimateKept
      <4> QED
        BY <1>1, <3>1, <4>1 DEF IInv, EstimateOK
    <3> QED
      BY <1>1, <3>1, <3>2, <3>3 DEF IInv
  <2> QED
    BY <1>1, <2>1, <2>2, <2>3, <2>4 DEF Next
<1> QED
  BY <1>1, InitInv, PTL DEF Spec

\* Every load that returns has taken every record there is, at the price of its
\* last line (stores/jsonl.py:30-48).
THEOREM LoadsEveryRecordAlways == Spec => LoadsEveryRecord
<1> DEFINE Complete ==
      \A k \in Kinds : \A i \in DOMAIN files[k] :
        LET line     == files[k][i]
            repeated == \E j \in DOMAIN files[k] :
                          j > i /\ IsRecord(files[k][j]) /\ files[k][j].sig = line.sig
        IN  IsRecord(line) /\ ~ repeated =>
              line.sig \in DOMAIN store' /\ store'[line.sig] = line.price
<1>1. ASSUME IInv, \E ignoreMismatch \in BOOLEAN : Load(ignoreMismatch), raised' = ""
      PROVE  Complete
  <2>1. \A k \in Kinds : Taken(files[k], store')
    BY <1>1, LoadPartitionLeaves DEF Load, IInv
  <2> QED
    BY <2>1 DEF Taken
<1>2. IInv /\ [Next]_vars =>
        [(\E ignoreMismatch \in BOOLEAN : Load(ignoreMismatch)) /\ raised' = "" => Complete]_vars
  BY <1>1
<1> QED
  BY <1>2, InvCorrect, PTL DEF Spec, LoadsEveryRecord

-----------------------------------------------------------------------------
(* Partial sums: an operator that contracts a sharded dimension is         *)
(* followed by what reduces its output.                                    *)

Partial(op) == op.name \in Contracting /\ RanksOf(op) > 1

Reduces(s, next, op) ==
  /\ next.kind \in {"collective", "moe_dispatch"}
  /\ next.shape.message_bytes = s.totalTokens * deployment.hidden
  /\ next.shape.world_size = RanksOf(op)

AllReduced(s, ops) ==
  /\ IsSeq(ops)
  /\ \A i \in 1..Len(ops) :
        Partial(ops[i]) => i + 1 \in 1..Len(ops) /\ Reduces(s, ops[i + 1], ops[i])

LEMMA ReducedJoined ==
  ASSUME NEW s, NEW a, NEW b, AllReduced(s, a), AllReduced(s, b)
  PROVE  AllReduced(s, a \o b)
<1> DEFINE c == a \o b
<1>1. /\ IsSeq(c) /\ Len(a) \in Nat /\ Len(b) \in Nat /\ Len(c) = Len(a) + Len(b)
      /\ \A i \in 1..Len(a) : c[i] = a[i]
      /\ \A i \in 1..Len(b) : c[Len(a) + i] = b[i]
  BY Joined DEF AllReduced
<1> HIDE DEF c
<1>2. ASSUME NEW i \in 1..Len(c), Partial(c[i])
      PROVE  i + 1 \in 1..Len(c) /\ Reduces(s, c[i + 1], c[i])
  <2>1. CASE i \in 1..Len(a)
    <3>1. i + 1 \in 1..Len(a) /\ Reduces(s, a[i + 1], a[i])
      BY <1>1, <1>2, <2>1 DEF AllReduced
    <3> QED
      BY <1>1, <2>1, <3>1
  <2>2. CASE i \notin 1..Len(a)
    <3> DEFINE j == i - Len(a)
    <3>1. j \in 1..Len(b) /\ i = Len(a) + j
      BY <1>1, <2>2
    <3>2. j + 1 \in 1..Len(b) /\ Reduces(s, b[j + 1], b[j])
      <4> HIDE DEF j
      <4> QED
        BY <1>1, <1>2, <3>1 DEF AllReduced
    <3>3. i + 1 = Len(a) + (j + 1) /\ i + 1 \in 1..Len(c)
      BY <1>1, <3>1, <3>2
    <3> HIDE DEF j
    <3>4. c[i + 1] = b[j + 1] /\ c[i] = b[j]
      BY <1>1, <3>1, <3>2, <3>3
    <3> QED
      BY <3>2, <3>3, <3>4
  <2> QED
    BY <2>1, <2>2
<1> QED
  BY <1>1, <1>2 DEF AllReduced, c

LEMMA NothingPartial ==
  ASSUME NEW s, NEW a, IsSeq(a), \A i \in 1..Len(a) : a[i].name \notin Contracting
  PROVE  AllReduced(s, a)
BY DEF AllReduced, Partial

LEMMA EmptyReduced == \A s : AllReduced(s, << >>)
<1>1. IsSeq(<< >>) /\ Len(<< >>) = 0
  BY DEF IsSeq
<1> QED
  BY <1>1 DEF AllReduced

\* A projection followed by the all-reduce of its output.
LEMMA ReducedByAllReduce ==
  ASSUME deployment \in Deployments, NEW s, NEW a, NEW op, NEW name, NEW source,
         AllReduced(s, a), op.name \in {"o_proj", "down_proj", "shared_expert_down"},
         name \notin Contracting
  PROVE  AllReduced(s, (a \o <<op>>) \o TpAllReduce(name, deployment, s, source))
<1> DEFINE c == a \o <<op>>
           r == TpAllReduce(name, deployment, s, source)
           w == c \o r
<1>1. /\ IsSeq(c) /\ Len(a) \in Nat /\ Len(c) = Len(a) + 1
      /\ \A i \in 1..Len(a) : c[i] = a[i]
      /\ c[Len(a) + 1] = op
  <2>1. IsSeq(a) /\ IsSeq(<<op>>) /\ Len(<<op>>) = 1 /\ <<op>>[1] = op /\ 1 \in 1..1
    BY SeqOf1 DEF AllReduced
  <2> QED
    BY <2>1, Joined
<1> HIDE DEF c
<1>2. RanksOf(op) = deployment.tp /\ deployment.tp \in Nat
  BY DeploymentsOK DEF RanksOf, Replicated
<1>3. /\ IsSeq(r) /\ Len(r) \in Nat
      /\ \A i \in 1..Len(r) : r[i].name = name
      /\ deployment.tp > 1 => Len(r) = 1 /\ Reduces(s, r[1], op)
  <2>1. CASE deployment.tp <= 1
    <3>1. r = << >>
      BY <2>1 DEF TpAllReduce, AllReduce
    <3> HIDE DEF r
    <3> QED
      BY <1>2, <2>1, <3>1, EmptyReduced DEF AllReduced
  <2>2. CASE ~ (deployment.tp <= 1)
    <3> DEFINE e == [name |-> name, kind |-> "collective", source |-> source,
                     shape |-> [message_bytes |-> s.totalTokens * deployment.hidden,
                                world_size |-> deployment.tp]]
    <3>1. r = <<e>>
      BY <2>2 DEF TpAllReduce, AllReduce
    <3>2. Reduces(s, e, op) /\ e.name = name
      BY <1>2 DEF Reduces
    <3> HIDE DEF r, e
    <3>3. IsSeq(r) /\ Len(r) = 1 /\ r[1] = e /\ \A i \in 1..1 : i = 1
      BY <3>1, SeqOf1
    <3> QED
      BY <3>2, <3>3
  <2> QED
    BY <2>1, <2>2
<1> HIDE DEF r
<1>4. /\ IsSeq(w) /\ Len(w) = Len(a) + 1 + Len(r)
      /\ \A i \in 1..Len(c) : w[i] = c[i]
      /\ \A i \in 1..Len(r) : w[Len(c) + i] = r[i]
  BY <1>1, <1>3, Joined
<1> HIDE DEF w
<1>5. ASSUME NEW i \in 1..Len(w), Partial(w[i])
      PROVE  i + 1 \in 1..Len(w) /\ Reduces(s, w[i + 1], w[i])
  <2>1. CASE i \in 1..Len(a)
    <3>1. w[i] = a[i]
      BY <1>1, <1>4, <2>1
    <3>2. i + 1 \in 1..Len(a) /\ Reduces(s, a[i + 1], a[i])
      BY <1>5, <2>1, <3>1 DEF AllReduced
    <3>3. w[i + 1] = a[i + 1] /\ i + 1 \in 1..Len(w)
      BY <1>1, <1>3, <1>4, <3>2
    <3> QED
      BY <3>1, <3>2, <3>3
  <2>2. CASE i = Len(a) + 1
    <3>1. w[i] = op /\ i = Len(c) /\ i \in Nat
      BY <1>1, <1>4, <2>2
    <3>2. deployment.tp > 1
      BY <1>2, <1>5, <3>1 DEF Partial
    <3>3. Len(r) = 1 /\ 1 \in 1..Len(r) /\ w[Len(c) + 1] = r[1]
      BY <1>3, <1>4, <3>2
    <3> QED
      BY <1>1, <1>3, <1>4, <3>1, <3>2, <3>3
  <2>3. CASE i \notin 1..Len(a) /\ i # Len(a) + 1
    <3> DEFINE j == i - Len(c)
    <3>1. j \in 1..Len(r) /\ i = Len(c) + j
      BY <1>1, <1>3, <1>4, <2>3
    <3>2. w[i] = r[j]
      <4> HIDE DEF j
      <4> QED
        BY <1>4, <3>1
    <3>3. w[i].name = name
      BY <1>3, <3>1, <3>2
    <3> QED
      BY <1>5, <3>3 DEF Partial
  <2> QED
    BY <2>1, <2>2, <2>3
<1> QED
  BY <1>4, <1>5 DEF AllReduced, c, r, w

LEMMA OnePlain ==
  ASSUME NEW s, NEW op, op.name \notin Contracting
  PROVE  AllReduced(s, <<op>>)
<1>1. IsSeq(<<op>>) /\ Len(<<op>>) = 1 /\ <<op>>[1] = op /\ \A i \in 1..1 : i = 1
  BY SeqOf1
<1> QED
  BY <1>1, NothingPartial

LEMMA TwoPlain ==
  ASSUME NEW s, NEW a, NEW b, a.name \notin Contracting, b.name \notin Contracting
  PROVE  AllReduced(s, <<a, b>>)
<1>1. IsSeq(<<a, b>>) /\ Len(<<a, b>>) = 2 /\ <<a, b>>[1] = a /\ <<a, b>>[2] = b
      /\ \A i \in 1..2 : i = 1 \/ i = 2
  BY SeqOf2
<1> QED
  BY <1>1, NothingPartial

LEMMA ThreePlain ==
  ASSUME NEW s, NEW a, NEW b, NEW c,
         a.name \notin Contracting, b.name \notin Contracting, c.name \notin Contracting
  PROVE  AllReduced(s, <<a, b, c>>)
<1>1. IsSeq(<<a, b, c>>) /\ Len(<<a, b, c>>) = 3
      /\ <<a, b, c>>[1] = a /\ <<a, b, c>>[2] = b /\ <<a, b, c>>[3] = c
      /\ \A i \in 1..3 : i = 1 \/ i = 2 \/ i = 3
  BY SeqOf3
<1> QED
  BY <1>1, NothingPartial

\* Names of what contracts nothing.
LEMMA PlainNames ==
  /\ \A name, m, n, k : GEMM(name, m, n, k).name = name
  /\ \A name, e : Norm(name, e).name = name /\ ElementWise(name, e).name = name
  /\ \A m, n, k : Router(m, n, k).name = "moe_gate"
  /\ \A t, v, h : Embedding(t, v, h).name = "embedding"
  /\ \A d, h, s : MLAAttention(d, h, s).name = "mla_attention"
BY DEF GEMM, Norm, ElementWise, Router, Embedding, MLAAttention

LEMMA FlashReduced ==
  ASSUME NEW s, NEW heads, NEW kvHeads, NEW headDim
  PROVE  AllReduced(s, FlashAttention(heads, kvHeads, headDim, s))
<1> DEFINE ops == FlashAttention(heads, kvHeads, headDim, s)
<1>1. ops = << >> \/ \E op : ops = <<op>> /\ op.name = "attention"
  BY DEF FlashAttention
<1>2. CASE ops = << >>
  BY <1>2, EmptyReduced
<1>3. ASSUME NEW op, ops = <<op>>, op.name = "attention" PROVE AllReduced(s, ops)
  <2> HIDE DEF ops
  <2> QED
    BY <1>3, OnePlain DEF Contracting
<1> QED
  BY <1>1, <1>2, <1>3

LEMMA QwenAttentionReduced ==
  ASSUME deployment \in Deployments, NEW s
  PROVE  AllReduced(s, QwenAttentionOps(deployment, s))
<1> DEFINE d  == deployment
           T  == s.totalTokens
           nq == HeadsPerRank(d)
           nk == KvHeadsPerRank(d)
           n  == Norm("attn_norm", T * d.hidden)
           g  == GEMM("qkv_proj", T, (nq + 2 * nk) * d.headDim, d.hidden)
           e  == ElementWise("rope", T * (nq + nk) * d.headDim)
           f  == FlashAttention(nq, nk, d.headDim, s)
           o  == GEMM("o_proj", T, d.hidden, nq * d.headDim)
           r  == QwenReduce("tp_o_proj_allreduce", d, s)
           p  == ElementWise("attn_add", T * d.hidden)
<1>1. QwenAttentionOps(d, s) = (((<<n, g, e>> \o f) \o <<o>>) \o r) \o <<p>>
  BY DEF QwenAttentionOps
<1>2. n.name = "attn_norm" /\ g.name = "qkv_proj" /\ e.name = "rope" /\ o.name = "o_proj"
      /\ p.name = "attn_add"
  BY PlainNames
<1>3. r = TpAllReduce("tp_o_proj_allreduce", d, s, "torch_dist_nccl")
  BY DEF QwenReduce
<1>4. AllReduced(s, f)
  BY FlashReduced
<1> HIDE DEF n, g, e, f, o, r, p
<1>5. AllReduced(s, <<n, g, e>> \o f)
  BY <1>2, <1>4, ThreePlain, ReducedJoined DEF Contracting
<1>6. AllReduced(s, ((<<n, g, e>> \o f) \o <<o>>) \o r)
  BY <1>2, <1>3, <1>5, ReducedByAllReduce DEF Contracting
<1>7. AllReduced(s, <<p>>)
  BY <1>2, OnePlain DEF Contracting
<1> QED
  BY <1>1, <1>6, <1>7, ReducedJoined

LEMMA MlaAttentionReduced ==
  ASSUME deployment \in Deployments, NEW s
  PROVE  AllReduced(s, MlaAttentionOps(deployment, s))
<1> DEFINE d     == deployment
           T     == s.totalTokens
           heads == HeadsPerRank(d)
           qDim  == heads * QkHeadDim(d)
           n  == Norm("attn_norm", T * d.hidden)
           qa == GEMM("q_a_proj", T, d.qLora, d.hidden)
           qb == GEMM("q_b_proj", T, qDim, d.qLora)
           q  == GEMM("q_proj", T, qDim, d.hidden)
           qs == IF d.qLora > 0 THEN <<qa, qb>> ELSE <<q>>
           ka == GEMM("kv_a_proj_with_mqa", T, KvLatentDim(d), d.hidden)
           kb == GEMM("kv_b_proj", T, heads * (d.nope + d.vDim), d.kvLora)
           a  == MLAAttention(d, heads, s)
           o  == GEMM("o_proj", T, d.hidden, heads * d.vDim)
           r  == DeepSeekReduce("attn_allreduce", d, s)
           p  == ElementWise("attn_add", T * d.hidden)
<1>1. MlaAttentionOps(d, s) = (((<<n>> \o qs) \o <<ka, kb, a, o>>) \o r) \o <<p>>
  BY DEF MlaAttentionOps
<1>2. /\ n.name = "attn_norm" /\ qa.name = "q_a_proj" /\ qb.name = "q_b_proj"
      /\ q.name = "q_proj" /\ ka.name = "kv_a_proj_with_mqa" /\ kb.name = "kv_b_proj"
      /\ a.name = "mla_attention" /\ o.name = "o_proj" /\ p.name = "attn_add"
  BY PlainNames
<1>3. r = TpAllReduce("attn_allreduce", d, s, "vllm_default")
  BY DEF DeepSeekReduce
<1> HIDE DEF n, qa, qb, q, ka, kb, a, o, r, p
<1>4. AllReduced(s, qs)
  BY <1>2, OnePlain, TwoPlain DEF Contracting
<1> HIDE DEF qs
<1>5. AllReduced(s, (<<n>> \o qs) \o <<ka, kb, a>>)
  BY <1>2, <1>4, OnePlain, ThreePlain, ReducedJoined DEF Contracting
<1>6. (<<n>> \o qs) \o <<ka, kb, a, o>> = ((<<n>> \o qs) \o <<ka, kb, a>>) \o <<o>>
  <2> DEFINE u == <<n>> \o qs
             v == <<ka, kb, a>>
  <2>1. IsSeq(u) /\ IsSeq(v) /\ IsSeq(<<o>>)
    BY <1>4, SeqOf1, SeqOf3, Joined DEF AllReduced
  <2>2. <<ka, kb, a, o>> = v \o <<o>>
    BY LastOf4
  <2> HIDE DEF u, v
  <2>3. u \o (v \o <<o>>) = (u \o v) \o <<o>>
    BY <2>1, JoinAssociative
  <2>4. u \o <<ka, kb, a, o>> = (u \o v) \o <<o>>
    BY <2>2, <2>3
  <2> QED
    BY <2>4 DEF u, v
<1>7. AllReduced(s, ((<<n>> \o qs) \o <<ka, kb, a, o>>) \o r)
  BY <1>2, <1>3, <1>5, <1>6, ReducedByAllReduce DEF Contracting
<1>8. AllReduced(s, <<p>>)
  BY <1>2, OnePlain DEF Contracting
<1> QED
  BY <1>1, <1>7, <1>8, ReducedJoined

LEMMA DenseReduced ==
  ASSUME deployment \in Deployments, NEW s, NEW n, NEW g, NEW e, NEW o, NEW p, NEW name, NEW source,
         {n.name, g.name, e.name, p.name, name} \cap Contracting = {}, o.name = "down_proj"
  PROVE  AllReduced(s, (<<n, g, e, o>> \o TpAllReduce(name, deployment, s, source)) \o <<p>>)
<1>1. AllReduced(s, <<n, g, e>>) /\ AllReduced(s, <<p>>)
  BY OnePlain, ThreePlain
<1>2. AllReduced(s, (<<n, g, e>> \o <<o>>) \o TpAllReduce(name, deployment, s, source))
  BY <1>1, ReducedByAllReduce
<1>3. <<n, g, e, o>> = <<n, g, e>> \o <<o>>
  BY LastOf4
<1> QED
  BY <1>1, <1>2, <1>3, ReducedJoined

LEMMA SharedReduced ==
  ASSUME deployment \in Deployments, NEW s, NEW g, NEW e, NEW o, NEW name, NEW source,
         {g.name, e.name, name} \cap Contracting = {}, o.name = "shared_expert_down"
  PROVE  AllReduced(s, <<g, e, o>> \o TpAllReduce(name, deployment, s, source))
<1>1. AllReduced(s, <<g, e>>)
  BY TwoPlain
<1>2. AllReduced(s, (<<g, e>> \o <<o>>) \o TpAllReduce(name, deployment, s, source))
  BY <1>1, ReducedByAllReduce
<1>3. <<g, e, o>> = <<g, e>> \o <<o>>
  BY LastOf3
<1> QED
  BY <1>2, <1>3

LEMMA ExpertsReduced ==
  ASSUME deployment \in Deployments, NEW s, NEW n, NEW g, NEW e, NEW skew, NEW shared, NEW p,
         {n.name, g.name, e.name, p.name} \cap Contracting = {}, AllReduced(s, shared)
  PROVE  AllReduced(s, (<<n, g, e,
                          MoEDispatch(deployment, "moe_dispatch_pre", TRUE, s.totalTokens),
                          MoE(deployment, s.totalTokens, skew),
                          MoEDispatch(deployment, "moe_dispatch_post", FALSE, s.totalTokens)>>
                        \o shared) \o <<p>>)
<1> DEFINE pre  == MoEDispatch(deployment, "moe_dispatch_pre", TRUE, s.totalTokens)
           moe  == MoE(deployment, s.totalTokens, skew)
           post == MoEDispatch(deployment, "moe_dispatch_post", FALSE, s.totalTokens)
           a    == <<n, g, e, pre, moe, post>>
<1>1. /\ pre.name = "moe_dispatch_pre" /\ moe.name = "routed_experts"
      /\ post.name = "moe_dispatch_post" /\ post.kind = "moe_dispatch"
      /\ post.shape.world_size = Larger(deployment.tp, deployment.ep)
      /\ Larger(deployment.tp, deployment.ep) > 1
           => post.shape.message_bytes = s.totalTokens * deployment.hidden
  BY DEF MoEDispatch, MoE, DispatchWorld
<1>2. RanksOf(moe) = Larger(deployment.tp, deployment.ep)
  BY <1>1 DEF RanksOf, Replicated
<1> HIDE DEF pre, moe, post
<1>3. /\ IsSeq(a) /\ Len(a) = 6
      /\ (\A i \in 1..6 : i = 1 \/ i = 2 \/ i = 3 \/ i = 4 \/ i = 5 \/ i = 6)
      /\ a[1] = n /\ a[2] = g /\ a[3] = e /\ a[4] = pre /\ a[5] = moe /\ a[6] = post
  BY SeqOf6
<1> HIDE DEF a
<1>4. ASSUME NEW i \in 1..Len(a), Partial(a[i])
      PROVE  i + 1 \in 1..Len(a) /\ Reduces(s, a[i + 1], a[i])
  <2>1. a[i].name \in Contracting
    BY <1>4 DEF Partial
  <2>2. i = 5
    BY <1>1, <1>3, <2>1 DEF Contracting
  <2>3. Larger(deployment.tp, deployment.ep) > 1
    BY <1>2, <1>3, <1>4, <2>2 DEF Partial
  <2>4. Reduces(s, post, moe)
    BY <1>1, <1>2, <2>3 DEF Reduces
  <2> QED
    BY <1>3, <2>2, <2>4
<1>5. AllReduced(s, a)
  BY <1>3, <1>4 DEF AllReduced
<1>6. AllReduced(s, <<p>>)
  BY OnePlain
<1> QED
  BY <1>5, <1>6, ReducedJoined DEF a, pre, moe, post

LEMMA FfnReduced ==
  ASSUME deployment \in Deployments, NEW s, NEW layer
  PROVE  AllReduced(s, FfnOps(deployment, s, layer))
<1> DEFINE d      == deployment
           T      == s.totalTokens
           ffn    == FfnPerRank(d)
           sh     == SharedPerRank(d)
           n      == Norm("mlp_norm", T * d.hidden)
           p      == ElementWise("mlp_add", T * d.hidden)
           g      == GEMM("gate_up_proj", T, 2 * ffn, d.hidden)
           e      == ElementWise("mlp_act", T * ffn)
           o      == GEMM("down_proj", T, d.hidden, ffn)
           router == Router(T, d.experts, d.hidden)
           topk   == ElementWise("moe_topk", T * d.experts)
           sg     == GEMM("shared_expert_up_gate", T, 2 * sh, d.hidden)
           se     == ElementWise("shared_expert_act", T * sh)
           so     == GEMM("shared_expert_down", T, d.hidden, sh)
<1>1. /\ n.name = "mlp_norm" /\ p.name = "mlp_add" /\ g.name = "gate_up_proj"
      /\ e.name = "mlp_act" /\ o.name = "down_proj" /\ router.name = "moe_gate"
      /\ topk.name = "moe_topk" /\ sg.name = "shared_expert_up_gate"
      /\ se.name = "shared_expert_act" /\ so.name = "shared_expert_down"
  BY PlainNames
<1>2. AllReduced(s, QwenDenseFfnOps(d, s))
  <2>1. QwenDenseFfnOps(d, s)
          = (<<n, g, e, o>> \o TpAllReduce("tp_down_proj_allreduce", d, s, "torch_dist_nccl"))
              \o <<p>>
    BY DEF QwenDenseFfnOps, QwenReduce
  <2> HIDE DEF n, g, e, o, p
  <2> QED
    BY <1>1, <2>1, DenseReduced DEF Contracting
<1>3. AllReduced(s, DeepSeekDenseFfnOps(d, s))
  <2>1. DeepSeekDenseFfnOps(d, s)
          = (<<n, g, e, o>> \o TpAllReduce("mlp_allreduce", d, s, "vllm_default")) \o <<p>>
    BY DEF DeepSeekDenseFfnOps, DeepSeekReduce
  <2> HIDE DEF n, g, e, o, p
  <2> QED
    BY <1>1, <2>1, DenseReduced DEF Contracting
<1>4. AllReduced(s, QwenMoeFfnOps(d, s, layer))
  <2> DEFINE shared == IF d.shared > 0 THEN QwenSharedExpertOps(d, s) ELSE <<>>
  <2>1. QwenSharedExpertOps(d, s)
          = <<sg, se, so>> \o TpAllReduce("shared_expert_allreduce", d, s, "torch_dist_nccl")
    BY DEF QwenSharedExpertOps, QwenReduce
  <2>2. QwenMoeFfnOps(d, s, layer)
          = (<<n, router, topk, MoEDispatch(d, "moe_dispatch_pre", TRUE, T),
               MoE(d, T, SkewForLayer(d, layer)), MoEDispatch(d, "moe_dispatch_post", FALSE, T)>>
             \o shared) \o <<p>>
    BY DEF QwenMoeFfnOps
  <2> HIDE DEF n, router, topk, p, sg, se, so
  <2>3. AllReduced(s, QwenSharedExpertOps(d, s))
    BY <1>1, <2>1, SharedReduced DEF Contracting
  <2>4. AllReduced(s, shared)
    BY <2>3, EmptyReduced
  <2> HIDE DEF shared
  <2> QED
    BY <1>1, <2>2, <2>4, ExpertsReduced DEF Contracting
<1>5. AllReduced(s, DeepSeekMoeFfnOps(d, s, layer))
  <2> DEFINE shared == IF d.shared > 0 THEN DeepSeekSharedExpertOps(d, s) ELSE <<>>
  <2>1. DeepSeekSharedExpertOps(d, s)
          = <<sg, se, so>> \o TpAllReduce("shared_expert_allreduce", d, s, "vllm_default")
    BY DEF DeepSeekSharedExpertOps, DeepSeekReduce
  <2>2. DeepSeekMoeFfnOps(d, s, layer)
          = (<<n, router, topk, MoEDispatch(d, "moe_dispatch_pre", TRUE, T),
               MoE(d, T, SkewForLayer(d, layer)), MoEDispatch(d, "moe_dispatch_post", FALSE, T)>>
             \o shared) \o <<p>>
    BY DEF DeepSeekMoeFfnOps
  <2> HIDE DEF n, router, topk, p, sg, se, so
  <2>3. AllReduced(s, DeepSeekSharedExpertOps(d, s))
    BY <1>1, <2>1, SharedReduced DEF Contracting
  <2>4. AllReduced(s, shared)
    BY <2>3, EmptyReduced
  <2> HIDE DEF shared
  <2> QED
    BY <1>1, <2>2, <2>4, ExpertsReduced DEF Contracting
<1>6. FfnOps(d, s, layer) \in {QwenDenseFfnOps(d, s), DeepSeekDenseFfnOps(d, s),
                               QwenMoeFfnOps(d, s, layer), DeepSeekMoeFfnOps(d, s, layer)}
  <2>1. IsMoeLayer(d, layer) \in BOOLEAN
    BY DEF IsMoeLayer, IsMoE
  <2> QED
    BY <2>1 DEF FfnOps
<1> QED
  BY <1>2, <1>3, <1>4, <1>5, <1>6

LEMMA AttentionReduced ==
  ASSUME deployment \in Deployments, NEW s
  PROVE  AllReduced(s, AttentionOps(deployment, s))
BY QwenAttentionReduced, MlaAttentionReduced DEF AttentionOps

\* The same of the nodes of a plan, which also run as often.
NodesReduced(s, plan) ==
  /\ IsSeq(plan)
  /\ \A i \in 1..Len(plan) :
        Partial(plan[i].op) => /\ i + 1 \in 1..Len(plan)
                               /\ Reduces(s, plan[i + 1].op, plan[i].op)
                               /\ plan[i + 1].count = plan[i].count

LEMMA NodesJoined ==
  ASSUME NEW s, NEW a, NEW b, NodesReduced(s, a), NodesReduced(s, b)
  PROVE  NodesReduced(s, a \o b)
<1> DEFINE c == a \o b
<1>1. /\ IsSeq(c) /\ Len(a) \in Nat /\ Len(b) \in Nat /\ Len(c) = Len(a) + Len(b)
      /\ \A i \in 1..Len(a) : c[i] = a[i]
      /\ \A i \in 1..Len(b) : c[Len(a) + i] = b[i]
  BY Joined DEF NodesReduced
<1> HIDE DEF c
<1>2. ASSUME NEW i \in 1..Len(c), Partial(c[i].op)
      PROVE  /\ i + 1 \in 1..Len(c) /\ Reduces(s, c[i + 1].op, c[i].op)
             /\ c[i + 1].count = c[i].count
  <2>1. CASE i \in 1..Len(a)
    <3>1. /\ i + 1 \in 1..Len(a) /\ Reduces(s, a[i + 1].op, a[i].op)
          /\ a[i + 1].count = a[i].count
      BY <1>1, <1>2, <2>1 DEF NodesReduced
    <3> QED
      BY <1>1, <2>1, <3>1
  <2>2. CASE i \notin 1..Len(a)
    <3> DEFINE j == i - Len(a)
    <3>1. j \in 1..Len(b) /\ i = Len(a) + j
      BY <1>1, <2>2
    <3>2. /\ j + 1 \in 1..Len(b) /\ Reduces(s, b[j + 1].op, b[j].op)
          /\ b[j + 1].count = b[j].count
      <4> HIDE DEF j
      <4> QED
        BY <1>1, <1>2, <3>1 DEF NodesReduced
    <3>3. i + 1 = Len(a) + (j + 1) /\ i + 1 \in 1..Len(c)
      BY <1>1, <3>1, <3>2
    <3> HIDE DEF j
    <3>4. c[i + 1] = b[j + 1] /\ c[i] = b[j]
      BY <1>1, <3>1, <3>2, <3>3
    <3> QED
      BY <3>2, <3>3, <3>4
  <2> QED
    BY <2>1, <2>2
<1> QED
  BY <1>1, <1>2 DEF NodesReduced, c

\* Times changes the length and the operators of a graph in nothing.
LEMMA TimesKeeps ==
  ASSUME NEW ops, IsSeq(ops), NEW count
  PROVE  /\ IsSeq(Times(ops, count)) /\ Len(Times(ops, count)) = Len(ops)
         /\ Len(ops) \in Nat /\ DOMAIN ops = 1..Len(ops)
         /\ DOMAIN Times(ops, count) = 1..Len(ops)
         /\ \A i \in 1..Len(ops) : Times(ops, count)[i] = [op |-> ops[i], count |-> count]
<1> DEFINE u == Times(ops, count)
           S == {[op |-> ops[i], count |-> count] : i \in DOMAIN ops}
<1>1. Len(ops) \in Nat /\ DOMAIN ops = 1..Len(ops)
  BY DEF IsSeq
<1>2. u = [i \in 1..Len(ops) |-> [op |-> ops[i], count |-> count]]
  BY <1>1 DEF Times
<1>3. u \in Seq(S) /\ Len(u) = Len(ops)
  <2> DEFINE n == Len(ops)
  <2>1. u \in [1..n -> S] /\ n \in Nat
    BY <1>1, <1>2
  <2> HIDE DEF u, S, n
  <2> QED
    BY <2>1 DEF n
<1>4. IsSeq(u)
  <2> HIDE DEF u, S
  <2> QED
    BY <1>3, SeqOfAll
<1> QED
  BY <1>1, <1>2, <1>3, <1>4

LEMMA TimesReduced ==
  ASSUME NEW s, NEW ops, AllReduced(s, ops), NEW count
  PROVE  NodesReduced(s, Times(ops, count))
<1> DEFINE u == Times(ops, count)
<1>1. /\ IsSeq(u) /\ Len(u) = Len(ops)
      /\ \A i \in 1..Len(ops) : u[i] = [op |-> ops[i], count |-> count]
  BY TimesKeeps DEF AllReduced
<1> HIDE DEF u
<1>2. \A i \in 1..Len(ops) : u[i].op = ops[i] /\ u[i].count = count
  <2> SUFFICES ASSUME NEW i \in 1..Len(ops) PROVE u[i].op = ops[i] /\ u[i].count = count
    OBVIOUS
  <2>1. u[i] = [op |-> ops[i], count |-> count]
    BY <1>1
  <2> QED
    BY <2>1
<1>3. ASSUME NEW i \in 1..Len(u), Partial(u[i].op)
      PROVE  /\ i + 1 \in 1..Len(u) /\ Reduces(s, u[i + 1].op, u[i].op)
             /\ u[i + 1].count = u[i].count
  <2>1. i \in 1..Len(ops) /\ u[i].op = ops[i]
    BY <1>1, <1>2
  <2>2. i + 1 \in 1..Len(ops) /\ Reduces(s, ops[i + 1], ops[i])
    BY <1>3, <2>1 DEF AllReduced
  <2> QED
    BY <1>1, <1>2, <2>1, <2>2
<1> QED
  BY <1>1, <1>3 DEF NodesReduced, u

LEMMA BucketReduced ==
  ASSUME deployment \in Deployments, NEW s, NEW layers
  PROVE  NodesReduced(s, BucketNodes(deployment, s, layers))
<1>1. NodesReduced(s, << >>)
  BY EmptyReduced DEF AllReduced, NodesReduced
<1>2. \A layer, count : NodesReduced(s, Times(FfnOps(deployment, s, layer), count))
  BY FfnReduced, TimesReduced
<1> QED
  BY <1>1, <1>2 DEF BucketNodes

LEMMA PlanReduced ==
  ASSUME deployment \in Deployments, NEW s
  PROVE  NodesReduced(s, PlanOf(deployment, s))
<1> DEFINE d == deployment
           e == Times(EmbeddingOps(d, s), 1)
           a == Times(AttentionOps(d, s), d.layers)
           f == BucketNodes(d, s, DenseLayers(d))
           m == BucketNodes(d, s, MoeLayers(d))
           h == Times(LmHeadOps(d, s), 1)
<1>1. PlanOf(d, s) = (((e \o a) \o f) \o m) \o h
  BY DEF PlanOf
<1>2. AllReduced(s, EmbeddingOps(d, s)) /\ AllReduced(s, LmHeadOps(d, s))
  BY PlainNames, OnePlain DEF EmbeddingOps, LmHeadOps, Contracting
<1>3. NodesReduced(s, e) /\ NodesReduced(s, h) /\ NodesReduced(s, a)
  BY <1>2, AttentionReduced, TimesReduced
<1>4. NodesReduced(s, f) /\ NodesReduced(s, m)
  BY BucketReduced
<1> HIDE DEF e, a, f, m, h
<1> QED
  BY <1>1, <1>3, <1>4, NodesJoined

\* Whatever the model, the sizes of its parallel groups, and the step: what the
\* ranks hold in parts is reduced by the very next operator, over the ranks
\* that hold a part and as often (qwen3.py, qwen3_moe.py, deepseek.py).
THEOREM PartialSumsReducedAlways == Spec => []PartialSumsReduced
<1>1. IInv => PartialSumsReduced
  <2> SUFFICES ASSUME IInv PROVE PartialSumsReduced
    OBVIOUS
  <2> DEFINE s == StepShapeOf
             p == Plan
  <2>1. NodesReduced(s, p)
    BY PlanReduced DEF IInv, Plan
  <2> HIDE DEF s, p
  <2>2. DOMAIN p = 1..Len(p)
    BY <2>1 DEF NodesReduced, IsSeq
  <2>3. \A i \in DOMAIN p : Partial(p[i].op) =>
          Reduces(s, p[i + 1].op, p[i].op) /\ p[i + 1].count = p[i].count
    BY <2>1, <2>2 DEF NodesReduced
  <2> QED
    BY <2>3 DEF PartialSumsReduced, Partial, Reduces, s, p
<1> QED
  BY <1>1, InvCorrect, PTL

-----------------------------------------------------------------------------
(* Where the prices come from.                                             *)

SourcesOf(policy, plan) == {SourceOf(policy, plan[i].op) : i \in DOMAIN plan}

\* The last estimate, once there is one.
PricedBy(so, policy) ==
  /\ estimate.workload = Extract(so, Req)
  /\ estimate.policy = policy
  /\ estimate.outcome \in {"NotImplementedError", "LookupError", "priced"}
  /\ estimate.outcome # "priced" => estimate.sources = {}
  /\ Priced => /\ Builds(deployment, StepShapeOf)
               /\ estimate.sources = SourcesOf(policy, Plan)
               /\ "none" \notin SourcesOf(policy, Plan)
               /\ estimate.total = PlanPrice(policy, Plan)

LEMMA EstimateIs ==
  ASSUME NEW so, NEW policy, estimate = EstimateOf(so, policy)
  PROVE  PricedBy(so, policy)
<1> DEFINE workload == Extract(so, Req)
           shape    == ShapeOf(workload)
           plan     == PlanOf(deployment, shape)
           Outcome(outcome, used, total) ==
             [outcome |-> outcome, workload |-> workload, policy |-> policy,
              sources |-> used, total |-> total]
<1>1. \/ estimate = Outcome("NotImplementedError", {}, 0)
      \/ estimate = Outcome("LookupError", {}, 0)
      \/ /\ estimate = Outcome("priced", SourcesOf(policy, plan), PlanPrice(policy, plan))
         /\ "none" \notin SourcesOf(policy, plan) /\ Builds(deployment, shape)
  <2> DEFINE sources == SourcesOf(policy, plan)
             B       == Builds(deployment, shape)
             R       == Refused(sources)
  <2>1. EstimateOf(so, policy)
          = CASE ~ B     -> Outcome("NotImplementedError", {}, 0)
              [] B /\ R  -> Outcome("LookupError", {}, 0)
              [] OTHER   -> Outcome("priced", sources, PlanPrice(policy, plan))
    BY DEF EstimateOf, SourcesOf
  <2>2. "none" \in sources => R
    BY DEF Refused
  <2> HIDE DEF B, R, sources, Outcome, plan
  <2> QED
    BY <2>1, <2>2 DEF sources, B
<1>2. Plan = PlanOf(deployment, ShapeOf(estimate.workload))
      /\ StepShapeOf = ShapeOf(estimate.workload)
  BY DEF Plan, StepShapeOf
<1> HIDE DEF workload
<1>3. estimate.workload = workload
  BY <1>1
<1>4. Plan = plan /\ StepShapeOf = shape
  BY <1>2, <1>3
<1> HIDE DEF plan, shape
<1> QED
  BY <1>1, <1>3, <1>4 DEF PricedBy, Priced, workload

LEMMA SourceHit ==
  ASSUME NEW policy, NEW op, SourceOf(policy, op) = "operator_db"
  PROVE  Hit(op)
<1> DEFINE looked == policy.mode # "roofline_only" /\ policy.db /\ Hit(op)
           falls  == MayFallBack(policy)
<1>1. SourceOf(policy, op) = CASE looked -> "operator_db"
                               [] falls  -> "roofline"
                               [] OTHER  -> "none"
  BY DEF SourceOf
<1>2. looked
  <2> HIDE DEF looked, falls
  <2> QED
    BY <1>1
<1> QED
  BY <1>2

LEMMA HitVersion ==
  ASSUME IInv, NEW op, Hit(op)
  PROVE  deployment.version = DbVersion
<1>1. Key(op) \in FiledSigs(deployment)
  BY DEF Hit, IInv, Stores
<1>2. Key(op).runtime.version = DbVersion
  BY <1>1, CaseFiled DEF FiledSigs
<1>3. Key(op).runtime.version = deployment.version
  BY KeyVersion DEF Key, Hit
<1> QED
  BY <1>2, <1>3

\* A measured price is one of the version that runs, whatever partitions
\* ignore_version_mismatch let in (cost/backends/operator_db.py,
\* operator_db/version_check.py).
THEOREM VersionIsolatedAlways == Spec => []VersionIsolated
<1>1. ASSUME IInv, "operator_db" \in estimate.sources
      PROVE  deployment.version = DbVersion
  <2>1. PICK so \in Steps, policy \in Policies : estimate = EstimateOf(so, policy)
    BY <1>1 DEF IInv, EstimateOK, NoEstimate
  <2>2. PricedBy(so, policy)
    BY <2>1, EstimateIs
  <2>3. PICK i \in DOMAIN Plan : SourceOf(policy, Plan[i].op) = "operator_db"
    BY <1>1, <2>2 DEF PricedBy, Priced, SourcesOf
  <2>4. Hit(Plan[i].op)
    BY <2>3, SourceHit
  <2> QED
    BY <1>1, <2>4, HitVersion
<1>2. IInv => VersionIsolated
  BY <1>1 DEF VersionIsolated
<1> QED
  BY <1>2, InvCorrect, PTL

StartsWith(u, x) == IsSeq(u) /\ 1 \in 1..Len(u) /\ u[1] = x

LEMMA StartStays ==
  ASSUME NEW x, NEW u, NEW v, StartsWith(u, x), IsSeq(v)
  PROVE  StartsWith(u \o v, x)
<1> DEFINE w == u \o v
<1>1. /\ IsSeq(w) /\ Len(u) \in Nat /\ Len(v) \in Nat /\ Len(w) = Len(u) + Len(v)
      /\ \A i \in 1..Len(u) : w[i] = u[i]
  BY Joined DEF StartsWith
<1> HIDE DEF w
<1>2. 1 \in 1..Len(w) /\ w[1] = x
  BY <1>1 DEF StartsWith
<1> QED
  BY <1>1, <1>2 DEF StartsWith, w

\* Every plan starts with the embedding, which has no signature.
LEMMA EmbeddingFirst ==
  ASSUME deployment \in Deployments, NEW s
  PROVE  /\ 1 \in DOMAIN PlanOf(deployment, s)
         /\ PlanOf(deployment, s)[1].op.kind = "embedding"
<1> DEFINE d == deployment
           e == Times(EmbeddingOps(d, s), 1)
           a == Times(AttentionOps(d, s), d.layers)
           f == BucketNodes(d, s, DenseLayers(d))
           m == BucketNodes(d, s, MoeLayers(d))
           h == Times(LmHeadOps(d, s), 1)
           op   == Embedding(s.totalTokens, d.vocab, d.hidden)
           node == [op |-> op, count |-> 1]
<1>1. PlanOf(d, s) = (((e \o a) \o f) \o m) \o h
  BY DEF PlanOf
<1>2. node.op.kind = "embedding"
  BY DEF Embedding
<1>3. StartsWith(e, node)
  <2> DEFINE one == <<op>>
  <2>1. IsSeq(one) /\ Len(one) = 1 /\ one[1] = op
    BY SeqOf1
  <2>2. e = Times(one, 1)
    BY DEF EmbeddingOps
  <2> HIDE DEF e, op, one
  <2>3. 1 \in 1..Len(one) /\ Len(e) = Len(one) /\ IsSeq(e)
        /\ \A i \in 1..Len(one) : e[i] = [op |-> one[i], count |-> 1]
    BY <2>1, <2>2, TimesKeeps
  <2> QED
    BY <2>1, <2>3 DEF StartsWith
<1>4. IsSeq(a) /\ IsSeq(h)
  BY AttentionReduced, SeqOf1, TimesKeeps DEF AllReduced, LmHeadOps
<1>5. IsSeq(f) /\ IsSeq(m)
  BY BucketReduced DEF NodesReduced
<1> HIDE DEF e, a, f, m, h, node
<1>6. StartsWith(PlanOf(d, s), node)
  BY <1>1, <1>3, <1>4, <1>5, StartStays
<1> QED
  BY <1>2, <1>6 DEF StartsWith, IsSeq

\* A policy that may not fall back never prices a step: some operator of it has
\* no price, and the engine does not pass it over (cost/engine.py,
\* cost/router.py).
THEOREM NoSilentFallbackAlways == Spec => []NoSilentFallback
<1>1. ASSUME IInv, Priced
      PROVE  \/ estimate.policy.mode = "roofline_only"
             \/ estimate.policy.mode = "operator_db_first" /\ estimate.policy.fallback
  <2>1. PICK so \in Steps, policy \in Policies : estimate = EstimateOf(so, policy)
    BY <1>1 DEF IInv, EstimateOK, NoEstimate, Priced
  <2>2. PricedBy(so, policy)
    BY <2>1, EstimateIs
  <2> DEFINE op == Plan[1].op
  <2>3. 1 \in DOMAIN Plan /\ op.kind = "embedding"
    BY <1>1, EmbeddingFirst DEF Plan, IInv
  <2>4. SourceOf(policy, op) # "none"
    BY <1>1, <2>2, <2>3 DEF PricedBy, SourcesOf
  <2>5. ~ Hit(op)
    BY <2>3 DEF Hit, HasSignature
  <2>6. MayFallBack(policy)
    <3> DEFINE hit   == Hit(op)
               falls == MayFallBack(policy)
    <3>1. SourceOf(policy, op)
            = CASE policy.mode # "roofline_only" /\ policy.db /\ hit -> "operator_db"
                [] falls -> "roofline"
                [] OTHER -> "none"
      BY DEF SourceOf
    <3>2. ~ hit
      BY <2>5
    <3> HIDE DEF hit, falls, op
    <3>3. falls
      BY <2>4, <3>1, <3>2
    <3> QED
      BY <3>3 DEF falls
  <2> QED
    BY <2>2, <2>6 DEF MayFallBack, PricedBy
<1>2. IInv => NoSilentFallback
  BY <1>1 DEF NoSilentFallback
<1> QED
  BY <1>2, InvCorrect, PTL

-----------------------------------------------------------------------------
(* What a step is reduced to.                                              *)

LEMMA DivisionBounds ==
  ASSUME NEW c \in Nat, NEW n \in Nat, n # 0
  PROVE  c \div n \in Nat /\ (c \div n) * n <= c /\ c < (c \div n + 1) * n
OBVIOUS

LEMMA WorkloadTyped ==
  ASSUME NEW so \in Steps
  PROVE  LET w == Extract(so, Req)
         IN  /\ IsFiniteSet(DOMAIN w)
             /\ \A r \in DOMAIN w : /\ w[r].tokens \in Nat \ {0} /\ w[r].context \in Nat
                                    /\ w[r].tokens <= w[r].context
<1> DEFINE w == Extract(so, Req)
<1>1. DOMAIN w = Scheduled(so) /\ IsFiniteSet(Scheduled(so))
  BY StepsOK DEF Extract
<1>2. ASSUME NEW r \in Scheduled(so)
      PROVE  /\ w[r].tokens \in Nat \ {0} /\ w[r].context \in Nat
             /\ w[r].tokens <= w[r].context
  <2>1. CASE r \in New(so)
    <3>1. w[r] = NewWorkload(so, r)
      BY <2>1 DEF Extract
    <3>2. w[r].tokens = so.ntok[r] /\ w[r].context = so.new[r] + so.ntok[r]
      BY <3>1 DEF NewWorkload
    <3> HIDE DEF w
    <3> QED
      BY <2>1, <3>2, StepsOK
  <2>2. CASE r \notin New(so)
    <3>1. w[r] = CachedWorkload(so, r, Req)
      BY <2>2 DEF Extract
    <3>2. w[r].tokens = so.ntok[r] /\ w[r].context = so.cached[r].computed + so.ntok[r]
      BY <3>1 DEF CachedWorkload
    <3> HIDE DEF w
    <3> QED
      BY <2>2, <3>2, StepsOK
  <2> QED
    BY <2>1, <2>2
<1> HIDE DEF w
<1>3. /\ IsFiniteSet(DOMAIN w)
      /\ \A r \in DOMAIN w : /\ w[r].tokens \in Nat \ {0} /\ w[r].context \in Nat
                             /\ w[r].tokens <= w[r].context
  BY <1>1, <1>2
<1> QED
  BY <1>3 DEF w

\* The tokens of some of the requests: at least one each.
LEMMA TokensCounted ==
  ASSUME NEW w, IsFiniteSet(DOMAIN w), \A r \in DOMAIN w : w[r].tokens \in Nat \ {0},
         NEW R \in SUBSET DOMAIN w
  PROVE  /\ TokensOf(w, R) \in Nat /\ Cardinality(R) \in Nat
         /\ TokensOf(w, R) = 0 <=> R = {}
         /\ Cardinality(R) = 0 <=> R = {}
<1> DEFINE f == [r \in DOMAIN w |-> w[r].tokens]
           g == [r \in DOMAIN w |-> 1]
<1>1. IsFiniteSet(R) /\ Cardinality(R) \in Nat /\ (Cardinality(R) = 0 <=> R = {})
  BY FS_Subset, FS_CardinalityType, FS_EmptySet
<1>2. \A r \in R : f[r] \in Int /\ f[r] >= 0 /\ g[r] \in Int /\ g[r] = 1 /\ g[r] <= f[r]
  OBVIOUS
<1>3. TokensOf(w, R) = SumFunctionOnSet(f, R)
  BY DEF TokensOf
<1> HIDE DEF f, g
<1>4. SumFunctionOnSet(f, R) \in Nat
  BY <1>1, <1>2, SumType
<1>5. SumFunctionOnSet(g, R) = 1 * Cardinality(R)
  BY <1>1, <1>2, SumConstant
<1>6. SumFunctionOnSet(g, R) <= SumFunctionOnSet(f, R)
  BY <1>1, <1>2, SumAtMost
<1>7. R = {} => SumFunctionOnSet(f, R) = 0
  BY SumEmpty
<1> QED
  BY <1>1, <1>3, <1>4, <1>5, <1>6, <1>7

\* A prefill is as long as the longest one.
LEMMA PaddedPrefills ==
  ASSUME NEW w, IsFiniteSet(DOMAIN w), \A r \in DOMAIN w : w[r].tokens \in Nat \ {0}
  PROVE  LET R == PrefillRequests(w)
         IN  Cardinality(R) * MaxPrefillSeqlen(w) >= TokensOf(w, R)
<1> DEFINE R == PrefillRequests(w)
           f == [r \in DOMAIN w |-> w[r].tokens]
           m == MaxPrefillSeqlen(w)
           g == [r \in DOMAIN w |-> m]
           S == {w[r].tokens : r \in R}
<1>1. R \in SUBSET DOMAIN w
  BY DEF PrefillRequests
<1> HIDE DEF R
<1>2. IsFiniteSet(R) /\ Cardinality(R) \in Nat
  BY <1>1, FS_Subset, FS_CardinalityType
<1>3. IsFiniteSet(S \cup {0})
  <2>1. S = {f[r] : r \in R}
    BY <1>1
  <2>2. IsFiniteSet(S)
    <3> HIDE DEF f, S
    <3> QED
      BY <1>2, <2>1, FiniteImage
  <2> HIDE DEF S
  <2> QED
    BY <2>2, FS_AddElement
<1>4. m \in S \cup {0} /\ \A x \in S \cup {0} : x <= m
  <2>1. m = Max(S \cup {0})
    BY DEF MaxPrefillSeqlen, R
  <2>2. \A x \in S \cup {0} : x \in Int
    BY <1>1
  <2> DEFINE U == S \cup {0}
  <2>3. U # {}
    OBVIOUS
  <2> HIDE DEF U, m
  <2> QED
    BY <1>3, <2>1, <2>2, <2>3, MaxIn DEF U
<1>5. m \in Int
  BY <1>1, <1>4
<1>6. \A r \in R : f[r] \in Int /\ g[r] \in Int /\ f[r] <= g[r] /\ g[r] = m
  <2>1. \A r \in R : f[r] \in S /\ f[r] \in Int /\ g[r] = m
    BY <1>1
  <2> HIDE DEF f, g, m, S
  <2> QED
    BY <1>4, <1>5, <2>1
<1>7. TokensOf(w, R) = SumFunctionOnSet(f, R)
  BY DEF TokensOf
<1> HIDE DEF f, g, m
<1>8. SumFunctionOnSet(f, R) <= SumFunctionOnSet(g, R)
  BY <1>2, <1>6, SumAtMost
<1>9. SumFunctionOnSet(g, R) = m * Cardinality(R)
  BY <1>2, <1>5, <1>6, SumConstant
<1>10. SumFunctionOnSet(f, R) \in Int
  BY <1>2, <1>6, SumType
<1>11. m * Cardinality(R) = Cardinality(R) * m
  BY <1>2, <1>5
<1>12. Cardinality(R) * m \in Int
  BY <1>2, <1>5
<1> QED
  BY <1>7, <1>8, <1>9, <1>10, <1>11, <1>12 DEF R, m

\* The average of the contexts, times their number.
LEMMA AveragedContexts ==
  ASSUME NEW w, IsFiniteSet(DOMAIN w), \A r \in DOMAIN w : w[r].context \in Nat
  PROVE  LET R == DecodeRequests(w)
             n == Cardinality(R)
             c == ContextsOf(w, R)
         IN  /\ AvgDecodeContextLen(w) * n <= c
             /\ n > 0 => c < (AvgDecodeContextLen(w) + 1) * n
<1> DEFINE R == DecodeRequests(w)
           n == Cardinality(R)
           f == [r \in DOMAIN w |-> w[r].context]
           c == ContextsOf(w, R)
           a == AvgDecodeContextLen(w)
<1>1. R \in SUBSET DOMAIN w
  BY DEF DecodeRequests
<1> HIDE DEF R
<1>2. IsFiniteSet(R) /\ n \in Nat /\ (n = 0 <=> R = {})
  BY <1>1, FS_Subset, FS_CardinalityType, FS_EmptySet
<1>3. c \in Nat /\ (R = {} => c = 0)
  <2>1. c = SumFunctionOnSet(f, R)
    BY DEF ContextsOf
  <2>2. \A r \in R : f[r] \in Int /\ f[r] >= 0
    BY <1>1
  <2> HIDE DEF f, c
  <2> QED
    BY <1>2, <2>1, <2>2, SumType, SumEmpty
<1>4. a = IF R = {} THEN 0 ELSE c \div n
  BY DEF AvgDecodeContextLen, R
<1> HIDE DEF n, c, a
<1>5. a * n <= c /\ (n > 0 => c < (a + 1) * n)
  <2>1. CASE R = {}
    BY <1>2, <1>3, <1>4, <2>1
  <2>2. CASE R # {}
    <3>1. a = c \div n /\ n # 0
      BY <1>2, <1>4, <2>2
    <3>2. (c \div n) * n <= c /\ c < (c \div n + 1) * n
      BY <1>2, <1>3, <3>1, DivisionBounds
    <3> QED
      BY <3>1, <3>2
  <2> QED
    BY <2>1, <2>2
<1> QED
  BY <1>5 DEF a, n, c, R

\* How many rows the output head sees of a step.
LEMMA RowsOfHead ==
  ASSUME NEW w, IsFiniteSet(DOMAIN w), \A r \in DOMAIN w : w[r].tokens \in Nat \ {0}
  PROVE  LET s == ShapeOf(w)
         IN  /\ LmHeadRows(s) <= Cardinality(DOMAIN w)
             /\ s.phase # MIXED => LmHeadRows(s) = Cardinality(DOMAIN w)
<1> DEFINE s == ShapeOf(w)
           P == PrefillRequests(w)
           D == DecodeRequests(w)
           p == Cardinality(P)
           q == Cardinality(D)
           n == Cardinality(DOMAIN w)
<1>1. /\ s.phase = StepPhase(w) /\ s.prefillRequests = p /\ s.decodeRequests = q
  BY DEF ShapeOf
<1>2. P \in SUBSET DOMAIN w /\ D \in SUBSET DOMAIN w /\ P \cap D = {} /\ P \cup D = DOMAIN w
  BY DEF PrefillRequests, DecodeRequests
<1> HIDE DEF s, P, D
<1>3. /\ p \in Nat /\ q \in Nat
      /\ TokensOf(w, P) \in Nat /\ (TokensOf(w, P) = 0 <=> p = 0)
      /\ TokensOf(w, D) \in Nat /\ (TokensOf(w, D) = 0 <=> q = 0)
  BY <1>2, TokensCounted
<1>4. n = p + q
  <2>1. IsFiniteSet(P) /\ IsFiniteSet(D)
    BY <1>2, FS_Subset
  <2>2. Cardinality(P \cup D) = Cardinality(P) + Cardinality(D) - Cardinality(P \cap D)
    BY <2>1, FS_Union
  <2>3. Cardinality(P \cap D) = 0
    BY <1>2, FS_EmptySet
  <2> QED
    BY <1>2, <1>3, <2>2, <2>3
<1> DEFINE a == TokensOf(w, P)
           b == TokensOf(w, D)
<1>5. StepPhase(w) = CASE a > 0 /\ b > 0 -> MIXED
                       [] a > 0 /\ b = 0 -> PREFILL
                       [] OTHER          -> DECODE
  BY DEF StepPhase, P, D
<1>6. PREFILL # MIXED /\ PREFILL # DECODE /\ DECODE # MIXED
  BY DEF PREFILL, MIXED, DECODE
<1>7. LmHeadRows(s) = IF StepPhase(w) = PREFILL THEN Larger(p, 1) ELSE q
  BY <1>1 DEF LmHeadRows
<1> HIDE DEF p, q, n, a, b
<1>8. CASE a > 0 /\ b > 0
  <2>1. StepPhase(w) = MIXED
    BY <1>5, <1>8
  <2> QED
    BY <1>1, <1>3, <1>4, <1>6, <1>7, <2>1 DEF s, n
<1>9. CASE a > 0 /\ b = 0
  <2>1. StepPhase(w) = PREFILL
    BY <1>5, <1>9
  <2>2. p >= 1 /\ q = 0
    BY <1>3, <1>9 DEF a, b
  <2>3. LmHeadRows(s) = p /\ n = p
    BY <1>3, <1>4, <1>7, <2>1, <2>2 DEF Larger
  <2> QED
    BY <1>3, <2>3 DEF s, n
<1>10. CASE ~ (a > 0)
  <2>1. StepPhase(w) = DECODE
    BY <1>5, <1>10
  <2>2. p = 0
    BY <1>3, <1>10 DEF a, b
  <2>3. LmHeadRows(s) = q /\ n = q
    BY <1>3, <1>4, <1>6, <1>7, <2>1, <2>2
  <2> QED
    BY <1>3, <2>3 DEF s, n
<1>11. b > 0 \/ b = 0
  BY <1>3 DEF b
<1> QED
  BY <1>8, <1>9, <1>10, <1>11

\* The six aggregates a step is priced by bound what its requests do, for any
\* step a scheduler can hand out (step/step_shape.py, workload/workload.py).
THEOREM RowsCoverStepAlways == Spec => []RowsCoverStep
<1>1. ASSUME IInv, estimate.outcome # "none"
      PROVE  LET w        == estimate.workload
                 s        == StepShapeOf
                 contexts == ContextsOf(w, DecodeRequests(w))
                 rows     == LmHeadRows(s)
             IN  /\ s.totalTokens = SumFunction([r \in DOMAIN w |-> w[r].tokens])
                 /\ s.prefillRequests * s.maxPrefill >= s.prefillTokens
                 /\ s.avgContext * s.decodeRequests <= contexts
                 /\ s.decodeRequests > 0 => contexts < (s.avgContext + 1) * s.decodeRequests
                 /\ rows <= Cardinality(DOMAIN w)
                 /\ s.phase # MIXED => rows = Cardinality(DOMAIN w)
  <2>1. PICK so \in Steps, policy \in Policies : estimate = EstimateOf(so, policy)
    BY <1>1 DEF IInv, EstimateOK, NoEstimate
  <2> DEFINE w == estimate.workload
             s == StepShapeOf
  <2>2. w = Extract(so, Req)
    BY <2>1, EstimateIs DEF PricedBy
  <2>3. IsFiniteSet(DOMAIN w)
        /\ \A r \in DOMAIN w : w[r].tokens \in Nat \ {0} /\ w[r].context \in Nat
    <3> HIDE DEF w
    <3> QED
      BY <2>2, WorkloadTyped
  <2>4. s = ShapeOf(w)
    BY DEF StepShapeOf
  <2>5. /\ s.totalTokens = TokensOf(w, DOMAIN w)
        /\ s.prefillTokens = TokensOf(w, PrefillRequests(w))
        /\ s.prefillRequests = Cardinality(PrefillRequests(w))
        /\ s.decodeRequests = Cardinality(DecodeRequests(w))
        /\ s.maxPrefill = MaxPrefillSeqlen(w)
        /\ s.avgContext = AvgDecodeContextLen(w)
    BY <2>4 DEF ShapeOf
  <2> HIDE DEF w, s
  <2>6. s.totalTokens = SumFunction([r \in DOMAIN w |-> w[r].tokens])
    BY <2>5 DEF TokensOf, SumFunction
  <2>7. s.prefillRequests * s.maxPrefill >= s.prefillTokens
    BY <2>3, <2>5, PaddedPrefills
  <2>8. /\ s.avgContext * s.decodeRequests <= ContextsOf(w, DecodeRequests(w))
        /\ s.decodeRequests > 0 =>
             ContextsOf(w, DecodeRequests(w)) < (s.avgContext + 1) * s.decodeRequests
    BY <2>3, <2>5, AveragedContexts
  <2>9. /\ LmHeadRows(s) <= Cardinality(DOMAIN w)
        /\ s.phase # MIXED => LmHeadRows(s) = Cardinality(DOMAIN w)
    BY <2>3, <2>4, RowsOfHead
  <2> QED
    BY <2>6, <2>7, <2>8, <2>9 DEF w, s
<1>2. IInv => RowsCoverStep
  BY <1>1 DEF RowsCoverStep
<1> QED
  BY <1>2, InvCorrect, PTL

-----------------------------------------------------------------------------
(* What a plan costs.                                                      *)

CostOf(policy, ops) == SumFunction([i \in DOMAIN ops |-> PriceOf(policy, ops[i])])

\* Every node has a price.
Costs(policy, plan) ==
  /\ IsSeq(plan)
  /\ \A i \in 1..Len(plan) : PriceOf(policy, plan[i].op) \in Int /\ plan[i].count \in Int

LEMMA CostsJoined ==
  ASSUME NEW policy, NEW a, NEW b, IsSeq(a), IsSeq(b), Costs(policy, a \o b)
  PROVE  /\ Costs(policy, a) /\ Costs(policy, b)
         /\ PlanPrice(policy, a) \in Int /\ PlanPrice(policy, b) \in Int
         /\ PlanPrice(policy, a \o b) = PlanPrice(policy, a) + PlanPrice(policy, b)
<1> DEFINE c  == a \o b
           m  == Len(a)
           n  == Len(b)
           S  == 1..m
           R  == (m + 1)..(m + n)
           fa == [i \in DOMAIN a |-> NodePrice(policy, a[i])]
           fb == [i \in DOMAIN b |-> NodePrice(policy, b[i])]
           fc == [i \in DOMAIN c |-> NodePrice(policy, c[i])]
           to == [i \in 1..n |-> m + i]
<1>1. /\ m \in Nat /\ n \in Nat /\ DOMAIN a = 1..m /\ DOMAIN b = 1..n /\ DOMAIN c = 1..(m + n)
      /\ Len(c) = m + n
      /\ \A i \in 1..m : c[i] = a[i]
      /\ \A i \in 1..n : c[m + i] = b[i]
  BY Joined
<1>2. /\ PlanPrice(policy, a) = SumFunctionOnSet(fa, 1..m)
      /\ PlanPrice(policy, b) = SumFunctionOnSet(fb, 1..n)
      /\ PlanPrice(policy, c) = SumFunctionOnSet(fc, 1..(m + n))
  BY <1>1 DEF PlanPrice, SumFunction
<1> HIDE DEF c, m, n
<1>3. \A i \in 1..(m + n) : PriceOf(policy, c[i].op) \in Int /\ c[i].count \in Int
  BY <1>1 DEF Costs, c
<1>4. Costs(policy, a) /\ Costs(policy, b)
  <2>1. \A i \in 1..m : i \in 1..(m + n)
    BY <1>1
  <2>2. \A i \in 1..n : m + i \in 1..(m + n)
    BY <1>1
  <2> QED
    BY <1>1, <1>3, <2>1, <2>2 DEF Costs, m, n
<1>5. \A i \in 1..(m + n) : fc[i] \in Int /\ fc[i] = NodePrice(policy, c[i])
  BY <1>1, <1>3 DEF NodePrice
<1>6. /\ \A i \in 1..m : fa[i] = fc[i] /\ fa[i] \in Int /\ i \in 1..(m + n)
      /\ \A i \in 1..n : /\ to[i] \in 1..(m + n) /\ to[i] = m + i
                         /\ fb[i] = fc[to[i]] /\ fb[i] \in Int
  <2>1. \A i \in 1..m : i \in 1..(m + n) /\ fa[i] = NodePrice(policy, a[i]) /\ c[i] = a[i]
    BY <1>1
  <2>2. \A i \in 1..n : to[i] = m + i /\ m + i \in 1..(m + n)
                        /\ fb[i] = NodePrice(policy, b[i]) /\ c[m + i] = b[i]
    BY <1>1
  <2> HIDE DEF fa, fb, fc, to
  <2> QED
    BY <1>5, <2>1, <2>2
<1>7. \A i, j \in 1..n : to[i] = to[j] => i = j
  BY <1>1
<1>8. {to[i] : i \in 1..n} = R
  <2>1. \A i \in 1..n : to[i] \in R
    BY <1>1
  <2>2. \A k \in R : k - m \in 1..n /\ to[k - m] = k
    BY <1>1
  <2> HIDE DEF to, R
  <2> QED
    BY <2>1, <2>2
<1>9. S \cup R = 1..(m + n) /\ S \cap R = {} /\ IsFiniteSet(S) /\ IsFiniteSet(R)
      /\ IsFiniteSet(1..n)
  <2>1. S \cup R = 1..(m + n) /\ S \cap R = {}
    BY <1>1
  <2>2. m \in Int /\ n \in Int /\ 1 \in Int /\ m + 1 \in Int /\ m + n \in Int
    BY <1>1
  <2> QED
    BY <2>1, <2>2, FS_Interval
<1> HIDE DEF fa, fb, fc, to
<1>10. SumFunctionOnSet(fc, 1..(m + n)) = SumFunctionOnSet(fc, S) + SumFunctionOnSet(fc, R)
  <2>1. \A i \in S \cup R : fc[i] \in Int
    BY <1>5, <1>9
  <2> HIDE DEF S, R
  <2>2. SumFunctionOnSet(fc, S \cup R) = SumFunctionOnSet(fc, S) + SumFunctionOnSet(fc, R)
    BY <1>9, <2>1, SumUnion
  <2> QED
    BY <1>9, <2>2
<1>11. SumFunctionOnSet(fc, S) = SumFunctionOnSet(fa, S) /\ SumFunctionOnSet(fa, S) \in Int
  BY <1>6, <1>9, SumSame, SumType
<1>12. SumFunctionOnSet(fb, 1..n) = SumFunctionOnSet(fc, R)
       /\ SumFunctionOnSet(fb, 1..n) \in Int
  <2> DEFINE T == 1..n
  <2>1. IsFiniteSet(T) /\ \A i \in T : fc[to[i]] \in Int /\ fb[i] = fc[to[i]] /\ fb[i] \in Int
    BY <1>6, <1>9
  <2>2. \A i, j \in T : to[i] = to[j] => i = j
    BY <1>7
  <2>3. {to[i] : i \in T} = R
    BY <1>8
  <2> HIDE DEF T, R
  <2>4. SumFunctionOnSet(fb, T) = SumFunctionOnSet(fc, {to[i] : i \in T})
    BY <2>1, <2>2, SumRenamed
  <2>5. SumFunctionOnSet(fb, T) \in Int
    BY <2>1, SumType
  <2> QED
    BY <2>3, <2>4, <2>5 DEF T
<1> QED
  BY <1>2, <1>4, <1>10, <1>11, <1>12 DEF c

\* A node is priced once and multiplied.
LEMMA CostsTimes ==
  ASSUME NEW policy, NEW ops, IsSeq(ops), NEW count \in Int, Costs(policy, Times(ops, count))
  PROVE  /\ CostOf(policy, ops) \in Int
         /\ PlanPrice(policy, Times(ops, count)) = CostOf(policy, ops) * count
<1> DEFINE u == Times(ops, count)
           n == Len(ops)
           f == [i \in DOMAIN ops |-> PriceOf(policy, ops[i])]
           g == [i \in DOMAIN u |-> NodePrice(policy, u[i])]
<1>1. /\ n \in Nat /\ DOMAIN ops = 1..n /\ DOMAIN u = 1..n /\ Len(u) = n
      /\ \A i \in 1..n : u[i] = [op |-> ops[i], count |-> count]
  BY TimesKeeps
<1>2. /\ CostOf(policy, ops) = SumFunctionOnSet(f, 1..n)
      /\ PlanPrice(policy, u) = SumFunctionOnSet(g, 1..n)
  BY <1>1 DEF CostOf, PlanPrice, SumFunction
<1> HIDE DEF u, n
<1>3. ASSUME NEW i \in 1..n
      PROVE  f[i] \in Int /\ g[i] = f[i] * count
  <2>1. u[i] = [op |-> ops[i], count |-> count]
    BY <1>1
  <2>2. u[i].op = ops[i] /\ u[i].count = count
    BY <2>1
  <2>3. PriceOf(policy, u[i].op) \in Int
    BY <1>1 DEF Costs, u
  <2>4. f[i] = PriceOf(policy, ops[i]) /\ g[i] = NodePrice(policy, u[i])
    BY <1>1
  <2> QED
    BY <2>2, <2>3, <2>4 DEF NodePrice
<1>4. IsFiniteSet(1..n)
  BY <1>1, FS_Interval
<1> HIDE DEF f, g
<1>5. SumFunctionOnSet(g, 1..n) = SumFunctionOnSet(f, 1..n) * count
      /\ SumFunctionOnSet(f, 1..n) \in Int
  <2> DEFINE S == 1..n
  <2>1. IsFiniteSet(S) /\ \A i \in S : f[i] \in Int /\ g[i] = f[i] * count
    BY <1>3, <1>4
  <2> HIDE DEF S
  <2>2. SumFunctionOnSet(g, S) = SumFunctionOnSet(f, S) * count /\ SumFunctionOnSet(f, S) \in Int
    BY <2>1, SumScaled, SumType
  <2> QED
    BY <2>2 DEF S
<1> QED
  BY <1>2, <1>5 DEF u

\* Layers of a kind that route alike are the same operators.
LEMMA LayersAlike ==
  ASSUME NEW d, NEW s, NEW i, NEW j, IsMoeLayer(d, i) <=> IsMoeLayer(d, j),
         SkewForLayer(d, i) = SkewForLayer(d, j)
  PROVE  FfnOps(d, s, i) = FfnOps(d, s, j)
<1>1. /\ QwenMoeFfnOps(d, s, i) = QwenMoeFfnOps(d, s, j)
      /\ DeepSeekMoeFfnOps(d, s, i) = DeepSeekMoeFfnOps(d, s, j)
  BY DEF QwenMoeFfnOps, DeepSeekMoeFfnOps
<1>2. IsMoeLayer(d, i) = IsMoeLayer(d, j)
  BY DEF IsMoeLayer, IsMoE
<1> QED
  BY <1>1, <1>2 DEF FfnOps

LEMMA LayersSplit ==
  ASSUME NEW d, d.layers \in Nat
  PROVE  /\ LayersOf(d) = DenseLayers(d) \cup MoeLayers(d)
         /\ DenseLayers(d) \cap MoeLayers(d) = {}
         /\ IsFiniteSet(DenseLayers(d)) /\ IsFiniteSet(MoeLayers(d))
         /\ Cardinality(DenseLayers(d)) \in Nat /\ Cardinality(MoeLayers(d)) \in Nat
         /\ Cardinality(DenseLayers(d)) + Cardinality(MoeLayers(d)) = d.layers
         /\ LayersOf(d) \subseteq Int
         /\ \A i \in DenseLayers(d) : ~ IsMoeLayer(d, i)
         /\ \A i \in MoeLayers(d) : IsMoeLayer(d, i)
<1> DEFINE L == LayersOf(d)
           D == DenseLayers(d)
           M == MoeLayers(d)
<1>1. L = D \cup M /\ D \cap M = {} /\ D \subseteq L /\ M \subseteq L
      /\ (\A i \in D : ~ IsMoeLayer(d, i)) /\ (\A i \in M : IsMoeLayer(d, i))
  BY DEF DenseLayers, MoeLayers
<1>2. L = 0..(d.layers - 1) /\ L \subseteq Int
  BY DEF LayersOf
<1>3. IsFiniteSet(L) /\ Cardinality(L) = d.layers
  <2>1. 0 \in Int /\ d.layers - 1 \in Int
    OBVIOUS
  <2>2. /\ IsFiniteSet(0..(d.layers - 1))
        /\ Cardinality(0..(d.layers - 1))
             = IF 0 > d.layers - 1 THEN 0 ELSE (d.layers - 1) - 0 + 1
    BY <2>1, FS_Interval
  <2> QED
    BY <1>2, <2>2
<1> HIDE DEF L, D, M
<1>4. IsFiniteSet(D) /\ IsFiniteSet(M) /\ Cardinality(D) \in Nat /\ Cardinality(M) \in Nat
  BY <1>1, <1>3, FS_Subset, FS_CardinalityType
<1>5. Cardinality(D \cup M) = Cardinality(D) + Cardinality(M) - Cardinality(D \cap M)
  BY <1>4, FS_Union
<1>6. Cardinality(D \cap M) = 0
  BY <1>1, FS_EmptySet
<1> QED
  BY <1>1, <1>2, <1>3, <1>4, <1>5, <1>6 DEF L, D, M

\* A bucket costs what its layers cost together, a times over for what comes
\* with each of them.
LEMMA BucketCosts ==
  ASSUME deployment \in Deployments, UniformRouting, NEW policy, NEW s,
         NEW layers \in SUBSET LayersOf(deployment), IsFiniteSet(layers),
         \A i, j \in layers : IsMoeLayer(deployment, i) <=> IsMoeLayer(deployment, j),
         Costs(policy, BucketNodes(deployment, s, layers)),
         NEW a \in Int, NEW g,
         \A i \in layers : g[i] = a + CostOf(policy, FfnOps(deployment, s, i))
  PROVE  /\ PlanPrice(policy, BucketNodes(deployment, s, layers)) \in Int
         /\ \A i \in layers : g[i] \in Int
         /\ SumFunctionOnSet(g, layers)
              = a * Cardinality(layers) + PlanPrice(policy, BucketNodes(deployment, s, layers))
<1> DEFINE nodes == BucketNodes(deployment, s, layers)
           n     == Cardinality(layers)
<1>1. CASE layers = {}
  <2>1. nodes = << >> /\ n = 0
    BY <1>1, FS_EmptySet DEF BucketNodes
  <2>2. PlanPrice(policy, nodes) = 0
    <3> DEFINE f == [i \in DOMAIN nodes |-> NodePrice(policy, nodes[i])]
    <3>1. DOMAIN f = {}
      BY <2>1
    <3>2. PlanPrice(policy, nodes) = SumFunctionOnSet(f, {})
      BY <3>1 DEF PlanPrice, SumFunction
    <3> QED
      BY <3>2, SumEmpty
  <2>3. SumFunctionOnSet(g, layers) = 0
    BY <1>1, SumEmpty
  <2> QED
    BY <1>1, <2>1, <2>2, <2>3
<1>2. CASE layers # {}
  <2> DEFINE first == Min(layers)
             ops   == FfnOps(deployment, s, first)
             cost  == CostOf(policy, ops)
  <2>1. nodes = Times(ops, n)
    BY <1>2 DEF BucketNodes
  <2>2. first \in layers
    <3>1. \A x \in layers : x \in Int
      BY DEF LayersOf
    <3> QED
      BY <1>2, <3>1, MinIn
  <2>3. n \in Int /\ n \in Nat
    BY FS_CardinalityType
  <2>4. IsSeq(ops)
    BY FfnReduced DEF AllReduced
  <2> HIDE DEF n
  <2>5. cost \in Int /\ PlanPrice(policy, nodes) = cost * n
    <3> HIDE DEF ops, nodes
    <3>1. Costs(policy, Times(ops, n))
      BY <2>1 DEF nodes
    <3> QED
      BY <2>1, <2>3, <2>4, <3>1, CostsTimes
  <2>6. \A i \in layers : FfnOps(deployment, s, i) = ops
    <3> SUFFICES ASSUME NEW i \in layers PROVE FfnOps(deployment, s, i) = ops
      OBVIOUS
    <3>1. IsMoeLayer(deployment, i) <=> IsMoeLayer(deployment, first)
      BY <2>2
    <3>2. SkewForLayer(deployment, i) = SkewForLayer(deployment, first)
      BY <2>2 DEF UniformRouting
    <3> HIDE DEF first
    <3> QED
      BY <3>1, <3>2, LayersAlike
  <2>7. \A i \in layers : g[i] = a + cost /\ g[i] \in Int
    BY <2>5, <2>6
  <2> HIDE DEF cost, nodes
  <2>8. SumFunctionOnSet(g, layers) = (a + cost) * n
    <3>1. a + cost \in Int /\ \A i \in layers : g[i] = a + cost
      BY <2>5, <2>7
    <3> DEFINE c == a + cost
    <3> HIDE DEF c
    <3>2. SumFunctionOnSet(g, layers) = c * Cardinality(layers)
      BY <3>1, SumConstant DEF c
    <3> QED
      BY <3>2 DEF c, n
  <2>9. (a + cost) * n = a * n + cost * n /\ cost * n \in Int
    BY <2>3, <2>5
  <2> QED
    BY <2>5, <2>7, <2>8, <2>9 DEF nodes, n
<1> QED
  BY <1>1, <1>2

\* The operators of a step that was priced have prices.
LEMMA PlanCosts ==
  ASSUME IInv, NEW so \in Steps, NEW policy, PricedBy(so, policy), Priced
  PROVE  \A i \in DOMAIN Plan : PriceOf(policy, Plan[i].op) \in Int
<1> SUFFICES ASSUME NEW i \in DOMAIN Plan PROVE PriceOf(policy, Plan[i].op) \in Int
  OBVIOUS
<1> DEFINE op == Plan[i].op
<1>1. CASE SourceOf(policy, op) = "operator_db"
  <2>1. PriceOf(policy, op) = store[Key(op)]
    BY <1>1 DEF PriceOf
  <2>2. Key(op) \in DOMAIN store
    BY <1>1, SourceHit DEF Hit
  <2>3. PICK S \in SUBSET FiledSigs(deployment) : store \in [S -> Prices]
    BY DEF IInv, Stores
  <2>4. store[Key(op)] \in Prices
    BY <2>2, <2>3
  <2>5. Prices \subseteq Int
    BY StoreOK
  <2>6. PriceOf(policy, op) \in Int
    BY ONLY <2>1, <2>4, <2>5, Zenon
  <2> QED
    BY <2>6
<1>2. CASE SourceOf(policy, op) # "operator_db"
  <2>1. PriceOf(policy, op) = RooflinePrice(deployment, op)
    BY <1>2 DEF PriceOf
  <2> DEFINE s == ShapeOf(Extract(so, Req))
  <2>2. Builds(deployment, s) /\ Plan = PlanOf(deployment, s)
    BY DEF PricedBy, Plan, StepShapeOf
  <2>3. deployment \in Deployments
    BY DEF IInv
  <2> HIDE DEF s
  <2>4. RooflinePrice(deployment, op) \in Nat
    BY <2>2, <2>3, RooflineOK DEF s
  <2> QED
    BY <2>1, <2>4
<1> QED
  BY <1>1, <1>2

CountsAre(plan) == IsSeq(plan) /\ \A i \in 1..Len(plan) : plan[i].count \in Int

LEMMA CountsJoined ==
  ASSUME NEW a, NEW b, CountsAre(a), CountsAre(b)
  PROVE  CountsAre(a \o b)
<1> DEFINE c == a \o b
<1>1. /\ IsSeq(c) /\ Len(a) \in Nat /\ Len(b) \in Nat /\ Len(c) = Len(a) + Len(b)
      /\ \A i \in 1..Len(a) : c[i] = a[i]
      /\ \A i \in 1..Len(b) : c[Len(a) + i] = b[i]
  BY Joined DEF CountsAre
<1> HIDE DEF c
<1>2. ASSUME NEW i \in 1..Len(c)
      PROVE  c[i].count \in Int
  <2>1. CASE i \in 1..Len(a)
    BY <1>1, <2>1 DEF CountsAre
  <2>2. CASE i \notin 1..Len(a)
    <3> DEFINE j == i - Len(a)
    <3>1. j \in 1..Len(b) /\ i = Len(a) + j
      BY <1>1, <2>2
    <3> HIDE DEF j
    <3>2. c[i] = b[j]
      BY <1>1, <3>1
    <3> QED
      BY <3>1, <3>2 DEF CountsAre
  <2> QED
    BY <2>1, <2>2
<1> QED
  BY <1>1, <1>2 DEF CountsAre, c

\* The plan costs what its layers cost one by one.
LEMMA PlanPriced ==
  ASSUME deployment \in Deployments, UniformRouting, NEW policy, NEW s,
         \A i \in DOMAIN PlanOf(deployment, s) :
           PriceOf(policy, PlanOf(deployment, s)[i].op) \in Int
  PROVE  PlanPrice(policy, PlanOf(deployment, s))
           = CostOf(policy, EmbeddingOps(deployment, s))
               + CostOf(policy, LmHeadOps(deployment, s))
               + SumFunction([layer \in LayersOf(deployment) |->
                                CostOf(policy, AttentionOps(deployment, s))
                                  + CostOf(policy, FfnOps(deployment, s, layer))])
<1> DEFINE d  == deployment
           eo == EmbeddingOps(d, s)
           ao == AttentionOps(d, s)
           ho == LmHeadOps(d, s)
           D  == DenseLayers(d)
           M  == MoeLayers(d)
           e  == Times(eo, 1)
           a  == Times(ao, d.layers)
           f  == BucketNodes(d, s, D)
           m  == BucketNodes(d, s, M)
           h  == Times(ho, 1)
           A  == CostOf(policy, ao)
           g  == [layer \in LayersOf(d) |-> A + CostOf(policy, FfnOps(d, s, layer))]
<1>1. PlanOf(d, s) = (((e \o a) \o f) \o m) \o h
  BY DEF PlanOf
<1>2. d.layers \in Nat /\ d.layers \in Int
  BY DeploymentTyped
<1>3. IsSeq(eo) /\ IsSeq(ao) /\ IsSeq(ho)
  BY AttentionReduced, SeqOf1 DEF AllReduced, EmbeddingOps, LmHeadOps
<1>4. IsSeq(e) /\ IsSeq(a) /\ IsSeq(h) /\ IsSeq(f) /\ IsSeq(m)
  BY <1>3, TimesKeeps, BucketReduced DEF NodesReduced
<1>5. \A i \in DOMAIN PlanOf(d, s) : PlanOf(d, s)[i].count \in Int
  <2>1. \A ops, count : IsSeq(ops) /\ count \in Int => CountsAre(Times(ops, count))
    <3> SUFFICES ASSUME NEW ops, NEW count \in Int, IsSeq(ops) PROVE CountsAre(Times(ops, count))
      OBVIOUS
    <3>1. \A i \in 1..Len(Times(ops, count)) : Times(ops, count)[i].count = count
      <4> SUFFICES ASSUME NEW i \in 1..Len(Times(ops, count))
                   PROVE  Times(ops, count)[i].count = count
        OBVIOUS
      <4>1. Times(ops, count)[i] = [op |-> ops[i], count |-> count]
        BY TimesKeeps
      <4> QED
        BY <4>1
    <3> QED
      BY <3>1, TimesKeeps DEF CountsAre
  <2>2. CountsAre(e) /\ CountsAre(a) /\ CountsAre(h)
    BY <1>2, <1>3, <2>1
  <2>3. CountsAre(f) /\ CountsAre(m)
    <3>1. CountsAre(<< >>)
      BY EmptyReduced DEF AllReduced, CountsAre
    <3>2. \A layer : IsSeq(FfnOps(d, s, layer))
      BY FfnReduced DEF AllReduced
    <3>3. Cardinality(D) \in Int /\ Cardinality(M) \in Int
      BY <1>2, LayersSplit
    <3> QED
      BY <2>1, <3>1, <3>2, <3>3 DEF BucketNodes
  <2> HIDE DEF e, a, f, m, h
  <2>4. CountsAre(PlanOf(d, s))
    BY <1>1, <2>2, <2>3, CountsJoined
  <2> QED
    BY <2>4 DEF CountsAre, IsSeq
<1> HIDE DEF e, a, f, m, h
<1>6. IsSeq(e \o a) /\ IsSeq((e \o a) \o f) /\ IsSeq(((e \o a) \o f) \o m)
      /\ IsSeq(PlanOf(d, s))
  BY <1>1, <1>4, Joined
<1>7. Costs(policy, PlanOf(d, s))
  BY <1>5, <1>6 DEF Costs, IsSeq
<1>8. /\ Costs(policy, e) /\ Costs(policy, a) /\ Costs(policy, f)
      /\ Costs(policy, m) /\ Costs(policy, h)
      /\ PlanPrice(policy, PlanOf(d, s))
           = PlanPrice(policy, e) + PlanPrice(policy, a) + PlanPrice(policy, f)
               + PlanPrice(policy, m) + PlanPrice(policy, h)
      /\ PlanPrice(policy, e) \in Int /\ PlanPrice(policy, a) \in Int
      /\ PlanPrice(policy, f) \in Int /\ PlanPrice(policy, m) \in Int
      /\ PlanPrice(policy, h) \in Int
  <2> DEFINE p == (e \o a) \o f
             q == ((e \o a) \o f) \o m
  <2>1. q = p \o m /\ PlanOf(d, s) = q \o h /\ p = (e \o a) \o f
    BY <1>1
  <2>2. IsSeq(p) /\ IsSeq(q)
    BY <1>6
  <2> HIDE DEF p, q
  <2>3. /\ Costs(policy, q) /\ Costs(policy, h)
        /\ PlanPrice(policy, PlanOf(d, s)) = PlanPrice(policy, q) + PlanPrice(policy, h)
        /\ PlanPrice(policy, h) \in Int
    BY <1>4, <1>7, <2>1, <2>2, CostsJoined
  <2>4. /\ Costs(policy, p) /\ Costs(policy, m)
        /\ PlanPrice(policy, q) = PlanPrice(policy, p) + PlanPrice(policy, m)
        /\ PlanPrice(policy, m) \in Int
    BY <1>4, <2>1, <2>2, <2>3, CostsJoined
  <2>5. /\ Costs(policy, e \o a) /\ Costs(policy, f)
        /\ PlanPrice(policy, p) = PlanPrice(policy, e \o a) + PlanPrice(policy, f)
        /\ PlanPrice(policy, f) \in Int
    BY <1>4, <1>6, <2>1, <2>4, CostsJoined
  <2>6. /\ Costs(policy, e) /\ Costs(policy, a)
        /\ PlanPrice(policy, e \o a) = PlanPrice(policy, e) + PlanPrice(policy, a)
        /\ PlanPrice(policy, e) \in Int /\ PlanPrice(policy, a) \in Int
    BY <1>4, <2>5, CostsJoined
  <2> QED
    BY <2>3, <2>4, <2>5, <2>6
<1>9. /\ PlanPrice(policy, e) = CostOf(policy, eo) /\ CostOf(policy, eo) \in Int
      /\ PlanPrice(policy, h) = CostOf(policy, ho) /\ CostOf(policy, ho) \in Int
      /\ PlanPrice(policy, a) = A * d.layers /\ A \in Int
  <2> HIDE DEF eo, ao, ho
  <2>1. PlanPrice(policy, e) = CostOf(policy, eo) * 1 /\ CostOf(policy, eo) \in Int
    BY <1>3, <1>8, CostsTimes DEF e
  <2>2. PlanPrice(policy, h) = CostOf(policy, ho) * 1 /\ CostOf(policy, ho) \in Int
    BY <1>3, <1>8, CostsTimes DEF h
  <2>3. PlanPrice(policy, a) = A * d.layers /\ A \in Int
    BY <1>2, <1>3, <1>8, CostsTimes DEF a
  <2> QED
    BY <2>1, <2>2, <2>3
<1> HIDE DEF A, eo, ao, ho
<1>10. SumFunction(g) = A * d.layers + PlanPrice(policy, f) + PlanPrice(policy, m)
  <2>1. /\ LayersOf(d) = D \cup M /\ D \cap M = {} /\ IsFiniteSet(D) /\ IsFiniteSet(M)
        /\ Cardinality(D) \in Nat /\ Cardinality(M) \in Nat
        /\ Cardinality(D) + Cardinality(M) = d.layers
        /\ (\A i \in D : ~ IsMoeLayer(d, i)) /\ (\A i \in M : IsMoeLayer(d, i))
    BY <1>2, LayersSplit
  <2>2. DOMAIN g = D \cup M
        /\ \A i \in D \cup M : g[i] = A + CostOf(policy, FfnOps(d, s, i))
    BY <2>1
  <2> HIDE DEF g, D, M
  <2>3. /\ \A i \in D : g[i] \in Int
        /\ SumFunctionOnSet(g, D) = A * Cardinality(D) + PlanPrice(policy, f)
    <3>1. Costs(policy, BucketNodes(d, s, D)) /\ D \in SUBSET LayersOf(d)
          /\ \A i, j \in D : IsMoeLayer(d, i) <=> IsMoeLayer(d, j)
      BY <1>8, <2>1 DEF f
    <3>2. \A i \in D : g[i] = A + CostOf(policy, FfnOps(d, s, i))
      BY <2>2
    <3> QED
      BY <1>9, <2>1, <3>1, <3>2, BucketCosts DEF f
  <2>4. /\ \A i \in M : g[i] \in Int
        /\ SumFunctionOnSet(g, M) = A * Cardinality(M) + PlanPrice(policy, m)
    <3>1. Costs(policy, BucketNodes(d, s, M)) /\ M \in SUBSET LayersOf(d)
          /\ \A i, j \in M : IsMoeLayer(d, i) <=> IsMoeLayer(d, j)
      BY <1>8, <2>1 DEF m
    <3>2. \A i \in M : g[i] = A + CostOf(policy, FfnOps(d, s, i))
      BY <2>2
    <3> QED
      BY <1>9, <2>1, <3>1, <3>2, BucketCosts DEF m
  <2>5. SumFunction(g) = SumFunctionOnSet(g, D) + SumFunctionOnSet(g, M)
    <3>1. \A i \in D \cup M : g[i] \in Int
      BY <2>3, <2>4
    <3>2. SumFunctionOnSet(g, D \cup M) = SumFunctionOnSet(g, D) + SumFunctionOnSet(g, M)
      BY <2>1, <3>1, SumUnion
    <3> QED
      BY <2>2, <3>2 DEF SumFunction
  <2>6. A * d.layers = A * Cardinality(D) + A * Cardinality(M)
        /\ A * Cardinality(D) \in Int /\ A * Cardinality(M) \in Int
    <3>1. \A x \in Int, u, v \in Nat : x * (u + v) = x * u + x * v /\ x * u \in Int
      OBVIOUS
    <3> QED
      BY <1>9, <2>1, <3>1
  <2> QED
    BY <1>8, <2>3, <2>4, <2>5, <2>6
<1> HIDE DEF g
<1>11. A * d.layers \in Int
  BY <1>2, <1>9
<1>12. PlanPrice(policy, PlanOf(d, s)) = CostOf(policy, eo) + CostOf(policy, ho) + SumFunction(g)
  BY <1>8, <1>9, <1>10, <1>11
<1> QED
  BY <1>12 DEF g, A, eo, ao, ho

\* Whatever mix of measurements and roofline the prices come from, a step costs
\* what its layers cost one by one, as long as all of them route alike
\* (cost/engine.py, the counts of partition_ffn_layers).
THEOREM StepCostsItsLayersAlways == Spec => []StepCostsItsLayers
<1>1. ASSUME IInv, Priced, UniformRouting
      PROVE  estimate.total
               = CostOf(estimate.policy, EmbeddingOps(deployment, StepShapeOf))
                   + CostOf(estimate.policy, LmHeadOps(deployment, StepShapeOf))
                   + SumFunction([layer \in LayersOf(deployment) |->
                        CostOf(estimate.policy, AttentionOps(deployment, StepShapeOf))
                          + CostOf(estimate.policy, FfnOps(deployment, StepShapeOf, layer))])
  <2>1. PICK so \in Steps, policy \in Policies : estimate = EstimateOf(so, policy)
    BY <1>1 DEF IInv, EstimateOK, NoEstimate, Priced
  <2>2. PricedBy(so, policy)
    BY <2>1, EstimateIs
  <2>3. estimate.policy = policy /\ estimate.total = PlanPrice(policy, Plan)
    BY <1>1, <2>2 DEF PricedBy
  <2>4. \A i \in DOMAIN Plan : PriceOf(policy, Plan[i].op) \in Int
    BY <1>1, <2>2, PlanCosts
  <2> DEFINE s == StepShapeOf
  <2>5. deployment \in Deployments /\ Plan = PlanOf(deployment, s)
    BY <1>1 DEF IInv, Plan
  <2> HIDE DEF s
  <2>6. PlanPrice(policy, PlanOf(deployment, s))
          = CostOf(policy, EmbeddingOps(deployment, s))
              + CostOf(policy, LmHeadOps(deployment, s))
              + SumFunction([layer \in LayersOf(deployment) |->
                               CostOf(policy, AttentionOps(deployment, s))
                                 + CostOf(policy, FfnOps(deployment, s, layer))])
    BY <1>1, <2>4, <2>5, PlanPriced
  <2> QED
    BY <2>3, <2>5, <2>6 DEF s
<1>2. IInv => StepCostsItsLayers
  BY <1>1 DEF StepCostsItsLayers, CostOf
<1> QED
  BY <1>2, InvCorrect, PTL

-----------------------------------------------------------------------------
(* The closed forms of a prefill.                                          *)

\* The shape a step is priced from and the prefills it stands for.
Prefills == PrefillRequests(estimate.workload)

Covered(s) ==
  /\ s.maxPrefill \in Nat /\ s.prefillRequests \in Nat
  /\ IsFiniteSet(Prefills) /\ Prefills \subseteq DOMAIN estimate.workload
  /\ s.prefillRequests = Cardinality(Prefills)
  /\ Prefills = {} => s.maxPrefill = 0
  /\ \A r \in Prefills :
       /\ estimate.workload[r].tokens \in Nat /\ estimate.workload[r].context \in Nat
       /\ estimate.workload[r].tokens <= estimate.workload[r].context
       /\ estimate.workload[r].tokens <= s.maxPrefill

\* A token after base + i others attends to base + i + 1 of them, itself included.
LEMMA PairsCounted ==
  ASSUME NEW len \in Nat, NEW base \in Nat
  PROVE  LET pairs == Cardinality(CausalPairSet(len, base + len))
         IN  pairs \in Nat /\ 2 * pairs = 2 * (base * len) + len * (len + 1)
<1> DEFINE P(i) == {pair \in (base + 1..base + i) \X (1..base + i) : pair[2] <= pair[1]}
           Good == {i \in 0..len : /\ IsFiniteSet(P(i)) /\ Cardinality(P(i)) \in Nat
                                   /\ 2 * Cardinality(P(i)) = 2 * (base * i) + i * (i + 1)}
<1>1. 0 \in Good
  <2>1. P(0) = {}
    OBVIOUS
  <2> HIDE DEF P
  <2> QED
    BY <2>1, FS_EmptySet
<1>2. ASSUME NEW i \in 0..len, i < len, i \in Good
      PROVE  i + 1 \in Good
  <2> DEFINE k      == base + (i + 1)
             Row(j) == {<<k, x>> : x \in 1..j}
             Rows   == {j \in 0..k : /\ IsFiniteSet(P(i) \cup Row(j))
                                     /\ Cardinality(P(i) \cup Row(j)) = Cardinality(P(i)) + j}
  <2>0. k \in Nat /\ k \in 1..k /\ i + 1 \in 0..len
    BY <1>2
  <2>1. 0 \in Rows
    <3>1. P(i) \cup Row(0) = P(i)
      OBVIOUS
    <3> HIDE DEF P, Row, k
    <3>2. IsFiniteSet(P(i)) /\ Cardinality(P(i)) \in Nat
      BY <1>2
    <3>3. Cardinality(P(i)) = Cardinality(P(i)) + 0 /\ 0 \in 0..k
      BY <2>0, <3>2
    <3>4. IsFiniteSet(P(i) \cup Row(0))
          /\ Cardinality(P(i) \cup Row(0)) = Cardinality(P(i)) + 0
      BY <3>1, <3>2, <3>3
    <3> QED
      BY <3>3, <3>4
  <2>2. ASSUME NEW j \in 0..k, j < k, j \in Rows
        PROVE  j + 1 \in Rows
    <3> DEFINE S == P(i) \cup Row(j)
    <3>1. P(i) \cup Row(j + 1) = S \cup {<<k, j + 1>>}
      BY <2>0
    <3>2. <<k, j + 1>> \notin S
      <4>1. k \notin base + 1..base + i /\ \A x \in 1..j : x # j + 1
        BY <1>2, <2>0, <2>2
      <4> QED
        BY <4>1
    <3> HIDE DEF S, P, Row, k
    <3>3. IsFiniteSet(S) /\ Cardinality(S) = Cardinality(P(i)) + j
      BY <2>2 DEF S
    <3>4. IsFiniteSet(S \cup {<<k, j + 1>>})
          /\ Cardinality(S \cup {<<k, j + 1>>}) = Cardinality(S) + 1
      BY <3>2, <3>3, FS_AddElement
    <3>5. j + 1 \in 0..k
      BY <2>0, <2>2
    <3>6. Cardinality(S) + 1 = Cardinality(P(i)) + (j + 1)
      BY <1>2, <3>3
    <3>7. /\ IsFiniteSet(P(i) \cup Row(j + 1))
          /\ Cardinality(P(i) \cup Row(j + 1)) = Cardinality(P(i)) + (j + 1)
      BY <3>1, <3>4, <3>6
    <3> QED
      BY <3>5, <3>7
  <2>3. 0..k \subseteq Rows
    <3> HIDE DEF Rows, k
    <3> QED
      BY <2>0, <2>1, <2>2, UpToBound
  <2>4. P(i + 1) = P(i) \cup Row(k)
    <3> DEFINE R == base + 1..k
               T == base + 1..base + i
    <3>1. \A a, b : <<a, b>> \in P(i + 1) <=> a \in R /\ b \in 1..k /\ b <= a
      OBVIOUS
    <3>2. \A a, b : <<a, b>> \in P(i) <=> a \in T /\ b \in 1..base + i /\ b <= a
      OBVIOUS
    <3>3. \A p \in P(i + 1) : \E a \in R, b \in 1..k : p = <<a, b>>
      OBVIOUS
    <3>4. \A p \in P(i) : \E a \in T, b \in 1..base + i : p = <<a, b>>
      OBVIOUS
    <3>5. /\ \A a : a \in R <=> a \in T \/ a = k
          /\ 1..base + i \subseteq 1..k
      BY <1>2
    <3>6. \A a \in T, b \in 1..k : b <= a => b \in 1..base + i
      BY <1>2
    <3>7. \A b \in 1..k : b <= k
      BY <1>2
    <3> HIDE DEF P, R, T, k
    <3>8. \A p \in P(i + 1) : p \in P(i) \cup Row(k)
      <4> SUFFICES ASSUME NEW p \in P(i + 1) PROVE p \in P(i) \cup Row(k)
        OBVIOUS
      <4>1. PICK a \in R, b \in 1..k : p = <<a, b>>
        BY <3>3
      <4>2. b <= a
        BY <3>1, <4>1
      <4>3. CASE a = k
        BY <4>1, <4>3
      <4>4. CASE a \in T
        BY <3>2, <3>6, <4>1, <4>2, <4>4
      <4> QED
        BY <3>5, <4>3, <4>4
    <3>9. \A p \in P(i) \cup Row(k) : p \in P(i + 1)
      <4> SUFFICES ASSUME NEW p \in P(i) \cup Row(k) PROVE p \in P(i + 1)
        OBVIOUS
      <4>1. CASE p \in P(i)
        BY <3>1, <3>2, <3>4, <3>5, <4>1
      <4>2. CASE p \in Row(k)
        <5>1. PICK x \in 1..k : p = <<k, x>>
          BY <4>2
        <5>2. k \in R
          BY <3>5
        <5> QED
          BY <3>1, <3>7, <5>1, <5>2
      <4> QED
        BY <4>1, <4>2
    <3> QED
      BY <3>8, <3>9
  <2> HIDE DEF P, Row, k
  <2>5. k \in Rows
    <3>1. k \in 0..k
      BY <2>0
    <3> HIDE DEF Rows
    <3> QED
      BY <2>3, <3>1
  <2>6. IsFiniteSet(P(i + 1)) /\ Cardinality(P(i + 1)) = Cardinality(P(i)) + k
    BY <2>4, <2>5
  <2>7. Cardinality(P(i)) \in Nat /\ 2 * Cardinality(P(i)) = 2 * (base * i) + i * (i + 1)
    BY <1>2
  <2>8. /\ Cardinality(P(i + 1)) \in Nat
        /\ 2 * Cardinality(P(i + 1)) = 2 * (base * (i + 1)) + (i + 1) * ((i + 1) + 1)
    <3> DEFINE c == Cardinality(P(i))
    <3>1. c \in Nat /\ 2 * c = 2 * (base * i) + i * (i + 1) /\ i \in Nat
      BY <2>7
    <3> HIDE DEF c
    <3>2. 2 * (c + (base + (i + 1))) = 2 * (base * (i + 1)) + (i + 1) * ((i + 1) + 1)
      BY <3>1
    <3> QED
      BY <2>6, <3>1, <3>2 DEF c, k
  <2> QED
    BY <2>0, <2>6, <2>8
<1>3. len \in Good
  <2> HIDE DEF Good
  <2> QED
    BY <1>1, <1>2, UpToBound
<1>4. CausalPairSet(len, base + len) = P(len)
  <2>1. base + len - len + 1 = base + 1
    OBVIOUS
  <2> QED
    BY <2>1 DEF CausalPairSet
<1> HIDE DEF P
<1> QED
  BY <1>3, <1>4

LEMMA CeilDivIs ==
  ASSUME NEW a \in Nat, NEW b \in Nat, b # 0
  PROVE  LET c == CeilDiv(a, b)
         IN  /\ c \in Nat /\ a <= c * b
             /\ a > 0 => c >= 1 /\ (c - 1) * b < a
<1> DEFINE q == (-a) \div b
           m == (-a) % b
<1>1. q \in Int /\ m \in 0..(b - 1) /\ -a = b * q + m
  OBVIOUS
<1> HIDE DEF q, m
<1>2. CeilDiv(a, b) = -q
  BY DEF CeilDiv, q
<1>3. \A x, y \in Int : x > 0 /\ y >= 1 => x * y >= x
  OBVIOUS
<1>4. q <= 0
  <2>1. SUFFICES ASSUME q >= 1 PROVE FALSE
    BY <1>1
  <2>2. b * q >= b
    BY <1>1, <1>3, <2>1
  <2> QED
    BY <1>1, <2>2
<1>5. a <= (-q) * b
  <2>1. (-q) * b = -(b * q)
    BY <1>1
  <2> QED
    BY <1>1, <2>1
<1>6. a > 0 => -q >= 1 /\ (-q - 1) * b < a
  <2>1. (-q - 1) * b = -(b * q) - b
    BY <1>1
  <2>2. q = 0 => b * q = 0
    BY <1>1
  <2> QED
    BY <1>1, <1>4, <2>1, <2>2
<1> QED
  BY <1>1, <1>2, <1>4, <1>5, <1>6

\* The keys the blocks of a prefill read of its own tokens.
OwnKeys(len, rows) ==
  SumFunction([block \in 1..CeilDiv(len, rows) |-> Smaller(block * rows, len)])

\* Each block but the last reads a full row of blocks more than the one before.
LEMMA OwnKeysAre ==
  ASSUME NEW len \in Nat, len > 0, NEW rows \in Nat, rows # 0
  PROVE  LET c == CeilDiv(len, rows)
         IN  /\ OwnKeys(len, rows) \in Int
             /\ 2 * OwnKeys(len, rows) = rows * (c * (c - 1)) + 2 * len
<1> DEFINE c    == CeilDiv(len, rows)
           f    == [block \in 1..c |-> Smaller(block * rows, len)]
           Sum(i) == SumFunctionOnSet(f, 1..i)
           Good == {i \in 0..(c - 1) : Sum(i) \in Int /\ 2 * Sum(i) = rows * (i * (i + 1))}
<1>1. c \in Nat /\ c >= 1 /\ len <= c * rows /\ (c - 1) * rows < len
  BY CeilDivIs
<1> HIDE DEF c
<1>2. \A i \in 1..c : f[i] \in Int
  BY <1>1 DEF Smaller
<1>3. \A i \in 1..(c - 1) : f[i] = i * rows
  <2> SUFFICES ASSUME NEW i \in 1..(c - 1) PROVE f[i] = i * rows
    OBVIOUS
  <2>1. \A x, y, z \in Nat : x <= y => x * z <= y * z
    OBVIOUS
  <2>2. i * rows <= (c - 1) * rows
    BY <1>1, <2>1
  <2>3. i * rows \in Int /\ (c - 1) * rows \in Int
    BY <1>1
  <2>4. f[i] = Smaller(i * rows, len)
    BY <1>1
  <2> QED
    BY <1>1, <2>2, <2>3, <2>4 DEF Smaller
<1>4. f[c] = len
  <2>1. f[c] = Smaller(c * rows, len)
    BY <1>1
  <2>2. c * rows \in Int
    BY <1>1
  <2> QED
    BY <1>1, <2>1, <2>2 DEF Smaller
<1> HIDE DEF f
<1>5. 0 \in Good
  <2>1. 1..0 = {}
    OBVIOUS
  <2>2. Sum(0) = 0
    BY <2>1, SumEmpty
  <2> QED
    BY <1>1, <2>2
<1>6. ASSUME NEW i \in 0..(c - 1), i < c - 1, i \in Good
      PROVE  i + 1 \in Good
  <2>0. i \in Int /\ i \in Nat /\ 1 \in Int
    BY <1>1
  <2>1. IsFiniteSet(1..i) /\ i + 1 \notin 1..i /\ 1..(i + 1) = 1..i \cup {i + 1}
    <3>1. IsFiniteSet(1..i)
      BY <2>0, FS_Interval
    <3>2. i + 1 \notin 1..i /\ 1..(i + 1) = 1..i \cup {i + 1}
      BY <2>0
    <3> QED
      BY <3>1, <3>2
  <2>2. \A j \in 1..i : f[j] \in Int
    BY <1>1, <1>2, <1>6
  <2>3. f[i + 1] = (i + 1) * rows /\ f[i + 1] \in Int
    BY <1>1, <1>2, <1>3, <1>6
  <2> DEFINE k == i + 1
  <2>4. SumFunctionOnSet(f, 1..i \cup {k}) = f[k] + Sum(i)
    <3> HIDE DEF k
    <3>1. k \notin 1..i /\ f[k] \in Int
      BY <2>1, <2>3 DEF k
    <3> QED
      BY <2>1, <2>2, <3>1, SumAdd
  <2>5. Sum(k) = (i + 1) * rows + Sum(i)
    BY <2>1, <2>3, <2>4
  <2>6. Sum(i) \in Int /\ 2 * Sum(i) = rows * (i * (i + 1)) /\ i \in Int
    BY <1>6
  <2> HIDE DEF Sum
  <2>7. 2 * ((i + 1) * rows + Sum(i)) = rows * ((i + 1) * ((i + 1) + 1))
    BY <2>6
  <2>8. i + 1 \in 0..(c - 1) /\ (i + 1) * rows + Sum(i) \in Int
    BY <1>1, <1>6, <2>6
  <2> QED
    BY <2>5, <2>7, <2>8
<1>7. c - 1 \in Good
  <2> DEFINE n == c - 1
  <2>1. n \in Nat /\ n \in 0..n
    BY <1>1
  <2> HIDE DEF Good
  <2>2. \A i \in 0..n : i < n /\ i \in Good => i + 1 \in Good
    BY <1>6
  <2> HIDE DEF n
  <2>3. 0..n \subseteq Good
    BY <1>5, <2>1, <2>2, UpToBound
  <2> QED
    BY <2>1, <2>3 DEF n
<1>8. SumFunctionOnSet(f, 1..c) = len + Sum(c - 1)
  <2>1. IsFiniteSet(1..(c - 1)) /\ c \notin 1..(c - 1) /\ 1..c = 1..(c - 1) \cup {c}
    <3> DEFINE n == c - 1
    <3>1. n \in Int /\ 1 \in Int
      BY <1>1
    <3>2. c \notin 1..n /\ 1..c = 1..n \cup {c}
      BY <1>1
    <3> HIDE DEF n
    <3>3. IsFiniteSet(1..n)
      BY <3>1, FS_Interval
    <3> QED
      BY <3>2, <3>3 DEF n
  <2>2. (\A j \in 1..(c - 1) : f[j] \in Int) /\ f[c] \in Int
    BY <1>1, <1>2
  <2> DEFINE S == 1..(c - 1)
  <2> HIDE DEF S
  <2>3. SumFunctionOnSet(f, S \cup {c}) = f[c] + SumFunctionOnSet(f, S)
    BY <2>1, <2>2, SumAdd DEF S
  <2> QED
    BY <1>4, <2>1, <2>3 DEF S
<1>9. OwnKeys(len, rows) = SumFunctionOnSet(f, 1..c)
  <2>1. DOMAIN f = 1..c
    BY DEF f
  <2>2. OwnKeys(len, rows) = SumFunction(f)
    BY DEF OwnKeys, f, c
  <2> QED
    BY <2>1, <2>2 DEF SumFunction
<1>10. Sum(c - 1) \in Int /\ 2 * Sum(c - 1) = rows * ((c - 1) * ((c - 1) + 1))
  BY <1>7
<1>11. (c - 1) * ((c - 1) + 1) = c * (c - 1)
  BY <1>1
<1> HIDE DEF Sum
<1> QED
  BY <1>1, <1>8, <1>9, <1>10, <1>11 DEF c

LEMMA RowsOfBlock ==
  ASSUME deployment \in Deployments
  PROVE  BlockRows(deployment, deployment.headDim) \in Nat \ {0}
<1> DEFINE h == deployment.headDim
           m == deployment.hardware.memory.onchip
           c == CeilDiv(m, 4 * h)
<1>1. h \in Nat /\ h # 0 /\ m \in Nat /\ m # 0
  BY DeploymentsOK
<1>2. BlockRows(deployment, h) = Smaller(c, h)
  BY DEF BlockRows
<1> HIDE DEF h, m
<1>3. c \in Nat /\ c >= 1
  <2> DEFINE b == 4 * h
  <2>1. b \in Nat /\ b # 0 /\ m > 0
    BY <1>1
  <2> HIDE DEF b
  <2>2. CeilDiv(m, b) \in Nat /\ CeilDiv(m, b) >= 1
    BY <1>1, <2>1, CeilDivIs
  <2> QED
    BY <2>2 DEF b
<1> HIDE DEF c
<1>4. Smaller(c, h) \in Nat \ {0}
  BY <1>1, <1>3 DEF Smaller
<1> QED
  BY <1>2, <1>4 DEF h

\* The closed form counts the pairs within a prefill; those with the tokens
\* before it come on top.
LEMMA PairsClosed ==
  ASSUME NEW len \in Nat, NEW base \in Nat
  PROVE  /\ CausalPairs(len) \in Nat /\ 2 * CausalPairs(len) = len * (len + 1)
         /\ Cardinality(CausalPairSet(len, base + len)) = len * base + CausalPairs(len)
<1> DEFINE P == Cardinality(CausalPairSet(len, base + len))
           x == len * (len + 1)
           y == P - base * len
<1>1. P \in Nat /\ 2 * P = 2 * (base * len) + x
  BY PairsCounted
<1>2. CausalPairs(len) = x \div 2
  BY DEF CausalPairs
<1>3. x \in Nat /\ base * len \in Nat /\ len * base = base * len
  OBVIOUS
<1> HIDE DEF P, x
<1>4. y \in Int /\ 2 * y = x
  BY <1>1, <1>3
<1>5. P = len * base + y
  BY <1>1, <1>3
<1> HIDE DEF y
<1>6. x \div 2 = y /\ y \in Nat
  BY <1>3, <1>4
<1> QED
  BY <1>2, <1>4, <1>5, <1>6 DEF P, x

LEMMA PairsGrow ==
  ASSUME NEW a \in Nat, NEW b \in Nat, a <= b
  PROVE  CausalPairs(a) <= CausalPairs(b)
<1>1. /\ CausalPairs(a) \in Nat /\ 2 * CausalPairs(a) = a * (a + 1)
      /\ CausalPairs(b) \in Nat /\ 2 * CausalPairs(b) = b * (b + 1)
  BY PairsClosed
<1>2. \A x, y, u, v \in Nat : x <= y /\ u <= v => x * u <= y * v
  <2>1. \A x, y, z \in Nat : x <= y => x * z <= y * z
    OBVIOUS
  <2> SUFFICES ASSUME NEW x \in Nat, NEW y \in Nat, NEW u \in Nat, NEW v \in Nat,
                      x <= y, u <= v
               PROVE  x * u <= y * v
    OBVIOUS
  <2>2. x * u <= y * u /\ u * y <= v * y
    BY <2>1
  <2>3. u * y = y * u /\ v * y = y * v /\ x * u \in Int /\ y * u \in Int /\ y * v \in Int
    OBVIOUS
  <2> QED
    BY <2>2, <2>3
<1>3. a * (a + 1) <= b * (b + 1)
  BY <1>2
<1> QED
  BY <1>1, <1>3

\* What the blocks read of a prefill, twice over, against what is charged.
LEMMA ReadCovers ==
  ASSUME NEW len \in Nat, NEW rows \in Nat, rows # 0
  PROVE  LET c == CeilDiv(len, rows)
         IN  /\ c \in Nat /\ OwnKeys(len, rows) \in Int
             /\ len * (c + 1) <= 2 * OwnKeys(len, rows)
             /\ len % rows = 0 => len * (c + 1) = 2 * OwnKeys(len, rows)
<1> DEFINE c == CeilDiv(len, rows)
           k == OwnKeys(len, rows)
<1>1. c \in Nat /\ len <= c * rows /\ (len > 0 => c >= 1 /\ (c - 1) * rows < len)
  BY CeilDivIs
<1>2. CASE len = 0
  <2>1. c = 0
    BY <1>2 DEF CeilDiv
  <2>2. k = 0
    <3> DEFINE f == [block \in 1..c |-> Smaller(block * rows, len)]
    <3>1. 1..c = {} /\ DOMAIN f = {}
      BY <2>1
    <3>2. k = SumFunctionOnSet(f, DOMAIN f)
      BY DEF OwnKeys, SumFunction
    <3> HIDE DEF f, k
    <3> QED
      BY <3>1, <3>2, SumEmpty
  <2> QED
    BY <1>2, <2>1, <2>2
<1>3. CASE len > 0
  <2>1. k \in Int /\ 2 * k = rows * (c * (c - 1)) + 2 * len
    BY <1>3, OwnKeysAre
  <2>2. c >= 1 /\ (c - 1) * rows < len
    BY <1>1, <1>3
  <2> HIDE DEF c, k
  <2>3. \A x, y, z \in Nat : x <= y => x * z <= y * z
    OBVIOUS
  <2>4. len * (c - 1) <= (c * rows) * (c - 1)
    <3>1. c * rows \in Nat /\ c - 1 \in Nat
      BY <1>1, <2>2
    <3> QED
      BY <1>1, <2>3, <3>1
  <2>5. (c * rows) * (c - 1) = rows * (c * (c - 1))
    BY <1>1
  <2>6. len * (c + 1) = len * (c - 1) + 2 * len
    BY <1>1
  <2>7. len * (c - 1) \in Int /\ rows * (c * (c - 1)) \in Int
    BY <1>1
  <2>8. ASSUME len % rows = 0 PROVE len = c * rows
    <3>1. PICK q \in Int : len = rows * q
      BY <2>8
    <3>2. q <= c
      <4>1. SUFFICES ASSUME c + 1 <= q PROVE FALSE
        BY <1>1, <3>1
      <4>2. rows * q >= rows * (c + 1)
        BY <1>1, <3>1, <4>1
      <4>3. rows * (c + 1) = c * rows + rows
        BY <1>1
      <4> QED
        BY <1>1, <3>1, <4>2, <4>3
    <3>3. q >= c
      <4>1. SUFFICES ASSUME q <= c - 1 PROVE FALSE
        BY <1>1, <3>1
      <4>2. rows * q <= rows * (c - 1)
        BY <1>1, <3>1, <4>1
      <4>3. rows * (c - 1) = (c - 1) * rows
        BY <1>1
      <4> QED
        BY <1>1, <2>2, <3>1, <4>2, <4>3
    <3>4. q = c
      BY <1>1, <3>1, <3>2, <3>3
    <3> QED
      BY <1>1, <3>1, <3>4
  <2>9. ASSUME len % rows = 0 PROVE len * (c - 1) = rows * (c * (c - 1))
    BY <2>5, <2>8, <2>9
  <2>10. len * (c + 1) <= 2 * k
    BY <2>1, <2>4, <2>5, <2>6, <2>7
  <2>11. len % rows = 0 => len * (c + 1) = 2 * k
    BY <2>1, <2>6, <2>9
  <2> QED
    BY <1>1, <2>1, <2>10, <2>11 DEF c, k
<1> QED
  BY <1>2, <1>3

\* The keys before a chunk are read again by each of its blocks.
LEMMA KeysOfChunk ==
  ASSUME NEW len \in Nat, NEW base \in Nat, NEW rows \in Nat, rows # 0
  PROVE  /\ CeilDiv(len, rows) \in Nat /\ OwnKeys(len, rows) \in Int
         /\ KeysRead(len, base + len, rows) = CeilDiv(len, rows) * base + OwnKeys(len, rows)
<1> DEFINE c == CeilDiv(len, rows)
           S == 1..c
           f == [block \in S |-> base]
           g == [block \in S |-> Smaller(block * rows, len)]
           h == [block \in S |-> base + len - len + Smaller(block * rows, len)]
<1>1. c \in Nat /\ OwnKeys(len, rows) \in Int
  BY ReadCovers
<1> HIDE DEF c
<1>2. IsFiniteSet(S) /\ Cardinality(S) = c
  BY <1>1, FS_Interval
<1>3. \A block \in S : f[block] \in Int /\ f[block] = base /\ g[block] \in Int
                       /\ h[block] = f[block] + g[block]
  BY <1>1 DEF Smaller
<1>4. DOMAIN f = S /\ DOMAIN g = S /\ DOMAIN h = S
  OBVIOUS
<1>5. KeysRead(len, base + len, rows) = SumFunction(h) /\ OwnKeys(len, rows) = SumFunction(g)
  BY DEF KeysRead, OwnKeys, c
<1> HIDE DEF S, f, g, h
<1>6. SumFunctionOnSet(h, S) = SumFunctionOnSet(f, S) + SumFunctionOnSet(g, S)
  BY <1>2, <1>3, SumPlus
<1>7. SumFunctionOnSet(f, S) = base * c
  BY <1>2, <1>3, SumConstant
<1>8. base * c = c * base
  BY <1>1
<1> QED
  BY <1>1, <1>4, <1>5, <1>6, <1>7, <1>8 DEF SumFunction, c

\* What the prefills of a step do, against what they do of their own tokens
\* when every one is as long as the longest.
LEMMA PrefillsSummed ==
  ASSUME NEW s, Covered(s), NEW rows \in Nat, rows # 0
  PROVE  LET w == estimate.workload
             L == s.maxPrefill
             n == s.prefillRequests
         IN  /\ EarlierPairs(w) \in Int /\ PrefillPairs(w) \in Int
             /\ EarlierReads(w, rows) \in Int
             /\ PrefillPairs(w) <= EarlierPairs(w) + CausalPairs(L) * n
             /\ (\A r \in Prefills : w[r].tokens = L) =>
                  /\ PrefillPairs(w) = EarlierPairs(w) + CausalPairs(L) * n
                  /\ PrefillReads(w, rows) = EarlierReads(w, rows) + OwnKeys(L, rows) * n
<1> DEFINE w   == estimate.workload
           L   == s.maxPrefill
           n   == s.prefillRequests
           P   == Prefills
           all == [r \in DOMAIN w |-> Cardinality(CausalPairSet(w[r].tokens, w[r].context))]
           was == [r \in DOMAIN w |-> w[r].tokens * (w[r].context - w[r].tokens)]
           own == [r \in DOMAIN w |-> CausalPairs(w[r].tokens)]
           max == [r \in DOMAIN w |-> CausalPairs(L)]
           allReads == [r \in DOMAIN w |-> KeysRead(w[r].tokens, w[r].context, rows)]
           wasReads == [r \in DOMAIN w |-> CeilDiv(w[r].tokens, rows)
                                             * (w[r].context - w[r].tokens)]
           maxReads == [r \in DOMAIN w |-> OwnKeys(L, rows)]
<1>1. /\ L \in Nat /\ n \in Nat /\ n = Cardinality(P) /\ IsFiniteSet(P) /\ P \subseteq DOMAIN w
      /\ \A r \in P : /\ w[r].tokens \in Nat /\ w[r].context \in Nat
                      /\ w[r].tokens <= w[r].context /\ w[r].tokens <= L
  BY DEF Covered
<1>2. /\ PrefillPairs(w) = SumFunctionOnSet(all, P) /\ EarlierPairs(w) = SumFunctionOnSet(was, P)
      /\ PrefillReads(w, rows) = SumFunctionOnSet(allReads, P)
      /\ EarlierReads(w, rows) = SumFunctionOnSet(wasReads, P)
  BY DEF PrefillPairs, EarlierPairs, PrefillReads, EarlierReads, Prefills
<1>3. ASSUME NEW r \in P
      PROVE  /\ was[r] \in Int /\ own[r] \in Int /\ max[r] \in Int
             /\ all[r] \in Int /\ all[r] = was[r] + own[r] /\ own[r] <= max[r]
             /\ max[r] = CausalPairs(L)
             /\ w[r].tokens = L => own[r] = max[r]
             /\ wasReads[r] \in Int /\ maxReads[r] \in Int /\ maxReads[r] = OwnKeys(L, rows)
             /\ w[r].tokens = L => allReads[r] = wasReads[r] + maxReads[r]
  <2> DEFINE t == w[r].tokens
             b == w[r].context - w[r].tokens
  <2>1. /\ t \in Nat /\ b \in Nat /\ t <= L /\ w[r].context = b + t /\ r \in DOMAIN w
        /\ w[r].context - t = b
    BY <1>1
  <2> HIDE DEF t, b
  <2>2. /\ CausalPairs(t) \in Nat /\ Cardinality(CausalPairSet(t, b + t)) = t * b + CausalPairs(t)
        /\ CausalPairs(L) \in Nat
    BY <1>1, <2>1, PairsClosed
  <2>3. CausalPairs(t) <= CausalPairs(L)
    BY <1>1, <2>1, PairsGrow
  <2>4. /\ CeilDiv(t, rows) \in Nat /\ OwnKeys(L, rows) \in Int
        /\ KeysRead(t, b + t, rows) = CeilDiv(t, rows) * b + OwnKeys(t, rows)
    <3>1. L \in Nat
      BY <1>1
    <3>2. OwnKeys(L, rows) \in Int
      BY <3>1, KeysOfChunk
    <3>3. t \in Nat /\ b \in Nat
      BY <2>1
    <3>4. /\ CeilDiv(t, rows) \in Nat
          /\ KeysRead(t, b + t, rows) = CeilDiv(t, rows) * b + OwnKeys(t, rows)
      BY <3>3, KeysOfChunk
    <3> QED
      BY <3>2, <3>4
  <2>5. /\ all[r] = Cardinality(CausalPairSet(t, b + t)) /\ was[r] = t * b
        /\ own[r] = CausalPairs(t) /\ max[r] = CausalPairs(L)
        /\ allReads[r] = KeysRead(t, b + t, rows) /\ wasReads[r] = CeilDiv(t, rows) * b
        /\ maxReads[r] = OwnKeys(L, rows)
    <3>1. b + t = w[r].context
      BY <2>1
    <3> QED
      BY <2>1, <3>1 DEF t, b
  <2>6. t * b \in Int /\ CeilDiv(t, rows) * b \in Int
    BY <2>1, <2>4
  <2>7. w[r].tokens = t
    BY DEF t
  <2> HIDE DEF all, was, own, max, allReads, wasReads, maxReads, w
  <2>8. w[r].tokens = L => allReads[r] = wasReads[r] + maxReads[r] /\ own[r] = max[r]
    BY <2>4, <2>5, <2>7
  <2> QED
    BY <2>2, <2>3, <2>4, <2>5, <2>6, <2>8
<1> HIDE DEF all, was, own, max, allReads, wasReads, maxReads, P
<1>4. /\ SumFunctionOnSet(was, P) \in Int /\ SumFunctionOnSet(all, P) \in Int
      /\ SumFunctionOnSet(own, P) \in Int /\ SumFunctionOnSet(wasReads, P) \in Int
  BY <1>1, <1>3, SumType
<1>5. SumFunctionOnSet(all, P) = SumFunctionOnSet(was, P) + SumFunctionOnSet(own, P)
  BY <1>1, <1>3, SumPlus
<1>6. SumFunctionOnSet(own, P) <= SumFunctionOnSet(max, P)
  BY <1>1, <1>3, SumAtMost
<1>7. CausalPairs(L) \in Int /\ OwnKeys(L, rows) \in Int
  BY <1>1, PairsClosed, KeysOfChunk
<1>8. SumFunctionOnSet(max, P) = CausalPairs(L) * n
  BY <1>1, <1>3, <1>7, SumConstant
<1>9. SumFunctionOnSet(maxReads, P) = OwnKeys(L, rows) * n
  BY <1>1, <1>3, <1>7, SumConstant
<1>10. ASSUME \A r \in P : w[r].tokens = L
       PROVE  /\ SumFunctionOnSet(own, P) = SumFunctionOnSet(max, P)
              /\ SumFunctionOnSet(allReads, P)
                   = SumFunctionOnSet(wasReads, P) + SumFunctionOnSet(maxReads, P)
  <2>1. \A r \in P : own[r] = max[r] /\ allReads[r] = wasReads[r] + maxReads[r]
    BY <1>3, <1>10
  <2>2. SumFunctionOnSet(own, P) = SumFunctionOnSet(max, P)
    BY <1>1, <1>3, <2>1, SumSame
  <2>3. SumFunctionOnSet(allReads, P)
          = SumFunctionOnSet(wasReads, P) + SumFunctionOnSet(maxReads, P)
    BY <1>1, <1>3, <2>1, SumPlus
  <2> QED
    BY <2>2, <2>3
<1> HIDE DEF w, L, n
<1>11. PrefillPairs(w) <= EarlierPairs(w) + CausalPairs(L) * n
  <2>1. SumFunctionOnSet(max, P) \in Int
    BY <1>1, <1>3, SumType
  <2>2. /\ SumFunctionOnSet(was, P) + SumFunctionOnSet(own, P)
             <= SumFunctionOnSet(was, P) + SumFunctionOnSet(max, P)
    BY <1>4, <1>6, <2>1
  <2> QED
    BY <1>2, <1>5, <1>8, <2>2
<1>12. (\A r \in P : w[r].tokens = L) =>
         /\ PrefillPairs(w) = EarlierPairs(w) + CausalPairs(L) * n
         /\ PrefillReads(w, rows) = EarlierReads(w, rows) + OwnKeys(L, rows) * n
  BY <1>2, <1>5, <1>8, <1>9, <1>10
<1> QED
  BY <1>2, <1>4, <1>11, <1>12 DEF w, L, n, P

LEMMA PrefillCounted ==
  ASSUME deployment \in Deployments, NEW s, Covered(s), NEW a,
         a.parts[1].num_seqs = Larger(s.prefillRequests, 1), a.parts[1].q_len = s.maxPrefill,
         a.head_dim = deployment.headDim, a.num_q_heads \in Nat, a.num_kv_heads \in Nat
  PROVE  PrefillWorkAccounted(a)
<1> DEFINE part == a.parts[1]
           w    == estimate.workload
           len  == s.maxPrefill
           n    == s.prefillRequests
           seqs == Larger(n, 1)
           h    == a.head_dim
           nq   == a.num_q_heads
           nk   == a.num_kv_heads
           rows == BlockRows(deployment, h)
           work == FlashPrefillWork(deployment, a, part)
           c    == CeilDiv(len, rows)
           own  == OwnKeys(len, rows)
           p    == CausalPairs(len)
           pair == (4 * h + 5) * nq
           key  == 2 * h * nk
           kv   == work.bytes - 3 * len * seqs * h * nq
           EP   == EarlierPairs(w)
           PP   == PrefillPairs(w)
           ER   == EarlierReads(w, rows)
           PR   == PrefillReads(w, rows)
           Even == \A r \in Prefills : w[r].tokens = len
<1>1. h \in Nat /\ rows \in Nat /\ rows # 0
  BY RowsOfBlock, DeploymentsOK
<1>2. work.flops = p * (4 * h + 5) * nq * seqs
      /\ work.bytes = 3 * (len * seqs * h) * nq + (len * seqs * h) * nk * (c + 1)
  BY DEF FlashPrefillWork, Work
<1>3. len \in Nat /\ n \in Nat /\ (n = 0 => len = 0)
  <2>1. Cardinality(Prefills) = 0 => Prefills = {}
    BY FS_EmptySet DEF Covered
  <2> QED
    BY <2>1 DEF Covered
<1>4. seqs \in Nat /\ (n = 0 \/ seqs = n)
  BY <1>3 DEF Larger
<1> HIDE DEF rows
<1>5. /\ c \in Nat /\ own \in Int /\ len * (c + 1) <= 2 * own
      /\ len % rows = 0 => len * (c + 1) = 2 * own
  BY <1>1, <1>3, ReadCovers
<1>6. p \in Nat /\ 2 * p = len * (len + 1)
  BY <1>3, PairsClosed
<1>7. /\ EP \in Int /\ PP \in Int /\ ER \in Int
      /\ PP <= EP + p * n
      /\ Even => PP = EP + p * n /\ PR = ER + own * n
  BY <1>1, PrefillsSummed
<1>8. nq \in Nat /\ nk \in Nat /\ part.num_seqs = seqs /\ part.q_len = len
  OBVIOUS
<1>9. (\A r \in PrefillRequests(w) : w[r].tokens = len) => Even
  BY DEF Prefills
<1> HIDE DEF part, w, len, n, seqs, h, nq, nk, work, c, own, p, EP, PP, ER, PR, Even
<1>10. pair \in Nat /\ key \in Nat
  BY <1>1, <1>8
<1>11. work.flops = pair * (p * n)
  <2>1. work.flops = pair * (p * seqs)
    BY <1>1, <1>2, <1>4, <1>6, <1>8
  <2>2. CASE n = 0
    <3>1. len = 0 /\ p = 0
      BY <1>3, <1>6, <2>2
    <3>2. p * seqs = 0 /\ p * n = 0
      BY <1>3, <1>4, <3>1
    <3> QED
      BY <2>1, <3>2
  <2>3. CASE seqs = n
    BY <2>1, <2>3
  <2> QED
    BY <1>4, <2>2, <2>3
<1> DEFINE x == (h * nk) * n
<1>12. kv = x * (len * (c + 1)) /\ x \in Nat /\ key * (own * n) = x * (2 * own)
  <2>1. kv = (h * nk) * seqs * (len * (c + 1))
    BY <1>1, <1>2, <1>3, <1>4, <1>5, <1>8
  <2>2. h * nk \in Nat /\ len * (c + 1) \in Nat
    BY <1>1, <1>3, <1>5, <1>8
  <2>3. (h * nk) * seqs * (len * (c + 1)) = x * (len * (c + 1))
    <3>1. CASE n = 0
      <4>1. len * (c + 1) = 0
        BY <1>3, <1>5, <3>1
      <4> DEFINE y == h * nk
                 z == len * (c + 1)
      <4>2. y \in Nat /\ z = 0
        BY <2>2, <4>1
      <4> HIDE DEF y, z
      <4>3. y * seqs * z = 0 /\ (y * n) * z = 0
        BY <1>3, <1>4, <4>2
      <4> QED
        BY <4>3 DEF y, z
    <3>2. CASE seqs = n
      BY <3>2
    <3> QED
      BY <1>4, <3>1, <3>2
  <2>4. x \in Nat
    BY <1>3, <2>2
  <2>5. key * (own * n) = x * (2 * own)
    BY <1>1, <1>3, <1>5, <1>8
  <2> QED
    BY <2>1, <2>3, <2>4, <2>5
<1> HIDE DEF pair, key, kv, x
<1>13. work.flops + pair * EP >= pair * PP /\ (Even => work.flops + pair * EP = pair * PP)
  <2>1. p * n \in Int
    BY <1>3, <1>6
  <2>2. pair * (EP + p * n) = pair * EP + pair * (p * n)
    BY <1>7, <1>10, <2>1
  <2>3. \A u \in Nat : \A y, z \in Int : y <= z => u * y <= u * z
    OBVIOUS
  <2>4. pair * PP <= pair * (EP + p * n)
    BY <1>7, <1>10, <2>1, <2>3
  <2>5. pair * PP \in Int /\ pair * EP \in Int /\ pair * (p * n) \in Int
    BY <1>7, <1>10, <2>1
  <2> QED
    BY <1>7, <1>11, <2>2, <2>4, <2>5
<1>14. Even => kv + key * ER <= key * PR /\ (len % rows = 0 => kv + key * ER = key * PR)
  <2> SUFFICES ASSUME Even
               PROVE  kv + key * ER <= key * PR /\ (len % rows = 0 => kv + key * ER = key * PR)
    OBVIOUS
  <2>1. own * n \in Int
    BY <1>3, <1>5
  <2>2. key * PR = key * ER + key * (own * n)
    <3>1. key * (ER + own * n) = key * ER + key * (own * n)
      BY <1>7, <1>10, <2>1
    <3> QED
      BY <1>7, <3>1
  <2>3. \A u \in Nat : \A y, z \in Int : y <= z => u * y <= u * z
    OBVIOUS
  <2>4. len * (c + 1) \in Int /\ 2 * own \in Int
    BY <1>3, <1>5
  <2>5. kv <= key * (own * n) /\ (len % rows = 0 => kv = key * (own * n))
    BY <1>5, <1>12, <2>3, <2>4
  <2>6. kv \in Int /\ key * ER \in Int /\ key * (own * n) \in Int
    BY <1>7, <1>10, <1>12, <2>1, <2>4
  <2> QED
    BY <2>2, <2>5, <2>6
<1>15. /\ work = FlashPrefillWork(deployment, a, part) /\ rows = BlockRows(deployment, a.head_dim)
       /\ pair = (4 * a.head_dim + 5) * a.num_q_heads
       /\ key = 2 * a.head_dim * a.num_kv_heads
       /\ kv = work.bytes - 3 * part.q_len * part.num_seqs * a.head_dim * a.num_q_heads
       /\ part.q_len = len
  BY <1>8 DEF work, rows, h, pair, key, kv, nq, nk, part
<1> QED
  BY <1>9, <1>13, <1>14, <1>15
  DEF PrefillWorkAccounted, part, w, EP, PP, ER, PR
-----------------------------------------------------------------------------
(* The contract of signatures: what the collector files is what is looked  *)
(* up.                                                                     *)

Filed == {CaseSignature(c, deployment.version) : c \in CasesOf(deployment)}

Found(op) == InContract(op) => Key(op) \in Filed

LEMMA DividesExactly ==
  ASSUME NEW t \in Nat, t # 0, NEW x \in Nat, x % t = 0
  PROVE  /\ x \div t \in Nat /\ x = t * (x \div t)
         /\ \A y \in Nat : (x * y) \div t = (x \div t) * y
<1>1. \A a \in Nat : (t * a) \div t = a
  OBVIOUS
<1>2. x \div t \in Nat /\ x = t * (x \div t)
  OBVIOUS
<1> DEFINE a == x \div t
<1>3. ASSUME NEW y \in Nat
      PROVE  (x * y) \div t = a * y
  <2>1. a \in Nat /\ x = t * a
    BY <1>2
  <2> HIDE DEF a
  <2>2. x * y = t * (a * y) /\ a * y \in Nat
    BY <2>1
  <2> QED
    BY <1>1, <2>2
<1> QED
  BY <1>2, <1>3

\* What a projection is filed under.
LEMMA GemmFiled ==
  ASSUME deployment.mode \in Modes, deployment.tp \in TpSizes,
         NEW name, NEW m \in Points, NEW n, NEW k,
         LET d    == deployment
             qDim == d.heads * d.headDim
         IN  \/ /\ name = "qkv_proj" /\ k = d.hidden
                /\ n = (qDim + 2 * d.kvHeads * d.headDim) \div d.tp
             \/ name = "o_proj" /\ n = d.hidden /\ k = qDim \div d.tp
             \/ name = "lm_head" /\ n = d.vocab /\ k = d.hidden /\ d.tp = 1
             \/ /\ ~ IsMoE(d) /\ d.ffn > 0
                /\ \/ name = "gate_up_proj" /\ n = (2 * d.ffn) \div d.tp /\ k = d.hidden
                   \/ name = "down_proj" /\ n = d.hidden /\ k = d.ffn \div d.tp
  PROVE  Key(GEMM(name, m, n, k)) \in Filed
<1> DEFINE d    == deployment
           qDim == d.heads * d.headDim
           Case(sub, mode, tp, x, y, z) ==
             [kind |-> "gemm", sub |-> sub, mode |-> mode, tp |-> tp,
              shape |-> [m |-> x, n |-> y, k |-> z]]
           Projections(mode, tp, x) ==
             {Case("qkv_proj", mode, tp, x, (qDim + 2 * d.kvHeads * d.headDim) \div tp, d.hidden),
              Case("o_proj", mode, tp, x, d.hidden, qDim \div tp),
              Case("lm_head", mode, 1, x, d.vocab, d.hidden)}
           Mlp(mode, tp, x) ==
             {Case("gate_up_proj", mode, tp, x, (2 * d.ffn) \div tp, d.hidden),
              Case("down_proj", mode, tp, x, d.hidden, d.ffn \div tp)}
           At(mode, tp, x) == Projections(mode, tp, x)
                                \cup (IF ~IsMoE(d) /\ d.ffn > 0 THEN Mlp(mode, tp, x) ELSE {})
           c == Case(name, d.mode, d.tp, m, n, k)
<1>1. c \in At(d.mode, d.tp, m)
  OBVIOUS
<1>2. GemmCases(d) = UNION {At(x[1], x[2], x[3]) : x \in Modes \X TpSizes \X Points}
  BY DEF GemmCases
<1>3. c \in CasesOf(d)
  <2>1. <<d.mode, d.tp, m>> \in Modes \X TpSizes \X Points
    OBVIOUS
  <2> HIDE DEF At, c
  <2>2. At(<<d.mode, d.tp, m>>[1], <<d.mode, d.tp, m>>[2], <<d.mode, d.tp, m>>[3])
          \in {At(x[1], x[2], x[3]) : x \in Modes \X TpSizes \X Points}
    BY <2>1
  <2>3. At(d.mode, d.tp, m) \in {At(x[1], x[2], x[3]) : x \in Modes \X TpSizes \X Points}
    BY <2>2
  <2>4. c \in GemmCases(d)
    BY <1>1, <1>2, <2>3
  <2> QED
    BY <2>4 DEF CasesOf
<1>4. CaseSignature(c, d.version)
        = Signature("gemm", name, [m |-> m, n |-> n, k |-> k], [tp |-> d.tp],
                    Runtime(d.version, d.mode, "vllm_row_parallel_linear"))
  <2>1. CaseSignature(c, d.version) = GemmCaseSignature(c, d.version)
    BY DEF CaseSignature
  <2> QED
    BY <2>1 DEF GemmCaseSignature
<1>5. Key(GEMM(name, m, n, k))
        = Signature("gemm", name, [m |-> m, n |-> n, k |-> k], [tp |-> d.tp],
                    Runtime(d.version, d.mode, "vllm_row_parallel_linear"))
  BY DEF Key, OpSignature, GEMM, OpRuntime
<1> HIDE DEF c
<1> QED
  BY <1>3, <1>4, <1>5 DEF Filed

LEMMA AttentionFiled ==
  ASSUME deployment.mode \in Modes, deployment.tp \in TpSizes,
         deployment.heads % deployment.tp = 0, deployment.blockSize = MeasuredBlockSize,
         NEW kvHeads, kvHeads = Larger(1, deployment.kvHeads \div deployment.tp),
         NEW subtype, NEW seqs, NEW q, NEW len \in Points, NEW op,
         \/ subtype = PREFILL /\ seqs = 1 /\ q = len
         \/ subtype = DECODE /\ seqs \in Points /\ q = 1,
         op.kind = "attention", op.source = "vllm_flash_attn",
         op.shape.subtype = subtype, op.shape.num_q_heads = deployment.heads \div deployment.tp,
         op.shape.num_kv_heads = kvHeads, op.shape.head_dim = deployment.headDim,
         op.shape.parts[1] = [num_seqs |-> seqs, q_len |-> q, kv_len |-> len]
  PROVE  Key(op) \in Filed
<1> DEFINE d   == deployment
           tps == {tp \in TpSizes : d.heads % tp = 0}
           Case(phase, mode, tp, n, x) ==
             [kind |-> "attention", phase |-> phase, mode |-> mode, tp |-> tp, seqs |-> n,
              len |-> x, num_heads |-> d.heads \div tp,
              num_kv_heads |-> Larger(1, d.kvHeads \div tp), head_dim |-> d.headDim]
           c   == Case(subtype, d.mode, d.tp, seqs, len)
           sig == Signature("attention", subtype,
                            AttentionShape(seqs, q, len, d.heads \div d.tp, kvHeads, d.headDim),
                            [tp |-> d.tp],
                            AttentionRuntime(d.version, d.mode, "vllm_flash_attn", "flash_attn",
                                             MeasuredBlockSize))
<1>0. PREFILL # DECODE /\ PREFILL # MIXED /\ DECODE # MIXED
  BY DEF PREFILL, DECODE, MIXED
<1>1. d.tp \in tps
  OBVIOUS
<1>2. AttentionCases(d) = {Case(PREFILL, x[1], x[2], 1, x[3]) : x \in Modes \X tps \X Points}
        \cup {Case(DECODE, x[1], x[2], x[3], x[4]) : x \in Modes \X tps \X Points \X Points}
  BY DEF AttentionCases
<1>3. c \in AttentionCases(d)
  <2> HIDE DEF tps, Case
  <2>1. CASE subtype = PREFILL
    <3> DEFINE y == <<d.mode, d.tp, len>>
    <3>1. y \in Modes \X tps \X Points /\ y[1] = d.mode /\ y[2] = d.tp /\ y[3] = len
      BY <1>1
    <3>2. c = Case(PREFILL, y[1], y[2], 1, y[3])
      BY <1>0, <2>1, <3>1
    <3> HIDE DEF c, y
    <3> QED
      BY <1>2, <3>1, <3>2
  <2>2. CASE subtype = DECODE
    <3> DEFINE y == <<d.mode, d.tp, seqs, len>>
    <3>1. y \in Modes \X tps \X Points \X Points
          /\ y[1] = d.mode /\ y[2] = d.tp /\ y[3] = seqs /\ y[4] = len
      BY <1>0, <1>1, <2>2
    <3>2. c = Case(DECODE, y[1], y[2], y[3], y[4])
      BY <2>2, <3>1
    <3> HIDE DEF c, y
    <3> QED
      BY <1>2, <3>1, <3>2
  <2> QED
    BY <2>1, <2>2
<1>4. CaseSignature(c, d.version) = sig
  <2>1. CaseSignature(c, d.version) = AttentionCaseSignature(c, d.version)
    BY DEF CaseSignature
  <2>2. (IF c.phase = PREFILL THEN c.len ELSE 1) = q
    BY <1>0
  <2>3. /\ c.phase = subtype /\ c.mode = d.mode /\ c.tp = d.tp /\ c.seqs = seqs /\ c.len = len
        /\ c.num_heads = d.heads \div d.tp /\ c.num_kv_heads = kvHeads
        /\ c.head_dim = d.headDim
    OBVIOUS
  <2> HIDE DEF c
  <2> QED
    BY <2>1, <2>2, <2>3 DEF AttentionCaseSignature
<1>5. Key(op) = sig
  <2>1. Key(op) = FlashSignature(d, op)
    BY DEF Key, OpSignature
  <2>2. subtype # MIXED
    BY <1>0
  <2>3. /\ op.shape.parts[1].num_seqs = seqs /\ op.shape.parts[1].q_len = q
        /\ op.shape.parts[1].kv_len = len
    OBVIOUS
  <2>4. FlashSignature(d, op) = sig
    BY <2>2, <2>3 DEF FlashSignature
  <2> QED
    BY <2>1, <2>4
<1> HIDE DEF c, sig
<1> QED
  BY <1>3, <1>4, <1>5 DEF Filed, CasesOf

LEMMA MoeFiled ==
  ASSUME deployment \in Deployments,
         NEW tokens \in Points, NEW skew, IsMoE(deployment), deployment.mode = "cudagraph",
         deployment.ep \in Nat, deployment.ep <= deployment.experts,
         <<IF deployment.ep = 1 THEN deployment.tp ELSE 1, deployment.ep>> \in MoeParallel
  PROVE  Key(MoE(deployment, tokens, skew)) \in Filed
<1> DEFINE d        == deployment
           op       == MoE(d, tokens, skew)
           parallel == <<IF d.ep = 1 THEN d.tp ELSE 1, d.ep>>
           pairs    == {p \in MoeParallel : p[2] <= d.experts /\ ~(p[1] > 1 /\ p[2] > 1)}
           Case(p, x, t) ==
             [kind |-> "moe", mode |-> "cudagraph", parallel |-> p, distribution |-> x,
              num_tokens |-> t, hidden |-> d.hidden, inter |-> d.expertDim, topk |-> d.topk,
              experts |-> d.experts]
           c   == Case(parallel, d.distribution, tokens)
           sig == Signature("moe", "fused_moe",
                            [num_tokens |-> tokens, hidden |-> d.hidden,
                             moe_intermediate |-> d.expertDim, topk |-> d.topk,
                             num_experts |-> d.experts, distribution |-> d.distribution],
                            MoeKernelParallel(d.tp, d.ep),
                            Runtime(d.version, "cudagraph", "vllm_fused_moe"))
<1>1. parallel \in pairs /\ parallel[1] = (IF d.ep = 1 THEN d.tp ELSE 1) /\ parallel[2] = d.ep
  OBVIOUS
<1>2. MoeCases(d) = {Case(x[1], x[2], x[3]) : x \in pairs \X {"balanced", "power_law"} \X Points}
  BY DEF MoeCases
<1>3. c \in MoeCases(d)
  <2> DEFINE y == <<parallel, d.distribution, tokens>>
  <2> HIDE DEF pairs, Case, parallel
  <2>1. y \in pairs \X {"balanced", "power_law"} \X Points
        /\ y[1] = parallel /\ y[2] = d.distribution /\ y[3] = tokens
    BY <1>1, DeploymentsOK
  <2>2. c = Case(y[1], y[2], y[3])
    BY <2>1
  <2> HIDE DEF c, y
  <2> QED
    BY <1>2, <2>1, <2>2
<1>4. CaseSignature(c, d.version) = sig
  <2>1. CaseSignature(c, d.version) = MoeCaseSignature(c, d.version)
    BY DEF CaseSignature
  <2> HIDE DEF parallel
  <2>2. /\ c.mode = "cudagraph" /\ c.parallel = parallel /\ c.distribution = d.distribution
        /\ c.num_tokens = tokens /\ c.hidden = d.hidden /\ c.inter = d.expertDim
        /\ c.topk = d.topk /\ c.experts = d.experts
    OBVIOUS
  <2> HIDE DEF c
  <2> QED
    BY <1>1, <2>1, <2>2 DEF MoeCaseSignature, MoeKernelParallel
<1>5. Key(op) = sig
  <2>1. Key(op) = MoeSignature(d, op)
    BY DEF Key, OpSignature, MoE
  <2>2. MoeSignature(d, op) = sig
    BY DEF MoeSignature, MoE, OpRuntime
  <2> QED
    BY <2>1, <2>2
<1> HIDE DEF c, sig
<1> QED
  BY <1>3, <1>4, <1>5 DEF Filed, CasesOf

\* What InContract asks of an operator of each kind.
LEMMA ContractOf ==
  ASSUME NEW op, InContract(op)
  PROVE  LET d == deployment
         IN  /\ op.kind \in {"gemm", "attention", "moe"}
             /\ op.kind = "gemm" =>
                  /\ ArchOf(d) # "deepseek" /\ d.tp \in TpSizes /\ op.shape.m \in Points
                  /\ \/ op.name = "qkv_proj" /\ d.heads % d.tp = 0 /\ d.kvHeads % d.tp = 0
                     \/ op.name = "o_proj" /\ d.heads % d.tp = 0
                     \/ /\ op.name \in {"gate_up_proj", "down_proj"}
                        /\ ~ IsMoE(d) /\ d.ffn > 0 /\ d.ffn % d.tp = 0
                     \/ op.name = "lm_head" /\ d.tp = 1
             /\ op.kind = "attention" =>
                  /\ d.tp \in TpSizes /\ d.tp <= d.kvHeads /\ d.heads % d.tp = 0
                  /\ d.blockSize = MeasuredBlockSize
                  /\ \/ op.shape.subtype = PREFILL /\ op.shape.parts[1].num_seqs = 1
                     \/ op.shape.subtype = DECODE
                  /\ {op.shape.parts[1].num_seqs, op.shape.parts[1].kv_len} \subseteq Points
             /\ op.kind = "moe" =>
                  /\ d.mode = "cudagraph" /\ op.shape.num_tokens \in Points
                  /\ d.ep <= d.experts
                  /\ <<IF d.ep = 1 THEN d.tp ELSE 1, d.ep>> \in MoeParallel
<1>1. CASE op.kind = "gemm"
  BY <1>1 DEF InContract
<1>2. CASE op.kind = "attention"
  BY <1>2 DEF InContract
<1>3. CASE op.kind = "moe"
  BY <1>3 DEF InContract
<1>4. op.kind \in {"gemm", "attention", "moe"}
  BY DEF InContract
<1> QED
  BY <1>1, <1>2, <1>3, <1>4

LEMMA OtherKindFound ==
  ASSUME NEW op, op.kind \notin {"gemm", "attention", "moe"}
  PROVE  Found(op)
BY ContractOf DEF Found

\* Kinds of what no sweep measures.
LEMMA PlainKinds ==
  LET plain == {"norm", "elementwise", "embedding", "mla", "moe_dispatch"}
  IN  /\ \A name, e : Norm(name, e).kind \in plain /\ ElementWise(name, e).kind \in plain
      /\ \A t, v, h : Embedding(t, v, h).kind \in plain
      /\ \A d, h, s : MLAAttention(d, h, s).kind \in plain
      /\ \A d, name, pre, t : MoEDispatch(d, name, pre, t).kind \in plain
BY DEF Norm, ElementWise, Embedding, MLAAttention, MoEDispatch

LEMMA OtherGemmFound ==
  ASSUME NEW op, op.kind = "gemm",
         \/ ArchOf(deployment) = "deepseek"
         \/ op.name \notin {"qkv_proj", "o_proj", "gate_up_proj", "down_proj", "lm_head"}
  PROVE  Found(op)
BY ContractOf DEF Found

\* The two computations of a projection's dimensions agree where the ranks
\* divide them.
LEMMA ProjectionsFound ==
  ASSUME deployment \in Deployments, NEW m
  PROVE  LET d  == deployment
             nq == HeadsPerRank(d)
             nk == KvHeadsPerRank(d)
         IN  /\ Found(GEMM("qkv_proj", m, (nq + 2 * nk) * d.headDim, d.hidden))
             /\ Found(GEMM("o_proj", m, d.hidden, nq * d.headDim))
             /\ Found(GEMM("gate_up_proj", m, 2 * FfnPerRank(d), d.hidden))
             /\ Found(GEMM("down_proj", m, d.hidden, FfnPerRank(d)))
             /\ Found(GEMM("lm_head", m, d.vocab \div d.tp, d.hidden))
<1> DEFINE d    == deployment
           nq   == HeadsPerRank(d)
           nk   == KvHeadsPerRank(d)
           ffn  == FfnPerRank(d)
           qDim == d.heads * d.headDim
<1>1. /\ d.tp \in Nat /\ d.tp # 0 /\ d.heads \in Nat /\ d.kvHeads \in Nat /\ d.headDim \in Nat
      /\ d.ffn \in Nat /\ d.vocab \in Nat /\ d.mode \in Modes
  BY DeploymentTyped
<1>2. nq = d.heads \div d.tp /\ nk = d.kvHeads \div d.tp /\ ffn = d.ffn \div d.tp
  BY DEF HeadsPerRank, KvHeadsPerRank, FfnPerRank
<1> HIDE DEF nq, nk, ffn
<1>3. ASSUME NEW name, NEW n, NEW k, InContract(GEMM(name, m, n, k))
      PROVE  /\ d.tp \in TpSizes /\ m \in Points
             /\ \/ name = "qkv_proj" /\ d.heads % d.tp = 0 /\ d.kvHeads % d.tp = 0
                \/ name = "o_proj" /\ d.heads % d.tp = 0
                \/ /\ name \in {"gate_up_proj", "down_proj"}
                   /\ ~ IsMoE(d) /\ d.ffn > 0 /\ d.ffn % d.tp = 0
                \/ name = "lm_head" /\ d.tp = 1
  <2> DEFINE op == GEMM(name, m, n, k)
  <2>1. op.kind = "gemm" /\ op.name = name /\ op.shape.m = m
    BY DEF GEMM
  <2> HIDE DEF op
  <2>2. InContract(op)
    BY <1>3 DEF op
  <2> QED
    BY <2>1, <2>2, ContractOf
<1>4. Found(GEMM("qkv_proj", m, (nq + 2 * nk) * d.headDim, d.hidden))
  <2> DEFINE n == (nq + 2 * nk) * d.headDim
  <2>1. SUFFICES ASSUME InContract(GEMM("qkv_proj", m, n, d.hidden))
                 PROVE  Key(GEMM("qkv_proj", m, n, d.hidden)) \in Filed
    BY DEF Found
  <2>2. d.tp \in TpSizes /\ m \in Points /\ d.heads % d.tp = 0 /\ d.kvHeads % d.tp = 0
    BY <1>3, <2>1
  <2>3. n = (qDim + 2 * d.kvHeads * d.headDim) \div d.tp
    <3> DEFINE t == d.tp
               x == d.heads
               y == d.kvHeads
               h == d.headDim
    <3>1. /\ t \in Nat /\ t # 0 /\ x \in Nat /\ y \in Nat /\ h \in Nat
          /\ x % t = 0 /\ y % t = 0
      BY <1>1, <2>2
    <3>2. nq = x \div t /\ nk = y \div t
      BY <1>2
    <3> HIDE DEF t, x, y, h
    <3>3. x = t * nq /\ nq \in Nat /\ y = t * nk /\ nk \in Nat
      BY <3>1, <3>2, DividesExactly
    <3>4. /\ x * h + 2 * y * h = t * ((nq + 2 * nk) * h)
          /\ (nq + 2 * nk) * h \in Nat
      BY <3>1, <3>3
    <3>5. \A u \in Nat : (t * u) \div t = u
      BY <3>1
    <3>6. (x * h + 2 * y * h) \div t = (nq + 2 * nk) * h
      BY <3>4, <3>5
    <3> QED
      BY <3>6 DEF t, x, y, h
  <2> HIDE DEF n
  <2> QED
    BY <1>1, <2>2, <2>3, GemmFiled
<1>5. Found(GEMM("o_proj", m, d.hidden, nq * d.headDim))
  <2> DEFINE k == nq * d.headDim
  <2>1. SUFFICES ASSUME InContract(GEMM("o_proj", m, d.hidden, k))
                 PROVE  Key(GEMM("o_proj", m, d.hidden, k)) \in Filed
    BY DEF Found
  <2>2. d.tp \in TpSizes /\ m \in Points /\ d.heads % d.tp = 0
    BY <1>3, <2>1
  <2>3. k = qDim \div d.tp
    <3> DEFINE t == d.tp
               x == d.heads
               h == d.headDim
    <3>1. t \in Nat /\ t # 0 /\ x \in Nat /\ h \in Nat /\ x % t = 0
      BY <1>1, <2>2
    <3>2. k = (x \div t) * h
      BY <1>2
    <3> HIDE DEF t, x, h, k
    <3>3. k = (x * h) \div t
      BY <3>1, <3>2, DividesExactly
    <3> QED
      BY <3>3 DEF t, x, h
  <2>4. Key(GEMM("o_proj", m, d.hidden, qDim \div d.tp)) \in Filed
    BY <1>1, <2>2, GemmFiled
  <2> HIDE DEF k, qDim
  <2> QED
    BY <2>3, <2>4
<1>6. Found(GEMM("gate_up_proj", m, 2 * ffn, d.hidden))
  <2> DEFINE n == 2 * ffn
  <2>1. SUFFICES ASSUME InContract(GEMM("gate_up_proj", m, n, d.hidden))
                 PROVE  Key(GEMM("gate_up_proj", m, n, d.hidden)) \in Filed
    BY DEF Found
  <2>2. d.tp \in TpSizes /\ m \in Points /\ ~ IsMoE(d) /\ d.ffn > 0 /\ d.ffn % d.tp = 0
    BY <1>3, <2>1
  <2>3. n = (2 * d.ffn) \div d.tp
    <3> DEFINE t == d.tp
               x == d.ffn
    <3>1. t \in Nat /\ t # 0 /\ x \in Nat /\ x % t = 0
      BY <1>1, <2>2
    <3>2. n = 2 * (x \div t)
      BY <1>2
    <3> HIDE DEF t, x, n
    <3>3. (x * 2) \div t = (x \div t) * 2 /\ x \div t \in Nat
      <4>1. /\ x \div t \in Nat
            /\ \A u \in Nat : (x * u) \div t = (x \div t) * u
        BY <3>1, DividesExactly, Zenon
      <4>2. 2 \in Nat
        OBVIOUS
      <4> QED
        BY <4>1, <4>2, Zenon
    <3>4. x * 2 = 2 * x /\ (x \div t) * 2 = 2 * (x \div t)
      BY <3>1, <3>3
    <3>5. n = (2 * x) \div t
      BY <3>2, <3>3, <3>4
    <3> QED
      BY <3>5 DEF t, x
  <2>4. Key(GEMM("gate_up_proj", m, (2 * d.ffn) \div d.tp, d.hidden)) \in Filed
    BY <1>1, <2>2, GemmFiled
  <2> HIDE DEF n
  <2> QED
    BY <2>3, <2>4
<1>7. Found(GEMM("down_proj", m, d.hidden, ffn))
  <2>1. SUFFICES ASSUME InContract(GEMM("down_proj", m, d.hidden, ffn))
                 PROVE  Key(GEMM("down_proj", m, d.hidden, ffn)) \in Filed
    BY DEF Found
  <2>2. d.tp \in TpSizes /\ m \in Points /\ ~ IsMoE(d) /\ d.ffn > 0 /\ d.ffn % d.tp = 0
    BY <1>3, <2>1
  <2>3. Key(GEMM("down_proj", m, d.hidden, d.ffn \div d.tp)) \in Filed
    BY <1>1, <2>2, GemmFiled
  <2> QED
    BY <1>2, <2>3
<1>8. Found(GEMM("lm_head", m, d.vocab \div d.tp, d.hidden))
  <2> DEFINE n == d.vocab \div d.tp
  <2>1. SUFFICES ASSUME InContract(GEMM("lm_head", m, n, d.hidden))
                 PROVE  Key(GEMM("lm_head", m, n, d.hidden)) \in Filed
    BY DEF Found
  <2>2. d.tp \in TpSizes /\ m \in Points /\ d.tp = 1
    BY <1>3, <2>1
  <2>3. n = d.vocab
    BY <1>1, <2>2
  <2> HIDE DEF n
  <2> QED
    BY <1>1, <2>2, <2>3, GemmFiled
<1> QED
  BY <1>4, <1>5, <1>6, <1>7, <1>8 DEF nq, nk, ffn

LEMMA MoeFound ==
  ASSUME deployment \in Deployments, IsMoE(deployment), NEW tokens, NEW skew
  PROVE  Found(MoE(deployment, tokens, skew))
<1> DEFINE op == MoE(deployment, tokens, skew)
<1>1. op.kind = "moe" /\ op.shape.num_tokens = tokens
  BY DEF MoE
<1>2. deployment.ep \in Nat
  BY DeploymentsOK
<1> HIDE DEF op
<1>3. InContract(op) => Key(op) \in Filed
  BY <1>1, <1>2, ContractOf, MoeFiled DEF op
<1> QED
  BY <1>3 DEF Found, op

-----------------------------------------------------------------------------
(* The experts a batch hits: the mean over every choice of experts.       *)

\* What Power computes with.
IsPower(x, n, g) == g = [i \in 0..n |-> IF i = 0 THEN 1 ELSE x * g[i - 1]]

LEMMA PowerIsChosen ==
  ASSUME NEW x, NEW n
  PROVE  Power(x, n) = (CHOOSE g : IsPower(x, n, g))[n]
BY DEF Power, IsPower

LEMMA PowerExists ==
  ASSUME NEW x \in Int, NEW n \in Nat
  PROVE  \E g \in [0..n -> Int] : IsPower(x, n, g)
<1> DEFINE Good == {k \in 0..n : \E g \in [0..k -> Int] : IsPower(x, k, g)}
<1>1. 0 \in Good
  <2> DEFINE g == [i \in 0..0 |-> 1]
  <2>1. g \in [0..0 -> Int] /\ IsPower(x, 0, g)
    BY DEF IsPower
  <2> QED
    BY <2>1
<1>2. ASSUME NEW k \in 0..n, k < n, k \in Good PROVE k + 1 \in Good
  <2>1. PICK g \in [0..k -> Int] : IsPower(x, k, g)
    BY <1>2
  <2> DEFINE h == [i \in 0..(k + 1) |-> IF i = k + 1 THEN x * g[k] ELSE g[i]]
  <2>2. /\ \A i \in 0..k : h[i] = g[i] /\ g[i] \in Int
        /\ \A i \in 0..k : g[i] = IF i = 0 THEN 1 ELSE x * g[i - 1]
    <3>1. \A i \in 0..k : g[i] = IF i = 0 THEN 1 ELSE x * g[i - 1]
      BY <2>1 DEF IsPower
    <3> QED
      BY <3>1
  <2>3. h[k + 1] = x * g[k] /\ g[k] \in Int /\ h[k] = g[k] /\ x * g[k] \in Int
    BY <2>2
  <2>4. h \in [0..(k + 1) -> Int]
    BY <2>2, <2>3
  <2>5. DOMAIN h = 0..(k + 1) /\ h = [i \in 0..(k + 1) |-> h[i]]
    OBVIOUS
  <2> HIDE DEF h
  <2>6. \A i \in 0..(k + 1) : h[i] = IF i = 0 THEN 1 ELSE x * h[i - 1]
    <3>1. ASSUME NEW i \in 0..(k + 1) PROVE h[i] = IF i = 0 THEN 1 ELSE x * h[i - 1]
      <4>1. CASE i = k + 1
        <5>1. i - 1 = k /\ i # 0
          BY <4>1
        <5> QED
          BY <2>3, <4>1, <5>1
      <4>2. CASE i # k + 1
        <5>1. i \in 0..k /\ (i # 0 => i - 1 \in 0..k)
          BY <4>2
        <5> QED
          BY <2>2, <5>1
      <4> QED
        BY <4>1, <4>2
    <3> QED
      BY <3>1
  <2>7. IsPower(x, k + 1, h)
    BY <2>5, <2>6 DEF IsPower
  <2> QED
    BY <1>2, <2>4, <2>7
<1>3. \A k \in 0..n : k < n /\ k \in Good => k + 1 \in Good
  BY <1>2
<1> HIDE DEF Good
<1>4. n \in Good
  BY <1>1, <1>3, UpToBound
<1> QED
  BY <1>4 DEF Good

\* Two such functions agree where both are defined.
LEMMA PowerUnique ==
  ASSUME NEW x \in Int, NEW n \in Nat, NEW k \in Nat, k <= n,
         NEW g, IsPower(x, n, g), NEW h, IsPower(x, k, h)
  PROVE  \A i \in 0..k : g[i] = h[i]
<1> DEFINE Good == {i \in 0..k : g[i] = h[i]}
<1>1. /\ \A i \in 0..n : g[i] = IF i = 0 THEN 1 ELSE x * g[i - 1]
      /\ \A i \in 0..k : h[i] = IF i = 0 THEN 1 ELSE x * h[i - 1]
  BY DEF IsPower
<1>2. 0 \in Good
  BY <1>1
<1>3. \A i \in 0..k : i < k /\ i \in Good => i + 1 \in Good
  <2>1. ASSUME NEW i \in 0..k, i < k, i \in Good PROVE i + 1 \in Good
    <3>1. i + 1 \in 0..k /\ i + 1 \in 0..n /\ i + 1 # 0 /\ (i + 1) - 1 = i
      BY <2>1
    <3> QED
      BY <1>1, <2>1, <3>1
  <2> QED
    BY <2>1
<1> HIDE DEF Good
<1>4. 0..k \subseteq Good
  BY <1>2, <1>3, UpToBound
<1> QED
  BY <1>4 DEF Good

LEMMA PowerIs ==
  ASSUME NEW x \in Int
  PROVE  /\ Power(x, 0) = 1
         /\ \A n \in Nat : Power(x, n) \in Int /\ Power(x, n + 1) = x * Power(x, n)
<1> DEFINE G(n) == CHOOSE g : IsPower(x, n, g)
<1>1. \A n \in Nat : IsPower(x, n, G(n)) /\ Power(x, n) = G(n)[n]
  BY PowerExists, PowerIsChosen
<1> HIDE DEF G
<1>2. \A n \in Nat : G(n + 1)[n] = G(n)[n]
  <2>1. \A n \in Nat : n + 1 \in Nat /\ n <= n + 1 /\ n \in 0..n
    OBVIOUS
  <2> QED
    BY <1>1, <2>1, PowerUnique
<1>3. Power(x, 0) = 1
  BY <1>1 DEF IsPower
<1>4. ASSUME NEW n \in Nat PROVE Power(x, n + 1) = x * Power(x, n)
  <2>1. n + 1 \in 0..(n + 1) /\ n + 1 # 0 /\ (n + 1) - 1 = n
    OBVIOUS
  <2>2. G(n + 1)[n + 1] = x * G(n + 1)[n]
    BY <1>1, <2>1 DEF IsPower
  <2> QED
    BY <1>1, <1>2, <2>2
<1>5. ASSUME NEW n \in Nat PROVE Power(x, n) \in Int
  <2>1. PICK g \in [0..n -> Int] : IsPower(x, n, g)
    BY PowerExists
  <2>2. g[n] = G(n)[n]
    BY <1>1, <2>1, PowerUnique
  <2> QED
    BY <1>1, <2>1, <2>2
<1> QED
  BY <1>3, <1>4, <1>5

LEMMA ChoicesCounted ==
  ASSUME NEW A, IsFiniteSet(A), NEW n \in Nat
  PROVE  /\ IsFiniteSet([1..n -> A]) /\ Cardinality(A) \in Nat
         /\ Cardinality([1..n -> A]) = Power(Cardinality(A), n)
<1> DEFINE c    == Cardinality(A)
           Good == {k \in 0..n : /\ IsFiniteSet([1..k -> A])
                                 /\ Cardinality([1..k -> A]) = Power(c, k)}
<1>1. c \in Nat /\ c \in Int
  BY FS_CardinalityType
<1>2. 0 \in Good
  <2> DEFINE none == [i \in {} |-> 0]
  <2>1. 1..0 = {}
    OBVIOUS
  <2>2. [{} -> A] = {none}
    OBVIOUS
  <2> HIDE DEF none
  <2>3. IsFiniteSet({none}) /\ Cardinality({none}) = 1
    BY FS_Singleton
  <2>4. Power(c, 0) = 1
    BY <1>1, PowerIs
  <2>5. IsFiniteSet([1..0 -> A]) /\ Cardinality([1..0 -> A]) = Power(c, 0)
    <3>1. [1..0 -> A] = {none}
      BY <2>1, <2>2
    <3> HIDE DEF c
    <3> QED
      BY <2>3, <2>4, <3>1
  <2> QED
    BY <2>5
<1>3. ASSUME NEW k \in 0..n, k < n, k \in Good PROVE k + 1 \in Good
  <2>1. k \in Nat /\ k + 1 \in 0..n /\ IsFiniteSet([1..k -> A])
        /\ Cardinality([1..k -> A]) = Power(c, k)
    BY <1>3
  <2>2. /\ IsFiniteSet([1..(k + 1) -> A])
        /\ Cardinality([1..(k + 1) -> A]) = Power(c, k) * c
    BY <2>1, OneMoreChoice
  <2> HIDE DEF c
  <2>3. Power(c, k) \in Int /\ Power(c, k + 1) = c * Power(c, k)
    BY <1>1, <2>1, PowerIs
  <2>4. Power(c, k) * c = c * Power(c, k)
    BY <1>1, <2>3
  <2> QED
    BY <2>1, <2>2, <2>3, <2>4
<1>4. \A k \in 0..n : k < n /\ k \in Good => k + 1 \in Good
  BY <1>3
<1> HIDE DEF Good
<1>5. 0..n \subseteq Good
  BY <1>2, <1>4, UpToBound
<1>6. n \in Good
  BY <1>5
<1> QED
  BY <1>1, <1>6 DEF Good

LEMMA FactorsSwapped ==
  ASSUME NEW a \in Int, NEW b \in Int, NEW x \in Int, NEW y \in Int
  PROVE  (a * x) * (b * y) = (a * b) * (x * y)
OBVIOUS

\* Shares to the same power.
LEMMA SharesRaised ==
  ASSUME NEW a \in Int, NEW b \in Int, NEW c \in Int, NEW d \in Int, a * b = c * d,
         NEW n \in Nat
  PROVE  Power(a, n) * Power(b, n) = Power(c, n) * Power(d, n)
<1> DEFINE Good == {k \in 0..n : Power(a, k) * Power(b, k) = Power(c, k) * Power(d, k)}
<1>1. 0 \in Good
  BY PowerIs
<1>2. ASSUME NEW k \in 0..n, k < n, k \in Good PROVE k + 1 \in Good
  <2> DEFINE pa == Power(a, k)
             pb == Power(b, k)
             pc == Power(c, k)
             pd == Power(d, k)
  <2>1. k \in Nat /\ k + 1 \in 0..n /\ pa * pb = pc * pd
    BY <1>2
  <2>2. /\ Power(a, k + 1) = a * pa /\ Power(b, k + 1) = b * pb
        /\ Power(c, k + 1) = c * pc /\ Power(d, k + 1) = d * pd
        /\ pa \in Int /\ pb \in Int /\ pc \in Int /\ pd \in Int
    BY <2>1, PowerIs
  <2> HIDE DEF pa, pb, pc, pd
  <2>3. (a * pa) * (b * pb) = (a * b) * (pa * pb) /\ (c * pc) * (d * pd) = (c * d) * (pc * pd)
    BY <2>2, FactorsSwapped
  <2> QED
    BY <2>1, <2>2, <2>3
<1>3. \A k \in 0..n : k < n /\ k \in Good => k + 1 \in Good
  BY <1>2
<1> HIDE DEF Good
<1>4. 0..n \subseteq Good
  BY <1>1, <1>3, UpToBound
<1>5. n \in Good
  BY <1>4
<1> QED
  BY <1>5 DEF Good

\* The choices, one for each token, that never take an element.
LEMMA NeverTaken ==
  ASSUME NEW S, IsFiniteSet(S), NEW k \in Nat, NEW t \in Nat, NEW e \in S
  PROVE  LET P     == kSubset(k, S)
             never == [1..t -> {s \in P : e \notin s}]
             n     == Cardinality(S)
             c     == Cardinality(P)
         IN  /\ IsFiniteSet(never) /\ Cardinality(never) \in Int
             /\ Power(n, t) * Cardinality(never) = Power(n - k, t) * Power(c, t)
<1> DEFINE P    == kSubset(k, S)
           miss == {s \in P : e \notin s}
           n    == Cardinality(S)
           c    == Cardinality(P)
           m    == Cardinality(miss)
<1>1. /\ IsFiniteSet(P) /\ IsFiniteSet(miss)
      /\ c \in Nat /\ m \in Nat /\ n \in Nat
      /\ n * m = (n - k) * c
  BY MissedShare
<1>2. IsFiniteSet([1..t -> miss]) /\ Cardinality([1..t -> miss]) = Power(m, t)
  <2> HIDE DEF miss
  <2> QED
    BY <1>1, ChoicesCounted
<1>3. Power(m, t) \in Int /\ Power(n, t) * Power(m, t) = Power(n - k, t) * Power(c, t)
  <2> DEFINE x == n - k
  <2> HIDE DEF m, n, c
  <2>1. x \in Int /\ n \in Int /\ m \in Int /\ c \in Int
    BY <1>1
  <2>2. n * m = x * c
    BY <1>1
  <2> HIDE DEF x
  <2>3. Power(m, t) \in Int /\ Power(n, t) * Power(m, t) = Power(x, t) * Power(c, t)
    BY <2>1, <2>2, SharesRaised, PowerIs
  <2> QED
    BY <2>3 DEF x
<1> HIDE DEF m, n, c, miss
<1>4. /\ IsFiniteSet([1..t -> miss]) /\ Cardinality([1..t -> miss]) \in Int
      /\ Power(n, t) * Cardinality([1..t -> miss]) = Power(n - k, t) * Power(c, t)
  BY <1>2, <1>3
<1> QED
  BY <1>4 DEF n, c, miss, P

LEMMA OneExpertHit ==
  ASSUME NEW n \in Int, NEW l \in Int, NEW c \in Int, NEW m \in Int, n * m = l * c
  PROVE  (c - m) * n = (n - l) * c
<1>1. (c - m) * n = c * n - m * n /\ (n - l) * c = n * c - l * c
  OBVIOUS
<1>2. c * n = n * c /\ m * n = n * m
  OBVIOUS
<1>3. c * n \in Int /\ m * n \in Int /\ l * c \in Int /\ n * m \in Int /\ n * c \in Int
  OBVIOUS
<1> QED
  BY <1>1, <1>2, <1>3

LEMMA ExpertsCounted ==
  ASSUME deployment.experts \in Nat, deployment.topk \in Nat, NEW tokens \in Nat
  PROVE  ExpertsHitExact(tokens)
<1> DEFINE N       == deployment.experts
           k       == deployment.topk
           S       == 1..N
           P       == kSubset(k, S)
           choices == [1..tokens -> P]
           never   == [e \in S |-> [1..tokens -> {s \in P : e \notin s}]]
           hits    == [e \in S |-> choices \ never[e]]
           taken   == [choice \in choices |-> UNION Range(choice)]
           f       == [choice \in choices |-> Cardinality(UNION Range(choice))]
           g       == [e \in S |-> Cardinality(hits[e])]
           c       == Power(Cardinality(P), tokens)
           n       == Power(N, tokens)
           l       == Power(N - k, tokens)
<1>1. IsFiniteSet(S) /\ Cardinality(S) = N
  <2>1. N \in Nat /\ 1 \in Int /\ N \in Int /\ (IF 1 > N THEN 0 ELSE N - 1 + 1) = N
    OBVIOUS
  <2> HIDE DEF N
  <2> QED
    BY <2>1, FS_Interval
<1>2. /\ IsFiniteSet(P) /\ IsFiniteSet(choices) /\ Cardinality(choices) = c
      /\ c \in Int /\ n \in Int /\ l \in Int
  <2>1. IsFiniteSet(P)
    <3>1. P \in SUBSET SUBSET S
      BY DEF kSubset
    <3>2. IsFiniteSet(SUBSET S)
      BY <1>1, FS_SUBSET
    <3> HIDE DEF P, S
    <3> QED
      BY <3>1, <3>2, FS_Subset
  <2> HIDE DEF P
  <2>2. IsFiniteSet(choices) /\ Cardinality(choices) = c /\ Cardinality(P) \in Nat
    BY <2>1, ChoicesCounted
  <2>3. Cardinality(P) \in Int /\ N \in Int /\ N - k \in Int
    BY <2>2
  <2> QED
    BY <2>1, <2>2, <2>3, PowerIs
<1>3. ASSUME NEW e \in S
      PROVE  g[e] \in Int /\ g[e] * n = (n - l) * c
  <2> DEFINE z == never[e]
             m == Cardinality(z)
  <2>1. IsFiniteSet(z) /\ m \in Int /\ n * m = l * c
    <3>1. z = [1..tokens -> {s \in P : e \notin s}]
      OBVIOUS
    <3> HIDE DEF z
    <3>2. /\ IsFiniteSet([1..tokens -> {s \in P : e \notin s}])
          /\ Cardinality([1..tokens -> {s \in P : e \notin s}]) \in Int
          /\ Power(Cardinality(S), tokens) * Cardinality([1..tokens -> {s \in P : e \notin s}])
               = Power(Cardinality(S) - k, tokens) * Power(Cardinality(P), tokens)
      <4> HIDE DEF S, k
      <4>1. k \in Nat
        BY DEF k
      <4> QED
        BY <1>1, <4>1, NeverTaken DEF P
    <3> HIDE DEF P, S
    <3> QED
      BY <1>1, <3>1, <3>2
  <2>2. z \subseteq choices /\ choices \cap z = z
    OBVIOUS
  <2>3. g[e] = Cardinality(choices \ z)
    OBVIOUS
  <2> HIDE DEF z, choices, g
  <2>4. Cardinality(choices \ z) = Cardinality(choices) - Cardinality(choices \cap z)
    BY <1>2, FS_Difference
  <2>5. g[e] = c - m
    BY <1>2, <2>2, <2>3, <2>4
  <2> HIDE DEF m, n, l, c
  <2> QED
    BY <1>2, <2>1, <2>5, OneExpertHit
<1>4. SumFunctionOnSet(f, choices) = SumFunctionOnSet(g, S)
  <2>1. \A choice \in choices : choice \in [1..tokens -> P]
                                  /\ \A i \in 1..tokens : choice[i] \in P /\ choice[i] \subseteq S
    BY DEF kSubset
  <2>2. \A choice \in choices : \A e : e \in UNION Range(choice)
                                     <=> \E i \in 1..tokens : e \in choice[i]
    BY DEF Range
  <2> HIDE DEF P
  <2>3. taken \in [choices -> SUBSET S] /\ hits \in [S -> SUBSET choices]
    BY <2>1, <2>2
  <2>4. ASSUME NEW e \in S, NEW choice \in choices
        PROVE  e \in taken[choice] <=> choice \in hits[e]
    <3>1. choice \in never[e] <=> \A i \in 1..tokens : e \notin choice[i]
      BY <2>1
    <3> QED
      BY <2>2, <3>1
  <2>5. /\ \A choice \in choices : f[choice] = Cardinality(taken[choice])
        /\ \A e \in S : g[e] = Cardinality(hits[e])
    OBVIOUS
  <2>6. \A e \in S, choice \in choices : e \in taken[choice] <=> choice \in hits[e]
    BY <2>4
  <2> HIDE DEF S, choices, taken, hits, f, g
  <2> QED
    BY <1>1, <1>2, <2>3, <2>5, <2>6, CountedTwice
<1>5. SumFunctionOnSet(g, S) * n = ((n - l) * c) * N
  <2> DEFINE h == [e \in S |-> g[e] * n]
             x == (n - l) * c
  <2>1. \A e \in S : g[e] \in Int /\ h[e] = g[e] * n /\ h[e] = x
    BY <1>3
  <2>2. x \in Int
    BY <1>2
  <2> HIDE DEF h, x, S, g, n
  <2>3. SumFunctionOnSet(h, S) = SumFunctionOnSet(g, S) * n
    BY <1>1, <1>2, <2>1, SumScaled
  <2>4. SumFunctionOnSet(h, S) = x * Cardinality(S)
    BY <1>1, <2>1, <2>2, SumConstant
  <2> QED
    BY <1>1, <2>3, <2>4 DEF x
<1>6. DOMAIN f = choices
  OBVIOUS
<1>7. (N * (n - l)) * c = SumFunctionOnSet(f, choices) * n
  <2>1. N \in Int
    OBVIOUS
  <2> HIDE DEF N, n, l, c, f, choices, g, S
  <2>2. (N * (n - l)) * c = ((n - l) * c) * N
    <3> DEFINE y == n - l
    <3>1. y \in Int
      BY <1>2
    <3> HIDE DEF y
    <3>2. (N * y) * c = (y * c) * N
      BY <1>2, <2>1, <3>1
    <3> QED
      BY <3>2 DEF y
  <2> QED
    BY <1>4, <1>5, <2>2
<1>8. (N * (n - l)) * Cardinality(choices) = SumFunction(f) * n
  <2> HIDE DEF choices, f, c, n, l
  <2> QED
    BY <1>2, <1>6, <1>7 DEF SumFunction
<1> QED
  BY <1>8 DEF ExpertsHitExact, DistinctExperts

-----------------------------------------------------------------------------
(* Every operator of a plan.                                               *)

Exact(op) ==
  /\ op.kind = "attention" /\ op.shape.subtype # DECODE => PrefillWorkAccounted(op.shape)
  /\ op.kind = "moe" => ExpertsHitExact(op.shape.num_tokens)

Sound(op) == Found(op) /\ Exact(op)

LEMMA OtherSound ==
  ASSUME NEW op, op.kind \notin {"attention", "moe"}, Found(op)
  PROVE  Sound(op)
BY DEF Sound, Exact

LEMMA PlainSound ==
  /\ \A name, e : Sound(Norm(name, e)) /\ Sound(ElementWise(name, e))
  /\ \A t, v, h : Sound(Embedding(t, v, h))
  /\ \A d, h, s : Sound(MLAAttention(d, h, s))
  /\ \A d, name, pre, t : Sound(MoEDispatch(d, name, pre, t))
<1>1. \A op : op.kind \in {"norm", "elementwise", "embedding", "mla", "moe_dispatch"}
                => Sound(op)
  BY OtherKindFound, OtherSound
<1> QED
  BY <1>1, PlainKinds

LEMMA ProjectionsSound ==
  ASSUME deployment \in Deployments, NEW m
  PROVE  LET d  == deployment
             nq == HeadsPerRank(d)
             nk == KvHeadsPerRank(d)
         IN  /\ Sound(GEMM("qkv_proj", m, (nq + 2 * nk) * d.headDim, d.hidden))
             /\ Sound(GEMM("o_proj", m, d.hidden, nq * d.headDim))
             /\ Sound(GEMM("gate_up_proj", m, 2 * FfnPerRank(d), d.hidden))
             /\ Sound(GEMM("down_proj", m, d.hidden, FfnPerRank(d)))
             /\ Sound(GEMM("lm_head", m, d.vocab \div d.tp, d.hidden))
<1>1. \A name, n, k : GEMM(name, m, n, k).kind = "gemm"
  BY DEF GEMM
<1> QED
  BY <1>1, ProjectionsFound, OtherSound

LEMMA MoeSound ==
  ASSUME deployment \in Deployments, IsMoE(deployment), NEW tokens \in Nat, NEW skew
  PROVE  Sound(MoE(deployment, tokens, skew))
<1> DEFINE op == MoE(deployment, tokens, skew)
<1>1. op.kind = "moe" /\ op.shape.num_tokens = tokens
  BY DEF MoE
<1>2. Found(op)
  BY MoeFound
<1>3. ExpertsHitExact(tokens)
  BY DeploymentTyped, ExpertsCounted
<1> HIDE DEF op
<1>4. Sound(op)
  BY <1>1, <1>2, <1>3 DEF Sound, Exact
<1> QED
  BY <1>4 DEF op

\* A list of sound operators.
AllSound(ops) == IsSeq(ops) /\ \A i \in 1..Len(ops) : Sound(ops[i])

LEMMA SoundJoined ==
  ASSUME NEW a, NEW b, AllSound(a), AllSound(b)
  PROVE  AllSound(a \o b)
<1> DEFINE c == a \o b
<1>1. /\ IsSeq(c) /\ Len(a) \in Nat /\ Len(b) \in Nat /\ Len(c) = Len(a) + Len(b)
      /\ \A i \in 1..Len(a) : c[i] = a[i]
      /\ \A i \in 1..Len(b) : c[Len(a) + i] = b[i]
  BY Joined DEF AllSound
<1> HIDE DEF c
<1>2. ASSUME NEW i \in 1..Len(c)
      PROVE  Sound(c[i])
  <2>1. CASE i \in 1..Len(a)
    BY <1>1, <2>1 DEF AllSound
  <2>2. CASE i \notin 1..Len(a)
    <3> DEFINE j == i - Len(a)
    <3>1. j \in 1..Len(b) /\ i = Len(a) + j
      BY <1>1, <2>2
    <3> HIDE DEF j
    <3>2. c[i] = b[j]
      BY <1>1, <3>1
    <3> QED
      BY <3>1, <3>2 DEF AllSound
  <2> QED
    BY <2>1, <2>2
<1> QED
  BY <1>1, <1>2 DEF AllSound, c

LEMMA SoundOf1 == ASSUME NEW a, Sound(a) PROVE AllSound(<<a>>)
<1>1. IsSeq(<<a>>) /\ Len(<<a>>) = 1 /\ <<a>>[1] = a /\ \A i \in 1..1 : i = 1
  BY SeqOf1
<1> QED
  BY <1>1 DEF AllSound

LEMMA SoundOf2 == ASSUME NEW a, NEW b, Sound(a), Sound(b) PROVE AllSound(<<a, b>>)
<1>1. /\ IsSeq(<<a, b>>) /\ Len(<<a, b>>) = 2 /\ (\A i \in 1..2 : i = 1 \/ i = 2)
      /\ <<a, b>>[1] = a /\ <<a, b>>[2] = b
  BY SeqOf2
<1> QED
  BY <1>1 DEF AllSound

LEMMA SoundOf3 ==
  ASSUME NEW a, NEW b, NEW c, Sound(a), Sound(b), Sound(c)
  PROVE  AllSound(<<a, b, c>>)
<1>1. /\ IsSeq(<<a, b, c>>) /\ Len(<<a, b, c>>) = 3
      /\ \A i \in 1..3 : i = 1 \/ i = 2 \/ i = 3
      /\ <<a, b, c>>[1] = a /\ <<a, b, c>>[2] = b /\ <<a, b, c>>[3] = c
  BY SeqOf3
<1> QED
  BY <1>1 DEF AllSound

LEMMA SoundOf4 ==
  ASSUME NEW a, NEW b, NEW c, NEW d, Sound(a), Sound(b), Sound(c), Sound(d)
  PROVE  AllSound(<<a, b, c, d>>)
BY SoundOf1, SoundOf3, SoundJoined, LastOf4

LEMMA NoneSound == AllSound(<< >>)
<1>1. IsSeq(<< >>) /\ Len(<< >>) = 0
  BY DEF IsSeq
<1> QED
  BY <1>1 DEF AllSound

\* A sweep measures decodes and prefills of one request, where the key heads
\* are at least as many as the ranks.
LEMMA FlashSound ==
  ASSUME deployment \in Deployments, NEW s, Covered(s)
  PROVE  AllSound(FlashAttention(HeadsPerRank(deployment), KvHeadsPerRank(deployment),
                                 deployment.headDim, s))
<1> DEFINE d       == deployment
           nq      == HeadsPerRank(d)
           nk      == KvHeadsPerRank(d)
           ops     == FlashAttention(nq, nk, d.headDim, s)
           prefill == [num_seqs |-> Larger(s.prefillRequests, 1), q_len |-> s.maxPrefill,
                       kv_len |-> s.maxPrefill]
           decode  == [num_seqs |-> s.decodeRequests, q_len |-> 1, kv_len |-> s.avgContext]
           mixed   == <<[prefill EXCEPT !.kv_len = s.maxContext], decode>>
           Regime(subtype, parts) ==
             [name |-> "attention", kind |-> "attention", source |-> "vllm_flash_attn",
              shape |-> [subtype |-> subtype, parts |-> parts, num_q_heads |-> nq,
                         num_kv_heads |-> nk, head_dim |-> d.headDim]]
<1>0. PREFILL # DECODE /\ PREFILL # MIXED /\ DECODE # MIXED
  BY DEF PREFILL, DECODE, MIXED
<1>1. ops \in {<<Regime(MIXED, mixed)>>, <<Regime(DECODE, <<decode>>)>>,
               <<Regime(PREFILL, <<prefill>>)>>, << >>}
  BY DEF FlashAttention
<1>2. ASSUME NEW subtype, NEW parts, NEW seqs, NEW q, NEW len,
             \/ subtype = PREFILL /\ q = len
             \/ subtype = DECODE /\ q = 1,
             parts[1] = [num_seqs |-> seqs, q_len |-> q, kv_len |-> len]
      PROVE  Found(Regime(subtype, parts))
  <2> DEFINE op == Regime(subtype, parts)
  <2>1. /\ op.kind = "attention" /\ op.source = "vllm_flash_attn"
        /\ op.shape.subtype = subtype /\ op.shape.num_q_heads = nq
        /\ op.shape.num_kv_heads = nk /\ op.shape.head_dim = d.headDim
        /\ op.shape.parts[1] = [num_seqs |-> seqs, q_len |-> q, kv_len |-> len]
    BY <1>2
  <2>2. /\ op.shape.parts[1].num_seqs = seqs /\ op.shape.parts[1].q_len = q
        /\ op.shape.parts[1].kv_len = len
    BY <2>1
  <2> HIDE DEF op, nq, nk
  <2>3. SUFFICES ASSUME InContract(op) PROVE Key(op) \in Filed
    BY DEF Found, op
  <2>4. /\ d.tp \in TpSizes /\ d.tp <= d.kvHeads /\ d.heads % d.tp = 0
        /\ d.blockSize = MeasuredBlockSize
        /\ (subtype = PREFILL /\ seqs = 1) \/ subtype = DECODE
        /\ seqs \in Points /\ len \in Points
    BY <2>1, <2>2, <2>3, ContractOf
  <2>5. d.tp \in Nat /\ d.tp # 0 /\ d.kvHeads \in Nat /\ d.mode \in Modes
    BY DeploymentTyped
  <2>6. nq = d.heads \div d.tp /\ nk = d.kvHeads \div d.tp
    BY DEF nq, nk, HeadsPerRank, KvHeadsPerRank
  <2>7. nk = Larger(1, d.kvHeads \div d.tp)
    <3> DEFINE t == d.tp
               x == d.kvHeads
    <3>1. t \in Nat /\ t # 0 /\ x \in Nat /\ t <= x
      BY <2>4, <2>5
    <3> HIDE DEF t, x
    <3>2. x \div t \in Nat /\ x \div t >= 1
      BY <3>1
    <3>3. x \div t = Larger(1, x \div t)
      BY <3>2 DEF Larger
    <3> QED
      BY <2>6, <3>3 DEF t, x
  <2>8. \/ subtype = PREFILL /\ seqs = 1 /\ q = len
        \/ subtype = DECODE /\ seqs \in Points /\ q = 1
    BY <1>0, <1>2, <2>4
  <2>9. op.shape.num_q_heads = d.heads \div d.tp
    BY <2>1, <2>6
  <2>10. op.source = "vllm_flash_attn" /\ op.kind = "attention" /\ op.shape.subtype = subtype
         /\ op.shape.num_kv_heads = nk /\ op.shape.head_dim = d.headDim
         /\ op.shape.parts[1] = [num_seqs |-> seqs, q_len |-> q, kv_len |-> len]
    BY <2>1
  <2>11. d.tp \in TpSizes /\ d.heads % d.tp = 0 /\ d.blockSize = MeasuredBlockSize
         /\ len \in Points /\ d.mode \in Modes
    BY <2>4, <2>5
  <2> QED
    BY <2>7, <2>8, <2>9, <2>10, <2>11, AttentionFiled
<1>3. Found(Regime(MIXED, mixed))
  <2> DEFINE op == Regime(MIXED, mixed)
  <2>1. op.kind = "attention" /\ op.shape.subtype = MIXED
    OBVIOUS
  <2> HIDE DEF op
  <2>2. ~ InContract(op)
    BY <1>0, <2>1, ContractOf
  <2> QED
    BY <2>2 DEF Found, op
<1>4. Found(Regime(DECODE, <<decode>>)) /\ Found(Regime(PREFILL, <<prefill>>))
  <2>1. <<decode>>[1] = decode /\ <<prefill>>[1] = prefill
    OBVIOUS
  <2> HIDE DEF Regime
  <2> QED
    BY <1>2, <2>1
<1>5. ASSUME NEW subtype, NEW parts, parts[1].q_len = s.maxPrefill,
             parts[1].num_seqs = Larger(s.prefillRequests, 1)
      PROVE  Exact(Regime(subtype, parts))
  <2> DEFINE op == Regime(subtype, parts)
             a  == op.shape
             t  == d.tp
             x  == d.heads
             y  == d.kvHeads
  <2>1. /\ a.parts[1] = parts[1] /\ a.head_dim = d.headDim
        /\ a.num_q_heads = nq /\ a.num_kv_heads = nk
    OBVIOUS
  <2>2. nq = x \div t /\ nk = y \div t
    BY DEF HeadsPerRank, KvHeadsPerRank
  <2>3. t \in Nat /\ t # 0 /\ x \in Nat /\ y \in Nat
    BY DeploymentTyped
  <2> HIDE DEF t, x, y, nq, nk
  <2>4. nq \in Nat /\ nk \in Nat
    BY <2>2, <2>3, DivisionBounds
  <2> HIDE DEF op
  <2>5. PrefillWorkAccounted(a)
    <3> HIDE DEF a
    <3> QED
      BY <1>5, <2>1, <2>4, PrefillCounted
  <2> QED
    BY <2>5 DEF Exact, op
<1>6. Exact(Regime(MIXED, mixed)) /\ Exact(Regime(PREFILL, <<prefill>>))
  <2>1. /\ mixed[1].num_seqs = Larger(s.prefillRequests, 1) /\ mixed[1].q_len = s.maxPrefill
        /\ <<prefill>>[1].num_seqs = Larger(s.prefillRequests, 1)
        /\ <<prefill>>[1].q_len = s.maxPrefill
    OBVIOUS
  <2> HIDE DEF mixed, prefill, Regime
  <2> QED
    BY <1>5, <2>1
<1>7. Exact(Regime(DECODE, <<decode>>))
  BY DEF Exact
<1> HIDE DEF ops, Regime, mixed, decode, prefill
<1>8. AllSound(ops)
  BY <1>1, <1>3, <1>4, <1>6, <1>7, SoundOf1, NoneSound DEF Sound
<1> QED
  BY <1>8 DEF ops, nq, nk

LEMMA AllReduceSound ==
  ASSUME NEW name, NEW d, NEW s, NEW source
  PROVE  AllSound(TpAllReduce(name, d, s, source))
<1> DEFINE ops == TpAllReduce(name, d, s, source)
<1>1. ops = << >> \/ \E op : ops = <<op>> /\ op.kind = "collective"
  BY DEF TpAllReduce, AllReduce
<1>2. ASSUME NEW op, ops = <<op>>, op.kind = "collective" PROVE AllSound(ops)
  <2> HIDE DEF ops
  <2> QED
    BY <1>2, OtherKindFound, OtherSound, SoundOf1
<1> QED
  BY <1>1, <1>2, NoneSound

\* Gates and the projections of DeepSeek and of shared experts are not swept.
LEMMA GemmSound ==
  /\ \A m, n, k : Sound(Router(m, n, k))
  /\ \A name, m, n, k :
        \/ ArchOf(deployment) = "deepseek"
        \/ name \notin {"qkv_proj", "o_proj", "gate_up_proj", "down_proj", "lm_head"}
        => Sound(GEMM(name, m, n, k))
<1>1. \A name, m, n, k : GEMM(name, m, n, k).kind = "gemm" /\ GEMM(name, m, n, k).name = name
  BY DEF GEMM
<1>2. \A m, n, k : Router(m, n, k).kind = "gemm" /\ Router(m, n, k).name = "moe_gate"
  BY DEF Router, GEMM
<1> QED
  BY <1>1, <1>2, OtherGemmFound, OtherSound

LEMMA QwenAttentionSound ==
  ASSUME deployment \in Deployments, NEW s, Covered(s)
  PROVE  AllSound(QwenAttentionOps(deployment, s))
<1> DEFINE d  == deployment
           T  == s.totalTokens
           nq == HeadsPerRank(d)
           nk == KvHeadsPerRank(d)
           n  == Norm("attn_norm", T * d.hidden)
           g  == GEMM("qkv_proj", T, (nq + 2 * nk) * d.headDim, d.hidden)
           e  == ElementWise("rope", T * (nq + nk) * d.headDim)
           f  == FlashAttention(nq, nk, d.headDim, s)
           o  == GEMM("o_proj", T, d.hidden, nq * d.headDim)
           r  == QwenReduce("tp_o_proj_allreduce", d, s)
           p  == ElementWise("attn_add", T * d.hidden)
<1>1. QwenAttentionOps(d, s) = (((<<n, g, e>> \o f) \o <<o>>) \o r) \o <<p>>
  BY DEF QwenAttentionOps
<1>2. Sound(n) /\ Sound(e) /\ Sound(p)
  BY PlainSound
<1>3. Sound(g) /\ Sound(o)
  BY ProjectionsSound
<1>4. AllSound(f)
  BY FlashSound
<1>5. AllSound(r)
  BY AllReduceSound DEF QwenReduce
<1> HIDE DEF n, g, e, f, o, r, p
<1>6. AllSound(<<n, g, e>>) /\ AllSound(<<o>>) /\ AllSound(<<p>>)
  BY <1>2, <1>3, SoundOf1, SoundOf3
<1> QED
  BY <1>1, <1>4, <1>5, <1>6, SoundJoined

LEMMA MlaAttentionSound ==
  ASSUME ArchOf(deployment) = "deepseek", NEW s
  PROVE  AllSound(MlaAttentionOps(deployment, s))
<1> DEFINE d     == deployment
           T     == s.totalTokens
           heads == HeadsPerRank(d)
           qDim  == heads * QkHeadDim(d)
           n  == Norm("attn_norm", T * d.hidden)
           qa == GEMM("q_a_proj", T, d.qLora, d.hidden)
           qb == GEMM("q_b_proj", T, qDim, d.qLora)
           q  == GEMM("q_proj", T, qDim, d.hidden)
           qs == IF d.qLora > 0 THEN <<qa, qb>> ELSE <<q>>
           ka == GEMM("kv_a_proj_with_mqa", T, KvLatentDim(d), d.hidden)
           kb == GEMM("kv_b_proj", T, heads * (d.nope + d.vDim), d.kvLora)
           a  == MLAAttention(d, heads, s)
           o  == GEMM("o_proj", T, d.hidden, heads * d.vDim)
           r  == DeepSeekReduce("attn_allreduce", d, s)
           p  == ElementWise("attn_add", T * d.hidden)
<1>1. MlaAttentionOps(d, s) = (((<<n>> \o qs) \o <<ka, kb, a, o>>) \o r) \o <<p>>
  BY DEF MlaAttentionOps
<1>2. Sound(n) /\ Sound(a) /\ Sound(p)
  BY PlainSound
<1>3. Sound(qa) /\ Sound(qb) /\ Sound(q) /\ Sound(ka) /\ Sound(kb) /\ Sound(o)
  BY GemmSound
<1>4. AllSound(r)
  BY AllReduceSound DEF DeepSeekReduce
<1> HIDE DEF n, qa, qb, q, ka, kb, a, o, r, p
<1>5. AllSound(qs)
  BY <1>3, SoundOf1, SoundOf2
<1> HIDE DEF qs
<1>6. AllSound(<<n>>) /\ AllSound(<<ka, kb, a, o>>) /\ AllSound(<<p>>)
  BY <1>2, <1>3, SoundOf1, SoundOf4
<1> QED
  BY <1>1, <1>4, <1>5, <1>6, SoundJoined

LEMMA DenseSound ==
  ASSUME NEW n, NEW g, NEW e, NEW o, NEW r, NEW p,
         Sound(n), Sound(g), Sound(e), Sound(o), AllSound(r), Sound(p)
  PROVE  AllSound((<<n, g, e, o>> \o r) \o <<p>>)
<1>1. AllSound(<<n, g, e, o>>) /\ AllSound(<<p>>)
  BY SoundOf1, SoundOf4
<1> QED
  BY <1>1, SoundJoined

LEMMA ExpertsSound ==
  ASSUME deployment \in Deployments, IsMoE(deployment), NEW s, s.totalTokens \in Nat,
         NEW skew, NEW n, NEW g, NEW e, NEW shared, NEW p,
         Sound(n), Sound(g), Sound(e), AllSound(shared), Sound(p)
  PROVE  AllSound((<<n, g, e,
                     MoEDispatch(deployment, "moe_dispatch_pre", TRUE, s.totalTokens),
                     MoE(deployment, s.totalTokens, skew),
                     MoEDispatch(deployment, "moe_dispatch_post", FALSE, s.totalTokens)>>
                    \o shared) \o <<p>>)
<1> DEFINE pre  == MoEDispatch(deployment, "moe_dispatch_pre", TRUE, s.totalTokens)
           moe  == MoE(deployment, s.totalTokens, skew)
           post == MoEDispatch(deployment, "moe_dispatch_post", FALSE, s.totalTokens)
           a    == <<n, g, e, pre, moe, post>>
<1>1. Sound(pre) /\ Sound(moe) /\ Sound(post)
  BY PlainSound, MoeSound
<1> HIDE DEF pre, moe, post
<1>2. /\ IsSeq(a) /\ Len(a) = 6
      /\ (\A i \in 1..6 : i = 1 \/ i = 2 \/ i = 3 \/ i = 4 \/ i = 5 \/ i = 6)
      /\ a[1] = n /\ a[2] = g /\ a[3] = e /\ a[4] = pre /\ a[5] = moe /\ a[6] = post
  BY SeqOf6
<1> HIDE DEF a
<1>3. AllSound(a)
  BY <1>1, <1>2 DEF AllSound
<1>4. AllSound(<<p>>)
  BY SoundOf1
<1> QED
  BY <1>3, <1>4, SoundJoined DEF a, pre, moe, post

LEMMA FfnSound ==
  ASSUME deployment \in Deployments, NEW s, s.totalTokens \in Nat, NEW layer
  PROVE  AllSound(FfnOps(deployment, s, layer))
<1> DEFINE d      == deployment
           T      == s.totalTokens
           ffn    == FfnPerRank(d)
           sh     == SharedPerRank(d)
           n      == Norm("mlp_norm", T * d.hidden)
           p      == ElementWise("mlp_add", T * d.hidden)
           g      == GEMM("gate_up_proj", T, 2 * ffn, d.hidden)
           e      == ElementWise("mlp_act", T * ffn)
           o      == GEMM("down_proj", T, d.hidden, ffn)
           router == Router(T, d.experts, d.hidden)
           topk   == ElementWise("moe_topk", T * d.experts)
           sg     == GEMM("shared_expert_up_gate", T, 2 * sh, d.hidden)
           se     == ElementWise("shared_expert_act", T * sh)
           so     == GEMM("shared_expert_down", T, d.hidden, sh)
<1>1. Sound(n) /\ Sound(p) /\ Sound(e) /\ Sound(topk) /\ Sound(se)
  BY PlainSound
<1>2. Sound(g) /\ Sound(o)
  BY ProjectionsSound
<1>3. Sound(router) /\ Sound(sg) /\ Sound(so)
  BY GemmSound
<1>4. \A name : AllSound(QwenReduce(name, d, s)) /\ AllSound(DeepSeekReduce(name, d, s))
  BY AllReduceSound DEF QwenReduce, DeepSeekReduce
<1>5. AllSound(QwenDenseFfnOps(d, s))
  <2>1. QwenDenseFfnOps(d, s)
          = (<<n, g, e, o>> \o QwenReduce("tp_down_proj_allreduce", d, s)) \o <<p>>
    BY DEF QwenDenseFfnOps
  <2> HIDE DEF n, g, e, o, p
  <2> QED
    BY <1>1, <1>2, <1>4, <2>1, DenseSound
<1>6. AllSound(DeepSeekDenseFfnOps(d, s))
  <2>1. DeepSeekDenseFfnOps(d, s)
          = (<<n, g, e, o>> \o DeepSeekReduce("mlp_allreduce", d, s)) \o <<p>>
    BY DEF DeepSeekDenseFfnOps
  <2> HIDE DEF n, g, e, o, p
  <2> QED
    BY <1>1, <1>2, <1>4, <2>1, DenseSound
<1>7. ASSUME IsMoE(d) PROVE AllSound(QwenMoeFfnOps(d, s, layer))
  <2> DEFINE shared == IF d.shared > 0 THEN QwenSharedExpertOps(d, s) ELSE <<>>
  <2>1. QwenSharedExpertOps(d, s)
          = <<sg, se, so>> \o QwenReduce("shared_expert_allreduce", d, s)
    BY DEF QwenSharedExpertOps
  <2>2. QwenMoeFfnOps(d, s, layer)
          = (<<n, router, topk, MoEDispatch(d, "moe_dispatch_pre", TRUE, T),
               MoE(d, T, SkewForLayer(d, layer)), MoEDispatch(d, "moe_dispatch_post", FALSE, T)>>
             \o shared) \o <<p>>
    BY DEF QwenMoeFfnOps
  <2> HIDE DEF n, router, topk, p, sg, se, so
  <2>3. AllSound(QwenSharedExpertOps(d, s))
    BY <1>1, <1>3, <1>4, <2>1, SoundOf3, SoundJoined
  <2>4. AllSound(shared)
    BY <2>3, NoneSound
  <2> HIDE DEF shared
  <2> QED
    BY <1>1, <1>3, <1>7, <2>2, <2>4, ExpertsSound
<1>8. ASSUME IsMoE(d) PROVE AllSound(DeepSeekMoeFfnOps(d, s, layer))
  <2> DEFINE shared == IF d.shared > 0 THEN DeepSeekSharedExpertOps(d, s) ELSE <<>>
  <2>1. DeepSeekSharedExpertOps(d, s)
          = <<sg, se, so>> \o DeepSeekReduce("shared_expert_allreduce", d, s)
    BY DEF DeepSeekSharedExpertOps
  <2>2. DeepSeekMoeFfnOps(d, s, layer)
          = (<<n, router, topk, MoEDispatch(d, "moe_dispatch_pre", TRUE, T),
               MoE(d, T, SkewForLayer(d, layer)), MoEDispatch(d, "moe_dispatch_post", FALSE, T)>>
             \o shared) \o <<p>>
    BY DEF DeepSeekMoeFfnOps
  <2> HIDE DEF n, router, topk, p, sg, se, so
  <2>3. AllSound(DeepSeekSharedExpertOps(d, s))
    BY <1>1, <1>3, <1>4, <2>1, SoundOf3, SoundJoined
  <2>4. AllSound(shared)
    BY <2>3, NoneSound
  <2> HIDE DEF shared
  <2> QED
    BY <1>1, <1>3, <1>8, <2>2, <2>4, ExpertsSound
<1>9. IsMoeLayer(d, layer) \in BOOLEAN /\ (IsMoeLayer(d, layer) => IsMoE(d))
  BY DEF IsMoeLayer, IsMoE
<1> QED
  BY <1>5, <1>6, <1>7, <1>8, <1>9 DEF FfnOps

LEMMA OpsSound ==
  ASSUME deployment \in Deployments, NEW s, Covered(s)
  PROVE  /\ AllSound(EmbeddingOps(deployment, s)) /\ AllSound(LmHeadOps(deployment, s))
         /\ AllSound(AttentionOps(deployment, s))
<1>1. AllSound(EmbeddingOps(deployment, s))
  BY PlainSound, SoundOf1 DEF EmbeddingOps
<1>2. AllSound(LmHeadOps(deployment, s))
  BY ProjectionsSound, SoundOf1 DEF LmHeadOps
<1>3. AllSound(AttentionOps(deployment, s))
  BY QwenAttentionSound, MlaAttentionSound DEF AttentionOps
<1> QED
  BY <1>1, <1>2, <1>3

\* The same of the nodes of a plan.
PlanSound(plan) == IsSeq(plan) /\ \A i \in 1..Len(plan) : Sound(plan[i].op)

LEMMA PlansJoined ==
  ASSUME NEW a, NEW b, PlanSound(a), PlanSound(b)
  PROVE  PlanSound(a \o b)
<1> DEFINE c == a \o b
<1>1. /\ IsSeq(c) /\ Len(a) \in Nat /\ Len(b) \in Nat /\ Len(c) = Len(a) + Len(b)
      /\ \A i \in 1..Len(a) : c[i] = a[i]
      /\ \A i \in 1..Len(b) : c[Len(a) + i] = b[i]
  BY Joined DEF PlanSound
<1> HIDE DEF c
<1>2. ASSUME NEW i \in 1..Len(c)
      PROVE  Sound(c[i].op)
  <2>1. CASE i \in 1..Len(a)
    BY <1>1, <2>1 DEF PlanSound
  <2>2. CASE i \notin 1..Len(a)
    <3> DEFINE j == i - Len(a)
    <3>1. j \in 1..Len(b) /\ i = Len(a) + j
      BY <1>1, <2>2
    <3> HIDE DEF j
    <3>2. c[i] = b[j]
      BY <1>1, <3>1
    <3> QED
      BY <3>1, <3>2 DEF PlanSound
  <2> QED
    BY <2>1, <2>2
<1> QED
  BY <1>1, <1>2 DEF PlanSound, c

LEMMA TimesSound ==
  ASSUME NEW ops, AllSound(ops), NEW count
  PROVE  PlanSound(Times(ops, count))
<1> DEFINE u == Times(ops, count)
<1>1. /\ IsSeq(u) /\ Len(u) = Len(ops)
      /\ \A i \in 1..Len(ops) : u[i] = [op |-> ops[i], count |-> count]
  BY TimesKeeps DEF AllSound
<1> HIDE DEF u
<1>2. ASSUME NEW i \in 1..Len(u) PROVE Sound(u[i].op)
  <2>1. u[i] = [op |-> ops[i], count |-> count] /\ Sound(ops[i])
    BY <1>1 DEF AllSound
  <2>2. u[i].op = ops[i]
    BY <2>1
  <2> QED
    BY <2>1, <2>2
<1> QED
  BY <1>1, <1>2 DEF PlanSound, u

LEMMA WholePlanSound ==
  ASSUME deployment \in Deployments, NEW s, Covered(s), s.totalTokens \in Nat
  PROVE  PlanSound(PlanOf(deployment, s))
<1> DEFINE d == deployment
           e == Times(EmbeddingOps(d, s), 1)
           a == Times(AttentionOps(d, s), d.layers)
           f == BucketNodes(d, s, DenseLayers(d))
           m == BucketNodes(d, s, MoeLayers(d))
           h == Times(LmHeadOps(d, s), 1)
<1>1. PlanOf(d, s) = (((e \o a) \o f) \o m) \o h
  BY DEF PlanOf
<1>2. PlanSound(e) /\ PlanSound(h) /\ PlanSound(a)
  BY OpsSound, TimesSound
<1>3. PlanSound(f) /\ PlanSound(m)
  <2>1. PlanSound(<< >>)
    BY NoneSound DEF AllSound, PlanSound
  <2>2. \A layer, count : PlanSound(Times(FfnOps(d, s, layer), count))
    BY FfnSound, TimesSound
  <2> QED
    BY <2>1, <2>2 DEF BucketNodes
<1> HIDE DEF e, a, f, m, h
<1> QED
  BY <1>1, <1>2, <1>3, PlansJoined

\* The tokens of a step and the sizes of its prefills.
LEMMA PrefillsTyped ==
  ASSUME NEW so \in Steps
  PROVE  LET s == ShapeOf(Extract(so, Req))
         IN  /\ s.maxPrefill \in Nat /\ s.prefillRequests \in Nat
             /\ s.totalTokens \in Nat
<1> DEFINE w == Extract(so, Req)
           R == PrefillRequests(w)
           S == {w[r].tokens : r \in R}
           U == S \cup {0}
<1>1. IsFiniteSet(DOMAIN w) /\ \A r \in DOMAIN w : w[r].tokens \in Nat \ {0}
  BY WorkloadTyped
<1> HIDE DEF w
<1>2. R \in SUBSET DOMAIN w
  BY DEF PrefillRequests
<1>3. IsFiniteSet(R) /\ Cardinality(R) \in Nat
  <2> HIDE DEF R
  <2> QED
    BY <1>1, <1>2, FS_Subset, FS_CardinalityType
<1>4. U \subseteq Nat /\ U # {}
  BY <1>1, <1>2
<1>5. IsFiniteSet(U)
  <2> DEFINE f == [r \in DOMAIN w |-> w[r].tokens]
  <2>1. S = {f[r] : r \in R}
    BY <1>2
  <2> HIDE DEF f, S, R
  <2>2. IsFiniteSet(S)
    BY <1>3, <2>1, FiniteImage
  <2> QED
    BY <2>2, FS_AddElement
<1>6. MaxPrefillSeqlen(w) = Max(U)
  BY DEF MaxPrefillSeqlen
<1> HIDE DEF U, R
<1>7. Max(U) \in Nat
  <2>1. \A x \in U : x \in Int
    BY <1>4
  <2>2. Max(U) \in U
    BY <1>4, <1>5, <2>1, MaxIn
  <2> QED
    BY <1>4, <2>2
<1>8. TokensOf(w, DOMAIN w) \in Nat
  <2>1. DOMAIN w \in SUBSET DOMAIN w
    OBVIOUS
  <2> QED
    BY <1>1, <2>1, TokensCounted
<1> QED
  BY <1>3, <1>6, <1>7, <1>8 DEF ShapeOf, w, R

LEMMA PrefillsCovered ==
  ASSUME NEW so \in Steps, estimate.workload = Extract(so, Req)
  PROVE  Covered(ShapeOf(Extract(so, Req)))
<1> DEFINE w == Extract(so, Req)
           s == ShapeOf(w)
           R == PrefillRequests(w)
           S == {w[r].tokens : r \in R}
           U == S \cup {0}
<1>1. /\ IsFiniteSet(DOMAIN w)
      /\ \A r \in DOMAIN w : /\ w[r].tokens \in Nat \ {0} /\ w[r].context \in Nat
                             /\ w[r].tokens <= w[r].context
  BY WorkloadTyped
<1>2. s.maxPrefill \in Nat /\ s.prefillRequests \in Nat
  BY PrefillsTyped
<1>3. s.maxPrefill = Max(U) /\ s.prefillRequests = Cardinality(R)
  BY DEF ShapeOf, MaxPrefillSeqlen
<1>4. Prefills = R
  BY DEF Prefills
<1> HIDE DEF w, s
<1>5. R \in SUBSET DOMAIN w
  BY DEF PrefillRequests
<1>6. IsFiniteSet(R)
  <2> HIDE DEF R
  <2> QED
    BY <1>1, <1>5, FS_Subset
<1>7. U \subseteq Int /\ U # {}
  BY <1>1, <1>5
<1>8. IsFiniteSet(U)
  <2> DEFINE f == [r \in DOMAIN w |-> w[r].tokens]
  <2>1. S = {f[r] : r \in R}
    BY <1>5
  <2> HIDE DEF f, S, R
  <2>2. IsFiniteSet(S)
    BY <1>6, <2>1, FiniteImage
  <2> QED
    BY <2>2, FS_AddElement
<1>9. Max(U) \in U /\ \A x \in U : x <= Max(U)
  <2> HIDE DEF U
  <2> QED
    BY <1>7, <1>8, MaxIn
<1>10. \A r \in R : w[r].tokens <= s.maxPrefill
  BY <1>3, <1>9
<1>11. R = {} => s.maxPrefill = 0
  BY <1>3, <1>9
<1> HIDE DEF R
<1> QED
  BY <1>1, <1>2, <1>3, <1>4, <1>5, <1>6, <1>10, <1>11 DEF Covered, w, s

LEMMA PlanOfEstimate ==
  ASSUME IInv, HasPlan
  PROVE  /\ IsSeq(Plan) /\ DOMAIN Plan = 1..Len(Plan)
         /\ \A op \in OpsOf(Plan) : Found(op) /\ Exact(op)
<1>1. PICK so \in Steps, policy \in Policies : estimate = EstimateOf(so, policy)
  BY DEF IInv, EstimateOK, NoEstimate, HasPlan
<1> DEFINE s == StepShapeOf
           p == Plan
<1>2. estimate.workload = Extract(so, Req) /\ s = ShapeOf(Extract(so, Req))
  BY <1>1, EstimateIs DEF PricedBy, StepShapeOf
<1> HIDE DEF s, p
<1>3. Covered(s) /\ s.totalTokens \in Nat
  BY <1>2, PrefillsTyped, PrefillsCovered
<1>4. deployment \in Deployments /\ p = PlanOf(deployment, s)
  BY DEF IInv, p, Plan, s
<1>5. PlanSound(p)
  BY <1>3, <1>4, WholePlanSound
<1>6. IsSeq(p) /\ DOMAIN p = 1..Len(p)
  BY <1>5 DEF PlanSound, IsSeq
<1>7. ASSUME NEW op \in OpsOf(p) PROVE Found(op) /\ Exact(op)
  <2>1. PICK i \in DOMAIN p : op = p[i].op
    BY DEF OpsOf
  <2> QED
    BY <1>5, <1>6, <2>1 DEF PlanSound, Sound
<1> QED
  BY <1>6, <1>7 DEF p

\* Whatever the model, its sharding and the step: an operator within the sweep
\* has, computed from the model (core/operators/), the signature one of the
\* collector's cases is filed under, computed from the case
\* (collector/cases/, importers/collector_v2.py).
THEOREM ContractKeptAlways == Spec => []ContractKept
<1>1. IInv => ContractKept
  BY PlanOfEstimate DEF ContractKept, Found, Filed
<1> QED
  BY <1>1, InvCorrect, PTL

\* Whatever the prefills of a step, what is computed of them before it, the
\* head sizes and the on-chip memory: what core/operators/attention.py charges
\* falls short of the kernel's work by no more than the attention to earlier
\* tokens.  For prefills of one length it falls short by just that, and of the
\* traffic also by what the last block reads when it is not full.
THEOREM PrefillsAccountedAlways == Spec => []PrefillsAccounted
<1>1. IInv => PrefillsAccounted
  BY PlanOfEstimate DEF PrefillsAccounted, Exact
<1> QED
  BY <1>1, InvCorrect, PTL

\* However many tokens a step has, and whatever the experts and how many of
\* them a token takes: N * (1 - (1 - k/N)^T) of core/operators/moe.py is the
\* mean of the experts hit over every choice the tokens can make.
ExpertsExactAtAnyBatch ==
  HasPlan =>
    \A op \in OpsOf(Plan) : op.kind = "moe" => ExpertsHitExact(op.shape.num_tokens)

THEOREM ExpertsExactAlways == Spec => []ExpertsExactAtAnyBatch
<1>1. IInv => ExpertsExactAtAnyBatch
  BY PlanOfEstimate DEF ExpertsExactAtAnyBatch, Exact
<1> QED
  BY <1>1, InvCorrect, PTL

\* Of the work of a step's prefills and experts the closed forms of
\* core/operators/attention.py and moe.py leave out the attention to tokens
\* computed before the step, and nothing else.
THEOREM WorkAccountedAlways == Spec => []WorkAccounted
<1>1. ExpertsExactAtAnyBatch => ExpertsExact
  BY DEF ExpertsExactAtAnyBatch, ExpertsExact
<1> QED
  BY <1>1, PrefillsAccountedAlways, ExpertsExactAlways, PTL DEF WorkAccounted

-----------------------------------------------------------------------------
(* The work of the ranks: the plan of a rank and that of the same model on *)
(* one rank have the same local operators in the same order.               *)

\* Places of two sequences, the first m long, that follow each other.
AreParts(both, S, T, m) == \A x : x \in both <=> x \in S \/ \E k \in T : x = m + k

LEMMA PartsCounted ==
  ASSUME NEW m \in Nat, NEW S, NEW T, IsFiniteSet(S), IsFiniteSet(T),
         \A x \in S : x \in Int /\ x <= m,
         \A k \in T : k \in Int /\ k >= 1,
         NEW both, AreParts(both, S, T, m)
  PROVE  Cardinality(both) = Cardinality(S) + Cardinality(T)
<1> DEFINE shifted == {m + k : k \in T}
           f       == [k \in T |-> m + k]
<1>1. IsFiniteSet(S) /\ IsFiniteSet(T)
  OBVIOUS
<1>2. Cardinality(S) \in Nat /\ Cardinality(T) \in Nat
  BY <1>1, FS_CardinalityType
<1>3. f \in Bijection(T, shifted)
  <2>1. \A k \in T : f[k] = m + k /\ k \in Int
    OBVIOUS
  <2>2. \A j, k \in T : f[j] = f[k] => j = k
    BY <2>1
  <2>3. f \in [T -> shifted] /\ \A y \in shifted : \E k \in T : f[k] = y
    OBVIOUS
  <2> HIDE DEF f, shifted
  <2>4. f \in Injection(T, shifted)
    BY <2>2, <2>3, Fun_IsInj
  <2>5. f \in Surjection(T, shifted)
    BY <2>3, Fun_IsSurj
  <2> QED
    BY <2>4, <2>5 DEF Bijection
<1>4. IsFiniteSet(shifted) /\ Cardinality(shifted) = Cardinality(T)
  <2>1. ExistsBijection(T, shifted)
    <3> HIDE DEF f, shifted
    <3> QED
      BY <1>3 DEF ExistsBijection
  <2> HIDE DEF shifted
  <2> QED
    BY <1>1, <2>1, FS_Bijection
<1>5. S \cap shifted = {}
  OBVIOUS
<1>6. Cardinality(S \cap shifted) = 0
  BY <1>5, FS_EmptySet
<1>7. both = S \cup shifted
  BY DEF AreParts
<1> HIDE DEF shifted
<1>8. Cardinality(S \cup shifted) = Cardinality(S) + Cardinality(shifted) - Cardinality(S \cap shifted)
  BY <1>1, <1>4, FS_Union
<1> QED
  BY <1>1, <1>2, <1>4, <1>6, <1>7, <1>8

PlaceIn(plan, i) == Place(LocalAt(plan), i)

\* A place in a plan is one of as many as there are local operators.
LEMMA PlaceInside ==
  ASSUME NEW plan, IsSeq(plan)
  PROVE  /\ LocalAt(plan) \in SUBSET (1..Len(plan)) /\ Len(plan) \in Nat
         /\ Cardinality(LocalAt(plan)) \in Nat
         /\ \A i \in LocalAt(plan) : PlaceIn(plan, i) \in 1..Cardinality(LocalAt(plan))
<1> DEFINE L == LocalAt(plan)
<1>1. Len(plan) \in Nat /\ DOMAIN plan = 1..Len(plan)
  BY DEF IsSeq
<1>2. L \in SUBSET (1..Len(plan))
  BY <1>1 DEF LocalAt
<1>3. IsFiniteSet(L) /\ Cardinality(L) \in Nat
  <2>1. IsFiniteSet(1..Len(plan))
    BY <1>1, FS_Interval
  <2> HIDE DEF L
  <2> QED
    BY <1>2, <2>1, FS_Subset, FS_CardinalityType
<1>4. ASSUME NEW i \in L PROVE PlaceIn(plan, i) \in 1..Cardinality(L)
  <2> DEFINE U == {j \in L : j <= i}
  <2>1. PlaceIn(plan, i) = Cardinality(U)
    BY DEF PlaceIn, Place
  <2>2. i \in U
    BY <1>2
  <2>3. U \in SUBSET L
    OBVIOUS
  <2> HIDE DEF U, L
  <2>4. IsFiniteSet(U) /\ Cardinality(U) \in Nat /\ Cardinality(U) <= Cardinality(L)
    BY <1>3, <2>3, FS_Subset, FS_CardinalityType
  <2>5. Cardinality(U) # 0
    BY <2>2, <2>4, FS_EmptySet
  <2> QED
    BY <1>3, <2>1, <2>4, <2>5
<1> QED
  BY <1>1, <1>2, <1>3, <1>4

\* Places in a plan of two parts.
LEMMA PlaceJoined ==
  ASSUME NEW a, NEW b, IsSeq(a), IsSeq(b)
  PROVE  LET c == a \o b
         IN  /\ Cardinality(LocalAt(c)) = Cardinality(LocalAt(a)) + Cardinality(LocalAt(b))
             /\ LocalAt(c) = LocalAt(a) \cup {Len(a) + k : k \in LocalAt(b)}
             /\ \A i \in LocalAt(a) : PlaceIn(c, i) = PlaceIn(a, i)
             /\ \A k \in LocalAt(b) :
                  PlaceIn(c, Len(a) + k) = Cardinality(LocalAt(a)) + PlaceIn(b, k)
<1> DEFINE c == a \o b
           m == Len(a)
           n == Len(b)
           A == LocalAt(a)
           B == LocalAt(b)
           C == LocalAt(c)
<1>1. /\ m \in Nat /\ n \in Nat /\ DOMAIN a = 1..m /\ DOMAIN b = 1..n /\ DOMAIN c = 1..(m + n)
      /\ \A i \in 1..m : c[i] = a[i]
      /\ \A i \in 1..n : c[m + i] = b[i]
  BY Joined
<1>2. A \in SUBSET (1..m) /\ B \in SUBSET (1..n)
  BY <1>1 DEF LocalAt
<1>3. C = A \cup {m + k : k \in B}
  <2> HIDE DEF c, m, n
  <2>1. ASSUME NEW i \in 1..m PROVE i \in C <=> i \in A
    BY <1>1, <2>1 DEF LocalAt
  <2>2. ASSUME NEW k \in 1..n PROVE m + k \in C <=> k \in B
    <3>1. m + k \in 1..(m + n)
      BY <1>1
    <3> QED
      BY <1>1, <3>1 DEF LocalAt
  <2>3. C \subseteq 1..(m + n)
    BY <1>1 DEF LocalAt
  <2>4. \A i \in 1..(m + n) : i \in 1..m \/ (i - m \in 1..n /\ i = m + (i - m))
    BY <1>1
  <2>5. \A k \in 1..n : m + k \in 1..(m + n)
    BY <1>1
  <2> HIDE DEF A, B, C
  <2>6. ASSUME NEW i \in C PROVE i \in A \cup {m + k : k \in B}
    <3>1. CASE i \in 1..m
      BY <2>1, <3>1
    <3>2. CASE i - m \in 1..n /\ i = m + (i - m)
      <4> DEFINE k == i - m
      <4>1. k \in 1..n /\ i = m + k
        BY <3>2
      <4> HIDE DEF k
      <4>2. k \in B
        BY <2>2, <4>1
      <4> QED
        BY <4>1, <4>2
    <3> QED
      BY <2>3, <2>4, <3>1, <3>2
  <2>7. ASSUME NEW i \in A \cup {m + k : k \in B} PROVE i \in C
    BY <1>2, <2>1, <2>2
  <2> QED
    BY <2>6, <2>7
<1> HIDE DEF c, m, n, A, B, C
<1>4. /\ IsFiniteSet(A) /\ IsFiniteSet(B)
      /\ \A x \in A : x \in Int /\ x <= m
      /\ \A k \in B : k \in Int /\ k >= 1
  <2>1. IsFiniteSet(1..m) /\ IsFiniteSet(1..n)
    BY <1>1, FS_Interval
  <2>2. A \subseteq 1..m /\ B \subseteq 1..n
    BY <1>2
  <2>3. IsFiniteSet(A) /\ IsFiniteSet(B)
    BY <2>1, <2>2, FS_Subset
  <2>4. (\A x \in A : x \in Int /\ x <= m) /\ (\A k \in B : k \in Int /\ k >= 1)
    BY <1>1, <2>2
  <2> QED
    BY <2>3, <2>4
<1>5. Cardinality(C) = Cardinality(A) + Cardinality(B)
  <2>1. AreParts(C, A, B, m)
    BY <1>3 DEF AreParts
  <2> QED
    BY <1>1, <1>4, <2>1, PartsCounted
<1>6. ASSUME NEW i \in A PROVE PlaceIn(c, i) = PlaceIn(a, i)
  <2>1. {j \in C : j <= i} = {j \in A : j <= i}
    BY <1>1, <1>2, <1>3
  <2> QED
    BY <2>1 DEF PlaceIn, Place, A, C
<1>7. ASSUME NEW k \in B PROVE PlaceIn(c, m + k) = Cardinality(A) + PlaceIn(b, k)
  <2> DEFINE T == {j \in B : j <= k}
             P == {j \in C : j <= m + k}
  <2>1. IsFiniteSet(T) /\ \A j \in T : j \in Int /\ j >= 1
    <3>1. T \subseteq B
      OBVIOUS
    <3> HIDE DEF T
    <3> QED
      BY <1>4, <3>1, FS_Subset
  <2>2. ASSUME NEW x PROVE x \in P <=> x \in A \/ \E j \in T : x = m + j
    <3>1. k \in Int /\ k >= 1 /\ m \in Int
      BY <1>1, <1>2
    <3>2. x \in C <=> x \in A \/ \E j \in B : x = m + j
      BY <1>3
    <3>3. x \in A => x \in Int /\ x <= m
      BY <1>1, <1>2
    <3>4. \A j \in B : j \in Int /\ (m + j <= m + k <=> j <= k)
      BY <1>2, <3>1
    <3> QED
      BY <3>1, <3>2, <3>3, <3>4
  <2> HIDE DEF T, P
  <2>3. AreParts(P, A, T, m)
    BY <2>2 DEF AreParts
  <2>4. Cardinality(P) = Cardinality(A) + Cardinality(T)
    BY <1>1, <1>4, <2>1, <2>3, PartsCounted
  <2> QED
    BY <2>4 DEF PlaceIn, Place, B, C, T, P
<1> QED
  BY <1>3, <1>5, <1>6, <1>7 DEF c, m, A, B, C

\* What a rank does of an operator and what one rank does of the whole of it.
SameWork(x, y) ==
  /\ x.count = y.count
  /\ WorkOf(deployment, x.op).flops * RanksOf(x.op) = WorkOf(Whole, y.op).flops

\* Two plans of the same local operators, of which the first is a rank's.
Shares(a, b) ==
  /\ IsSeq(a) /\ IsSeq(b)
  /\ Cardinality(LocalAt(a)) = Cardinality(LocalAt(b))
  /\ \A i \in LocalAt(a), j \in LocalAt(b) : PlaceIn(a, i) = PlaceIn(b, j) => SameWork(a[i], b[j])

LEMMA SharesJoined ==
  ASSUME NEW a, NEW b, NEW u, NEW v, Shares(a, b), Shares(u, v)
  PROVE  Shares(a \o u, b \o v)
<1> DEFINE p == a \o u
           q == b \o v
           n == Cardinality(LocalAt(a))
           k == Cardinality(LocalAt(u))
           m == Len(a)
           l == Len(b)
<1>1. IsSeq(a) /\ IsSeq(b) /\ IsSeq(u) /\ IsSeq(v)
  BY DEF Shares
<1>2. Cardinality(LocalAt(b)) = n /\ Cardinality(LocalAt(v)) = k
  BY DEF Shares
<1>3. /\ IsSeq(p) /\ IsSeq(q) /\ m \in Nat /\ l \in Nat
      /\ DOMAIN a = 1..m /\ DOMAIN b = 1..l
      /\ \A i \in 1..m : p[i] = a[i]
      /\ \A i \in 1..l : q[i] = b[i]
  BY <1>1, Joined
<1>4. /\ \A i \in LocalAt(u) : p[m + i] = u[i]
      /\ \A i \in LocalAt(v) : q[l + i] = v[i]
  <2>1. \A i \in LocalAt(u) : i \in 1..Len(u)
    BY <1>1, PlaceInside
  <2>2. \A i \in LocalAt(v) : i \in 1..Len(v)
    BY <1>1, PlaceInside
  <2>3. (\A i \in 1..Len(u) : p[m + i] = u[i]) /\ (\A i \in 1..Len(v) : q[l + i] = v[i])
    BY <1>1, Joined
  <2> QED
    BY <2>1, <2>2, <2>3
<1>5. /\ n \in Nat /\ k \in Nat
      /\ \A i \in LocalAt(a) : i \in 1..m /\ PlaceIn(a, i) \in 1..n
      /\ \A i \in LocalAt(b) : i \in 1..l /\ PlaceIn(b, i) \in 1..n
      /\ \A i \in LocalAt(u) : PlaceIn(u, i) \in 1..k
      /\ \A i \in LocalAt(v) : PlaceIn(v, i) \in 1..k
  <2>1. n \in Nat /\ \A i \in LocalAt(a) : i \in 1..m /\ PlaceIn(a, i) \in 1..n
    BY <1>1, PlaceInside
  <2>2. \A i \in LocalAt(b) : i \in 1..l /\ PlaceIn(b, i) \in 1..n
    BY <1>1, <1>2, PlaceInside
  <2>3. k \in Nat /\ \A i \in LocalAt(u) : PlaceIn(u, i) \in 1..k
    BY <1>1, PlaceInside
  <2>4. \A i \in LocalAt(v) : PlaceIn(v, i) \in 1..k
    BY <1>1, <1>2, PlaceInside
  <2> QED
    BY <2>1, <2>2, <2>3, <2>4
<1>6. /\ Cardinality(LocalAt(p)) = n + k
      /\ LocalAt(p) = LocalAt(a) \cup {m + i : i \in LocalAt(u)}
      /\ \A i \in LocalAt(a) : PlaceIn(p, i) = PlaceIn(a, i)
      /\ \A i \in LocalAt(u) : PlaceIn(p, m + i) = n + PlaceIn(u, i)
  BY <1>1, PlaceJoined
<1>7. /\ Cardinality(LocalAt(q)) = n + k
      /\ LocalAt(q) = LocalAt(b) \cup {l + i : i \in LocalAt(v)}
      /\ \A i \in LocalAt(b) : PlaceIn(q, i) = PlaceIn(b, i)
      /\ \A i \in LocalAt(v) : PlaceIn(q, l + i) = n + PlaceIn(v, i)
  BY <1>1, <1>2, PlaceJoined
<1> HIDE DEF p, q, n, k, m, l
<1>8. ASSUME NEW i \in LocalAt(p), NEW j \in LocalAt(q), PlaceIn(p, i) = PlaceIn(q, j)
      PROVE  SameWork(p[i], q[j])
  <2>1. CASE i \in LocalAt(a) /\ j \in LocalAt(b)
    <3>1. PlaceIn(a, i) = PlaceIn(b, j) /\ p[i] = a[i] /\ q[j] = b[j]
      BY <1>3, <1>5, <1>6, <1>7, <1>8, <2>1
    <3> QED
      BY <2>1, <3>1 DEF Shares
  <2>2. CASE i \in LocalAt(a) /\ j \notin LocalAt(b)
    <3>1. PICK y \in LocalAt(v) : j = l + y
      BY <1>7, <2>2
    <3>2. PlaceIn(q, j) = n + PlaceIn(v, y) /\ PlaceIn(v, y) \in 1..k
      BY <1>5, <1>7, <3>1
    <3>3. PlaceIn(p, i) \in 1..n
      BY <1>5, <1>6, <2>2
    <3> QED
      BY <1>5, <1>8, <3>2, <3>3
  <2>3. CASE i \notin LocalAt(a) /\ j \in LocalAt(b)
    <3>1. PICK x \in LocalAt(u) : i = m + x
      BY <1>6, <2>3
    <3>2. PlaceIn(p, i) = n + PlaceIn(u, x) /\ PlaceIn(u, x) \in 1..k
      BY <1>5, <1>6, <3>1
    <3>3. PlaceIn(q, j) \in 1..n
      BY <1>5, <1>7, <2>3
    <3> QED
      BY <1>5, <1>8, <3>2, <3>3
  <2>4. CASE i \notin LocalAt(a) /\ j \notin LocalAt(b)
    <3>1. PICK x \in LocalAt(u) : i = m + x
      BY <1>6, <2>4
    <3>2. PICK y \in LocalAt(v) : j = l + y
      BY <1>7, <2>4
    <3>3. n + PlaceIn(u, x) = n + PlaceIn(v, y)
      BY <1>6, <1>7, <1>8, <3>1, <3>2
    <3>4. PlaceIn(u, x) \in Int /\ PlaceIn(v, y) \in Int
      BY <1>5
    <3>5. PlaceIn(u, x) = PlaceIn(v, y) /\ p[i] = u[x] /\ q[j] = v[y]
      BY <1>4, <1>5, <3>1, <3>2, <3>3, <3>4
    <3> QED
      BY <3>5 DEF Shares
  <2> QED
    BY <2>1, <2>2, <2>3, <2>4
<1> QED
  BY <1>3, <1>6, <1>7, <1>8 DEF Shares, p, q

\* The same of the operators of a layer, however often it is there.
OpsShare(a, b) ==
  /\ IsSeq(a) /\ IsSeq(b)
  /\ \A count : Shares(Times(a, count), Times(b, count))

LEMMA TimesJoined ==
  ASSUME NEW a, NEW b, IsSeq(a), IsSeq(b), NEW count
  PROVE  Times(a \o b, count) = Times(a, count) \o Times(b, count)
<1> DEFINE c == a \o b
           m == Len(a)
           n == Len(b)
           u == Times(a, count)
           v == Times(b, count)
           w == Times(c, count)
           x == u \o v
<1>1. /\ IsSeq(c) /\ m \in Nat /\ n \in Nat /\ Len(c) = m + n
      /\ \A i \in 1..m : c[i] = a[i]
      /\ \A i \in 1..n : c[m + i] = b[i]
  BY Joined
<1> HIDE DEF c
<1>2. /\ IsSeq(u) /\ Len(u) = m
      /\ \A i \in 1..m : u[i] = [op |-> a[i], count |-> count]
  BY TimesKeeps
<1>3. /\ IsSeq(v) /\ Len(v) = n
      /\ \A i \in 1..n : v[i] = [op |-> b[i], count |-> count]
  BY TimesKeeps
<1>4. /\ DOMAIN w = 1..(m + n) /\ IsSeq(w)
      /\ \A i \in 1..(m + n) : w[i] = [op |-> c[i], count |-> count]
  BY <1>1, TimesKeeps
<1> HIDE DEF u, v, w
<1>5. /\ DOMAIN x = 1..(m + n) /\ IsSeq(x)
      /\ \A i \in 1..m : x[i] = u[i]
      /\ \A i \in 1..n : x[m + i] = v[i]
  BY <1>2, <1>3, Joined
<1> HIDE DEF x, m, n
<1>6. \A i \in 1..(m + n) : w[i] = x[i]
  <2> SUFFICES ASSUME NEW i \in 1..(m + n) PROVE w[i] = x[i]
    OBVIOUS
  <2>1. CASE i \in 1..m
    BY <1>1, <1>2, <1>4, <1>5, <2>1
  <2>2. CASE i \notin 1..m
    <3> DEFINE j == i - m
    <3>1. j \in 1..n /\ i = m + j
      BY <1>1, <2>2
    <3> HIDE DEF j
    <3>2. c[i] = b[j] /\ x[i] = v[j]
      BY <1>1, <1>5, <3>1
    <3> QED
      BY <1>3, <1>4, <3>1, <3>2
  <2> QED
    BY <2>1, <2>2
<1>7. w = [i \in 1..(m + n) |-> w[i]] /\ x = [i \in 1..(m + n) |-> x[i]]
  BY <1>4, <1>5 DEF IsSeq
<1> QED
  BY <1>6, <1>7 DEF c, u, v, w, x

LEMMA OpsJoined ==
  ASSUME NEW a, NEW b, NEW u, NEW v, OpsShare(a, b), OpsShare(u, v)
  PROVE  OpsShare(a \o u, b \o v)
<1>1. IsSeq(a) /\ IsSeq(b) /\ IsSeq(u) /\ IsSeq(v)
  BY DEF OpsShare
<1>2. IsSeq(a \o u) /\ IsSeq(b \o v)
  BY <1>1, Joined
<1>3. ASSUME NEW count PROVE Shares(Times(a \o u, count), Times(b \o v, count))
  <2>1. /\ Times(a \o u, count) = Times(a, count) \o Times(u, count)
        /\ Times(b \o v, count) = Times(b, count) \o Times(v, count)
    BY <1>1, TimesJoined
  <2>2. Shares(Times(a, count), Times(b, count)) /\ Shares(Times(u, count), Times(v, count))
    BY DEF OpsShare
  <2> QED
    BY <2>1, <2>2, SharesJoined
<1> QED
  BY <1>2, <1>3 DEF OpsShare

\* An operator of which a rank does its part of the work.
IsLocal(op) == op.kind \notin {"collective", "moe_dispatch"}

Divided(x, y) ==
  /\ IsLocal(x) /\ IsLocal(y)
  /\ WorkOf(deployment, x).flops * RanksOf(x) = WorkOf(Whole, y).flops

LEMMA TimesOne ==
  ASSUME NEW x, NEW count
  PROVE  /\ IsSeq(Times(<<x>>, count)) /\ Len(Times(<<x>>, count)) = 1
         /\ Times(<<x>>, count)[1] = [op |-> x, count |-> count]
         /\ LocalAt(Times(<<x>>, count)) = IF IsLocal(x) THEN {1} ELSE {}
<1> DEFINE u == Times(<<x>>, count)
           n == [op |-> x, count |-> count]
<1>1. IsSeq(<<x>>) /\ Len(<<x>>) = 1 /\ <<x>>[1] = x /\ 1 \in 1..1
  BY SeqOf1
<1>2. IsSeq(u) /\ Len(u) = 1 /\ DOMAIN u = 1..1 /\ u[1] = n
  BY <1>1, TimesKeeps
<1> HIDE DEF u
<1>3. n.op = x
  OBVIOUS
<1>4. LocalAt(u) = {i \in 1..1 : u[i].op.kind \notin {"collective", "moe_dispatch"}}
  BY <1>2 DEF LocalAt
<1>5. \A i \in 1..1 : i = 1
  OBVIOUS
<1>6. u[1].op.kind \notin {"collective", "moe_dispatch"} <=> IsLocal(x)
  BY <1>2, <1>3 DEF IsLocal
<1>7. LocalAt(u) = IF IsLocal(x) THEN {1} ELSE {}
  BY <1>4, <1>5, <1>6
<1> QED
  BY <1>2, <1>7 DEF u

LEMMA TimesNone ==
  ASSUME NEW count
  PROVE  IsSeq(Times(<< >>, count)) /\ LocalAt(Times(<< >>, count)) = {}
<1>1. IsSeq(<< >>) /\ Len(<< >>) = 0
  BY DEF IsSeq
<1>2. IsSeq(Times(<< >>, count)) /\ DOMAIN Times(<< >>, count) = 1..0
  BY <1>1, TimesKeeps
<1> QED
  BY <1>2 DEF LocalAt

LEMMA OneShared ==
  ASSUME NEW x, NEW y, Divided(x, y)
  PROVE  OpsShare(<<x>>, <<y>>)
<1>1. ASSUME NEW count PROVE Shares(Times(<<x>>, count), Times(<<y>>, count))
  <2> DEFINE a == Times(<<x>>, count)
             b == Times(<<y>>, count)
  <2>1. /\ IsSeq(a) /\ IsSeq(b) /\ LocalAt(a) = {1} /\ LocalAt(b) = {1}
        /\ a[1] = [op |-> x, count |-> count] /\ b[1] = [op |-> y, count |-> count]
    BY TimesOne DEF Divided
  <2> HIDE DEF a, b
  <2>2. SameWork(a[1], b[1])
    <3>1. a[1].op = x /\ a[1].count = count /\ b[1].op = y /\ b[1].count = count
      BY <2>1
    <3> QED
      BY <3>1 DEF SameWork, Divided
  <2>3. \A i \in LocalAt(a), j \in LocalAt(b) : SameWork(a[i], b[j])
    BY <2>1, <2>2
  <2> QED
    BY <2>1, <2>3 DEF Shares, a, b
<1> QED
  BY <1>1, SeqOf1 DEF OpsShare

\* Plans without local operators.
LEMMA NothingShared ==
  ASSUME NEW a, NEW b, IsSeq(a), IsSeq(b), LocalAt(a) = {}, LocalAt(b) = {}
  PROVE  Shares(a, b)
BY DEF Shares

LEMMA CollectiveShared ==
  ASSUME NEW x, ~ IsLocal(x)
  PROVE  /\ OpsShare(<<x>>, << >>)
         /\ \A y : ~ IsLocal(y) => OpsShare(<<x>>, <<y>>)
<1>1. IsSeq(<< >>)
  BY DEF IsSeq
<1>2. ASSUME NEW count PROVE Shares(Times(<<x>>, count), Times(<< >>, count))
  BY TimesOne, TimesNone, NothingShared
<1>3. ASSUME NEW y, ~ IsLocal(y), NEW count
      PROVE  Shares(Times(<<x>>, count), Times(<<y>>, count))
  BY <1>3, TimesOne, NothingShared
<1> QED
  BY <1>1, <1>2, <1>3, SeqOf1 DEF OpsShare

LEMMA NoneShared == OpsShare(<< >>, << >>)
<1>1. IsSeq(<< >>)
  BY DEF IsSeq
<1>2. ASSUME NEW count PROVE Shares(Times(<< >>, count), Times(<< >>, count))
  BY TimesNone, NothingShared
<1> QED
  BY <1>1, <1>2 DEF OpsShare

\* On one rank there is nothing to reduce.
LEMMA ReduceShared ==
  ASSUME NEW name, NEW bytes, NEW world, NEW source
  PROVE  OpsShare(AllReduce(name, bytes, world, source), AllReduce(name, bytes, 1, source))
<1>1. AllReduce(name, bytes, 1, source) = << >>
  BY DEF AllReduce
<1>2. CASE world <= 1
  BY <1>1, <1>2, NoneShared DEF AllReduce
<1>3. CASE ~ (world <= 1)
  <2> DEFINE op == [name |-> name, kind |-> "collective", source |-> source,
                    shape |-> [message_bytes |-> bytes, world_size |-> world]]
  <2>1. AllReduce(name, bytes, world, source) = <<op>> /\ ~ IsLocal(op)
    BY <1>3 DEF AllReduce, IsLocal
  <2> HIDE DEF op
  <2> QED
    BY <1>1, <2>1, CollectiveShared
<1> QED
  BY <1>2, <1>3

\* The whole model differs in its sharding only.
LEMMA WholeIs ==
  ASSUME deployment \in Deployments
  PROVE  LET d == deployment
             w == Whole
         IN  /\ w.tp = 1 /\ w.ep = 1
             /\ w.layers = d.layers /\ w.heads = d.heads /\ w.kvHeads = d.kvHeads
             /\ w.headDim = d.headDim /\ w.ffn = d.ffn /\ w.vocab = d.vocab
             /\ w.hidden = d.hidden /\ w.experts = d.experts /\ w.topk = d.topk
             /\ w.expertDim = d.expertDim /\ w.shared = d.shared
             /\ w.qLora = d.qLora /\ w.kvLora = d.kvLora /\ w.nope = d.nope /\ w.rope = d.rope
             /\ w.vDim = d.vDim /\ w.firstMoe = d.firstMoe /\ w.moeFreq = d.moeFreq
<1>1. Dimensions \cup {"tp", "ep", "firstMoe", "moeFreq"} \subseteq DOMAIN deployment
  BY DeploymentsOK
<1>2. \A dim : dim \in Dimensions \cup {"tp", "ep", "firstMoe", "moeFreq"}
                 => dim \in DOMAIN deployment
  BY <1>1
<1> HIDE DEF Dimensions
<1>3. \A dim \in DOMAIN deployment :
        dim # "tp" /\ dim # "ep" => Whole[dim] = deployment[dim]
  BY DEF Whole
<1>4. "tp" \in DOMAIN deployment /\ "ep" \in DOMAIN deployment
  BY <1>2
<1>5. Whole.tp = 1 /\ Whole.ep = 1
  BY <1>4 DEF Whole
<1>6. \A dim : dim \in Dimensions \cup {"firstMoe", "moeFreq"} /\ dim # "tp" /\ dim # "ep"
                 => Whole[dim] = deployment[dim]
  BY <1>2, <1>3
<1> QED
  BY <1>5, <1>6 DEF Dimensions

LEMMA FlopsOfWork == \A flops, bytes : Work(flops, bytes).flops = flops
BY DEF Work

\* The work of an operator is that of its kind.
LEMMA WorkOfKind ==
  ASSUME NEW d, NEW op
  PROVE  /\ op.kind = "embedding" => WorkOf(d, op).flops = 0
         /\ op.kind = "norm" => WorkOf(d, op).flops = 4 * op.shape.elements
         /\ op.kind = "elementwise" => WorkOf(d, op) = ElementWiseWork(op)
         /\ op.kind = "gemm" => WorkOf(d, op) = GEMMWork(op.shape)
         /\ op.kind = "attention" => WorkOf(d, op) = AttentionWork(d, op.shape)
         /\ op.kind = "mla" => WorkOf(d, op) = IF op.shape.subtype = PREFILL
                                                 THEN MLAPrefillWork(d, op.shape)
                                                 ELSE MLADecodeWork(d, op.shape)
         /\ op.kind = "moe" => WorkOf(d, op) = RoutedExpertsWork(d, op)
<1>1. /\ op.kind = "elementwise" => WorkOf(d, op) = ElementWiseWork(op)
      /\ op.kind = "gemm" => WorkOf(d, op) = GEMMWork(op.shape)
      /\ op.kind = "attention" => WorkOf(d, op) = AttentionWork(d, op.shape)
      /\ op.kind = "mla" => WorkOf(d, op) = IF op.shape.subtype = PREFILL
                                              THEN MLAPrefillWork(d, op.shape)
                                              ELSE MLADecodeWork(d, op.shape)
      /\ op.kind = "moe" => WorkOf(d, op) = RoutedExpertsWork(d, op)
  BY DEF WorkOf
<1>2. op.kind = "embedding" =>
        WorkOf(d, op) = Work(0, (op.shape.vocab + op.shape.tokens) * op.shape.hidden)
  BY DEF WorkOf
<1>3. op.kind = "norm" => WorkOf(d, op) = Work(4 * op.shape.elements, 2 * op.shape.elements)
  BY DEF WorkOf
<1> QED
  BY <1>1, <1>2, <1>3, FlopsOfWork

LEMMA ElementWiseFlops ==
  ASSUME NEW op
  PROVE  /\ op.name = "rope" => ElementWiseWork(op).flops = 3 * op.shape.elements
         /\ op.name \in {"mlp_act", "shared_expert_act", "moe_topk"}
              => ElementWiseWork(op).flops = 5 * op.shape.elements
         /\ op.name \in {"attn_add", "mlp_add"} => ElementWiseWork(op).flops = op.shape.elements
<1> DEFINE e == op.shape.elements
<1>1. /\ op.name = "rope" => ElementWiseWork(op) = Work(3 * e, 2 * e)
      /\ op.name \in {"mlp_act", "shared_expert_act"} => ElementWiseWork(op) = Work(5 * e, 3 * e)
      /\ op.name = "moe_topk" => ElementWiseWork(op) = Work(5 * e, 2 * e)
      /\ op.name \in {"attn_add", "mlp_add"} => ElementWiseWork(op) = Work(e, 2 * e)
  BY DEF ElementWiseWork
<1> QED
  BY <1>1, FlopsOfWork

LEMMA GemmFlops ==
  ASSUME NEW g
  PROVE  GEMMWork(g).flops = 2 * g.m * g.n * g.k
BY FlopsOfWork DEF GEMMWork

\* What every rank does in full.
LEMMA ReplicatedDivided ==
  ASSUME NEW m \in Nat, NEW n \in Nat, NEW k \in Nat
  PROVE  /\ Divided(Embedding(m, n, k), Embedding(m, n, k))
         /\ \A name \in {"attn_norm", "mlp_norm"} : Divided(Norm(name, m), Norm(name, m))
         /\ \A name \in {"attn_add", "mlp_add", "moe_topk"} :
              Divided(ElementWise(name, m), ElementWise(name, m))
         /\ \A name \in {"q_a_proj", "kv_a_proj_with_mqa"} :
              Divided(GEMM(name, m, n, k), GEMM(name, m, n, k))
         /\ Divided(Router(m, n, k), Router(m, n, k))
<1>1. Divided(Embedding(m, n, k), Embedding(m, n, k))
  <2> DEFINE op == Embedding(m, n, k)
  <2>1. op.kind = "embedding" /\ op.name = "embedding"
    BY DEF Embedding
  <2> HIDE DEF op
  <2>2. \A d : WorkOf(d, op).flops = 0
    BY <2>1, WorkOfKind
  <2> QED
    BY <2>1, <2>2 DEF Divided, IsLocal, RanksOf, Replicated, op
<1>2. ASSUME NEW name \in {"attn_norm", "mlp_norm"} PROVE Divided(Norm(name, m), Norm(name, m))
  <2> DEFINE op == Norm(name, m)
  <2>1. op.kind = "norm" /\ op.name = name /\ op.shape.elements = m
    BY DEF Norm
  <2> HIDE DEF op
  <2>2. \A d : WorkOf(d, op).flops = 4 * m
    BY <2>1, WorkOfKind
  <2>3. RanksOf(op) = 1
    BY <1>2, <2>1 DEF RanksOf, Replicated
  <2> QED
    BY <2>1, <2>2, <2>3 DEF Divided, IsLocal, op
<1>3. ASSUME NEW name \in {"attn_add", "mlp_add", "moe_topk"}
      PROVE  Divided(ElementWise(name, m), ElementWise(name, m))
  <2> DEFINE op == ElementWise(name, m)
  <2>1. op.kind = "elementwise" /\ op.name = name /\ op.shape.elements = m
    BY DEF ElementWise
  <2> HIDE DEF op
  <2>2. \A d : WorkOf(d, op).flops = IF name = "moe_topk" THEN 5 * m ELSE m
    BY <1>3, <2>1, WorkOfKind, ElementWiseFlops
  <2>3. RanksOf(op) = 1
    BY <1>3, <2>1 DEF RanksOf, Replicated
  <2> QED
    BY <2>1, <2>2, <2>3 DEF Divided, IsLocal, op
<1>4. ASSUME NEW name \in {"q_a_proj", "kv_a_proj_with_mqa"}
      PROVE  Divided(GEMM(name, m, n, k), GEMM(name, m, n, k))
  <2> DEFINE op == GEMM(name, m, n, k)
             f  == 2 * m * n * k
  <2>1. op.kind = "gemm" /\ op.name = name /\ op.shape = [m |-> m, n |-> n, k |-> k]
    BY DEF GEMM
  <2> HIDE DEF op
  <2>2. \A d : WorkOf(d, op).flops = f
    BY <2>1, WorkOfKind, GemmFlops
  <2>3. RanksOf(op) = 1
    BY <1>4, <2>1 DEF RanksOf, Replicated
  <2>4. f \in Nat
    OBVIOUS
  <2> HIDE DEF f
  <2> QED
    BY <2>1, <2>2, <2>3, <2>4 DEF Divided, IsLocal, op
<1>5. Divided(Router(m, n, k), Router(m, n, k))
  <2> DEFINE op == Router(m, n, k)
             f  == 2 * m * n * k
  <2>1. op.kind = "gemm" /\ op.name = "moe_gate" /\ op.shape = [m |-> m, n |-> n, k |-> k]
    BY DEF Router, GEMM
  <2> HIDE DEF op
  <2>2. \A d : WorkOf(d, op).flops = f
    BY <2>1, WorkOfKind, GemmFlops
  <2>3. RanksOf(op) = 1
    BY <2>1 DEF RanksOf, Replicated
  <2>4. f \in Nat
    OBVIOUS
  <2> HIDE DEF f
  <2> QED
    BY <2>1, <2>2, <2>3, <2>4 DEF Divided, IsLocal, op
<1> QED
  BY <1>1, <1>2, <1>3, <1>4, <1>5

\* What is split over the tensor-parallel ranks.
SplitGemms == {"qkv_proj", "o_proj", "gate_up_proj", "down_proj", "shared_expert_up_gate",
               "shared_expert_down", "q_b_proj", "q_proj", "kv_b_proj", "lm_head"}

LEMMA GemmDivided ==
  ASSUME deployment \in Deployments, NEW name \in SplitGemms, NEW m \in Nat,
         NEW n \in Nat, NEW k \in Nat, NEW N \in Nat, NEW K \in Nat,
         (n * k) * deployment.tp = N * K
  PROVE  Divided(GEMM(name, m, n, k), GEMM(name, m, N, K))
<1> DEFINE x == GEMM(name, m, n, k)
           y == GEMM(name, m, N, K)
           t == deployment.tp
<1>1. /\ x.kind = "gemm" /\ x.name = name /\ x.shape = [m |-> m, n |-> n, k |-> k]
      /\ y.kind = "gemm" /\ y.shape = [m |-> m, n |-> N, k |-> K]
  BY DEF GEMM
<1> HIDE DEF x, y
<1>2. WorkOf(deployment, x).flops = 2 * m * n * k /\ WorkOf(Whole, y).flops = 2 * m * N * K
  BY <1>1, WorkOfKind, GemmFlops
<1>3. RanksOf(x) = t /\ t \in Nat
  BY <1>1, DeploymentTyped DEF SplitGemms, RanksOf, Replicated
<1> HIDE DEF t
<1>4. (n * k) * t = N * K
  BY DEF t
<1>5. (2 * m * n * k) * t = 2 * m * N * K
  <2>1. (2 * m * n * k) * t = (2 * m) * ((n * k) * t)
    BY <1>3
  <2>2. 2 * m * N * K = (2 * m) * (N * K)
    OBVIOUS
  <2> QED
    BY <1>4, <2>1, <2>2
<1> QED
  BY <1>1, <1>2, <1>3, <1>5 DEF Divided, IsLocal, x, y

LEMMA ElementsDivided ==
  ASSUME deployment \in Deployments, NEW name \in {"rope", "mlp_act", "shared_expert_act"},
         NEW e \in Nat, NEW E \in Nat, e * deployment.tp = E
  PROVE  Divided(ElementWise(name, e), ElementWise(name, E))
<1> DEFINE x == ElementWise(name, e)
           y == ElementWise(name, E)
           t == deployment.tp
           c == IF name = "rope" THEN 3 ELSE 5
<1>1. /\ x.kind = "elementwise" /\ x.name = name /\ x.shape.elements = e
      /\ y.kind = "elementwise" /\ y.name = name /\ y.shape.elements = E
  BY DEF ElementWise
<1> HIDE DEF x, y
<1>2. WorkOf(deployment, x).flops = c * e /\ WorkOf(Whole, y).flops = c * E
  BY <1>1, WorkOfKind, ElementWiseFlops
<1>3. RanksOf(x) = t /\ t \in Nat
  BY <1>1, DeploymentTyped DEF RanksOf, Replicated
<1>4. c \in Nat /\ (c * e) * t = c * (e * t)
  BY <1>3
<1> HIDE DEF t, c
<1>5. e * t = E
  BY DEF t
<1> QED
  BY <1>1, <1>2, <1>3, <1>4, <1>5 DEF Divided, IsLocal, x, y

LEMMA Regrouped ==
  ASSUME NEW a \in Nat, NEW b \in Nat, NEW h \in Nat, NEW n \in Nat, NEW t \in Nat
  PROVE  /\ (a * b * h * n) * t = a * b * (h * t) * n
         /\ (a * b * (h * n)) * t = a * b * ((h * t) * n)
         /\ a * b * h * n \in Nat /\ a * b * (h * n) \in Nat
<1> DEFINE c == a * b
<1>1. c \in Nat
  OBVIOUS
<1> HIDE DEF c
<1>2. (c * h * n) * t = c * (h * t) * n /\ (c * (h * n)) * t = c * ((h * t) * n)
      /\ c * h * n \in Nat /\ c * (h * n) \in Nat
  BY <1>1
<1> QED
  BY <1>2 DEF c

\* Flops of the two parts of flash attention.
PrefillFlops(a, part) ==
  CausalPairs(part.q_len) * (4 * a.head_dim + 5) * a.num_q_heads * part.num_seqs
DecodeFlops(a, part)  == part.kv_len * (4 * a.head_dim + 5) * a.num_q_heads * part.num_seqs

LEMMA AttentionFlops ==
  ASSUME NEW d, NEW a
  PROVE  /\ a.subtype = PREFILL => AttentionWork(d, a).flops = PrefillFlops(a, a.parts[1])
         /\ a.subtype = DECODE => AttentionWork(d, a).flops = DecodeFlops(a, a.parts[1])
         /\ a.subtype = MIXED => AttentionWork(d, a).flops
                                   = PrefillFlops(a, a.parts[1]) + DecodeFlops(a, a.parts[2])
<1>1. \A part : /\ FlashPrefillWork(d, a, part).flops = PrefillFlops(a, part)
                /\ FlashDecodeWork(a, part).flops = DecodeFlops(a, part)
  BY FlopsOfWork DEF FlashPrefillWork, FlashDecodeWork, PrefillFlops, DecodeFlops
<1>2. \A v, w : Plus(v, w).flops = v.flops + w.flops
  BY FlopsOfWork DEF Plus
<1>3. /\ a.subtype = PREFILL => AttentionWork(d, a) = FlashPrefillWork(d, a, a.parts[1])
      /\ a.subtype = DECODE => AttentionWork(d, a) = FlashDecodeWork(a, a.parts[1])
      /\ a.subtype = MIXED => AttentionWork(d, a) = Plus(FlashPrefillWork(d, a, a.parts[1]),
                                                         FlashDecodeWork(a, a.parts[2]))
  BY DEF AttentionWork, PREFILL, DECODE, MIXED
<1> QED
  BY <1>1, <1>2, <1>3

\* A part of an attention operator, by how many heads it is for.
LEMMA PartsDivided ==
  ASSUME NEW x, NEW y, NEW t \in Nat, NEW part,
         x.num_q_heads \in Nat, y.num_q_heads = x.num_q_heads * t,
         x.head_dim \in Nat, y.head_dim = x.head_dim, part.num_seqs \in Nat
  PROVE  /\ part.q_len \in Nat =>
              /\ PrefillFlops(x, part) \in Nat
              /\ PrefillFlops(x, part) * t = PrefillFlops(y, part)
         /\ part.kv_len \in Nat =>
              /\ DecodeFlops(x, part) \in Nat
              /\ DecodeFlops(x, part) * t = DecodeFlops(y, part)
<1> DEFINE b == 4 * x.head_dim + 5
           h == x.num_q_heads
           n == part.num_seqs
<1>1. b \in Nat /\ h \in Nat /\ n \in Nat
  OBVIOUS
<1>2. ASSUME NEW a \in Nat
      PROVE  a * b * h * n \in Nat /\ (a * b * h * n) * t = a * b * (h * t) * n
  BY <1>1, Regrouped
<1>3. part.q_len \in Nat => CausalPairs(part.q_len) \in Nat
  <2> SUFFICES ASSUME part.q_len \in Nat PROVE CausalPairs(part.q_len) \in Nat
    OBVIOUS
  <2> DEFINE z == part.q_len * (part.q_len + 1)
  <2>1. z \in Nat
    OBVIOUS
  <2> HIDE DEF z
  <2>2. z \div 2 \in Nat
    BY <2>1
  <2> QED
    BY <2>2 DEF CausalPairs, z
<1>4. 4 * y.head_dim + 5 = b /\ y.num_q_heads = h * t
  OBVIOUS
<1> HIDE DEF b, h, n
<1>5. /\ PrefillFlops(x, part) = CausalPairs(part.q_len) * b * h * n
      /\ PrefillFlops(y, part) = CausalPairs(part.q_len) * b * (h * t) * n
      /\ DecodeFlops(x, part) = part.kv_len * b * h * n
      /\ DecodeFlops(y, part) = part.kv_len * b * (h * t) * n
  BY <1>4 DEF PrefillFlops, DecodeFlops, b, h, n
<1> QED
  BY <1>2, <1>3, <1>5

\* The sizes of a step.
ShapeTyped(s) ==
  /\ s.totalTokens \in Nat /\ s.prefillTokens \in Nat /\ s.prefillRequests \in Nat
  /\ s.decodeRequests \in Nat /\ s.maxPrefill \in Nat /\ s.avgContext \in Nat

LEMMA FlashDivided ==
  ASSUME deployment \in Deployments, NEW s, ShapeTyped(s), NEW h \in Nat, NEW kh, NEW kH,
         NEW hd \in Nat, NEW H, H = h * deployment.tp
  PROVE  OpsShare(FlashAttention(h, kh, hd, s), FlashAttention(H, kH, hd, s))
<1> DEFINE t       == deployment.tp
           prefill == [num_seqs |-> Larger(s.prefillRequests, 1), q_len |-> s.maxPrefill,
                       kv_len |-> s.maxPrefill]
           mixed   == [prefill EXCEPT !.kv_len = s.maxContext]
           decode  == [num_seqs |-> s.decodeRequests, q_len |-> 1, kv_len |-> s.avgContext]
           Op(subtype, parts, heads, kvHeads) ==
             [name |-> "attention", kind |-> "attention", source |-> "vllm_flash_attn",
              shape |-> [subtype |-> subtype, parts |-> parts, num_q_heads |-> heads,
                         num_kv_heads |-> kvHeads, head_dim |-> hd]]
<1>1. t \in Nat
  BY DeploymentTyped
<1>2. /\ prefill.num_seqs \in Nat /\ prefill.q_len \in Nat
      /\ mixed.num_seqs \in Nat /\ mixed.q_len \in Nat
      /\ decode.num_seqs \in Nat /\ decode.kv_len \in Nat
  BY DEF ShapeTyped, Larger
<1> HIDE DEF prefill, mixed, decode
<1>3. ASSUME NEW subtype, NEW parts,
             \/ subtype = PREFILL /\ parts[1] = prefill
             \/ subtype = DECODE /\ parts[1] = decode
             \/ subtype = MIXED /\ parts[1] = mixed /\ parts[2] = decode
      PROVE  OpsShare(<<Op(subtype, parts, h, kh)>>, <<Op(subtype, parts, H, kH)>>)
  <2> DEFINE x == Op(subtype, parts, h, kh)
             y == Op(subtype, parts, H, kH)
             a == x.shape
             b == y.shape
  <2>1. /\ x.kind = "attention" /\ y.kind = "attention" /\ x.name = "attention"
        /\ a.subtype = subtype /\ b.subtype = subtype /\ a.parts = parts /\ b.parts = parts
        /\ a.num_q_heads = h /\ b.num_q_heads = H /\ a.head_dim = hd /\ b.head_dim = hd
    OBVIOUS
  <2> HIDE DEF x, y, Op
  <2>2. WorkOf(deployment, x) = AttentionWork(deployment, a)
        /\ WorkOf(Whole, y) = AttentionWork(Whole, b)
    BY <2>1, WorkOfKind
  <2>3. RanksOf(x) = t
    BY <2>1 DEF RanksOf, Replicated
  <2> HIDE DEF t, a, b
  <2>4. \A part : part.num_seqs \in Nat =>
          /\ part.q_len \in Nat => /\ PrefillFlops(a, part) \in Nat
                                   /\ PrefillFlops(a, part) * t = PrefillFlops(b, part)
          /\ part.kv_len \in Nat => /\ DecodeFlops(a, part) \in Nat
                                    /\ DecodeFlops(a, part) * t = DecodeFlops(b, part)
    <3>1. a.num_q_heads \in Nat /\ b.num_q_heads = a.num_q_heads * t
          /\ a.head_dim \in Nat /\ b.head_dim = a.head_dim
      BY <2>1 DEF t
    <3> SUFFICES ASSUME NEW part, part.num_seqs \in Nat
                 PROVE  /\ part.q_len \in Nat => /\ PrefillFlops(a, part) \in Nat
                                                 /\ PrefillFlops(a, part) * t = PrefillFlops(b, part)
                        /\ part.kv_len \in Nat => /\ DecodeFlops(a, part) \in Nat
                                                  /\ DecodeFlops(a, part) * t = DecodeFlops(b, part)
      OBVIOUS
    <3> QED
      BY <1>1, <3>1, PartsDivided
  <2>5. /\ PrefillFlops(a, prefill) \in Nat
        /\ PrefillFlops(a, prefill) * t = PrefillFlops(b, prefill)
        /\ PrefillFlops(a, mixed) \in Nat
        /\ PrefillFlops(a, mixed) * t = PrefillFlops(b, mixed)
        /\ DecodeFlops(a, decode) \in Nat
        /\ DecodeFlops(a, decode) * t = DecodeFlops(b, decode)
    BY <1>2, <2>4
  <2>6. AttentionWork(deployment, a).flops * t = AttentionWork(Whole, b).flops
    <3>1. CASE subtype = PREFILL /\ parts[1] = prefill
      BY <2>1, <2>5, <3>1, AttentionFlops
    <3>2. CASE subtype = DECODE /\ parts[1] = decode
      BY <2>1, <2>5, <3>2, AttentionFlops
    <3>3. CASE subtype = MIXED /\ parts[1] = mixed /\ parts[2] = decode
      <4> DEFINE p == PrefillFlops(a, mixed)
                 q == DecodeFlops(a, decode)
      <4>1. AttentionWork(deployment, a).flops = p + q
        BY <2>1, <3>3, AttentionFlops
      <4>2. AttentionWork(Whole, b).flops = PrefillFlops(b, mixed) + DecodeFlops(b, decode)
        BY <2>1, <3>3, AttentionFlops
      <4>3. AttentionWork(Whole, b).flops = p * t + q * t /\ p \in Nat /\ q \in Nat
        BY <2>5, <4>2
      <4> HIDE DEF p, q
      <4>4. (p + q) * t = p * t + q * t
        BY <1>1, <4>3 DEF t
      <4> QED
        BY <4>1, <4>3, <4>4
    <3> QED
      BY <1>3, <3>1, <3>2, <3>3
  <2>7. Divided(x, y)
    BY <2>1, <2>2, <2>3, <2>6 DEF Divided, IsLocal
  <2> QED
    BY <2>7, OneShared DEF x, y
<1>4. \A z, w : /\ <<z>>[1] = z /\ <<z, w>>[1] = z /\ <<z, w>>[2] = w
  OBVIOUS
<1>5. CASE s.prefillTokens > 0 /\ s.decodeRequests > 0
  <2>1. ~ (s.prefillTokens = 0) /\ ~ (s.decodeRequests = 0)
    BY <1>5
  <2>2. /\ FlashAttention(h, kh, hd, s) = <<Op(MIXED, <<mixed, decode>>, h, kh)>>
        /\ FlashAttention(H, kH, hd, s) = <<Op(MIXED, <<mixed, decode>>, H, kH)>>
    BY <1>5, <2>1, Zenon DEF FlashAttention, mixed, prefill, decode
  <2> HIDE DEF Op
  <2> QED
    BY <1>3, <1>4, <2>2
<1>6. CASE s.prefillTokens = 0 /\ s.decodeRequests > 0
  <2>1. /\ FlashAttention(h, kh, hd, s) = <<Op(DECODE, <<decode>>, h, kh)>>
        /\ FlashAttention(H, kH, hd, s) = <<Op(DECODE, <<decode>>, H, kH)>>
    BY <1>6 DEF FlashAttention, decode
  <2> HIDE DEF Op
  <2> QED
    BY <1>3, <1>4, <2>1
<1>7. CASE s.prefillTokens > 0 /\ s.decodeRequests = 0
  <2>1. /\ FlashAttention(h, kh, hd, s) = <<Op(PREFILL, <<prefill>>, h, kh)>>
        /\ FlashAttention(H, kH, hd, s) = <<Op(PREFILL, <<prefill>>, H, kH)>>
    BY <1>7 DEF FlashAttention, prefill
  <2> HIDE DEF Op
  <2> QED
    BY <1>3, <1>4, <2>1
<1>8. CASE s.prefillTokens = 0 /\ s.decodeRequests = 0
  <2>1. FlashAttention(h, kh, hd, s) = << >> /\ FlashAttention(H, kH, hd, s) = << >>
    BY <1>8 DEF FlashAttention
  <2> QED
    BY <2>1, NoneShared
<1> QED
  BY <1>5, <1>6, <1>7, <1>8 DEF ShapeTyped

\* Latent attention has the heads of a rank.
LEMMA MlaDivided ==
  ASSUME deployment \in Deployments, NEW s, ShapeTyped(s), NEW h \in Nat,
         NEW H, H = h * deployment.tp
  PROVE  Divided(MLAAttention(deployment, h, s), MLAAttention(Whole, H, s))
<1> DEFINE d == deployment
           t == deployment.tp
           x == MLAAttention(deployment, h, s)
           y == MLAAttention(Whole, H, s)
           a == x.shape
           b == y.shape
           p == 2 * QkHeadDim(d) + 2 * d.vDim + 5
           q == 2 * KvLatentDim(d) + 2 * d.kvLora + 5
           n == Larger(s.prefillRequests, 1)
           r == s.decodeRequests
           c == CausalPairs(s.maxPrefill)
           k == s.avgContext
<1>1. /\ d.nope \in Nat /\ d.rope \in Nat /\ d.vDim \in Nat /\ d.kvLora \in Nat /\ t \in Nat
  BY DeploymentTyped
<1>2. /\ Whole.nope = d.nope /\ Whole.rope = d.rope /\ Whole.vDim = d.vDim
      /\ Whole.kvLora = d.kvLora
  BY WholeIs
<1>3. QkHeadDim(Whole) = QkHeadDim(d) /\ KvLatentDim(Whole) = KvLatentDim(d)
      /\ QkHeadDim(d) \in Nat /\ KvLatentDim(d) \in Nat
  BY <1>1, <1>2 DEF QkHeadDim, KvLatentDim
<1>4. p \in Nat /\ q \in Nat
  BY <1>1, <1>3
<1>5. n \in Nat /\ r \in Nat /\ k \in Nat /\ s.maxPrefill \in Nat
  BY DEF ShapeTyped, Larger
<1>6. c \in Nat
  <2> DEFINE z == s.maxPrefill * (s.maxPrefill + 1)
  <2>1. z \in Nat
    BY <1>5
  <2> HIDE DEF z
  <2>2. z \div 2 \in Nat
    BY <2>1
  <2> QED
    BY <2>2 DEF CausalPairs, z
<1>7. PREFILL # DECODE
  BY DEF PREFILL, DECODE
<1>8. /\ x.kind = "mla" /\ y.kind = "mla" /\ x.name = "mla_attention"
      /\ a.num_q_heads = h /\ b.num_q_heads = H
  BY DEF MLAAttention
<1>9. RanksOf(x) = t
  <2> HIDE DEF x
  <2> QED
    BY <1>8 DEF RanksOf, Replicated
<1>10. IF s.phase = DECODE
         THEN /\ a.subtype = DECODE /\ a.num_seqs = r /\ a.kv_len = k
              /\ b.subtype = DECODE /\ b.num_seqs = r /\ b.kv_len = k
         ELSE /\ a.subtype = PREFILL /\ a.num_seqs = n /\ a.q_len = s.maxPrefill
              /\ b.subtype = PREFILL /\ b.num_seqs = n /\ b.q_len = s.maxPrefill
  BY DEF MLAAttention
<1>11. /\ WorkOf(d, x) = IF a.subtype = PREFILL THEN MLAPrefillWork(d, a) ELSE MLADecodeWork(d, a)
       /\ WorkOf(Whole, y) = IF b.subtype = PREFILL THEN MLAPrefillWork(Whole, b)
                                                    ELSE MLADecodeWork(Whole, b)
  <2> HIDE DEF x, y
  <2> QED
    BY <1>8, WorkOfKind
<1> HIDE DEF x, y
<1>12. /\ \A e, o : MLAPrefillWork(e, o).flops
                      = CausalPairs(o.q_len) * (2 * QkHeadDim(e) + 2 * e.vDim + 5)
                          * (o.num_q_heads * o.num_seqs)
       /\ \A e, o : MLADecodeWork(e, o).flops
                      = o.kv_len * (2 * KvLatentDim(e) + 2 * e.kvLora + 5)
                          * (o.num_q_heads * o.num_seqs)
  BY FlopsOfWork DEF MLAPrefillWork, MLADecodeWork
<1>13. /\ 2 * QkHeadDim(Whole) + 2 * Whole.vDim + 5 = p
       /\ 2 * KvLatentDim(Whole) + 2 * Whole.kvLora + 5 = q
  BY <1>2, <1>3
<1> HIDE DEF p, q, n, r, c, k, a, b, t
<1>14. /\ (c * p * (h * n)) * t = c * p * ((h * t) * n)
       /\ (k * q * (h * r)) * t = k * q * ((h * t) * r)
  BY <1>1, <1>4, <1>5, <1>6, Regrouped DEF t
<1>15. WorkOf(d, x).flops * t = WorkOf(Whole, y).flops
  <2>1. CASE s.phase = DECODE
    <3>1. WorkOf(d, x) = MLADecodeWork(d, a) /\ WorkOf(Whole, y) = MLADecodeWork(Whole, b)
      BY <1>7, <1>10, <1>11, <2>1
    <3>2. MLADecodeWork(d, a).flops = k * q * (h * r)
      BY <1>8, <1>10, <1>12, <2>1 DEF q
    <3>3. MLADecodeWork(Whole, b).flops = k * q * (H * r)
      BY <1>8, <1>10, <1>12, <1>13, <2>1
    <3> QED
      BY <1>14, <3>1, <3>2, <3>3 DEF t
  <2>2. CASE s.phase # DECODE
    <3>1. WorkOf(d, x) = MLAPrefillWork(d, a) /\ WorkOf(Whole, y) = MLAPrefillWork(Whole, b)
      BY <1>7, <1>10, <1>11, <2>2
    <3>2. MLAPrefillWork(d, a).flops = c * p * (h * n)
      BY <1>8, <1>10, <1>12, <2>2 DEF p, c
    <3>3. MLAPrefillWork(Whole, b).flops = c * p * (H * n)
      BY <1>8, <1>10, <1>12, <1>13, <2>2 DEF c
    <3> QED
      BY <1>14, <3>1, <3>2, <3>3 DEF t
  <2> QED
    BY <2>1, <2>2
<1> QED
  BY <1>8, <1>9, <1>15 DEF Divided, IsLocal, x, y

\* Experts are split by their inner dimension or by number.
LEMMA ExpertsDivided ==
  ASSUME deployment \in Deployments, Divides, NEW tokens \in Nat, NEW skew, NEW other
  PROVE  Divided(MoE(deployment, tokens, skew), MoE(Whole, tokens, other))
<1> DEFINE d == deployment
           x == MoE(deployment, tokens, skew)
           y == MoE(Whole, tokens, other)
           D == d.expertDim
           g == d.hidden
           c == tokens * d.topk * 6
<1>1. d.topk \in Nat /\ D \in Nat /\ g \in Nat /\ d.tp \in Nat /\ d.tp # 0 /\ d.ep \in Nat /\ d.ep # 0
  BY DeploymentTyped
<1>2. Whole.topk = d.topk /\ Whole.expertDim = D /\ Whole.hidden = g /\ Whole.tp = 1 /\ Whole.ep = 1
  BY WholeIs
<1>3. D % d.tp = 0 /\ g % d.ep = 0
  BY DEF Divides
<1>4. d.ep = 1 \/ d.ep % d.tp = 0
  BY DeploymentsOK
<1>5. /\ x.kind = "moe" /\ x.name = "routed_experts" /\ x.shape.num_tokens = tokens
      /\ y.kind = "moe" /\ y.shape.num_tokens = tokens
  BY DEF MoE
<1> HIDE DEF x, y
<1>6. RanksOf(x) = Larger(d.tp, d.ep)
  BY <1>5 DEF RanksOf, Replicated
<1>7. /\ WorkOf(d, x) = RoutedExpertsWork(d, x)
      /\ WorkOf(Whole, y) = RoutedExpertsWork(Whole, y)
  BY <1>5, WorkOfKind
<1>8. \A e, o : RoutedExpertsWork(e, o).flops
                  = (o.shape.num_tokens * e.topk * 6 * e.hidden * ExpertDimPerDevice(e)) \div e.ep
  BY FlopsOfWork DEF RoutedExpertsWork
<1>9. WorkOf(d, x).flops = (c * g * ExpertDimPerDevice(d)) \div d.ep
  BY <1>5, <1>7, <1>8
<1>10. ExpertDimPerDevice(Whole) = D
  BY <1>1, <1>2 DEF ExpertDimPerDevice
<1>11. WorkOf(Whole, y).flops = (c * g * D) \div 1
  BY <1>2, <1>5, <1>7, <1>8, <1>10
<1>12. c \in Nat
  BY <1>1
<1> DEFINE f == WorkOf(d, x).flops
           F == WorkOf(Whole, y).flops
           t == d.tp
           e == d.ep
<1> HIDE DEF c, D, g, f, F, t, e
<1>13. F = c * g * D
  <2> DEFINE z == c * g * D
  <2>1. z \in Nat
    BY <1>1, <1>12
  <2>2. F = z \div 1
    BY <1>11 DEF F
  <2> HIDE DEF z
  <2>3. z \div 1 = z
    BY <2>1
  <2> QED
    BY <2>2, <2>3 DEF z
<1>14. CASE e = 1
  <2> DEFINE i == D \div t
  <2>1. i \in Nat /\ D = t * i
    BY <1>1, <1>3, DividesExactly DEF t
  <2>2. f = (c * g * i) \div 1
    BY <1>9, <1>14 DEF ExpertDimPerDevice, f, e, t, D
  <2> HIDE DEF i
  <2> DEFINE z == c * g * i
  <2>3. z \in Nat
    BY <1>1, <1>12, <2>1
  <2>4. f = z
    <3>1. f = z \div 1
      BY <2>2
    <3> HIDE DEF z
    <3>2. z \div 1 = z
      BY <2>3
    <3> QED
      BY <3>1, <3>2
  <2>5. Larger(t, e) = t
    BY <1>1, <1>14 DEF Larger, t
  <2>6. (c * g * i) * t = c * g * (t * i)
    <3> DEFINE w == c * g
    <3>1. w \in Nat /\ t \in Nat /\ i \in Nat
      BY <1>1, <1>12, <2>1 DEF t
    <3> HIDE DEF w
    <3>2. (w * i) * t = w * (t * i)
      BY <3>1
    <3> QED
      BY <3>2 DEF w
  <2>7. f * Larger(t, e) = F
    BY <1>13, <2>1, <2>4, <2>5, <2>6
  <2> QED
    BY <1>5, <1>6, <2>7 DEF Divided, IsLocal, x, y, f, F, t, e
<1>15. CASE e # 1
  <2> DEFINE i == g \div e
  <2>1. i \in Nat /\ g = e * i
    BY <1>1, <1>3, DividesExactly DEF e
  <2>2. f = (c * g * D) \div e
    BY <1>9, <1>15 DEF ExpertDimPerDevice, f, e, D
  <2> HIDE DEF i
  <2> DEFINE z == c * i * D
  <2>3. z \in Nat /\ c * g * D = e * z
    <3> DEFINE w == c * i
    <3>1. w \in Nat /\ e \in Nat /\ D \in Nat
      BY <1>1, <1>12, <2>1 DEF e
    <3>2. c * (e * i) = e * w
      BY <1>1, <1>12, <2>1 DEF e
    <3> HIDE DEF w
    <3>3. w * D \in Nat /\ (e * w) * D = e * (w * D)
      BY <3>1
    <3> QED
      BY <2>1, <3>2, <3>3 DEF w
  <2> HIDE DEF z
  <2>4. e \in Nat /\ e # 0 /\ (e * z) \div e = z
    <3>1. e \in Nat /\ e # 0
      BY <1>1 DEF e
    <3> QED
      BY <2>3, <3>1
  <2>5. f * e = F
    <3>1. f = z
      BY <2>2, <2>3, <2>4
    <3> QED
      BY <1>13, <2>3, <2>4, <3>1
  <2>6. Larger(t, e) = e
    <3>1. e % t = 0 /\ t \in Nat /\ t # 0
      BY <1>1, <1>4, <1>15 DEF e, t
    <3>2. ~ (e < t)
      <4>1. e < t => e % t = e
        BY <2>4, <3>1
      <4> QED
        BY <2>4, <3>1, <4>1
    <3> QED
      BY <2>4, <3>1, <3>2 DEF Larger
  <2> QED
    BY <1>5, <1>6, <2>5, <2>6 DEF Divided, IsLocal, x, y, f, F, t, e
<1> QED
  BY <1>14, <1>15

\* What a split dimension is on a rank.
LEMMA SplitDims ==
  ASSUME deployment \in Deployments, Divides
  PROVE  LET d == deployment
             w == Whole
         IN  /\ HeadsPerRank(d) \in Nat /\ HeadsPerRank(d) * d.tp = d.heads
             /\ KvHeadsPerRank(d) \in Nat /\ KvHeadsPerRank(d) * d.tp = d.kvHeads
             /\ FfnPerRank(d) \in Nat /\ FfnPerRank(d) * d.tp = d.ffn
             /\ SharedPerRank(d) \in Nat /\ SharedPerRank(d) * d.tp = d.expertDim * d.shared
             /\ d.vocab \div d.tp \in Nat /\ (d.vocab \div d.tp) * d.tp = d.vocab
             /\ HeadsPerRank(w) = d.heads /\ KvHeadsPerRank(w) = d.kvHeads
             /\ FfnPerRank(w) = d.ffn /\ SharedPerRank(w) = d.expertDim * d.shared
             /\ w.vocab \div w.tp = d.vocab
<1> DEFINE d == deployment
           w == Whole
           t == d.tp
<1>1. /\ t \in Nat /\ t # 0 /\ d.heads \in Nat /\ d.kvHeads \in Nat /\ d.ffn \in Nat
      /\ d.vocab \in Nat /\ d.expertDim \in Nat /\ d.shared \in Nat
  BY DeploymentTyped
<1>2. /\ d.heads % t = 0 /\ d.kvHeads % t = 0 /\ d.ffn % t = 0 /\ d.vocab % t = 0
      /\ d.expertDim % t = 0
  BY DEF Divides
<1>3. /\ w.tp = 1 /\ w.heads = d.heads /\ w.kvHeads = d.kvHeads /\ w.ffn = d.ffn
      /\ w.vocab = d.vocab /\ w.expertDim = d.expertDim /\ w.shared = d.shared
  BY WholeIs
<1> HIDE DEF t
<1>4. ASSUME NEW x \in Nat, x % t = 0
      PROVE  x \div t \in Nat /\ (x \div t) * t = x
  <2> DEFINE i == x \div t
  <2>1. i \in Nat /\ x = t * i
    BY <1>1, <1>4, DividesExactly
  <2> HIDE DEF i
  <2>2. i * t = t * i
    BY <1>1, <2>1
  <2> QED
    BY <2>1, <2>2 DEF i
<1>5. \A x \in Nat : x \div 1 = x
  OBVIOUS
<1>6. (d.expertDim * d.shared) \div t \in Nat
      /\ ((d.expertDim * d.shared) \div t) * t = d.expertDim * d.shared
  <2> DEFINE i == d.expertDim \div t
  <2>1. i \in Nat /\ i * t = d.expertDim
    BY <1>1, <1>2, <1>4
  <2>2. (d.expertDim * d.shared) \div t = i * d.shared
    <3>1. \A y \in Nat : (d.expertDim * y) \div t = i * y
      BY <1>1, <1>2, DividesExactly DEF t
    <3> QED
      BY <1>1, <3>1
  <2> HIDE DEF i
  <2>3. i * d.shared \in Nat /\ (i * d.shared) * t = (i * t) * d.shared
    BY <1>1, <2>1
  <2> QED
    BY <2>1, <2>2, <2>3
<1>7. d.expertDim * d.shared \in Nat
  BY <1>1
<1>8. /\ HeadsPerRank(d) = d.heads \div t /\ KvHeadsPerRank(d) = d.kvHeads \div t
      /\ FfnPerRank(d) = d.ffn \div t /\ SharedPerRank(d) = (d.expertDim * d.shared) \div t
      /\ HeadsPerRank(w) = d.heads \div 1 /\ KvHeadsPerRank(w) = d.kvHeads \div 1
      /\ FfnPerRank(w) = d.ffn \div 1 /\ SharedPerRank(w) = (d.expertDim * d.shared) \div 1
      /\ w.vocab \div w.tp = d.vocab \div 1
  BY <1>3 DEF HeadsPerRank, KvHeadsPerRank, FfnPerRank, SharedPerRank, t
<1>9. /\ d.heads \div 1 = d.heads /\ d.kvHeads \div 1 = d.kvHeads /\ d.ffn \div 1 = d.ffn
      /\ d.vocab \div 1 = d.vocab
      /\ (d.expertDim * d.shared) \div 1 = d.expertDim * d.shared
  BY <1>1, <1>5, <1>7
<1>10. /\ d.heads \div t \in Nat /\ (d.heads \div t) * t = d.heads
       /\ d.kvHeads \div t \in Nat /\ (d.kvHeads \div t) * t = d.kvHeads
       /\ d.ffn \div t \in Nat /\ (d.ffn \div t) * t = d.ffn
       /\ d.vocab \div t \in Nat /\ (d.vocab \div t) * t = d.vocab
  BY <1>1, <1>2, <1>4
<1> QED
  BY <1>6, <1>8, <1>9, <1>10 DEF t

LEMMA OpsOf2 ==
  ASSUME NEW a, NEW b, NEW x, NEW y, Divided(a, x), Divided(b, y)
  PROVE  OpsShare(<<a, b>>, <<x, y>>)
<1>1. OpsShare(<<a>>, <<x>>) /\ OpsShare(<<b>>, <<y>>)
  BY OneShared
<1>2. OpsShare(<<a>> \o <<b>>, <<x>> \o <<y>>)
  BY <1>1, OpsJoined
<1>3. <<a, b>> = <<a>> \o <<b>> /\ <<x, y>> = <<x>> \o <<y>>
  BY LastOf2
<1> QED
  BY <1>2, <1>3, Zenon

LEMMA OpsOf3 ==
  ASSUME NEW a, NEW b, NEW c, NEW x, NEW y, NEW z,
         Divided(a, x), Divided(b, y), Divided(c, z)
  PROVE  OpsShare(<<a, b, c>>, <<x, y, z>>)
<1>1. OpsShare(<<a, b>>, <<x, y>>) /\ OpsShare(<<c>>, <<z>>)
  BY OneShared, OpsOf2
<1>2. OpsShare(<<a, b>> \o <<c>>, <<x, y>> \o <<z>>)
  BY <1>1, OpsJoined
<1>3. <<a, b, c>> = <<a, b>> \o <<c>> /\ <<x, y, z>> = <<x, y>> \o <<z>>
  BY LastOf3
<1> QED
  BY <1>2, <1>3, Zenon

LEMMA OpsOf4 ==
  ASSUME NEW a, NEW b, NEW c, NEW e, NEW x, NEW y, NEW z, NEW u,
         Divided(a, x), Divided(b, y), Divided(c, z), Divided(e, u)
  PROVE  OpsShare(<<a, b, c, e>>, <<x, y, z, u>>)
<1>1. OpsShare(<<a, b, c>>, <<x, y, z>>) /\ OpsShare(<<e>>, <<u>>)
  BY OneShared, OpsOf3
<1>2. OpsShare(<<a, b, c>> \o <<e>>, <<x, y, z>> \o <<u>>)
  BY <1>1, OpsJoined
<1>3. <<a, b, c, e>> = <<a, b, c>> \o <<e>> /\ <<x, y, z, u>> = <<x, y, z>> \o <<u>>
  BY LastOf4
<1> QED
  BY <1>2, <1>3, Zenon

LEMMA OpsOf6 ==
  ASSUME NEW a, NEW b, NEW c, NEW e, NEW f, NEW g,
         NEW x, NEW y, NEW z, NEW u, NEW v, NEW w,
         Divided(a, x), Divided(b, y), Divided(c, z), Divided(f, v),
         ~ IsLocal(e), ~ IsLocal(u), ~ IsLocal(g), ~ IsLocal(w)
  PROVE  OpsShare(<<a, b, c, e, f, g>>, <<x, y, z, u, v, w>>)
<1>1. /\ OpsShare(<<a, b, c>>, <<x, y, z>>) /\ OpsShare(<<e>>, <<u>>)
      /\ OpsShare(<<f>>, <<v>>) /\ OpsShare(<<g>>, <<w>>)
  BY OneShared, OpsOf3, CollectiveShared
<1>2. OpsShare(<<a, b, c>> \o <<e>>, <<x, y, z>> \o <<u>>)
  BY <1>1, OpsJoined
<1>3. <<a, b, c, e>> = <<a, b, c>> \o <<e>> /\ <<x, y, z, u>> = <<x, y, z>> \o <<u>>
  BY LastOf4
<1>4. OpsShare(<<a, b, c, e>>, <<x, y, z, u>>)
  BY <1>2, <1>3, Zenon
<1>5. OpsShare(<<a, b, c, e>> \o <<f>>, <<x, y, z, u>> \o <<v>>)
  BY <1>1, <1>4, OpsJoined
<1>6. <<a, b, c, e, f>> = <<a, b, c, e>> \o <<f>> /\ <<x, y, z, u, v>> = <<x, y, z, u>> \o <<v>>
  OBVIOUS
<1>7. OpsShare(<<a, b, c, e, f>>, <<x, y, z, u, v>>)
  BY <1>5, <1>6, Zenon
<1>8. OpsShare(<<a, b, c, e, f>> \o <<g>>, <<x, y, z, u, v>> \o <<w>>)
  BY <1>1, <1>7, OpsJoined
<1>9. /\ <<a, b, c, e, f, g>> = <<a, b, c, e, f>> \o <<g>>
      /\ <<x, y, z, u, v, w>> = <<x, y, z, u, v>> \o <<w>>
  OBVIOUS
<1> QED
  BY <1>8, <1>9, Zenon

LEMMA TpReduceShared ==
  ASSUME deployment \in Deployments, NEW name, NEW s
  PROVE  /\ OpsShare(QwenReduce(name, deployment, s), QwenReduce(name, Whole, s))
         /\ OpsShare(DeepSeekReduce(name, deployment, s), DeepSeekReduce(name, Whole, s))
<1>1. Whole.tp = 1 /\ Whole.hidden = deployment.hidden
  BY WholeIs
<1>2. \A source : /\ TpAllReduce(name, deployment, s, source)
                       = AllReduce(name, s.totalTokens * deployment.hidden, deployment.tp, source)
                  /\ TpAllReduce(name, Whole, s, source)
                       = AllReduce(name, s.totalTokens * deployment.hidden, 1, source)
  BY <1>1 DEF TpAllReduce
<1>3. \A source : OpsShare(TpAllReduce(name, deployment, s, source),
                           TpAllReduce(name, Whole, s, source))
  BY <1>2, ReduceShared
<1> QED
  BY <1>3 DEF QwenReduce, DeepSeekReduce

\* The two ways a matrix is split: by its columns and by its rows.
LEMMA Columns ==
  ASSUME NEW c \in Nat, NEW k \in Nat, NEW t \in Nat, NEW C, c * t = C
  PROVE  (c * k) * t = C * k /\ (k * c) * t = k * C /\ C \in Nat
<1>1. (c * k) * t = (c * t) * k /\ (k * c) * t = k * (c * t) /\ c * t \in Nat
  OBVIOUS
<1> QED
  BY <1>1, Zenon

LEMMA QwenAttentionShared ==
  ASSUME deployment \in Deployments, Divides, NEW s, ShapeTyped(s)
  PROVE  OpsShare(QwenAttentionOps(deployment, s), QwenAttentionOps(Whole, s))
<1> DEFINE d  == deployment
           v  == Whole
           t  == d.tp
           T  == s.totalTokens
           nq == HeadsPerRank(d)
           nk == KvHeadsPerRank(d)
           mq == d.heads
           mk == d.kvHeads
           hd == d.headDim
           n  == Norm("attn_norm", T * d.hidden)
           g  == GEMM("qkv_proj", T, (nq + 2 * nk) * hd, d.hidden)
           G  == GEMM("qkv_proj", T, (mq + 2 * mk) * hd, d.hidden)
           e  == ElementWise("rope", T * (nq + nk) * hd)
           E  == ElementWise("rope", T * (mq + mk) * hd)
           f  == FlashAttention(nq, nk, hd, s)
           F  == FlashAttention(mq, mk, hd, s)
           o  == GEMM("o_proj", T, d.hidden, nq * hd)
           O  == GEMM("o_proj", T, d.hidden, mq * hd)
           r  == QwenReduce("tp_o_proj_allreduce", d, s)
           R  == QwenReduce("tp_o_proj_allreduce", v, s)
           p  == ElementWise("attn_add", T * d.hidden)
<1>1. QwenAttentionOps(d, s) = (((<<n, g, e>> \o f) \o <<o>>) \o r) \o <<p>>
  BY DEF QwenAttentionOps
<1>2. QwenAttentionOps(v, s) = (((<<n, G, E>> \o F) \o <<O>>) \o R) \o <<p>>
  <2>1. /\ HeadsPerRank(v) = mq /\ KvHeadsPerRank(v) = mk
        /\ v.headDim = hd /\ v.hidden = d.hidden
    BY SplitDims, WholeIs
  <2> QED
    BY <2>1 DEF QwenAttentionOps
<1>3. /\ T \in Nat /\ t \in Nat /\ hd \in Nat /\ d.hidden \in Nat /\ T * d.hidden \in Nat
      /\ mq \in Nat /\ mk \in Nat
  BY DeploymentTyped DEF ShapeTyped
<1>4. nq \in Nat /\ nq * t = mq /\ nk \in Nat /\ nk * t = mk
  BY SplitDims
<1>5. Divided(n, n) /\ Divided(p, p)
  BY <1>3, ReplicatedDivided
<1>6. Divided(g, G)
  <2> DEFINE c == (nq + 2 * nk) * hd
             C == (mq + 2 * mk) * hd
  <2>1. c \in Nat /\ C \in Nat
    BY <1>3, <1>4
  <2>2. c * t = C
    <3> HIDE DEF nq, nk, mq, mk, hd, t
    <3>1. (nq + 2 * nk) * t = mq + 2 * mk
      BY <1>3, <1>4
    <3>2. ((nq + 2 * nk) * hd) * t = ((nq + 2 * nk) * t) * hd
      BY <1>3, <1>4
    <3> QED
      BY <3>1, <3>2
  <2>3. (c * d.hidden) * t = C * d.hidden
    <3> HIDE DEF c, C, t
    <3> QED
      BY <1>3, <2>1, <2>2, Columns
  <2> HIDE DEF c, C
  <2> QED
    BY <1>3, <2>1, <2>3, GemmDivided DEF SplitGemms, c, C, t
<1>7. Divided(e, E)
  <2> DEFINE c == T * (nq + nk) * hd
             C == T * (mq + mk) * hd
  <2>1. c \in Nat /\ C \in Nat
    BY <1>3, <1>4
  <2>2. c * t = C
    <3> HIDE DEF nq, nk, mq, mk, hd, t, T
    <3>1. (nq + nk) * t = mq + mk
      BY <1>3, <1>4
    <3>2. (T * (nq + nk) * hd) * t = T * ((nq + nk) * t) * hd
      BY <1>3, <1>4
    <3> QED
      BY <3>1, <3>2
  <2> HIDE DEF c, C
  <2> QED
    BY <2>1, <2>2, ElementsDivided DEF c, C, t
<1>8. Divided(o, O)
  <2> DEFINE c == nq * hd
             C == mq * hd
  <2>1. c \in Nat /\ C \in Nat
    BY <1>3, <1>4
  <2>2. c * t = C
    <3> HIDE DEF nq, mq, hd, t
    <3> QED
      BY <1>3, <1>4, Columns
  <2>3. (d.hidden * c) * t = d.hidden * C
    <3> HIDE DEF c, C, t
    <3> QED
      BY <1>3, <2>1, <2>2, Columns
  <2> HIDE DEF c, C
  <2> QED
    BY <1>3, <2>1, <2>3, GemmDivided DEF SplitGemms, c, C, t
<1>9. OpsShare(f, F)
  BY <1>3, <1>4, FlashDivided DEF t
<1>10. OpsShare(r, R)
  BY TpReduceShared
<1> HIDE DEF n, g, G, e, E, f, F, o, O, r, R, p
<1>11. /\ OpsShare(<<n, g, e>>, <<n, G, E>>) /\ OpsShare(<<o>>, <<O>>)
       /\ OpsShare(<<p>>, <<p>>)
  BY <1>5, <1>6, <1>7, <1>8, OneShared, OpsOf3
<1>12. OpsShare((<<n, g, e>> \o f) \o <<o>>, (<<n, G, E>> \o F) \o <<O>>)
  BY <1>9, <1>11, OpsJoined
<1> QED
  BY <1>1, <1>2, <1>10, <1>11, <1>12, OpsJoined

LEMMA MlaAttentionShared ==
  ASSUME deployment \in Deployments, Divides, NEW s, ShapeTyped(s)
  PROVE  OpsShare(MlaAttentionOps(deployment, s), MlaAttentionOps(Whole, s))
<1> DEFINE d  == deployment
           v  == Whole
           t  == d.tp
           T  == s.totalTokens
           h  == HeadsPerRank(d)
           H  == d.heads
           qk == QkHeadDim(d)
           kv == d.nope + d.vDim
           n  == Norm("attn_norm", T * d.hidden)
           qa == GEMM("q_a_proj", T, d.qLora, d.hidden)
           qb == GEMM("q_b_proj", T, h * qk, d.qLora)
           Qb == GEMM("q_b_proj", T, H * qk, d.qLora)
           q  == GEMM("q_proj", T, h * qk, d.hidden)
           Q  == GEMM("q_proj", T, H * qk, d.hidden)
           qs == IF d.qLora > 0 THEN <<qa, qb>> ELSE <<q>>
           Qs == IF d.qLora > 0 THEN <<qa, Qb>> ELSE <<Q>>
           ka == GEMM("kv_a_proj_with_mqa", T, KvLatentDim(d), d.hidden)
           kb == GEMM("kv_b_proj", T, h * kv, d.kvLora)
           Kb == GEMM("kv_b_proj", T, H * kv, d.kvLora)
           a  == MLAAttention(d, h, s)
           A  == MLAAttention(v, H, s)
           o  == GEMM("o_proj", T, d.hidden, h * d.vDim)
           O  == GEMM("o_proj", T, d.hidden, H * d.vDim)
           r  == DeepSeekReduce("attn_allreduce", d, s)
           R  == DeepSeekReduce("attn_allreduce", v, s)
           p  == ElementWise("attn_add", T * d.hidden)
<1>1. MlaAttentionOps(d, s) = (((<<n>> \o qs) \o <<ka, kb, a, o>>) \o r) \o <<p>>
  BY DEF MlaAttentionOps
<1>2. MlaAttentionOps(v, s) = (((<<n>> \o Qs) \o <<ka, Kb, A, O>>) \o R) \o <<p>>
  <2>1. /\ HeadsPerRank(v) = H /\ v.qLora = d.qLora /\ v.kvLora = d.kvLora
        /\ v.nope = d.nope /\ v.vDim = d.vDim /\ v.rope = d.rope /\ v.hidden = d.hidden
    BY SplitDims, WholeIs
  <2>2. QkHeadDim(v) = QkHeadDim(d) /\ KvLatentDim(v) = KvLatentDim(d)
    BY <2>1 DEF QkHeadDim, KvLatentDim
  <2> QED
    BY <2>1, <2>2 DEF MlaAttentionOps
<1>3. /\ T \in Nat /\ t \in Nat /\ H \in Nat /\ d.hidden \in Nat /\ T * d.hidden \in Nat
      /\ d.qLora \in Nat /\ d.kvLora \in Nat /\ d.vDim \in Nat /\ d.nope \in Nat /\ d.rope \in Nat
      /\ qk \in Nat /\ kv \in Nat /\ KvLatentDim(d) \in Nat
  BY DeploymentTyped DEF ShapeTyped, QkHeadDim, KvLatentDim
<1>4. h \in Nat /\ h * t = H
  BY SplitDims
<1>5. Divided(n, n) /\ Divided(p, p)
  BY <1>3, ReplicatedDivided
<1>6. Divided(qa, qa) /\ Divided(ka, ka)
  BY <1>3, ReplicatedDivided
<1>7. ASSUME NEW x \in Nat
      PROVE  /\ h * x \in Nat /\ H * x \in Nat
             /\ \A k \in Nat : ((h * x) * k) * t = (H * x) * k /\ (k * (h * x)) * t = k * (H * x)
  <2> HIDE DEF h, H, t
  <2>1. h * x \in Nat /\ H * x \in Nat
    BY <1>3, <1>4
  <2>2. (h * x) * t = H * x
    BY <1>3, <1>4, Columns
  <2> DEFINE c == h * x
             C == H * x
  <2> HIDE DEF c, C
  <2>3. c \in Nat /\ C \in Nat /\ c * t = C
    BY <2>1, <2>2 DEF c, C
  <2>4. \A k \in Nat : (c * k) * t = C * k /\ (k * c) * t = k * C
    BY <1>3, <2>3, Columns
  <2> QED
    BY <2>1, <2>4 DEF c, C
<1>8. Divided(qb, Qb) /\ Divided(q, Q)
  <2>1. /\ h * qk \in Nat /\ H * qk \in Nat
        /\ \A k \in Nat : ((h * qk) * k) * t = (H * qk) * k
    BY <1>3, <1>7
  <2> DEFINE c == h * qk
             C == H * qk
  <2> HIDE DEF c, C
  <2> QED
    BY <1>3, <2>1, GemmDivided DEF SplitGemms, c, C, t
<1>9. Divided(kb, Kb)
  <2>1. /\ h * kv \in Nat /\ H * kv \in Nat
        /\ \A k \in Nat : ((h * kv) * k) * t = (H * kv) * k
    BY <1>3, <1>7
  <2> DEFINE c == h * kv
             C == H * kv
  <2> HIDE DEF c, C
  <2> QED
    BY <1>3, <2>1, GemmDivided DEF SplitGemms, c, C, t
<1>10. Divided(o, O)
  <2>1. /\ h * d.vDim \in Nat /\ H * d.vDim \in Nat
        /\ \A k \in Nat : (k * (h * d.vDim)) * t = k * (H * d.vDim)
    BY <1>3, <1>7
  <2> DEFINE c == h * d.vDim
             C == H * d.vDim
  <2> HIDE DEF c, C
  <2> QED
    BY <1>3, <2>1, GemmDivided DEF SplitGemms, c, C, t
<1>11. Divided(a, A)
  BY <1>4, MlaDivided DEF t
<1>12. OpsShare(r, R)
  BY TpReduceShared
<1> HIDE DEF n, qa, qb, Qb, q, Q, ka, kb, Kb, a, A, o, O, r, R, p
<1>13. OpsShare(qs, Qs)
  BY <1>6, <1>8, OneShared, OpsOf2
<1> HIDE DEF qs, Qs
<1>14. /\ OpsShare(<<n>>, <<n>>) /\ OpsShare(<<ka, kb, a, o>>, <<ka, Kb, A, O>>)
       /\ OpsShare(<<p>>, <<p>>)
  BY <1>5, <1>6, <1>9, <1>10, <1>11, OneShared, OpsOf4
<1>15. OpsShare((<<n>> \o qs) \o <<ka, kb, a, o>>, (<<n>> \o Qs) \o <<ka, Kb, A, O>>)
  BY <1>13, <1>14, OpsJoined
<1> QED
  BY <1>1, <1>2, <1>12, <1>14, <1>15, OpsJoined

\* The projections of a dense block and of shared experts.
LEMMA BlockDivided ==
  ASSUME deployment \in Deployments, NEW T \in Nat, NEW f \in Nat, NEW F,
         f * deployment.tp = F
  PROVE  LET g == deployment.hidden
         IN  /\ \A name \in {"gate_up_proj", "shared_expert_up_gate"} :
                  Divided(GEMM(name, T, 2 * f, g), GEMM(name, T, 2 * F, g))
             /\ \A name \in {"mlp_act", "shared_expert_act"} :
                  Divided(ElementWise(name, T * f), ElementWise(name, T * F))
             /\ \A name \in {"down_proj", "shared_expert_down"} :
                  Divided(GEMM(name, T, g, f), GEMM(name, T, g, F))
<1> DEFINE t == deployment.tp
           g == deployment.hidden
<1>1. t \in Nat /\ g \in Nat
  BY DeploymentTyped
<1>2. f * t = F
  OBVIOUS
<1> HIDE DEF t
<1>3. F \in Nat /\ (g * f) * t = g * F /\ (T * f) * t = T * F
  BY <1>1, <1>2, Columns
<1>4. 2 * f \in Nat /\ 2 * F \in Nat /\ (2 * f) * t = 2 * F
  BY <1>1, <1>2, <1>3
<1> DEFINE c == 2 * f
           C == 2 * F
<1> HIDE DEF c, C
<1>5. c \in Nat /\ C \in Nat /\ c * t = C
  BY <1>4 DEF c, C
<1>6. (c * g) * t = C * g
  <2>1. (c * g) * t = (c * t) * g
    BY <1>1, <1>5
  <2> QED
    BY <1>5, <2>1
<1>7. \A name \in {"gate_up_proj", "shared_expert_up_gate"} :
        Divided(GEMM(name, T, c, g), GEMM(name, T, C, g))
  BY <1>1, <1>5, <1>6, GemmDivided DEF SplitGemms, t
<1>8. \A name \in {"down_proj", "shared_expert_down"} :
        Divided(GEMM(name, T, g, f), GEMM(name, T, g, F))
  BY <1>1, <1>3, GemmDivided DEF SplitGemms, t
<1>9. T * f \in Nat /\ T * F \in Nat
  BY <1>3
<1> DEFINE e == T * f
           E == T * F
<1> HIDE DEF e, E
<1>10. \A name \in {"mlp_act", "shared_expert_act"} : Divided(ElementWise(name, e), ElementWise(name, E))
  BY <1>3, <1>9, ElementsDivided DEF t, e, E
<1> QED
  BY <1>7, <1>8, <1>10 DEF c, C, e, E

\* Dispatch and collection move tokens; they do none of the work.
LEMMA ExpertsShared ==
  ASSUME deployment \in Deployments, Divides, NEW T \in Nat, NEW skew, NEW other
  PROVE  LET d == deployment
             v == Whole
         IN  OpsShare(<<Norm("mlp_norm", T * d.hidden), Router(T, d.experts, d.hidden),
                        ElementWise("moe_topk", T * d.experts),
                        MoEDispatch(d, "moe_dispatch_pre", TRUE, T), MoE(d, T, skew),
                        MoEDispatch(d, "moe_dispatch_post", FALSE, T)>>,
                      <<Norm("mlp_norm", T * v.hidden), Router(T, v.experts, v.hidden),
                        ElementWise("moe_topk", T * v.experts),
                        MoEDispatch(v, "moe_dispatch_pre", TRUE, T), MoE(v, T, other),
                        MoEDispatch(v, "moe_dispatch_post", FALSE, T)>>)
<1> DEFINE d == deployment
           v == Whole
           n == Norm("mlp_norm", T * d.hidden)
           g == Router(T, d.experts, d.hidden)
           k == ElementWise("moe_topk", T * d.experts)
           x == MoEDispatch(d, "moe_dispatch_pre", TRUE, T)
           X == MoEDispatch(v, "moe_dispatch_pre", TRUE, T)
           m == MoE(d, T, skew)
           M == MoE(v, T, other)
           y == MoEDispatch(d, "moe_dispatch_post", FALSE, T)
           Y == MoEDispatch(v, "moe_dispatch_post", FALSE, T)
<1>1. v.hidden = d.hidden /\ v.experts = d.experts
  BY WholeIs
<1>2. /\ d.hidden \in Nat /\ d.experts \in Nat
      /\ T * d.hidden \in Nat /\ T * d.experts \in Nat
  BY DeploymentTyped
<1>3. Divided(n, n) /\ Divided(g, g) /\ Divided(k, k)
  BY <1>2, ReplicatedDivided
<1>4. Divided(m, M)
  BY ExpertsDivided
<1>5. ~ IsLocal(x) /\ ~ IsLocal(X) /\ ~ IsLocal(y) /\ ~ IsLocal(Y)
  BY DEF MoEDispatch, IsLocal
<1> HIDE DEF n, g, k, x, X, m, M, y, Y
<1>6. OpsShare(<<n, g, k, x, m, y>>, <<n, g, k, X, M, Y>>)
  BY <1>3, <1>4, <1>5, OpsOf6
<1> QED
  BY <1>1, <1>6 DEF n, g, k, x, X, m, M, y, Y

LEMMA DenseShared ==
  ASSUME deployment \in Deployments, Divides, NEW s, ShapeTyped(s)
  PROVE  /\ OpsShare(QwenDenseFfnOps(deployment, s), QwenDenseFfnOps(Whole, s))
         /\ OpsShare(DeepSeekDenseFfnOps(deployment, s), DeepSeekDenseFfnOps(Whole, s))
<1> DEFINE d == deployment
           v == Whole
           T == s.totalTokens
           f == FfnPerRank(d)
           F == d.ffn
           n == Norm("mlp_norm", T * d.hidden)
           g == GEMM("gate_up_proj", T, 2 * f, d.hidden)
           G == GEMM("gate_up_proj", T, 2 * F, d.hidden)
           e == ElementWise("mlp_act", T * f)
           E == ElementWise("mlp_act", T * F)
           o == GEMM("down_proj", T, d.hidden, f)
           O == GEMM("down_proj", T, d.hidden, F)
           p == ElementWise("mlp_add", T * d.hidden)
<1>1. /\ QwenDenseFfnOps(d, s)
           = (<<n, g, e, o>> \o QwenReduce("tp_down_proj_allreduce", d, s)) \o <<p>>
      /\ DeepSeekDenseFfnOps(d, s)
           = (<<n, g, e, o>> \o DeepSeekReduce("mlp_allreduce", d, s)) \o <<p>>
  BY DEF QwenDenseFfnOps, DeepSeekDenseFfnOps
<1>2. FfnPerRank(v) = F /\ v.hidden = d.hidden
  BY SplitDims, WholeIs
<1>3. /\ QwenDenseFfnOps(v, s)
           = (<<n, G, E, O>> \o QwenReduce("tp_down_proj_allreduce", v, s)) \o <<p>>
      /\ DeepSeekDenseFfnOps(v, s)
           = (<<n, G, E, O>> \o DeepSeekReduce("mlp_allreduce", v, s)) \o <<p>>
  BY <1>2 DEF QwenDenseFfnOps, DeepSeekDenseFfnOps
<1>4. T \in Nat /\ T * d.hidden \in Nat
  BY DeploymentTyped DEF ShapeTyped
<1>5. f \in Nat /\ f * d.tp = F
  BY SplitDims
<1>6. Divided(n, n) /\ Divided(p, p)
  BY <1>4, ReplicatedDivided
<1>7. Divided(g, G) /\ Divided(e, E) /\ Divided(o, O)
  BY <1>4, <1>5, BlockDivided
<1> HIDE DEF n, g, G, e, E, o, O, p
<1>8. OpsShare(<<n, g, e, o>>, <<n, G, E, O>>) /\ OpsShare(<<p>>, <<p>>)
  BY <1>6, <1>7, OpsOf4, OneShared
<1> QED
  BY <1>1, <1>3, <1>8, TpReduceShared, OpsJoined

LEMMA SharedExpertsShared ==
  ASSUME deployment \in Deployments, Divides, NEW s, ShapeTyped(s)
  PROVE  /\ OpsShare(QwenSharedExpertOps(deployment, s), QwenSharedExpertOps(Whole, s))
         /\ OpsShare(DeepSeekSharedExpertOps(deployment, s), DeepSeekSharedExpertOps(Whole, s))
<1> DEFINE d == deployment
           v == Whole
           T == s.totalTokens
           f == SharedPerRank(d)
           F == d.expertDim * d.shared
           g == GEMM("shared_expert_up_gate", T, 2 * f, d.hidden)
           G == GEMM("shared_expert_up_gate", T, 2 * F, d.hidden)
           e == ElementWise("shared_expert_act", T * f)
           E == ElementWise("shared_expert_act", T * F)
           o == GEMM("shared_expert_down", T, d.hidden, f)
           O == GEMM("shared_expert_down", T, d.hidden, F)
<1>1. /\ QwenSharedExpertOps(d, s)
           = <<g, e, o>> \o QwenReduce("shared_expert_allreduce", d, s)
      /\ DeepSeekSharedExpertOps(d, s)
           = <<g, e, o>> \o DeepSeekReduce("shared_expert_allreduce", d, s)
  BY DEF QwenSharedExpertOps, DeepSeekSharedExpertOps
<1>2. SharedPerRank(v) = F /\ v.hidden = d.hidden
  BY SplitDims, WholeIs
<1>3. /\ QwenSharedExpertOps(v, s)
           = <<G, E, O>> \o QwenReduce("shared_expert_allreduce", v, s)
      /\ DeepSeekSharedExpertOps(v, s)
           = <<G, E, O>> \o DeepSeekReduce("shared_expert_allreduce", v, s)
  BY <1>2 DEF QwenSharedExpertOps, DeepSeekSharedExpertOps
<1>4. T \in Nat
  BY DEF ShapeTyped
<1>5. f \in Nat /\ f * d.tp = F
  BY SplitDims
<1>6. Divided(g, G) /\ Divided(e, E) /\ Divided(o, O)
  BY <1>4, <1>5, BlockDivided
<1> HIDE DEF g, G, e, E, o, O
<1>7. OpsShare(<<g, e, o>>, <<G, E, O>>)
  BY <1>6, OpsOf3
<1> QED
  BY <1>1, <1>3, <1>7, TpReduceShared, OpsJoined

LEMMA MoeFfnShared ==
  ASSUME deployment \in Deployments, Divides, NEW s, ShapeTyped(s), NEW layer
  PROVE  /\ OpsShare(QwenMoeFfnOps(deployment, s, layer), QwenMoeFfnOps(Whole, s, layer))
         /\ OpsShare(DeepSeekMoeFfnOps(deployment, s, layer),
                     DeepSeekMoeFfnOps(Whole, s, layer))
<1> DEFINE d     == deployment
           T     == s.totalTokens
           p     == ElementWise("mlp_add", T * d.hidden)
           Of(v) == <<Norm("mlp_norm", T * v.hidden), Router(T, v.experts, v.hidden),
                      ElementWise("moe_topk", T * v.experts),
                      MoEDispatch(v, "moe_dispatch_pre", TRUE, T),
                      MoE(v, T, SkewForLayer(v, layer)),
                      MoEDispatch(v, "moe_dispatch_post", FALSE, T)>>
           qs(v) == IF v.shared > 0 THEN QwenSharedExpertOps(v, s) ELSE <<>>
           ds(v) == IF v.shared > 0 THEN DeepSeekSharedExpertOps(v, s) ELSE <<>>
<1>1. \A v : /\ QwenMoeFfnOps(v, s, layer)
                  = (Of(v) \o qs(v)) \o <<ElementWise("mlp_add", T * v.hidden)>>
             /\ DeepSeekMoeFfnOps(v, s, layer)
                  = (Of(v) \o ds(v)) \o <<ElementWise("mlp_add", T * v.hidden)>>
  BY DEF QwenMoeFfnOps, DeepSeekMoeFfnOps
<1>2. Whole.hidden = d.hidden /\ Whole.shared = d.shared
  BY WholeIs
<1>3. T \in Nat /\ T * d.hidden \in Nat
  BY DeploymentTyped DEF ShapeTyped
<1>4. OpsShare(Of(d), Of(Whole))
  BY <1>3, ExpertsShared
<1>5. OpsShare(qs(d), qs(Whole)) /\ OpsShare(ds(d), ds(Whole))
  BY <1>2, SharedExpertsShared, NoneShared
<1>6. OpsShare(<<p>>, <<p>>)
  BY <1>3, ReplicatedDivided, OneShared
<1> HIDE DEF Of, qs, ds
<1>7. /\ QwenMoeFfnOps(d, s, layer) = (Of(d) \o qs(d)) \o <<p>>
      /\ QwenMoeFfnOps(Whole, s, layer) = (Of(Whole) \o qs(Whole)) \o <<p>>
      /\ DeepSeekMoeFfnOps(d, s, layer) = (Of(d) \o ds(d)) \o <<p>>
      /\ DeepSeekMoeFfnOps(Whole, s, layer) = (Of(Whole) \o ds(Whole)) \o <<p>>
  BY <1>1, <1>2
<1> HIDE DEF p
<1>8. /\ OpsShare(Of(d) \o qs(d), Of(Whole) \o qs(Whole))
      /\ OpsShare(Of(d) \o ds(d), Of(Whole) \o ds(Whole))
  BY <1>4, <1>5, OpsJoined
<1>9. /\ OpsShare((Of(d) \o qs(d)) \o <<p>>, (Of(Whole) \o qs(Whole)) \o <<p>>)
      /\ OpsShare((Of(d) \o ds(d)) \o <<p>>, (Of(Whole) \o ds(Whole)) \o <<p>>)
  BY <1>6, <1>8, OpsJoined
<1> QED
  BY <1>7, <1>9

\* A model has the same graph on one rank.
LEMMA SameGraph ==
  ASSUME deployment \in Deployments
  PROVE  /\ ArchOf(Whole) = ArchOf(deployment)
         /\ \A i : IsMoeLayer(Whole, i) = IsMoeLayer(deployment, i)
         /\ MoeLayers(Whole) = MoeLayers(deployment)
         /\ DenseLayers(Whole) = DenseLayers(deployment)
         /\ Whole.layers = deployment.layers
<1>1. /\ Whole.layers = deployment.layers /\ Whole.experts = deployment.experts
      /\ Whole.kvLora = deployment.kvLora
      /\ Whole.firstMoe = deployment.firstMoe /\ Whole.moeFreq = deployment.moeFreq
  BY WholeIs
<1>2. IsMoE(Whole) = IsMoE(deployment) /\ LayersOf(Whole) = LayersOf(deployment)
  BY <1>1 DEF IsMoE, LayersOf
<1>3. \A i : IsMoeLayer(Whole, i) = IsMoeLayer(deployment, i)
  BY <1>1, <1>2 DEF IsMoeLayer
<1>4. ArchOf(Whole) = ArchOf(deployment)
  BY <1>1, <1>2 DEF ArchOf
<1>5. MoeLayers(Whole) = MoeLayers(deployment)
  BY <1>2, <1>3 DEF MoeLayers
<1>6. DenseLayers(Whole) = DenseLayers(deployment)
  BY <1>2, <1>5 DEF DenseLayers
<1> QED
  BY <1>1, <1>3, <1>4, <1>5, <1>6

LEMMA FfnShared ==
  ASSUME deployment \in Deployments, Divides, NEW s, ShapeTyped(s), NEW layer
  PROVE  OpsShare(FfnOps(deployment, s, layer), FfnOps(Whole, s, layer))
<1> DEFINE d == deployment
           v == Whole
<1>1. ArchOf(v) = ArchOf(d) /\ IsMoeLayer(v, layer) = IsMoeLayer(d, layer)
  BY SameGraph
<1>2. IsMoeLayer(d, layer) \in BOOLEAN
  BY DEF IsMoeLayer
<1>3. CASE ArchOf(d) = "deepseek" /\ IsMoeLayer(d, layer)
  <2>1. /\ FfnOps(d, s, layer) = DeepSeekMoeFfnOps(d, s, layer)
        /\ FfnOps(v, s, layer) = DeepSeekMoeFfnOps(v, s, layer)
    BY <1>1, <1>3 DEF FfnOps
  <2> QED
    BY <2>1, MoeFfnShared
<1>4. CASE ArchOf(d) = "deepseek" /\ ~ IsMoeLayer(d, layer)
  <2>1. /\ FfnOps(d, s, layer) = DeepSeekDenseFfnOps(d, s)
        /\ FfnOps(v, s, layer) = DeepSeekDenseFfnOps(v, s)
    BY <1>1, <1>4 DEF FfnOps
  <2> QED
    BY <2>1, DenseShared
<1>5. CASE ArchOf(d) # "deepseek" /\ IsMoeLayer(d, layer)
  <2>1. /\ FfnOps(d, s, layer) = QwenMoeFfnOps(d, s, layer)
        /\ FfnOps(v, s, layer) = QwenMoeFfnOps(v, s, layer)
    BY <1>1, <1>5 DEF FfnOps
  <2> QED
    BY <2>1, MoeFfnShared
<1>6. CASE ArchOf(d) # "deepseek" /\ ~ IsMoeLayer(d, layer)
  <2>1. /\ FfnOps(d, s, layer) = QwenDenseFfnOps(d, s)
        /\ FfnOps(v, s, layer) = QwenDenseFfnOps(v, s)
    BY <1>1, <1>6 DEF FfnOps
  <2> QED
    BY <2>1, DenseShared
<1> QED
  BY <1>2, <1>3, <1>4, <1>5, <1>6

LEMMA OpsShared ==
  ASSUME deployment \in Deployments, Divides, NEW s, ShapeTyped(s)
  PROVE  /\ OpsShare(EmbeddingOps(deployment, s), EmbeddingOps(Whole, s))
         /\ OpsShare(AttentionOps(deployment, s), AttentionOps(Whole, s))
         /\ OpsShare(LmHeadOps(deployment, s), LmHeadOps(Whole, s))
<1> DEFINE d == deployment
           v == Whole
           x == Embedding(s.totalTokens, d.vocab, d.hidden)
           n == d.vocab \div d.tp
           h == GEMM("lm_head", LmHeadRows(s), n, d.hidden)
           H == GEMM("lm_head", LmHeadRows(s), d.vocab, d.hidden)
<1>1. v.vocab = d.vocab /\ v.hidden = d.hidden /\ v.vocab \div v.tp = d.vocab
  BY WholeIs, SplitDims
<1>2. EmbeddingOps(d, s) = <<x>> /\ EmbeddingOps(v, s) = <<x>>
  BY <1>1 DEF EmbeddingOps
<1>3. LmHeadOps(d, s) = <<h>> /\ LmHeadOps(v, s) = <<H>>
  BY <1>1 DEF LmHeadOps
<1>4. /\ s.totalTokens \in Nat /\ LmHeadRows(s) \in Nat
      /\ d.vocab \in Nat /\ d.hidden \in Nat /\ d.tp \in Nat
  BY DeploymentTyped DEF ShapeTyped, LmHeadRows, Larger
<1>5. Divided(x, x)
  BY <1>4, ReplicatedDivided
<1>6. n \in Nat /\ n * d.tp = d.vocab
  BY SplitDims
<1>7. Divided(h, H)
  <2> HIDE DEF n
  <2>1. (n * d.hidden) * d.tp = d.vocab * d.hidden
    BY <1>4, <1>6, Columns
  <2> QED
    BY <1>4, <1>6, <2>1, GemmDivided DEF SplitGemms
<1> HIDE DEF x, h, H
<1>8. OpsShare(<<x>>, <<x>>) /\ OpsShare(<<h>>, <<H>>)
  BY <1>5, <1>7, OneShared
<1>9. OpsShare(AttentionOps(d, s), AttentionOps(v, s))
  BY SameGraph, QwenAttentionShared, MlaAttentionShared DEF AttentionOps
<1> QED
  BY <1>2, <1>3, <1>8, <1>9

LEMMA PlanShared ==
  ASSUME deployment \in Deployments, Divides, NEW s, ShapeTyped(s)
  PROVE  Shares(PlanOf(deployment, s), PlanOf(Whole, s))
<1> DEFINE d    == deployment
           v    == Whole
           e(w) == Times(EmbeddingOps(w, s), 1)
           a(w) == Times(AttentionOps(w, s), w.layers)
           f(w) == BucketNodes(w, s, DenseLayers(w))
           m(w) == BucketNodes(w, s, MoeLayers(w))
           h(w) == Times(LmHeadOps(w, s), 1)
<1>1. \A w : PlanOf(w, s) = (((e(w) \o a(w)) \o f(w)) \o m(w)) \o h(w)
  BY DEF PlanOf
<1>2. Shares(e(d), e(v)) /\ Shares(a(d), a(v)) /\ Shares(h(d), h(v))
  <2>1. v.layers = d.layers
    BY SameGraph
  <2> QED
    BY <2>1, OpsShared DEF OpsShare
<1>3. \A layers : Shares(BucketNodes(d, s, layers), BucketNodes(v, s, layers))
  <2>1. Shares(<< >>, << >>)
    <3>1. IsSeq(<< >>)
      BY DEF IsSeq
    <3>2. DOMAIN << >> = {}
      OBVIOUS
    <3>3. LocalAt(<< >>) = {}
      BY <3>2 DEF LocalAt
    <3> QED
      BY <3>1, <3>3, NothingShared
  <2>2. \A layer, count : Shares(Times(FfnOps(d, s, layer), count), Times(FfnOps(v, s, layer), count))
    BY FfnShared DEF OpsShare
  <2> QED
    BY <2>1, <2>2 DEF BucketNodes
<1>4. Shares(f(d), f(v)) /\ Shares(m(d), m(v))
  BY <1>3, SameGraph
<1> HIDE DEF e, a, f, m, h
<1>5. Shares((e(d) \o a(d)) \o f(d), (e(v) \o a(v)) \o f(v))
  BY <1>2, <1>4, SharesJoined
<1>6. Shares((((e(d) \o a(d)) \o f(d)) \o m(d)) \o h(d),
             (((e(v) \o a(v)) \o f(v)) \o m(v)) \o h(v))
  BY <1>2, <1>4, <1>5, SharesJoined
<1>7. /\ PlanOf(d, s) = (((e(d) \o a(d)) \o f(d)) \o m(d)) \o h(d)
      /\ PlanOf(v, s) = (((e(v) \o a(v)) \o f(v)) \o m(v)) \o h(v)
  BY <1>1
<1> QED
  BY <1>6, <1>7, Zenon

LEMMA ShapeIsTyped ==
  ASSUME NEW so \in Steps
  PROVE  ShapeTyped(ShapeOf(Extract(so, Req)))
<1> DEFINE w == Extract(so, Req)
           s == ShapeOf(w)
           P == PrefillRequests(w)
           D == DecodeRequests(w)
           f == [r \in DOMAIN w |-> w[r].context]
<1>1. /\ IsFiniteSet(DOMAIN w)
      /\ \A r \in DOMAIN w : w[r].tokens \in Nat \ {0} /\ w[r].context \in Nat
  BY WorkloadTyped
<1>2. s.maxPrefill \in Nat /\ s.prefillRequests \in Nat
  BY PrefillsTyped
<1> HIDE DEF w
<1>3. /\ s.totalTokens = TokensOf(w, DOMAIN w) /\ s.prefillTokens = TokensOf(w, P)
      /\ s.decodeRequests = Cardinality(D) /\ s.avgContext = AvgDecodeContextLen(w)
  BY DEF ShapeOf
<1> HIDE DEF s
<1>4. P \in SUBSET DOMAIN w /\ D \in SUBSET DOMAIN w /\ DOMAIN w \in SUBSET DOMAIN w
  BY DEF PrefillRequests, DecodeRequests
<1> HIDE DEF P, D
<1>5. /\ TokensOf(w, DOMAIN w) \in Nat /\ TokensOf(w, P) \in Nat /\ Cardinality(D) \in Nat
      /\ (Cardinality(D) = 0 <=> D = {})
  BY <1>1, <1>4, TokensCounted
<1>6. ContextsOf(w, D) \in Nat
  <2>1. ContextsOf(w, D) = SumFunctionOnSet(f, D)
    BY DEF ContextsOf
  <2>2. \A r \in D : f[r] \in Int /\ f[r] >= 0
    BY <1>1, <1>4
  <2>3. IsFiniteSet(D)
    BY <1>1, <1>4, FS_Subset
  <2> HIDE DEF f
  <2> QED
    BY <2>1, <2>2, <2>3, SumType
<1>7. AvgDecodeContextLen(w) \in Nat
  <2>1. AvgDecodeContextLen(w) = IF D = {} THEN 0 ELSE ContextsOf(w, D) \div Cardinality(D)
    BY DEF AvgDecodeContextLen, D
  <2> QED
    BY <1>5, <1>6, <2>1, DivisionBounds
<1> QED
  BY <1>2, <1>3, <1>5, <1>7 DEF ShapeTyped, s, w

\* Whatever the model, its sharding and the step: when what is sharded
\* divides, the flops the ranks are charged for an operator are those of the
\* model on one rank, and the two plans have the same operators in the same
\* order, whatever collectives lie between them (qwen3.py, qwen3_moe.py,
\* deepseek.py, operators/moe.py).
THEOREM RanksShareTheWorkAlways == Spec => []RanksShareTheWork
<1>1. ASSUME IInv, HasPlan, Divides
      PROVE  Shares(Plan, PlanOf(Whole, StepShapeOf))
  <2>1. PICK so \in Steps, policy \in Policies : estimate = EstimateOf(so, policy)
    BY <1>1 DEF IInv, EstimateOK, NoEstimate, HasPlan
  <2>2. StepShapeOf = ShapeOf(Extract(so, Req))
    BY <2>1, EstimateIs DEF PricedBy, StepShapeOf
  <2>3. ShapeTyped(StepShapeOf)
    BY <2>2, ShapeIsTyped
  <2>4. deployment \in Deployments
    BY <1>1 DEF IInv
  <2> QED
    BY <1>1, <2>3, <2>4, PlanShared DEF Plan
<1>2. IInv => RanksShareTheWork
  BY <1>1 DEF Shares, SameWork, PlaceIn, RanksShareTheWork
<1> QED
  BY <1>2, InvCorrect, PTL
=============================================================================

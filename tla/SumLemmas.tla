------------------------------ MODULE SumLemmas -------------------------------
(***************************************************************************)
(* Sums over finite sets, of any size, and what else the proofs need of    *)
(* them and of sequences.  SumFunctionOnSet is recursive on the subsets    *)
(* of a set; what it computes is shown with the smallest subset for which  *)
(* it would be something else.                                             *)
(***************************************************************************)
EXTENDS Integers, Sequences, FiniteSetsExt, FiniteSetTheorems, TLAPS

-----------------------------------------------------------------------------
\* Induction on the subsets of a finite set.
LEMMA FromSmaller ==
  ASSUME NEW S, IsFiniteSet(S), NEW Good,
         \A T \in SUBSET S : (\A U \in SUBSET T : U # T => U \in Good) => T \in Good
  PROVE  SUBSET S \subseteq Good
<1> DEFINE R   == StrictSubsetOrdering(S)
           Bad == (SUBSET S) \ Good
<1>1. IsWellFoundedOn(R, SUBSET S)
  BY FS_StrictSubsetOrderingWellFounded, FS_FiniteSubsetsOfFinite
<1>2. \A x, y \in SUBSET S : y \subseteq x /\ y # x => <<y, x>> \in R
  BY DEF StrictSubsetOrdering
<1>3. SUFFICES ASSUME Bad # {} PROVE FALSE
  OBVIOUS
<1>4. PICK T \in Bad : \A U \in Bad : ~ (<<U, T>> \in R)
  <2>1. Bad \subseteq SUBSET S
    OBVIOUS
  <2> HIDE DEF R, Bad
  <2> QED
    BY <1>1, <1>3, <2>1, WFMin
<1>5. ASSUME NEW U \in SUBSET T, U # T
      PROVE  U \in Good
  <2>1. U \in SUBSET S /\ T \in SUBSET S
    OBVIOUS
  <2>2. <<U, T>> \in R
    <3> HIDE DEF R, Bad
    <3> QED
      BY <1>2, <1>5, <2>1
  <2>3. U \notin Bad
    <3> HIDE DEF R, Bad
    <3> QED
      BY <1>4, <2>2
  <2> QED
    BY <2>1, <2>3
<1> QED
  BY <1>4, <1>5

\* Induction by one element at a time.
LEMMA FromOneLess ==
  ASSUME NEW S, IsFiniteSet(S), NEW Good, {} \in Good,
         \A T \in SUBSET S : \A x \in S : T \in Good => T \cup {x} \in Good
  PROVE  S \in Good
<1>1. ASSUME NEW T \in SUBSET S, \A U \in SUBSET T : U # T => U \in Good
      PROVE  T \in Good
  <2>1. SUFFICES ASSUME T # {} PROVE T \in Good
    OBVIOUS
  <2>2. PICK x \in T : TRUE
    BY <2>1
  <2>3. T \ {x} \in Good /\ T = (T \ {x}) \cup {x}
    BY <1>1
  <2> QED
    BY <2>3
<1>2. SUBSET S \subseteq Good
  BY <1>1, FromSmaller
<1> QED
  BY <1>2

\* What a function takes a finite set to is finite.
LEMMA FiniteImage ==
  ASSUME NEW S, IsFiniteSet(S), NEW f
  PROVE  IsFiniteSet({f[i] : i \in S})
<1> DEFINE Good == {T \in SUBSET S : IsFiniteSet({f[i] : i \in T})}
<1>1. {} \in Good
  <2>1. {f[i] : i \in {}} = {}
    OBVIOUS
  <2> QED
    BY <2>1, FS_EmptySet
<1>2. ASSUME NEW T \in SUBSET S, NEW x \in S, T \in Good
      PROVE  T \cup {x} \in Good
  <2>1. {f[i] : i \in T \cup {x}} = {f[i] : i \in T} \cup {f[x]}
    OBVIOUS
  <2>2. IsFiniteSet({f[i] : i \in T} \cup {f[x]})
    BY <1>2, FS_AddElement
  <2> QED
    BY <2>1, <2>2
<1>3. S \in Good
  <2> HIDE DEF Good
  <2> QED
    BY <1>1, <1>2, FromOneLess
<1> QED
  BY <1>3

\* Subsets of an interval are finite.
LEMMA PartOfInterval ==
  ASSUME NEW n \in Nat, NEW S \in SUBSET (1..n)
  PROVE  IsFiniteSet(S) /\ Cardinality(S) \in Nat
<1>1. IsFiniteSet(1..n)
  BY FS_Interval
<1>2. IsFiniteSet(S)
  BY <1>1, FS_Subset
<1> QED
  BY <1>2, FS_CardinalityType

-----------------------------------------------------------------------------
(* What SumFunctionOnSet is defined to be.                                 *)

One(s) == CHOOSE x \in s : TRUE

IsSum(fun, S, g) ==
  g = [s \in SUBSET S |-> IF s = {} THEN 0 ELSE fun[One(s)] + g[s \ {One(s)}]]

LEMMA OneIn == \A s : s # {} => One(s) \in s
BY DEF One

LEMMA SumIsChosen ==
  ASSUME NEW S, NEW fun
  PROVE  SumFunctionOnSet(fun, S) = (CHOOSE g : IsSum(fun, S, g))[S]
BY DEF SumFunctionOnSet, FoldFunctionOnSet, MapThenFoldSet, IsSum, One

\* Two such functions agree where both are defined.
LEMMA IsSumUnique ==
  ASSUME NEW S, IsFiniteSet(S), NEW fun, NEW g, IsSum(fun, S, g),
         NEW T \in SUBSET S, NEW h, IsSum(fun, T, h)
  PROVE  \A s \in SUBSET T : g[s] = h[s]
<1> DEFINE Good == {s \in SUBSET T : g[s] = h[s]}
<1>1. IsFiniteSet(T)
  BY FS_Subset
<1>2. ASSUME NEW s \in SUBSET T, \A u \in SUBSET s : u # s => u \in Good
      PROVE  g[s] = h[s]
  <2>1. CASE s = {}
    BY <2>1 DEF IsSum
  <2>2. CASE s # {}
    <3>1. One(s) \in s
      BY <2>2, OneIn
    <3>2. g[s] = fun[One(s)] + g[s \ {One(s)}] /\ h[s] = fun[One(s)] + h[s \ {One(s)}]
      BY <2>2 DEF IsSum
    <3>3. g[s \ {One(s)}] = h[s \ {One(s)}]
      BY <1>2, <3>1
    <3> QED
      BY <3>2, <3>3
  <2> QED
    BY <2>1, <2>2
<1>3. SUBSET T \subseteq Good
  <2>1. \A s \in SUBSET T : (\A u \in SUBSET s : u # s => u \in Good) => s \in Good
    BY <1>2
  <2> HIDE DEF Good
  <2> QED
    BY <1>1, <2>1, FromSmaller
<1> QED
  BY <1>3

\* There is one for every finite set.
LEMMA IsSumExists ==
  ASSUME NEW S, IsFiniteSet(S), NEW fun
  PROVE  \E g : IsSum(fun, S, g)
<1> DEFINE Good == {T \in SUBSET S : \E g : IsSum(fun, T, g)}
           F(T) == CHOOSE g : IsSum(fun, T, g)
           V(T) == F(T)[T]
<1>1. SUFFICES ASSUME NEW T \in SUBSET S, \A U \in SUBSET T : U # T => U \in Good
               PROVE  T \in Good
  <2>1. SUBSET S \subseteq Good
    <3> HIDE DEF Good
    <3> QED
      BY <1>1, FromSmaller
  <2> QED
    BY <2>1
<1>2. \A U \in SUBSET T : U # T => IsFiniteSet(U) /\ IsSum(fun, U, F(U))
  BY <1>1, FS_Subset
<1> DEFINE h == [s \in SUBSET T |-> IF s = {} THEN 0 ELSE fun[One(s)] + V(s \ {One(s)})]
<1>5. ASSUME NEW U \in SUBSET T, U # T
      PROVE  V(U) = h[U]
  <2>1. IsFiniteSet(U) /\ IsSum(fun, U, F(U))
    BY <1>2, <1>5
  <2>2. CASE U = {}
    <3>1. V(U) = 0
      BY <2>1, <2>2 DEF IsSum
    <3> QED
      BY <2>2, <3>1
  <2>3. CASE U # {}
    <3> DEFINE W == U \ {One(U)}
    <3>1. W \in SUBSET U /\ W \in SUBSET T /\ W # T
      BY <1>5, <2>3, OneIn
    <3>2. IsSum(fun, W, F(W))
      BY <1>2, <3>1
    <3>3. F(U)[W] = F(W)[W]
      <4> HIDE DEF F, W
      <4>1. W \in SUBSET W
        OBVIOUS
      <4> QED
        BY <2>1, <3>1, <3>2, <4>1, IsSumUnique
    <3>4. F(U)[U] = fun[One(U)] + F(U)[W]
      <4> HIDE DEF F
      <4> QED
        BY <2>1, <2>3 DEF IsSum
    <3> QED
      BY <1>5, <2>3, <3>3, <3>4
  <2> QED
    BY <2>2, <2>3
<1>6. \A s \in SUBSET T : s # {} => h[s \ {One(s)}] = V(s \ {One(s)})
  <2> SUFFICES ASSUME NEW s \in SUBSET T, s # {} PROVE h[s \ {One(s)}] = V(s \ {One(s)})
    OBVIOUS
  <2>1. s \ {One(s)} \in SUBSET T /\ s \ {One(s)} # T
    BY OneIn
  <2> HIDE DEF h, V
  <2> QED
    BY <1>5, <2>1
<1>7. IsSum(fun, T, h)
  <2>1. h = [s \in SUBSET T |-> IF s = {} THEN 0 ELSE fun[One(s)] + h[s \ {One(s)}]]
    <3> HIDE DEF V
    <3>1. \A s \in SUBSET T : h[s] = IF s = {} THEN 0 ELSE fun[One(s)] + h[s \ {One(s)}]
      BY <1>6
    <3> QED
      BY <3>1
  <2> HIDE DEF h
  <2> QED
    BY <2>1 DEF IsSum
<1> HIDE DEF h
<1> QED
  BY <1>7

-----------------------------------------------------------------------------
(* What it computes.                                                       *)

LEMMA SumEmpty == ASSUME NEW fun PROVE SumFunctionOnSet(fun, {}) = 0
<1>1. IsFiniteSet({})
  BY FS_EmptySet
<1>2. PICK g : IsSum(fun, {}, g)
  BY <1>1, IsSumExists
<1>3. IsSum(fun, {}, CHOOSE x : IsSum(fun, {}, x))
  BY <1>2
<1> QED
  BY <1>3, SumIsChosen DEF IsSum

LEMMA SumChosen ==
  ASSUME NEW S, IsFiniteSet(S), S # {}, NEW fun
  PROVE  SumFunctionOnSet(fun, S) = fun[One(S)] + SumFunctionOnSet(fun, S \ {One(S)})
<1> DEFINE W    == S \ {One(S)}
           F(T) == CHOOSE g : IsSum(fun, T, g)
<1>1. W \in SUBSET S /\ IsFiniteSet(W)
  BY FS_Subset
<1>2. IsSum(fun, S, F(S)) /\ IsSum(fun, W, F(W))
  BY <1>1, IsSumExists
<1>3. SumFunctionOnSet(fun, S) = F(S)[S] /\ SumFunctionOnSet(fun, W) = F(W)[W]
  BY SumIsChosen
<1> HIDE DEF F
<1>4. F(S)[W] = F(W)[W]
  <2> HIDE DEF W
  <2> QED
    BY <1>1, <1>2, IsSumUnique
<1>5. F(S)[S] = fun[One(S)] + F(S)[W]
  BY <1>2 DEF IsSum
<1> QED
  BY <1>3, <1>4, <1>5

\* A sum of integers is an integer, a sum of naturals a natural.
LEMMA SumType ==
  ASSUME NEW S, IsFiniteSet(S), NEW fun, \A i \in S : fun[i] \in Int
  PROVE  /\ SumFunctionOnSet(fun, S) \in Int
         /\ (\A i \in S : fun[i] >= 0) => SumFunctionOnSet(fun, S) >= 0
<1> DEFINE P(T) == /\ SumFunctionOnSet(fun, T) \in Int
                   /\ (\A i \in T : fun[i] >= 0) => SumFunctionOnSet(fun, T) >= 0
           Good == {T \in SUBSET S : P(T)}
<1>1. ASSUME NEW T \in SUBSET S, \A U \in SUBSET T : U # T => U \in Good
      PROVE  P(T)
  <2>1. CASE T = {}
    BY <2>1, SumEmpty
  <2>2. CASE T # {}
    <3>1. One(T) \in T /\ One(T) \in S /\ IsFiniteSet(T)
      BY <2>2, OneIn, FS_Subset
    <3>2. P(T \ {One(T)})
      BY <1>1, <3>1
    <3>3. SumFunctionOnSet(fun, T) = fun[One(T)] + SumFunctionOnSet(fun, T \ {One(T)})
      BY <2>2, <3>1, SumChosen
    <3> QED
      BY <3>1, <3>2, <3>3
  <2> QED
    BY <2>1, <2>2
<1>2. SUBSET S \subseteq Good
  <2>1. \A T \in SUBSET S : (\A U \in SUBSET T : U # T => U \in Good) => T \in Good
    BY <1>1
  <2> HIDE DEF Good
  <2> QED
    BY <2>1, FromSmaller
<1> QED
  BY <1>2

\* Any element may be taken out first.
LEMMA SumRemove ==
  ASSUME NEW S, IsFiniteSet(S), NEW fun, \A i \in S : fun[i] \in Int, NEW x \in S
  PROVE  SumFunctionOnSet(fun, S) = fun[x] + SumFunctionOnSet(fun, S \ {x})
<1> DEFINE P(T) == \A y \in T : SumFunctionOnSet(fun, T)
                                   = fun[y] + SumFunctionOnSet(fun, T \ {y})
           Good == {T \in SUBSET S : P(T)}
<1>1. ASSUME NEW T \in SUBSET S, \A U \in SUBSET T : U # T => U \in Good, NEW y \in T
      PROVE  SumFunctionOnSet(fun, T) = fun[y] + SumFunctionOnSet(fun, T \ {y})
  <2> DEFINE c    == One(T)
             Rest == (T \ {c}) \ {y}
  <2>1. c \in T /\ IsFiniteSet(T)
    BY OneIn, FS_Subset
  <2>2. SumFunctionOnSet(fun, T) = fun[c] + SumFunctionOnSet(fun, T \ {c})
    BY <2>1, SumChosen
  <2>3. CASE c = y
    BY <2>2, <2>3
  <2>4. CASE c # y
    <3> HIDE DEF c
    <3>1. P(T \ {c}) /\ P(T \ {y})
      BY <1>1, <2>1
    <3>2. /\ SumFunctionOnSet(fun, T \ {c}) = fun[y] + SumFunctionOnSet(fun, Rest)
          /\ SumFunctionOnSet(fun, T \ {y}) = fun[c] + SumFunctionOnSet(fun, Rest)
      <4>1. (T \ {y}) \ {c} = Rest
        OBVIOUS
      <4> QED
        BY <2>1, <2>4, <3>1, <4>1
    <3>4. SumFunctionOnSet(fun, Rest) \in Int
      <4>1. Rest \in SUBSET S
        OBVIOUS
      <4>2. IsFiniteSet(Rest)
        BY <4>1, FS_Subset
      <4> QED
        BY <4>1, <4>2, SumType
    <3>5. fun[c] \in Int /\ fun[y] \in Int
      BY <2>1
    <3> HIDE DEF Rest
    <3> QED
      BY <2>2, <3>2, <3>4, <3>5
  <2> QED
    BY <2>3, <2>4
<1>2. SUBSET S \subseteq Good
  <2>1. \A T \in SUBSET S : (\A U \in SUBSET T : U # T => U \in Good) => T \in Good
    BY <1>1
  <2> HIDE DEF Good
  <2> QED
    BY <2>1, FromSmaller
<1> QED
  BY <1>2

\* Adding an element.
LEMMA SumAdd ==
  ASSUME NEW S, IsFiniteSet(S), NEW fun, \A i \in S : fun[i] \in Int,
         NEW x, x \notin S, fun[x] \in Int
  PROVE  SumFunctionOnSet(fun, S \cup {x}) = fun[x] + SumFunctionOnSet(fun, S)
<1>1. IsFiniteSet(S \cup {x}) /\ (S \cup {x}) \ {x} = S
  BY FS_AddElement
<1>2. \A i \in S \cup {x} : fun[i] \in Int
  OBVIOUS
<1>3. SumFunctionOnSet(fun, S \cup {x}) = fun[x] + SumFunctionOnSet(fun, (S \cup {x}) \ {x})
  BY <1>1, <1>2, SumRemove
<1> QED
  BY <1>1, <1>3

-----------------------------------------------------------------------------
(* Sums compared.  Each is shown by adding the elements one at a time.     *)

LEMMA SumSame ==
  ASSUME NEW S, IsFiniteSet(S), NEW f, NEW g, \A i \in S : f[i] \in Int /\ g[i] = f[i]
  PROVE  SumFunctionOnSet(g, S) = SumFunctionOnSet(f, S)
<1> DEFINE Good == {T \in SUBSET S : SumFunctionOnSet(g, T) = SumFunctionOnSet(f, T)}
<1>1. {} \in Good
  BY SumEmpty
<1>2. ASSUME NEW T \in SUBSET S, NEW x \in S, T \in Good
      PROVE  T \cup {x} \in Good
  <2>1. CASE x \in T
    BY <1>2, <2>1, T \cup {x} = T
  <2>2. CASE x \notin T
    <3>1. IsFiniteSet(T) /\ T \cup {x} \in SUBSET S
      BY FS_Subset
    <3>2. /\ SumFunctionOnSet(f, T \cup {x}) = f[x] + SumFunctionOnSet(f, T)
          /\ SumFunctionOnSet(g, T \cup {x}) = g[x] + SumFunctionOnSet(g, T)
      BY <2>2, <3>1, SumAdd
    <3> QED
      BY <1>2, <3>1, <3>2
  <2> QED
    BY <2>1, <2>2
<1>3. S \in Good
  <2> HIDE DEF Good
  <2> QED
    BY <1>1, <1>2, FromOneLess
<1> QED
  BY <1>3

LEMMA SumPlus ==
  ASSUME NEW S, IsFiniteSet(S), NEW f, NEW g, NEW h,
         \A i \in S : f[i] \in Int /\ g[i] \in Int /\ h[i] = f[i] + g[i]
  PROVE  SumFunctionOnSet(h, S) = SumFunctionOnSet(f, S) + SumFunctionOnSet(g, S)
<1> DEFINE Good == {T \in SUBSET S : SumFunctionOnSet(h, T)
                                       = SumFunctionOnSet(f, T) + SumFunctionOnSet(g, T)}
<1>1. {} \in Good
  BY SumEmpty
<1>2. ASSUME NEW T \in SUBSET S, NEW x \in S, T \in Good
      PROVE  T \cup {x} \in Good
  <2>1. CASE x \in T
    BY <1>2, <2>1, T \cup {x} = T
  <2>2. CASE x \notin T
    <3>1. IsFiniteSet(T) /\ T \cup {x} \in SUBSET S
      BY FS_Subset
    <3>2. /\ SumFunctionOnSet(f, T \cup {x}) = f[x] + SumFunctionOnSet(f, T)
          /\ SumFunctionOnSet(g, T \cup {x}) = g[x] + SumFunctionOnSet(g, T)
          /\ SumFunctionOnSet(h, T \cup {x}) = h[x] + SumFunctionOnSet(h, T)
      BY <2>2, <3>1, SumAdd
    <3>3. SumFunctionOnSet(f, T) \in Int /\ SumFunctionOnSet(g, T) \in Int
      BY <3>1, SumType
    <3> QED
      BY <1>2, <3>1, <3>2, <3>3
  <2> QED
    BY <2>1, <2>2
<1>3. S \in Good
  <2> HIDE DEF Good
  <2> QED
    BY <1>1, <1>2, FromOneLess
<1> QED
  BY <1>3

LEMMA SumAtMost ==
  ASSUME NEW S, IsFiniteSet(S), NEW f, NEW g,
         \A i \in S : f[i] \in Int /\ g[i] \in Int /\ f[i] <= g[i]
  PROVE  SumFunctionOnSet(f, S) <= SumFunctionOnSet(g, S)
<1> DEFINE d == [i \in S |-> g[i] - f[i]]
<1>1. \A i \in S : d[i] \in Int /\ d[i] >= 0 /\ g[i] = f[i] + d[i]
  OBVIOUS
<1> HIDE DEF d
<1>2. SumFunctionOnSet(g, S) = SumFunctionOnSet(f, S) + SumFunctionOnSet(d, S)
  BY <1>1, SumPlus
<1>3. /\ SumFunctionOnSet(d, S) \in Int /\ SumFunctionOnSet(d, S) >= 0
      /\ SumFunctionOnSet(f, S) \in Int
  BY <1>1, SumType
<1> QED
  BY <1>2, <1>3

\* Every element has the same value.
LEMMA SumConstant ==
  ASSUME NEW S, IsFiniteSet(S), NEW f, NEW c \in Int, \A i \in S : f[i] = c
  PROVE  SumFunctionOnSet(f, S) = c * Cardinality(S)
<1> DEFINE Good == {T \in SUBSET S : SumFunctionOnSet(f, T) = c * Cardinality(T)}
<1>1. {} \in Good
  BY SumEmpty, FS_EmptySet
<1>2. ASSUME NEW T \in SUBSET S, NEW x \in S, T \in Good
      PROVE  T \cup {x} \in Good
  <2>1. CASE x \in T
    BY <1>2, <2>1, T \cup {x} = T
  <2>2. CASE x \notin T
    <3>1. IsFiniteSet(T) /\ T \cup {x} \in SUBSET S
      BY FS_Subset
    <3>2. SumFunctionOnSet(f, T \cup {x}) = c + SumFunctionOnSet(f, T)
      BY <2>2, <3>1, SumAdd
    <3>3. Cardinality(T) \in Nat /\ Cardinality(T \cup {x}) = Cardinality(T) + 1
      BY <2>2, <3>1, FS_AddElement, FS_CardinalityType
    <3>4. c * (Cardinality(T) + 1) = c * Cardinality(T) + c
      BY <3>3
    <3> QED
      BY <1>2, <3>1, <3>2, <3>3, <3>4
  <2> QED
    BY <2>1, <2>2
<1>3. S \in Good
  <2> HIDE DEF Good
  <2> QED
    BY <1>1, <1>2, FromOneLess
<1> QED
  BY <1>3

\* A common factor.
LEMMA SumScaled ==
  ASSUME NEW S, IsFiniteSet(S), NEW f, NEW g, NEW c \in Int,
         \A i \in S : f[i] \in Int /\ g[i] = f[i] * c
  PROVE  SumFunctionOnSet(g, S) = SumFunctionOnSet(f, S) * c
<1> DEFINE Good == {T \in SUBSET S : SumFunctionOnSet(g, T) = SumFunctionOnSet(f, T) * c}
<1>1. {} \in Good
  BY SumEmpty
<1>2. ASSUME NEW T \in SUBSET S, NEW x \in S, T \in Good
      PROVE  T \cup {x} \in Good
  <2>1. CASE x \in T
    BY <1>2, <2>1, T \cup {x} = T
  <2>2. CASE x \notin T
    <3>1. IsFiniteSet(T) /\ T \cup {x} \in SUBSET S
      BY FS_Subset
    <3>2. \A i \in S : g[i] \in Int
      OBVIOUS
    <3>3. /\ SumFunctionOnSet(f, T \cup {x}) = f[x] + SumFunctionOnSet(f, T)
          /\ SumFunctionOnSet(g, T \cup {x}) = g[x] + SumFunctionOnSet(g, T)
      BY <2>2, <3>1, <3>2, SumAdd
    <3>4. SumFunctionOnSet(f, T) \in Int
      BY <3>1, SumType
    <3>5. \A u, v \in Int : (u + v) * c = u * c + v * c
      OBVIOUS
    <3>6. SumFunctionOnSet(g, T \cup {x}) = SumFunctionOnSet(f, T \cup {x}) * c
      BY <1>2, <3>3, <3>4, <3>5
    <3> QED
      BY <3>1, <3>6
  <2> QED
    BY <2>1, <2>2
<1>3. S \in Good
  <2> HIDE DEF Good
  <2> QED
    BY <1>1, <1>2, FromOneLess
<1> QED
  BY <1>3

\* Sums of disjoint sets add up.
LEMMA SumUnion ==
  ASSUME NEW S, IsFiniteSet(S), NEW R, IsFiniteSet(R), S \cap R = {},
         NEW f, \A i \in S \cup R : f[i] \in Int
  PROVE  SumFunctionOnSet(f, S \cup R) = SumFunctionOnSet(f, S) + SumFunctionOnSet(f, R)
<1> DEFINE Good == {T \in SUBSET S : SumFunctionOnSet(f, T \cup R)
                                       = SumFunctionOnSet(f, T) + SumFunctionOnSet(f, R)}
<1>0. SumFunctionOnSet(f, R) \in Int
  BY SumType
<1>1. {} \in Good
  BY <1>0, SumEmpty, {} \cup R = R
<1>2. ASSUME NEW T \in SUBSET S, NEW x \in S, T \in Good
      PROVE  T \cup {x} \in Good
  <2>1. CASE x \in T
    BY <1>2, <2>1, T \cup {x} = T
  <2>2. CASE x \notin T
    <3>1. IsFiniteSet(T) /\ IsFiniteSet(T \cup R) /\ T \cup {x} \in SUBSET S
      BY FS_Subset, FS_Union
    <3>2. x \notin T \cup R /\ (T \cup {x}) \cup R = (T \cup R) \cup {x}
      BY <2>2
    <3>3. /\ SumFunctionOnSet(f, T \cup {x}) = f[x] + SumFunctionOnSet(f, T)
          /\ SumFunctionOnSet(f, (T \cup {x}) \cup R) = f[x] + SumFunctionOnSet(f, T \cup R)
      <4>1. \A i \in T \cup R : f[i] \in Int
        OBVIOUS
      <4> QED
        BY <2>2, <3>1, <3>2, <4>1, SumAdd
    <3>4. SumFunctionOnSet(f, T) \in Int
      BY <3>1, SumType
    <3>5. SumFunctionOnSet(f, T \cup R) = SumFunctionOnSet(f, T) + SumFunctionOnSet(f, R)
      BY <1>2
    <3>6. SumFunctionOnSet(f, (T \cup {x}) \cup R)
            = SumFunctionOnSet(f, T \cup {x}) + SumFunctionOnSet(f, R)
      BY <1>0, <3>3, <3>4, <3>5
    <3> QED
      BY <3>1, <3>6
  <2> QED
    BY <2>1, <2>2
<1>3. S \in Good
  <2> HIDE DEF Good
  <2> QED
    BY <1>1, <1>2, FromOneLess
<1> QED
  BY <1>3

\* The same values in another order.
LEMMA SumRenamed ==
  ASSUME NEW S, IsFiniteSet(S), NEW f, NEW g, NEW to,
         \A i \in S : g[to[i]] \in Int /\ f[i] = g[to[i]],
         \A i, j \in S : to[i] = to[j] => i = j
  PROVE  SumFunctionOnSet(f, S) = SumFunctionOnSet(g, {to[i] : i \in S})
<1> DEFINE Image(T) == {to[i] : i \in T}
           Good == {T \in SUBSET S : /\ IsFiniteSet(Image(T))
                                     /\ SumFunctionOnSet(f, T) = SumFunctionOnSet(g, Image(T))}
<1>1. {} \in Good
  <2>1. Image({}) = {}
    OBVIOUS
  <2> QED
    BY <2>1, SumEmpty, FS_EmptySet
<1>2. ASSUME NEW T \in SUBSET S, NEW x \in S, T \in Good
      PROVE  T \cup {x} \in Good
  <2>1. CASE x \in T
    BY <1>2, <2>1, T \cup {x} = T
  <2>2. CASE x \notin T
    <3>1. IsFiniteSet(T) /\ T \cup {x} \in SUBSET S
      BY FS_Subset
    <3>2. Image(T \cup {x}) = Image(T) \cup {to[x]} /\ to[x] \notin Image(T)
      BY <2>2
    <3>3. SumFunctionOnSet(f, T \cup {x}) = f[x] + SumFunctionOnSet(f, T)
      BY <2>2, <3>1, SumAdd
    <3>4. \A v \in Image(T) : g[v] \in Int
      OBVIOUS
    <3>5. IsFiniteSet(Image(T)) /\ SumFunctionOnSet(f, T) = SumFunctionOnSet(g, Image(T))
      BY <1>2
    <3>6. /\ IsFiniteSet(Image(T) \cup {to[x]})
          /\ SumFunctionOnSet(g, Image(T) \cup {to[x]}) = g[to[x]] + SumFunctionOnSet(g, Image(T))
      <4> HIDE DEF Image
      <4> QED
        BY <3>2, <3>4, <3>5, SumAdd, FS_AddElement
    <3> QED
      BY <3>1, <3>2, <3>3, <3>5, <3>6
  <2> QED
    BY <2>1, <2>2
<1>3. S \in Good
  <2> HIDE DEF Good
  <2> QED
    BY <1>1, <1>2, FromOneLess
<1> QED
  BY <1>3

\* Elements that count for nothing may be left out.
LEMMA SumPadded ==
  ASSUME NEW R, IsFiniteSet(R), NEW S \in SUBSET R, NEW f, NEW g,
         \A i \in S : f[i] \in Int /\ g[i] = f[i],
         \A i \in R \ S : g[i] = 0
  PROVE  SumFunctionOnSet(g, R) = SumFunctionOnSet(f, S)
<1>1. IsFiniteSet(S) /\ IsFiniteSet(R \ S) /\ S \cup (R \ S) = R /\ S \cap (R \ S) = {}
  BY FS_Subset
<1>2. \A i \in S \cup (R \ S) : g[i] \in Int
  OBVIOUS
<1>3. SumFunctionOnSet(g, R) = SumFunctionOnSet(g, S) + SumFunctionOnSet(g, R \ S)
  <2>1. SumFunctionOnSet(g, S \cup (R \ S)) = SumFunctionOnSet(g, S) + SumFunctionOnSet(g, R \ S)
    BY ONLY <1>1, <1>2, SumUnion
  <2> QED
    BY ONLY <1>1, <2>1, Zenon
<1>4. SumFunctionOnSet(g, S) = SumFunctionOnSet(f, S) /\ SumFunctionOnSet(f, S) \in Int
  BY <1>1, SumSame, SumType
<1>5. SumFunctionOnSet(g, R \ S) = 0
  <2>1. SumFunctionOnSet(g, R \ S) = 0 * Cardinality(R \ S)
    BY <1>1, SumConstant
  <2> QED
    BY <1>1, <2>1, FS_CardinalityType
<1> QED
  BY <1>1, <1>3, <1>4, <1>5

-----------------------------------------------------------------------------
(* Numbers: induction up to a bound, extreme members of finite sets.       *)

LEMMA UpToBound ==
  ASSUME NEW n \in Nat, NEW Good, 0 \in Good,
         \A i \in 0..n : i < n /\ i \in Good => i + 1 \in Good
  PROVE  0..n \subseteq Good
<1> DEFINE S    == 1..n
           Sets == {T \in SUBSET S : \A i \in 0..n : T = 1..i => i \in Good}
<1>1. IsFiniteSet(S)
  BY FS_Interval
<1>2. ASSUME NEW T \in SUBSET S, \A U \in SUBSET T : U # T => U \in Sets,
             NEW i \in 0..n, T = 1..i
      PROVE  i \in Good
  <2>1. CASE i = 0
    BY <2>1
  <2>2. CASE i # 0
    <3>1. 1..(i - 1) \in SUBSET T /\ 1..(i - 1) # T /\ i - 1 \in 0..n
      BY <1>2, <2>2
    <3>2. i - 1 \in Good
      BY <1>2, <3>1
    <3> QED
      BY <3>1, <3>2
  <2> QED
    BY <2>1, <2>2
<1>3. SUBSET S \subseteq Sets
  <2>1. \A T \in SUBSET S : (\A U \in SUBSET T : U # T => U \in Sets) => T \in Sets
    BY <1>2
  <2> HIDE DEF S, Sets
  <2> QED
    BY <1>1, <2>1, FromSmaller
<1>4. \A i \in 0..n : 1..i \in SUBSET S
  OBVIOUS
<1> QED
  BY <1>3, <1>4

\* A finite set of numbers has a greatest and a least member.
LEMMA MaxIn ==
  ASSUME NEW S, IsFiniteSet(S), S # {}, \A x \in S : x \in Int
  PROVE  Max(S) \in S /\ \A x \in S : x <= Max(S)
<1> DEFINE Good == {T \in SUBSET S : T # {} => \E m \in T : \A x \in T : m >= x}
<1>1. {} \in Good
  OBVIOUS
<1>2. ASSUME NEW T \in SUBSET S, NEW y \in S, T \in Good
      PROVE  T \cup {y} \in Good
  <2>1. CASE T = {}
    BY <2>1
  <2>2. CASE T # {}
    <3>1. PICK m \in T : \A x \in T : m >= x
      BY <1>2, <2>2
    <3>2. CASE m >= y
      BY <3>1, <3>2
    <3>3. CASE ~ (m >= y)
      BY <3>1, <3>3
    <3> QED
      BY <3>2, <3>3
  <2> QED
    BY <2>1, <2>2
<1>3. S \in Good
  <2>1. \A T \in SUBSET S : \A x \in S : T \in Good => T \cup {x} \in Good
    BY <1>2
  <2> HIDE DEF Good
  <2> QED
    BY <1>1, <2>1, FromOneLess
<1>4. \E m \in S : \A x \in S : m >= x
  BY <1>3
<1>5. Max(S) \in S /\ \A x \in S : Max(S) >= x
  BY <1>4 DEF Max
<1> QED
  BY <1>5

LEMMA MinIn ==
  ASSUME NEW S, IsFiniteSet(S), S # {}, \A x \in S : x \in Int
  PROVE  Min(S) \in S /\ \A x \in S : Min(S) <= x
<1> DEFINE Good == {T \in SUBSET S : T # {} => \E m \in T : \A x \in T : m <= x}
<1>1. {} \in Good
  OBVIOUS
<1>2. ASSUME NEW T \in SUBSET S, NEW y \in S, T \in Good
      PROVE  T \cup {y} \in Good
  <2>1. CASE T = {}
    BY <2>1
  <2>2. CASE T # {}
    <3>1. PICK m \in T : \A x \in T : m <= x
      BY <1>2, <2>2
    <3>2. CASE m <= y
      BY <3>1, <3>2
    <3>3. CASE ~ (m <= y)
      BY <3>1, <3>3
    <3> QED
      BY <3>2, <3>3
  <2> QED
    BY <2>1, <2>2
<1>3. S \in Good
  <2>1. \A T \in SUBSET S : \A x \in S : T \in Good => T \cup {x} \in Good
    BY <1>2
  <2> HIDE DEF Good
  <2> QED
    BY <1>1, <2>1, FromOneLess
<1>4. \E m \in S : \A x \in S : m <= x
  BY <1>3
<1>5. Min(S) \in S /\ \A x \in S : Min(S) <= x
  BY <1>4 DEF Min
<1> QED
  BY <1>5
-----------------------------------------------------------------------------
(* Sequences of any values.                                                *)

IsSeq(s) == s \in Seq({s[i] : i \in DOMAIN s})

LEMMA SeqOf1 == \A a : IsSeq(<<a>>)
BY DEF IsSeq

LEMMA SeqOf2 == \A a, b : IsSeq(<<a, b>>)
BY DEF IsSeq

LEMMA SeqOf3 == \A a, b, c : IsSeq(<<a, b, c>>)
BY DEF IsSeq

LEMMA SeqOf6 == \A a, b, c, d, e, f : IsSeq(<<a, b, c, d, e, f>>)
BY DEF IsSeq

LEMMA SeqIs ==
  ASSUME NEW u, NEW R, Len(u) \in Nat, u = [i \in 1..Len(u) |-> u[i]],
         \A i \in 1..Len(u) : u[i] \in R
  PROVE  u \in Seq(R)
OBVIOUS

LEMMA SeqOfAll ==
  ASSUME NEW S, NEW u \in Seq(S)
  PROVE  IsSeq(u)
<1>1. Len(u) \in Nat /\ u = [i \in 1..Len(u) |-> u[i]] /\ DOMAIN u = 1..Len(u)
  OBVIOUS
<1> DEFINE R == {u[i] : i \in DOMAIN u}
<1>2. \A i \in 1..Len(u) : u[i] \in R
  BY <1>1
<1>3. u \in Seq(R)
  <2> HIDE DEF R
  <2> QED
    BY <1>1, <1>2, SeqIs
<1> QED
  BY <1>3 DEF IsSeq

LEMMA Joined ==
  ASSUME NEW s, NEW t, IsSeq(s), IsSeq(t)
  PROVE  /\ IsSeq(s \o t)
         /\ Len(s) \in Nat /\ Len(t) \in Nat
         /\ Len(s \o t) = Len(s) + Len(t)
         /\ DOMAIN (s \o t) = 1..(Len(s) + Len(t))
         /\ DOMAIN s = 1..Len(s) /\ DOMAIN t = 1..Len(t)
         /\ \A i \in 1..Len(s) : (s \o t)[i] = s[i]
         /\ \A i \in 1..Len(t) : (s \o t)[Len(s) + i] = t[i]
<1> DEFINE S == {s[i] : i \in DOMAIN s} \cup {t[i] : i \in DOMAIN t}
<1>1. s \in Seq(S) /\ t \in Seq(S)
  <2>1. s \in Seq({s[i] : i \in DOMAIN s}) /\ t \in Seq({t[i] : i \in DOMAIN t})
    BY DEF IsSeq
  <2>2. Len(s) \in Nat /\ Len(t) \in Nat /\ DOMAIN s = 1..Len(s) /\ DOMAIN t = 1..Len(t)
    BY <2>1
  <2>3. \A i \in 1..Len(s) : s[i] \in S
    BY <2>2
  <2>4. \A i \in 1..Len(t) : t[i] \in S
    BY <2>2
  <2>5. s = [i \in 1..Len(s) |-> s[i]] /\ t = [i \in 1..Len(t) |-> t[i]]
    BY <2>1
  <2> HIDE DEF S
  <2> QED
    BY <2>2, <2>3, <2>4, <2>5
<1> HIDE DEF S
<1>2. /\ s \o t \in Seq(S) /\ Len(s) \in Nat /\ Len(t) \in Nat
      /\ Len(s \o t) = Len(s) + Len(t)
      /\ DOMAIN (s \o t) = 1..(Len(s) + Len(t))
      /\ DOMAIN s = 1..Len(s) /\ DOMAIN t = 1..Len(t)
  BY <1>1
<1>3. \A i \in 1..Len(s) : (s \o t)[i] = s[i]
  BY <1>1
<1>4. \A i \in 1..Len(t) : (s \o t)[Len(s) + i] = t[i]
  BY <1>1
<1>5. IsSeq(s \o t)
  BY <1>2, SeqOfAll
<1> QED
  BY <1>2, <1>3, <1>4, <1>5

LEMMA JoinAssociative ==
  ASSUME NEW s, NEW t, NEW u, IsSeq(s), IsSeq(t), IsSeq(u)
  PROVE  s \o (t \o u) = (s \o t) \o u
<1> DEFINE S == {s[i] : i \in DOMAIN s} \cup {t[i] : i \in DOMAIN t} \cup {u[i] : i \in DOMAIN u}
<1>1. \A v \in {s, t, u} : v \in Seq(S)
  <2>1. ASSUME NEW v \in {s, t, u} PROVE v \in Seq(S)
    <3>1. v \in Seq({v[i] : i \in DOMAIN v})
      BY DEF IsSeq
    <3>2. Len(v) \in Nat /\ DOMAIN v = 1..Len(v) /\ v = [i \in 1..Len(v) |-> v[i]]
      BY <3>1
    <3>3. \A i \in 1..Len(v) : v[i] \in S
      BY <3>2
    <3> HIDE DEF S
    <3> QED
      BY <3>2, <3>3, SeqIs
  <2> QED
    BY <2>1
<1> HIDE DEF S
<1>2. s \in Seq(S) /\ t \in Seq(S) /\ u \in Seq(S)
  BY <1>1
<1> QED
  BY <1>2

LEMMA LastOf2 ==
  ASSUME NEW a, NEW b
  PROVE  <<a, b>> = <<a>> \o <<b>>
<1> DEFINE u == <<a>> \o <<b>>
<1>1. <<a>> \in Seq({a, b}) /\ <<b>> \in Seq({a, b}) /\ <<a, b>> \in Seq({a, b})
  OBVIOUS
<1>2. u \in Seq({a, b})
  BY <1>1
<1>3. Len(u) = 2 /\ u[1] = a /\ u[2] = b
  OBVIOUS
<1> HIDE DEF u
<1>4. u = <<a, b>>
  BY <1>2, <1>3
<1> QED
  BY <1>4 DEF u

LEMMA LastOf3 == \A a, b, c : <<a, b, c>> = <<a, b>> \o <<c>>
OBVIOUS

LEMMA LastOf4 == \A a, b, c, d : <<a, b, c, d>> = <<a, b, c>> \o <<d>>
OBVIOUS

\* The sum over a sequence that is joined from two.
LEMMA SumJoined ==
  ASSUME NEW m \in Nat, NEW n \in Nat, NEW f, NEW g, NEW h,
         \A i \in 1..m : f[i] \in Int /\ h[i] = f[i],
         \A i \in 1..n : g[i] \in Int /\ h[m + i] = g[i]
  PROVE  SumFunctionOnSet(h, 1..(m + n)) = SumFunctionOnSet(f, 1..m) + SumFunctionOnSet(g, 1..n)
<1> DEFINE N  == 1..n
           to == [i \in N |-> m + i]
           R  == {to[i] : i \in N}
<1>1. IsFiniteSet(1..m) /\ IsFiniteSet(N)
  BY FS_Interval
<1>2. IsFiniteSet(R)
  <2> HIDE DEF N, to
  <2> QED
    BY <1>1, FiniteImage
<1>3. \A i \in 1..n : to[i] = m + i
  OBVIOUS
<1>4. (1..m) \cap R = {} /\ 1..(m + n) = (1..m) \cup R
  <2>1. \A x \in R : x \in m + 1 .. m + n
    OBVIOUS
  <2>2. ASSUME NEW x \in m + 1 .. m + n PROVE x \in R
    <3>1. x - m \in 1..n /\ to[x - m] = x
      OBVIOUS
    <3> QED
      BY <3>1
  <2> HIDE DEF R
  <2> QED
    BY <2>1, <2>2
<1>5. \A x \in R : h[x] \in Int
  BY <1>3
<1> HIDE DEF to
<1>6. SumFunctionOnSet(g, N) = SumFunctionOnSet(h, R)
  <2>1. \A i \in N : h[to[i]] \in Int /\ g[i] = h[to[i]]
    BY <1>3
  <2>2. \A i, j \in N : to[i] = to[j] => i = j
    BY <1>3
  <2> HIDE DEF N
  <2> QED
    BY <1>1, <2>1, <2>2, SumRenamed
<1> HIDE DEF R
<1>7. SumFunctionOnSet(h, 1..m) = SumFunctionOnSet(f, 1..m)
  <2> DEFINE S == 1..m
  <2>1. \A i \in S : f[i] \in Int /\ h[i] = f[i]
    OBVIOUS
  <2>2. IsFiniteSet(S)
    BY <1>1
  <2> HIDE DEF S
  <2>3. SumFunctionOnSet(h, S) = SumFunctionOnSet(f, S)
    BY <2>1, <2>2, SumSame
  <2> QED
    BY <2>3 DEF S
<1>8. SumFunctionOnSet(h, (1..m) \cup R) = SumFunctionOnSet(h, 1..m) + SumFunctionOnSet(h, R)
  <2> DEFINE S == 1..m
  <2>1. \A i \in S \cup R : h[i] \in Int
    BY <1>5
  <2>2. IsFiniteSet(S) /\ S \cap R = {}
    BY <1>1, <1>4
  <2> HIDE DEF S
  <2>3. SumFunctionOnSet(h, S \cup R) = SumFunctionOnSet(h, S) + SumFunctionOnSet(h, R)
    BY <1>2, <2>1, <2>2, SumUnion
  <2> QED
    BY <2>3 DEF S
<1> QED
  BY <1>4, <1>6, <1>7, <1>8

-----------------------------------------------------------------------------
(* Counting: pairs, and the choices of k elements.                         *)

\* How many of A are in X, by marks of 1.
LEMMA MarksCounted ==
  ASSUME NEW A, IsFiniteSet(A), NEW X, NEW f,
         \A a \in A : f[a] = IF a \in X THEN 1 ELSE 0
  PROVE  SumFunctionOnSet(f, A) = Cardinality(A \cap X)
<1> DEFINE S == A \cap X
<1>1. S \in SUBSET A /\ IsFiniteSet(S) /\ Cardinality(S) \in Nat
  BY FS_Intersection, FS_CardinalityType
<1>2. (\A a \in S : f[a] = 1 /\ f[a] \in Int) /\ \A a \in A \ S : f[a] = 0
  OBVIOUS
<1> HIDE DEF S
<1>3. SumFunctionOnSet(f, A) = SumFunctionOnSet(f, S)
  BY <1>1, <1>2, SumPadded
<1>4. SumFunctionOnSet(f, S) = 1 * Cardinality(S)
  BY <1>1, <1>2, SumConstant
<1> QED
  BY <1>1, <1>3, <1>4 DEF S

\* Pairs are counted row by row or column by column.
LEMMA CountedTwice ==
  ASSUME NEW A, IsFiniteSet(A), NEW B, IsFiniteSet(B),
         NEW column \in [B -> SUBSET A], NEW row \in [A -> SUBSET B],
         \A a \in A, b \in B : a \in column[b] <=> b \in row[a],
         NEW f, \A b \in B : f[b] = Cardinality(column[b]),
         NEW g, \A a \in A : g[a] = Cardinality(row[a])
  PROVE  SumFunctionOnSet(f, B) = SumFunctionOnSet(g, A)
<1> DEFINE Row(a, T) == row[a] \cap T
           Rows(T)   == [a \in A |-> Cardinality(Row(a, T))]
           Good == {T \in SUBSET B : SumFunctionOnSet(f, T) = SumFunctionOnSet(Rows(T), A)}
<1>1. /\ \A a \in A, T \in SUBSET B : IsFiniteSet(Row(a, T)) /\ Cardinality(Row(a, T)) \in Nat
      /\ \A b \in B : IsFiniteSet(column[b]) /\ Cardinality(column[b]) \in Nat
      /\ \A T \in SUBSET B : IsFiniteSet(T)
  <2>1. (\A a \in A, T \in SUBSET B : Row(a, T) \in SUBSET B) /\ \A b \in B : column[b] \in SUBSET A
    OBVIOUS
  <2>2. /\ \A X \in SUBSET B : IsFiniteSet(X) /\ Cardinality(X) \in Nat
        /\ \A X \in SUBSET A : IsFiniteSet(X) /\ Cardinality(X) \in Nat
    BY FS_Subset, FS_CardinalityType
  <2> HIDE DEF Row
  <2> QED
    BY <2>1, <2>2
<1>2. \A b \in B : f[b] = Cardinality(column[b]) /\ f[b] \in Int
  <2>1. \A b \in B : f[b] = Cardinality(column[b])
    OBVIOUS
  <2> HIDE DEF Row
  <2> QED
    BY <1>1, <2>1
<1>3. {} \in Good
  <2>1. \A a \in A : Rows({})[a] = 0
    <3>1. \A a \in A : Row(a, {}) = {}
      OBVIOUS
    <3> HIDE DEF Row
    <3> QED
      BY <3>1, FS_EmptySet
  <2>2. Cardinality(A) \in Nat
    BY FS_CardinalityType
  <2>3. SumFunctionOnSet(Rows({}), A) = 0 * Cardinality(A)
    <3> HIDE DEF Rows
    <3> QED
      BY <2>1, SumConstant
  <2> HIDE DEF Rows
  <2> QED
    BY <2>2, <2>3, SumEmpty
<1>4. ASSUME NEW T \in SUBSET B, NEW x \in B, T \in Good
      PROVE  T \cup {x} \in Good
  <2>1. CASE x \in T
    BY <1>4, <2>1, T \cup {x} = T
  <2>2. CASE x \notin T
    <3> DEFINE W    == T \cup {x}
               mark == [a \in A |-> IF a \in column[x] THEN 1 ELSE 0]
    <3>0. \A X : \A a \in A : Rows(X)[a] = Cardinality(Row(a, X))
      OBVIOUS
    <3>1. W \in SUBSET B
      OBVIOUS
    <3>2. ASSUME NEW a \in A
          PROVE  Rows(W)[a] = Rows(T)[a] + mark[a] /\ Rows(T)[a] \in Int /\ mark[a] \in Int
      <4>1. CASE a \in column[x]
        <5>1. Row(a, W) = Row(a, T) \cup {x} /\ x \notin Row(a, T) /\ mark[a] = 1
          BY <2>2, <4>1
        <5>2. IsFiniteSet(Row(a, T)) /\ Cardinality(Row(a, T)) \in Nat
          BY <1>1
        <5>3. Cardinality(Row(a, W)) = Cardinality(Row(a, T)) + 1
          <6> DEFINE r == Row(a, T)
          <6>1. x \notin r /\ IsFiniteSet(r) /\ Row(a, W) = r \cup {x}
            BY <5>1, <5>2
          <6> HIDE DEF r
          <6>2. Cardinality(r \cup {x}) = Cardinality(r) + 1
            BY <6>1, FS_AddElement
          <6> HIDE DEF Row
          <6> QED
            BY <6>1, <6>2 DEF r
        <5> HIDE DEF Row, Rows, W, mark
        <5>4. mark[a] = 1
          BY <5>1
        <5> QED
          BY <3>0, <5>2, <5>3, <5>4
      <4>2. CASE a \notin column[x]
        <5>1. Row(a, W) = Row(a, T) /\ mark[a] = 0
          BY <2>2, <4>2
        <5>2. Cardinality(Row(a, T)) \in Nat
          BY <1>1
        <5> HIDE DEF Row, Rows, W, mark
        <5> QED
          BY <3>0, <5>1, <5>2
      <4> QED
        BY <4>1, <4>2
    <3>3. SumFunctionOnSet(mark, A) = Cardinality(column[x])
      <4> DEFINE X == column[x]
      <4>1. A \cap X = X /\ \A a \in A : mark[a] = IF a \in X THEN 1 ELSE 0
        OBVIOUS
      <4> HIDE DEF mark, Rows, W, X, Good
      <4>2. SumFunctionOnSet(mark, A) = Cardinality(A \cap X)
        BY <4>1, MarksCounted
      <4> QED
        BY <4>1, <4>2 DEF X
    <3> HIDE DEF mark, Rows, W
    <3>4. SumFunctionOnSet(Rows(W), A)
            = SumFunctionOnSet(Rows(T), A) + SumFunctionOnSet(mark, A)
      BY <3>2, SumPlus
    <3>5. SumFunctionOnSet(f, W) = f[x] + SumFunctionOnSet(f, T)
      <4>1. (\A b \in T : f[b] \in Int) /\ f[x] \in Int
        BY <1>2
      <4> QED
        BY <1>1, <2>2, <4>1, SumAdd DEF W
    <3>6. f[x] = Cardinality(column[x]) /\ f[x] \in Int
      BY <1>2
    <3>7. SumFunctionOnSet(Rows(T), A) \in Int
      BY <3>2, SumType
    <3>8. SumFunctionOnSet(f, T) = SumFunctionOnSet(Rows(T), A)
      BY <1>4
    <3> HIDE DEF Row
    <3>9. SumFunctionOnSet(f, W) = SumFunctionOnSet(Rows(W), A)
      BY <3>3, <3>4, <3>5, <3>6, <3>7, <3>8
    <3> QED
      BY <3>1, <3>9 DEF W
  <2> QED
    BY <2>1, <2>2
<1>5. SumFunctionOnSet(f, B) = SumFunctionOnSet(Rows(B), A)
  <2>1. \A T \in SUBSET B : \A x \in B : T \in Good => T \cup {x} \in Good
    BY <1>4
  <2>2. B \in Good
    <3> HIDE DEF Good
    <3> QED
      BY <1>3, <2>1, FromOneLess
  <2> QED
    BY <2>2
<1>6. \A a \in A : Rows(B)[a] \in Int /\ g[a] = Rows(B)[a]
  <2>1. \A a \in A : g[a] = Cardinality(Row(a, B)) /\ Cardinality(Row(a, B)) \in Nat
    BY <1>1
  <2> HIDE DEF Row
  <2> QED
    BY <2>1
<1> HIDE DEF Rows
<1> QED
  BY <1>5, <1>6, SumSame

\* As many choices miss one element as miss another: each is turned into the
\* other by an exchange of the two.
LEMMA AsManyMiss ==
  ASSUME NEW S, IsFiniteSet(S), NEW k \in Nat, NEW a \in S, NEW b \in S
  PROVE  Cardinality({s \in kSubset(k, S) : a \notin s})
           <= Cardinality({s \in kSubset(k, S) : b \notin s})
<1> DEFINE Miss(e) == {s \in kSubset(k, S) : e \notin s}
           to == [s \in Miss(a) |-> IF b \in s THEN (s \ {b}) \cup {a} ELSE s]
<1>1. /\ \A e, s : s \in Miss(e) <=> s \in SUBSET S /\ Cardinality(s) = k /\ e \notin s
      /\ \A e : IsFiniteSet(Miss(e)) /\ Cardinality(Miss(e)) \in Nat
  <2>1. \A e, s : s \in Miss(e) <=> s \in SUBSET S /\ Cardinality(s) = k /\ e \notin s
    BY DEF kSubset
  <2>2. \A e : Miss(e) \in SUBSET SUBSET S
    BY <2>1
  <2> HIDE DEF Miss
  <2>3. IsFiniteSet(SUBSET S)
    BY FS_SUBSET
  <2>4. \A e : IsFiniteSet(Miss(e))
    BY <2>2, <2>3, FS_Subset
  <2> QED
    BY <2>1, <2>4, FS_CardinalityType
<1> HIDE DEF Miss
<1>2. CASE a = b
  <2>1. Cardinality(Miss(a)) <= Cardinality(Miss(b))
    BY <1>1, <1>2
  <2> QED
    BY <2>1 DEF Miss
<1>3. CASE a # b
  <2>1. ASSUME NEW s \in Miss(a) PROVE to[s] \in Miss(b)
    <3>1. CASE b \in s
      <4>1. to[s] = (s \ {b}) \cup {a} /\ s \in SUBSET S /\ Cardinality(s) = k /\ a \notin s
        BY <1>1, <3>1
      <4>2. IsFiniteSet(s)
        BY <4>1, FS_Subset
      <4>3. Cardinality(s \ {b}) = k - 1 /\ IsFiniteSet(s \ {b})
        BY <3>1, <4>1, <4>2, FS_RemoveElement
      <4>4. Cardinality((s \ {b}) \cup {a}) = k
        <5>1. a \notin s \ {b}
          BY <4>1
        <5> DEFINE r == s \ {b}
        <5> HIDE DEF r
        <5>2. Cardinality(r \cup {a}) = (k - 1) + 1
          BY <4>3, <5>1, FS_AddElement DEF r
        <5> QED
          BY <5>2 DEF r
      <4> HIDE DEF to
      <4>5. to[s] \in SUBSET S /\ b \notin to[s]
        BY <1>3, <4>1
      <4> QED
        BY <1>1, <4>1, <4>4, <4>5
    <3>2. CASE b \notin s
      BY <1>1, <3>2
    <3> QED
      BY <3>1, <3>2
  <2>2. ASSUME NEW s \in Miss(a), NEW t \in Miss(a), to[s] = to[t] PROVE s = t
    <3>1. a \notin s /\ a \notin t
      BY <1>1
    <3>2. to[s] = (IF b \in s THEN (s \ {b}) \cup {a} ELSE s)
      OBVIOUS
    <3>3. to[t] = (IF b \in t THEN (t \ {b}) \cup {a} ELSE t)
      OBVIOUS
    <3>4. CASE b \in s /\ b \in t
      <4>1. (s \ {b}) \cup {a} = (t \ {b}) \cup {a}
        BY <2>2, <3>2, <3>3, <3>4
      <4>2. \A e : e \in s <=> e \in t
        BY <3>1, <3>4, <4>1
      <4> QED
        BY <1>1, <4>2
    <3>5. CASE b \in s /\ b \notin t
      BY <2>2, <3>1, <3>2, <3>3, <3>5
    <3>6. CASE b \notin s /\ b \in t
      BY <2>2, <3>1, <3>2, <3>3, <3>6
    <3>7. CASE b \notin s /\ b \notin t
      BY <2>2, <3>2, <3>3, <3>7
    <3> QED
      BY <3>4, <3>5, <3>6, <3>7
  <2>3. to \in [Miss(a) -> Miss(b)]
    BY <2>1
  <2> HIDE DEF to
  <2>4. to \in Injection(Miss(a), Miss(b))
    BY <2>2, <2>3 DEF Injection, IsInjective
  <2>5. Cardinality(Miss(a)) <= Cardinality(Miss(b))
    BY <1>1, <2>4, FS_Injection
  <2> QED
    BY <2>5 DEF Miss
<1> QED
  BY <1>2, <1>3

\* The share of the choices that miss an element is that of the elements a
\* choice leaves out.
LEMMA MissedShare ==
  ASSUME NEW S, IsFiniteSet(S), NEW k \in Nat, NEW e \in S
  PROVE  LET P    == kSubset(k, S)
             miss == {s \in P : e \notin s}
         IN  /\ IsFiniteSet(P) /\ IsFiniteSet(miss)
             /\ Cardinality(P) \in Nat /\ Cardinality(miss) \in Nat /\ Cardinality(S) \in Nat
             /\ Cardinality(S) * Cardinality(miss) = (Cardinality(S) - k) * Cardinality(P)
<1> DEFINE P == kSubset(k, S)
           Miss(a) == {s \in P : a \notin s}
           left == [s \in P |-> S \ s]
           miss == [a \in S |-> Miss(a)]
           f    == [s \in P |-> Cardinality(left[s])]
           g    == [a \in S |-> Cardinality(miss[a])]
           n == Cardinality(S)
           c == Cardinality(P)
           m == Cardinality(Miss(e))
<1>1. IsFiniteSet(P) /\ c \in Nat /\ n \in Nat
  <2>1. P \in SUBSET SUBSET S
    BY DEF kSubset
  <2>2. IsFiniteSet(SUBSET S)
    BY FS_SUBSET
  <2> HIDE DEF P
  <2>3. IsFiniteSet(P)
    BY <2>1, <2>2, FS_Subset
  <2> QED
    BY <2>3, FS_CardinalityType
<1>2. \A a \in S : IsFiniteSet(Miss(a)) /\ Cardinality(Miss(a)) \in Nat
  <2>1. \A a \in S : Miss(a) \in SUBSET P
    OBVIOUS
  <2> HIDE DEF P, Miss
  <2>2. \A X \in SUBSET P : IsFiniteSet(X) /\ Cardinality(X) \in Nat
    BY <1>1, FS_Subset, FS_CardinalityType
  <2> QED
    BY <2>1, <2>2
<1>3. \A a \in S : g[a] = m
  <2>1. \A a \in S : Cardinality(Miss(a)) <= m /\ m <= Cardinality(Miss(a))
    BY AsManyMiss
  <2>3. \A a \in S : g[a] = Cardinality(Miss(a))
    OBVIOUS
  <2> HIDE DEF Miss, g
  <2> QED
    BY <1>2, <2>1, <2>3
<1>4. \A s \in P : f[s] = n - k
  <2>1. ASSUME NEW s \in P PROVE f[s] = n - k
    <3>1. s \in SUBSET S /\ Cardinality(s) = k
      BY DEF kSubset
    <3>2. left[s] = S \ s /\ S \cap s = s
      BY <3>1
    <3>3. f[s] = Cardinality(S \ s)
      BY <3>2
    <3> HIDE DEF f
    <3>4. Cardinality(S \ s) = n - Cardinality(S \cap s)
      BY FS_Difference
    <3> QED
      BY <3>1, <3>2, <3>3, <3>4
  <2> QED
    BY <2>1
<1>5. SumFunctionOnSet(f, P) = SumFunctionOnSet(g, S)
  <2>1. /\ left \in [P -> SUBSET S] /\ miss \in [S -> SUBSET P]
        /\ \A a \in S, s \in P : a \in left[s] <=> s \in miss[a]
    OBVIOUS
  <2>2. (\A s \in P : f[s] = Cardinality(left[s])) /\ \A a \in S : g[a] = Cardinality(miss[a])
    OBVIOUS
  <2> HIDE DEF P, left, miss, f, g
  <2> QED
    BY <1>1, <2>1, <2>2, CountedTwice
<1> HIDE DEF P, f, g
<1>6. m \in Nat
  BY <1>2
<1> HIDE DEF m
<1>7. SumFunctionOnSet(f, P) = (n - k) * c
  <2> DEFINE x == n - k
  <2>1. x \in Int /\ \A s \in P : f[s] = x
    BY <1>1, <1>4
  <2> HIDE DEF x
  <2>2. SumFunctionOnSet(f, P) = x * Cardinality(P)
    BY <1>1, <2>1, SumConstant
  <2> QED
    BY <2>2 DEF x
<1>8. SumFunctionOnSet(g, S) = m * n
  <2>1. m \in Int
    BY <1>6
  <2>2. SumFunctionOnSet(g, S) = m * Cardinality(S)
    BY <1>3, <2>1, SumConstant
  <2> QED
    BY <2>2
<1> HIDE DEF n, c
<1>9. n * m = (n - k) * c
  <2>1. n * m = m * n
    BY <1>1, <1>6
  <2> QED
    BY <1>5, <1>7, <1>8, <2>1
<1> HIDE DEF Miss
<1>10. IsFiniteSet(Miss(e))
  BY <1>2
<1> QED
  BY <1>1, <1>6, <1>9, <1>10 DEF n, c, m, Miss, P

\* The choices of one more: a choice of those before and one for the last.
LEMMA OneMoreChoice ==
  ASSUME NEW A, IsFiniteSet(A), NEW n \in Nat, IsFiniteSet([1..n -> A])
  PROVE  /\ IsFiniteSet([1..(n + 1) -> A])
         /\ Cardinality([1..(n + 1) -> A]) = Cardinality([1..n -> A]) * Cardinality(A)
<1> DEFINE F  == [1..n -> A]
           G  == [1..(n + 1) -> A]
           to == [p \in F \X A |-> [i \in 1..(n + 1) |-> IF i = n + 1 THEN p[2] ELSE p[1][i]]]
<1>1. ASSUME NEW p \in F \X A
      PROVE  /\ to[p] \in G /\ to[p][n + 1] = p[2]
             /\ \A i \in 1..n : to[p][i] = p[1][i]
  <2>1. to[p] = [i \in 1..(n + 1) |-> IF i = n + 1 THEN p[2] ELSE p[1][i]]
    OBVIOUS
  <2>2. p[1] \in F /\ p[2] \in A
    OBVIOUS
  <2> HIDE DEF to
  <2>3. \A i \in 1..(n + 1) : i = n + 1 \/ i \in 1..n
    OBVIOUS
  <2>4. to[p] \in G
    BY <2>1, <2>2, <2>3
  <2>5. n + 1 \in 1..(n + 1) /\ \A i \in 1..n : i \in 1..(n + 1) /\ i # n + 1
    OBVIOUS
  <2> QED
    BY <2>1, <2>4, <2>5
<1>2. to \in [F \X A -> G]
  BY <1>1
<1> HIDE DEF to
<1>3. ASSUME NEW p \in F \X A, NEW q \in F \X A, to[p] = to[q] PROVE p = q
  <2>1. p[2] = q[2] /\ \A i \in 1..n : p[1][i] = q[1][i]
    <3>1. /\ to[p][n + 1] = p[2] /\ \A i \in 1..n : to[p][i] = p[1][i]
          /\ to[q][n + 1] = q[2] /\ \A i \in 1..n : to[q][i] = q[1][i]
      BY <1>1
    <3> HIDE DEF F
    <3> QED
      BY <1>3, <3>1
  <2>2. p[1] \in F /\ q[1] \in F /\ p = <<p[1], p[2]>> /\ q = <<q[1], q[2]>>
    OBVIOUS
  <2>3. p[1] = q[1]
    BY <2>1, <2>2
  <2> QED
    BY <2>1, <2>2, <2>3
<1>4. ASSUME NEW g \in G PROVE \E p \in F \X A : to[p] = g
  <2> DEFINE r == [i \in 1..n |-> g[i]]
             p == <<r, g[n + 1]>>
  <2>0. n + 1 \in 1..(n + 1) /\ \A i \in 1..n : i \in 1..(n + 1)
    OBVIOUS
  <2>1. r \in F /\ g[n + 1] \in A
    BY <2>0
  <2>2. p \in F \X A /\ p[1] = r /\ p[2] = g[n + 1]
    BY <2>1
  <2>3. \A i \in 1..n : r[i] = g[i]
    OBVIOUS
  <2> HIDE DEF r, p
  <2>4. \A i \in 1..(n + 1) : i = n + 1 \/ i \in 1..n
    OBVIOUS
  <2>5. \A i \in 1..(n + 1) : to[p][i] = g[i]
    BY <1>1, <2>2, <2>3, <2>4
  <2>6. to[p] \in G
    BY <1>1, <2>2
  <2>7. to[p] = g
    BY <2>5, <2>6
  <2> QED
    BY <2>2, <2>7
<1>5. to \in Bijection(F \X A, G)
  <2>1. to \in Injection(F \X A, G)
    BY <1>2, <1>3 DEF Injection, IsInjective
  <2>2. to \in Surjection(F \X A, G)
    BY <1>2, <1>4 DEF Surjection
  <2> QED
    BY <2>1, <2>2 DEF Bijection
<1>6. IsFiniteSet(F \X A) /\ Cardinality(F \X A) = Cardinality(F) * Cardinality(A)
  BY FS_Product
<1> DEFINE X == F \X A
<1> HIDE DEF X
<1>7. ExistsBijection(X, G)
  BY <1>5 DEF ExistsBijection, X
<1>8. IsFiniteSet(X) /\ Cardinality(X) = Cardinality(F) * Cardinality(A)
  BY <1>6 DEF X
<1> HIDE DEF F, G
<1>9. IsFiniteSet(G) /\ Cardinality(G) = Cardinality(X)
  BY <1>7, <1>8, FS_Bijection
<1> QED
  BY <1>8, <1>9 DEF F, G
=============================================================================

----------------------------- MODULE DataProofs -----------------------------
(***************************************************************************)
(* Facts about the data of the models, whatever the model: sums over a set *)
(* and folds over a sequence, which the community modules define by        *)
(* recursive functions.                                                    *)
(*                                                                         *)
(* The provers cannot apply an induction theorem whose parameter is an     *)
(* operator.  Induction is therefore stated with a set: one that has zero  *)
(* and, with a number, the next, has every number.                         *)
(***************************************************************************)
EXTENDS SequencesExt, FiniteSetTheorems, WellFoundedInduction, SequenceTheorems, TLAPS

-----------------------------------------------------------------------------
(* Induction.                                                              *)

(* A set of numbers that is not empty has a least one: the subset ordering *)
(* on the intervals up to its members is well founded.                     *)
LEMMA LeastNumber ==
    ASSUME NEW T \in SUBSET Nat, T # {}
    PROVE  \E n \in T : \A m \in T : n <= m
<1> DEFINE Intervals == {1..n : n \in T}
<1>1. Intervals # {} /\ Intervals \subseteq FiniteSubsetsOf(Nat)
  <2>1. \A n \in Nat : 1..n \in SUBSET Nat /\ IsFiniteSet(1..n)
    BY FS_Interval
  <2> QED BY <2>1 DEF FiniteSubsetsOf
<1>2. PICK x \in Intervals : \A y \in Intervals : <<y, x>> \notin StrictSubsetOrdering(Nat)
  BY <1>1, WFMin, FS_StrictSubsetOrderingWellFounded
<1>3. PICK n \in T : x = 1..n
  OBVIOUS
<1>4. ASSUME NEW m \in T, m < n PROVE FALSE
  <2>1. 1..m \in SUBSET Nat /\ x \in SUBSET Nat /\ 1..m \subseteq x
    BY <1>3, <1>4
  <2>2. n \in x /\ n \notin 1..m
    BY <1>3, <1>4
  <2>3. <<1..m, x>> \in StrictSubsetOrdering(Nat)
    BY <2>1, <2>2 DEF StrictSubsetOrdering
  <2> QED BY <1>2, <2>3
<1> QED BY <1>4

(* Induction over the numbers.                                             *)
LEMMA NumberInduction ==
    ASSUME NEW T \in SUBSET Nat, 0 \in T, \A n \in T : n + 1 \in T
    PROVE  T = Nat
<1> SUFFICES ASSUME Nat \ T # {} PROVE FALSE
  OBVIOUS
<1>1. PICK n \in Nat \ T : \A m \in Nat \ T : n <= m
  BY LeastNumber
<1>2. n # 0
  OBVIOUS
<1>3. n - 1 \in T
  BY <1>1, <1>2
<1> QED BY <1>3

(* Induction over sequences.                                               *)
LEMMA AppendInduction ==
    ASSUME NEW E, NEW T \in SUBSET Seq(E), <<>> \in T,
           \A s \in T : \A e \in E : Append(s, e) \in T
    PROVE  T = Seq(E)
<1> DEFINE N == {n \in Nat : \A q \in Seq(E) : Len(q) = n => q \in T}
<1>1. 0 \in N
  BY EmptySeq
<1>2. ASSUME NEW n \in N PROVE n + 1 \in N
  <2> SUFFICES ASSUME NEW q \in Seq(E), Len(q) = n + 1 PROVE q \in T
    OBVIOUS
  <2>1. q # <<>>
    BY EmptySeq
  <2>2. PICK s \in Seq(E), e \in E : q = Append(s, e)
    BY <2>1, SequenceEmptyOrAppend
  <2>3. Len(s) = n
    BY <2>2, AppendProperties, LenProperties
  <2>4. s \in T
    BY <2>3
  <2> QED BY <2>2, <2>4
<1>3. N = Nat
  <2> HIDE DEF N
  <2>1. N \in SUBSET Nat
    BY DEF N
  <2> QED BY <1>1, <1>2, <2>1, NumberInduction
<1> QED BY <1>3, LenProperties

(* Induction over the subsets of a finite set.                             *)
LEMMA SubsetInduction ==
    ASSUME NEW S, IsFiniteSet(S), NEW T \in SUBSET (SUBSET S), {} \in T,
           \A s \in T : \A x \in S \ s : s \cup {x} \in T
    PROVE  T = SUBSET S
<1> SUFFICES ASSUME (SUBSET S) \ T # {} PROVE FALSE
  OBVIOUS
<1>1. (SUBSET S) \ T \subseteq FiniteSubsetsOf(S)
  BY FS_Subset DEF FiniteSubsetsOf
<1>2. PICK s \in (SUBSET S) \ T :
        \A t \in (SUBSET S) \ T : <<t, s>> \notin StrictSubsetOrdering(S)
  BY <1>1, WFMin, FS_StrictSubsetOrderingWellFounded
<1>3. PICK x : x \in s
  OBVIOUS
<1>4. s \ {x} \in T
  <2>1. <<s \ {x}, s>> \in StrictSubsetOrdering(S)
    BY <1>3 DEF StrictSubsetOrdering
  <2> QED BY <1>2, <2>1
<1>5. (s \ {x}) \cup {x} \in T
  BY <1>3, <1>4
<1> QED BY <1>3, <1>5

-----------------------------------------------------------------------------
(* Division.                                                               *)

(* A number is a multiple of another plus the residue.                     *)
LEMMA Division ==
    ASSUME NEW n \in Nat, NEW m \in Nat \ {0}
    PROVE  /\ \E q \in Nat : n = m * q + (n % m)
           /\ n % m \in 0..(m - 1)
<1>1. n \div m \in Nat
  BY Z3
<1>2. n = m * (n \div m) + (n % m)
  BY Z3
<1>3. n % m \in 0..(m - 1)
  BY Z3
<1> QED BY <1>1, <1>2, <1>3

-----------------------------------------------------------------------------
(* The recursive function of MapThenFoldSet.  What is picked from a set    *)
(* and what is made of it are functions here.                              *)

IsIteration(g, S, pick, F, base) ==
    g = [s \in SUBSET S |-> IF s = {} THEN base ELSE F[<<pick[s], g[s \ {pick[s]}]>>]]

(* There is such a function: it can be built for sets up to any size.      *)
LEMMA IterationExists ==
    ASSUME NEW S, IsFiniteSet(S), NEW pick, NEW F, NEW base,
           \A s \in SUBSET S : s # {} => pick[s] \in s
    PROVE  \E g : IsIteration(g, S, pick, F, base)
<1> DEFINE Value(g, s) == IF s = {} THEN base ELSE F[<<pick[s], g[s \ {pick[s]}]>>]
           UpTo(n, g) == \A s \in SUBSET S : Cardinality(s) <= n => g[s] = Value(g, s)
           T == {n \in Nat : \E g : UpTo(n, g)}
<1>0. \A s \in SUBSET S :
        /\ IsFiniteSet(s) /\ Cardinality(s) \in Nat
        /\ Cardinality(s) <= Cardinality(S)
        /\ Cardinality(s) = 0 <=> s = {}
        /\ \A x \in s : /\ s \ {x} \in SUBSET S
                        /\ Cardinality(s \ {x}) = Cardinality(s) - 1
  <2> TAKE s \in SUBSET S
  <2>1. IsFiniteSet(s) /\ Cardinality(s) <= Cardinality(S)
    BY FS_Subset
  <2>2. Cardinality(s) \in Nat /\ (Cardinality(s) = 0 <=> s = {})
    BY <2>1, FS_CardinalityType, FS_EmptySet
  <2>3. \A x \in s : Cardinality(s \ {x}) = Cardinality(s) - 1
    BY <2>1, FS_RemoveElement
  <2> QED BY <2>1, <2>2, <2>3
<1>1. 0 \in T
  <2>1. UpTo(0, [s \in SUBSET S |-> base])
    BY <1>0
  <2> HIDE DEF UpTo
  <2> QED BY <2>1
<1>2. ASSUME NEW n \in T PROVE n + 1 \in T
  <2>1. PICK g : UpTo(n, g)
    OBVIOUS
  <2> DEFINE h == [s \in SUBSET S |-> Value(g, s)]
  <2>2. ASSUME NEW s \in SUBSET S, Cardinality(s) <= n + 1 PROVE h[s] = Value(h, s)
    <3>1. CASE s = {}
      BY <3>1
    <3>2. CASE s # {}
      <4>1. /\ s \ {pick[s]} \in SUBSET S
            /\ Cardinality(s \ {pick[s]}) <= n
        BY <1>0, <2>2, <3>2
      <4>2. g[s \ {pick[s]}] = h[s \ {pick[s]}]
        BY <2>1, <4>1
      <4> QED BY <3>2, <4>2
    <3> QED BY <3>1, <3>2
  <2>3. UpTo(n + 1, h)
    BY <2>2
  <2> HIDE DEF UpTo, h
  <2> QED BY <2>3
<1>3. T = Nat
  <2> HIDE DEF T
  <2>1. T \in SUBSET Nat
    BY DEF T
  <2> QED BY <1>1, <1>2, <2>1, NumberInduction
<1>4. PICK g : UpTo(Cardinality(S), g)
  <2>1. Cardinality(S) \in T
    BY <1>0, <1>3
  <2> HIDE DEF UpTo
  <2> QED BY <2>1
<1> DEFINE h == [s \in SUBSET S |-> Value(g, s)]
<1>5. \A s \in SUBSET S : h[s] = g[s]
  BY <1>0, <1>4
<1>6. h = [s \in SUBSET S |-> Value(h, s)]
  <2>1. \A s \in SUBSET S : s # {} => s \ {pick[s]} \in SUBSET S
    OBVIOUS
  <2>2. ASSUME NEW s \in SUBSET S PROVE Value(g, s) = Value(h, s)
    BY <1>5, <2>1
  <2> QED BY <2>2
<1> HIDE DEF h
<1> QED BY <1>6 DEF IsIteration

(* Its values are of the type that a step keeps.                           *)
LEMMA IterationType ==
    ASSUME NEW S, IsFiniteSet(S), NEW pick, NEW V, NEW F \in [S \X V -> V], NEW base \in V,
           \A s \in SUBSET S : s # {} => pick[s] \in s,
           NEW g, IsIteration(g, S, pick, F, base)
    PROVE  /\ g[{}] = base
           /\ \A s \in SUBSET S :
                /\ g[s] \in V
                /\ s # {} => g[s] = F[<<pick[s], g[s \ {pick[s]}]>>]
<1>1. /\ g[{}] = base
      /\ \A s \in SUBSET S : s # {} => g[s] = F[<<pick[s], g[s \ {pick[s]}]>>]
  BY DEF IsIteration
<1> DEFINE bad == {s \in SUBSET S : g[s] \notin V}
<1>2. ASSUME bad # {} PROVE FALSE
  <2>1. bad \subseteq FiniteSubsetsOf(S)
    BY FS_Subset DEF FiniteSubsetsOf
  <2>2. PICK s \in bad : \A t \in bad : <<t, s>> \notin StrictSubsetOrdering(S)
    BY <1>2, <2>1, WFMin, FS_StrictSubsetOrderingWellFounded
  <2>3. s # {} /\ pick[s] \in s
    BY <1>1
  <2>4. s \ {pick[s]} \notin bad
    BY <2>2, <2>3 DEF StrictSubsetOrdering
  <2>5. g[s \ {pick[s]}] \in V
    BY <2>4
  <2> QED BY <1>1, <2>3, <2>5
<1> QED BY <1>1, <1>2
-----------------------------------------------------------------------------
(* Sums.                                                                   *)

First(s) == CHOOSE x \in s : TRUE

(* The recursive function of MapThenSumSet, for the numbers f.             *)
IsSum(g, f, S) ==
    g = [s \in SUBSET S |-> IF s = {} THEN 0 ELSE f[First(s)] + g[s \ {First(s)}]]

LEMMA SumExists ==
    ASSUME NEW S, IsFiniteSet(S), NEW f \in [S -> Nat]
    PROVE  \E g : IsSum(g, f, S)
<1> DEFINE pick == [s \in SUBSET S |-> First(s)]
           F == [p \in S \X Nat |-> f[p[1]] + p[2]]
<1>1. \A s \in SUBSET S : s # {} => pick[s] = First(s) /\ First(s) \in s
  BY DEF First
<1>2. F \in [S \X Nat -> Nat] /\ \A x \in S, n \in Nat : F[<<x, n>>] = f[x] + n
  OBVIOUS
<1> HIDE DEF pick, F
<1>3. PICK g : IsIteration(g, S, pick, F, 0)
  BY <1>1, IterationExists
<1>4. \A s \in SUBSET S : s # {} => s \ {First(s)} \in SUBSET S /\ First(s) \in S
  BY <1>1
<1>5. \A s \in SUBSET S : g[s] \in Nat
  <2>1. \A s \in SUBSET S : s # {} => pick[s] \in s
    BY <1>1
  <2>2. 0 \in Nat
    OBVIOUS
  <2> QED BY <1>2, <1>3, <2>1, <2>2, IterationType
<1>6. ASSUME NEW s \in SUBSET S, s # {}
      PROVE  F[<<pick[s], g[s \ {pick[s]}]>>] = f[First(s)] + g[s \ {First(s)}]
  BY <1>1, <1>2, <1>4, <1>5, <1>6
<1>7. g = [s \in SUBSET S |->
             IF s = {} THEN 0 ELSE F[<<pick[s], g[s \ {pick[s]}]>>]]
  BY <1>3 DEF IsIteration
<1> DEFINE h == [s \in SUBSET S |-> IF s = {} THEN 0 ELSE f[First(s)] + g[s \ {First(s)}]]
<1>8. h = g
  BY <1>6, <1>7
<1>9. IsSum(g, f, S)
  BY <1>8 DEF IsSum
<1> QED BY <1>9

(* The order in which the members are taken does not matter.               *)
LEMMA SumOfSet ==
    ASSUME NEW S, IsFiniteSet(S), NEW f \in [S -> Nat], NEW g, IsSum(g, f, S)
    PROVE  /\ g[{}] = 0
           /\ \A s \in SUBSET S :
                /\ g[s] \in Nat
                /\ \A x \in s : g[s] = f[x] + g[s \ {x}]
<1>1. g[{}] = 0 /\ \A s \in SUBSET S : s # {} =>
        /\ First(s) \in s /\ s \ {First(s)} \in SUBSET S
        /\ g[s] = f[First(s)] + g[s \ {First(s)}]
  BY DEF IsSum, First
<1> DEFINE Free(s) == g[s] \in Nat /\ \A x \in s : g[s] = f[x] + g[s \ {x}]
           T == {s \in SUBSET S : ~Free(s)}
<1>2. ASSUME T # {} PROVE FALSE
  <2>1. T \subseteq FiniteSubsetsOf(S)
    BY FS_Subset DEF FiniteSubsetsOf
  <2>2. PICK s \in T : \A t \in T : <<t, s>> \notin StrictSubsetOrdering(S)
    BY <1>2, <2>1, WFMin, FS_StrictSubsetOrderingWellFounded
  <2>3. ASSUME NEW t \in SUBSET s, t # s PROVE Free(t)
    BY <2>2, <2>3 DEF StrictSubsetOrdering
  <2> DEFINE y == First(s)
  <2>4. s # {}
    <3>1. g[{}] \in Nat /\ \A x \in {} : g[{}] = f[x] + g[{} \ {x}]
      BY <1>1
    <3> QED BY <3>1
  <2>5. y \in s /\ g[s] = f[y] + g[s \ {y}] /\ f[y] \in Nat
    BY <1>1, <2>4
  <2> HIDE DEF y
  <2>6. g[s] \in Nat
    <3>1. Free(s \ {y})
      BY <2>3, <2>5
    <3> QED BY <2>5, <3>1
  <2>7. ASSUME NEW x \in s, x # y PROVE g[s] = f[x] + g[s \ {x}]
    <3>1. Free(s \ {y}) /\ Free(s \ {x}) /\ Free(s \ {x, y})
      BY <2>3, <2>5
    <3>2. /\ x \in s \ {y} /\ y \in s \ {x} /\ f[x] \in Nat
          /\ (s \ {y}) \ {x} = s \ {x, y} /\ (s \ {x}) \ {y} = s \ {x, y}
      BY <2>5, <2>7
    <3>3. g[s \ {y}] = f[x] + g[s \ {x, y}] /\ g[s \ {x}] = f[y] + g[s \ {x, y}]
      BY <3>1, <3>2
    <3> QED BY <2>5, <3>1, <3>2, <3>3
  <2> QED BY <2>5, <2>6, <2>7
<1> QED BY <1>1, <1>2

LEMMA SumAdd ==
    ASSUME NEW S, IsFiniteSet(S), NEW f \in [S -> Nat], NEW g, IsSum(g, f, S),
           NEW s \in SUBSET S, NEW x \in S \ s
    PROVE  g[s \cup {x}] = f[x] + g[s] /\ g[s] \in Nat /\ f[x] \in Nat
<1> DEFINE t == s \cup {x}
<1>1. t \in SUBSET S /\ x \in t /\ t \ {x} = s
  OBVIOUS
<1> HIDE DEF t
<1>2. g[t] = f[x] + g[t \ {x}]
  <2>1. \A u \in SUBSET S : g[u] \in Nat /\ \A y \in u : g[u] = f[y] + g[u \ {y}]
    BY SumOfSet
  <2> QED BY <1>1, <2>1
<1>3. g[s] \in Nat
  BY SumOfSet
<1> QED BY <1>1, <1>2, <1>3 DEF t

(* What one sum exceeds another by, when the numbers themselves do so in   *)
(* one place by at most one, and nowhere if that place is left out.        *)
LEMMA SumBound ==
    ASSUME NEW S, IsFiniteSet(S), NEW R, IsFiniteSet(R),
           NEW e \in [S -> Nat], NEW f \in [R -> Nat],
           NEW c, NEW d, IsSum(c, e, S), IsSum(d, f, R), NEW k,
           \A x \in S \ R : e[x] = 0,
           \A x \in S \cap R : x # k => e[x] <= f[x],
           k \in S \cap R => e[k] <= f[k] + 1
    PROVE  /\ c[S] \in Nat /\ d[R] \in Nat
           /\ c[S] <= d[R] + 1
           /\ (k \in S \cap R => e[k] <= f[k]) => c[S] <= d[R]
<1> DEFINE Extra(s) == IF k \in s /\ k \in R /\ ~(e[k] <= f[k]) THEN 1 ELSE 0
           T == {s \in SUBSET S : c[s] <= d[s \cap R] + Extra(s)}
           U == {s \in SUBSET R : d[s \cap S] <= d[s]}
<1>1. c[{}] = 0 /\ \A s \in SUBSET S : c[s] \in Nat
  BY SumOfSet
<1>2. d[{}] = 0 /\ \A s \in SUBSET R : d[s] \in Nat
  BY SumOfSet
<1>3. {} \in T
  <2>1. {} \cap R = {}
    OBVIOUS
  <2> QED BY <1>1, <1>2, <2>1
<1>4. ASSUME NEW s \in T, NEW x \in S \ s PROVE s \cup {x} \in T
  <2>0. s \in SUBSET S /\ c[s] <= d[s \cap R] + Extra(s)
    OBVIOUS
  <2>1. c[s \cup {x}] = e[x] + c[s] /\ c[s] \in Nat /\ e[x] \in Nat
    BY <2>0, SumAdd
  <2>2. CASE x \notin R
    <3>1. (s \cup {x}) \cap R = s \cap R /\ e[x] = 0 /\ Extra(s \cup {x}) = Extra(s)
      BY <2>2
    <3> QED BY <2>1, <3>1
  <2>3. CASE x \in R
    <3> DEFINE r == s \cap R
    <3>1. (s \cup {x}) \cap R = r \cup {x} /\ r \in SUBSET R /\ x \in R \ r
      BY <2>3
    <3> HIDE DEF r
    <3>2. d[r \cup {x}] = f[x] + d[r] /\ d[r] \in Nat /\ f[x] \in Nat
      BY <3>1, SumAdd
    <3>3. CASE x # k
      <4>1. e[x] <= f[x] /\ Extra(s \cup {x}) = Extra(s)
        BY <2>3, <3>3
      <4>2. Extra(s) \in Nat /\ c[s] <= d[r] + Extra(s)
        BY <2>0 DEF r
      <4>3. c[s \cup {x}] <= d[(s \cup {x}) \cap R] + Extra(s \cup {x})
        <5>1. d[(s \cup {x}) \cap R] = d[r \cup {x}]
          BY <3>1
        <5> HIDE DEF Extra, T, U
        <5> QED BY <2>1, <3>2, <4>1, <4>2, <5>1
      <4> QED BY <2>0, <4>3
    <3>4. CASE x = k
      <4>1. c[s] <= d[r]
        BY <1>1, <1>2, <2>0, <3>2, <3>4 DEF r
      <4>2. e[x] <= f[x] + Extra(s \cup {x}) /\ Extra(s \cup {x}) \in Nat
        BY <2>1, <2>3, <3>2, <3>4
      <4>3. c[s \cup {x}] <= d[(s \cup {x}) \cap R] + Extra(s \cup {x})
        <5>1. d[(s \cup {x}) \cap R] = d[r \cup {x}]
          BY <3>1
        <5> HIDE DEF Extra, T, U
        <5> QED BY <2>1, <3>2, <4>1, <4>2, <5>1
      <4> QED BY <2>0, <4>3
    <3> QED BY <3>3, <3>4
  <2> QED BY <2>2, <2>3
<1>5. S \in T
  <2> HIDE DEF T
  <2>1. T \in SUBSET (SUBSET S)
    BY DEF T
  <2>2. T = SUBSET S
    BY <1>3, <1>4, <2>1, SubsetInduction
  <2> QED BY <2>2
<1>6. c[S] <= d[S \cap R] + Extra(S) /\ c[S] \in Nat
  BY <1>1, <1>5
<1>7. {} \in U
  <2>1. {} \cap S = {}
    OBVIOUS
  <2> QED BY <1>2, <2>1
<1>8. ASSUME NEW s \in U, NEW x \in R \ s PROVE s \cup {x} \in U
  <2> DEFINE r == s \cap S
  <2>1. s \in SUBSET R /\ d[r] <= d[s] /\ r \in SUBSET R /\ d[r] \in Nat
    BY <1>2
  <2>2. d[s \cup {x}] = f[x] + d[s] /\ d[s] \in Nat /\ f[x] \in Nat
    BY <2>1, SumAdd
  <2>3. d[(s \cup {x}) \cap S] <= d[s \cup {x}]
    <3>1. CASE x \notin S
      <4>1. (s \cup {x}) \cap S = r
        BY <3>1
      <4>2. d[(s \cup {x}) \cap S] = d[r]
        BY <4>1
      <4> HIDE DEF r, T, U
      <4> QED BY <2>1, <2>2, <4>2
    <3>2. CASE x \in S
      <4>1. (s \cup {x}) \cap S = r \cup {x} /\ x \in R \ r
        BY <3>2
      <4> HIDE DEF r
      <4>2. d[r \cup {x}] = f[x] + d[r]
        BY <2>1, <4>1, SumAdd
      <4> QED BY <2>1, <2>2, <4>1, <4>2
    <3> QED BY <3>1, <3>2
  <2> QED BY <2>1, <2>3
<1>9. R \in U
  <2> HIDE DEF U
  <2>1. U \in SUBSET (SUBSET R)
    BY DEF U
  <2>2. U = SUBSET R
    BY <1>7, <1>8, <2>1, SubsetInduction
  <2> QED BY <2>2
<1>10. d[S \cap R] <= d[R] /\ d[S \cap R] \in Nat /\ d[R] \in Nat
  <2>1. R \cap S = S \cap R /\ R \cap S \in SUBSET R
    OBVIOUS
  <2> QED BY <1>2, <1>9, <2>1
<1> QED BY <1>6, <1>10

-----------------------------------------------------------------------------
(* Folds over a sequence.                                                  *)

(* The values a fold goes through.                                         *)
IsRun(t, F, base, q) ==
    /\ DOMAIN t = 0..Len(q)
    /\ t[0] = base
    /\ \A i \in 1..Len(q) : t[i] = F[<<t[i - 1], q[i]>>]

Folded(F, base, q) == (CHOOSE t : IsRun(t, F, base, q))[Len(q)]

(* The step of a fold from V to V.  The provers match this predicate, not  *)
(* the set of functions it stands for.                                     *)
IsStep(F, V, E) == F \in [V \X E -> V]

(* What the recursive function of a fold does to the intervals 1..i.       *)
IsFoldIteration(g, F, base, q) ==
    g = [s \in SUBSET DOMAIN q |->
            IF s = {} THEN base ELSE F[<<g[s \ {Max(s)}], q[Max(s)]>>]]

LEMMA MaxOfInterval ==
    /\ \A i \in Nat \ {0} : Max(1..i) = i /\ (1..i) \ {i} = 1..(i - 1)
    /\ 1..0 = {}
<1>1. ASSUME NEW i \in Nat \ {0} PROVE Max(1..i) = i
  <2>1. i \in 1..i /\ \A y \in 1..i : i >= y
    OBVIOUS
  <2>2. \A x \in 1..i : (\A y \in 1..i : x >= y) => x = i
    BY <2>1
  <2> QED BY <2>1, <2>2 DEF Max
<1>2. \A i \in Nat \ {0} : (1..i) \ {i} = 1..(i - 1)
  OBVIOUS
<1> QED BY <1>1, <1>2

(* The last place of a set of places is one of them, and none is beyond it.*)
LEMMA MaxOfPlaces ==
    ASSUME NEW n \in Nat
    PROVE  \A s \in SUBSET (1..n) : s # {} => Max(s) \in s /\ \A i \in s : i <= Max(s)
<1> SUFFICES ASSUME NEW s \in SUBSET (1..n), s # {}
             PROVE  Max(s) \in s /\ \A i \in s : Max(s) >= i
  OBVIOUS
<1> DEFINE T == {n - i : i \in s}
<1>1. T \in SUBSET Nat /\ T # {}
  <2>1. \A i \in s : n - i \in Nat
    OBVIOUS
  <2> QED BY <2>1
<1> HIDE DEF T
<1>2. PICK k \in T : \A m \in T : k <= m
  BY <1>1, LeastNumber
<1>3. PICK x \in s : k = n - x
  BY DEF T
<1>4. \A y \in s : n - x <= n - y
  BY <1>2, <1>3 DEF T
<1>5. \A y \in s : x >= y
  BY <1>4
<1> QED BY <1>5 DEF Max

(* Two runs from the same value over the same sequence are the same.       *)
LEMMA RunUnique ==
    ASSUME NEW F, NEW base, NEW E, NEW q \in Seq(E), NEW t, NEW u,
           IsRun(t, F, base, q), IsRun(u, F, base, q)
    PROVE  t[Len(q)] = u[Len(q)]
<1> DEFINE T == {n \in Nat : n <= Len(q) => t[n] = u[n]}
<1>1. 0 \in T
  BY DEF IsRun
<1>2. ASSUME NEW n \in T PROVE n + 1 \in T
  <2>1. CASE n + 1 <= Len(q)
    <3>1. n + 1 \in 1..Len(q) /\ t[n] = u[n] /\ (n + 1) - 1 = n
      BY <2>1
    <3>2. t[n + 1] = F[<<t[n], q[n + 1]>>] /\ u[n + 1] = F[<<u[n], q[n + 1]>>]
      BY <3>1 DEF IsRun
    <3> QED BY <3>1, <3>2
  <2>2. CASE ~(n + 1 <= Len(q))
    BY <2>2
  <2> QED BY <2>1, <2>2
<1>3. T = Nat
  <2> HIDE DEF T
  <2>1. T \in SUBSET Nat
    BY DEF T
  <2> QED BY <1>1, <1>2, <2>1, NumberInduction
<1>4. Len(q) \in T
  BY <1>3
<1> QED BY <1>4

(* The values of a function on subsets are of a type that its value for    *)
(* the empty set is of, and that adding the member picked from a set keeps.*)
LEMMA TypeByRemoval ==
    ASSUME NEW S, IsFiniteSet(S), NEW pick, NEW V, NEW g, g[{}] \in V,
           \A s \in SUBSET S : s # {} => pick[s] \in s,
           \A s \in SUBSET S : s # {} /\ g[s \ {pick[s]}] \in V => g[s] \in V
    PROVE  \A s \in SUBSET S : g[s] \in V
<1> DEFINE bad == {s \in SUBSET S : g[s] \notin V}
<1>1. ASSUME bad # {} PROVE FALSE
  <2>1. bad \subseteq FiniteSubsetsOf(S)
    BY FS_Subset DEF FiniteSubsetsOf
  <2>2. PICK s \in bad : \A t \in bad : <<t, s>> \notin StrictSubsetOrdering(S)
    BY <1>1, <2>1, WFMin, FS_StrictSubsetOrderingWellFounded
  <2>3. s # {} /\ pick[s] \in s
    OBVIOUS
  <2>4. s \ {pick[s]} \notin bad
    BY <2>2, <2>3 DEF StrictSubsetOrdering
  <2> QED BY <2>3, <2>4
<1> QED BY <1>1

(* A fold has a run, and the recursive function of FoldLeft computes it.   *)
LEMMA FoldExists ==
    ASSUME NEW V, NEW E, NEW F, IsStep(F, V, E), NEW base \in V, NEW q \in Seq(E)
    PROVE  /\ \E g : IsFoldIteration(g, F, base, q)
           /\ \A g : IsFoldIteration(g, F, base, q) =>
                /\ IsRun([i \in 0..Len(q) |-> g[1..i]], F, base, q)
                /\ \A s \in SUBSET DOMAIN q : g[s] \in V
                /\ g[DOMAIN q] \in V
<1> DEFINE S == 1..Len(q)
           pick == [s \in SUBSET S |-> Max(s)]
           G == [p \in S \X V |-> F[<<p[2], q[p[1]]>>]]
<1>1. DOMAIN q = S /\ Len(q) \in Nat /\ IsFiniteSet(S)
  BY FS_Interval
<1>2. \A s \in SUBSET S : s # {} => pick[s] \in s /\ pick[s] = Max(s)
  BY <1>1, MaxOfPlaces
<1>3. G \in [S \X V -> V] /\ \A i \in S, v \in V : G[<<i, v>>] = F[<<v, q[i]>>]
  <2>1. \A i \in S : q[i] \in E
    BY <1>1
  <2> QED BY <2>1 DEF IsStep
<1> HIDE DEF S, pick, G
<1>4. ASSUME NEW g, IsIteration(g, S, pick, G, base)
      PROVE  /\ g[{}] = base
             /\ \A s \in SUBSET S :
                /\ g[s] \in V
                /\ s # {} => g[s] = G[<<pick[s], g[s \ {pick[s]}]>>]
  <2>1. /\ g[{}] = base
        /\ \A s \in SUBSET S : s # {} => g[s] = G[<<pick[s], g[s \ {pick[s]}]>>]
    BY <1>4 DEF IsIteration
  <2>2. \A s \in SUBSET S : s # {} /\ g[s \ {pick[s]}] \in V => g[s] \in V
    BY <1>2, <1>3, <2>1
  <2> QED BY <1>1, <1>2, <2>1, <2>2, TypeByRemoval
<1>5. ASSUME NEW g, IsIteration(g, S, pick, G, base)
      PROVE  IsFoldIteration(g, F, base, q)
  <2>1. ASSUME NEW s \in SUBSET S, s # {}
        PROVE  G[<<pick[s], g[s \ {pick[s]}]>>] = F[<<g[s \ {Max(s)}], q[Max(s)]>>]
    <3>1. pick[s] = Max(s) /\ Max(s) \in S /\ g[s \ {Max(s)}] \in V
      BY <1>2, <1>4, <1>5, <2>1
    <3> QED BY <1>3, <3>1
  <2> DEFINE h == [s \in SUBSET S |-> IF s = {} THEN base ELSE F[<<g[s \ {Max(s)}], q[Max(s)]>>]]
  <2>2. g = [s \in SUBSET S |-> IF s = {} THEN base ELSE G[<<pick[s], g[s \ {pick[s]}]>>]]
    BY <1>5 DEF IsIteration
  <2>3. g = h
    BY <2>1, <2>2
  <2> QED BY <1>1, <2>3 DEF IsFoldIteration
<1>6. \E g : IsFoldIteration(g, F, base, q)
  <2>1. \A s \in SUBSET S : s # {} => pick[s] \in s
    BY <1>2
  <2>2. \E g : IsIteration(g, S, pick, G, base)
    BY <1>1, <2>1, IterationExists
  <2> QED BY <1>5, <2>2
<1>7. ASSUME NEW g, IsFoldIteration(g, F, base, q)
      PROVE  /\ IsRun([i \in 0..Len(q) |-> g[1..i]], F, base, q)
             /\ \A s \in SUBSET DOMAIN q : g[s] \in V
             /\ g[DOMAIN q] \in V
  <2>1. /\ g[{}] = base
        /\ \A s \in SUBSET S : s # {} => g[s] = F[<<g[s \ {Max(s)}], q[Max(s)]>>]
    BY <1>1, <1>7 DEF IsFoldIteration
  <2>2. \A s \in SUBSET S : s # {} /\ g[s \ {pick[s]}] \in V => g[s] \in V
    <3> TAKE s \in SUBSET S
    <3>1. s # {} => pick[s] = Max(s) /\ Max(s) \in S /\ q[Max(s)] \in E
      BY <1>1, <1>2
    <3> QED BY <2>1, <3>1 DEF IsStep
  <2>3. \A s \in SUBSET S : g[s] \in V
    <3>1. g[{}] \in V /\ \A s \in SUBSET S : s # {} => pick[s] \in s
      BY <1>2, <2>1
    <3>2. IsFiniteSet(S)
      BY <1>1
    <3> QED BY ONLY <2>2, <3>1, <3>2, TypeByRemoval
  <2>4. IsRun([i \in 0..Len(q) |-> g[1..i]], F, base, q)
    <3>1. g[1..0] = base
      BY <2>1, MaxOfInterval
    <3>2. ASSUME NEW i \in 1..Len(q) PROVE g[1..i] = F[<<g[1..(i - 1)], q[i]>>]
      <4>1. i \in Nat \ {0} /\ 1..i \subseteq 1..Len(q) /\ i \in 1..i
        BY <1>1
      <4>2. 1..i \in SUBSET S /\ 1..i # {}
        BY <4>1 DEF S
      <4> QED BY <2>1, <4>1, <4>2, MaxOfInterval
    <3>3. \A i \in 1..Len(q) : i - 1 \in 0..Len(q) /\ i \in 0..Len(q)
      BY <1>1
    <3> QED BY <1>1, <3>1, <3>2, <3>3 DEF IsRun
  <2>5. DOMAIN q \in SUBSET S
    BY <1>1
  <2> QED BY <1>1, <2>3, <2>4, <2>5
<1> QED BY <1>6, <1>7

(* What every run over a sequence ends with is the value of the fold.      *)
LEMMA FoldOfRun ==
    ASSUME NEW V, NEW E, NEW F, IsStep(F, V, E), NEW base \in V, NEW q \in Seq(E)
    PROVE  /\ \E t : IsRun(t, F, base, q)
           /\ \A t : IsRun(t, F, base, q) => Folded(F, base, q) = t[Len(q)]
           /\ \A g : IsFoldIteration(g, F, base, q) => Folded(F, base, q) = g[DOMAIN q]
           /\ Folded(F, base, q) \in V
<1>1. PICK g : IsFoldIteration(g, F, base, q)
  BY FoldExists
<1>2. \A h : IsFoldIteration(h, F, base, q) =>
        /\ IsRun([i \in 0..Len(q) |-> h[1..i]], F, base, q)
        /\ h[DOMAIN q] \in V
        /\ [i \in 0..Len(q) |-> h[1..i]][Len(q)] = h[DOMAIN q]
  <2>1. Len(q) \in 0..Len(q) /\ DOMAIN q = 1..Len(q)
    OBVIOUS
  <2> QED BY <2>1, FoldExists
<1>3. \E t : IsRun(t, F, base, q)
  BY <1>1, <1>2
<1>4. ASSUME NEW t, IsRun(t, F, base, q) PROVE Folded(F, base, q) = t[Len(q)]
  <2> DEFINE u == CHOOSE u : IsRun(u, F, base, q)
  <2>1. IsRun(u, F, base, q)
    BY <1>3
  <2> HIDE DEF u
  <2>2. u[Len(q)] = t[Len(q)]
    BY <1>4, <2>1, RunUnique
  <2> QED BY <2>2 DEF Folded, u
<1>5. \A h : IsFoldIteration(h, F, base, q) =>
        Folded(F, base, q) = h[DOMAIN q] /\ h[DOMAIN q] \in V
  <2> TAKE h
  <2> HAVE IsFoldIteration(h, F, base, q)
  <2> DEFINE t == [i \in 0..Len(q) |-> h[1..i]]
  <2>1. IsRun(t, F, base, q) /\ t[Len(q)] = h[DOMAIN q] /\ h[DOMAIN q] \in V
    BY <1>2
  <2> HIDE DEF t
  <2> QED BY <1>4, <2>1
<1> QED BY <1>1, <1>3, <1>4, <1>5

(* So is whatever satisfies the equations of a fold where they are about   *)
(* values of its type.                                                     *)
Folds(g, F, base, q, V) ==
    /\ g[{}] = base
    /\ \A s \in SUBSET DOMAIN q : s # {} /\ g[s \ {Max(s)}] \in V =>
           g[s] = F[<<g[s \ {Max(s)}], q[Max(s)]>>]

LEMMA FoldMatches ==
    ASSUME NEW V, NEW E, NEW F, IsStep(F, V, E), NEW base \in V, NEW q \in Seq(E),
           NEW g, Folds(g, F, base, q, V)
    PROVE  g[DOMAIN q] = Folded(F, base, q)
<1> DEFINE S == 1..Len(q)
           pick == [s \in SUBSET S |-> Max(s)]
<1>1. DOMAIN q = S /\ Len(q) \in Nat /\ IsFiniteSet(S) /\ \A i \in S : q[i] \in E
  BY FS_Interval
<1>2. \A s \in SUBSET S : s # {} => pick[s] \in s /\ pick[s] = Max(s)
  BY <1>1, MaxOfPlaces
<1> HIDE DEF S, pick
<1>3. /\ g[{}] = base
      /\ \A s \in SUBSET S : s # {} /\ g[s \ {Max(s)}] \in V =>
             g[s] = F[<<g[s \ {Max(s)}], q[Max(s)]>>]
  BY <1>1 DEF Folds
<1>4. \A s \in SUBSET S : g[s] \in V
  <2>1. g[{}] \in V /\ \A s \in SUBSET S : s # {} => pick[s] \in s
    BY <1>2, <1>3
  <2>2. \A s \in SUBSET S : s # {} /\ g[s \ {pick[s]}] \in V => g[s] \in V
    <3> TAKE s \in SUBSET S
    <3>1. s # {} => pick[s] = Max(s) /\ Max(s) \in S /\ q[Max(s)] \in E
      BY <1>1, <1>2
    <3> QED BY <1>1, <1>3, <3>1 DEF IsStep
  <2>3. IsFiniteSet(S)
    BY <1>1
  <2> QED BY ONLY <2>1, <2>2, <2>3, TypeByRemoval
<1> DEFINE t == [i \in 0..Len(q) |-> g[1..i]]
<1>5. IsRun(t, F, base, q)
  <2>1. g[1..0] = base
    BY <1>3, MaxOfInterval
  <2>2. ASSUME NEW i \in 1..Len(q) PROVE g[1..i] = F[<<g[1..(i - 1)], q[i]>>]
    <3>1. i \in Nat \ {0} /\ 1..i \subseteq 1..Len(q) /\ i \in 1..i
      BY <1>1
    <3>2. 1..i \in SUBSET S /\ 1..i # {} /\ (1..i) \ {i} \in SUBSET S
      BY <3>1 DEF S
    <3>3. g[(1..i) \ {i}] \in V
      BY <1>4, <3>2
    <3> QED BY <1>1, <1>3, <3>1, <3>2, <3>3, MaxOfInterval
  <2>3. \A i \in 1..Len(q) : i - 1 \in 0..Len(q) /\ i \in 0..Len(q)
    BY <1>1
  <2> QED BY <1>1, <2>1, <2>2, <2>3 DEF IsRun
<1>6. t[Len(q)] = g[DOMAIN q]
  BY <1>1 DEF S
<1> HIDE DEF t
<1> QED BY <1>5, <1>6, FoldOfRun

(* All the values of a run are of the type that the steps keep.            *)
LEMMA RunType ==
    ASSUME NEW V, NEW E, NEW F, IsStep(F, V, E), NEW base \in V, NEW q \in Seq(E),
           NEW t, IsRun(t, F, base, q)
    PROVE  \A i \in 0..Len(q) : t[i] \in V
<1> DEFINE T == {n \in Nat : n \in 0..Len(q) => t[n] \in V}
<1>1. 0 \in T
  BY DEF IsRun
<1>2. ASSUME NEW n \in T PROVE n + 1 \in T
  <2>1. CASE n + 1 \in 0..Len(q)
    <3>1. n + 1 \in 1..Len(q) /\ n \in 0..Len(q) /\ (n + 1) - 1 = n
      BY <2>1
    <3>2. t[n + 1] = F[<<t[n], q[n + 1]>>] /\ t[n] \in V /\ q[n + 1] \in E
      BY <3>1 DEF IsRun
    <3>3. t[n + 1] \in V
      BY <3>2 DEF IsStep
    <3> QED BY <3>3
  <2> QED BY <2>1
<1>3. T = Nat
  <2> HIDE DEF T
  <2>1. T \in SUBSET Nat
    BY DEF T
  <2> QED BY <1>1, <1>2, <2>1, NumberInduction
<1> QED BY <1>3

(* A fold, one member of the sequence after the other.                     *)
LEMMA FoldEmpty ==
    ASSUME NEW V, NEW E, NEW F, IsStep(F, V, E), NEW base \in V
    PROVE  Folded(F, base, <<>>) = base
  <1> DEFINE t == [i \in 0..0 |-> base]
             none == <<>>
  <1>1. IsRun(t, F, base, none) /\ t[Len(none)] = base
    BY DEF IsRun
  <1>2. none \in Seq(E)
    OBVIOUS
  <1> HIDE DEF t, none
  <1>3. Folded(F, base, none) = t[Len(none)]
    BY <1>1, <1>2, FoldOfRun
  <1> QED BY <1>1, <1>3 DEF none

LEMMA FoldAppend ==
    ASSUME NEW V, NEW E, NEW F, IsStep(F, V, E), NEW base \in V, NEW q \in Seq(E), NEW e \in E
    PROVE  Folded(F, base, Append(q, e)) = F[<<Folded(F, base, q), e>>]
  <1> DEFINE r == Append(q, e)
  <1>1. /\ r \in Seq(E) /\ Len(r) = Len(q) + 1 /\ Len(q) \in Nat
        /\ r[Len(r)] = e /\ \A i \in 1..Len(q) : r[i] = q[i]
    OBVIOUS
  <1> HIDE DEF r
  <1>2. PICK t : IsRun(t, F, base, r)
    BY <1>1, FoldOfRun
  <1>3. Folded(F, base, r) = t[Len(r)]
    BY <1>1, <1>2, FoldOfRun
  <1> DEFINE u == [i \in 0..Len(q) |-> t[i]]
  <1>4. IsRun(u, F, base, q) /\ u[Len(q)] = t[Len(q)]
    <2>1. \A i \in 1..Len(q) : i \in 1..Len(r) /\ i - 1 \in 0..Len(q) /\ i \in 0..Len(q)
      BY <1>1
    <2>2. \A i \in 1..Len(q) : u[i] = F[<<u[i - 1], q[i]>>]
      BY <1>1, <1>2, <2>1 DEF IsRun
    <2>3. u[0] = base
      BY <1>1, <1>2 DEF IsRun
    <2>4. DOMAIN u = 0..Len(q) /\ u[Len(q)] = t[Len(q)]
      BY <1>1
    <2> HIDE DEF u
    <2> QED BY <2>2, <2>3, <2>4 DEF IsRun
  <1> HIDE DEF u
  <1>5. Folded(F, base, q) = t[Len(q)]
    BY <1>4, FoldOfRun
  <1>6. t[Len(r)] = F[<<t[Len(r) - 1], r[Len(r)]>>]
    BY <1>1, <1>2 DEF IsRun
  <1> QED BY <1>1, <1>3, <1>5, <1>6 DEF r

LEMMA FoldPrepend ==
    ASSUME NEW V, NEW E, NEW F, IsStep(F, V, E), NEW base \in V, NEW q \in Seq(E), NEW e \in E
    PROVE  Folded(F, base, <<e>> \o q) = Folded(F, F[<<base, e>>], q)
  <1> DEFINE r == <<e>> \o q
             next == F[<<base, e>>]
  <1>1. /\ r \in Seq(E) /\ Len(r) = Len(q) + 1 /\ Len(q) \in Nat
        /\ r[1] = e /\ \A i \in 1..Len(q) : r[i + 1] = q[i]
    OBVIOUS
  <1>2. next \in V
    BY DEF IsStep
  <1> HIDE DEF r, next
  <1>3. PICK t : IsRun(t, F, base, r)
    BY <1>1, FoldOfRun
  <1>4. Folded(F, base, r) = t[Len(r)]
    BY <1>1, <1>3, FoldOfRun
  <1> DEFINE u == [i \in 0..Len(q) |-> t[i + 1]]
  <1>5. IsRun(u, F, next, q) /\ u[Len(q)] = t[Len(r)]
    <2>1. \A i \in 1..Len(q) : /\ i + 1 \in 1..Len(r) /\ (i + 1) - 1 = i
                               /\ i - 1 \in 0..Len(q) /\ i \in 0..Len(q) /\ (i - 1) + 1 = i
      BY <1>1
    <2>2. \A i \in 1..Len(q) : u[i] = F[<<u[i - 1], q[i]>>]
      BY <1>1, <1>3, <2>1 DEF IsRun
    <2>3. u[0] = next
      BY <1>1, <1>3 DEF IsRun, next
    <2>4. DOMAIN u = 0..Len(q) /\ u[Len(q)] = t[Len(r)]
      BY <1>1
    <2> HIDE DEF u
    <2> QED BY <2>2, <2>3, <2>4 DEF IsRun
  <1> HIDE DEF u
  <1>6. Folded(F, next, q) = t[Len(r)]
    BY <1>2, <1>5, FoldOfRun
  <1> QED BY <1>4, <1>6 DEF r, next

-----------------------------------------------------------------------------
(* Ranks.                                                                  *)

StrictlyOrders(R, S) ==
    /\ \A x \in S : <<x, x>> \notin R
    /\ \A x, y, z \in S : <<x, y>> \in R /\ <<y, z>> \in R => <<x, z>> \in R
    /\ \A x, y \in S : x # y => <<x, y>> \in R \/ <<y, x>> \in R

(* In a strict total order on a finite set every member has its own rank,  *)
(* the number of those before it, and every rank is some member's; ranks   *)
(* are ordered as the members are.                                         *)
LEMMA EveryRankIsTaken ==
    ASSUME NEW S, IsFiniteSet(S), NEW R, StrictlyOrders(R, S)
    PROVE  /\ \A i \in 1..Cardinality(S) :
                \E x \in S : Cardinality({y \in S : <<y, x>> \in R}) = i - 1
           /\ \A x, z \in S : <<x, z>> \in R =>
                Cardinality({y \in S : <<y, x>> \in R}) < Cardinality({y \in S : <<y, z>> \in R})
<1> DEFINE n == Cardinality(S)
           Before(x) == {y \in S : <<y, x>> \in R}
           Rank == [x \in S |-> Cardinality(Before(x)) + 1]
<1>1. n \in Nat
  BY FS_CardinalityType
<1>2. ASSUME NEW x \in S
      PROVE  /\ Before(x) \in SUBSET S /\ IsFiniteSet(Before(x))
             /\ Cardinality(Before(x)) \in Nat /\ Cardinality(Before(x)) < n
  <2>1. Before(x) \in SUBSET S /\ x \notin Before(x)
    BY DEF StrictlyOrders
  <2> HIDE DEF Before
  <2>2. IsFiniteSet(Before(x)) /\ Cardinality(Before(x)) <= n /\ Cardinality(Before(x)) # n
    BY <2>1, FS_Subset
  <2>3. Cardinality(Before(x)) \in Nat
    BY <2>2, FS_CardinalityType
  <2> QED BY <1>1, <2>1, <2>2, <2>3
<1>3. ASSUME NEW x \in S, NEW y \in S, <<x, y>> \in R
      PROVE  Cardinality(Before(x)) < Cardinality(Before(y))
  <2>1. Before(x) \in SUBSET Before(y) /\ x \in Before(y) /\ x \notin Before(x)
    BY <1>3 DEF StrictlyOrders
  <2>2. /\ IsFiniteSet(Before(y)) /\ Cardinality(Before(x)) \in Nat
        /\ Cardinality(Before(y)) \in Nat
    BY <1>2
  <2> HIDE DEF Before
  <2>3. Cardinality(Before(x)) <= Cardinality(Before(y))
        /\ Cardinality(Before(x)) # Cardinality(Before(y))
    BY <2>1, <2>2, FS_Subset
  <2> QED BY <2>2, <2>3
<1> HIDE DEF Before
<1>4. Rank \in [S -> 1..n]
  BY <1>1, <1>2
<1>5. ASSUME NEW x \in S, NEW y \in S, Rank[x] = Rank[y] PROVE x = y
  <2>1. Cardinality(Before(x)) = Cardinality(Before(y)) /\ Cardinality(Before(x)) \in Nat
    BY <1>2, <1>5
  <2>2. <<x, y>> \in R => Cardinality(Before(x)) < Cardinality(Before(y))
    BY <1>3
  <2>3. <<y, x>> \in R => Cardinality(Before(y)) < Cardinality(Before(x))
    BY <1>3
  <2>4. x # y => <<x, y>> \in R \/ <<y, x>> \in R
    BY DEF StrictlyOrders
  <2> DEFINE a == Cardinality(Before(x))
             b == Cardinality(Before(y))
  <2>5. a = b /\ a \in Nat => ~(a < b) /\ ~(b < a)
    OBVIOUS
  <2> QED BY <2>1, <2>2, <2>3, <2>4, <2>5
<1>6. Rank \in Injection(S, 1..n)
  <2> HIDE DEF Rank
  <2> QED BY <1>4, <1>5 DEF Injection, IsInjective
<1>7. IsFiniteSet(1..n) /\ Cardinality(1..n) = n
  BY <1>1, FS_Interval
<1> DEFINE Ranks == 1..n
<1>8. Rank \in Surjection(S, Ranks)
  <2>1. Rank \in Injection(S, Ranks) /\ IsFiniteSet(Ranks) /\ Cardinality(S) = Cardinality(Ranks)
    BY <1>6, <1>7
  <2> HIDE DEF Rank, Ranks
  <2> QED BY <2>1, FS_Injection
<1>9. ASSUME NEW i \in 1..n PROVE \E x \in S : Cardinality(Before(x)) = i - 1
  <2>1. PICK x \in S : Rank[x] = i
    BY <1>8 DEF Surjection
  <2>2. Cardinality(Before(x)) + 1 = i /\ Cardinality(Before(x)) \in Nat
    BY <1>2, <2>1
  <2> QED BY <2>2
<1> QED BY <1>3, <1>9 DEF Before

-----------------------------------------------------------------------------
(* Sequences of sequences.                                                 *)

(* FlattenSeq is a fold of concatenations.                                 *)
Joining(E) == [p \in Seq(E) \X Seq(E) |-> p[1] \o p[2]]

LEMMA JoiningIsStep ==
    ASSUME NEW E
    PROVE  /\ IsStep(Joining(E), Seq(E), Seq(E))
           /\ \A u, v \in Seq(E) : Joining(E)[<<u, v>>] = u \o v
<1>1. \A u, v \in Seq(E) : u \o v \in Seq(E)
  BY ConcatProperties
<1>2. \A p \in Seq(E) \X Seq(E) : p[1] \o p[2] \in Seq(E)
  <2> TAKE p \in Seq(E) \X Seq(E)
  <2>1. p[1] \in Seq(E) /\ p[2] \in Seq(E)
    OBVIOUS
  <2> QED BY <1>1, <2>1
<1> QED BY <1>2, Zenon DEF IsStep, Joining

LEMMA FlattenIsFold ==
    ASSUME NEW E, NEW ss \in Seq(Seq(E))
    PROVE  FlattenSeq(ss) = Folded(Joining(E), <<>>, ss) /\ FlattenSeq(ss) \in Seq(E)
<1> DEFINE none == <<>>
           Value(f, i) == IF i = 1 THEN ss[i] ELSE f[i - 1] \o ss[i]
           Is(f) == f = [i \in 1..Len(ss) |-> Value(f, i)]
           flat == CHOOSE f : Is(f)
<1>1. IsStep(Joining(E), Seq(E), Seq(E)) /\ none \in Seq(E)
  BY JoiningIsStep
<1>2. FlattenSeq(ss) = IF Len(ss) = 0 THEN ss ELSE flat[Len(ss)]
  BY DEF FlattenSeq
<1>3. Len(ss) \in Nat /\ \A i \in 1..Len(ss) : ss[i] \in Seq(E)
  OBVIOUS
<1> HIDE DEF none
<1>4. PICK t : IsRun(t, Joining(E), none, ss)
  BY <1>1, FoldOfRun
<1>5. t[Len(ss)] = Folded(Joining(E), none, ss) /\ t[Len(ss)] \in Seq(E)
  BY <1>1, <1>4, FoldOfRun
<1>6. CASE Len(ss) = 0
  <2>1. ss = <<>> /\ t[0] = none
    BY <1>4, <1>6, EmptySeq DEF IsRun
  <2> QED BY <1>2, <1>5, <1>6, <2>1 DEF none
<1>7. CASE Len(ss) # 0
  <2>1. \A i \in 1..Len(ss) : t[i - 1] \in Seq(E) /\ i - 1 \in Nat
    <3>1. \A i \in 0..Len(ss) : t[i] \in Seq(E)
      BY <1>1, <1>4, RunType
    <3>2. \A i \in 1..Len(ss) : i - 1 \in 0..Len(ss)
      BY <1>3
    <3> QED BY <3>1, <3>2
  <2>2. \A i \in 1..Len(ss) : t[i] = t[i - 1] \o ss[i]
    <3>1. \A i \in 1..Len(ss) : t[i] = Joining(E)[<<t[i - 1], ss[i]>>]
      BY <1>4 DEF IsRun
    <3> QED BY <1>3, <2>1, <3>1, JoiningIsStep
  <2>3. 1 \in 1..Len(ss) /\ t[1] = ss[1]
    <3>1. 1 \in 1..Len(ss) /\ 1 - 1 = 0
      BY <1>3, <1>7
    <3>2. t[1] = t[0] \o ss[1] /\ t[0] = <<>> /\ ss[1] \in Seq(E)
      BY <1>3, <1>4, <2>2, <3>1 DEF IsRun, none
    <3> QED BY <3>1, <3>2, ConcatEmptySeq
  <2> DEFINE u == [i \in 1..Len(ss) |-> t[i]]
  <2>4. Is(u)
    <3>1. ASSUME NEW i \in 1..Len(ss), i # 1 PROVE u[i - 1] = t[i - 1]
      <4>1. i - 1 \in 1..Len(ss)
        BY <1>3, <3>1
      <4> QED BY <4>1
    <3>2. \A i \in 1..Len(ss) : t[i] = Value(u, i)
      BY <2>2, <2>3, <3>1
    <3> HIDE DEF Value
    <3> QED BY <3>2
  <2> HIDE DEF Is, u
  <2>5. Is(flat)
    BY <2>4
  <2> HIDE DEF flat
  <2>6. \A i \in 1..Len(ss) : flat[i] = IF i = 1 THEN ss[i] ELSE flat[i - 1] \o ss[i]
    BY <2>5 DEF Is
  <2> DEFINE T == {n \in Nat : n \in 1..Len(ss) => flat[n] = t[n]}
  <2>7. T = Nat
    <3>1. 0 \in T
      OBVIOUS
    <3>2. ASSUME NEW n \in T PROVE n + 1 \in T
      <4>1. ASSUME n + 1 \in 1..Len(ss), n # 0 PROVE flat[n + 1] = t[n + 1]
        <5>1. n \in 1..Len(ss) /\ (n + 1) - 1 = n /\ n + 1 # 1
          BY <1>3, <4>1
        <5>2. flat[n] = t[n]
          BY <5>1
        <5>3. flat[n + 1] = flat[n] \o ss[n + 1]
          BY <2>6, <4>1, <5>1
        <5>4. t[n + 1] = t[n] \o ss[n + 1]
          BY <2>2, <4>1, <5>1
        <5> QED BY <5>2, <5>3, <5>4
      <4>2. flat[1] = t[1]
        BY <2>3, <2>6
      <4> QED BY <4>1, <4>2
    <3> HIDE DEF T
    <3>3. T \in SUBSET Nat
      BY DEF T
    <3> QED BY <3>1, <3>2, <3>3, NumberInduction
  <2>8. flat[Len(ss)] = t[Len(ss)]
    <3>1. Len(ss) \in T /\ Len(ss) \in 1..Len(ss)
      BY <1>3, <1>7, <2>7
    <3> QED BY <3>1
  <2> QED BY <1>2, <1>5, <1>7, <2>8 DEF none
<1> QED BY <1>6, <1>7

(* Joined piece after piece, from either end.                              *)
LEMMA FlattenLaws ==
    ASSUME NEW E, NEW ss \in Seq(Seq(E)), NEW s \in Seq(E)
    PROVE  /\ FlattenSeq(<<>>) = <<>>
           /\ FlattenSeq(Append(ss, s)) = FlattenSeq(ss) \o s
           /\ FlattenSeq(<<s>> \o ss) = s \o FlattenSeq(ss)
<1> DEFINE none == <<>>
           F == Joining(E)
           V == Seq(E)
<1>1. /\ IsStep(F, V, V) /\ none \in V /\ ss \in Seq(V) /\ s \in V
      /\ \A u, v \in V : F[<<u, v>>] = u \o v
  <2>1. none \in V
    OBVIOUS
  <2> HIDE DEF none, F
  <2> QED BY <2>1, JoiningIsStep DEF F
<1>2. FlattenSeq(none) = none
  BY DEF FlattenSeq
<1>3. Append(ss, s) \in Seq(V) /\ <<s>> \o ss \in Seq(V)
  BY ConcatProperties
<1>4. \A r \in Seq(V) : FlattenSeq(r) = Folded(F, none, r) /\ FlattenSeq(r) \in V
  BY FlattenIsFold
<1> HIDE DEF none, F, V
<1>5. FlattenSeq(Append(ss, s)) = FlattenSeq(ss) \o s
  <2>1. Folded(F, none, Append(ss, s)) = F[<<Folded(F, none, ss), s>>]
    BY <1>1, FoldAppend
  <2> QED BY <1>1, <1>3, <1>4, <2>1
<1>6. FlattenSeq(<<s>> \o ss) = s \o FlattenSeq(ss)
  <2>1. Folded(F, none, <<s>> \o ss) = Folded(F, F[<<none, s>>], ss)
    BY <1>1, FoldPrepend
  <2>2. F[<<none, s>>] = s
    BY <1>1, ConcatEmptySeq DEF none, V
  <2>3. PICK t : IsRun(t, F, none, ss)
    BY <1>1, FoldOfRun
  <2>4. PICK u : IsRun(u, F, s, ss)
    BY <1>1, FoldOfRun
  <2>5. /\ t[0] = none /\ u[0] = s /\ Len(ss) \in Nat
        /\ \A i \in 1..Len(ss) : /\ t[i] = F[<<t[i - 1], ss[i]>>]
                                 /\ u[i] = F[<<u[i - 1], ss[i]>>]
                                 /\ ss[i] \in V
    <3>1. Len(ss) \in Nat /\ \A i \in 1..Len(ss) : ss[i] \in V
      BY <1>1
    <3> QED BY <2>3, <2>4, <3>1 DEF IsRun
  <2> DEFINE T == {n \in Nat : n <= Len(ss) => t[n] \in V /\ u[n] = s \o t[n]}
  <2>6. 0 \in T
    BY <1>1, <2>5, ConcatEmptySeq DEF none, V
  <2>7. ASSUME NEW n \in T PROVE n + 1 \in T
    <3>1. CASE n + 1 <= Len(ss)
      <4>1. n + 1 \in 1..Len(ss) /\ (n + 1) - 1 = n /\ t[n] \in V /\ u[n] = s \o t[n]
        BY <2>5, <3>1
      <4> DEFINE v == t[n]
                 w == ss[n + 1]
      <4>2. /\ t[n + 1] = F[<<v, w>>] /\ u[n + 1] = F[<<s \o v, w>>]
            /\ v \in V /\ w \in V
        BY <2>5, <4>1
      <4> HIDE DEF v, w
      <4>3. s \o v \in V /\ v \o w \in V
        BY <4>2, ConcatProperties DEF V
      <4>4. t[n + 1] = v \o w /\ u[n + 1] = (s \o v) \o w
        BY <1>1, <4>2, <4>3
      <4>5. (s \o v) \o w = s \o (v \o w)
        BY <4>2, ConcatAssociative DEF V
      <4>6. t[n + 1] \in V /\ u[n + 1] = s \o t[n + 1]
        BY <4>3, <4>4, <4>5
      <4> QED BY <4>6
    <3>2. CASE ~(n + 1 <= Len(ss))
      BY <3>2
    <3> QED BY <3>1, <3>2
  <2>8. T = Nat
    <3> HIDE DEF T
    <3>1. T \in SUBSET Nat
      BY DEF T
    <3> QED BY <2>6, <2>7, <3>1, NumberInduction
  <2>9. u[Len(ss)] = s \o t[Len(ss)]
    BY <2>5, <2>8
  <2>10. Folded(F, none, ss) = t[Len(ss)] /\ Folded(F, s, ss) = u[Len(ss)]
    BY <1>1, <2>3, <2>4, FoldOfRun
  <2>11. FlattenSeq(ss) = t[Len(ss)] /\ FlattenSeq(<<s>> \o ss) = u[Len(ss)]
    BY <1>1, <1>3, <1>4, <2>1, <2>2, <2>10
  <2> QED BY <2>9, <2>11
<1> QED BY <1>2, <1>5, <1>6 DEF none

(* A sequence in which every element is replaced by a sequence.            *)
Images(f, q) == [i \in DOMAIN q |-> f[q[i]]]
FlatMap(f, q) == FlattenSeq(Images(f, q))

LEMMA ImagesType ==
    ASSUME NEW E, NEW V, NEW f \in [E -> V], NEW q \in Seq(E)
    PROVE  Images(f, q) \in Seq(V) /\ Len(Images(f, q)) = Len(q)
<1>1. DOMAIN q = 1..Len(q) /\ Len(q) \in Nat /\ \A i \in 1..Len(q) : q[i] \in E
  OBVIOUS
<1>2. \A i \in 1..Len(q) : f[q[i]] \in V
  BY <1>1
<1> QED BY <1>1, <1>2 DEF Images

LEMMA FlatMapLaws ==
    ASSUME NEW E, NEW V, NEW f \in [E -> Seq(V)], NEW q \in Seq(E), NEW e \in E
    PROVE  /\ FlatMap(f, q) \in Seq(V)
           /\ FlatMap(f, <<>>) = <<>>
           /\ FlatMap(f, Append(q, e)) = FlatMap(f, q) \o f[e]
<1> DEFINE W == Seq(V)
<1>1. \A r \in Seq(E) : Images(f, r) \in Seq(W) /\ Len(Images(f, r)) = Len(r)
  BY ImagesType
<1>2. FlatMap(f, q) \in W
  BY <1>1, FlattenIsFold DEF FlatMap
<1>3. FlatMap(f, <<>>) = <<>>
  BY DEF FlatMap, Images, FlattenSeq
<1>4. FlatMap(f, Append(q, e)) = FlatMap(f, q) \o f[e]
  <2>1. f[e] \in W /\ Images(f, q) \in Seq(W) /\ Len(Images(f, q)) = Len(q)
    BY <1>1
  <2>2. Append(q, e) \in Seq(E) /\ Len(Append(q, e)) = Len(q) + 1
    OBVIOUS
  <2>3. Images(f, Append(q, e)) = Append(Images(f, q), f[e])
    BY <2>1, <2>2 DEF Images
  <2>4. FlattenSeq(Append(Images(f, q), f[e])) = FlattenSeq(Images(f, q)) \o f[e]
    BY <2>1, FlattenLaws
  <2> QED BY <2>3, <2>4 DEF FlatMap
<1> QED BY <1>2, <1>3, <1>4

LEMMA FlatMapHead ==
    ASSUME NEW E, NEW V, NEW f \in [E -> Seq(V)], NEW q \in Seq(E), q # <<>>
    PROVE  FlatMap(f, q) = f[Head(q)] \o FlatMap(f, Tail(q))
<1> DEFINE W == Seq(V)
<1>1. \A r \in Seq(E) : Images(f, r) \in Seq(W) /\ Len(Images(f, r)) = Len(r)
  BY ImagesType
<1> DEFINE h == Head(q)
           t == Tail(q)
<1>2. /\ h \in E /\ t \in Seq(E)
      /\ Len(q) = Len(t) + 1 /\ Len(t) \in Nat
      /\ q[1] = h /\ \A i \in 1..Len(t) : q[i + 1] = t[i]
  BY HeadTailProperties
<1> HIDE DEF h, t
<1>3. f[h] \in W /\ Images(f, t) \in Seq(W) /\ Len(Images(f, t)) = Len(t)
  BY <1>1, <1>2
<1>4. Images(f, q) = <<f[h]>> \o Images(f, t)
  <2> DEFINE p == <<f[h]>> \o Images(f, t)
  <2>1. /\ p \in Seq(W) /\ Len(p) = Len(t) + 1 /\ p[1] = f[h]
        /\ \A i \in 1..Len(t) : p[i + 1] = Images(f, t)[i]
    <3> HIDE DEF W
    <3> QED BY <1>2, <1>3, ConcatProperties
  <2>2. \A i \in 1..Len(t) : Images(f, t)[i] = f[t[i]]
    BY <1>2 DEF Images
  <2>3. Images(f, q) \in Seq(W) /\ Len(Images(f, q)) = Len(q)
    BY <1>1
  <2>4. ASSUME NEW i \in 1..Len(q) PROVE Images(f, q)[i] = p[i]
    <3>1. Images(f, q)[i] = f[q[i]]
      BY DEF Images
    <3>2. CASE i = 1
      BY <1>2, <2>1, <3>1, <3>2
    <3>3. CASE i # 1
      <4>1. i - 1 \in 1..Len(t) /\ (i - 1) + 1 = i
        BY <1>2, <3>3
      <4>2. p[i] = Images(f, t)[i - 1] /\ q[i] = t[i - 1]
        BY <1>2, <2>1, <4>1
      <4> QED BY <2>2, <3>1, <4>1, <4>2
    <3> QED BY <3>2, <3>3
  <2> HIDE DEF p
  <2>5. Images(f, q) = p
    BY <1>2, <2>1, <2>3, <2>4, SeqEqual
  <2> QED BY <2>5 DEF p
<1>5. FlattenSeq(<<f[h]>> \o Images(f, t)) = f[h] \o FlattenSeq(Images(f, t))
  BY <1>3, FlattenLaws
<1> QED BY <1>4, <1>5 DEF FlatMap, h, t
=============================================================================

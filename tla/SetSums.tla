------------------------------ MODULE SetSums ------------------------------
(***************************************************************************)
(* Sums over finite sets and least elements.  What would be shown by an    *)
(* induction over a set is shown here with a smallest set for which it     *)
(* does not hold.                                                          *)
(***************************************************************************)
EXTENDS Integers, Functions, FiniteSetTheorems, TLAPS

\* Among finite sets there is one that has no other of them inside.
LEMMA MinimalSet ==
    ASSUME NEW T, T # {}, \A t \in T : IsFiniteSet(t)
    PROVE  \E t \in T : \A u \in T : u \subseteq t => u = t
<1> DEFINE S == UNION T
<1>1. T \subseteq FiniteSubsetsOf(S)
  BY DEF FiniteSubsetsOf
<1>2. PICK t \in T : \A u \in T : <<u, t>> \notin StrictSubsetOrdering(S)
  BY <1>1, WFMin, FS_StrictSubsetOrderingWellFounded
<1> QED
  BY <1>2 DEF StrictSubsetOrdering

\* A set of natural numbers has a least one.
LEMMA LeastNatural ==
    ASSUME NEW N, N # {}, N \subseteq Nat
    PROVE  \E n \in N : \A m \in N : n <= m
<1> DEFINE Upto(n) == {m \in N : m <= n}
<1>1. \A n \in N : Upto(n) \in SUBSET Nat /\ IsFiniteSet(Upto(n))
  <2> SUFFICES ASSUME NEW n \in N
               PROVE  Upto(n) \in SUBSET Nat /\ IsFiniteSet(Upto(n))
    OBVIOUS
  <2>1. Upto(n) \in SUBSET Nat /\ n \in Nat /\ \A m \in Upto(n) : m <= n
    OBVIOUS
  <2> QED
    BY <2>1, FS_BoundedSetOfNaturals
<1>2. PICK n \in N : \A m \in N : Upto(m) \subseteq Upto(n) => Upto(m) = Upto(n)
  <2> DEFINE T == {Upto(m) : m \in N}
  <2>1. T # {} /\ \A t \in T : IsFiniteSet(t)
    BY <1>1
  <2>2. PICK t \in T : \A u \in T : u \subseteq t => u = t
    <3> HIDE DEF T
    <3> QED
      BY <2>1, MinimalSet
  <2>3. PICK n \in N : t = Upto(n)
    OBVIOUS
  <2>4. \A m \in N : Upto(m) \in T
    OBVIOUS
  <2> HIDE DEF T, Upto
  <2> QED
    BY <2>2, <2>3, <2>4
<1>3. ASSUME NEW m \in N, m < n PROVE FALSE
  <2>1. \A k \in N : k \in Nat
    OBVIOUS
  <2>2. ASSUME NEW k \in Upto(m) PROVE k \in Upto(n)
    <3>1. k \in N /\ k <= m
      OBVIOUS
    <3>2. k <= n
      BY <1>3, <2>1, <3>1
    <3> QED
      BY <3>1, <3>2
  <2>3. n \in Upto(n) /\ n \notin Upto(m)
    BY <1>3, <2>1
  <2> QED
    BY <1>2, <2>2, <2>3
<1> QED
  BY <1>3
-----------------------------------------------------------------------------
(* Sums *)

\* The function by which SumFunctionOnSet is defined.
Iterates(g, f, S) ==
    g = [s \in SUBSET S |-> IF s = {} THEN 0
                            ELSE f[CHOOSE x \in s : TRUE] + g[s \ {CHOOSE x \in s : TRUE}]]

\* A function whose values do not depend on which element is taken first.
Additive(g, f, S) ==
    /\ g \in [SUBSET S -> Int]
    /\ g[{}] = 0
    /\ \A s \in SUBSET S : \A x \in s : g[s] = f[x] + g[s \ {x}]

\* SumFunctionOnSet takes the value of a function that iterates, once one exists.
LEMMA SumIterates ==
    ASSUME NEW f, NEW S, NEW g, Iterates(g, f, S)
    PROVE  \E h : Iterates(h, f, S) /\ SumFunctionOnSet(f, S) = h[S]
<1> DEFINE h == CHOOSE h : Iterates(h, f, S)
<1>1. Iterates(h, f, S)
  OBVIOUS
<1>2. SumFunctionOnSet(f, S) = h[S]
  BY DEF SumFunctionOnSet, FoldFunctionOnSet, MapThenFoldSet, Iterates
<1> QED
  BY <1>1, <1>2

\* What adds up in any order adds up in the order CHOOSE takes the elements.
LEMMA AdditiveIterates ==
    ASSUME NEW f, NEW S, NEW g, Additive(g, f, S)
    PROVE  Iterates(g, f, S)
<1> SUFFICES ASSUME NEW s \in SUBSET S, s # {}
             PROVE  g[s] = f[CHOOSE x \in s : TRUE] + g[s \ {CHOOSE x \in s : TRUE}]
  BY DEF Additive, Iterates
<1>1. (CHOOSE x \in s : TRUE) \in s
  OBVIOUS
<1> QED
  BY <1>1 DEF Additive

\* Two functions that iterate over a finite set agree: they do on the smallest subset
\* on which they would not.
LEMMA IteratesUnique ==
    ASSUME NEW f, NEW S, IsFiniteSet(S), NEW g, NEW h, Iterates(g, f, S), Iterates(h, f, S)
    PROVE  g[S] = h[S]
<1> DEFINE T == {s \in SUBSET S : g[s] # h[s]}
<1> SUFFICES ASSUME T # {} PROVE FALSE
  OBVIOUS
<1>1. \A s \in SUBSET S : IsFiniteSet(s)
  BY FS_Subset
<1>2. PICK t \in T : \A u \in T : u \subseteq t => u = t
  <2>1. \A s \in T : IsFiniteSet(s)
    BY <1>1
  <2> HIDE DEF T
  <2> QED
    BY <2>1, MinimalSet
<1>3. t # {}
  BY DEF Iterates
<1> DEFINE x == CHOOSE x \in t : TRUE
<1>4. x \in t /\ t \ {x} \in SUBSET S
  BY <1>3
<1>5. g[t \ {x}] = h[t \ {x}]
  BY <1>2, <1>4
<1>6. g[t] = f[x] + g[t \ {x}]
  BY <1>3 DEF Iterates
<1>7. h[t] = f[x] + h[t \ {x}]
  BY <1>3 DEF Iterates
<1> QED
  BY <1>5, <1>6, <1>7

\* So a sum is the value of any additive function.
LEMMA SumAdditive ==
    ASSUME NEW f, NEW S, IsFiniteSet(S), NEW g, Additive(g, f, S)
    PROVE  SumFunctionOnSet(f, S) = g[S]
<1>1. PICK h : Iterates(h, f, S) /\ SumFunctionOnSet(f, S) = h[S]
  BY SumIterates, AdditiveIterates
<1> QED
  BY <1>1, IteratesUnique, AdditiveIterates

\* Taking x first or last does not matter.
LEMMA AdditiveExtends ==
    ASSUME NEW f, NEW S, NEW x, x \notin S, \A y \in S \cup {x} : f[y] \in Int,
           NEW g, Additive(g, f, S)
    PROVE  \E h : Additive(h, f, S \cup {x})
<1> DEFINE h == [s \in SUBSET (S \cup {x}) |->
                    IF x \in s THEN f[x] + g[s \ {x}] ELSE g[s]]
<1>1. \A s \in SUBSET (S \cup {x}) : s \ {x} \in SUBSET S
  OBVIOUS
<1>2. h \in [SUBSET (S \cup {x}) -> Int]
  BY <1>1 DEF Additive
<1>3. h[{}] = 0
  BY DEF Additive
<1>4. ASSUME NEW s \in SUBSET (S \cup {x}), NEW y \in s
      PROVE  h[s] = f[y] + h[s \ {y}]
  <2>1. CASE y = x
    BY <1>1, <2>1
  <2>2. CASE y # x /\ x \in s
    <3>1. (s \ {x}) \ {y} = (s \ {y}) \ {x} /\ y \in s \ {x}
      BY <2>2, Zenon
    <3>0. s \ {x} \in SUBSET S
      BY <1>1
    <3>2. g[s \ {x}] = f[y] + g[(s \ {y}) \ {x}]
      <4>1. g[s \ {x}] = f[y] + g[(s \ {x}) \ {y}]
        BY <3>0, <3>1 DEF Additive
      <4> QED
        BY <3>1, <4>1, Zenon
    <3>3. h[s] = f[x] + g[s \ {x}] /\ h[s \ {y}] = f[x] + g[(s \ {y}) \ {x}]
      BY <2>2
    <3>4. g[s \ {x}] \in Int /\ g[(s \ {y}) \ {x}] \in Int /\ f[y] \in Int
      BY <1>1, <3>1 DEF Additive
    <3>5. f[x] + g[s \ {x}] = f[y] + (f[x] + g[(s \ {y}) \ {x}])
      BY <3>2, <3>4
    <3> QED
      BY <3>3, <3>5
  <2>3. CASE x \notin s
    BY <1>1, <2>3 DEF Additive
  <2> QED
    BY <2>1, <2>2, <2>3
<1>5. Additive(h, f, S \cup {x})
  <2> HIDE DEF h
  <2> QED
    BY <1>2, <1>3, <1>4 DEF Additive
<1> QED
  BY <1>5

\* Integers of a finite set can be added up: the smallest subset for which they could
\* not would have an element less than one for which they can.
LEMMA AdditiveExists ==
    ASSUME NEW f, NEW S, IsFiniteSet(S), \A x \in S : f[x] \in Int
    PROVE  \E g : Additive(g, f, S)
<1> DEFINE T == {s \in SUBSET S : ~\E g : Additive(g, f, s)}
<1> SUFFICES ASSUME T # {} PROVE FALSE
  OBVIOUS
<1>1. PICK t \in T : \A u \in T : u \subseteq t => u = t
  <2>1. \A s \in T : IsFiniteSet(s)
    BY FS_Subset
  <2> HIDE DEF T
  <2> QED
    BY <2>1, MinimalSet
<1>2. CASE t = {}
  <2>1. Additive([s \in SUBSET {} |-> 0], f, {})
    BY DEF Additive
  <2> QED
    BY <1>2, <2>1
<1>3. ASSUME NEW x \in t PROVE FALSE
  <2>1. t \ {x} \notin T /\ t \ {x} \in SUBSET S /\ (t \ {x}) \cup {x} = t
    BY <1>1, <1>3
  <2>2. PICK g : Additive(g, f, t \ {x})
    BY <2>1
  <2>3. \E h : Additive(h, f, (t \ {x}) \cup {x})
    <3>1. x \notin t \ {x} /\ \A y \in (t \ {x}) \cup {x} : f[y] \in Int
      BY <1>3
    <3> QED
      BY <2>2, <3>1, AdditiveExtends
  <2> QED
    BY <2>1, <2>3
<1> QED
  BY <1>2, <1>3

\* What adds up over a set adds up over its subsets.
LEMMA AdditiveSubset ==
    ASSUME NEW f, NEW S, NEW g, Additive(g, f, S), NEW R \in SUBSET S
    PROVE  Additive([s \in SUBSET R |-> g[s]], f, R)
  BY DEF Additive

\* A sum of integers is an integer.
LEMMA SumType ==
    ASSUME NEW f, NEW S, IsFiniteSet(S), \A x \in S : f[x] \in Int
    PROVE  SumFunctionOnSet(f, S) \in Int
<1>1. PICK g : Additive(g, f, S)
  BY AdditiveExists
<1>2. SumFunctionOnSet(f, S) = g[S]
  BY <1>1, SumAdditive
<1> QED
  BY <1>1, <1>2 DEF Additive

\* The sum over no elements is 0.
LEMMA SumEmpty ==
    ASSUME NEW f
    PROVE  SumFunctionOnSet(f, {}) = 0
<1>1. PICK g : Additive(g, f, {})
  BY AdditiveExists, FS_EmptySet
<1>2. SumFunctionOnSet(f, {}) = g[{}]
  BY <1>1, SumAdditive, FS_EmptySet
<1> QED
  BY <1>1, <1>2 DEF Additive

\* One element more adds its value.
LEMMA SumAdd ==
    ASSUME NEW f, NEW S, IsFiniteSet(S), NEW x, x \notin S, \A y \in S \cup {x} : f[y] \in Int
    PROVE  SumFunctionOnSet(f, S \cup {x}) = SumFunctionOnSet(f, S) + f[x]
<1> DEFINE R == S \cup {x}
<1>1. IsFiniteSet(R)
  BY FS_AddElement
<1>2. PICK g : Additive(g, f, R)
  BY <1>1, AdditiveExists
<1>3. SumFunctionOnSet(f, R) = g[R]
  BY <1>1, <1>2, SumAdditive
<1>4. SumFunctionOnSet(f, S) = g[S]
  <2> DEFINE h == [s \in SUBSET S |-> g[s]]
  <2>1. Additive(h, f, S)
    BY <1>2, AdditiveSubset
  <2>2. h[S] = g[S]
    OBVIOUS
  <2> HIDE DEF h
  <2> QED
    BY <2>1, <2>2, SumAdditive
<1>5. g[R] = f[x] + g[R \ {x}] /\ g[S] \in Int
  BY <1>2 DEF Additive
<1>6. R \ {x} = S /\ f[x] \in Int
  OBVIOUS
<1>7. g[R] = f[x] + g[S]
  BY <1>5, <1>6, Zenon
<1>8. f[x] + g[S] = g[S] + f[x]
  BY <1>5, <1>6
<1> QED
  BY <1>3, <1>4, <1>7, <1>8, Zenon

\* Functions that agree on a set have the same sum.
LEMMA SumSame ==
    ASSUME NEW f, NEW e, NEW S, IsFiniteSet(S), \A x \in S : f[x] \in Int /\ e[x] = f[x]
    PROVE  SumFunctionOnSet(e, S) = SumFunctionOnSet(f, S)
<1>1. PICK g : Additive(g, f, S)
  BY AdditiveExists
<1>2. Additive(g, e, S)
  <2>1. \A s \in SUBSET S : \A x \in s : e[x] = f[x]
    OBVIOUS
  <2> QED
    BY <1>1, <2>1 DEF Additive
<1> QED
  BY <1>1, <1>2, SumAdditive

\* Elements that take nothing away leave a sum as large as it was.
LEMMA SumGrows ==
    ASSUME NEW f, NEW S, IsFiniteSet(S), NEW R \in SUBSET S, \A x \in S : f[x] \in Int,
           \A x \in S \ R : f[x] >= 0
    PROVE  SumFunctionOnSet(f, R) <= SumFunctionOnSet(f, S)
<1> DEFINE T == {s \in SUBSET S : R \subseteq s /\ ~(SumFunctionOnSet(f, R) <= SumFunctionOnSet(f, s))}
<1> SUFFICES ASSUME T # {} PROVE FALSE
  OBVIOUS
<1>1. \A s \in SUBSET S : IsFiniteSet(s) /\ SumFunctionOnSet(f, s) \in Int
  BY FS_Subset, SumType
<1>2. PICK t \in T : \A u \in T : u \subseteq t => u = t
  <2>1. \A s \in T : IsFiniteSet(s)
    BY <1>1
  <2> HIDE DEF T
  <2> QED
    BY <2>1, MinimalSet
<1>3. t # R
  BY <1>1
<1>4. PICK x \in t : x \notin R
  BY <1>3
<1> DEFINE u == t \ {x}
<1>5. u \in SUBSET S /\ R \subseteq u /\ u \notin T /\ x \notin u /\ t = u \cup {x}
  BY <1>2, <1>4
<1>6. SumFunctionOnSet(f, R) <= SumFunctionOnSet(f, u)
  BY <1>5
<1>7. SumFunctionOnSet(f, t) = SumFunctionOnSet(f, u) + f[x]
  <2>1. \A y \in u \cup {x} : f[y] \in Int
    BY <1>5
  <2>2. IsFiniteSet(u)
    BY <1>1, <1>5
  <2>3. SumFunctionOnSet(f, u \cup {x}) = SumFunctionOnSet(f, u) + f[x]
    <3> HIDE DEF u
    <3> QED
      BY <1>5, <2>1, <2>2, SumAdd
  <2> QED
    BY <1>5, <2>3
<1>8. f[x] \in Int /\ f[x] >= 0
  BY <1>4
<1>9. /\ SumFunctionOnSet(f, R) \in Int /\ SumFunctionOnSet(f, u) \in Int
      /\ ~(SumFunctionOnSet(f, R) <= SumFunctionOnSet(f, t))
  BY <1>1, <1>5
<1> HIDE DEF u
<1> QED
  BY <1>6, <1>7, <1>8, <1>9
=============================================================================

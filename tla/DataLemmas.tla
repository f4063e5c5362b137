------------------------------ MODULE DataLemmas ------------------------------
(* Lemmas about the data operators the models use: minima and maxima of numbers,  *)
(* and sums over finite sets.  The induction they need goes by a smallest         *)
(* counterexample, in a set, so that no predicate has to be instantiated.         *)
EXTENDS FiniteSetsExt, TLAPS, WellFoundedInduction, FiniteSetTheorems
------------------------------------------------------------------------------
(* Numbers. *)

\* The order of the natural numbers is well founded, for a set of them.
LEMMA LeastExists ==
  ASSUME NEW T, T \subseteq Nat, T # {}, NEW R, R = OpToRel(<, Nat)
  PROVE  \E m \in T : \A n \in T : <<n, m>> \notin R
BY WFMin, NatLessThanWellFounded

\* A nonempty set of natural numbers has a smallest one.
LEMMA SmallestExists ==
  ASSUME NEW T \in SUBSET Nat, T # {}
  PROVE  \E m \in T : \A n \in T : m <= n
<1>1. \A x, y \in Nat : <<x, y>> \notin OpToRel(<, Nat) => y <= x
  BY Z3 DEF OpToRel
<1>2. PICK m \in T : \A n \in T : <<n, m>> \notin OpToRel(<, Nat)
  BY LeastExists
<1>3. QED
  BY <1>1, <1>2

\* Induction over the natural numbers, for a set.
LEMMA AllNumbers ==
  ASSUME NEW T \in SUBSET Nat, 0 \in T, \A n \in T : n + 1 \in T
  PROVE  T = Nat
<1> SUFFICES ASSUME Nat \ T # {} PROVE FALSE
  OBVIOUS
<1>1. PICK m \in Nat \ T : \A n \in Nat \ T : m <= n
  BY SmallestExists
<1>2. m # 0 /\ m - 1 \in Nat /\ m - 1 \in T
  BY <1>1
<1>3. QED
  BY <1>1, <1>2

\* Max of bounded numbers is the largest of them.
LEMMA MaxIsLargest ==
  ASSUME NEW n \in Nat, NEW S \in SUBSET (0..n), S # {}
  PROVE  Max(S) \in S /\ \A x \in S : x <= Max(S)
<1> DEFINE T == {m \in 0..n : n - m \in S}
<1>1. T \in SUBSET Nat /\ T # {}
  <2>1. PICK x \in S : TRUE
    OBVIOUS
  <2>2. x \in 0..n /\ n - x \in 0..n /\ n - (n - x) = x
    BY <2>1
  <2>3. n - x \in T
    BY <2>2
  <2>4. T \subseteq Nat
    OBVIOUS
  <2>5. QED
    BY <2>3, <2>4
<1>2. PICK m \in T : \A y \in T : m <= y
  BY <1>1, SmallestExists
<1>3. n - m \in S /\ m \in 0..n
  BY <1>2
<1>4. ASSUME NEW x \in S PROVE x <= n - m
  <2>1. n - x \in T /\ x \in 0..n
    OBVIOUS
  <2>2. m <= n - x
    BY <1>2, <2>1
  <2>3. QED
    BY <1>3, <2>1, <2>2
<1>5. \E x \in S : \A y \in S : x >= y
  BY <1>3, <1>4
<1>6. QED
  BY <1>5 DEF Max
------------------------------------------------------------------------------
(* Finite sets. *)

\* A nonempty set of subsets of a finite set has a minimal one.
LEMMA MinimalExists ==
  ASSUME NEW S, IsFiniteSet(S), NEW T \in SUBSET (SUBSET S), T # {}
  PROVE  \E m \in T : \A s \in T : s \subseteq m => s = m
<1>1. IsWellFoundedOn(StrictSubsetOrdering(S), SUBSET S)
  BY FS_StrictSubsetOrderingWellFounded, FS_FiniteSubsetsOfFinite
<1>2. PICK m \in T : \A s \in T : <<s, m>> \notin StrictSubsetOrdering(S)
  BY <1>1, WFMin
<1>3. \A s \in T : s \subseteq m => s = m
  BY <1>2 DEF StrictSubsetOrdering
<1>4. QED
  BY <1>3
------------------------------------------------------------------------------
(* Sums. *)

\* The element a fold takes first.
First(s) == CHOOSE x \in s : TRUE

\* g gives the sum of f over every subset of S.
SumsOver(f, S, g) ==
  g = [s \in SUBSET S |-> IF s = {} THEN 0 ELSE f[First(s)] + g[s \ {First(s)}]]

\* Subsets of at most n elements.
UpTo(S, n) == {s \in SUBSET S : Cardinality(s) <= n}

\* There is such a g.
LEMMA SumsExist ==
  ASSUME NEW S, IsFiniteSet(S), NEW f
  PROVE  \E g : SumsOver(f, S, g)
<1> DEFINE Part(n, g) == g = [s \in UpTo(S, n) |-> IF s = {} THEN 0 ELSE f[First(s)] + g[s \ {First(s)}]]
           T == {n \in Nat : \E g : Part(n, g)}
<1>1. 0 \in T
  <2> DEFINE g == [s \in UpTo(S, 0) |-> 0]
  <2>1. \A s \in UpTo(S, 0) : s = {}
    BY FS_EmptySet, FS_Subset, FS_CardinalityType DEF UpTo
  <2>2. Part(0, g)
    BY <2>1
  <2>3. QED
    BY <2>2
<1>2. ASSUME NEW n \in T PROVE n + 1 \in T
  <2>1. PICK g : Part(n, g)
    OBVIOUS
  <2> DEFINE h == [s \in UpTo(S, n + 1) |-> IF s = {} THEN 0 ELSE f[First(s)] + g[s \ {First(s)}]]
  <2>2. \A s \in UpTo(S, n) : s \in UpTo(S, n + 1) /\ h[s] = g[s]
    <3>1. UpTo(S, n) \subseteq UpTo(S, n + 1)
      BY FS_Subset, FS_CardinalityType DEF UpTo
    <3>2. QED
      BY <2>1, <3>1
  <2>3. \A s \in UpTo(S, n + 1) : s # {} => s \ {First(s)} \in UpTo(S, n)
    <3> SUFFICES ASSUME NEW s \in UpTo(S, n + 1), s # {} PROVE s \ {First(s)} \in UpTo(S, n)
      OBVIOUS
    <3>1. First(s) \in s
      BY DEF First
    <3>2. s \in SUBSET S /\ Cardinality(s) <= n + 1 /\ IsFiniteSet(s)
      BY FS_Subset DEF UpTo
    <3>3. Cardinality(s \ {First(s)}) = Cardinality(s) - 1 /\ Cardinality(s) \in Nat
      BY <3>1, <3>2, FS_RemoveElement, FS_CardinalityType
    <3>4. Cardinality(s \ {First(s)}) <= n
      BY <3>2, <3>3
    <3>5. QED
      BY <3>2, <3>4 DEF UpTo
  <2>4. Part(n + 1, h)
    BY <2>2, <2>3
  <2>5. n + 1 \in Nat
    OBVIOUS
  <2>6. \E e : Part(n + 1, e)
    <3> HIDE DEF h, Part
    <3>1. QED
      BY <2>4
  <2>7. QED
    <3> HIDE DEF Part
    <3>1. QED
      BY <2>5, <2>6
<1>3. T = Nat
  <2> HIDE DEF T
  <2>1. T \subseteq Nat
    BY DEF T
  <2>2. QED
    BY <1>1, <1>2, <2>1, AllNumbers
<1>4. Cardinality(S) \in T
  BY <1>3, FS_CardinalityType
<1>5. PICK g : Part(Cardinality(S), g)
  BY <1>4
<1>6. UpTo(S, Cardinality(S)) = SUBSET S
  BY FS_Subset DEF UpTo
<1>7. QED
  BY <1>5, <1>6 DEF SumsOver

\* On the subsets of T it is what f's values on T say.
LEMMA SumsAgree ==
  ASSUME NEW S, IsFiniteSet(S), NEW f, NEW g, SumsOver(f, S, g),
         NEW T \in SUBSET S, NEW e, NEW h, SumsOver(e, T, h), \A x \in T : e[x] = f[x]
  PROVE  \A s \in SUBSET T : h[s] = g[s]
<1> DEFINE Bad == {s \in SUBSET T : h[s] # g[s]}
<1> SUFFICES ASSUME Bad # {} PROVE FALSE
  OBVIOUS
<1>1. IsFiniteSet(T)
  BY FS_Subset
<1>2. PICK m \in Bad : \A s \in Bad : s \subseteq m => s = m
  <2> HIDE DEF Bad
  <2>1. Bad \in SUBSET (SUBSET T)
    BY DEF Bad
  <2>2. QED
    BY <1>1, <2>1, MinimalExists
<1>3. m \in SUBSET T /\ m \in SUBSET S /\ h[m] # g[m]
  OBVIOUS
<1>4. m # {}
  BY <1>3 DEF SumsOver
<1>5. First(m) \in m
  BY <1>4 DEF First
<1> DEFINE r == m \ {First(m)}
<1>6. r \in SUBSET T /\ r # m /\ r \subseteq m
  BY <1>3, <1>5
<1>7. h[r] = g[r]
  BY <1>2, <1>6
<1>8. h[m] = e[First(m)] + h[r] /\ g[m] = f[First(m)] + g[r]
  BY <1>3, <1>4 DEF SumsOver
<1>9. QED
  BY <1>3, <1>5, <1>7, <1>8

\* A fold with + is such a sum.
LEMMA SumIsFold ==
  ASSUME NEW S, IsFiniteSet(S), NEW f, NEW g, SumsOver(f, S, g), NEW T \in SUBSET S
  PROVE  SumFunctionOnSet(f, T) = g[T]
<1>1. IsFiniteSet(T)
  BY FS_Subset
<1>2. PICK h : SumsOver(f, T, h) /\ SumFunctionOnSet(f, T) = h[T]
  <2> DEFINE iter == CHOOSE iter : iter = [s \in SUBSET T |-> IF s = {} THEN 0 ELSE f[CHOOSE x \in s : TRUE] + iter[s \ {CHOOSE x \in s : TRUE}]]
  <2>1. SumFunctionOnSet(f, T) = iter[T]
    BY DEF SumFunctionOnSet, FoldFunctionOnSet, MapThenFoldSet
  <2>2. \E e : SumsOver(f, T, e)
    BY <1>1, SumsExist
  <2>3. SumsOver(f, T, iter)
    BY <2>2 DEF SumsOver, First
  <2>4. QED
    BY <2>1, <2>3
<1>3. QED
  BY <1>2, SumsAgree

\* Adding an element to a set adds its value, if these are numbers.
LEMMA SumAdds ==
  ASSUME NEW S, IsFiniteSet(S), NEW f \in [S -> Nat], NEW g, SumsOver(f, S, g),
         NEW s \in SUBSET S, NEW y \in S \ s
  PROVE  g[s] \in Nat /\ g[s \cup {y}] = f[y] + g[s]
<1> DEFINE Good(t) == /\ g[t] \in Nat
                      /\ \A x \in S \ t : g[t \cup {x}] = f[x] + g[t]
           Bad == {t \in SUBSET S : ~Good(t)}
<1>1. Bad = {}
  <2> SUFFICES ASSUME Bad # {} PROVE FALSE
    OBVIOUS
  <2>1. PICK m \in Bad : \A t \in Bad : t \subseteq m => t = m
    <3> HIDE DEF Bad
    <3>1. Bad \in SUBSET (SUBSET S)
      BY DEF Bad
    <3>2. QED
      BY <3>1, MinimalExists
  <2>2. m \in SUBSET S /\ ~Good(m)
    OBVIOUS
  <2>3. \A t \in SUBSET S : t \subseteq m /\ t # m => Good(t)
    BY <2>1, <2>2
  <2>4. \A t \in SUBSET S : t # {} => First(t) \in t /\ g[t] = f[First(t)] + g[t \ {First(t)}]
    BY DEF SumsOver, First
  <2>5. g[m] \in Nat
    <3>1. CASE m = {}
      BY <2>2, <3>1 DEF SumsOver
    <3>2. CASE m # {}
      <4>1. First(m) \in m /\ g[m] = f[First(m)] + g[m \ {First(m)}]
        BY <2>2, <2>4, <3>2
      <4>2. m \ {First(m)} \in SUBSET S /\ m \ {First(m)} \subseteq m /\ m \ {First(m)} # m
        BY <2>2, <4>1
      <4>3. g[m \ {First(m)}] \in Nat
        BY <2>3, <4>2
      <4>4. f[First(m)] \in Nat
        BY <2>2, <4>1
      <4>5. QED
        BY <4>1, <4>3, <4>4
    <3>3. QED
      BY <3>1, <3>2
  <2>6. ASSUME NEW x \in S \ m PROVE g[m \cup {x}] = f[x] + g[m]
    <3> DEFINE u == m \cup {x}
               a == First(u)
    <3>1. u \in SUBSET S /\ u # {} /\ a \in u /\ g[u] = f[a] + g[u \ {a}]
      BY <2>2, <2>4
    <3>2. CASE a = x
      <4>1. u \ {a} = m
        BY <3>2
      <4>2. QED
        BY <3>1, <3>2, <4>1
    <3>3. CASE a # x
      <4> DEFINE r == m \ {a}
      <4> HIDE DEF a
      <4>1. a \in m /\ u \ {a} = r \cup {x} /\ r \cup {a} = m
        BY <3>1, <3>3
      <4>2. r \in SUBSET S /\ r \subseteq m /\ r # m /\ x \in S \ r /\ a \in S \ r
        BY <2>2, <4>1
      <4>3. Good(r)
        BY <2>3, <4>2
      <4>4. g[r] \in Nat /\ g[r \cup {x}] = f[x] + g[r] /\ g[r \cup {a}] = f[a] + g[r]
        BY <4>2, <4>3
      <4>5. f[x] \in Nat /\ f[a] \in Nat
        BY <4>2
      <4>6. g[u] = f[a] + (f[x] + g[r]) /\ g[m] = f[a] + g[r]
        BY <3>1, <4>1, <4>4
      <4>7. QED
        BY <4>4, <4>5, <4>6
    <3>4. QED
      BY <3>2, <3>3
  <2>7. QED
    BY <2>2, <2>5, <2>6
<1>2. Good(s)
  BY <1>1
<1>3. QED
  BY <1>2

\* The sum over a part is at most the sum over the whole.
LEMMA SumGrows ==
  ASSUME NEW S, IsFiniteSet(S), NEW f \in [S -> Nat], NEW g, SumsOver(f, S, g),
         NEW s \in SUBSET S
  PROVE  g[s] \in Nat /\ g[S] \in Nat /\ g[s] <= g[S]
<1> DEFINE Bad == {d \in SUBSET S : ~(g[S \ d] \in Nat /\ g[S] \in Nat /\ g[S \ d] <= g[S])}
<1>1. \A t \in SUBSET S : \A y \in t : g[t] = f[y] + g[t \ {y}] /\ g[t \ {y}] \in Nat
  <2> SUFFICES ASSUME NEW t \in SUBSET S, NEW y \in t
               PROVE g[t] = f[y] + g[t \ {y}] /\ g[t \ {y}] \in Nat
    OBVIOUS
  <2> DEFINE u == t \ {y}
  <2>1. u \in SUBSET S /\ y \in S \ u /\ u \cup {y} = t
    OBVIOUS
  <2>2. g[u] \in Nat /\ g[u \cup {y}] = f[y] + g[u]
    <3> HIDE DEF u
    <3>1. QED
      BY <2>1, SumAdds
  <2>3. QED
    BY <2>1, <2>2
<1>2. \A t \in SUBSET S : g[t] \in Nat
  <2> SUFFICES ASSUME NEW t \in SUBSET S PROVE g[t] \in Nat
    OBVIOUS
  <2>1. CASE t = {}
    BY <2>1 DEF SumsOver
  <2>2. CASE t # {}
    <3>1. PICK y \in t : TRUE
      BY <2>2
    <3>2. g[t] = f[y] + g[t \ {y}] /\ g[t \ {y}] \in Nat /\ f[y] \in Nat
      BY <1>1
    <3>3. QED
      BY <3>2
  <2>3. QED
    BY <2>1, <2>2
<1>3. Bad = {}
  <2> SUFFICES ASSUME Bad # {} PROVE FALSE
    OBVIOUS
  <2>1. PICK d \in Bad : \A e \in Bad : e \subseteq d => e = d
    <3> HIDE DEF Bad
    <3>1. Bad \in SUBSET (SUBSET S)
      BY DEF Bad
    <3>2. QED
      BY <3>1, MinimalExists
  <2>2. d \in SUBSET S /\ ~(g[S \ d] <= g[S])
    BY <1>2
  <2>3. CASE d = {}
    <3>1. S \ d = S /\ g[S] \in Nat
      BY <1>2, <2>3
    <3>2. g[S] <= g[S]
      BY <3>1
    <3>3. QED
      BY <2>2, <3>1, <3>2
  <2>4. CASE d # {}
    <3>1. PICK y \in d : TRUE
      BY <2>4
    <3> DEFINE e == d \ {y}
    <3>2. e \in SUBSET S /\ e \subseteq d /\ e # d /\ y \in S
      BY <2>2, <3>1
    <3>3. g[S \ e] <= g[S]
      BY <2>1, <3>2
    <3>4. S \ e \in SUBSET S /\ S \ d \in SUBSET S /\ y \in S \ e /\ (S \ e) \ {y} = S \ d
      BY <2>2, <3>1
    <3>5. g[S \ e] = f[y] + g[S \ d] /\ f[y] \in Nat
      <4>1. g[S \ e] = f[y] + g[(S \ e) \ {y}]
        <5> HIDE DEF e
        <5>1. QED
          BY <1>1, <3>4
      <4>2. QED
        <5> HIDE DEF e
        <5>1. QED
          BY <3>2, <3>4, <4>1
    <3>6. g[S \ e] \in Nat /\ g[S \ d] \in Nat /\ g[S] \in Nat
      BY <1>2, <3>4
    <3>7. QED
      BY <2>2, <3>3, <3>5, <3>6
  <2>5. QED
    BY <2>3, <2>4
<1>4. S \ s \in SUBSET S /\ S \ (S \ s) = s
  OBVIOUS
<1>5. S \ s \notin Bad
  BY <1>3
<1>6. QED
  BY <1>2, <1>4, <1>5

\* Sums of numbers over finite sets: a number, and no more over a part T than over all
\* of S, if the values on T are the same.
LEMMA SumAtMost ==
  ASSUME NEW S, IsFiniteSet(S), NEW f, \A x \in S : f[x] \in Nat,
         NEW T \in SUBSET S, NEW e, \A x \in T : e[x] = f[x]
  PROVE  /\ SumFunctionOnSet(e, T) \in Nat
         /\ SumFunctionOnSet(f, S) \in Nat
         /\ SumFunctionOnSet(e, T) <= SumFunctionOnSet(f, S)
<1> DEFINE n == [x \in S |-> f[x]]
<1>1. n \in [S -> Nat] /\ \A x \in S : f[x] = n[x]
  OBVIOUS
<1> HIDE DEF n
<1>2. \A x \in T : e[x] = n[x]
  BY <1>1
<1>3. PICK g : SumsOver(n, S, g)
  BY SumsExist
<1>4. IsFiniteSet(T)
  BY FS_Subset
<1>5. PICK h : SumsOver(e, T, h)
  BY <1>4, SumsExist
<1>6. PICK i : SumsOver(f, S, i)
  BY SumsExist
<1>7. SumFunctionOnSet(e, T) = h[T] /\ SumFunctionOnSet(f, S) = i[S]
  BY <1>4, <1>5, <1>6, SumIsFold
<1>8. h[T] = g[T]
  BY <1>2, <1>3, <1>5, SumsAgree
<1>9. i[S] = g[S]
  <2>1. S \in SUBSET S
    OBVIOUS
  <2>2. QED
    BY <1>1, <1>3, <1>6, <2>1, SumsAgree
<1>10. g[T] \in Nat /\ g[S] \in Nat /\ g[T] <= g[S]
  BY <1>1, <1>3, SumGrows
<1>11. QED
  BY <1>7, <1>8, <1>9, <1>10

\* The sum over the empty set.
LEMMA SumEmpty == ASSUME NEW f PROVE SumFunctionOnSet(f, {}) = 0
<1>1. IsFiniteSet({})
  BY FS_EmptySet
<1>2. PICK g : SumsOver(f, {}, g)
  BY <1>1, SumsExist
<1>3. SumFunctionOnSet(f, {}) = g[{}]
  <2>1. {} \in SUBSET {}
    OBVIOUS
  <2>2. QED
    BY <1>1, <1>2, <2>1, SumIsFold
<1>4. QED
  BY <1>2, <1>3 DEF SumsOver
==============================================================================

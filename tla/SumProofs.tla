------------------------------ MODULE SumProofs ------------------------------
(***************************************************************************)
(* Induction over finite sets and intervals, finite sums and maxima.  The  *)
(* library's induction theorems have the predicate as a parameter; here it *)
(* is a set, which the provers can be given: induction rests on the strict *)
(* subsets of a finite set being well-founded.  The same induction shows   *)
(* that the recursive function behind SumFunctionOnSet exists.             *)
(***************************************************************************)
EXTENDS Integers, FiniteSetsExt, FiniteSetTheorems, TLAPS

\* Induction over the subsets of a finite set.
LEMMA SetInduction ==
    ASSUME NEW S, IsFiniteSet(S), NEW G \in SUBSET (SUBSET S),
           {} \in G, \A T \in G, x \in S : x \notin T => T \cup {x} \in G
    PROVE  G = SUBSET S
<1> DEFINE Bad == (SUBSET S) \ G
<1> SUFFICES ASSUME Bad # {} PROVE FALSE
  OBVIOUS
<1>1. FiniteSubsetsOf(S) = SUBSET S
  BY FS_FiniteSubsetsOfFinite
<1>2. IsWellFoundedOn(StrictSubsetOrdering(S), FiniteSubsetsOf(S))
  BY FS_StrictSubsetOrderingWellFounded
<1>3. Bad \subseteq FiniteSubsetsOf(S)
  BY <1>1
<1> HIDE DEF Bad
<1>4. \E T \in Bad : \A U \in Bad : ~ (<<U, T>> \in StrictSubsetOrdering(S))
  BY <1>2, <1>3, WFMin
<1>5. PICK T \in Bad : \A U \in Bad : ~ (<<U, T>> \in StrictSubsetOrdering(S))
  BY <1>4
<1>6. T \in SUBSET S /\ T \notin G
  BY DEF Bad
<1>7. PICK x \in T : TRUE
  BY <1>6
<1>8. T \ {x} \notin Bad
  BY <1>5, <1>6, <1>7 DEF StrictSubsetOrdering
<1>9. T \ {x} \in G /\ x \in S /\ x \notin T \ {x}
  BY <1>6, <1>7, <1>8 DEF Bad
<1>10. (T \ {x}) \cup {x} = T
  BY <1>7
<1> QED BY <1>6, <1>9, <1>10

\* The least set of a family of finite sets, by inclusion.
LEMMA LeastSet ==
    ASSUME NEW S, IsFiniteSet(S), NEW Bad \in SUBSET (SUBSET S), Bad # {}
    PROVE  \E T \in Bad : \A U \in SUBSET T : U # T => U \notin Bad
<1>1. FiniteSubsetsOf(S) = SUBSET S
  BY FS_FiniteSubsetsOfFinite
<1>2. IsWellFoundedOn(StrictSubsetOrdering(S), FiniteSubsetsOf(S))
  BY FS_StrictSubsetOrderingWellFounded
<1>3. Bad \subseteq FiniteSubsetsOf(S)
  BY <1>1
<1>4. \E T \in Bad : \A U \in Bad : ~ (<<U, T>> \in StrictSubsetOrdering(S))
  BY <1>2, <1>3, WFMin
<1> QED BY <1>4 DEF StrictSubsetOrdering

\* What a sum takes first, and the equation of the function g that sums f.
Pick(s) == CHOOSE x \in s : TRUE
SumsUp(f, g, T) == \A s \in SUBSET T : g[s] = IF s = {} THEN 0 ELSE f[Pick(s)] + g[s \ {Pick(s)}]

\* What is picked from a set is in it.
LEMMA PickIn == \A s : s # {} => Pick(s) \in s
BY DEF Pick

\* The equation has at most one solution.
LEMMA SumsUpUnique ==
    ASSUME NEW f, NEW T, IsFiniteSet(T), NEW g, NEW h, SumsUp(f, g, T), SumsUp(f, h, T)
    PROVE  \A s \in SUBSET T : g[s] = h[s]
<1> DEFINE Bad == {s \in SUBSET T : g[s] # h[s]}
<1> SUFFICES ASSUME Bad # {} PROVE FALSE
  OBVIOUS
<1>0. Bad \in SUBSET (SUBSET T)
  OBVIOUS
<1>1. PICK s \in Bad : \A u \in SUBSET s : u # s => u \notin Bad
  <2> HIDE DEF Bad
  <2> QED BY <1>0, LeastSet
<1>2. s \in SUBSET T /\ g[s] # h[s]
  BY <1>1
<1>3. s # {}
  BY <1>2 DEF SumsUp
<1>4. s \ {Pick(s)} \notin Bad
  BY <1>1, <1>3, PickIn
<1>5. g[s \ {Pick(s)}] = h[s \ {Pick(s)}]
  BY <1>2, <1>4
<1> QED BY <1>2, <1>3, <1>5 DEF SumsUp

\* What the solution up to s says of s.
SumAt(f, s) == (CHOOSE g : SumsUp(f, g, s))[s]

\* It has a solution: on a least set without one, the solutions of its subsets would
\* make up one.
LEMMA SumsUpExist ==
    ASSUME NEW f, NEW S, IsFiniteSet(S)
    PROVE  \A T \in SUBSET S : \E g : SumsUp(f, g, T)
<1> DEFINE Bad == {T \in SUBSET S : ~\E g : SumsUp(f, g, T)}
<1> SUFFICES ASSUME Bad # {} PROVE FALSE
  OBVIOUS
<1>0. Bad \in SUBSET (SUBSET S)
  OBVIOUS
<1>1. PICK T \in Bad : \A u \in SUBSET T : u # T => u \notin Bad
  <2> HIDE DEF Bad
  <2> QED BY <1>0, LeastSet
<1>2. T \in SUBSET S /\ ~\E g : SumsUp(f, g, T)
  BY <1>1
<1>3. \A u \in SUBSET T : u # T => \E g : SumsUp(f, g, u)
  BY <1>1, <1>2
<1> HIDE DEF Bad
<1> DEFINE h == [s \in SUBSET T |->
                   IF s = T THEN IF T = {} THEN 0 ELSE f[Pick(T)] + SumAt(f, T \ {Pick(T)})
                   ELSE SumAt(f, s)]
<1>4. ASSUME NEW s \in SUBSET T
      PROVE  h[s] = IF s = {} THEN 0 ELSE f[Pick(s)] + h[s \ {Pick(s)}]
  <2>1. CASE s = T
    <3>1. T # {} => T \ {Pick(T)} # T
      BY PickIn
    <3> QED BY <2>1, <3>1
  <2>2. CASE s # T
    <3> DEFINE g == CHOOSE g : SumsUp(f, g, s)
               u == s \ {Pick(s)}
               k == CHOOSE k : SumsUp(f, k, u)
    <3>1. SumsUp(f, g, s)
      BY <1>3, <2>2
    <3>2. u \in SUBSET T /\ u # T
      BY <2>2
    <3>3. SumsUp(f, k, u)
      BY <1>3, <3>2
    <3>4. SumsUp(f, g, u)
      BY <3>1 DEF SumsUp
    <3>5. IsFiniteSet(u)
      BY <1>2, FS_Subset
    <3>6. g[u] = k[u]
      <4> HIDE DEF g, k, u
      <4> QED BY <3>3, <3>4, <3>5, SumsUpUnique
    <3>7. h[s] = g[s] /\ h[u] = k[u]
      BY <2>2, <3>2 DEF SumAt
    <3>8. g[s] = IF s = {} THEN 0 ELSE f[Pick(s)] + g[u]
      <4> HIDE DEF g
      <4> QED BY <3>1 DEF SumsUp
    <3> HIDE DEF g, k, h, u
    <3> QED BY <3>6, <3>7, <3>8 DEF u
  <2> QED BY <2>1, <2>2
<1>5. SumsUp(f, h, T)
  <2> HIDE DEF h
  <2> QED BY <1>4 DEF SumsUp
<1> QED BY <1>2, <1>5

\* The sum is the value of the solution.
LEMMA SumSumsUp ==
    ASSUME NEW f, NEW S, IsFiniteSet(S)
    PROVE  \E g : SumsUp(f, g, S) /\ SumFunctionOnSet(f, S) = g[S]
<1> DEFINE iter == CHOOSE g : g = [s \in SUBSET S |->
                      IF s = {} THEN 0
                      ELSE f[CHOOSE x \in s : TRUE] + g[s \ {CHOOSE x \in s : TRUE}]]
<1>1. SumFunctionOnSet(f, S) = iter[S]
  BY DEF SumFunctionOnSet, FoldFunctionOnSet, MapThenFoldSet
<1>2. PICK g : SumsUp(f, g, S)
  BY SumsUpExist
<1>3. [s \in SUBSET S |-> g[s]] = [s \in SUBSET S |->
                      IF s = {} THEN 0
                      ELSE f[CHOOSE x \in s : TRUE]
                           + [t \in SUBSET S |-> g[t]][s \ {CHOOSE x \in s : TRUE}]]
  BY <1>2 DEF SumsUp, Pick
<1>4. iter = [s \in SUBSET S |->
                      IF s = {} THEN 0
                      ELSE f[CHOOSE x \in s : TRUE] + iter[s \ {CHOOSE x \in s : TRUE}]]
  BY <1>3
<1>5. SumsUp(f, iter, S)
  <2> HIDE DEF iter
  <2> QED BY <1>4 DEF SumsUp, Pick
<1> HIDE DEF iter
<1> QED BY <1>1, <1>5

\* The empty sum, and a sum by the element its definition picks.
LEMMA SumByPick ==
    ASSUME NEW f, NEW S, IsFiniteSet(S)
    PROVE  SumFunctionOnSet(f, S) =
             IF S = {} THEN 0 ELSE f[Pick(S)] + SumFunctionOnSet(f, S \ {Pick(S)})
<1> DEFINE T == S \ {Pick(S)}
<1>1. PICK g : SumsUp(f, g, S) /\ SumFunctionOnSet(f, S) = g[S]
  BY SumSumsUp
<1>2. IsFiniteSet(T)
  BY FS_Subset
<1>3. PICK h : SumsUp(f, h, T) /\ SumFunctionOnSet(f, T) = h[T]
  BY <1>2, SumSumsUp
<1>4. SumsUp(f, g, T)
  BY <1>1 DEF SumsUp
<1>5. g[T] = h[T]
  BY <1>2, <1>3, <1>4, SumsUpUnique
<1>6. g[S] = IF S = {} THEN 0 ELSE f[Pick(S)] + g[T]
  BY <1>1 DEF SumsUp
<1> QED BY <1>1, <1>3, <1>5, <1>6

\* The sum of nothing.
LEMMA SumEmpty == \A f : SumFunctionOnSet(f, {}) = 0
BY SumByPick, FS_EmptySet

\* A sum of integers is an integer.
LEMMA SumInt ==
    ASSUME NEW f, NEW S, IsFiniteSet(S), \A x \in S : f[x] \in Int
    PROVE  SumFunctionOnSet(f, S) \in Int
<1> DEFINE Bad == {T \in SUBSET S : SumFunctionOnSet(f, T) \notin Int}
<1> SUFFICES ASSUME Bad # {} PROVE FALSE
  OBVIOUS
<1>0. Bad \in SUBSET (SUBSET S)
  OBVIOUS
<1>1. PICK T \in Bad : \A u \in SUBSET T : u # T => u \notin Bad
  <2> HIDE DEF Bad
  <2> QED BY <1>0, LeastSet
<1>2. T \in SUBSET S /\ IsFiniteSet(T)
  BY <1>1, FS_Subset
<1>3. T # {}
  <2>1. SumFunctionOnSet(f, T) \notin Int
    BY <1>1
  <2> HIDE DEF Bad
  <2> QED BY <2>1, SumEmpty
<1>4. Pick(T) \in T
  BY <1>3, PickIn
<1>5. SumFunctionOnSet(f, T \ {Pick(T)}) \in Int
  BY <1>1, <1>4
<1>6. f[Pick(T)] \in Int
  BY <1>2, <1>4
<1>7. SumFunctionOnSet(f, T) = f[Pick(T)] + SumFunctionOnSet(f, T \ {Pick(T)})
  BY <1>2, <1>3, SumByPick
<1>8. SumFunctionOnSet(f, T) \notin Int
  BY <1>1
<1> HIDE DEF Bad
<1> QED BY <1>5, <1>6, <1>7, <1>8

\* A sum by any of its elements.
LEMMA SumRemove ==
    ASSUME NEW f, NEW S, IsFiniteSet(S), \A x \in S : f[x] \in Int, NEW a \in S
    PROVE  SumFunctionOnSet(f, S) = f[a] + SumFunctionOnSet(f, S \ {a})
<1> DEFINE Sum(T) == SumFunctionOnSet(f, T)
           Bad == {T \in SUBSET S : \E x \in T : Sum(T) # f[x] + Sum(T \ {x})}
<1> SUFFICES ASSUME Bad # {} PROVE FALSE
  OBVIOUS
<1>0. Bad \in SUBSET (SUBSET S)
  OBVIOUS
<1>1. PICK T \in Bad : \A u \in SUBSET T : u # T => u \notin Bad
  <2> HIDE DEF Bad
  <2> QED BY <1>0, LeastSet
<1>2. PICK x \in T : Sum(T) # f[x] + Sum(T \ {x})
  BY <1>1
<1> DEFINE p == Pick(T)
<1>3. T \in SUBSET S /\ p \in T
  BY <1>1, PickIn
<1>4. Sum(T) = f[p] + Sum(T \ {p})
  BY <1>2, <1>3, FS_Subset, SumByPick
<1>5. p # x
  BY <1>2, <1>4
<1>6. Sum(T \ {p}) = f[x] + Sum((T \ {p}) \ {x})
  BY <1>1, <1>2, <1>3, <1>5
<1>7. Sum(T \ {x}) = f[p] + Sum((T \ {x}) \ {p})
  BY <1>1, <1>2, <1>3, <1>5
<1>8. (T \ {p}) \ {x} = (T \ {x}) \ {p}
  OBVIOUS
<1>9. Sum((T \ {p}) \ {x}) \in Int
  BY <1>3, FS_Subset, SumInt
<1>10. f[p] \in Int /\ f[x] \in Int
  BY <1>2, <1>3
<1>11. Sum((T \ {x}) \ {p}) = Sum((T \ {p}) \ {x})
  BY <1>8
<1>12. f[p] + (f[x] + Sum((T \ {p}) \ {x})) = f[x] + (f[p] + Sum((T \ {p}) \ {x}))
  <2> HIDE DEF Sum, p
  <2> QED BY <1>9, <1>10
<1>13. Sum(T) = f[x] + Sum(T \ {x})
  <2> HIDE DEF Sum, p, Bad
  <2> QED BY <1>4, <1>6, <1>7, <1>11, <1>12
<1> QED BY <1>2, <1>13

\* A sum by an element more.
LEMMA SumAdd ==
    ASSUME NEW f, NEW S, IsFiniteSet(S), NEW a, a \notin S,
           \A x \in S : f[x] \in Int, f[a] \in Int
    PROVE  SumFunctionOnSet(f, S \cup {a}) = f[a] + SumFunctionOnSet(f, S)
<1>1. IsFiniteSet(S \cup {a})
  BY FS_AddElement
<1>2. (S \cup {a}) \ {a} = S
  OBVIOUS
<1> QED BY <1>1, <1>2, SumRemove

\* A factor distributes over a sum.
LEMMA Distributes == \A c, m, n \in Int : c * (m + n) = c * m + c * n /\ c * m \in Int
OBVIOUS

\* A sum that is bounded term by term by a multiple of another.
LEMMA SumScaled ==
    ASSUME NEW S, IsFiniteSet(S), NEW f, NEW g, NEW c \in Int,
           \A x \in S : f[x] \in Int /\ g[x] \in Int /\ f[x] <= c * g[x]
    PROVE  SumFunctionOnSet(f, S) <= c * SumFunctionOnSet(g, S)
<1> DEFINE F(T) == SumFunctionOnSet(f, T)
           G(T) == SumFunctionOnSet(g, T)
           Good == {T \in SUBSET S : F(T) <= c * G(T)}
<1>1. {} \in Good
  BY SumEmpty
<1>2. ASSUME NEW T \in Good, NEW x \in S, x \notin T PROVE T \cup {x} \in Good
  <2>1. IsFiniteSet(T) /\ F(T) <= c * G(T)
    BY FS_Subset
  <2>2. F(T \cup {x}) = f[x] + F(T) /\ G(T \cup {x}) = g[x] + G(T)
    BY <1>2, <2>1, SumAdd
  <2>3. F(T) \in Int /\ G(T) \in Int
    BY <2>1, SumInt
  <2>4. f[x] \in Int /\ g[x] \in Int /\ f[x] <= c * g[x]
    OBVIOUS
  <2>5. F(T \cup {x}) <= c * G(T \cup {x})
    <3> HIDE DEF F, G
    <3>1. c * (g[x] + G(T)) = c * g[x] + c * G(T)
      BY <2>3, <2>4, Distributes
    <3>2. c * g[x] \in Int /\ c * G(T) \in Int
      BY <2>3, <2>4, Distributes
    <3>3. f[x] + F(T) <= c * g[x] + c * G(T)
      BY <2>1, <2>3, <2>4, <3>2
    <3> QED BY <2>2, <3>1, <3>3
  <2> QED BY <2>5
<1>3. Good = SUBSET S
  <2> HIDE DEF Good
  <2>1. Good \in SUBSET (SUBSET S)
    BY DEF Good
  <2> QED BY <1>1, <1>2, <2>1, SetInduction
<1> QED BY <1>3

\* A bound on every term by a multiple of the same term of another sum, from below.
LEMMA SumScaledBelow ==
    ASSUME NEW S, IsFiniteSet(S), NEW f, NEW g, NEW c \in Int,
           \A x \in S : f[x] \in Int /\ g[x] \in Int /\ f[x] >= c * g[x]
    PROVE  SumFunctionOnSet(f, S) >= c * SumFunctionOnSet(g, S)
<1> DEFINE F(T) == SumFunctionOnSet(f, T)
           G(T) == SumFunctionOnSet(g, T)
           Good == {T \in SUBSET S : F(T) >= c * G(T)}
<1>1. {} \in Good
  BY SumEmpty
<1>2. ASSUME NEW T \in Good, NEW x \in S, x \notin T PROVE T \cup {x} \in Good
  <2>1. IsFiniteSet(T) /\ F(T) >= c * G(T)
    BY FS_Subset
  <2>2. F(T \cup {x}) = f[x] + F(T) /\ G(T \cup {x}) = g[x] + G(T)
    BY <1>2, <2>1, SumAdd
  <2>3. F(T) \in Int /\ G(T) \in Int
    BY <2>1, SumInt
  <2>4. f[x] \in Int /\ g[x] \in Int /\ f[x] >= c * g[x]
    OBVIOUS
  <2>5. F(T \cup {x}) >= c * G(T \cup {x})
    <3> HIDE DEF F, G
    <3>1. c * (g[x] + G(T)) = c * g[x] + c * G(T)
      BY <2>3, <2>4, Distributes
    <3>2. c * g[x] \in Int /\ c * G(T) \in Int
      BY <2>3, <2>4, Distributes
    <3>3. f[x] + F(T) >= c * g[x] + c * G(T)
      BY <2>1, <2>3, <2>4, <3>2
    <3> QED BY <2>2, <3>1, <3>3
  <2> QED BY <2>5
<1>3. Good = SUBSET S
  <2> HIDE DEF Good
  <2>1. Good \in SUBSET (SUBSET S)
    BY DEF Good
  <2> QED BY <1>1, <1>2, <2>1, SetInduction
<1> QED BY <1>3

\* The sum of the sums.
LEMMA SumPlus ==
    ASSUME NEW S, IsFiniteSet(S), NEW f, NEW g, NEW h,
           \A x \in S : f[x] \in Int /\ g[x] \in Int /\ h[x] = f[x] + g[x]
    PROVE  SumFunctionOnSet(h, S) = SumFunctionOnSet(f, S) + SumFunctionOnSet(g, S)
<1> DEFINE F(T) == SumFunctionOnSet(f, T)
           G(T) == SumFunctionOnSet(g, T)
           H(T) == SumFunctionOnSet(h, T)
           Good == {T \in SUBSET S : H(T) = F(T) + G(T)}
<1>1. {} \in Good
  BY SumEmpty
<1>2. ASSUME NEW T \in Good, NEW x \in S, x \notin T PROVE T \cup {x} \in Good
  <2>1. IsFiniteSet(T) /\ H(T) = F(T) + G(T)
    BY FS_Subset
  <2>2. /\ F(T \cup {x}) = f[x] + F(T) /\ G(T \cup {x}) = g[x] + G(T)
        /\ H(T \cup {x}) = h[x] + H(T)
    BY <1>2, <2>1, SumAdd
  <2>3. F(T) \in Int /\ G(T) \in Int
    BY <2>1, SumInt
  <2>4. f[x] \in Int /\ g[x] \in Int /\ h[x] = f[x] + g[x]
    OBVIOUS
  <2>5. H(T \cup {x}) = F(T \cup {x}) + G(T \cup {x})
    <3> HIDE DEF F, G, H
    <3> QED BY <2>1, <2>2, <2>3, <2>4
  <2> QED BY <2>5
<1>3. Good = SUBSET S
  <2> HIDE DEF Good
  <2>1. Good \in SUBSET (SUBSET S)
    BY DEF Good
  <2> QED BY <1>1, <1>2, <2>1, SetInduction
<1> QED BY <1>3

\* A sum is monotone in its terms.
LEMMA SumLeq ==
    ASSUME NEW S, IsFiniteSet(S), NEW f, NEW g,
           \A x \in S : f[x] \in Int /\ g[x] \in Int /\ f[x] <= g[x]
    PROVE  SumFunctionOnSet(f, S) <= SumFunctionOnSet(g, S)
<1>1. \A x \in S : f[x] <= 1 * g[x]
  OBVIOUS
<1>2. SumFunctionOnSet(f, S) <= 1 * SumFunctionOnSet(g, S)
  BY <1>1, SumScaled
<1>3. SumFunctionOnSet(g, S) \in Int
  BY SumInt
<1> QED BY <1>2, <1>3

\* Functions that agree have the same sum.
LEMMA SumAgree ==
    ASSUME NEW S, IsFiniteSet(S), NEW f, NEW g,
           \A x \in S : f[x] \in Int /\ f[x] = g[x]
    PROVE  SumFunctionOnSet(f, S) = SumFunctionOnSet(g, S)
<1>1. SumFunctionOnSet(f, S) <= SumFunctionOnSet(g, S)
  BY SumLeq
<1>2. SumFunctionOnSet(g, S) <= SumFunctionOnSet(f, S)
  BY SumLeq
<1>3. SumFunctionOnSet(f, S) \in Int /\ SumFunctionOnSet(g, S) \in Int
  BY SumInt
<1> QED BY <1>1, <1>2, <1>3

\* A sum of natural numbers is one.
LEMMA SumNat ==
    ASSUME NEW f, NEW S, IsFiniteSet(S), \A x \in S : f[x] \in Nat
    PROVE  SumFunctionOnSet(f, S) \in Nat
<1> DEFINE zero == [x \in S |-> 0]
<1>1. SumFunctionOnSet(zero, S) >= 0 * SumFunctionOnSet(zero, S)
  BY SumScaledBelow
<1>2. SumFunctionOnSet(zero, S) <= SumFunctionOnSet(f, S)
  BY SumLeq
<1>3. SumFunctionOnSet(f, S) \in Int /\ SumFunctionOnSet(zero, S) \in Int
  BY SumInt
<1> HIDE DEF zero
<1> QED BY <1>1, <1>2, <1>3

\* The induction by which what holds at 0 and is passed on holds up to n.
LEMMA IntervalInduction ==
    ASSUME NEW n \in Nat, NEW G \in SUBSET (0 .. n),
           0 \in G, \A k \in G : k < n => k + 1 \in G
    PROVE  G = 0 .. n
<1> DEFINE Bad == {0 .. k : k \in (0 .. n) \ G}
<1> SUFFICES ASSUME (0 .. n) \ G # {} PROVE FALSE
  OBVIOUS
<1>1. Bad \in SUBSET (SUBSET (0 .. n)) /\ Bad # {}
  OBVIOUS
<1>2. IsFiniteSet(0 .. n)
  BY FS_Interval
<1>3. PICK T \in Bad : \A U \in SUBSET T : U # T => U \notin Bad
  <2> HIDE DEF Bad
  <2> QED BY <1>1, <1>2, LeastSet
<1>4. PICK k \in (0 .. n) \ G : T = 0 .. k
  BY <1>3
<1>5. k # 0 /\ k - 1 \in 0 .. n
  BY <1>4
<1>6. k - 1 \notin G
  BY <1>4, <1>5
<1>7. 0 .. (k - 1) \in Bad
  BY <1>5, <1>6
<1>8. 0 .. (k - 1) \in SUBSET T /\ 0 .. (k - 1) # T
  BY <1>4, <1>5
<1> QED BY <1>3, <1>7, <1>8

\* A set of integers that is finite and not empty has a maximum.
LEMMA MaxIsLargest ==
    ASSUME NEW S, IsFiniteSet(S), S \subseteq Int, S # {}
    PROVE  Max(S) \in S /\ \A x \in S : x <= Max(S)
<1> DEFINE Good == {T \in SUBSET S : T = {} \/ \E m \in T : \A x \in T : x <= m}
<1>1. {} \in Good
  OBVIOUS
<1>2. ASSUME NEW T \in Good, NEW a \in S PROVE T \cup {a} \in Good
  <2>1. CASE T = {}
    BY <2>1
  <2>2. CASE T # {}
    <3>1. PICK m \in T : \A x \in T : x <= m
      BY <2>2
    <3>2. \A x \in T \cup {a} : x <= (IF m <= a THEN a ELSE m)
      BY <3>1
    <3> QED BY <3>1, <3>2
  <2> QED BY <2>1, <2>2
<1>3. Good = SUBSET S
  <2> HIDE DEF Good
  <2>1. Good \in SUBSET (SUBSET S)
    BY DEF Good
  <2>2. \A T \in Good, x \in S : x \notin T => T \cup {x} \in Good
    BY <1>2
  <2> QED BY <1>1, <2>1, <2>2, SetInduction
<1>4. \E m \in S : \A x \in S : x <= m
  BY <1>3
<1>5. \E m \in S : \A x \in S : m >= x
  BY <1>4
<1>6. Max(S) \in S /\ \A x \in S : Max(S) >= x
  BY <1>5 DEF Max
<1> QED BY <1>6

=============================================================================

---------------------------- MODULE CommonProofs -----------------------------
(***************************************************************************)
(* What more than one of the modules of theorems rests on.                 *)
(*                                                                         *)
(* Finite sums and iterations.  SumFunction adds up the values of a        *)
(* function by a recursion over the subsets of its domain.  The provers    *)
(* know no induction over sets or numbers; a counterexample that is least  *)
(* takes its place.                                                        *)
(*                                                                         *)
(* How nested swaps account for one another, for any market that runs      *)
(* through the router: the lemmas its solvency rests on.                   *)
(***************************************************************************)
EXTENDS SwapRouter, FiniteSetsExt, FiniteSetTheorems, SequenceTheorems, TLAPS

\* A nonempty family of subsets of a finite set has a least member.
LEMMA LeastSubset ==
    ASSUME NEW S, IsFiniteSet(S), NEW F, F \subseteq SUBSET S, F # {}
    PROVE  \E T \in F : \A U \in F : U \subseteq T => U = T
<1> DEFINE R == StrictSubsetOrdering(S)
<1>1. IsWellFoundedOn(R, FiniteSubsetsOf(S)) /\ FiniteSubsetsOf(S) = SUBSET S
  BY FS_StrictSubsetOrderingWellFounded, FS_FiniteSubsetsOfFinite
<1>2. \A T \in F, U \in F : U \subseteq T /\ U # T => <<U, T>> \in R
  BY DEF StrictSubsetOrdering
<1> HIDE DEF R
<1>3. PICK T \in F : \A U \in F : ~(<<U, T>> \in R)
  BY <1>1, WFMin
<1> QED
  BY <1>2, <1>3

\* A nonempty set of natural numbers has a least member.
LEMMA LeastNumber ==
    ASSUME NEW T, T \subseteq Nat, T # {}
    PROVE  \E x \in T : \A y \in T : x <= y
<1> DEFINE R == OpToRel(<, Nat)
<1>1. \A x \in Nat, y \in Nat : y < x => <<y, x>> \in R
  BY DEF OpToRel
<1>2. IsWellFoundedOn(R, Nat)
  BY NatLessThanWellFounded
<1> HIDE DEF R
<1>3. PICK x \in T : \A y \in T : ~(<<y, x>> \in R)
  BY <1>2, WFMin
<1>4. ASSUME NEW y \in T PROVE x <= y
  <2>1. x \in Nat /\ y \in Nat /\ ~(y < x)
    BY <1>1, <1>3
  <2> QED
    BY <2>1
<1> QED
  BY <1>4

\* The greatest of some numbers up to a bound.
LEMMA MaxOfNumbers ==
    ASSUME NEW n \in Nat, NEW S, S \subseteq 0 .. n, S # {}
    PROVE  Max(S) \in S /\ \A x \in S : x <= Max(S)
<1> DEFINE T == {n - x : x \in S}
<1>1. T \subseteq Nat /\ T # {}
  <2>1. \A x \in S : n - x \in Nat
    OBVIOUS
  <2> QED
    BY <2>1
<1>2. PICK y \in T : \A z \in T : y <= z
  <2> HIDE DEF T
  <2> QED
    BY <1>1, LeastNumber
<1>3. PICK x \in S : y = n - x
  BY <1>2
<1>4. \A z \in S : x >= z
  <2> SUFFICES ASSUME NEW z \in S PROVE x >= z
    OBVIOUS
  <2>1. n - z \in T
    OBVIOUS
  <2>2. n - x <= n - z
    BY <1>2, <1>3, <2>1
  <2>3. x \in Int /\ z \in Int
    OBVIOUS
  <2> QED
    BY <2>2, <2>3
<1>5. Max(S) \in S /\ \A z \in S : Max(S) >= z
  BY <1>4 DEF Max
<1>6. \A z \in S : z \in Int
  OBVIOUS
<1> QED
  BY <1>5, <1>6

\* Induction over the natural numbers, for a set in place of a predicate.
LEMMA NatInductive ==
    ASSUME NEW I, 0 \in I, \A n \in Nat : n \in I => n + 1 \in I
    PROVE  Nat \subseteq I
<1> SUFFICES ASSUME NEW k \in Nat, k \notin I PROVE FALSE
  OBVIOUS
<1> DEFINE T == {n \in Nat : n \notin I}
<1>1. PICK n \in T : \A m \in T : n <= m
  <2>1. T \subseteq Nat /\ T # {}
    OBVIOUS
  <2> HIDE DEF T
  <2> QED
    BY <2>1, LeastNumber
<1>2. n \in Nat /\ n \notin I /\ n # 0
  OBVIOUS
<1>3. n - 1 \in Nat /\ (n - 1) + 1 = n /\ ~(n <= n - 1)
  BY <1>2
<1>4. n - 1 \in I
  BY <1>1, <1>3
<1> QED
  BY <1>2, <1>3, <1>4

\* g repeats a step from x.
Iterates(g, x, step) == g[0] = x /\ \A n \in Nat : g[n + 1] = step[g[n]]

\* Repeating a step from a first value defines a function.
LEMMA IterationExists ==
    ASSUME NEW S, NEW x \in S, NEW step \in [S -> S]
    PROVE  \E g \in [Nat -> S] : Iterates(g, x, step)
<1> DEFINE Approx(n) == {h \in [0..n -> S] : h[0] = x /\ \A i \in 0..(n - 1) : h[i + 1] = step[h[i]]}
           I == {n \in Nat : Approx(n) # {}}
<1>1. Nat \subseteq I
  <2>1. 0 \in I
    <3>1. [i \in 0..0 |-> x] \in Approx(0)
      OBVIOUS
    <3> QED
      BY <3>1
  <2>2. ASSUME NEW n \in Nat, n \in I PROVE n + 1 \in I
    <3>1. PICK h : h \in Approx(n)
      BY <2>2
    <3> DEFINE k == [i \in 0..(n + 1) |-> IF i <= n THEN h[i] ELSE step[h[n]]]
    <3>2. h \in [0..n -> S] /\ h[0] = x /\ \A i \in 0..(n - 1) : h[i + 1] = step[h[i]]
      BY <3>1
    <3>3. k \in [0..(n + 1) -> S] /\ k[0] = x
      BY <3>2
    <3>4. ASSUME NEW i \in 0..((n + 1) - 1) PROVE k[i + 1] = step[k[i]]
      <4>1. CASE i = n
        BY <4>1
      <4>2. CASE i # n
        <5>1. i \in 0..(n - 1) /\ i + 1 <= n /\ i + 1 \in 0..(n + 1)
          BY <4>2
        <5> QED
          BY <3>2, <5>1
      <4> QED
        BY <4>1, <4>2
    <3>5. k \in Approx(n + 1)
      BY <3>3, <3>4
    <3> HIDE DEF Approx
    <3> QED
      BY <3>5
  <2> HIDE DEF I
  <2> QED
    BY <2>1, <2>2, NatInductive
<1> DEFINE pick(n) == CHOOSE h : h \in Approx(n)
           g == [n \in Nat |-> pick(n)[n]]
<1>2. ASSUME NEW n \in Nat PROVE pick(n) \in Approx(n)
  BY <1>1
<1> HIDE DEF pick
<1>3. ASSUME NEW n \in Nat
      PROVE  /\ pick(n) \in [0..n -> S] /\ pick(n)[0] = x
             /\ \A i \in 0..(n - 1) : pick(n)[i + 1] = step[pick(n)[i]]
  BY <1>2
<1>4. ASSUME NEW n \in Nat PROVE pick(n + 1)[n] = pick(n)[n]
  <2> DEFINE J == {i \in Nat : i <= n => pick(n + 1)[i] = pick(n)[i]}
  <2>1. 0 \in J
    BY <1>3
  <2>2. ASSUME NEW i \in Nat, i \in J PROVE i + 1 \in J
    <3>1. CASE i + 1 <= n
      <4>1. i \in 0..(n - 1) /\ i \in 0..((n + 1) - 1) /\ i <= n /\ n + 1 \in Nat
        BY <3>1
      <4>2. pick(n)[i + 1] = step[pick(n)[i]] /\ pick(n + 1)[i + 1] = step[pick(n + 1)[i]]
        BY <1>3, <4>1
      <4> QED
        BY <2>2, <4>1, <4>2
    <3>2. CASE ~(i + 1 <= n)
      BY <3>2
    <3> QED
      BY <3>1, <3>2
  <2>3. Nat \subseteq J
    <3> HIDE DEF J
    <3> QED
      BY <2>1, <2>2, NatInductive
  <2> QED
    BY <2>3
<1>5. g \in [Nat -> S]
  <2>1. ASSUME NEW n \in Nat PROVE pick(n)[n] \in S
    BY <1>3
  <2> QED
    BY <2>1
<1>6. g[0] = x
  BY <1>3
<1>7. ASSUME NEW n \in Nat PROVE g[n + 1] = step[g[n]]
  <2>1. g[n + 1] = pick(n + 1)[n + 1] /\ g[n] = pick(n)[n]
    OBVIOUS
  <2>2. n + 1 \in Nat /\ n \in 0..((n + 1) - 1)
    OBVIOUS
  <2>3. pick(n + 1)[n + 1] = step[pick(n + 1)[n]]
    BY <1>3, <2>2
  <2> HIDE DEF g
  <2> QED
    BY <1>4, <2>1, <2>3
<1> QED
  BY <1>5, <1>6, <1>7 DEF Iterates

\* What a recursive definition of the iteration stands for.
Repeated(x, step) == CHOOSE h : h = [n \in Nat |-> IF n = 0 THEN x ELSE step[h[n - 1]]]

LEMMA RepeatedIterates ==
    ASSUME NEW S, NEW x \in S, NEW step \in [S -> S]
    PROVE  Repeated(x, step) \in [Nat -> S] /\ Iterates(Repeated(x, step), x, step)
<1> DEFINE Solves(h) == h = [n \in Nat |-> IF n = 0 THEN x ELSE step[h[n - 1]]]
           r == Repeated(x, step)
<1>1. PICK g \in [Nat -> S] : Iterates(g, x, step)
  BY IterationExists
<1>2. Solves(g)
  <2>1. ASSUME NEW n \in Nat PROVE g[n] = IF n = 0 THEN x ELSE step[g[n - 1]]
    <3>1. CASE n = 0
      BY <1>1, <3>1 DEF Iterates
    <3>2. CASE n # 0
      <4>1. n - 1 \in Nat /\ (n - 1) + 1 = n
        BY SMTT(30), <3>2
      <4> QED
        BY <1>1, <3>2, <4>1 DEF Iterates
    <3> QED
      BY <3>1, <3>2
  <2> QED
    BY <1>1, <2>1
<1>3. Solves(r)
  BY <1>2 DEF Repeated
<1> HIDE DEF r
<1>4. r[0] = x /\ \A n \in Nat : r[n + 1] = step[r[n]]
  <2>1. \A n \in Nat : r[n] = IF n = 0 THEN x ELSE step[r[n - 1]]
    BY <1>3
  <2>2. ASSUME NEW n \in Nat PROVE n + 1 \in Nat /\ n + 1 # 0 /\ (n + 1) - 1 = n
    OBVIOUS
  <2> QED
    BY <2>1, <2>2
<1>5. \A n \in Nat : r[n] \in S
  <2> DEFINE I == {n \in Nat : r[n] \in S}
  <2>1. 0 \in I /\ \A n \in Nat : n \in I => n + 1 \in I
    BY <1>4
  <2> HIDE DEF I
  <2>2. Nat \subseteq I
    BY <2>1, NatInductive
  <2> QED
    BY <2>2 DEF I
<1>6. r \in [Nat -> S]
  BY <1>3, <1>5
<1> QED
  BY <1>4, <1>6 DEF Iterates, r

-----------------------------------------------------------------------------
(* The recursion behind the sum *)

Chosen(s) == CHOOSE x \in s : TRUE

SumStep(f, h, s) ==
    IF s = {} THEN 0 ELSE f[Chosen(s)] + h[s \ {Chosen(s)}]

\* h gives the sum of f over every subset of S.
SumsUp(f, S, h) == h = [s \in SUBSET S |-> SumStep(f, h, s)]

LEMMA SumAsRecursion ==
    ASSUME NEW f, NEW S
    PROVE  SumFunctionOnSet(f, S) = (CHOOSE h : SumsUp(f, S, h))[S]
  BY DEF SumFunctionOnSet, FoldFunctionOnSet, MapThenFoldSet, SumsUp, SumStep, Chosen

\* The recursion has one solution at most, whatever set it is taken over.
LEMMA SumsAgree ==
    ASSUME NEW S, IsFiniteSet(S), NEW T, T \subseteq S, NEW f, NEW e,
           \A x \in T : f[x] = e[x],
           NEW h, SumsUp(f, S, h), NEW k, SumsUp(e, T, k)
    PROVE  \A s \in SUBSET T : h[s] = k[s]
<1> DEFINE F == {s \in SUBSET T : h[s] # k[s]}
<1> SUFFICES ASSUME F # {} PROVE FALSE
  OBVIOUS
<1>1. IsFiniteSet(T)
  BY FS_Subset
<1>2. PICK s \in F : \A U \in F : U \subseteq s => U = s
  <2>1. F \subseteq SUBSET T
    OBVIOUS
  <2> HIDE DEF F
  <2> QED
    BY <1>1, <2>1, LeastSubset
<1>3. h[s] = SumStep(f, h, s) /\ k[s] = SumStep(e, k, s)
  <2>1. s \in SUBSET S /\ s \in SUBSET T
    OBVIOUS
  <2> QED
    BY <2>1 DEF SumsUp
<1>4. s # {}
  BY <1>3 DEF SumStep
<1>5. Chosen(s) \in s
  BY <1>4 DEF Chosen
<1>6. h[s \ {Chosen(s)}] = k[s \ {Chosen(s)}]
  BY <1>2, <1>5
<1>7. f[Chosen(s)] = e[Chosen(s)]
  BY <1>5
<1> QED
  BY <1>3, <1>4, <1>6, <1>7 DEF SumStep

\* And it has a solution.
LEMMA SumsExist ==
    ASSUME NEW S, IsFiniteSet(S), NEW f
    PROVE  \E h : SumsUp(f, S, h)
<1> DEFINE F == {T \in SUBSET S : ~\E h : SumsUp(f, T, h)}
<1> SUFFICES ASSUME F # {} PROVE FALSE
  OBVIOUS
<1>1. PICK T \in F : \A U \in F : U \subseteq T => U = T
  <2>1. F \subseteq SUBSET S
    OBVIOUS
  <2> HIDE DEF F
  <2> QED
    BY <2>1, LeastSubset
<1>2. T \in SUBSET S /\ ~\E h : SumsUp(f, T, h)
  OBVIOUS
<1> DEFINE G(U) == CHOOSE h : SumsUp(f, U, h)
           k == [s \in SUBSET T |-> SumStep(f, G(s \ {Chosen(s)}), s)]
<1>3. ASSUME NEW U \in SUBSET T, U # T PROVE SumsUp(f, U, G(U))
  <2>1. U \notin F /\ U \in SUBSET S
    BY <1>1, <1>2, <1>3
  <2> QED
    BY <2>1
<1>4. ASSUME NEW s \in SUBSET T, s # {}
      PROVE  G(s \ {Chosen(s)})[s \ {Chosen(s)}] = k[s \ {Chosen(s)}]
  <2> DEFINE c == Chosen(s)
             r == s \ {c}
             q == r \ {Chosen(r)}
  <2>1. c \in s
    BY <1>4 DEF Chosen
  <2>2. r \in SUBSET T /\ r # T /\ r \in SUBSET r
    BY <2>1
  <2>3. SumsUp(f, r, G(r))
    BY <1>3, <2>2
  <2> HIDE DEF G
  <2>4. G(r)[r] = SumStep(f, G(r), r)
    BY <2>2, <2>3 DEF SumsUp
  <2>5. k[r] = SumStep(f, G(q), r)
    BY <2>2
  <2> HIDE DEF k
  <2>6. CASE r = {}
    BY <2>4, <2>5, <2>6 DEF SumStep
  <2>7. CASE r # {}
    <3>1. Chosen(r) \in r
      BY <2>7 DEF Chosen
    <3>2. q \in SUBSET T /\ q # T /\ q \subseteq r /\ q \in SUBSET q
      BY <2>2, <3>1
    <3>3. SumsUp(f, q, G(q))
      BY <1>3, <3>2
    <3>4. IsFiniteSet(r)
      BY <1>2, <2>2, FS_Subset
    <3> HIDE DEF r
    <3>5. G(r)[q] = G(q)[q]
      <4> HIDE DEF q
      <4> QED
        BY <2>3, <3>2, <3>3, <3>4, SumsAgree
    <3>6. G(r)[r] = f[Chosen(r)] + G(r)[q] /\ k[r] = f[Chosen(r)] + G(q)[q]
      BY <2>4, <2>5, <2>7 DEF SumStep
    <3> QED
      BY <3>5, <3>6 DEF r
  <2> QED
    BY <2>6, <2>7
<1>5. ASSUME NEW s \in SUBSET T
      PROVE  SumStep(f, G(s \ {Chosen(s)}), s) = SumStep(f, k, s)
  <2> HIDE DEF k, G
  <2> QED
    BY <1>4, <1>5 DEF SumStep
<1>6. SumsUp(f, T, k)
  <2>1. k = [s \in SUBSET T |-> SumStep(f, G(s \ {Chosen(s)}), s)]
    OBVIOUS
  <2> HIDE DEF k, G
  <2> QED
    BY <1>5, <2>1 DEF SumsUp
<1> QED
  BY <1>2, <1>6

LEMMA SumOfSubset ==
    ASSUME NEW S, IsFiniteSet(S), NEW f, NEW h, SumsUp(f, S, h), NEW T \in SUBSET S
    PROVE  SumFunctionOnSet(f, T) = h[T]
<1>1. IsFiniteSet(T)
  BY FS_Subset
<1>2. SumsUp(f, T, CHOOSE k : SumsUp(f, T, k))
  BY <1>1, SumsExist
<1> DEFINE k == CHOOSE k : SumsUp(f, T, k)
<1>3. SumFunctionOnSet(f, T) = k[T]
  BY SumAsRecursion
<1>4. SumsUp(f, T, k)
  BY <1>2
<1> HIDE DEF k
<1>5. h[T] = k[T]
  BY <1>4, SumsAgree
<1> QED
  BY <1>3, <1>5

-----------------------------------------------------------------------------
(* The sum of a function over a finite set *)

LEMMA SumOfNothing ==
    ASSUME NEW f
    PROVE  SumFunctionOnSet(f, {}) = 0
<1>1. PICK h : SumsUp(f, {}, h)
  BY FS_EmptySet, SumsExist
<1>2. SumFunctionOnSet(f, {}) = h[{}]
  BY <1>1, FS_EmptySet, SumOfSubset
<1> QED
  BY <1>1, <1>2 DEF SumsUp, SumStep

LEMMA SumWithChosen ==
    ASSUME NEW S, IsFiniteSet(S), S # {}, NEW f
    PROVE  /\ Chosen(S) \in S
           /\ SumFunctionOnSet(f, S) =
                f[Chosen(S)] + SumFunctionOnSet(f, S \ {Chosen(S)})
<1>1. PICK h : SumsUp(f, S, h)
  BY SumsExist
<1>2. S \in SUBSET S /\ S \ {Chosen(S)} \in SUBSET S
  OBVIOUS
<1>3. h[S] = SumStep(f, h, S)
  BY <1>1, <1>2 DEF SumsUp
<1>4. /\ SumFunctionOnSet(f, S) = h[S]
      /\ SumFunctionOnSet(f, S \ {Chosen(S)}) = h[S \ {Chosen(S)}]
  BY <1>1, <1>2, SumOfSubset
<1>5. Chosen(S) \in S
  BY DEF Chosen
<1> QED
  BY <1>3, <1>4, <1>5 DEF SumStep

\* Only the values on the set matter.
LEMMA SumSameValues ==
    ASSUME NEW S, IsFiniteSet(S), NEW f, NEW e, \A x \in S : f[x] = e[x]
    PROVE  SumFunctionOnSet(f, S) = SumFunctionOnSet(e, S)
<1>1. PICK h : SumsUp(f, S, h)
  BY SumsExist
<1>2. PICK k : SumsUp(e, S, k)
  BY SumsExist
<1>3. S \in SUBSET S
  OBVIOUS
<1>4. \A s \in SUBSET S : h[s] = k[s]
  BY <1>1, <1>2, SumsAgree
<1> QED
  BY <1>1, <1>2, <1>3, <1>4, SumOfSubset

\* Whatever set of numbers holds the summands and is closed under addition
\* holds the sum.
LEMMA SumClosed ==
    ASSUME NEW S, IsFiniteSet(S), NEW f,
           NEW D, 0 \in D, \A a, b \in D : a + b \in D, \A x \in S : f[x] \in D
    PROVE  SumFunctionOnSet(f, S) \in D
<1> DEFINE F == {T \in SUBSET S : SumFunctionOnSet(f, T) \notin D}
<1> SUFFICES ASSUME F # {} PROVE FALSE
  OBVIOUS
<1>1. PICK T \in F : \A U \in F : U \subseteq T => U = T
  <2>1. F \subseteq SUBSET S
    OBVIOUS
  <2> HIDE DEF F
  <2> QED
    BY <2>1, LeastSubset
<1>2. T \in SUBSET S /\ SumFunctionOnSet(f, T) \notin D /\ IsFiniteSet(T)
  BY FS_Subset
<1>3. T # {}
  BY <1>2, SumOfNothing
<1>4. /\ Chosen(T) \in T
      /\ SumFunctionOnSet(f, T) = f[Chosen(T)] + SumFunctionOnSet(f, T \ {Chosen(T)})
  BY <1>2, <1>3, SumWithChosen
<1>5. SumFunctionOnSet(f, T \ {Chosen(T)}) \in D
  <2>1. T \ {Chosen(T)} \in SUBSET S /\ T \ {Chosen(T)} # T
    BY <1>2, <1>4
  <2> QED
    BY <1>1, <2>1
<1> QED
  BY <1>2, <1>4, <1>5

LEMMA SumInt ==
    ASSUME NEW S, IsFiniteSet(S), NEW f, \A x \in S : f[x] \in Int
    PROVE  SumFunctionOnSet(f, S) \in Int
  BY SumClosed

LEMMA SumNonNegative ==
    ASSUME NEW S, IsFiniteSet(S), NEW f, \A x \in S : f[x] \in Nat
    PROVE  SumFunctionOnSet(f, S) \in Nat
<1>1. 0 \in Nat /\ \A a, b \in Nat : a + b \in Nat
  OBVIOUS
<1> QED
  BY <1>1, SumClosed

\* Any element may be taken out of the sum.
LEMMA SumWithout ==
    ASSUME NEW S, IsFiniteSet(S), NEW f, \A x \in S : f[x] \in Int, NEW x \in S
    PROVE  SumFunctionOnSet(f, S) = f[x] + SumFunctionOnSet(f, S \ {x})
<1> DEFINE Splits(T, y) == SumFunctionOnSet(f, T) = f[y] + SumFunctionOnSet(f, T \ {y})
           F == {T \in SUBSET S : \E y \in T : ~Splits(T, y)}
<1> SUFFICES F = {}
  <2>1. S \in SUBSET S
    OBVIOUS
  <2> QED
    BY <2>1
<1> SUFFICES ASSUME F # {} PROVE FALSE
  OBVIOUS
<1>1. PICK T \in F : \A U \in F : U \subseteq T => U = T
  <2>1. F \subseteq SUBSET S
    OBVIOUS
  <2> HIDE DEF F
  <2> QED
    BY <2>1, LeastSubset
<1>2. PICK y \in T : ~Splits(T, y)
  OBVIOUS
<1>3. T \in SUBSET S /\ IsFiniteSet(T)
  BY FS_Subset
<1> DEFINE c == Chosen(T)
<1>4. c \in T /\ SumFunctionOnSet(f, T) = f[c] + SumFunctionOnSet(f, T \ {c})
  BY <1>2, <1>3, SumWithChosen
<1> HIDE DEF c
<1>5. c # y
  BY <1>2, <1>4
<1>6. Splits(T \ {c}, y)
  BY ZenonT(60), <1>1, <1>2, <1>3, <1>4, <1>5
<1>7. Splits(T \ {y}, c)
  BY <1>1, <1>2, <1>3, <1>4, <1>5
<1>8. (T \ {c}) \ {y} = (T \ {y}) \ {c}
  OBVIOUS
<1>9. /\ f[c] \in Int /\ f[y] \in Int
      /\ SumFunctionOnSet(f, (T \ {y}) \ {c}) \in Int
  <2>1. (T \ {y}) \ {c} \in SUBSET S
    BY <1>3
  <2>2. IsFiniteSet((T \ {y}) \ {c})
    BY <2>1, FS_Subset
  <2>3. SumFunctionOnSet(f, (T \ {y}) \ {c}) \in Int
    BY <2>1, <2>2, SumInt
  <2> QED
    BY <2>3, <1>3, <1>4
<1>10. Splits(T, y)
  <2> DEFINE rest == SumFunctionOnSet(f, (T \ {y}) \ {c})
  <2>1. /\ SumFunctionOnSet(f, T \ {c}) = f[y] + rest
        /\ SumFunctionOnSet(f, T \ {y}) = f[c] + rest
    BY <1>6, <1>7, <1>8
  <2>2. rest \in Int
    BY <1>9
  <2> HIDE DEF rest
  <2>3. SumFunctionOnSet(f, T) = f[y] + SumFunctionOnSet(f, T \ {y})
    BY <1>4, <1>9, <2>1, <2>2
  <2> QED
    BY <2>3
<1> QED
  BY <1>2, <1>10

-----------------------------------------------------------------------------
(* SumFunction: the sum over the whole domain *)

LEMMA SumZero ==
    ASSUME NEW S, IsFiniteSet(S), NEW f \in [S -> Int], \A x \in S : f[x] = 0
    PROVE  SumFunction(f) = 0
<1>1. 0 \in {0} /\ \A a, b \in {0} : a + b \in {0}
  OBVIOUS
<1>2. SumFunctionOnSet(f, S) \in {0}
  BY <1>1, SumClosed
<1>3. DOMAIN f = S
  OBVIOUS
<1> QED
  BY <1>2, <1>3 DEF SumFunction

LEMMA SumType ==
    ASSUME NEW S, IsFiniteSet(S), NEW f \in [S -> Int]
    PROVE  SumFunction(f) \in Int
<1>1. DOMAIN f = S /\ \A x \in S : f[x] \in Int
  OBVIOUS
<1> QED
  BY <1>1, SumInt DEF SumFunction

\* Changing one value changes the sum by as much.
LEMMA SumExcept ==
    ASSUME NEW S, IsFiniteSet(S), NEW f \in [S -> Int], NEW e \in [S -> Int],
           NEW x \in S, \A y \in S \ {x} : e[y] = f[y]
    PROVE  SumFunction(e) = SumFunction(f) + (e[x] - f[x])
<1>1. /\ DOMAIN f = S /\ \A y \in S : f[y] \in Int
      /\ DOMAIN e = S /\ \A y \in S : e[y] \in Int
  OBVIOUS
<1>2. IsFiniteSet(S \ {x})
  BY FS_RemoveElement
<1>3. /\ SumFunctionOnSet(f, S) = f[x] + SumFunctionOnSet(f, S \ {x})
      /\ SumFunctionOnSet(e, S) = e[x] + SumFunctionOnSet(e, S \ {x})
  BY <1>1, SumWithout
<1>4. SumFunctionOnSet(e, S \ {x}) = SumFunctionOnSet(f, S \ {x})
  BY <1>2, SumSameValues
<1>5. SumFunctionOnSet(f, S \ {x}) \in Int
  BY <1>1, <1>2, SumInt
<1> QED
  BY <1>1, <1>3, <1>4, <1>5 DEF SumFunction

\* No summand of a sum of natural numbers exceeds it.
LEMMA SumBound ==
    ASSUME NEW S, IsFiniteSet(S), NEW f \in [S -> Nat], NEW x \in S
    PROVE  f[x] <= SumFunction(f)
<1>1. DOMAIN f = S /\ \A y \in S : f[y] \in Nat /\ f[y] \in Int
  OBVIOUS
<1>2. IsFiniteSet(S \ {x})
  BY FS_RemoveElement
<1>3. SumFunctionOnSet(f, S) = f[x] + SumFunctionOnSet(f, S \ {x})
  BY <1>1, SumWithout
<1>4. SumFunctionOnSet(f, S \ {x}) \in Nat
  BY <1>1, <1>2, SumNonNegative
<1> QED
  BY <1>1, <1>3, <1>4 DEF SumFunction

\* A sum over a set is the sum over a part of it and over the rest.
LEMMA SumSplit ==
    ASSUME NEW S, IsFiniteSet(S), NEW f, \A x \in S : f[x] \in Int, NEW T \in SUBSET S
    PROVE  SumFunctionOnSet(f, S) = SumFunctionOnSet(f, T) + SumFunctionOnSet(f, S \ T)
<1> DEFINE Splits(U) == SumFunctionOnSet(f, T \cup U)
                          = SumFunctionOnSet(f, T) + SumFunctionOnSet(f, U)
           F == {U \in SUBSET (S \ T) : ~Splits(U)}
<1>1. ASSUME F # {} PROVE FALSE
  <2>1. PICK U \in F : \A V \in F : V \subseteq U => V = U
    <3>1. IsFiniteSet(S \ T) /\ F \subseteq SUBSET (S \ T)
      BY FS_Subset
    <3> HIDE DEF F
    <3> QED
      BY <1>1, <3>1, LeastSubset
  <2>2. U \subseteq S \ T /\ ~Splits(U)
    OBVIOUS
  <2>3. CASE U = {}
    <3>1. SumFunctionOnSet(f, T) \in Int
      BY FS_Subset, SumInt
    <3>2. SumFunctionOnSet(f, T \cup U) = SumFunctionOnSet(f, T)
      <4>1. T \cup U = T
        BY <2>3
      <4> QED
        BY <4>1
    <3>3. SumFunctionOnSet(f, U) = 0
      BY <2>3, SumOfNothing
    <3> QED
      BY <2>2, <3>1, <3>2, <3>3
  <2>4. CASE U # {}
    <3>1. PICK x : x \in U
      BY <2>4
    <3> DEFINE V == U \ {x}
    <3>2. Splits(V)
      <4>1. V \in SUBSET (S \ T) /\ V \subseteq U /\ V # U
        BY <2>2, <3>1
      <4> QED
        BY <2>1, <4>1
    <3>3. /\ IsFiniteSet(T \cup U) /\ IsFiniteSet(U) /\ IsFiniteSet(T) /\ IsFiniteSet(V)
          /\ \A y \in T \cup U : f[y] \in Int
          /\ \A y \in V : f[y] \in Int
      BY <2>2, FS_Subset
    <3>4. (T \cup U) \ {x} = T \cup V
      BY <2>2, <3>1
    <3>5. SumFunctionOnSet(f, T \cup U) = f[x] + SumFunctionOnSet(f, T \cup V)
      BY <3>1, <3>3, <3>4, SumWithout
    <3>6. SumFunctionOnSet(f, U) = f[x] + SumFunctionOnSet(f, V)
      BY <2>2, <3>1, <3>3, SumWithout
    <3>7. /\ SumFunctionOnSet(f, T) \in Int /\ SumFunctionOnSet(f, V) \in Int /\ f[x] \in Int
      BY <2>2, <3>1, <3>3, SumInt
    <3> HIDE DEF V
    <3> QED
      BY <2>2, <3>2, <3>5, <3>6, <3>7
  <2> QED
    BY <2>3, <2>4
<1>2. Splits(S \ T)
  BY <1>1
<1>3. T \cup (S \ T) = S
  OBVIOUS
<1> QED
  BY <1>2, <1>3

-----------------------------------------------------------------------------
(* Swaps in flight *)

\* No taker is called back between a burn and its payment.
QuietAfterBurn == Callbacks \cap AfterBurn = {}

LEMMA ButLast ==
    ASSUME NEW S, NEW s \in Seq(S), s # << >>
    PROVE  LET t == SubSeq(s, 1, Len(s) - 1) IN
           /\ Len(s) \in Nat \ {0}
           /\ s[Len(s)] \in S
           /\ t \in Seq(S)
           /\ Len(t) = Len(s) - 1
           /\ \A i \in 1..(Len(s) - 1) : t[i] = s[i]
<1> DEFINE n == Len(s) - 1
           t == SubSeq(s, 1, Len(s) - 1)
<1>1. Len(s) \in Nat \ {0} /\ n \in Nat /\ n \in Int
  BY EmptySeq
<1>2. \A i \in 1..Len(s) : s[i] \in S
  BY ElementOfSeq
<1>3. \A i \in 1..n : s[i] \in S
  BY <1>1, <1>2
<1>4. t = SubSeq(s, 1, n)
  BY DEF t
<1>5. s[Len(s)] \in S
  BY <1>1, <1>2
<1> HIDE DEF n, t
<1>6. /\ t \in Seq(S)
      /\ Len(t) = IF 1 <= n THEN n - 1 + 1 ELSE 0
      /\ \A i \in 1..(n - 1 + 1) : t[i] = s[1 + i - 1]
  BY <1>1, <1>3, <1>4, SubSeqProperties
<1>7. Len(t) = n
  BY <1>1, <1>6
<1>8. ASSUME NEW i \in 1..n PROVE t[i] = s[i]
  <2>1. i \in 1..(n - 1 + 1) /\ 1 + i - 1 = i
    BY <1>1
  <2> QED
    BY <2>1, <1>6
<1> QED
  BY <1>1, <1>5, <1>6, <1>7, <1>8 DEF n, t

\* What a chained stack says of its innermost frame.
LEMMA ChainTop ==
    ASSUME NEW S, NEW stk \in Seq(S), stk # << >>, NEW adv, Chained(stk, adv)
    PROVE  LET f == stk[Len(stk)] IN
           /\ f \in S
           /\ f.saved.advance >= 0
           /\ f.saved.balance + f.saved.advance >= f.saved.lockedQuote
           /\ f.saved.advance + Ahead(f) = adv
<1>1. Len(stk) \in Nat \ {0} /\ stk[Len(stk)] \in S
  BY ButLast
<1>2. Len(stk) \in 1..Len(stk)
  BY <1>1
<1> QED
  BY <1>1, <1>2 DEF Chained

\* The innermost swap is over: the chain ends where it began.
LEMMA ChainPop ==
    ASSUME NEW S, NEW stk \in Seq(S), stk # << >>, NEW adv, Chained(stk, adv)
    PROVE  Chained(SubSeq(stk, 1, Len(stk) - 1), stk[Len(stk)].saved.advance)
<1> DEFINE t == SubSeq(stk, 1, Len(stk) - 1)
           n == Len(stk)
<1>1. /\ n \in Nat \ {0} /\ t \in Seq(S) /\ Len(t) = n - 1
      /\ \A i \in 1..(n - 1) : t[i] = stk[i]
  BY ButLast
<1>2. \A i \in 1..n :
        /\ stk[i].saved.advance >= 0
        /\ stk[i].saved.balance + stk[i].saved.advance >= stk[i].saved.lockedQuote
        /\ i = 1 => stk[i].saved.advance = 0
        /\ stk[i].saved.advance + Ahead(stk[i]) =
                IF i = n THEN adv ELSE stk[i + 1].saved.advance
  BY DEF Chained
<1> HIDE DEF t, n
<1>3. t = << >> => stk[n].saved.advance = 0
  <2>1. t = << >> => n = 1
    BY <1>1, EmptySeq
  <2> QED
    BY <2>1, <1>1, <1>2
<1>4. ASSUME NEW i \in 1..Len(t)
      PROVE  /\ t[i].saved.advance >= 0
             /\ t[i].saved.balance + t[i].saved.advance >= t[i].saved.lockedQuote
             /\ i = 1 => t[i].saved.advance = 0
             /\ t[i].saved.advance + Ahead(t[i]) =
                   IF i = Len(t) THEN stk[n].saved.advance ELSE t[i + 1].saved.advance
  <2>1. i \in 1..n /\ i # n /\ t[i] = stk[i]
    BY <1>1
  <2>2. CASE i = Len(t)
    <3>1. i + 1 = n
      BY <1>1, <2>2
    <3> QED
      BY <3>1, <2>1, <2>2, <1>2
  <2>3. CASE i # Len(t)
    <3>1. i + 1 \in 1..(n - 1)
      BY <1>1, <2>3
    <3>2. t[i + 1] = stk[i + 1]
      BY <3>1, <1>1
    <3> QED
      BY <3>2, <2>1, <2>3, <1>2
  <2> QED
    BY <2>2, <2>3
<1> QED
  BY <1>3, <1>4 DEF Chained, t, n

\* The innermost swap moves on: its frame may change, but not what it saved.
LEMMA ChainReplace ==
    ASSUME NEW S, NEW stk \in Seq(S), stk # << >>, NEW adv, Chained(stk, adv),
           NEW stk2 \in Seq(S), Len(stk2) = Len(stk),
           \A i \in 1..(Len(stk) - 1) : stk2[i] = stk[i],
           stk2[Len(stk)].saved = stk[Len(stk)].saved
    PROVE  Chained(stk2, stk[Len(stk)].saved.advance + Ahead(stk2[Len(stk)]))
<1> DEFINE n == Len(stk)
           adv2 == stk[n].saved.advance + Ahead(stk2[n])
<1>1. n \in Nat \ {0}
  BY ButLast
<1>2. \A i \in 1..n :
        /\ stk[i].saved.advance >= 0
        /\ stk[i].saved.balance + stk[i].saved.advance >= stk[i].saved.lockedQuote
        /\ i = 1 => stk[i].saved.advance = 0
        /\ stk[i].saved.advance + Ahead(stk[i]) =
                IF i = n THEN adv ELSE stk[i + 1].saved.advance
  BY DEF Chained
<1>3. \A i \in 1..n : stk2[i].saved = stk[i].saved
  <2>1. \A i \in 1..n : i # n => i \in 1..(n - 1)
    BY <1>1
  <2> QED
    BY <2>1
<1>4. Len(stk2) = n /\ stk2 # << >>
  BY <1>1, EmptySeq
<1>5. \A i \in 1..(n - 1) : stk2[i] = stk[i]
  OBVIOUS
<1>6. adv2 = stk2[n].saved.advance + Ahead(stk2[n])
  BY <1>1, <1>3
<1> HIDE DEF n, adv2
<1>7. ASSUME NEW i \in 1..n
      PROVE  stk2[i].saved.advance + Ahead(stk2[i]) =
                IF i = n THEN adv2 ELSE stk2[i + 1].saved.advance
  <2>1. CASE i = n
    BY <2>1, <1>6
  <2>2. CASE i # n
    <3>1. i \in 1..(n - 1) /\ i + 1 \in 1..n
      BY <1>1, <2>2
    <3>2. stk2[i] = stk[i] /\ stk2[i + 1].saved = stk[i + 1].saved
      BY <3>1, <1>3, <1>5
    <3> QED
      BY <3>2, <2>2, <1>2
  <2> QED
    BY <2>1, <2>2
<1>8. \A i \in 1..n :
        /\ stk2[i].saved.advance >= 0
        /\ stk2[i].saved.balance + stk2[i].saved.advance >= stk2[i].saved.lockedQuote
        /\ i = 1 => stk2[i].saved.advance = 0
  BY <1>2, <1>3
<1>9. Chained(stk2, adv2)
  BY <1>4, <1>7, <1>8 DEF Chained
<1> QED
  BY <1>9 DEF n, adv2

\* A swap begins.
LEMMA ChainPush ==
    ASSUME NEW S, NEW stk \in Seq(S), NEW adv \in Int, Chained(stk, adv), adv >= 0,
           NEW f \in S, f.saved.advance = adv, Ahead(f) = 0,
           f.saved.balance + adv >= f.saved.lockedQuote
    PROVE  Chained(Append(stk, f), adv)
<1> DEFINE n == Len(stk)
           t == Append(stk, f)
<1>1. /\ n \in Nat /\ t \in Seq(S) /\ Len(t) = n + 1 /\ t[n + 1] = f
      /\ \A i \in 1..n : t[i] = stk[i]
      /\ t # << >>
  BY AppendProperties, LenProperties
<1>2. \A i \in 1..n :
        /\ stk[i].saved.advance >= 0
        /\ stk[i].saved.balance + stk[i].saved.advance >= stk[i].saved.lockedQuote
        /\ i = 1 => stk[i].saved.advance = 0
        /\ stk[i].saved.advance + Ahead(stk[i]) =
                IF i = n THEN adv ELSE stk[i + 1].saved.advance
  BY DEF Chained
<1>3. n = 0 => adv = 0
  BY EmptySeq DEF Chained
<1> HIDE DEF n, t
<1>4. ASSUME NEW i \in 1..(n + 1)
      PROVE  /\ t[i].saved.advance >= 0
             /\ t[i].saved.balance + t[i].saved.advance >= t[i].saved.lockedQuote
             /\ i = 1 => t[i].saved.advance = 0
             /\ t[i].saved.advance + Ahead(t[i]) =
                   IF i = n + 1 THEN adv ELSE t[i + 1].saved.advance
  <2>1. CASE i = n + 1
    <3>1. t[i] = f
      BY <1>1, <2>1
    <3>2. i = 1 => adv = 0
      BY <1>1, <1>3, <2>1
    <3>3. adv + 0 = adv
      OBVIOUS
    <3> QED
      BY <3>1, <3>2, <3>3, <2>1
  <2>2. CASE i = n
    <3>1. t[i] = stk[i] /\ t[i + 1] = f /\ i \in 1..n /\ i # n + 1
      BY <1>1, <2>2
    <3> QED
      BY <3>1, <1>2, <2>2
  <2>3. CASE i # n /\ i # n + 1
    <3>1. i \in 1..n /\ i + 1 \in 1..n
      BY <1>1, <2>3
    <3>2. t[i] = stk[i] /\ t[i + 1] = stk[i + 1]
      BY <3>1, <1>1
    <3> QED
      BY <3>1, <3>2, <1>2, <2>3
  <2> QED
    BY <2>1, <2>2, <2>3
<1>5. Len(t) = n + 1 /\ t # << >>
  BY <1>1
<1>6. Chained(t, adv)
  BY <1>4, <1>5 DEF Chained
<1> QED
  BY <1>6 DEF t

-----------------------------------------------------------------------------
(* The router's steps *)

\* What these proofs need of the types of a frame.
FrameShape(f) ==
    /\ f.kind \in Kinds /\ f.inFirst \in BOOLEAN /\ f.stage \in {"first", "second"}
    /\ f.amountIn \in Nat /\ f.amountOut \in Nat
    /\ f.saved.balance \in Int /\ f.saved.lockedQuote \in Int /\ f.saved.advance \in Int

LEMMA AheadInt ==
    ASSUME NEW f, FrameShape(f)
    PROVE  Ahead(f) \in Int
  BY DEF FrameShape, Ahead

\* TransferDone moves the innermost frame to its second stage or drops it.
LEMMA AfterTransfer ==
    ASSUME NEW S, stack \in Seq(S), stack # << >>, TransferDone,
           [Top EXCEPT !.stage = "second"] \in S
    PROVE  /\ stack' \in Seq(S)
           /\ Top.stage = "first" =>
                /\ Len(stack') = Len(stack)
                /\ \A i \in 1..(Len(stack) - 1) : stack'[i] = stack[i]
                /\ stack'[Len(stack)] = [Top EXCEPT !.stage = "second"]
           /\ Top.stage # "first" => stack' = Below
<1> DEFINE f == [Top EXCEPT !.stage = "second"]
<1>1. Len(stack) \in Nat \ {0} /\ Below \in Seq(S)
  BY ButLast DEF Below
<1>2. CASE Top.stage = "first"
  <2>1. f \in S /\ stack' = [stack EXCEPT ![Len(stack)] = f]
    BY <1>2 DEF TransferDone, Top
  <2> HIDE DEF f
  <2>2. stack' \in Seq(S) /\ Len(stack') = Len(stack)
    BY <1>1, <2>1
  <2>3. /\ \A i \in 1..(Len(stack) - 1) : stack'[i] = stack[i]
        /\ stack'[Len(stack)] = f
    BY <1>1, <2>1
  <2> QED
    BY <1>2, <2>2, <2>3 DEF f
<1>3. CASE Top.stage # "first"
  BY <1>1, <1>3 DEF TransferDone
<1> QED
  BY <1>2, <1>3

\* After a transfer the chain accounts for the innermost frame's next stage,
\* or ends where that frame began.
LEMMA TransferChained ==
    ASSUME NEW S, stack \in Seq(S), stack # << >>, TransferDone,
           FrameShape(Top), [Top EXCEPT !.stage = "second"] \in S,
           [Top EXCEPT !.stage = "second"].saved = Top.saved,
           NEW adv, Chained(stack, adv)
    PROVE  Chained(stack', Top.saved.advance
                            + (IF Top.stage = "first"
                               THEN Ahead([Top EXCEPT !.stage = "second"]) ELSE 0))
<1> DEFINE f == [Top EXCEPT !.stage = "second"]
<1>1. Top = stack[Len(stack)] /\ Below = SubSeq(stack, 1, Len(stack) - 1)
  BY DEF Top, Below
<1>2. CASE Top.stage = "first"
  <2>1. /\ stack' \in Seq(S) /\ Len(stack') = Len(stack)
        /\ \A i \in 1..(Len(stack) - 1) : stack'[i] = stack[i]
        /\ stack'[Len(stack)] = f /\ f.saved = Top.saved
    BY <1>2, AfterTransfer
  <2> HIDE DEF f
  <2>2. stack'[Len(stack)].saved = stack[Len(stack)].saved
    BY <2>1, <1>1
  <2>3. Chained(stack', stack[Len(stack)].saved.advance + Ahead(stack'[Len(stack)]))
    BY <2>1, <2>2, ChainReplace
  <2>4. Chained(stack', Top.saved.advance + Ahead(f))
    BY <2>1, <2>3, <1>1
  <2> QED
    BY <1>2, <2>4 DEF f
<1>3. CASE Top.stage # "first"
  <2>1. stack' = Below
    BY <1>3, AfterTransfer
  <2>2. Chained(stack', Top.saved.advance)
    BY <2>1, <1>1, ChainPop
  <2>3. Top.saved.advance + 0 = Top.saved.advance
    BY DEF FrameShape
  <2> QED
    BY <1>3, <2>2, <2>3
<1> QED
  BY <1>2, <1>3

\* Outside code runs only where no swap owes the vault a payment.
LEMMA CallableAhead ==
    ASSUME QuietAfterBurn, NEW S, \A f \in S : FrameShape(f),
           stack \in Seq(S), NEW adv, Chained(stack, adv), Callable
    PROVE  adv >= 0
<1>1. CASE stack = << >>
  BY <1>1 DEF Chained
<1>2. CASE stack # << >> /\ <<Top.kind, Top.inFirst, Top.stage>> \in Callbacks
  <2>1. FrameShape(Top) /\ Top.saved.advance >= 0 /\ Top.saved.advance + Ahead(Top) = adv
    BY <1>2, ChainTop DEF Top
  <2>2. <<Top.kind, Top.inFirst, Top.stage>> \notin AfterBurn
    BY <1>2 DEF QuietAfterBurn
  <2>3. Top.kind = "ISSUE" \/ Top.stage = "first" \/ ~Top.inFirst
    BY <2>1, <2>2 DEF AfterBurn, Kinds, FrameShape
  <2>4. Ahead(Top) >= 0 /\ Ahead(Top) \in Int
    BY <2>1, <2>3, AheadInt DEF Ahead, FrameShape
  <2> QED
    BY <2>1, <2>4 DEF FrameShape
<1> QED
  BY <1>1, <1>2 DEF Callable

\* A vault no worse off, or solvent while nothing is owed to it, is still not
\* short by more than was paid ahead.
LEMMA Slack ==
    ASSUME NEW b \in Int, NEW l \in Int, NEW a \in Int, NEW b2 \in Int, NEW l2 \in Int,
           b + a >= l, b2 - l2 >= b - l \/ (a >= 0 /\ b2 >= l2)
    PROVE  b2 + a >= l2
  OBVIOUS

-----------------------------------------------------------------------------
(* What the swaps in flight have done by halves *)

\* f is a swap of this order.
Of(f, g, kind, s) == f.group = g /\ f.kind = kind /\ f.side = s

\* ISSUE: units counted as outstanding that Aqua has yet to pull.  EXIT and
\* SETTLE: quote paid ahead of the burn, or owed after it.
Half(f) ==
    IF f.kind = "ISSUE"
    THEN IF f.inFirst \/ f.stage = "first" THEN f.amountOut ELSE 0
    ELSE Ahead(f)

\* The half of the order's swap among the first n, if there is one.
Pending(stk, n, g, kind, s) ==
    LET swaps == {i \in 1..n : Of(stk[i], g, kind, s)}
    IN  IF swaps = {} THEN 0 ELSE Half(stk[CHOOSE i \in swaps : TRUE])

\* The router's guard: no order is executed twice at a time.
OneSwapPerOrder ==
    \A i, j \in 1..Len(stack) :
        Of(stack[i], stack[j].group, stack[j].kind, stack[j].side) => i = j

LEMMA HalfType ==
    ASSUME NEW f, FrameShape(f)
    PROVE  Half(f) \in Int /\ (f.kind = "ISSUE" => Half(f) \in Nat)
  BY DEF Half, Ahead, FrameShape

LEMMA PendingType ==
    ASSUME NEW S, \A f \in S : FrameShape(f), NEW stk \in Seq(S),
           NEW n \in 0..Len(stk), NEW g, NEW kind, NEW s
    PROVE  /\ Pending(stk, n, g, kind, s) \in Int
           /\ kind = "ISSUE" => Pending(stk, n, g, kind, s) \in Nat
<1> DEFINE A == {i \in 1..n : Of(stk[i], g, kind, s)}
           c == CHOOSE i \in A : TRUE
<1>1. Pending(stk, n, g, kind, s) = IF A = {} THEN 0 ELSE Half(stk[c])
  BY DEF Pending
<1>2. A # {} => c \in A
  OBVIOUS
<1>3. A # {} => c \in 1..Len(stk) /\ stk[c].kind = kind
  BY <1>2 DEF Of
<1> HIDE DEF A, c
<1>4. A # {} => FrameShape(stk[c])
  BY <1>3, ElementOfSeq
<1> QED
  BY <1>1, <1>3, <1>4, HalfType

LEMMA PendingPrefix ==
    ASSUME NEW stk, NEW t, NEW n, \A i \in 1..n : stk[i] = t[i],
           NEW g, NEW kind, NEW s
    PROVE  Pending(stk, n, g, kind, s) = Pending(t, n, g, kind, s)
<1> DEFINE A == {i \in 1..n : Of(stk[i], g, kind, s)}
           B == {i \in 1..n : Of(t[i], g, kind, s)}
<1>1. A = B
  OBVIOUS
<1>2. A # {} => (CHOOSE i \in A : TRUE) \in 1..n
  OBVIOUS
<1>3. /\ Pending(stk, n, g, kind, s) = IF A = {} THEN 0 ELSE Half(stk[CHOOSE i \in A : TRUE])
      /\ Pending(t, n, g, kind, s) = IF B = {} THEN 0 ELSE Half(t[CHOOSE i \in B : TRUE])
  BY DEF Pending
<1> HIDE DEF A, B
<1> QED
  BY <1>1, <1>2, <1>3

LEMMA PendingTop ==
    ASSUME NEW stk, NEW n \in Nat \ {0}, NEW g, NEW kind, NEW s,
           \A i \in 1..n : Of(stk[i], stk[n].group, stk[n].kind, stk[n].side) => i = n
    PROVE  /\ Of(stk[n], g, kind, s) =>
                /\ Pending(stk, n, g, kind, s) = Half(stk[n])
                /\ Pending(stk, n - 1, g, kind, s) = 0
           /\ ~Of(stk[n], g, kind, s) =>
                Pending(stk, n, g, kind, s) = Pending(stk, n - 1, g, kind, s)
<1> DEFINE A == {i \in 1..n : Of(stk[i], g, kind, s)}
           B == {i \in 1..(n - 1) : Of(stk[i], g, kind, s)}
<1>1. /\ Pending(stk, n, g, kind, s) = IF A = {} THEN 0 ELSE Half(stk[CHOOSE i \in A : TRUE])
      /\ Pending(stk, n - 1, g, kind, s) = IF B = {} THEN 0 ELSE Half(stk[CHOOSE i \in B : TRUE])
  BY DEF Pending
<1>2. CASE Of(stk[n], g, kind, s)
  <2>1. g = stk[n].group /\ kind = stk[n].kind /\ s = stk[n].side
    BY <1>2 DEF Of
  <2>2. A = {n} /\ B = {}
    BY <1>2, <2>1
  <2> HIDE DEF A, B
  <2> QED
    BY <1>1, <1>2, <2>2
<1>3. CASE ~Of(stk[n], g, kind, s)
  <2>1. A = B
    BY <1>3
  <2> HIDE DEF A, B
  <2> QED
    BY <1>1, <1>3, <2>1
<1> QED
  BY <1>2, <1>3

\* What is pending of an order now.
Now(g, kind, s) == Pending(stack, Len(stack), g, kind, s)

\* The halves once f is where half is done of it.
After(f, half, g, kind, s) == IF Of(f, g, kind, s) THEN half ELSE Now(g, kind, s)

LEMMA FreeOrder ==
    ASSUME NEW g, NEW kind, NEW s, ~Locked(g, kind, s)
    PROVE  Now(g, kind, s) = 0
<1>1. {i \in 1..Len(stack) : Of(stack[i], g, kind, s)} = {}
  BY DEF Locked, Of
<1> QED
  BY <1>1 DEF Now, Pending

\* A swap begins on an order that is free.
LEMMA SwapBegins ==
    ASSUME NEW S, stack \in Seq(S), OneSwapPerOrder, NEW f,
           EnterSwap(f), ~Locked(f.group, f.kind, f.side)
    PROVE  /\ Len(stack) \in Nat /\ Len(stack') = Len(stack) + 1
           /\ stack'[Len(stack) + 1] = f
           /\ \A i \in 1..Len(stack) : stack'[i] = stack[i]
           /\ OneSwapPerOrder'
           /\ \A g, kind, s :
                Pending(stack', Len(stack'), g, kind, s) = After(f, Half(f), g, kind, s)
<1> DEFINE n == Len(stack)
<1>1. /\ n \in Nat /\ Len(stack') = n + 1
      /\ stack'[n + 1] = f
      /\ \A i \in 1..n : stack'[i] = stack[i]
  BY DEF EnterSwap
<1>2. \A i \in 1..n : ~Of(stack[i], f.group, f.kind, f.side)
  BY DEF Locked, Of
<1>3. \A i, j \in 1..n : Of(stack[i], stack[j].group, stack[j].kind, stack[j].side) => i = j
  BY DEF OneSwapPerOrder
<1>4. ASSUME NEW g, NEW kind, NEW s
      PROVE  Pending(stack', n, g, kind, s) = Now(g, kind, s)
  BY <1>1, PendingPrefix DEF Now
<1> HIDE DEF n
<1>5. \A i \in 1..(n + 1) : i = n + 1 \/ i \in 1..n
  BY <1>1
<1>6. \A i \in 1..n : ~Of(f, stack[i].group, stack[i].kind, stack[i].side)
  BY <1>2 DEF Of
<1>7. \A i, j \in 1..(n + 1) :
        Of(stack'[i], stack'[j].group, stack'[j].kind, stack'[j].side) => i = j
  <2> SUFFICES ASSUME NEW i \in 1..(n + 1), NEW j \in 1..(n + 1),
                      Of(stack'[i], stack'[j].group, stack'[j].kind, stack'[j].side)
               PROVE  i = j
    OBVIOUS
  <2>1. CASE i = n + 1 /\ j = n + 1
    BY <2>1
  <2>2. CASE i = n + 1 /\ j \in 1..n
    BY <1>1, <1>6, <2>2
  <2>3. CASE i \in 1..n /\ j = n + 1
    BY <1>1, <1>2, <2>3
  <2>4. CASE i \in 1..n /\ j \in 1..n
    BY <1>1, <1>3, <2>4
  <2> QED
    BY <1>5, <2>1, <2>2, <2>3, <2>4
<1>8. ASSUME NEW g, NEW kind, NEW s
      PROVE  Pending(stack', n + 1, g, kind, s) = After(f, Half(f), g, kind, s)
  <2>1. n + 1 \in Nat \ {0} /\ (n + 1) - 1 = n
    BY <1>1
  <2>2. \A i \in 1..(n + 1) : Of(stack'[i], stack'[n + 1].group, stack'[n + 1].kind,
                                 stack'[n + 1].side) => i = n + 1
    BY <1>1, <1>2, <1>5
  <2> QED
    BY <1>1, <1>4, <2>1, <2>2, PendingTop DEF After
<1>9. OneSwapPerOrder'
  BY <1>1, <1>7 DEF OneSwapPerOrder, Of
<1> QED
  BY <1>1, <1>8, <1>9 DEF n

\* The innermost swap holds what is pending of its order.
LEMMA TopPending ==
    ASSUME NEW S, stack \in Seq(S), stack # << >>, OneSwapPerOrder
    PROVE  /\ Now(Top.group, Top.kind, Top.side) = Half(Top)
           /\ \A i \in 1..Len(stack) :
                Of(stack[i], Top.group, Top.kind, Top.side) => i = Len(stack)
<1>1. /\ Len(stack) \in Nat \ {0} /\ Len(stack) \in 1..Len(stack)
      /\ Top = stack[Len(stack)]
  <2>1. Len(stack) \in Nat \ {0}
    BY ButLast
  <2> QED
    BY <2>1 DEF Top
<1>2. \A i \in 1..Len(stack) : Of(stack[i], Top.group, Top.kind, Top.side) => i = Len(stack)
  BY <1>1 DEF OneSwapPerOrder
<1>3. Of(Top, Top.group, Top.kind, Top.side)
  BY DEF Of
<1> QED
  BY <1>1, <1>2, <1>3, PendingTop DEF Now

\* The innermost swap is over, or undone.
LEMMA SwapEnds ==
    ASSUME NEW S, stack \in Seq(S), stack # << >>, OneSwapPerOrder, stack' = Below
    PROVE  /\ Len(stack) \in Nat \ {0} /\ Len(stack') = Len(stack) - 1
           /\ Top = stack[Len(stack)] /\ Top \in S
           /\ \A i \in 1..(Len(stack) - 1) : stack'[i] = stack[i]
           /\ OneSwapPerOrder'
           /\ \A g, kind, s :
                Pending(stack', Len(stack'), g, kind, s) = After(Top, 0, g, kind, s)
<1> DEFINE n == Len(stack)
<1>1. /\ n \in Nat \ {0} /\ Len(stack') = n - 1 /\ n - 1 \in Nat
      /\ \A i \in 1..(n - 1) : stack'[i] = stack[i] /\ i \in 1..n
      /\ Top = stack[n] /\ Top \in S
  <2>1. /\ n \in Nat \ {0} /\ Len(Below) = n - 1 /\ stack[n] \in S
        /\ \A i \in 1..(n - 1) : Below[i] = stack[i]
    BY ButLast DEF Below
  <2> QED
    BY <2>1 DEF Top
<1>2. \A i \in 1..n : Of(stack[i], Top.group, Top.kind, Top.side) => i = n
  BY TopPending
<1>3. \A i, j \in 1..n : Of(stack[i], stack[j].group, stack[j].kind, stack[j].side) => i = j
  BY DEF OneSwapPerOrder
<1>4. \A g, kind, s : Now(g, kind, s) = Pending(stack, n, g, kind, s)
  BY DEF Now
<1> HIDE DEF n
<1>5. OneSwapPerOrder'
  <2>1. \A i, j \in 1..(n - 1) :
          Of(stack'[i], stack'[j].group, stack'[j].kind, stack'[j].side) => i = j
    BY <1>1, <1>3
  <2> QED
    BY <1>1, <2>1 DEF OneSwapPerOrder, Of
<1>6. ASSUME NEW g, NEW kind, NEW s
      PROVE  Pending(stack', n - 1, g, kind, s) = After(Top, 0, g, kind, s)
  <2>1. Pending(stack', n - 1, g, kind, s) = Pending(stack, n - 1, g, kind, s)
    BY <1>1, PendingPrefix
  <2>2. /\ Of(Top, g, kind, s) => Pending(stack, n - 1, g, kind, s) = 0
        /\ ~Of(Top, g, kind, s) => Now(g, kind, s) = Pending(stack, n - 1, g, kind, s)
    <3>0. n \in Nat \ {0}
      BY <1>1
    <3>1. \A i \in 1..n : Of(stack[i], stack[n].group, stack[n].kind, stack[n].side) => i = n
      BY <1>1, <1>2
    <3>2. /\ Of(stack[n], g, kind, s) =>
                /\ Pending(stack, n, g, kind, s) = Half(stack[n])
                /\ Pending(stack, n - 1, g, kind, s) = 0
          /\ ~Of(stack[n], g, kind, s) =>
                Pending(stack, n, g, kind, s) = Pending(stack, n - 1, g, kind, s)
      BY ONLY <3>1, <3>0, PendingTop
    <3> QED
      BY <1>1, <1>4, <3>2
  <2> QED
    BY <2>1, <2>2 DEF After
<1> QED
  BY <1>1, <1>5, <1>6 DEF n

\* The innermost swap has made its first transfer.
LEMMA SwapAdvances ==
    ASSUME NEW S, stack \in Seq(S), stack # << >>, OneSwapPerOrder, TransferDone,
           Top.stage = "first", NEW f \in S, f = [Top EXCEPT !.stage = "second"],
           f.group = Top.group, f.kind = Top.kind, f.side = Top.side
    PROVE  /\ Len(stack) \in Nat \ {0} /\ Len(stack') = Len(stack)
           /\ Top = stack[Len(stack)] /\ Top \in S
           /\ \A i \in 1..(Len(stack) - 1) : stack'[i] = stack[i]
           /\ stack'[Len(stack)] = f
           /\ OneSwapPerOrder'
           /\ \A g, kind, s :
                Pending(stack', Len(stack'), g, kind, s) = After(Top, Half(f), g, kind, s)
<1> DEFINE n == Len(stack)
<1>1. /\ n \in Nat \ {0} /\ Len(stack') = n
      /\ \A i \in 1..(n - 1) : stack'[i] = stack[i]
      /\ stack'[n] = f
      /\ Top = stack[n] /\ Top \in S
  <2>1. n \in Nat \ {0} /\ stack[n] \in S
    BY ButLast
  <2>2. /\ Len(stack') = n
        /\ \A i \in 1..(n - 1) : stack'[i] = stack[i]
        /\ stack'[n] = f
    BY AfterTransfer
  <2> QED
    BY <2>1, <2>2 DEF Top
<1>2. \A i \in 1..n : Of(stack[i], Top.group, Top.kind, Top.side) => i = n
  BY TopPending
<1>3. \A i, j \in 1..n : Of(stack[i], stack[j].group, stack[j].kind, stack[j].side) => i = j
  BY DEF OneSwapPerOrder
<1>4. \A g, kind, s : Now(g, kind, s) = Pending(stack, n, g, kind, s)
  BY DEF Now
<1> HIDE DEF n
<1>5. \A i \in 1..n : i = n \/ i \in 1..(n - 1)
  BY <1>1
<1>6. \A i \in 1..n : /\ stack'[i].group = stack[i].group
                      /\ stack'[i].kind = stack[i].kind
                      /\ stack'[i].side = stack[i].side
  BY <1>1, <1>5
<1>7. \A i \in 1..n : \A g, kind, s : Of(stack'[i], g, kind, s) <=> Of(stack[i], g, kind, s)
  BY <1>6 DEF Of
<1>8. OneSwapPerOrder'
  <2>1. \A i, j \in 1..n :
          Of(stack'[i], stack'[j].group, stack'[j].kind, stack'[j].side) => i = j
    BY <1>3, <1>6, <1>7
  <2> QED
    BY <1>1, <2>1 DEF OneSwapPerOrder, Of
<1>9. ASSUME NEW g, NEW kind, NEW s
      PROVE  Pending(stack', n, g, kind, s) = After(Top, Half(f), g, kind, s)
  <2>1. Pending(stack', n - 1, g, kind, s) = Pending(stack, n - 1, g, kind, s)
    BY <1>1, PendingPrefix
  <2>2. \A i \in 1..n : Of(stack'[i], stack'[n].group, stack'[n].kind, stack'[n].side) => i = n
    BY <1>1, <1>2, <1>7
  <2>3. Of(f, g, kind, s) <=> Of(Top, g, kind, s)
    BY DEF Of
  <2>4. Pending(stack', n, g, kind, s) =
          IF Of(Top, g, kind, s) THEN Half(f) ELSE Pending(stack, n - 1, g, kind, s)
    <3>1. /\ Of(stack'[n], g, kind, s) => Pending(stack', n, g, kind, s) = Half(stack'[n])
          /\ ~Of(stack'[n], g, kind, s) =>
                Pending(stack', n, g, kind, s) = Pending(stack', n - 1, g, kind, s)
      BY ONLY <1>1, <2>2, PendingTop
    <3> QED
      BY <1>1, <2>1, <2>3, <3>1
  <2>5. ~Of(Top, g, kind, s) => Now(g, kind, s) = Pending(stack, n - 1, g, kind, s)
    BY <1>1, <1>2, <1>4, PendingTop
  <2> QED
    BY <2>4, <2>5 DEF After
<1> QED
  BY <1>1, <1>8, <1>9 DEF n

\* The same swap, perhaps at another stage.
SameSwap(f, g) ==
    /\ f.group = g.group /\ f.kind = g.kind /\ f.side = g.side
    /\ f.amountIn = g.amountIn /\ f.amountOut = g.amountOut /\ f.saved = g.saved

\* What is done of the innermost swap once its next transfer is made.
NextHalf == IF Top.stage = "first" THEN Half([Top EXCEPT !.stage = "second"]) ELSE 0

\* A swap's transfers move its half by what they transfer.
LEMMA NextHalfMoves ==
    ASSUME stack # << >>, FrameShape(Top), FrameShape([Top EXCEPT !.stage = "second"]),
           SameSwap([Top EXCEPT !.stage = "second"], Top),
           [Top EXCEPT !.stage = "second"].inFirst = Top.inFirst,
           [Top EXCEPT !.stage = "second"].stage = "second"
    PROVE  /\ TransferInNext => NextHalf = IF Top.kind = "ISSUE" THEN Half(Top)
                                           ELSE Half(Top) - Top.amountOut
           /\ TransferOutNext => NextHalf = IF Top.kind = "ISSUE" THEN Half(Top) - Top.amountOut
                                            ELSE Half(Top) + Top.amountOut
<1> DEFINE n == [Top EXCEPT !.stage = "second"]
           f == Top
<1>1. /\ n.kind = f.kind /\ n.amountOut = f.amountOut /\ n.inFirst = f.inFirst
      /\ n.stage = "second"
      /\ f.inFirst \in BOOLEAN /\ f.stage \in {"first", "second"} /\ f.amountOut \in Nat
  BY DEF FrameShape, SameSwap
<1>2. NextHalf = IF f.stage = "first" THEN Half(n) ELSE 0
  BY DEF NextHalf
<1>3. /\ TransferInNext => (f.inFirst <=> f.stage = "first")
      /\ TransferOutNext => (f.inFirst <=> f.stage = "second")
  BY DEF TransferInNext, TransferOutNext
<1> HIDE DEF n, f
<1>4. CASE f.kind = "ISSUE"
  BY <1>1, <1>2, <1>3, <1>4 DEF Half, f
<1>5. CASE f.kind # "ISSUE"
  BY <1>1, <1>2, <1>3, <1>5 DEF Half, Ahead, f
<1> QED
  BY <1>4, <1>5

\* The innermost swap has made a transfer: on to the second one, or over.
LEMMA SwapMoves ==
    ASSUME NEW S, stack \in Seq(S), stack # << >>, OneSwapPerOrder, TransferDone,
           [Top EXCEPT !.stage = "second"] \in S,
           SameSwap([Top EXCEPT !.stage = "second"], Top)
    PROVE  /\ OneSwapPerOrder'
           /\ \A i \in 1..Len(stack') :
                /\ i \in 1..Len(stack) /\ SameSwap(stack'[i], stack[i])
                /\ \A j \in 1..(i - 1) : stack[j] = stack'[j]
           /\ \A g, kind, s :
                Pending(stack', Len(stack'), g, kind, s) = After(Top, NextHalf, g, kind, s)
<1> DEFINE f == [Top EXCEPT !.stage = "second"]
           n == Len(stack)
<1>1. CASE Top.stage = "first"
  <2>1. f \in S /\ f.group = Top.group /\ f.kind = Top.kind /\ f.side = Top.side
        /\ SameSwap(f, Top)
    BY DEF SameSwap
  <2>2. NextHalf = Half(f)
    BY <1>1 DEF NextHalf
  <2>3. /\ n \in Nat \ {0} /\ Len(stack') = n
        /\ Top = stack[n] /\ Top \in S
        /\ \A i \in 1..(n - 1) : stack'[i] = stack[i]
        /\ stack'[n] = f
        /\ OneSwapPerOrder'
        /\ \A g, kind, s :
                Pending(stack', Len(stack'), g, kind, s) = After(Top, Half(f), g, kind, s)
    BY <1>1, <2>1, SwapAdvances
  <2> HIDE DEF f, n
  <2>4. \A i \in 1..n : i = n \/ i \in 1..(n - 1)
    BY <2>3
  <2>5. \A i \in 1..n : SameSwap(stack'[i], stack[i])
    BY <2>1, <2>3, <2>4 DEF SameSwap
  <2>6. \A i \in 1..n : \A j \in 1..(i - 1) : stack[j] = stack'[j]
    BY <2>3
  <2> QED
    BY <2>2, <2>3, <2>5, <2>6 DEF n
<1>2. CASE Top.stage # "first"
  <2>1. stack' = Below
    BY <1>2 DEF TransferDone
  <2>2. NextHalf = 0
    BY <1>2 DEF NextHalf
  <2>3. /\ n \in Nat \ {0} /\ Len(stack') = n - 1
        /\ \A i \in 1..(n - 1) : stack'[i] = stack[i]
        /\ OneSwapPerOrder'
        /\ \A g, kind, s :
                Pending(stack', Len(stack'), g, kind, s) = After(Top, 0, g, kind, s)
    BY <2>1, SwapEnds
  <2> HIDE DEF n
  <2>4. \A i \in 1..(n - 1) : i \in 1..n /\ SameSwap(stack'[i], stack[i])
    BY <2>3 DEF SameSwap
  <2>5. \A i \in 1..(n - 1) : \A j \in 1..(i - 1) : stack[j] = stack'[j]
    BY <2>3
  <2> QED
    BY <2>2, <2>3, <2>4, <2>5 DEF n
<1> QED
  BY <1>1, <1>2
=============================================================================

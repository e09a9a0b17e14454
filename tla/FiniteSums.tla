------------------------------ MODULE FiniteSums ------------------------------
(***************************************************************************)
(* What SumFunctionOnSet of the community module Functions gives on finite *)
(* sets.  Its fold takes the members of a set in an order CHOOSE decides;  *)
(* the lemmas below say that no order matters.  Each one supposes a set on *)
(* which it fails and takes one none of whose proper subsets fails; the    *)
(* least and the greatest member of a finite set are found in the same way.*)
(***************************************************************************)
EXTENDS Integers, FiniteSets, Functions, FiniteSetTheorems, TLAPS

Chosen(s) == CHOOSE x \in s : TRUE

\* The function the fold computes: the sum over every subset of S.
Solves(g, f, S) ==
    g = [s \in SUBSET S |-> IF s = {} THEN 0 ELSE f[Chosen(s)] + g[s \ {Chosen(s)}]]

Solution(f, S) == CHOOSE g : Solves(g, f, S)

\* A set of subsets of a finite set has one that contains no other.
LEMMA MinimalSubset ==
    ASSUME NEW S, IsFiniteSet(S), NEW B, B \subseteq SUBSET S, B # {}
    PROVE  \E T \in B : \A U \in B : U \subseteq T => U = T
<1>1. IsWellFoundedOn(StrictSubsetOrdering(S), SUBSET S)
  BY FS_StrictSubsetOrderingWellFounded, FS_FiniteSubsetsOfFinite
<1>2. PICK T \in B : \A U \in B : <<U, T>> \notin StrictSubsetOrdering(S)
  <2> DEFINE R == StrictSubsetOrdering(S)
             D == SUBSET S
  <2>1. IsWellFoundedOn(R, D) /\ B \subseteq D /\ B # {}
    BY <1>1
  <2> HIDE DEF R, D
  <2>2. \E T \in B : \A U \in B : ~(<<U, T>> \in R)
    BY <2>1, WFMin
  <2> QED
    BY <2>2 DEF R
<1>3. ASSUME NEW U \in B, U \subseteq T, U # T
      PROVE  <<U, T>> \in StrictSubsetOrdering(S)
  BY <1>3 DEF StrictSubsetOrdering
<1>4. \A U \in B : U \subseteq T => U = T
  BY <1>2, <1>3
<1> QED
  BY <1>4

\* A set of naturals that is finite and not empty has a greatest member.
LEMMA Greatest ==
    ASSUME NEW B, IsFiniteSet(B), B # {}
    PROVE  B \subseteq Nat => \E m \in B : \A u \in B : u <= m
<1> DEFINE From(m) == {u \in B : m <= u}
           F == {From(m) : m \in B}
<1>1. F \subseteq SUBSET B /\ F # {}
  OBVIOUS
<1>2. PICK T \in F : \A U \in F : U \subseteq T => U = T
  <2>1. F \subseteq SUBSET B /\ F # {}
    BY <1>1
  <2> HIDE DEF F
  <2>2. \E T \in F : \A U \in F : U \subseteq T => U = T
    BY <2>1, MinimalSubset
  <2> QED BY <2>2
<1>3. PICK m \in B : T = From(m)
  OBVIOUS
<1>4. ASSUME B \subseteq Nat, NEW u \in B, ~(u <= m) PROVE FALSE
  <2>1. u \in Nat /\ m \in Nat /\ m < u
    BY <1>4
  <2>2. From(u) \subseteq T
    <3>1. ASSUME NEW v \in B, u <= v PROVE m <= v
      BY <1>4, <2>1, <3>1
    <3> QED BY <1>3, <3>1
  <2>3. From(u) \in F
    BY <1>4
  <2>4. m \in T /\ m \notin From(u)
    BY <1>3, <2>1
  <2> QED BY <1>2, <2>2, <2>3, <2>4
<1> QED BY <1>4

\* A set of naturals that is finite and not empty has a least member.
LEMMA Least ==
    ASSUME NEW B, IsFiniteSet(B), B # {}
    PROVE  B \subseteq Nat => \E m \in B : \A u \in B : m <= u
<1> DEFINE Upto(m) == {u \in B : u <= m}
           F == {Upto(m) : m \in B}
<1>1. F \subseteq SUBSET B /\ F # {}
  OBVIOUS
<1>2. PICK T \in F : \A U \in F : U \subseteq T => U = T
  <2>1. F \subseteq SUBSET B /\ F # {}
    BY <1>1
  <2> HIDE DEF F
  <2>2. \E T \in F : \A U \in F : U \subseteq T => U = T
    BY <2>1, MinimalSubset
  <2> QED BY <2>2
<1>3. PICK m \in B : T = Upto(m)
  OBVIOUS
<1>4. ASSUME B \subseteq Nat, NEW u \in B, ~(m <= u) PROVE FALSE
  <2>1. u \in Nat /\ m \in Nat /\ u < m
    BY <1>4
  <2>2. Upto(u) \subseteq T
    <3>1. ASSUME NEW v \in B, v <= u PROVE v <= m
      BY <1>4, <2>1, <3>1
    <3> QED BY <1>3, <3>1
  <2>3. Upto(u) \in F
    BY <1>4
  <2>4. m \in T /\ m \notin Upto(u)
    BY <1>3, <2>1
  <2> QED BY <1>2, <2>2, <2>3, <2>4
<1> QED BY <1>4

LEMMA ChosenIn == ASSUME NEW s, s # {} PROVE Chosen(s) \in s
BY DEF Chosen

LEMMA SolvesAt ==
    ASSUME NEW f, NEW S, NEW g, Solves(g, f, S), NEW s \in SUBSET S
    PROVE  g[s] = IF s = {} THEN 0 ELSE f[Chosen(s)] + g[s \ {Chosen(s)}]
<1> DEFINE e(t) == IF t = {} THEN 0 ELSE f[Chosen(t)] + g[t \ {Chosen(t)}]
<1>1. g = [t \in SUBSET S |-> e(t)]
  BY DEF Solves
<1> HIDE DEF e
<1>2. g[s] = e(s)
  BY <1>1
<1> QED
  BY <1>2 DEF e

LEMMA SolutionsAgree ==
    ASSUME NEW f, NEW S, NEW T, NEW g, NEW h, Solves(g, f, S), Solves(h, f, T),
           NEW u \in SUBSET S, u \in SUBSET T, IsFiniteSet(u)
    PROVE  g[u] = h[u]
<1> DEFINE B == {w \in SUBSET u : g[w] # h[w]}
<1> SUFFICES ASSUME B # {} PROVE FALSE
  OBVIOUS
<1>1. PICK w \in B : \A v \in B : v \subseteq w => v = w
  <2>1. B \subseteq SUBSET u /\ B # {}
    OBVIOUS
  <2> HIDE DEF B
  <2> QED
    BY <2>1, MinimalSubset
<1>2. w \in SUBSET S /\ w \in SUBSET T /\ w \in SUBSET u
  OBVIOUS
<1>3. /\ g[w] = IF w = {} THEN 0 ELSE f[Chosen(w)] + g[w \ {Chosen(w)}]
      /\ h[w] = IF w = {} THEN 0 ELSE f[Chosen(w)] + h[w \ {Chosen(w)}]
  <2> HIDE DEF B
  <2>1. g[w] = IF w = {} THEN 0 ELSE f[Chosen(w)] + g[w \ {Chosen(w)}]
    BY <1>2, SolvesAt
  <2>2. h[w] = IF w = {} THEN 0 ELSE f[Chosen(w)] + h[w \ {Chosen(w)}]
    BY <1>2, SolvesAt
  <2> QED BY <2>1, <2>2
<1>4. CASE w = {}
  BY <1>3, <1>4
<1>5. CASE w # {}
  <2>1. Chosen(w) \in w
    BY <1>5, ChosenIn
  <2>2. w \ {Chosen(w)} \notin B
    BY <1>1, <2>1
  <2>3. g[w \ {Chosen(w)}] = h[w \ {Chosen(w)}]
    BY <2>2, <1>2
  <2> QED
    BY <1>3, <2>3, <1>5
<1> QED
  BY <1>4, <1>5

LEMMA SolutionExists ==
    ASSUME NEW f, NEW S, IsFiniteSet(S)
    PROVE  Solves(Solution(f, S), f, S)
<1> DEFINE Solved(T) == \E g : Solves(g, f, T)
           B == {T \in SUBSET S : ~Solved(T)}
<1>1. SUFFICES Solved(S)
  BY <1>1 DEF Solution
<1> SUFFICES ASSUME B # {} PROVE FALSE
  OBVIOUS
<1>2. PICK T \in B : \A U \in B : U \subseteq T => U = T
  <2>1. B \subseteq SUBSET S /\ B # {}
    OBVIOUS
  <2> HIDE DEF B
  <2> QED
    BY <2>1, MinimalSubset
<1>3. T \in SUBSET S /\ ~Solved(T)
  OBVIOUS
<1> DEFINE r(s) == s \ {Chosen(s)}
           g == [s \in SUBSET T |->
                    IF s = {} THEN 0 ELSE f[Chosen(s)] + Solution(f, r(s))[r(s)]]
<1>4. ASSUME NEW U \in SUBSET T, U # T PROVE Solves(Solution(f, U), f, U)
  <2>1. Solved(U)
    BY <1>2, <1>3, <1>4
  <2> QED
    BY <2>1 DEF Solution
<1>5. ASSUME NEW s \in SUBSET T, s # {}
      PROVE  g[r(s)] = Solution(f, r(s))[r(s)]
  <2>1. Chosen(s) \in s
    BY <1>5, ChosenIn
  <2>2. r(s) \in SUBSET T /\ r(s) # T
    BY <2>1
  <2> DEFINE p == r(s)
  <2>3. p \in SUBSET T /\ p # T /\ IsFiniteSet(p)
    BY <2>2, <1>3, FS_Subset
  <2>4. g[p] = IF p = {} THEN 0 ELSE f[Chosen(p)] + Solution(f, r(p))[r(p)]
    BY <2>3
  <2> SUFFICES g[p] = Solution(f, p)[p]
    OBVIOUS
  <2> HIDE DEF p, g
  <2>5. Solves(Solution(f, p), f, p)
    BY <1>4, <2>3
  <2>6. Solution(f, p)[p] = IF p = {} THEN 0 ELSE f[Chosen(p)] + Solution(f, p)[r(p)]
    BY <2>5, SolvesAt
  <2>7. CASE p = {}
    BY <2>7, <2>4, <2>6
  <2>8. CASE p # {}
    <3>1. r(p) \in SUBSET p /\ r(p) \in SUBSET T /\ r(p) # T /\ IsFiniteSet(r(p))
      BY <2>3, FS_Subset, FS_RemoveElement
    <3>2. Solves(Solution(f, r(p)), f, r(p))
      BY <1>4, <3>1
    <3>3. Solution(f, r(p))[r(p)] = Solution(f, p)[r(p)]
      <4> HIDE DEF r
      <4> QED
        BY <3>1, <3>2, <2>5, SolutionsAgree
    <3> QED
      BY <3>3, <2>4, <2>6, <2>8
  <2> QED
    BY <2>7, <2>8
<1>6. g = [s \in SUBSET T |-> IF s = {} THEN 0 ELSE f[Chosen(s)] + g[s \ {Chosen(s)}]]
  <2>1. ASSUME NEW s \in SUBSET T
        PROVE  g[s] = IF s = {} THEN 0 ELSE f[Chosen(s)] + g[s \ {Chosen(s)}]
    <3>1. g[s] = IF s = {} THEN 0 ELSE f[Chosen(s)] + Solution(f, r(s))[r(s)]
      OBVIOUS
    <3> QED
      BY <3>1, <1>5
  <2>2. g = [s \in SUBSET T |-> g[s]]
    OBVIOUS
  <2> HIDE DEF g
  <2> QED
    BY <2>1, <2>2
<1>7. Solves(g, f, T)
  <2> HIDE DEF g
  <2> QED
    BY <1>6 DEF Solves
<1> QED
  BY <1>7, <1>3

LEMMA SumIsSolution ==
    ASSUME NEW f, NEW S
    PROVE  SumFunctionOnSet(f, S) = Solution(f, S)[S]
BY DEF SumFunctionOnSet, FoldFunctionOnSet, MapThenFoldSet, Solution, Solves, Chosen

----------------------------------------------------------------------------
(* The facts the other modules cite. *)

LEMMA SumEmpty == ASSUME NEW f PROVE SumFunctionOnSet(f, {}) = 0
<1>1. Solves(Solution(f, {}), f, {})
  BY SolutionExists, FS_EmptySet
<1> QED
  BY <1>1, SolvesAt, SumIsSolution

LEMMA SumChosen ==
    ASSUME NEW f, NEW S, IsFiniteSet(S), S # {}
    PROVE  SumFunctionOnSet(f, S) = f[Chosen(S)] + SumFunctionOnSet(f, S \ {Chosen(S)})
<1> DEFINE r == S \ {Chosen(S)}
<1>1. Solution(f, S)[S] = f[Chosen(S)] + Solution(f, S)[r]
  BY SolutionExists, SolvesAt
<1>2. r \in SUBSET S /\ r \in SUBSET r /\ IsFiniteSet(r)
  BY FS_Subset
<1>3. Solution(f, S)[r] = Solution(f, r)[r]
  <2> HIDE DEF r
  <2> QED
    BY <1>2, SolutionExists, SolutionsAgree
<1> QED
  BY <1>1, <1>3, SumIsSolution

\* A sum of integers is an integer.
LEMMA SumInt ==
    ASSUME NEW f, NEW S, IsFiniteSet(S), \A x \in S : f[x] \in Int
    PROVE  SumFunctionOnSet(f, S) \in Int
<1> DEFINE B == {T \in SUBSET S : SumFunctionOnSet(f, T) \notin Int}
<1> SUFFICES ASSUME B # {} PROVE FALSE
  BY FS_Subset
<1>1. PICK T \in B : \A U \in B : U \subseteq T => U = T
  <2>1. B \subseteq SUBSET S /\ B # {}
    OBVIOUS
  <2> HIDE DEF B
  <2> QED
    BY <2>1, MinimalSubset
<1>2. T \in SUBSET S /\ IsFiniteSet(T) /\ SumFunctionOnSet(f, T) \notin Int
  BY FS_Subset
<1>3. T # {}
  BY <1>2, SumEmpty
<1>4. Chosen(T) \in T
  BY <1>3, ChosenIn
<1>5. SumFunctionOnSet(f, T \ {Chosen(T)}) \in Int
  BY <1>1, <1>4
<1>6. SumFunctionOnSet(f, T) = f[Chosen(T)] + SumFunctionOnSet(f, T \ {Chosen(T)})
  BY <1>2, <1>3, SumChosen
<1> QED
  BY <1>2, <1>4, <1>5, <1>6

\* Any member can be taken first.
LEMMA SumApart ==
    ASSUME NEW f, NEW S, IsFiniteSet(S), \A x \in S : f[x] \in Int
    PROVE  \A x \in S : SumFunctionOnSet(f, S) = f[x] + SumFunctionOnSet(f, S \ {x})
<1> DEFINE Free(T) == \A x \in T : SumFunctionOnSet(f, T) = f[x] + SumFunctionOnSet(f, T \ {x})
           B == {T \in SUBSET S : ~Free(T)}
<1> SUFFICES ASSUME B # {} PROVE FALSE
  OBVIOUS
<1>1. PICK T \in B : \A U \in B : U \subseteq T => U = T
  <2>1. B \subseteq SUBSET S /\ B # {}
    OBVIOUS
  <2> HIDE DEF B
  <2> QED
    BY <2>1, MinimalSubset
<1>2. T \in SUBSET S /\ IsFiniteSet(T)
  BY FS_Subset
<1>3. PICK x \in T : SumFunctionOnSet(f, T) # f[x] + SumFunctionOnSet(f, T \ {x})
  OBVIOUS
<1>4. ASSUME NEW U \in SUBSET S, U \subseteq T, U # T PROVE Free(U)
  <2> U \notin B
    BY <1>1, <1>4
  <2> QED
    OBVIOUS
<1> HIDE DEF B
<1>5. PICK y \in T : SumFunctionOnSet(f, T) = f[y] + SumFunctionOnSet(f, T \ {y})
  BY <1>2, SumChosen, ChosenIn
<1>6. x # y
  BY <1>3, <1>5
<1> DEFINE both == (T \ {x}) \ {y}
<1>7. SumFunctionOnSet(f, T \ {y}) = f[x] + SumFunctionOnSet(f, both)
  <2>1. Free(T \ {y})
    BY <1>2, <1>4, <1>5
  <2>2. x \in T \ {y} /\ (T \ {y}) \ {x} = both
    BY <1>3, <1>6
  <2> HIDE DEF both
  <2> QED
    BY <2>1, <2>2
<1>8. SumFunctionOnSet(f, T \ {x}) = f[y] + SumFunctionOnSet(f, both)
  <2>1. Free(T \ {x})
    BY <1>2, <1>4, <1>3
  <2>2. y \in T \ {x}
    BY <1>5, <1>6
  <2> QED
    BY <2>1, <2>2
<1>9. SumFunctionOnSet(f, both) \in Int /\ f[x] \in Int /\ f[y] \in Int
  <2>1. IsFiniteSet(both) /\ \A z \in both : f[z] \in Int
    BY <1>2, FS_Subset
  <2> HIDE DEF both
  <2> QED
    BY <2>1, <1>2, <1>3, <1>5, SumInt
<1> HIDE DEF both
<1> QED
  BY <1>3, <1>5, <1>7, <1>8, <1>9

\* A member that is not in the set adds its value.
LEMMA SumWith ==
    ASSUME NEW f, NEW S, IsFiniteSet(S), \A z \in S : f[z] \in Int, NEW x, x \notin S, f[x] \in Int
    PROVE  SumFunctionOnSet(f, S \cup {x}) = f[x] + SumFunctionOnSet(f, S)
<1>1. IsFiniteSet(S \cup {x})
  BY FS_AddElement
<1>2. (S \cup {x}) \ {x} = S /\ x \in S \cup {x}
  OBVIOUS
<1>3. \A z \in S \cup {x} : f[z] \in Int
  OBVIOUS
<1> QED
  BY <1>1, <1>2, <1>3, SumApart

\* A sum that is smaller member by member is smaller.
LEMMA SumMonotone ==
    ASSUME NEW f, NEW g, NEW S, IsFiniteSet(S),
           \A x \in S : f[x] \in Int /\ g[x] \in Int /\ f[x] <= g[x]
    PROVE  SumFunctionOnSet(f, S) <= SumFunctionOnSet(g, S)
<1> DEFINE B == {T \in SUBSET S : ~(SumFunctionOnSet(f, T) <= SumFunctionOnSet(g, T))}
<1> SUFFICES ASSUME B # {} PROVE FALSE
  OBVIOUS
<1>1. PICK T \in B : \A U \in B : U \subseteq T => U = T
  <2>1. B \subseteq SUBSET S /\ B # {}
    OBVIOUS
  <2> HIDE DEF B
  <2> QED
    BY <2>1, MinimalSubset
<1>2. T \in SUBSET S /\ IsFiniteSet(T)
  BY FS_Subset
<1>3. ~(SumFunctionOnSet(f, T) <= SumFunctionOnSet(g, T))
  OBVIOUS
<1>4. T # {}
  BY <1>3, SumEmpty
<1>5. PICK x \in T : TRUE
  BY <1>4
<1>6. SumFunctionOnSet(f, T \ {x}) <= SumFunctionOnSet(g, T \ {x})
  BY <1>1, <1>2
<1> HIDE DEF B
<1>7. /\ SumFunctionOnSet(f, T) = f[x] + SumFunctionOnSet(f, T \ {x})
      /\ SumFunctionOnSet(g, T) = g[x] + SumFunctionOnSet(g, T \ {x})
  BY <1>2, SumApart
<1>8. SumFunctionOnSet(f, T \ {x}) \in Int /\ SumFunctionOnSet(g, T \ {x}) \in Int
  <2>1. IsFiniteSet(T \ {x})
    BY <1>2, FS_Subset
  <2> QED
    BY <2>1, <1>2, SumInt
<1>9. f[x] \in Int /\ g[x] \in Int /\ f[x] <= g[x]
  BY <1>2
<1> QED
  BY <1>3, <1>6, <1>7, <1>8, <1>9

\* Two functions that agree on the set have one sum.
LEMMA SumSame ==
    ASSUME NEW f, NEW g, NEW S, IsFiniteSet(S), \A x \in S : f[x] \in Int /\ f[x] = g[x]
    PROVE  SumFunctionOnSet(f, S) = SumFunctionOnSet(g, S)
<1>1. \A x \in S : f[x] \in Int /\ g[x] \in Int /\ f[x] <= g[x] /\ g[x] <= f[x]
  OBVIOUS
<1>2. /\ SumFunctionOnSet(f, S) <= SumFunctionOnSet(g, S)
      /\ SumFunctionOnSet(g, S) <= SumFunctionOnSet(f, S)
  BY <1>1, SumMonotone
<1>3. SumFunctionOnSet(f, S) \in Int /\ SumFunctionOnSet(g, S) \in Int
  BY <1>1, SumInt
<1> QED
  BY <1>2, <1>3

\* Two functions that agree on the set but for one member.
LEMMA SumBut ==
    ASSUME NEW f, NEW g, NEW S, IsFiniteSet(S), NEW x \in S, f[x] \in Int, g[x] \in Int,
           \A z \in S \ {x} : f[z] \in Int /\ f[z] = g[z]
    PROVE  SumFunctionOnSet(g, S) = SumFunctionOnSet(f, S) + g[x] - f[x]
<1> DEFINE T == S \ {x}
<1>1. IsFiniteSet(T)
  BY FS_Subset
<1>2. SumFunctionOnSet(f, T) = SumFunctionOnSet(g, T) /\ SumFunctionOnSet(f, T) \in Int
  <2> HIDE DEF T
  <2> QED
    BY <1>1, SumSame, SumInt DEF T
<1>3. /\ SumFunctionOnSet(f, S) = f[x] + SumFunctionOnSet(f, T)
      /\ SumFunctionOnSet(g, S) = g[x] + SumFunctionOnSet(g, T)
  <2>1. \A z \in S : f[z] \in Int /\ g[z] \in Int
    OBVIOUS
  <2> QED
    BY <2>1, SumApart
<1> QED
  BY <1>2, <1>3

\* A sum of naturals does not grow when the set gets smaller.
LEMMA SumSubset ==
    ASSUME NEW f, NEW S, IsFiniteSet(S), \A x \in S : f[x] \in Int, NEW R \in SUBSET S,
           \A x \in S \ R : f[x] >= 0
    PROVE  SumFunctionOnSet(f, R) <= SumFunctionOnSet(f, S)
<1> DEFINE B == {T \in SUBSET S : R \subseteq T /\ ~(SumFunctionOnSet(f, R) <= SumFunctionOnSet(f, T))}
<1> SUFFICES ASSUME B # {} PROVE FALSE
  OBVIOUS
<1>1. PICK T \in B : \A U \in B : U \subseteq T => U = T
  <2>1. B \subseteq SUBSET S /\ B # {}
    OBVIOUS
  <2> HIDE DEF B
  <2> QED
    BY <2>1, MinimalSubset
<1>2. T \in SUBSET S /\ IsFiniteSet(T) /\ IsFiniteSet(R) /\ R \subseteq T
  BY FS_Subset
<1>3. ~(SumFunctionOnSet(f, R) <= SumFunctionOnSet(f, T))
  OBVIOUS
<1>4. SumFunctionOnSet(f, R) \in Int
  BY <1>2, SumInt
<1>5. PICK x \in T : x \notin R
  BY <1>2, <1>3, <1>4
<1>6. SumFunctionOnSet(f, R) <= SumFunctionOnSet(f, T \ {x})
  BY <1>1, <1>2, <1>5
<1> HIDE DEF B
<1>7. SumFunctionOnSet(f, T) = f[x] + SumFunctionOnSet(f, T \ {x})
  BY <1>2, SumApart
<1>8. SumFunctionOnSet(f, T \ {x}) \in Int
  <2>1. IsFiniteSet(T \ {x})
    BY <1>2, FS_Subset
  <2> QED
    BY <2>1, <1>2, SumInt
<1>9. f[x] \in Int /\ f[x] >= 0
  BY <1>2, <1>5
<1> QED
  BY <1>3, <1>4, <1>6, <1>7, <1>8, <1>9

\* The sum of naturals is a natural.
LEMMA SumNat ==
    ASSUME NEW f, NEW S, IsFiniteSet(S), \A x \in S : f[x] \in Nat
    PROVE  SumFunctionOnSet(f, S) \in Nat
<1>1. SumFunctionOnSet(f, {}) = 0
  BY SumEmpty
<1>2. \A x \in S : f[x] \in Int /\ f[x] >= 0
  OBVIOUS
<1>3. SumFunctionOnSet(f, {}) <= SumFunctionOnSet(f, S)
  BY <1>2, SumSubset
<1>4. SumFunctionOnSet(f, S) \in Int
  BY <1>2, SumInt
<1> QED
  BY <1>1, <1>3, <1>4

\* Members that add nothing can be left out.
LEMMA SumWhere ==
    ASSUME NEW f, NEW g, NEW S, IsFiniteSet(S), NEW R \in SUBSET S,
           \A x \in R : f[x] \in Int /\ g[x] = f[x], \A x \in S \ R : g[x] = 0
    PROVE  SumFunctionOnSet(f, R) = SumFunctionOnSet(g, S)
<1> DEFINE B == {T \in SUBSET S : R \subseteq T /\ SumFunctionOnSet(f, R) # SumFunctionOnSet(g, T)}
<1> SUFFICES ASSUME B # {} PROVE FALSE
  OBVIOUS
<1>1. PICK T \in B : \A U \in B : U \subseteq T => U = T
  <2>1. B \subseteq SUBSET S /\ B # {}
    OBVIOUS
  <2> HIDE DEF B
  <2> QED
    BY <2>1, MinimalSubset
<1>2. T \in SUBSET S /\ IsFiniteSet(T) /\ IsFiniteSet(R) /\ R \subseteq T
  BY FS_Subset
<1>3. SumFunctionOnSet(f, R) # SumFunctionOnSet(g, T)
  OBVIOUS
<1>4. SumFunctionOnSet(f, R) = SumFunctionOnSet(g, R)
  BY <1>2, SumSame
<1>5. PICK x \in T : x \notin R
  BY <1>2, <1>3, <1>4
<1>6. SumFunctionOnSet(f, R) = SumFunctionOnSet(g, T \ {x})
  BY <1>1, <1>2, <1>5
<1> HIDE DEF B
<1>7. \A y \in S : g[y] \in Int
  OBVIOUS
<1>8. SumFunctionOnSet(g, T) = g[x] + SumFunctionOnSet(g, T \ {x})
  BY <1>2, <1>7, SumApart
<1>9. SumFunctionOnSet(g, T \ {x}) \in Int /\ g[x] = 0
  <2>1. IsFiniteSet(T \ {x})
    BY <1>2, FS_Subset
  <2> QED
    BY <2>1, <1>2, <1>5, <1>7, SumInt
<1> QED
  BY <1>3, <1>6, <1>8, <1>9

\* The sum of two functions.
LEMMA SumPlus ==
    ASSUME NEW f, NEW g, NEW h, NEW S, IsFiniteSet(S),
           \A x \in S : f[x] \in Int /\ g[x] \in Int /\ h[x] = f[x] + g[x]
    PROVE  SumFunctionOnSet(h, S) = SumFunctionOnSet(f, S) + SumFunctionOnSet(g, S)
<1> DEFINE B == {T \in SUBSET S :
                    SumFunctionOnSet(h, T) # SumFunctionOnSet(f, T) + SumFunctionOnSet(g, T)}
<1> SUFFICES ASSUME B # {} PROVE FALSE
  OBVIOUS
<1>1. PICK T \in B : \A U \in B : U \subseteq T => U = T
  <2>1. B \subseteq SUBSET S /\ B # {}
    OBVIOUS
  <2> HIDE DEF B
  <2> QED
    BY <2>1, MinimalSubset
<1>2. T \in SUBSET S /\ IsFiniteSet(T)
  BY FS_Subset
<1>3. SumFunctionOnSet(h, T) # SumFunctionOnSet(f, T) + SumFunctionOnSet(g, T)
  OBVIOUS
<1>4. T # {}
  <2> HIDE DEF B
  <2> SUFFICES ASSUME T = {} PROVE FALSE
    OBVIOUS
  <2>1. SumFunctionOnSet(f, T) = 0
    BY SumEmpty
  <2>2. SumFunctionOnSet(g, T) = 0
    BY SumEmpty
  <2>3. SumFunctionOnSet(h, T) = 0
    BY SumEmpty
  <2> QED
    BY <1>3, <2>1, <2>2, <2>3
<1>5. PICK x \in T : TRUE
  BY <1>4
<1>6. SumFunctionOnSet(h, T \ {x}) = SumFunctionOnSet(f, T \ {x}) + SumFunctionOnSet(g, T \ {x})
  BY <1>1, <1>2
<1> HIDE DEF B
<1>7. \A y \in T : f[y] \in Int /\ g[y] \in Int /\ h[y] \in Int
  BY <1>2
<1>8. /\ SumFunctionOnSet(f, T) = f[x] + SumFunctionOnSet(f, T \ {x})
      /\ SumFunctionOnSet(g, T) = g[x] + SumFunctionOnSet(g, T \ {x})
      /\ SumFunctionOnSet(h, T) = h[x] + SumFunctionOnSet(h, T \ {x})
  BY <1>2, <1>7, SumApart
<1>9. /\ SumFunctionOnSet(f, T \ {x}) \in Int
      /\ SumFunctionOnSet(g, T \ {x}) \in Int
  <2>1. IsFiniteSet(T \ {x})
    BY <1>2, FS_Subset
  <2> QED
    BY <2>1, <1>7, SumInt
<1>10. f[x] \in Int /\ g[x] \in Int /\ h[x] = f[x] + g[x]
  BY <1>2
<1> QED
  BY <1>3, <1>6, <1>8, <1>9, <1>10

\* The sum over two sets with no common member.
LEMMA SumDisjoint ==
    ASSUME NEW f, NEW A, NEW B, IsFiniteSet(A), IsFiniteSet(B), A \cap B = {},
           \A x \in A \cup B : f[x] \in Int
    PROVE  SumFunctionOnSet(f, A \cup B) = SumFunctionOnSet(f, A) + SumFunctionOnSet(f, B)
<1> DEFINE S == A \cup B
           g == [x \in S |-> IF x \in A THEN f[x] ELSE 0]
           h == [x \in S |-> IF x \in B THEN f[x] ELSE 0]
<1>1. IsFiniteSet(S) /\ A \in SUBSET S /\ B \in SUBSET S
  BY FS_Union
<1>2. \A x \in S : g[x] \in Int /\ h[x] \in Int /\ f[x] = g[x] + h[x]
  OBVIOUS
<1>3. /\ \A x \in A : f[x] \in Int /\ g[x] = f[x]
      /\ \A x \in S \ A : g[x] = 0
  OBVIOUS
<1>4. /\ \A x \in B : f[x] \in Int /\ h[x] = f[x]
      /\ \A x \in S \ B : h[x] = 0
  OBVIOUS
<1> HIDE DEF S, g, h
<1>5. SumFunctionOnSet(f, S) = SumFunctionOnSet(g, S) + SumFunctionOnSet(h, S)
  BY <1>1, <1>2, SumPlus
<1>6. SumFunctionOnSet(f, A) = SumFunctionOnSet(g, S)
  BY <1>1, <1>3, SumWhere
<1>7. SumFunctionOnSet(f, B) = SumFunctionOnSet(h, S)
  BY <1>1, <1>4, SumWhere
<1> QED
  BY <1>5, <1>6, <1>7 DEF S

\* The sum over the images of the members of a set, when no two have the same image.
LEMMA SumImage ==
    ASSUME NEW f, NEW g, NEW k, NEW S, IsFiniteSet(S),
           \A x, y \in S : k[x] = k[y] => x = y,
           \A x \in S : f[x] \in Int /\ g[k[x]] = f[x]
    PROVE  SumFunctionOnSet(g, {k[x] : x \in S}) = SumFunctionOnSet(f, S)
<1> DEFINE Image(T) == {k[x] : x \in T}
           B == {T \in SUBSET S : SumFunctionOnSet(g, Image(T)) # SumFunctionOnSet(f, T)}
<1> SUFFICES ASSUME B # {} PROVE FALSE
  OBVIOUS
<1>1. PICK T \in B : \A U \in B : U \subseteq T => U = T
  <2>1. B \subseteq SUBSET S /\ B # {}
    OBVIOUS
  <2> HIDE DEF B
  <2> QED
    BY <2>1, MinimalSubset
<1>2. T \in SUBSET S /\ IsFiniteSet(T)
  BY FS_Subset
<1>3. SumFunctionOnSet(g, Image(T)) # SumFunctionOnSet(f, T)
  OBVIOUS
<1>4. T # {}
  <2> SUFFICES ASSUME T = {} PROVE FALSE
    OBVIOUS
  <2>1. Image(T) = {}
    OBVIOUS
  <2> HIDE DEF Image, B
  <2>2. SumFunctionOnSet(g, {}) = 0
    BY SumEmpty
  <2>3. SumFunctionOnSet(f, {}) = 0
    BY SumEmpty
  <2> QED
    BY <1>3, <2>1, <2>2, <2>3
<1>5. PICK x \in T : TRUE
  BY <1>4
<1>6. SumFunctionOnSet(g, Image(T \ {x})) = SumFunctionOnSet(f, T \ {x})
  BY <1>1, <1>2, <1>5
<1> HIDE DEF B
<1>7. SumFunctionOnSet(f, T) = f[x] + SumFunctionOnSet(f, T \ {x})
  BY <1>2, SumApart
<1>8. Image(T) \ {k[x]} = Image(T \ {x})
  BY <1>2, <1>5
<1>9. k[x] \in Image(T) /\ \A y \in Image(T) : g[y] \in Int
  BY <1>2, <1>5
<1>10. IsFiniteSet(Image(T))
  <2> DEFINE m == [y \in T |-> k[y]]
  <2>1. Image(T) = {m[y] : y \in T}
    OBVIOUS
  <2>2. m \in [T -> Image(T)] /\ \A z \in Image(T) : \E y \in T : m[y] = z
    OBVIOUS
  <2>3. m \in Surjection(T, Image(T))
    BY <2>2 DEF Surjection
  <2> HIDE DEF m, Image
  <2> QED
    BY <2>3, <1>2, FS_Surjection
<1>11. SumFunctionOnSet(g, Image(T)) = g[k[x]] + SumFunctionOnSet(g, Image(T) \ {k[x]})
  <2> HIDE DEF Image
  <2> QED
    BY <1>9, <1>10, SumApart
<1>12. g[k[x]] = f[x]
  BY <1>2, <1>5
<1> QED
  BY <1>3, <1>6, <1>7, <1>8, <1>11, <1>12

\* The sums of zeros, and of one value.
LEMMA SumZero ==
    ASSUME NEW f, NEW S, IsFiniteSet(S), \A x \in S : f[x] = 0
    PROVE  SumFunctionOnSet(f, S) = 0
<1> DEFINE R == {}
<1>1. R \in SUBSET S /\ (\A x \in S : f[x] \in Int) /\ (\A x \in R : f[x] \in Int /\ f[x] = f[x])
      /\ (\A x \in S \ R : f[x] = 0)
  OBVIOUS
<1>2. SumFunctionOnSet(f, R) = 0
  BY SumEmpty
<1> HIDE DEF R
<1> QED
  BY <1>1, <1>2, SumWhere

LEMMA SumOne ==
    ASSUME NEW f, NEW x, f[x] \in Int
    PROVE  SumFunctionOnSet(f, {x}) = f[x]
<1> DEFINE S == {}
<1>1. IsFiniteSet(S) /\ x \notin S /\ S \cup {x} = {x} /\ \A z \in S : f[z] \in Int
  BY FS_EmptySet
<1>2. SumFunctionOnSet(f, S) = 0
  BY SumEmpty
<1> HIDE DEF S
<1>3. SumFunctionOnSet(f, S \cup {x}) = f[x] + SumFunctionOnSet(f, S)
  BY <1>1, SumWith
<1>4. f[x] + 0 = f[x]
  OBVIOUS
<1>5. SumFunctionOnSet(f, {x}) = f[x] + 0
  BY <1>1, <1>2, <1>3, Zenon
<1> QED
  BY <1>4, <1>5, Zenon
=============================================================================

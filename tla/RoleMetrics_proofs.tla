------------------------- MODULE RoleMetrics_proofs -------------------------
(***************************************************************************)
(* Proofs about the twelve metrics of a side, for any Facts, spans,        *)
(* Manifests, memberships, coordinates and minimum sample.  The metrics    *)
(* are functions of what was read, so the invariant is a small one:        *)
(* EvidenceOK, finitely many Facts and nodes of their types.  The work is  *)
(* in what the calculators return: each one lists the slices it builds,    *)
(* their keys, what they cover and what they show, and the properties      *)
(* relate them.  Sums are taken with SumFunction; the lemmas about it rest *)
(* on an induction over the subsets of a finite set, which FS_... theorems *)
(* on well-founded orderings give without a theorem over operators.        *)
(***************************************************************************)
EXTENDS RoleMetrics, FiniteSetTheorems, TLAPS

-----------------------------------------------------------------------------
(* Induction over the numbers and over the subsets of a finite set, with a *)
(* set where the library's theorems take an operator.                      *)

LEMMA SubsetInduction ==
  ASSUME NEW S, IsFiniteSet(S), NEW B \in SUBSET (SUBSET S),
         {} \in B,
         \A s \in SUBSET S : s # {} /\ (\A x \in s : s \ {x} \in B) => s \in B
  PROVE  B = SUBSET S
<1> DEFINE R == StrictSubsetOrdering(S)
           T == (SUBSET S) \ B
<1>1. SUFFICES ASSUME T # {} PROVE FALSE
  OBVIOUS
<1>2. IsWellFoundedOn(R, FiniteSubsetsOf(S))
  BY FS_StrictSubsetOrderingWellFounded
<1>3. T \subseteq FiniteSubsetsOf(S)
  BY FS_Subset DEF FiniteSubsetsOf
<1>4. PICK t \in T : \A u \in T : ~(<<u, t>> \in R)
  <2> HIDE DEF R, T
  <2>1. QED
    BY <1>1, <1>2, <1>3, WFMin
<1>5. ASSUME NEW x \in t PROVE t \ {x} \in B
  <2>1. t \ {x} \in SUBSET S /\ t \in SUBSET S
    OBVIOUS
  <2>2. <<t \ {x}, t>> \in R
    BY <2>1, <1>5 DEF StrictSubsetOrdering
  <2>3. QED
    BY <2>1, <2>2, <1>4
<1>6. QED
  BY <1>4, <1>5

LEMMA NumberInduction ==
  ASSUME NEW N \in Nat, NEW B \in SUBSET (0..N), 0 \in B,
         \A n \in B : n < N => n + 1 \in B
  PROVE  N \in B
<1> DEFINE A == {s \in SUBSET (1..N) : Cardinality(s) \in B}
<1>0. IsFiniteSet(1..N) /\ Cardinality(1..N) = N
  BY FS_Interval
<1>1. {} \in A
  BY FS_EmptySet
<1>2. ASSUME NEW s \in SUBSET (1..N), s # {}, \A x \in s : s \ {x} \in A PROVE s \in A
  <2>1. PICK x \in s : s \ {x} \in A
    BY <1>2
  <2>2. IsFiniteSet(s) /\ Cardinality(s) \in Nat /\ Cardinality(s) <= N
    BY <1>0, FS_Subset, FS_CardinalityType
  <2>3. Cardinality(s \ {x}) = Cardinality(s) - 1
    BY <2>2, FS_RemoveElement
  <2>4. QED
    BY <2>1, <2>2, <2>3
<1>3. A = SUBSET (1..N)
  <2> HIDE DEF A
  <2>1. A \in SUBSET (SUBSET (1..N))
    BY DEF A
  <2>2. QED
    BY <1>0, <1>1, <1>2, <2>1, SubsetInduction
<1>4. QED
  BY <1>0, <1>3

-----------------------------------------------------------------------------
(* Sums *)

(* partial[s] is the sum of f over the subset s of its domain S, taken in  *)
(* the order the community module takes it.                                *)
Taken(s) == CHOOSE x \in s : TRUE

LEMMA SumUnfolded ==
  ASSUME NEW f
  PROVE  SumFunction(f) =
           (CHOOSE iter : iter = [s \in SUBSET DOMAIN f |->
              IF s = {} THEN 0 ELSE f[Taken(s)] + iter[s \ {Taken(s)}]])[DOMAIN f]
BY Zenon DEF SumFunction, SumFunctionOnSet, FoldFunctionOnSet, MapThenFoldSet, Taken

(* The recursion behind a sum has a solution. *)
Totals(f, S) ==
  {total \in [SUBSET S -> Int] :
     \A s \in SUBSET S : total[s] = IF s = {} THEN 0 ELSE f[Taken(s)] + total[s \ {Taken(s)}]}

LEMMA TakenIsIn == \A s : s # {} => Taken(s) \in s
BY DEF Taken

LEMMA TotalsExist ==
  ASSUME NEW S, IsFiniteSet(S), NEW f \in [S -> Int]
  PROVE  Totals(f, S) # {}
<1> DEFINE Upto(n) == {s \in SUBSET S : Cardinality(s) <= n}
           Good(total, n) ==
             \A s \in Upto(n) : total[s] = IF s = {} THEN 0 ELSE f[Taken(s)] + total[s \ {Taken(s)}]
           B == {n \in 0..Cardinality(S) : \E total \in [SUBSET S -> Int] : Good(total, n)}
<1>1. \A s \in SUBSET S : IsFiniteSet(s) /\ Cardinality(s) \in Nat /\ Cardinality(s) <= Cardinality(S)
  BY FS_Subset, FS_CardinalityType
<1>2. Cardinality(S) \in Nat
  BY FS_CardinalityType
<1>3. 0 \in B
  <2> DEFINE total == [s \in SUBSET S |-> 0]
  <2>1. \A s \in Upto(0) : s = {}
    BY <1>1, FS_EmptySet
  <2>2. Good(total, 0)
    BY <2>1
  <2>3. total \in [SUBSET S -> Int]
    OBVIOUS
  <2>4. QED
    <3> HIDE DEF Good, total
    <3>1. QED
      BY <1>2, <2>2, <2>3
<1>4. ASSUME NEW n \in B, n < Cardinality(S) PROVE n + 1 \in B
  <2>1. PICK total \in [SUBSET S -> Int] : Good(total, n)
    BY <1>4
  <2> DEFINE next == [s \in SUBSET S |-> IF s = {} THEN 0 ELSE f[Taken(s)] + total[s \ {Taken(s)}]]
  <2>2. next \in [SUBSET S -> Int]
    <3>1. \A s \in SUBSET S : s # {} => f[Taken(s)] \in Int /\ total[s \ {Taken(s)}] \in Int
      BY TakenIsIn
    <3>2. QED
      BY <3>1
  <2>3. \A s \in Upto(n) : next[s] = total[s]
    BY <2>1
  <2>4. ASSUME NEW s \in Upto(n + 1), s # {} PROVE s \ {Taken(s)} \in Upto(n)
    <3>1. Cardinality(s \ {Taken(s)}) = Cardinality(s) - 1
      BY <2>4, <1>1, TakenIsIn, FS_RemoveElement
    <3>2. QED
      BY <3>1, <2>4, <1>1, <1>4
  <2>5. Good(next, n + 1)
    BY <2>3, <2>4
  <2>6. n + 1 \in 0..Cardinality(S)
    BY <1>4, <1>2
  <2>7. QED
    <3> HIDE DEF Good, next
    <3>1. QED
      BY <2>2, <2>5, <2>6
<1>5. Cardinality(S) \in B
  <2> HIDE DEF B
  <2>1. B \in SUBSET (0..Cardinality(S))
    BY DEF B
  <2>2. QED
    BY <1>2, <1>3, <1>4, <2>1, NumberInduction
<1>6. \A s \in SUBSET S : s \in Upto(Cardinality(S))
  BY <1>1
<1>7. PICK total \in [SUBSET S -> Int] : Good(total, Cardinality(S))
  BY <1>5
<1>8. total \in Totals(f, S)
  BY <1>6, <1>7 DEF Totals
<1>9. QED
  BY <1>8

LEMMA SolutionIsATotal ==
  ASSUME NEW S, IsFiniteSet(S), NEW f \in [S -> Int], NEW iter,
         iter = [s \in SUBSET S |-> IF s = {} THEN 0 ELSE f[Taken(s)] + iter[s \ {Taken(s)}]]
  PROVE  iter \in Totals(f, S)
<1> DEFINE B == {s \in SUBSET S : iter[s] \in Int}
<1>1. \A s \in SUBSET S : iter[s] = IF s = {} THEN 0 ELSE f[Taken(s)] + iter[s \ {Taken(s)}]
  BY Zenon
<1>2. {} \in B
  BY <1>1
<1>3. ASSUME NEW s \in SUBSET S, s # {}, \A x \in s : s \ {x} \in B PROVE s \in B
  <2>1. Taken(s) \in s
    BY <1>3, TakenIsIn
  <2>2. f[Taken(s)] \in Int /\ iter[s \ {Taken(s)}] \in Int
    BY <2>1, <1>3
  <2>3. iter[s] = f[Taken(s)] + iter[s \ {Taken(s)}]
    BY <1>1, <1>3, Zenon
  <2>4. iter[s] \in Int
    BY <2>2, <2>3
  <2>5. QED
    BY <2>4
<1>4. B = SUBSET S
  <2> HIDE DEF B
  <2>1. B \in SUBSET (SUBSET S)
    BY DEF B
  <2>2. \A s \in SUBSET S : s # {} /\ (\A x \in s : s \ {x} \in B) => s \in B
    BY <1>3
  <2>3. QED
    BY <1>2, <2>1, <2>2, SubsetInduction, Zenon
<1>5. iter = [s \in SUBSET S |-> iter[s]]
  BY Zenon
<1>6. iter \in [SUBSET S -> Int]
  BY <1>4, <1>5
<1>7. QED
  BY <1>6, <1>1 DEF Totals

(* A sum is the last of such totals. *)
LEMMA SumIsATotal ==
  ASSUME NEW S, IsFiniteSet(S), NEW f \in [S -> Int]
  PROVE  \E total \in Totals(f, S) : SumFunction(f) = total[S]
<1> DEFINE Rec(iter) == iter = [s \in SUBSET S |-> IF s = {} THEN 0 ELSE f[Taken(s)] + iter[s \ {Taken(s)}]]
           iter0 == CHOOSE iter : Rec(iter)
<1>1. DOMAIN f = S
  OBVIOUS
<1>2. PICK total \in Totals(f, S) : TRUE
  BY TotalsExist
<1>3. Rec(total)
  BY <1>2 DEF Totals
<1>4. Rec(iter0)
  <2> HIDE DEF Rec
  <2>1. QED
    BY <1>3
<1>5. iter0 \in Totals(f, S)
  <2> HIDE DEF iter0
  <2>1. QED
    BY <1>4, SolutionIsATotal
<1>6. SumFunction(f) = iter0[S]
  BY <1>1, SumUnfolded, Zenon
<1>7. QED
  BY <1>5, <1>6

(* The order in which the elements are taken does not matter. *)
Additive(f, S, total) ==
  /\ total \in [SUBSET S -> Int] /\ total[{}] = 0
  /\ \A s \in SUBSET S : \A x \in s : total[s] = f[x] + total[s \ {x}]

LEMMA TotalIsAdditive ==
  ASSUME NEW S, IsFiniteSet(S), NEW f \in [S -> Int], NEW total \in Totals(f, S)
  PROVE  Additive(f, S, total)
<1> DEFINE B == {s \in SUBSET S : \A x \in s : total[s] = f[x] + total[s \ {x}]}
<1>1. /\ total \in [SUBSET S -> Int]
      /\ \A s \in SUBSET S : total[s] = IF s = {} THEN 0 ELSE f[Taken(s)] + total[s \ {Taken(s)}]
  BY DEF Totals
<1>2. {} \in B
  OBVIOUS
<1>3. ASSUME NEW s \in SUBSET S, s # {}, \A x \in s : s \ {x} \in B PROVE s \in B
  <2> DEFINE c == Taken(s)
  <2>1. c \in s
    BY <1>3, TakenIsIn
  <2>2. total[s] = f[c] + total[s \ {c}]
    BY <1>1, <1>3
  <2> HIDE DEF c
  <2>3. ASSUME NEW x \in s PROVE total[s] = f[x] + total[s \ {x}]
    <3>1. CASE x = c
      BY <3>1, <2>2
    <3>2. CASE x # c
      <4>1. total[s \ {c}] = f[x] + total[(s \ {c}) \ {x}]
        BY <3>2, <1>3, <2>1
      <4>2. total[s \ {x}] = f[c] + total[(s \ {x}) \ {c}]
        BY <3>2, <1>3, <2>1
      <4>3. (s \ {c}) \ {x} = (s \ {x}) \ {c}
        OBVIOUS
      <4>4. f[c] \in Int /\ f[x] \in Int /\ total[(s \ {x}) \ {c}] \in Int
        BY <1>1, <2>1
      <4>5. total[s] = f[c] + (f[x] + total[(s \ {x}) \ {c}])
        BY <2>2, <4>1, <4>3, Zenon
      <4>6. f[c] + (f[x] + total[(s \ {x}) \ {c}]) = f[x] + (f[c] + total[(s \ {x}) \ {c}])
        BY <4>4
      <4>7. QED
        BY <4>2, <4>5, <4>6, Zenon
    <3>3. QED
      BY <3>1, <3>2
  <2>4. QED
    BY <2>3
<1>4. B = SUBSET S
  <2> HIDE DEF B
  <2>1. B \in SUBSET (SUBSET S)
    BY DEF B
  <2>2. QED
    BY <1>2, <1>3, <2>1, SubsetInduction
<1>5. total[{}] = 0
  BY <1>1
<1>6. QED
  BY <1>1, <1>4, <1>5 DEF Additive

(* SumFunction of f is what totals of the subsets of its domain, each one  *)
(* element more than a smaller one whichever is taken, give for the whole. *)
LEMMA SumIsAdditive ==
  ASSUME NEW S, IsFiniteSet(S), NEW f \in [S -> Int]
  PROVE  \E total : Additive(f, S, total) /\ SumFunction(f) = total[S]
BY SumIsATotal, TotalIsAdditive

(* A sum is a number, that of nothing is zero. *)
LEMMA SumType ==
  ASSUME NEW S, IsFiniteSet(S), NEW f \in [S -> Int]
  PROVE  /\ SumFunction(f) \in Int
         /\ S = {} => SumFunction(f) = 0
<1>1. PICK total : Additive(f, S, total) /\ SumFunction(f) = total[S]
  BY SumIsAdditive
<1>2. total \in [SUBSET S -> Int] /\ total[{}] = 0
  BY <1>1 DEF Additive
<1>3. QED
  BY <1>1, <1>2

(* No summand is negative: nor is the sum. *)
LEMMA SumOfNaturals ==
  ASSUME NEW S, IsFiniteSet(S), NEW f \in [S -> Nat]
  PROVE  SumFunction(f) \in Nat
<1>0. f \in [S -> Int]
  OBVIOUS
<1>1. PICK total : Additive(f, S, total) /\ SumFunction(f) = total[S]
  BY <1>0, SumIsAdditive
<1>2. /\ total \in [SUBSET S -> Int] /\ total[{}] = 0
      /\ \A s \in SUBSET S : \A x \in s : total[s] = f[x] + total[s \ {x}]
  BY <1>1 DEF Additive
<1> DEFINE B == {s \in SUBSET S : total[s] \in Nat}
<1>3. {} \in B
  BY <1>2
<1>4. ASSUME NEW s \in SUBSET S, s # {}, \A x \in s : s \ {x} \in B PROVE s \in B
  <2>1. PICK x \in s : TRUE
    BY <1>4
  <2>2. total[s] = f[x] + total[s \ {x}] /\ total[s \ {x}] \in Nat /\ f[x] \in Nat
    BY <1>2, <1>4
  <2>3. QED
    BY <2>2
<1>5. B = SUBSET S
  <2> HIDE DEF B
  <2>1. B \in SUBSET (SUBSET S)
    BY DEF B
  <2>2. QED
    BY <1>3, <1>4, <2>1, SubsetInduction
<1>6. QED
  BY <1>1, <1>5

(* Summands that correspond one to one have the same sum. *)
LEMMA SumAlongBijection ==
  ASSUME NEW S, IsFiniteSet(S), NEW f \in [S -> Int],
         NEW T, IsFiniteSet(T), NEW g \in [T -> Int],
         NEW b \in [S -> T], \A x, y \in S : b[x] = b[y] => x = y,
         \A y \in T : \E x \in S : b[x] = y,
         \A x \in S : f[x] = g[b[x]]
  PROVE  SumFunction(f) = SumFunction(g)
<1> DEFINE Image(s) == {b[x] : x \in s}
<1>1. PICK tf : Additive(f, S, tf) /\ SumFunction(f) = tf[S]
  BY SumIsAdditive
<1>2. PICK tg : Additive(g, T, tg) /\ SumFunction(g) = tg[T]
  BY SumIsAdditive
<1>3. /\ tf \in [SUBSET S -> Int] /\ tf[{}] = 0
      /\ \A s \in SUBSET S : \A x \in s : tf[s] = f[x] + tf[s \ {x}]
  BY <1>1 DEF Additive
<1>4. /\ tg \in [SUBSET T -> Int] /\ tg[{}] = 0
      /\ \A s \in SUBSET T : \A x \in s : tg[s] = g[x] + tg[s \ {x}]
  BY <1>2 DEF Additive
<1> DEFINE B == {s \in SUBSET S : tf[s] = tg[Image(s)]}
<1>5. {} \in B
  <2>1. Image({}) = {}
    OBVIOUS
  <2>2. QED
    BY <2>1, <1>3, <1>4
<1>6. ASSUME NEW s \in SUBSET S, s # {}, \A x \in s : s \ {x} \in B PROVE s \in B
  <2>1. PICK x \in s : TRUE
    BY <1>6
  <2>2. Image(s \ {x}) = Image(s) \ {b[x]}
    OBVIOUS
  <2>3. Image(s) \in SUBSET T /\ b[x] \in Image(s)
    OBVIOUS
  <2>4. tf[s] = f[x] + tf[s \ {x}]
    BY <1>3
  <2>5. tg[Image(s)] = g[b[x]] + tg[Image(s) \ {b[x]}]
    BY <1>4, <2>3
  <2>6. tf[s \ {x}] = tg[Image(s \ {x})]
    BY <1>6
  <2>7. f[x] = g[b[x]]
    OBVIOUS
  <2>8. QED
    <3> HIDE DEF Image
    <3>1. QED
      BY <2>2, <2>4, <2>5, <2>6, <2>7
<1>7. B = SUBSET S
  <2> HIDE DEF B
  <2>1. B \in SUBSET (SUBSET S)
    BY DEF B
  <2>2. \A s \in SUBSET S : s # {} /\ (\A x \in s : s \ {x} \in B) => s \in B
    BY <1>6
  <2>3. QED
    BY <1>5, <2>1, <2>2, SubsetInduction, Zenon
<1>8. Image(S) = T
  OBVIOUS
<1>9. QED
  BY <1>1, <1>2, <1>7, <1>8

(* A set is as large as the parts that g splits it into. *)
LEMMA SumOfParts ==
  ASSUME NEW S, IsFiniteSet(S), NEW T, IsFiniteSet(T), NEW g \in [S -> T],
         NEW h, h = [t \in T |-> Cardinality({x \in S : g[x] = t})]
  PROVE  SumFunction(h) = Cardinality(S)
<1> DEFINE Part(u) == {x \in S : g[x] \in u}
<1>1. \A u : IsFiniteSet(Part(u)) /\ Cardinality(Part(u)) \in Nat
  <2>1. \A u : Part(u) \in SUBSET S
    OBVIOUS
  <2>2. QED
    <3> HIDE DEF Part
    <3>1. QED
      BY <2>1, FS_Subset, FS_CardinalityType
<1>2. \A t \in T : h[t] = Cardinality(Part({t}))
  <2>1. \A t \in T : Part({t}) = {x \in S : g[x] = t}
    OBVIOUS
  <2>2. QED
    <3> HIDE DEF Part
    <3>1. QED
      BY <2>1
<1>3. h \in [T -> Int]
  <2>1. DOMAIN h = T /\ h = [t \in T |-> h[t]]
    OBVIOUS
  <2>2. QED
    <3> HIDE DEF Part
    <3>1. \A t \in T : h[t] \in Int
      <4> TAKE t \in T
      <4>1. h[t] = Cardinality(Part({t})) /\ Cardinality(Part({t})) \in Nat
        BY <1>1, <1>2, Zenon
      <4>2. QED
        BY <4>1
    <3>2. QED
      BY <2>1, <3>1
<1>4. PICK total : Additive(h, T, total) /\ SumFunction(h) = total[T]
  BY <1>3, SumIsAdditive
<1>5. /\ total \in [SUBSET T -> Int] /\ total[{}] = 0
      /\ \A u \in SUBSET T : \A t \in u : total[u] = h[t] + total[u \ {t}]
  BY <1>4 DEF Additive
<1> DEFINE B == {u \in SUBSET T : total[u] = Cardinality(Part(u))}
<1>6. {} \in B
  <2>1. Part({}) = {}
    OBVIOUS
  <2>2. QED
    BY <2>1, <1>5, FS_EmptySet
<1>7. ASSUME NEW u \in SUBSET T, u # {}, \A t \in u : u \ {t} \in B PROVE u \in B
  <2>1. PICK t \in u : TRUE
    BY <1>7
  <2>2. Part(u) = Part(u \ {t}) \union Part({t}) /\ Part(u \ {t}) \cap Part({t}) = {}
    OBVIOUS
  <2>3. total[u \ {t}] = Cardinality(Part(u \ {t}))
    BY <1>7
  <2> HIDE DEF Part
  <2>4. Cardinality(Part(u)) = Cardinality(Part(u \ {t})) + Cardinality(Part({t}))
    <3>1. /\ IsFiniteSet(Part(u \ {t})) /\ IsFiniteSet(Part({t}))
          /\ Cardinality(Part(u \ {t})) \in Nat /\ Cardinality(Part({t})) \in Nat
      BY <1>1, Zenon
    <3>2. Cardinality(Part(u \ {t}) \union Part({t}))
            = Cardinality(Part(u \ {t})) + Cardinality(Part({t})) - Cardinality(Part(u \ {t}) \cap Part({t}))
      BY <3>1, FS_Union, Zenon
    <3>3. Cardinality(Part(u \ {t}) \cap Part({t})) = 0 /\ Cardinality(Part(u)) = Cardinality(Part(u \ {t}) \union Part({t}))
      BY <2>2, FS_EmptySet, Zenon
    <3>4. QED
      BY <3>1, <3>2, <3>3
  <2>5. total[u] = h[t] + total[u \ {t}] /\ h[t] = Cardinality(Part({t}))
    BY <1>5, <1>2
  <2>6. QED
    BY <1>1, <2>3, <2>4, <2>5
<1>8. B = SUBSET T
  <2> HIDE DEF B
  <2>1. B \in SUBSET (SUBSET T)
    BY DEF B
  <2>2. QED
    BY <1>6, <1>7, <2>1, SubsetInduction
<1>9. Part(T) = S
  OBVIOUS
<1>10. QED
  BY <1>4, <1>8, <1>9

-----------------------------------------------------------------------------
(* Finite sets *)

(* The image of a finite set is finite and no larger. *)
LEMMA ImageIsSmaller ==
  ASSUME NEW S, IsFiniteSet(S), NEW f, f = [x \in S |-> f[x]]
  PROVE  /\ IsFiniteSet({f[x] : x \in S})
         /\ Cardinality({f[x] : x \in S}) \in Nat
         /\ Cardinality({f[x] : x \in S}) <= Cardinality(S)
<1> DEFINE T == {f[x] : x \in S}
<1>1. f \in Surjection(S, T)
  BY DEF Surjection
<1>2. QED
  <2> HIDE DEF T
  <2>1. IsFiniteSet(T) /\ Cardinality(T) <= Cardinality(S)
    BY <1>1, FS_Surjection
  <2>2. Cardinality(T) \in Nat
    BY <2>1, FS_CardinalityType
  <2>3. QED
    BY <2>1, <2>2 DEF T

LEMMA OneElement ==
  ASSUME NEW S, IsFiniteSet(S), Cardinality(S) <= 1, NEW x \in S, NEW y \in S
  PROVE  x = y
<1>1. SUFFICES ASSUME x # y PROVE FALSE
  OBVIOUS
<1>2. {x, y} \in SUBSET S
  OBVIOUS
<1>3. Cardinality({x} \union {y}) = 2
  <2>1. IsFiniteSet({x}) /\ Cardinality({x}) = 1
    BY FS_Singleton
  <2>2. Cardinality({x} \union {y}) = Cardinality({x}) + 1
    BY <1>1, <2>1, FS_AddElement
  <2>3. QED
    BY <2>1, <2>2
<1>4. {x} \union {y} = {x, y}
  OBVIOUS
<1>5. Cardinality({x, y}) <= Cardinality(S) /\ Cardinality(S) \in Nat
  BY <1>2, FS_Subset, FS_CardinalityType
<1>6. QED
  BY <1>3, <1>4, <1>5

(* Smaller sets have smaller cardinalities, both numbers. *)
LEMMA SubsetIsSmaller ==
  ASSUME NEW S, IsFiniteSet(S), NEW T \in SUBSET S
  PROVE  /\ IsFiniteSet(T) /\ Cardinality(T) \in Nat /\ Cardinality(S) \in Nat
         /\ Cardinality(T) <= Cardinality(S)
BY FS_Subset, FS_CardinalityType

-----------------------------------------------------------------------------
(* What a side has read is finite, and of the kinds the sources can give.  *)
EvidenceOK ==
  /\ facts \subseteq Facts /\ IsFiniteSet(facts)
  /\ nodes \subseteq Nodes /\ IsFiniteSet(nodes)

LEMMA EvidenceStaysOK == RoleSpec => []EvidenceOK
<1>1. RoleInit => EvidenceOK
  BY FS_EmptySet DEF RoleInit, Init, CallsInit, EvidenceOK
<1>2. EvidenceOK /\ [RoleNext]_evidence => EvidenceOK'
  <2> SUFFICES ASSUME EvidenceOK, [RoleNext]_evidence PROVE EvidenceOK'
    OBVIOUS
  <2>1. CASE RoleNext
    <3>1. CASE Next /\ UNCHANGED nodes
      <4>1. PICK fact \in Facts : facts' = facts \union {fact}
        BY <3>1 DEF Next, ReadFact
      <4>2. IsFiniteSet(facts \union {fact})
        BY FS_AddElement DEF EvidenceOK
      <4>3. QED
        BY <3>1, <4>1, <4>2 DEF EvidenceOK
    <3>2. CASE CallsNext /\ UNCHANGED facts
      <4>1. PICK n \in Nodes : nodes' = nodes \union {n}
        BY <3>2 DEF CallsNext, ReadNode
      <4>2. IsFiniteSet(nodes \union {n})
        BY FS_AddElement DEF EvidenceOK
      <4>3. QED
        BY <3>2, <4>1, <4>2 DEF EvidenceOK
    <3>3. QED
      BY <2>1, <3>1, <3>2 DEF RoleNext
  <2>2. CASE UNCHANGED evidence
    BY <2>2 DEF EvidenceOK, evidence
  <2>3. QED
    BY <2>1, <2>2
<1>3. QED
  BY <1>1, <1>2, PTL DEF RoleSpec

(* Evidence is only added. *)
LEMMA EvidenceGrows ==
  ASSUME [RoleNext]_evidence
  PROVE  facts \subseteq facts' /\ nodes \subseteq nodes'
BY DEF RoleNext, evidence, Next, ReadFact, CallsNext, ReadNode

LEMMA FactsAreTyped ==
  ASSUME EvidenceOK
  PROVE  \A fact \in facts : fact \in Fact
BY DeliveryAssumption DEF EvidenceOK

-----------------------------------------------------------------------------
(* Repairs *)

(* A repair that was observed stays observed, and a Delivery with fixes    *)
(* does not become clean (_repair_reading), whatever is read afterwards.   *)
THEOREM RepairsAreNotForgottenHolds == RoleSpec => RepairsAreNotForgotten
<1> DEFINE Remembered ==
      \A d \in Deliveries : /\ RepairReading(d) = TRUE => RepairReading(d)' = TRUE
                            /\ RepairReading(d) = None => RepairReading(d)' # FALSE
<1>1. [RoleNext]_evidence => Remembered
  <2> SUFFICES ASSUME [RoleNext]_evidence, NEW d \in Deliveries
               PROVE  /\ RepairReading(d) = TRUE => RepairReading(d)' = TRUE
                      /\ RepairReading(d) = None => RepairReading(d)' # FALSE
    OBVIOUS
  <2>1. Fixes(d) \subseteq Fixes(d)'
    BY EvidenceGrows DEF Fixes
  <2>2. RepairReading(d) = TRUE => \E fix \in Fixes(d) : fix.available /\ fix.relates
    BY NoneAssumption DEF RepairReading
  <2>3. RepairReading(d) = None => Fixes(d) # {}
    BY NoneAssumption DEF RepairReading
  <2>4. (\E fix \in Fixes(d)' : fix.available /\ fix.relates) => RepairReading(d)' = TRUE
    BY DEF RepairReading
  <2>5. Fixes(d)' # {} => RepairReading(d)' # FALSE
    BY NoneAssumption DEF RepairReading
  <2>6. QED
    BY <2>1, <2>2, <2>3, <2>4, <2>5
<1>2. QED
  BY <1>1, PTL DEF RoleSpec, RepairsAreNotForgotten

-----------------------------------------------------------------------------
(* What a Fact changes: only summaries and Usage that count are looked at. *)

(* The calculators look at Facts through the summaries and Usage alone. *)
LEMMA SummariesDecide ==
  ASSUME \A d \in Deliveries : Summaries(d)' = Summaries(d), Usage' = Usage
  PROVE  UNCHANGED <<TerminalOutcomeRate, StageReach, CycleTime, PartialCost, Eligibility>>
<1>1. \A d \in Deliveries : \A field : Named(d, field)' = Named(d, field)
  BY DEF Named
<1>2. \A d \in Deliveries : Outcome(d)' = Outcome(d) /\ Elapsed(d)' = Elapsed(d)
  BY <1>1 DEF Outcome, Elapsed
<1>3. Terminal' = Terminal /\ Terminal \subseteq Deliveries
  BY <1>2 DEF Terminal
<1>4. TerminalOutcomeRate' = TerminalOutcomeRate
  <2>1. [d \in Terminal |-> {Outcome(d)}]' = [d \in Terminal |-> {Outcome(d)}]
    BY <1>2, <1>3
  <2>2. QED
    BY <2>1 DEF TerminalOutcomeRate
<1>5. StageReach' = StageReach
  <2>1. {d \in Terminal : Staged(d)}' = {d \in Terminal : Staged(d)}
    BY <1>1, <1>3 DEF Staged
  <2>2. [d \in {d \in Terminal : Staged(d)} |-> Named(d, "stage")]'
          = [d \in {d \in Terminal : Staged(d)} |-> Named(d, "stage")]
    BY <1>1, <1>3, <2>1
  <2>3. QED
    BY <1>3, <2>2 DEF StageReach
<1>6. CycleTime' = CycleTime
  <2> DEFINE covered == {d \in Terminal : Elapsed(d) # None}
  <2>1. covered' = covered
    BY <1>2, <1>3
  <2>2. [d \in covered |-> Elapsed(d)]' = [d \in covered |-> Elapsed(d)]
    BY <1>2, <1>3, <2>1
  <2>3. QED
    BY <1>3, <2>1, <2>2 DEF CycleTime
<1>7. PartialCost' = PartialCost
  BY DEF PartialCost, CostCoordinates, CostSlice
<1>8. Eligibility' = Eligibility
  <2>1. \A t \in Tasks : Classification(t)' = Classification(t)
    <3> SUFFICES ASSUME NEW t \in Tasks PROVE Classification(t)' = Classification(t)
      OBVIOUS
    <3>1. Memberships[t] \subseteq Deliveries
      BY DeliveryAssumption
    <3>2. {Outcome(d) : d \in Memberships[t]}' = {Outcome(d) : d \in Memberships[t]}
      BY <1>2, <3>1
    <3>3. QED
      BY <3>2 DEF Classification
  <2>2. \A class : Classified(class)' = Classified(class)
    BY <2>1 DEF Classified
  <2>3. QED
    BY <2>2 DEF Eligibility
<1>9. QED
  BY <1>4, <1>5, <1>6, <1>7, <1>8

(* A Fact of an active Delivery that is provisional or unavailable changes *)
(* no result of the Delivery and Task calculators: normalize_delivery and  *)
(* normalize_reported_usage drop it.  An expired Fact is not among these:  *)
(* its Delivery is set aside before (SideCompute), and is not active.      *)
THEOREM ProvisionalFactsChangeNothingHolds == RoleSpec => ProvisionalFactsChangeNothing
<1> DEFINE Provisional == \A fact \in facts' \ facts :
                 ~fact.available \/ fact.completeness \notin {"FINAL", "LOWER_BOUND"}
<1>1. [RoleNext]_evidence /\ Provisional =>
        UNCHANGED <<TerminalOutcomeRate, StageReach, CycleTime, PartialCost, Eligibility>>
  <2> SUFFICES ASSUME [RoleNext]_evidence, Provisional
               PROVE  UNCHANGED <<TerminalOutcomeRate, StageReach, CycleTime, PartialCost, Eligibility>>
    OBVIOUS
  <2>1. facts \subseteq facts'
    BY EvidenceGrows
  <2>2. \A d \in Deliveries : Summaries(d)' = Summaries(d)
    BY <2>1 DEF Summaries
  <2>3. Usage' = Usage
    BY <2>1 DEF Usage
  <2>4. QED
    BY <2>2, <2>3, SummariesDecide
<1>2. QED
  BY <1>1, PTL DEF RoleSpec, ProvisionalFactsChangeNothing

-----------------------------------------------------------------------------
(* Readings of a Delivery *)

LEMMA SummariesAreFinite == EvidenceOK => \A d : IsFiniteSet(Summaries(d))
<1>1. \A d : Summaries(d) \in SUBSET facts
  BY DEF Summaries
<1>2. QED
  BY <1>1, FS_Subset DEF EvidenceOK

LEMMA NamedIsFinite == EvidenceOK => \A d, field : IsFiniteSet(Named(d, field))
<1> SUFFICES ASSUME EvidenceOK, NEW d, NEW field PROVE IsFiniteSet(Named(d, field))
  OBVIOUS
<1> DEFINE f == [fact \in Summaries(d) |-> fact[field]]
           T == {f[fact] : fact \in Summaries(d)}
<1>1. IsFiniteSet(T)
  <2>1. f = [fact \in Summaries(d) |-> f[fact]]
    OBVIOUS
  <2> HIDE DEF f
  <2>2. QED
    BY <2>1, SummariesAreFinite, ImageIsSmaller
<1>2. Named(d, field) \in SUBSET T
  BY DEF Named
<1>3. QED
  <2> HIDE DEF T
  <2>1. QED
    BY <1>1, <1>2, FS_Subset

(* Without a conflict a Delivery has at most one outcome and one time. *)
LEMMA NamedIsOne ==
  EvidenceOK /\ ~Conflict =>
    \A d \in Deliveries : \A field \in {"outcome", "elapsed"} :
      \A v \in Named(d, field) : One(Named(d, field)) = v /\ v # None
<1> SUFFICES ASSUME EvidenceOK, ~Conflict, NEW d \in Deliveries,
                    NEW field \in {"outcome", "elapsed"}, NEW v \in Named(d, field)
             PROVE  One(Named(d, field)) = v /\ v # None
  OBVIOUS
<1>1. IsFiniteSet(Named(d, field))
  BY NamedIsFinite
<1>2. Cardinality(Named(d, field)) <= 1
  <2>1. Cardinality(Named(d, field)) \in Nat
    BY <1>1, FS_CardinalityType
  <2>2. ~(Cardinality(Named(d, field)) > 1)
    BY DEF Conflict
  <2>3. QED
    BY <2>1, <2>2
<1>3. \A w \in Named(d, field) : w = v
  BY <1>1, <1>2, OneElement
<1>4. v # None
  BY DEF Named
<1>5. QED
  <2>1. One(Named(d, field)) \in Named(d, field)
    BY DEF One
  <2>2. QED
    BY <1>3, <1>4, <2>1

LEMMA OutcomeIsNamed ==
  EvidenceOK /\ ~Conflict =>
    \A d \in Deliveries :
      /\ \A v \in Named(d, "outcome") : Outcome(d) = v
      /\ \A v \in Named(d, "elapsed") : Elapsed(d) = v
      /\ Outcome(d) # None <=> Named(d, "outcome") # {}
      /\ Elapsed(d) # None <=> Named(d, "elapsed") # {}
<1> SUFFICES ASSUME EvidenceOK, ~Conflict, NEW d \in Deliveries
             PROVE  /\ \A v \in Named(d, "outcome") : Outcome(d) = v
                    /\ \A v \in Named(d, "elapsed") : Elapsed(d) = v
                    /\ Outcome(d) # None <=> Named(d, "outcome") # {}
                    /\ Elapsed(d) # None <=> Named(d, "elapsed") # {}
  OBVIOUS
<1>1. /\ \A v \in Named(d, "outcome") : Outcome(d) = v /\ v # None
      /\ \A v \in Named(d, "elapsed") : Elapsed(d) = v /\ v # None
  BY NamedIsOne DEF Outcome, Elapsed
<1>2. /\ Named(d, "outcome") = {} => Outcome(d) = None
      /\ Named(d, "elapsed") = {} => Elapsed(d) = None
  BY DEF Outcome, Elapsed, One
<1>3. QED
  BY <1>1, <1>2

(* The types of what is read. *)
LEMMA ReadingsAreTyped ==
  EvidenceOK /\ ~Conflict =>
    \A d \in Deliveries : /\ Outcome(d) \in STRING \union {None}
                          /\ Elapsed(d) \in Nat \union {None}
                          /\ Named(d, "stage") \subseteq STRING
<1> SUFFICES ASSUME EvidenceOK, ~Conflict, NEW d \in Deliveries
             PROVE  /\ Outcome(d) \in STRING \union {None}
                    /\ Elapsed(d) \in Nat \union {None}
                    /\ Named(d, "stage") \subseteq STRING
  OBVIOUS
<1>1. \A fact \in Summaries(d) : /\ fact["outcome"] \in STRING \union {None}
                                 /\ fact["elapsed"] \in Nat \union {None}
                                 /\ fact["stage"] \in STRING \union {None}
  BY FactsAreTyped DEF Summaries, Fact
<1>2. /\ Named(d, "outcome") \subseteq STRING /\ Named(d, "elapsed") \subseteq Nat
      /\ Named(d, "stage") \subseteq STRING
  BY <1>1 DEF Named
<1>3. QED
  BY <1>2, OutcomeIsNamed

LEMMA TerminalIsFinite ==
  Terminal \in SUBSET Deliveries /\ IsFiniteSet(Terminal)
<1>1. Terminal \in SUBSET Deliveries
  BY DEF Terminal
<1>2. QED
  BY <1>1, FS_Subset, DeliveryAssumption

-----------------------------------------------------------------------------
(* What a slice shows *)

(* A pair of counts, and a single number, is a value. *)
LEMMA NumbersAreValues ==
  /\ \A a, b \in Int : <<a, b>> # None
  /\ \A a \in Int : <<a>> # None
<1>1. None \notin Seq(Int)
  BY NoneAssumption
<1>2. \A a, b \in Int : <<a, b>> \in Seq(Int)
  OBVIOUS
<1>3. \A a \in Int : <<a>> \in Seq(Int)
  OBVIOUS
<1>4. QED
  BY <1>1, <1>2, <1>3, Zenon

(* The Usage behind the cost of a coordinate, and its Deliveries. *)
CostGroup(coordinate) == {fact \in Usage : fact.money /\ fact.coordinate = coordinate}
CostCovered(coordinate) == {fact.delivery : fact \in CostGroup(coordinate)}

LEMMA CostGroupIsFinite ==
  EvidenceOK => \A c : /\ IsFiniteSet(CostGroup(c)) /\ IsFiniteSet(CostCovered(c))
                       /\ CostCovered(c) \in SUBSET Deliveries
                       /\ [fact \in CostGroup(c) |-> fact.value] \in [CostGroup(c) -> Int]
<1> SUFFICES ASSUME EvidenceOK, NEW c
             PROVE  /\ IsFiniteSet(CostGroup(c)) /\ IsFiniteSet(CostCovered(c))
                    /\ CostCovered(c) \in SUBSET Deliveries
                    /\ [fact \in CostGroup(c) |-> fact.value] \in [CostGroup(c) -> Int]
  OBVIOUS
<1>1. CostGroup(c) \in SUBSET facts
  BY DEF CostGroup, Usage
<1>2. IsFiniteSet(CostGroup(c))
  BY <1>1, FS_Subset DEF EvidenceOK
<1>3. \A fact \in CostGroup(c) : fact.value \in Int /\ fact.delivery \in Deliveries
  BY <1>1, FactsAreTyped DEF Fact
<1>4. CostCovered(c) \in SUBSET Deliveries
  BY <1>3 DEF CostCovered
<1>5. IsFiniteSet(CostCovered(c))
  BY <1>4, FS_Subset, DeliveryAssumption
<1>6. QED
  BY <1>2, <1>3, <1>4, <1>5

LEMMA CostSliceShows ==
  EvidenceOK => \A c : /\ CostSlice(c).key = <<c>>
                       /\ CostSlice(c).value # None <=> SampleSuffices(CostCovered(c))
<1> SUFFICES ASSUME EvidenceOK, NEW c
             PROVE  /\ CostSlice(c).key = <<c>>
                    /\ CostSlice(c).value # None <=> SampleSuffices(CostCovered(c))
  OBVIOUS
<1> DEFINE sum == SumFunction([fact \in CostGroup(c) |-> fact.value])
<1>1. sum \in Int
  BY CostGroupIsFinite, SumType
<1>2. CostSlice(c).key = <<c>>
  BY DEF CostSlice, Slice
<1>3. CostSlice(c).value = IF SampleSuffices(CostCovered(c)) THEN <<sum>> ELSE None
  BY DEF CostSlice, Slice, CostGroup, CostCovered
<1> HIDE DEF sum
<1>4. <<sum>> # None
  BY <1>1, NumbersAreValues
<1>5. QED
  BY <1>2, <1>3, <1>4 DEF SampleSuffices

LEMMA TerminalOutcomesShow ==
  /\ \A s \in TerminalOutcomeRate : s.value # None =>
       \E d \in Terminal : s.key = <<Outcome(d)>>
  /\ \A d \in Terminal : \E s \in TerminalOutcomeRate : s.key = <<Outcome(d)>> /\ s.value # None
<1> DEFINE keysOf == [d \in Terminal |-> {Outcome(d)}]
           share(key) == Slice(<<key>>, "AVAILABLE",
              <<Cardinality({d \in Terminal : key \in keysOf[d]}), Cardinality(Terminal)>>,
              "MISSING_INPUT", Terminal, Deliveries)
<1>1. DOMAIN keysOf = Terminal
  OBVIOUS
<1>2. CASE Terminal = {}
  <2>1. TerminalOutcomeRate = Unavailable(Covering({}, Deliveries))
    BY <1>1, <1>2 DEF TerminalOutcomeRate, Shares
  <2>2. QED
    BY <1>2, <2>1 DEF Unavailable
<1>3. CASE Terminal # {}
  <2>1. TerminalOutcomeRate = {share(key) : key \in UNION Range(keysOf)}
    BY <1>1, <1>3 DEF TerminalOutcomeRate, Shares
  <2>2. UNION Range(keysOf) = {Outcome(d) : d \in Terminal}
    BY DEF Range
  <2>3. \A key : share(key).key = <<key>> /\ share(key).value # None
    <3> TAKE key
    <3>1. {d \in Terminal : key \in keysOf[d]} \in SUBSET Terminal
      OBVIOUS
    <3>2. Cardinality({d \in Terminal : key \in keysOf[d]}) \in Int /\ Cardinality(Terminal) \in Int
      <4> DEFINE holding == {d \in Terminal : key \in keysOf[d]}
      <4> HIDE DEF keysOf, holding
      <4>1. Cardinality(holding) \in Nat /\ Cardinality(Terminal) \in Nat
        BY <3>1, TerminalIsFinite, SubsetIsSmaller DEF holding
      <4>2. QED
        BY <4>1 DEF holding
    <3>3. <<Cardinality({d \in Terminal : key \in keysOf[d]}), Cardinality(Terminal)>> # None
      BY <3>2, NumbersAreValues
    <3>4. QED
      <4> HIDE DEF keysOf
      <4>1. QED
        BY <3>3 DEF Slice
  <2>4. QED
    <3> HIDE DEF share, keysOf
    <3>1. QED
      BY <2>1, <2>2, <2>3
<1>4. QED
  BY <1>2, <1>3

TimedDeliveries == {d \in Terminal : Elapsed(d) # None}

LEMMA TimesAreNumbers ==
  EvidenceOK /\ ~Conflict =>
    /\ IsFiniteSet(TimedDeliveries) /\ Cardinality(TimedDeliveries) \in Nat
    /\ TimedDeliveries \in SUBSET Terminal
    /\ [d \in TimedDeliveries |-> Elapsed(d)] \in [TimedDeliveries -> Nat]
<1> SUFFICES ASSUME EvidenceOK, ~Conflict
             PROVE  /\ IsFiniteSet(TimedDeliveries) /\ Cardinality(TimedDeliveries) \in Nat
                    /\ TimedDeliveries \in SUBSET Terminal
                    /\ [d \in TimedDeliveries |-> Elapsed(d)] \in [TimedDeliveries -> Nat]
  OBVIOUS
<1>1. TimedDeliveries \in SUBSET Terminal
  BY DEF TimedDeliveries
<1>2. IsFiniteSet(TimedDeliveries) /\ Cardinality(TimedDeliveries) \in Nat
  BY <1>1, TerminalIsFinite, SubsetIsSmaller
<1>3. \A d \in TimedDeliveries : Elapsed(d) \in Nat
  BY ReadingsAreTyped, TerminalIsFinite DEF TimedDeliveries
<1>4. QED
  BY <1>1, <1>2, <1>3

LEMMA CycleTimeShows ==
  EvidenceOK /\ ~Conflict =>
    /\ \A s \in CycleTime : s.value # None => TimedDeliveries # {}
    /\ TimedDeliveries # {} => \A s \in CycleTime : s.value # None
<1> SUFFICES ASSUME EvidenceOK, ~Conflict
             PROVE  /\ \A s \in CycleTime : s.value # None => TimedDeliveries # {}
                    /\ TimedDeliveries # {} => \A s \in CycleTime : s.value # None
  OBVIOUS
<1> DEFINE sum == SumFunction([d \in TimedDeliveries |-> Elapsed(d)])
<1>1. CASE TimedDeliveries = {}
  <2>1. CycleTime = Unavailable(Covering({}, Terminal))
    BY <1>1 DEF CycleTime, TimedDeliveries
  <2>2. QED
    BY <2>1, <1>1 DEF Unavailable
<1>2. CASE TimedDeliveries # {}
  <2>1. CycleTime = {Slice(Scalar, "AVAILABLE", <<sum, Cardinality(TimedDeliveries)>>,
                           "MISSING_INPUT", TimedDeliveries, Terminal)}
    BY <1>2 DEF CycleTime, TimedDeliveries
  <2>2. sum \in Nat
    BY TimesAreNumbers, SumOfNaturals
  <2> HIDE DEF sum
  <2>3. <<sum, Cardinality(TimedDeliveries)>> # None
    BY <2>2, TimesAreNumbers, NumbersAreValues
  <2>4. QED
    BY <1>2, <2>1, <2>3 DEF Slice
<1>3. QED
  BY <1>1, <1>2

-----------------------------------------------------------------------------
(* Without a conflict the readings of a Delivery only gain by a further    *)
(* Fact, and with them what the calculators cover.                         *)

LEMMA ReadingsGrow ==
  ASSUME [RoleNext]_evidence
  PROVE  /\ Usage \subseteq Usage'
         /\ \A d : \A field : Named(d, field) \subseteq Named(d, field)'
<1>1. facts \subseteq facts'
  BY EvidenceGrows
<1>2. Usage \subseteq Usage'
  BY <1>1 DEF Usage
<1>3. \A d : Summaries(d) \subseteq Summaries(d)'
  BY <1>1 DEF Summaries
<1>4. \A d : \A field : Named(d, field) \subseteq Named(d, field)'
  BY <1>3 DEF Named
<1>5. QED
  BY <1>2, <1>4

LEMMA OutcomesStay ==
  ASSUME EvidenceOK, ~Conflict, EvidenceOK', ~Conflict', [RoleNext]_evidence
  PROVE  /\ Terminal \subseteq Terminal' /\ TimedDeliveries \subseteq TimedDeliveries'
         /\ \A d \in Terminal : Outcome(d)' = Outcome(d)
<1>1. \A d \in Deliveries : \A field : Named(d, field) \subseteq Named(d, field)'
  BY ReadingsGrow
<1>2. \A d \in Deliveries :
        /\ \A v \in Named(d, "outcome") : Outcome(d) = v
        /\ Outcome(d) # None <=> Named(d, "outcome") # {}
        /\ Elapsed(d) # None <=> Named(d, "elapsed") # {}
  BY OutcomeIsNamed
<1>3. \A d \in Deliveries :
        /\ \A v \in Named(d, "outcome")' : Outcome(d)' = v
        /\ Outcome(d)' # None <=> Named(d, "outcome")' # {}
        /\ Elapsed(d)' # None <=> Named(d, "elapsed")' # {}
  <2>1. EvidenceOK' /\ ~Conflict' =>
          (\A d \in Deliveries :
             /\ \A v \in Named(d, "outcome") : Outcome(d) = v
             /\ \A v \in Named(d, "elapsed") : Elapsed(d) = v
             /\ Outcome(d) # None <=> Named(d, "outcome") # {}
             /\ Elapsed(d) # None <=> Named(d, "elapsed") # {})'
    BY OutcomeIsNamed, PTL
  <2>2. QED
    BY <2>1
<1>4. \A d \in Terminal : d \in Terminal' /\ Outcome(d)' = Outcome(d)
  BY <1>1, <1>2, <1>3 DEF Terminal
<1>5. \A d \in Deliveries : Elapsed(d) # None => Elapsed(d)' # None
  BY <1>1, <1>2, <1>3
<1>6. TimedDeliveries \subseteq TimedDeliveries'
  BY <1>4, <1>5, TerminalIsFinite DEF TimedDeliveries
<1>7. QED
  BY <1>4, <1>6

LEMMA CostIsKept ==
  ASSUME EvidenceOK, EvidenceOK', [RoleNext]_evidence
  PROVE  \A s \in PartialCost : s.value # None =>
           \E q \in PartialCost' : q.key = s.key /\ q.value # None
<1> SUFFICES ASSUME NEW s \in PartialCost, s.value # None
             PROVE  \E q \in PartialCost' : q.key = s.key /\ q.value # None
  OBVIOUS
<1>1. EvidenceOK' => (\A c : /\ CostSlice(c).key = <<c>>
                             /\ CostSlice(c).value # None <=> SampleSuffices(CostCovered(c)))'
  BY CostSliceShows, PTL
<1>2. EvidenceOK' => (\A c : /\ IsFiniteSet(CostGroup(c)) /\ IsFiniteSet(CostCovered(c))
                             /\ CostCovered(c) \in SUBSET Deliveries
                             /\ [fact \in CostGroup(c) |-> fact.value] \in [CostGroup(c) -> Int])'
  BY CostGroupIsFinite, PTL
<1>3. CostCoordinates # {} /\ \E c \in CostCoordinates : s = CostSlice(c)
  BY DEF PartialCost, Unavailable
<1>4. PICK c \in CostCoordinates : s = CostSlice(c)
  BY <1>3
<1>5. Usage \subseteq Usage'
  BY ReadingsGrow
<1>6. c \in CostCoordinates'
  BY <1>5 DEF CostCoordinates
<1>7. CostSlice(c)' \in PartialCost'
  BY <1>6 DEF PartialCost
<1>8. s.key = <<c>> /\ SampleSuffices(CostCovered(c))
  BY <1>4, CostSliceShows
<1>9. /\ CostSlice(c)'.key = <<c>>
      /\ CostSlice(c)'.value # None <=> SampleSuffices(CostCovered(c)')
  BY <1>1
<1>10. SampleSuffices(CostCovered(c)')
  <2>1. CostCovered(c) \in SUBSET CostCovered(c)'
    BY <1>5 DEF CostCovered, CostGroup
  <2>2. IsFiniteSet(CostCovered(c)')
    BY <1>2
  <2>3. /\ Cardinality(CostCovered(c)) <= Cardinality(CostCovered(c)')
        /\ Cardinality(CostCovered(c)) \in Nat /\ Cardinality(CostCovered(c)') \in Nat
    BY <2>1, <2>2, SubsetIsSmaller
  <2>4. QED
    BY <1>8, <2>3, DeliveryAssumption DEF SampleSuffices
<1>11. QED
  BY <1>7, <1>8, <1>9, <1>10

(* A further Fact never withdraws a value that a calculator of Deliveries  *)
(* or costs has shown: only a conflict, which fails the side, does.        *)
THEOREM EvidenceNeverWithdrawsHolds == RoleSpec => EvidenceNeverWithdraws
<1> DEFINE Kept ==
      /\ \A s \in PartialCost : s.value # None =>
           \E q \in PartialCost' : q.key = s.key /\ q.value # None
      /\ \A s \in CycleTime : s.value # None => \A q \in CycleTime' : q.value # None
      /\ \A s \in TerminalOutcomeRate : s.value # None =>
           \E q \in TerminalOutcomeRate' : q.key = s.key /\ q.value # None
<1>1. EvidenceOK /\ EvidenceOK' /\ [RoleNext]_evidence => [~Conflict' => Kept]_facts
  <2> SUFFICES ASSUME EvidenceOK, EvidenceOK', [RoleNext]_evidence, facts' # facts, ~Conflict'
               PROVE  Kept
    OBVIOUS
  <2>1. ~Conflict
    BY DEF RoleNext, evidence
  <2>2. /\ Terminal \subseteq Terminal' /\ TimedDeliveries \subseteq TimedDeliveries'
        /\ \A d \in Terminal : Outcome(d)' = Outcome(d)
    BY <2>1, OutcomesStay
  <2>3. \A s \in PartialCost : s.value # None =>
          \E q \in PartialCost' : q.key = s.key /\ q.value # None
    BY CostIsKept
  <2>4. \A s \in CycleTime : s.value # None => \A q \in CycleTime' : q.value # None
    <3>1. \A s \in CycleTime : s.value # None => TimedDeliveries # {}
      BY <2>1, CycleTimeShows
    <3>2. EvidenceOK' /\ ~Conflict' =>
            (/\ \A s \in CycleTime : s.value # None => TimedDeliveries # {}
             /\ TimedDeliveries # {} => \A s \in CycleTime : s.value # None)'
      BY CycleTimeShows, PTL
    <3>3. TimedDeliveries' # {} => \A q \in CycleTime' : q.value # None
      BY <3>2
    <3>4. QED
      BY <2>2, <3>1, <3>3
  <2>5. \A s \in TerminalOutcomeRate : s.value # None =>
          \E q \in TerminalOutcomeRate' : q.key = s.key /\ q.value # None
    <3>1. \A s \in TerminalOutcomeRate : s.value # None => \E d \in Terminal : s.key = <<Outcome(d)>>
      BY TerminalOutcomesShow
    <3>2. (/\ \A s \in TerminalOutcomeRate : s.value # None => \E d \in Terminal : s.key = <<Outcome(d)>>
           /\ \A d \in Terminal :
                \E s \in TerminalOutcomeRate : s.key = <<Outcome(d)>> /\ s.value # None)'
      BY TerminalOutcomesShow, PTL
    <3>3. \A d \in Terminal' :
            \E q \in TerminalOutcomeRate' : q.key = <<Outcome(d)'>> /\ q.value # None
      BY <3>2
    <3>4. QED
      BY <2>2, <3>1, <3>3
  <2>6. QED
    BY <2>3, <2>4, <2>5
<1>2. QED
  BY <1>1, EvidenceStaysOK, PTL DEF RoleSpec, EvidenceNeverWithdraws

-----------------------------------------------------------------------------
(* Units of templates *)

LEMMA RepairReadingIs ==
  \A d : /\ RepairReading(d) \in {TRUE, FALSE, None}
         /\ RepairReading(d) = FALSE <=> Fixes(d) = {}
<1> TAKE d
<1>1. CASE Fixes(d) = {}
  BY <1>1, NoneAssumption DEF RepairReading
<1>2. CASE \E fix \in Fixes(d) : fix.available /\ fix.relates
  BY <1>2, NoneAssumption DEF RepairReading
<1>3. CASE Fixes(d) # {} /\ \A fix \in Fixes(d) : ~(fix.available /\ fix.relates)
  BY <1>3, NoneAssumption DEF RepairReading
<1>4. QED
  BY <1>1, <1>2, <1>3

(* Of the Manifests of a Delivery one is the last in digest order. *)
LEMMA LargestOf ==
  ASSUME NEW S \in SUBSET Nat, IsFiniteSet(S), S # {}
  PROVE  \E n \in S : \A m \in S : m <= n
<1> DEFINE B == {s \in SUBSET S : s = {} \/ \E n \in s : \A m \in s : m <= n}
<1>1. {} \in B
  OBVIOUS
<1>2. ASSUME NEW s \in SUBSET S, s # {}, \A x \in s : s \ {x} \in B PROVE s \in B
  <2>1. PICK x \in s : TRUE
    BY <1>2
  <2>2. CASE s \ {x} = {}
    <3>1. s = {x}
      BY <2>2
    <3>2. QED
      BY <3>1
  <2>3. CASE s \ {x} # {}
    <3>1. PICK n \in s \ {x} : \A m \in s \ {x} : m <= n
      BY <2>3, <1>2
    <3>2. CASE x <= n
      BY <3>1, <3>2
    <3>3. CASE ~(x <= n)
      BY <3>1, <3>3
    <3>4. QED
      BY <3>2, <3>3
  <2>4. QED
    BY <2>2, <2>3
<1>3. B = SUBSET S
  <2> HIDE DEF B
  <2>1. B \in SUBSET (SUBSET S)
    BY DEF B
  <2>2. QED
    BY <1>1, <1>2, <2>1, SubsetInduction
<1>4. QED
  BY <1>3

LEMMA ManifestIsChosen ==
  \A t \in Tasks : \A d \in Memberships[t] : ManifestOf(d) \in Manifests
<1> SUFFICES ASSUME NEW t \in Tasks, NEW d \in Memberships[t] PROVE ManifestOf(d) \in Manifests
  OBVIOUS
<1> DEFINE own == {m \in Manifests : m.delivery = d}
           f == [m \in own |-> m.digest]
           digests == {f[m] : m \in own}
<1>1. \A m \in Manifests : m.digest \in Nat
  BY RoleAssumption DEF Manifest
<1>2. own # {}
  BY RoleAssumption
<1>3. IsFiniteSet(own)
  BY FS_Subset, RoleAssumption
<1>4. IsFiniteSet(digests)
  <2>1. f = [m \in own |-> f[m]]
    OBVIOUS
  <2> HIDE DEF f, own
  <2>2. QED
    BY <1>3, <2>1, ImageIsSmaller
<1>5. digests \in SUBSET Nat /\ digests # {}
  BY <1>1, <1>2
<1>6. PICK n \in digests : \A k \in digests : k <= n
  <2> HIDE DEF digests
  <2>1. QED
    BY <1>4, <1>5, LargestOf
<1>7. PICK m \in own : n = m.digest
  OBVIOUS
<1>8. m.delivery = d /\ \A k \in Manifests : k.delivery = d => k.digest <= m.digest
  BY <1>6, <1>7
<1>9. QED
  BY <1>8 DEF ManifestOf

(* Units: one for each Delivery and template, finitely many. *)
LEMMA UnitsAre ==
  \A unit \in TemplateUnits :
    /\ unit = [delivery |-> unit.delivery, template |-> unit.template]
    /\ unit.delivery \in Terminal /\ unit.template \in STRING \X STRING
<1> SUFFICES ASSUME NEW unit \in TemplateUnits
             PROVE  /\ unit = [delivery |-> unit.delivery, template |-> unit.template]
                    /\ unit.delivery \in Terminal /\ unit.template \in STRING \X STRING
  OBVIOUS
<1>1. PICK t \in Tasks : \E d \in Memberships[t] \cap Terminal : unit \in UnitsIn(t, d)
  BY DEF TemplateUnits
<1>2. PICK d \in Memberships[t] \cap Terminal : unit \in UnitsIn(t, d)
  BY <1>1
<1>3. PICK b \in ManifestOf(d).bindings : unit = [delivery |-> d, template |-> b]
  BY <1>2 DEF UnitsIn, TemplateUnit
<1>4. ManifestOf(d).bindings \subseteq STRING \X STRING
  BY <1>1, ManifestIsChosen, RoleAssumption DEF Manifest
<1>5. QED
  BY <1>3, <1>4

LEMMA SameSize ==
  ASSUME NEW S, IsFiniteSet(S), NEW T, NEW f \in [S -> T],
         \A x, y \in S : f[x] = f[y] => x = y,
         \A y \in T : \E x \in S : f[x] = y
  PROVE  IsFiniteSet(T) /\ Cardinality(T) = Cardinality(S)
<1>1. f \in Bijection(S, T)
  BY DEF Bijection, Injection, Surjection, IsInjective
<1>2. ExistsBijection(S, T)
  BY <1>1 DEF ExistsBijection
<1>3. QED
  BY <1>2, FS_Bijection

(* A template has at most one unit for each Delivery. *)
LEMMA UnitsOfATemplate ==
  \A template : IsFiniteSet(UnitsOf(template)) /\ Cardinality(UnitsOf(template)) \in Nat
<1> TAKE template
<1> DEFINE f == [unit \in UnitsOf(template) |-> unit.delivery]
<1>1. \A unit \in UnitsOf(template) :
         /\ unit = [delivery |-> unit.delivery, template |-> template]
         /\ unit.delivery \in Deliveries
  BY UnitsAre, TerminalIsFinite DEF UnitsOf
<1>2. f \in Injection(UnitsOf(template), Deliveries)
  <2>1. f \in [UnitsOf(template) -> Deliveries]
    BY <1>1
  <2>2. \A u, v \in UnitsOf(template) : u.delivery = v.delivery => u = v
    BY <1>1
  <2>3. QED
    BY <2>1, <2>2 DEF Injection, IsInjective
<1>3. IsFiniteSet(UnitsOf(template))
  <2> HIDE DEF f
  <2>1. QED
    BY <1>2, FS_Injection, DeliveryAssumption
<1>4. QED
  BY <1>3, FS_CardinalityType

ReadableUnits(template) == {unit \in UnitsOf(template) : RepairReading(unit.delivery) # None}
RepairedUnits(template) == {unit \in ReadableUnits(template) : RepairReading(unit.delivery) = TRUE}

LEMMA ReadableUnitsAreFinite ==
  \A template :
    /\ ReadableUnits(template) \in SUBSET UnitsOf(template)
    /\ RepairedUnits(template) \in SUBSET ReadableUnits(template)
    /\ IsFiniteSet(ReadableUnits(template)) /\ Cardinality(ReadableUnits(template)) \in Nat
    /\ IsFiniteSet(RepairedUnits(template)) /\ Cardinality(RepairedUnits(template)) \in Nat
<1> TAKE template
<1>1. ReadableUnits(template) \in SUBSET UnitsOf(template)
  BY DEF ReadableUnits
<1>2. RepairedUnits(template) \in SUBSET ReadableUnits(template)
  BY DEF RepairedUnits
<1>3. IsFiniteSet(ReadableUnits(template)) /\ Cardinality(ReadableUnits(template)) \in Nat
  BY <1>1, UnitsOfATemplate, SubsetIsSmaller
<1>4. IsFiniteSet(RepairedUnits(template)) /\ Cardinality(RepairedUnits(template)) \in Nat
  BY <1>2, <1>3, SubsetIsSmaller
<1>5. QED
  BY <1>1, <1>2, <1>3, <1>4

LEMMA ReworkSliceIs ==
  \A template : ReworkSlice(template) =
    Slice(template, IF SampleSuffices(ReadableUnits(template)) THEN "AVAILABLE" ELSE "UNAVAILABLE",
          IF SampleSuffices(ReadableUnits(template))
          THEN <<Cardinality(RepairedUnits(template)), Cardinality(ReadableUnits(template))>> ELSE None,
          "SAMPLE_INSUFFICIENT", ReadableUnits(template), UnitsOf(template))
BY DEF ReworkSlice, ReadableUnits, RepairedUnits

(* The readable units that are not repaired are, one for one, the          *)
(* Deliveries of the template without any fix.                             *)
LEMMA CleanUnits ==
  \A template :
    Cardinality(ReadableUnits(template)) - Cardinality(RepairedUnits(template))
      = Cardinality({d \in Deliveries : /\ \E unit \in UnitsOf(template) : unit.delivery = d
                                        /\ \A fact \in facts : fact.delivery = d
                                                                 => fact.event # "fix"})
<1> TAKE template
<1> DEFINE clean == ReadableUnits(template) \ RepairedUnits(template)
           Free == {d \in Deliveries : /\ \E unit \in UnitsOf(template) : unit.delivery = d
                                       /\ \A fact \in facts : fact.delivery = d => fact.event # "fix"}
           f == [unit \in clean |-> unit.delivery]
<1>1. IsFiniteSet(clean)
        /\ Cardinality(clean) = Cardinality(ReadableUnits(template)) - Cardinality(RepairedUnits(template))
  <2>1. ReadableUnits(template) \cap RepairedUnits(template) = RepairedUnits(template)
    BY ReadableUnitsAreFinite
  <2>2. QED
    BY <2>1, ReadableUnitsAreFinite, FS_Difference
<1>2. \A d : RepairReading(d) = FALSE <=> \A fact \in facts : fact.delivery = d => fact.event # "fix"
  BY RepairReadingIs DEF Fixes
<1>3. \A unit : unit \in clean <=> unit \in UnitsOf(template) /\ RepairReading(unit.delivery) = FALSE
  BY RepairReadingIs, NoneAssumption DEF ReadableUnits, RepairedUnits
<1>4. \A unit \in UnitsOf(template) :
         /\ unit = [delivery |-> unit.delivery, template |-> template]
         /\ unit.delivery \in Deliveries
  BY UnitsAre, TerminalIsFinite DEF UnitsOf
<1> HIDE DEF clean
<1>5. f \in [clean -> Free]
  BY <1>2, <1>3, <1>4
<1>6. \A u, v \in clean : f[u] = f[v] => u = v
  BY <1>3, <1>4
<1>7. \A d \in Free : \E unit \in clean : f[unit] = d
  BY <1>2, <1>3
<1>8. Cardinality(Free) = Cardinality(clean)
  <2> HIDE DEF f, Free
  <2>1. QED
    BY <1>1, <1>5, <1>6, <1>7, SameSize
<1>9. QED
  BY <1>1, <1>8

(* A Delivery that a template counts as free of rework has no fix at all:  *)
(* one whose fixes cannot be read (_repair_reading) is not in the rate.    *)
THEOREM CleanMeansNoFixHolds == RoleSpec => []CleanMeansNoFix
<1>1. CleanMeansNoFix
  <2> SUFFICES ASSUME NEW template \in Templates, ReworkSlice(template).value # None
               PROVE  ReworkSlice(template).value[2] - ReworkSlice(template).value[1]
                        = Cardinality({d \in Deliveries :
                            /\ \E unit \in UnitsOf(template) : unit.delivery = d
                            /\ \A fact \in facts : fact.delivery = d => fact.event # "fix"})
    BY DEF CleanMeansNoFix
  <2>1. ReworkSlice(template).value =
          <<Cardinality(RepairedUnits(template)), Cardinality(ReadableUnits(template))>>
    BY ReworkSliceIs DEF Slice
  <2>2. QED
    BY <2>1, CleanUnits
<1>2. QED
  BY <1>1, PTL

-----------------------------------------------------------------------------
(* What the response model accepts *)

Shown(state) == state \in {"AVAILABLE", "LOWER_BOUND"}

LEMMA CoveringFits ==
  ASSUME NEW population, IsFiniteSet(population), NEW covered \in SUBSET population
  PROVE  CoverageFits(Covering(covered, population))
<1>1. Cardinality(covered) <= Cardinality(population)
  BY SubsetIsSmaller
<1>2. QED
  BY <1>1 DEF CoverageFits, Covering, Coverage

LEMMA SliceFitsWhen ==
  ASSUME NEW key, NEW state, NEW value, NEW withheld, withheld # "NONE",
         NEW population, IsFiniteSet(population), NEW covered \in SUBSET population,
         Shown(state) => value # None, ~Shown(state) => value = None
  PROVE  /\ SliceFits(Slice(key, state, value, withheld, covered, population))
         /\ Slice(key, state, value, withheld, covered, population).key = key
<1>1. CoverageFits(Covering(covered, population))
  BY CoveringFits
<1>2. QED
  BY <1>1 DEF SliceFits, Slice, Shown

(* A value is shown, or a slice withheld, with the state that goes with it. *)
LEMMA ShownSliceFits ==
  ASSUME NEW key, NEW value, value # None, NEW withheld, withheld # "NONE",
         NEW population, IsFiniteSet(population), NEW covered \in SUBSET population
  PROVE  /\ SliceFits(Slice(key, "AVAILABLE", value, withheld, covered, population))
         /\ Slice(key, "AVAILABLE", value, withheld, covered, population).key = key
<1>1. Shown("AVAILABLE")
  BY DEF Shown
<1>2. QED
  BY <1>1, SliceFitsWhen

LEMMA KeyedResultFits ==
  ASSUME NEW slices, slices # {},
         \A s \in slices : SliceFits(s) /\ s.key # Scalar,
         \A s, t \in slices : s.key = t.key => s = t
  PROVE  ResultFits(slices)
BY DEF ResultFits

LEMMA ScalarResultFits ==
  ASSUME NEW s, SliceFits(s)
  PROVE  ResultFits({s})
<1>1. Cardinality({s}) = 1
  BY FS_Singleton
<1>2. QED
  BY <1>1 DEF ResultFits

LEMMA UnavailableFits ==
  ASSUME NEW n \in Nat, NEW m \in Nat, n <= m
  PROVE  ResultFits(Unavailable(Coverage(n, m)))
<1> DEFINE s == [key |-> Scalar, state |-> "UNAVAILABLE", value |-> None,
                 reason |-> IF Coverage(n, m).denominator = 0
                            THEN "NO_APPLICABLE_POPULATION" ELSE "MISSING_INPUT",
                 coverage |-> Coverage(n, m), missing |-> {}]
<1>1. CoverageFits(Coverage(n, m))
  BY DEF CoverageFits, Coverage
<1>2. SliceFits(s)
  BY <1>1 DEF SliceFits
<1>3. Unavailable(Coverage(n, m)) = {s}
  BY DEF Unavailable
<1>4. QED
  <2> HIDE DEF s
  <2>1. QED
    BY <1>2, <1>3, ScalarResultFits

LEMMA KeysAreNotScalar ==
  /\ \A a : <<a>> # Scalar
  /\ \A a, b : <<a, b>> # Scalar
BY DEF Scalar

-----------------------------------------------------------------------------
LEMMA SharesFit ==
  ASSUME NEW population, IsFiniteSet(population),
         NEW keysOf, DOMAIN keysOf \in SUBSET population,
         \A d \in DOMAIN keysOf : keysOf[d] # {}
  PROVE  ResultFits(Shares(keysOf, population))
<1> DEFINE covered == DOMAIN keysOf
           share(key) == Slice(<<key>>, "AVAILABLE",
              <<Cardinality({d \in covered : key \in keysOf[d]}), Cardinality(covered)>>,
              "MISSING_INPUT", covered, population)
<1>0. IsFiniteSet(covered) /\ Cardinality(covered) \in Nat /\ Cardinality(population) \in Nat
        /\ Cardinality(covered) <= Cardinality(population)
  BY SubsetIsSmaller
<1>1. CASE covered = {}
  <2>1. Shares(keysOf, population) = Unavailable(Covering(covered, population))
    BY <1>1 DEF Shares
  <2>2. QED
    BY <2>1, <1>0, UnavailableFits DEF Covering
<1>2. CASE covered # {}
  <2>1. Shares(keysOf, population) = {share(key) : key \in UNION Range(keysOf)}
    BY <1>2 DEF Shares
  <2>2. UNION Range(keysOf) # {}
    BY <1>2 DEF Range
  <2>3. \A key : SliceFits(share(key)) /\ share(key).key = <<key>>
    <3> TAKE key
    <3> DEFINE holding == {d \in covered : key \in keysOf[d]}
    <3>1. holding \in SUBSET covered
      OBVIOUS
    <3>2. Cardinality(holding) \in Int
      <4> HIDE DEF holding, covered
      <4>1. QED
        BY <1>0, <3>1, SubsetIsSmaller
    <3>3. <<Cardinality(holding), Cardinality(covered)>> # None
      <4> HIDE DEF holding, covered
      <4>1. QED
        BY <1>0, <3>2, NumbersAreValues
    <3>4. QED
      <4> HIDE DEF holding, covered
      <4>1. covered \in SUBSET population
        BY DEF covered
      <4> DEFINE value == <<Cardinality(holding), Cardinality(covered)>>
      <4>2. value # None
        BY <3>3
      <4> HIDE DEF value
      <4>3. /\ SliceFits(Slice(<<key>>, "AVAILABLE", value, "MISSING_INPUT", covered, population))
            /\ Slice(<<key>>, "AVAILABLE", value, "MISSING_INPUT", covered, population).key = <<key>>
        BY <4>1, <4>2, ShownSliceFits
      <4>4. QED
        BY <4>3 DEF value, holding
  <2> DEFINE slices == {share(key) : key \in UNION Range(keysOf)}
  <2>4. slices # {} /\ \A s \in slices : \E key : s = share(key)
    <3> HIDE DEF share
    <3>1. QED
      BY <2>2
  <2> HIDE DEF share, slices
  <2>5. \A s \in slices : SliceFits(s) /\ s.key # Scalar
    BY <2>3, <2>4, KeysAreNotScalar
  <2>6. \A s, t \in slices : s.key = t.key => s = t
    <3> SUFFICES ASSUME NEW s \in slices, NEW t \in slices, s.key = t.key PROVE s = t
      OBVIOUS
    <3>1. PICK a, b : s = share(a) /\ t = share(b)
      BY <2>4
    <3>2. <<a>> = <<b>>
      BY <2>3, <3>1
    <3>3. a = b
      BY <3>2
    <3>4. QED
      BY <3>1, <3>3
  <2>7. ResultFits(slices)
    BY <2>4, <2>5, <2>6, KeyedResultFits
  <2>8. QED
    BY <2>1, <2>7 DEF slices
<1>3. QED
  BY <1>1, <1>2

LEMMA TerminalOutcomeRateFits == ResultFits(TerminalOutcomeRate)
<1> DEFINE keysOf == [d \in Terminal |-> {Outcome(d)}]
<1>1. DOMAIN keysOf \in SUBSET Deliveries /\ \A d \in DOMAIN keysOf : keysOf[d] # {}
  BY TerminalIsFinite
<1> HIDE DEF keysOf
<1>2. ResultFits(Shares(keysOf, Deliveries))
  BY <1>1, SharesFit, DeliveryAssumption
<1>3. QED
  BY <1>2 DEF TerminalOutcomeRate, keysOf

LEMMA StageReachFits == ResultFits(StageReach)
<1> DEFINE keysOf == [d \in {d \in Terminal : Staged(d)} |-> Named(d, "stage")]
<1>1. DOMAIN keysOf \in SUBSET Terminal /\ \A d \in DOMAIN keysOf : keysOf[d] # {}
  BY DEF Staged
<1> HIDE DEF keysOf
<1>2. ResultFits(Shares(keysOf, Terminal))
  BY <1>1, SharesFit, TerminalIsFinite
<1>3. QED
  BY <1>2 DEF StageReach, keysOf

LEMMA CycleTimeFits == EvidenceOK /\ ~Conflict => ResultFits(CycleTime)
<1> SUFFICES ASSUME EvidenceOK, ~Conflict PROVE ResultFits(CycleTime)
  OBVIOUS
<1>0. IsFiniteSet(Terminal) /\ Cardinality(Terminal) \in Nat
  BY TerminalIsFinite, FS_CardinalityType
<1>1. CASE TimedDeliveries = {}
  <2>1. CycleTime = Unavailable(Coverage(0, Cardinality(Terminal)))
    BY <1>1, FS_EmptySet DEF CycleTime, TimedDeliveries, Covering
  <2>2. QED
    BY <2>1, <1>0, UnavailableFits
<1>2. CASE TimedDeliveries # {}
  <2> DEFINE value == <<SumFunction([d \in TimedDeliveries |-> Elapsed(d)]), Cardinality(TimedDeliveries)>>
  <2>1. CycleTime = {Slice(Scalar, "AVAILABLE", value, "MISSING_INPUT", TimedDeliveries, Terminal)}
    BY <1>2 DEF CycleTime, TimedDeliveries
  <2>2. SumFunction([d \in TimedDeliveries |-> Elapsed(d)]) \in Nat
    BY TimesAreNumbers, SumOfNaturals
  <2>3. value # None
    BY <2>2, TimesAreNumbers, NumbersAreValues
  <2> HIDE DEF value
  <2>4. SliceFits(Slice(Scalar, "AVAILABLE", value, "MISSING_INPUT", TimedDeliveries, Terminal))
    BY <2>3, <1>0, TimesAreNumbers, ShownSliceFits
  <2>5. QED
    BY <2>1, <2>4, ScalarResultFits
<1>3. QED
  BY <1>1, <1>2

LEMMA CostSliceFits == EvidenceOK => \A c : SliceFits(CostSlice(c))
<1> SUFFICES ASSUME EvidenceOK, NEW c PROVE SliceFits(CostSlice(c))
  OBVIOUS
<1> DEFINE value == <<SumFunction([fact \in CostGroup(c) |-> fact.value])>>
           enough == SampleSuffices(CostCovered(c))
           state == IF ~enough THEN "UNAVAILABLE"
                    ELSE IF HasLowerBound(CostGroup(c)) THEN "LOWER_BOUND" ELSE "AVAILABLE"
           shown == IF enough THEN value ELSE None
<1>1. CostSlice(c) = Slice(<<c>>, state, shown, "SAMPLE_INSUFFICIENT", CostCovered(c), Deliveries)
  BY DEF CostSlice, CostGroup, CostCovered
<1>2. SumFunction([fact \in CostGroup(c) |-> fact.value]) \in Int
  BY CostGroupIsFinite, SumType
<1>3. value # None
  BY <1>2, NumbersAreValues
<1> HIDE DEF value
<1>4. /\ Shown(state) => shown # None
      /\ ~Shown(state) => shown = None
  BY <1>3 DEF Shown
<1> HIDE DEF state, shown
<1>5. QED
  BY <1>1, <1>4, CostGroupIsFinite, DeliveryAssumption, SliceFitsWhen

LEMMA PartialCostFits == EvidenceOK => ResultFits(PartialCost)
<1> SUFFICES ASSUME EvidenceOK PROVE ResultFits(PartialCost)
  OBVIOUS
<1>1. CASE CostCoordinates = {}
  <2>1. PartialCost = Unavailable(Coverage(0, Cardinality(Deliveries)))
    BY <1>1, FS_EmptySet DEF PartialCost, Covering
  <2>2. QED
    BY <2>1, UnavailableFits, DeliveryAssumption, FS_CardinalityType
<1>2. CASE CostCoordinates # {}
  <2>1. PartialCost = {CostSlice(c) : c \in CostCoordinates}
    BY <1>2 DEF PartialCost
  <2>2. \A c : SliceFits(CostSlice(c)) /\ CostSlice(c).key = <<c>>
    BY CostSliceFits, CostSliceShows
  <2>3. \A s \in PartialCost : \E c : s = CostSlice(c)
    BY <2>1
  <2>4. \A s \in PartialCost : SliceFits(s) /\ s.key # Scalar
    BY <2>2, <2>3, KeysAreNotScalar
  <2>5. \A s, t \in PartialCost : s.key = t.key => s = t
    <3> SUFFICES ASSUME NEW s \in PartialCost, NEW t \in PartialCost, s.key = t.key PROVE s = t
      OBVIOUS
    <3>1. PICK a, b : s = CostSlice(a) /\ t = CostSlice(b)
      BY <2>3
    <3>2. <<a>> = <<b>>
      BY <2>2, <3>1
    <3>3. a = b
      BY <3>2
    <3>4. QED
      BY <3>1, <3>3
  <2>6. PartialCost # {}
    BY <2>1, <1>2
  <2>7. QED
    BY <2>4, <2>5, <2>6, KeyedResultFits
<1>3. QED
  BY <1>1, <1>2

LEMMA TasksAreFinite ==
  \A class : /\ Classified(class) \in SUBSET Tasks
             /\ IsFiniteSet(Classified(class))
             /\ Cardinality(Classified(class)) \in Nat /\ Cardinality(Tasks) \in Nat
             /\ Cardinality(Classified(class)) <= Cardinality(Tasks)
<1> TAKE class
<1>1. Classified(class) \in SUBSET Tasks
  BY DEF Classified
<1>2. QED
  BY <1>1, DeliveryAssumption, SubsetIsSmaller

LEMMA EligibilityFits == ResultFits({Eligibility})
<1> DEFINE value == <<Cardinality(Classified("ELIGIBLE")), Cardinality(Tasks)>>
           state == IF SampleSuffices(Tasks) THEN "AVAILABLE" ELSE "UNAVAILABLE"
           shown == IF SampleSuffices(Tasks) THEN value ELSE None
           members == Tasks \ Classified("UNDEFINED_TASK_MEMBERSHIP")
<1>1. Eligibility = Slice(Scalar, state, shown, "SAMPLE_INSUFFICIENT", members, Tasks)
  BY DEF Eligibility
<1>2. value # None
  BY TasksAreFinite, NumbersAreValues
<1> HIDE DEF value
<1>3. /\ Shown(state) => shown # None
      /\ ~Shown(state) => shown = None
  BY <1>2 DEF Shown
<1>4. members \in SUBSET Tasks
  OBVIOUS
<1> HIDE DEF state, shown, members
<1>5. SliceFits(Eligibility)
  BY <1>1, <1>3, <1>4, DeliveryAssumption, SliceFitsWhen
<1>6. QED
  BY <1>5, ScalarResultFits

-----------------------------------------------------------------------------
(* Model calls *)

LEMMA CallsAreFinite == EvidenceOK => IsFiniteSet(Calls) /\ Cardinality(Calls) \in Nat
<1> SUFFICES ASSUME EvidenceOK PROVE IsFiniteSet(Calls) /\ Cardinality(Calls) \in Nat
  OBVIOUS
<1> DEFINE S == {m \in nodes : m.calls}
           f == [n \in S |-> Call(n)]
           T == {f[n] : n \in S}
<1>1. IsFiniteSet(S)
  BY FS_Subset DEF EvidenceOK
<1>2. f = [n \in S |-> f[n]]
  OBVIOUS
<1>3. Calls = T
  BY DEF Calls
<1>4. IsFiniteSet(T) /\ Cardinality(T) \in Nat
  <2> HIDE DEF f, S
  <2>1. QED
    BY <1>1, <1>2, ImageIsSmaller
<1>5. QED
  BY <1>3, <1>4

LEMMA CallsAreTyped ==
  EvidenceOK => \A call \in Calls :
    /\ call.cohort \in STRING \union {None} /\ call.role \in STRING \union {None}
    /\ call.delivery \in Deliveries
    /\ call["duration"] \in Nat \union {None}
    /\ call["input"] \in Nat \union {None} /\ call["output"] \in Nat \union {None}
<1> SUFFICES ASSUME EvidenceOK, NEW call \in Calls
             PROVE  /\ call.cohort \in STRING \union {None} /\ call.role \in STRING \union {None}
                    /\ call.delivery \in Deliveries
                    /\ call["duration"] \in Nat \union {None}
                    /\ call["input"] \in Nat \union {None} /\ call["output"] \in Nat \union {None}
  OBVIOUS
<1>1. PICK n \in nodes : call = Call(n)
  BY DEF Calls
<1>2. n \in Node /\ n.delivery \in Deliveries
  BY CallsAssumption, RoleAssumption DEF EvidenceOK
<1>3. Duration(n) \in Nat \union {None}
  BY <1>2 DEF Duration, Node
<1>4. MeasuredField(n, n.input) \in Nat \union {None} /\ MeasuredField(n, n.output) \in Nat \union {None}
  BY <1>2 DEF MeasuredField, Node
<1>5. n.cohort \in STRING \union {None} /\ n.role \in STRING \union {None}
  BY <1>2 DEF Node
<1>6. QED
  BY <1>1, <1>2, <1>3, <1>4, <1>5 DEF Call

Fields == {"duration", "input", "output"}

CoveredCalls(field, group) == {call \in group : call[field] # None}

LEMMA CoveredCallsAre ==
  EvidenceOK => \A field \in Fields : \A group \in SUBSET Calls :
    /\ CoveredCalls(field, group) \in SUBSET group
    /\ IsFiniteSet(group) /\ Cardinality(group) \in Nat
    /\ IsFiniteSet(CoveredCalls(field, group)) /\ Cardinality(CoveredCalls(field, group)) \in Nat
    /\ SumFunction([call \in CoveredCalls(field, group) |-> call[field]]) \in Nat
<1> SUFFICES ASSUME EvidenceOK, NEW field \in Fields, NEW group \in SUBSET Calls
             PROVE  /\ CoveredCalls(field, group) \in SUBSET group
                    /\ IsFiniteSet(group) /\ Cardinality(group) \in Nat
                    /\ IsFiniteSet(CoveredCalls(field, group))
                    /\ Cardinality(CoveredCalls(field, group)) \in Nat
                    /\ SumFunction([call \in CoveredCalls(field, group) |-> call[field]]) \in Nat
  OBVIOUS
<1>1. CoveredCalls(field, group) \in SUBSET group
  BY DEF CoveredCalls
<1>2. IsFiniteSet(group) /\ Cardinality(group) \in Nat
  BY CallsAreFinite, SubsetIsSmaller
<1>3. IsFiniteSet(CoveredCalls(field, group)) /\ Cardinality(CoveredCalls(field, group)) \in Nat
  BY <1>1, <1>2, SubsetIsSmaller
<1>4. \A call \in CoveredCalls(field, group) : call[field] \in Nat
  <2> SUFFICES ASSUME NEW call \in CoveredCalls(field, group) PROVE call[field] \in Nat
    OBVIOUS
  <2>1. call \in Calls /\ call[field] # None
    BY DEF CoveredCalls
  <2>2. QED
    BY <2>1, CallsAreTyped DEF Fields
<1>5. [call \in CoveredCalls(field, group) |-> call[field]] \in [CoveredCalls(field, group) -> Nat]
  BY <1>4
<1>6. QED
  BY <1>1, <1>2, <1>3, <1>5, SumOfNaturals

LEMMA MeasuredSliceFits ==
  EvidenceOK => \A key : \A field \in Fields : \A group \in SUBSET Calls :
    /\ SliceFits(MeasuredSlice(key, field, group))
    /\ MeasuredSlice(key, field, group).key = key
    /\ MeasuredSlice(key, field, group).value # None => MeasuredSlice(key, field, group).value[1] >= 0
    /\ MeasuredSlice(key, field, group).coverage = Covering(CoveredCalls(field, group), group)
    /\ MeasuredSlice(key, field, group).missing = group \ CoveredCalls(field, group)
<1> SUFFICES ASSUME EvidenceOK, NEW key, NEW field \in Fields, NEW group \in SUBSET Calls
             PROVE  /\ SliceFits(MeasuredSlice(key, field, group))
                    /\ MeasuredSlice(key, field, group).key = key
                    /\ MeasuredSlice(key, field, group).value # None
                         => MeasuredSlice(key, field, group).value[1] >= 0
                    /\ MeasuredSlice(key, field, group).coverage
                         = Covering(CoveredCalls(field, group), group)
                    /\ MeasuredSlice(key, field, group).missing = group \ CoveredCalls(field, group)
  OBVIOUS
<1> DEFINE covered == CoveredCalls(field, group)
           sum == SumFunction([call \in covered |-> call[field]])
           state == IF covered = {} THEN "UNAVAILABLE" ELSE "AVAILABLE"
           shown == IF covered = {} THEN None ELSE <<sum, Cardinality(covered)>>
<1>1. MeasuredSlice(key, field, group) = Slice(key, state, shown, "MISSING_INPUT", covered, group)
  BY DEF MeasuredSlice, CoveredCalls
<1>2. covered \in SUBSET group /\ IsFiniteSet(group) /\ sum \in Nat /\ Cardinality(covered) \in Nat
  BY CoveredCallsAre
<1> HIDE DEF sum, covered
<1>3. <<sum, Cardinality(covered)>> # None
  BY <1>2, NumbersAreValues
<1>4. /\ Shown(state) => shown # None
      /\ ~Shown(state) => shown = None
      /\ shown # None => shown[1] >= 0
  BY <1>2, <1>3 DEF Shown
<1> HIDE DEF state, shown
<1>5. /\ SliceFits(Slice(key, state, shown, "MISSING_INPUT", covered, group))
      /\ Slice(key, state, shown, "MISSING_INPUT", covered, group).key = key
  BY <1>2, <1>4, SliceFitsWhen
<1>6. QED
  <2>1. /\ Slice(key, state, shown, "MISSING_INPUT", covered, group).value = shown
        /\ Slice(key, state, shown, "MISSING_INPUT", covered, group).coverage = Covering(covered, group)
        /\ Slice(key, state, shown, "MISSING_INPUT", covered, group).missing = group \ covered
    BY DEF Slice
  <2>2. QED
    BY <1>1, <1>4, <1>5, <2>1 DEF covered

LEMMA NoInputFits == EvidenceOK => ResultFits(NoInput)
BY CallsAreFinite, UnavailableFits DEF NoInput

LEMMA LatencySlicesAre ==
  EvidenceOK => \A cohort :
    /\ SliceFits(LatencySlice(cohort)) /\ LatencySlice(cohort).key = <<cohort>>
    /\ LatencySlice(cohort).value # None => LatencySlice(cohort).value[1] >= 0
<1>1. \A cohort : GroupOf(cohort) \in SUBSET Calls
  BY DEF GroupOf
<1>2. QED
  BY <1>1, MeasuredSliceFits DEF LatencySlice, Fields

LEMMA TokenSlicesAre ==
  EvidenceOK => \A cohort : \A direction \in {"input", "output"} :
    SliceFits(TokenSlice(cohort, direction)) /\ TokenSlice(cohort, direction).key = <<cohort, direction>>
<1>1. \A cohort : GroupOf(cohort) \in SUBSET Calls
  BY DEF GroupOf
<1>2. QED
  BY <1>1, MeasuredSliceFits DEF TokenSlice, Fields

LEMMA LatencyFits ==
  EvidenceOK => ResultFits(Latency) /\ \A s \in Latency : s.value # None => s.value[1] >= 0
<1> SUFFICES ASSUME EvidenceOK
             PROVE  ResultFits(Latency) /\ \A s \in Latency : s.value # None => s.value[1] >= 0
  OBVIOUS
<1>1. CASE Cohorts = {}
  <2>1. Latency = NoInput
    BY <1>1 DEF Latency
  <2>2. \A s \in NoInput : s.value = None
    BY DEF NoInput, Unavailable
  <2>3. QED
    BY <2>1, <2>2, NoInputFits
<1>2. CASE Cohorts # {}
  <2>1. Latency = {LatencySlice(cohort) : cohort \in Cohorts}
    BY <1>2 DEF Latency
  <2>2. \A s \in Latency : \E cohort : s = LatencySlice(cohort)
    BY <2>1
  <2>3. \A s \in Latency : SliceFits(s) /\ s.key # Scalar /\ (s.value # None => s.value[1] >= 0)
    BY <2>2, LatencySlicesAre, KeysAreNotScalar
  <2>4. \A s, t \in Latency : s.key = t.key => s = t
    <3> SUFFICES ASSUME NEW s \in Latency, NEW t \in Latency, s.key = t.key PROVE s = t
      OBVIOUS
    <3>1. PICK a, b : s = LatencySlice(a) /\ t = LatencySlice(b)
      BY <2>2
    <3>2. <<a>> = <<b>>
      BY <3>1, LatencySlicesAre
    <3>3. a = b
      BY <3>2
    <3>4. QED
      BY <3>1, <3>3
  <2>5. Latency # {}
    BY <1>2, <2>1
  <2>6. QED
    BY <2>3, <2>4, <2>5, KeyedResultFits
<1>3. QED
  BY <1>1, <1>2

LEMMA TokenUsageFits == EvidenceOK => ResultFits(TokenUsage)
<1> SUFFICES ASSUME EvidenceOK PROVE ResultFits(TokenUsage)
  OBVIOUS
<1>1. CASE Cohorts = {}
  BY <1>1, NoInputFits DEF TokenUsage
<1>2. CASE Cohorts # {}
  <2>1. TokenUsage = {TokenSlice(cohort, direction) : cohort \in Cohorts, direction \in {"input", "output"}}
    BY <1>2 DEF TokenUsage
  <2>2. \A s \in TokenUsage : \E cohort : \E direction \in {"input", "output"} : s = TokenSlice(cohort, direction)
    BY <2>1
  <2>3. \A s \in TokenUsage : SliceFits(s) /\ s.key # Scalar
    BY <2>2, TokenSlicesAre, KeysAreNotScalar
  <2>4. \A s, t \in TokenUsage : s.key = t.key => s = t
    <3> SUFFICES ASSUME NEW s \in TokenUsage, NEW t \in TokenUsage, s.key = t.key PROVE s = t
      OBVIOUS
    <3>1. PICK a : \E i \in {"input", "output"} : s = TokenSlice(a, i)
      BY <2>2
    <3>2. PICK i \in {"input", "output"} : s = TokenSlice(a, i)
      BY <3>1
    <3>3. PICK b : \E j \in {"input", "output"} : t = TokenSlice(b, j)
      BY <2>2
    <3>4. PICK j \in {"input", "output"} : t = TokenSlice(b, j)
      BY <3>3
    <3>5. <<a, i>> = <<b, j>>
      BY <3>2, <3>4, TokenSlicesAre
    <3>6. a = b /\ i = j
      BY <3>5
    <3>7. QED
      BY <3>2, <3>4, <3>6
  <2>5. TokenUsage # {}
    BY <1>2, <2>1
  <2>6. QED
    BY <2>3, <2>4, <2>5, KeyedResultFits
<1>3. QED
  BY <1>1, <1>2

-----------------------------------------------------------------------------
(* The results of the Roles *)

WithOutcome(cohort, outcome) == {t \in RoleModelTasks(cohort) : TaskOutcome(t) = outcome}

RoleModelSlice(cohort, outcome) ==
  Slice(<<cohort, outcome>>, IF SampleSuffices(RoleModelTasks(cohort)) THEN "AVAILABLE" ELSE "UNAVAILABLE",
        IF SampleSuffices(RoleModelTasks(cohort))
        THEN <<Cardinality(WithOutcome(cohort, outcome)), Cardinality(RoleModelTasks(cohort))>> ELSE None,
        "SAMPLE_INSUFFICIENT", RoleModelTasks(cohort), RoleModelTasks(cohort))

LEMMA RoleModelSlicesAre ==
  \A cohort : RoleModelSlices(cohort)
    = {RoleModelSlice(cohort, outcome) : outcome \in {TaskOutcome(t) : t \in RoleModelTasks(cohort)}}
BY DEF RoleModelSlices, RoleModelSlice, WithOutcome

LEMMA RoleModelTasksAreFinite ==
  \A cohort : /\ RoleModelTasks(cohort) \in SUBSET Tasks /\ RoleModelTasks(cohort) \in SUBSET Eligible
              /\ IsFiniteSet(RoleModelTasks(cohort)) /\ Cardinality(RoleModelTasks(cohort)) \in Nat
              /\ \A outcome : /\ WithOutcome(cohort, outcome) \in SUBSET RoleModelTasks(cohort)
                              /\ Cardinality(WithOutcome(cohort, outcome)) \in Nat
<1> TAKE cohort
<1>1. RoleModelTasks(cohort) \in SUBSET Eligible
  BY DEF RoleModelTasks
<1>2. Eligible \in SUBSET Tasks
  BY DEF Eligible, Classified
<1>3. IsFiniteSet(RoleModelTasks(cohort)) /\ Cardinality(RoleModelTasks(cohort)) \in Nat
  BY <1>1, <1>2, DeliveryAssumption, SubsetIsSmaller
<1>4. \A outcome : WithOutcome(cohort, outcome) \in SUBSET RoleModelTasks(cohort)
  BY DEF WithOutcome
<1>5. \A outcome : Cardinality(WithOutcome(cohort, outcome)) \in Nat
  BY <1>3, <1>4, SubsetIsSmaller
<1>6. QED
  BY <1>1, <1>2, <1>3, <1>4, <1>5

LEMMA RoleModelSliceFits ==
  \A cohort, outcome :
    /\ SliceFits(RoleModelSlice(cohort, outcome))
    /\ RoleModelSlice(cohort, outcome).key = <<cohort, outcome>>
    /\ RoleModelSlice(cohort, outcome).value # None =>
         RoleModelSlice(cohort, outcome).value
           = <<Cardinality(WithOutcome(cohort, outcome)), Cardinality(RoleModelTasks(cohort))>>
    /\ RoleModelSlice(cohort, outcome).value # None <=> SampleSuffices(RoleModelTasks(cohort))
<1> TAKE cohort, outcome
<1> DEFINE tasks == RoleModelTasks(cohort)
           value == <<Cardinality(WithOutcome(cohort, outcome)), Cardinality(tasks)>>
           state == IF SampleSuffices(tasks) THEN "AVAILABLE" ELSE "UNAVAILABLE"
           shown == IF SampleSuffices(tasks) THEN value ELSE None
           key == <<cohort, outcome>>
<1>1. RoleModelSlice(cohort, outcome) = Slice(key, state, shown, "SAMPLE_INSUFFICIENT", tasks, tasks)
  BY DEF RoleModelSlice
<1>2. value # None
  BY RoleModelTasksAreFinite, NumbersAreValues
<1> HIDE DEF value, key
<1>3. /\ Shown(state) => shown # None
      /\ ~Shown(state) => shown = None
      /\ shown # None => shown = value
      /\ shown # None <=> SampleSuffices(tasks)
  BY <1>2 DEF Shown, SampleSuffices
<1>4. IsFiniteSet(tasks)
  BY RoleModelTasksAreFinite
<1> HIDE DEF state, shown, tasks
<1>5. /\ SliceFits(Slice(key, state, shown, "SAMPLE_INSUFFICIENT", tasks, tasks))
      /\ Slice(key, state, shown, "SAMPLE_INSUFFICIENT", tasks, tasks).key = key
  <2>1. tasks \in SUBSET tasks
    OBVIOUS
  <2>2. QED
    BY <2>1, <1>3, <1>4, SliceFitsWhen
<1>6. Slice(key, state, shown, "SAMPLE_INSUFFICIENT", tasks, tasks).value = shown
  BY DEF Slice
<1>7. QED
  BY <1>1, <1>3, <1>5, <1>6 DEF key, value, tasks

LEMMA RoleModelOutcomeRateIs ==
  RoleModelCohorts # {} =>
    /\ \A s \in RoleModelOutcomeRate : \E cohort \in RoleModelCohorts :
         \E t \in RoleModelTasks(cohort) : s = RoleModelSlice(cohort, TaskOutcome(t))
    /\ \A cohort \in RoleModelCohorts : \A t \in RoleModelTasks(cohort) :
         RoleModelSlice(cohort, TaskOutcome(t)) \in RoleModelOutcomeRate
    /\ \A cohort \in RoleModelCohorts : RoleModelTasks(cohort) # {}
<1> SUFFICES ASSUME RoleModelCohorts # {}
             PROVE  /\ \A s \in RoleModelOutcomeRate : \E cohort \in RoleModelCohorts :
                         \E t \in RoleModelTasks(cohort) : s = RoleModelSlice(cohort, TaskOutcome(t))
                    /\ \A cohort \in RoleModelCohorts : \A t \in RoleModelTasks(cohort) :
                         RoleModelSlice(cohort, TaskOutcome(t)) \in RoleModelOutcomeRate
                    /\ \A cohort \in RoleModelCohorts : RoleModelTasks(cohort) # {}
  OBVIOUS
<1>1. RoleModelOutcomeRate = UNION {RoleModelSlices(cohort) : cohort \in RoleModelCohorts}
  BY DEF RoleModelOutcomeRate
<1>2. \A cohort : \A s : s \in RoleModelSlices(cohort) <=>
         \E t \in RoleModelTasks(cohort) : s = RoleModelSlice(cohort, TaskOutcome(t))
  BY RoleModelSlicesAre
<1>3. \A s : s \in RoleModelOutcomeRate <=> \E cohort \in RoleModelCohorts : s \in RoleModelSlices(cohort)
  BY <1>1
<1>4. \A cohort \in RoleModelCohorts : RoleModelTasks(cohort) # {}
  BY DEF RoleModelCohorts, RoleModelTasks
<1>5. QED
  BY <1>2, <1>3, <1>4

LEMMA RoleModelOutcomeRateFits == ResultFits(RoleModelOutcomeRate)
<1>1. CASE RoleModelCohorts = {}
  <2>1. RoleModelOutcomeRate = Unavailable(Coverage(0, 0))
    BY <1>1 DEF RoleModelOutcomeRate
  <2>2. QED
    BY <2>1, UnavailableFits
<1>2. CASE RoleModelCohorts # {}
  <2>1. \A s \in RoleModelOutcomeRate : \E cohort, outcome : s = RoleModelSlice(cohort, outcome)
    BY <1>2, RoleModelOutcomeRateIs
  <2>2. \A s \in RoleModelOutcomeRate : SliceFits(s) /\ s.key # Scalar
    BY <2>1, RoleModelSliceFits, KeysAreNotScalar
  <2>3. \A s, t \in RoleModelOutcomeRate : s.key = t.key => s = t
    <3> SUFFICES ASSUME NEW s \in RoleModelOutcomeRate, NEW t \in RoleModelOutcomeRate, s.key = t.key
                 PROVE  s = t
      OBVIOUS
    <3>1. PICK a, o : s = RoleModelSlice(a, o)
      BY <2>1
    <3>2. PICK b, p : t = RoleModelSlice(b, p)
      BY <2>1
    <3>3. <<a, o>> = <<b, p>>
      BY <3>1, <3>2, RoleModelSliceFits
    <3>4. a = b /\ o = p
      BY <3>3
    <3>5. QED
      BY <3>1, <3>2, <3>4
  <2>4. RoleModelOutcomeRate # {}
    BY <1>2, RoleModelOutcomeRateIs
  <2>5. QED
    BY <2>2, <2>3, <2>4, KeyedResultFits
<1>3. QED
  BY <1>1, <1>2

LEMMA ReworkRateFits == ResultFits(ReworkRate)
<1>1. CASE Templates = {}
  <2>1. ReworkRate = Unavailable(Coverage(0, 0))
    BY <1>1 DEF ReworkRate
  <2>2. QED
    BY <2>1, UnavailableFits
<1>2. CASE Templates # {}
  <2>1. ReworkRate = {ReworkSlice(template) : template \in Templates}
    BY <1>2 DEF ReworkRate
  <2>2. \A template : SliceFits(ReworkSlice(template)) /\ ReworkSlice(template).key = template
    <3> TAKE template
    <3> DEFINE covered == ReadableUnits(template)
               value == <<Cardinality(RepairedUnits(template)), Cardinality(covered)>>
               state == IF SampleSuffices(covered) THEN "AVAILABLE" ELSE "UNAVAILABLE"
               shown == IF SampleSuffices(covered) THEN value ELSE None
    <3>1. ReworkSlice(template) = Slice(template, state, shown, "SAMPLE_INSUFFICIENT", covered, UnitsOf(template))
      BY ReworkSliceIs
    <3>2. value # None
      BY ReadableUnitsAreFinite, NumbersAreValues
    <3> HIDE DEF value
    <3>3. /\ Shown(state) => shown # None
          /\ ~Shown(state) => shown = None
      BY <3>2 DEF Shown
    <3>4. IsFiniteSet(UnitsOf(template)) /\ covered \in SUBSET UnitsOf(template)
      BY UnitsOfATemplate, ReadableUnitsAreFinite
    <3> HIDE DEF state, shown, covered
    <3>5. QED
      BY <3>1, <3>3, <3>4, SliceFitsWhen
  <2>3. \A s \in ReworkRate : \E template \in Templates : s = ReworkSlice(template)
    BY <2>1
  <2>4. \A template \in Templates : template # Scalar
    <3>1. \A template \in Templates : template \in STRING \X STRING
      BY UnitsAre DEF Templates
    <3>2. QED
      BY <3>1 DEF Scalar
  <2>5. \A s \in ReworkRate : SliceFits(s) /\ s.key # Scalar
    BY <2>2, <2>3, <2>4
  <2>6. \A s, t \in ReworkRate : s.key = t.key => s = t
    BY <2>2, <2>3
  <2>7. ReworkRate # {}
    BY <1>2, <2>1
  <2>8. QED
    BY <2>5, <2>6, <2>7, KeyedResultFits
<1>3. QED
  BY <1>1, <1>2

LEMMA UnitsAreFinite == IsFiniteSet(TemplateUnits) /\ Cardinality(TemplateUnits) \in Nat
<1> DEFINE In(t) == {UnitsIn(t, d) : d \in Memberships[t] \cap Terminal}
           g == [t \in Tasks |-> UNION In(t)]
           T == {g[t] : t \in Tasks}
<1>1. ASSUME NEW t \in Tasks, NEW d \in Memberships[t] PROVE IsFiniteSet(UnitsIn(t, d))
  <2> DEFINE S == {c \in ManifestOf(d).bindings : c[1] \in ObservedRoles(d)}
             f == [b \in S |-> TemplateUnit(t, d, b)]
             U == {f[b] : b \in S}
  <2>1. IsFiniteSet(S)
    BY ManifestIsChosen, RoleAssumption, FS_Subset
  <2>2. f = [b \in S |-> f[b]]
    OBVIOUS
  <2>3. UnitsIn(t, d) = U
    BY DEF UnitsIn
  <2>4. IsFiniteSet(U)
    <3> HIDE DEF f, S
    <3>1. QED
      BY <2>1, <2>2, ImageIsSmaller
  <2>5. QED
    BY <2>3, <2>4
<1>2. ASSUME NEW t \in Tasks PROVE IsFiniteSet(UNION In(t))
  <2> DEFINE S == Memberships[t] \cap Terminal
             f == [d \in S |-> UnitsIn(t, d)]
             U == {f[d] : d \in S}
  <2>1. IsFiniteSet(S)
    BY TerminalIsFinite, FS_Subset
  <2>2. f = [d \in S |-> f[d]]
    OBVIOUS
  <2>3. In(t) = U
    OBVIOUS
  <2>4. IsFiniteSet(U)
    <3> HIDE DEF f, S
    <3>1. QED
      BY <2>1, <2>2, ImageIsSmaller
  <2>5. \A u \in In(t) : IsFiniteSet(u)
    BY <1>1
  <2> HIDE DEF In, U
  <2>6. QED
    BY <2>3, <2>4, <2>5, FS_UNION
<1>3. IsFiniteSet(T)
  <2>1. g = [t \in Tasks |-> g[t]]
    OBVIOUS
  <2> HIDE DEF g
  <2>2. QED
    BY <2>1, DeliveryAssumption, ImageIsSmaller
<1>4. \A u \in T : IsFiniteSet(u)
  BY <1>2
<1>5. TemplateUnits = UNION T
  BY DEF TemplateUnits
<1>6. IsFiniteSet(TemplateUnits)
  <2> HIDE DEF T
  <2>1. QED
    BY <1>3, <1>4, <1>5, FS_UNION
<1>7. QED
  BY <1>6, FS_CardinalityType

(* The Usage of a template for one coordinate, by unit. *)
TemplateGroup(template, coordinate) ==
  {p \in UnitUsage : p[1].template = template /\ p[2].coordinate = coordinate}

CostUnits(template, coordinate) == {p[1] : p \in TemplateGroup(template, coordinate)}

LEMMA TemplateGroupIs ==
  \A template, c : \A p :
    p \in TemplateGroup(template, c) <=>
      /\ p \in TemplateUnits \X Usage
      /\ p[1] \in UnitsOf(template) /\ p[2] \in CostGroup(c)
      /\ p[2].delivery = p[1].delivery
BY DEF TemplateGroup, UnitUsage, UnitsOf, CostGroup

(* The same Usage is never there twice. *)
LEMMA UsageOnce ==
  \A template, c : \A p, q \in TemplateGroup(template, c) : p[2] = q[2] => p = q
<1> SUFFICES ASSUME NEW template, NEW c, NEW p \in TemplateGroup(template, c),
                    NEW q \in TemplateGroup(template, c), p[2] = q[2]
             PROVE  p = q
  OBVIOUS
<1>1. /\ p \in TemplateUnits \X Usage /\ q \in TemplateUnits \X Usage
      /\ p[1] \in UnitsOf(template) /\ q[1] \in UnitsOf(template)
      /\ p[2].delivery = p[1].delivery /\ q[2].delivery = q[1].delivery
  BY TemplateGroupIs
<1>2. /\ p[1] = [delivery |-> p[1].delivery, template |-> template]
      /\ q[1] = [delivery |-> q[1].delivery, template |-> template]
  BY <1>1, UnitsAre DEF UnitsOf
<1>3. p[1] = q[1]
  BY <1>1, <1>2
<1>4. QED
  BY <1>1, <1>3

LEMMA TemplateGroupIsFinite ==
  EvidenceOK => \A template, c :
    /\ IsFiniteSet(TemplateGroup(template, c))
    /\ [p \in TemplateGroup(template, c) |-> p[2].value] \in [TemplateGroup(template, c) -> Int]
    /\ CostUnits(template, c) \in SUBSET UnitsOf(template)
    /\ IsFiniteSet(CostUnits(template, c)) /\ Cardinality(CostUnits(template, c)) \in Nat
<1> SUFFICES ASSUME EvidenceOK, NEW template, NEW c
             PROVE  /\ IsFiniteSet(TemplateGroup(template, c))
                    /\ [p \in TemplateGroup(template, c) |-> p[2].value]
                         \in [TemplateGroup(template, c) -> Int]
                    /\ CostUnits(template, c) \in SUBSET UnitsOf(template)
                    /\ IsFiniteSet(CostUnits(template, c)) /\ Cardinality(CostUnits(template, c)) \in Nat
  OBVIOUS
<1> DEFINE f == [p \in TemplateGroup(template, c) |-> p[2]]
<1>1. \A p \in TemplateGroup(template, c) : p[1] \in UnitsOf(template) /\ p[2] \in CostGroup(c)
  BY TemplateGroupIs
<1>2. f \in Injection(TemplateGroup(template, c), CostGroup(c))
  <2>1. f \in [TemplateGroup(template, c) -> CostGroup(c)]
    BY <1>1
  <2>2. \A p, q \in TemplateGroup(template, c) : f[p] = f[q] => p = q
    BY UsageOnce
  <2>3. QED
    BY <2>1, <2>2 DEF Injection, IsInjective
<1>3. IsFiniteSet(TemplateGroup(template, c))
  <2> HIDE DEF f
  <2>1. QED
    BY <1>2, CostGroupIsFinite, FS_Injection
<1>4. \A fact \in CostGroup(c) : fact.value \in Int
  BY FactsAreTyped DEF CostGroup, Usage, Fact
<1>5. [p \in TemplateGroup(template, c) |-> p[2].value] \in [TemplateGroup(template, c) -> Int]
  BY <1>1, <1>4
<1>6. CostUnits(template, c) \in SUBSET UnitsOf(template)
  BY <1>1 DEF CostUnits
<1>7. IsFiniteSet(CostUnits(template, c)) /\ Cardinality(CostUnits(template, c)) \in Nat
  BY <1>6, UnitsOfATemplate, SubsetIsSmaller
<1>8. QED
  BY <1>3, <1>5, <1>6, <1>7

LEMMA TemplateCostSliceIs ==
  \A template, c : TemplateCostSlice(template, c) =
    Slice(<<template, c>>,
          IF ~SampleSuffices(CostUnits(template, c)) THEN "UNAVAILABLE"
          ELSE IF HasLowerBound({p[2] : p \in TemplateGroup(template, c)}) THEN "LOWER_BOUND" ELSE "AVAILABLE",
          IF SampleSuffices(CostUnits(template, c))
          THEN <<SumFunction([p \in TemplateGroup(template, c) |-> p[2].value])>> ELSE None,
          "SAMPLE_INSUFFICIENT", CostUnits(template, c), UnitsOf(template))
BY DEF TemplateCostSlice, CostUnits, TemplateGroup

LEMMA TemplateCostSliceFits ==
  EvidenceOK => \A template, c :
    SliceFits(TemplateCostSlice(template, c)) /\ TemplateCostSlice(template, c).key = <<template, c>>
<1> SUFFICES ASSUME EvidenceOK, NEW template, NEW c
             PROVE  /\ SliceFits(TemplateCostSlice(template, c))
                    /\ TemplateCostSlice(template, c).key = <<template, c>>
  OBVIOUS
<1> DEFINE value == <<SumFunction([p \in TemplateGroup(template, c) |-> p[2].value])>>
           covered == CostUnits(template, c)
           state == IF ~SampleSuffices(covered) THEN "UNAVAILABLE"
                    ELSE IF HasLowerBound({p[2] : p \in TemplateGroup(template, c)})
                         THEN "LOWER_BOUND" ELSE "AVAILABLE"
           shown == IF SampleSuffices(covered) THEN value ELSE None
           key == <<template, c>>
<1>1. TemplateCostSlice(template, c) = Slice(key, state, shown, "SAMPLE_INSUFFICIENT", covered, UnitsOf(template))
  BY TemplateCostSliceIs
<1>2. SumFunction([p \in TemplateGroup(template, c) |-> p[2].value]) \in Int
  BY TemplateGroupIsFinite, SumType
<1>3. value # None
  BY <1>2, NumbersAreValues
<1> HIDE DEF value, key
<1>4. /\ Shown(state) => shown # None
      /\ ~Shown(state) => shown = None
  BY <1>3 DEF Shown
<1>5. covered \in SUBSET UnitsOf(template) /\ IsFiniteSet(UnitsOf(template))
  BY TemplateGroupIsFinite, UnitsOfATemplate
<1> HIDE DEF state, shown, covered
<1>6. /\ SliceFits(Slice(key, state, shown, "SAMPLE_INSUFFICIENT", covered, UnitsOf(template)))
      /\ Slice(key, state, shown, "SAMPLE_INSUFFICIENT", covered, UnitsOf(template)).key = key
  BY <1>4, <1>5, SliceFitsWhen
<1>7. QED
  BY <1>1, <1>6 DEF key

LEMMA TemplateCostFits == EvidenceOK => ResultFits(TemplateCost)
<1> SUFFICES ASSUME EvidenceOK PROVE ResultFits(TemplateCost)
  OBVIOUS
<1>1. CASE UnitUsage = {}
  <2>1. TemplateCost = Unavailable(Coverage(0, Cardinality(TemplateUnits)))
    BY <1>1 DEF TemplateCost
  <2>2. QED
    BY <2>1, UnitsAreFinite, UnavailableFits
<1>2. CASE UnitUsage # {}
  <2>1. TemplateCost = {TemplateCostSlice(p[1].template, p[2].coordinate) : p \in UnitUsage}
    BY <1>2 DEF TemplateCost
  <2>2. \A s \in TemplateCost : \E template, c : s = TemplateCostSlice(template, c)
    BY <2>1
  <2>3. \A s \in TemplateCost : SliceFits(s) /\ s.key # Scalar
    BY <2>2, TemplateCostSliceFits, KeysAreNotScalar
  <2>4. \A s, t \in TemplateCost : s.key = t.key => s = t
    <3> SUFFICES ASSUME NEW s \in TemplateCost, NEW t \in TemplateCost, s.key = t.key PROVE s = t
      OBVIOUS
    <3>1. PICK a, c : s = TemplateCostSlice(a, c)
      BY <2>2
    <3>2. PICK b, d : t = TemplateCostSlice(b, d)
      BY <2>2
    <3>3. <<a, c>> = <<b, d>>
      BY <3>1, <3>2, TemplateCostSliceFits
    <3>4. a = b /\ c = d
      BY <3>3
    <3>5. QED
      BY <3>1, <3>2, <3>4
  <2>5. TemplateCost # {}
    BY <1>2, <2>1
  <2>6. QED
    BY <2>3, <2>4, <2>5, KeyedResultFits
<1>3. QED
  BY <1>1, <1>2

(* Whatever Facts and spans a side has read, in whatever order, the        *)
(* response model accepts every Metric Result.                             *)
THEOREM EveryResultFitsHolds == RoleSpec => []EveryResultFits
<1>1. EvidenceOK => EveryResultFits
  <2> SUFFICES ASSUME EvidenceOK PROVE EveryResultFits
    OBVIOUS
  <2>1. ResultsFit
    BY TerminalOutcomeRateFits, StageReachFits, CycleTimeFits, PartialCostFits, EligibilityFits
       DEF ResultsFit
  <2>2. ResultFits(AttributableCost)
    BY NoInputFits DEF AttributableCost
  <2>3. CallResultsFit
    BY <2>2, LatencyFits, TokenUsageFits DEF CallResultsFit, CallResults
  <2>4. QED
    BY <2>1, <2>3, RoleModelOutcomeRateFits, ReworkRateFits, TemplateCostFits DEF EveryResultFits
<1>2. QED
  BY <1>1, EvidenceStaysOK, PTL

-----------------------------------------------------------------------------
(* The cost of a template within the cost of the trajectories *)

LEMMA TemplateCostIsPart ==
  EvidenceOK => \A template, c :
    /\ TemplateCostSlice(template, c).coverage.numerator <= CostSlice(c).coverage.numerator
    /\ TemplateCostSlice(template, c).coverage.numerator = CostSlice(c).coverage.numerator
         => /\ TemplateCostSlice(template, c).value = CostSlice(c).value
            /\ TemplateCostSlice(template, c).state = CostSlice(c).state
<1> SUFFICES ASSUME EvidenceOK, NEW template, NEW c
             PROVE  /\ TemplateCostSlice(template, c).coverage.numerator <= CostSlice(c).coverage.numerator
                    /\ TemplateCostSlice(template, c).coverage.numerator = CostSlice(c).coverage.numerator
                         => /\ TemplateCostSlice(template, c).value = CostSlice(c).value
                            /\ TemplateCostSlice(template, c).state = CostSlice(c).state
  OBVIOUS
<1> DEFINE units == CostUnits(template, c)
           group == TemplateGroup(template, c)
           trips == CostCovered(c)
           f == [unit \in units |-> unit.delivery]
           b == [p \in group |-> p[2]]
           part == [p \in group |-> p[2].value]
           total == [fact \in CostGroup(c) |-> fact.value]
<1>1. /\ TemplateCostSlice(template, c).coverage.numerator = Cardinality(units)
      /\ CostSlice(c).coverage.numerator = Cardinality(trips)
  BY TemplateCostSliceIs DEF CostSlice, Slice, Covering, Coverage, CostCovered, CostGroup
<1>2. /\ IsFiniteSet(units) /\ IsFiniteSet(trips) /\ IsFiniteSet(group) /\ IsFiniteSet(CostGroup(c))
      /\ Cardinality(units) \in Nat /\ Cardinality(trips) \in Nat
      /\ part \in [group -> Int] /\ total \in [CostGroup(c) -> Int]
      /\ units \in SUBSET UnitsOf(template)
  BY TemplateGroupIsFinite, CostGroupIsFinite, FS_CardinalityType
<1>3. \A p \in group : p[2] \in CostGroup(c) /\ p[2].delivery = p[1].delivery
  BY TemplateGroupIs
<1>4. f \in Injection(units, trips)
  <2>1. \A unit \in units : unit.delivery \in trips
    BY <1>3 DEF CostUnits, CostCovered
  <2>2. \A u, v \in units : u.delivery = v.delivery => u = v
    <3>1. \A u \in units : u = [delivery |-> u.delivery, template |-> template]
      BY <1>2, UnitsAre DEF UnitsOf
    <3>2. QED
      BY <3>1
  <2>3. QED
    BY <2>1, <2>2 DEF Injection, IsInjective
<1>5. /\ Cardinality(units) <= Cardinality(trips)
      /\ Cardinality(units) = Cardinality(trips) => f \in Surjection(units, trips)
  <2> HIDE DEF f, units, trips
  <2>1. QED
    BY <1>2, <1>4, FS_Injection
<1>6. ASSUME Cardinality(units) = Cardinality(trips)
      PROVE  {p[2] : p \in group} = CostGroup(c)
  <2>1. \A d \in trips : \E unit \in units : unit.delivery = d
    BY <1>5, <1>6 DEF Surjection
  <2>2. ASSUME NEW fact \in CostGroup(c) PROVE \E p \in group : p[2] = fact
    <3>1. fact.delivery \in trips
      BY DEF CostCovered
    <3>2. PICK unit \in units : unit.delivery = fact.delivery
      BY <2>1, <3>1
    <3>3. unit \in UnitsOf(template) /\ unit \in TemplateUnits
      BY <1>2 DEF UnitsOf
    <3>4. fact \in Usage
      BY DEF CostGroup
    <3>5. <<unit, fact>> \in group
      BY <3>2, <3>3, <3>4, TemplateGroupIs
    <3>6. QED
      BY <3>5
  <2>3. QED
    BY <1>3, <2>2
<1>7. ASSUME Cardinality(units) = Cardinality(trips)
      PROVE  SumFunction(part) = SumFunction(total)
  <2>1. b \in [group -> CostGroup(c)]
    BY <1>3
  <2>2. \A p, q \in group : b[p] = b[q] => p = q
    BY UsageOnce
  <2>3. \A fact \in CostGroup(c) : \E p \in group : b[p] = fact
    BY <1>6, <1>7
  <2>4. \A p \in group : part[p] = total[b[p]]
    BY <1>3
  <2> HIDE DEF b, part, total, group
  <2>5. QED
    BY <1>2, <2>1, <2>2, <2>3, <2>4, SumAlongBijection
<1>8. ASSUME Cardinality(units) = Cardinality(trips)
      PROVE  /\ TemplateCostSlice(template, c).value = CostSlice(c).value
             /\ TemplateCostSlice(template, c).state = CostSlice(c).state
  <2>1. SampleSuffices(units) = SampleSuffices(trips)
    BY <1>8 DEF SampleSuffices
  <2>2. /\ TemplateCostSlice(template, c).value
             = IF SampleSuffices(units) THEN <<SumFunction(part)>> ELSE None
        /\ TemplateCostSlice(template, c).state
             = IF ~SampleSuffices(units) THEN "UNAVAILABLE"
               ELSE IF HasLowerBound({p[2] : p \in group}) THEN "LOWER_BOUND" ELSE "AVAILABLE"
    BY TemplateCostSliceIs DEF Slice
  <2>3. /\ CostSlice(c).value = IF SampleSuffices(trips) THEN <<SumFunction(total)>> ELSE None
        /\ CostSlice(c).state
             = IF ~SampleSuffices(trips) THEN "UNAVAILABLE"
               ELSE IF HasLowerBound(CostGroup(c)) THEN "LOWER_BOUND" ELSE "AVAILABLE"
    BY DEF CostSlice, Slice, CostCovered, CostGroup
  <2>4. {p[2] : p \in group} = CostGroup(c) /\ SumFunction(part) = SumFunction(total)
    BY <1>6, <1>7, <1>8
  <2>5. HasLowerBound({p[2] : p \in group}) = HasLowerBound(CostGroup(c))
    BY <2>4, Zenon
  <2> HIDE DEF units, trips, part, total, group
  <2>6. TemplateCostSlice(template, c).value = CostSlice(c).value
    <3>1. <<SumFunction(part)>> = <<SumFunction(total)>>
      BY <2>4
    <3>2. CASE SampleSuffices(units)
      <4>1. SampleSuffices(trips)
        BY <2>1, <3>2
      <4>2. QED
        BY <2>2, <2>3, <3>1, <3>2, <4>1
    <3>3. CASE ~SampleSuffices(units)
      <4>1. ~SampleSuffices(trips)
        BY <2>1, <3>3
      <4>2. QED
        BY <2>2, <2>3, <3>3, <4>1
    <3>4. QED
      BY <3>2, <3>3
  <2>7. TemplateCostSlice(template, c).state = CostSlice(c).state
    BY <2>1, <2>2, <2>3, <2>5, Zenon
  <2>8. QED
    BY <2>6, <2>7
<1>9. QED
  BY <1>1, <1>5, <1>8

(* The cost of a template is a part of the cost of the trajectories; where *)
(* its units are all the Deliveries that report a coordinate, it is that   *)
(* cost, no Usage of a Delivery in two Tasks counted twice.                *)
THEOREM TemplateCostWithinTotalHolds == RoleSpec => []TemplateCostWithinTotal
<1>1. EvidenceOK => TemplateCostWithinTotal
  <2> SUFFICES ASSUME EvidenceOK, NEW s \in TemplateCost, s.key # Scalar
               PROVE  \E q \in PartialCost :
                        /\ q.key = <<s.key[2]>>
                        /\ s.coverage.numerator <= q.coverage.numerator
                        /\ s.coverage.numerator = q.coverage.numerator
                             => s.value = q.value /\ s.state = q.state
    BY DEF TemplateCostWithinTotal
  <2>1. UnitUsage # {}
    BY DEF TemplateCost, Unavailable
  <2>2. PICK p \in UnitUsage : s = TemplateCostSlice(p[1].template, p[2].coordinate)
    BY <2>1 DEF TemplateCost
  <2> DEFINE c == p[2].coordinate
  <2>3. c \in CostCoordinates
    BY DEF UnitUsage, CostCoordinates
  <2>4. CostSlice(c) \in PartialCost
    BY <2>3 DEF PartialCost
  <2>5. s.key = <<p[1].template, c>> /\ CostSlice(c).key = <<c>>
    BY <2>2, TemplateCostSliceFits, CostSliceShows
  <2>6. s.key[2] = c
    BY <2>5
  <2> HIDE DEF c
  <2>7. /\ s.coverage.numerator <= CostSlice(c).coverage.numerator
        /\ s.coverage.numerator = CostSlice(c).coverage.numerator
             => s.value = CostSlice(c).value /\ s.state = CostSlice(c).state
    BY <2>2, TemplateCostIsPart DEF c
  <2>8. QED
    BY <2>4, <2>5, <2>6, <2>7
<1>2. QED
  BY <1>1, EvidenceStaysOK, PTL

-----------------------------------------------------------------------------
(* Shares of the terminal Deliveries *)

LEMMA CoveringIs ==
  \A covered, population :
    /\ Covering(covered, population).numerator = Cardinality(covered)
    /\ Covering(covered, population).denominator = Cardinality(population)
BY DEF Covering, Coverage

LEMMA SharesCover ==
  \A keysOf, population : \A s \in Shares(keysOf, population) :
    s.coverage = Covering(DOMAIN keysOf, population)
<1> TAKE keysOf, population
<1>1. CASE DOMAIN keysOf = {}
  <2>1. Shares(keysOf, population) = Unavailable(Covering(DOMAIN keysOf, population))
    BY <1>1 DEF Shares
  <2>2. QED
    BY <2>1 DEF Unavailable
<1>2. CASE DOMAIN keysOf # {}
  <2>1. \A s \in Shares(keysOf, population) : \E key, value :
          s = Slice(key, "AVAILABLE", value, "MISSING_INPUT", DOMAIN keysOf, population)
    BY <1>2 DEF Shares
  <2>2. QED
    BY <2>1 DEF Slice
<1>3. QED
  BY <1>1, <1>2

OutcomeShare(outcome) ==
  Slice(<<outcome>>, "AVAILABLE",
        <<Cardinality({d \in Terminal : Outcome(d) = outcome}), Cardinality(Terminal)>>,
        "MISSING_INPUT", Terminal, Deliveries)

LEMMA OutcomeSharesAre ==
  Terminal # {} => TerminalOutcomeRate = {OutcomeShare(Outcome(d)) : d \in Terminal}
<1> SUFFICES ASSUME Terminal # {}
             PROVE  TerminalOutcomeRate = {OutcomeShare(Outcome(d)) : d \in Terminal}
  OBVIOUS
<1> DEFINE keysOf == [d \in Terminal |-> {Outcome(d)}]
           share(key) == Slice(<<key>>, "AVAILABLE",
              <<Cardinality({d \in Terminal : key \in keysOf[d]}), Cardinality(Terminal)>>,
              "MISSING_INPUT", Terminal, Deliveries)
<1>1. DOMAIN keysOf = Terminal
  OBVIOUS
<1>2. TerminalOutcomeRate = {share(key) : key \in UNION Range(keysOf)}
  BY <1>1 DEF TerminalOutcomeRate, Shares
<1>3. UNION Range(keysOf) = {Outcome(d) : d \in Terminal}
  BY DEF Range
<1>4. \A key : share(key) = OutcomeShare(key)
  <2> TAKE key
  <2>1. {d \in Terminal : key \in keysOf[d]} = {d \in Terminal : Outcome(d) = key}
    OBVIOUS
  <2>2. QED
    BY <2>1 DEF OutcomeShare
<1> HIDE DEF share, keysOf
<1>5. QED
  BY <1>2, <1>3, <1>4

LEMMA OutcomesShareOut ==
  Terminal # {} =>
    SumFunction([s \in TerminalOutcomeRate |-> s.value[1]]) = Cardinality(Terminal)
<1> SUFFICES ASSUME Terminal # {}
             PROVE  SumFunction([s \in TerminalOutcomeRate |-> s.value[1]]) = Cardinality(Terminal)
  OBVIOUS
<1> DEFINE g == [d \in Terminal |-> OutcomeShare(Outcome(d))]
           h == [s \in TerminalOutcomeRate |-> s.value[1]]
           T == {g[d] : d \in Terminal}
<1>1. TerminalOutcomeRate = T
  BY OutcomeSharesAre
<1>2. IsFiniteSet(T)
  <2>1. g = [d \in Terminal |-> g[d]]
    OBVIOUS
  <2> HIDE DEF g
  <2>2. QED
    BY <2>1, TerminalIsFinite, ImageIsSmaller
<1>3. \A o : OutcomeShare(o).key = <<o>>
               /\ OutcomeShare(o).value[1] = Cardinality({d \in Terminal : Outcome(d) = o})
  BY DEF OutcomeShare, Slice
<1>4. \A s \in T : s.value[1] = Cardinality({d \in Terminal : g[d] = s})
  <2> SUFFICES ASSUME NEW s \in T PROVE s.value[1] = Cardinality({d \in Terminal : g[d] = s})
    OBVIOUS
  <2>1. PICK e \in Terminal : s = OutcomeShare(Outcome(e))
    OBVIOUS
  <2>2. \A d \in Terminal : g[d] = s <=> Outcome(d) = Outcome(e)
    <3> TAKE d \in Terminal
    <3>1. g[d] = s => <<Outcome(d)>> = <<Outcome(e)>>
      BY <2>1, <1>3
    <3>2. QED
      BY <2>1, <3>1
  <2>3. {d \in Terminal : g[d] = s} = {d \in Terminal : Outcome(d) = Outcome(e)}
    BY <2>2
  <2>4. QED
    BY <2>1, <2>3, <1>3
<1>5. h = [s \in T |-> Cardinality({d \in Terminal : g[d] = s})]
  BY <1>1, <1>4
<1>6. g \in [Terminal -> T]
  OBVIOUS
<1> HIDE DEF g, h, T
<1>7. SumFunction(h) = Cardinality(Terminal)
  BY <1>2, <1>5, <1>6, TerminalIsFinite, SumOfParts
<1>8. QED
  BY <1>7 DEF h

(* The Deliveries of an eligible Task are terminal, with one outcome.      *)
LEMMA EligibleTasksAre ==
  \A t \in Eligible :
    /\ Memberships[t] # {} /\ Memberships[t] \subseteq Terminal
    /\ \A d, e \in Memberships[t] : Outcome(d) = Outcome(e)
<1> SUFFICES ASSUME NEW t \in Eligible
             PROVE  /\ Memberships[t] # {} /\ Memberships[t] \subseteq Terminal
                    /\ \A d, e \in Memberships[t] : Outcome(d) = Outcome(e)
  OBVIOUS
<1> DEFINE outcomes == {Outcome(d) : d \in Memberships[t]}
<1>0. t \in Tasks /\ Classification(t) = "ELIGIBLE"
  BY DEF Eligible, Classified
<1>1. outcomes # {} /\ None \notin outcomes /\ ~(Cardinality(outcomes) > 1)
  <2> HIDE DEF outcomes
  <2>1. Classification(t) =
          CASE outcomes = {} -> "UNDEFINED_TASK_MEMBERSHIP"
            [] None \in outcomes -> "OPEN_DELIVERY"
            [] None \notin outcomes /\ Cardinality(outcomes) > 1 -> "MIXED_DELIVERY_OUTCOMES"
            [] OTHER -> "ELIGIBLE"
    BY DEF Classification, outcomes
  <2>2. QED
    BY <1>0, <2>1
<1>2. IsFiniteSet(Memberships[t]) /\ Memberships[t] \in SUBSET Deliveries
  BY <1>0, DeliveryAssumption, FS_Subset
<1>3. IsFiniteSet(outcomes) /\ Cardinality(outcomes) \in Nat
  <2> DEFINE f == [d \in Memberships[t] |-> Outcome(d)]
             T == {f[d] : d \in Memberships[t]}
  <2>1. f = [d \in Memberships[t] |-> f[d]] /\ outcomes = T
    OBVIOUS
  <2> HIDE DEF f, outcomes
  <2>2. QED
    BY <1>2, <2>1, ImageIsSmaller
<1>4. \A x, y \in outcomes : x = y
  <2> HIDE DEF outcomes
  <2>1. Cardinality(outcomes) <= 1
    BY <1>1, <1>3
  <2>2. QED
    BY <1>3, <2>1, OneElement
<1>5. Memberships[t] \subseteq Terminal
  BY <1>1, <1>2 DEF Terminal
<1>6. QED
  BY <1>1, <1>4, <1>5

(* The shares of the outcomes add up to the terminal Deliveries, and the   *)
(* other calculators count the same ones, those of eligible Tasks among    *)
(* them.                                                                   *)
THEOREM TerminalDeliveriesAgreeHolds == RoleSpec => []TerminalDeliveriesAgree
<1>1. TerminalDeliveriesAgree
  <2>1. \A s \in TerminalOutcomeRate : s.coverage.numerator = Cardinality(Terminal)
    <3>1. DOMAIN [d \in Terminal |-> {Outcome(d)}] = Terminal
      OBVIOUS
    <3>2. QED
      BY <3>1, SharesCover, CoveringIs DEF TerminalOutcomeRate
  <2>2. \A q \in StageReach : q.coverage.denominator = Cardinality(Terminal)
    BY SharesCover, CoveringIs DEF StageReach
  <2>3. \A q \in CycleTime : q.coverage.denominator = Cardinality(Terminal)
    <3>1. \A q \in CycleTime : \E covered : q.coverage = Covering(covered, Terminal)
      BY DEF CycleTime, Unavailable, Slice
    <3>2. QED
      BY <3>1, CoveringIs
  <2>4. ASSUME NEW t \in Classified("ELIGIBLE")
        PROVE  /\ Memberships[t] # {} /\ Memberships[t] \subseteq Terminal
               /\ \E s \in TerminalOutcomeRate : \A d \in Memberships[t] : s.key = <<Outcome(d)>>
    <3>1. /\ Memberships[t] # {} /\ Memberships[t] \subseteq Terminal
          /\ \A d, e \in Memberships[t] : Outcome(d) = Outcome(e)
      BY EligibleTasksAre DEF Eligible
    <3>2. PICK d \in Memberships[t] : d \in Terminal
      BY <3>1
    <3>3. PICK s \in TerminalOutcomeRate : s.key = <<Outcome(d)>>
      BY <3>2, TerminalOutcomesShow
    <3>4. \A e \in Memberships[t] : s.key = <<Outcome(e)>>
      BY <3>1, <3>3
    <3>5. QED
      BY <3>1, <3>4
  <2>5. QED
    BY <2>1, <2>2, <2>3, <2>4, OutcomesShareOut DEF TerminalDeliveriesAgree
<1>2. QED
  BY <1>1, PTL

-----------------------------------------------------------------------------
(* Shares of the Tasks of a cohort *)

ShownOf(cohort) == {s \in RoleModelOutcomeRate : s.key[1] = cohort /\ s.value # None}

LEMMA ShownOfIs ==
  \A cohort \in RoleModelCohorts :
    /\ ShownOf(cohort) # {} => SampleSuffices(RoleModelTasks(cohort))
    /\ SampleSuffices(RoleModelTasks(cohort)) =>
         ShownOf(cohort) = {RoleModelSlice(cohort, TaskOutcome(t)) : t \in RoleModelTasks(cohort)}
<1> SUFFICES ASSUME NEW cohort \in RoleModelCohorts
             PROVE  /\ ShownOf(cohort) # {} => SampleSuffices(RoleModelTasks(cohort))
                    /\ SampleSuffices(RoleModelTasks(cohort)) =>
                         ShownOf(cohort)
                           = {RoleModelSlice(cohort, TaskOutcome(t)) : t \in RoleModelTasks(cohort)}
  OBVIOUS
<1>1. \A s \in ShownOf(cohort) : \E t \in RoleModelTasks(cohort) :
         s = RoleModelSlice(cohort, TaskOutcome(t)) /\ s.value # None
  <2> SUFFICES ASSUME NEW s \in ShownOf(cohort)
               PROVE  \E t \in RoleModelTasks(cohort) :
                        s = RoleModelSlice(cohort, TaskOutcome(t)) /\ s.value # None
    OBVIOUS
  <2>1. s \in RoleModelOutcomeRate /\ s.key[1] = cohort /\ s.value # None
    BY DEF ShownOf
  <2>2. PICK other \in RoleModelCohorts : \E t \in RoleModelTasks(other) : s = RoleModelSlice(other, TaskOutcome(t))
    BY <2>1, RoleModelOutcomeRateIs
  <2>3. PICK t \in RoleModelTasks(other) : s = RoleModelSlice(other, TaskOutcome(t))
    BY <2>2
  <2>4. s.key = <<other, TaskOutcome(t)>>
    BY <2>3, RoleModelSliceFits
  <2>5. other = cohort
    BY <2>1, <2>4
  <2>6. QED
    BY <2>1, <2>3, <2>5
<1>2. \A t \in RoleModelTasks(cohort) :
        SampleSuffices(RoleModelTasks(cohort)) => RoleModelSlice(cohort, TaskOutcome(t)) \in ShownOf(cohort)
  <2> SUFFICES ASSUME NEW t \in RoleModelTasks(cohort), SampleSuffices(RoleModelTasks(cohort))
               PROVE  RoleModelSlice(cohort, TaskOutcome(t)) \in ShownOf(cohort)
    OBVIOUS
  <2>1. RoleModelSlice(cohort, TaskOutcome(t)) \in RoleModelOutcomeRate
    BY RoleModelOutcomeRateIs
  <2>2. /\ RoleModelSlice(cohort, TaskOutcome(t)).key = <<cohort, TaskOutcome(t)>>
        /\ RoleModelSlice(cohort, TaskOutcome(t)).value # None
    BY RoleModelSliceFits
  <2>3. QED
    BY <2>1, <2>2 DEF ShownOf
<1>3. ShownOf(cohort) # {} => SampleSuffices(RoleModelTasks(cohort))
  BY <1>1, RoleModelSliceFits
<1>4. SampleSuffices(RoleModelTasks(cohort)) =>
         ShownOf(cohort) = {RoleModelSlice(cohort, TaskOutcome(t)) : t \in RoleModelTasks(cohort)}
  <2> SUFFICES ASSUME SampleSuffices(RoleModelTasks(cohort))
               PROVE  ShownOf(cohort) = {RoleModelSlice(cohort, TaskOutcome(t)) : t \in RoleModelTasks(cohort)}
    OBVIOUS
  <2>1. \A t \in RoleModelTasks(cohort) : RoleModelSlice(cohort, TaskOutcome(t)) \in ShownOf(cohort)
    BY <1>2
  <2>2. \A s \in ShownOf(cohort) : \E t \in RoleModelTasks(cohort) : s = RoleModelSlice(cohort, TaskOutcome(t))
    BY <1>1
  <2>3. QED
    BY <2>1, <2>2
<1>5. QED
  BY <1>3, <1>4

LEMMA CohortSharesAddUp ==
  \A cohort \in RoleModelCohorts :
    ShownOf(cohort) # {} =>
      SumFunction([s \in ShownOf(cohort) |-> s.value[1]]) = Cardinality(RoleModelTasks(cohort))
<1> SUFFICES ASSUME NEW cohort \in RoleModelCohorts, ShownOf(cohort) # {}
             PROVE  SumFunction([s \in ShownOf(cohort) |-> s.value[1]])
                      = Cardinality(RoleModelTasks(cohort))
  OBVIOUS
<1> DEFINE tasks == RoleModelTasks(cohort)
           g == [t \in tasks |-> RoleModelSlice(cohort, TaskOutcome(t))]
           h == [s \in ShownOf(cohort) |-> s.value[1]]
           T == {g[t] : t \in tasks}
<1>1. ShownOf(cohort) = T /\ SampleSuffices(tasks)
  BY ShownOfIs
<1>2. IsFiniteSet(tasks)
  BY RoleModelTasksAreFinite
<1>3. IsFiniteSet(T)
  <2>1. g = [t \in tasks |-> g[t]]
    OBVIOUS
  <2> HIDE DEF g, tasks
  <2>2. QED
    BY <1>2, <2>1, ImageIsSmaller
<1>4. \A o : /\ RoleModelSlice(cohort, o).key = <<cohort, o>>
             /\ RoleModelSlice(cohort, o).value[1] = Cardinality({t \in tasks : TaskOutcome(t) = o})
  <2> TAKE o
  <2>1. RoleModelSlice(cohort, o).value # None
    BY <1>1, RoleModelSliceFits
  <2>2. RoleModelSlice(cohort, o).value = <<Cardinality(WithOutcome(cohort, o)), Cardinality(tasks)>>
    BY <2>1, RoleModelSliceFits
  <2>3. RoleModelSlice(cohort, o).value[1] = Cardinality(WithOutcome(cohort, o))
    BY <2>2
  <2>4. QED
    BY <2>3, RoleModelSliceFits DEF WithOutcome
<1>5. \A s \in T : s.value[1] = Cardinality({t \in tasks : g[t] = s})
  <2> SUFFICES ASSUME NEW s \in T PROVE s.value[1] = Cardinality({t \in tasks : g[t] = s})
    OBVIOUS
  <2>1. PICK e \in tasks : s = RoleModelSlice(cohort, TaskOutcome(e))
    OBVIOUS
  <2>2. \A t \in tasks : g[t] = s <=> TaskOutcome(t) = TaskOutcome(e)
    <3> TAKE t \in tasks
    <3>1. g[t] = s => <<cohort, TaskOutcome(t)>> = <<cohort, TaskOutcome(e)>>
      BY <2>1, <1>4
    <3>2. QED
      BY <2>1, <3>1
  <2>3. {t \in tasks : g[t] = s} = {t \in tasks : TaskOutcome(t) = TaskOutcome(e)}
    BY <2>2
  <2>4. QED
    BY <2>1, <2>3, <1>4
<1>6. h = [s \in T |-> Cardinality({t \in tasks : g[t] = s})]
  BY <1>1, <1>5
<1>7. g \in [tasks -> T]
  OBVIOUS
<1> HIDE DEF g, h, T, tasks
<1>8. SumFunction(h) = Cardinality(tasks)
  BY <1>2, <1>3, <1>6, <1>7, SumOfParts
<1>9. QED
  BY <1>8 DEF h, tasks

(* The outcome shares of a cohort are shares of the same Tasks, complete,  *)
(* and these are among the Tasks the eligibility metric counts.            *)
THEOREM OutcomeSharesAddUpHolds == RoleSpec => []OutcomeSharesAddUp
<1>1. OutcomeSharesAddUp
  <2> SUFFICES ASSUME NEW cohort \in RoleModelCohorts, NEW s \in ShownOf(cohort)
               PROVE  LET total == SumFunction([r \in ShownOf(cohort) |-> r.value[1]]) IN
                      /\ s.value[2] = total
                      /\ total <= Cardinality(Tasks) /\ Eligibility.value # None
                      /\ total <= Eligibility.value[1]
    BY DEF OutcomeSharesAddUp, ShownOf
  <2> DEFINE tasks == RoleModelTasks(cohort)
  <2>1. SumFunction([r \in ShownOf(cohort) |-> r.value[1]]) = Cardinality(tasks)
    BY CohortSharesAddUp
  <2>2. SampleSuffices(tasks) /\ ShownOf(cohort) = {RoleModelSlice(cohort, TaskOutcome(t)) : t \in tasks}
    BY ShownOfIs
  <2>3. s.value[2] = Cardinality(tasks)
    <3>1. PICK t \in tasks : s = RoleModelSlice(cohort, TaskOutcome(t))
      BY <2>2
    <3>2. s.value # None
      BY DEF ShownOf
    <3>3. s.value = <<Cardinality(WithOutcome(cohort, TaskOutcome(t))), Cardinality(tasks)>>
      BY <3>1, <3>2, RoleModelSliceFits
    <3>4. QED
      BY <3>3
  <2>4. /\ tasks \in SUBSET Classified("ELIGIBLE") /\ Cardinality(tasks) \in Nat
        /\ Cardinality(tasks) <= Cardinality(Classified("ELIGIBLE"))
        /\ Cardinality(Classified("ELIGIBLE")) <= Cardinality(Tasks)
        /\ Cardinality(Classified("ELIGIBLE")) \in Nat /\ Cardinality(Tasks) \in Nat
    <3>1. tasks \in SUBSET Classified("ELIGIBLE")
      BY RoleModelTasksAreFinite DEF Eligible
    <3>2. QED
      BY <3>1, TasksAreFinite, SubsetIsSmaller
  <2>5. SampleSuffices(Tasks)
    BY <2>2, <2>4, DeliveryAssumption DEF SampleSuffices
  <2>6. Eligibility.value = <<Cardinality(Classified("ELIGIBLE")), Cardinality(Tasks)>>
    BY <2>5 DEF Eligibility, Slice
  <2>7. Eligibility.value # None /\ Eligibility.value[1] = Cardinality(Classified("ELIGIBLE"))
    BY <2>4, <2>6, NumbersAreValues
  <2>8. QED
    BY <2>1, <2>3, <2>4, <2>7
<1>2. QED
  BY <1>1, PTL

-----------------------------------------------------------------------------
(* Every call in one slice *)

CompleteCalls == {call \in Calls : call.cohort # None}

LEMMA GroupsAre ==
  EvidenceOK =>
    /\ IsFiniteSet(CompleteCalls) /\ Cardinality(CompleteCalls) \in Nat
    /\ \A call \in CompleteCalls : call.cohort \in Cohorts
    /\ \A cohort \in Cohorts :
         /\ GroupOf(cohort) = {call \in CompleteCalls : call.cohort = cohort}
         /\ GroupOf(cohort) \in SUBSET Calls /\ GroupOf(cohort) # {}
         /\ IsFiniteSet(GroupOf(cohort)) /\ Cardinality(GroupOf(cohort)) \in Nat
<1> SUFFICES ASSUME EvidenceOK
             PROVE  /\ IsFiniteSet(CompleteCalls) /\ Cardinality(CompleteCalls) \in Nat
                    /\ \A call \in CompleteCalls : call.cohort \in Cohorts
                    /\ \A cohort \in Cohorts :
                         /\ GroupOf(cohort) = {call \in CompleteCalls : call.cohort = cohort}
                         /\ GroupOf(cohort) \in SUBSET Calls /\ GroupOf(cohort) # {}
                         /\ IsFiniteSet(GroupOf(cohort)) /\ Cardinality(GroupOf(cohort)) \in Nat
  OBVIOUS
<1>1. CompleteCalls \in SUBSET Calls
  BY DEF CompleteCalls
<1>2. IsFiniteSet(CompleteCalls) /\ Cardinality(CompleteCalls) \in Nat
  BY <1>1, CallsAreFinite, SubsetIsSmaller
<1>3. \A call \in CompleteCalls : call.cohort \in Cohorts
  BY DEF CompleteCalls, Cohorts
<1>4. \A cohort \in Cohorts : /\ GroupOf(cohort) = {call \in CompleteCalls : call.cohort = cohort}
                              /\ GroupOf(cohort) \in SUBSET Calls /\ GroupOf(cohort) # {}
  BY DEF Cohorts, GroupOf, CompleteCalls
<1>5. \A cohort \in Cohorts : IsFiniteSet(GroupOf(cohort)) /\ Cardinality(GroupOf(cohort)) \in Nat
  BY <1>4, CallsAreFinite, SubsetIsSmaller
<1>6. QED
  BY <1>2, <1>3, <1>4, <1>5

(* A covered call comes from a span whose measurements are available. *)
LEMMA CoveredCallsAreAvailable ==
  EvidenceOK => \A cohort \in Cohorts : \A field \in Fields :
    Cardinality(CoveredCalls(field, GroupOf(cohort)))
      <= Cardinality({n \in nodes : n.calls /\ n.available /\ n.cohort = cohort})
<1> SUFFICES ASSUME EvidenceOK, NEW cohort \in Cohorts, NEW field \in Fields
             PROVE  Cardinality(CoveredCalls(field, GroupOf(cohort)))
                      <= Cardinality({n \in nodes : n.calls /\ n.available /\ n.cohort = cohort})
  OBVIOUS
<1> DEFINE S == {n \in nodes : n.calls /\ n.available /\ n.cohort = cohort}
           f == [n \in S |-> Call(n)]
           T == {f[n] : n \in S}
           covered == CoveredCalls(field, GroupOf(cohort))
<1>1. IsFiniteSet(S) /\ Cardinality(S) \in Nat
  BY FS_Subset, FS_CardinalityType DEF EvidenceOK
<1>2. ASSUME NEW call \in covered PROVE call \in T
  <2>1. call \in Calls /\ call.cohort = cohort /\ call[field] # None
    BY DEF CoveredCalls, GroupOf
  <2>2. PICK n \in nodes : n.calls /\ call = Call(n)
    BY <2>1 DEF Calls
  <2>3. n.cohort = cohort
    BY <2>1, <2>2 DEF Call
  <2>4. n.available
    <3>1. CASE field = "duration"
      BY <3>1, <2>1, <2>2 DEF Call, Duration
    <3>2. CASE field = "input"
      BY <3>2, <2>1, <2>2 DEF Call, MeasuredField
    <3>3. CASE field = "output"
      BY <3>3, <2>1, <2>2 DEF Call, MeasuredField
    <3>4. QED
      BY <3>1, <3>2, <3>3 DEF Fields
  <2>5. n \in S
    BY <2>2, <2>3, <2>4
  <2>6. QED
    BY <2>2, <2>5
<1>3. covered \in SUBSET T
  BY <1>2
<1>4. f = [n \in S |-> f[n]]
  OBVIOUS
<1>5. IsFiniteSet(T) /\ Cardinality(T) \in Nat /\ Cardinality(T) <= Cardinality(S)
  <2> HIDE DEF f, S
  <2>1. QED
    BY <1>1, <1>4, ImageIsSmaller
<1> HIDE DEF T, S, covered
<1>6. Cardinality(covered) <= Cardinality(T) /\ Cardinality(covered) \in Nat
  BY <1>3, <1>5, SubsetIsSmaller
<1>7. Cardinality(covered) <= Cardinality(S)
  BY <1>1, <1>5, <1>6
<1>8. QED
  BY <1>7 DEF S, covered

LEMMA MeasuredSliceAccounts ==
  EvidenceOK => \A cohort \in Cohorts : \A field \in Fields : \A key :
    LET s == MeasuredSlice(key, field, GroupOf(cohort)) IN
      /\ s.coverage.denominator = Cardinality(GroupOf(cohort))
      /\ s.coverage.numerator + Cardinality(s.missing) = s.coverage.denominator
      /\ s.coverage.state = "FULL" <=> s.missing = {}
      /\ s.coverage.numerator <= Cardinality({n \in nodes : n.calls /\ n.available /\ n.cohort = cohort})
<1> SUFFICES ASSUME EvidenceOK, NEW cohort \in Cohorts, NEW field \in Fields, NEW key
             PROVE  LET s == MeasuredSlice(key, field, GroupOf(cohort)) IN
                    /\ s.coverage.denominator = Cardinality(GroupOf(cohort))
                    /\ s.coverage.numerator + Cardinality(s.missing) = s.coverage.denominator
                    /\ s.coverage.state = "FULL" <=> s.missing = {}
                    /\ s.coverage.numerator
                         <= Cardinality({n \in nodes : n.calls /\ n.available /\ n.cohort = cohort})
  OBVIOUS
<1> DEFINE s == MeasuredSlice(key, field, GroupOf(cohort))
           group == GroupOf(cohort)
           covered == CoveredCalls(field, group)
<1>1. /\ group \in SUBSET Calls /\ group # {}
      /\ IsFiniteSet(group) /\ Cardinality(group) \in Nat
  BY GroupsAre
<1>2. s.coverage = Covering(covered, group) /\ s.missing = group \ covered
  BY <1>1, MeasuredSliceFits
<1>3. covered \in SUBSET group /\ IsFiniteSet(covered) /\ Cardinality(covered) \in Nat
  BY <1>1, CoveredCallsAre
<1>4. Cardinality(covered) <= Cardinality({n \in nodes : n.calls /\ n.available /\ n.cohort = cohort})
  BY CoveredCallsAreAvailable
<1> HIDE DEF s, group, covered
<1>5. s.coverage.numerator = Cardinality(covered) /\ s.coverage.denominator = Cardinality(group)
  BY <1>2, CoveringIs
<1>6. Cardinality(group \ covered) = Cardinality(group) - Cardinality(covered)
  <2>1. group \cap covered = covered
    BY <1>3
  <2>2. QED
    BY <1>1, <2>1, FS_Difference
<1>7. Cardinality(group) # 0
  BY <1>1, FS_EmptySet
<1>8. s.coverage.state = "FULL" <=> Cardinality(covered) = Cardinality(group)
  BY <1>1, <1>2, <1>3, <1>7 DEF Covering, Coverage
<1>9. Cardinality(covered) = Cardinality(group) <=> group \ covered = {}
  <2>1. Cardinality(covered) = Cardinality(group) => covered = group
    BY <1>1, <1>3, FS_Subset
  <2>2. group \ covered = {} => covered = group
    BY <1>3
  <2>3. QED
    BY <2>1, <2>2
<1>10. QED
  BY <1>1, <1>2, <1>3, <1>4, <1>5, <1>6, <1>8, <1>9 DEF s, group

LEMMA LatencyAddsUp ==
  EvidenceOK /\ Cohorts # {} =>
    SumFunction([s \in Latency |-> s.coverage.denominator]) = Cardinality(CompleteCalls)
<1> SUFFICES ASSUME EvidenceOK, Cohorts # {}
             PROVE  SumFunction([s \in Latency |-> s.coverage.denominator])
                      = Cardinality(CompleteCalls)
  OBVIOUS
<1> DEFINE g == [call \in CompleteCalls |-> LatencySlice(call.cohort)]
           h == [s \in Latency |-> s.coverage.denominator]
           T == {g[call] : call \in CompleteCalls}
<1>1. Latency = T
  <2>1. Latency = {LatencySlice(cohort) : cohort \in Cohorts}
    BY DEF Latency
  <2>2. Cohorts = {call.cohort : call \in CompleteCalls}
    BY DEF Cohorts, CompleteCalls
  <2>3. QED
    BY <2>1, <2>2
<1>2. IsFiniteSet(CompleteCalls)
  BY GroupsAre
<1>3. IsFiniteSet(T)
  <2>1. g = [call \in CompleteCalls |-> g[call]]
    OBVIOUS
  <2> HIDE DEF g
  <2>2. QED
    BY <1>2, <2>1, ImageIsSmaller
<1>4. \A cohort \in Cohorts :
        /\ LatencySlice(cohort).key = <<cohort>>
        /\ LatencySlice(cohort).coverage.denominator
             = Cardinality({call \in CompleteCalls : call.cohort = cohort})
  <2> TAKE cohort \in Cohorts
  <2>1. LatencySlice(cohort).coverage.denominator = Cardinality(GroupOf(cohort))
    BY MeasuredSliceAccounts DEF LatencySlice, Fields
  <2>2. QED
    BY <2>1, LatencySlicesAre, GroupsAre
<1>5. \A s \in T : s.coverage.denominator = Cardinality({call \in CompleteCalls : g[call] = s})
  <2> SUFFICES ASSUME NEW s \in T
               PROVE  s.coverage.denominator = Cardinality({call \in CompleteCalls : g[call] = s})
    OBVIOUS
  <2>1. PICK own \in CompleteCalls : s = LatencySlice(own.cohort)
    OBVIOUS
  <2>2. \A call \in CompleteCalls : g[call] = s <=> call.cohort = own.cohort
    <3> TAKE call \in CompleteCalls
    <3>1. g[call] = s => <<call.cohort>> = <<own.cohort>>
      BY <2>1, <1>4, GroupsAre
    <3>2. QED
      BY <2>1, <3>1
  <2>3. {call \in CompleteCalls : g[call] = s} = {call \in CompleteCalls : call.cohort = own.cohort}
    BY <2>2
  <2>4. QED
    BY <2>1, <2>3, <1>4, GroupsAre
<1>6. h = [s \in T |-> Cardinality({call \in CompleteCalls : g[call] = s})]
  BY <1>1, <1>5
<1>7. g \in [CompleteCalls -> T]
  OBVIOUS
<1> HIDE DEF g, h, T
<1>8. SumFunction(h) = Cardinality(CompleteCalls)
  BY <1>2, <1>3, <1>6, <1>7, SumOfParts
<1>9. QED
  BY <1>8 DEF h

Directions == {"input", "output"}

LEMMA TokensAddUp ==
  EvidenceOK /\ Cohorts # {} =>
    SumFunction([s \in TokenUsage |-> s.coverage.denominator]) = 2 * Cardinality(CompleteCalls)
<1> SUFFICES ASSUME EvidenceOK, Cohorts # {}
             PROVE  SumFunction([s \in TokenUsage |-> s.coverage.denominator])
                      = 2 * Cardinality(CompleteCalls)
  OBVIOUS
<1> DEFINE S == CompleteCalls \X Directions
           g == [p \in S |-> TokenSlice(p[1].cohort, p[2])]
           h == [s \in TokenUsage |-> s.coverage.denominator]
           T == {g[p] : p \in S}
<1>1. TokenUsage = T
  <2>1. TokenUsage = {TokenSlice(cohort, direction) : cohort \in Cohorts, direction \in Directions}
    BY DEF TokenUsage, Directions
  <2>2. Cohorts = {call.cohort : call \in CompleteCalls}
    BY DEF Cohorts, CompleteCalls
  <2>3. \A s \in TokenUsage : s \in T
    <3> SUFFICES ASSUME NEW s \in TokenUsage PROVE s \in T
      OBVIOUS
    <3>1. PICK cohort \in Cohorts : \E direction \in Directions : s = TokenSlice(cohort, direction)
      BY <2>1
    <3>2. PICK direction \in Directions : s = TokenSlice(cohort, direction)
      BY <3>1
    <3>3. PICK call \in CompleteCalls : cohort = call.cohort
      BY <2>2
    <3>4. <<call, direction>> \in S /\ g[<<call, direction>>] = s
      BY <3>2, <3>3
    <3>5. QED
      BY <3>4
  <2>4. \A s \in T : s \in TokenUsage
    <3> SUFFICES ASSUME NEW p \in S PROVE g[p] \in TokenUsage
      OBVIOUS
    <3>1. p[1].cohort \in Cohorts /\ p[2] \in Directions
      BY <2>2
    <3>2. QED
      BY <2>1, <3>1
  <2> HIDE DEF T
  <2>5. QED
    BY <2>3, <2>4
<1>2. IsFiniteSet(CompleteCalls) /\ Cardinality(CompleteCalls) \in Nat
  BY GroupsAre
<1>3. IsFiniteSet(Directions) /\ Cardinality(Directions) = 2
  <2>1. IsFiniteSet({"input"}) /\ Cardinality({"input"}) = 1
    BY FS_Singleton
  <2>2. Directions = {"input"} \union {"output"} /\ "output" \notin {"input"}
    BY DEF Directions
  <2>3. QED
    BY <2>1, <2>2, FS_AddElement
<1>4. IsFiniteSet(S) /\ Cardinality(S) = 2 * Cardinality(CompleteCalls)
  <2>1. IsFiniteSet(S) /\ Cardinality(S) = Cardinality(CompleteCalls) * Cardinality(Directions)
    BY <1>2, <1>3, FS_Product
  <2>2. QED
    BY <1>2, <1>3, <2>1
<1>5. IsFiniteSet(T)
  <2>1. g = [p \in S |-> g[p]]
    OBVIOUS
  <2> HIDE DEF g, S
  <2>2. QED
    BY <1>4, <2>1, ImageIsSmaller
<1>6. \A cohort \in Cohorts : \A direction \in Directions :
        /\ TokenSlice(cohort, direction).key = <<cohort, direction>>
        /\ TokenSlice(cohort, direction).coverage.denominator
             = Cardinality({call \in CompleteCalls : call.cohort = cohort})
  <2> SUFFICES ASSUME NEW cohort \in Cohorts, NEW direction \in Directions
               PROVE  /\ TokenSlice(cohort, direction).key = <<cohort, direction>>
                      /\ TokenSlice(cohort, direction).coverage.denominator
                           = Cardinality({call \in CompleteCalls : call.cohort = cohort})
    OBVIOUS
  <2>1. TokenSlice(cohort, direction).coverage.denominator = Cardinality(GroupOf(cohort))
    BY MeasuredSliceAccounts DEF TokenSlice, Fields, Directions
  <2>2. QED
    BY <2>1, TokenSlicesAre, GroupsAre DEF Directions
<1>7. \A s \in T : s.coverage.denominator = Cardinality({p \in S : g[p] = s})
  <2> SUFFICES ASSUME NEW s \in T
               PROVE  s.coverage.denominator = Cardinality({p \in S : g[p] = s})
    OBVIOUS
  <2>0. PICK own \in S : s = g[own]
    OBVIOUS
  <2> DEFINE group == {call \in CompleteCalls : call.cohort = own[1].cohort}
  <2>1. own[1] \in CompleteCalls /\ own[2] \in Directions /\ own[1].cohort \in Cohorts
    BY GroupsAre
  <2>2. \A p \in S : g[p] = g[own] <=> p[1].cohort = own[1].cohort /\ p[2] = own[2]
    <3> TAKE p \in S
    <3>1. p[1] \in CompleteCalls /\ p[2] \in Directions /\ p[1].cohort \in Cohorts
      BY GroupsAre
    <3>2. /\ g[p] = TokenSlice(p[1].cohort, p[2])
          /\ g[own] = TokenSlice(own[1].cohort, own[2])
      OBVIOUS
    <3> HIDE DEF g
    <3>3. g[p].key = <<p[1].cohort, p[2]>> /\ g[own].key = <<own[1].cohort, own[2]>>
      BY <1>6, <2>1, <3>1, <3>2
    <3>4. g[p] = g[own] => p[1].cohort = own[1].cohort /\ p[2] = own[2]
      BY <3>3
    <3>5. QED
      BY <3>2, <3>4
  <2>3. {p \in S : g[p] = g[own]} = group \X {own[2]}
    <3>1. \A p \in S : p \in {q \in S : g[q] = g[own]} <=> p \in group \X {own[2]}
      <4> TAKE p \in S
      <4>1. p = <<p[1], p[2]>> /\ p[1] \in CompleteCalls
        OBVIOUS
      <4>2. p \in group \X {own[2]} <=> p[1].cohort = own[1].cohort /\ p[2] = own[2]
        BY <4>1
      <4>3. QED
        BY <2>2, <4>2
    <3>2. \A p \in group \X {own[2]} : p \in S
      BY <2>1
    <3> HIDE DEF g, S, group
    <3>3. QED
      BY <3>1, <3>2
  <2>4. IsFiniteSet(group) /\ Cardinality(group) \in Nat
    BY <1>2, FS_Subset, FS_CardinalityType
  <2>5. IsFiniteSet({own[2]}) /\ Cardinality({own[2]}) = 1
    BY FS_Singleton
  <2>6. Cardinality(group \X {own[2]}) = Cardinality(group) * 1
    <3> HIDE DEF group
    <3>1. Cardinality(group \X {own[2]}) = Cardinality(group) * Cardinality({own[2]})
      BY <2>4, <2>5, FS_Product
    <3>2. QED
      BY <2>5, <3>1
  <2>7. g[own].coverage.denominator = Cardinality(group)
    BY <1>6, <2>1
  <2> HIDE DEF g, S, group
  <2>8. Cardinality(group) * 1 = Cardinality(group)
    BY <2>4
  <2>9. QED
    BY <2>0, <2>3, <2>6, <2>7, <2>8
<1>8. h = [s \in T |-> Cardinality({p \in S : g[p] = s})]
  BY <1>1, <1>7
<1>9. g \in [S -> T]
  OBVIOUS
<1> HIDE DEF g, h, S, T
<1>10. SumFunction(h) = Cardinality(S)
  BY <1>4, <1>5, <1>8, <1>9, SumOfParts
<1>11. QED
  BY <1>4, <1>10 DEF h

(* Every call with a complete coordinate is in the population of exactly   *)
(* one slice of the latency and of one for each direction of the tokens;   *)
(* a slice names as missing what it does not cover, and covers only what   *)
(* was available.                                                          *)
THEOREM CallsAreAccountedForHolds == RoleSpec => []CallsAreAccountedFor
<1>1. EvidenceOK => CallsAreAccountedFor
  <2> SUFFICES ASSUME EvidenceOK, Cohorts # {} PROVE CallsAreAccountedFor
    BY DEF CallsAreAccountedFor
  <2>1. ASSUME NEW s \in Latency \union TokenUsage
        PROVE  /\ s.coverage.numerator + Cardinality(s.missing) = s.coverage.denominator
               /\ s.coverage.state = "FULL" <=> s.missing = {}
               /\ s.coverage.numerator
                    <= Cardinality({n \in nodes : n.calls /\ n.available /\ n.cohort = s.key[1]})
    <3>1. \E cohort \in Cohorts : \E field \in Fields : \E key :
            s = MeasuredSlice(key, field, GroupOf(cohort)) /\ key[1] = cohort
      <4>1. CASE s \in Latency
        <5>1. PICK cohort \in Cohorts : s = LatencySlice(cohort)
          BY <4>1 DEF Latency
        <5>2. QED
          BY <5>1 DEF LatencySlice, Fields
      <4>2. CASE s \in TokenUsage
        <5>1. PICK cohort \in Cohorts : \E direction \in Directions : s = TokenSlice(cohort, direction)
          BY <4>2 DEF TokenUsage, Directions
        <5>2. PICK direction \in Directions : s = TokenSlice(cohort, direction)
          BY <5>1
        <5>3. QED
          BY <5>2 DEF TokenSlice, Fields, Directions
      <4>3. QED
        BY <4>1, <4>2
    <3>2. PICK cohort \in Cohorts : \E field \in Fields : \E key :
            s = MeasuredSlice(key, field, GroupOf(cohort)) /\ key[1] = cohort
      BY <3>1
    <3>3. PICK field \in Fields : \E key :
            s = MeasuredSlice(key, field, GroupOf(cohort)) /\ key[1] = cohort
      BY <3>2
    <3>4. PICK key : s = MeasuredSlice(key, field, GroupOf(cohort)) /\ key[1] = cohort
      BY <3>3
    <3>5. GroupOf(cohort) \in SUBSET Calls
      BY DEF GroupOf
    <3>6. MeasuredSlice(key, field, GroupOf(cohort)).key = key
      BY <3>5, MeasuredSliceFits
    <3>7. s.key[1] = cohort
      BY <3>4, <3>6
    <3>8. LET slice == MeasuredSlice(key, field, GroupOf(cohort)) IN
            /\ slice.coverage.numerator + Cardinality(slice.missing) = slice.coverage.denominator
            /\ slice.coverage.state = "FULL" <=> slice.missing = {}
            /\ slice.coverage.numerator
                 <= Cardinality({n \in nodes : n.calls /\ n.available /\ n.cohort = cohort})
      BY MeasuredSliceAccounts, Zenon
    <3>9. QED
      BY <3>4, <3>7, <3>8, Zenon
  <2>2. QED
    BY <2>1, LatencyAddsUp, TokensAddUp DEF CallsAreAccountedFor, CompleteCalls
<1>2. QED
  BY <1>1, EvidenceStaysOK, PTL
=============================================================================

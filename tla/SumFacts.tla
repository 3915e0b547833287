------------------------------- MODULE SumFacts -------------------------------
(***************************************************************************)
(* Facts about sums over finite sets (SumFunctionOnSet and SumFunction of  *)
(* module Functions), for the proofs about balances and tokens: a sum does *)
(* not depend on the order in which it is folded, so it changes by what    *)
(* one of its terms changes.  Induction is over a set of natural numbers   *)
(* or of subsets, a value, not over a formula.                             *)
(***************************************************************************)
EXTENDS Integers, FiniteSets, Functions, FiniteSetTheorems, WellFoundedInduction, TLAPS

\* A set of natural numbers has a least one.
LEMMA LeastNatural ==
  ASSUME NEW T \in SUBSET Nat, T # {}
  PROVE  \E x \in T : \A y \in T : x <= y
<1> DEFINE R == {p \in Nat \X Nat : p[1] < p[2]}
<1>1. OpToRel(<, Nat) = R
  BY DEF OpToRel
<1>2. IsWellFoundedOn(R, Nat)
  BY <1>1, NatLessThanWellFounded
<1>3. PICK x \in T : \A y \in T : ~(<<y, x>> \in R)
  <2> HIDE DEF R
  <2> QED BY <1>2, WFMin
<1>4. \A y \in T : ~(y < x)
  <2> SUFFICES ASSUME NEW y \in T, y < x PROVE FALSE
    OBVIOUS
  <2>1. <<y, x>> \in Nat \X Nat /\ <<y, x>>[1] < <<y, x>>[2]
    OBVIOUS
  <2> QED BY <2>1, <1>3
<1>5. QED
  BY <1>4

\* A set that holds 0 and the successor of whatever it holds holds all naturals.
LEMMA NaturalsBySteps ==
  ASSUME NEW N, 0 \in N, \A n \in Nat : n \in N => n + 1 \in N
  PROVE  Nat \subseteq N
<1> SUFFICES ASSUME Nat \ N # {} PROVE FALSE
  OBVIOUS
<1>1. PICK x \in Nat \ N : \A y \in Nat \ N : x <= y
  BY LeastNatural
<1>2. x # 0 /\ x - 1 \in Nat /\ x - 1 \in N
  BY <1>1
<1> QED BY <1>1, <1>2

\* The subsets of a finite set of which all but one element is good are good.
LEMMA SubsetsBySteps ==
  ASSUME NEW S, IsFiniteSet(S), NEW G, {} \in G,
         \A s \in SUBSET S : (s # {} /\ \A x \in s : s \ {x} \in G) => s \in G
  PROVE  SUBSET S \subseteq G
<1> DEFINE N == {n \in Nat : \A s \in SUBSET S : Cardinality(s) <= n => s \in G}
<1>s. \A s \in SUBSET S : IsFiniteSet(s) /\ Cardinality(s) \in Nat
  BY FS_Subset, FS_CardinalityType
<1>1. 0 \in N
  <2>1. ASSUME NEW s \in SUBSET S, Cardinality(s) <= 0 PROVE s \in G
    <3>1. s = {}
      BY <1>s, <2>1, FS_EmptySet
    <3> QED BY <3>1
  <2> QED BY <2>1
<1>2. ASSUME NEW n \in Nat, n \in N PROVE n + 1 \in N
  <2>1. ASSUME NEW s \in SUBSET S, Cardinality(s) <= n + 1 PROVE s \in G
    <3>1. ASSUME s # {}, NEW x \in s PROVE s \ {x} \in G
      <4>1. Cardinality(s \ {x}) = Cardinality(s) - 1
        BY <1>s, <3>1, FS_RemoveElement
      <4>2. Cardinality(s) \in Nat
        BY <1>s
      <4>3. Cardinality(s \ {x}) <= n
        BY <2>1, <4>1, <4>2
      <4>4. s \ {x} \in SUBSET S
        OBVIOUS
      <4> QED BY <1>2, <4>3, <4>4
    <3> QED BY <3>1
  <2> QED BY <2>1
<1>3. Nat \subseteq N
  <2> HIDE DEF N
  <2> QED BY <1>1, <1>2, NaturalsBySteps
<1>4. ASSUME NEW s \in SUBSET S PROVE s \in G
  <2>1. Cardinality(s) \in N /\ Cardinality(s) \in Nat
    BY <1>s, <1>3
  <2>2. Cardinality(s) <= Cardinality(s)
    BY <2>1
  <2> QED BY <2>1, <2>2
<1> QED BY <1>4

-----------------------------------------------------------------------------
(* What the fold computes. *)

Some(s) == CHOOSE x \in s : TRUE

\* "sum" adds up f over the subsets of S, one element after the other.
IsSum(f, S, sum) == sum = [s \in SUBSET S |-> IF s = {} THEN 0 ELSE f[Some(s)] + sum[s \ {Some(s)}]]

LEMMA SomeIsMember ==
  ASSUME NEW s, s # {}
  PROVE  Some(s) \in s
BY DEF Some

\* There is such a function: it is built for ever larger subsets.
LEMMA SumExists ==
  ASSUME NEW S, IsFiniteSet(S), NEW f
  PROVE  \E sum : IsSum(f, S, sum)
<1> DEFINE Small(n) == {s \in SUBSET S : Cardinality(s) <= n}
           Next(sum, n) == [s \in Small(n) |-> IF s = {} THEN 0 ELSE f[Some(s)] + sum[s \ {Some(s)}]]
           N == {n \in Nat : \E sum : sum = Next(sum, n)}
<1>s. \A s \in SUBSET S : IsFiniteSet(s) /\ Cardinality(s) \in Nat
  BY FS_Subset, FS_CardinalityType
<1>1. 0 \in N
  <2>1. \A s \in Small(0) : s = {}
    <3> TAKE s \in Small(0)
    <3>1. Cardinality(s) = 0
      BY <1>s
    <3> QED BY <1>s, <3>1, FS_EmptySet
  <2>2. PICK sum : sum = [s \in Small(0) |-> 0]
    OBVIOUS
  <2>3. sum = Next(sum, 0)
    BY <2>1, <2>2
  <2> QED BY <2>3
<1>2. ASSUME NEW n \in Nat, n \in N PROVE n + 1 \in N
  <2>1. PICK sum : sum = Next(sum, n)
    BY <1>2
  <2>2. PICK larger : larger = Next(sum, n + 1)
    OBVIOUS
  <2>3. ASSUME NEW s \in Small(n + 1), s # {}
        PROVE  larger[s \ {Some(s)}] = sum[s \ {Some(s)}]
    <3>1. PICK r : r = s \ {Some(s)}
      OBVIOUS
    <3>2. Some(s) \in s
      BY <2>3, SomeIsMember
    <3>3. Cardinality(r) = Cardinality(s) - 1 /\ Cardinality(s) \in Nat
      BY <1>s, <3>1, <3>2, FS_RemoveElement
    <3>4. r \in Small(n) /\ r \in Small(n + 1)
      BY <2>3, <3>1, <3>3
    <3>5. larger[r] = IF r = {} THEN 0 ELSE f[Some(r)] + sum[r \ {Some(r)}]
      BY <2>2, <3>4
    <3>6. sum[r] = IF r = {} THEN 0 ELSE f[Some(r)] + sum[r \ {Some(r)}]
      BY <2>1, <3>4
    <3> QED BY <3>1, <3>5, <3>6
  <2>4. larger = Next(larger, n + 1)
    BY <2>2, <2>3
  <2>5. n + 1 \in Nat
    OBVIOUS
  <2> HIDE DEF Next
  <2> QED BY <2>4, <2>5, Zenon
<1>3. Nat \subseteq N
  <2> HIDE DEF N
  <2> QED BY <1>1, <1>2, NaturalsBySteps
<1>4. Cardinality(S) \in Nat
  BY FS_CardinalityType
<1>5. PICK sum : sum = Next(sum, Cardinality(S))
  BY <1>3, <1>4
<1>6. Small(Cardinality(S)) = SUBSET S
  BY FS_Subset
<1>7. IsSum(f, S, sum)
  BY <1>5, <1>6 DEF IsSum
<1> QED BY <1>7

\* The fold of the community modules is one.
LEMMA FoldIsSum ==
  ASSUME NEW S, IsFiniteSet(S), NEW f
  PROVE  \E sum : IsSum(f, S, sum) /\ SumFunctionOnSet(f, S) = sum[S]
<1> DEFINE P(sum) == sum = [s \in SUBSET S |-> IF s = {} THEN 0
                              ELSE f[(CHOOSE x \in s : TRUE)] + sum[s \ {CHOOSE x \in s : TRUE}]]
<1>1. \E sum : P(sum)
  <2>1. PICK sum : IsSum(f, S, sum)
    BY SumExists
  <2>2. P(sum)
    BY <2>1, Zenon DEF IsSum, Some
  <2> QED BY <2>2
<1>2. PICK chosen : chosen = CHOOSE sum : P(sum)
  OBVIOUS
<1>3. P(chosen)
  <2> HIDE DEF P
  <2> QED BY <1>1, <1>2, Zenon
<1>4. SumFunctionOnSet(f, S) = chosen[S]
  BY <1>2 DEF SumFunctionOnSet, FoldFunctionOnSet, MapThenFoldSet
<1>5. IsSum(f, S, chosen)
  BY <1>3, Zenon DEF IsSum, Some
<1> QED BY <1>4, <1>5


\* A step of such a function.
LEMMA SumStep ==
  ASSUME NEW f, NEW S, NEW sum, IsSum(f, S, sum)
  PROVE  /\ sum[{}] = 0
         /\ \A s \in SUBSET S : s # {} => /\ Some(s) \in s /\ s \ {Some(s)} \in SUBSET S
                                          /\ sum[s] = f[Some(s)] + sum[s \ {Some(s)}]
<1>1. \A s \in SUBSET S : sum[s] = IF s = {} THEN 0 ELSE f[Some(s)] + sum[s \ {Some(s)}]
  BY DEF IsSum
<1> QED BY <1>1, SomeIsMember

Summable(f, S) == \A x \in S : f[x] \in Int

LEMMA SumIsInteger ==
  ASSUME NEW S, IsFiniteSet(S), NEW f, Summable(f, S), NEW sum, IsSum(f, S, sum)
  PROVE  \A s \in SUBSET S : sum[s] \in Int
<1>s. \A s \in SUBSET S : s # {} => /\ Some(s) \in s /\ s \ {Some(s)} \in SUBSET S
                                    /\ sum[s] = f[Some(s)] + sum[s \ {Some(s)}]
  <2> TAKE s \in SUBSET S
  <2> HAVE s # {}
  <2>1. sum[s] = f[Some(s)] + sum[s \ {Some(s)}]
    BY DEF IsSum
  <2> QED BY <2>1, SomeIsMember
<1> DEFINE G == {s \in SUBSET S : sum[s] \in Int}
<1>1. {} \in G
  BY SumStep
<1>2. ASSUME NEW s \in SUBSET S, s # {}, \A x \in s : s \ {x} \in G PROVE s \in G
  <2>1. Some(s) \in s /\ sum[s] = f[Some(s)] + sum[s \ {Some(s)}]
    BY <1>2, <1>s
  <2>2. f[Some(s)] \in Int /\ sum[s \ {Some(s)}] \in Int
    BY <1>2, <2>1 DEF Summable
  <2> QED BY <2>1, <2>2
<1>3. SUBSET S \subseteq G
  <2> HIDE DEF G
  <2> QED BY <1>1, <1>2, SubsetsBySteps
<1> QED BY <1>3

\* Any element may be taken first.
LEMMA SumTakesAny ==
  ASSUME NEW S, IsFiniteSet(S), NEW f, Summable(f, S), NEW sum, IsSum(f, S, sum),
         NEW U \in SUBSET S, NEW y \in U
  PROVE  sum[U] = f[y] + sum[U \ {y}]
<1>s. \A s \in SUBSET S : s # {} => /\ Some(s) \in s /\ s \ {Some(s)} \in SUBSET S
                                    /\ sum[s] = f[Some(s)] + sum[s \ {Some(s)}]
  <2> TAKE s \in SUBSET S
  <2> HAVE s # {}
  <2>1. sum[s] = f[Some(s)] + sum[s \ {Some(s)}]
    BY DEF IsSum
  <2> QED BY <2>1, SomeIsMember
<1> DEFINE G == {s \in SUBSET S : \A x \in s : sum[s] = f[x] + sum[s \ {x}]}
<1>1. {} \in G
  OBVIOUS
<1>2. ASSUME NEW s \in SUBSET S, s # {}, \A x \in s : s \ {x} \in G PROVE s \in G
  <2>1. PICK c : c = Some(s)
    OBVIOUS
  <2>2. c \in s /\ sum[s] = f[c] + sum[s \ {c}]
    BY <1>2, <2>1, <1>s
  <2>3. ASSUME NEW x \in s PROVE sum[s] = f[x] + sum[s \ {x}]
    <3>1. CASE x = c
      BY <2>2, <3>1
    <3>2. CASE x # c
      <4>1. PICK rest : rest = s \ {c, x}
        OBVIOUS
      <4>2. (s \ {c}) \ {x} = rest /\ (s \ {x}) \ {c} = rest
        BY <4>1
      <4>3. sum[s \ {c}] = f[x] + sum[rest]
        BY <1>2, <2>2, <3>2, <4>2
      <4>4. sum[s \ {x}] = f[c] + sum[rest]
        BY <1>2, <2>2, <3>2, <4>2
      <4>5. sum[rest] \in Int /\ f[x] \in Int /\ f[c] \in Int
        BY <2>2, <4>1, SumIsInteger DEF Summable
      <4> QED BY <2>2, <4>3, <4>4, <4>5
    <3> QED BY <3>1, <3>2
  <2> QED BY <2>3
<1>3. SUBSET S \subseteq G
  <2> HIDE DEF G
  <2> QED BY <1>1, <1>2, SubsetsBySteps
<1> QED BY <1>3

\* Two such functions agree where their terms do.
LEMMA SumsAgree ==
  ASSUME NEW S, IsFiniteSet(S), NEW T, NEW f, NEW g, NEW sum, IsSum(f, S, sum),
         NEW total, IsSum(g, T, total), NEW U \in SUBSET (S \cap T), \A x \in U : f[x] = g[x]
  PROVE  sum[U] = total[U]
<1>s. \A s \in SUBSET S : s # {} => /\ Some(s) \in s /\ s \ {Some(s)} \in SUBSET S
                                    /\ sum[s] = f[Some(s)] + sum[s \ {Some(s)}]
  <2> TAKE s \in SUBSET S
  <2> HAVE s # {}
  <2>1. sum[s] = f[Some(s)] + sum[s \ {Some(s)}]
    BY DEF IsSum
  <2> QED BY <2>1, SomeIsMember
<1>t. \A s \in SUBSET T : s # {} => /\ Some(s) \in s /\ s \ {Some(s)} \in SUBSET T
                                    /\ total[s] = g[Some(s)] + total[s \ {Some(s)}]
  <2> TAKE s \in SUBSET T
  <2> HAVE s # {}
  <2>1. total[s] = g[Some(s)] + total[s \ {Some(s)}]
    BY DEF IsSum
  <2> QED BY <2>1, SomeIsMember
<1> DEFINE G == {s \in SUBSET U : sum[s] = total[s]}
<1>1. {} \in G
  BY SumStep
<1>2. ASSUME NEW s \in SUBSET U, s # {}, \A x \in s : s \ {x} \in G PROVE s \in G
  <2>1. Some(s) \in s /\ sum[s] = f[Some(s)] + sum[s \ {Some(s)}]
        /\ total[s] = g[Some(s)] + total[s \ {Some(s)}]
    <3>1. s \in SUBSET S /\ s \in SUBSET T
      OBVIOUS
    <3> QED BY <1>2, <1>s, <1>t, <3>1
  <2> QED BY <1>2, <2>1
<1>3. SUBSET U \subseteq G
  <2>1. IsFiniteSet(U)
    BY FS_Subset
  <2> HIDE DEF G
  <2> QED BY <1>1, <1>2, <2>1, SubsetsBySteps
<1> QED BY <1>3

-----------------------------------------------------------------------------
(* What the proofs cite. *)

THEOREM SumOfNone ==
  ASSUME NEW f
  PROVE  SumFunctionOnSet(f, {}) = 0
<1>1. PICK sum : IsSum(f, {}, sum) /\ SumFunctionOnSet(f, {}) = sum[{}]
  BY FoldIsSum, FS_EmptySet
<1> QED BY <1>1, SumStep

THEOREM SumInt ==
  ASSUME NEW S, IsFiniteSet(S), NEW f, \A x \in S : f[x] \in Int
  PROVE  SumFunctionOnSet(f, S) \in Int
<1>1. PICK sum : IsSum(f, S, sum) /\ SumFunctionOnSet(f, S) = sum[S]
  BY FoldIsSum
<1>2. Summable(f, S)
  BY DEF Summable
<1> QED BY <1>1, <1>2, SumIsInteger

THEOREM SumSame ==
  ASSUME NEW S, IsFiniteSet(S), NEW f, NEW g, \A x \in S : f[x] = g[x]
  PROVE  SumFunctionOnSet(f, S) = SumFunctionOnSet(g, S)
<1>1. PICK sum : IsSum(f, S, sum) /\ SumFunctionOnSet(f, S) = sum[S]
  BY FoldIsSum
<1>2. PICK total : IsSum(g, S, total) /\ SumFunctionOnSet(g, S) = total[S]
  BY FoldIsSum
<1>3. sum[S] = total[S]
  <2>1. S \in SUBSET (S \cap S)
    OBVIOUS
  <2> QED BY <1>1, <1>2, <2>1, SumsAgree
<1> QED BY <1>1, <1>2, <1>3

THEOREM SumTake ==
  ASSUME NEW S, IsFiniteSet(S), NEW f, \A x \in S : f[x] \in Int, NEW x \in S
  PROVE  SumFunctionOnSet(f, S) = f[x] + SumFunctionOnSet(f, S \ {x})
<1>1. PICK sum : IsSum(f, S, sum) /\ SumFunctionOnSet(f, S) = sum[S]
  BY FoldIsSum
<1>2. sum[S] = f[x] + sum[S \ {x}]
  <2>1. S \in SUBSET S /\ Summable(f, S)
    BY DEF Summable
  <2> QED BY <1>1, <2>1, SumTakesAny
<1>3. IsFiniteSet(S \ {x})
  BY FS_Subset
<1>4. PICK rest : IsSum(f, S \ {x}, rest) /\ SumFunctionOnSet(f, S \ {x}) = rest[S \ {x}]
  BY <1>3, FoldIsSum
<1>5. sum[S \ {x}] = rest[S \ {x}]
  BY <1>1, <1>4, SumsAgree
<1> QED BY <1>1, <1>2, <1>4, <1>5

THEOREM SumAdd ==
  ASSUME NEW S, IsFiniteSet(S), NEW x, x \notin S, NEW f, \A y \in S \cup {x} : f[y] \in Int
  PROVE  SumFunctionOnSet(f, S \cup {x}) = f[x] + SumFunctionOnSet(f, S)
<1>1. IsFiniteSet(S \cup {x}) /\ (S \cup {x}) \ {x} = S
  BY FS_AddElement
<1> QED BY <1>1, SumTake

\* A sum changes by what one of its terms changes.
THEOREM SumChange ==
  ASSUME NEW S, IsFiniteSet(S), NEW f, NEW g, \A x \in S : f[x] \in Int /\ g[x] \in Int,
         NEW x \in S, \A y \in S \ {x} : g[y] = f[y]
  PROVE  SumFunctionOnSet(g, S) = SumFunctionOnSet(f, S) - f[x] + g[x]
<1>1. IsFiniteSet(S \ {x})
  BY FS_Subset
<1>2. PICK rest : rest = SumFunctionOnSet(f, S \ {x})
  OBVIOUS
<1>3. SumFunctionOnSet(g, S \ {x}) = rest
  BY <1>1, <1>2, SumSame
<1>4. SumFunctionOnSet(f, S) = f[x] + rest
  BY <1>2, SumTake
<1>5. SumFunctionOnSet(g, S) = g[x] + rest
  BY <1>3, SumTake
<1>6. rest \in Int /\ f[x] \in Int /\ g[x] \in Int
  BY <1>1, <1>2, SumInt
<1> QED BY <1>4, <1>5, <1>6

THEOREM SumOfZeros ==
  ASSUME NEW S, IsFiniteSet(S), NEW f, \A x \in S : f[x] = 0
  PROVE  SumFunctionOnSet(f, S) = 0
<1>1. PICK sum : IsSum(f, S, sum) /\ SumFunctionOnSet(f, S) = sum[S]
  BY FoldIsSum
<1> DEFINE G == {s \in SUBSET S : sum[s] = 0}
<1>2. {} \in G
  BY <1>1, SumStep
<1>3. ASSUME NEW s \in SUBSET S, s # {}, \A x \in s : s \ {x} \in G PROVE s \in G
  <2>1. Some(s) \in s /\ sum[s] = f[Some(s)] + sum[s \ {Some(s)}]
    BY <1>1, <1>3, SumStep
  <2> QED BY <1>3, <2>1
<1>4. SUBSET S \subseteq G
  <2> HIDE DEF G
  <2> QED BY <1>2, <1>3, SubsetsBySteps
<1> QED BY <1>1, <1>4

\* Terms that are no greater make a sum that is no greater.
THEOREM SumAtMost ==
  ASSUME NEW S, IsFiniteSet(S), NEW f, NEW g, \A x \in S : f[x] \in Int /\ g[x] \in Int /\ f[x] <= g[x]
  PROVE  SumFunctionOnSet(f, S) <= SumFunctionOnSet(g, S)
<1>1. PICK sum : IsSum(f, S, sum) /\ SumFunctionOnSet(f, S) = sum[S]
  BY FoldIsSum
<1>2. PICK total : IsSum(g, S, total) /\ SumFunctionOnSet(g, S) = total[S]
  BY FoldIsSum
<1> DEFINE G == {s \in SUBSET S : sum[s] <= total[s]}
<1>3. {} \in G
  BY <1>1, <1>2, SumStep
<1>4. ASSUME NEW s \in SUBSET S, s # {}, \A x \in s : s \ {x} \in G PROVE s \in G
  <2>1. PICK c : c \in s
    BY <1>4
  <2>0. Summable(f, S) /\ Summable(g, S)
    BY DEF Summable
  <2>2. sum[s] = f[c] + sum[s \ {c}] /\ total[s] = g[c] + total[s \ {c}]
    BY <1>1, <1>2, <2>0, <2>1, SumTakesAny
  <2>3. sum[s \ {c}] \in Int /\ total[s \ {c}] \in Int
    BY <1>1, <1>2, <2>0, SumIsInteger
  <2>4. sum[s \ {c}] <= total[s \ {c}] /\ f[c] <= g[c] /\ f[c] \in Int /\ g[c] \in Int
    BY <1>4, <2>1
  <2> QED BY <2>2, <2>3, <2>4
<1>5. SUBSET S \subseteq G
  <2> HIDE DEF G
  <2> QED BY <1>3, <1>4, SubsetsBySteps
<1> QED BY <1>1, <1>2, <1>5

=============================================================================

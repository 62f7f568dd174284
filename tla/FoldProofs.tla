----------------------------- MODULE FoldProofs -----------------------------
(***************************************************************************)
(* Lemmas about finite sets, for the other proofs: least and greatest       *)
(* elements, sums, sorted sequences, folds.                                 *)
(*                                                                         *)
(* Induction over data is by least counterexample: a set of sets (or of     *)
(* numbers) stands for the predicate, so that the induction principle is    *)
(* a first-order statement, which the provers can use.                      *)
(***************************************************************************)
EXTENDS Integers, Sequences, SequencesExt, FiniteSets, TLAPS, SequenceTheorems, FiniteSetTheorems,
        WellFoundedInduction

-----------------------------------------------------------------------------
(* Induction.                                                               *)

\* A nonempty set of naturals has a least element.
LEMMA HasLeast ==
    ASSUME NEW T \in SUBSET Nat, T # {}
    PROVE  \E x \in T : \A y \in T : x <= y
<1> DEFINE R == OpToRel(<, Nat)
<1>1. \E x \in T : \A y \in T : ~ (<< y, x >> \in R)
  BY WFMin, NatLessThanWellFounded
<1>2. \A x, y \in Nat : y < x => << y, x >> \in R
  <2> TAKE x \in Nat, y \in Nat
  <2> HAVE y < x
  <2>1. R = { ss \in Nat \X Nat : ss[1] < ss[2] }
    BY Zenon DEF OpToRel
  <2>2. << y, x >> \in { ss \in Nat \X Nat : ss[1] < ss[2] }
    OBVIOUS
  <2> QED BY <2>1, <2>2, Zenon
<1> HIDE DEF R
<1>3. PICK x \in T : \A y \in T : ~ (<< y, x >> \in R)
  BY <1>1
<1>4. \A y \in T : ~ (y < x)
  BY <1>2, <1>3, Zenon
<1>5. \A y \in T : x <= y
  BY <1>4
<1> QED BY <1>5, Zenon

\* Induction over the subsets of a finite set, as a statement about a set of sets
\* and not about an operator.
LEMMA SubsetInduction ==
    ASSUME NEW S, IsFiniteSet(S), NEW G,
           {} \in G,
           \A s \in SUBSET S : s # {} /\ (\A x \in s : s \ {x} \in G) => s \in G
    PROVE  \A s \in SUBSET S : s \in G
<1> DEFINE T == { Cardinality(s) : s \in { u \in SUBSET S : u \notin G } }
<1>0. \A s \in SUBSET S : IsFiniteSet(s) /\ Cardinality(s) \in Nat
  BY FS_Subset, FS_CardinalityType
<1>1. SUFFICES ASSUME T # {} PROVE FALSE
  BY <1>1
<1>2. T \in SUBSET Nat
  BY <1>0
<1>3. PICK n \in T : \A m \in T : n <= m
  BY <1>1, <1>2, HasLeast
<1>4. PICK s \in SUBSET S : s \notin G /\ n = Cardinality(s)
  BY <1>3
<1>5. PICK x \in s : s \ {x} \notin G
  BY <1>4
<1>6. s \ {x} \in SUBSET S
  OBVIOUS
<1>7. Cardinality(s \ {x}) = n - 1
  BY <1>0, <1>4, <1>5, FS_RemoveElement
<1>8. n - 1 \in T
  BY <1>5, <1>6, <1>7
<1> HIDE DEF T
<1>9. n \in Nat /\ n <= n - 1
  BY <1>2, <1>3, <1>8
<1> QED
  BY <1>9

-----------------------------------------------------------------------------
\* h gives the sum of f over every subset of S.
Sums(h, f, S) ==
    /\ h \in [SUBSET S -> Int]
    /\ h[{}] = 0
    /\ \A s \in SUBSET S : \A x \in s : h[s] = f[x] + h[s \ {x}]

\* Over a finite set every integer function has sums, whatever the order in which
\* the elements are added up.
LEMMA SumsExist ==
    ASSUME NEW S, IsFiniteSet(S), NEW f, \A x \in S : f[x] \in Int
    PROVE  \E h : Sums(h, f, S)
<1> DEFINE G == { s \in SUBSET S : \E h : Sums(h, f, s) }
<1>1. {} \in G
  <2>1. Sums([s \in SUBSET {} |-> 0], f, {})
    BY DEF Sums
  <2> QED BY <2>1
<1>2. ASSUME NEW s \in SUBSET S, s # {}, \A x \in s : s \ {x} \in G PROVE s \in G
  <2>0. PICK a : a \in s
    BY <1>2
  <2>1. PICK k : Sums(k, f, s \ {a})
    BY <1>2, <2>0
  <2> DEFINE h == [t \in SUBSET s |-> IF a \in t THEN f[a] + k[t \ {a}] ELSE k[t]]
  <2>2. \A t \in SUBSET s : t \ {a} \in SUBSET (s \ {a}) /\ (a \notin t => t \in SUBSET (s \ {a}))
    OBVIOUS
  <2>3. h \in [SUBSET s -> Int]
    BY <2>1, <2>2 DEF Sums
  <2>4. h[{}] = 0
    BY <2>1 DEF Sums
  <2>5. ASSUME NEW t \in SUBSET s, NEW x \in t PROVE h[t] = f[x] + h[t \ {x}]
    <3>1. t \ {x} \in SUBSET s
      OBVIOUS
    <3>2. CASE x = a
      <4>1. (t \ {a}) \ {a} = t \ {a}
        OBVIOUS
      <4> QED BY <3>1, <3>2
    <3>3. CASE x # a /\ a \notin t
      <4>1. k[t] = f[x] + k[t \ {x}]
        BY <2>1, <2>2, <3>3 DEF Sums
      <4> QED BY <3>1, <3>3, <4>1
    <3>4. CASE x # a /\ a \in t
      <4>1. x \in t \ {a} /\ t \ {a} \in SUBSET (s \ {a})
        BY <3>4
      <4>2. k[t \ {a}] = f[x] + k[(t \ {a}) \ {x}]
        BY <2>1, <4>1 DEF Sums
      <4>3. (t \ {a}) \ {x} = (t \ {x}) \ {a} /\ (t \ {x}) \ {a} \in SUBSET (s \ {a})
        OBVIOUS
      <4> DEFINE v == k[(t \ {x}) \ {a}]
      <4>4. f[a] \in Int /\ f[x] \in Int /\ v \in Int
        BY <2>0, <2>1, <4>3 DEF Sums
      <4>5. h[t] = f[a] + k[t \ {a}] /\ h[t \ {x}] = f[a] + v
        BY <3>1, <3>4
      <4>6. k[t \ {a}] = f[x] + v
        BY <4>2, <4>3
      <4> HIDE DEF h, v
      <4> QED BY <4>4, <4>5, <4>6
    <3> QED BY <3>2, <3>3, <3>4
  <2> HIDE DEF h
  <2>6. Sums(h, f, s)
    BY <2>3, <2>4, <2>5 DEF Sums
  <2> QED BY <2>6
<1> HIDE DEF G
<1>3. \A s \in SUBSET S : s \in G
  BY <1>1, <1>2, SubsetInduction
<1> QED BY <1>3 DEF G

\* g adds up, over every subset of S, one of its elements and the rest.
Adds(g, f, S) ==
    /\ g[{}] = 0
    /\ \A s \in SUBSET S : s # {} =>
           \E x \in s : g[s \ {x}] \in Int => g[s] = f[x] + g[s \ {x}]

\* A recursion that adds the elements up in some order computes the sums.
LEMMA SumsUnique ==
    ASSUME NEW S, IsFiniteSet(S), NEW f, \A x \in S : f[x] \in Int,
           NEW h, Sums(h, f, S),
           NEW g, Adds(g, f, S)
    PROVE  \A s \in SUBSET S : g[s] = h[s]
<1> DEFINE G == { s \in SUBSET S : g[s] = h[s] }
<1>1. {} \in G
  BY DEF Sums, Adds
<1>2. ASSUME NEW s \in SUBSET S, s # {}, \A x \in s : s \ {x} \in G PROVE s \in G
  <2>1. PICK x \in s : g[s \ {x}] \in Int => g[s] = f[x] + g[s \ {x}]
    BY <1>2 DEF Adds
  <2>2. g[s \ {x}] = h[s \ {x}] /\ s \ {x} \in SUBSET S
    BY <1>2
  <2>3. h[s \ {x}] \in Int /\ h[s] = f[x] + h[s \ {x}]
    BY <2>2 DEF Sums
  <2> QED BY <2>1, <2>2, <2>3
<1> HIDE DEF G
<1>3. \A s \in SUBSET S : s \in G
  BY <1>1, <1>2, SubsetInduction
<1> QED BY <1>3 DEF G

-----------------------------------------------------------------------------
(* Total(f, S), the sum of f over S.                                        *)

Total(f, S) == SumFunctionOnSet(f, S)

\* What a fold adds up is the sum: whatever iteration, in the form MapThenFoldSet
\* gives it, and whatever order of the elements.
LEMMA TotalSums ==
    ASSUME NEW S, IsFiniteSet(S), NEW f, \A x \in S : f[x] \in Int
    PROVE  \E h : Sums(h, f, S) /\ Total(f, S) = h[S]
<1> DEFINE It(g) == g = [s \in SUBSET S |-> IF s = {} THEN 0
                ELSE f[CHOOSE x \in s : TRUE] + g[s \ {CHOOSE x \in s : TRUE}]]
<1>1. Total(f, S) = (CHOOSE g : It(g))[S]
  BY Zenon DEF Total, SumFunctionOnSet, FoldFunctionOnSet, MapThenFoldSet
<1>2. PICK h : Sums(h, f, S)
  BY SumsExist
<1>3. It(h)
  <2> DEFINE k == [s \in SUBSET S |-> IF s = {} THEN 0
                ELSE f[CHOOSE x \in s : TRUE] + h[s \ {CHOOSE x \in s : TRUE}]]
  <2>1. ASSUME NEW s \in SUBSET S PROVE h[s] = k[s]
    <3>1. CASE s = {}
      BY <1>2, <3>1 DEF Sums
    <3>2. CASE s # {}
      <4>1. (CHOOSE x \in s : TRUE) \in s
        BY <3>2
      <4> QED BY <1>2, <3>2, <4>1 DEF Sums
    <3> QED BY <3>1, <3>2
  <2>2. h \in [SUBSET S -> Int]
    BY <1>2 DEF Sums
  <2>3. h = [s \in SUBSET S |-> h[s]]
    BY <2>2
  <2> QED BY <2>1, <2>3
<1> DEFINE g == CHOOSE q : It(q)
<1>4. It(g)
  BY <1>3
<1>5. g[{}] = 0
  BY <1>4
<1>6. \A s \in SUBSET S : s # {} =>
          \E x \in s : g[s \ {x}] \in Int => g[s] = f[x] + g[s \ {x}]
  <2> TAKE s \in SUBSET S
  <2> HAVE s # {}
  <2>1. (CHOOSE x \in s : TRUE) \in s
    OBVIOUS
  <2>2. g[s] = f[CHOOSE x \in s : TRUE] + g[s \ {CHOOSE x \in s : TRUE}]
    BY <1>4
  <2> QED BY <2>1, <2>2
<1> HIDE DEF g, It
<1>7. \A s \in SUBSET S : g[s] = h[s]
  <2>1. Adds(g, f, S)
    BY <1>5, <1>6 DEF Adds
  <2> QED BY <1>2, <2>1, SumsUnique
<1> QED BY <1>1, <1>2, <1>7 DEF g

\* The empty sum.
LEMMA TotalEmpty == ASSUME NEW f PROVE Total(f, {}) = 0
<1>1. IsFiniteSet({}) /\ \A x \in {} : f[x] \in Int
  BY FS_EmptySet
<1>2. PICK h : Sums(h, f, {}) /\ Total(f, {}) = h[{}]
  BY <1>1, TotalSums
<1> QED BY <1>2 DEF Sums

\* Sums of integers are integers.
LEMMA TotalType ==
    ASSUME NEW S, IsFiniteSet(S), NEW f, \A x \in S : f[x] \in Int
    PROVE  Total(f, S) \in Int
<1>1. PICK h : Sums(h, f, S) /\ Total(f, S) = h[S]
  BY TotalSums
<1> QED BY <1>1 DEF Sums

\* The sums over the subsets of S, in one function.
LEMMA TotalsAgree ==
    ASSUME NEW S, IsFiniteSet(S), NEW f, \A x \in S : f[x] \in Int,
           NEW h, Sums(h, f, S), NEW s \in SUBSET S
    PROVE  Total(f, s) = h[s]
<1>1. IsFiniteSet(s) /\ \A x \in s : f[x] \in Int
  BY FS_Subset
<1>2. PICK k : Sums(k, f, s) /\ Total(f, s) = k[s]
  BY <1>1, TotalSums
<1>3. h[{}] = 0
  BY DEF Sums
<1>4. \A u \in SUBSET s : u # {} =>
          \E x \in u : h[u \ {x}] \in Int => h[u] = f[x] + h[u \ {x}]
  BY DEF Sums
<1>5. \A u \in SUBSET s : h[u] = k[u]
  <2>1. Adds(h, f, s)
    BY <1>3, <1>4 DEF Adds
  <2> QED BY <1>1, <1>2, <2>1, SumsUnique
<1> QED BY <1>2, <1>5

\* One element and the rest, whichever the element is.
LEMMA TotalElement ==
    ASSUME NEW S, IsFiniteSet(S), NEW f, \A x \in S : f[x] \in Int, NEW a \in S
    PROVE  Total(f, S) = f[a] + Total(f, S \ {a})
<1>1. PICK h : Sums(h, f, S) /\ Total(f, S) = h[S]
  BY TotalSums
<1>2. Total(f, S \ {a}) = h[S \ {a}]
  BY <1>1, TotalsAgree
<1>3. h[S] = f[a] + h[S \ {a}]
  BY <1>1 DEF Sums
<1> QED BY <1>1, <1>2, <1>3

\* One more element.
LEMMA TotalAdd ==
    ASSUME NEW S, IsFiniteSet(S), NEW a, a \notin S,
           NEW f, \A x \in S \cup {a} : f[x] \in Int
    PROVE  Total(f, S \cup {a}) = Total(f, S) + f[a]
<1>1. IsFiniteSet(S \cup {a})
  BY FS_AddElement
<1>2. Total(f, S \cup {a}) = f[a] + Total(f, (S \cup {a}) \ {a})
  BY <1>1, TotalElement
<1>3. (S \cup {a}) \ {a} = S
  OBVIOUS
<1>4. Total(f, S \cup {a}) = f[a] + Total(f, S)
  BY <1>2, <1>3, Zenon
<1>5. Total(f, S) \in Int /\ f[a] \in Int
  BY TotalType
<1> QED BY <1>4, <1>5

\* Larger summands, larger sum.
LEMMA TotalMonotone ==
    ASSUME NEW S, IsFiniteSet(S), NEW f, NEW g,
           \A x \in S : f[x] \in Int /\ g[x] \in Int /\ f[x] <= g[x]
    PROVE  Total(f, S) <= Total(g, S)
<1> DEFINE G == { s \in SUBSET S : Total(f, s) <= Total(g, s) }
<1>1. {} \in G
  BY TotalEmpty
<1>2. ASSUME NEW s \in SUBSET S, s # {}, \A x \in s : s \ {x} \in G PROVE s \in G
  <2>1. PICK a \in s : s \ {a} \in G
    BY <1>2
  <2>2. IsFiniteSet(s) /\ IsFiniteSet(s \ {a})
    BY FS_Subset
  <2>3. Total(f, s) = f[a] + Total(f, s \ {a}) /\ Total(g, s) = g[a] + Total(g, s \ {a})
    BY <2>2, TotalElement
  <2>4. Total(f, s \ {a}) \in Int /\ Total(g, s \ {a}) \in Int
    BY <2>2, TotalType
  <2>5. f[a] \in Int /\ g[a] \in Int /\ f[a] <= g[a]
    OBVIOUS
  <2>6. Total(f, s) <= Total(g, s)
    BY <2>1, <2>3, <2>4, <2>5
  <2> QED BY <2>6
<1> HIDE DEF G
<1>3. S \in G
  BY <1>1, <1>2, SubsetInduction, SMTT(30)
<1> QED BY <1>3 DEF G

\* Equal summands, equal sums.
LEMMA TotalEqual ==
    ASSUME NEW S, IsFiniteSet(S), NEW f, NEW g,
           \A x \in S : f[x] \in Int /\ f[x] = g[x]
    PROVE  Total(f, S) = Total(g, S)
<1>1. \A x \in S : f[x] \in Int /\ g[x] \in Int /\ f[x] <= g[x] /\ g[x] <= f[x]
  OBVIOUS
<1>2. Total(f, S) <= Total(g, S) /\ Total(g, S) <= Total(f, S)
  BY <1>1, TotalMonotone
<1>3. Total(f, S) \in Int /\ Total(g, S) \in Int
  BY <1>1, TotalType
<1> QED BY <1>2, <1>3

\* Over a subset, when the rest adds nothing.
LEMMA TotalSubset ==
    ASSUME NEW S, IsFiniteSet(S), NEW T \in SUBSET S,
           NEW f, \A x \in S : f[x] \in Int, \A x \in S \ T : f[x] = 0
    PROVE  Total(f, S) = Total(f, T)
<1> DEFINE G == { s \in SUBSET (S \ T) : Total(f, T \cup s) = Total(f, T) }
<1>0. IsFiniteSet(S \ T) /\ IsFiniteSet(T)
  BY FS_Subset
<1>1. {} \in G
  <2>1. T \cup {} = T
    OBVIOUS
  <2> QED BY <2>1
<1>2. ASSUME NEW s \in SUBSET (S \ T), s # {}, \A x \in s : s \ {x} \in G PROVE s \in G
  <2>1. PICK a \in s : s \ {a} \in G
    BY <1>2
  <2>2. IsFiniteSet(T \cup s) /\ T \cup s \in SUBSET S
    BY FS_Subset
  <2>3. (T \cup s) \ {a} = T \cup (s \ {a})
    BY <2>1
  <2>4. Total(f, T \cup s) = f[a] + Total(f, (T \cup s) \ {a})
    BY <2>2, TotalElement
  <2>5. Total(f, T) \in Int
    BY <1>0, TotalType
  <2>6. f[a] = 0 /\ Total(f, T \cup (s \ {a})) = Total(f, T)
    BY <2>1
  <2>7. Total(f, T \cup s) = 0 + Total(f, T)
    BY <2>3, <2>4, <2>6, Zenon
  <2>8. Total(f, T \cup s) = Total(f, T)
    BY <2>5, <2>7
  <2> QED BY <2>8
<1> HIDE DEF G
<1> DEFINE D == S \ T
<1>3. D \in G
  <2> \A s \in SUBSET D : s # {} /\ (\A x \in s : s \ {x} \in G) => s \in G
    BY <1>2
  <2> IsFiniteSet(D)
    BY <1>0
  <2> HIDE DEF D
  <2> QED BY <1>1, SubsetInduction
<1>4. T \cup (S \ T) = S
  OBVIOUS
<1> QED BY <1>3, <1>4 DEF G

\* Summands that are not negative do not add up to less than nothing.
LEMMA TotalNonNegative ==
    ASSUME NEW S, IsFiniteSet(S), NEW f, \A x \in S : f[x] \in Int /\ f[x] >= 0
    PROVE  Total(f, S) >= 0
<1> DEFINE z == [x \in S |-> 0]
<1>1. \A x \in S : z[x] \in Int /\ z[x] = 0
  OBVIOUS
<1> HIDE DEF z
<1>2. \A x \in S : z[x] \in Int /\ f[x] \in Int /\ z[x] <= f[x]
  BY <1>1
<1>3. Total(z, S) <= Total(f, S)
  BY <1>2, TotalMonotone
<1>4. Total(z, S) = Total(z, {})
  <2>1. \A x \in S : z[x] \in Int
    BY <1>1
  <2>2. \A x \in S \ {} : z[x] = 0
    BY <1>1
  <2>3. {} \in SUBSET S
    OBVIOUS
  <2> QED BY <2>1, <2>2, <2>3, TotalSubset
<1>5. Total(z, {}) = 0
  BY TotalEmpty
<1>6. Total(f, S) \in Int
  BY TotalType
<1> QED BY <1>3, <1>4, <1>5, <1>6

\* The elements may be renamed.
LEMMA TotalRename ==
    ASSUME NEW S, IsFiniteSet(S), NEW f, \A x \in S : f[x] \in Int,
           NEW b, \A x, y \in S : b[x] = b[y] => x = y,
           NEW g, \A x \in S : g[b[x]] = f[x]
    PROVE  Total(f, S) = Total(g, { b[x] : x \in S })
<1> DEFINE Image(s) == { b[x] : x \in s }
           G == { s \in SUBSET S : IsFiniteSet(Image(s)) /\ Total(f, s) = Total(g, Image(s)) }
<1>1. {} \in G
  <2>1. Image({}) = {}
    OBVIOUS
  <2>2. Total(f, {}) = 0 /\ Total(g, {}) = 0
    BY TotalEmpty
  <2> QED BY <2>1, <2>2, FS_EmptySet
<1>2. ASSUME NEW s \in SUBSET S, s # {}, \A x \in s : s \ {x} \in G PROVE s \in G
  <2>1. PICK a \in s : s \ {a} \in G
    BY <1>2
  <2> DEFINE J == Image(s \ {a})
  <2>2. IsFiniteSet(J) /\ Total(f, s \ {a}) = Total(g, J)
    BY <2>1
  <2>3. Image(s) = J \cup {b[a]} /\ b[a] \notin J
    BY <2>1
  <2>4. \A y \in J \cup {b[a]} : g[y] \in Int
    OBVIOUS
  <2>5. IsFiniteSet(s)
    BY FS_Subset
  <2>6. Total(f, s) = f[a] + Total(f, s \ {a})
    BY <2>5, TotalElement
  <2> HIDE DEF J
  <2>a. IsFiniteSet(J \cup {b[a]})
    BY <2>2, FS_AddElement
  <2> DEFINE v == b[a]
  <2>b. v \notin J /\ \A y \in J \cup {v} : g[y] \in Int
    BY <2>3, <2>4
  <2>7. Total(g, J \cup {v}) = Total(g, J) + g[v]
    <3> HIDE DEF v
    <3> QED BY <2>2, <2>b, TotalAdd
  <2>8. Total(g, J) \in Int /\ f[a] \in Int /\ g[b[a]] = f[a]
    BY <2>2, <2>4, TotalType
  <2>9. Total(f, s) = Total(g, J \cup {b[a]})
    BY <2>2, <2>6, <2>7, <2>8
  <2> QED BY <2>3, <2>9, <2>a
<1> HIDE DEF G
<1>3. S \in G
  BY <1>1, <1>2, SubsetInduction, ZenonT(60)
<1> QED BY <1>3 DEF G

-----------------------------------------------------------------------------
(* Sums over intervals.                                                     *)

\* The sum of f over an interval.
SumOver(f, a, b) == SumFunction([k \in a .. b |-> f[k]])

\* A sum over part of a function is a total.
LEMMA SumOverTotal ==
    ASSUME NEW a \in Int, NEW b \in Int, NEW c \in Int, b <= c,
           NEW f, \A k \in a .. c : f[k] \in Nat
    PROVE  SumOver(f, a, b) = Total(f, a .. b)
<1> DEFINE g == [k \in a .. b |-> f[k]]
<1>1. SumOver(f, a, b) = Total(g, a .. b)
  BY Zenon DEF SumOver, SumFunction, Total
<1>2. \A k \in a .. b : g[k] \in Int /\ g[k] = f[k]
  OBVIOUS
<1> HIDE DEF g
<1>3. Total(g, a .. b) = Total(f, a .. b)
  BY <1>2, FS_Interval, TotalEqual
<1> QED BY <1>1, <1>3

\* Sums of natural numbers grow with the interval.
LEMMA SumOverGrows ==
    ASSUME NEW a \in Int, NEW b \in Int, NEW c \in Int, b <= c,
           NEW f, \A k \in a .. c : f[k] \in Nat
    PROVE  SumOver(f, a, b) \in Nat /\ SumOver(f, a, b) <= SumOver(f, a, c)
<1> DEFINE g == [k \in a .. c |-> IF k <= b THEN f[k] ELSE 0]
<1>1. SumOver(f, a, b) = Total(f, a .. b) /\ SumOver(f, a, c) = Total(f, a .. c)
  <2>1. SumOver(f, a, b) = Total(f, a .. b)
    BY SumOverTotal
  <2>2. c <= c
    OBVIOUS
  <2>3. SumOver(f, a, c) = Total(f, a .. c)
    BY <2>2, SumOverTotal
  <2> QED BY <2>1, <2>3
<1>2. IsFiniteSet(a .. b) /\ IsFiniteSet(a .. c) /\ a .. b \in SUBSET (a .. c)
  BY FS_Interval
<1>3. Total(f, a .. b) = Total(g, a .. b)
  <2>1. \A k \in a .. b : f[k] \in Int /\ g[k] = f[k]
    OBVIOUS
  <2> HIDE DEF g
  <2> QED BY <1>2, <2>1, TotalEqual
<1>4. Total(g, a .. c) = Total(g, a .. b)
  <2>1. /\ \A k \in a .. c : g[k] \in Int
        /\ \A k \in (a .. c) \ (a .. b) : g[k] = 0
    OBVIOUS
  <2> HIDE DEF g
  <2> QED BY <1>2, <2>1, TotalSubset
<1>5. Total(g, a .. c) <= Total(f, a .. c)
  <2>1. \A k \in a .. c : g[k] \in Int /\ f[k] \in Int /\ g[k] <= f[k]
    OBVIOUS
  <2> HIDE DEF g
  <2> QED BY <1>2, <2>1, TotalMonotone
<1>6. Total(f, a .. b) \in Int /\ Total(f, a .. b) >= 0
  BY <1>2, TotalType, TotalNonNegative
<1> HIDE DEF g
<1> QED BY <1>1, <1>3, <1>4, <1>5, <1>6

\* The last summand.
LEMMA SumOverLast ==
    ASSUME NEW a \in Int, NEW b \in Int, a <= b,
           NEW f, \A k \in a .. b : f[k] \in Nat
    PROVE  SumOver(f, a, b) = SumOver(f, a, b - 1) + f[b]
<1>0. b - 1 \in Int /\ b - 1 <= b /\ b <= b
  OBVIOUS
<1>1. SumOver(f, a, b) = Total(f, a .. b) /\ SumOver(f, a, b - 1) = Total(f, a .. b - 1)
  <2>1. SumOver(f, a, b) = Total(f, a .. b)
    BY <1>0, SumOverTotal
  <2>2. SumOver(f, a, b - 1) = Total(f, a .. b - 1)
    BY <1>0, SumOverTotal
  <2> QED BY <2>1, <2>2
<1>2. IsFiniteSet(a .. b - 1) /\ b \notin a .. b - 1 /\ (a .. b - 1) \cup {b} = a .. b
  <2>1. IsFiniteSet(a .. b - 1)
    BY <1>0, FS_Interval
  <2> QED BY <2>1
<1>3. Total(f, (a .. b - 1) \cup {b}) = Total(f, a .. b - 1) + f[b]
  <2> DEFINE S == a .. b - 1
  <2>1. \A x \in S \cup {b} : f[x] \in Int
    BY <1>2
  <2>2. IsFiniteSet(S) /\ b \notin S
    BY <1>2
  <2> HIDE DEF S
  <2>3. Total(f, S \cup {b}) = Total(f, S) + f[b]
    BY <2>1, <2>2, TotalAdd
  <2> QED BY <2>3 DEF S
<1> QED BY <1>1, <1>2, <1>3

\* An empty interval has the sum zero.
LEMMA SumOverNothing == ASSUME NEW f PROVE SumOver(f, 1, 0) = 0 /\ SumOver(f, 0, -1) = 0
<1>1. SumOver(f, 1, 0) = SumFunction([k \in {} |-> f[k]])
  <2>1. 1 .. 0 = {}
    OBVIOUS
  <2> QED BY <2>1 DEF SumOver
<1>2. SumOver(f, 0, -1) = SumFunction([k \in {} |-> f[k]])
  <2>1. 0 .. -1 = {}
    OBVIOUS
  <2> QED BY <2>1 DEF SumOver
<1>3. SumFunction([k \in {} |-> f[k]]) = Total([k \in {} |-> f[k]], {})
  BY Zenon DEF SumFunction, Total
<1> QED BY <1>1, <1>2, <1>3, TotalEmpty

-----------------------------------------------------------------------------
(* Folds over sequences.                                                    *)

\* What holds of 0, and with every number of the next one, holds up to n.
LEMMA IntervalInduction ==
    ASSUME NEW n \in Nat, NEW G, 0 \in G, \A i \in 1 .. n : i - 1 \in G => i \in G
    PROVE  \A i \in 0 .. n : i \in G
<1> DEFINE T == { i \in 0 .. n : i \notin G }
<1>1. T \in SUBSET Nat
  OBVIOUS
<1>2. ASSUME T # {} PROVE FALSE
  <2>1. PICK x \in T : \A y \in T : x <= y
    <3> HIDE DEF T
    <3> QED BY <1>1, <1>2, HasLeast
  <2>2. x \in 1 .. n /\ x \notin G
    BY <1>1
  <2>3. x - 1 \notin T
    BY <2>1, <2>2
  <2>4. x - 1 \in G
    BY <2>2, <2>3
  <2> QED BY <2>2, <2>4
<1> QED BY <1>2

\* A set of natural numbers up to n has a greatest element.
LEMMA MaxIsGreatest ==
    ASSUME NEW n \in Nat, NEW s \in SUBSET (1 .. n), s # {}
    PROVE  Max(s) \in s /\ \A y \in s : y <= Max(s)
<1> DEFINE T == { n - y : y \in s }
<1>1. T \in SUBSET Nat /\ T # {}
  <2>1. \A y \in s : n - y \in Nat
    OBVIOUS
  <2>2. PICK y \in s : TRUE
    OBVIOUS
  <2>3. n - y \in T
    OBVIOUS
  <2>4. \A x \in T : x \in Nat
    BY <2>1
  <2> HIDE DEF T
  <2> QED BY <2>3, <2>4
<1>2. PICK x \in T : \A y \in T : x <= y
  <2> HIDE DEF T
  <2> QED BY <1>1, HasLeast
<1>3. PICK m \in s : x = n - m
  OBVIOUS
<1>4. \A y \in s : m >= y
  BY <1>2, <1>3
<1>5. Max(s) \in s /\ \A y \in s : Max(s) >= y
  BY <1>3, <1>4, Zenon DEF Max
<1> QED BY <1>5

\* k folds g over every set of numbers up to n, from the greatest number down, the way
\* FoldLeft does it.
Folds(k, g, base, S) ==
    \A s \in SUBSET S :
        k[s] = IF s = {} THEN base ELSE g[<< k[s \ {Max(s)}], Max(s) >>]

\* There is such a fold, where g stays within a set of values.
LEMMA FoldExists ==
    ASSUME NEW n \in Nat, NEW V, NEW base \in V, NEW g,
           \A v \in V : \A i \in 1 .. n : g[<< v, i >>] \in V
    PROVE  \E k \in [SUBSET (1 .. n) -> V] : Folds(k, g, base, 1 .. n)
<1> DEFINE S == 1 .. n
           G == { s \in SUBSET S : \E k \in [SUBSET s -> V] : Folds(k, g, base, s) }
<1>1. {} \in G
  <2> DEFINE k == [t \in SUBSET {} |-> base]
  <2>1. k \in [SUBSET {} -> V] /\ Folds(k, g, base, {})
    BY DEF Folds
  <2> QED BY <2>1
<1>2. ASSUME NEW s \in SUBSET S, s # {}, \A x \in s : s \ {x} \in G PROVE s \in G
  <2> DEFINE m == Max(s)
  <2>1. m \in s /\ \A y \in s : y <= m
    BY <1>2, MaxIsGreatest
  <2>2. PICK k \in [SUBSET (s \ {m}) -> V] : Folds(k, g, base, s \ {m})
    BY <1>2, <2>1
  <2> DEFINE h == [t \in SUBSET s |-> IF m \in t THEN g[<< k[t \ {m}], m >>] ELSE k[t]]
  <2>3. \A t \in SUBSET s : /\ t \ {m} \in SUBSET (s \ {m})
                             /\ m \notin t => t \in SUBSET (s \ {m})
    OBVIOUS
  <2>4. h \in [SUBSET s -> V]
    <3>1. m \in 1 .. n
      BY <2>1
    <3> HIDE DEF m
    <3>2. ASSUME NEW t \in SUBSET s PROVE (IF m \in t THEN g[<< k[t \ {m}], m >>] ELSE k[t]) \in V
      <4>1. k[t \ {m}] \in V
        BY <2>3
      <4>2. m \notin t => k[t] \in V
        BY <2>3
      <4> QED BY <3>1, <4>1, <4>2
    <3> QED BY <3>2
  <2>5. ASSUME NEW t \in SUBSET s
        PROVE  h[t] = IF t = {} THEN base ELSE g[<< h[t \ {Max(t)}], Max(t) >>]
    <3>1. CASE m \in t
      <4>1. Max(t) \in t /\ \A y \in t : y <= Max(t)
        BY <3>1, MaxIsGreatest
      <4>2. Max(t) = m
        <5> DEFINE a == Max(t)
        <5>1. a \in s /\ a <= m /\ m <= a
          BY <2>1, <3>1, <4>1
        <5>2. a \in Int /\ m \in Int
          <6>1. \A y \in s : y \in Int
            OBVIOUS
          <6> HIDE DEF a, m
          <6> QED BY <2>1, <5>1, <6>1
        <5> HIDE DEF a, m
        <5>3. a = m
          BY <5>1, <5>2
        <5> QED BY <5>3 DEF a
      <4> HIDE DEF m
      <4>3. h[t] = g[<< k[t \ {m}], m >>] /\ h[t \ {m}] = k[t \ {m}]
        BY <3>1
      <4> HIDE DEF h
      <4> QED BY <3>1, <4>2, <4>3
    <3>2. CASE m \notin t
      <4>1. t \in SUBSET (s \ {m}) /\ h[t] = k[t]
        BY <3>2
      <4>2. k[t] = IF t = {} THEN base ELSE g[<< k[t \ {Max(t)}], Max(t) >>]
        BY <2>2, <4>1 DEF Folds
      <4>3. h[t \ {Max(t)}] = k[t \ {Max(t)}]
        <5> HIDE DEF m
        <5>1. t \ {Max(t)} \in SUBSET s /\ m \notin t \ {Max(t)}
          BY <3>2
        <5> QED BY <5>1
      <4> HIDE DEF h, m
      <4> QED BY <4>1, <4>2, <4>3
    <3> QED BY <3>1, <3>2
  <2> HIDE DEF h
  <2>6. Folds(h, g, base, s)
    BY <2>5 DEF Folds
  <2> QED BY <2>4, <2>6
<1> HIDE DEF G
<1>3. IsFiniteSet(S)
  <2>1. 1 \in Int /\ n \in Int
    OBVIOUS
  <2> QED BY <2>1, FS_Interval
<1>4. \A s \in SUBSET S : s \in G
  <2> HIDE DEF S
  <2> QED BY <1>1, <1>2, <1>3, SubsetInduction
<1> QED BY <1>4 DEF G

\* A fold over 1 .. i continues the one over 1 .. i - 1.
LEMMA FoldPrefix ==
    ASSUME NEW n \in Nat, NEW i \in 1 .. n
    PROVE  /\ 1 .. i \in SUBSET (1 .. n) /\ 1 .. i # {}
           /\ Max(1 .. i) = i /\ (1 .. i) \ {i} = 1 .. i - 1
<1>1. 1 .. i \in SUBSET (1 .. n) /\ i \in 1 .. i /\ (1 .. i) \ {i} = 1 .. i - 1
  OBVIOUS
<1>2. Max(1 .. i) \in 1 .. i /\ i <= Max(1 .. i)
  BY <1>1, MaxIsGreatest
<1> QED BY <1>1, <1>2
=============================================================================

------------------------------ MODULE Totals_proofs ------------------------------
(***************************************************************************)
(* What the sums of Totals are and how they change with a term, for every  *)
(* number of terms: by induction on the naturals, stated about sets since  *)
(* a set, and no operator, can be given to the library's theorems.         *)
(***************************************************************************)
EXTENDS Totals, FiniteSetTheorems, WellFoundedInduction, TLAPS

-----------------------------------------------------------------------------
(* Induction *)

\* A set of naturals has a least element.
LEMMA Least ==
    ASSUME NEW S, S \subseteq Nat, S # {}
    PROVE  \E n \in S : \A m \in S : n <= m
<1> DEFINE R == OpToRel(<, Nat)
<1>1. IsWellFoundedOn(R, Nat)
  BY NatLessThanWellFounded
<1>2. \A x, y \in Nat : <<x, y>> \in R <=> x < y
  BY DEF OpToRel
<1> HIDE DEF R
<1>3. PICK x \in S : \A y \in S : ~(<<y, x>> \in R)
  BY <1>1, WFMin
<1>4. ASSUME NEW y \in S PROVE x <= y
  <2>1. x \in Nat /\ y \in Nat /\ ~(<<y, x>> \in R)
    BY <1>3
  <2>2. ~(y < x)
    BY <1>2, <2>1
  <2>3. QED
    BY <2>1, <2>2
<1>5. QED
  BY <1>4

\* A set with 0 and the successors of its naturals has them all.
LEMMA SetInduction ==
    ASSUME NEW S, 0 \in S, \A n \in Nat : n \in S => n + 1 \in S
    PROVE  \A n \in Nat : n \in S
<1> DEFINE T == {n \in Nat : n \notin S}
<1>1. SUFFICES ASSUME T # {} PROVE FALSE
  OBVIOUS
<1>2. PICK n \in T : \A m \in T : n <= m
  BY <1>1, Least
<1>3. n \in Nat /\ n # 0 /\ n - 1 \in Nat /\ n \notin S
  BY <1>2
<1>4. n - 1 \in S
  BY <1>2, <1>3
<1>5. n - 1 + 1 = n
  BY <1>3
<1>6. QED
  BY <1>3, <1>4, <1>5

-----------------------------------------------------------------------------
(* Induction on the subsets of a finite set *)

\* A set that holds every T once it holds the T \ {x} holds every T.
LEMMA SubsetInduction ==
    ASSUME NEW S, IsFiniteSet(S), NEW A,
           \A T \in SUBSET S : (\A x \in T : T \ {x} \in A) => T \in A
    PROVE  \A T \in SUBSET S : T \in A
<1> DEFINE N == {n \in Nat : \A T \in SUBSET S : Cardinality(T) = n => T \in A}
<1>1. 0 \in N
  <2> SUFFICES ASSUME NEW T \in SUBSET S, Cardinality(T) = 0 PROVE T \in A
    OBVIOUS
  <2>1. IsFiniteSet(T)
    BY FS_Subset
  <2>2. T = {}
    BY <2>1, FS_EmptySet
  <2>3. QED
    BY <2>2
<1>2. ASSUME NEW n \in Nat, n \in N PROVE n + 1 \in N
  <2> SUFFICES ASSUME NEW T \in SUBSET S, Cardinality(T) = n + 1 PROVE T \in A
    OBVIOUS
  <2>1. IsFiniteSet(T)
    BY FS_Subset
  <2>2. ASSUME NEW x \in T PROVE T \ {x} \in A
    <3>1. Cardinality(T \ {x}) = Cardinality(T) - 1
      BY <2>1, FS_RemoveElement
    <3>2. Cardinality(T \ {x}) = n /\ T \ {x} \in SUBSET S
      BY <3>1
    <3>3. QED
      BY <1>2, <3>2
  <2>3. QED
    BY <2>2
<1> HIDE DEF N
<1>3. \A n \in Nat : n \in N
  BY <1>1, <1>2, SetInduction
<1>4. ASSUME NEW T \in SUBSET S PROVE T \in A
  <2>1. Cardinality(T) \in Nat
    BY FS_Subset, FS_CardinalityType
  <2>2. Cardinality(T) \in N
    BY <1>3, <2>1
  <2>3. QED
    BY <2>2 DEF N
<1>5. QED
  BY <1>4

-----------------------------------------------------------------------------
(* The recursive function of a sum *)

\* The element a sum takes next.
Choice(T) == CHOOSE x \in T : TRUE

\* g sums v over the subsets of S, taking their elements in the order of Choice.
AreSums(v, S, g) ==
    /\ DOMAIN g = SUBSET S
    /\ g[{}] = 0
    /\ \A T \in SUBSET S : T # {} => g[T] = v[Choice(T)] + g[T \ {Choice(T)}]

LEMMA ChoiceIn == ASSUME NEW T, T # {} PROVE Choice(T) \in T
BY DEF Choice

\* There is such a function: the sums over the subsets of k elements extend to
\* those of k + 1.
LEMMA SumsExist ==
    ASSUME NEW S, IsFiniteSet(S), NEW v
    PROVE  \E g : AreSums(v, S, g)
<1> DEFINE Small(k) == {T \in SUBSET S : Cardinality(T) <= k}
           AreSmallSums(k, g) ==
               /\ DOMAIN g = Small(k)
               /\ g[{}] = 0
               /\ \A T \in Small(k) : T # {} => g[T] = v[Choice(T)] + g[T \ {Choice(T)}]
           N == {k \in Nat : \E g : AreSmallSums(k, g)}
<1>1. \A T \in SUBSET S : IsFiniteSet(T) /\ Cardinality(T) \in Nat
  BY FS_Subset, FS_CardinalityType
<1>2. \A k \in Nat : {} \in Small(k)
  BY FS_EmptySet
<1>3. 0 \in N
  <2> DEFINE g == [T \in Small(0) |-> 0]
  <2>1. \A T \in Small(0) : T = {}
    <3> SUFFICES ASSUME NEW T \in Small(0) PROVE T = {}
      OBVIOUS
    <3>1. IsFiniteSet(T) /\ Cardinality(T) = 0
      BY <1>1
    <3>2. QED
      BY <3>1, FS_EmptySet
  <2>2. AreSmallSums(0, g)
    BY <1>2, <2>1
  <2>3. QED
    BY <2>2
<1>4. ASSUME NEW k \in Nat, k \in N PROVE k + 1 \in N
  <2>1. PICK g : AreSmallSums(k, g)
    BY <1>4
  <2> DEFINE h == [T \in Small(k + 1) |->
                      IF Cardinality(T) <= k THEN g[T] ELSE v[Choice(T)] + g[T \ {Choice(T)}]]
  <2>2. h[{}] = 0
    BY <1>2, <2>1, FS_EmptySet
  <2>3. ASSUME NEW T \in Small(k + 1), T # {}
        PROVE  h[T] = v[Choice(T)] + h[T \ {Choice(T)}]
    <3> DEFINE U == T \ {Choice(T)}
    <3>1. U \in SUBSET S /\ Cardinality(U) = Cardinality(T) - 1 /\ Cardinality(T) \in Nat
          /\ Cardinality(T) <= k + 1
      BY <1>1, <2>3, ChoiceIn, FS_RemoveElement
    <3>2. U \in Small(k) /\ U \in Small(k + 1) /\ Cardinality(U) <= k
      BY <3>1
    <3>3. h[U] = g[U]
      BY <3>2
    <3>4. CASE Cardinality(T) <= k
      <4>1. T \in Small(k)
        BY <3>4
      <4>2. g[T] = v[Choice(T)] + g[U]
        BY <2>1, <2>3, <4>1
      <4>3. QED
        BY <3>3, <3>4, <4>2
    <3>5. CASE ~(Cardinality(T) <= k)
      BY <3>3, <3>5
    <3>6. QED
      BY <3>4, <3>5
  <2>4. DOMAIN h = Small(k + 1)
    OBVIOUS
  <2> HIDE DEF h
  <2>5. AreSmallSums(k + 1, h)
    BY <2>2, <2>3, <2>4
  <2> HIDE DEF AreSmallSums
  <2>6. QED
    BY <2>5
<1> HIDE DEF N
<1>5. Cardinality(S) \in N /\ Cardinality(S) \in Nat
  BY <1>1, <1>3, <1>4, SetInduction
<1>6. Small(Cardinality(S)) = SUBSET S
  BY FS_Subset
<1>7. PICK g : AreSmallSums(Cardinality(S), g)
  BY <1>5 DEF N
<1> HIDE DEF Small
<1>8. AreSums(v, S, g)
  BY <1>6, <1>7 DEF AreSums
<1>9. QED
  BY <1>8

\* So a sum is the last value of such a function ...
LEMMA SumOverIs ==
    ASSUME NEW S, IsFiniteSet(S), NEW v
    PROVE  \E g : AreSums(v, S, g) /\ SumOver(v, S) = g[S]
<1> DEFINE Step(g) == [T \in SUBSET S |->
                          IF T = {} THEN 0
                          ELSE v[CHOOSE x \in T : TRUE] + g[T \ {CHOOSE x \in T : TRUE}]]
           c == CHOOSE g : g = Step(g)
<1>1. PICK g : AreSums(v, S, g)
  BY SumsExist
<1> DEFINE h == [T \in SUBSET S |-> g[T]]
<1>2. h = Step(h)
  <2>1. ASSUME NEW T \in SUBSET S
        PROVE  h[T] = IF T = {} THEN 0
                      ELSE v[CHOOSE x \in T : TRUE] + h[T \ {CHOOSE x \in T : TRUE}]
    <3>1. CASE T = {}
      BY <1>1, <3>1 DEF AreSums
    <3>2. CASE T # {}
      BY <1>1, <3>2 DEF AreSums, Choice
    <3>3. QED
      BY <3>1, <3>2
  <2>2. QED
    BY <2>1
<1>3. c = Step(c)
  BY <1>2
<1>4. SumOver(v, S) = c[S]
  BY DEF SumOver, MapThenFoldSet
<1> HIDE DEF c
<1>5. AreSums(v, S, c)
  BY <1>3 DEF AreSums, Choice
<1>6. QED
  BY <1>4, <1>5

\* ... and it does not matter of which, as long as the terms are the same.
LEMMA SumsAgree ==
    ASSUME NEW S, NEW U \in SUBSET S, IsFiniteSet(U), NEW v, NEW w,
           \A x \in U : v[x] = w[x],
           NEW g, AreSums(v, S, g), NEW h, AreSums(w, U, h)
    PROVE  g[U] = h[U]
<1> DEFINE A == {T \in SUBSET U : g[T] = h[T]}
<1>1. ASSUME NEW T \in SUBSET U, \A x \in T : T \ {x} \in A PROVE T \in A
  <2>1. CASE T = {}
    BY <2>1 DEF AreSums
  <2>2. CASE T # {}
    <3>1. Choice(T) \in T
      BY <2>2, ChoiceIn
    <3>2. g[T \ {Choice(T)}] = h[T \ {Choice(T)}] /\ v[Choice(T)] = w[Choice(T)]
      BY <1>1, <3>1
    <3>3. /\ g[T] = v[Choice(T)] + g[T \ {Choice(T)}]
          /\ h[T] = w[Choice(T)] + h[T \ {Choice(T)}]
      BY <2>2 DEF AreSums
    <3>4. QED
      BY <3>2, <3>3
  <2>3. QED
    BY <2>1, <2>2
<1> HIDE DEF A
<1>2. U \in A
  BY <1>1, SubsetInduction
<1>3. QED
  BY <1>2 DEF A

\* The sums of integers are integers, of naturals naturals, ...
LEMMA SumsType ==
    ASSUME NEW S, IsFiniteSet(S), NEW v, NEW D, D = Int \/ D = Nat,
           \A x \in S : v[x] \in D, NEW g, AreSums(v, S, g)
    PROVE  \A T \in SUBSET S : g[T] \in D
<1> DEFINE A == {T \in SUBSET S : g[T] \in D}
<1>1. ASSUME NEW T \in SUBSET S, \A x \in T : T \ {x} \in A PROVE T \in A
  <2>1. CASE T = {}
    BY <2>1 DEF AreSums
  <2>2. CASE T # {}
    <3>1. Choice(T) \in T
      BY <2>2, ChoiceIn
    <3>2. g[T \ {Choice(T)}] \in D /\ v[Choice(T)] \in D
      BY <1>1, <3>1
    <3>3. g[T] = v[Choice(T)] + g[T \ {Choice(T)}]
      BY <2>2 DEF AreSums
    <3>4. QED
      BY <3>2, <3>3
  <2>3. QED
    BY <2>1, <2>2
<1> HIDE DEF A
<1>2. \A T \in SUBSET S : T \in A
  BY <1>1, SubsetInduction
<1>3. QED
  BY <1>2 DEF A

\* ... and any element may be taken first.
LEMMA SumsInAnyOrder ==
    ASSUME NEW S, IsFiniteSet(S), NEW v, \A x \in S : v[x] \in Int, NEW g, AreSums(v, S, g)
    PROVE  \A x \in S : g[S] = v[x] + g[S \ {x}]
<1> DEFINE A == {T \in SUBSET S : \A x \in T : g[T] = v[x] + g[T \ {x}]}
<1>1. \A T \in SUBSET S : g[T] \in Int
  BY SumsType
<1>2. ASSUME NEW T \in SUBSET S, \A x \in T : T \ {x} \in A PROVE T \in A
  <2> SUFFICES ASSUME NEW x \in T PROVE g[T] = v[x] + g[T \ {x}]
    OBVIOUS
  <2> DEFINE y == Choice(T)
  <2>1. y \in T /\ g[T] = v[y] + g[T \ {y}]
    BY ChoiceIn DEF AreSums
  <2>2. CASE x = y
    BY <2>1, <2>2
  <2>3. CASE x # y
    <3> HIDE DEF y
    <3>1. /\ T \ {x} \in A /\ y \in T \ {x}
          /\ T \ {y} \in A /\ x \in T \ {y}
          /\ (T \ {x}) \ {y} = (T \ {y}) \ {x}
      BY <1>2, <2>1, <2>3
    <3>2. PICK rest \in Int : rest = g[(T \ {x}) \ {y}]
      BY <1>1
    <3>3. g[T \ {x}] = v[y] + rest /\ g[T \ {y}] = v[x] + rest
      BY <3>1, <3>2
    <3>4. v[x] \in Int /\ v[y] \in Int
      BY <2>1
    <3>5. QED
      BY <2>1, <3>3, <3>4
  <2>4. QED
    BY <2>2, <2>3
<1> HIDE DEF A
<1>3. \A T \in SUBSET S : T \in A
  BY <1>2, SubsetInduction
<1>4. QED
  BY <1>3 DEF A

-----------------------------------------------------------------------------
(* Sums *)

LEMMA SumOverNothing == ASSUME NEW v PROVE SumOver(v, {}) = 0
<1>1. PICK g : AreSums(v, {}, g) /\ SumOver(v, {}) = g[{}]
  BY SumOverIs, FS_EmptySet
<1>2. QED
  BY <1>1 DEF AreSums

LEMMA SumOverType ==
    ASSUME NEW S, IsFiniteSet(S), NEW v, NEW D, D = Int \/ D = Nat, \A x \in S : v[x] \in D
    PROVE  SumOver(v, S) \in D
<1>1. PICK g : AreSums(v, S, g) /\ SumOver(v, S) = g[S]
  BY SumOverIs
<1>2. QED
  BY <1>1, SumsType

\* A sum depends on its terms only.
LEMMA SumOverEqual ==
    ASSUME NEW S, IsFiniteSet(S), NEW v, NEW w, \A x \in S : v[x] = w[x]
    PROVE  SumOver(v, S) = SumOver(w, S)
<1>1. PICK g : AreSums(v, S, g) /\ SumOver(v, S) = g[S]
  BY SumOverIs
<1>2. PICK h : AreSums(w, S, h) /\ SumOver(w, S) = h[S]
  BY SumOverIs
<1>3. QED
  BY <1>1, <1>2, SumsAgree

\* A term joins the others.
LEMMA SumOverAdd ==
    ASSUME NEW S, IsFiniteSet(S), NEW x, x \notin S,
           NEW v, NEW w, \A y \in S : v[y] \in Int /\ w[y] = v[y], w[x] \in Int
    PROVE  SumOver(w, S \cup {x}) = SumOver(v, S) + w[x]
<1> DEFINE All == S \cup {x}
<1>1. IsFiniteSet(All) /\ All \ {x} = S /\ S \in SUBSET All /\ x \in All
      /\ \A y \in All : w[y] \in Int
  BY FS_AddElement
<1> HIDE DEF All
<1>2. PICK g : AreSums(w, All, g) /\ SumOver(w, All) = g[All]
  BY <1>1, SumOverIs
<1>3. PICK h : AreSums(v, S, h) /\ SumOver(v, S) = h[S]
  BY SumOverIs
<1>4. g[S] = h[S]
  BY <1>1, <1>2, <1>3, SumsAgree
<1>5. g[All] = w[x] + g[S]
  BY <1>1, <1>2, SumsInAnyOrder
<1>6. g[S] \in Int
  BY <1>1, <1>2, SumsType
<1>7. QED
  BY <1>2, <1>3, <1>4, <1>5, <1>6 DEF All

\* Any term may be counted last.
LEMMA SumOverSplit ==
    ASSUME NEW S, IsFiniteSet(S), NEW x \in S, NEW v, \A y \in S : v[y] \in Int
    PROVE  /\ SumOver(v, S \ {x}) \in Int
           /\ SumOver(v, S) = SumOver(v, S \ {x}) + v[x]
<1> DEFINE R == S \ {x}
<1>1. IsFiniteSet(R) /\ R \cup {x} = S /\ x \notin R /\ \A y \in R : v[y] \in Int /\ v[y] = v[y]
  BY FS_RemoveElement
<1> HIDE DEF R
<1>2. SumOver(v, R) \in Int
  BY <1>1, SumOverType
<1>3. SumOver(v, R \cup {x}) = SumOver(v, R) + v[x]
  BY <1>1, SumOverAdd
<1>4. QED
  BY <1>1, <1>2, <1>3 DEF R

\* A term changes.
LEMMA SumOverChange ==
    ASSUME NEW S, IsFiniteSet(S), NEW x \in S, NEW v, \A y \in S : v[y] \in Int,
           NEW d \in Int, NEW w, \A y \in S \ {x} : w[y] = v[y], w[x] = v[x] + d
    PROVE  SumOver(w, S) = SumOver(v, S) + d
<1>1. SumOver(v, S \ {x}) \in Int /\ SumOver(v, S) = SumOver(v, S \ {x}) + v[x]
  BY SumOverSplit
<1>2. \A y \in S : w[y] \in Int
  OBVIOUS
<1>3. SumOver(w, S) = SumOver(w, S \ {x}) + w[x]
  BY <1>2, SumOverSplit
<1>4. SumOver(w, S \ {x}) = SumOver(v, S \ {x})
  BY FS_RemoveElement, SumOverEqual
<1>5. PICK a \in Int : a = SumOver(v, S \ {x})
  BY <1>1
<1>6. PICK b \in Int : b = v[x] /\ w[x] = b + d
  OBVIOUS
<1>7. SumOver(v, S) = a + b /\ SumOver(w, S) = a + (b + d)
  BY <1>1, <1>3, <1>4, <1>5, <1>6
<1>8. QED
  BY <1>7

\* A term becomes smaller.
LEMMA SumOverLess ==
    ASSUME NEW S, IsFiniteSet(S), NEW x \in S, NEW v, \A y \in S : v[y] \in Int,
           NEW d \in Int, NEW w, \A y \in S \ {x} : w[y] = v[y], w[x] = v[x] - d
    PROVE  SumOver(w, S) = SumOver(v, S) - d
<1>1. PICK e \in Int : e = 0 - d
  OBVIOUS
<1>2. w[x] = v[x] + e
  BY <1>1
<1>3. SumOver(w, S) = SumOver(v, S) + e
  BY <1>2, SumOverChange
<1>4. SumOver(v, S) \in Int
  BY SumOverType
<1>5. QED
  BY <1>1, <1>3, <1>4

\* More naturals have no smaller a sum.
LEMMA SumOverMore ==
    ASSUME NEW S, IsFiniteSet(S), NEW v, \A y \in S : v[y] \in Nat, NEW U, U \subseteq S
    PROVE  SumOver(v, U) <= SumOver(v, S)
<1> DEFINE A == {T \in SUBSET S : SumOver(v, U \cap T) <= SumOver(v, T)}
<1>1. ASSUME NEW T \in SUBSET S, \A x \in T : T \ {x} \in A PROVE T \in A
  <2>1. CASE T = {}
    <3>1. U \cap T = T /\ SumOver(v, T) = 0
      BY <2>1, SumOverNothing
    <3>2. QED
      BY <3>1
  <2>2. CASE T # {}
    <3>1. PICK x \in T : TRUE
      BY <2>2
    <3>2. /\ IsFiniteSet(T) /\ IsFiniteSet(U \cap T) /\ v[x] \in Nat
          /\ IsFiniteSet(T \ {x}) /\ IsFiniteSet(U \cap (T \ {x}))
          /\ \A y \in T : v[y] \in Int /\ v[y] \in Nat
          /\ \A y \in U \cap T : v[y] \in Int
      BY FS_Subset
    <3>3. SumOver(v, U \cap (T \ {x})) <= SumOver(v, T \ {x})
      BY <1>1, <3>1
    <3>4. PICK a \in Nat : a = SumOver(v, U \cap (T \ {x}))
      BY <3>2, SumOverType
    <3>5. PICK b \in Nat : b = SumOver(v, T \ {x})
      BY <3>2, SumOverType
    <3>6. SumOver(v, T) = b + v[x]
      BY <3>1, <3>2, <3>5, SumOverSplit
    <3>7. SumOver(v, U \cap T) = IF x \in U THEN a + v[x] ELSE a
      <4>1. CASE x \in U
        <5>1. (U \cap T) \ {x} = U \cap (T \ {x}) /\ x \in U \cap T
          BY <3>1, <4>1
        <5>2. SumOver(v, U \cap T) = SumOver(v, (U \cap T) \ {x}) + v[x]
          BY <3>2, <5>1, SumOverSplit
        <5>3. QED
          BY <3>4, <4>1, <5>1, <5>2
      <4>2. CASE x \notin U
        <5>1. U \cap T = U \cap (T \ {x})
          BY <4>2
        <5>2. QED
          BY <3>4, <4>2, <5>1
      <4>3. QED
        BY <4>1, <4>2
    <3>8. a <= b
      BY <3>3, <3>4, <3>5
    <3>9. SumOver(v, U \cap T) <= SumOver(v, T)
      BY <3>2, <3>6, <3>7, <3>8
    <3>10. QED
      BY <3>9
  <2>3. QED
    BY <2>1, <2>2
<1> HIDE DEF A
<1>2. \A T \in SUBSET S : T \in A
  BY <1>1, SubsetInduction
<1>3. U \cap S = U /\ S \in A
  BY <1>2
<1>4. QED
  BY <1>3 DEF A

=================================================================================

----------------------------- MODULE SkipList_proofs -----------------------------
(***************************************************************************)
(* The invariant of the skip list, and the proofs that its operations find *)
(* their place and keep every level threaded, for every number of nodes,   *)
(* levels and prices and every tolerance.  The walks along the pointers are*)
(* recursive functions: that they exist and where they end is proved by    *)
(* induction on what is left of the list.                                  *)
(***************************************************************************)
EXTENDS SkipList, Totals_proofs

\* The nodes on level i, and those of them that come behind x.
On(i) == {n \in Listed : height[n] >= i}
Rest(i, x) == {n \in On(i) : Behind(n, x)}

\* A node points nowhere on the levels it is not on, so that a walk never leaves
\* the list.
OffTheList == \A i \in Heights : \A n \in Nodes \ On(i) : forward[i][n] = Nil

SInv ==
    /\ TypeOK
    /\ PricesApart
    /\ LevelsThreadTheList
    /\ OffTheList
    /\ IsFiniteSet(Listed)

-----------------------------------------------------------------------------
(* Recursion along pointers *)

\* What holds of y if it holds of all of lower rank holds of all.
LEMMA RankInduction ==
    ASSUME NEW P, NEW r, \A y \in P : r[y] \in Nat, NEW A,
           \A y \in P : (\A z \in P : r[z] < r[y] => z \in A) => y \in A
    PROVE  \A y \in P : y \in A
<1> DEFINE N == {n \in Nat : \A y \in P : r[y] < n => y \in A}
<1>1. 0 \in N
  OBVIOUS
<1>2. ASSUME NEW n \in Nat, n \in N PROVE n + 1 \in N
  <2> SUFFICES ASSUME NEW y \in P, r[y] < n + 1 PROVE y \in A
    OBVIOUS
  <2>1. \A z \in P : r[z] < r[y] => r[z] < n
    OBVIOUS
  <2>2. \A z \in P : r[z] < r[y] => z \in A
    BY <1>2, <2>1
  <2>3. QED
    BY <2>2
<1> HIDE DEF N
<1>3. \A n \in Nat : n \in N
  BY <1>1, <1>2, SetInduction
<1>4. ASSUME NEW y \in P PROVE y \in A
  <2>1. r[y] + 1 \in Nat /\ r[y] < r[y] + 1
    OBVIOUS
  <2>2. r[y] + 1 \in N
    BY <1>3, <2>1
  <2>3. QED
    BY <2>1, <2>2 DEF N
<1>5. QED
  BY <1>4

\* f is, at every y of P, v[y], or for a y of G what g makes of its value at next[y].
Follows(f, P, G, next, g, v) ==
    \A y \in P : f[y] = IF y \in G THEN g[y][f[next[y]]] ELSE v[y]

\* There is such a function when next leads down in rank: on what is of rank less
\* than k + 1 it extends the one for k.
LEMMA FollowsExists ==
    ASSUME NEW P, NEW V, NEW G, NEW next, NEW g, NEW v, NEW r, NEW bound \in Nat,
           \A y \in P : r[y] \in 0..bound /\ v[y] \in V,
           \A y \in P : y \in G => next[y] \in P /\ r[next[y]] < r[y],
           \A y \in P : y \in G => \A z \in V : g[y][z] \in V
    PROVE  \E f \in [P -> V] : Follows(f, P, G, next, g, v)
<1> DEFINE At(f, y) == IF y \in G THEN g[y][f[next[y]]] ELSE v[y]
           Good(k, f) == \A y \in P : r[y] < k => f[y] = At(f, y)
           N == {k \in Nat : \E f \in [P -> V] : Good(k, f)}
<1>1. 0 \in N
  <2> DEFINE f == [y \in P |-> v[y]]
  <2>1. f \in [P -> V]
    OBVIOUS
  <2>2. Good(0, f)
    OBVIOUS
  <2>3. QED
    BY <2>1, <2>2
<1>2. ASSUME NEW k \in Nat, k \in N PROVE k + 1 \in N
  <2>1. PICK f \in [P -> V] : Good(k, f)
    BY <1>2
  <2> DEFINE h == [y \in P |-> IF r[y] < k THEN f[y] ELSE At(f, y)]
  <2>2. ASSUME NEW y \in P PROVE At(f, y) \in V
    BY <2>1
  <2>3. h \in [P -> V]
    BY <2>1, <2>2
  <2>4. ASSUME NEW y \in P, r[y] < k + 1 PROVE h[y] = At(h, y)
    <3>1. h[y] = At(f, y)
      BY <2>1
    <3>2. CASE y \in G
      <4>1. next[y] \in P /\ r[next[y]] < k
        BY <2>4, <3>2
      <4>2. h[next[y]] = f[next[y]]
        BY <4>1
      <4>3. QED
        BY <3>1, <3>2, <4>2
    <3>3. CASE y \notin G
      BY <3>1, <3>3
    <3>4. QED
      BY <3>2, <3>3
  <2> HIDE DEF h
  <2>5. Good(k + 1, h)
    BY <2>4
  <2>6. QED
    BY <2>3, <2>5
<1> HIDE DEF N
<1>3. bound + 1 \in N
  BY <1>1, <1>2, SetInduction
<1>4. PICK f \in [P -> V] : Good(bound + 1, f)
  BY <1>3 DEF N
<1>5. \A y \in P : r[y] < bound + 1
  OBVIOUS
<1>6. Follows(f, P, G, next, g, v)
  BY <1>4, <1>5 DEF Follows
<1>7. QED
  BY <1>6

-----------------------------------------------------------------------------
(* Keys and levels *)

\* compare orders the keys that are further apart than the tolerance, and no others.
LEMMA Order ==
    ASSUME SkipListAssumption
    PROVE  /\ \A a, b \in Int : After(a, b) => ~After(b, a) /\ ~Near(a, b)
           /\ \A a, b \in Int : Near(a, b) => Near(b, a)
           /\ \A a, b \in Int : Near(a, b) \/ After(a, b) \/ After(b, a)
           /\ \A a, b, c \in Int : After(a, b) /\ After(b, c) => After(a, c)
           /\ \A a \in Int : Near(a, a)
           /\ Keys \subseteq Int
BY DEF SkipListAssumption, After, Near

\* The nodes of the list.
LEMMA ListFacts ==
    ASSUME SkipListAssumption, SInv
    PROVE  /\ \A n \in Nodes : key[n] \in Int
           /\ \A n \in Nodes : height[n] \in 0..MaxHeight
           /\ \A i \in Heights, x \in Places : forward[i][x] \in Nodes \cup {Nil}
           /\ Header \notin Nodes /\ Nil \notin Places
           /\ On(1) = Listed /\ Listed \subseteq Nodes
           /\ \A i \in Heights : On(i) \subseteq Listed
           /\ \A i, j \in Heights : i <= j => On(j) \subseteq On(i)
           /\ \A n \in Listed : height[n] \in 1..top
           /\ top \in Heights /\ Heights \subseteq Nat /\ 1 \in Heights
           /\ \A m, n \in Listed : m # n => After(key[m], key[n]) \/ After(key[n], key[m])
<1>1. /\ key \in [Nodes -> Keys \cup {0}] /\ height \in [Nodes -> 0..MaxHeight]
      /\ forward \in [Heights -> [Places -> Nodes \cup {Nil}]]
      /\ top \in Heights /\ \A n \in Listed : height[n] <= top
  BY DEF SInv, TypeOK
<1>2. \A n \in Nodes : key[n] \in Int
  <2>1. \A n \in Nodes : key[n] \in Keys \cup {0}
    BY <1>1
  <2>2. Keys \cup {0} \subseteq Int
    BY DEF SkipListAssumption
  <2>3. QED
    BY <2>1, <2>2
<1>3. \A n \in Nodes : height[n] \in 0..MaxHeight
  BY <1>1
<1>4. \A i \in Heights, x \in Places : forward[i][x] \in Nodes \cup {Nil}
  BY <1>1
<1>5. Header \notin Nodes /\ Nil \notin Places /\ MaxHeight \in Nat \ {0}
  BY DEF SkipListAssumption, Places
<1>6. Heights \subseteq Nat /\ 1 \in Heights /\ Heights = 1..MaxHeight
  BY <1>5 DEF Heights
<1>7. Listed \subseteq Nodes /\ \A i \in Heights : On(i) \subseteq Listed
  BY DEF Listed, On
<1>8. On(1) = Listed
  BY <1>3 DEF Listed, On
<1>9. \A i, j \in Heights : i <= j => On(j) \subseteq On(i)
  BY <1>3, <1>6 DEF Listed, On
<1>10. \A n \in Listed : height[n] \in 1..top
  BY <1>1, <1>3, <1>6 DEF Listed
<1>11. \A m, n \in Listed : m # n => After(key[m], key[n]) \/ After(key[n], key[m])
  BY <1>2, <1>7, Order DEF SInv, PricesApart
<1>12. QED
  BY <1>1, <1>2, <1>3, <1>4, <1>5, <1>6, <1>7, <1>8, <1>9, <1>10, <1>11

\* The pointer of x on level i leads to the first node of the level behind x.
LEMMA Threads ==
    ASSUME SInv, NEW i \in Heights, NEW x \in {Header} \cup On(i)
    PROVE  /\ forward[i][x] = Nil => Rest(i, x) = {}
           /\ Rest(i, x) = {} => forward[i][x] = Nil
           /\ Rest(i, x) # {} =>
                /\ forward[i][x] \in Rest(i, x)
                /\ \A n \in Rest(i, x) \ {forward[i][x]} : After(key[n], key[forward[i][x]])
<1>1. x \in {Header} \cup {n \in Listed : height[n] >= i}
  BY DEF On
<1>2. Rest(i, x) = {n \in Listed : height[n] >= i /\ Behind(n, x)}
  BY DEF Rest, On
<1>3. IF Rest(i, x) = {}
      THEN forward[i][x] = Nil
      ELSE forward[i][x] \in Rest(i, x)
           /\ \A n \in Rest(i, x) \ {forward[i][x]} : After(key[n], key[forward[i][x]])
  BY <1>1, <1>2 DEF SInv, LevelsThreadTheList
<1>4. Nil \notin Rest(i, x)
  BY SkipListAssumption DEF SkipListAssumption, Rest, On, Listed
<1>5. QED
  BY <1>3, <1>4

\* Whatever is off a level points nowhere on it.
LEMMA OffPoints ==
    ASSUME SInv, NEW i \in Heights, NEW x \in Places, x \notin {Header} \cup On(i)
    PROVE  forward[i][x] = Nil
BY DEF SInv, OffTheList, Places

\* Less is left of a level behind the node a pointer leads to.
LEMMA LessRest ==
    ASSUME SkipListAssumption, SInv, NEW i \in Heights, NEW x \in Places, forward[i][x] # Nil
    PROVE  /\ x \in {Header} \cup On(i) /\ forward[i][x] \in On(i)
           /\ Cardinality(Rest(i, forward[i][x])) < Cardinality(Rest(i, x))
<1> DEFINE n == forward[i][x]
<1>1. x \in {Header} \cup On(i)
  BY OffPoints
<1>2. n \in Rest(i, x) /\ \A m \in Rest(i, x) \ {n} : After(key[m], key[n])
  BY <1>1, Threads
<1>3. n \in On(i) /\ n \in Nodes /\ n # Header /\ key[n] \in Int
  BY <1>2, ListFacts DEF Rest
<1> HIDE DEF n
<1>4. Rest(i, n) \subseteq Rest(i, x)
  <2> SUFFICES ASSUME NEW m \in Rest(i, n) PROVE m \in Rest(i, x)
    OBVIOUS
  <2>1. m \in On(i) /\ After(key[m], key[n]) /\ m \in Nodes /\ key[m] \in Int
    BY <1>3, ListFacts DEF Rest, Behind
  <2>2. CASE x = Header
    BY <2>1, <2>2 DEF Rest, Behind
  <2>3. CASE x # Header
    <3>1. x \in Nodes /\ key[x] \in Int /\ After(key[n], key[x])
      BY <1>1, <1>2, <2>3, ListFacts DEF Rest, Behind
    <3>2. After(key[m], key[x])
      BY <1>3, <2>1, <3>1, Order
    <3>3. QED
      BY <2>1, <3>2 DEF Rest, Behind
  <2>4. QED
    BY <2>2, <2>3
<1>5. n \notin Rest(i, n)
  BY <1>3, Order DEF Rest, Behind
<1>6. IsFiniteSet(Rest(i, x))
  BY FS_Subset, ListFacts DEF SInv, Rest
<1>7. Rest(i, n) \subseteq Rest(i, x) \ {n} /\ IsFiniteSet(Rest(i, x) \ {n})
      /\ Cardinality(Rest(i, x) \ {n}) = Cardinality(Rest(i, x)) - 1
      /\ Cardinality(Rest(i, x)) \in Nat
  BY <1>2, <1>4, <1>5, <1>6, FS_RemoveElement, FS_CardinalityType
<1>8. Cardinality(Rest(i, n)) <= Cardinality(Rest(i, x) \ {n}) /\ Cardinality(Rest(i, n)) \in Nat
  BY <1>7, FS_Subset, FS_CardinalityType
<1>9. QED
  BY <1>1, <1>3, <1>7, <1>8 DEF n

\* What is left is a part of the list.
LEMMA RestSize ==
    ASSUME SkipListAssumption, SInv, NEW i \in Heights, NEW x
    PROVE  Cardinality(Rest(i, x)) \in 0..Cardinality(Listed) /\ Cardinality(Listed) \in Nat
<1>1. Rest(i, x) \subseteq Listed /\ IsFiniteSet(Listed)
  BY ListFacts DEF SInv, Rest
<1>2. QED
  BY <1>1, FS_Subset, FS_CardinalityType

-----------------------------------------------------------------------------
(* The walk on one level *)

\* y is where a walk for k on level i may end.
IsPred(i, k, y) ==
    /\ y \in {Header} \cup On(i)
    /\ y = Header \/ After(k, key[y])
    /\ forward[i][y] = Nil \/ ~After(k, key[forward[i][y]])

\* The walk's definition is an equation: the recursion ends.
LEMMA WalkEquation ==
    ASSUME SkipListAssumption, SInv, NEW i \in Heights, NEW k
    PROVE  \A x \in Places : WalkEnd(i, k, x) =
               IF forward[i][x] # Nil /\ After(k, key[forward[i][x]])
               THEN WalkEnd(i, k, forward[i][x]) ELSE x
<1> DEFINE W(f) == [x \in Places |->
                      IF forward[i][x] # Nil /\ After(k, key[forward[i][x]])
                      THEN f[forward[i][x]] ELSE x]
           c == CHOOSE f : f = W(f)
           G == {x \in Places : forward[i][x] # Nil /\ After(k, key[forward[i][x]])}
           same == [z \in Places |-> z]
           g == [x \in Places |-> same]
           r == [x \in Places |-> Cardinality(Rest(i, x))]
           bound == Cardinality(Listed)
<1>1. \E f \in [Places -> Places] : Follows(f, Places, G, forward[i], g, same)
  <2>1. bound \in Nat
    BY RestSize
  <2>2. \A x \in Places : r[x] \in 0..bound /\ same[x] \in Places
    BY RestSize
  <2>3. ASSUME NEW x \in Places, x \in G
        PROVE  forward[i][x] \in Places /\ r[forward[i][x]] < r[x]
    <3>1. forward[i][x] \in Places
      BY <2>3, ListFacts DEF Places
    <3>2. Cardinality(Rest(i, forward[i][x])) < Cardinality(Rest(i, x))
      BY <2>3, LessRest
    <3>3. QED
      BY <3>1, <3>2
  <2>4. \A x \in Places : x \in G => \A z \in Places : g[x][z] \in Places
    OBVIOUS
  <2> HIDE DEF G, g, r, same, bound
  <2>5. QED
    BY <2>1, <2>2, <2>3, <2>4, FollowsExists
<1>2. PICK f \in [Places -> Places] : Follows(f, Places, G, forward[i], g, same)
  BY <1>1
<1>3. f = W(f)
  <2>1. ASSUME NEW x \in Places PROVE f[x] = W(f)[x]
    <3>1. f[x] = IF x \in G THEN g[x][f[forward[i][x]]] ELSE same[x]
      BY <1>2 DEF Follows
    <3>2. CASE x \in G
      <4>1. forward[i][x] \in Places
        BY <3>2, ListFacts DEF Places
      <4>2. f[forward[i][x]] \in Places
        BY <1>2, <4>1
      <4>3. QED
        BY <3>1, <3>2, <4>2
    <3>3. CASE x \notin G
      BY <3>1, <3>3
    <3>4. QED
      BY <3>2, <3>3
  <2>2. f = [x \in Places |-> f[x]]
    BY <1>2
  <2> HIDE DEF G, g, same
  <2>3. QED
    BY <2>1, <2>2
<1>4. c = W(c)
  BY <1>3
<1>5. \A x \in Places : WalkEnd(i, k, x) = c[x]
  BY DEF WalkEnd
<1> HIDE DEF c
<1>6. ASSUME NEW x \in Places
      PROVE  WalkEnd(i, k, x) = IF forward[i][x] # Nil /\ After(k, key[forward[i][x]])
                                THEN WalkEnd(i, k, forward[i][x]) ELSE x
  <2>1. c[x] = IF forward[i][x] # Nil /\ After(k, key[forward[i][x]])
               THEN c[forward[i][x]] ELSE x
    BY <1>4
  <2>2. forward[i][x] # Nil => forward[i][x] \in Places
    BY ListFacts DEF Places
  <2>3. QED
    BY <1>5, <2>1, <2>2
<1>7. QED
  BY <1>6

\* A walk stays among the nodes, and one that starts on level i before k ends there
\* where the next node is not before k.
LEMMA WalkEnds ==
    ASSUME SkipListAssumption, SInv, NEW i \in Heights, NEW k
    PROVE  \A x \in Places :
             /\ WalkEnd(i, k, x) \in Places
             /\ x \in {Header} \cup On(i) /\ (x = Header \/ After(k, key[x]))
                  => IsPred(i, k, WalkEnd(i, k, x))
<1> DEFINE A == {x \in Places :
                    /\ WalkEnd(i, k, x) \in Places
                    /\ x \in {Header} \cup On(i) /\ (x = Header \/ After(k, key[x]))
                         => IsPred(i, k, WalkEnd(i, k, x))}
           r == [x \in Places |-> Cardinality(Rest(i, x))]
<1>1. \A x \in Places : r[x] \in Nat
  BY RestSize
<1>2. ASSUME NEW x \in Places, \A z \in Places : r[z] < r[x] => z \in A
      PROVE  x \in A
  <2> DEFINE n == forward[i][x]
  <2>1. CASE n # Nil /\ After(k, key[n])
    <3>1. WalkEnd(i, k, x) = WalkEnd(i, k, n)
      BY <2>1, WalkEquation
    <3>2. n \in On(i) /\ n \in Places /\ r[n] < r[x]
      BY <2>1, LessRest, ListFacts DEF Places
    <3>3. n \in A
      BY <1>2, <3>2
    <3>4. QED
      BY <2>1, <3>1, <3>2, <3>3
  <2>2. CASE ~(n # Nil /\ After(k, key[n]))
    <3>1. WalkEnd(i, k, x) = x
      BY <2>2, WalkEquation
    <3>2. QED
      BY <2>2, <3>1 DEF IsPred
  <2>3. QED
    BY <2>1, <2>2
<1> HIDE DEF A, r
<1>3. \A x \in Places : x \in A
  BY <1>1, <1>2, RankInduction
<1>4. QED
  BY <1>3 DEF A

\* Behind such an end are the nodes of the level that are not before k, and it is
\* the last of those that are.
LEMMA PredRest ==
    ASSUME SkipListAssumption, SInv, NEW i \in Heights, NEW k \in Int,
           NEW y, IsPred(i, k, y)
    PROVE  /\ \A n \in On(i) : n \in Rest(i, y) <=> ~After(k, key[n])
           /\ \A n \in On(i) : After(k, key[n]) /\ n # y
                                  => y # Header /\ After(key[y], key[n])
<1>1. y \in {Header} \cup On(i) /\ (y = Header \/ After(k, key[y]))
      /\ (forward[i][y] = Nil \/ ~After(k, key[forward[i][y]]))
  BY DEF IsPred
<1>2. \A n \in On(i) : n \in Nodes /\ n \in Listed /\ key[n] \in Int /\ n # Header
  BY ListFacts
<1>3. ASSUME NEW n \in On(i), n \in Rest(i, y) PROVE ~After(k, key[n])
  <2>1. /\ forward[i][y] \in Rest(i, y)
        /\ n = forward[i][y] \/ After(key[n], key[forward[i][y]])
        /\ forward[i][y] # Nil
    BY <1>1, <1>3, Threads
  <2>2. forward[i][y] \in On(i)
    BY <2>1 DEF Rest
  <2>3. ~After(k, key[forward[i][y]])
    BY <1>1, <2>1
  <2>4. QED
    BY <1>2, <2>1, <2>2, <2>3, Order
<1>4. ASSUME NEW n \in On(i), ~After(k, key[n]) PROVE n \in Rest(i, y)
  <2>1. CASE y = Header
    BY <2>1 DEF Rest, Behind
  <2>2. CASE y # Header
    <3>1. y \in On(i) /\ After(k, key[y])
      BY <1>1, <2>2
    <3>2. n # y
      BY <1>4, <3>1
    <3>3. After(key[n], key[y]) \/ After(key[y], key[n])
      BY <1>2, <3>1, <3>2, ListFacts
    <3>4. ~After(key[y], key[n])
      BY <1>2, <1>4, <3>1, Order
    <3>5. QED
      BY <3>3, <3>4 DEF Rest, Behind
  <2>3. QED
    BY <2>1, <2>2
<1>5. ASSUME NEW n \in On(i), After(k, key[n]), n # y
      PROVE  y # Header /\ After(key[y], key[n])
  <2>1. n \notin Rest(i, y)
    BY <1>3, <1>5
  <2>2. y # Header /\ ~After(key[n], key[y])
    BY <2>1 DEF Rest, Behind
  <2>3. QED
    BY <1>1, <1>2, <1>5, <2>2, ListFacts
<1>6. QED
  BY <1>3, <1>4, <1>5

-----------------------------------------------------------------------------
(* The predecessors on every level *)

\* The definition of Update is an equation.
LEMMA UpdateEquation ==
    ASSUME SkipListAssumption, SInv, NEW k
    PROVE  \A i \in Heights : Update(k)[i] =
               IF i > top THEN Header
               ELSE WalkEnd(i, k, IF i = top THEN Header ELSE Update(k)[i + 1])
<1> DEFINE W(f) == [i \in Heights |->
                      IF i > top THEN Header
                      ELSE WalkEnd(i, k, IF i = top THEN Header ELSE f[i + 1])]
           c == CHOOSE f : f = W(f)
           G == {i \in Heights : i < top}
           next == [i \in Heights |-> i + 1]
           g == [i \in Heights |-> [x \in Places |-> WalkEnd(i, k, x)]]
           v == [i \in Heights |-> IF i > top THEN Header ELSE WalkEnd(i, k, Header)]
           r == [i \in Heights |-> MaxHeight - i]
<1>1. MaxHeight \in Nat /\ Heights = 1..MaxHeight /\ top \in Heights /\ Header \in Places
  BY ListFacts DEF SkipListAssumption, Heights, Places
<1>2. \E f \in [Heights -> Places] : Follows(f, Heights, G, next, g, v)
  <2>1. \A i \in Heights : r[i] \in 0..MaxHeight /\ v[i] \in Places
    BY <1>1, WalkEnds
  <2>2. \A i \in Heights : i \in G => next[i] \in Heights /\ r[next[i]] < r[i]
    BY <1>1
  <2>3. \A i \in Heights : i \in G => \A z \in Places : g[i][z] \in Places
    BY WalkEnds
  <2> HIDE DEF G, next, g, v, r
  <2>4. QED
    BY <1>1, <2>1, <2>2, <2>3, FollowsExists
<1>3. PICK f \in [Heights -> Places] : Follows(f, Heights, G, next, g, v)
  BY <1>2
<1>4. f = W(f)
  <2>1. ASSUME NEW i \in Heights PROVE f[i] = W(f)[i]
    <3>1. f[i] = IF i \in G THEN g[i][f[next[i]]] ELSE v[i]
      BY <1>3 DEF Follows
    <3>2. CASE i < top
      <4>1. i \in G /\ next[i] = i + 1 /\ i + 1 \in Heights
        BY <1>1, <3>2
      <4>2. f[i + 1] \in Places
        BY <1>3, <4>1
      <4>3. f[i] = WalkEnd(i, k, f[i + 1])
        BY <3>1, <4>1, <4>2
      <4>4. QED
        BY <1>1, <3>2, <4>3
    <3>3. CASE ~(i < top)
      <4>1. f[i] = IF i > top THEN Header ELSE WalkEnd(i, k, Header)
        BY <3>1, <3>3
      <4>2. QED
        BY <1>1, <3>3, <4>1
    <3>4. QED
      BY <3>2, <3>3
  <2>2. f = [i \in Heights |-> f[i]]
    BY <1>3
  <2>3. QED
    BY <2>1, <2>2
<1>5. c = W(c)
  BY <1>4
<1>6. Update(k) = c
  BY DEF Update
<1> HIDE DEF c
<1>7. QED
  BY <1>5, <1>6

\* On every level it is the end of a walk, and on those above Level the header.
LEMMA Predecessors ==
    ASSUME SkipListAssumption, SInv, NEW k \in Int
    PROVE  \A i \in Heights : IsPred(i, k, Update(k)[i])
<1> DEFINE A == {i \in Heights : IsPred(i, k, Update(k)[i])}
           r == [i \in Heights |-> MaxHeight - i]
<1>1. MaxHeight \in Nat /\ Heights = 1..MaxHeight /\ top \in Heights /\ Header \in Places
  BY ListFacts DEF SkipListAssumption, Heights, Places
<1>2. \A i \in Heights : r[i] \in Nat
  BY <1>1
<1>3. ASSUME NEW i \in Heights, \A j \in Heights : r[j] < r[i] => j \in A
      PROVE  i \in A
  <2>1. CASE i > top
    <3>1. Update(k)[i] = Header
      BY <2>1, UpdateEquation
    <3>2. On(i) = {}
      BY <1>1, <2>1, ListFacts DEF On
    <3>3. forward[i][Header] = Nil
      BY <3>2, Threads DEF Rest
    <3>4. QED
      BY <3>1, <3>3 DEF IsPred
  <2>2. CASE i = top
    <3>1. Update(k)[i] = WalkEnd(i, k, Header)
      BY <1>1, <2>2, UpdateEquation
    <3>2. QED
      BY <1>1, <3>1, WalkEnds
  <2>3. CASE i < top
    <3>1. i + 1 \in Heights /\ r[i + 1] < r[i] /\ ~(i > top) /\ i # top
      BY <1>1, <2>3
    <3>2. Update(k)[i] = WalkEnd(i, k, Update(k)[i + 1])
      BY <3>1, UpdateEquation
    <3>3. IsPred(i + 1, k, Update(k)[i + 1])
      BY <1>3, <3>1
    <3>4. On(i + 1) \subseteq On(i) /\ On(i) \subseteq Places
      BY <1>1, <3>1, ListFacts DEF Places
    <3>5. Update(k)[i + 1] \in {Header} \cup On(i) /\ Update(k)[i + 1] \in Places
          /\ (Update(k)[i + 1] = Header \/ After(k, key[Update(k)[i + 1]]))
      BY <1>1, <3>3, <3>4 DEF IsPred
    <3>6. QED
      BY <3>2, <3>5, WalkEnds
  <2>4. QED
    BY <1>1, <2>1, <2>2, <2>3
<1> HIDE DEF A, r
<1>4. \A i \in Heights : i \in A
  BY <1>2, <1>3, RankInduction
<1>5. QED
  BY <1>4 DEF A

\* Two nodes of a level do not lead to the same one.
LEMMA OnePredecessor ==
    ASSUME SkipListAssumption, SInv, NEW i \in Heights,
           NEW x \in {Header} \cup On(i), NEW y \in {Header} \cup On(i),
           forward[i][x] = forward[i][y], forward[i][x] # Nil
    PROVE  x = y
<1>1. SUFFICES ASSUME x # y PROVE FALSE
  OBVIOUS
<1>2. \A n \in On(i) : n \in Nodes /\ n \in Listed /\ key[n] \in Int /\ n # Header
  BY ListFacts
<1>3. ASSUME NEW a \in {Header} \cup On(i), NEW b \in {Header} \cup On(i),
             forward[i][a] = forward[i][b], forward[i][a] # Nil, b \in Rest(i, a)
      PROVE  FALSE
  <2>1. forward[i][a] \in Rest(i, b)
    BY <1>3, Threads
  <2>2. forward[i][a] \in On(i) /\ b \in On(i)
    BY <1>3, <2>1 DEF Rest
  <2>3. After(key[forward[i][a]], key[b])
    BY <1>2, <2>1, <2>2 DEF Rest, Behind
  <2>4. b = forward[i][a] \/ After(key[b], key[forward[i][a]])
    BY <1>3, Threads
  <2>5. QED
    BY <1>2, <2>2, <2>3, <2>4, Order
<1>4. x \in Rest(i, y) \/ y \in Rest(i, x)
  BY <1>1, <1>2, ListFacts DEF Rest, Behind
<1>5. QED
  BY <1>3, <1>4

-----------------------------------------------------------------------------
(* What Search and Delete find *)

\* The nodes that compare equal to k.
EqualTo(k) == {n \in Listed : Near(key[n], k)}

\* Search is at x on level i; f is what it will return.
AreSearches(k, f) ==
    \A i \in 1..MaxHeight, x \in Places :
        f[<<i, x>>] =
            IF forward[i][x] = Nil \/ After(key[forward[i][x]], k)
            THEN (IF i = 1 THEN Nil ELSE f[<<i - 1, x>>])
            ELSE IF After(k, key[forward[i][x]]) THEN f[<<i, forward[i][x]>>]
            ELSE forward[i][x]

\* The definition of Search is an equation: each step goes down a level or on to a
\* node behind which there is less.
LEMMA SearchEquation ==
    ASSUME SkipListAssumption, SInv, NEW k
    PROVE  \E f : AreSearches(k, f) /\ Search(k) = f[<<top, Header>>]
<1> DEFINE P == (0..MaxHeight) \X Places
           V == Nodes \cup {Nil}
           W(f) == [y \in (0..MaxHeight) \X Places |->
                      IF y[1] = 0 THEN Nil
                      ELSE IF \/ forward[y[1]][y[2]] = Nil
                              \/ After(key[forward[y[1]][y[2]]], k)
                           THEN f[<<y[1] - 1, y[2]>>]
                           ELSE IF After(k, key[forward[y[1]][y[2]]])
                                THEN f[<<y[1], forward[y[1]][y[2]]>>]
                                ELSE forward[y[1]][y[2]]]
           c == CHOOSE f : f = W(f)
           Down(i, x) == forward[i][x] = Nil \/ After(key[forward[i][x]], k)
           Right(i, x) == ~Down(i, x) /\ After(k, key[forward[i][x]])
           G == {y \in P : y[1] # 0 /\ (Down(y[1], y[2]) \/ Right(y[1], y[2]))}
           next == [y \in P |-> IF Down(y[1], y[2]) THEN <<y[1] - 1, y[2]>>
                                ELSE <<y[1], forward[y[1]][y[2]]>>]
           same == [z \in V |-> z]
           g == [y \in P |-> same]
           v == [y \in P |-> IF y[1] = 0 THEN Nil
                             ELSE IF y \in G THEN Nil ELSE forward[y[1]][y[2]]]
           N == Cardinality(Listed)
           r == [y \in P |-> IF y[1] = 0 THEN 0
                             ELSE y[1] * (N + 1) + Cardinality(Rest(y[1], y[2]))]
           bound == MaxHeight * (N + 1) + N
<1>1. MaxHeight \in Nat \ {0} /\ Heights = 1..MaxHeight /\ top \in Heights /\ Header \in Places
  BY ListFacts DEF SkipListAssumption, Heights, Places
<1>2. N \in Nat
  BY <1>1, RestSize
<1>3. \A i \in Heights, x \in Places :
        /\ forward[i][x] \in V
        /\ forward[i][x] # Nil => forward[i][x] \in Places
  BY ListFacts DEF Places
<1>4. \E f \in [P -> V] : Follows(f, P, G, next, g, v)
  <2>1. bound \in Nat
    BY <1>1, <1>2
  <2>2. ASSUME NEW i \in 0..MaxHeight, NEW x \in Places
        PROVE  /\ r[<<i, x>>] = IF i = 0 THEN 0 ELSE i * (N + 1) + Cardinality(Rest(i, x))
               /\ r[<<i, x>>] \in 0..bound
    <3>1. <<i, x>> \in P
      OBVIOUS
    <3>2. r[<<i, x>>] = IF i = 0 THEN 0 ELSE i * (N + 1) + Cardinality(Rest(i, x))
      BY <3>1
    <3>3. CASE i = 0
      BY <2>1, <3>2, <3>3
    <3>4. CASE i # 0
      <4>1. Cardinality(Rest(i, x)) \in 0..N
        BY <1>1, <3>4, RestSize
      <4> HIDE DEF N
      <4>2. i * (N + 1) \in Nat /\ i * (N + 1) <= MaxHeight * (N + 1)
        <5>1. PICK d \in Nat : MaxHeight = i + d
          <6>1. MaxHeight - i \in Nat /\ MaxHeight = i + (MaxHeight - i)
            BY <1>1
          <6>2. QED
            BY <6>1
        <5>2. (i + d) * (N + 1) = i * (N + 1) + d * (N + 1)
          BY <1>2
        <5>3. d * (N + 1) \in Nat /\ i * (N + 1) \in Nat
          BY <1>2
        <5>4. QED
          BY <5>1, <5>2, <5>3
      <4>3. QED
        BY <1>1, <1>2, <3>2, <3>4, <4>1, <4>2
    <3>5. QED
      BY <3>2, <3>3, <3>4
  <2>3. ASSUME NEW i \in 0..MaxHeight, NEW x \in Places PROVE v[<<i, x>>] \in V
    <3>1. v[<<i, x>>] = IF i = 0 THEN Nil
                        ELSE IF <<i, x>> \in G THEN Nil ELSE forward[i][x]
      OBVIOUS
    <3>2. i # 0 => forward[i][x] \in V
      BY <1>1, <1>3
    <3> HIDE DEF G, v
    <3>3. QED
      BY <3>1, <3>2
  <2>4. ASSUME NEW i \in 0..MaxHeight, NEW x \in Places, <<i, x>> \in G
        PROVE  next[<<i, x>>] \in P /\ r[next[<<i, x>>]] < r[<<i, x>>]
    <3>1. i # 0 /\ i \in Heights /\ (Down(i, x) \/ Right(i, x)) /\ <<i, x>> \in P
      BY <1>1, <2>4
    <3>2. r[<<i, x>>] = i * (N + 1) + Cardinality(Rest(i, x))
          /\ Cardinality(Rest(i, x)) \in 0..N
      BY <2>2, <3>1, RestSize
    <3>3. CASE Down(i, x)
      <4>1. next[<<i, x>>] = <<i - 1, x>> /\ i - 1 \in 0..MaxHeight
        BY <1>1, <3>1, <3>3
      <4>2. r[<<i - 1, x>>] = IF i - 1 = 0 THEN 0
                              ELSE (i - 1) * (N + 1) + Cardinality(Rest(i - 1, x))
        BY <2>2, <4>1
      <4>3. i - 1 # 0 => Cardinality(Rest(i - 1, x)) \in 0..N
        BY <1>1, <3>1, RestSize
      <4> HIDE DEF N, r, next
      <4>4. (i - 1) * (N + 1) = i * (N + 1) - (N + 1) /\ i * (N + 1) \in Nat
            /\ (i - 1) * (N + 1) \in Nat
        BY <1>1, <1>2, <3>1
      <4>5. r[<<i - 1, x>>] < r[<<i, x>>]
        BY <1>2, <3>2, <4>2, <4>3, <4>4
      <4>6. QED
        BY <4>1, <4>5
    <3>4. CASE ~Down(i, x)
      <4>1. next[<<i, x>>] = <<i, forward[i][x]>> /\ forward[i][x] \in Places
        BY <1>3, <3>1, <3>4
      <4>2. r[<<i, forward[i][x]>>] = i * (N + 1) + Cardinality(Rest(i, forward[i][x]))
            /\ Cardinality(Rest(i, forward[i][x])) \in 0..N
        BY <2>2, <3>1, <4>1, RestSize
      <4>3. Cardinality(Rest(i, forward[i][x])) < Cardinality(Rest(i, x))
        BY <3>1, <3>4, LessRest
      <4> HIDE DEF N, r, next
      <4>4. i * (N + 1) \in Nat
        BY <1>1, <1>2
      <4>5. QED
        BY <1>2, <3>1, <3>2, <4>1, <4>2, <4>3, <4>4
    <3>5. QED
      BY <3>3, <3>4
  <2>5. \A y \in P : y[1] \in 0..MaxHeight /\ y[2] \in Places /\ y = <<y[1], y[2]>>
    OBVIOUS
  <2> HIDE DEF P, G, next, g, v, r, bound, N
  <2>6. \A y \in P : r[y] \in 0..bound /\ v[y] \in V
    BY <2>2, <2>3, <2>5
  <2>7. \A y \in P : y \in G => next[y] \in P /\ r[next[y]] < r[y]
    BY <2>4, <2>5
  <2>8. \A y \in P : y \in G => \A z \in V : g[y][z] \in V
    BY DEF g
  <2>9. QED
    BY <2>1, <2>6, <2>7, <2>8, FollowsExists
<1>5. PICK f \in [P -> V] : Follows(f, P, G, next, g, v)
  BY <1>4
<1>6. f = W(f)
  <2>1. ASSUME NEW i \in 0..MaxHeight, NEW x \in Places
        PROVE  f[<<i, x>>] = W(f)[<<i, x>>]
    <3>1. <<i, x>> \in P
      OBVIOUS
    <3>2. f[<<i, x>>] = IF <<i, x>> \in G THEN g[<<i, x>>][f[next[<<i, x>>]]]
                        ELSE v[<<i, x>>]
      BY <1>5, <3>1 DEF Follows
    <3>3. CASE i = 0
      BY <3>1, <3>2, <3>3
    <3>4. CASE i # 0 /\ Down(i, x)
      <4>1. <<i, x>> \in G /\ next[<<i, x>>] = <<i - 1, x>> /\ <<i - 1, x>> \in P
        BY <1>1, <3>1, <3>4
      <4>2. f[<<i - 1, x>>] \in V
        BY <1>5, <4>1
      <4>3. g[<<i, x>>][f[<<i - 1, x>>]] = f[<<i - 1, x>>]
        BY <3>1, <4>2
      <4> HIDE DEF g, v, G, next
      <4>4. QED
        BY <3>2, <3>4, <4>1, <4>3
    <3>5. CASE i # 0 /\ Right(i, x)
      <4>1. /\ <<i, x>> \in G /\ next[<<i, x>>] = <<i, forward[i][x]>>
            /\ <<i, forward[i][x]>> \in P
        BY <1>1, <1>3, <3>1, <3>5
      <4>2. f[<<i, forward[i][x]>>] \in V
        BY <1>5, <4>1
      <4>3. g[<<i, x>>][f[<<i, forward[i][x]>>]] = f[<<i, forward[i][x]>>]
        BY <3>1, <4>2
      <4> HIDE DEF g, v, G, next
      <4>4. QED
        BY <3>2, <3>5, <4>1, <4>3
    <3>6. CASE i # 0 /\ ~Down(i, x) /\ ~Right(i, x)
      <4>1. <<i, x>> \notin G /\ v[<<i, x>>] = forward[i][x]
        BY <3>1, <3>6
      <4> HIDE DEF g, v, G, next
      <4>2. QED
        BY <3>2, <3>6, <4>1
    <3>7. QED
      BY <3>3, <3>4, <3>5, <3>6
  <2>2. f = [y \in P |-> f[y]]
    BY <1>5
  <2>3. \A y \in P : y[1] \in 0..MaxHeight /\ y[2] \in Places /\ y = <<y[1], y[2]>>
    OBVIOUS
  <2>4. W(f) = [y \in P |-> W(f)[y]]
    OBVIOUS
  <2> HIDE DEF W, P, V
  <2>5. \A y \in P : f[y] = W(f)[y]
    BY <2>1, <2>3
  <2>6. QED
    BY <2>2, <2>4, <2>5
<1>7. c = W(c)
  BY <1>6
<1>8. Search(k) = c[<<top, Header>>]
  BY DEF Search
<1> HIDE DEF c
<1>9. ASSUME NEW i \in 1..MaxHeight, NEW x \in Places
      PROVE  c[<<i, x>>] =
                IF forward[i][x] = Nil \/ After(key[forward[i][x]], k)
                THEN (IF i = 1 THEN Nil ELSE c[<<i - 1, x>>])
                ELSE IF After(k, key[forward[i][x]]) THEN c[<<i, forward[i][x]>>]
                ELSE forward[i][x]
  <2>1. \A j \in 0..MaxHeight :
          c[<<j, x>>] = IF j = 0 THEN Nil
                        ELSE IF forward[j][x] = Nil \/ After(key[forward[j][x]], k)
                        THEN c[<<j - 1, x>>]
                        ELSE IF After(k, key[forward[j][x]]) THEN c[<<j, forward[j][x]>>]
                        ELSE forward[j][x]
    BY <1>7
  <2>2. i \in 0..MaxHeight /\ i # 0 /\ 0 \in 0..MaxHeight
    BY <1>1
  <2>3. i = 1 => c[<<i - 1, x>>] = Nil
    <3>1. c[<<0, x>>] = Nil
      BY <2>1, <2>2
    <3>2. i = 1 => i - 1 = 0
      OBVIOUS
    <3>3. QED
      BY <3>1, <3>2
  <2>4. QED
    BY <2>1, <2>2, <2>3
<1>10. AreSearches(k, c)
  BY <1>9 DEF AreSearches
<1>11. QED
  BY <1>8, <1>10

\* No node behind x on level 1 is equal to k if x is before k and its next node, if
\* it has one, behind k.
LEMMA NothingBetween ==
    ASSUME SkipListAssumption, SInv, NEW k \in Int,
           NEW x \in {Header} \cup Listed, x = Header \/ After(k, key[x]),
           forward[1][x] = Nil \/ After(key[forward[1][x]], k)
    PROVE  EqualTo(k) = {}
<1> SUFFICES ASSUME NEW n \in Listed, Near(key[n], k) PROVE FALSE
  BY DEF EqualTo
<1>1. On(1) = Listed /\ 1 \in Heights
  BY ListFacts
<1>2. n \in Nodes /\ key[n] \in Int
  BY ListFacts
<1>3. n \in Rest(1, x)
  <2>1. CASE x = Header
    BY <1>1, <2>1 DEF Rest, Behind
  <2>2. CASE x # Header
    <3>1. x \in Listed /\ x \in Nodes /\ key[x] \in Int /\ After(k, key[x])
      BY <2>2, ListFacts
    <3>2. ~After(key[x], key[n]) /\ x # n
      BY <1>2, <3>1, Order
    <3>3. QED
      BY <1>1, <3>1, <3>2, ListFacts DEF Rest, Behind
  <2>3. QED
    BY <2>1, <2>2
<1> DEFINE m == forward[1][x]
<1>4. m \in Rest(1, x) /\ (n = m \/ After(key[n], key[m])) /\ m # Nil
  BY <1>1, <1>3, Threads
<1>5. m \in Listed /\ key[m] \in Int /\ After(key[m], k)
  BY <1>1, <1>4, ListFacts DEF Rest
<1>6. After(key[n], k)
  BY <1>2, <1>4, <1>5, Order
<1>7. QED
  BY <1>2, <1>6, Order

\* Search returns a node equal to k, or Nil because there is none: going down it
\* only passes nodes before k and leaves out nodes behind it.
LEMMA SearchResult ==
    ASSUME SkipListAssumption, SInv, NEW k \in Int
    PROVE  Search(k) \in EqualTo(k) \/ (Search(k) = Nil /\ EqualTo(k) = {})
<1>1. PICK f : AreSearches(k, f) /\ Search(k) = f[<<top, Header>>]
  BY SearchEquation
<1> DEFINE P == Heights \X Places
           Found(i, x) == f[<<i, x>>] \in EqualTo(k) \/ (f[<<i, x>>] = Nil /\ EqualTo(k) = {})
           A == {y \in P :
                    y[2] \in {Header} \cup On(y[1]) /\ (y[2] = Header \/ After(k, key[y[2]]))
                        => Found(y[1], y[2])}
           N == Cardinality(Listed)
           r == [y \in P |-> y[1] * (N + 1) + Cardinality(Rest(y[1], y[2]))]
<1>2. MaxHeight \in Nat \ {0} /\ Heights = 1..MaxHeight /\ top \in Heights /\ Header \in Places
  BY ListFacts DEF SkipListAssumption, Heights, Places
<1>3. N \in Nat
  BY <1>2, RestSize
<1>4. \A i \in Heights, x \in Places :
          /\ <<i, x>> \in P /\ r[<<i, x>>] = i * (N + 1) + Cardinality(Rest(i, x))
          /\ Cardinality(Rest(i, x)) \in 0..N
  BY RestSize
<1>5. \A y \in P : y[1] \in Heights /\ y[2] \in Places /\ y = <<y[1], y[2]>>
  OBVIOUS
<1>6. \A i \in Heights, x \in Places : r[<<i, x>>] \in Nat
  <2> SUFFICES ASSUME NEW i \in Heights, NEW x \in Places PROVE r[<<i, x>>] \in Nat
    OBVIOUS
  <2> HIDE DEF N, r
  <2>1. i * (N + 1) \in Nat
    BY <1>2, <1>3
  <2>2. QED
    BY <1>4, <2>1
<1>7. \A y \in P : r[y] \in Nat
  <2> HIDE DEF N, r, P
  <2> QED
    BY <1>5, <1>6
<1>8. ASSUME NEW i \in Heights, NEW x \in Places,
             \A z \in P : r[z] < r[<<i, x>>] => z \in A,
             x \in {Header} \cup On(i), x = Header \/ After(k, key[x])
      PROVE  Found(i, x)
  <2> DEFINE n == forward[i][x]
  <2>1. f[<<i, x>>] = IF n = Nil \/ After(key[n], k)
                      THEN (IF i = 1 THEN Nil ELSE f[<<i - 1, x>>])
                      ELSE IF After(k, key[n]) THEN f[<<i, n>>] ELSE n
    BY <1>1, <1>2 DEF AreSearches
  <2>2. n # Nil => /\ n \in On(i) /\ n \in Listed /\ n \in Places /\ key[n] \in Int
                   /\ Cardinality(Rest(i, n)) < Cardinality(Rest(i, x))
    BY LessRest, ListFacts DEF Places
  <2> HIDE DEF n
  <2>3. CASE (n = Nil \/ After(key[n], k)) /\ i = 1
    <3>1. x \in {Header} \cup Listed
      BY <1>8, <2>3, ListFacts
    <3>2. EqualTo(k) = {}
      BY <1>8, <2>3, <3>1, NothingBetween DEF n
    <3>3. QED
      BY <2>1, <2>3, <3>2
  <2>4. CASE (n = Nil \/ After(key[n], k)) /\ i # 1
    <3>1. i - 1 \in Heights /\ i - 1 <= i
      BY <1>2, <2>4
    <3>2. r[<<i - 1, x>>] < r[<<i, x>>]
      <4>1. /\ r[<<i, x>>] = i * (N + 1) + Cardinality(Rest(i, x))
            /\ r[<<i - 1, x>>] = (i - 1) * (N + 1) + Cardinality(Rest(i - 1, x))
            /\ Cardinality(Rest(i, x)) \in 0..N /\ Cardinality(Rest(i - 1, x)) \in 0..N
        BY <1>4, <3>1
      <4> HIDE DEF N, r
      <4>2. (i - 1) * (N + 1) = i * (N + 1) - (N + 1) /\ i * (N + 1) \in Nat
        BY <1>2, <1>3
      <4>3. QED
        BY <1>3, <4>1, <4>2
    <3>3. <<i - 1, x>> \in P
      BY <1>4, <3>1
    <3> HIDE DEF r, P
    <3>4. <<i - 1, x>> \in A
      BY <1>8, <3>2, <3>3
    <3>5. x \in {Header} \cup On(i - 1)
      BY <1>8, <3>1, ListFacts
    <3>6. Found(i - 1, x)
      BY <1>8, <3>4, <3>5
    <3>7. QED
      BY <2>1, <2>4, <3>6
  <2>5. CASE ~(n = Nil \/ After(key[n], k)) /\ After(k, key[n])
    <3>1. r[<<i, n>>] < r[<<i, x>>]
      <4>1. /\ r[<<i, x>>] = i * (N + 1) + Cardinality(Rest(i, x))
            /\ r[<<i, n>>] = i * (N + 1) + Cardinality(Rest(i, n))
            /\ Cardinality(Rest(i, x)) \in 0..N /\ Cardinality(Rest(i, n)) \in 0..N
        BY <1>4, <2>2, <2>5
      <4> HIDE DEF N, r
      <4>2. i * (N + 1) \in Nat
        BY <1>2, <1>3
      <4>3. QED
        BY <1>3, <2>2, <2>5, <4>1, <4>2
    <3>2. <<i, n>> \in P
      BY <1>4, <2>2, <2>5
    <3> HIDE DEF r, P
    <3>3. <<i, n>> \in A
      BY <1>8, <3>1, <3>2
    <3>4. Found(i, n)
      BY <2>2, <2>5, <3>3
    <3>5. QED
      BY <2>1, <2>5, <3>4
  <2>6. CASE ~(n = Nil \/ After(key[n], k)) /\ ~After(k, key[n])
    <3>1. n \in Listed /\ Near(key[n], k)
      BY <2>2, <2>6, Order
    <3>2. QED
      BY <2>1, <2>6, <3>1 DEF EqualTo
  <2>7. QED
    BY <2>3, <2>4, <2>5, <2>6
<1>9. ASSUME NEW y \in P, \A z \in P : r[z] < r[y] => z \in A PROVE y \in A
  <2> HIDE DEF r, Found
  <2>1. PICK i \in Heights, x \in Places : y = <<i, x>>
    BY <1>5
  <2>2. x \in {Header} \cup On(i) /\ (x = Header \/ After(k, key[x])) => Found(i, x)
    BY <1>8, <1>9, <2>1
  <2>3. QED
    BY <2>1, <2>2
<1> HIDE DEF r
<1>10. <<top, Header>> \in A
  <2>1. <<top, Header>> \in P
    BY <1>2
  <2> HIDE DEF A, P
  <2>2. \A y \in P : y \in A
    BY <1>7, <1>9, RankInduction
  <2>3. QED
    BY <2>1, <2>2
<1>11. Found(top, Header)
  BY <1>10
<1>12. QED
  BY <1>1, <1>11

\* The node behind the predecessors of k is the first of those equal to k, if there
\* is one: Delete finds a node by its own key, and by another key perhaps none.
LEMMA TargetResult ==
    ASSUME SkipListAssumption, SInv, NEW k \in Int
    PROVE  /\ Target(k) = Nil \/ Target(k) \in EqualTo(k)
           /\ \A n \in Listed : key[n] = k => Target(k) = n
<1> DEFINE u == Update(k)[1]
           x == forward[1][u]
<1>1. 1 \in Heights /\ On(1) = Listed
  BY ListFacts
<1>2. IsPred(1, k, u)
  BY <1>1, Predecessors
<1>3. Target(k) = IF x # Nil /\ StrictlyNear(key[x], k) THEN x ELSE Nil
  BY DEF Target
<1>4. x = Nil \/ (x \in Listed /\ x \in Rest(1, u) /\ key[x] \in Int /\ ~After(k, key[x]))
  <2>1. u \in {Header} \cup On(1)
    BY <1>2 DEF IsPred
  <2>2. x = Nil \/ (x \in Rest(1, u))
    BY <1>1, <2>1, Threads
  <2>3. x = Nil \/ ~After(k, key[x])
    BY <1>2 DEF IsPred
  <2>4. QED
    BY <1>1, <2>2, <2>3, ListFacts DEF Rest
<1>5. ASSUME NEW n \in EqualTo(k) PROVE x # Nil /\ Near(key[x], k)
  <2>1. n \in Listed /\ n \in Nodes /\ key[n] \in Int /\ Near(key[n], k)
    BY ListFacts DEF EqualTo
  <2>2. n \in Rest(1, u)
    BY <1>1, <1>2, <2>1, PredRest, Order
  <2>3. u \in {Header} \cup On(1)
    BY <1>2 DEF IsPred
  <2>4. x # Nil /\ (n = x \/ After(key[n], key[x]))
    BY <1>1, <2>2, <2>3, Threads
  <2> HIDE DEF u, x
  <2>5. ~After(key[x], k)
    BY <1>4, <2>1, <2>4, Order
  <2>6. QED
    BY <1>4, <2>4, <2>5, Order
<1> HIDE DEF u, x
<1>6. Target(k) = Nil \/ Target(k) \in EqualTo(k)
  <2>1. x # Nil /\ StrictlyNear(key[x], k) => Near(key[x], k)
    BY <1>4, SkipListAssumption DEF Near, StrictlyNear
  <2>2. QED
    BY <1>3, <1>4, <2>1 DEF EqualTo
<1>7. ASSUME NEW n \in Listed, key[n] = k PROVE Target(k) = n
  <2>1. n \in EqualTo(k)
    BY <1>7, Order DEF EqualTo
  <2>2. x # Nil /\ x \in Listed /\ Near(key[x], key[n])
    BY <1>4, <1>5, <1>7, <2>1
  <2>3. x = n
    BY <2>2 DEF SInv, PricesApart
  <2>4. StrictlyNear(k, k)
    BY SkipListAssumption DEF StrictlyNear
  <2>5. QED
    BY <1>3, <1>7, <2>2, <2>3, <2>4
<1>8. QED
  BY <1>6, <1>7

-----------------------------------------------------------------------------
(* Insertion *)

\* The new node is on the levels up to its height, and nothing else changes there.
LEMMA InsertedOn ==
    ASSUME SkipListAssumption, SInv, NEW k \in Keys, NEW n \in Nodes, NEW h \in Heights,
           Insert(n, k, h)
    PROVE  /\ n \notin Listed /\ Listed' = Listed \cup {n}
           /\ key'[n] = k /\ \A m \in Nodes \ {n} : key'[m] = key[m]
           /\ height'[n] = h /\ \A m \in Nodes \ {n} : height'[m] = height[m]
           /\ \A i \in Heights : On(i)' = IF i <= h THEN On(i) \cup {n} ELSE On(i)
<1>1. /\ n \notin Listed
      /\ key' = [key EXCEPT ![n] = k] /\ height' = [height EXCEPT ![n] = h]
  BY DEF Insert
<1>2. key \in [Nodes -> Keys \cup {0}] /\ height \in [Nodes -> 0..MaxHeight]
  BY DEF SInv, TypeOK
<1>3. /\ key'[n] = k /\ \A m \in Nodes \ {n} : key'[m] = key[m]
      /\ height'[n] = h /\ \A m \in Nodes \ {n} : height'[m] = height[m]
  BY <1>1, <1>2
<1>4. h \in Nat /\ h > 0
  BY DEF Heights, SkipListAssumption
<1>5. \A m \in Nodes : m \in Listed' <=> m \in Listed \/ m = n
  BY <1>3, <1>4 DEF Listed
<1>6. Listed' = Listed \cup {n}
  BY <1>5 DEF Listed
<1>7. ASSUME NEW i \in Heights, NEW m \in Nodes
      PROVE  m \in On(i)' <=> m \in On(i) \/ (m = n /\ i <= h)
  BY <1>1, <1>3, <1>6, <1>4 DEF On, Heights
<1>8. ASSUME NEW i \in Heights
      PROVE  On(i)' = IF i <= h THEN On(i) \cup {n} ELSE On(i)
  <2>1. On(i) \subseteq Nodes /\ On(i)' \subseteq Nodes
    BY DEF On, Listed
  <2>2. QED
    BY <1>7, <2>1
<1>9. QED
  BY <1>1, <1>3, <1>6, <1>8

\* Each of these levels leads from the predecessor of k to the new node and from it
\* to what was behind the predecessor.
LEMMA InsertedPointers ==
    ASSUME SkipListAssumption, SInv, NEW k \in Keys, NEW n \in Nodes, NEW h \in Heights,
           Insert(n, k, h), NEW i \in Heights
    PROVE  /\ i <= h => LET u == Update(k)[i]
                        IN  /\ forward'[i][u] = n /\ forward'[i][n] = forward[i][u]
                            /\ \A x \in Places \ {u, n} : forward'[i][x] = forward[i][x]
           /\ ~(i <= h) => forward'[i] = forward[i]
           /\ forward' \in [Heights -> [Places -> Nodes \cup {Nil}]]
<1> DEFINE u(j) == Update(k)[j]
<1>1. forward' = [j \in Heights |->
               IF j <= h
               THEN [forward[j] EXCEPT ![u(j)] = n, ![n] = forward[j][u(j)]]
               ELSE forward[j]]
  BY DEF Insert
<1>2. forward \in [Heights -> [Places -> Nodes \cup {Nil}]]
  BY DEF SInv, TypeOK
<1>3. \A j \in Heights : u(j) \in Places /\ u(j) # n
  <2> SUFFICES ASSUME NEW j \in Heights PROVE u(j) \in Places /\ u(j) # n
    OBVIOUS
  <2>1. k \in Int
    BY Order
  <2>2. u(j) \in {Header} \cup On(j)
    BY <2>1, Predecessors DEF IsPred
  <2>3. n \notin Listed /\ n # Header
    BY ListFacts DEF Insert
  <2>4. QED
    BY <2>2, <2>3, ListFacts DEF Places
<1> HIDE DEF u
<1>4. n \in Places
  BY DEF Places
<1>5. ASSUME NEW j \in Heights
      PROVE  [forward[j] EXCEPT ![u(j)] = n, ![n] = forward[j][u(j)]]
                \in [Places -> Nodes \cup {Nil}]
  BY <1>2, <1>3, <1>4
<1>6. forward' \in [Heights -> [Places -> Nodes \cup {Nil}]]
  BY <1>1, <1>2, <1>5
<1>7. CASE i <= h
  <2>1. forward'[i] = [forward[i] EXCEPT ![u(i)] = n, ![n] = forward[i][u(i)]]
    BY <1>1, <1>7
  <2>2. forward[i] \in [Places -> Nodes \cup {Nil}]
    BY <1>2
  <2>3. /\ forward'[i][u(i)] = n /\ forward'[i][n] = forward[i][u(i)]
        /\ \A x \in Places \ {u(i), n} : forward'[i][x] = forward[i][x]
    BY <1>3, <1>4, <2>1, <2>2
  <2>4. QED
    BY <1>6, <1>7, <2>3 DEF u
<1>8. CASE ~(i <= h)
  BY <1>1, <1>6, <1>8
<1>9. QED
  BY <1>7, <1>8

\* What is behind a node on a level afterwards.
LEMMA InsertedRest ==
    ASSUME SkipListAssumption, SInv, NEW k \in Keys, NEW n \in Nodes, NEW h \in Heights,
           Insert(n, k, h), EqualTo(k) = {}, NEW i \in Heights
    PROVE  /\ \A x \in {Header} \cup On(i) :
                Rest(i, x)' = IF i <= h /\ (x = Header \/ After(k, key[x]))
                              THEN Rest(i, x) \cup {n} ELSE Rest(i, x)
           /\ i <= h => Rest(i, n)' = Rest(i, Update(k)[i])
<1>1. /\ n \notin Listed /\ key'[n] = k /\ \A m \in Nodes \ {n} : key'[m] = key[m]
      /\ On(i)' = IF i <= h THEN On(i) \cup {n} ELSE On(i)
  BY InsertedOn
<1>2. /\ k \in Int /\ On(i) \subseteq Listed /\ Header \notin Nodes
      /\ \A m \in Listed : /\ m \in Nodes /\ m # n /\ m # Header
                           /\ key[m] \in Int /\ key'[m] = key[m] /\ ~Near(key[m], k)
  BY <1>1, ListFacts, Order DEF EqualTo
<1>3. Rest(i, n)' = {m \in On(i)' : Behind(m, n)'}
      /\ \A x : Rest(i, x)' = {m \in On(i)' : Behind(m, x)'}
  BY DEF Rest
<1>4. ASSUME NEW x \in {Header} \cup On(i), NEW m \in On(i) PROVE Behind(m, x)' <=> Behind(m, x)
  BY <1>2 DEF Behind, After, Near
<1>5. ASSUME NEW x \in {Header} \cup On(i)
      PROVE  Behind(n, x)' <=> x = Header \/ After(k, key[x])
  BY <1>1, <1>2 DEF Behind, After, Near
<1>6. ASSUME NEW x \in {Header} \cup On(i)
      PROVE  Rest(i, x)' = IF i <= h /\ (x = Header \/ After(k, key[x]))
                           THEN Rest(i, x) \cup {n} ELSE Rest(i, x)
  <2>1. \A m : m \in Rest(i, x)' <=> m \in On(i)' /\ Behind(m, x)'
    BY <1>3
  <2>2. \A m : m \in Rest(i, x) <=> m \in On(i) /\ Behind(m, x)
    BY DEF Rest
  <2>3. \A m : m \in Rest(i, x)' <=>
                  m \in Rest(i, x) \/ (m = n /\ i <= h /\ (x = Header \/ After(k, key[x])))
    BY <1>1, <1>4, <1>5, <2>1, <2>2
  <2>4. QED
    BY <2>3
<1>7. ASSUME i <= h PROVE Rest(i, n)' = Rest(i, Update(k)[i])
  <2>1. IsPred(i, k, Update(k)[i])
    BY <1>2, Predecessors
  <2>2. \A m \in On(i) : m \in Rest(i, Update(k)[i]) <=> ~After(k, key[m])
    BY <1>2, <2>1, PredRest
  <2>3. \A m \in On(i) : Behind(m, n)' <=> After(key[m], k)
    BY <1>1, <1>2 DEF Behind, After, Near
  <2>4. ~Behind(n, n)'
    BY <1>1, <1>2, Order DEF Behind, After, Near
  <2>5. \A m \in On(i) : After(key[m], k) <=> ~After(k, key[m])
    BY <1>2, Order
  <2>6. \A m : m \in Rest(i, n)' <=> m \in On(i)' /\ Behind(m, n)'
    BY <1>3
  <2>7. \A m : m \in Rest(i, Update(k)[i]) => m \in On(i)
    BY DEF Rest
  <2>8. \A m : m \in Rest(i, n)' <=> m \in Rest(i, Update(k)[i])
    BY <1>1, <1>7, <2>2, <2>3, <2>4, <2>5, <2>6, <2>7
  <2>9. QED
    BY <2>8
<1>8. QED
  BY <1>6, <1>7

\* The levels stay threaded: what was behind the predecessor of k is behind the new
\* node, which is behind everything before k.
LEMMA InsertThreads ==
    ASSUME SkipListAssumption, SInv, NEW k \in Keys, NEW n \in Nodes, NEW h \in Heights,
           Insert(n, k, h), EqualTo(k) = {}
    PROVE  LevelsThreadTheList'
<1>1. /\ n \notin Listed /\ n \in Nodes /\ key'[n] = k
      /\ \A m \in Nodes \ {n} : key'[m] = key[m]
      /\ \A i \in Heights : On(i)' = IF i <= h THEN On(i) \cup {n} ELSE On(i)
  BY InsertedOn
<1>2. /\ k \in Int /\ Header \notin Nodes /\ Nil \notin Nodes
      /\ \A i \in Heights : On(i) \subseteq Listed
      /\ \A m \in Listed : /\ m \in Nodes /\ m # n /\ m # Header
                           /\ key[m] \in Int /\ key'[m] = key[m] /\ ~Near(key[m], k)
  BY <1>1, ListFacts, Order DEF EqualTo, Places
<1>3. ASSUME NEW i \in Heights, NEW x \in {Header} \cup On(i)'
      PROVE  IF Rest(i, x)' = {} THEN forward'[i][x] = Nil
             ELSE /\ forward'[i][x] \in Rest(i, x)'
                  /\ \A m \in Rest(i, x)' \ {forward'[i][x]} :
                        After(key'[m], key'[forward'[i][x]])
  <2> DEFINE u == Update(k)[i]
  <2>1. /\ u \in {Header} \cup On(i)
        /\ u = Header \/ After(k, key[u])
        /\ \A m \in On(i) : m \in Rest(i, u) <=> ~After(k, key[m])
        /\ \A m \in On(i) : After(k, key[m]) /\ m # u => u # Header /\ After(key[u], key[m])
    <3>1. IsPred(i, k, u)
      BY <1>2, Predecessors
    <3>2. QED
      BY <1>2, <3>1, PredRest DEF IsPred
  <2>2. /\ i <= h => /\ forward'[i][u] = n /\ forward'[i][n] = forward[i][u]
                     /\ \A z \in Places \ {u, n} : forward'[i][z] = forward[i][z]
        /\ ~(i <= h) => forward'[i] = forward[i]
    BY InsertedPointers
  <2>3. /\ \A z \in {Header} \cup On(i) :
              Rest(i, z)' = IF i <= h /\ (z = Header \/ After(k, key[z]))
                            THEN Rest(i, z) \cup {n} ELSE Rest(i, z)
        /\ i <= h => Rest(i, n)' = Rest(i, u)
    BY InsertedRest
  <2> HIDE DEF u
  <2>4. \A z \in {Header} \cup On(i) :
          /\ Rest(i, z) \subseteq On(i)
          /\ Rest(i, z) = {} => forward[i][z] = Nil
          /\ Rest(i, z) # {} =>
                /\ forward[i][z] \in Rest(i, z)
                /\ \A m \in Rest(i, z) \ {forward[i][z]} : After(key[m], key[forward[i][z]])
    BY Threads DEF Rest
  <2>5. \A m \in On(i) : /\ m \in Listed /\ m \in Nodes /\ m # n /\ m # Header
                         /\ key[m] \in Int /\ key'[m] = key[m] /\ ~Near(key[m], k)
    BY <1>2
  <2>6. CASE x \in {Header} \cup On(i) /\ (~(i <= h) \/ ~(x = Header \/ After(k, key[x])))
    <3>1. Rest(i, x)' = Rest(i, x)
      BY <2>3, <2>6
    <3>2. forward'[i][x] = forward[i][x]
      <4>1. CASE ~(i <= h)
        BY <2>2, <4>1
      <4>2. CASE i <= h
        <5>1. x # u /\ x # n /\ x \in Places
          BY <1>2, <2>1, <2>5, <2>6, <4>2 DEF Places
        <5>2. QED
          BY <2>2, <4>2, <5>1
      <4>3. QED
        BY <4>1, <4>2
    <3>3. QED
      BY <2>4, <2>5, <2>6, <3>1, <3>2
  <2>7. CASE x = n /\ i <= h
    <3>1. Rest(i, x)' = Rest(i, u) /\ forward'[i][x] = forward[i][u]
      BY <2>2, <2>3, <2>7
    <3>2. QED
      BY <2>1, <2>4, <2>5, <3>1
  <2>8. CASE x = u /\ i <= h
    <3>1. Rest(i, x)' = Rest(i, x) \cup {n} /\ forward'[i][x] = n
      BY <2>1, <2>2, <2>3, <2>8
    <3>2. ASSUME NEW m \in Rest(i, u) PROVE After(key'[m], key'[n])
      <4>1. m \in On(i) /\ ~After(k, key[m])
        BY <2>1, <2>4
      <4>2. After(key[m], k)
        BY <1>2, <2>5, <4>1, Order
      <4>3. QED
        BY <1>1, <2>5, <4>1, <4>2
    <3>3. QED
      BY <2>8, <3>1, <3>2
  <2>9. CASE x \in {Header} \cup On(i) /\ i <= h /\ x # u /\ (x = Header \/ After(k, key[x]))
    <3>1. u \in Rest(i, x) /\ u # Header
      BY <2>1, <2>9 DEF Rest, Behind
    <3>2. Rest(i, x)' = Rest(i, x) \cup {n}
      BY <2>3, <2>9
    <3>3. x # n /\ x \in Places
      BY <1>1, <1>2, <2>5, <2>9, ListFacts DEF Places
    <3>4. forward'[i][x] = forward[i][x]
      BY <2>2, <2>9, <3>3
    <3>5. PICK f \in On(i) : f = forward[i][x] /\ f \in Rest(i, x)
      BY <2>4, <2>9, <3>1
    <3>6. u = f \/ After(key[u], key[f])
      BY <2>4, <2>9, <3>1, <3>5
    <3>7. u \in On(i) /\ After(k, key[u])
      BY <2>1, <3>1
    <3>8. After(k, key[f])
      BY <1>2, <2>5, <3>5, <3>6, <3>7, Order
    <3>9. \A m \in Rest(i, x) \ {f} : After(key[m], key[f]) /\ m \in On(i)
      BY <2>4, <2>9, <3>5
    <3>10. After(key'[n], key'[f])
      BY <1>1, <2>5, <3>5, <3>8
    <3>11. \A m \in Rest(i, x)' \ {f} : After(key'[m], key'[f])
      BY <2>5, <3>2, <3>5, <3>9, <3>10
    <3>12. QED
      BY <3>2, <3>4, <3>5, <3>11
  <2>10. (x = n /\ i <= h) \/ x \in {Header} \cup On(i)
    BY <1>1, <1>3
  <2>11. QED
    BY <2>6, <2>7, <2>8, <2>9, <2>10
<1>4. QED
  <2> SUFFICES ASSUME NEW i \in Heights,
                      NEW x \in {Header} \cup {m \in Listed' : height'[m] >= i}
               PROVE  LET rest == {m \in Listed' : height'[m] >= i /\ Behind(m, x)'}
                      IN  IF rest = {} THEN forward'[i][x] = Nil
                          ELSE forward'[i][x] \in rest
                               /\ \A m \in rest \ {forward'[i][x]} :
                                     After(key'[m], key'[forward'[i][x]])
    BY DEF LevelsThreadTheList, After, Near
  <2>1. x \in {Header} \cup On(i)'
    BY DEF On
  <2>2. Rest(i, x)' = {m \in Listed' : height'[m] >= i /\ Behind(m, x)'}
    BY DEF Rest, On
  <2>3. QED
    BY <1>3, <2>1, <2>2

\* The rest of the invariant.
LEMMA AddStep ==
    ASSUME SkipListAssumption, SInv, NEW k \in Keys, Add(k)
    PROVE  SInv'
<1>1. k \in Int
  BY Order
<1>2. EqualTo(k) = {}
  <2>1. Search(k) = Nil /\ Nil \notin EqualTo(k)
    BY ListFacts DEF Add, EqualTo, Places
  <2>2. QED
    BY <1>1, <2>1, SearchResult
<1>3. PICK n \in Nodes, h \in Heights : Insert(n, k, h)
  BY DEF Add
<1>4. /\ n \notin Listed /\ Listed' = Listed \cup {n}
      /\ key'[n] = k /\ \A m \in Nodes \ {n} : key'[m] = key[m]
      /\ height'[n] = h /\ \A m \in Nodes \ {n} : height'[m] = height[m]
      /\ \A i \in Heights : On(i)' = IF i <= h THEN On(i) \cup {n} ELSE On(i)
  BY <1>3, InsertedOn
<1>5. /\ key' = [key EXCEPT ![n] = k] /\ height' = [height EXCEPT ![n] = h]
      /\ top' = (IF h > top THEN h ELSE top) /\ size' = size + 1
  BY <1>3 DEF Insert
<1>6. Listed \subseteq Nodes /\ IsFiniteSet(Listed)
  BY ListFacts DEF SInv
<1>7. TypeOK'
  <2>1. /\ key \in [Nodes -> Keys \cup {0}] /\ height \in [Nodes -> 0..MaxHeight]
        /\ top \in Heights /\ \A m \in Listed : height[m] <= top
        /\ top = 1 \/ \E m \in Listed : height[m] = top
        /\ size = Cardinality(Listed)
    BY DEF SInv, TypeOK
  <2>2. MaxHeight \in Nat /\ Heights = 1..MaxHeight
    BY DEF Heights, SkipListAssumption
  <2>3. key' \in [Nodes -> Keys \cup {0}]
    BY <1>5, <2>1
  <2>4. height' \in [Nodes -> 0..MaxHeight]
    BY <1>5, <2>1, <2>2
  <2>5. top' \in Heights
    BY <1>5, <2>1
  <2>6. \A m \in Listed' : height'[m] <= top'
    <3> SUFFICES ASSUME NEW m \in Listed' PROVE height'[m] <= top'
      OBVIOUS
    <3>1. CASE m = n
      BY <1>4, <1>5, <2>1, <2>2, <3>1
    <3>2. CASE m # n
      <4>1. m \in Listed /\ height'[m] = height[m] /\ height[m] \in 0..MaxHeight
            /\ height[m] <= top
        BY <1>4, <1>6, <2>1, <3>2
      <4>2. QED
        BY <1>5, <2>1, <2>2, <4>1
    <3>3. QED
      BY <3>1, <3>2
  <2>7. top' = 1 \/ \E m \in Listed' : height'[m] = top'
    <3>1. CASE h > top
      BY <1>4, <1>5, <3>1
    <3>2. CASE ~(h > top) /\ top # 1
      <4>1. PICK m \in Listed : height[m] = top
        BY <2>1, <3>2
      <4>2. m \in Listed' /\ height'[m] = top /\ top' = top
        BY <1>4, <1>5, <1>6, <3>2, <4>1
      <4>3. QED
        BY <4>2
    <3>3. CASE ~(h > top) /\ top = 1
      BY <1>5, <3>3
    <3>4. QED
      BY <3>1, <3>2, <3>3
  <2>8. size' = Cardinality(Listed')
    BY <1>4, <1>5, <1>6, <2>1, FS_AddElement
  <2>9. forward' \in [Heights -> [Places -> Nodes \cup {Nil}]]
    <3>1. h \in Heights
      OBVIOUS
    <3>2. QED
      BY <1>3, <3>1, InsertedPointers
  <2>10. QED
    BY <2>3, <2>4, <2>5, <2>6, <2>7, <2>8, <2>9 DEF TypeOK
<1>8. PricesApart'
  <2> SUFFICES ASSUME NEW a \in Listed', NEW b \in Listed', a # b
               PROVE  ~Near(key'[a], key'[b])
    BY DEF PricesApart, Near
  <2>1. \A m \in Listed : /\ m \in Nodes /\ m # n /\ key'[m] = key[m] /\ key[m] \in Int
                          /\ ~Near(key[m], k)
    BY <1>2, <1>4, ListFacts DEF EqualTo
  <2>2. \A c, d \in Listed : c # d => ~Near(key[c], key[d])
    BY DEF SInv, PricesApart
  <2>3. QED
    BY <1>1, <1>4, <2>1, <2>2, Order
<1>9. OffTheList'
  <2> SUFFICES ASSUME NEW i \in Heights, NEW m \in Nodes, m \notin On(i)'
               PROVE  forward'[i][m] = Nil
    BY DEF OffTheList
  <2>1. m \notin On(i)
    BY <1>4
  <2>2. forward[i][m] = Nil
    BY <2>1 DEF SInv, OffTheList
  <2>3. CASE ~(i <= h)
    BY <1>3, <2>2, <2>3, InsertedPointers
  <2>4. CASE i <= h
    <3>1. m # n
      BY <1>4, <2>4
    <3>2. Update(k)[i] \in {Header} \cup On(i)
      BY <1>1, Predecessors DEF IsPred
    <3>3. m # Update(k)[i] /\ m \in Places
      BY <2>1, <3>2, ListFacts DEF Places
    <3>4. QED
      BY <1>3, <2>2, <2>4, <3>1, <3>3, InsertedPointers
  <2>5. QED
    BY <2>3, <2>4
<1>10. IsFiniteSet(Listed')
  BY <1>4, <1>6, FS_AddElement
<1>11. LevelsThreadTheList'
  BY <1>2, <1>3, InsertThreads
<1>12. QED
  BY <1>7, <1>8, <1>9, <1>10, <1>11 DEF SInv

-----------------------------------------------------------------------------
(* Deletion *)

\* The deleted node is the first behind the predecessors of k on every level it is
\* on, and on no other.
LEMMA DeletedIsNext ==
    ASSUME SkipListAssumption, SInv, NEW k \in Int, NEW x, x = Target(k), x # Nil
    PROVE  /\ x \in Listed /\ Near(key[x], k)
           /\ \A i \in Heights : forward[i][Update(k)[i]] = x <=> i <= height[x]
<1>1. x \in Listed /\ Near(key[x], k)
  BY TargetResult DEF EqualTo
<1>2. x \in Nodes /\ key[x] \in Int /\ x \notin {Header}
  BY <1>1, ListFacts
<1>3. x = forward[1][Update(k)[1]]
  BY DEF Target
<1>4. \A i \in Heights :
        /\ Update(k)[i] \in {Header} \cup On(i)
        /\ \A m \in On(i) : m \in Rest(i, Update(k)[i]) <=> ~After(k, key[m])
  BY Predecessors, PredRest DEF IsPred
<1>5. 1 \in Heights /\ On(1) = Listed /\ \A i \in Heights : On(i) \subseteq Listed
      /\ \A m \in Listed : key[m] \in Int
  BY ListFacts
<1>6. \A m \in Listed : ~After(k, key[m]) /\ m # x => After(key[m], key[x])
  <2> SUFFICES ASSUME NEW m \in Listed, ~After(k, key[m]), m # x
               PROVE  After(key[m], key[x])
    OBVIOUS
  <2>1. m \in Rest(1, Update(k)[1])
    BY <1>4, <1>5
  <2>2. QED
    BY <1>3, <1>4, <1>5, <2>1, Threads
<1>7. ASSUME NEW i \in Heights, i <= height[x]
      PROVE  forward[i][Update(k)[i]] = x
  <2> DEFINE u == Update(k)[i]
             f == forward[i][u]
  <2>1. x \in On(i)
    BY <1>1, <1>7 DEF On, Heights
  <2>2. ~After(k, key[x])
    BY <1>1, <1>2, Order
  <2>3. x \in Rest(i, u) /\ u \in {Header} \cup On(i)
    BY <1>4, <2>1, <2>2
  <2> HIDE DEF u
  <2>4. f \in Rest(i, u) /\ (x = f \/ After(key[x], key[f]))
    BY <2>3, Threads
  <2>5. f \in On(i) /\ f \in Listed
    BY <1>5, <2>4 DEF Rest
  <2>6. ~After(k, key[f])
    BY <1>4, <2>4, <2>5 DEF u
  <2> HIDE DEF f
  <2>7. f = x \/ After(key[f], key[x])
    BY <1>6, <2>5, <2>6
  <2>8. f = x
    BY <1>2, <1>5, <2>4, <2>5, <2>7, Order
  <2>9. QED
    BY <2>8 DEF f, u
<1>8. ASSUME NEW i \in Heights, forward[i][Update(k)[i]] = x
      PROVE  i <= height[x]
  <2>1. Update(k)[i] \in {Header} \cup On(i)
    BY <1>4
  <2>2. x \in Rest(i, Update(k)[i])
    BY <1>8, <2>1, Threads, ListFacts DEF Places
  <2>3. QED
    BY <2>2 DEF Rest, On
<1>9. QED
  BY <1>1, <1>7, <1>8

\* So Unlink takes it out of all of them.
LEMMA UnlinkedPointers ==
    ASSUME SkipListAssumption, SInv, NEW k \in Int, NEW x, x = Target(k), x # Nil,
           Unlink(x, Update(k)), NEW i \in Heights
    PROVE  /\ i <= height[x] => LET u == Update(k)[i]
                                IN  /\ u \in ({Header} \cup On(i)) \ {x}
                                    /\ forward[i][u] = x
                                    /\ forward'[i][u] = forward[i][x]
                                    /\ forward'[i][x] = Nil
                                    /\ \A y \in Places \ {u, x} : forward'[i][y] = forward[i][y]
           /\ ~(i <= height[x]) => forward'[i] = forward[i]
           /\ forward' \in [Heights -> [Places -> Nodes \cup {Nil}]]
<1> DEFINE u(j) == Update(k)[j]
<1>1. /\ x \in Listed /\ x \in Nodes /\ x \in Places /\ key[x] \in Int /\ height[x] \in Nat
      /\ ~After(k, key[x]) /\ x # Header
  <2>1. x \in Listed /\ Near(key[x], k)
    BY DeletedIsNext
  <2>2. QED
    BY <2>1, ListFacts, Order DEF Places
<1>2. \A j \in Heights : forward[j][u(j)] = x <=> j <= height[x]
  BY DeletedIsNext
<1>3. \A j \in Heights : u(j) \in {Header} \cup On(j) /\ u(j) # x
  BY <1>1, Predecessors DEF IsPred
<1>4. forward \in [Heights -> [Places -> Nodes \cup {Nil}]]
  BY DEF SInv, TypeOK
<1>5. \A j \in Heights : u(j) \in Places
  BY <1>3, ListFacts DEF Places
<1>6. forward' = [j \in Heights |->
           IF \A l \in 1..j : forward[l][u(l)] = x
           THEN [forward[j] EXCEPT ![u(j)] = forward[j][x], ![x] = Nil]
           ELSE forward[j]]
  BY DEF Unlink
<1> HIDE DEF u
<1>7. \A j \in Heights : (\A l \in 1..j : forward[l][u(l)] = x) <=> j <= height[x]
  <2> SUFFICES ASSUME NEW j \in Heights
               PROVE  (\A l \in 1..j : forward[l][u(l)] = x) <=> j <= height[x]
    OBVIOUS
  <2>1. j \in 1..j /\ 1..j \subseteq Heights /\ j \in Nat
    BY DEF Heights, SkipListAssumption
  <2>2. \A l \in 1..j : j <= height[x] => l <= height[x]
    BY <1>1, <2>1
  <2>3. QED
    BY <1>2, <2>1, <2>2
<1>8. forward' = [j \in Heights |->
           IF j <= height[x]
           THEN [forward[j] EXCEPT ![u(j)] = forward[j][x], ![x] = Nil]
           ELSE forward[j]]
  BY <1>6, <1>7
<1>9. ASSUME NEW j \in Heights
      PROVE  [forward[j] EXCEPT ![u(j)] = forward[j][x], ![x] = Nil]
                \in [Places -> Nodes \cup {Nil}]
  BY <1>1, <1>4, <1>5
<1>10. forward' \in [Heights -> [Places -> Nodes \cup {Nil}]]
  BY <1>4, <1>8, <1>9
<1>11. CASE i <= height[x]
  <2>1. forward'[i] = [forward[i] EXCEPT ![u(i)] = forward[i][x], ![x] = Nil]
    BY <1>8, <1>11
  <2>2. forward[i] \in [Places -> Nodes \cup {Nil}]
    BY <1>4
  <2>3. /\ forward'[i][u(i)] = forward[i][x] /\ forward'[i][x] = Nil
        /\ \A y \in Places \ {u(i), x} : forward'[i][y] = forward[i][y]
    BY <1>1, <1>3, <1>5, <2>1, <2>2
  <2>4. QED
    BY <1>2, <1>3, <1>10, <1>11, <2>3 DEF u
<1>12. CASE ~(i <= height[x])
  BY <1>8, <1>10, <1>12
<1>13. QED
  BY <1>11, <1>12

\* The nodes that are left, by level.
LEMMA DeletedOn ==
    ASSUME SkipListAssumption, SInv, NEW x \in Listed,
           key' = [key EXCEPT ![x] = 0], height' = [height EXCEPT ![x] = 0]
    PROVE  /\ Listed' = Listed \ {x}
           /\ \A m \in Nodes \ {x} : key'[m] = key[m] /\ height'[m] = height[m]
           /\ \A i \in Heights : On(i)' = On(i) \ {x}
<1>1. key \in [Nodes -> Keys \cup {0}] /\ height \in [Nodes -> 0..MaxHeight]
  BY DEF SInv, TypeOK
<1>2. /\ \A m \in Nodes \ {x} : key'[m] = key[m] /\ height'[m] = height[m]
      /\ height'[x] = 0 /\ x \in Nodes
  BY <1>1, ListFacts
<1>3. \A m \in Nodes : m \in Listed' <=> m \in Listed /\ m # x
  BY <1>2 DEF Listed
<1>4. Listed' = Listed \ {x}
  BY <1>3 DEF Listed
<1>5. ASSUME NEW i \in Heights PROVE On(i)' = On(i) \ {x}
  <2>1. \A m \in Listed' : m \in Nodes /\ m # x /\ height'[m] = height[m]
    BY <1>2, <1>4, ListFacts
  <2>2. \A m : m \in On(i)' <=> m \in Listed' /\ height'[m] >= i
    BY DEF On
  <2>3. \A m : m \in On(i) <=> m \in Listed /\ height[m] >= i
    BY DEF On
  <2>4. \A m : m \in On(i)' <=> m \in On(i) /\ m # x
    BY <1>4, <2>1, <2>2, <2>3
  <2>5. QED
    BY <2>4
<1>6. QED
  BY <1>2, <1>4, <1>5

\* The levels stay threaded: nobody but the predecessor of k led to the deleted
\* node, and what was behind it is behind the predecessor.
LEMMA DeleteThreads ==
    ASSUME SkipListAssumption, SInv, NEW k \in Keys, Delete(k)
    PROVE  LevelsThreadTheList'
<1> DEFINE x == Target(k)
<1>1. /\ x # Nil /\ Unlink(x, Update(k))
      /\ key' = [key EXCEPT ![x] = 0] /\ height' = [height EXCEPT ![x] = 0]
  BY DEF Delete
<1>2. k \in Int
  BY Order
<1>3. x \in Listed /\ x \in Nodes /\ x # Header /\ key[x] \in Int
  BY <1>1, <1>2, DeletedIsNext, ListFacts
<1>4. \A i \in Heights :
        /\ i <= height[x] =>
              /\ Update(k)[i] \in ({Header} \cup On(i)) \ {x}
              /\ forward[i][Update(k)[i]] = x
              /\ forward'[i][Update(k)[i]] = forward[i][x]
              /\ \A y \in Places \ {Update(k)[i], x} : forward'[i][y] = forward[i][y]
        /\ ~(i <= height[x]) => forward'[i] = forward[i]
  BY <1>1, <1>2, UnlinkedPointers
<1> HIDE DEF x
<1>5. /\ \A m \in Nodes \ {x} : key'[m] = key[m] /\ height'[m] = height[m]
      /\ \A i \in Heights : On(i)' = On(i) \ {x}
  BY <1>1, <1>3, DeletedOn
<1>6. ASSUME NEW i \in Heights, NEW y \in {Header} \cup On(i)'
      PROVE  IF Rest(i, y)' = {} THEN forward'[i][y] = Nil
             ELSE /\ forward'[i][y] \in Rest(i, y)'
                  /\ \A m \in Rest(i, y)' \ {forward'[i][y]} :
                        After(key'[m], key'[forward'[i][y]])
  <2>1. /\ y \in {Header} \cup On(i) /\ y # x /\ y \in Places
        /\ \A m \in On(i) : m \in Nodes /\ m # Header /\ key[m] \in Int /\ m # Nil
        /\ x \in On(i) <=> i <= height[x]
    BY <1>3, <1>5, <1>6, ListFacts DEF Places, On
  <2>2. Rest(i, y)' = Rest(i, y) \ {x}
    <3>1. \A m \in On(i)' : m \in On(i) /\ m # x /\ (Behind(m, y)' <=> Behind(m, y))
      BY <1>5, <2>1 DEF Behind, After, Near
    <3>2. \A m : m \in Rest(i, y)' <=> m \in On(i)' /\ Behind(m, y)'
      BY DEF Rest
    <3>3. \A m : m \in Rest(i, y) <=> m \in On(i) /\ Behind(m, y)
      BY DEF Rest
    <3>4. \A m : m \in Rest(i, y)' <=> m \in Rest(i, y) /\ m # x
      BY <1>5, <3>1, <3>2, <3>3
    <3>5. QED
      BY <3>4
  <2>3. \A z \in {Header} \cup On(i) :
          /\ Rest(i, z) \subseteq On(i)
          /\ Rest(i, z) = {} => forward[i][z] = Nil
          /\ Rest(i, z) # {} =>
                /\ forward[i][z] \in Rest(i, z)
                /\ \A m \in Rest(i, z) \ {forward[i][z]} : After(key[m], key[forward[i][z]])
    BY Threads DEF Rest
  <2>4. \A a, b \in On(i) \ {x} : After(key[a], key[b]) => After(key'[a], key'[b])
    BY <1>5, <2>1
  <2>5. CASE i <= height[x] /\ y = Update(k)[i]
    <3>1. forward'[i][y] = forward[i][x] /\ forward[i][y] = x /\ x \in On(i)
      BY <1>4, <2>1, <2>5
    <3>2. x \in Rest(i, y) /\ \A m \in Rest(i, y) \ {x} : After(key[m], key[x])
      BY <2>1, <2>3, <3>1
    <3>3. Rest(i, y) \ {x} = Rest(i, x)
      <4>1. \A m \in Rest(i, y) \ {x} : m \in Rest(i, x)
        BY <2>3, <2>1, <3>2 DEF Rest, Behind
      <4>2. ASSUME NEW m \in Rest(i, x) PROVE m \in Rest(i, y) \ {x}
        <5>1. m \in On(i) /\ After(key[m], key[x]) /\ key[m] \in Int
          BY <1>3, <2>1 DEF Rest, Behind
        <5>2. m # x
          BY <1>3, <5>1, Order
        <5>3. CASE y = Header
          BY <5>1, <5>2, <5>3 DEF Rest, Behind
        <5>4. CASE y # Header
          <6>1. After(key[x], key[y]) /\ key[y] \in Int
            BY <2>1, <3>2, <5>4 DEF Rest, Behind
          <6>2. After(key[m], key[y])
            BY <1>3, <5>1, <6>1, Order
          <6>3. QED
            BY <5>1, <5>2, <6>2 DEF Rest, Behind
        <5>5. QED
          BY <5>3, <5>4
      <4>3. QED
        BY <4>1, <4>2
    <3>4. x \notin Rest(i, x) /\ Rest(i, x) \subseteq On(i) \ {x}
      BY <2>3, <3>3, <3>1
    <3>5. QED
      BY <2>2, <2>3, <2>4, <3>1, <3>3, <3>4
  <2>6. CASE ~(i <= height[x] /\ y = Update(k)[i])
    <3>1. forward'[i][y] = forward[i][y]
      BY <1>4, <2>1, <2>6
    <3>2. forward[i][y] # x
      <4>1. CASE i <= height[x]
        <5>1. /\ Update(k)[i] \in {Header} \cup On(i)
              /\ forward[i][Update(k)[i]] = x /\ x # Nil
          BY <1>4, <2>1, <4>1
        <5>2. QED
          BY <2>1, <2>6, <4>1, <5>1, OnePredecessor
      <4>2. CASE ~(i <= height[x])
        <5>1. x \notin On(i) /\ x # Nil
          BY <1>3, <2>1, <4>2, ListFacts DEF Places
        <5>2. QED
          BY <2>1, <2>3, <5>1
      <4>3. QED
        BY <4>1, <4>2
    <3>3. CASE Rest(i, y) = {}
      BY <2>1, <2>2, <2>3, <3>1, <3>3
    <3>4. CASE Rest(i, y) # {}
      <4>1. /\ forward[i][y] \in Rest(i, y)
            /\ \A m \in Rest(i, y) \ {forward[i][y]} : After(key[m], key[forward[i][y]])
            /\ Rest(i, y) \subseteq On(i)
        BY <2>1, <2>3, <3>4
      <4>2. QED
        BY <2>2, <2>4, <3>1, <3>2, <4>1
    <3>5. QED
      BY <3>3, <3>4
  <2>7. QED
    BY <2>5, <2>6
<1>7. QED
  <2> SUFFICES ASSUME NEW i \in Heights,
                      NEW y \in {Header} \cup {m \in Listed' : height'[m] >= i}
               PROVE  LET rest == {m \in Listed' : height'[m] >= i /\ Behind(m, y)'}
                      IN  IF rest = {} THEN forward'[i][y] = Nil
                          ELSE forward'[i][y] \in rest
                               /\ \A m \in rest \ {forward'[i][y]} :
                                     After(key'[m], key'[forward'[i][y]])
    BY DEF LevelsThreadTheList, After, Near
  <2>1. y \in {Header} \cup On(i)'
    BY DEF On
  <2>2. Rest(i, y)' = {m \in Listed' : height'[m] >= i /\ Behind(m, y)'}
    BY DEF Rest, On
  <2>3. QED
    BY <1>6, <2>1, <2>2

\* Level is the highest level the header leads from, and at least 1.
LEMMA TopIs ==
    ASSUME SkipListAssumption, NEW f, top \in Heights
    PROVE  /\ TopOf(f) \in 1..top
           /\ TopOf(f) = 1 \/ f[TopOf(f)][Header] # Nil
           /\ \A i \in TopOf(f) + 1..top : f[i][Header] = Nil
<1> DEFINE IsTop(t) == /\ t = 1 \/ f[t][Header] # Nil
                       /\ \A i \in t + 1..top : f[i][Header] = Nil
           S == {d \in 0..top - 1 : top - d = 1 \/ f[top - d][Header] # Nil}
<1>1. top \in Nat /\ top >= 1
  BY DEF Heights, SkipListAssumption
<1>2. top - 1 \in S /\ S \subseteq Nat
  BY <1>1
<1>3. PICK d \in S : \A e \in S : d <= e
  BY <1>2, Least
<1>4. top - d \in 1..top /\ (top - d = 1 \/ f[top - d][Header] # Nil)
  BY <1>1, <1>3
<1>5. ASSUME NEW i \in top - d + 1..top PROVE f[i][Header] = Nil
  <2>1. top - i \in 0..top - 1 /\ top - (top - i) = i /\ ~(d <= top - i) /\ i # 1
    BY <1>1, <1>3
  <2>2. top - i \notin S
    BY <1>3, <2>1
  <2>3. QED
    BY <2>1, <2>2
<1>6. \E t \in 1..top : IsTop(t)
  BY <1>4, <1>5
<1>7. TopOf(f) = CHOOSE t \in 1..top : IsTop(t)
  BY DEF TopOf
<1>8. TopOf(f) \in 1..top /\ IsTop(TopOf(f))
  <2> HIDE DEF IsTop
  <2> QED
    BY <1>6, <1>7
<1>9. QED
  BY <1>8

LEMMA DeleteStep ==
    ASSUME SkipListAssumption, SInv, NEW k \in Keys, Delete(k)
    PROVE  SInv'
<1> DEFINE x == Target(k)
<1>1. /\ x # Nil /\ Unlink(x, Update(k))
      /\ key' = [key EXCEPT ![x] = 0] /\ height' = [height EXCEPT ![x] = 0]
      /\ size' = size - 1
  BY DEF Delete
<1>2. k \in Int
  BY Order
<1>3. x \in Listed /\ x \in Nodes /\ x # Header /\ key[x] \in Int
  BY <1>1, <1>2, DeletedIsNext, ListFacts
<1>4. /\ \A i \in Heights : i <= height[x] =>
              /\ Update(k)[i] \in ({Header} \cup On(i)) \ {x}
              /\ forward'[i][x] = Nil
              /\ \A y \in Places \ {Update(k)[i], x} : forward'[i][y] = forward[i][y]
      /\ \A i \in Heights : ~(i <= height[x]) => forward'[i] = forward[i]
      /\ forward' \in [Heights -> [Places -> Nodes \cup {Nil}]]
  <2>1. 1 \in Heights
    BY ListFacts
  <2>2. QED
    BY <1>1, <1>2, <2>1, UnlinkedPointers
<1>5. top' = TopOf(forward')
  BY <1>1 DEF Unlink
<1> HIDE DEF x
<1>6. /\ Listed' = Listed \ {x}
      /\ \A m \in Nodes \ {x} : key'[m] = key[m] /\ height'[m] = height[m]
      /\ \A i \in Heights : On(i)' = On(i) \ {x}
  BY <1>1, <1>3, DeletedOn
<1>7. LevelsThreadTheList'
  BY DeleteThreads
<1>8. /\ key \in [Nodes -> Keys \cup {0}] /\ height \in [Nodes -> 0..MaxHeight]
      /\ top \in Heights /\ \A m \in Listed : height[m] <= top
      /\ size = Cardinality(Listed) /\ IsFiniteSet(Listed)
      /\ MaxHeight \in Nat /\ Heights = 1..MaxHeight
  BY DEF SInv, TypeOK, Heights, SkipListAssumption
<1>9. /\ top' \in 1..top
      /\ top' = 1 \/ forward'[top'][Header] # Nil
      /\ \A i \in top' + 1..top : forward'[i][Header] = Nil
  BY <1>5, <1>8, TopIs
<1>10. ASSUME NEW i \in Heights PROVE forward'[i][Header] = Nil <=> On(i)' = {}
  <2>1. LET rest == {m \in Listed' : height'[m] >= i /\ Behind(m, Header)'}
        IN  IF rest = {} THEN forward'[i][Header] = Nil ELSE forward'[i][Header] \in rest
    BY <1>7 DEF LevelsThreadTheList
  <2>2. On(i)' = {m \in Listed' : height'[m] >= i /\ Behind(m, Header)'}
    BY DEF On, Behind
  <2>3. Nil \notin On(i)'
    BY <1>6, ListFacts DEF Places
  <2>4. QED
    BY <2>1, <2>2, <2>3
<1>11. TypeOK'
  <2>1. key' \in [Nodes -> Keys \cup {0}]
    BY <1>1, <1>8
  <2>2. height' \in [Nodes -> 0..MaxHeight]
    <3>1. 0 \in 0..MaxHeight
      BY <1>8
    <3>2. QED
      BY <1>1, <1>8, <3>1
  <2>3. top' \in Heights
    BY <1>8, <1>9
  <2>4. ASSUME NEW m \in Listed' PROVE height'[m] <= top'
    <3>1. m \in Listed /\ m \in Nodes /\ height'[m] = height[m] /\ height[m] \in 1..top
      BY <1>6, <2>4, ListFacts
    <3>2. PICK h \in Heights : h = height[m]
      BY <1>8, <3>1
    <3>3. m \in On(h)' /\ forward'[h][Header] # Nil
      <4>1. m \in On(h)'
        BY <1>8, <2>4, <3>1, <3>2 DEF On
      <4>2. QED
        BY <1>10, <4>1
    <3>4. h \notin top' + 1..top
      BY <1>9, <3>3
    <3>5. QED
      BY <1>8, <1>9, <3>1, <3>2, <3>4
  <2>5. top' = 1 \/ \E m \in Listed' : height'[m] = top'
    <3>1. CASE top' # 1
      <4>1. PICK t \in Heights : t = top' /\ forward'[t][Header] # Nil
        BY <1>9, <2>3, <3>1
      <4>2. PICK m \in On(t)' : TRUE
        BY <1>10, <4>1
      <4>3. m \in Listed' /\ height'[m] >= top'
        BY <4>1 DEF On
      <4>4. height'[m] <= top' /\ height'[m] \in 0..MaxHeight /\ top' \in Nat
        BY <1>6, <1>8, <2>2, <2>3, <2>4, <4>3, ListFacts
      <4>5. QED
        BY <4>3, <4>4
    <3>2. QED
      BY <3>1
  <2>6. size' = Cardinality(Listed')
    BY <1>1, <1>3, <1>6, <1>8, FS_RemoveElement
  <2>7. QED
    BY <1>4, <2>1, <2>2, <2>3, <2>4, <2>5, <2>6 DEF TypeOK
<1>12. PricesApart'
  <2> SUFFICES ASSUME NEW a \in Listed', NEW b \in Listed', a # b
               PROVE  ~Near(key'[a], key'[b])
    BY DEF PricesApart, Near
  <2>1. /\ a \in Listed /\ b \in Listed /\ key'[a] = key[a] /\ key'[b] = key[b]
    BY <1>6, ListFacts
  <2>2. QED
    BY <2>1 DEF SInv, PricesApart
<1>13. OffTheList'
  <2> SUFFICES ASSUME NEW i \in Heights, NEW m \in Nodes, m \notin On(i)'
               PROVE  forward'[i][m] = Nil
    BY DEF OffTheList
  <2>1. m = x \/ m \notin On(i)
    BY <1>6
  <2>2. m \notin On(i) => forward[i][m] = Nil
    BY DEF SInv, OffTheList
  <2>3. x \in On(i) <=> i <= height[x]
    BY <1>3 DEF On
  <2>4. m \in Places /\ m # Header
    BY ListFacts DEF Places
  <2>5. QED
    BY <1>4, <2>1, <2>2, <2>3, <2>4
<1>14. IsFiniteSet(Listed')
  BY <1>6, <1>8, FS_Subset
<1>15. QED
  BY <1>7, <1>11, <1>12, <1>13, <1>14 DEF SInv

-----------------------------------------------------------------------------
(* The theorems *)

LEMMA SInit == ASSUME SkipListAssumption, Init PROVE SInv
<1>1. /\ key = [n \in Nodes |-> 0] /\ height = [n \in Nodes |-> 0]
      /\ forward = [i \in Heights |-> [x \in Places |-> Nil]]
      /\ top = 1 /\ size = 0
  BY DEF Init
<1>2. MaxHeight \in Nat \ {0} /\ Heights = 1..MaxHeight
  BY DEF Heights, SkipListAssumption
<1>3. Listed = {}
  BY <1>1 DEF Listed
<1>4. \A i \in Heights, x \in Places : forward[i][x] = Nil
  BY <1>1
<1>5. TypeOK
  <2>1. key \in [Nodes -> Keys \cup {0}]
    BY <1>1
  <2>2. height \in [Nodes -> 0..MaxHeight]
    <3>1. 0 \in 0..MaxHeight
      BY <1>2
    <3>2. QED
      BY <1>1, <3>1
  <2>3. forward \in [Heights -> [Places -> Nodes \cup {Nil}]]
    BY <1>1
  <2>4. top \in Heights
    BY <1>1, <1>2
  <2>5. size = Cardinality(Listed)
    BY <1>1, <1>3, FS_EmptySet
  <2>6. QED
    BY <1>1, <1>3, <2>1, <2>2, <2>3, <2>4, <2>5 DEF TypeOK
<1>6. PricesApart
  BY <1>3 DEF PricesApart
<1>7. LevelsThreadTheList
  BY <1>3, <1>4 DEF LevelsThreadTheList, Places
<1>8. OffTheList
  BY <1>4 DEF OffTheList, Places
<1>9. IsFiniteSet(Listed)
  BY <1>3, FS_EmptySet
<1>10. QED
  BY <1>5, <1>6, <1>7, <1>8, <1>9 DEF SInv

LEMMA SNext == ASSUME SkipListAssumption, SInv, [Next]_vars PROVE SInv'
<1>1. CASE \E k \in Keys : Add(k)
  BY <1>1, AddStep
<1>2. CASE \E k \in Keys : Delete(k)
  BY <1>2, DeleteStep
<1>3. CASE UNCHANGED vars
  BY <1>3 DEF vars, SInv, TypeOK, PricesApart, LevelsThreadTheList, OffTheList, Listed,
              Behind, After, Near, On
<1>4. QED
  BY <1>1, <1>2, <1>3 DEF Next

\* The invariant of the list (SInv), for every number of nodes, levels and prices
\* and every tolerance: it is threaded on every level, no two prices compare equal,
\* and a node points nowhere on the levels it is not on.
THEOREM SkipListInvariance == Spec => []SInv
<1>1. Init => SInv
  BY SkipListAssumption, SInit
<1>2. SInv /\ [Next]_vars => SInv'
  BY SkipListAssumption, SNext
<1>3. QED
  BY <1>1, <1>2, PTL DEF Spec

\* Level is the height of the highest node and Size the number of nodes, whatever is
\* inserted and deleted (TypeOK).
THEOREM SkipListTypes == Spec => []TypeOK
<1>1. SInv => TypeOK
  BY DEF SInv
<1>2. QED
  BY <1>1, SkipListInvariance, PTL

\* No sequence of AddOrder's insertions and matchOrders' deletions ever leaves two
\* nodes whose prices compare equal (PricesApart).
THEOREM PricesStayApart == Spec => []PricesApart
<1>1. SInv => PricesApart
  BY DEF SInv
<1>2. QED
  BY <1>1, SkipListInvariance, PTL

\* Each level leads through the nodes that reach it, in the order of the prices,
\* leaving none out, whatever heights randomLevel has returned (LevelsThreadTheList).
THEOREM LevelsStayThreaded == Spec => []LevelsThreadTheList
<1>1. SInv => LevelsThreadTheList
  BY DEF SInv
<1>2. QED
  BY <1>1, SkipListInvariance, PTL

\* Search finds a level at a price if and only if one compares equal to it, though it
\* stops at the first equal node on any level, and Delete finds every level by its own
\* price, though it compares more strictly than Search (SearchFinds).
THEOREM SearchesFind == Spec => []SearchFinds
<1>1. SInv => SearchFinds
  <2> SUFFICES ASSUME SInv PROVE SearchFinds
    OBVIOUS
  <2>1. ASSUME NEW k \in Keys
        PROVE  LET equal == {n \in Listed : Near(key[n], k)}
               IN  IF equal = {} THEN Search(k) = Nil ELSE Search(k) \in equal
    <3>1. SkipListAssumption /\ k \in Int
      BY SkipListAssumption, Order
    <3>2. EqualTo(k) = {n \in Listed : Near(key[n], k)}
      BY DEF EqualTo
    <3>3. Search(k) \in EqualTo(k) \/ (Search(k) = Nil /\ EqualTo(k) = {})
      BY <3>1, SearchResult
    <3>4. QED
      BY <3>2, <3>3
  <2>2. ASSUME NEW n \in Listed PROVE Target(key[n]) = n
    <3>1. key[n] \in Int
      BY SkipListAssumption, ListFacts
    <3>2. QED
      BY <3>1, SkipListAssumption, TargetResult
  <2>3. QED
    BY <2>1, <2>2 DEF SearchFinds
<1>2. QED
  BY <1>1, SkipListInvariance, PTL

\* Seen from the book the list is a set of prices: an addition adds its price and
\* loses none, and a deletion takes away one price, strictly nearer than the tolerance
\* to the one asked for, and no other (OperationsOfASet).
THEOREM OperatesAsASet == Spec => OperationsOfASet
<1>1. ASSUME SInv, NEW k \in Keys, Add(k) PROVE PriceSet' = PriceSet \cup {k}
  <2>1. PICK n \in Nodes, h \in Heights : Insert(n, k, h)
    BY <1>1 DEF Add
  <2>2. /\ n \notin Listed /\ Listed' = Listed \cup {n} /\ key'[n] = k
        /\ \A m \in Nodes \ {n} : key'[m] = key[m]
    BY <1>1, <2>1, SkipListAssumption, InsertedOn
  <2>3. \A m \in Listed : key'[m] = key[m]
    BY <1>1, <2>2, SkipListAssumption, ListFacts
  <2>4. PriceSet' = {key'[m] : m \in Listed'}
    BY DEF PriceSet
  <2>5. QED
    BY <2>2, <2>3, <2>4 DEF PriceSet
<1>2. ASSUME SInv, NEW k \in Keys, Delete(k)
      PROVE  \E p \in PriceSet : StrictlyNear(p, k) /\ PriceSet' = PriceSet \ {p}
  <2>1. PICK x : x = Target(k)
    OBVIOUS
  <2>2. x # Nil /\ key' = [key EXCEPT ![x] = 0] /\ height' = [height EXCEPT ![x] = 0]
    BY <1>2, <2>1 DEF Delete
  <2>3. x \in Listed /\ Near(key[x], k)
    BY <1>2, <2>1, <2>2, SkipListAssumption, DeletedIsNext, Order
  <2>4. Listed' = Listed \ {x} /\ \A m \in Nodes \ {x} : key'[m] = key[m]
    BY <1>2, <2>2, <2>3, SkipListAssumption, DeletedOn
  <2>5. \A m \in Listed \ {x} : key'[m] = key[m] /\ key[m] # key[x]
    <3>1. \A m \in Listed : m \in Nodes /\ key[m] \in Int
      BY <1>2, SkipListAssumption, ListFacts
    <3>2. \A m \in Listed \ {x} : ~Near(key[m], key[x])
      BY <1>2, <2>3 DEF SInv, PricesApart
    <3>3. QED
      BY <2>3, <2>4, <3>1, <3>2, SkipListAssumption, Order
  <2>6. PriceSet' = {key'[m] : m \in Listed'}
    BY DEF PriceSet
  <2>7. key[x] \in PriceSet /\ PriceSet' = PriceSet \ {key[x]}
    BY <2>3, <2>4, <2>5, <2>6 DEF PriceSet
  <2>8. StrictlyNear(key[x], k)
    BY <2>1, <2>2 DEF Target
  <2>9. QED
    BY <2>7, <2>8
<1>3. SInv => [\A k \in Keys :
                 /\ Add(k) => PriceSet' = PriceSet \cup {k}
                 /\ Delete(k) => \E p \in PriceSet :
                                    StrictlyNear(p, k) /\ PriceSet' = PriceSet \ {p}]_vars
  BY <1>1, <1>2
<1>4. QED
  BY <1>3, SkipListInvariance, PTL DEF OperationsOfASet

=================================================================================

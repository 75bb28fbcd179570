-------------------------------- MODULE SkipList --------------------------------
(***************************************************************************)
(* engine/skiplist.go: the list of price levels of one side of the book, as*)
(* OrderBook uses it.  AddOrder searches a price and inserts a node only if*)
(* none is found, matchOrders deletes one, and both run under the lock of  *)
(* the book, so an operation is one step.                                  *)
(*                                                                         *)
(* Every node has score 0, so nodes compare by their keys.  Keys at most   *)
(* 1e-8 apart (Epsilon here) compare equal where a search looks for one,   *)
(* but Delete wants them less than 1e-8 apart: at exactly 1e-8 Search finds*)
(* a node that Delete does not.                                            *)
(***************************************************************************)
EXTENDS Integers, FiniteSets

CONSTANTS
    Nodes,      \* nodes that may be allocated
    Header,     \* the list's header
    Nil,        \* the nil pointer
    Keys,       \* prices, in units finer than Epsilon
    Epsilon,    \* keys at most this far apart compare equal
    MaxHeight,  \* the greatest height randomLevel returns: 5 in the code
    Reverse     \* the argument of NewSkipList: TRUE for the bids

ASSUME SkipListAssumption ==
    /\ Keys \subseteq Int
    /\ Epsilon \in Nat \ {0}
    /\ MaxHeight \in Nat \ {0}
    /\ Reverse \in BOOLEAN
    /\ Header \notin Nodes /\ Nil \notin Nodes \cup {Header}

VARIABLES
    key,      \* the key of each node
    height,   \* the length of each node's Forward; 0: not in the list
    forward,  \* the forward pointers, by level
    top,      \* SkipList.Level
    size      \* SkipList.Size

vars == <<key, height, forward, top, size>>

Places == Nodes \cup {Header}
Heights == 1..MaxHeight
Listed == {n \in Nodes : height[n] > 0}

\* compare(a, b) = 0.
Near(a, b) == a - b <= Epsilon /\ b - a <= Epsilon

\* What Delete asks of the node it has come to: strictly less than compare does.
StrictlyNear(a, b) == a - b < Epsilon /\ b - a < Epsilon

\* compare(a, b) > 0: key a belongs behind key b.
After(a, b) == ~Near(a, b) /\ (IF Reverse THEN a > b ELSE b > a)

\* Where the walk of Insert and Delete for k ends that starts at x on level i.
WalkEnd(i, k, x) ==
    LET walk[y \in Places] ==
            LET next == forward[i][y]
            IN  IF next # Nil /\ After(k, key[next]) THEN walk[next] ELSE y
    IN  walk[x]

\* Mutant: the walk does not happen.
UpdateFromHeader(k) == [i \in Heights |-> Header]

\* The predecessors of k that Insert and Delete collect on their way down.
Update(k) ==
    LET update[i \in Heights] ==
            IF i > top THEN Header
            ELSE WalkEnd(i, k, IF i = top THEN Header ELSE update[i + 1])
    IN  update

\* Mutant: the walk does not go down a level.
SearchTop(k) ==
    LET x == forward[top][WalkEnd(top, k, Header)]
    IN  IF x # Nil /\ Near(key[x], k) THEN x ELSE Nil

\* Search stops at the first equal node it meets, on any level: at <<i, x>> it has
\* come to x on level i.
Search(k) ==
    LET search[at \in (0..MaxHeight) \X Places] ==
            LET i == at[1]
                x == at[2]
                next == forward[i][x]
            IN  IF i = 0 THEN Nil
                ELSE IF next = Nil \/ After(key[next], k) THEN search[<<i - 1, x>>]
                ELSE IF After(k, key[next]) THEN search[<<i, next>>]
                ELSE next
    IN  search[<<top, Header>>]

-----------------------------------------------------------------------------

Init ==
    /\ key = [n \in Nodes |-> 0]
    /\ height = [n \in Nodes |-> 0]
    /\ forward = [i \in Heights |-> [x \in Places |-> Nil]]
    /\ top = 1
    /\ size = 0

\* Insert with the random height h.
Insert(n, k, h) ==
    LET update == Update(k)
    IN  /\ n \notin Listed
        /\ key' = [key EXCEPT ![n] = k]
        /\ height' = [height EXCEPT ![n] = h]
        /\ forward' = [i \in Heights |->
               IF i <= h
               THEN [forward[i] EXCEPT ![update[i]] = n, ![n] = forward[i][update[i]]]
               ELSE forward[i]]
        /\ top' = IF h > top THEN h ELSE top
        /\ size' = size + 1

\* Mutant: the order's price is inserted without looking for it.
AddUnsearched(k) == \E n \in Nodes, h \in Heights : Insert(n, k, h)

\* AddOrder: an order whose price is found joins that level.
Add(k) ==
    /\ Search(k) = Nil
    /\ \E n \in Nodes, h \in Heights : Insert(n, k, h)

\* The levels above 1 that point to no node are given up.
TopOf(pointers) ==
    CHOOSE t \in 1..top :
        /\ t = 1 \/ pointers[t][Header] # Nil
        /\ \A i \in t + 1..top : pointers[i][Header] = Nil

\* Mutant: Level stays where it was.
UnlinkKeepTop(x, update) ==
    /\ forward' = [i \in Heights |->
           IF forward[i][update[i]] = x
           THEN [forward[i] EXCEPT ![update[i]] = forward[i][x], ![x] = Nil]
           ELSE forward[i]]
    /\ top' = top

\* The pointers to x become its own, up to the first level that does not have it.
Unlink(x, update) ==
    /\ forward' = [i \in Heights |->
           IF \A j \in 1..i : forward[j][update[j]] = x
           THEN [forward[i] EXCEPT ![update[i]] = forward[i][x], ![x] = Nil]
           ELSE forward[i]]
    /\ top' = TopOf(forward')

\* Mutant: whatever follows the predecessors of k.
Follower(k) == forward[1][Update(k)[1]]

\* The node Delete deletes: the first behind the predecessors of k, if it is near.
Target(k) ==
    LET x == forward[1][Update(k)[1]]
    IN  IF x # Nil /\ StrictlyNear(key[x], k) THEN x ELSE Nil

\* Delete; a deleted node returns to the pool.
Delete(k) ==
    LET x == Target(k)
    IN  /\ x # Nil
        /\ Unlink(x, Update(k))
        /\ key' = [key EXCEPT ![x] = 0]
        /\ height' = [height EXCEPT ![x] = 0]
        /\ size' = size - 1

Next == \E k \in Keys : Add(k) \/ Delete(k)

Spec == Init /\ [][Next]_vars

-----------------------------------------------------------------------------
(* Properties *)

\* Every variable has its type, Level is the height of the highest node and
\* Size is the number of nodes.
TypeOK ==
    /\ key \in [Nodes -> Keys \cup {0}]
    /\ height \in [Nodes -> 0..MaxHeight]
    /\ forward \in [Heights -> [Places -> Nodes \cup {Nil}]]
    /\ top \in Heights
    /\ \A n \in Listed : height[n] <= top
    /\ top = 1 \/ \E n \in Listed : height[n] = top
    /\ size = Cardinality(Listed)

\* Orders at one price share a level: no two nodes compare equal.
PricesApart == \A m, n \in Listed : m # n => ~Near(key[m], key[n])

\* n comes behind x in the list.
Behind(n, x) == x = Header \/ After(key[n], key[x])

\* On each level the list threads the nodes that reach it, each to the next in
\* the order of the keys, and skips none: what matchOrders takes from Min, what
\* GetDepth walks and what searches skip over agree.
LevelsThreadTheList ==
    \A i \in Heights : \A x \in {Header} \cup {n \in Listed : height[n] >= i} :
        LET rest == {n \in Listed : height[n] >= i /\ Behind(n, x)}
        IN  IF rest = {}
            THEN forward[i][x] = Nil
            ELSE forward[i][x] \in rest
                 /\ \A n \in rest \ {forward[i][x]} : After(key[n], key[forward[i][x]])

\* Search finds a level at a price if one compares equal to it, and Delete finds a
\* level by the level's own price, as matchOrders asks it to, whatever heights the
\* random numbers gave the nodes.  By another price Delete may miss what Search finds.
SearchFinds ==
    /\ \A k \in Keys :
          LET equal == {n \in Listed : Near(key[n], k)}
          IN  IF equal = {} THEN Search(k) = Nil ELSE Search(k) \in equal
    /\ \A n \in Listed : Target(key[n]) = n

\* The list as a set of prices: adding a price adds it alone, and deleting one
\* deletes one price that is strictly nearer to it than the tolerance and no other.
PriceSet == {key[n] : n \in Listed}
OperationsOfASet ==
    [][\A k \in Keys :
          /\ Add(k) => PriceSet' = PriceSet \cup {k}
          /\ Delete(k) => \E p \in PriceSet :
                             StrictlyNear(p, k) /\ PriceSet' = PriceSet \ {p}]_vars

=================================================================================

------------------------- MODULE FilterTree_proofs -------------------------
(***************************************************************************)
(* Proofs about the tree of filters (module FilterTree), for every number  *)
(* of filters, every set of handlers and all state files.                  *)
(*                                                                         *)
(* The first part is facts about its operators, for every sequence of      *)
(* nodes: where a subtree ends, what is inserted and erased where, what a  *)
(* moved branch comes to, which cells clones get, and what the two         *)
(* recursive functions return; what forest of filters a sequence stands    *)
(* for, and what an edit does to it; and which caches an edit or a refresh *)
(* leaves that are what their filters put out.  That a recursive function  *)
(* satisfies its equation is proved from the least number of places for    *)
(* which it would not.  The second part is the invariants.                 *)
(***************************************************************************)
EXTENDS FilterTree, FiniteSetTheorems, SequenceTheorems, WellFoundedInduction, TLAPS

-----------------------------------------------------------------------------
(* Facts about the operators *)

\* The least number of a set.
LEMMA MinFacts ==
    ASSUME NEW S, S \subseteq Nat, S # {}
    PROVE  Min(S) \in S /\ \A x \in S : Min(S) <= x
<1> DEFINE R == OpToRel(<, Nat)
<1>1. IsWellFoundedOn(R, Nat)
  BY NatLessThanWellFounded
<1>2. \A x, y \in Nat : x < y => <<x, y>> \in R
  BY DEF OpToRel
<1> HIDE DEF R
<1>3. PICK m \in S : \A y \in S : ~(<<y, m>> \in R)
  BY <1>1, WFMin
<1>4. \A y \in S : m <= y
  <2>1. SUFFICES ASSUME NEW y \in S, ~(m <= y) PROVE FALSE
    OBVIOUS
  <2>2. y < m
    BY <2>1
  <2>3. QED
    BY <1>2, <1>3, <2>2
<1>5. QED
  BY <1>4 DEF Min

\* The greatest number of a bounded set.
LEMMA MaxFacts ==
    ASSUME NEW n \in Nat, NEW S, S \subseteq 0..n, S # {}
    PROVE  Max(S) \in S /\ \A x \in S : x <= Max(S)
<1> DEFINE T == {n - x : x \in S}
<1>1. T \subseteq Nat
  OBVIOUS
<1>0. T # {}
  <2>1. PICK y \in S : TRUE
    OBVIOUS
  <2>2. n - y \in T
    OBVIOUS
  <2>3. QED
    BY <2>2
<1>2. Min(T) \in T /\ \A x \in T : Min(T) <= x
  BY <1>0, <1>1, MinFacts
<1>3. PICK m \in S : Min(T) = n - m
  BY <1>2
<1>4. ASSUME NEW y \in S PROVE m >= y
  <2>1. n - m <= n - y
    BY <1>2, <1>3
  <2>2. QED
    BY <2>1
<1>5. QED
  BY <1>4 DEF Max

-----------------------------------------------------------------------------
(* Trees *)

Row == [cell : Cells \cup {Null}, kind : AllKinds, prop : Props, depth : Nat,
        cache : Seq(Cells \X Props)]

\* Nodes in pre-order.
IsTree(t) == t \in Seq(Row) /\ PreOrder(t)

\* A tree is a finite sequence of nodes.
LEMMA RowFacts ==
    ASSUME NEW t \in Seq(Row)
    PROVE  /\ Len(t) \in Nat /\ DOMAIN t = 1..Len(t)
           /\ \A i \in 1..Len(t) : t[i] \in Row /\ t[i].depth \in Nat
<1>1. Len(t) \in Nat /\ DOMAIN t = 1..Len(t) /\ \A i \in 1..Len(t) : t[i] \in Row
  OBVIOUS
<1>2. \A r \in Row : r.depth \in Nat
  BY DEF Row
<1>3. QED
  BY <1>1, <1>2

\* Where a subtree ends.
LEMMA LastOfFacts ==
    ASSUME NEW t \in Seq(Row), NEW i \in 1..Len(t)
    PROVE  /\ LastOf(t, i) \in i..Len(t)
           /\ \A k \in (i + 1)..LastOf(t, i) : t[k].depth > t[i].depth
           /\ LastOf(t, i) < Len(t) => t[LastOf(t, i) + 1].depth <= t[i].depth
<1> DEFINE S == {j \in i..Len(t) : \A k \in (i + 1)..j : t[k].depth > t[i].depth}
<1>1. Len(t) \in Nat /\ i \in Nat /\ i >= 1 /\ i <= Len(t) /\ \A k \in 1..Len(t) : t[k].depth \in Nat
  BY RowFacts
<1>2. S \subseteq 0..Len(t) /\ S # {}
  <2>1. i \in S
    BY <1>1
  <2>2. QED
    BY <1>1, <2>1
<1>3. Max(S) \in S /\ \A x \in S : x <= Max(S)
  <2> HIDE DEF S
  <2>1. QED
    BY <1>1, <1>2, MaxFacts
<1>4. LastOf(t, i) = Max(S)
  BY DEF LastOf
<1> DEFINE l == LastOf(t, i)
<1>5. l \in S /\ \A x \in S : x <= l
  BY <1>3, <1>4
<1> HIDE DEF l
<1>6. l \in i..Len(t) /\ \A k \in (i + 1)..l : t[k].depth > t[i].depth
  BY <1>5
<1>7. ASSUME l < Len(t), ~(t[l + 1].depth <= t[i].depth) PROVE FALSE
  <2>1. l \in Nat /\ l + 1 \in i..Len(t) /\ l + 1 \in 1..Len(t)
    BY <1>1, <1>6, <1>7
  <2>2. t[l + 1].depth > t[i].depth
    BY <1>1, <1>7, <2>1
  <2>3. \A k \in (i + 1)..(l + 1) : t[k].depth > t[i].depth
    <3>1. TAKE k \in (i + 1)..(l + 1)
    <3>2. k \in (i + 1)..l \/ k = l + 1
      BY <1>1, <2>1
    <3>3. QED
      BY <1>6, <2>2, <3>2
  <2>4. l + 1 \in S
    BY <2>1, <2>3
  <2>5. QED
    BY <1>5, <2>1, <2>4
<1>8. QED
  BY <1>6, <1>7 DEF l

\* The nodes of s are those of t from i to l, of which the first is the root.
IsBranch(s, t, i, l) ==
    /\ Len(s) = l - i + 1 /\ Len(s) >= 1
    /\ \A k \in 1..Len(s) :
           /\ i + k - 1 \in i..l /\ i + k - 1 \in 1..Len(t)
           /\ s[k] = [t[i + k - 1] EXCEPT !.depth = @ - t[i].depth]
           /\ s[k].cell = t[i + k - 1].cell
           /\ s[k].kind = t[i + k - 1].kind
           /\ s[k].depth = t[i + k - 1].depth - t[i].depth
           /\ k > 1 => s[k].depth >= 1
    /\ s[1].depth = 0

\* A branch taken out (Subtree, tree.hh's subtree) is a tree with the same nodes, at depths
\* counted from its root.
LEMMA SubtreeFacts ==
    ASSUME NEW t, IsTree(t), NEW i \in 1..Len(t)
    PROVE  IsTree(Subtree(t, i)) /\ IsBranch(Subtree(t, i), t, i, LastOf(t, i))
<1> DEFINE s == Subtree(t, i)
           l == LastOf(t, i)
<1>1. t \in Seq(Row) /\ Len(t) \in Nat /\ DOMAIN t = 1..Len(t)
      /\ \A k \in 1..Len(t) : t[k] \in Row /\ t[k].depth \in Nat
  BY RowFacts DEF IsTree
<1>2. /\ l \in i..Len(t)
      /\ \A k \in (i + 1)..l : t[k].depth > t[i].depth
  BY <1>1, LastOfFacts
<1>3. s = [k \in 1..(l - i + 1) |-> [t[i + k - 1] EXCEPT !.depth = @ - t[i].depth]]
  BY DEF Subtree
<1> HIDE DEF l, s
<1>4. l - i + 1 \in Nat /\ l - i + 1 >= 1
  BY <1>1, <1>2
<1>5. ASSUME NEW k \in 1..(l - i + 1)
      PROVE  /\ i + k - 1 \in i..l /\ i + k - 1 \in 1..Len(t)
             /\ t[i + k - 1].depth - t[i].depth \in Nat
             /\ k > 1 => t[i + k - 1].depth - t[i].depth >= 1
  <2>1. i + k - 1 \in i..l /\ i + k - 1 \in 1..Len(t)
    BY <1>1, <1>2
  <2>2. k > 1 => i + k - 1 \in (i + 1)..l
    BY <1>1, <1>2
  <2>3. k = 1 => i + k - 1 = i
    OBVIOUS
  <2>4. t[i + k - 1].depth \in Nat /\ t[i].depth \in Nat
    BY <1>1, <2>1
  <2>5. QED
    BY <1>2, <2>1, <2>2, <2>3, <2>4
<1>6. ASSUME NEW k \in 1..(l - i + 1)
      PROVE  /\ s[k] = [t[i + k - 1] EXCEPT !.depth = @ - t[i].depth]
             /\ s[k] \in Row
             /\ s[k].cell = t[i + k - 1].cell
             /\ s[k].kind = t[i + k - 1].kind
             /\ s[k].depth = t[i + k - 1].depth - t[i].depth
  <2>1. s[k] = [t[i + k - 1] EXCEPT !.depth = @ - t[i].depth]
    BY <1>3
  <2>2. t[i + k - 1] \in Row
    BY <1>1, <1>5
  <2>3. QED
    BY <2>1, <2>2, <1>5 DEF Row
<1>7. s \in Seq(Row) /\ Len(s) = l - i + 1 /\ DOMAIN s = 1..(l - i + 1)
  <2>1. s = [k \in 1..(l - i + 1) |-> s[k]]
    BY <1>3
  <2>2. \A k \in 1..(l - i + 1) : s[k] \in Row
    BY <1>6
  <2>3. s \in [1..(l - i + 1) -> Row]
    BY <2>1, <2>2
  <2>4. QED
    BY <1>4, <2>3
<1>8. s[1].depth = 0
  <2>1. 1 \in 1..(l - i + 1) /\ i + 1 - 1 = i /\ t[i].depth \in Nat
    BY <1>1, <1>4
  <2>2. s[1].depth = t[i + 1 - 1].depth - t[i].depth
    BY <1>6, <2>1
  <2>3. QED
    BY <2>1, <2>2
<1>9. PreOrder(s)
  <2>1. SUFFICES ASSUME NEW k \in 1..(l - i + 1), k # 1
                 PROVE  s[k].depth <= s[k - 1].depth + 1
    BY <1>7, <1>8 DEF PreOrder
  <2>2. k - 1 \in 1..(l - i + 1) /\ i + k - 1 \in 1..Len(t) /\ i + k - 1 # 1 /\ i + (k - 1) - 1 = (i + k - 1) - 1
    BY <1>1, <1>4, <1>5, <2>1
  <2>3. t[i + k - 1].depth <= t[i + (k - 1) - 1].depth + 1
    <3>1. t[i + k - 1].depth <= t[(i + k - 1) - 1].depth + 1
      BY <2>2, <1>1 DEF IsTree, PreOrder
    <3>2. QED
      BY <2>2, <3>1
  <2>4. s[k].depth = t[i + k - 1].depth - t[i].depth /\ s[k - 1].depth = t[i + (k - 1) - 1].depth - t[i].depth
    BY <1>6, <2>2
  <2>5. t[i + (k - 1) - 1].depth \in Nat /\ t[i + k - 1].depth \in Nat /\ t[i].depth \in Nat
    BY <1>1, <1>5, <2>2
  <2> DEFINE x == t[i + k - 1].depth
             y == t[i + (k - 1) - 1].depth
             z == t[i].depth
  <2>6. x \in Nat /\ y \in Nat /\ z \in Nat /\ x <= y + 1 /\ s[k].depth = x - z /\ s[k - 1].depth = y - z
    BY <2>3, <2>4, <2>5
  <2> HIDE DEF x, y, z
  <2>7. QED
    BY <2>6
<1>10. IsTree(s)
  BY <1>7, <1>9 DEF IsTree
<1>11. ASSUME NEW k \in 1..Len(s), k > 1 PROVE s[k].depth >= 1
  BY <1>5, <1>6, <1>7, <1>11
<1>12. IsBranch(s, t, i, l)
  BY <1>4, <1>5, <1>6, <1>7, <1>8, <1>11 DEF IsBranch
<1>13. QED
  BY <1>10, <1>12 DEF s, l

\* The nodes of x are those of t, with those of s put in behind at, d deeper.
IsInsert(x, t, s, at, d) ==
    /\ x \in Seq(Row) /\ Len(x) = Len(t) + Len(s)
    /\ \A k \in 1..at : x[k] = t[k]
    /\ \A k \in 1..Len(s) : /\ x[at + k] = [s[k] EXCEPT !.depth = @ + d]
                            /\ x[at + k].cell = s[k].cell
                            /\ x[at + k].kind = s[k].kind
                            /\ x[at + k].depth = s[k].depth + d
    /\ \A k \in (at + 1)..Len(t) : x[k + Len(s)] = t[k]

\* What Insert leaves at each place.
LEMMA InsertNodes ==
    ASSUME NEW t \in Seq(Row), NEW s \in Seq(Row), NEW at \in 0..Len(t), NEW d \in Nat
    PROVE  IsInsert(Insert(t, at, s, d), t, s, at, d)
<1> DEFINE a == SubSeq(t, 1, at)
           b == [k \in DOMAIN s |-> [s[k] EXCEPT !.depth = @ + d]]
           c == SubSeq(t, at + 1, Len(t))
           x == (a \o b) \o c
<1>1. /\ Len(t) \in Nat /\ Len(s) \in Nat /\ at \in Nat /\ at <= Len(t) /\ DOMAIN s = 1..Len(s)
      /\ \A k \in 1..Len(t) : t[k] \in Row
      /\ \A k \in 1..Len(s) : s[k] \in Row /\ s[k].depth \in Nat
  BY RowFacts
<1>2. a \in Seq(Row) /\ Len(a) = at /\ \A k \in 1..at : a[k] = t[k]
  BY <1>1
<1>3. c \in Seq(Row) /\ Len(c) = Len(t) - at /\ \A k \in 1..(Len(t) - at) : c[k] = t[at + k]
  BY <1>1
<1>4. ASSUME NEW k \in 1..Len(s)
      PROVE  /\ b[k] \in Row
             /\ b[k] = [s[k] EXCEPT !.depth = @ + d]
             /\ b[k].cell = s[k].cell /\ b[k].kind = s[k].kind /\ b[k].depth = s[k].depth + d
  <2>1. s[k].depth + d \in Nat
    BY <1>1
  <2>2. b[k] = [s[k] EXCEPT !.depth = @ + d]
    BY <1>1
  <2>3. QED
    BY <1>1, <2>1, <2>2 DEF Row
<1>5. b \in Seq(Row) /\ Len(b) = Len(s)
  <2>1. \A k \in 1..Len(s) : b[k] \in Row
    BY <1>4
  <2>2. b = [k \in 1..Len(s) |-> b[k]]
    BY <1>1
  <2> HIDE DEF b
  <2>3. b \in [1..Len(s) -> Row]
    BY <2>1, <2>2
  <2>4. QED
    BY <1>1, <2>3
<1> HIDE DEF a, b, c
<1>6. /\ a \o b \in Seq(Row) /\ Len(a \o b) = at + Len(s)
      /\ \A k \in 1..(at + Len(s)) : (a \o b)[k] = IF k <= at THEN a[k] ELSE b[k - at]
  <2>1. a \o b \in Seq(Row) /\ Len(a \o b) = Len(a) + Len(b)
    BY <1>2, <1>5, ConcatProperties
  <2>2. \A k \in 1..(Len(a) + Len(b)) : (a \o b)[k] = IF k <= Len(a) THEN a[k] ELSE b[k - Len(a)]
    BY <1>2, <1>5, ConcatProperties
  <2>3. QED
    BY <1>2, <1>5, <2>1, <2>2
<1>7. /\ x \in Seq(Row) /\ Len(x) = Len(t) + Len(s)
      /\ \A k \in 1..(Len(t) + Len(s)) :
             x[k] = IF k <= at + Len(s) THEN (a \o b)[k] ELSE c[k - (at + Len(s))]
  <2>1. x \in Seq(Row) /\ Len(x) = Len(a \o b) + Len(c)
    BY <1>3, <1>6, ConcatProperties
  <2>2. \A k \in 1..(Len(a \o b) + Len(c)) :
            x[k] = IF k <= Len(a \o b) THEN (a \o b)[k] ELSE c[k - Len(a \o b)]
    BY <1>3, <1>6, ConcatProperties
  <2>3. Len(a \o b) + Len(c) = Len(t) + Len(s)
    BY <1>1, <1>3, <1>6
  <2>4. QED
    BY <1>6, <2>1, <2>2, <2>3
<1>8. x = Insert(t, at, s, d)
  BY DEF Insert, a, b, c
<1> HIDE DEF x
<1>9. ASSUME NEW k \in 1..at PROVE x[k] = t[k]
  <2>1. k \in 1..(at + Len(s)) /\ k \in 1..(Len(t) + Len(s)) /\ k <= at + Len(s) /\ k <= at
    BY <1>1
  <2>2. x[k] = (a \o b)[k] /\ (a \o b)[k] = a[k]
    BY <1>6, <1>7, <2>1
  <2>3. QED
    BY <1>2, <2>2
<1>10. ASSUME NEW k \in 1..Len(s) PROVE x[at + k] = b[k]
  <2>1. /\ at + k \in 1..(at + Len(s)) /\ at + k \in 1..(Len(t) + Len(s)) /\ at + k <= at + Len(s)
        /\ ~(at + k <= at) /\ (at + k) - at = k
    BY <1>1
  <2>2. x[at + k] = (a \o b)[at + k]
    BY <1>7, <2>1
  <2>3. (a \o b)[at + k] = b[(at + k) - at]
    BY <1>6, <2>1
  <2>4. QED
    BY <2>1, <2>2, <2>3
<1>11. ASSUME NEW k \in (at + 1)..Len(t) PROVE x[k + Len(s)] = t[k]
  <2>1. /\ k + Len(s) \in 1..(Len(t) + Len(s)) /\ ~(k + Len(s) <= at + Len(s))
        /\ (k + Len(s)) - (at + Len(s)) = k - at /\ k - at \in 1..(Len(t) - at) /\ at + (k - at) = k
    BY <1>1
  <2>2. x[k + Len(s)] = c[(k + Len(s)) - (at + Len(s))]
    BY <1>7, <2>1
  <2>3. c[k - at] = t[at + (k - at)]
    BY <1>3, <2>1
  <2>4. QED
    BY <2>1, <2>2, <2>3
<1>12. IsInsert(x, t, s, at, d)
  BY <1>4, <1>7, <1>9, <1>10, <1>11 DEF IsInsert
<1>13. QED
  BY <1>8, <1>12

\* Whatever is in the tree with another put in was in one of them.
LEMMA InsertCells ==
    ASSUME NEW t \in Seq(Row), NEW s \in Seq(Row), NEW at \in 0..Len(t), NEW d \in Nat
    PROVE  /\ CellsOf(Insert(t, at, s, d)) = CellsOf(t) \cup CellsOf(s)
           /\ \A j \in 1..Len(Insert(t, at, s, d)) :
                  \/ j \in 1..at
                  \/ \E k \in 1..Len(s) : j = at + k
                  \/ \E k \in (at + 1)..Len(t) : j = k + Len(s)
<1> DEFINE x == Insert(t, at, s, d)
<1>1. /\ Len(t) \in Nat /\ Len(s) \in Nat /\ at \in Nat /\ at <= Len(t)
      /\ DOMAIN s = 1..Len(s) /\ DOMAIN t = 1..Len(t)
  BY RowFacts
<1>2. /\ x \in Seq(Row) /\ Len(x) = Len(t) + Len(s) /\ DOMAIN x = 1..Len(x)
      /\ \A k \in 1..at : x[k] = t[k]
      /\ \A k \in 1..Len(s) : x[at + k].cell = s[k].cell
      /\ \A k \in (at + 1)..Len(t) : x[k + Len(s)] = t[k]
  <2>1. IsInsert(x, t, s, at, d)
    BY InsertNodes
  <2> HIDE DEF x
  <2>2. QED
    BY <2>1, RowFacts DEF IsInsert
<1> HIDE DEF x
<1>3. ASSUME NEW j \in 1..Len(x)
      PROVE  \/ j \in 1..at
             \/ \E k \in 1..Len(s) : j = at + k
             \/ \E k \in (at + 1)..Len(t) : j = k + Len(s)
  <2>1. CASE j <= at
    BY <1>1, <2>1
  <2>2. CASE j > at /\ j <= at + Len(s)
    <3>1. j - at \in 1..Len(s) /\ j = at + (j - at)
      BY <1>1, <1>2, <2>2
    <3>2. QED
      BY <3>1
  <2>3. CASE j > at + Len(s)
    <3>1. j - Len(s) \in (at + 1)..Len(t) /\ j = (j - Len(s)) + Len(s)
      BY <1>1, <1>2, <2>3
    <3>2. QED
      BY <3>1
  <2>4. QED
    BY <1>1, <2>1, <2>2, <2>3
<1>4. ASSUME NEW c \in CellsOf(x) PROVE c \in CellsOf(t) \cup CellsOf(s)
  <2>1. PICK j \in 1..Len(x) : c = x[j].cell
    BY <1>2 DEF CellsOf
  <2>2. CASE j \in 1..at
    <3>1. c = t[j].cell /\ j \in 1..Len(t)
      BY <1>1, <1>2, <2>1, <2>2
    <3>2. QED
      BY <1>1, <3>1 DEF CellsOf
  <2>3. CASE \E k \in 1..Len(s) : j = at + k
    BY <1>1, <1>2, <2>1, <2>3 DEF CellsOf
  <2>4. CASE \E k \in (at + 1)..Len(t) : j = k + Len(s)
    <3>1. PICK k \in (at + 1)..Len(t) : j = k + Len(s)
      BY <2>4
    <3>2. c = t[k].cell /\ k \in 1..Len(t)
      BY <1>1, <1>2, <2>1, <3>1
    <3>3. QED
      BY <1>1, <3>2 DEF CellsOf
  <2>5. QED
    BY <1>3, <2>2, <2>3, <2>4
<1>5. ASSUME NEW k \in 1..Len(t) PROVE t[k].cell \in CellsOf(x)
  <2>1. CASE k <= at
    <3>1. k \in 1..at /\ k \in 1..Len(x)
      BY <1>1, <1>2, <2>1
    <3>2. QED
      BY <1>2, <3>1 DEF CellsOf
  <2>2. CASE k > at
    <3>1. k \in (at + 1)..Len(t) /\ k + Len(s) \in 1..Len(x)
      BY <1>1, <1>2, <2>2
    <3>2. x[k + Len(s)] = t[k]
      BY <1>2, <3>1
    <3>3. QED
      BY <1>2, <3>1, <3>2 DEF CellsOf
  <2>3. QED
    BY <1>1, <2>1, <2>2
<1>6. ASSUME NEW k \in 1..Len(s) PROVE s[k].cell \in CellsOf(x)
  <2>1. at + k \in 1..Len(x) /\ x[at + k].cell = s[k].cell
    BY <1>1, <1>2
  <2>2. QED
    BY <1>2, <2>1 DEF CellsOf
<1>7. CellsOf(x) = CellsOf(t) \cup CellsOf(s)
  <2>1. CellsOf(t) = {t[k].cell : k \in 1..Len(t)} /\ CellsOf(s) = {s[k].cell : k \in 1..Len(s)}
    BY <1>1 DEF CellsOf
  <2>2. CellsOf(t) \cup CellsOf(s) \subseteq CellsOf(x)
    BY <1>5, <1>6, <2>1
  <2>3. QED
    BY <1>4, <2>2
<1>8. QED
  BY <1>3, <1>7 DEF x

\* A tree put in where its root may be keeps the order.
LEMMA InsertIsTree ==
    ASSUME NEW t, IsTree(t), NEW s, IsTree(s), NEW at \in 0..Len(t), NEW d \in Nat,
           d <= (IF at = 0 THEN 0 ELSE t[at].depth + 1),
           at < Len(t) => t[at + 1].depth <= d
    PROVE  IsTree(Insert(t, at, s, d))
<1> DEFINE x == Insert(t, at, s, d)
<1>1. /\ t \in Seq(Row) /\ s \in Seq(Row)
      /\ Len(t) \in Nat /\ Len(s) \in Nat /\ at \in Nat /\ at <= Len(t)
      /\ DOMAIN s = 1..Len(s) /\ DOMAIN t = 1..Len(t)
      /\ \A k \in 1..Len(t) : t[k].depth \in Nat
      /\ \A k \in 1..Len(s) : s[k].depth \in Nat
  BY RowFacts DEF IsTree
<1>2. /\ \A k \in 1..Len(t) : t[k].depth <= (IF k = 1 THEN 0 ELSE t[k - 1].depth + 1)
      /\ \A k \in 1..Len(s) : s[k].depth <= (IF k = 1 THEN 0 ELSE s[k - 1].depth + 1)
  BY <1>1 DEF IsTree, PreOrder
<1>3. /\ x \in Seq(Row) /\ Len(x) = Len(t) + Len(s) /\ DOMAIN x = 1..Len(x)
      /\ \A k \in 1..at : x[k] = t[k]
      /\ \A k \in 1..Len(s) : x[at + k].depth = s[k].depth + d
      /\ \A k \in (at + 1)..Len(t) : x[k + Len(s)] = t[k]
  <2>1. IsInsert(x, t, s, at, d)
    BY <1>1, InsertNodes
  <2> HIDE DEF x
  <2>2. QED
    BY <1>1, <2>1, RowFacts DEF IsInsert
<1> HIDE DEF x
<1>4. ASSUME NEW j \in 1..Len(x) PROVE x[j].depth <= (IF j = 1 THEN 0 ELSE x[j - 1].depth + 1)
  <2>1. CASE j <= at
    <3>1. j \in 1..at /\ j \in 1..Len(t) /\ (j # 1 => j - 1 \in 1..at)
      BY <1>1, <2>1
    <3>2. x[j] = t[j] /\ (j # 1 => x[j - 1] = t[j - 1])
      BY <1>3, <3>1
    <3>3. QED
      BY <1>2, <3>1, <3>2
  <2>2. CASE j = at + 1 /\ j <= at + Len(s)
    <3>1. 1 \in 1..Len(s) /\ s[1].depth = 0
      <4>1. 1 \in 1..Len(s)
        BY <1>1, <2>2
      <4>2. s[1].depth <= 0 /\ s[1].depth \in Nat
        BY <1>1, <1>2, <4>1
      <4>3. QED
        BY <4>1, <4>2
    <3>2. x[j].depth = d
      BY <1>3, <2>2, <3>1
    <3>3. CASE at = 0
      BY <2>2, <3>2, <3>3
    <3>4. CASE at # 0
      <4>1. at \in 1..at /\ j - 1 = at /\ j # 1
        BY <1>1, <2>2, <3>4
      <4>2. x[j - 1] = t[at]
        BY <1>3, <4>1
      <4>3. QED
        BY <3>2, <3>4, <4>1, <4>2
    <3>5. QED
      BY <3>3, <3>4
  <2>3. CASE j > at + 1 /\ j <= at + Len(s)
    <3>1. PICK k \in 1..Len(s) : j = at + k /\ k # 1
      <4>1. j - at \in 1..Len(s) /\ j = at + (j - at) /\ j - at # 1
        BY <1>1, <1>3, <2>3
      <4>2. QED
        BY <4>1
    <3>2. k - 1 \in 1..Len(s) /\ j - 1 = at + (k - 1) /\ j # 1
      BY <1>1, <2>3, <3>1
    <3>3. x[j].depth = s[k].depth + d /\ x[j - 1].depth = s[k - 1].depth + d
      BY <1>3, <3>1, <3>2
    <3>4. s[k].depth <= s[k - 1].depth + 1 /\ s[k].depth \in Nat /\ s[k - 1].depth \in Nat
      BY <1>1, <1>2, <3>1, <3>2
    <3>5. x[j].depth <= x[j - 1].depth + 1
      <4>1. \A p, q \in Nat : p <= q + 1 => p + d <= (q + d) + 1
        OBVIOUS
      <4>2. s[k].depth + d <= (s[k - 1].depth + d) + 1
        BY <3>4, <4>1
      <4>3. QED
        BY <3>3, <4>2
    <3>6. QED
      BY <3>2, <3>5
  <2>4. CASE j > at + Len(s)
    <3>1. PICK k \in (at + 1)..Len(t) : j = k + Len(s)
      <4>1. j - Len(s) \in (at + 1)..Len(t) /\ j = (j - Len(s)) + Len(s)
        BY <1>1, <1>3, <2>4
      <4>2. QED
        BY <4>1
    <3>2. k \in 1..Len(t) /\ x[j] = t[k]
      BY <1>1, <1>3, <3>1
    <3>3. CASE k > at + 1
      <4>1. k - 1 \in (at + 1)..Len(t) /\ j - 1 = (k - 1) + Len(s) /\ k # 1 /\ j # 1
        BY <1>1, <3>1, <3>3
      <4>2. x[j - 1] = t[k - 1]
        BY <1>3, <4>1
      <4>3. QED
        BY <1>2, <3>2, <4>1, <4>2
    <3>4. CASE k = at + 1 /\ Len(s) = 0
      <4>1. j = k /\ (k # 1 => k - 1 \in 1..at)
        BY <1>1, <3>1, <3>4
      <4>2. k # 1 => x[j - 1] = t[k - 1]
        BY <1>3, <4>1
      <4>3. QED
        BY <1>2, <3>2, <4>1, <4>2
    <3>5. CASE k = at + 1 /\ Len(s) # 0
      <4>1. Len(s) \in 1..Len(s) /\ j - 1 = at + Len(s) /\ j # 1
        BY <1>1, <3>1, <3>5
      <4>2. x[j - 1].depth = s[Len(s)].depth + d /\ s[Len(s)].depth \in Nat
        BY <1>1, <1>3, <4>1
      <4>3. t[k].depth <= d /\ t[k].depth \in Nat
        BY <1>1, <3>1, <3>2, <3>5
      <4>4. QED
        BY <3>2, <4>1, <4>2, <4>3
    <3>6. QED
      BY <1>1, <3>1, <3>3, <3>4, <3>5
  <2>5. QED
    BY <1>1, <1>3, <2>1, <2>2, <2>3, <2>4
<1>5. QED
  BY <1>3, <1>4 DEF IsTree, PreOrder, x

\* The nodes of x are those of t but for the ones from i to l.
IsErase(x, t, i, l) ==
    /\ x \in Seq(Row) /\ Len(x) = Len(t) - (l - i + 1)
    /\ \A k \in 1..(i - 1) : x[k] = t[k]
    /\ \A k \in (l + 1)..Len(t) : x[k - (l - i + 1)] = t[k]

\* What Erase leaves at each place.
LEMMA EraseNodes ==
    ASSUME NEW t \in Seq(Row), NEW i \in 1..Len(t)
    PROVE  IsErase(Erase(t, i), t, i, LastOf(t, i))
<1> DEFINE l == LastOf(t, i)
           a == SubSeq(t, 1, i - 1)
           c == SubSeq(t, l + 1, Len(t))
           x == a \o c
<1>1. /\ Len(t) \in Nat /\ i \in Nat /\ i >= 1 /\ i <= Len(t) /\ l \in i..Len(t) /\ l \in Nat
      /\ \A k \in 1..Len(t) : t[k] \in Row
  BY RowFacts, LastOfFacts
<1>2. x = Erase(t, i)
  BY DEF Erase
<1> HIDE DEF l
<1>3. a \in Seq(Row) /\ Len(a) = i - 1 /\ \A k \in 1..(i - 1) : a[k] = t[k]
  BY <1>1
<1>4. c \in Seq(Row) /\ Len(c) = Len(t) - l /\ \A k \in 1..(Len(t) - l) : c[k] = t[l + k]
  BY <1>1
<1> HIDE DEF a, c
<1>5. x \in Seq(Row) /\ Len(x) = Len(a) + Len(c)
  BY <1>3, <1>4, ConcatProperties
<1>6. \A k \in 1..(Len(a) + Len(c)) : x[k] = IF k <= Len(a) THEN a[k] ELSE c[k - Len(a)]
  BY <1>3, <1>4, ConcatProperties
<1> HIDE DEF x
<1>7. ASSUME NEW k \in 1..(i - 1) PROVE x[k] = t[k]
  <2>1. k \in 1..(Len(a) + Len(c)) /\ k <= Len(a)
    BY <1>1, <1>3, <1>4
  <2>2. x[k] = a[k]
    BY <1>6, <2>1
  <2>3. QED
    BY <1>3, <2>2
<1>8. ASSUME NEW k \in (l + 1)..Len(t) PROVE x[k - (l - i + 1)] = t[k]
  <2>1. /\ k - (l - i + 1) \in 1..(Len(a) + Len(c)) /\ ~(k - (l - i + 1) <= Len(a))
        /\ k - (l - i + 1) - Len(a) = k - l /\ k - l \in 1..(Len(t) - l) /\ l + (k - l) = k
    BY <1>1, <1>3, <1>4
  <2>2. x[k - (l - i + 1)] = c[k - (l - i + 1) - Len(a)]
    BY <1>6, <2>1
  <2>3. c[k - l] = t[l + (k - l)]
    BY <1>4, <2>1
  <2>4. QED
    BY <2>1, <2>2, <2>3
<1>9. Len(x) = Len(t) - (l - i + 1)
  BY <1>1, <1>3, <1>4, <1>5
<1>10. IsErase(x, t, i, l)
  BY <1>5, <1>7, <1>8, <1>9 DEF IsErase
<1>11. QED
  BY <1>2, <1>10 DEF l

\* Where the nodes come from that an erased branch leaves.
LEMMA EraseFrom ==
    ASSUME NEW t \in Seq(Row), NEW i \in 1..Len(t), NEW l \in i..Len(t), NEW x, IsErase(x, t, i, l),
           NEW j \in 1..Len(x)
    PROVE  \/ j \in 1..(i - 1)
           \/ \E k \in (l + 1)..Len(t) : j = k - (l - i + 1)
<1>1. Len(t) \in Nat /\ Len(x) = Len(t) - (l - i + 1) /\ Len(x) \in Nat
  BY RowFacts DEF IsErase
<1>2. CASE j <= i - 1
  BY <1>1, <1>2
<1>3. CASE ~(j <= i - 1)
  <2>1. j + (l - i + 1) \in (l + 1)..Len(t) /\ j = (j + (l - i + 1)) - (l - i + 1)
    BY <1>1, <1>3
  <2>2. QED
    BY <2>1
<1>4. QED
  BY <1>2, <1>3

\* A tree keeps its order without one of its branches, and its base what it
\* was.
LEMMA EraseIsTree ==
    ASSUME NEW t, IsTree(t), NEW i \in 1..Len(t)
    PROVE  /\ IsTree(Erase(t, i))
           /\ CellsOf(Erase(t, i)) = {t[k].cell : k \in (1..Len(t)) \ (i..LastOf(t, i))}
<1> DEFINE l == LastOf(t, i)
           x == Erase(t, i)
           m == l - i + 1
<1>1. /\ t \in Seq(Row) /\ Len(t) \in Nat /\ DOMAIN t = 1..Len(t) /\ i \in Nat /\ i >= 1 /\ i <= Len(t)
      /\ l \in i..Len(t) /\ l \in Nat
      /\ l < Len(t) => t[l + 1].depth <= t[i].depth
  BY RowFacts, LastOfFacts DEF IsTree
<1>2. \A k \in 1..Len(t) : t[k].depth <= (IF k = 1 THEN 0 ELSE t[k - 1].depth + 1) /\ t[k].depth \in Nat
  BY <1>1, RowFacts DEF IsTree, PreOrder
<1>3. IsErase(x, t, i, l)
  BY <1>1, EraseNodes
<1> HIDE DEF l, x
<1>4. /\ x \in Seq(Row) /\ Len(x) = Len(t) - m /\ Len(x) \in Nat /\ DOMAIN x = 1..Len(x)
      /\ \A k \in 1..(i - 1) : x[k] = t[k]
      /\ \A k \in (l + 1)..Len(t) : x[k - m] = t[k]
  BY <1>3, RowFacts DEF IsErase
<1>5. ASSUME NEW j \in 1..Len(x) PROVE x[j].depth <= (IF j = 1 THEN 0 ELSE x[j - 1].depth + 1)
  <2>1. CASE j \in 1..(i - 1)
    <3>1. j \in 1..Len(t) /\ (j # 1 => j - 1 \in 1..(i - 1))
      BY <1>1, <2>1
    <3>2. x[j] = t[j] /\ (j # 1 => x[j - 1] = t[j - 1])
      BY <1>4, <2>1, <3>1
    <3>3. QED
      BY <1>2, <3>1, <3>2
  <2>2. CASE \E k \in (l + 1)..Len(t) : j = k - m
    <3>1. PICK k \in (l + 1)..Len(t) : j = k - m
      BY <2>2
    <3>2. x[j] = t[k] /\ k \in 1..Len(t) /\ k # 1 /\ k - 1 \in 1..Len(t)
      BY <1>1, <1>4, <3>1
    <3>3. CASE k = l + 1
      <4>0. l < Len(t) /\ t[k].depth <= t[i].depth
        BY <1>1, <3>1, <3>3
      <4>1. j = i /\ t[k].depth <= t[i].depth /\ (i # 1 => i - 1 \in 1..(i - 1)) /\ i \in 1..Len(t)
        BY <1>1, <3>1, <3>3, <4>0
      <4>2. i # 1 => x[j - 1] = t[i - 1]
        BY <1>4, <4>1
      <4>3. t[i].depth <= (IF i = 1 THEN 0 ELSE t[i - 1].depth + 1)
        BY <1>2, <4>1
      <4>4. t[k].depth \in Nat /\ t[i].depth \in Nat /\ (i # 1 => t[i - 1].depth \in Nat)
        BY <1>1, <1>2, <3>2, <4>1
      <4>5. QED
        BY <3>2, <4>1, <4>2, <4>3, <4>4
    <3>4. CASE k # l + 1
      <4>1. k - 1 \in (l + 1)..Len(t) /\ j - 1 = (k - 1) - m /\ j # 1
        BY <1>1, <3>1, <3>4
      <4>2. x[j - 1] = t[k - 1]
        BY <1>4, <4>1
      <4>3. QED
        BY <1>2, <3>2, <4>1, <4>2
    <3>5. QED
      BY <3>3, <3>4
  <2>3. QED
    BY <1>1, <1>3, <2>1, <2>2, EraseFrom
<1>6. ASSUME NEW c \in CellsOf(x) PROVE \E k \in (1..Len(t)) \ (i..l) : c = t[k].cell
  <2>1. PICK j \in 1..Len(x) : c = x[j].cell
    BY <1>4 DEF CellsOf
  <2>2. CASE j \in 1..(i - 1)
    <3>1. j \in (1..Len(t)) \ (i..l)
      BY <1>1, <2>2
    <3>2. QED
      BY <1>4, <2>1, <2>2, <3>1
  <2>3. CASE \E k \in (l + 1)..Len(t) : j = k - m
    <3>1. PICK k \in (l + 1)..Len(t) : j = k - m
      BY <2>3
    <3>2. k \in (1..Len(t)) \ (i..l) /\ x[j] = t[k]
      BY <1>1, <1>4, <3>1
    <3>3. QED
      BY <2>1, <3>2
  <2>4. QED
    BY <1>1, <1>3, <2>2, <2>3, EraseFrom
<1>7. ASSUME NEW k \in (1..Len(t)) \ (i..l) PROVE t[k].cell \in CellsOf(x)
  <2>1. CASE k < i
    <3>1. k \in 1..(i - 1) /\ k \in 1..Len(x)
      BY <1>1, <1>4, <2>1
    <3>2. QED
      BY <1>4, <3>1 DEF CellsOf
  <2>2. CASE k > l
    <3>1. k \in (l + 1)..Len(t) /\ k - m \in 1..Len(x)
      BY <1>1, <1>4, <2>2
    <3>2. QED
      BY <1>4, <3>1 DEF CellsOf
  <2>3. QED
    BY <1>1, <2>1, <2>2
<1>8. CellsOf(x) = {t[k].cell : k \in (1..Len(t)) \ (i..l)}
  BY <1>6, <1>7
<1>9. IsTree(x)
  BY <1>4, <1>5 DEF IsTree, PreOrder
<1>10. QED
  BY <1>8, <1>9 DEF x, l

-----------------------------------------------------------------------------
(* The filters of a tree *)

\* No filter is at two places.
Distinct(t) == \A i, j \in 1..Len(t) : t[i].cell = t[j].cell => i = j

\* Filters put in that were not in the tree leave no filter twice.
LEMMA InsertDistinct ==
    ASSUME NEW t \in Seq(Row), NEW s \in Seq(Row), NEW at \in 0..Len(t), NEW d \in Nat,
           Distinct(t), Distinct(s), CellsOf(t) \cap CellsOf(s) = {}
    PROVE  Distinct(Insert(t, at, s, d))
<1> DEFINE x == Insert(t, at, s, d)
<1>1. /\ Len(t) \in Nat /\ Len(s) \in Nat /\ at \in Nat /\ at <= Len(t)
      /\ DOMAIN s = 1..Len(s) /\ DOMAIN t = 1..Len(t)
  BY RowFacts
<1>2. IsInsert(x, t, s, at, d)
  BY InsertNodes
<1>3. \A j \in 1..Len(x) : \/ j \in 1..at
                           \/ \E k \in 1..Len(s) : j = at + k
                           \/ \E k \in (at + 1)..Len(t) : j = k + Len(s)
  BY InsertCells
<1> HIDE DEF x
<1> DEFINE Old(j, k) == k \in 1..Len(t) /\ x[j].cell = t[k].cell /\ j = IF k <= at THEN k ELSE k + Len(s)
           New(j, k) == k \in 1..Len(s) /\ x[j].cell = s[k].cell /\ j = at + k
<1>4. ASSUME NEW j \in 1..Len(x) PROVE (\E k : Old(j, k)) \/ (\E k : New(j, k))
  <2>1. CASE j \in 1..at
    <3>1. j \in 1..Len(t) /\ j <= at /\ x[j] = t[j]
      BY <1>1, <1>2, <2>1 DEF IsInsert
    <3>2. QED
      BY <3>1
  <2>2. CASE \E k \in 1..Len(s) : j = at + k
    <3>1. PICK k \in 1..Len(s) : j = at + k
      BY <2>2
    <3>2. New(j, k)
      BY <1>2, <3>1 DEF IsInsert
    <3>3. QED
      BY <3>2
  <2>3. CASE \E k \in (at + 1)..Len(t) : j = k + Len(s)
    <3>1. PICK k \in (at + 1)..Len(t) : j = k + Len(s)
      BY <2>3
    <3>2. k \in 1..Len(t) /\ ~(k <= at) /\ x[j] = t[k]
      BY <1>1, <1>2, <3>1 DEF IsInsert
    <3>3. QED
      BY <3>1, <3>2
  <2>4. QED
    BY <1>3, <2>1, <2>2, <2>3
<1>5. ASSUME NEW i \in 1..Len(x), NEW j \in 1..Len(x), x[i].cell = x[j].cell PROVE i = j
  <2>1. ASSUME NEW k, NEW m, Old(i, k), Old(j, m) PROVE i = j
    BY <1>5, <2>1 DEF Distinct
  <2>2. ASSUME NEW k, NEW m, New(i, k), New(j, m) PROVE i = j
    BY <1>5, <2>2 DEF Distinct
  <2>3. \A k, m : ~(Old(i, k) /\ New(j, m)) /\ ~(Old(j, k) /\ New(i, m))
    BY <1>1, <1>5 DEF CellsOf
  <2>4. QED
    BY <1>4, <2>1, <2>2, <2>3
<1>6. QED
  BY <1>5 DEF Distinct, x

\* Erasing a branch leaves no filter twice.
LEMMA EraseDistinct ==
    ASSUME NEW t, IsTree(t), NEW i \in 1..Len(t), Distinct(t)
    PROVE  Distinct(Erase(t, i))
<1> DEFINE l == LastOf(t, i)
           x == Erase(t, i)
           m == l - i + 1
<1>1. t \in Seq(Row) /\ Len(t) \in Nat /\ i \in Nat /\ i >= 1 /\ i <= Len(t) /\ l \in i..Len(t) /\ l \in Nat
  BY RowFacts, LastOfFacts DEF IsTree
<1>2. IsErase(x, t, i, l)
  BY <1>1, EraseNodes
<1> HIDE DEF l, x
<1> DEFINE Old(j, k) == k \in 1..Len(t) /\ x[j] = t[k] /\ j = IF k < i THEN k ELSE k - m
<1>3. ASSUME NEW j \in 1..Len(x) PROVE \E k : Old(j, k)
  <2>1. CASE j \in 1..(i - 1)
    <3>1. Old(j, j)
      BY <1>1, <1>2, <2>1 DEF IsErase
    <3>2. QED
      BY <3>1
  <2>2. CASE \E k \in (l + 1)..Len(t) : j = k - m
    <3>1. PICK k \in (l + 1)..Len(t) : j = k - m
      BY <2>2
    <3>2. k \in 1..Len(t) /\ ~(k < i)
      BY <1>1, <3>1
    <3>3. x[j] = t[k]
      BY <1>2, <3>1 DEF IsErase
    <3>4. QED
      BY <3>1, <3>2, <3>3
  <2>3. QED
    BY <1>1, <1>2, <2>1, <2>2, EraseFrom
<1>4. ASSUME NEW a \in 1..Len(x), NEW b \in 1..Len(x), x[a].cell = x[b].cell PROVE a = b
  <2>1. PICK k : Old(a, k)
    BY <1>3
  <2>2. PICK n : Old(b, n)
    BY <1>3
  <2>3. k = n
    BY <1>4, <2>1, <2>2 DEF Distinct
  <2>4. QED
    BY <2>1, <2>2, <2>3
<1>5. QED
  BY <1>4 DEF Distinct, x

\* The branch of a tree and the rest of it have no filter in common.
LEMMA SubtreeCells ==
    ASSUME NEW t, IsTree(t), NEW i \in 1..Len(t)
    PROVE  /\ CellsOf(Subtree(t, i)) = {t[k].cell : k \in i..LastOf(t, i)}
           /\ CellsOf(t) = CellsOf(Erase(t, i)) \cup CellsOf(Subtree(t, i))
           /\ Distinct(t) => /\ Distinct(Subtree(t, i))
                             /\ CellsOf(Erase(t, i)) \cap CellsOf(Subtree(t, i)) = {}
<1> DEFINE l == LastOf(t, i)
           s == Subtree(t, i)
<1>1. t \in Seq(Row) /\ Len(t) \in Nat /\ DOMAIN t = 1..Len(t) /\ i \in Nat /\ i >= 1 /\ i <= Len(t) /\ l \in i..Len(t) /\ l \in Nat
  BY RowFacts, LastOfFacts DEF IsTree
<1>2. IsTree(s) /\ IsBranch(s, t, i, l)
  BY SubtreeFacts
<1>3. /\ Len(s) = l - i + 1
      /\ \A k \in 1..Len(s) : i + k - 1 \in i..l /\ i + k - 1 \in 1..Len(t) /\ s[k].cell = t[i + k - 1].cell
  BY <1>2 DEF IsBranch
<1>4. CellsOf(Erase(t, i)) = {t[k].cell : k \in (1..Len(t)) \ (i..l)}
  BY EraseIsTree
<1>5. DOMAIN s = 1..Len(s)
  BY <1>2, RowFacts DEF IsTree
<1> HIDE DEF l, s
<1>6. CellsOf(s) = {t[k].cell : k \in i..l}
  <2>1. ASSUME NEW c \in CellsOf(s) PROVE \E k \in i..l : c = t[k].cell
    BY <1>3, <1>5 DEF CellsOf
  <2>2. ASSUME NEW k \in i..l PROVE t[k].cell \in CellsOf(s)
    <3>1. k - i + 1 \in 1..Len(s) /\ i + (k - i + 1) - 1 = k
      BY <1>1, <1>3
    <3>2. s[k - i + 1].cell = t[i + (k - i + 1) - 1].cell
      BY <1>3, <3>1
    <3>3. QED
      BY <1>5, <3>1, <3>2 DEF CellsOf
  <2>3. QED
    BY <2>1, <2>2
<1>7. CellsOf(t) = CellsOf(Erase(t, i)) \cup CellsOf(s)
  <2>1. CellsOf(t) = {t[k].cell : k \in 1..Len(t)}
    BY <1>1 DEF CellsOf
  <2>2. 1..Len(t) = ((1..Len(t)) \ (i..l)) \cup (i..l)
    BY <1>1
  <2>3. QED
    BY <1>4, <1>6, <2>1, <2>2
<1>8. ASSUME Distinct(t) PROVE CellsOf(Erase(t, i)) \cap CellsOf(s) = {}
  <2>1. i..l \subseteq 1..Len(t)
    BY <1>1
  <2>2. QED
    BY <1>4, <1>6, <1>8, <2>1 DEF Distinct
<1>9. ASSUME Distinct(t) PROVE Distinct(s)
  <2>1. SUFFICES ASSUME NEW a \in 1..Len(s), NEW b \in 1..Len(s), s[a].cell = s[b].cell PROVE a = b
    BY DEF Distinct
  <2>2. i + a - 1 = i + b - 1
    BY <1>3, <1>9, <2>1 DEF Distinct
  <2>3. QED
    BY <1>1, <2>2
<1>10. QED
  BY <1>6, <1>7, <1>8, <1>9 DEF s, l

-----------------------------------------------------------------------------
(* Moving a branch *)

\* There is one end of a branch.
LEMMA LastOfIs ==
    ASSUME NEW t \in Seq(Row), NEW i \in 1..Len(t), NEW l \in i..Len(t),
           \A k \in (i + 1)..l : t[k].depth > t[i].depth,
           l < Len(t) => t[l + 1].depth <= t[i].depth
    PROVE  LastOf(t, i) = l
<1> DEFINE m == LastOf(t, i)
<1>1. /\ Len(t) \in Nat /\ i \in Nat /\ l \in Nat /\ m \in Nat /\ m \in i..Len(t)
      /\ \A k \in 1..Len(t) : t[k].depth \in Nat
      /\ \A k \in (i + 1)..m : t[k].depth > t[i].depth
      /\ m < Len(t) => t[m + 1].depth <= t[i].depth
  BY RowFacts, LastOfFacts
<1> HIDE DEF m
<1>2. CASE m < l
  <2>1. m + 1 \in (i + 1)..l /\ m + 1 \in 1..Len(t) /\ m < Len(t) /\ i \in 1..Len(t)
    BY <1>1, <1>2
  <2>2. QED
    BY <1>1, <2>1
<1>3. CASE m > l
  <2>1. l + 1 \in (i + 1)..m /\ l + 1 \in 1..Len(t) /\ l < Len(t) /\ i \in 1..Len(t)
    BY <1>1, <1>3
  <2>2. QED
    BY <1>1, <2>1
<1>4. QED
  BY <1>1, <1>2, <1>3 DEF m

\* Sequences of the same nodes are the same.
LEMMA SameNodes ==
    ASSUME NEW t \in Seq(Row), NEW s \in Seq(Row), Len(t) = Len(s),
           \A j \in 1..Len(t) : t[j] = s[j]
    PROVE  t = s
  OBVIOUS

\* The root of a branch that is put in and its end.
LEMMA MovedOriginal ==
    ASSUME NEW t, IsTree(t), NEW i \in 1..Len(t), NEW at \in 0..Len(t), NEW d \in Nat,
           at < i \/ at >= LastOf(t, i), at = LastOf(t, i) => d <= t[i].depth,
           NEW x, IsInsert(x, t, Subtree(t, i), at, d),
           NEW i2, i2 = IF i <= at THEN i ELSE i + Len(Subtree(t, i))
    PROVE  i2 \in 1..Len(x) /\ LastOf(x, i2) = i2 + Len(Subtree(t, i)) - 1
<1> DEFINE s == Subtree(t, i)
           n == Len(s)
           l == LastOf(t, i)
<1>1. /\ t \in Seq(Row) /\ Len(t) \in Nat /\ i \in Nat /\ i >= 1 /\ i <= Len(t) /\ at \in Nat /\ at <= Len(t)
      /\ l \in i..Len(t) /\ l \in Nat
      /\ \A k \in (i + 1)..l : t[k].depth > t[i].depth
      /\ l < Len(t) => t[l + 1].depth <= t[i].depth
      /\ \A k \in 1..Len(t) : t[k].depth \in Nat
  BY RowFacts, LastOfFacts DEF IsTree
<1>2. n = l - i + 1 /\ n >= 1 /\ n \in Nat /\ s[1].depth = 0
  BY SubtreeFacts, <1>1 DEF IsBranch
<1>3. /\ x \in Seq(Row) /\ Len(x) = Len(t) + n
      /\ \A k \in 1..at : x[k] = t[k]
      /\ \A k \in 1..n : x[at + k].depth = s[k].depth + d
      /\ \A k \in (at + 1)..Len(t) : x[k + n] = t[k]
  BY DEF IsInsert
<1>4. at < i \/ at >= l
  OBVIOUS
<1>5. at = l => d <= t[i].depth
  OBVIOUS
<1> HIDE DEF s, n, l
<1>6. CASE i <= at
  <2>1. i2 = i /\ i2 + n - 1 = l /\ at >= l
    BY <1>1, <1>2, <1>4, <1>6 DEF n, s
  <2>2. \A k \in i..l : k \in 1..at
    BY <1>1, <2>1
  <2>3. \A k \in i..l : x[k] = t[k]
    BY <1>3, <2>2
  <2>4. i \in i..l /\ i \in 1..Len(x) /\ l \in i..Len(x)
    BY <1>1, <1>2, <1>3
  <2>5. x[i] = t[i]
    BY <2>3, <2>4
  <2>6. \A k \in (i + 1)..l : x[k].depth > x[i].depth
    <3>1. TAKE k \in (i + 1)..l
    <3>2. k \in i..l
      BY <1>1
    <3>3. QED
      BY <1>1, <2>3, <2>5, <3>2
  <2>7. x[l + 1].depth <= x[i].depth
    <3>1. CASE at = l
      <4>1. 1 \in 1..n /\ at + 1 = l + 1
        BY <1>2, <3>1
      <4>2. x[l + 1].depth = 0 + d
        BY <1>2, <1>3, <4>1
      <4>3. QED
        BY <1>5, <2>5, <3>1, <4>2
    <3>2. CASE at # l
      <4>1. l + 1 \in 1..at /\ l < Len(t)
        BY <1>1, <2>1, <3>2
      <4>2. x[l + 1] = t[l + 1]
        BY <1>3, <4>1
      <4>3. QED
        BY <1>1, <2>5, <4>1, <4>2
    <3>3. QED
      BY <3>1, <3>2
  <2>8. LastOf(x, i) = l
    BY <1>3, <2>4, <2>6, <2>7, LastOfIs
  <2>9. QED
    BY <2>1, <2>4, <2>8 DEF n, s
<1>7. CASE ~(i <= at)
  <2>1. i2 = i + n /\ i2 + n - 1 = l + n /\ at < i
    BY <1>1, <1>2, <1>7 DEF n, s
  <2>2. \A k \in i..l : k \in (at + 1)..Len(t)
    BY <1>1, <2>1
  <2>3. \A k \in i..l : x[k + n] = t[k]
    BY <1>3, <2>2
  <2>4. i \in i..l /\ i + n \in 1..Len(x) /\ l + n \in (i + n)..Len(x)
    BY <1>1, <1>2, <1>3
  <2>5. x[i + n] = t[i]
    BY <2>3, <2>4
  <2>6. \A k \in (i + n + 1)..(l + n) : x[k].depth > x[i + n].depth
    <3>1. TAKE k \in (i + n + 1)..(l + n)
    <3>2. k - n \in i..l /\ k - n \in (i + 1)..l /\ k = (k - n) + n
      BY <1>1, <1>2
    <3>3. x[(k - n) + n] = t[k - n] /\ t[k - n].depth > t[i].depth
      BY <1>1, <2>3, <3>2
    <3>4. QED
      BY <2>5, <3>2, <3>3
  <2>7. ASSUME l + n < Len(x) PROVE x[l + n + 1].depth <= x[i + n].depth
    <3>1. l < Len(t) /\ l + 1 \in (at + 1)..Len(t) /\ l + n + 1 = (l + 1) + n
      BY <1>1, <1>2, <1>3, <2>1, <2>7
    <3>2. x[(l + 1) + n] = t[l + 1]
      BY <1>3, <3>1
    <3>3. QED
      BY <1>1, <2>5, <3>1, <3>2
  <2>8. LastOf(x, i + n) = l + n
    BY <1>3, <2>4, <2>6, <2>7, LastOfIs
  <2>9. QED
    BY <2>1, <2>4, <2>8 DEF n, s
<1>8. QED
  BY <1>6, <1>7

\* A moved branch is the same as one that is erased first, and then put in.
LEMMA MovedIs ==
    ASSUME NEW t, IsTree(t), NEW i \in 1..Len(t), NEW at \in 0..Len(t), NEW d \in Nat,
           at < i \/ at >= LastOf(t, i), at = LastOf(t, i) => d <= t[i].depth
    PROVE  /\ (IF i <= at THEN at - Len(Subtree(t, i)) ELSE at) \in 0..Len(Erase(t, i))
           /\ Moved(t, i, at, d)
                = Insert(Erase(t, i), IF i <= at THEN at - Len(Subtree(t, i)) ELSE at, Subtree(t, i), d)
<1> DEFINE s == Subtree(t, i)
           n == Len(s)
           l == LastOf(t, i)
           e == Erase(t, i)
           x == Insert(t, at, s, d)
           i2 == IF i <= at THEN i ELSE i + n
           at2 == IF i <= at THEN at - n ELSE at
           y == Erase(x, i2)
           z == Insert(e, at2, s, d)
<1>1. /\ t \in Seq(Row) /\ Len(t) \in Nat /\ i \in Nat /\ i >= 1 /\ i <= Len(t) /\ at \in Nat /\ at <= Len(t)
      /\ l \in i..Len(t) /\ l \in Nat /\ (at < i \/ at >= l)
  BY RowFacts, LastOfFacts DEF IsTree
<1>2. n = l - i + 1 /\ n >= 1 /\ n \in Nat /\ s \in Seq(Row)
  BY SubtreeFacts, <1>1 DEF IsBranch, IsTree
<1>3. IsInsert(x, t, s, at, d)
  BY <1>1, <1>2, InsertNodes
<1>4. i2 \in 1..Len(x) /\ LastOf(x, i2) = i2 + n - 1
  <2>1. at = LastOf(t, i) => d <= t[i].depth
    OBVIOUS
  <2>2. at < i \/ at >= LastOf(t, i)
    OBVIOUS
  <2> HIDE DEF x
  <2>3. QED
    BY <1>3, <2>1, <2>2, MovedOriginal
<1>5. IsErase(y, x, i2, i2 + n - 1)
  <2>1. x \in Seq(Row)
    BY <1>3 DEF IsInsert
  <2> HIDE DEF x
  <2>2. QED
    BY <1>4, <2>1, EraseNodes
<1>6. IsErase(e, t, i, l)
  BY <1>1, EraseNodes
<1>7. Moved(t, i, at, d) = y
  BY DEF Moved
<1>8. at2 \in 0..Len(e) /\ e \in Seq(Row)
  <2> HIDE DEF e, n, l, s
  <2>1. QED
    BY <1>1, <1>2, <1>6 DEF IsErase
<1>9. IsInsert(z, e, s, at2, d)
  <2> HIDE DEF e, n, l, s, at2
  <2>1. QED
    BY <1>2, <1>8, InsertNodes
<1>0. i2 = (IF i <= at THEN i ELSE i + n) /\ at2 = (IF i <= at THEN at - n ELSE at) /\ at2 \in Nat /\ i2 \in Nat
  BY <1>1, <1>2, <1>8
<1> HIDE DEF e, n, l, s, x, y, z, i2, at2
<1>10. /\ Len(x) = Len(t) + n
       /\ \A k \in 1..at : x[k] = t[k]
       /\ \A k \in 1..n : x[at + k] = [s[k] EXCEPT !.depth = @ + d]
       /\ \A k \in (at + 1)..Len(t) : x[k + n] = t[k]
  BY <1>3 DEF IsInsert, n
<1>11. /\ y \in Seq(Row) /\ Len(y) = Len(x) - n
       /\ \A k \in 1..(i2 - 1) : y[k] = x[k]
       /\ \A k \in (i2 + n)..Len(x) : y[k - n] = x[k]
  <2>1. (i2 + n - 1) - i2 + 1 = n /\ (i2 + n - 1) + 1 = i2 + n
    BY <1>0, <1>2
  <2>2. QED
    BY <1>5, <2>1 DEF IsErase
<1>12. /\ Len(e) = Len(t) - n
       /\ \A k \in 1..(i - 1) : e[k] = t[k]
       /\ \A k \in (l + 1)..Len(t) : e[k - n] = t[k]
  BY <1>2, <1>6 DEF IsErase
<1>13. /\ z \in Seq(Row) /\ Len(z) = Len(e) + n
       /\ \A k \in 1..at2 : z[k] = e[k]
       /\ \A k \in 1..n : z[at2 + k] = [s[k] EXCEPT !.depth = @ + d]
       /\ \A k \in (at2 + 1)..Len(e) : z[k + n] = e[k]
  BY <1>9 DEF IsInsert, n
<1>14. Len(y) = Len(t) /\ Len(z) = Len(t) /\ Len(x) = Len(t) + n /\ Len(e) = Len(t) - n
  <2>1. Len(x) = Len(t) + n /\ Len(y) = Len(x) - n /\ Len(e) = Len(t) - n /\ Len(z) = Len(e) + n
    BY <1>10, <1>11, <1>12, <1>13
  <2>2. QED
    BY <1>1, <1>2, <2>1
<1>15. ASSUME NEW j \in 1..Len(t), i <= at PROVE y[j] = z[j]
  <2>1. i2 = i /\ at2 = at - n /\ at >= l /\ n = l - i + 1
    BY <1>0, <1>1, <1>2, <1>15
  <2>2. CASE j < i
    <3>1. j \in 1..(i2 - 1) /\ j \in 1..at /\ j \in 1..at2 /\ j \in 1..(i - 1)
      BY <1>1, <2>1, <2>2
    <3>2. y[j] = x[j] /\ x[j] = t[j] /\ z[j] = e[j] /\ e[j] = t[j]
      <4>1. y[j] = x[j]
        BY <1>11, <3>1
      <4>2. x[j] = t[j]
        BY <1>10, <3>1
      <4>3. z[j] = e[j]
        BY <1>13, <3>1
      <4>4. e[j] = t[j]
        BY <1>12, <3>1
      <4>5. QED
        BY <4>1, <4>2, <4>3, <4>4
    <3>3. QED
      BY <3>2
  <2>3. CASE i <= j /\ j <= at2
    <3>1. j + n \in (i2 + n)..Len(x) /\ (j + n) - n = j /\ j + n \in 1..at /\ j \in 1..at2 /\ j + n \in (l + 1)..Len(t)
      BY <1>1, <1>2, <1>10, <2>1, <2>3
    <3>2. y[(j + n) - n] = x[j + n] /\ x[j + n] = t[j + n] /\ z[j] = e[j] /\ e[(j + n) - n] = t[j + n]
      <4>1. y[(j + n) - n] = x[j + n]
        BY <1>11, <3>1
      <4>2. x[j + n] = t[j + n]
        BY <1>10, <3>1
      <4>3. z[j] = e[j]
        BY <1>13, <3>1
      <4>4. e[(j + n) - n] = t[j + n]
        BY <1>12, <3>1
      <4>5. QED
        BY <4>1, <4>2, <4>3, <4>4
    <3>3. QED
      BY <3>1, <3>2
  <2>4. CASE at2 < j /\ j <= at
    <3>1. /\ j + n \in (i2 + n)..Len(x) /\ (j + n) - n = j /\ j - at2 \in 1..n
          /\ at + (j - at2) = j + n /\ at2 + (j - at2) = j
      BY <1>1, <1>2, <1>10, <2>1, <2>4
    <3>2. y[(j + n) - n] = x[j + n] /\ x[at + (j - at2)] = z[at2 + (j - at2)]
      <4>1. y[(j + n) - n] = x[j + n]
        BY <1>11, <3>1
      <4>2. x[at + (j - at2)] = z[at2 + (j - at2)]
        BY <1>10, <1>13, <3>1
      <4>3. QED
        BY <4>1, <4>2
    <3>3. QED
      BY <3>1, <3>2
  <2>5. CASE j > at
    <3>1. /\ j + n \in (i2 + n)..Len(x) /\ (j + n) - n = j /\ j \in (at + 1)..Len(t)
          /\ j - n \in (at2 + 1)..Len(e) /\ (j - n) + n = j /\ j \in (l + 1)..Len(t)
      BY <1>1, <1>2, <1>14, <2>1, <2>5
    <3>2. y[(j + n) - n] = x[j + n] /\ x[j + n] = t[j] /\ z[(j - n) + n] = e[j - n] /\ e[j - n] = t[j]
      <4>1. y[(j + n) - n] = x[j + n]
        BY <1>11, <3>1
      <4>2. x[j + n] = t[j]
        BY <1>10, <3>1
      <4>3. z[(j - n) + n] = e[j - n]
        BY <1>13, <3>1
      <4>4. e[j - n] = t[j]
        BY <1>12, <3>1
      <4>5. QED
        BY <4>1, <4>2, <4>3, <4>4
    <3>3. QED
      BY <3>1, <3>2
  <2>6. QED
    BY <1>1, <1>2, <2>1, <2>2, <2>3, <2>4, <2>5
<1>16. ASSUME NEW j \in 1..Len(t), ~(i <= at) PROVE y[j] = z[j]
  <2>1. i2 = i + n /\ at2 = at /\ at < i /\ n = l - i + 1
    BY <1>0, <1>1, <1>2, <1>16
  <2>2. CASE j <= at
    <3>1. j \in 1..(i2 - 1) /\ j \in 1..at /\ j \in 1..at2 /\ j \in 1..(i - 1)
      BY <1>1, <1>2, <2>1, <2>2
    <3>2. y[j] = x[j] /\ x[j] = t[j] /\ z[j] = e[j] /\ e[j] = t[j]
      <4>1. y[j] = x[j]
        BY <1>11, <3>1
      <4>2. x[j] = t[j]
        BY <1>10, <3>1
      <4>3. z[j] = e[j]
        BY <1>13, <3>1
      <4>4. e[j] = t[j]
        BY <1>12, <3>1
      <4>5. QED
        BY <4>1, <4>2, <4>3, <4>4
    <3>3. QED
      BY <3>2
  <2>3. CASE at < j /\ j <= at + n
    <3>1. j \in 1..(i2 - 1) /\ j - at \in 1..n /\ at + (j - at) = j /\ at2 + (j - at) = j
      BY <1>1, <1>2, <2>1, <2>3
    <3>2. y[j] = x[j] /\ x[at + (j - at)] = z[at2 + (j - at)]
      <4>1. y[j] = x[j]
        BY <1>11, <3>1
      <4>2. x[at + (j - at)] = z[at2 + (j - at)]
        BY <1>10, <1>13, <3>1
      <4>3. QED
        BY <4>1, <4>2
    <3>3. QED
      BY <3>1, <3>2
  <2>4. CASE at + n < j /\ j < i + n
    <3>1. /\ j \in 1..(i2 - 1) /\ j - n \in (at + 1)..Len(t) /\ (j - n) + n = j
          /\ j - n \in (at2 + 1)..Len(e) /\ j - n \in 1..(i - 1)
      BY <1>1, <1>2, <1>12, <2>1, <2>4
    <3>2. y[j] = x[j] /\ x[(j - n) + n] = t[j - n] /\ z[(j - n) + n] = e[j - n] /\ e[j - n] = t[j - n]
      <4>1. y[j] = x[j]
        BY <1>11, <3>1
      <4>2. x[(j - n) + n] = t[j - n]
        BY <1>10, <3>1
      <4>3. z[(j - n) + n] = e[j - n]
        BY <1>13, <3>1
      <4>4. e[j - n] = t[j - n]
        BY <1>12, <3>1
      <4>5. QED
        BY <4>1, <4>2, <4>3, <4>4
    <3>3. QED
      BY <3>1, <3>2
  <2>5. CASE j >= i + n
    <3>1. /\ j + n \in (i2 + n)..Len(x) /\ (j + n) - n = j /\ j \in (at + 1)..Len(t)
          /\ j - n \in (at2 + 1)..Len(e) /\ (j - n) + n = j /\ j \in (l + 1)..Len(t)
      BY <1>1, <1>2, <1>14, <2>1, <2>5
    <3>2. y[(j + n) - n] = x[j + n] /\ x[j + n] = t[j] /\ z[(j - n) + n] = e[j - n] /\ e[j - n] = t[j]
      <4>1. y[(j + n) - n] = x[j + n]
        BY <1>11, <3>1
      <4>2. x[j + n] = t[j]
        BY <1>10, <3>1
      <4>3. z[(j - n) + n] = e[j - n]
        BY <1>13, <3>1
      <4>4. e[j - n] = t[j]
        BY <1>12, <3>1
      <4>5. QED
        BY <4>1, <4>2, <4>3, <4>4
    <3>3. QED
      BY <3>1, <3>2
  <2>6. QED
    BY <1>1, <1>2, <2>2, <2>3, <2>4, <2>5
<1>17. y = z
  <2>1. \A j \in 1..Len(y) : y[j] = z[j]
    BY <1>14, <1>15, <1>16
  <2>2. QED
    BY <1>11, <1>13, <1>14, <2>1, SameNodes
<1>18. QED
  BY <1>7, <1>8, <1>17 DEF e, n, s, x, z, at2


-----------------------------------------------------------------------------
(* Trees of a session *)

\* Nothing stands at the base of the session but data sources, provided that
\* there is no stash to put there and that state files hold to it.
OnlyDataAtBase ==
    /\ "stash" \notin Handlers
    /\ \A s \in StateFiles : \A i \in DOMAIN s : s[i].depth = 0 => s[i].kind = "data"

Based(t) == OnlyDataAtBase => \A i \in 1..Len(t) : t[i].depth = 0 => t[i].kind = "data"

\* A tree of filters in the session.
GoodTree(t) ==
    /\ IsTree(t) /\ Len(t) <= MaxFilters
    /\ CellsOf(t) \subseteq Cells /\ Distinct(t)
    /\ Based(t)

\* A tree without its filters.
IsShape(s) == s \in Seq(Shapes) /\ Len(s) <= MaxFilters /\ PreOrder(s)

\* What an entry of the history, the stash or a state file holds is a tree of bounded size.
LEMMA ShapeFacts ==
    ASSUME NEW s, IsShape(s)
    PROVE  IsTree(s) /\ Len(s) \in Nat /\ Len(s) <= MaxFilters
<1>1. Shapes \subseteq Row
  <2>1. 0..(MaxFilters - 1) \subseteq Nat /\ {<<>>} \subseteq Seq(Cells \X Props)
    BY BoundsAssumption
  <2>2. SUFFICES ASSUME NEW r \in Shapes PROVE r \in Row
    OBVIOUS
  <2>3. QED
    BY <2>1 DEF Shapes, Row
<1>2. s \in Seq(Row) /\ Len(s) \in Nat
  BY <1>1 DEF IsShape
<1>3. QED
  BY <1>2 DEF IsShape, IsTree

\* A node is no deeper than the nodes before it allow.
LEMMA DepthBound ==
    ASSUME NEW t, IsTree(t), NEW i \in 1..Len(t)
    PROVE  t[i].depth <= i - 1
<1> DEFINE Deep == {k \in 1..Len(t) : t[k].depth > k - 1}
<1>1. /\ t \in Seq(Row) /\ Len(t) \in Nat /\ DOMAIN t = 1..Len(t)
      /\ \A k \in 1..Len(t) : t[k].depth \in Nat
  BY RowFacts DEF IsTree
<1>2. ASSUME Deep # {} PROVE FALSE
  <2>1. Min(Deep) \in Deep /\ \A x \in Deep : Min(Deep) <= x
    <3>1. Deep \subseteq Nat
      BY <1>1
    <3> HIDE DEF Deep
    <3>2. QED
      BY <1>2, <3>1, MinFacts
  <2>2. PICK k \in 1..Len(t) : t[k].depth > k - 1 /\ \A x \in Deep : k <= x
    BY <2>1
  <2>3. t[k].depth <= (IF k = 1 THEN 0 ELSE t[k - 1].depth + 1)
    BY <1>1 DEF IsTree, PreOrder
  <2>4. k # 1
    BY <1>1, <2>2, <2>3
  <2>5. k - 1 \in 1..Len(t) /\ ~(k <= k - 1)
    BY <1>1, <2>4
  <2>6. ~(t[k - 1].depth > (k - 1) - 1)
    BY <2>2, <2>5
  <2>7. QED
    BY <1>1, <2>2, <2>3, <2>4, <2>5, <2>6
<1>3. QED
  BY <1>1, <1>2

\* What a clone keeps of a tree is a tree, of the same kinds of filters.
LEMMA ShapeIs ==
    ASSUME NEW t, IsTree(t), Len(t) <= MaxFilters
    PROVE  /\ IsShape(Shape(t)) /\ Len(Shape(t)) = Len(t)
           /\ Based(t) => Based(Shape(t))
<1> DEFINE s == Shape(t)
<1>1. /\ t \in Seq(Row) /\ Len(t) \in Nat /\ DOMAIN t = 1..Len(t)
      /\ \A k \in 1..Len(t) : t[k] \in Row /\ t[k].depth \in Nat
  BY RowFacts DEF IsTree
<1>2. s = [i \in 1..Len(t) |-> [t[i] EXCEPT !.cell = Null, !.cache = <<>>]]
  BY <1>1 DEF Shape
<1> HIDE DEF s
<1>3. ASSUME NEW i \in 1..Len(t)
      PROVE  s[i] \in Shapes /\ s[i].depth = t[i].depth /\ s[i].kind = t[i].kind
  <2>1. s[i] = [t[i] EXCEPT !.cell = Null, !.cache = <<>>]
    BY <1>2
  <2>2. t[i].depth <= i - 1
    BY DepthBound
  <2>3. t[i].depth \in 0..(MaxFilters - 1)
    BY <1>1, <2>2, BoundsAssumption
  <2>4. QED
    BY <1>1, <2>1, <2>3 DEF Row, Shapes
<1>4. s \in Seq(Shapes) /\ Len(s) = Len(t) /\ DOMAIN s = 1..Len(t)
  <2>1. s = [i \in 1..Len(t) |-> s[i]]
    BY <1>2
  <2>2. \A i \in 1..Len(t) : s[i] \in Shapes
    BY <1>3
  <2>3. s \in [1..Len(t) -> Shapes]
    BY <2>1, <2>2
  <2>4. QED
    BY <1>1, <2>3
<1>5. PreOrder(s)
  <2>1. SUFFICES ASSUME NEW i \in 1..Len(t)
                 PROVE  s[i].depth <= (IF i = 1 THEN 0 ELSE s[i - 1].depth + 1)
    BY <1>4 DEF PreOrder
  <2>2. t[i].depth <= (IF i = 1 THEN 0 ELSE t[i - 1].depth + 1)
    BY <1>1 DEF IsTree, PreOrder
  <2>3. i # 1 => i - 1 \in 1..Len(t)
    BY <1>1
  <2>4. QED
    BY <1>3, <2>2, <2>3
<1>6. Based(t) => Based(s)
  BY <1>3, <1>4 DEF Based
<1>7. QED
  BY <1>4, <1>5, <1>6 DEF IsShape, s

\* Trees that differ in nothing but the filters' properties and caches.
Same(t, u) ==
    /\ IsTree(t) /\ IsTree(u) /\ Len(u) = Len(t)
    /\ \A i \in 1..Len(t) :
           u[i].cell = t[i].cell /\ u[i].kind = t[i].kind /\ u[i].depth = t[i].depth

\* A tree whose nodes keep filter, kind and depth is the same tree (Same).
LEMMA SameIs ==
    ASSUME NEW t, IsTree(t), NEW u, u = [i \in DOMAIN t |-> u[i]],
           \A i \in 1..Len(t) : /\ u[i] \in Row
                                /\ u[i].cell = t[i].cell /\ u[i].kind = t[i].kind
                                /\ u[i].depth = t[i].depth
    PROVE  Same(t, u)
<1>1. /\ t \in Seq(Row) /\ Len(t) \in Nat /\ DOMAIN t = 1..Len(t)
  BY RowFacts DEF IsTree
<1>2. u \in Seq(Row) /\ Len(u) = Len(t) /\ DOMAIN u = 1..Len(t)
  <2>1. u = [i \in 1..Len(t) |-> u[i]]
    BY <1>1
  <2>2. u \in [1..Len(t) -> Row]
    BY <2>1
  <2>3. QED
    BY <1>1, <2>2
<1>3. PreOrder(u)
  <2>1. SUFFICES ASSUME NEW i \in 1..Len(t)
                 PROVE  u[i].depth <= (IF i = 1 THEN 0 ELSE u[i - 1].depth + 1)
    BY <1>2 DEF PreOrder
  <2>2. t[i].depth <= (IF i = 1 THEN 0 ELSE t[i - 1].depth + 1)
    BY <1>1 DEF IsTree, PreOrder
  <2>3. i # 1 => i - 1 \in 1..Len(t)
    BY <1>1
  <2>4. QED
    BY <2>2, <2>3
<1>4. QED
  BY <1>2, <1>3 DEF Same, IsTree

\* Clearing caches does not touch the tree.
LEMMA ClearCachesSame ==
    ASSUME NEW t, IsTree(t), NEW S
    PROVE  Same(t, ClearCaches(t, S))
<1> DEFINE u == ClearCaches(t, S)
<1>1. u = [i \in DOMAIN t |-> IF i \in S THEN [t[i] EXCEPT !.cache = <<>>] ELSE t[i]]
  BY DEF ClearCaches
<1>2. DOMAIN t = 1..Len(t) /\ \A k \in 1..Len(t) : t[k] \in Row
  BY RowFacts DEF IsTree
<1> HIDE DEF u
<1>3. ASSUME NEW i \in 1..Len(t)
      PROVE  u[i] \in Row /\ u[i].cell = t[i].cell /\ u[i].kind = t[i].kind /\ u[i].depth = t[i].depth
  <2>1. u[i] = IF i \in S THEN [t[i] EXCEPT !.cache = <<>>] ELSE t[i]
    BY <1>1, <1>2
  <2>2. <<>> \in Seq(Cells \X Props)
    OBVIOUS
  <2>3. QED
    BY <1>2, <2>1, <2>2 DEF Row
<1>4. u = [i \in DOMAIN t |-> u[i]]
  BY <1>1
<1>5. Same(t, u)
  BY <1>3, <1>4, SameIs
<1>6. QED
  BY <1>5 DEF u

\* A property is changed.
LEMMA ChangedSame ==
    ASSUME NEW t, IsTree(t), NEW p
    PROVE  Same(t, [t EXCEPT ![p].prop = 1 - @])
<1> DEFINE u == [t EXCEPT ![p].prop = 1 - @]
<1>2. t \in Seq(Row) /\ DOMAIN t = 1..Len(t) /\ \A k \in 1..Len(t) : t[k] \in Row
  BY RowFacts DEF IsTree
<1>1. u = [i \in DOMAIN t |-> IF i = p THEN [t[i] EXCEPT !.prop = 1 - @] ELSE t[i]]
  BY <1>2
<1> HIDE DEF u
<1>3. ASSUME NEW i \in 1..Len(t)
      PROVE  u[i] \in Row /\ u[i].cell = t[i].cell /\ u[i].kind = t[i].kind /\ u[i].depth = t[i].depth
  <2>1. u[i] = IF i = p THEN [t[i] EXCEPT !.prop = 1 - @] ELSE t[i]
    BY <1>1, <1>2
  <2>2. t[i].prop \in Props /\ 1 - t[i].prop \in Props
    BY <1>2 DEF Row, Props
  <2>3. QED
    BY <1>2, <2>1, <2>2 DEF Row
<1>4. u = [i \in DOMAIN t |-> u[i]]
  BY <1>1
<1>5. Same(t, u)
  BY <1>3, <1>4, SameIs
<1>6. QED
  BY <1>5 DEF u

\* Two such changes, one after the other, are one.
LEMMA SameTrans ==
    ASSUME NEW t, NEW u, NEW v, Same(t, u), Same(u, v)
    PROVE  Same(t, v)
  BY DEF Same

\* Such a change leaves identifiers, branches and order as they were.
LEMMA SameFacts ==
    ASSUME NEW t, NEW u, Same(t, u)
    PROVE  /\ IdMap(u) = IdMap(t) /\ CellsOf(u) = CellsOf(t)
           /\ \A i \in 1..Len(t) : LastOf(u, i) = LastOf(t, i)
           /\ GoodTree(t) => GoodTree(u)
<1>1. /\ t \in Seq(Row) /\ u \in Seq(Row) /\ Len(t) \in Nat /\ Len(u) = Len(t)
      /\ DOMAIN t = 1..Len(t) /\ DOMAIN u = 1..Len(t)
  BY RowFacts DEF IsTree, Same
<1>2. \A i \in 1..Len(t) : u[i].cell = t[i].cell /\ u[i].kind = t[i].kind /\ u[i].depth = t[i].depth
  BY DEF Same
<1>3. IdMap(u) = IdMap(t)
  BY <1>1, <1>2 DEF IdMap
<1>4. CellsOf(u) = CellsOf(t)
  BY <1>1, <1>2 DEF CellsOf
<1>5. ASSUME NEW i \in 1..Len(t) PROVE LastOf(u, i) = LastOf(t, i)
  <2> DEFINE l == LastOf(t, i)
  <2>1. /\ l \in i..Len(t) /\ l \in 1..Len(t)
        /\ \A k \in (i + 1)..l : t[k].depth > t[i].depth
        /\ l < Len(t) => t[l + 1].depth <= t[i].depth
    <3>1. /\ l \in i..Len(t)
          /\ \A k \in (i + 1)..l : t[k].depth > t[i].depth
          /\ l < Len(t) => t[l + 1].depth <= t[i].depth
      BY <1>1, LastOfFacts
    <3> HIDE DEF l
    <3>2. l \in 1..Len(t)
      BY <1>1, <3>1
    <3>3. QED
      BY <3>1, <3>2
  <2> HIDE DEF l
  <2>2. \A k \in (i + 1)..l : u[k].depth > u[i].depth
    BY <1>1, <1>2, <2>1
  <2>3. l < Len(u) => u[l + 1].depth <= u[i].depth
    BY <1>1, <1>2, <2>1
  <2>4. i \in 1..Len(u) /\ l \in i..Len(u)
    BY <1>1, <2>1
  <2>5. LastOf(u, i) = l
    BY <1>1, <2>2, <2>3, <2>4, LastOfIs
  <2>6. QED
    BY <2>5 DEF l
<1>6. ASSUME GoodTree(t) PROVE GoodTree(u)
  <2>1. Distinct(u)
    BY <1>1, <1>2, <1>6 DEF GoodTree, Distinct
  <2>2. Based(u)
    BY <1>1, <1>2, <1>6 DEF GoodTree, Based
  <2>3. QED
    BY <1>1, <1>4, <1>6, <2>1, <2>2 DEF GoodTree, Same
<1>7. QED
  BY <1>3, <1>4, <1>5, <1>6

-----------------------------------------------------------------------------
(* Adding, erasing and moving branches of the session's tree *)

\* There is room for the filters of s in the session, and they are not in t.
Addable(t, s) ==
    /\ IsTree(s) /\ Len(t) + Len(s) <= MaxFilters
    /\ CellsOf(s) \subseteq Cells /\ CellsOf(t) \cap CellsOf(s) = {} /\ Distinct(s)

\* A branch of other filters, put in where its root may be, leaves a good tree.
LEMMA InsertGood ==
    ASSUME NEW t, GoodTree(t), NEW s, Addable(t, s), NEW at \in 0..Len(t), NEW d \in Nat,
           d # 0 \/ Based(s),
           d <= (IF at = 0 THEN 0 ELSE t[at].depth + 1),
           at < Len(t) => t[at + 1].depth <= d
    PROVE  /\ GoodTree(Insert(t, at, s, d))
           /\ CellsOf(Insert(t, at, s, d)) = CellsOf(t) \cup CellsOf(s)
<1> DEFINE x == Insert(t, at, s, d)
<1>1. /\ IsTree(t) /\ IsTree(s) /\ t \in Seq(Row) /\ s \in Seq(Row)
      /\ Len(t) \in Nat /\ Len(s) \in Nat /\ at \in Nat
      /\ \A k \in 1..Len(s) : s[k].depth \in Nat
  BY RowFacts DEF GoodTree, Addable, IsTree
<1>2. IsTree(x)
  BY <1>1, InsertIsTree
<1>3. CellsOf(x) = CellsOf(t) \cup CellsOf(s)
  BY <1>1, InsertCells
<1>4. \A j \in 1..Len(x) : \/ j \in 1..at
                           \/ \E k \in 1..Len(s) : j = at + k
                           \/ \E k \in (at + 1)..Len(t) : j = k + Len(s)
  BY <1>1, InsertCells
<1>5. IsInsert(x, t, s, at, d)
  BY <1>1, InsertNodes
<1>6. Distinct(x)
  BY <1>1, InsertDistinct DEF GoodTree, Addable
<1> HIDE DEF x
<1>7. ASSUME OnlyDataAtBase, NEW j \in 1..Len(x), x[j].depth = 0 PROVE x[j].kind = "data"
  <2>1. CASE j \in 1..at
    <3>1. x[j] = t[j] /\ j \in 1..Len(t)
      BY <1>1, <1>5, <2>1 DEF IsInsert
    <3>2. QED
      BY <1>7, <3>1 DEF GoodTree, Based
  <2>2. CASE \E k \in 1..Len(s) : j = at + k
    <3>1. PICK k \in 1..Len(s) : j = at + k
      BY <2>2
    <3>2. x[j].depth = s[k].depth + d /\ x[j].kind = s[k].kind
      BY <1>5, <3>1 DEF IsInsert
    <3>3. d = 0 /\ s[k].depth = 0
      BY <1>1, <1>7, <3>2
    <3>4. QED
      BY <1>7, <3>2, <3>3 DEF Based
  <2>3. CASE \E k \in (at + 1)..Len(t) : j = k + Len(s)
    <3>1. PICK k \in (at + 1)..Len(t) : j = k + Len(s)
      BY <2>3
    <3>2. x[j] = t[k] /\ k \in 1..Len(t)
      BY <1>1, <1>5, <3>1 DEF IsInsert
    <3>3. QED
      BY <1>7, <3>2 DEF GoodTree, Based
  <2>4. QED
    BY <1>4, <2>1, <2>2, <2>3
<1>8. Based(x)
  BY <1>7 DEF Based
<1>9. GoodTree(x)
  <2>1. Len(x) <= MaxFilters
    BY <1>5 DEF IsInsert, Addable
  <2>2. CellsOf(x) \subseteq Cells
    BY <1>3 DEF GoodTree, Addable
  <2>3. QED
    BY <1>2, <1>6, <1>8, <2>1, <2>2 DEF GoodTree
<1>10. QED
  BY <1>3, <1>9 DEF x

\* append_child.
LEMMA AppendChildGood ==
    ASSUME NEW t, GoodTree(t), NEW s, Addable(t, s), NEW p \in 1..Len(t)
    PROVE  /\ GoodTree(AppendChild(t, p, s))
           /\ CellsOf(AppendChild(t, p, s)) = CellsOf(t) \cup CellsOf(s)
<1> DEFINE at == LastOf(t, p)
           d == t[p].depth + 1
<1>1. /\ t \in Seq(Row) /\ Len(t) \in Nat /\ p \in Nat /\ \A k \in 1..Len(t) : t[k].depth \in Nat
  BY RowFacts DEF GoodTree, IsTree
<1>2. /\ at \in p..Len(t)
      /\ \A k \in (p + 1)..at : t[k].depth > t[p].depth
      /\ at < Len(t) => t[at + 1].depth <= t[p].depth
  BY <1>1, LastOfFacts
<1> HIDE DEF at
<1>3. at \in 0..Len(t) /\ at # 0 /\ d \in Nat /\ d # 0 /\ at \in 1..Len(t)
  BY <1>1, <1>2
<1>4. d <= t[at].depth + 1
  <2>1. at = p \/ at \in (p + 1)..at
    BY <1>1, <1>2, <1>3
  <2>2. QED
    BY <1>1, <1>2, <1>3, <2>1
<1>5. at < Len(t) => t[at + 1].depth <= d
  <2>1. at < Len(t) => at + 1 \in 1..Len(t)
    BY <1>1, <1>3
  <2>2. QED
    BY <1>1, <1>2, <2>1
<1> HIDE DEF d
<1>6. /\ GoodTree(Insert(t, at, s, d))
      /\ CellsOf(Insert(t, at, s, d)) = CellsOf(t) \cup CellsOf(s)
  BY <1>3, <1>4, <1>5, InsertGood
<1>7. QED
  BY <1>6 DEF AppendChild, at, d

\* insert_after(begin()).
LEMMA InsertAtBaseGood ==
    ASSUME NEW t, GoodTree(t), NEW s, Addable(t, s), Based(s)
    PROVE  /\ GoodTree(InsertAtBase(t, s))
           /\ CellsOf(InsertAtBase(t, s)) = CellsOf(t) \cup CellsOf(s)
<1> DEFINE at == IF t = <<>> THEN 0 ELSE LastOf(t, 1)
<1>1. /\ t \in Seq(Row) /\ Len(t) \in Nat /\ DOMAIN t = 1..Len(t) /\ \A k \in 1..Len(t) : t[k].depth \in Nat
  BY RowFacts DEF GoodTree, IsTree
<1>2. /\ at \in 0..Len(t)
      /\ 0 <= (IF at = 0 THEN 0 ELSE t[at].depth + 1)
      /\ at < Len(t) => t[at + 1].depth <= 0
  <2>1. CASE t = <<>>
    BY <1>1, <2>1
  <2>2. CASE t # <<>>
    <3>1. at = LastOf(t, 1) /\ 1 \in 1..Len(t)
      BY <1>1, <2>2
    <3>2. t[1].depth = 0
      <4>1. t[1].depth <= 0
        BY <1>1, <3>1 DEF GoodTree, IsTree, PreOrder
      <4>2. QED
        BY <1>1, <3>1, <4>1
    <3>3. LastOf(t, 1) \in 1..Len(t) /\ (LastOf(t, 1) < Len(t) => t[LastOf(t, 1) + 1].depth <= t[1].depth)
      BY <1>1, <3>1, LastOfFacts
    <3> HIDE DEF at
    <3>4. QED
      BY <1>1, <3>1, <3>2, <3>3
  <2>3. QED
    BY <2>1, <2>2
<1> HIDE DEF at
<1>3. /\ GoodTree(Insert(t, at, s, 0))
      /\ CellsOf(Insert(t, at, s, 0)) = CellsOf(t) \cup CellsOf(s)
  BY <1>2, InsertGood
<1>4. QED
  BY <1>3 DEF InsertAtBase, at

\* A good tree stays good without a branch.
LEMMA EraseGood ==
    ASSUME NEW t, GoodTree(t), NEW i \in 1..Len(t)
    PROVE  /\ GoodTree(Erase(t, i)) /\ Len(Erase(t, i)) = Len(t) - Len(Subtree(t, i))
           /\ CellsOf(Erase(t, i)) = {t[k].cell : k \in (1..Len(t)) \ (i..LastOf(t, i))}
<1> DEFINE x == Erase(t, i)
           l == LastOf(t, i)
           n == Len(Subtree(t, i))
<1>1. /\ IsTree(t) /\ t \in Seq(Row) /\ Len(t) \in Nat /\ DOMAIN t = 1..Len(t)
  BY RowFacts DEF GoodTree, IsTree
<1>2. IsErase(x, t, i, l) /\ l \in i..Len(t)
  BY <1>1, EraseNodes, LastOfFacts
<1>3. IsTree(x) /\ CellsOf(x) = {t[k].cell : k \in (1..Len(t)) \ (i..l)}
  BY <1>1, EraseIsTree
<1>4. Distinct(x)
  BY <1>1, EraseDistinct DEF GoodTree
<1>5. n = l - i + 1 /\ n >= 1
  BY <1>1, SubtreeFacts DEF IsBranch
<1> HIDE DEF x, l, n
<1>6. Len(x) = Len(t) - n
  BY <1>2, <1>5 DEF IsErase
<1>7. CellsOf(x) \subseteq Cells
  BY <1>1, <1>3 DEF CellsOf, GoodTree
<1>8. ASSUME OnlyDataAtBase, NEW j \in 1..Len(x), x[j].depth = 0 PROVE x[j].kind = "data"
  <2>1. CASE j \in 1..(i - 1)
    <3>1. x[j] = t[j] /\ j \in 1..Len(t)
      BY <1>1, <1>2, <2>1 DEF IsErase
    <3>2. QED
      BY <1>8, <3>1 DEF GoodTree, Based
  <2>2. CASE \E k \in (l + 1)..Len(t) : j = k - (l - i + 1)
    <3>1. PICK k \in (l + 1)..Len(t) : j = k - (l - i + 1)
      BY <2>2
    <3>2. x[j] = t[k] /\ k \in 1..Len(t)
      BY <1>1, <1>2, <3>1 DEF IsErase
    <3>3. QED
      BY <1>8, <3>2 DEF GoodTree, Based
  <2>3. QED
    BY <1>1, <1>2, <2>1, <2>2, EraseFrom
<1>9. Based(x)
  BY <1>8 DEF Based
<1>10. GoodTree(x)
  <2>1. Len(x) <= MaxFilters
    BY <1>1, <1>5, <1>6, BoundsAssumption DEF GoodTree
  <2>2. QED
    BY <1>3, <1>4, <1>7, <1>9, <2>1 DEF GoodTree
<1>11. QED
  BY <1>3, <1>6, <1>10 DEF x, l, n

\* The parent of a filter is before it.
LEMMA ParentOfFacts ==
    ASSUME NEW t, NEW i \in Nat \ {0}
    PROVE  /\ ParentOf(t, i) \in 0..(i - 1)
           /\ ParentOf(t, i) # 0 =>
                  /\ t[ParentOf(t, i)].depth < t[i].depth
                  /\ \A k \in (ParentOf(t, i) + 1)..(i - 1) : t[k].depth >= t[i].depth
           /\ \A j \in 1..(i - 1) :
                  (t[j].depth < t[i].depth /\ \A k \in (j + 1)..(i - 1) : t[k].depth >= t[i].depth)
                      => j <= ParentOf(t, i)
<1> DEFINE A == {j \in 1..(i - 1) : t[j].depth < t[i].depth
                                    /\ \A k \in (j + 1)..(i - 1) : t[k].depth >= t[i].depth}
           S == {0} \cup A
<1>1. S \subseteq 0..(i - 1) /\ S # {} /\ i - 1 \in Nat
  OBVIOUS
<1>2. Max(S) \in S /\ \A x \in S : x <= Max(S)
  <2> HIDE DEF S
  <2>1. QED
    BY <1>1, MaxFacts
<1>3. ParentOf(t, i) = Max(S)
  BY DEF ParentOf
<1> DEFINE p == ParentOf(t, i)
<1>4. p \in S /\ \A x \in S : x <= p
  BY <1>2, <1>3
<1> HIDE DEF p
<1>5. p \in 0..(i - 1) /\ (p # 0 => p \in A)
  BY <1>1, <1>4
<1>6. \A j \in A : j <= p
  BY <1>4
<1>7. QED
  BY <1>5, <1>6 DEF p

\* Where a branch may be moved to: below a filter outside of it, or to the
\* base, behind the first root.
MayMove(t, i, p, d) ==
    \/ p \notin i..LastOf(t, i) /\ d = t[p].depth + 1
    \/ p = 1 /\ d = 0

\* The place behind the subtree at p is not inside the branch at i, and it is
\* one for a root of depth d, before the branch is erased and after it.
LEMMA MovePlace ==
    ASSUME NEW t, IsTree(t), NEW i \in 1..Len(t), NEW p \in 1..Len(t), NEW d, MayMove(t, i, p, d)
    PROVE  /\ d \in Nat /\ LastOf(t, p) \in 1..Len(t)
           /\ LastOf(t, p) < i \/ LastOf(t, p) >= LastOf(t, i)
           /\ LastOf(t, p) = LastOf(t, i) => d <= t[i].depth /\ (i = 1 => d = 0)
                                             /\ (i # 1 => d <= t[i - 1].depth + 1)
           /\ LastOf(t, p) # LastOf(t, i) => d <= t[LastOf(t, p)].depth + 1
           /\ LastOf(t, p) < Len(t) => t[LastOf(t, p) + 1].depth <= d
<1> DEFINE l == LastOf(t, i)
           at == LastOf(t, p)
<1>1. /\ t \in Seq(Row) /\ Len(t) \in Nat /\ i \in Nat /\ i >= 1 /\ p \in Nat /\ p >= 1 /\ p <= Len(t) /\ i <= Len(t)
      /\ \A k \in 1..Len(t) : t[k].depth \in Nat
  BY RowFacts DEF IsTree
<1>2. /\ l \in i..Len(t)
      /\ \A k \in (i + 1)..l : t[k].depth > t[i].depth
  BY <1>1, LastOfFacts
<1>3. /\ at \in p..Len(t)
      /\ \A k \in (p + 1)..at : t[k].depth > t[p].depth
      /\ at < Len(t) => t[at + 1].depth <= t[p].depth
  BY <1>1, LastOfFacts
<1>4. (p \notin i..l /\ d = t[p].depth + 1) \/ (p = 1 /\ d = 0)
  BY DEF MayMove
<1> HIDE DEF l, at
<1>5. d \in Nat /\ at \in 1..Len(t) /\ at \in Nat /\ l \in Nat
  BY <1>1, <1>2, <1>3, <1>4
<1>6. t[1].depth = 0
  <2>1. 1 \in 1..Len(t) /\ 1 \in DOMAIN t
    BY <1>1
  <2>2. t[1].depth <= 0
    BY <2>1 DEF IsTree, PreOrder
  <2>3. QED
    BY <1>1, <2>1, <2>2
<1>7. ASSUME i <= at, at < l PROVE FALSE
  <2>1. at + 1 \in (i + 1)..l /\ at < Len(t) /\ at + 1 \in 1..Len(t) /\ i \in 1..Len(t) /\ p \in 1..Len(t)
    BY <1>1, <1>2, <1>5, <1>7
  <2>2. t[at + 1].depth > t[i].depth /\ t[at + 1].depth <= t[p].depth
    BY <1>2, <1>3, <2>1
  <2>3. t[p].depth > t[i].depth
    BY <1>1, <2>1, <2>2
  <2>4. CASE p < i
    <3>1. i \in (p + 1)..at
      BY <1>1, <1>5, <1>7, <2>4
    <3>2. QED
      BY <1>1, <1>3, <2>1, <2>3, <3>1
  <2>5. CASE p = i
    BY <1>1, <2>1, <2>3, <2>5
  <2>6. CASE p > i
    <3>1. p \in i..l /\ p # 1
      BY <1>1, <1>3, <1>5, <1>7, <2>6
    <3>2. QED
      BY <1>4, <3>1
  <2>7. QED
    BY <1>1, <2>4, <2>5, <2>6
<1>8. ASSUME at = l
      PROVE  d <= t[i].depth /\ (i = 1 => d = 0) /\ (i # 1 => d <= t[i - 1].depth + 1)
  <2>1. CASE p = 1 /\ d = 0
    <3>1. t[i].depth \in Nat /\ (i # 1 => t[i - 1].depth \in Nat)
      BY <1>1
    <3>2. QED
      BY <2>1, <3>1
  <2>2. CASE p \notin i..l /\ d = t[p].depth + 1
    <3>1. p < i /\ i \in (p + 1)..at /\ i # 1
      BY <1>1, <1>2, <1>3, <1>5, <1>8, <2>2
    <3>2. i - 1 = p \/ i - 1 \in (p + 1)..at
      BY <1>1, <1>5, <3>1
    <3>3. t[i].depth \in Nat /\ t[p].depth \in Nat /\ t[i - 1].depth \in Nat
      BY <1>1, <3>1
    <3>4. t[i].depth > t[p].depth /\ t[i - 1].depth >= t[p].depth
      BY <1>3, <3>1, <3>2, <3>3
    <3>5. QED
      BY <2>2, <3>1, <3>3, <3>4
  <2>3. QED
    BY <1>4, <2>1, <2>2
<1>9. d <= t[at].depth + 1
  <2>1. at = p \/ at \in (p + 1)..at
    BY <1>1, <1>3, <1>5
  <2>2. t[at].depth \in Nat /\ t[p].depth \in Nat /\ t[at].depth >= t[p].depth
    BY <1>1, <1>3, <1>5, <2>1
  <2>3. QED
    BY <1>4, <2>2
<1>10. ASSUME at < Len(t) PROVE t[at + 1].depth <= d
  <2>1. t[at + 1].depth <= t[p].depth /\ t[at + 1].depth \in Nat /\ t[p].depth \in Nat
    BY <1>1, <1>3, <1>5, <1>10
  <2>2. QED
    BY <1>4, <1>6, <2>1
<1>11. QED
  BY <1>1, <1>5, <1>7, <1>8, <1>9, <1>10 DEF l, at

\* A branch of the session's tree may be added to what is left without it.
LEMMA BranchAddable ==
    ASSUME NEW t, GoodTree(t), NEW i \in 1..Len(t)
    PROVE  /\ Addable(Erase(t, i), Subtree(t, i))
           /\ CellsOf(t) = CellsOf(Erase(t, i)) \cup CellsOf(Subtree(t, i))
           /\ t[i].kind = "data" => Based(Subtree(t, i))
<1> DEFINE s == Subtree(t, i)
<1>1. IsTree(t) /\ Distinct(t) /\ CellsOf(t) \subseteq Cells /\ Len(t) \in Nat /\ Len(t) <= MaxFilters
  BY RowFacts DEF GoodTree, IsTree
<1>2. IsTree(s) /\ IsBranch(s, t, i, LastOf(t, i))
  BY <1>1, SubtreeFacts
<1>3. /\ CellsOf(t) = CellsOf(Erase(t, i)) \cup CellsOf(s)
      /\ Distinct(s) /\ CellsOf(Erase(t, i)) \cap CellsOf(s) = {}
  BY <1>1, SubtreeCells
<1>4. Len(Erase(t, i)) = Len(t) - Len(s) /\ Len(s) \in Nat
  BY <1>2, EraseGood, RowFacts DEF IsTree
<1> HIDE DEF s
<1>5. Addable(Erase(t, i), s)
  BY <1>1, <1>2, <1>3, <1>4 DEF Addable
<1>6. t[i].kind = "data" => Based(s)
  <2>1. SUFFICES ASSUME t[i].kind = "data", NEW k \in 1..Len(s), s[k].depth = 0
                 PROVE  s[k].kind = "data"
    BY DEF Based
  <2>2. k = 1
    <3>1. k > 1 => s[k].depth >= 1
      BY <1>2, <2>1 DEF IsBranch
    <3>2. k \in Nat /\ k >= 1
      BY <1>4, <2>1
    <3>3. QED
      BY <2>1, <3>1, <3>2
  <2>3. s[k].kind = t[i + 1 - 1].kind /\ i + 1 - 1 = i
    BY <1>2, <2>1, <2>2 DEF IsBranch
  <2>4. QED
    BY <2>1, <2>3
<1>7. QED
  BY <1>3, <1>5, <1>6 DEF s

\* reparentFilter keeps the tree in order, and every filter of it.
LEMMA MovedGood ==
    ASSUME NEW t, GoodTree(t), NEW i \in 1..Len(t), NEW p \in 1..Len(t), NEW d,
           MayMove(t, i, p, d), d # 0 \/ t[i].kind = "data"
    PROVE  /\ GoodTree(Moved(t, i, LastOf(t, p), d))
           /\ CellsOf(Moved(t, i, LastOf(t, p), d)) = CellsOf(t)
<1> DEFINE s == Subtree(t, i)
           n == Len(s)
           e == Erase(t, i)
           l == LastOf(t, i)
           at == LastOf(t, p)
           at2 == IF i <= at THEN at - n ELSE at
<1>1. /\ IsTree(t) /\ t \in Seq(Row) /\ Len(t) \in Nat /\ i \in Nat /\ i >= 1 /\ i <= Len(t)
      /\ \A k \in 1..Len(t) : t[k].depth \in Nat
  BY RowFacts DEF GoodTree, IsTree
<1>2. /\ d \in Nat /\ at \in 1..Len(t) /\ (at < i \/ at >= l)
      /\ at = l => d <= t[i].depth /\ (i = 1 => d = 0) /\ (i # 1 => d <= t[i - 1].depth + 1)
      /\ at # l => d <= t[at].depth + 1
      /\ at < Len(t) => t[at + 1].depth <= d
  BY <1>1, MovePlace
<1>3. l \in i..Len(t) /\ (l < Len(t) => t[l + 1].depth <= t[i].depth)
  BY <1>1, LastOfFacts
<1>4. n = l - i + 1 /\ IsTree(s)
  BY <1>1, SubtreeFacts DEF IsBranch
<1>5. IsErase(e, t, i, l)
  BY <1>1, EraseNodes
<1>6. GoodTree(e)
  BY EraseGood
<1>7. Addable(e, s) /\ CellsOf(t) = CellsOf(e) \cup CellsOf(s) /\ (d # 0 \/ Based(s))
  BY BranchAddable
<1>8. at2 \in 0..Len(e) /\ Moved(t, i, at, d) = Insert(e, at2, s, d)
  <2>1. /\ IsTree(t) /\ at \in 0..Len(t) /\ d \in Nat
        /\ at < i \/ at >= LastOf(t, i)
        /\ at = LastOf(t, i) => d <= t[i].depth
    BY <1>1, <1>2
  <2> HIDE DEF at
  <2>2. QED
    BY <2>1, MovedIs
<1>9. at2 = IF i <= at THEN at - n ELSE at
  OBVIOUS
<1> HIDE DEF s, n, e, l, at, at2
<1>10. Len(e) = Len(t) - n /\ at \in Nat /\ l \in Nat /\ n \in Nat /\ n >= 1
  BY <1>1, <1>2, <1>3, <1>4, <1>5 DEF IsErase
<1>11. /\ \A k \in 1..(i - 1) : e[k] = t[k]
       /\ \A k \in (l + 1)..Len(t) : e[k - n] = t[k]
  BY <1>4, <1>5 DEF IsErase
<1>12. /\ d <= (IF at2 = 0 THEN 0 ELSE e[at2].depth + 1)
       /\ at2 < Len(e) => e[at2 + 1].depth <= d
  <2>1. CASE at < i
    <3>1. at2 = at /\ at # 0 /\ at # l /\ at \in 1..(i - 1)
      BY <1>1, <1>2, <1>3, <1>9, <1>10, <2>1
    <3>2. e[at2] = t[at]
      BY <1>11, <3>1
    <3>3. CASE at + 1 < i
      <4>1. at + 1 \in 1..(i - 1) /\ at < Len(t)
        BY <1>1, <1>10, <3>3
      <4>2. e[at2 + 1] = t[at + 1]
        BY <1>11, <3>1, <4>1
      <4>3. QED
        BY <1>2, <3>1, <3>2, <4>1, <4>2
    <3>4. CASE ~(at + 1 < i)
      <4>1. at + 1 = i /\ at < Len(t)
        BY <1>1, <1>10, <2>1, <3>4
      <4>2. ASSUME at2 < Len(e) PROVE e[at2 + 1].depth <= d
        <5>1. l < Len(t) /\ l + 1 \in (l + 1)..Len(t) /\ (l + 1) - n = at2 + 1 /\ l + 1 \in 1..Len(t)
          BY <1>1, <1>3, <1>4, <1>10, <3>1, <4>1, <4>2
        <5>2. e[(l + 1) - n] = t[l + 1]
          BY <1>11, <5>1
        <5>3. t[l + 1].depth <= t[i].depth /\ t[i].depth <= d
          BY <1>2, <1>3, <4>1, <5>1
        <5>4. t[l + 1].depth \in Nat /\ t[i].depth \in Nat
          BY <1>1, <5>1
        <5>5. QED
          BY <1>2, <5>1, <5>2, <5>3, <5>4
      <4>3. QED
        BY <1>2, <3>1, <3>2, <4>2
    <3>5. QED
      BY <3>3, <3>4
  <2>2. CASE at >= l
    <3>1. at2 = at - n /\ i <= at
      BY <1>1, <1>3, <1>9, <1>10, <2>2
    <3>2. ASSUME at2 < Len(e) PROVE e[at2 + 1].depth <= d
      <4>1. at < Len(t) /\ at + 1 \in (l + 1)..Len(t) /\ (at + 1) - n = at2 + 1
        BY <1>1, <1>10, <2>2, <3>1, <3>2
      <4>2. e[(at + 1) - n] = t[at + 1]
        BY <1>11, <4>1
      <4>3. QED
        BY <1>2, <4>1, <4>2
    <3>3. CASE at = l
      <4>1. at2 = i - 1
        BY <1>1, <1>4, <1>10, <3>1, <3>3
      <4>2. i # 1 => e[i - 1] = t[i - 1]
        BY <1>1, <1>11
      <4>3. d <= (IF at2 = 0 THEN 0 ELSE e[at2].depth + 1)
        BY <1>1, <1>2, <3>3, <4>1, <4>2
      <4>4. QED
        BY <3>2, <4>3
    <3>4. CASE at # l
      <4>1. at \in (l + 1)..Len(t) /\ at2 # 0
        BY <1>1, <1>2, <1>3, <1>4, <1>10, <2>2, <3>1, <3>4
      <4>2. e[at - n] = t[at]
        BY <1>11, <4>1
      <4>3. d <= (IF at2 = 0 THEN 0 ELSE e[at2].depth + 1)
        BY <1>2, <3>1, <3>4, <4>1, <4>2
      <4>4. QED
        BY <3>2, <4>3
    <3>5. QED
      BY <3>3, <3>4
  <2>3. QED
    BY <1>2, <2>1, <2>2
<1>13. /\ GoodTree(Insert(e, at2, s, d))
       /\ CellsOf(Insert(e, at2, s, d)) = CellsOf(e) \cup CellsOf(s)
  BY <1>2, <1>6, <1>7, <1>8, <1>12, InsertGood
<1>14. QED
  BY <1>7, <1>8, <1>13 DEF at

-----------------------------------------------------------------------------
(* Clones *)

\* In a set of numbers there is one with k - 1 below it.
LEMMA RankExists ==
    ASSUME NEW N \in Nat, NEW F \in SUBSET (1..N), NEW k \in 1..Cardinality(F)
    PROVE  \E c \in F : Cardinality({d \in F : d < c}) = k - 1
<1> DEFINE Low(x) == {d \in F : d < x}
           S == {x \in 1..(N + 1) : Cardinality(Low(x)) >= k}
<1>1. IsFiniteSet(F) /\ \A T \in SUBSET F : IsFiniteSet(T) /\ Cardinality(T) \in Nat
  <2>1. IsFiniteSet(1..N)
    BY FS_Interval
  <2>2. \A T \in SUBSET (1..N) : IsFiniteSet(T)
    BY <2>1, FS_Subset
  <2>3. \A T : IsFiniteSet(T) => Cardinality(T) \in Nat
    BY FS_CardinalityType
  <2>4. QED
    BY <2>2, <2>3
<1>2. Cardinality(F) \in Nat /\ k \in Nat /\ k >= 1 /\ k <= Cardinality(F)
  BY <1>1
<1>3. N + 1 \in S
  <2>1. Low(N + 1) = F
    <3>1. \A d \in F : d < N + 1
      OBVIOUS
    <3>2. QED
      BY <3>1
  <2> HIDE DEF Low
  <2>2. QED
    BY <1>2, <2>1
<1>4. Min(S) \in S /\ \A x \in S : Min(S) <= x
  <2>0. S \subseteq 1..(N + 1)
    OBVIOUS
  <2>1. S \subseteq Nat /\ S # {}
    <3> HIDE DEF S
    <3>1. QED
      BY <1>3, <2>0
  <2> HIDE DEF S
  <2>2. QED
    BY <2>1, MinFacts
<1>5. PICK m \in 1..(N + 1) : Cardinality(Low(m)) >= k /\ \A x \in S : m <= x
  BY <1>4
<1>6. \A x : Low(x) \in SUBSET F
  OBVIOUS
<1>7. m # 1
  <2>1. Low(1) = {}
    <3>1. \A d \in F : ~(d < 1)
      OBVIOUS
    <3>2. QED
      BY <3>1
  <2>2. Cardinality(Low(1)) = 0
    BY <2>1, FS_EmptySet
  <2> HIDE DEF Low
  <2>3. QED
    BY <1>2, <1>5, <2>2
<1>8. m - 1 \in 1..(N + 1) /\ ~(m <= m - 1)
  BY <1>7
<1>9. Cardinality(Low(m - 1)) < k
  <2>1. ~(Cardinality(Low(m - 1)) >= k)
    BY <1>5, <1>8
  <2>2. Cardinality(Low(m - 1)) \in Nat
    BY <1>1, <1>6
  <2> HIDE DEF Low
  <2>3. QED
    BY <1>2, <2>1, <2>2
<1>10. m - 1 \in F
  <2>1. SUFFICES ASSUME m - 1 \notin F PROVE FALSE
    OBVIOUS
  <2>2. Low(m) = Low(m - 1)
    <3>1. \A d \in F : d < m <=> d < m - 1
      BY <1>8, <2>1
    <3>2. QED
      BY <3>1
  <2>3. Cardinality(Low(m)) \in Nat
    BY <1>1, <1>6
  <2> HIDE DEF Low
  <2>4. QED
    BY <1>2, <1>5, <1>9, <2>2, <2>3
<1>11. Low(m) = Low(m - 1) \cup {m - 1} /\ m - 1 \notin Low(m - 1)
  <2>1. \A d \in F : d < m <=> (d < m - 1 \/ d = m - 1)
    BY <1>8
  <2>2. ~(m - 1 < m - 1)
    BY <1>8
  <2>3. \A d : d \in Low(m) <=> d \in Low(m - 1) \cup {m - 1}
    BY <1>10, <2>1, Zenon
  <2>4. QED
    BY <2>2, <2>3
<1>12. Cardinality(Low(m)) = Cardinality(Low(m - 1)) + 1
  <2>1. IsFiniteSet(Low(m - 1))
    BY <1>1, <1>6
  <2> HIDE DEF Low
  <2>2. QED
    BY <1>11, <2>1, FS_AddElement
<1>13. Cardinality(Low(m - 1)) = k - 1
  <2>1. Cardinality(Low(m - 1)) \in Nat
    BY <1>1, <1>6
  <2> HIDE DEF Low
  <2>2. QED
    BY <1>2, <1>5, <1>9, <1>12, <2>1
<1>14. QED
  BY <1>10, <1>13

\* A tree has no more filters than nodes.
LEMMA CellCount ==
    ASSUME NEW t \in Seq(Row)
    PROVE  IsFiniteSet(CellsOf(t)) /\ Cardinality(CellsOf(t)) <= Len(t)
<1> DEFINE f == [i \in 1..Len(t) |-> t[i].cell]
<1>1. Len(t) \in Nat /\ DOMAIN t = 1..Len(t)
  BY RowFacts
<1>2. f \in Surjection(1..Len(t), CellsOf(t))
  BY <1>1 DEF Surjection, CellsOf
<1>3. ExistsSurjection(1..Len(t), CellsOf(t))
  BY <1>2 DEF ExistsSurjection
<1>4. Cardinality(CellsOf(t)) <= Len(t)
  BY <1>1, <1>3, FS_SurjCardinalityBound
<1>5. IsFiniteSet(CellsOf(t))
  BY <1>1, <1>3, FS_NatSurjection
<1>6. QED
  BY <1>4, <1>5

\* The allocator has a cell for every filter of a clone: cells that no filter
\* of the tree is in, and no two the same.
LEMMA AllocatedFacts ==
    ASSUME filters \in Seq(Row), Len(filters) <= MaxFilters, CellsOf(filters) \subseteq Cells
    PROVE  /\ \A k \in 1..MaxFilters : Allocated(k) \in FreeCells
           /\ \A j, k \in 1..MaxFilters : Allocated(j) = Allocated(k) => j = k
<1>1. MaxFilters \in Nat /\ Len(filters) \in Nat
  BY BoundsAssumption
<1>2. IsFiniteSet(Cells) /\ Cardinality(Cells) = 2 * MaxFilters
  <2>1. 1 \in Int /\ 2 * MaxFilters \in Int /\ ~(1 > 2 * MaxFilters)
        /\ 2 * MaxFilters - 1 + 1 = 2 * MaxFilters
    BY BoundsAssumption
  <2> DEFINE m == 2 * MaxFilters
  <2> HIDE DEF m
  <2>2. IsFiniteSet(1..m) /\ Cardinality(1..m) = IF 1 > m THEN 0 ELSE m - 1 + 1
    BY <2>1, FS_Interval DEF m
  <2>3. QED
    BY <2>1, <2>2 DEF Cells, m
<1>3. IsFiniteSet(CellsOf(filters)) /\ Cardinality(CellsOf(filters)) <= Len(filters)
  BY CellCount
<1>4. Cardinality(FreeCells) = Cardinality(Cells) - Cardinality(CellsOf(filters)) /\ IsFiniteSet(FreeCells)
  <2>1. Cells \cap CellsOf(filters) = CellsOf(filters)
    OBVIOUS
  <2>2. QED
    BY <1>2, <2>1, FS_Difference DEF FreeCells
<1>5. Cardinality(CellsOf(filters)) \in Nat /\ Cardinality(FreeCells) \in Nat
  BY <1>3, <1>4, FS_CardinalityType
<1>6. MaxFilters <= Cardinality(FreeCells)
  BY <1>1, <1>2, <1>3, <1>4, <1>5
<1>7. FreeCells \in SUBSET (1..(2 * MaxFilters)) /\ 2 * MaxFilters \in Nat
  BY <1>1 DEF FreeCells, Cells
<1>8. ASSUME NEW k \in 1..MaxFilters
      PROVE  Allocated(k) \in FreeCells /\ Cardinality({d \in FreeCells : d < Allocated(k)}) = k - 1
  <2>1. k \in 1..Cardinality(FreeCells)
    BY <1>1, <1>5, <1>6
  <2>2. \E c \in FreeCells : Cardinality({d \in FreeCells : d < c}) = k - 1
    BY <1>7, <2>1, RankExists
  <2>3. QED
    BY <2>2, Zenon DEF Allocated
<1>9. ASSUME NEW j \in 1..MaxFilters, NEW k \in 1..MaxFilters, Allocated(j) = Allocated(k) PROVE j = k
  <2>1. j - 1 = k - 1
    BY <1>8, <1>9
  <2>2. QED
    BY <2>1
<1>10. QED
  BY <1>8, <1>9

\* A clone is a tree of the same kinds, of filters that are not in the session.
LEMMA ClonesIs ==
    ASSUME filters \in Seq(Row), Len(filters) <= MaxFilters, CellsOf(filters) \subseteq Cells,
           NEW s, IsShape(s)
    PROVE  /\ IsTree(Clones(s)) /\ Len(Clones(s)) = Len(s)
           /\ CellsOf(Clones(s)) \subseteq Cells \ CellsOf(filters)
           /\ Distinct(Clones(s))
           /\ Based(s) => Based(Clones(s))
           /\ \A i \in 1..Len(s) : Clones(s)[i].cell \in Cells
<1> DEFINE u == Clones(s)
<1>1. /\ IsTree(s) /\ s \in Seq(Row) /\ Len(s) \in Nat /\ Len(s) <= MaxFilters /\ DOMAIN s = 1..Len(s)
      /\ \A i \in 1..Len(s) : s[i] \in Row
  BY ShapeFacts, RowFacts DEF IsTree
<1>2. \A i \in 1..Len(s) : i \in 1..MaxFilters
  BY <1>1, BoundsAssumption
<1>3. \A i \in 1..Len(s) : Allocated(i) \in FreeCells
  BY <1>2, AllocatedFacts
<1>4. u = [i \in 1..Len(s) |-> [s[i] EXCEPT !.cell = Allocated(i)]]
  BY <1>1 DEF Clones
<1> HIDE DEF u
<1>5. ASSUME NEW i \in 1..Len(s)
      PROVE  /\ u[i] \in Row /\ u[i].cell = Allocated(i)
             /\ u[i].kind = s[i].kind /\ u[i].depth = s[i].depth
  <2>1. u[i] = [s[i] EXCEPT !.cell = Allocated(i)]
    BY <1>4
  <2>2. Allocated(i) \in Cells
    BY <1>3 DEF FreeCells
  <2>3. QED
    BY <1>1, <2>1, <2>2 DEF Row
<1>6. u \in Seq(Row) /\ Len(u) = Len(s) /\ DOMAIN u = 1..Len(s)
  <2>1. u = [i \in 1..Len(s) |-> u[i]]
    BY <1>4
  <2>2. \A i \in 1..Len(s) : u[i] \in Row
    BY <1>5
  <2>3. u \in [1..Len(s) -> Row]
    BY <2>1, <2>2
  <2>4. QED
    BY <1>1, <2>3
<1>7. PreOrder(u)
  <2>1. SUFFICES ASSUME NEW i \in 1..Len(s)
                 PROVE  u[i].depth <= (IF i = 1 THEN 0 ELSE u[i - 1].depth + 1)
    BY <1>6 DEF PreOrder
  <2>2. s[i].depth <= (IF i = 1 THEN 0 ELSE s[i - 1].depth + 1)
    BY <1>1 DEF IsTree, PreOrder
  <2>3. i # 1 => i - 1 \in 1..Len(s)
    BY <1>1
  <2>4. QED
    BY <1>5, <2>2, <2>3
<1>8. CellsOf(u) \subseteq Cells \ CellsOf(filters)
  BY <1>3, <1>5, <1>6 DEF CellsOf, FreeCells
<1>9. Distinct(u)
  <2>1. SUFFICES ASSUME NEW i \in 1..Len(s), NEW j \in 1..Len(s), u[i].cell = u[j].cell PROVE i = j
    BY <1>6 DEF Distinct
  <2>2. Allocated(i) = Allocated(j)
    BY <1>5, <2>1
  <2>3. QED
    BY <1>2, <2>2, AllocatedFacts
<1>10. Based(s) => Based(u)
  BY <1>5, <1>6 DEF Based
<1>11. \A i \in 1..Len(s) : u[i].cell \in Cells
  BY <1>3, <1>5 DEF FreeCells
<1>12. QED
  BY <1>6, <1>7, <1>8, <1>9, <1>10, <1>11 DEF IsTree, u

\* The first root of a tree, with its subtree.
LEMMA FirstRootIs ==
    ASSUME NEW s, IsTree(s)
    PROVE  /\ IsTree(FirstRoot(s)) /\ Len(FirstRoot(s)) <= Len(s)
           /\ CellsOf(FirstRoot(s)) \subseteq CellsOf(s)
           /\ Distinct(s) => Distinct(FirstRoot(s))
           /\ Based(s) => Based(FirstRoot(s))
           /\ IsShape(s) => IsShape(FirstRoot(s))
<1>1. CASE s = <<>>
  BY <1>1 DEF FirstRoot
<1>2. CASE s # <<>>
  <2> DEFINE r == Subtree(s, 1)
             l == LastOf(s, 1)
  <2>1. /\ s \in Seq(Row) /\ Len(s) \in Nat /\ DOMAIN s = 1..Len(s) /\ 1 \in 1..Len(s)
        /\ \A k \in 1..Len(s) : s[k] \in Row /\ s[k].depth \in Nat
    BY <1>2, RowFacts DEF IsTree
  <2>2. l \in 1..Len(s)
    BY <2>1, LastOfFacts
  <2>3. IsTree(r) /\ IsBranch(r, s, 1, l)
    BY <2>1, SubtreeFacts
  <2>4. /\ CellsOf(r) = {s[k].cell : k \in 1..l}
        /\ Distinct(s) => Distinct(r)
    BY <2>1, SubtreeCells
  <2>5. s[1].depth = 0
    <3>1. s[1].depth <= 0
      BY <2>1 DEF IsTree, PreOrder
    <3>2. QED
      BY <2>1, <3>1
  <2>6. r \in Seq(Row) /\ Len(r) \in Nat /\ DOMAIN r = 1..Len(r)
    BY <2>3, RowFacts DEF IsTree
  <2>7. FirstRoot(s) = r
    BY <1>2 DEF FirstRoot
  <2> HIDE DEF r, l
  <2>8. ASSUME NEW k \in 1..Len(r) PROVE r[k] = s[k] /\ k \in 1..Len(s)
    <3>1. 1 + k - 1 = k
      BY <2>6
    <3>2. 1 + k - 1 \in 1..Len(s) /\ r[k] = [s[1 + k - 1] EXCEPT !.depth = @ - s[1].depth]
      BY <2>3 DEF IsBranch
    <3>3. s[k].depth - s[1].depth = s[k].depth
      BY <2>1, <2>5, <3>1, <3>2
    <3>4. r[k] = [s[k] EXCEPT !.depth = s[k].depth]
      BY <3>1, <3>2, <3>3
    <3>5. [s[k] EXCEPT !.depth = s[k].depth] = s[k]
      BY <2>1, <3>1, <3>2 DEF Row
    <3>6. QED
      BY <3>1, <3>2, <3>4, <3>5
  <2>9. Len(r) <= Len(s)
    BY <2>1, <2>2, <2>3 DEF IsBranch
  <2>10. CellsOf(r) \subseteq CellsOf(s)
    BY <2>1, <2>6, <2>8 DEF CellsOf
  <2>11. Based(s) => Based(r)
    BY <2>8 DEF Based
  <2>12. ASSUME IsShape(s) PROVE IsShape(r)
    <3>1. \A k \in 1..Len(r) : r[k] \in Shapes
      BY <2>1, <2>8, <2>12 DEF IsShape
    <3>2. r \in Seq(Shapes)
      <4>1. r = [k \in 1..Len(r) |-> r[k]]
        BY <2>6
      <4>2. r \in [1..Len(r) -> Shapes]
        BY <3>1, <4>1
      <4>3. QED
        BY <2>6, <4>2
    <3>3. Len(r) <= MaxFilters
      BY <2>1, <2>6, <2>9, <2>12, BoundsAssumption DEF IsShape
    <3>4. QED
      BY <2>3, <3>2, <3>3 DEF IsShape, IsTree
  <2>13. QED
    BY <2>3, <2>4, <2>7, <2>9, <2>10, <2>11, <2>12
<1>3. QED
  BY <1>1, <1>2

-----------------------------------------------------------------------------
(* Recursion down a list and down a tree *)

\* What the loop over the filters to keep visible makes of their list.
IsLeft(q, p, n, t) == q = [i \in 1..(n + 1) |-> IF i > n THEN p ELSE PruneAt(q[i + 1], i, t)]

\* It exists.
LEMMA PrunedExists ==
    ASSUME NEW p, NEW n \in Nat, NEW t
    PROVE  \E q : IsLeft(q, p, n, t)
<1> DEFINE Defines(q, m) == q = [i \in m..(n + 1) |-> IF i > n THEN p ELSE PruneAt(q[i + 1], i, t)]
           Without == {m \in 1..(n + 1) : ~\E q : Defines(q, m)}
<1>1. SUFFICES ASSUME Without # {} PROVE FALSE
  <2>1. 1 \in 1..(n + 1)
    OBVIOUS
  <2>2. PICK q : Defines(q, 1)
    BY <1>1, <2>1
  <2>3. IsLeft(q, p, n, t)
    BY <2>2 DEF IsLeft
  <2>4. QED
    BY <2>3
<1>2. Max(Without) \in Without /\ \A x \in Without : x <= Max(Without)
  <2>1. Without \subseteq 1..(n + 1)
    OBVIOUS
  <2> HIDE DEF Without
  <2>2. Without \subseteq 0..(n + 1) /\ n + 1 \in Nat
    BY <2>1
  <2>3. QED
    BY <1>1, <2>2, MaxFacts
<1>3. PICK m \in 1..(n + 1) : (~\E q : Defines(q, m)) /\ \A x \in Without : x <= m
  BY <1>2
<1>4. m # n + 1
  <2>1. SUFFICES ASSUME m = n + 1 PROVE \E q : Defines(q, m)
    BY <1>3
  <2>2. \A i \in m..(n + 1) : i > n
    BY <2>1
  <2>3. Defines([i \in m..(n + 1) |-> p], m)
    BY <2>2
  <2>4. QED
    BY <2>3
<1>5. m + 1 \in 1..(n + 1) /\ m + 1 \notin Without
  <2>1. m + 1 \in 1..(n + 1) /\ ~(m + 1 <= m)
    BY <1>4
  <2> HIDE DEF Without
  <2>2. QED
    BY <1>3, <2>1
<1>6. PICK c : Defines(c, m + 1)
  BY <1>5
<1> DEFINE d == [i \in m..(n + 1) |-> IF i > n THEN p ELSE PruneAt(c[i + 1], i, t)]
<1>7. ASSUME NEW i \in m..(n + 1), ~(i > n) PROVE d[i + 1] = c[i + 1]
  <2>1. i + 1 \in (m + 1)..(n + 1) /\ i + 1 \in m..(n + 1)
    BY <1>7
  <2>2. c[i + 1] = IF i + 1 > n THEN p ELSE PruneAt(c[i + 1 + 1], i + 1, t)
    BY <1>6, <2>1
  <2>3. d[i + 1] = IF i + 1 > n THEN p ELSE PruneAt(c[i + 1 + 1], i + 1, t)
    BY <2>1
  <2>4. QED
    BY <2>2, <2>3
<1>8. Defines(d, m)
  <2>1. ASSUME NEW i \in m..(n + 1)
        PROVE  (IF i > n THEN p ELSE PruneAt(d[i + 1], i, t)) = (IF i > n THEN p ELSE PruneAt(c[i + 1], i, t))
    <3> HIDE DEF d
    <3>1. ~(i > n) => d[i + 1] = c[i + 1]
      BY <1>7
    <3>2. QED
      BY <3>1, Zenon
  <2> HIDE DEF d
  <2>2. d = [i \in m..(n + 1) |-> IF i > n THEN p ELSE PruneAt(c[i + 1], i, t)]
    BY DEF d
  <2>3. QED
    BY <2>1, <2>2, Zenon
<1>9. QED
  BY <1>3, <1>8

\* All that is left are filters of the tree.
LEMMA PrunedFacts ==
    ASSUME NEW p \in Seq(Cells), NEW t
    PROVE  /\ Pruned(p, t) \in Seq(Cells)
           /\ \A k \in 1..Len(Pruned(p, t)) : Pruned(p, t)[k] \in CellsOf(t)
<1> DEFINE n == Len(p)
           q == CHOOSE q : q = [i \in 1..(n + 1) |-> IF i > n THEN p ELSE PruneAt(q[i + 1], i, t)]
           Live(s, i) == /\ s \in Seq(Cells) /\ Len(s) >= i - 1
                         /\ \A k \in i..Len(s) : s[k] \in CellsOf(t)
           Bad == {i \in 1..(n + 1) : ~Live(q[i], i)}
<1>1. n \in Nat
  OBVIOUS
<1>2. Pruned(p, t) = q[1]
  BY Zenon DEF Pruned
<1>3. q = [i \in 1..(n + 1) |-> IF i > n THEN p ELSE PruneAt(q[i + 1], i, t)]
  <2>1. \E x : IsLeft(x, p, n, t)
    BY <1>1, PrunedExists
  <2>2. \E x : x = [i \in 1..(n + 1) |-> IF i > n THEN p ELSE PruneAt(x[i + 1], i, t)]
    BY <2>1, Zenon DEF IsLeft
  <2>3. QED
    BY <2>2, Zenon
<1> HIDE DEF q
<1>4. Live(q[n + 1], n + 1)
  <2>1. q[n + 1] = p
    BY <1>1, <1>3
  <2>2. QED
    BY <1>1, <2>1
<1>5. ASSUME NEW i \in 1..n, Live(q[i + 1], i + 1) PROVE Live(q[i], i)
  <2> DEFINE a == q[i + 1]
             b == [k \in 1..(Len(a) - 1) |-> IF k = i THEN Last(a) ELSE a[k]]
  <2>1. q[i] = IF a[i] \in CellsOf(t) THEN a ELSE b
    <3>1. i \in 1..(n + 1) /\ ~(i > n)
      BY <1>1
    <3>2. q[i] = PruneAt(q[i + 1], i, t)
      BY <1>3, <3>1
    <3>3. QED
      BY <3>2 DEF PruneAt
  <2>2. /\ a \in Seq(Cells) /\ Len(a) >= i /\ Len(a) \in Nat /\ i \in Nat /\ i >= 1
        /\ \A k \in (i + 1)..Len(a) : a[k] \in CellsOf(t)
        /\ \A k \in 1..Len(a) : a[k] \in Cells
    BY <1>1, <1>5
  <2> HIDE DEF a
  <2>3. CASE a[i] \in CellsOf(t)
    <3>1. \A k \in i..Len(a) : k = i \/ k \in (i + 1)..Len(a)
      BY <2>2
    <3>2. \A k \in i..Len(a) : a[k] \in CellsOf(t)
      BY <2>2, <2>3, <3>1
    <3>3. QED
      BY <2>1, <2>2, <2>3, <3>2
  <2>4. CASE a[i] \notin CellsOf(t)
    <3>1. \A k \in 1..(Len(a) - 1) : b[k] \in Cells
      <4>1. TAKE k \in 1..(Len(a) - 1)
      <4>2. Len(a) \in 1..Len(a) /\ k \in 1..Len(a)
        BY <2>2
      <4>3. QED
        BY <2>2, <4>2 DEF Last
    <3>2. b \in Seq(Cells) /\ Len(b) = Len(a) - 1
      <4>1. b = [k \in 1..(Len(a) - 1) |-> b[k]]
        OBVIOUS
      <4> HIDE DEF b
      <4>2. b \in [1..(Len(a) - 1) -> Cells] /\ Len(a) - 1 \in Nat
        BY <2>2, <3>1, <4>1
      <4>3. QED
        BY <4>2
    <3>3. \A k \in i..Len(b) : b[k] \in CellsOf(t)
      <4>1. TAKE k \in i..Len(b)
      <4>2. k \in 1..(Len(a) - 1) /\ Len(a) \in (i + 1)..Len(a) /\ (k # i => k \in (i + 1)..Len(a))
        BY <2>2, <3>2
      <4>3. b[k] = IF k = i THEN Last(a) ELSE a[k]
        BY <4>2
      <4>4. QED
        BY <2>2, <4>2, <4>3 DEF Last
    <3> HIDE DEF b
    <3>4. QED
      BY <2>1, <2>2, <2>4, <3>2, <3>3
  <2>5. QED
    BY <2>3, <2>4
<1>6. ASSUME Bad # {} PROVE FALSE
  <2>1. Max(Bad) \in Bad /\ \A x \in Bad : x <= Max(Bad)
    <3>1. Bad \subseteq 1..(n + 1)
      OBVIOUS
    <3> HIDE DEF Bad
    <3>2. Bad \subseteq 0..(n + 1) /\ n + 1 \in Nat
      BY <1>1, <3>1
    <3>3. QED
      BY <1>6, <3>2, MaxFacts
  <2>2. PICK i \in 1..(n + 1) : ~Live(q[i], i) /\ \A x \in Bad : x <= i
    BY <2>1
  <2>3. i # n + 1
    BY <1>4, <2>2
  <2>4. i \in 1..n /\ i + 1 \in 1..(n + 1) /\ ~(i + 1 <= i)
    BY <1>1, <2>2, <2>3
  <2>5. i + 1 \notin Bad
    BY <2>2, <2>4
  <2>6. Live(q[i + 1], i + 1)
    BY <2>4, <2>5
  <2>7. QED
    BY <1>5, <2>2, <2>4, <2>6
<1>7. Live(q[1], 1)
  BY <1>1, <1>6
<1>8. QED
  BY <1>2, <1>7

\* What the first n filters of a tree put out.
IsOutput(c, t, reuse, n) ==
    c = [i \in 1..n |-> Output(t, i, reuse, IF ParentOf(t, i) = 0 THEN <<>> ELSE c[ParentOf(t, i)])]

\* It exists.
LEMMA OutputsExist ==
    ASSUME NEW t, NEW reuse, NEW n \in Nat
    PROVE  \E c : IsOutput(c, t, reuse, n)
<1> DEFINE Defines(c, m) ==
               c = [i \in 1..m |->
                       Output(t, i, reuse, IF ParentOf(t, i) = 0 THEN <<>> ELSE c[ParentOf(t, i)])]
           Without == {m \in 0..n : ~\E c : Defines(c, m)}
<1>1. SUFFICES ASSUME Without # {} PROVE FALSE
  <2>1. n \in 0..n
    OBVIOUS
  <2>2. PICK c : Defines(c, n)
    BY <1>1, <2>1
  <2>3. IsOutput(c, t, reuse, n)
    BY <2>2 DEF IsOutput
  <2>4. QED
    BY <2>3
<1>2. Min(Without) \in Without /\ \A x \in Without : Min(Without) <= x
  <2>1. Without \subseteq 0..n
    OBVIOUS
  <2> HIDE DEF Without
  <2>2. Without \subseteq Nat
    BY <2>1
  <2>3. QED
    BY <1>1, <2>2, MinFacts
<1>3. PICK m \in 0..n : (~\E c : Defines(c, m)) /\ \A x \in Without : m <= x
  BY <1>2
<1>4. m # 0
  <2>1. SUFFICES ASSUME m = 0 PROVE \E c : Defines(c, m)
    BY <1>3
  <2>2. Defines([i \in 1..m |-> {}], m)
    BY <2>1
  <2>3. QED
    BY <2>2
<1>5. m - 1 \in 0..n /\ m - 1 \notin Without
  <2>1. m - 1 \in 0..n /\ ~(m <= m - 1)
    BY <1>4
  <2> HIDE DEF Without
  <2>2. QED
    BY <1>3, <2>1
<1>6. PICK c : Defines(c, m - 1)
  BY <1>5
<1> DEFINE d == [i \in 1..m |->
                    Output(t, i, reuse, IF ParentOf(t, i) = 0 THEN <<>> ELSE c[ParentOf(t, i)])]
<1>7. ASSUME NEW i \in 1..m, ParentOf(t, i) # 0 PROVE d[ParentOf(t, i)] = c[ParentOf(t, i)]
  <2> DEFINE p == ParentOf(t, i)
  <2>1. p \in 0..(i - 1) /\ p # 0
    BY <1>7, ParentOfFacts
  <2> HIDE DEF p
  <2>2. p \in 1..(m - 1) /\ p \in 1..m
    BY <1>3, <2>1
  <2>3. c[p] = Output(t, p, reuse, IF ParentOf(t, p) = 0 THEN <<>> ELSE c[ParentOf(t, p)])
    BY <1>6, <2>2
  <2>4. d[p] = Output(t, p, reuse, IF ParentOf(t, p) = 0 THEN <<>> ELSE c[ParentOf(t, p)])
    BY <2>2
  <2> HIDE DEF d
  <2>5. QED
    BY <2>3, <2>4 DEF p
<1>8. Defines(d, m)
  <2>1. ASSUME NEW i \in 1..m
        PROVE  (IF ParentOf(t, i) = 0 THEN <<>> ELSE d[ParentOf(t, i)])
                 = (IF ParentOf(t, i) = 0 THEN <<>> ELSE c[ParentOf(t, i)])
    BY <1>7
  <2> HIDE DEF d
  <2>2. d = [i \in 1..m |->
                Output(t, i, reuse, IF ParentOf(t, i) = 0 THEN <<>> ELSE c[ParentOf(t, i)])]
    BY DEF d
  <2>3. QED
    BY <2>1, <2>2, Zenon
<1>9. QED
  BY <1>3, <1>8

\* What a filter puts out is what the filter above it does, and its own, or
\* its cache.
LEMMA OutputsDef ==
    ASSUME NEW t \in Seq(Row), NEW reuse
    PROVE  IsOutput(Outputs(t, reuse), t, reuse, Len(t))
<1>1. Len(t) \in Nat /\ DOMAIN t = 1..Len(t)
  BY RowFacts
<1>2. \E c : IsOutput(c, t, reuse, Len(t))
  BY <1>1, OutputsExist
<1>3. Outputs(t, reuse) = CHOOSE c : c = [i \in DOMAIN t |->
                Output(t, i, reuse, IF ParentOf(t, i) = 0 THEN <<>> ELSE c[ParentOf(t, i)])]
  BY Zenon DEF Outputs
<1>4. Outputs(t, reuse) = CHOOSE c : IsOutput(c, t, reuse, Len(t))
  BY <1>1, <1>3, Zenon DEF IsOutput
<1>5. QED
  BY <1>2, <1>4, Zenon

\* What leaves a filter is a sequence of streams, each of a filter and a setting.
LEMMA OutputsType ==
    ASSUME NEW t \in Seq(Row), CellsOf(t) \subseteq Cells, NEW reuse
    PROVE  \A i \in 1..Len(t) : Outputs(t, reuse)[i] \in Seq(Cells \X Props)
<1> DEFINE n == Len(t)
           o == Outputs(t, reuse)
           V == Seq(Cells \X Props)
           Bad == {i \in 1..n : o[i] \notin V}
<1>1. n \in Nat /\ DOMAIN t = 1..n /\ \A i \in 1..n : t[i] \in Row
  BY RowFacts
<1>2. o = [i \in 1..n |->
              Output(t, i, reuse, IF ParentOf(t, i) = 0 THEN <<>> ELSE o[ParentOf(t, i)])]
  BY OutputsDef DEF IsOutput
<1> HIDE DEF o
<1>3. ASSUME NEW i \in 1..n, NEW above \in V PROVE Output(t, i, reuse, above) \in V
  <2>1. t[i].cell \in Cells /\ t[i].prop \in Props /\ t[i].cache \in V
    <3>1. t[i].cell \in Cells
      BY <1>1 DEF CellsOf
    <3>2. t[i].prop \in Props /\ t[i].cache \in V
      BY <1>1 DEF Row
    <3>3. QED
      BY <3>1, <3>2
  <2>2. <<t[i].cell, t[i].prop>> \in Cells \X Props
    BY <2>1
  <2>3. Append(above, <<t[i].cell, t[i].prop>>) \in V
    BY <2>2
  <2>4. QED
    BY <2>1, <2>3 DEF Output
<1>4. <<>> \in V
  OBVIOUS
<1> HIDE DEF V
<1>5. ASSUME Bad # {} PROVE FALSE
  <2>1. Min(Bad) \in Bad /\ \A x \in Bad : Min(Bad) <= x
    <3>1. Bad \subseteq 1..n
      OBVIOUS
    <3> HIDE DEF Bad
    <3>2. Bad \subseteq Nat
      BY <1>1, <3>1
    <3>3. QED
      BY <1>5, <3>2, MinFacts
  <2>2. PICK i \in 1..n : o[i] \notin V /\ \A x \in Bad : i <= x
    BY <2>1
  <2> DEFINE p == ParentOf(t, i)
  <2>3. p \in 0..(i - 1)
    BY ParentOfFacts
  <2>4. o[i] = Output(t, i, reuse, IF p = 0 THEN <<>> ELSE o[p])
    BY <1>2
  <2> HIDE DEF p
  <2>5. (IF p = 0 THEN <<>> ELSE o[p]) \in V
    <3>1. p # 0 => p \in 1..n /\ ~(i <= p)
      BY <1>1, <2>3
    <3>2. p # 0 => o[p] \in V
      BY <2>2, <3>1
    <3>3. QED
      BY <1>4, <3>2
  <2>6. QED
    BY <1>3, <2>2, <2>4, <2>5
<1>6. QED
  BY <1>5 DEF o, V

-----------------------------------------------------------------------------
(* What a node hangs from *)

\* The node at i hangs from the one at p: the nearest before it that is less
\* deep, if there is one.
IsParent(t, i, p) ==
    /\ p \in 0..(i - 1)
    /\ p # 0 => t[p].depth < t[i].depth
    /\ \A k \in (p + 1)..(i - 1) : t[k].depth >= t[i].depth

\* There is one such node, which ParentOf finds.
LEMMA ParentIs ==
    ASSUME NEW t \in Seq(Row), NEW i \in 1..Len(t)
    PROVE  /\ IsParent(t, i, ParentOf(t, i))
           /\ \A p : IsParent(t, i, p) => p = ParentOf(t, i)
<1> DEFINE q == ParentOf(t, i)
<1>1. Len(t) \in Nat /\ i \in Nat \ {0} /\ \A k \in 1..Len(t) : t[k].depth \in Nat
  BY RowFacts
<1>2. /\ q \in 0..(i - 1)
      /\ q # 0 => t[q].depth < t[i].depth /\ \A k \in (q + 1)..(i - 1) : t[k].depth >= t[i].depth
      /\ \A j \in 1..(i - 1) :
             (t[j].depth < t[i].depth /\ \A k \in (j + 1)..(i - 1) : t[k].depth >= t[i].depth)
                 => j <= q
  BY <1>1, ParentOfFacts
<1> HIDE DEF q
<1> DEFINE Low == {k \in 1..(i - 1) : t[k].depth < t[i].depth}
<1>3. ASSUME q = 0, Low # {} PROVE FALSE
  <2>1. Low \subseteq 0..(i - 1) /\ i - 1 \in Nat
    BY <1>1
  <2>2. Max(Low) \in Low /\ \A k \in Low : k <= Max(Low)
    <3> HIDE DEF Low
    <3>1. QED
      BY <1>3, <2>1, MaxFacts
  <2>3. PICK j \in 1..(i - 1) : t[j].depth < t[i].depth /\ \A k \in Low : k <= j
    BY <2>2
  <2>4. \A k \in (j + 1)..(i - 1) : t[k].depth >= t[i].depth
    <3>1. TAKE k \in (j + 1)..(i - 1)
    <3>2. k \in 1..(i - 1) /\ k \in 1..Len(t) /\ ~(k <= j)
      BY <1>1
    <3>3. k \notin Low
      BY <2>3, <3>2
    <3>4. QED
      BY <1>1, <3>2, <3>3
  <2>5. j <= q
    BY <1>2, <2>3, <2>4
  <2>6. QED
    BY <1>3, <2>5
<1>4. IsParent(t, i, q)
  <2>1. CASE q # 0
    BY <1>2, <2>1 DEF IsParent
  <2>2. CASE q = 0
    <3>1. \A k \in 1..(i - 1) : t[k].depth >= t[i].depth
      BY <1>1, <1>3, <2>2
    <3>2. QED
      BY <1>1, <2>2, <3>1 DEF IsParent
  <2>3. QED
    BY <2>1, <2>2
<1>5. ASSUME NEW p, IsParent(t, i, p) PROVE p = q
  <2>1. p \in 0..(i - 1) /\ q \in 0..(i - 1)
    BY <1>4, <1>5 DEF IsParent
  <2>2. CASE p < q
    <3>1. q # 0 /\ q \in (p + 1)..(i - 1) /\ q \in 1..Len(t)
      BY <1>1, <2>1, <2>2
    <3>2. t[q].depth >= t[i].depth /\ t[q].depth < t[i].depth
      BY <1>4, <1>5, <3>1 DEF IsParent
    <3>3. QED
      BY <1>1, <3>1, <3>2
  <2>3. CASE q < p
    <3>1. p # 0 /\ p \in (q + 1)..(i - 1) /\ p \in 1..Len(t)
      BY <1>1, <2>1, <2>3
    <3>2. t[p].depth >= t[i].depth /\ t[p].depth < t[i].depth
      BY <1>4, <1>5, <3>1 DEF IsParent
    <3>3. QED
      BY <1>1, <3>1, <3>2
  <2>4. QED
    BY <1>1, <2>1, <2>2, <2>3
<1>6. QED
  BY <1>4, <1>5 DEF q

\* A branch may be put in behind at, d deep, to hang from the node at p, or
\* from none.
Hangs(t, at, d, p) ==
    /\ at \in 0..Len(t) /\ d \in Nat /\ p \in 0..at
    /\ p = 0 => d = 0
    /\ p # 0 => /\ d = t[p].depth + 1
                /\ \A k \in (p + 1)..at : t[k].depth > t[p].depth
    /\ at < Len(t) => t[at + 1].depth <= d

\* One root, and nodes below it.
OneRoot(s) ==
    /\ Len(s) >= 1 /\ s[1].depth = 0
    /\ \A k \in 1..Len(s) : k > 1 => s[k].depth >= 1

\* What the nodes hang from when a branch has been put in: those of the tree
\* from what they did, those of the branch as well, its root from p.
LEMMA InsertParents ==
    ASSUME NEW t \in Seq(Row), NEW s \in Seq(Row), OneRoot(s), NEW at, NEW d, NEW p, Hangs(t, at, d, p),
           NEW x, IsInsert(x, t, s, at, d)
    PROVE  /\ \A j \in 1..at : ParentOf(x, j) = ParentOf(t, j)
           /\ ParentOf(x, at + 1) = p
           /\ \A k \in 2..Len(s) : ParentOf(s, k) \in 1..(k - 1) /\ ParentOf(x, at + k) = at + ParentOf(s, k)
           /\ \A j \in (at + 1)..Len(t) :
                  ParentOf(x, j + Len(s))
                      = IF ParentOf(t, j) <= at THEN ParentOf(t, j) ELSE ParentOf(t, j) + Len(s)
<1> DEFINE n == Len(s)
           m == Len(t)
<1>1. /\ n \in Nat /\ m \in Nat /\ n >= 1
      /\ \A k \in 1..m : t[k].depth \in Nat
      /\ \A k \in 1..n : s[k].depth \in Nat
  BY RowFacts DEF OneRoot
<1>2. /\ x \in Seq(Row) /\ Len(x) = m + n
      /\ \A k \in 1..at : x[k] = t[k]
      /\ \A k \in 1..n : x[at + k].depth = s[k].depth + d
      /\ \A k \in (at + 1)..m : x[k + n] = t[k]
  BY DEF IsInsert
<1>3. /\ at \in 0..m /\ d \in Nat /\ p \in 0..at
      /\ at < m => t[at + 1].depth <= d
  BY DEF Hangs
<1>4. \A j \in 1..m : IsParent(t, j, ParentOf(t, j))
  BY ParentIs
<1> HIDE DEF n, m
<1>5. ASSUME NEW j \in 1..at PROVE ParentOf(x, j) = ParentOf(t, j)
  <2>1. j \in 1..m /\ j \in 1..Len(x) /\ j \in Nat
    BY <1>1, <1>2, <1>3
  <2>2. \A k \in 0..(j - 1) : k # 0 => x[k] = t[k]
    BY <1>1, <1>2, <1>3
  <2>3. x[j] = t[j]
    BY <1>2
  <2>4. IsParent(x, j, ParentOf(t, j))
    BY <1>4, <2>1, <2>2, <2>3 DEF IsParent
  <2>5. QED
    BY <1>2, <2>1, <2>4, ParentIs
<1>6. ParentOf(x, at + 1) = p
  <2>1. x[at + 1].depth = d
    <3>1. 1 \in 1..n /\ s[1].depth = 0
      BY <1>1 DEF OneRoot
    <3>2. x[at + 1].depth = 0 + d
      BY <1>2, <3>1
    <3>3. QED
      BY <1>3, <3>2
  <2>2. p # 0 => x[p] = t[p] /\ p \in 1..m
    BY <1>1, <1>2, <1>3
  <2>3. \A k \in (p + 1)..at : x[k].depth >= d
    <3>1. TAKE k \in (p + 1)..at
    <3>2. k \in 1..at /\ k \in 1..m
      BY <1>1, <1>3
    <3>3. p # 0 => t[k].depth > t[p].depth /\ d = t[p].depth + 1
      BY DEF Hangs
    <3>4. p = 0 => d = 0
      BY DEF Hangs
    <3>5. x[k] = t[k] /\ t[k].depth \in Nat /\ (p # 0 => t[p].depth \in Nat)
      BY <1>1, <1>2, <2>2, <3>2
    <3>6. QED
      BY <1>3, <3>3, <3>4, <3>5
  <2>4. p # 0 => x[p].depth < d
    <3>1. p # 0 => d = t[p].depth + 1 /\ t[p].depth \in Nat
      BY <1>1, <2>2 DEF Hangs
    <3>2. QED
      BY <2>2, <3>1
  <2>5. at + 1 - 1 = at /\ at + 1 \in 1..Len(x)
    BY <1>1, <1>2, <1>3
  <2>6. IsParent(x, at + 1, p)
    BY <1>3, <2>1, <2>3, <2>4, <2>5 DEF IsParent
  <2>7. QED
    BY <1>2, <2>5, <2>6, ParentIs
<1>7. ASSUME NEW k \in 2..n
      PROVE  ParentOf(s, k) \in 1..(k - 1) /\ ParentOf(x, at + k) = at + ParentOf(s, k)
  <2> DEFINE q == ParentOf(s, k)
  <2>1. k \in 1..n /\ k > 1 /\ at + k \in 1..Len(x) /\ 1 \in 1..n
    BY <1>1, <1>2, <1>3
  <2>2. IsParent(s, k, q)
    BY <2>1, ParentIs DEF n
  <2> HIDE DEF q
  <2>3. s[1].depth = 0 /\ s[k].depth >= 1 /\ s[k].depth \in Nat
    BY <1>1, <2>1 DEF OneRoot, n
  <2>4. q # 0
    <3>1. SUFFICES ASSUME q = 0 PROVE FALSE
      OBVIOUS
    <3>2. 1 \in (q + 1)..(k - 1)
      BY <2>1, <3>1
    <3>3. s[1].depth >= s[k].depth
      BY <2>2, <3>2 DEF IsParent
    <3>4. QED
      BY <2>3, <3>3
  <2>5. q \in 1..(k - 1) /\ q \in 1..n /\ q \in Nat
    BY <1>1, <2>1, <2>2, <2>4 DEF IsParent
  <2>6. x[at + q].depth < x[at + k].depth
    <3>1. s[q].depth < s[k].depth
      BY <2>2, <2>4 DEF IsParent
    <3>2. x[at + q].depth = s[q].depth + d /\ x[at + k].depth = s[k].depth + d
      BY <1>2, <2>1, <2>5
    <3>3. s[q].depth \in Nat /\ s[k].depth \in Nat
      BY <1>1, <2>1, <2>5
    <3>4. d \in Nat
      BY <1>3
    <3>5. s[q].depth + d < s[k].depth + d
      BY <3>1, <3>3, <3>4
    <3>6. QED
      BY <3>2, <3>5
  <2>7. \A j \in (at + q + 1)..((at + k) - 1) : x[j].depth >= x[at + k].depth
    <3>1. TAKE j \in (at + q + 1)..((at + k) - 1)
    <3>2. PICK r \in (q + 1)..(k - 1) : j = at + r
      <4>1. j - at \in (q + 1)..(k - 1) /\ j = at + (j - at)
        BY <1>1, <1>3, <2>1, <2>5
      <4>2. QED
        BY <4>1
    <3>3. r \in 1..n
      BY <1>1, <2>1, <2>5
    <3>4. s[r].depth >= s[k].depth
      BY <2>2, <3>2 DEF IsParent
    <3>5. x[at + r].depth = s[r].depth + d /\ x[at + k].depth = s[k].depth + d
      BY <1>2, <2>1, <3>3
    <3>6. s[r].depth \in Nat /\ s[k].depth \in Nat
      BY <1>1, <2>1, <3>3
    <3>7. d \in Nat
      BY <1>3
    <3>8. x[j].depth = s[r].depth + d
      BY <3>2, <3>5
    <3>9. s[r].depth + d >= s[k].depth + d
      BY <3>4, <3>6, <3>7
    <3>10. QED
      BY <3>5, <3>8, <3>9
  <2>8. IsParent(x, at + k, at + q)
    <3>1. at + q \in 0..((at + k) - 1) /\ at + q # 0
      BY <1>1, <1>3, <2>1, <2>5
    <3> DEFINE a == at + k
               b == at + q
    <3>2. b \in 0..(a - 1)
      BY <3>1
    <3>5. b # 0 => x[b].depth < x[a].depth
      BY <2>6
    <3>6. \A j \in (b + 1)..(a - 1) : x[j].depth >= x[a].depth
      BY <2>7
    <3> HIDE DEF a, b
    <3>3. IsParent(x, a, b)
      BY <3>2, <3>5, <3>6, Zenon DEF IsParent
    <3>4. QED
      BY <3>3 DEF a, b
  <2>9. QED
    BY <1>2, <2>1, <2>5, <2>8, ParentIs DEF q
<1>8. ASSUME NEW j \in (at + 1)..m
      PROVE  ParentOf(x, j + n) = IF ParentOf(t, j) <= at THEN ParentOf(t, j) ELSE ParentOf(t, j) + n
  <2> DEFINE q == ParentOf(t, j)
             r == IF q <= at THEN q ELSE q + n
  <2>1. j \in 1..m /\ j \in Nat /\ at < m /\ at + 1 \in 1..m /\ j + n \in 1..Len(x)
    BY <1>1, <1>2, <1>3
  <2>2. IsParent(t, j, q)
    BY <1>4, <2>1
  <2> HIDE DEF q
  <2>3. q \in 0..(j - 1)
    BY <2>2 DEF IsParent
  <2>4. x[j + n] = t[j] /\ t[j].depth \in Nat
    BY <1>1, <1>2, <2>1
  <2>5. r \in 0..((j + n) - 1) /\ (q # 0 => r # 0) /\ (q = 0 => r = 0)
    BY <1>1, <1>3, <2>1, <2>3
  <2>6. q # 0 => x[r] = t[q]
    <3>1. q # 0 /\ q <= at => q \in 1..at
      BY <1>1, <1>3, <2>3
    <3>2. q # 0 /\ ~(q <= at) => q \in (at + 1)..m
      BY <1>1, <1>3, <2>1, <2>3
    <3>3. QED
      BY <1>2, <3>1, <3>2
  <2>7. \A k \in (r + 1)..((j + n) - 1) : x[k].depth >= t[j].depth
    <3>1. TAKE k \in (r + 1)..((j + n) - 1)
    <3>2. CASE k \in 1..at
      <4>1. q <= at /\ k \in (q + 1)..(j - 1)
        BY <1>1, <1>3, <2>1, <2>3, <3>2
      <4>2. t[k].depth >= t[j].depth
        BY <2>2, <4>1 DEF IsParent
      <4>3. QED
        BY <1>2, <3>2, <4>2
    <3>3. CASE k \in (at + 1)..(at + n)
      <4>1. q <= at
        BY <1>1, <1>3, <2>1, <2>3, <3>3
      <4>2. t[at + 1].depth >= t[j].depth
        <5>1. CASE j = at + 1
          BY <1>1, <2>1, <5>1
        <5>2. CASE j # at + 1
          <6>1. at + 1 \in (q + 1)..(j - 1)
            BY <1>1, <1>3, <2>1, <2>3, <4>1, <5>2
          <6>2. QED
            BY <2>2, <6>1 DEF IsParent
        <5>3. QED
          BY <5>1, <5>2
      <4>3. k - at \in 1..n /\ k = at + (k - at)
        BY <1>1, <1>3, <3>3
      <4>4. x[k].depth = s[k - at].depth + d /\ s[k - at].depth \in Nat
        BY <1>1, <1>2, <4>3
      <4>5. t[at + 1].depth <= d /\ t[at + 1].depth \in Nat
        BY <1>1, <1>3, <2>1
      <4>6. d \in Nat
        BY <1>3
      <4>7. s[k - at].depth + d >= d
        BY <4>4, <4>6
      <4>8. d >= t[j].depth
        BY <2>4, <4>2, <4>5, <4>6
      <4>9. s[k - at].depth + d >= t[j].depth
        BY <2>4, <4>4, <4>6, <4>7, <4>8
      <4>10. QED
        BY <4>4, <4>9
    <3>4. CASE k \in (at + n + 1)..((j + n) - 1)
      <4>1. k - n \in (at + 1)..m /\ k = (k - n) + n /\ k - n \in (q + 1)..(j - 1)
        BY <1>1, <1>3, <2>1, <2>3, <3>4
      <4>2. t[k - n].depth >= t[j].depth
        BY <2>2, <4>1 DEF IsParent
      <4>3. x[(k - n) + n] = t[k - n]
        BY <1>2, <4>1
      <4>4. QED
        BY <4>1, <4>2, <4>3
    <3>5. QED
      BY <1>1, <1>3, <2>1, <2>5, <3>2, <3>3, <3>4
  <2> HIDE DEF r
  <2>8. IsParent(x, j + n, r)
    <3>1. r # 0 => x[r].depth < x[j + n].depth
      BY <2>2, <2>4, <2>5, <2>6 DEF IsParent
    <3>2. \A k \in (r + 1)..((j + n) - 1) : x[k].depth >= x[j + n].depth
      BY <2>4, <2>7
    <3> DEFINE a == j + n
    <3>3. r \in 0..(a - 1)
      BY <2>5
    <3>6. r # 0 => x[r].depth < x[a].depth
      BY <3>1
    <3>7. \A k \in (r + 1)..(a - 1) : x[k].depth >= x[a].depth
      BY <3>2
    <3> HIDE DEF a
    <3>4. IsParent(x, a, r)
      BY <3>3, <3>6, <3>7, Zenon DEF IsParent
    <3>5. QED
      BY <3>4 DEF a
  <2>9. QED
    BY <1>2, <2>1, <2>8, ParentIs DEF q, r
<1>9. QED
  BY <1>5, <1>6, <1>7, <1>8 DEF n, m

\* What the nodes hang from that an erased branch leaves.
LEMMA EraseParents ==
    ASSUME NEW t \in Seq(Row), NEW i \in 1..Len(t), NEW l \in i..Len(t), l = LastOf(t, i),
           NEW x, IsErase(x, t, i, l)
    PROVE  /\ \A j \in 1..(i - 1) : ParentOf(x, j) = ParentOf(t, j)
           /\ \A j \in (l + 1)..Len(t) :
                  /\ ParentOf(t, j) \notin i..l
                  /\ ParentOf(x, j - (l - i + 1))
                       = IF ParentOf(t, j) < i THEN ParentOf(t, j) ELSE ParentOf(t, j) - (l - i + 1)
<1> DEFINE n == l - i + 1
           m == Len(t)
<1>1. /\ n \in Nat /\ m \in Nat /\ n >= 1 /\ i \in Nat /\ l \in Nat /\ i <= l /\ l <= m /\ l + 1 = i + n
      /\ \A k \in 1..m : t[k].depth \in Nat
  BY RowFacts
<1>2. /\ x \in Seq(Row) /\ Len(x) = m - n
      /\ \A k \in 1..(i - 1) : x[k] = t[k]
      /\ \A k \in (l + 1)..m : x[k - n] = t[k]
  BY DEF IsErase
<1>3. /\ \A k \in (i + 1)..l : t[k].depth > t[i].depth
      /\ l < m => t[l + 1].depth <= t[i].depth
  BY LastOfFacts
<1>4. \A j \in 1..m : IsParent(t, j, ParentOf(t, j))
  BY ParentIs
<1> HIDE DEF n, m
<1>5. ASSUME NEW j \in 1..(i - 1) PROVE ParentOf(x, j) = ParentOf(t, j)
  <2>1. j \in 1..m /\ j \in 1..Len(x) /\ j \in Nat
    BY <1>1, <1>2
  <2>2. \A k \in 0..(j - 1) : k # 0 => x[k] = t[k]
    BY <1>1, <1>2
  <2>3. x[j] = t[j]
    BY <1>2
  <2>4. IsParent(x, j, ParentOf(t, j))
    BY <1>4, <2>1, <2>2, <2>3 DEF IsParent
  <2>5. QED
    BY <1>2, <2>1, <2>4, ParentIs
<1>6. ASSUME NEW j \in (l + 1)..m
      PROVE  /\ ParentOf(t, j) \notin i..l
             /\ ParentOf(x, j - n) = IF ParentOf(t, j) < i THEN ParentOf(t, j) ELSE ParentOf(t, j) - n
  <2> DEFINE q == ParentOf(t, j)
             r == IF q < i THEN q ELSE q - n
             a == j - n
  <2>1. j \in 1..m /\ j \in Nat /\ l < m /\ l + 1 \in 1..m /\ i \in 1..m
    BY <1>1
  <2>2. IsParent(t, j, q)
    BY <1>4, <2>1
  <2> HIDE DEF q
  <2>3. q \in 0..(j - 1) /\ (q # 0 => t[q].depth < t[j].depth)
    BY <2>2 DEF IsParent
  <2>4. q \notin i..l
    <3>1. SUFFICES ASSUME q \in i..l PROVE FALSE
      OBVIOUS
    <3>2. q \in 1..m /\ q # 0
      BY <1>1, <3>1
    <3>3. t[q].depth >= t[i].depth
      <4>1. q = i \/ q \in (i + 1)..l
        BY <1>1, <3>1
      <4>2. QED
        BY <1>1, <1>3, <2>1, <3>2, <4>1
    <3>4. t[l + 1].depth >= t[j].depth
      <4>1. CASE j = l + 1
        BY <1>1, <2>1, <4>1
      <4>2. CASE j # l + 1
        <5>1. l + 1 \in (q + 1)..(j - 1)
          BY <1>1, <2>1, <3>1, <4>2
        <5>2. QED
          BY <2>2, <5>1 DEF IsParent
      <4>3. QED
        BY <4>1, <4>2
    <3>5. t[l + 1].depth <= t[i].depth
      BY <1>3, <2>1
    <3>6. t[q].depth < t[j].depth
      BY <2>3, <3>2
    <3>7. t[q].depth \in Nat /\ t[i].depth \in Nat /\ t[l + 1].depth \in Nat /\ t[j].depth \in Nat
      BY <1>1, <2>1, <3>2
    <3>8. QED
      BY <3>3, <3>4, <3>5, <3>6, <3>7
  <2>5. a \in 1..Len(x) /\ a \in i..Len(x) /\ a \in Nat /\ x[a] = t[j]
    BY <1>1, <1>2, <2>1
  <2> HIDE DEF a
  <2>6. a = j - n
    BY DEF a
  <2>7. r \in 0..(a - 1) /\ (r # 0 => q # 0)
    BY <1>1, <2>1, <2>3, <2>4, <2>6
  <2>8. r # 0 => x[r] = t[q]
    <3>1. r # 0 /\ q < i => q \in 1..(i - 1)
      BY <1>1, <2>3
    <3>2. ~(q < i) => q \in (l + 1)..m
      BY <1>1, <2>1, <2>3, <2>4
    <3>3. QED
      BY <1>2, <3>1, <3>2
  <2>9. r # 0 => x[r].depth < x[a].depth
    BY <2>3, <2>5, <2>7, <2>8
  <2>10. \A k \in (r + 1)..(a - 1) : x[k].depth >= x[a].depth
    <3>1. TAKE k \in (r + 1)..(a - 1)
    <3>2. CASE k < i
      <4>1. k \in 1..(i - 1) /\ k \in (q + 1)..(j - 1)
        BY <1>1, <2>1, <2>3, <2>4, <2>6, <2>7, <3>2
      <4>2. t[k].depth >= t[j].depth
        BY <2>2, <4>1 DEF IsParent
      <4>3. QED
        BY <1>2, <2>5, <4>1, <4>2
    <3>3. CASE ~(k < i)
      <4>1. k + n \in (l + 1)..m /\ (k + n) - n = k /\ k + n \in (q + 1)..(j - 1)
        BY <1>1, <2>1, <2>3, <2>4, <2>6, <2>7, <3>3
      <4>2. t[k + n].depth >= t[j].depth
        BY <2>2, <4>1 DEF IsParent
      <4>3. x[(k + n) - n] = t[k + n]
        BY <1>2, <4>1
      <4>4. QED
        BY <2>5, <4>1, <4>2, <4>3
    <3>4. QED
      BY <3>2, <3>3
  <2> HIDE DEF r
  <2>11. IsParent(x, a, r)
    BY <2>7, <2>9, <2>10, Zenon DEF IsParent
  <2>12. ParentOf(x, a) = r
    BY <1>2, <2>5, <2>11, ParentIs
  <2>13. QED
    BY <2>4, <2>12 DEF q, r, a
<1>7. QED
  BY <1>5, <1>6 DEF n, m

\* What the nodes of a branch that is taken out hang from.
LEMMA SubtreeParents ==
    ASSUME NEW t \in Seq(Row), NEW i \in 1..Len(t), NEW l \in i..Len(t), l = LastOf(t, i),
           NEW s \in Seq(Row), IsBranch(s, t, i, l)
    PROVE  /\ OneRoot(s)
           /\ \A k \in 2..Len(s) :
                  /\ ParentOf(t, i + (k - 1)) \in i..l
                  /\ ParentOf(t, i + (k - 1)) = i + (ParentOf(s, k) - 1)
<1> DEFINE n == Len(s)
           m == Len(t)
<1>1. /\ n \in Nat /\ m \in Nat /\ n >= 1 /\ i \in Nat /\ l \in Nat /\ i <= l /\ l <= m /\ l + 1 = i + n
      /\ \A k \in 1..m : t[k].depth \in Nat
      /\ \A k \in 1..n : s[k].depth \in Nat
  BY RowFacts DEF IsBranch
<1>2. \A k \in 1..n : /\ i + (k - 1) \in i..l /\ i + (k - 1) \in 1..m
                      /\ s[k].depth = t[i + (k - 1)].depth - t[i].depth
                      /\ k > 1 => s[k].depth >= 1
  BY DEF IsBranch
<1>3. OneRoot(s)
  <2>1. 1 \in 1..n /\ i + (1 - 1) = i
    BY <1>1
  <2>2. s[1].depth = t[i].depth - t[i].depth
    BY <1>2, <2>1
  <2>3. QED
    BY <1>1, <1>2, <2>2 DEF OneRoot, n
<1> HIDE DEF n, m
<1>4. ASSUME NEW k \in 2..n
      PROVE  /\ ParentOf(t, i + (k - 1)) \in i..l
             /\ ParentOf(t, i + (k - 1)) = i + (ParentOf(s, k) - 1)
  <2> DEFINE j == i + (k - 1)
             q == ParentOf(s, k)
             p == i + (q - 1)
  <2>1. k \in 1..n /\ k > 1 /\ j \in i..l /\ j \in 1..m /\ j \in Nat /\ 1 \in 1..n
    BY <1>1, <1>2
  <2>2. IsParent(s, k, q)
    BY <2>1, ParentIs DEF n
  <2> HIDE DEF q
  <2>3. q \in 0..(k - 1) /\ (q # 0 => s[q].depth < s[k].depth)
    BY <2>2 DEF IsParent
  <2>4. q # 0
    <3>1. SUFFICES ASSUME q = 0 PROVE FALSE
      OBVIOUS
    <3>2. 1 \in (q + 1)..(k - 1)
      BY <2>1, <3>1
    <3>3. s[1].depth >= s[k].depth
      BY <2>2, <3>2 DEF IsParent
    <3>4. s[1].depth = 0 /\ s[k].depth >= 1 /\ s[k].depth \in Nat
      BY <1>1, <1>3, <2>1 DEF OneRoot, n
    <3>5. QED
      BY <3>3, <3>4
  <2>5. q \in 1..n /\ q \in Nat /\ p \in i..l /\ p \in 1..m /\ p # 0
    BY <1>1, <2>1, <2>3, <2>4
  <2>6. \A a, b \in 1..n : s[a].depth < s[b].depth => t[i + (a - 1)].depth < t[i + (b - 1)].depth
    <3>1. TAKE a, b \in 1..n
    <3>2. /\ s[a].depth = t[i + (a - 1)].depth - t[i].depth
          /\ s[b].depth = t[i + (b - 1)].depth - t[i].depth
          /\ t[i + (a - 1)].depth \in Nat /\ t[i + (b - 1)].depth \in Nat /\ t[i].depth \in Nat
      BY <1>1, <1>2
    <3> DEFINE c == t[i + (a - 1)].depth
               d == t[i + (b - 1)].depth
               e == t[i].depth
    <3>3. s[a].depth = c - e /\ s[b].depth = d - e /\ c \in Nat /\ d \in Nat /\ e \in Nat
      BY <3>2
    <3> HIDE DEF c, d, e
    <3>4. s[a].depth < s[b].depth => c < d
      BY <3>3
    <3>5. QED
      BY <3>4 DEF c, d
  <2>7. \A a, b \in 1..n : s[a].depth >= s[b].depth => t[i + (a - 1)].depth >= t[i + (b - 1)].depth
    <3>1. TAKE a, b \in 1..n
    <3>2. /\ s[a].depth = t[i + (a - 1)].depth - t[i].depth
          /\ s[b].depth = t[i + (b - 1)].depth - t[i].depth
          /\ t[i + (a - 1)].depth \in Nat /\ t[i + (b - 1)].depth \in Nat /\ t[i].depth \in Nat
      BY <1>1, <1>2
    <3> DEFINE c == t[i + (a - 1)].depth
               d == t[i + (b - 1)].depth
               e == t[i].depth
    <3>3. s[a].depth = c - e /\ s[b].depth = d - e /\ c \in Nat /\ d \in Nat /\ e \in Nat
      BY <3>2
    <3> HIDE DEF c, d, e
    <3>4. s[a].depth >= s[b].depth => c >= d
      BY <3>3
    <3>5. QED
      BY <3>4 DEF c, d
  <2>8. t[p].depth < t[j].depth
    BY <2>1, <2>3, <2>4, <2>5, <2>6
  <2>9. \A a \in (p + 1)..(j - 1) : t[a].depth >= t[j].depth
    <3>1. TAKE a \in (p + 1)..(j - 1)
    <3>2. (a + 1) - i \in (q + 1)..(k - 1) /\ (a + 1) - i \in 1..n /\ i + (((a + 1) - i) - 1) = a
      BY <1>1, <2>1, <2>5
    <3>3. s[(a + 1) - i].depth >= s[k].depth
      BY <2>2, <3>2 DEF IsParent
    <3>4. t[i + (((a + 1) - i) - 1)].depth >= t[i + (k - 1)].depth
      BY <2>1, <2>7, <3>2, <3>3
    <3>5. QED
      BY <3>2, <3>4
  <2>10. p \in 0..(j - 1)
    BY <1>1, <2>1, <2>3, <2>5
  <2> HIDE DEF p, j
  <2>11. IsParent(t, j, p)
    BY <2>8, <2>9, <2>10, Zenon DEF IsParent
  <2>12. ParentOf(t, j) = p
    BY <2>1, <2>11, ParentIs DEF m
  <2>13. QED
    BY <2>5, <2>12 DEF j, p, q
<1>5. QED
  BY <1>3, <1>4 DEF n

\* A filter is in the branch of the one at i when what it hangs from is, and
\* hangs from a filter of the branch unless it is the root.
LEMMA BranchParents ==
    ASSUME NEW t \in Seq(Row), NEW i \in 1..Len(t), NEW j \in 1..Len(t)
    PROVE  /\ ParentOf(t, j) \in 0..(j - 1)
           /\ ParentOf(t, j) \in i..LastOf(t, i) => j \in i..LastOf(t, i)
           /\ j \in (i + 1)..LastOf(t, i) => ParentOf(t, j) \in i..LastOf(t, i)
<1> DEFINE l == LastOf(t, i)
           q == ParentOf(t, j)
<1>1. Len(t) \in Nat /\ l \in i..Len(t) /\ (\A k \in (i + 1)..l : t[k].depth > t[i].depth)
      /\ (l < Len(t) => t[l + 1].depth <= t[i].depth)
      /\ \A k \in 1..Len(t) : t[k].depth \in Nat
  BY RowFacts, LastOfFacts
<1>2. IsParent(t, j, q)
  BY ParentIs
<1> HIDE DEF l, q
<1>3. q \in 0..(j - 1) /\ (q # 0 => t[q].depth < t[j].depth)
  BY <1>2 DEF IsParent
<1>4. ASSUME q \in i..l PROVE j \in i..l
  <2>1. SUFFICES ASSUME ~(j <= l) PROVE FALSE
    BY <1>1, <1>3, <1>4
  <2>2. q \in 1..Len(t) /\ q # 0 /\ l < Len(t) /\ l + 1 \in 1..Len(t)
    BY <1>1, <1>4, <2>1
  <2>3. t[q].depth >= t[i].depth
    <3>1. q = i \/ q \in (i + 1)..l
      BY <1>1, <1>4
    <3>2. QED
      BY <1>1, <2>2, <3>1
  <2>4. t[l + 1].depth >= t[j].depth
    <3>1. CASE j = l + 1
      BY <1>1, <2>2, <3>1
    <3>2. CASE j # l + 1
      <4>1. l + 1 \in (q + 1)..(j - 1)
        BY <1>1, <1>4, <2>1, <3>2
      <4>2. QED
        BY <1>2, <4>1 DEF IsParent
    <3>3. QED
      BY <3>1, <3>2
  <2>5. QED
    BY <1>1, <1>3, <2>2, <2>3, <2>4
<1>5. ASSUME j \in (i + 1)..l PROVE q \in i..l
  <2>1. t[i].depth < t[j].depth
    BY <1>1, <1>5
  <2>2. ~(q < i)
    <3>1. SUFFICES ASSUME q < i PROVE FALSE
      OBVIOUS
    <3>2. i \in (q + 1)..(j - 1)
      BY <1>1, <1>3, <1>5, <3>1
    <3>3. t[i].depth >= t[j].depth
      BY <1>2, <3>2 DEF IsParent
    <3>4. QED
      BY <1>1, <2>1, <3>3
  <2>3. QED
    BY <1>1, <1>3, <1>5, <2>2
<1>6. QED
  BY <1>3, <1>4, <1>5 DEF l, q

-----------------------------------------------------------------------------
(* The forest of a sequence *)

\* A tree in which no filter occurs twice.
Plain(t) == IsTree(t) /\ Distinct(t)

\* Each filter of it has one place.
LEMMA PlainFacts ==
    ASSUME NEW t, Plain(t)
    PROVE  /\ t \in Seq(Row) /\ Len(t) \in Nat /\ DOMAIN t = 1..Len(t)
           /\ CellsOf(t) = {t[i].cell : i \in 1..Len(t)}
           /\ \A i \in 1..Len(t) : t[i].cell \in CellsOf(t) /\ IndexOf(t, t[i].cell) = i
           /\ \A c \in CellsOf(t) : IndexOf(t, c) \in 1..Len(t) /\ t[IndexOf(t, c)].cell = c
<1>1. t \in Seq(Row) /\ Len(t) \in Nat /\ DOMAIN t = 1..Len(t)
  BY RowFacts DEF Plain, IsTree
<1>2. CellsOf(t) = {t[i].cell : i \in 1..Len(t)} /\ \A i \in 1..Len(t) : t[i].cell \in CellsOf(t)
  BY <1>1 DEF CellsOf
<1>3. ASSUME NEW c \in CellsOf(t) PROVE IndexOf(t, c) \in 1..Len(t) /\ t[IndexOf(t, c)].cell = c
  <2>1. \E i \in 1..Len(t) : t[i].cell = c
    BY <1>2
  <2>2. QED
    BY <1>1, <2>1, Zenon DEF IndexOf
<1>4. ASSUME NEW i \in 1..Len(t) PROVE IndexOf(t, t[i].cell) = i
  <2>1. IndexOf(t, t[i].cell) \in 1..Len(t) /\ t[IndexOf(t, t[i].cell)].cell = t[i].cell
    BY <1>2, <1>3
  <2>2. QED
    BY <2>1 DEF Plain, Distinct
<1>5. QED
  BY <1>1, <1>2, <1>3, <1>4

\* The parent of a filter, place by place.
LEMMA ParentsIs ==
    ASSUME NEW t, Plain(t)
    PROVE  /\ Parents(t) = [c \in CellsOf(t) |-> Parents(t)[c]]
           /\ \A i \in 1..Len(t) : /\ Above(t, i) \in 1..i
                                   /\ Parents(t)[t[i].cell] = t[Above(t, i)].cell
           /\ \A c \in CellsOf(t) : Parents(t)[c] \in CellsOf(t)
<1>1. /\ t \in Seq(Row) /\ Len(t) \in Nat
      /\ \A i \in 1..Len(t) : t[i].cell \in CellsOf(t) /\ IndexOf(t, t[i].cell) = i
      /\ \A c \in CellsOf(t) : IndexOf(t, c) \in 1..Len(t) /\ t[IndexOf(t, c)].cell = c
  BY PlainFacts
<1>2. ASSUME NEW i \in 1..Len(t) PROVE Above(t, i) \in 1..i
  <2>1. ParentOf(t, i) \in 0..(i - 1)
    BY <1>1, ParentIs DEF IsParent
  <2>2. QED
    BY <1>1, <2>1 DEF Above
<1>3. \A c \in CellsOf(t) : Parents(t)[c] = t[Above(t, IndexOf(t, c))].cell
  BY DEF Parents
<1>4. \A c \in CellsOf(t) : Parents(t)[c] \in CellsOf(t)
  <2>1. TAKE c \in CellsOf(t)
  <2>2. IndexOf(t, c) \in 1..Len(t)
    BY <1>1
  <2>3. Above(t, IndexOf(t, c)) \in 1..Len(t)
    BY <1>1, <1>2, <2>2
  <2>4. QED
    BY <1>1, <1>3, <2>3
<1>5. \A i \in 1..Len(t) : Parents(t)[t[i].cell] = t[Above(t, i)].cell
  BY <1>1, <1>3
<1>6. Parents(t) = [c \in CellsOf(t) |-> Parents(t)[c]]
  BY DEF Parents
<1>7. QED
  BY <1>2, <1>4, <1>5, <1>6

\* Two functions from the filters of a tree are the same if they agree on the
\* filter at every place.
LEMMA OnCells ==
    ASSUME NEW t, Plain(t), NEW f, NEW g, \A i \in 1..Len(t) : f[t[i].cell] = g[t[i].cell]
    PROVE  \A c \in CellsOf(t) : f[c] = g[c]
<1>1. CellsOf(t) = {t[i].cell : i \in 1..Len(t)}
  BY PlainFacts
<1>2. QED
  BY <1>1

\* Insert attaches a branch: nobody in the tree gets another parent, nor in
\* the branch, but its root, which hangs from the filter at p.
LEMMA InsertForest ==
    ASSUME NEW t, Plain(t), NEW s, Plain(s), OneRoot(s), CellsOf(t) \cap CellsOf(s) = {},
           NEW at, NEW d, NEW p, Hangs(t, at, d, p),
           NEW x, x = Insert(t, at, s, d), Plain(x)
    PROVE  /\ CellsOf(x) = CellsOf(t) \cup CellsOf(s)
           /\ \A c \in CellsOf(t) : Parents(x)[c] = Parents(t)[c]
           /\ Parents(x)[s[1].cell] = IF p = 0 THEN s[1].cell ELSE t[p].cell
           /\ \A c \in CellsOf(s) : c # s[1].cell => Parents(x)[c] = Parents(s)[c]
<1> DEFINE n == Len(s)
           m == Len(t)
<1>1. /\ t \in Seq(Row) /\ m \in Nat /\ s \in Seq(Row) /\ n \in Nat /\ n >= 1
      /\ at \in 0..m /\ d \in Nat /\ p \in 0..at
  BY PlainFacts DEF Hangs, OneRoot
<1>2. IsInsert(x, t, s, at, d) /\ CellsOf(x) = CellsOf(t) \cup CellsOf(s)
  BY <1>1, InsertNodes, InsertCells
<1>3. /\ x \in Seq(Row) /\ Len(x) = m + n
      /\ \A k \in 1..at : x[k] = t[k]
      /\ \A k \in 1..n : x[at + k].cell = s[k].cell
      /\ \A k \in (at + 1)..m : x[k + n] = t[k]
  BY <1>2 DEF IsInsert
<1>4. /\ \A j \in 1..at : ParentOf(x, j) = ParentOf(t, j)
      /\ ParentOf(x, at + 1) = p
      /\ \A k \in 2..n : ParentOf(s, k) \in 1..(k - 1) /\ ParentOf(x, at + k) = at + ParentOf(s, k)
      /\ \A j \in (at + 1)..m :
             ParentOf(x, j + n) = IF ParentOf(t, j) <= at THEN ParentOf(t, j) ELSE ParentOf(t, j) + n
  BY <1>1, <1>2, InsertParents
<1>5. /\ \A i \in 1..Len(x) : Parents(x)[x[i].cell] = x[Above(x, i)].cell
      /\ \A i \in 1..m : Parents(t)[t[i].cell] = t[Above(t, i)].cell /\ Above(t, i) \in 1..i
      /\ \A i \in 1..n : Parents(s)[s[i].cell] = s[Above(s, i)].cell /\ Above(s, i) \in 1..i
  BY ParentsIs
<1> HIDE DEF n, m
<1>6. ASSUME NEW j \in 1..m PROVE Parents(x)[t[j].cell] = Parents(t)[t[j].cell]
  <2>1. ParentOf(t, j) \in 0..(j - 1)
    BY <1>1, ParentIs DEF IsParent, m
  <2>2. CASE j \in 1..at
    <3>1. Above(x, j) = Above(t, j) /\ Above(t, j) \in 1..at /\ j \in 1..Len(x)
      BY <1>1, <1>3, <1>4, <1>5, <2>2 DEF Above
    <3>2. QED
      BY <1>3, <1>5, <2>2, <3>1
  <2>3. CASE j \in (at + 1)..m
    <3> DEFINE q == ParentOf(t, j)
    <3>1. j + n \in 1..Len(x) /\ x[j + n] = t[j] /\ j + n \in Nat
      BY <1>1, <1>3, <2>3
    <3>2. ParentOf(x, j + n) = IF q <= at THEN q ELSE q + n
      BY <1>4, <2>3
    <3>3. CASE q = 0
      <4>1. Above(x, j + n) = j + n /\ Above(t, j) = j
        BY <1>1, <3>2, <3>3 DEF Above
      <4>2. QED
        BY <1>5, <3>1, <4>1
    <3>4. CASE q # 0 /\ q <= at
      <4>1. Above(x, j + n) = q /\ Above(t, j) = q /\ q \in 1..at
        BY <1>1, <2>1, <3>2, <3>4 DEF Above
      <4>2. x[q] = t[q]
        BY <1>3, <4>1
      <4>3. QED
        BY <1>5, <3>1, <4>1, <4>2
    <3>5. CASE q # 0 /\ ~(q <= at)
      <4>1. q \in (at + 1)..m /\ q + n # 0
        BY <1>1, <2>1, <2>3, <3>5
      <4>2. Above(x, j + n) = q + n /\ Above(t, j) = q
        BY <3>2, <3>5, <4>1 DEF Above
      <4>3. x[q + n] = t[q]
        BY <1>3, <4>1
      <4>4. QED
        BY <1>5, <3>1, <4>2, <4>3
    <3>6. QED
      BY <3>3, <3>4, <3>5
  <2>4. QED
    BY <1>1, <2>2, <2>3
<1>7. Parents(x)[s[1].cell] = IF p = 0 THEN s[1].cell ELSE t[p].cell
  <2>1. at + 1 \in 1..Len(x) /\ at + 1 # 0 /\ x[at + 1].cell = s[1].cell
    BY <1>1, <1>3
  <2>2. Above(x, at + 1) = IF p = 0 THEN at + 1 ELSE p
    BY <1>4 DEF Above
  <2>3. p # 0 => x[p] = t[p]
    BY <1>1, <1>3
  <2>4. QED
    BY <1>5, <2>1, <2>2, <2>3
<1>8. ASSUME NEW k \in 2..n PROVE Parents(x)[s[k].cell] = Parents(s)[s[k].cell]
  <2> DEFINE q == ParentOf(s, k)
  <2>1. q \in 1..(k - 1) /\ ParentOf(x, at + k) = at + q
    BY <1>4
  <2>2. q # 0 /\ q \in 1..n /\ k \in 1..n /\ at + q # 0 /\ at + k \in 1..Len(x)
    BY <1>1, <1>3, <2>1
  <2>3. Above(x, at + k) = at + q /\ Above(s, k) = q
    BY <2>1, <2>2 DEF Above
  <2>4. x[at + k].cell = s[k].cell /\ x[at + q].cell = s[q].cell
    BY <1>3, <2>2
  <2>5. QED
    BY <1>5, <2>2, <2>3, <2>4
<1>9. \A c \in CellsOf(t) : Parents(x)[c] = Parents(t)[c]
  BY <1>6, OnCells DEF m
<1>10. \A c \in CellsOf(s) : c # s[1].cell => Parents(x)[c] = Parents(s)[c]
  <2>1. TAKE c \in CellsOf(s)
  <2>2. PICK k \in 1..n : c = s[k].cell
    BY PlainFacts DEF n
  <2>3. k = 1 \/ k \in 2..n
    BY <1>1, <2>2
  <2>4. QED
    BY <1>8, <2>2, <2>3
<1>11. QED
  BY <1>2, <1>7, <1>9, <1>10

\* Erase detaches a branch: nobody who stays gets another parent.
LEMMA EraseForest ==
    ASSUME NEW t, Plain(t), NEW i \in 1..Len(t), NEW x, x = Erase(t, i), Plain(x)
    PROVE  \A c \in CellsOf(x) : c \in CellsOf(t) /\ Parents(x)[c] = Parents(t)[c]
<1> DEFINE m == Len(t)
           l == LastOf(t, i)
           n == l - i + 1
<1>1. t \in Seq(Row) /\ m \in Nat /\ l \in i..m /\ i \in Nat /\ l \in Nat
  BY PlainFacts, LastOfFacts
<1>2. IsErase(x, t, i, l)
  BY <1>1, EraseNodes
<1> HIDE DEF l
<1>3. /\ x \in Seq(Row) /\ Len(x) = m - n
      /\ \A k \in 1..(i - 1) : x[k] = t[k]
      /\ \A k \in (l + 1)..m : x[k - n] = t[k]
  BY <1>2 DEF IsErase
<1>4. /\ \A j \in 1..(i - 1) : ParentOf(x, j) = ParentOf(t, j)
      /\ \A j \in (l + 1)..m :
             /\ ParentOf(t, j) \notin i..l
             /\ ParentOf(x, j - n) = IF ParentOf(t, j) < i THEN ParentOf(t, j) ELSE ParentOf(t, j) - n
  BY <1>1, <1>2, EraseParents DEF l
<1>5. /\ \A j \in 1..Len(x) : Parents(x)[x[j].cell] = x[Above(x, j)].cell
      /\ \A j \in 1..m : Parents(t)[t[j].cell] = t[Above(t, j)].cell /\ Above(t, j) \in 1..j
  BY ParentsIs
<1>6. \A j \in 1..m : ParentOf(t, j) \in 0..(j - 1)
  BY <1>1, ParentIs DEF IsParent
<1>7. n \in Nat /\ n >= 1 /\ l + 1 = i + n
  BY <1>1
<1> HIDE DEF n, m
<1>8. ASSUME NEW j \in 1..(i - 1) PROVE Parents(x)[x[j].cell] = Parents(t)[t[j].cell] /\ x[j] = t[j]
  <2>1. Above(x, j) = Above(t, j) /\ j \in 1..m
    BY <1>1, <1>4 DEF Above
  <2>2. Above(t, j) \in 1..(i - 1) /\ j \in 1..Len(x)
    BY <1>1, <1>3, <1>5, <1>7, <2>1
  <2>3. QED
    BY <1>3, <1>5, <2>1, <2>2
<1>9. ASSUME NEW j \in (l + 1)..m
      PROVE  Parents(x)[x[j - n].cell] = Parents(t)[t[j].cell] /\ x[j - n] = t[j]
  <2> DEFINE q == ParentOf(t, j)
  <2>1. j \in 1..m /\ j \in Nat /\ j - n \in 1..Len(x) /\ x[j - n] = t[j] /\ q \in 0..(j - 1) /\ q \notin i..l
    BY <1>1, <1>3, <1>4, <1>6, <1>7
  <2>2. ParentOf(x, j - n) = IF q < i THEN q ELSE q - n
    BY <1>4
  <2>3. CASE q = 0
    <3>1. Above(x, j - n) = j - n /\ Above(t, j) = j
      BY <1>1, <2>2, <2>3 DEF Above
    <3>2. QED
      BY <1>5, <2>1, <3>1
  <2>4. CASE q # 0 /\ q < i
    <3>1. Above(x, j - n) = q /\ Above(t, j) = q /\ q \in 1..(i - 1)
      BY <1>1, <2>1, <2>2, <2>4 DEF Above
    <3>2. QED
      BY <1>3, <1>5, <2>1, <3>1
  <2>5. CASE q # 0 /\ ~(q < i)
    <3>1. q \in (l + 1)..m /\ q - n # 0
      BY <1>1, <1>7, <2>1, <2>5
    <3>2. Above(x, j - n) = q - n /\ Above(t, j) = q
      BY <2>2, <2>5, <3>1 DEF Above
    <3>3. x[q - n] = t[q]
      BY <1>3, <3>1
    <3>4. QED
      BY <1>5, <2>1, <3>2, <3>3
  <2>6. QED
    BY <2>3, <2>4, <2>5
<1>10. ASSUME NEW k \in 1..Len(x)
       PROVE  x[k].cell \in CellsOf(t) /\ Parents(x)[x[k].cell] = Parents(t)[x[k].cell]
  <2>1. CASE k \in 1..(i - 1)
    <3>1. x[k] = t[k] /\ k \in 1..m
      BY <1>1, <1>8, <2>1
    <3>2. QED
      BY <1>8, <2>1, <3>1, PlainFacts DEF m
  <2>2. CASE k \in i..Len(x)
    <3>1. k + n \in (l + 1)..m /\ (k + n) - n = k /\ k + n \in 1..m
      BY <1>1, <1>3, <1>7, <2>2
    <3>2. x[k] = t[k + n] /\ Parents(x)[x[(k + n) - n].cell] = Parents(t)[t[k + n].cell]
      BY <1>9, <3>1
    <3>3. QED
      BY <3>1, <3>2, PlainFacts DEF m
  <2>3. QED
    BY <1>1, <2>1, <2>2
<1>11. CellsOf(x) = {x[k].cell : k \in 1..Len(x)}
  BY PlainFacts
<1>12. QED
  BY <1>10, <1>11

\* Subtree takes a branch out: its root hangs from none, the others from what
\* they did.
LEMMA SubtreeForest ==
    ASSUME NEW t, Plain(t), NEW i \in 1..Len(t), NEW s, s = Subtree(t, i), Plain(s)
    PROVE  /\ OneRoot(s) /\ s[1].cell = t[i].cell /\ Parents(s)[t[i].cell] = t[i].cell
           /\ \A c \in CellsOf(s) : c # t[i].cell => Parents(s)[c] = Parents(t)[c]
<1> DEFINE m == Len(t)
           n == Len(s)
           l == LastOf(t, i)
<1>1. t \in Seq(Row) /\ m \in Nat /\ n \in Nat /\ l \in i..m /\ i \in Nat /\ l \in Nat /\ s \in Seq(Row)
  BY PlainFacts, LastOfFacts
<1>2. IsBranch(s, t, i, l)
  BY SubtreeFacts DEF Plain
<1> HIDE DEF l
<1>3. /\ n = l - i + 1 /\ n >= 1
      /\ \A k \in 1..n : i + (k - 1) \in 1..m /\ s[k].cell = t[i + (k - 1)].cell
  BY <1>2 DEF IsBranch
<1>4. /\ OneRoot(s)
      /\ \A k \in 2..n : /\ ParentOf(t, i + (k - 1)) \in i..l
                         /\ ParentOf(t, i + (k - 1)) = i + (ParentOf(s, k) - 1)
  BY <1>1, <1>2, SubtreeParents DEF l
<1>5. /\ \A j \in 1..n : Parents(s)[s[j].cell] = s[Above(s, j)].cell
      /\ \A j \in 1..m : Parents(t)[t[j].cell] = t[Above(t, j)].cell
  BY ParentsIs
<1>6. \A j \in 1..n : ParentOf(s, j) \in 0..(j - 1)
  BY <1>1, ParentIs DEF IsParent
<1> HIDE DEF n, m
<1>7. s[1].cell = t[i].cell
  <2>1. 1 \in 1..n /\ i + (1 - 1) = i
    BY <1>1, <1>3
  <2>2. QED
    BY <1>3, <2>1
<1>8. Parents(s)[t[i].cell] = t[i].cell
  <2>1. 1 \in 1..n
    BY <1>1, <1>3
  <2>2. ParentOf(s, 1) = 0
    BY <1>6, <2>1
  <2>3. QED
    BY <1>5, <1>7, <2>1, <2>2 DEF Above
<1>9. ASSUME NEW k \in 2..n PROVE Parents(s)[s[k].cell] = Parents(t)[s[k].cell]
  <2> DEFINE q == ParentOf(s, k)
             j == i + (k - 1)
  <2>1. k \in 1..n /\ j \in 1..m /\ j \in Nat /\ s[k].cell = t[j].cell
    BY <1>1, <1>3
  <2>2. q \in 0..(k - 1) /\ ParentOf(t, j) \in i..l /\ ParentOf(t, j) = i + (q - 1)
    BY <1>4, <1>6, <2>1
  <2> HIDE DEF q, j
  <2>3. q # 0 /\ q \in 1..n /\ i + (q - 1) # 0
    BY <1>1, <2>1, <2>2
  <2>4. Above(s, k) = q /\ Above(t, j) = i + (q - 1)
    BY <2>2, <2>3 DEF Above, q
  <2>5. s[q].cell = t[i + (q - 1)].cell
    BY <1>3, <2>3
  <2>6. QED
    BY <1>5, <2>1, <2>4, <2>5
<1>10. ASSUME NEW c \in CellsOf(s), c # t[i].cell PROVE Parents(s)[c] = Parents(t)[c]
  <2>1. PICK k \in 1..n : c = s[k].cell
    BY PlainFacts DEF n
  <2>2. k # 1
    BY <1>7, <1>10, <2>1
  <2>3. k \in 2..n
    BY <1>1, <2>1, <2>2
  <2>4. QED
    BY <1>9, <2>1, <2>3
<1>11. QED
  BY <1>4, <1>7, <1>8, <1>10

\* What is below a filter in the forest is its branch in the sequence.
LEMMA BranchIs ==
    ASSUME NEW t, Plain(t), NEW i \in 1..Len(t)
    PROVE  Forest!Branch(Parents(t), t[i].cell) = CellsOf(Subtree(t, i))
<1> DEFINE l == LastOf(t, i)
           c == t[i].cell
           B == CellsOf(Subtree(t, i))
           P == Parents(t)
<1>1. /\ t \in Seq(Row) /\ Len(t) \in Nat /\ i \in Nat /\ l \in i..Len(t)
      /\ CellsOf(t) = {t[k].cell : k \in 1..Len(t)}
  BY PlainFacts, LastOfFacts
<1>2. B = {t[k].cell : k \in i..l}
  BY SubtreeCells DEF Plain
<1>3. /\ \A k \in 1..Len(t) : Above(t, k) \in 1..k /\ P[t[k].cell] = t[Above(t, k)].cell
      /\ DOMAIN P = CellsOf(t)
  BY ParentsIs
<1>4. \A k \in 1..Len(t) : /\ ParentOf(t, k) \in 0..(k - 1)
                           /\ ParentOf(t, k) \in i..l => k \in i..l
                           /\ k \in (i + 1)..l => ParentOf(t, k) \in i..l
  BY <1>1, BranchParents
<1>5. \A j, k \in 1..Len(t) : t[j].cell = t[k].cell => j = k
  BY DEF Plain, Distinct
<1> HIDE DEF l, B, P
<1>6. c \in B /\ B \subseteq CellsOf(t)
  BY <1>1, <1>2
<1>7. Forest!Closed(P, B)
  <2>1. ASSUME NEW f \in CellsOf(t), P[f] \in B PROVE f \in B
    <3>1. PICK k \in 1..Len(t) : f = t[k].cell
      BY <1>1
    <3>2. PICK j \in i..l : P[f] = t[j].cell
      BY <1>2, <2>1
    <3>3. j \in 1..Len(t) /\ Above(t, k) \in 1..Len(t)
      BY <1>1, <1>3
    <3>4. Above(t, k) = j
      BY <1>3, <1>5, <3>1, <3>2, <3>3
    <3>5. k \in i..l
      <4>1. CASE ParentOf(t, k) = 0
        BY <3>4, <4>1 DEF Above
      <4>2. CASE ParentOf(t, k) # 0
        BY <1>4, <3>4, <4>2 DEF Above
      <4>3. QED
        BY <4>1, <4>2
    <3>6. QED
      BY <1>2, <3>1, <3>5
  <2>2. QED
    BY <1>3, <2>1 DEF Forest!Closed
<1>8. ASSUME NEW S \in SUBSET CellsOf(t), c \in S, Forest!Closed(P, S) PROVE B \subseteq S
  <2> DEFINE Out == {k \in i..l : t[k].cell \notin S}
  <2>1. ASSUME Out # {} PROVE FALSE
    <3>1. Out \subseteq Nat
      BY <1>1
    <3>2. Min(Out) \in Out /\ \A k \in Out : Min(Out) <= k
      <4> HIDE DEF Out
      <4>1. QED
        BY <2>1, <3>1, MinFacts
    <3>3. PICK k \in i..l : t[k].cell \notin S /\ \A j \in Out : k <= j
      BY <3>2
    <3>4. k # i /\ k \in (i + 1)..l /\ k \in 1..Len(t)
      BY <1>1, <1>8, <3>3
    <3>5. ParentOf(t, k) \in i..l /\ ParentOf(t, k) \in 0..(k - 1)
      BY <1>4, <3>4
    <3>6. ParentOf(t, k) \notin Out
      BY <1>1, <3>3, <3>5
    <3>7. t[ParentOf(t, k)].cell \in S
      BY <3>5, <3>6
    <3>8. ParentOf(t, k) # 0
      BY <1>1, <3>5
    <3>9. P[t[k].cell] \in S
      BY <1>3, <3>4, <3>7, <3>8 DEF Above
    <3>10. t[k].cell \in S
      BY <1>1, <1>3, <1>8, <3>4, <3>9 DEF Forest!Closed
    <3>11. QED
      BY <3>3, <3>10
  <2>2. QED
    BY <1>2, <2>1
<1>9. Forest!Branch(P, c) = B
  <2>1. Forest!Branch(P, c) =
            {f \in CellsOf(t) : \A S \in SUBSET CellsOf(t) : c \in S /\ Forest!Closed(P, S) => f \in S}
    BY <1>3 DEF Forest!Branch
  <2>2. QED
    BY <1>6, <1>7, <1>8, <2>1
<1>10. QED
  BY <1>9 DEF P, B

\* The parents of a sequence have no cycle, nor have others for which each
\* filter keeps its parent or hangs from none or from one that is not there.
LEMMA NoCycleIs ==
    ASSUME NEW t, Plain(t), NEW g, DOMAIN g = CellsOf(t),
           \A c \in CellsOf(t) : g[c] = c \/ g[c] \notin CellsOf(t) \/ g[c] = Parents(t)[c]
    PROVE  Forest!Acyclic(g)
<1>1. SUFFICES ASSUME NEW S \in SUBSET CellsOf(t), S # {}
               PROVE  \E f \in S : g[f] = f \/ g[f] \notin S
  BY DEF Forest!Acyclic
<1> DEFINE In == {k \in 1..Len(t) : t[k].cell \in S}
<1>2. /\ t \in Seq(Row) /\ Len(t) \in Nat
      /\ CellsOf(t) = {t[k].cell : k \in 1..Len(t)}
      /\ \A k \in 1..Len(t) : t[k].cell \in CellsOf(t)
  BY PlainFacts
<1>3. In # {} /\ In \subseteq Nat
  BY <1>1, <1>2
<1>4. Min(In) \in In /\ \A k \in In : Min(In) <= k
  <2> HIDE DEF In
  <2>1. QED
    BY <1>3, MinFacts
<1>5. PICK k \in 1..Len(t) : t[k].cell \in S /\ \A j \in In : k <= j
  BY <1>4
<1>6. Above(t, k) \in 1..k /\ Parents(t)[t[k].cell] = t[Above(t, k)].cell
  BY ParentsIs
<1>7. CASE Above(t, k) = k
  BY <1>1, <1>2, <1>5, <1>6, <1>7
<1>8. CASE Above(t, k) # k
  <2>1. Above(t, k) \in 1..Len(t) /\ ~(k <= Above(t, k))
    BY <1>2, <1>6, <1>8
  <2>2. t[Above(t, k)].cell \notin S
    BY <1>5, <2>1
  <2>3. QED
    BY <1>1, <1>2, <1>5, <1>6, <2>2
<1>9. QED
  BY <1>7, <1>8

\* Where the branch of a moved filter goes in what is left without it.
LEMMA MoveHangs ==
    ASSUME NEW t, IsTree(t), NEW i \in 1..Len(t), NEW p \in 1..Len(t), NEW d, MayMove(t, i, p, d),
           NEW e, e = Erase(t, i), NEW s, s = Subtree(t, i),
           NEW at, at = LastOf(t, p),
           NEW at2, at2 = IF i <= at THEN at - Len(s) ELSE at
    PROVE  \E p2 : /\ Hangs(e, at2, d, p2)
                   /\ p2 = 0 <=> d = 0
                   /\ p2 # 0 => p2 \in 1..Len(e) /\ e[p2].cell = t[p].cell
<1> DEFINE l == LastOf(t, i)
           n == Len(s)
<1>1. /\ t \in Seq(Row) /\ Len(t) \in Nat /\ i \in Nat /\ i >= 1 /\ i <= Len(t)
      /\ \A k \in 1..Len(t) : t[k].depth \in Nat
  BY RowFacts DEF IsTree
<1>2. /\ d \in Nat /\ at \in 1..Len(t) /\ (at < i \/ at >= l)
      /\ at = l => d <= t[i].depth
      /\ at < Len(t) => t[at + 1].depth <= d
  BY <1>1, MovePlace
<1>3. l \in i..Len(t) /\ (l < Len(t) => t[l + 1].depth <= t[i].depth)
  BY <1>1, LastOfFacts
<1>4. n = l - i + 1
  BY <1>1, SubtreeFacts DEF IsBranch
<1>5. IsErase(e, t, i, l)
  BY <1>1, EraseNodes
<1>6. at \in p..Len(t) /\ \A k \in (p + 1)..at : t[k].depth > t[p].depth
  BY <1>1, LastOfFacts
<1>7. (p \notin i..l /\ d = t[p].depth + 1) \/ (p = 1 /\ d = 0)
  BY DEF MayMove
<1> HIDE DEF l, n
<1>8. /\ Len(e) = Len(t) - n /\ at \in Nat /\ l \in Nat /\ n \in Nat /\ n >= 1 /\ p \in Nat /\ p >= 1
      /\ at2 = IF i <= at THEN at - n ELSE at
  BY <1>1, <1>2, <1>3, <1>4, <1>5 DEF IsErase, n
<1>9. /\ \A k \in 1..(i - 1) : e[k] = t[k]
      /\ \A k \in (l + 1)..Len(t) : e[k - n] = t[k]
  BY <1>4, <1>5 DEF IsErase
<1>10. at2 \in 0..Len(e) /\ (at2 = at \/ at2 = at - n)
  BY <1>1, <1>2, <1>3, <1>4, <1>8
<1>11. at2 < Len(e) => e[at2 + 1].depth <= d
  <2>1. SUFFICES ASSUME at2 < Len(e) PROVE e[at2 + 1].depth <= d
    OBVIOUS
  <2>2. CASE at + 1 < i
    <3>1. at + 1 \in 1..(i - 1) /\ at < Len(t) /\ at2 = at
      BY <1>1, <1>8, <2>2
    <3>2. e[at2 + 1] = t[at + 1]
      BY <1>9, <3>1
    <3>3. QED
      BY <1>2, <3>1, <3>2
  <2>3. CASE at + 1 = i
    <3>1. /\ l < Len(t) /\ l + 1 \in (l + 1)..Len(t) /\ (l + 1) - n = at2 + 1 /\ l + 1 \in 1..Len(t)
          /\ at < Len(t)
      BY <1>1, <1>3, <1>4, <1>8, <2>1, <2>3
    <3>2. e[(l + 1) - n] = t[l + 1]
      BY <1>9, <3>1
    <3>3. t[l + 1].depth <= t[i].depth /\ t[i].depth <= d
      BY <1>2, <1>3, <2>3, <3>1
    <3>4. t[l + 1].depth \in Nat /\ t[i].depth \in Nat
      BY <1>1, <3>1
    <3>5. QED
      BY <1>2, <3>1, <3>2, <3>3, <3>4
  <2>4. CASE at >= l
    <3>1. at < Len(t) /\ at + 1 \in (l + 1)..Len(t) /\ (at + 1) - n = at2 + 1
      BY <1>1, <1>3, <1>8, <2>1, <2>4
    <3>2. e[(at + 1) - n] = t[at + 1]
      BY <1>9, <3>1
    <3>3. QED
      BY <1>2, <3>1, <3>2
  <2>5. QED
    BY <1>1, <1>2, <1>8, <2>2, <2>3, <2>4
<1>12. CASE d = 0
  <2>1. Hangs(e, at2, d, 0)
    BY <1>2, <1>8, <1>10, <1>11, <1>12 DEF Hangs
  <2>2. QED
    BY <1>12, <2>1
<1>13. CASE d # 0
  <2>1. p \notin i..l /\ d = t[p].depth + 1 /\ p \in 1..Len(t)
    BY <1>7, <1>13
  <2> DEFINE p2 == IF p < i THEN p ELSE p - n
  <2>2. p2 \in 1..Len(e) /\ p2 <= at2 /\ p2 \in 1..at2 /\ p2 \in 0..at2 /\ p2 # 0
    BY <1>1, <1>2, <1>3, <1>4, <1>6, <1>8, <2>1
  <2>3. e[p2] = t[p]
    <3>1. p < i => p \in 1..(i - 1)
      BY <1>1, <1>8
    <3>2. ~(p < i) => p \in (l + 1)..Len(t)
      BY <1>1, <1>3, <2>1
    <3>3. QED
      BY <1>9, <3>1, <3>2
  <2>4. ASSUME NEW k \in (p2 + 1)..at2 PROVE e[k].depth > e[p2].depth
    <3>1. CASE k < i
      <4>1. p < i /\ k \in 1..(i - 1) /\ k \in (p + 1)..at
        BY <1>1, <1>3, <1>4, <1>8, <1>10, <2>1, <2>2, <3>1
      <4>2. QED
        BY <1>6, <1>9, <2>3, <4>1
    <3>2. CASE ~(k < i)
      <4>4. k \in Nat /\ k >= i /\ k <= at2 /\ i + n = l + 1
        BY <1>1, <1>3, <1>4, <1>8, <1>10, <2>2, <3>2
      <4>5. ~(at < i) /\ at2 = at - n
        BY <1>1, <1>8, <4>4
      <4>6. k + n \in (l + 1)..Len(t) /\ (k + n) - n = k
        BY <1>1, <1>2, <1>8, <4>4, <4>5
      <4>7. k + n <= at /\ k + n > p
        <5>1. CASE p < i
          BY <1>1, <1>8, <4>4, <4>5, <5>1
        <5>2. CASE ~(p < i)
          <6>1. k >= (p - n) + 1
            BY <1>8, <2>2, <5>2
          <6>2. QED
            BY <1>8, <4>4, <4>5, <6>1
        <5>3. QED
          BY <5>1, <5>2
      <4>1. k + n \in (l + 1)..Len(t) /\ (k + n) - n = k /\ k + n \in (p + 1)..at
        BY <1>8, <4>4, <4>6, <4>7
      <4>2. e[(k + n) - n] = t[k + n]
        BY <1>9, <4>1
      <4>3. QED
        BY <1>6, <2>3, <4>1, <4>2
    <3>3. QED
      BY <3>1, <3>2
  <2> HIDE DEF p2
  <2>5. d = e[p2].depth + 1
    BY <2>1, <2>3
  <2>6. Hangs(e, at2, d, p2)
    BY <1>2, <1>10, <1>11, <1>13, <2>2, <2>4, <2>5 DEF Hangs
  <2>7. QED
    BY <1>13, <2>2, <2>3, <2>6
<1>14. QED
  BY <1>12, <1>13

\* Moving a branch gives its root another parent, and nobody else.
LEMMA MovedForest ==
    ASSUME NEW t, GoodTree(t), NEW i \in 1..Len(t), NEW p \in 1..Len(t), NEW d,
           MayMove(t, i, p, d), d # 0 \/ t[i].kind = "data",
           NEW u, u = Moved(t, i, LastOf(t, p), d)
    PROVE  Parents(u) = [Parents(t) EXCEPT ![t[i].cell] = IF d = 0 THEN t[i].cell ELSE t[p].cell]
<1> DEFINE s == Subtree(t, i)
           e == Erase(t, i)
           l == LastOf(t, i)
           at == LastOf(t, p)
           at2 == IF i <= at THEN at - Len(s) ELSE at
           c == t[i].cell
           q == IF d = 0 THEN c ELSE t[p].cell
<1>1. /\ IsTree(t) /\ Plain(t) /\ CellsOf(t) \subseteq Cells
  BY DEF GoodTree, Plain
<1>2. /\ d \in Nat /\ at \in 1..Len(t) /\ (at < i \/ at >= l)
      /\ at = l => d <= t[i].depth
  BY <1>1, MovePlace
<1>3. GoodTree(e) /\ Addable(e, s) /\ CellsOf(t) = CellsOf(e) \cup CellsOf(s)
  BY EraseGood, BranchAddable
<1>4. Plain(e) /\ Plain(s) /\ CellsOf(e) \cap CellsOf(s) = {}
  BY <1>3 DEF GoodTree, Addable, Plain
<1>5. u = Insert(e, at2, s, d)
  <2>1. at \in 0..Len(t) /\ (at < i \/ at >= LastOf(t, i)) /\ (at = LastOf(t, i) => d <= t[i].depth)
    BY <1>2
  <2> HIDE DEF at
  <2>2. Moved(t, i, at, d) = Insert(e, at2, s, d)
    BY <1>1, <1>2, <2>1, MovedIs
  <2>3. QED
    BY <2>2 DEF at
<1>6. Plain(u) /\ CellsOf(u) = CellsOf(t)
  BY MovedGood DEF GoodTree, Plain
<1>7. PICK p2 : /\ Hangs(e, at2, d, p2)
                /\ p2 = 0 <=> d = 0
                /\ p2 # 0 => p2 \in 1..Len(e) /\ e[p2].cell = t[p].cell
  BY <1>1, MoveHangs
<1>8. /\ OneRoot(s) /\ s[1].cell = c
      /\ \A f \in CellsOf(s) : f # c => Parents(s)[f] = Parents(t)[f]
  BY <1>1, <1>4, SubtreeForest
<1>9. \A f \in CellsOf(e) : Parents(e)[f] = Parents(t)[f]
  BY <1>1, <1>4, EraseForest
<1> HIDE DEF s, e, at, at2
<1>10. /\ \A f \in CellsOf(e) : Parents(u)[f] = Parents(e)[f]
       /\ Parents(u)[s[1].cell] = IF p2 = 0 THEN s[1].cell ELSE e[p2].cell
       /\ \A f \in CellsOf(s) : f # s[1].cell => Parents(u)[f] = Parents(s)[f]
  BY <1>4, <1>5, <1>6, <1>7, <1>8, InsertForest
<1>11. c \in CellsOf(s) /\ c \in CellsOf(t)
  <2>1. c \in CellsOf(t)
    BY <1>1, PlainFacts
  <2>2. s[1].cell \in CellsOf(s)
    <3>1. 1 \in 1..Len(s)
      BY <1>4, <1>8, PlainFacts DEF OneRoot
    <3>2. QED
      BY <1>4, <3>1, PlainFacts
  <2>3. QED
    BY <1>8, <2>1, <2>2
<1>12. Parents(u)[c] = q
  BY <1>7, <1>8, <1>10
<1>13. \A f \in CellsOf(t) : f # c => Parents(u)[f] = Parents(t)[f]
  BY <1>3, <1>8, <1>9, <1>10
<1>14. /\ Parents(u) = [f \in CellsOf(u) |-> Parents(u)[f]]
       /\ Parents(t) = [f \in CellsOf(t) |-> Parents(t)[f]]
  BY <1>1, <1>6, ParentsIs
<1> HIDE DEF q, c
<1>15. Parents(u) = [Parents(t) EXCEPT ![c] = q]
  BY <1>6, <1>11, <1>12, <1>13, <1>14
<1>16. QED
  BY <1>15 DEF c, q

\* A branch may be moved to no place below it.
LEMMA MovedOutside ==
    ASSUME NEW t, GoodTree(t), NEW i \in 1..Len(t), NEW p \in 1..Len(t), p \notin i..LastOf(t, i)
    PROVE  t[p].cell \in CellsOf(t) \ Forest!Branch(Parents(t), t[i].cell)
<1>1. Plain(t) /\ IsTree(t)
  BY DEF GoodTree, Plain
<1>2. Forest!Branch(Parents(t), t[i].cell) = CellsOf(Subtree(t, i))
  BY <1>1, BranchIs
<1>3. CellsOf(Subtree(t, i)) = {t[k].cell : k \in i..LastOf(t, i)}
  BY <1>1, SubtreeCells
<1>4. LastOf(t, i) \in i..Len(t) /\ Len(t) \in Nat
  BY <1>1, PlainFacts, LastOfFacts
<1>5. t[p].cell \in CellsOf(t) /\ \A k \in 1..Len(t) : t[k].cell = t[p].cell => k = p
  BY <1>1, PlainFacts DEF Plain, Distinct
<1>6. QED
  BY <1>2, <1>3, <1>4, <1>5

\* Trees that differ in properties and caches only are the same forest.
LEMMA SameParents ==
    ASSUME NEW t, NEW u, Same(t, u)
    PROVE  Parents(u) = Parents(t)
<1>1. /\ Len(u) = Len(t) /\ CellsOf(u) = CellsOf(t)
      /\ \A i \in 1..Len(t) : u[i].cell = t[i].cell /\ u[i].depth = t[i].depth
  BY SameFacts DEF Same
<1>2. DOMAIN t = 1..Len(t) /\ DOMAIN u = 1..Len(t) /\ Len(t) \in Nat
  BY <1>1, RowFacts DEF Same, IsTree
<1>3. \A c : IndexOf(u, c) = IndexOf(t, c)
  <2>1. TAKE c
  <2>2. \A i \in 1..Len(t) : u[i].cell = c <=> t[i].cell = c
    BY <1>1
  <2>3. IndexOf(u, c) = CHOOSE i \in 1..Len(t) : u[i].cell = c
    BY <1>2 DEF IndexOf
  <2>4. IndexOf(t, c) = CHOOSE i \in 1..Len(t) : t[i].cell = c
    BY <1>2 DEF IndexOf
  <2>5. QED
    BY <2>2, <2>3, <2>4
<1>4. ASSUME NEW i \in 1..Len(t) PROVE Above(u, i) = Above(t, i) /\ Above(t, i) \in 1..i
  <2>1. t \in Seq(Row) /\ u \in Seq(Row)
    BY DEF Same, IsTree
  <2>2. IsParent(t, i, ParentOf(t, i))
    BY <2>1, ParentIs
  <2>3. IsParent(u, i, ParentOf(t, i))
    BY <1>1, <1>2, <2>2 DEF IsParent
  <2>4. ParentOf(u, i) = ParentOf(t, i)
    BY <1>1, <2>1, <2>3, ParentIs
  <2>5. ParentOf(t, i) \in 0..(i - 1)
    BY <2>2 DEF IsParent
  <2>6. QED
    BY <1>2, <2>4, <2>5 DEF Above
<1>5. \A c \in CellsOf(t) : IndexOf(t, c) \in 1..Len(t)
  <2>1. TAKE c \in CellsOf(t)
  <2>2. \E i \in DOMAIN t : t[i].cell = c
    BY DEF CellsOf
  <2>3. IndexOf(t, c) \in DOMAIN t
    BY <2>2, Zenon DEF IndexOf
  <2>4. QED
    BY <1>2, <2>3
<1>6. \A c \in CellsOf(t) : u[Above(u, IndexOf(u, c))].cell = t[Above(t, IndexOf(t, c))].cell
  <2>1. TAKE c \in CellsOf(t)
  <2> DEFINE i == IndexOf(t, c)
  <2>2. i \in 1..Len(t)
    BY <1>5
  <2> HIDE DEF i
  <2>3. Above(u, i) = Above(t, i) /\ Above(t, i) \in 1..Len(t)
    BY <1>2, <1>4, <2>2
  <2>4. u[Above(u, i)].cell = t[Above(t, i)].cell
    BY <1>1, <2>3
  <2>5. QED
    BY <1>3, <2>4 DEF i
<1>7. QED
  BY <1>1, <1>6 DEF Parents

-----------------------------------------------------------------------------
(* What the filters put out, filter by filter *)

\* The node of a filter, what the filter puts out, and what it would put out if
\* there were no caches.
NodeOf(t, c) == t[IndexOf(t, c)]
OutAt(t, reuse, c) == Outputs(t, reuse)[IndexOf(t, c)]
OutOf(t, c) == OutAt(t, FALSE, c)

RangeCells(t) == {c \in CellsOf(t) : NodeOf(t, c).kind = "range"}

\* The filters that a range filter has an effect on.
Stale(t) == UNION {Forest!Branch(Parents(t), r) : r \in RangeCells(t)}

\* A filter's cache is what the filter would put out now, but for those that a
\* dragged region has an effect on.
FreshAt(t, pending, c) ==
    \/ NodeOf(t, c).cache \in {<<>>, OutOf(t, c)}
    \/ pending /\ c \in Stale(t)
Fresh(t, pending) == \A c \in CellsOf(t) : FreshAt(t, pending, c)

\* The filters S, with those above them, are in both trees, in the same places
\* and with the same settings.
KeptIn(S, t, u) ==
    /\ S \subseteq CellsOf(t) /\ S \subseteq CellsOf(u)
    /\ \A c \in S : /\ Parents(t)[c] \in S /\ Parents(u)[c] = Parents(t)[c]
                    /\ NodeOf(u, c).kind = NodeOf(t, c).kind
                    /\ NodeOf(u, c).prop = NodeOf(t, c).prop

\* A filter puts out what its parent does, and its own, or its cache.
LEMMA OutAtIs ==
    ASSUME NEW t, Plain(t), NEW reuse, NEW c \in CellsOf(t)
    PROVE  OutAt(t, reuse, c) =
               IF reuse /\ NodeOf(t, c).cache # <<>> THEN NodeOf(t, c).cache
               ELSE Append(IF Parents(t)[c] = c THEN <<>> ELSE OutAt(t, reuse, Parents(t)[c]),
                           <<c, NodeOf(t, c).prop>>)
<1> DEFINE o == Outputs(t, reuse)
           i == IndexOf(t, c)
           p == ParentOf(t, i)
<1>1. t \in Seq(Row) /\ Len(t) \in Nat /\ i \in 1..Len(t) /\ t[i].cell = c
  BY PlainFacts
<1>2. o = [j \in 1..Len(t) |->
              Output(t, j, reuse, IF ParentOf(t, j) = 0 THEN <<>> ELSE o[ParentOf(t, j)])]
  BY <1>1, OutputsDef DEF IsOutput
<1> HIDE DEF o
<1>3. o[i] = IF reuse /\ t[i].cache # <<>> THEN t[i].cache
             ELSE Append(IF p = 0 THEN <<>> ELSE o[p], <<c, t[i].prop>>)
  BY <1>1, <1>2 DEF Output
<1>4. Parents(t)[c] = t[Above(t, i)].cell
  BY <1>1, ParentsIs
<1>5. p \in 0..(i - 1)
  BY <1>1, ParentIs DEF IsParent
<1> HIDE DEF i, p
<1>6. CASE p = 0
  <2>1. Parents(t)[c] = c
    BY <1>1, <1>4, <1>6 DEF Above, p
  <2>2. QED
    BY <1>3, <1>6, <2>1 DEF OutAt, NodeOf, o, i
<1>7. CASE p # 0
  <2>1. p \in 1..Len(t) /\ p # i
    BY <1>1, <1>5, <1>7
  <2>2. Parents(t)[c] = t[p].cell
    BY <1>4, <1>7 DEF Above, p
  <2>3. t[p].cell # c /\ IndexOf(t, t[p].cell) = p
    <3>1. \A j \in 1..Len(t) : IndexOf(t, t[j].cell) = j
      BY PlainFacts
    <3>2. QED
      BY <1>1, <2>1, <3>1
  <2>4. QED
    BY <1>3, <1>7, <2>2, <2>3 DEF OutAt, NodeOf, o, i
<1>8. QED
  BY <1>6, <1>7

\* Without caches, what its parent does, and its own.
LEMMA OutOfIs ==
    ASSUME NEW t, Plain(t), NEW c \in CellsOf(t)
    PROVE  OutOf(t, c) = Append(IF Parents(t)[c] = c THEN <<>> ELSE OutOf(t, Parents(t)[c]),
                                <<c, NodeOf(t, c).prop>>)
  BY OutAtIs DEF OutOf

\* A property of all filters in a set with the parents of its members holds if
\* it passes from parent to child.
LEMMA DownThePath ==
    ASSUME NEW t, Plain(t), NEW S, S \subseteq CellsOf(t), \A c \in S : Parents(t)[c] \in S,
           NEW Bad, Bad \subseteq S,
           \A c \in Bad : Parents(t)[c] # c /\ Parents(t)[c] \in Bad
    PROVE  Bad = {}
<1>1. SUFFICES ASSUME Bad # {} PROVE FALSE
  OBVIOUS
<1>2. Bad \in SUBSET CellsOf(t)
  OBVIOUS
<1>3. DOMAIN Parents(t) = CellsOf(t)
  BY DEF Parents
<1>4. Forest!Acyclic(Parents(t))
  BY <1>3, NoCycleIs
<1>5. \E c \in Bad : Parents(t)[c] = c \/ Parents(t)[c] \notin Bad
  BY <1>1, <1>2, <1>3, <1>4 DEF Forest!Acyclic
<1>6. QED
  BY <1>5

\* What such filters put out is the same in both trees.
LEMMA OutputsKept ==
    ASSUME NEW t, Plain(t), NEW u, Plain(u), NEW S, KeptIn(S, t, u)
    PROVE  \A c \in S : OutOf(u, c) = OutOf(t, c)
<1> DEFINE Bad == {c \in S : OutOf(u, c) # OutOf(t, c)}
<1>1. ASSUME NEW c \in Bad PROVE Parents(t)[c] # c /\ Parents(t)[c] \in Bad
  <2> DEFINE p == Parents(t)[c]
  <2>1. /\ c \in CellsOf(t) /\ c \in CellsOf(u) /\ p \in S /\ Parents(u)[c] = p
        /\ NodeOf(u, c).prop = NodeOf(t, c).prop
    BY DEF KeptIn
  <2>2. /\ OutOf(t, c) = Append(IF p = c THEN <<>> ELSE OutOf(t, p), <<c, NodeOf(t, c).prop>>)
        /\ OutOf(u, c) = Append(IF p = c THEN <<>> ELSE OutOf(u, p), <<c, NodeOf(t, c).prop>>)
    BY <2>1, OutOfIs
  <2> HIDE DEF p
  <2>3. p # c /\ OutOf(u, p) # OutOf(t, p)
    BY <2>2
  <2>4. QED
    BY <2>1, <2>3 DEF p
<1>2. Bad \subseteq S /\ S \subseteq CellsOf(t) /\ \A c \in S : Parents(t)[c] \in S
  BY DEF KeptIn
<1> HIDE DEF Bad
<1>3. Bad = {}
  BY <1>1, <1>2, DownThePath
<1>4. QED
  BY <1>3 DEF Bad

\* A filter of theirs that a range filter has an effect on stays one.
LEMMA StaleKept ==
    ASSUME NEW t, Plain(t), NEW u, Plain(u), NEW S, KeptIn(S, t, u), NEW c \in S, c \in Stale(t)
    PROVE  c \in Stale(u)
<1> DEFINE P == Parents(t)
           Q == Parents(u)
<1>1. PICK r \in RangeCells(t) : c \in Forest!Branch(P, r)
  BY DEF Stale
<1>2. DOMAIN P = CellsOf(t) /\ DOMAIN Q = CellsOf(u)
  BY DEF Parents
<1>3. /\ S \subseteq CellsOf(t) /\ S \subseteq CellsOf(u)
      /\ \A f \in S : P[f] \in S /\ Q[f] = P[f] /\ NodeOf(u, f).kind = NodeOf(t, f).kind
  BY DEF KeptIn
<1> HIDE DEF P, Q
<1>4. \A T \in SUBSET CellsOf(t) : r \in T /\ Forest!Closed(P, T) => c \in T
  BY <1>1, <1>2 DEF Forest!Branch
<1>5. ASSUME NEW T \in SUBSET CellsOf(u), Forest!Closed(Q, T), r \in T \/ r \notin S
      PROVE  c \in T
  <2> DEFINE X == (T \cap S) \cup (CellsOf(t) \ S)
  <2>1. X \in SUBSET CellsOf(t)
    BY <1>3
  <2>2. r \in X
    BY <1>1, <1>5 DEF RangeCells
  <2>3. Forest!Closed(P, X)
    <3>1. ASSUME NEW f \in CellsOf(t), P[f] \in X PROVE f \in X
      <4>1. CASE f \notin S
        BY <4>1
      <4>2. CASE f \in S
        <5>1. P[f] \in T /\ Q[f] = P[f] /\ f \in CellsOf(u)
          BY <1>3, <3>1, <4>2
        <5>2. f \in T
          BY <1>2, <1>5, <5>1 DEF Forest!Closed
        <5>3. QED
          BY <4>2, <5>2
      <4>3. QED
        BY <4>1, <4>2
    <3>2. QED
      BY <1>2, <3>1 DEF Forest!Closed
  <2>4. c \in X
    BY <1>4, <2>1, <2>2, <2>3
  <2>5. QED
    BY <2>4
<1>6. r \in S
  <2>1. SUFFICES ASSUME r \notin S PROVE FALSE
    OBVIOUS
  <2>2. {} \in SUBSET CellsOf(u) /\ Forest!Closed(Q, {})
    BY DEF Forest!Closed
  <2>3. c \in {}
    BY <1>5, <2>1, <2>2
  <2>4. QED
    BY <2>3
<1>7. r \in RangeCells(u)
  BY <1>1, <1>3, <1>6 DEF RangeCells
<1>8. c \in Forest!Branch(Q, r)
  BY <1>2, <1>3, <1>5 DEF Forest!Branch
<1>9. QED
  BY <1>7, <1>8 DEF Stale, Q

\* A step keeps the caches fresh that keeps some filters where they are, and
\* clears the caches of the others or leaves them to a dragged region.
LEMMA FreshKept ==
    ASSUME NEW t, Plain(t), NEW u, Plain(u), NEW S, KeptIn(S, t, u), NEW a, NEW b, Fresh(t, a), a => b,
           \A c \in S : NodeOf(u, c).cache \in {<<>>, NodeOf(t, c).cache},
           \A c \in CellsOf(u) \ S : NodeOf(u, c).cache = <<>> \/ (b /\ c \in Stale(u))
    PROVE  Fresh(u, b)
<1>1. SUFFICES ASSUME NEW c \in CellsOf(u) PROVE FreshAt(u, b, c)
  BY DEF Fresh
<1>2. CASE c \notin S
  BY <1>2 DEF FreshAt
<1>3. CASE c \in S
  <2>1. FreshAt(t, a, c)
    BY <1>3 DEF Fresh, KeptIn
  <2>2. OutOf(u, c) = OutOf(t, c)
    BY <1>3, OutputsKept
  <2>3. c \in Stale(t) => c \in Stale(u)
    BY <1>3, StaleKept
  <2>4. NodeOf(u, c).cache \in {<<>>, NodeOf(t, c).cache}
    BY <1>3
  <2>5. QED
    BY <2>1, <2>2, <2>3, <2>4 DEF FreshAt
<1>4. QED
  BY <1>2, <1>3

\* A set of filters without a branch is one with the parents of its members.
LEMMA OutsideIsClosed ==
    ASSUME NEW t, Plain(t), NEW i \in 1..Len(t)
    PROVE  \A c \in CellsOf(t) \ CellsOf(Subtree(t, i)) :
               Parents(t)[c] \in CellsOf(t) \ CellsOf(Subtree(t, i))
<1> DEFINE P == Parents(t)
           B == Forest!Branch(P, t[i].cell)
<1>1. B = CellsOf(Subtree(t, i))
  BY BranchIs
<1>2. DOMAIN P = CellsOf(t) /\ \A c \in CellsOf(t) : P[c] \in CellsOf(t)
  BY ParentsIs DEF Parents
<1> HIDE DEF P
<1>3. \A c \in CellsOf(t) : P[c] \in B => c \in B
  BY <1>2 DEF Forest!Branch, Forest!Closed
<1> HIDE DEF B
<1>4. QED
  BY <1>1, <1>2, <1>3 DEF P

\* The node of the filter at a place is the one there.
LEMMA NodeOfIs ==
    ASSUME NEW t, Plain(t)
    PROVE  /\ \A i \in 1..Len(t) : NodeOf(t, t[i].cell) = t[i]
           /\ \A c \in CellsOf(t) : \E i \in 1..Len(t) : c = t[i].cell /\ NodeOf(t, c) = t[i]
<1>1. \A i \in 1..Len(t) : IndexOf(t, t[i].cell) = i
  BY PlainFacts
<1>2. \A c \in CellsOf(t) : IndexOf(t, c) \in 1..Len(t) /\ t[IndexOf(t, c)].cell = c
  BY PlainFacts
<1>3. QED
  BY <1>1, <1>2 DEF NodeOf

\* Nodes that differ in filter and depth only.
Alike(m, n) == m.kind = n.kind /\ m.prop = n.prop /\ m.cache = n.cache

\* Insert leaves the filters of the tree as they are, and those of the branch.
LEMMA InsertNodeOf ==
    ASSUME NEW t, Plain(t), NEW s, Plain(s), NEW at \in 0..Len(t), NEW d \in Nat,
           NEW x, x = Insert(t, at, s, d), Plain(x)
    PROVE  /\ \A c \in CellsOf(t) : Alike(NodeOf(x, c), NodeOf(t, c))
           /\ \A c \in CellsOf(s) : Alike(NodeOf(x, c), NodeOf(s, c))
<1>1. t \in Seq(Row) /\ s \in Seq(Row) /\ Len(t) \in Nat /\ Len(s) \in Nat
  BY PlainFacts
<1>2. IsInsert(x, t, s, at, d)
  BY <1>1, InsertNodes
<1>3. /\ Len(x) = Len(t) + Len(s)
      /\ \A k \in 1..at : x[k] = t[k]
      /\ \A k \in 1..Len(s) : x[at + k] = [s[k] EXCEPT !.depth = @ + d] /\ x[at + k].cell = s[k].cell
      /\ \A k \in (at + 1)..Len(t) : x[k + Len(s)] = t[k]
  BY <1>2 DEF IsInsert
<1>4. \A j \in 1..Len(x) : NodeOf(x, x[j].cell) = x[j]
  BY NodeOfIs
<1>5. ASSUME NEW c \in CellsOf(t) PROVE Alike(NodeOf(x, c), NodeOf(t, c))
  <2>1. PICK i \in 1..Len(t) : c = t[i].cell /\ NodeOf(t, c) = t[i]
    BY NodeOfIs
  <2>2. CASE i \in 1..at
    <3>1. i \in 1..Len(x) /\ x[i] = t[i]
      BY <1>1, <1>3, <2>2
    <3>2. QED
      BY <1>4, <2>1, <3>1 DEF Alike
  <2>3. CASE i \in (at + 1)..Len(t)
    <3>1. i + Len(s) \in 1..Len(x) /\ x[i + Len(s)] = t[i]
      BY <1>1, <1>3, <2>3
    <3>2. QED
      BY <1>4, <2>1, <3>1 DEF Alike
  <2>4. QED
    BY <1>1, <2>1, <2>2, <2>3
<1>6. ASSUME NEW c \in CellsOf(s) PROVE Alike(NodeOf(x, c), NodeOf(s, c))
  <2>1. PICK k \in 1..Len(s) : c = s[k].cell /\ NodeOf(s, c) = s[k]
    BY NodeOfIs
  <2>2. at + k \in 1..Len(x) /\ x[at + k] = [s[k] EXCEPT !.depth = @ + d] /\ x[at + k].cell = c
    BY <1>1, <1>3, <2>1
  <2>3. s[k] \in Row
    BY <1>1, RowFacts
  <2>4. NodeOf(x, c) = x[at + k]
    BY <1>4, <2>2
  <2>5. QED
    BY <2>1, <2>2, <2>3, <2>4 DEF Alike, Row
<1>7. QED
  BY <1>5, <1>6

\* Erase leaves those that stay as they are.
LEMMA EraseNodeOf ==
    ASSUME NEW t, Plain(t), NEW i \in 1..Len(t), NEW x, x = Erase(t, i), Plain(x)
    PROVE  \A c \in CellsOf(x) : Alike(NodeOf(x, c), NodeOf(t, c))
<1>1. t \in Seq(Row) /\ Len(t) \in Nat /\ LastOf(t, i) \in i..Len(t)
  BY PlainFacts, LastOfFacts
<1> DEFINE l == LastOf(t, i)
<1>2. IsErase(x, t, i, l)
  BY <1>1, EraseNodes
<1> HIDE DEF l
<1>3. /\ \A k \in 1..(i - 1) : x[k] = t[k]
      /\ \A k \in (l + 1)..Len(t) : x[k - (l - i + 1)] = t[k]
  BY <1>2 DEF IsErase
<1>4. SUFFICES ASSUME NEW c \in CellsOf(x) PROVE Alike(NodeOf(x, c), NodeOf(t, c))
  OBVIOUS
<1>5. PICK j \in 1..Len(x) : c = x[j].cell /\ NodeOf(x, c) = x[j]
  BY NodeOfIs
<1>6. \/ j \in 1..(i - 1)
      \/ \E k \in (l + 1)..Len(t) : j = k - (l - i + 1)
  BY <1>1, <1>2, EraseFrom DEF l
<1>7. \E k \in 1..Len(t) : x[j] = t[k]
  <2>1. CASE j \in 1..(i - 1)
    <3>1. j \in 1..Len(t)
      BY <1>1, <2>1
    <3>2. QED
      BY <1>3, <2>1, <3>1
  <2>2. CASE \E k \in (l + 1)..Len(t) : j = k - (l - i + 1)
    <3>1. PICK k \in (l + 1)..Len(t) : j = k - (l - i + 1)
      BY <2>2
    <3>2. k \in 1..Len(t)
      BY <1>1, <3>1 DEF l
    <3>3. QED
      BY <1>3, <3>1, <3>2
  <2>3. QED
    BY <1>6, <2>1, <2>2
<1>8. PICK k \in 1..Len(t) : x[j] = t[k]
  BY <1>7
<1>9. NodeOf(t, t[k].cell) = t[k]
  BY NodeOfIs
<1>10. QED
  BY <1>5, <1>8, <1>9 DEF Alike

\* So does Subtree those of the branch.
LEMMA SubtreeNodeOf ==
    ASSUME NEW t, Plain(t), NEW i \in 1..Len(t), NEW s, s = Subtree(t, i), Plain(s)
    PROVE  \A c \in CellsOf(s) : Alike(NodeOf(s, c), NodeOf(t, c))
<1>1. t \in Seq(Row)
  BY PlainFacts
<1>2. IsBranch(s, t, i, LastOf(t, i))
  BY SubtreeFacts DEF Plain
<1>3. SUFFICES ASSUME NEW c \in CellsOf(s) PROVE Alike(NodeOf(s, c), NodeOf(t, c))
  OBVIOUS
<1>4. PICK k \in 1..Len(s) : c = s[k].cell /\ NodeOf(s, c) = s[k]
  BY NodeOfIs
<1>5. PICK j \in 1..Len(t) : s[k] = [t[j] EXCEPT !.depth = @ - t[i].depth] /\ s[k].cell = t[j].cell
  BY <1>2 DEF IsBranch
<1>6. NodeOf(t, t[j].cell) = t[j] /\ t[j] \in Row
  BY <1>1, NodeOfIs, RowFacts
<1>7. QED
  BY <1>4, <1>5, <1>6 DEF Alike, Row

\* So does moving a branch.
LEMMA MovedNodeOf ==
    ASSUME NEW t, GoodTree(t), NEW i \in 1..Len(t), NEW p \in 1..Len(t), NEW d,
           MayMove(t, i, p, d), d # 0 \/ t[i].kind = "data",
           NEW u, u = Moved(t, i, LastOf(t, p), d)
    PROVE  \A c \in CellsOf(t) : Alike(NodeOf(u, c), NodeOf(t, c))
<1> DEFINE s == Subtree(t, i)
           e == Erase(t, i)
           at == LastOf(t, p)
           at2 == IF i <= at THEN at - Len(s) ELSE at
<1>1. IsTree(t) /\ Plain(t)
  BY DEF GoodTree, Plain
<1>2. /\ d \in Nat /\ at \in 1..Len(t) /\ (at < i \/ at >= LastOf(t, i))
      /\ at = LastOf(t, i) => d <= t[i].depth
  BY <1>1, MovePlace
<1>3. GoodTree(e) /\ Addable(e, s) /\ CellsOf(t) = CellsOf(e) \cup CellsOf(s)
  BY EraseGood, BranchAddable
<1>4. Plain(e) /\ Plain(s)
  BY <1>3 DEF GoodTree, Addable, Plain
<1>5. u = Insert(e, at2, s, d) /\ at2 \in 0..Len(e)
  <2>1. at \in 0..Len(t)
    BY <1>2
  <2> HIDE DEF at
  <2>2. Moved(t, i, at, d) = Insert(e, at2, s, d) /\ at2 \in 0..Len(e)
    BY <1>1, <1>2, <2>1, MovedIs
  <2>3. QED
    BY <2>2 DEF at
<1>6. Plain(u)
  BY MovedGood DEF GoodTree, Plain
<1>7. \A c \in CellsOf(e) : Alike(NodeOf(e, c), NodeOf(t, c))
  BY <1>1, <1>4, EraseNodeOf
<1>8. \A c \in CellsOf(s) : Alike(NodeOf(s, c), NodeOf(t, c))
  BY <1>1, <1>4, SubtreeNodeOf
<1> HIDE DEF e, s, at2
<1>9. /\ \A c \in CellsOf(e) : Alike(NodeOf(u, c), NodeOf(e, c))
      /\ \A c \in CellsOf(s) : Alike(NodeOf(u, c), NodeOf(s, c))
  BY <1>2, <1>4, <1>5, <1>6, InsertNodeOf
<1>10. QED
  BY <1>3, <1>7, <1>8, <1>9 DEF Alike

-----------------------------------------------------------------------------
(* How edits of the tree keep the caches fresh *)

\* Filters that are put in without caches.
LEMMA InsertFresh ==
    ASSUME NEW t, Plain(t), NEW s, Plain(s), OneRoot(s), CellsOf(t) \cap CellsOf(s) = {},
           NEW at, NEW d, NEW p, Hangs(t, at, d, p),
           NEW x, x = Insert(t, at, s, d), Plain(x),
           \A k \in 1..Len(s) : s[k].cache = <<>>, NEW a, Fresh(t, a)
    PROVE  Fresh(x, a)
<1>1. at \in 0..Len(t) /\ d \in Nat
  BY DEF Hangs
<1>2. /\ \A c \in CellsOf(t) : Alike(NodeOf(x, c), NodeOf(t, c))
      /\ \A c \in CellsOf(s) : Alike(NodeOf(x, c), NodeOf(s, c))
  BY <1>1, InsertNodeOf
<1>3. CellsOf(x) = CellsOf(t) \cup CellsOf(s) /\ \A c \in CellsOf(t) : Parents(x)[c] = Parents(t)[c]
  BY InsertForest
<1>4. \A c \in CellsOf(t) : Parents(t)[c] \in CellsOf(t)
  BY ParentsIs
<1>5. KeptIn(CellsOf(t), t, x)
  BY <1>2, <1>3, <1>4 DEF KeptIn, Alike
<1>6. \A c \in CellsOf(s) : NodeOf(s, c).cache = <<>>
  BY NodeOfIs
<1>7. \A c \in CellsOf(x) \ CellsOf(t) : NodeOf(x, c).cache = <<>>
  BY <1>2, <1>3, <1>6 DEF Alike
<1>8. \A c \in CellsOf(t) : NodeOf(x, c).cache \in {<<>>, NodeOf(t, c).cache}
  BY <1>2 DEF Alike
<1>9. QED
  BY <1>5, <1>7, <1>8, FreshKept

\* A branch that is erased.
LEMMA EraseFresh ==
    ASSUME NEW t, Plain(t), NEW i \in 1..Len(t), NEW x, x = Erase(t, i), Plain(x), NEW a, Fresh(t, a)
    PROVE  Fresh(x, a)
<1>1. \A c \in CellsOf(x) : Alike(NodeOf(x, c), NodeOf(t, c))
  BY EraseNodeOf
<1>2. \A c \in CellsOf(x) : c \in CellsOf(t) /\ Parents(x)[c] = Parents(t)[c]
  BY EraseForest
<1>3. \A c \in CellsOf(x) : Parents(x)[c] \in CellsOf(x)
  BY ParentsIs
<1>4. KeptIn(CellsOf(x), t, x)
  BY <1>1, <1>2, <1>3 DEF KeptIn, Alike
<1>5. \A c \in CellsOf(x) : NodeOf(x, c).cache \in {<<>>, NodeOf(t, c).cache}
  BY <1>1 DEF Alike
<1>6. QED
  BY <1>4, <1>5, FreshKept

\* A branch that is moved after its caches have been cleared.
LEMMA MovedFresh ==
    ASSUME NEW t, GoodTree(t), NEW i \in 1..Len(t), NEW p \in 1..Len(t), NEW d,
           MayMove(t, i, p, d), d # 0 \/ t[i].kind = "data",
           NEW u, u = Moved(t, i, LastOf(t, p), d),
           \A k \in i..LastOf(t, i) : t[k].cache = <<>>, NEW a, Fresh(t, a)
    PROVE  Fresh(u, a)
<1> DEFINE B == CellsOf(Subtree(t, i))
           S == CellsOf(t) \ B
<1>1. IsTree(t) /\ Plain(t)
  BY DEF GoodTree, Plain
<1>2. Plain(u) /\ CellsOf(u) = CellsOf(t)
  BY MovedGood DEF GoodTree, Plain
<1>3. \A c \in CellsOf(t) : Alike(NodeOf(u, c), NodeOf(t, c))
  BY MovedNodeOf
<1>4. B = {t[k].cell : k \in i..LastOf(t, i)}
  BY <1>1, SubtreeCells
<1>5. LastOf(t, i) \in i..Len(t) /\ Len(t) \in Nat
  BY <1>1, PlainFacts, LastOfFacts
<1>6. \A c \in S : Parents(t)[c] \in S
  BY <1>1, OutsideIsClosed
<1>7. Parents(u) = [Parents(t) EXCEPT ![t[i].cell] = IF d = 0 THEN t[i].cell ELSE t[p].cell]
  BY MovedForest
<1>8. DOMAIN Parents(t) = CellsOf(t)
  BY DEF Parents
<1> HIDE DEF B
<1>9. t[i].cell \notin S
  BY <1>4, <1>5
<1>10. \A c \in S : Parents(u)[c] = Parents(t)[c]
  BY <1>7, <1>8, <1>9
<1>11. \A c \in B : NodeOf(t, c).cache = <<>>
  <2>1. \A k \in i..LastOf(t, i) : NodeOf(t, t[k].cell) = t[k]
    BY <1>1, <1>5, NodeOfIs
  <2>2. QED
    BY <1>4, <2>1
<1>12. KeptIn(S, t, u)
  BY <1>2, <1>3, <1>6, <1>10 DEF KeptIn, Alike
<1>13. \A c \in S : NodeOf(u, c).cache \in {<<>>, NodeOf(t, c).cache}
  BY <1>3 DEF Alike
<1>14. \A c \in CellsOf(u) \ S : NodeOf(u, c).cache = <<>>
  BY <1>2, <1>3, <1>11 DEF Alike
<1> HIDE DEF S
<1>15. QED
  BY <1>1, <1>2, <1>12, <1>13, <1>14, FreshKept

-----------------------------------------------------------------------------
(* How edits of the filters keep the caches fresh *)

\* Trees of the same filters in the same places.
LEMMA SameNodeOf ==
    ASSUME NEW t, Plain(t), NEW u, Same(t, u)
    PROVE  /\ Plain(u) /\ CellsOf(u) = CellsOf(t) /\ Parents(u) = Parents(t)
           /\ \A i \in 1..Len(t) : NodeOf(t, t[i].cell) = t[i] /\ NodeOf(u, t[i].cell) = u[i]
           /\ \A c \in CellsOf(t) : NodeOf(u, c).kind = NodeOf(t, c).kind
           /\ RangeCells(u) = RangeCells(t) /\ Stale(u) = Stale(t)
<1>1. /\ IsTree(u) /\ Len(u) = Len(t)
      /\ \A i \in 1..Len(t) : u[i].cell = t[i].cell /\ u[i].kind = t[i].kind
  BY DEF Same
<1>2. CellsOf(u) = CellsOf(t) /\ Parents(u) = Parents(t)
  BY SameFacts, SameParents
<1>3. Plain(u)
  BY <1>1 DEF Plain, Distinct
<1>4. \A i \in 1..Len(t) : NodeOf(t, t[i].cell) = t[i] /\ NodeOf(u, t[i].cell) = u[i]
  <2>1. \A i \in 1..Len(u) : NodeOf(u, u[i].cell) = u[i]
    BY <1>3, NodeOfIs
  <2>2. \A i \in 1..Len(t) : NodeOf(t, t[i].cell) = t[i]
    BY NodeOfIs
  <2>3. QED
    BY <1>1, <2>1, <2>2
<1>5. ASSUME NEW c \in CellsOf(t) PROVE NodeOf(u, c).kind = NodeOf(t, c).kind
  <2>1. PICK i \in 1..Len(t) : c = t[i].cell
    BY NodeOfIs
  <2>2. QED
    BY <1>1, <1>4, <2>1
<1>6. RangeCells(u) = RangeCells(t)
  BY <1>2, <1>5 DEF RangeCells
<1>7. Stale(u) = Stale(t)
  BY <1>2, <1>6 DEF Stale
<1>8. QED
  BY <1>2, <1>3, <1>4, <1>5, <1>6, <1>7

\* What ClearCaches leaves of a node.
LEMMA ClearedNode ==
    ASSUME NEW t \in Seq(Row), NEW S, NEW i \in 1..Len(t)
    PROVE  /\ ClearCaches(t, S)[i].prop = t[i].prop /\ ClearCaches(t, S)[i].kind = t[i].kind
           /\ ClearCaches(t, S)[i].cell = t[i].cell
           /\ ClearCaches(t, S)[i].cache = IF i \in S THEN <<>> ELSE t[i].cache
<1>1. i \in DOMAIN t /\ t[i] \in Row
  BY RowFacts
<1>2. ClearCaches(t, S)[i] = IF i \in S THEN [t[i] EXCEPT !.cache = <<>>] ELSE t[i]
  BY <1>1 DEF ClearCaches
<1>3. QED
  BY <1>1, <1>2 DEF Row

\* Clearing caches, of whichever filters.
LEMMA ClearFresh ==
    ASSUME NEW t, Plain(t), NEW S, NEW a, Fresh(t, a)
    PROVE  Fresh(ClearCaches(t, S), a)
<1> DEFINE u == ClearCaches(t, S)
<1>1. t \in Seq(Row) /\ IsTree(t)
  BY PlainFacts DEF Plain
<1>2. Same(t, u)
  BY <1>1, ClearCachesSame
<1>3. \A i \in 1..Len(t) : u[i].prop = t[i].prop /\ u[i].cache \in {<<>>, t[i].cache}
  BY <1>1, ClearedNode
<1> HIDE DEF u
<1>4. /\ Plain(u) /\ CellsOf(u) = CellsOf(t) /\ Parents(u) = Parents(t)
      /\ \A i \in 1..Len(t) : NodeOf(t, t[i].cell) = t[i] /\ NodeOf(u, t[i].cell) = u[i]
      /\ \A c \in CellsOf(t) : NodeOf(u, c).kind = NodeOf(t, c).kind
  BY <1>2, SameNodeOf
<1>5. ASSUME NEW c \in CellsOf(t)
      PROVE  /\ NodeOf(u, c).prop = NodeOf(t, c).prop
             /\ NodeOf(u, c).cache \in {<<>>, NodeOf(t, c).cache}
  <2>1. PICK i \in 1..Len(t) : c = t[i].cell
    BY NodeOfIs
  <2>2. QED
    BY <1>3, <1>4, <2>1
<1>6. \A c \in CellsOf(t) : Parents(t)[c] \in CellsOf(t)
  BY ParentsIs
<1>7. KeptIn(CellsOf(t), t, u)
  BY <1>4, <1>5, <1>6 DEF KeptIn
<1>8. \A c \in CellsOf(t) : NodeOf(u, c).cache \in {<<>>, NodeOf(t, c).cache}
  BY <1>5
<1>9. \A c \in CellsOf(u) \ CellsOf(t) : NodeOf(u, c).cache = <<>>
  BY <1>4
<1>10. Fresh(u, a)
  BY <1>4, <1>7, <1>8, <1>9, FreshKept
<1>11. QED
  BY <1>10 DEF u

\* The property of the filter at i has changed, and the caches of the filters
\* at S are gone.
Changed(t, u, i, S) ==
    /\ Same(t, u)
    /\ \A k \in 1..Len(t) : /\ u[k].cache = IF k \in S THEN <<>> ELSE t[k].cache
                            /\ k # i => u[k].prop = t[k].prop

\* That is what the handlers do.
LEMMA ChangedIs ==
    ASSUME NEW t, IsTree(t), NEW i, NEW S, NEW u,
           u = [ClearCaches(t, S) EXCEPT ![i].prop = 1 - @]
    PROVE  Changed(t, u, i, S)
<1> DEFINE v == ClearCaches(t, S)
<1>1. t \in Seq(Row)
  BY DEF IsTree
<1>2. Same(t, v)
  BY ClearCachesSame
<1>3. \A k \in 1..Len(t) : v[k].prop = t[k].prop /\ v[k].cache = IF k \in S THEN <<>> ELSE t[k].cache
  BY <1>1, ClearedNode
<1>4. u = [v EXCEPT ![i].prop = 1 - @]
  OBVIOUS
<1> HIDE DEF v
<1>5. IsTree(v) /\ Len(v) = Len(t)
  BY <1>2 DEF Same
<1>6. Same(v, u)
  <2>1. Same(v, [v EXCEPT ![i].prop = 1 - @])
    BY <1>5, ChangedSame
  <2>2. QED
    BY <1>4, <2>1, Zenon
<1>7. Same(t, u)
  BY <1>2, <1>6, SameTrans
<1>8. ASSUME NEW k \in 1..Len(t)
      PROVE  u[k].cache = v[k].cache /\ (k # i => u[k].prop = v[k].prop)
  <2>1. k \in DOMAIN v /\ v[k] \in Row
    BY <1>5, RowFacts DEF IsTree
  <2>2. u[k] = IF k = i THEN [v[k] EXCEPT !.prop = 1 - @] ELSE v[k]
    BY <1>4, <2>1
  <2>3. QED
    BY <2>1, <2>2 DEF Row
<1>9. QED
  BY <1>3, <1>7, <1>8 DEF Changed

\* Either the caches of the filter's branch are gone, or it is a range filter,
\* and the change is noted as pending.
LEMMA ChangeFresh ==
    ASSUME NEW t, Plain(t), NEW i \in 1..Len(t), NEW S, NEW u, Changed(t, u, i, S),
           NEW a, NEW b, Fresh(t, a), a => b,
           Below(t, i) \subseteq S \/ (b /\ t[i].kind = "range")
    PROVE  Fresh(u, b)
<1> DEFINE B == CellsOf(Subtree(t, i))
           K == CellsOf(t) \ B
<1>1. LastOf(t, i) \in i..Len(t) /\ Len(t) \in Nat
  BY PlainFacts, LastOfFacts
<1>2. /\ Same(t, u)
      /\ \A k \in 1..Len(t) : /\ u[k].cache = IF k \in S THEN <<>> ELSE t[k].cache
                              /\ k # i => u[k].prop = t[k].prop
  BY DEF Changed
<1>3. /\ Plain(u) /\ CellsOf(u) = CellsOf(t) /\ Parents(u) = Parents(t)
      /\ \A k \in 1..Len(t) : NodeOf(t, t[k].cell) = t[k] /\ NodeOf(u, t[k].cell) = u[k]
      /\ \A c \in CellsOf(t) : NodeOf(u, c).kind = NodeOf(t, c).kind
      /\ RangeCells(u) = RangeCells(t) /\ Stale(u) = Stale(t)
  BY <1>2, SameNodeOf
<1>4. B = {t[k].cell : k \in i..LastOf(t, i)} /\ B = Forest!Branch(Parents(t), t[i].cell)
  BY SubtreeCells, BranchIs DEF Plain
<1>5. \A c \in K : Parents(t)[c] \in K
  BY OutsideIsClosed
<1> HIDE DEF B
<1>6. ASSUME NEW c \in K
      PROVE  /\ NodeOf(u, c).prop = NodeOf(t, c).prop
             /\ NodeOf(u, c).cache \in {<<>>, NodeOf(t, c).cache}
  <2>1. PICK k \in 1..Len(t) : c = t[k].cell
    BY NodeOfIs
  <2>2. k # i
    BY <1>1, <1>4, <2>1
  <2>3. QED
    BY <1>2, <1>3, <2>1, <2>2
<1>7. KeptIn(K, t, u)
  BY <1>3, <1>5, <1>6 DEF KeptIn
<1>8. ASSUME NEW c \in CellsOf(u) \ K
      PROVE  NodeOf(u, c).cache = <<>> \/ (b /\ c \in Stale(u))
  <2>1. PICK k \in i..LastOf(t, i) : c = t[k].cell
    BY <1>3, <1>4
  <2>2. CASE Below(t, i) \subseteq S
    <3>1. k \in S /\ k \in 1..Len(t)
      BY <1>1, <2>2 DEF Below
    <3>2. QED
      BY <1>2, <1>3, <2>1, <3>1
  <2>3. CASE b /\ t[i].kind = "range"
    <3>1. t[i].cell \in RangeCells(t)
      BY <1>3, <2>3, PlainFacts DEF RangeCells
    <3>2. c \in Stale(t)
      BY <1>4, <2>1, <3>1 DEF Stale
    <3>3. QED
      BY <1>3, <2>3, <3>2
  <2>4. QED
    BY <2>2, <2>3
<1> HIDE DEF K
<1>9. \A c \in K : NodeOf(u, c).cache \in {<<>>, NodeOf(t, c).cache}
  BY <1>6
<1>10. \A c \in CellsOf(u) \ K : NodeOf(u, c).cache = <<>> \/ (b /\ c \in Stale(u))
  BY <1>8
<1>11. QED
  BY <1>3, <1>7, <1>9, <1>10, FreshKept

\* A range filter has an effect on the filters in its subtree, and on no other.
LEMMA StaleIs ==
    ASSUME NEW t, Plain(t), NEW c \in Stale(t)
    PROVE  \E i \in {j \in DOMAIN t : t[j].kind = "range"} :
               \E k \in Below(t, i) : k \in 1..Len(t) /\ c = t[k].cell
<1>1. PICK r \in RangeCells(t) : c \in Forest!Branch(Parents(t), r)
  BY DEF Stale
<1>2. PICK i \in 1..Len(t) : r = t[i].cell /\ NodeOf(t, r) = t[i]
  BY <1>1, NodeOfIs DEF RangeCells
<1>3. t[i].kind = "range" /\ i \in DOMAIN t
  BY <1>1, <1>2, PlainFacts DEF RangeCells
<1>4. c \in {t[k].cell : k \in i..LastOf(t, i)}
  BY <1>1, <1>2, BranchIs, SubtreeCells DEF Plain
<1>5. i..LastOf(t, i) \subseteq 1..Len(t)
  BY PlainFacts, LastOfFacts
<1>6. QED
  BY <1>3, <1>4, <1>5 DEF Below

\* The caches that range filters have an effect on are cleared
\* (clearCacheByType): nothing is pending.
LEMMA TypeFresh ==
    ASSUME NEW t, Plain(t), NEW a, Fresh(t, a)
    PROVE  Fresh(ClearCacheByType(t, "range"), FALSE)
<1> DEFINE S == UNION {Below(t, i) : i \in {j \in DOMAIN t : t[j].kind = "range"}}
           u == ClearCaches(t, S)
<1>1. u = ClearCacheByType(t, "range")
  BY DEF ClearCacheByType
<1>2. t \in Seq(Row) /\ IsTree(t)
  BY PlainFacts DEF Plain
<1>3. Fresh(u, a) /\ Same(t, u)
  BY <1>2, ClearFresh, ClearCachesSame
<1>4. \A k \in 1..Len(t) : k \in S => u[k].cache = <<>>
  BY <1>2, ClearedNode
<1>5. \A c \in Stale(t) : \E k \in S : k \in 1..Len(t) /\ c = t[k].cell
  BY StaleIs
<1> HIDE DEF S, u
<1>6. /\ CellsOf(u) = CellsOf(t) /\ Stale(u) = Stale(t)
      /\ \A k \in 1..Len(t) : NodeOf(u, t[k].cell) = u[k]
  BY <1>3, SameNodeOf
<1>7. ASSUME NEW c \in CellsOf(u) PROVE FreshAt(u, FALSE, c)
  <2>1. FreshAt(u, a, c)
    BY <1>3 DEF Fresh
  <2>2. c \in Stale(u) => NodeOf(u, c).cache = <<>>
    BY <1>4, <1>5, <1>6
  <2>3. QED
    BY <2>1, <2>2 DEF FreshAt
<1>8. QED
  BY <1>1, <1>7 DEF Fresh

\* A tree without caches.
LEMMA NewFresh ==
    ASSUME NEW t, Plain(t), \A i \in 1..Len(t) : t[i].cache = <<>>, NEW a
    PROVE  Fresh(t, a)
  BY NodeOfIs DEF Fresh, FreshAt

-----------------------------------------------------------------------------
(* How a refresh keeps the caches fresh *)

\* What a range filter has an effect on, it has through the filters between.
LEMMA StaleDown ==
    ASSUME NEW t, Plain(t), NEW c \in CellsOf(t), Parents(t)[c] \in Stale(t)
    PROVE  c \in Stale(t)
<1>1. PICK r \in RangeCells(t) : Parents(t)[c] \in Forest!Branch(Parents(t), r)
  BY DEF Stale
<1>2. DOMAIN Parents(t) = CellsOf(t)
  BY DEF Parents
<1>3. c \in Forest!Branch(Parents(t), r)
  BY <1>1, <1>2 DEF Forest!Branch, Forest!Closed
<1>4. QED
  BY <1>3 DEF Stale

\* With fresh caches, a refresh makes of them what it would without.
LEMMA ReuseFresh ==
    ASSUME NEW t, Plain(t), NEW a, Fresh(t, a)
    PROVE  \A c \in CellsOf(t) : (a /\ c \in Stale(t)) \/ OutAt(t, TRUE, c) = OutOf(t, c)
<1> DEFINE Bad == {c \in CellsOf(t) : ~(a /\ c \in Stale(t)) /\ OutAt(t, TRUE, c) # OutOf(t, c)}
<1>1. ASSUME NEW c \in Bad PROVE Parents(t)[c] # c /\ Parents(t)[c] \in Bad
  <2> DEFINE p == Parents(t)[c]
             last == <<c, NodeOf(t, c).prop>>
  <2>1. c \in CellsOf(t) /\ p \in CellsOf(t) /\ ~(a /\ c \in Stale(t))
    BY ParentsIs
  <2>2. /\ OutAt(t, TRUE, c) = IF NodeOf(t, c).cache # <<>> THEN NodeOf(t, c).cache
                               ELSE Append(IF p = c THEN <<>> ELSE OutAt(t, TRUE, p), last)
        /\ OutOf(t, c) = Append(IF p = c THEN <<>> ELSE OutOf(t, p), last)
    BY <2>1, OutAtIs DEF OutOf
  <2>3. NodeOf(t, c).cache \in {<<>>, OutOf(t, c)}
    BY <2>1 DEF Fresh, FreshAt
  <2>4. ~(a /\ p \in Stale(t))
    BY <2>1, StaleDown
  <2> HIDE DEF p, last
  <2>5. OutAt(t, TRUE, c) # OutOf(t, c)
    OBVIOUS
  <2>6. NodeOf(t, c).cache = <<>>
    BY <2>2, <2>3, <2>5
  <2>7. p # c /\ OutAt(t, TRUE, p) # OutOf(t, p)
    BY <2>2, <2>5, <2>6
  <2>8. QED
    BY <2>1, <2>4, <2>7 DEF p
<1>2. Bad \subseteq CellsOf(t) /\ \A c \in CellsOf(t) : Parents(t)[c] \in CellsOf(t)
  BY ParentsIs
<1> HIDE DEF Bad
<1>3. Bad = {}
  BY <1>1, <1>2, DownThePath
<1>4. QED
  BY <1>3 DEF Bad

\* The caches that a refresh leaves are fresh.
LEMMA RefreshFresh ==
    ASSUME NEW t, Plain(t), NEW u, Same(t, u), NEW S,
           \A i \in 1..Len(t) : /\ u[i].prop = t[i].prop
                                /\ u[i].cache = IF i \in S THEN Outputs(t, TRUE)[i] ELSE t[i].cache,
           NEW a, Fresh(t, a)
    PROVE  Fresh(u, a)
<1>1. /\ Plain(u) /\ CellsOf(u) = CellsOf(t) /\ Parents(u) = Parents(t)
      /\ \A k \in 1..Len(t) : NodeOf(t, t[k].cell) = t[k] /\ NodeOf(u, t[k].cell) = u[k]
      /\ \A c \in CellsOf(t) : NodeOf(u, c).kind = NodeOf(t, c).kind
      /\ RangeCells(u) = RangeCells(t) /\ Stale(u) = Stale(t)
  BY SameNodeOf
<1>2. ASSUME NEW c \in CellsOf(t)
      PROVE  /\ NodeOf(u, c).prop = NodeOf(t, c).prop
             /\ NodeOf(u, c).cache \in {NodeOf(t, c).cache, OutAt(t, TRUE, c)}
  <2>1. PICK i \in 1..Len(t) : c = t[i].cell
    BY NodeOfIs
  <2>2. IndexOf(t, c) = i
    BY <2>1, PlainFacts
  <2>3. QED
    BY <1>1, <2>1, <2>2 DEF OutAt
<1>3. \A c \in CellsOf(t) : Parents(t)[c] \in CellsOf(t)
  BY ParentsIs
<1>4. KeptIn(CellsOf(t), t, u)
  BY <1>1, <1>2, <1>3 DEF KeptIn
<1>5. \A c \in CellsOf(t) : OutOf(u, c) = OutOf(t, c)
  BY <1>1, <1>4, OutputsKept
<1>6. \A c \in CellsOf(t) : (a /\ c \in Stale(t)) \/ OutAt(t, TRUE, c) = OutOf(t, c)
  BY ReuseFresh
<1>7. ASSUME NEW c \in CellsOf(t) PROVE FreshAt(u, a, c)
  <2>1. FreshAt(t, a, c)
    BY DEF Fresh
  <2>2. QED
    BY <1>1, <1>2, <1>5, <1>6, <2>1 DEF FreshAt
<1>8. QED
  BY <1>1, <1>7 DEF Fresh

-----------------------------------------------------------------------------
(* The invariants *)

\* What the history and the stash hold.
GoodShapes == {s \in Seq(Shapes) : Len(s) <= MaxFilters /\ PreOrder(s) /\ Based(s)}

\* The inductive invariant, in its parts: the tree; its stored copies; the
\* tree control; the plots.
HistoryPart == stash \in GoodShapes /\ undo \in Seq(GoodShapes) /\ redo \in Seq(GoodShapes)
ControlPart ==
    filterMap = IdMap(filters) /\ selected \in 0..Len(filters) /\ persistent \in Seq(Cells)
PlotPart == regions \subseteq Cells /\ plotUpdates \in BOOLEAN /\ busy \in BOOLEAN

Good == GoodTree(filters) /\ HistoryPart /\ ControlPart /\ PlotPart

\* What a step keeps that may leave the window unlocked: every filter of the
\* tree.
Kept == ~busy /\ regions' = regions /\ CellsOf(filters) \subseteq CellsOf(filters')

\* The entries of the history.
LEMMA GoodShapeFacts ==
    ASSUME NEW s
    PROVE  s \in GoodShapes <=> (IsShape(s) /\ Based(s))
  BY DEF GoodShapes, IsShape

\* What a good tree is, fact by fact.
LEMMA TreeBasics ==
    ASSUME NEW t, GoodTree(t)
    PROVE  /\ IsTree(t) /\ t \in Seq(Row) /\ Len(t) \in Nat /\ DOMAIN t = 1..Len(t)
           /\ Len(t) <= MaxFilters /\ CellsOf(t) \subseteq Cells /\ Distinct(t)
           /\ \A i \in 1..Len(t) : t[i] \in Row /\ t[i].cell \in Cells /\ t[i].cell \in CellsOf(t)
<1>1. /\ IsTree(t) /\ t \in Seq(Row) /\ Len(t) \in Nat /\ DOMAIN t = 1..Len(t)
      /\ \A i \in 1..Len(t) : t[i] \in Row
  BY RowFacts DEF GoodTree, IsTree
<1>2. \A i \in 1..Len(t) : t[i].cell \in CellsOf(t)
  BY <1>1 DEF CellsOf
<1>3. QED
  BY <1>1, <1>2 DEF GoodTree

\* A filter has one place in the tree.
LEMMA IndexOfFacts ==
    ASSUME NEW t, GoodTree(t)
    PROVE  /\ \A i \in 1..Len(t) : IndexOf(t, t[i].cell) = i
           /\ \A c \in CellsOf(t) : IndexOf(t, c) \in 1..Len(t)
<1>1. DOMAIN t = 1..Len(t) /\ Distinct(t)
  BY TreeBasics
<1>2. ASSUME NEW c \in CellsOf(t) PROVE IndexOf(t, c) \in 1..Len(t) /\ t[IndexOf(t, c)].cell = c
  <2>1. \E i \in DOMAIN t : t[i].cell = c
    BY DEF CellsOf
  <2>2. IndexOf(t, c) \in DOMAIN t /\ t[IndexOf(t, c)].cell = c
    BY <2>1, Zenon DEF IndexOf
  <2>3. QED
    BY <1>1, <2>2
<1>3. ASSUME NEW i \in 1..Len(t) PROVE IndexOf(t, t[i].cell) = i
  <2>1. t[i].cell \in CellsOf(t)
    BY TreeBasics
  <2>2. QED
    BY <1>1, <1>2, <2>1 DEF Distinct
<1>4. QED
  BY <1>2, <1>3

\* Where an item of the tree control leads to.
LEMMA PlaceFacts ==
    ASSUME Good
    PROVE  /\ DOMAIN filterMap = 1..Len(filters)
           /\ \A i \in 1..Len(filters) : filterMap[i] = filters[i].cell /\ filterMap[i] \in Cells
           /\ selected # 0 => selected \in 1..Len(filters) /\ Place = selected
<1>1. filterMap = IdMap(filters) /\ selected \in 0..Len(filters) /\ GoodTree(filters)
  BY DEF Good, ControlPart
<1>2. DOMAIN filterMap = 1..Len(filters) /\ \A i \in 1..Len(filters) : filterMap[i] = filters[i].cell
  BY <1>1 DEF IdMap
<1>3. \A i \in 1..Len(filters) : filters[i].cell \in Cells
  BY <1>1, TreeBasics
<1>4. ASSUME selected # 0 PROVE selected \in 1..Len(filters) /\ Place = selected
  <2>1. Len(filters) \in Nat
    BY <1>1, TreeBasics
  <2>2. selected \in 1..Len(filters)
    BY <1>1, <1>4, <2>1
  <2>3. IndexOf(filters, filters[selected].cell) = selected
    BY <1>1, <2>2, IndexOfFacts
  <2>4. QED
    BY <1>2, <2>2, <2>3 DEF Place
<1>5. QED
  BY <1>2, <1>3, <1>4

\* updateWxTreeCtrl leaves the control with an item for every filter, and the
\* selection on one of them.
LEMMA ControlUpdated ==
    ASSUME GoodTree(filters'), NEW p \in Seq(Cells), NEW v, v = Null \/ v \in CellsOf(filters'),
           UpdateWxTreeCtrl(p, v)
    PROVE  ControlPart'
<1> DEFINE kept == Pruned(p, filters')
           target == IF v # Null \/ kept = <<>> THEN v ELSE kept[1]
<1>1. /\ filterMap' = IdMap(filters') /\ persistent' = <<>>
      /\ selected' = IF target = Null THEN 0 ELSE IndexOf(filters', target)
  BY DEF UpdateWxTreeCtrl
<1>2. kept \in Seq(Cells) /\ \A k \in 1..Len(kept) : kept[k] \in CellsOf(filters')
  BY PrunedFacts
<1> HIDE DEF kept
<1>3. kept # <<>> => kept[1] \in CellsOf(filters')
  BY <1>2
<1>4. target = Null \/ target \in CellsOf(filters')
  BY <1>3
<1> HIDE DEF target
<1>5. target \in CellsOf(filters') => IndexOf(filters', target) \in 1..Len(filters')
  BY IndexOfFacts
<1>6. Len(filters') \in Nat
  BY TreeBasics
<1>7. selected' \in 0..Len(filters')
  BY <1>1, <1>4, <1>5, <1>6
<1>8. QED
  BY <1>1, <1>7 DEF ControlPart

\* The copy of the tree that an edit records, and the stack it is put on.
LEMMA RecordedGood ==
    ASSUME Good, NEW stack \in Seq(GoodShapes)
    PROVE  Recorded(stack) \in Seq(GoodShapes)
<1>1. Shape(filters) \in GoodShapes
  <2>1. GoodTree(filters)
    BY DEF Good
  <2>2. IsShape(Shape(filters)) /\ Based(Shape(filters))
    BY <2>1, ShapeIs, TreeBasics DEF GoodTree
  <2>3. QED
    BY <2>2, GoodShapeFacts
<1> DEFINE a == Append(stack, Shape(filters))
<1>2. a \in Seq(GoodShapes) /\ Len(a) = Len(stack) + 1 /\ Len(stack) \in Nat
  BY <1>1
<1> HIDE DEF a
<1>3. Tail(a) \in Seq(GoodShapes)
  BY <1>2
<1>4. Recorded(stack) = IF "history" \notin Handlers THEN <<>>
                        ELSE IF Len(a) > MaxHistory THEN Tail(a) ELSE a
  BY DEF Recorded, a
<1>5. QED
  BY <1>2, <1>3, <1>4

\* Popping an entry of the history.
LEMMA FrontGood ==
    ASSUME NEW stack \in Seq(GoodShapes), stack # <<>>
    PROVE  Front(stack) \in Seq(GoodShapes) /\ Last(stack) \in GoodShapes
<1>1. Len(stack) \in Nat /\ Len(stack) >= 1
  OBVIOUS
<1>2. Front(stack) \in Seq(GoodShapes)
  BY <1>1 DEF Front
<1>3. Last(stack) \in GoodShapes
  BY <1>1 DEF Last
<1>4. QED
  BY <1>2, <1>3

\* An edit that records the present tree (pushUndoStack).
LEMMA HistoryPushed ==
    ASSUME Good, PushUndoStack, stash' = stash
    PROVE  HistoryPart'
<1>1. stash \in GoodShapes /\ undo \in Seq(GoodShapes)
  BY DEF Good, HistoryPart
<1>2. Recorded(undo) \in Seq(GoodShapes)
  BY <1>1, RecordedGood
<1>3. <<>> \in Seq(GoodShapes)
  OBVIOUS
<1>4. QED
  BY <1>1, <1>2, <1>3 DEF HistoryPart, PushUndoStack

\* An edit that fails after it has recorded the tree.
LEMMA HistoryRefused ==
    ASSUME Good, RefuseEdit, stash' = stash
    PROVE  HistoryPart'
<1>1. stash \in GoodShapes /\ undo \in Seq(GoodShapes) /\ <<>> \in Seq(GoodShapes)
  BY DEF Good, HistoryPart
<1>2. Recorded(undo) \in Seq(GoodShapes) /\ Recorded(<<>>) \in Seq(GoodShapes)
  BY <1>1, RecordedGood
<1>3. Recorded(undo) # <<>> => Front(Recorded(undo)) \in Seq(GoodShapes)
  BY <1>2, FrontGood
<1>4. QED
  BY <1>1, <1>2, <1>3 DEF HistoryPart, RefuseEdit

\* The empty session is an entry as well.
LEMMA EmptyShape == <<>> \in GoodShapes
<1>1. <<>> \in Seq(Shapes) /\ Len(<<>>) = 0 /\ DOMAIN <<>> = {}
  OBVIOUS
<1>2. 0 <= MaxFilters
  BY BoundsAssumption
<1>3. QED
  BY <1>1, <1>2 DEF GoodShapes, PreOrder, Based

\* The filters that a handler asks to keep visible.
LEMMA KeepGood ==
    ASSUME Good
    PROVE  KeepSelection \in Seq(Cells)
<1>1. persistent \in Seq(Cells)
  BY DEF Good, ControlPart
<1>2. selected # 0 => filterMap[selected] \in Cells
  BY PlaceFacts
<1>3. QED
  BY <1>1, <1>2 DEF KeepSelection

\* A handler that changes no more than properties and caches.
LEMMA TreeKept ==
    ASSUME Good, Same(filters, filters'), UNCHANGED <<filterMap, selected, persistent>>
    PROVE  GoodTree(filters') /\ ControlPart' /\ CellsOf(filters') = CellsOf(filters)
<1>1. GoodTree(filters) /\ ControlPart
  BY DEF Good
<1>2. GoodTree(filters') /\ CellsOf(filters') = CellsOf(filters) /\ IdMap(filters') = IdMap(filters)
  BY <1>1, SameFacts
<1>3. Len(filters') = Len(filters)
  BY DEF Same
<1>4. QED
  BY <1>1, <1>2, <1>3 DEF ControlPart

-----------------------------------------------------------------------------
(* Clones that are put into the session *)

\* A filter that the user adds is a tree of one node.
LEMMA NewFilterIs ==
    ASSUME NEW k \in AllKinds
    PROVE  /\ IsShape(NewFilter(k)) /\ Len(NewFilter(k)) = 1
           /\ k = "data" => Based(NewFilter(k))
<1> DEFINE r == [cell |-> Null, kind |-> k, prop |-> 0, depth |-> 0, cache |-> <<>>]
<1>1. r \in Shapes /\ r.depth = 0 /\ r.kind = k
  BY BoundsAssumption DEF Shapes, Props
<1>2. NewFilter(k) = <<r>>
  BY DEF NewFilter
<1> HIDE DEF r
<1>3. <<r>> \in Seq(Shapes) /\ Len(<<r>>) = 1 /\ DOMAIN <<r>> = {1} /\ <<r>>[1] = r
  BY <1>1
<1>4. 1 <= MaxFilters
  BY BoundsAssumption
<1>5. IsShape(NewFilter(k))
  BY <1>1, <1>2, <1>3, <1>4 DEF IsShape, PreOrder
<1>6. k = "data" => Based(NewFilter(k))
  BY <1>1, <1>2, <1>3 DEF Based
<1>7. QED
  BY <1>2, <1>3, <1>5, <1>6

\* Clones of an entry may be added to the tree when they fit, or take its place.
LEMMA ClonesAddable ==
    ASSUME Good, NEW s, IsShape(s)
    PROVE  /\ IsTree(Clones(s)) /\ Len(Clones(s)) = Len(s) /\ Len(s) \in Nat
           /\ Len(filters) + Len(s) <= MaxFilters => Addable(filters, Clones(s))
           /\ Based(s) => Based(Clones(s)) /\ GoodTree(Clones(s))
           /\ CellsOf(Clones(s)) \subseteq Cells
<1>1. filters \in Seq(Row) /\ Len(filters) <= MaxFilters /\ CellsOf(filters) \subseteq Cells
  BY TreeBasics DEF Good
<1>2. /\ IsTree(Clones(s)) /\ Len(Clones(s)) = Len(s)
      /\ CellsOf(Clones(s)) \subseteq Cells \ CellsOf(filters)
      /\ Distinct(Clones(s))
      /\ Based(s) => Based(Clones(s))
  BY <1>1, ClonesIs
<1>3. Len(s) \in Nat /\ Len(s) <= MaxFilters
  BY ShapeFacts
<1>4. Len(filters) + Len(s) <= MaxFilters => Addable(filters, Clones(s))
  BY <1>2 DEF Addable
<1>5. Based(s) => GoodTree(Clones(s))
  BY <1>2, <1>3 DEF GoodTree
<1>6. QED
  BY <1>2, <1>3, <1>4, <1>5

-----------------------------------------------------------------------------
(* Each handler keeps the invariant *)

\* Opening a data file.
LEMMA LoadDataFileGood ==
    ASSUME Good, LoadDataFile
    PROVE  Good' /\ busy'
<1> DEFINE f == Clones(NewFilter("data"))
<1>1. /\ Len(filters) < MaxFilters /\ filters' = InsertAtBase(filters, f) /\ busy' = TRUE
      /\ UpdateWxTreeCtrl(KeepSelection, Null)
      /\ undo' = undo /\ redo' = redo /\ stash' = stash
      /\ plotUpdates' = plotUpdates /\ regions' = regions
  BY DEF LoadDataFile, historyVars, plotVars
<1>2. GoodTree(filters) /\ Len(filters) \in Nat
  BY TreeBasics DEF Good
<1>3. IsShape(NewFilter("data")) /\ Len(NewFilter("data")) = 1 /\ Based(NewFilter("data"))
  <2>1. "data" \in AllKinds
    BY DEF AllKinds
  <2>2. QED
    BY <2>1, NewFilterIs, Zenon
<1>4. Len(filters) + Len(NewFilter("data")) <= MaxFilters
  <2>1. Len(NewFilter("data")) = 1 /\ Len(filters) < MaxFilters
    BY <1>1, <1>3
  <2>2. Len(filters) + 1 <= MaxFilters
    BY <1>2, <2>1, BoundsAssumption
  <2>3. QED
    BY <2>1, <2>2, Zenon
<1>5. Addable(filters, f) /\ Based(f)
  BY <1>3, <1>4, ClonesAddable
<1> HIDE DEF f
<1>6. GoodTree(filters')
  BY <1>1, <1>2, <1>5, InsertAtBaseGood
<1>7. ControlPart'
  BY <1>1, <1>6, KeepGood, ControlUpdated
<1>8. HistoryPart' /\ PlotPart'
  BY <1>1 DEF Good, HistoryPart, PlotPart
<1>9. QED
  BY <1>1, <1>6, <1>7, <1>8 DEF Good

\* The trees of state files are good ones.
LEMMA StateFileGood ==
    ASSUME NEW s \in StateFiles
    PROVE  IsShape(s) /\ Based(s)
<1>1. s \in Seq(Shapes) /\ Len(s) <= MaxFilters /\ PreOrder(s)
  BY StateFilesAssumption
<1>2. DOMAIN s = 1..Len(s)
  BY <1>1
<1>3. QED
  BY <1>1, <1>2 DEF IsShape, Based, OnlyDataAtBase

\* Opening a state file.
LEMMA LoadStateFileGood ==
    ASSUME Good, NEW s \in StateFiles, LoadStateFile(s)
    PROVE  Good' /\ busy'
<1>1. /\ filters' = Clones(s) /\ busy' = TRUE
      /\ UpdateWxTreeCtrl(KeepSelection, Null)
      /\ undo' = <<>> /\ redo' = <<>> /\ stash' = <<>>
      /\ plotUpdates' = plotUpdates /\ regions' = regions
  BY DEF LoadStateFile, plotVars
<1>2. GoodTree(filters')
  BY <1>1, StateFileGood, ClonesAddable
<1>3. ControlPart'
  BY <1>1, <1>2, KeepGood, ControlUpdated
<1>4. HistoryPart'
  BY <1>1, EmptyShape DEF HistoryPart
<1>5. PlotPart'
  BY <1>1 DEF Good, PlotPart
<1>6. QED
  BY <1>1, <1>2, <1>3, <1>4, <1>5 DEF Good

\* Merging a state file.
LEMMA MergeStateFileGood ==
    ASSUME Good, NEW s \in StateFiles, MergeStateFile(s)
    PROVE  Good' /\ busy'
<1>1. /\ filters' = Clones(FirstRoot(s)) /\ busy' = TRUE
      /\ UpdateWxTreeCtrl(persistent, Null)
      /\ undo' = <<>> /\ redo' = <<>> /\ stash' = <<>>
      /\ plotUpdates' = plotUpdates /\ regions' = regions
  BY DEF MergeStateFile, plotVars
<1>2. IsShape(FirstRoot(s)) /\ Based(FirstRoot(s))
  BY StateFileGood, ShapeFacts, FirstRootIs
<1>3. GoodTree(filters')
  BY <1>1, <1>2, ClonesAddable
<1>4. persistent \in Seq(Cells)
  BY DEF Good, ControlPart
<1>5. ControlPart'
  BY <1>1, <1>3, <1>4, ControlUpdated
<1>6. HistoryPart'
  BY <1>1, EmptyShape DEF HistoryPart
<1>7. PlotPart'
  BY <1>1 DEF Good, PlotPart
<1>8. QED
  BY <1>1, <1>3, <1>5, <1>6, <1>7 DEF Good

\* Choosing a filter in the combo box.
LEMMA AddFilterGood ==
    ASSUME Good, NEW k \in Kinds, AddFilter(k)
    PROVE  Good' /\ Kept
<1> DEFINE f == Clones(NewFilter(k))
<1>1. /\ ~busy /\ selected # 0 /\ Len(filters) < MaxFilters
      /\ filters' = AppendChild(filters, Place, f) /\ UpdateWxTreeCtrl(persistent, f[1].cell)
      /\ PushUndoStack /\ busy' \in BOOLEAN
      /\ stash' = stash /\ plotUpdates' = plotUpdates /\ regions' = regions
  BY DEF AddFilter, Input, plotVars
<1>2. GoodTree(filters) /\ Len(filters) \in Nat /\ persistent \in Seq(Cells)
  BY TreeBasics DEF Good, ControlPart
<1>3. IsShape(NewFilter(k)) /\ Len(NewFilter(k)) = 1
  BY KindsAssumption, NewFilterIs
<1>4. Len(filters) + Len(NewFilter(k)) <= MaxFilters
  BY <1>1, <1>2, <1>3, BoundsAssumption
<1>5. Addable(filters, f) /\ Len(f) = 1 /\ IsTree(f)
  BY <1>3, <1>4, ClonesAddable
<1>6. Place \in 1..Len(filters)
  BY <1>1, PlaceFacts
<1> HIDE DEF f
<1>7. GoodTree(filters') /\ CellsOf(filters') = CellsOf(filters) \cup CellsOf(f)
  BY <1>1, <1>2, <1>5, <1>6, AppendChildGood
<1>8. f[1].cell \in CellsOf(filters')
  <2>1. DOMAIN f = 1..Len(f)
    BY <1>5, RowFacts DEF IsTree
  <2>2. f[1].cell \in CellsOf(f)
    BY <1>5, <2>1 DEF CellsOf
  <2>3. QED
    BY <1>7, <2>2
<1>9. ControlPart'
  BY <1>1, <1>2, <1>7, <1>8, ControlUpdated
<1>10. HistoryPart'
  BY <1>1, HistoryPushed
<1>11. PlotPart'
  BY <1>1 DEF Good, PlotPart
<1>12. Kept
  BY <1>1, <1>7 DEF Kept
<1>13. QED
  BY <1>7, <1>9, <1>10, <1>11, <1>12 DEF Good

\* Stashing the selected branch.
LEMMA StashFiltersGood ==
    ASSUME Good, StashFilters
    PROVE  Good' /\ Kept
<1>1. /\ "stash" \in Handlers /\ ~busy /\ selected # 0
      /\ stash' = Shape(Subtree(filters, Place))
      /\ UNCHANGED <<filters, filterMap, selected, persistent, undo, redo, plotUpdates, regions, busy>>
  BY DEF StashFilters, Input, controlVars, historyVars, plotVars
<1>2. GoodTree(filters) /\ IsTree(filters) /\ Len(filters) <= MaxFilters /\ Len(filters) \in Nat
  BY TreeBasics DEF Good
<1>3. Place \in 1..Len(filters)
  BY <1>1, PlaceFacts
<1> DEFINE s == Subtree(filters, Place)
<1>4. IsTree(s) /\ Len(s) <= MaxFilters
  <2>1. IsTree(s) /\ Len(s) = LastOf(filters, Place) - Place + 1
    BY <1>2, <1>3, SubtreeFacts DEF IsBranch
  <2>2. LastOf(filters, Place) \in Place..Len(filters)
    BY <1>2, <1>3, LastOfFacts DEF IsTree
  <2> HIDE DEF s
  <2>3. QED
    BY <1>2, <1>3, <2>1, <2>2, BoundsAssumption
<1> HIDE DEF s
<1>5. IsShape(Shape(s))
  BY <1>4, ShapeIs
<1>6. Based(Shape(s))
  BY <1>1 DEF Based, OnlyDataAtBase
<1>7. HistoryPart'
  <2>1. stash' \in GoodShapes
    BY <1>1, <1>5, <1>6, GoodShapeFacts DEF s
  <2>2. QED
    BY <1>1, <2>1 DEF Good, HistoryPart
<1>8. GoodTree(filters') /\ ControlPart' /\ PlotPart'
  BY <1>1 DEF Good, ControlPart, PlotPart
<1>9. Kept
  BY <1>1 DEF Kept
<1>10. QED
  BY <1>7, <1>8, <1>9 DEF Good

\* Restoring a stash.
LEMMA OnComboStashGood ==
    ASSUME Good, OnComboStash
    PROVE  Good' /\ Kept
<1> DEFINE c == Clones(stash)
           f == FirstRoot(c)
<1>1. /\ ~busy /\ selected # 0 /\ Len(filters) + Len(stash) <= MaxFilters
      /\ filters' = InsertAtBase(filters, f) /\ UpdateWxTreeCtrl(persistent, filterMap[selected])
      /\ PushUndoStack /\ busy' \in BOOLEAN
      /\ stash' = stash /\ plotUpdates' = plotUpdates /\ regions' = regions
  BY DEF OnComboStash, Input, plotVars
<1>2. GoodTree(filters) /\ Len(filters) \in Nat /\ persistent \in Seq(Cells) /\ MaxFilters \in Nat
  BY TreeBasics, BoundsAssumption DEF Good, ControlPart
<1>3. IsShape(stash) /\ Based(stash)
  BY GoodShapeFacts DEF Good, HistoryPart
<1>4. Addable(filters, c) /\ Based(c) /\ IsTree(c)
  BY <1>1, <1>3, ClonesAddable
<1> HIDE DEF c
<1>5. IsTree(f) /\ Len(f) <= Len(c) /\ CellsOf(f) \subseteq CellsOf(c) /\ Distinct(f) /\ Based(f)
  BY <1>4, FirstRootIs DEF Addable
<1> HIDE DEF f
<1>6. Addable(filters, f)
  <2>1. Len(f) \in Nat /\ Len(c) \in Nat
    BY <1>4, <1>5, RowFacts DEF IsTree
  <2>2. Len(filters) + Len(f) <= MaxFilters
    BY <1>2, <1>4, <1>5, <2>1 DEF Addable
  <2>3. QED
    BY <1>4, <1>5, <2>2 DEF Addable
<1>7. GoodTree(filters') /\ CellsOf(filters') = CellsOf(filters) \cup CellsOf(f)
  BY <1>1, <1>2, <1>5, <1>6, InsertAtBaseGood
<1>8. filterMap[selected] \in CellsOf(filters')
  <2>1. selected \in 1..Len(filters) /\ filterMap[selected] = filters[selected].cell
    BY <1>1, PlaceFacts
  <2>2. filters[selected].cell \in CellsOf(filters)
    BY <1>2, <2>1, TreeBasics
  <2>3. QED
    BY <1>7, <2>1, <2>2
<1>9. ControlPart'
  BY <1>1, <1>2, <1>7, <1>8, ControlUpdated
<1>10. HistoryPart'
  BY <1>1, HistoryPushed
<1>11. PlotPart'
  BY <1>1 DEF Good, PlotPart
<1>12. Kept
  BY <1>1, <1>7 DEF Kept
<1>13. QED
  BY <1>7, <1>9, <1>10, <1>11, <1>12 DEF Good

\* A refused drag leaves the tree and its control alone, but for the filters to
\* keep visible.
LEMMA DragRefused ==
    ASSUME Good, NEW p \in Seq(Cells), RefuseDrag(p)
    PROVE  GoodTree(filters') /\ ControlPart' /\ filters' = filters /\ busy' = busy
<1>1. persistent' = p /\ UNCHANGED <<filters, filterMap, selected, busy>>
  BY DEF RefuseDrag
<1>2. QED
  BY <1>1 DEF Good, ControlPart

\* A drag asks to keep both of its items visible.
LEMMA KeepBoth ==
    ASSUME Good, NEW s \in 1..Len(filters), NEW p \in 1..Len(filters)
    PROVE  persistent \o <<filterMap[s], filterMap[p]>> \in Seq(Cells)
<1>1. persistent \in Seq(Cells)
  BY DEF Good, ControlPart
<1>2. filterMap[s] \in Cells /\ filterMap[p] \in Cells
  BY PlaceFacts
<1>3. <<filterMap[s], filterMap[p]>> \in Seq(Cells)
  BY <1>2
<1>4. QED
  BY <1>1, <1>3

\* The caches go before a branch is moved.
LEMMA MoveClears ==
    ASSUME Good, NEW s \in 1..Len(filters)
    PROVE  /\ Same(filters, ClearForMove(filters, s)) /\ GoodTree(ClearForMove(filters, s))
           /\ Len(ClearForMove(filters, s)) = Len(filters)
           /\ CellsOf(ClearForMove(filters, s)) = CellsOf(filters)
           /\ LastOf(ClearForMove(filters, s), s) = LastOf(filters, s)
           /\ ClearForMove(filters, s)[s].kind = filters[s].kind
           /\ \A i \in 1..Len(filters) : ClearForMove(filters, s)[i].depth \in Nat
<1> DEFINE t == ClearForMove(filters, s)
<1>1. GoodTree(filters) /\ IsTree(filters)
  BY TreeBasics DEF Good
<1>2. Same(filters, t)
  BY <1>1, ClearCachesSame DEF ClearForMove
<1> HIDE DEF t
<1>3. GoodTree(t) /\ CellsOf(t) = CellsOf(filters) /\ LastOf(t, s) = LastOf(filters, s)
  BY <1>1, <1>2, SameFacts
<1>4. Len(t) = Len(filters) /\ t[s].kind = filters[s].kind
  BY <1>2 DEF Same
<1>5. \A i \in 1..Len(filters) : t[i].depth \in Nat
  BY <1>2, <1>4, RowFacts DEF Same, IsTree
<1>6. QED
  BY <1>2, <1>3, <1>4, <1>5 DEF t

\* Dropping a dragged branch on a filter.
LEMMA MoveOntoGood ==
    ASSUME Good, NEW s, NEW p, MoveOnto(s, p)
    PROVE  Good' /\ Kept
<1> DEFINE keep == persistent \o <<filterMap[s], filterMap[p]>>
           t == ClearForMove(filters, s)
<1>1. /\ ~busy /\ s \in DOMAIN filterMap /\ p \in DOMAIN filterMap
      /\ \/ IsInSubtree(filters, s, p) /\ RefuseDrag(keep) /\ RefuseEdit
         \/ /\ ~IsInSubtree(filters, s, p)
            /\ filters' = Moved(t, s, LastOf(t, p), t[p].depth + 1)
            /\ UpdateWxTreeCtrl(keep, Null) /\ PushUndoStack /\ busy' \in BOOLEAN
      /\ stash' = stash /\ plotUpdates' = plotUpdates /\ regions' = regions
  BY DEF MoveOnto, Input, plotVars
<1>2. s \in 1..Len(filters) /\ p \in 1..Len(filters)
  BY <1>1, PlaceFacts
<1>3. keep \in Seq(Cells)
  BY <1>2, KeepBoth
<1> HIDE DEF keep
<1>4. CASE IsInSubtree(filters, s, p) /\ RefuseDrag(keep) /\ RefuseEdit
  <2>1. GoodTree(filters') /\ ControlPart' /\ filters' = filters /\ busy' = busy
    BY <1>3, <1>4, DragRefused
  <2>2. HistoryPart'
    BY <1>1, <1>4, HistoryRefused
  <2>3. PlotPart'
    BY <1>1, <2>1 DEF Good, PlotPart
  <2>4. Kept
    BY <1>1, <2>1 DEF Kept
  <2>5. QED
    BY <2>1, <2>2, <2>3, <2>4 DEF Good
<1>5. CASE /\ ~IsInSubtree(filters, s, p)
           /\ filters' = Moved(t, s, LastOf(t, p), t[p].depth + 1)
           /\ UpdateWxTreeCtrl(keep, Null) /\ PushUndoStack /\ busy' \in BOOLEAN
  <2>1. /\ GoodTree(t) /\ Len(t) = Len(filters) /\ CellsOf(t) = CellsOf(filters)
        /\ LastOf(t, s) = LastOf(filters, s) /\ t[p].depth \in Nat
    BY <1>2, MoveClears
  <2> HIDE DEF t
  <2>2. s \in 1..Len(t) /\ p \in 1..Len(t)
    BY <1>2, <2>1
  <2>3. MayMove(t, s, p, t[p].depth + 1) /\ t[p].depth + 1 # 0
    <3>1. p \notin s..LastOf(t, s)
      BY <1>2, <1>5, <2>1 DEF IsInSubtree
    <3>2. QED
      BY <2>1, <3>1 DEF MayMove
  <2>4. GoodTree(filters') /\ CellsOf(filters') = CellsOf(filters)
    BY <1>5, <2>1, <2>2, <2>3, MovedGood
  <2>5. ControlPart'
    BY <1>3, <1>5, <2>4, ControlUpdated
  <2>6. HistoryPart'
    BY <1>1, <1>5, HistoryPushed
  <2>7. PlotPart'
    BY <1>1, <1>5 DEF Good, PlotPart
  <2>8. Kept
    BY <1>1, <2>4 DEF Kept
  <2>9. QED
    BY <2>4, <2>5, <2>6, <2>7, <2>8 DEF Good
<1>6. QED
  BY <1>1, <1>4, <1>5

\* Dropping a dragged branch on the base.
LEMMA MoveToBaseGood ==
    ASSUME Good, NEW s, MoveToBase(s)
    PROVE  Good' /\ Kept
<1> DEFINE t == ClearForMove(filters, s)
<1>1. /\ ~busy /\ s \in DOMAIN filterMap /\ filters[s].kind = "data"
      /\ filters' = Moved(t, s, LastOf(t, 1), 0)
      /\ UpdateWxTreeCtrl(persistent, Null) /\ PushUndoStack /\ busy' \in BOOLEAN
      /\ stash' = stash /\ plotUpdates' = plotUpdates /\ regions' = regions
  BY DEF MoveToBase, Input, plotVars
<1>2. s \in 1..Len(filters)
  BY <1>1, PlaceFacts
<1>3. GoodTree(t) /\ Len(t) = Len(filters) /\ CellsOf(t) = CellsOf(filters) /\ t[s].kind = "data"
  BY <1>1, <1>2, MoveClears
<1> HIDE DEF t
<1>4. s \in 1..Len(t) /\ 1 \in 1..Len(t)
  <2>1. Len(t) \in Nat
    BY <1>3, TreeBasics
  <2>2. QED
    BY <1>2, <1>3, <2>1
<1>5. MayMove(t, s, 1, 0)
  BY DEF MayMove
<1>6. GoodTree(filters') /\ CellsOf(filters') = CellsOf(filters)
  BY <1>1, <1>3, <1>4, <1>5, MovedGood
<1>7. persistent \in Seq(Cells)
  BY DEF Good, ControlPart
<1>8. ControlPart'
  BY <1>1, <1>6, <1>7, ControlUpdated
<1>9. HistoryPart'
  BY <1>1, HistoryPushed
<1>10. PlotPart'
  BY <1>1 DEF Good, PlotPart
<1>11. Kept
  BY <1>1, <1>6 DEF Kept
<1>12. QED
  BY <1>6, <1>8, <1>9, <1>10, <1>11 DEF Good

\* What a copied branch keeps is a tree.
LEMMA CopyIs ==
    ASSUME Good, NEW s \in 1..Len(filters)
    PROVE  /\ IsShape(Shape(Subtree(filters, s)))
           /\ filters[s].kind = "data" => Based(Shape(Subtree(filters, s)))
<1>1. GoodTree(filters) /\ IsTree(filters) /\ Len(filters) \in Nat /\ Len(filters) <= MaxFilters
  BY TreeBasics DEF Good
<1> DEFINE b == Subtree(filters, s)
<1>2. Addable(Erase(filters, s), b) /\ (filters[s].kind = "data" => Based(b))
  BY <1>1, BranchAddable
<1>3. Len(Erase(filters, s)) \in Nat
  BY <1>1, EraseGood, TreeBasics
<1> HIDE DEF b
<1>4. IsTree(b) /\ Len(b) <= MaxFilters
  <2>1. IsTree(b) /\ Len(b) \in Nat /\ Len(Erase(filters, s)) + Len(b) <= MaxFilters
    BY <1>2, RowFacts DEF Addable, IsTree
  <2>2. QED
    BY <1>3, <2>1, BoundsAssumption
<1>5. IsShape(Shape(b)) /\ (Based(b) => Based(Shape(b)))
  BY <1>4, ShapeIs
<1>6. QED
  BY <1>2, <1>5 DEF b

\* Dropping a copy of a branch on a filter.
LEMMA CopyOntoGood ==
    ASSUME Good, NEW s, NEW p, CopyOnto(s, p)
    PROVE  Good' /\ Kept
<1> DEFINE keep == persistent \o <<filterMap[s], filterMap[p]>>
           copy == Shape(Subtree(filters, s))
<1>1. /\ ~busy /\ s \in DOMAIN filterMap /\ p \in DOMAIN filterMap
      /\ \/ RefuseDrag(keep)
         \/ /\ Len(filters) + Len(copy) <= MaxFilters
            /\ filters' = AppendChild(filters, p, Clones(copy))
            /\ UpdateWxTreeCtrl(keep, Null) /\ busy' \in BOOLEAN
      /\ PushUndoStack /\ stash' = stash /\ plotUpdates' = plotUpdates /\ regions' = regions
  BY DEF CopyOnto, Input, plotVars
<1>2. s \in 1..Len(filters) /\ p \in 1..Len(filters)
  BY <1>1, PlaceFacts
<1>3. keep \in Seq(Cells)
  BY <1>2, KeepBoth
<1>4. IsShape(copy)
  BY <1>2, CopyIs
<1> HIDE DEF keep, copy
<1>5. HistoryPart'
  BY <1>1, HistoryPushed
<1>6. CASE RefuseDrag(keep)
  <2>1. GoodTree(filters') /\ ControlPart' /\ filters' = filters /\ busy' = busy
    BY <1>3, <1>6, DragRefused
  <2>2. PlotPart'
    BY <1>1, <2>1 DEF Good, PlotPart
  <2>3. Kept
    BY <1>1, <2>1 DEF Kept
  <2>4. QED
    BY <1>5, <2>1, <2>2, <2>3 DEF Good
<1>7. CASE /\ Len(filters) + Len(copy) <= MaxFilters
           /\ filters' = AppendChild(filters, p, Clones(copy))
           /\ UpdateWxTreeCtrl(keep, Null) /\ busy' \in BOOLEAN
  <2>1. Addable(filters, Clones(copy))
    BY <1>4, <1>7, ClonesAddable
  <2>2. GoodTree(filters)
    BY DEF Good
  <2>3. GoodTree(filters') /\ CellsOf(filters') = CellsOf(filters) \cup CellsOf(Clones(copy))
    BY <1>2, <1>7, <2>1, <2>2, AppendChildGood
  <2>4. ControlPart'
    BY <1>3, <1>7, <2>3, ControlUpdated
  <2>5. PlotPart'
    BY <1>1, <1>7 DEF Good, PlotPart
  <2>6. Kept
    BY <1>1, <2>3 DEF Kept
  <2>7. QED
    BY <1>5, <2>3, <2>4, <2>5, <2>6 DEF Good
<1>8. QED
  BY <1>1, <1>6, <1>7

\* Dropping a copy of a branch on the base.
LEMMA CopyToBaseGood ==
    ASSUME Good, NEW s, CopyToBase(s)
    PROVE  Good' /\ Kept
<1> DEFINE copy == Shape(Subtree(filters, s))
<1>1. /\ ~busy /\ s \in DOMAIN filterMap /\ filters[s].kind = "data"
      /\ Len(filters) + Len(copy) <= MaxFilters
      /\ filters' = InsertAtBase(filters, Clones(copy))
      /\ UpdateWxTreeCtrl(persistent, Null) /\ busy' \in BOOLEAN
      /\ PushUndoStack /\ stash' = stash /\ plotUpdates' = plotUpdates /\ regions' = regions
  BY DEF CopyToBase, Input, plotVars
<1>2. s \in 1..Len(filters)
  BY <1>1, PlaceFacts
<1>3. IsShape(copy) /\ Based(copy)
  BY <1>1, <1>2, CopyIs
<1> HIDE DEF copy
<1>4. Addable(filters, Clones(copy)) /\ Based(Clones(copy))
  BY <1>1, <1>3, ClonesAddable
<1>5. GoodTree(filters) /\ persistent \in Seq(Cells)
  BY DEF Good, ControlPart
<1>6. GoodTree(filters') /\ CellsOf(filters') = CellsOf(filters) \cup CellsOf(Clones(copy))
  BY <1>1, <1>4, <1>5, InsertAtBaseGood
<1>7. ControlPart'
  BY <1>1, <1>5, <1>6, ControlUpdated
<1>8. HistoryPart'
  BY <1>1, HistoryPushed
<1>9. PlotPart'
  BY <1>1 DEF Good, PlotPart
<1>10. Kept
  BY <1>1, <1>6 DEF Kept
<1>11. QED
  BY <1>6, <1>7, <1>8, <1>9, <1>10 DEF Good

\* Selecting an item.
LEMMA SelectGood ==
    ASSUME Good, NEW id, Select(id)
    PROVE  Good' /\ Kept
<1>1. /\ ~busy /\ id \in DOMAIN filterMap /\ selected' = id
      /\ UNCHANGED <<filters, filterMap, persistent, undo, redo, stash, plotUpdates, regions, busy>>
  BY DEF Select, historyVars, plotVars
<1>2. id \in 1..Len(filters) /\ Len(filters) \in Nat
  BY <1>1, PlaceFacts, TreeBasics DEF Good
<1>3. ControlPart'
  BY <1>1, <1>2 DEF Good, ControlPart
<1>4. GoodTree(filters') /\ HistoryPart' /\ PlotPart' /\ Kept
  BY <1>1 DEF Good, HistoryPart, PlotPart, Kept
<1>5. QED
  BY <1>3, <1>4 DEF Good

\* A filter's property is changed, and its caches go.
LEMMA PropertyChanged ==
    ASSUME Good, NEW S, NEW i, filters' = [ClearCaches(filters, S) EXCEPT ![i].prop = 1 - @]
    PROVE  Same(filters, filters')
<1>1. IsTree(filters)
  BY TreeBasics DEF Good
<1> DEFINE t == ClearCaches(filters, S)
<1>2. Same(filters, t)
  BY <1>1, ClearCachesSame
<1>3. filters' = [t EXCEPT ![i].prop = 1 - @]
  OBVIOUS
<1> HIDE DEF t
<1>4. IsTree(t)
  BY <1>2 DEF Same
<1>5. Same(t, filters')
  <2>1. Same(t, [t EXCEPT ![i].prop = 1 - @])
    BY <1>4, ChangedSame
  <2>2. QED
    BY <1>3, <2>1, Zenon
<1>6. QED
  BY <1>2, <1>5, SameTrans

\* Changing a property in the grid.
LEMMA SetFilterPropertyGood ==
    ASSUME Good, SetFilterProperty
    PROVE  Good' /\ Kept
<1>1. /\ ~busy
      /\ \/ /\ filters' = [ClearCaches(filters, Below(filters, Place)) EXCEPT ![Place].prop = 1 - @]
            /\ PushUndoStack /\ busy' \in BOOLEAN
         \/ RefuseEdit /\ filters' = filters /\ busy' = busy
      /\ UNCHANGED <<filterMap, selected, persistent, stash, plotUpdates, regions>>
  BY DEF SetFilterProperty, Input, controlVars, plotVars
<1>2. CASE /\ filters' = [ClearCaches(filters, Below(filters, Place)) EXCEPT ![Place].prop = 1 - @]
           /\ PushUndoStack /\ busy' \in BOOLEAN
  <2>1. Same(filters, filters')
    BY <1>2, PropertyChanged
  <2>2. GoodTree(filters') /\ ControlPart' /\ CellsOf(filters') = CellsOf(filters)
    BY <1>1, <2>1, TreeKept
  <2>3. HistoryPart'
    BY <1>1, <1>2, HistoryPushed
  <2>4. PlotPart' /\ Kept
    BY <1>1, <1>2, <2>2 DEF Good, PlotPart, Kept
  <2>5. QED
    BY <2>2, <2>3, <2>4 DEF Good
<1>3. CASE RefuseEdit /\ filters' = filters /\ busy' = busy
  <2>1. HistoryPart'
    BY <1>1, <1>3, HistoryRefused
  <2>2. GoodTree(filters') /\ ControlPart' /\ PlotPart' /\ Kept
    BY <1>1, <1>3 DEF Good, ControlPart, PlotPart, Kept
  <2>3. QED
    BY <2>1, <2>2 DEF Good
<1>4. QED
  BY <1>1, <1>2, <1>3

\* Deleting the selected branch.
LEMMA DeleteFilterGood ==
    ASSUME Good, DeleteFilter
    PROVE  Good' /\ busy'
<1> DEFINE p == ParentOf(filters, Place)
           keep == IF p = 0 THEN persistent ELSE Append(persistent, filters[p].cell)
<1>1. /\ selected # 0 /\ filters' = Erase(filters, Place) /\ UpdateWxTreeCtrl(keep, Null)
      /\ PushUndoStack /\ busy' = TRUE
      /\ stash' = stash /\ plotUpdates' = plotUpdates /\ regions' = regions
  BY DEF DeleteFilter, plotVars
<1>2. GoodTree(filters) /\ Len(filters) \in Nat /\ persistent \in Seq(Cells)
  BY TreeBasics DEF Good, ControlPart
<1>3. Place \in 1..Len(filters)
  BY <1>1, PlaceFacts
<1>4. p \in 0..(Place - 1)
  BY <1>3, ParentOfFacts
<1> HIDE DEF p
<1>5. p # 0 => p \in 1..Len(filters)
  BY <1>2, <1>3, <1>4
<1>6. keep \in Seq(Cells)
  <2>1. p # 0 => filters[p].cell \in Cells
    BY <1>2, <1>5, TreeBasics
  <2>2. QED
    BY <1>2, <2>1
<1> HIDE DEF keep
<1>7. GoodTree(filters')
  BY <1>1, <1>2, <1>3, EraseGood
<1>8. ControlPart'
  BY <1>1, <1>6, <1>7, ControlUpdated
<1>9. HistoryPart'
  BY <1>1, HistoryPushed
<1>10. PlotPart'
  BY <1>1 DEF Good, PlotPart
<1>11. QED
  BY <1>1, <1>7, <1>8, <1>9, <1>10 DEF Good

\* The filters of an entry of the history take the place of those of the tree.
LEMMA RestoreGood ==
    ASSUME Good, NEW s \in GoodShapes, Restore(s)
    PROVE  GoodTree(filters') /\ ControlPart' /\ PlotPart' /\ busy' /\ stash' = stash
<1>1. /\ filters' = Clones(s) /\ UpdateWxTreeCtrl(KeepSelection, Null) /\ busy' = TRUE
      /\ stash' = stash /\ plotUpdates' = plotUpdates /\ regions' = regions
  BY DEF Restore, plotVars
<1>2. IsShape(s) /\ Based(s)
  BY GoodShapeFacts
<1>3. GoodTree(filters')
  BY <1>1, <1>2, ClonesAddable
<1>4. ControlPart'
  BY <1>1, <1>3, KeepGood, ControlUpdated
<1>5. PlotPart'
  BY <1>1 DEF Good, PlotPart
<1>6. QED
  BY <1>1, <1>3, <1>4, <1>5

\* Undo.
LEMMA OnEditUndoGood ==
    ASSUME Good, OnEditUndo
    PROVE  Good' /\ busy'
<1>1. undo # <<>> /\ Restore(Last(undo)) /\ undo' = Front(undo) /\ redo' = Recorded(redo)
  BY DEF OnEditUndo
<1>2. stash \in GoodShapes /\ undo \in Seq(GoodShapes) /\ redo \in Seq(GoodShapes)
  BY DEF Good, HistoryPart
<1>3. Front(undo) \in Seq(GoodShapes) /\ Last(undo) \in GoodShapes
  BY <1>1, <1>2, FrontGood
<1>4. Recorded(redo) \in Seq(GoodShapes)
  BY <1>2, RecordedGood
<1>5. GoodTree(filters') /\ ControlPart' /\ PlotPart' /\ busy' /\ stash' = stash
  BY <1>1, <1>3, RestoreGood
<1>6. HistoryPart'
  BY <1>1, <1>2, <1>3, <1>4, <1>5 DEF HistoryPart
<1>7. QED
  BY <1>5, <1>6 DEF Good

\* Redo.
LEMMA OnEditRedoGood ==
    ASSUME Good, OnEditRedo
    PROVE  Good' /\ busy'
<1>1. redo # <<>> /\ Restore(Last(redo)) /\ redo' = Front(redo) /\ undo' = Recorded(undo)
  BY DEF OnEditRedo
<1>2. stash \in GoodShapes /\ undo \in Seq(GoodShapes) /\ redo \in Seq(GoodShapes)
  BY DEF Good, HistoryPart
<1>3. Front(redo) \in Seq(GoodShapes) /\ Last(redo) \in GoodShapes
  BY <1>1, <1>2, FrontGood
<1>4. Recorded(undo) \in Seq(GoodShapes)
  BY <1>2, RecordedGood
<1>5. GoodTree(filters') /\ ControlPart' /\ PlotPart' /\ busy' /\ stash' = stash
  BY <1>1, <1>3, RestoreGood
<1>6. HistoryPart'
  BY <1>1, <1>2, <1>3, <1>4, <1>5 DEF HistoryPart
<1>7. QED
  BY <1>5, <1>6 DEF Good

\* A drag in the scene changes a filter.
LEMMA ApplyBindingsGood ==
    ASSUME Good, NEW i, ApplyBindings(i)
    PROVE  Good' /\ busy'
<1>1. /\ filters' = [ClearCaches(filters, Below(filters, i)) EXCEPT ![i].prop = 1 - @]
      /\ PushUndoStack /\ busy' = TRUE
      /\ UNCHANGED <<filterMap, selected, persistent, stash, plotUpdates, regions>>
  BY DEF ApplyBindings, controlVars, plotVars
<1>2. Same(filters, filters')
  BY <1>1, PropertyChanged
<1>3. GoodTree(filters') /\ ControlPart'
  BY <1>1, <1>2, TreeKept
<1>4. HistoryPart'
  BY <1>1, HistoryPushed
<1>5. PlotPart'
  BY <1>1 DEF Good, PlotPart
<1>6. QED
  BY <1>1, <1>3, <1>4, <1>5 DEF Good

\* The range dialog changes a filter.
LEMMA OnEditRangeGood ==
    ASSUME Good, NEW i, OnEditRange(i)
    PROVE  Good' /\ busy'
<1>1. /\ filters' = [ClearCaches(filters, Below(filters, i)) EXCEPT ![i].prop = 1 - @]
      /\ busy' = TRUE
      /\ UNCHANGED <<filterMap, selected, persistent, undo, redo, stash, plotUpdates, regions>>
  BY DEF OnEditRange, controlVars, historyVars, plotVars
<1>2. Same(filters, filters')
  BY <1>1, PropertyChanged
<1>3. GoodTree(filters') /\ ControlPart'
  BY <1>1, <1>2, TreeKept
<1>4. HistoryPart' /\ PlotPart'
  BY <1>1 DEF Good, HistoryPart, PlotPart
<1>5. QED
  BY <1>1, <1>3, <1>4 DEF Good

\* A drag of a range in a plot changes its range filter.
LEMMA SetPropFromRegionGood ==
    ASSUME Good, NEW i, SetPropFromRegion(i)
    PROVE  Good' /\ Kept
<1>1. /\ ~busy
      /\ filters' = [ClearCaches(filters, {i}) EXCEPT ![i].prop = 1 - @]
      /\ plotUpdates' = TRUE
      /\ UNCHANGED <<filterMap, selected, persistent, undo, redo, stash, regions, busy>>
  BY DEF SetPropFromRegion, Input, controlVars, historyVars
<1>2. Same(filters, filters')
  BY <1>1, PropertyChanged
<1>3. GoodTree(filters') /\ ControlPart' /\ CellsOf(filters') = CellsOf(filters)
  BY <1>1, <1>2, TreeKept
<1>4. HistoryPart' /\ PlotPart' /\ Kept
  BY <1>1, <1>3 DEF Good, HistoryPart, PlotPart, Kept
<1>5. QED
  BY <1>3, <1>4 DEF Good

\* The timer begins a refresh.
LEMMA OnUpdateTimerGood ==
    ASSUME Good, OnUpdateTimer
    PROVE  Good' /\ busy'
<1>1. /\ filters' = ClearCacheByType(filters, "range")
      /\ plotUpdates' = FALSE /\ busy' = TRUE
      /\ UNCHANGED <<filterMap, selected, persistent, undo, redo, stash, regions>>
  BY DEF OnUpdateTimer, controlVars, historyVars
<1>2. Same(filters, filters')
  BY <1>1, TreeBasics, ClearCachesSame DEF Good, ClearCacheByType
<1>3. GoodTree(filters') /\ ControlPart'
  BY <1>1, <1>2, TreeKept
<1>4. HistoryPart' /\ PlotPart'
  BY <1>1 DEF Good, HistoryPart, PlotPart
<1>5. QED
  BY <1>1, <1>3, <1>4 DEF Good

\* What a refresh leaves is the same tree.
LEMMA RefreshDoneSame ==
    ASSUME Good, NEW ok, RefreshDone(ok)
    PROVE  Same(filters, filters')
<1> DEFINE out == Outputs(filters, TRUE)
<1>1. PICK S : filters' = [i \in DOMAIN filters |->
                              IF i \in S THEN [filters[i] EXCEPT !.cache = out[i]] ELSE filters[i]]
  BY DEF RefreshDone
<1>2. /\ IsTree(filters) /\ filters \in Seq(Row) /\ DOMAIN filters = 1..Len(filters)
      /\ CellsOf(filters) \subseteq Cells /\ \A i \in 1..Len(filters) : filters[i] \in Row
  BY TreeBasics DEF Good
<1>3. \A i \in 1..Len(filters) : out[i] \in Seq(Cells \X Props)
  BY <1>2, OutputsType
<1> HIDE DEF out
<1>4. ASSUME NEW i \in 1..Len(filters)
      PROVE  /\ filters'[i] \in Row /\ filters'[i].cell = filters[i].cell
             /\ filters'[i].kind = filters[i].kind /\ filters'[i].depth = filters[i].depth
  <2>1. filters'[i] = IF i \in S THEN [filters[i] EXCEPT !.cache = out[i]] ELSE filters[i]
    BY <1>1, <1>2
  <2>2. filters[i] \in Row /\ out[i] \in Seq(Cells \X Props)
    BY <1>2, <1>3
  <2>3. QED
    BY <2>1, <2>2 DEF Row
<1>5. filters' = [i \in DOMAIN filters |-> filters'[i]]
  BY <1>1
<1>6. QED
  BY <1>2, <1>4, <1>5, SameIs

\* A refresh changes no more than the caches, and the regions it leaves are of
\* filters in the tree.
LEMMA RefreshDoneGood ==
    ASSUME Good, NEW ok, RefreshDone(ok)
    PROVE  /\ Good' /\ CellsOf(filters') = CellsOf(filters)
           /\ ok => regions' \subseteq CellsOf(filters')
<1>1. /\ busy' = FALSE
      /\ regions' = IF ok THEN {filters[i].cell : i \in {j \in DOMAIN filters :
                                                             filters[j].kind = "range"}}
                    ELSE regions
      /\ UNCHANGED <<filterMap, selected, persistent, undo, redo, stash, plotUpdates>>
  BY DEF RefreshDone, controlVars, historyVars
<1>2. CellsOf(filters) \subseteq Cells
  BY TreeBasics DEF Good
<1>3. GoodTree(filters') /\ ControlPart' /\ CellsOf(filters') = CellsOf(filters)
  BY <1>1, RefreshDoneSame, TreeKept
<1>4. ok => regions' \subseteq CellsOf(filters)
  BY <1>1 DEF CellsOf
<1>5. HistoryPart' /\ PlotPart'
  BY <1>1, <1>2, <1>4 DEF Good, HistoryPart, PlotPart
<1>6. QED
  BY <1>3, <1>4, <1>5 DEF Good

-----------------------------------------------------------------------------
(* The invariant of the session, and what follows from it *)

\* The empty session at start.
LEMMA InitGood == Init => Good
<1>1. SUFFICES ASSUME Init PROVE Good
  OBVIOUS
<1>2. /\ filters = <<>> /\ filterMap = <<>> /\ selected = 0 /\ persistent = <<>>
      /\ undo = <<>> /\ redo = <<>> /\ stash = <<>>
      /\ plotUpdates = FALSE /\ regions = {} /\ busy = FALSE
  BY <1>1 DEF Init
<1>3. GoodTree(filters)
  <2>1. filters \in Seq(Row) /\ Len(filters) = 0 /\ DOMAIN filters = {}
    BY <1>2
  <2>2. 0 <= MaxFilters
    BY BoundsAssumption
  <2>3. PreOrder(filters) /\ CellsOf(filters) = {} /\ Distinct(filters) /\ Based(filters)
    BY <2>1 DEF PreOrder, CellsOf, Distinct, Based
  <2>4. QED
    BY <2>1, <2>2, <2>3 DEF GoodTree, IsTree
<1>4. HistoryPart
  BY <1>2, EmptyShape DEF HistoryPart
<1>5. ControlPart
  <2>1. IdMap(filters) = <<>>
    BY <1>2 DEF IdMap
  <2>2. QED
    BY <1>2, <2>1 DEF ControlPart
<1>6. PlotPart
  BY <1>2 DEF PlotPart
<1>7. QED
  BY <1>3, <1>4, <1>5, <1>6 DEF Good

\* Every step keeps the invariant, and loses no filter unless a refresh
\* follows or has just ended.
LEMMA NextGood ==
    ASSUME Good, Next
    PROVE  Good' /\ (busy' \/ Kept \/ \E ok \in BOOLEAN : RefreshDone(ok))
<1>1. CASE FileStep
  <2>1. CASE LoadDataFile
    BY <2>1, LoadDataFileGood
  <2>2. CASE \E s \in StateFiles : LoadStateFile(s) \/ MergeStateFile(s)
    BY <2>2, LoadStateFileGood, MergeStateFileGood
  <2>3. QED
    BY <1>1, <2>1, <2>2 DEF FileStep
<1>2. CASE AddStep
  BY <1>2, AddFilterGood, StashFiltersGood, OnComboStashGood DEF AddStep
<1>3. CASE DragStep
  BY <1>3, MoveOntoGood, CopyOntoGood, MoveToBaseGood, CopyToBaseGood DEF DragStep
<1>4. CASE EditStep
  <2>1. CASE SetFilterProperty
    BY <2>1, SetFilterPropertyGood
  <2>2. CASE DeleteFilter
    BY <2>2, DeleteFilterGood
  <2>3. CASE OnEditUndo
    BY <2>3, OnEditUndoGood
  <2>4. CASE OnEditRedo
    BY <2>4, OnEditRedoGood
  <2>5. CASE \E id \in 1..MaxFilters : Select(id)
    BY <2>5, SelectGood
  <2>6. QED
    BY <1>4, <2>1, <2>2, <2>3, <2>4, <2>5 DEF EditStep
<1>5. CASE DataStep
  <2>1. CASE \E i \in 1..MaxFilters : ApplyBindings(i) \/ OnEditRange(i) \/ SetPropFromRegion(i)
    BY <2>1, ApplyBindingsGood, OnEditRangeGood, SetPropFromRegionGood
  <2>2. CASE OnUpdateTimer
    BY <2>2, OnUpdateTimerGood
  <2>3. CASE \E ok \in BOOLEAN : RefreshDone(ok)
    BY <2>3, RefreshDoneGood
  <2>4. QED
    BY <1>5, <2>1, <2>2, <2>3 DEF DataStep
<1>6. QED
  BY <1>1, <1>2, <1>3, <1>4, <1>5 DEF Next

\* Nothing happens.
LEMMA StutterGood ==
    ASSUME Good, UNCHANGED vars
    PROVE  Good'
<1>1. UNCHANGED <<filters, filterMap, selected, persistent, undo, redo, stash, plotUpdates, regions, busy>>
  BY DEF vars, controlVars, historyVars, plotVars
<1>2. QED
  BY <1>1 DEF Good, HistoryPart, ControlPart, PlotPart

\* The invariant holds in every state the session can be in.
THEOREM SpecGood == Spec => []Good
<1>1. Init => Good
  BY InitGood
<1>2. Good /\ [Next]_vars => Good'
  BY NextGood, StutterGood
<1>3. QED
  BY <1>1, <1>2, PTL DEF Spec

\* The tree, its copies in the history and the stash, the tree control and the
\* plots are what their types say, whatever is edited.
THEOREM SpecTypeOK == Spec => []TypeOK
<1>1. Good => TypeOK
  <2>1. SUFFICES ASSUME Good PROVE TypeOK
    OBVIOUS
  <2>2. /\ GoodTree(filters) /\ IsTree(filters) /\ Len(filters) \in Nat
        /\ DOMAIN filters = 1..Len(filters) /\ Len(filters) <= MaxFilters
        /\ \A i \in 1..Len(filters) : filters[i] \in Row /\ filters[i].cell \in Cells
    BY <2>1, TreeBasics DEF Good
  <2>3. ASSUME NEW i \in 1..Len(filters) PROVE filters[i] \in Node
    <3>1. filters[i].depth <= i - 1 /\ filters[i].depth \in Nat
      BY <2>2, DepthBound, RowFacts DEF IsTree
    <3>2. filters[i].depth \in 0..(MaxFilters - 1)
      BY <2>2, <3>1, BoundsAssumption
    <3>3. QED
      BY <2>2, <3>2 DEF Row, Node
  <2>4. ASSUME NEW s \in {stash} \cup ToSet(undo) \cup ToSet(redo)
        PROVE  Len(s) <= MaxFilters /\ \A i \in DOMAIN s : s[i] \in Shapes
    <3>1. s \in GoodShapes
      BY <2>1 DEF Good, HistoryPart, ToSet
    <3>2. QED
      BY <3>1 DEF GoodShapes
  <2>5. \A id \in DOMAIN filterMap : filterMap[id] \in Cells
    BY <2>1, PlaceFacts
  <2>6. selected \in 0..MaxFilters
    BY <2>1, <2>2, BoundsAssumption DEF Good, ControlPart
  <2>7. ToSet(persistent) \cup regions \subseteq Cells /\ {plotUpdates, busy} \subseteq BOOLEAN
    BY <2>1 DEF Good, ControlPart, PlotPart, ToSet
  <2>8. QED
    BY <2>2, <2>3, <2>4, <2>5, <2>6, <2>7 DEF TypeOK
<1>2. QED
  BY <1>1, SpecGood, PTL

\* However filters are inserted, moved, copied and erased, the sequence is a
\* forest in pre-order in which no filter occurs twice: FilterTree's tree.hh
\* never gets a cycle or a filter with two parents.
THEOREM SpecForestIsWellFormed == Spec => []ForestIsWellFormed
<1>1. Good => ForestIsWellFormed
  <2>1. SUFFICES ASSUME Good PROVE ForestIsWellFormed
    OBVIOUS
  <2>2. PreOrder(filters) /\ Distinct(filters)
    BY <2>1, TreeBasics DEF Good, IsTree
  <2>3. IsInjective(IdMap(filters))
    BY <2>2 DEF IsInjective, IdMap, Distinct
  <2>4. QED
    BY <2>2, <2>3 DEF ForestIsWellFormed
<1>2. QED
  BY <1>1, SpecGood, PTL

\* Between handlers every item of the tree control leads to the filter it
\* stands for, although filterMap holds freed filters in the midst of a handler.
THEOREM SpecControlMatchesTree == Spec => []ControlMatchesTree
<1>1. Good => ControlMatchesTree
  <2>1. SUFFICES ASSUME Good PROVE ControlMatchesTree
    OBVIOUS
  <2>2. Len(filters) \in Nat
    BY <2>1, TreeBasics DEF Good
  <2>3. QED
    BY <2>1, <2>2 DEF Good, ControlPart, ControlMatchesTree
<1>2. QED
  BY <1>1, SpecGood, PTL

\* Unless a stash is put there or a state file does, nothing gets to the base
\* of the tree but data sources.
THEOREM SpecBaseHoldsDataSources == OnlyDataAtBase => (Spec => []BaseHoldsDataSources)
<1>1. SUFFICES ASSUME OnlyDataAtBase PROVE Spec => []BaseHoldsDataSources
  OBVIOUS
<1>2. Good => BaseHoldsDataSources
  <2>1. SUFFICES ASSUME Good PROVE BaseHoldsDataSources
    OBVIOUS
  <2>2. Based(filters) /\ DOMAIN filters = 1..Len(filters)
    BY <2>1, TreeBasics DEF Good, GoodTree
  <2>3. QED
    BY <1>1, <2>2 DEF Based, BaseHoldsDataSources
<1>3. QED
  BY <1>2, SpecGood, PTL

\* A moved branch is not lost, wherever it is dropped.
THEOREM SpecMoveKeepsFilters == Spec => MoveKeepsFilters
<1> DEFINE Drags == \E s, p \in 1..MaxFilters : MoveOnto(s, p) \/ MoveToBase(s)
           Loses == ~(CellsOf(filters) \subseteq CellsOf(filters'))
<1>1. Good /\ [Next]_vars => [Loses => ~Drags]_vars
  <2>1. SUFFICES ASSUME Good, Drags PROVE ~Loses
    OBVIOUS
  <2>2. Kept
    BY <2>1, MoveOntoGood, MoveToBaseGood
  <2>3. QED
    BY <2>2 DEF Kept
<1>2. Spec => [][Loses => ~Drags]_vars
  BY <1>1, SpecGood, PTL DEF Spec
<1>3. QED
  BY <1>2 DEF MoveKeepsFilters

\* Provided that no refresh fails, the regions of the shown plots belong to
\* filters that exist while they can be edited.
THEOREM SpecRegionsAreLive == "error" \notin Handlers => (Spec => []RegionsAreLive)
<1>1. SUFFICES ASSUME "error" \notin Handlers PROVE Spec => []RegionsAreLive
  OBVIOUS
<1>2. Init => RegionsAreLive
  BY DEF Init, RegionsAreLive
<1>3. Good /\ RegionsAreLive /\ [Next]_vars => RegionsAreLive'
  <2>1. SUFFICES ASSUME Good, RegionsAreLive, [Next]_vars, ~busy'
                 PROVE  regions' \subseteq CellsOf(filters')
    BY DEF RegionsAreLive
  <2>2. CASE Kept
    BY <2>1, <2>2 DEF Kept, RegionsAreLive
  <2>3. CASE \E ok \in BOOLEAN : RefreshDone(ok)
    <3>1. PICK ok \in BOOLEAN : RefreshDone(ok)
      BY <2>3
    <3>2. ok
      BY <1>1, <3>1 DEF RefreshDone
    <3>3. QED
      BY <2>1, <3>1, <3>2, RefreshDoneGood
  <2>4. CASE UNCHANGED vars
    <3>1. UNCHANGED <<filters, regions, busy>>
      BY <2>4 DEF vars, plotVars
    <3>2. QED
      BY <2>1, <3>1 DEF RegionsAreLive
  <2>5. QED
    BY <2>1, <2>2, <2>3, <2>4, NextGood
<1>4. QED
  BY <1>2, <1>3, SpecGood, PTL DEF Spec

-----------------------------------------------------------------------------
(* The forest of the session's tree *)

\* The forest after a step is that of the tree after it.
LEMMA PrimedParents == Parents(filters)' = Parents(filters')
  BY DEF Parents, CellsOf, IndexOf, Above, ParentOf

\* No filter has a cache.
Bare(t) == \A k \in 1..Len(t) : t[k].cache = <<>>

\* What edits do to the tree.  New filters without caches are put in as a
\* branch;
Attaches ==
    \E s, at, d, p :
        /\ Addable(filters, s) /\ OneRoot(s) /\ Bare(s)
        /\ Hangs(filters, at, d, p) /\ filters' = Insert(filters, at, s, d)

\* a branch is erased;
Detaches == \E i \in 1..Len(filters) : filters' = Erase(filters, i)

\* a branch loses its caches and is moved;
Moves ==
    \E i, p \in 1..Len(filters) : \E d :
        LET t == ClearForMove(filters, i)
        IN /\ MayMove(t, i, p, d) /\ (d # 0 \/ t[i].kind = "data")
           /\ filters' = Moved(t, i, LastOf(t, p), d)

\* clones take the place of all.
Replaces == \E s : IsShape(s) /\ Based(s) /\ filters' = Clones(s)

\* A branch is put in: new filters get their place in the forest.
LEMMA AttachStep ==
    ASSUME Good, GoodTree(filters'), Attaches
    PROVE  Forest!Attach
<1> SUFFICES ASSUME NEW s, Addable(filters, s), OneRoot(s), NEW at, NEW d, NEW p,
                    Hangs(filters, at, d, p), filters' = Insert(filters, at, s, d)
             PROVE  Forest!Attach
  BY DEF Attaches
<1> DEFINE P == Parents(filters)
           Q == Parents(filters')
           new == CellsOf(s)
           r == s[1].cell
<1>1. /\ Plain(filters) /\ Plain(s) /\ Plain(filters') /\ CellsOf(filters) \cap new = {}
      /\ CellsOf(filters') \subseteq Cells
  BY DEF Good, GoodTree, Addable, Plain
<1>2. /\ CellsOf(filters') = CellsOf(filters) \cup new
      /\ \A c \in CellsOf(filters) : Q[c] = P[c]
      /\ Q[r] = IF p = 0 THEN r ELSE filters[p].cell
      /\ \A c \in new : c # r => Q[c] = Parents(s)[c]
  BY <1>1, InsertForest
<1>3. /\ P = [c \in CellsOf(filters) |-> P[c]]
      /\ Q = [c \in CellsOf(filters') |-> Q[c]]
      /\ \A c \in new : Parents(s)[c] \in new
  BY <1>1, ParentsIs
<1>4. r \in new
  <2>1. 1 \in 1..Len(s)
    BY <1>1, PlainFacts DEF OneRoot
  <2>2. QED
    BY <1>1, <2>1, PlainFacts
<1>5. p # 0 => filters[p].cell \in CellsOf(filters)
  <2>1. p # 0 => p \in 1..Len(filters)
    BY <1>1, PlainFacts DEF Hangs
  <2>2. QED
    BY <1>1, <2>1, PlainFacts
<1>6. Parents(filters)' = Q
  BY PrimedParents
<1> HIDE DEF P, Q, new, r
<1>7. \/ \A f \in new : Q[f] \in new
      \/ \E q \in CellsOf(filters) : \A f \in new : Q[f] \in new \cup {q}
  <2>1. CASE p = 0
    BY <1>2, <1>3, <1>4, <2>1
  <2>2. CASE p # 0
    BY <1>2, <1>3, <1>4, <1>5, <2>2
  <2>3. QED
    BY <2>1, <2>2
<1>8. Forest!Acyclic([f \in new |-> Q[f]])
  <2> DEFINE g == [f \in new |-> Q[f]]
  <2>1. \A c \in new : g[c] = c \/ g[c] \notin new \/ g[c] = Parents(s)[c]
    BY <1>1, <1>2, <1>5
  <2>2. DOMAIN g = new
    OBVIOUS
  <2> HIDE DEF g
  <2>3. Forest!Acyclic(g)
    BY <1>1, <2>1, <2>2, NoCycleIs DEF new
  <2>4. QED
    BY <2>3 DEF g
<1>9. DOMAIN P = CellsOf(filters) /\ DOMAIN Q = CellsOf(filters')
  BY <1>3
<1>10. Q = [f \in CellsOf(filters') |-> IF f \in CellsOf(filters) THEN P[f] ELSE Q[f]]
  BY <1>2, <1>3
<1>11. CellsOf(filters') \ CellsOf(filters) = new
  BY <1>1, <1>2
<1>12. QED
  BY <1>1, <1>2, <1>6, <1>7, <1>8, <1>9, <1>10, <1>11 DEF Forest!Attach, Forest!Present, P

\* A branch is erased: it is detached from the forest.
LEMMA DetachStep ==
    ASSUME Good, GoodTree(filters'), Detaches
    PROVE  Forest!Detach
<1> SUFFICES ASSUME NEW i \in 1..Len(filters), filters' = Erase(filters, i)
             PROVE  Forest!Detach
  BY DEF Detaches
<1> DEFINE P == Parents(filters)
           Q == Parents(filters')
           c == filters[i].cell
<1>1. Plain(filters) /\ Plain(filters') /\ IsTree(filters)
  BY DEF Good, GoodTree, Plain
<1>2. \A f \in CellsOf(filters') : f \in CellsOf(filters) /\ Q[f] = P[f]
  BY <1>1, EraseForest
<1>3. P = [f \in CellsOf(filters) |-> P[f]] /\ Q = [f \in CellsOf(filters') |-> Q[f]]
  BY <1>1, ParentsIs
<1>4. Forest!Branch(P, c) = CellsOf(Subtree(filters, i))
  BY <1>1, BranchIs
<1>5. /\ CellsOf(filters) = CellsOf(filters') \cup CellsOf(Subtree(filters, i))
      /\ CellsOf(filters') \cap CellsOf(Subtree(filters, i)) = {}
  BY <1>1, SubtreeCells DEF Plain
<1>6. c \in CellsOf(filters) /\ c \in CellsOf(Subtree(filters, i))
  <2>1. c \in {filters[k].cell : k \in i..LastOf(filters, i)}
    <3>1. i \in i..LastOf(filters, i)
      BY <1>1, LastOfFacts, PlainFacts
    <3>2. QED
      BY <3>1
  <2>2. QED
    BY <1>1, <2>1, SubtreeCells, PlainFacts
<1>7. Parents(filters)' = Q
  BY PrimedParents
<1> HIDE DEF P, Q, c
<1>8. DOMAIN P = CellsOf(filters) /\ DOMAIN Q = CellsOf(filters')
  BY <1>3
<1>9. CellsOf(filters) \ Forest!Branch(P, c) = CellsOf(filters')
  BY <1>4, <1>5
<1>10. Q = [f \in CellsOf(filters) \ Forest!Branch(P, c) |-> P[f]]
  BY <1>2, <1>3, <1>9
<1>11. c \in CellsOf(filters) \ CellsOf(filters')
  BY <1>5, <1>6
<1>12. QED
  BY <1>7, <1>8, <1>10, <1>11 DEF Forest!Detach, Forest!Present, P

\* A step that changes no more than properties and caches does nothing to the
\* forest.
LEMMA SameStep ==
    ASSUME Same(filters, filters')
    PROVE  Parents(filters)' = Parents(filters)
  BY PrimedParents, SameParents

\* A branch is moved in the forest, to the base or to a parent outside of it.
LEMMA MoveStep ==
    ASSUME Good, Moves
    PROVE  Forest!Move
<1> SUFFICES ASSUME NEW i \in 1..Len(filters), NEW p \in 1..Len(filters), NEW d, NEW t,
                    t = ClearForMove(filters, i),
                    MayMove(t, i, p, d), d # 0 \/ t[i].kind = "data",
                    filters' = Moved(t, i, LastOf(t, p), d)
             PROVE  Forest!Move
  BY DEF Moves
<1>0. Same(filters, t) /\ GoodTree(t) /\ i \in 1..Len(t) /\ p \in 1..Len(t)
  BY MoveClears
<1> DEFINE P == Parents(filters)
           Q == Parents(filters')
           c == t[i].cell
           q == IF d = 0 THEN c ELSE t[p].cell
<1>1. P = Parents(t)
  BY <1>0, SameParents
<1>2. Q = [Parents(t) EXCEPT ![c] = q]
  BY <1>0, MovedForest
<1>3. Plain(t)
  BY <1>0 DEF GoodTree, Plain
<1>4. DOMAIN P = CellsOf(t) /\ c \in CellsOf(t)
  BY <1>0, <1>1, <1>3, ParentsIs, PlainFacts
<1>5. q \in (CellsOf(t) \ Forest!Branch(P, c)) \cup {c}
  <2>1. CASE d = 0
    BY <2>1
  <2>2. CASE d # 0
    <3>1. p \notin i..LastOf(t, i)
      BY <2>2 DEF MayMove
    <3>2. t[p].cell \in CellsOf(t) \ Forest!Branch(Parents(t), c)
      BY <1>0, <3>1, MovedOutside
    <3>3. QED
      BY <1>1, <2>2, <3>2
  <2>3. QED
    BY <2>1, <2>2
<1>6. Parents(filters)' = Q
  BY PrimedParents
<1> HIDE DEF P, Q, c, q
<1>7. Q = [P EXCEPT ![c] = q] /\ DOMAIN Q = DOMAIN P
  BY <1>1, <1>2 DEF P
<1>8. QED
  BY <1>4, <1>5, <1>6, <1>7 DEF Forest!Move, Forest!Present, P

\* Other filters take the place of those in the tree.
LEMMA ReplaceStep ==
    ASSUME Good, Replaces
    PROVE  Forest!Replace
<1> DEFINE P == Parents(filters)
           Q == Parents(filters')
<1>0. Plain(filters') /\ CellsOf(filters') \subseteq Cells \ CellsOf(filters)
  <2>1. PICK s : IsShape(s) /\ Based(s) /\ filters' = Clones(s)
    BY DEF Replaces
  <2>2. filters \in Seq(Row) /\ Len(filters) <= MaxFilters /\ CellsOf(filters) \subseteq Cells
    BY TreeBasics DEF Good
  <2>3. CellsOf(Clones(s)) \subseteq Cells \ CellsOf(filters)
    BY <2>1, <2>2, ClonesIs
  <2>4. GoodTree(Clones(s))
    BY <2>1, ClonesAddable
  <2>5. QED
    BY <2>1, <2>3, <2>4 DEF GoodTree, Plain
<1>2. /\ Q = [f \in CellsOf(filters') |-> Q[f]]
      /\ \A f \in CellsOf(filters') : Q[f] \in CellsOf(filters')
  BY <1>0, ParentsIs
<1>3. DOMAIN P = CellsOf(filters)
  BY DEF Parents
<1>4. DOMAIN Q = CellsOf(filters')
  BY DEF Parents
<1>5. Forest!Acyclic(Q)
  BY <1>0, <1>4, NoCycleIs
<1>6. Parents(filters)' = Q
  BY PrimedParents
<1> HIDE DEF P, Q
<1>7. QED
  BY <1>0, <1>2, <1>3, <1>4, <1>5, <1>6 DEF Forest!Replace, Forest!Present, P

\* Behind the last child of p there is a place for another.
LEMMA AppendHangs ==
    ASSUME NEW t, GoodTree(t), NEW p \in 1..Len(t)
    PROVE  Hangs(t, LastOf(t, p), t[p].depth + 1, p)
<1>1. /\ t \in Seq(Row) /\ Len(t) \in Nat /\ p \in Nat /\ p # 0
      /\ \A i \in 1..Len(t) : t[i].depth \in Nat
  BY TreeBasics, RowFacts
<1>2. /\ LastOf(t, p) \in p..Len(t)
      /\ \A k \in (p + 1)..LastOf(t, p) : t[k].depth > t[p].depth
      /\ LastOf(t, p) < Len(t) => t[LastOf(t, p) + 1].depth <= t[p].depth
  BY <1>1, LastOfFacts
<1> DEFINE l == LastOf(t, p)
<1> HIDE DEF l
<1>3. l \in 0..Len(t) /\ p \in 0..l /\ t[p].depth + 1 \in Nat
  BY <1>1, <1>2 DEF l
<1>4. l < Len(t) => t[l + 1].depth <= t[p].depth + 1
  <2>1. SUFFICES ASSUME l < Len(t) PROVE t[l + 1].depth <= t[p].depth + 1
    OBVIOUS
  <2>2. t[l + 1].depth \in Nat /\ t[p].depth \in Nat /\ t[l + 1].depth <= t[p].depth
    BY <1>1, <1>2, <1>3, <2>1 DEF l
  <2>3. QED
    BY <2>2
<1>5. \A k \in (p + 1)..l : t[k].depth > t[p].depth
  BY <1>2 DEF l
<1>6. QED
  BY <1>1, <1>3, <1>4, <1>5 DEF Hangs, l

\* Behind the first root there is a place for another.
LEMMA BaseHangs ==
    ASSUME NEW t, GoodTree(t)
    PROVE  Hangs(t, IF t = <<>> THEN 0 ELSE LastOf(t, 1), 0, 0)
<1>1. /\ t \in Seq(Row) /\ Len(t) \in Nat /\ PreOrder(t) /\ DOMAIN t = 1..Len(t)
      /\ \A i \in 1..Len(t) : t[i].depth \in Nat
  BY TreeBasics, RowFacts DEF IsTree
<1>2. CASE t = <<>>
  <2>1. Len(t) = 0
    BY <1>2
  <2>2. QED
    BY <1>2, <2>1 DEF Hangs
<1>3. CASE t # <<>>
  <2>1. 1 \in 1..Len(t)
    BY <1>1, <1>3
  <2>2. t[1].depth = 0
    <3>1. t[1].depth <= 0 /\ t[1].depth \in Nat
      BY <1>1, <2>1 DEF PreOrder
    <3>2. QED
      BY <3>1
  <2> DEFINE l == LastOf(t, 1)
  <2>3. l \in 1..Len(t) /\ (l < Len(t) => t[l + 1].depth <= t[1].depth)
    BY <1>1, <2>1, LastOfFacts
  <2> HIDE DEF l
  <2>4. l \in 0..Len(t) /\ 0 \in 0..l /\ 0 \in Nat
    BY <1>1, <2>3
  <2>5. Hangs(t, l, 0, 0)
    BY <2>2, <2>3, <2>4 DEF Hangs
  <2>6. QED
    BY <1>3, <2>5 DEF l
<1>4. QED
  BY <1>2, <1>3

\* A sequence with the depths of a branch is one.
LEMMA OneRootSame ==
    ASSUME NEW s, NEW u, OneRoot(s), Len(u) = Len(s), \A k \in 1..Len(s) : u[k].depth = s[k].depth
    PROVE  OneRoot(u)
  BY DEF OneRoot

\* A clone has the depths of its original.
LEMMA ClonesDepth ==
    ASSUME Good, NEW s, IsShape(s), OneRoot(s)
    PROVE  OneRoot(Clones(s))
<1>1. Len(Clones(s)) = Len(s) /\ DOMAIN s = 1..Len(s)
  BY ClonesAddable, ShapeFacts, RowFacts DEF IsTree
<1>2. \A k \in 1..Len(s) : s[k] \in Shapes
  BY DEF IsShape
<1>3. \A k \in 1..Len(s) : Clones(s)[k].depth = s[k].depth
  BY <1>1, <1>2 DEF Clones, Shapes
<1>4. QED
  BY <1>1, <1>3, OneRootSame

\* The first root of a tree is one.
LEMMA FirstRootOne ==
    ASSUME NEW s, IsTree(s), s # <<>>
    PROVE  OneRoot(FirstRoot(s))
<1>1. 1 \in 1..Len(s)
  BY RowFacts DEF IsTree
<1>2. IsBranch(FirstRoot(s), s, 1, LastOf(s, 1))
  BY <1>1, SubtreeFacts DEF FirstRoot
<1>3. QED
  BY <1>2 DEF IsBranch, OneRoot

\* So is a filter that the user adds.
LEMMA NewFilterOne ==
    ASSUME NEW k
    PROVE  OneRoot(NewFilter(k))
<1> DEFINE r == [cell |-> Null, kind |-> k, prop |-> 0, depth |-> 0, cache |-> <<>>]
<1>1. NewFilter(k) = <<r>> /\ r.depth = 0
  BY DEF NewFilter
<1> HIDE DEF r
<1>2. QED
  BY <1>1 DEF OneRoot

\* So is what a copy keeps of a branch.
LEMMA CopyOne ==
    ASSUME Good, NEW i \in 1..Len(filters)
    PROVE  OneRoot(Shape(Subtree(filters, i)))
<1> DEFINE s == Subtree(filters, i)
<1>1. IsTree(filters)
  BY TreeBasics DEF Good
<1>2. IsTree(s) /\ IsBranch(s, filters, i, LastOf(filters, i))
  BY <1>1, SubtreeFacts
<1> HIDE DEF s
<1>3. OneRoot(s)
  BY <1>2 DEF IsBranch, OneRoot
<1>4. DOMAIN s = 1..Len(s) /\ Len(s) \in Nat /\ \A k \in 1..Len(s) : s[k] \in Row
  BY <1>2, RowFacts DEF IsTree
<1>5. Len(Shape(s)) = Len(s) /\ \A k \in 1..Len(s) : Shape(s)[k].depth = s[k].depth
  <2>1. Shape(s) = [k \in 1..Len(s) |-> [s[k] EXCEPT !.cell = Null, !.cache = <<>>]]
    BY <1>4 DEF Shape
  <2>2. Len(Shape(s)) = Len(s)
    <3>1. Len(s) <= MaxFilters
      <4>1. LastOf(filters, i) \in i..Len(filters) /\ Len(filters) \in Nat /\ Len(filters) <= MaxFilters
        BY <1>1, LastOfFacts, TreeBasics DEF Good, IsTree
      <4>2. Len(s) = LastOf(filters, i) - i + 1
        BY <1>2 DEF IsBranch
      <4>3. QED
        BY <4>1, <4>2, BoundsAssumption
    <3>2. QED
      BY <1>2, <3>1, ShapeIs
  <2>3. ASSUME NEW k \in 1..Len(s) PROVE Shape(s)[k].depth = s[k].depth
    <3>1. Shape(s)[k] = [s[k] EXCEPT !.cell = Null, !.cache = <<>>] /\ s[k] \in Row
      BY <1>4, <2>1
    <3>2. QED
      BY <3>1 DEF Row
  <2>4. QED
    BY <2>2, <2>3
<1>6. QED
  BY <1>3, <1>5, OneRootSame DEF s

-----------------------------------------------------------------------------
(* What each handler does to the tree *)

\* A clone has no cache.
LEMMA ClonesBare ==
    ASSUME Good, NEW s, IsShape(s)
    PROVE  Bare(Clones(s))
<1>1. Len(Clones(s)) = Len(s) /\ DOMAIN s = 1..Len(s)
  BY ClonesAddable, ShapeFacts, RowFacts DEF IsTree
<1>2. \A k \in 1..Len(s) : s[k] \in Shapes
  BY DEF IsShape
<1>3. \A k \in 1..Len(s) : Clones(s)[k].cache = s[k].cache
  BY <1>1, <1>2 DEF Clones, Shapes
<1>4. \A k \in 1..Len(s) : s[k].cache = <<>>
  BY <1>2 DEF Shapes
<1>5. QED
  BY <1>1, <1>3, <1>4 DEF Bare

\* Nor has the first root of clones.
LEMMA FirstRootBare ==
    ASSUME NEW s, IsTree(s), Bare(s)
    PROVE  Bare(FirstRoot(s))
<1>1. CASE s = <<>>
  BY <1>1 DEF FirstRoot
<1>2. CASE s # <<>>
  <2> DEFINE u == Subtree(s, 1)
  <2>1. 1 \in 1..Len(s) /\ s \in Seq(Row)
    BY <1>2, RowFacts DEF IsTree
  <2>2. IsBranch(u, s, 1, LastOf(s, 1))
    BY <2>1, SubtreeFacts
  <2> HIDE DEF u
  <2>3. ASSUME NEW k \in 1..Len(u) PROVE u[k].cache = <<>>
    <3>1. PICK j \in 1..Len(s) : u[k] = [s[j] EXCEPT !.depth = @ - s[1].depth]
      BY <2>2 DEF IsBranch
    <3>2. s[j] \in Row /\ s[j].cache = <<>>
      BY <2>1, RowFacts DEF Bare
    <3>3. QED
      BY <3>1, <3>2 DEF Row
  <2>4. QED
    BY <1>2, <2>3 DEF Bare, FirstRoot, u
<1>3. QED
  BY <1>1, <1>2

\* A branch that goes to the base of the tree.
LEMMA AttachAtBase ==
    ASSUME Good, NEW s, Addable(filters, s), OneRoot(s), Bare(s),
           filters' = InsertAtBase(filters, s)
    PROVE  Attaches
<1>1. Hangs(filters, IF filters = <<>> THEN 0 ELSE LastOf(filters, 1), 0, 0)
  BY BaseHangs DEF Good
<1>2. filters' = Insert(filters, IF filters = <<>> THEN 0 ELSE LastOf(filters, 1), s, 0)
  BY DEF InsertAtBase
<1>3. QED
  BY <1>1, <1>2 DEF Attaches

\* A branch that goes below a filter.
LEMMA AttachBelow ==
    ASSUME Good, NEW s, Addable(filters, s), OneRoot(s), Bare(s),
           NEW p \in 1..Len(filters), filters' = AppendChild(filters, p, s)
    PROVE  Attaches
<1>1. Hangs(filters, LastOf(filters, p), filters[p].depth + 1, p)
  BY AppendHangs DEF Good
<1>2. filters' = Insert(filters, LastOf(filters, p), s, filters[p].depth + 1)
  BY DEF AppendChild
<1>3. QED
  BY <1>1, <1>2 DEF Attaches

\* Opening a data file attaches a filter.
LEMMA LoadDataFileForm ==
    ASSUME Good, LoadDataFile
    PROVE  Attaches
<1> DEFINE n == NewFilter("data")
<1>1. Len(filters) < MaxFilters /\ filters' = InsertAtBase(filters, Clones(n))
  BY DEF LoadDataFile
<1>2. IsShape(n) /\ Len(n) = 1 /\ OneRoot(n)
  <2>1. "data" \in AllKinds
    BY DEF AllKinds
  <2>2. QED
    BY <2>1, NewFilterIs, NewFilterOne, Zenon
<1> HIDE DEF n
<1>3. Len(filters) + Len(n) <= MaxFilters
  BY <1>1, <1>2, TreeBasics, BoundsAssumption DEF Good
<1>4. Addable(filters, Clones(n)) /\ OneRoot(Clones(n)) /\ Bare(Clones(n))
  BY <1>2, <1>3, ClonesAddable, ClonesDepth, ClonesBare
<1>5. QED
  BY <1>1, <1>4, AttachAtBase

\* Choosing a filter attaches it.
LEMMA AddFilterForm ==
    ASSUME Good, NEW k \in Kinds, AddFilter(k)
    PROVE  Attaches
<1> DEFINE n == NewFilter(k)
<1>1. selected # 0 /\ Len(filters) < MaxFilters /\ filters' = AppendChild(filters, Place, Clones(n))
  BY DEF AddFilter
<1>2. IsShape(n) /\ Len(n) = 1 /\ OneRoot(n)
  BY KindsAssumption, NewFilterIs, NewFilterOne
<1> HIDE DEF n
<1>3. Len(filters) + Len(n) <= MaxFilters
  BY <1>1, <1>2, TreeBasics, BoundsAssumption DEF Good
<1>4. Addable(filters, Clones(n)) /\ OneRoot(Clones(n)) /\ Bare(Clones(n))
  BY <1>2, <1>3, ClonesAddable, ClonesDepth, ClonesBare
<1>5. Place \in 1..Len(filters)
  BY <1>1, PlaceFacts
<1>6. QED
  BY <1>1, <1>4, <1>5, AttachBelow

\* Restoring a stash attaches its first root.
LEMMA OnComboStashForm ==
    ASSUME Good, OnComboStash
    PROVE  Attaches
<1> DEFINE c == Clones(stash)
           f == FirstRoot(c)
<1>1. /\ stash # <<>> /\ Len(filters) + Len(stash) <= MaxFilters
      /\ filters' = InsertAtBase(filters, f)
  BY DEF OnComboStash
<1>2. IsShape(stash)
  BY GoodShapeFacts DEF Good, HistoryPart
<1>3. Addable(filters, c) /\ IsTree(c) /\ Bare(c) /\ Len(c) = Len(stash) /\ Len(stash) \in Nat
  BY <1>1, <1>2, ClonesAddable, ClonesBare
<1>4. c # <<>>
  <2>1. Len(stash) # 0
    BY <1>1, <1>2 DEF IsShape
  <2> HIDE DEF c
  <2>2. QED
    BY <1>3, <2>1
<1> HIDE DEF c
<1>5. OneRoot(f) /\ Bare(f)
  BY <1>3, <1>4, FirstRootOne, FirstRootBare
<1>6. Addable(filters, f)
  <2>1. IsTree(f) /\ Len(f) <= Len(c) /\ CellsOf(f) \subseteq CellsOf(c) /\ Distinct(f)
    BY <1>3, FirstRootIs DEF Addable
  <2> HIDE DEF f
  <2>2. Len(f) \in Nat /\ Len(c) \in Nat /\ Len(filters) \in Nat
    BY <1>3, <2>1, RowFacts, TreeBasics DEF IsTree, Good
  <2>3. Len(filters) + Len(f) <= MaxFilters
    BY <1>3, <2>1, <2>2, BoundsAssumption DEF Addable
  <2>4. QED
    BY <1>3, <2>1, <2>3 DEF Addable
<1> HIDE DEF f
<1>7. QED
  BY <1>1, <1>5, <1>6, AttachAtBase

\* Dropping a copy of a branch on a filter attaches it, unless it is refused.
LEMMA CopyOntoForm ==
    ASSUME Good, NEW s, NEW p, CopyOnto(s, p)
    PROVE  Attaches \/ filters' = filters
<1> DEFINE copy == Shape(Subtree(filters, s))
           keep == persistent \o <<filterMap[s], filterMap[p]>>
<1>1. /\ s \in DOMAIN filterMap /\ p \in DOMAIN filterMap
      /\ \/ RefuseDrag(keep)
         \/ /\ Len(filters) + Len(copy) <= MaxFilters
            /\ filters' = AppendChild(filters, p, Clones(copy))
  BY DEF CopyOnto
<1>2. s \in 1..Len(filters) /\ p \in 1..Len(filters)
  BY <1>1, PlaceFacts
<1>3. IsShape(copy) /\ OneRoot(copy)
  BY <1>2, CopyIs, CopyOne
<1> HIDE DEF copy, keep
<1>4. CASE RefuseDrag(keep)
  BY <1>4 DEF RefuseDrag
<1>5. CASE Len(filters) + Len(copy) <= MaxFilters /\ filters' = AppendChild(filters, p, Clones(copy))
  <2>1. Addable(filters, Clones(copy)) /\ OneRoot(Clones(copy)) /\ Bare(Clones(copy))
    BY <1>3, <1>5, ClonesAddable, ClonesDepth, ClonesBare
  <2>2. QED
    BY <1>2, <1>5, <2>1, AttachBelow
<1>6. QED
  BY <1>1, <1>4, <1>5

\* Dropping a copy of a branch on the base attaches it.
LEMMA CopyToBaseForm ==
    ASSUME Good, NEW s, CopyToBase(s)
    PROVE  Attaches
<1> DEFINE copy == Shape(Subtree(filters, s))
<1>1. /\ s \in DOMAIN filterMap
      /\ Len(filters) + Len(copy) <= MaxFilters
      /\ filters' = InsertAtBase(filters, Clones(copy))
  BY DEF CopyToBase
<1>2. s \in 1..Len(filters)
  BY <1>1, PlaceFacts
<1>3. IsShape(copy) /\ OneRoot(copy)
  BY <1>2, CopyIs, CopyOne
<1> HIDE DEF copy
<1>4. Addable(filters, Clones(copy)) /\ OneRoot(Clones(copy)) /\ Bare(Clones(copy))
  BY <1>1, <1>3, ClonesAddable, ClonesDepth, ClonesBare
<1>5. QED
  BY <1>1, <1>4, AttachAtBase

\* Dropping a dragged branch on a filter moves it, unless it is refused.
LEMMA MoveOntoForm ==
    ASSUME Good, NEW s, NEW p, MoveOnto(s, p)
    PROVE  Moves \/ filters' = filters
<1> DEFINE t == ClearForMove(filters, s)
           keep == persistent \o <<filterMap[s], filterMap[p]>>
<1>1. /\ s \in DOMAIN filterMap /\ p \in DOMAIN filterMap
      /\ \/ IsInSubtree(filters, s, p) /\ RefuseDrag(keep)
         \/ ~IsInSubtree(filters, s, p) /\ filters' = Moved(t, s, LastOf(t, p), t[p].depth + 1)
  BY DEF MoveOnto
<1>2. s \in 1..Len(filters) /\ p \in 1..Len(filters)
  BY <1>1, PlaceFacts
<1>3. LastOf(t, s) = LastOf(filters, s) /\ t[p].depth \in Nat
  BY <1>2, MoveClears
<1>4. Moves <=> \E i, q \in 1..Len(filters) : \E d :
                    /\ MayMove(ClearForMove(filters, i), i, q, d)
                    /\ d # 0 \/ ClearForMove(filters, i)[i].kind = "data"
                    /\ filters' = Moved(ClearForMove(filters, i), i,
                                        LastOf(ClearForMove(filters, i), q), d)
  BY DEF Moves
<1>5. CASE RefuseDrag(keep)
  BY <1>5 DEF RefuseDrag
<1>6. CASE ~IsInSubtree(filters, s, p) /\ filters' = Moved(t, s, LastOf(t, p), t[p].depth + 1)
  <2>1. p \notin s..LastOf(t, s)
    BY <1>2, <1>3, <1>6 DEF IsInSubtree
  <2>2. MayMove(t, s, p, t[p].depth + 1) /\ t[p].depth + 1 # 0
    BY <1>3, <2>1 DEF MayMove
  <2>3. QED
    BY <1>2, <1>4, <1>6, <2>2
<1>7. QED
  BY <1>1, <1>5, <1>6

\* Dropping a dragged branch on the base moves it there.
LEMMA MoveToBaseForm ==
    ASSUME Good, NEW s, MoveToBase(s)
    PROVE  Moves
<1> DEFINE t == ClearForMove(filters, s)
<1>1. /\ s \in DOMAIN filterMap /\ filters[s].kind = "data"
      /\ filters' = Moved(t, s, LastOf(t, 1), 0)
  BY DEF MoveToBase
<1>2. s \in 1..Len(filters)
  BY <1>1, PlaceFacts
<1>3. t[s].kind = "data" /\ 1 \in 1..Len(filters)
  BY <1>1, <1>2, MoveClears, TreeBasics DEF Good
<1>4. MayMove(t, s, 1, 0)
  BY DEF MayMove
<1>5. QED
  BY <1>1, <1>2, <1>3, <1>4 DEF Moves

\* Opening a state file and merging one replace the tree.
LEMMA StateFileForm ==
    ASSUME Good, NEW s \in StateFiles, LoadStateFile(s) \/ MergeStateFile(s)
    PROVE  Replaces
<1>1. CASE LoadStateFile(s)
  <2>1. filters' = Clones(s)
    BY <1>1 DEF LoadStateFile
  <2>2. QED
    BY <2>1, StateFileGood DEF Replaces
<1>2. CASE MergeStateFile(s)
  <2>1. filters' = Clones(FirstRoot(s))
    BY <1>2 DEF MergeStateFile
  <2>2. IsShape(FirstRoot(s)) /\ Based(FirstRoot(s))
    BY StateFileGood, ShapeFacts, FirstRootIs
  <2>3. QED
    BY <2>1, <2>2 DEF Replaces
<1>3. QED
  BY <1>1, <1>2

\* So do undo and redo.
LEMMA HistoryForm ==
    ASSUME Good, OnEditUndo \/ OnEditRedo
    PROVE  Replaces
<1>1. PICK stack \in {undo, redo} : stack # <<>> /\ Restore(Last(stack))
  BY DEF OnEditUndo, OnEditRedo
<1>2. stack \in Seq(GoodShapes)
  BY <1>1 DEF Good, HistoryPart
<1>3. Last(stack) \in GoodShapes
  BY <1>1, <1>2, FrontGood
<1>4. IsShape(Last(stack)) /\ Based(Last(stack))
  BY <1>3, GoodShapeFacts
<1>5. filters' = Clones(Last(stack))
  BY <1>1 DEF Restore
<1>6. QED
  BY <1>4, <1>5 DEF Replaces

\* Deleting the selected branch detaches it.
LEMMA DeleteFilterForm ==
    ASSUME Good, DeleteFilter
    PROVE  Detaches
<1>1. selected # 0 /\ filters' = Erase(filters, Place)
  BY DEF DeleteFilter
<1>2. QED
  BY <1>1, PlaceFacts DEF Detaches

-----------------------------------------------------------------------------
(* Each step has one of these forms *)

\* The property of one filter changes: the caches below it are cleared, or it
\* is a filter with a region in the plots, and the change is noted as pending.
Changes ==
    \E i \in 1..Len(filters) : \E S :
        /\ filters' = [ClearCaches(filters, S) EXCEPT ![i].prop = 1 - @]
        /\ \/ Below(filters, i) \subseteq S /\ plotUpdates' = plotUpdates
           \/ /\ "range" \in Handlers /\ ~busy /\ filters[i].cell \in regions
              /\ plotUpdates' = TRUE

\* A file is opened or merged.
LEMMA FileForm ==
    ASSUME Good, FileStep
    PROVE  (Attaches \/ Replaces) /\ plotUpdates' = plotUpdates
<1>1. CASE LoadDataFile
  BY <1>1, LoadDataFileForm DEF LoadDataFile, plotVars
<1>2. CASE \E s \in StateFiles : LoadStateFile(s) \/ MergeStateFile(s)
  BY <1>2, StateFileForm DEF LoadStateFile, MergeStateFile, plotVars
<1>3. QED
  BY <1>1, <1>2 DEF FileStep

\* A filter is added, or a branch to or from the stash.
LEMMA AddForm ==
    ASSUME Good, AddStep
    PROVE  (Attaches \/ filters' = filters) /\ plotUpdates' = plotUpdates
<1>1. CASE \E k \in Kinds : AddFilter(k)
  BY <1>1, AddFilterForm DEF AddFilter, plotVars
<1>2. CASE StashFilters
  BY <1>2 DEF StashFilters, plotVars
<1>3. CASE OnComboStash
  BY <1>3, OnComboStashForm DEF OnComboStash, plotVars
<1>4. QED
  BY <1>1, <1>2, <1>3 DEF AddStep

\* A branch is dragged.
LEMMA DragForm ==
    ASSUME Good, DragStep
    PROVE  (Attaches \/ Moves \/ filters' = filters) /\ plotUpdates' = plotUpdates
<1>1. CASE \E s, p \in 1..MaxFilters : MoveOnto(s, p)
  BY <1>1, MoveOntoForm DEF MoveOnto, plotVars
<1>2. CASE \E s, p \in 1..MaxFilters : CopyOnto(s, p)
  BY <1>2, CopyOntoForm DEF CopyOnto, plotVars
<1>3. CASE \E s \in 1..MaxFilters : MoveToBase(s)
  BY <1>3, MoveToBaseForm DEF MoveToBase, plotVars
<1>4. CASE \E s \in 1..MaxFilters : CopyToBase(s)
  BY <1>4, CopyToBaseForm DEF CopyToBase, plotVars
<1>5. QED
  BY <1>1, <1>2, <1>3, <1>4 DEF DragStep

\* The property grid changes a filter.
LEMMA SetFilterPropertyForm ==
    ASSUME Good, SetFilterProperty
    PROVE  Changes \/ (filters' = filters /\ plotUpdates' = plotUpdates)
<1>1. selected # 0 /\ plotUpdates' = plotUpdates
  BY DEF SetFilterProperty, plotVars
<1>2. \/ filters' = [ClearCaches(filters, Below(filters, Place)) EXCEPT ![Place].prop = 1 - @]
      \/ filters' = filters
  BY DEF SetFilterProperty
<1>3. Place \in 1..Len(filters)
  BY <1>1, PlaceFacts
<1>4. QED
  BY <1>1, <1>2, <1>3 DEF Changes

\* A branch is deleted, an edit undone or redone, a property changed.
LEMMA EditForm ==
    ASSUME Good, EditStep
    PROVE  \/ (Detaches \/ Replaces \/ filters' = filters) /\ plotUpdates' = plotUpdates
           \/ Changes
<1>1. CASE SetFilterProperty
  BY <1>1, SetFilterPropertyForm
<1>2. CASE DeleteFilter
  BY <1>2, DeleteFilterForm DEF DeleteFilter, plotVars
<1>3. CASE OnEditUndo \/ OnEditRedo
  BY <1>3, HistoryForm DEF OnEditUndo, OnEditRedo, Restore, plotVars
<1>4. CASE \E id \in 1..MaxFilters : Select(id)
  BY <1>4 DEF Select, plotVars
<1>5. QED
  BY <1>1, <1>2, <1>3, <1>4 DEF EditStep

\* A drag in the scene or in the plots, or the range dialog, changes a filter.
LEMMA DraggedForm ==
    ASSUME Good, NEW i, ApplyBindings(i) \/ OnEditRange(i) \/ SetPropFromRegion(i)
    PROVE  Changes
<1>1. DOMAIN filters = 1..Len(filters)
  BY TreeBasics DEF Good
<1>2. CASE ApplyBindings(i) \/ OnEditRange(i)
  <2>1. /\ i \in 1..Len(filters) /\ plotUpdates' = plotUpdates
        /\ filters' = [ClearCaches(filters, Below(filters, i)) EXCEPT ![i].prop = 1 - @]
    BY <1>1, <1>2 DEF ApplyBindings, OnEditRange, plotVars
  <2>2. QED
    BY <2>1 DEF Changes
<1>3. CASE SetPropFromRegion(i)
  <2>1. /\ i \in 1..Len(filters) /\ plotUpdates' = TRUE
        /\ "range" \in Handlers /\ ~busy /\ filters[i].cell \in regions
        /\ filters' = [ClearCaches(filters, {i}) EXCEPT ![i].prop = 1 - @]
    BY <1>1, <1>3 DEF SetPropFromRegion, Input
  <2>2. QED
    BY <2>1 DEF Changes
<1>4. QED
  BY <1>2, <1>3

\* A step attaches, detaches, moves or replaces filters or leaves them alone, or
\* changes one, or begins or ends a refresh.
LEMMA StepForm ==
    ASSUME Good, [Next]_vars
    PROVE  \/ /\ Attaches \/ Detaches \/ Moves \/ Replaces \/ filters' = filters
              /\ plotUpdates' = plotUpdates
           \/ Changes \/ OnUpdateTimer \/ \E ok \in BOOLEAN : RefreshDone(ok)
<1>1. CASE FileStep
  BY <1>1, FileForm
<1>2. CASE AddStep
  BY <1>2, AddForm
<1>3. CASE DragStep
  BY <1>3, DragForm
<1>4. CASE EditStep
  BY <1>4, EditForm
<1>5. CASE DataStep
  BY <1>5, DraggedForm DEF DataStep
<1>6. CASE UNCHANGED vars
  BY <1>6 DEF vars, plotVars
<1>7. QED
  BY <1>1, <1>2, <1>3, <1>4, <1>5, <1>6 DEF Next

\* The steps that change no more than properties and caches.
LEMMA ChangesSame ==
    ASSUME Good, Changes \/ OnUpdateTimer \/ \E ok \in BOOLEAN : RefreshDone(ok)
    PROVE  Same(filters, filters')
<1>1. IsTree(filters)
  BY TreeBasics DEF Good
<1>2. CASE Changes
  <2>1. PICK i, S : filters' = [ClearCaches(filters, S) EXCEPT ![i].prop = 1 - @]
    BY <1>2 DEF Changes
  <2>2. QED
    BY <2>1, PropertyChanged
<1>3. CASE OnUpdateTimer
  <2>1. filters' = ClearCacheByType(filters, "range")
    BY <1>3 DEF OnUpdateTimer
  <2>2. QED
    BY <1>1, <2>1, ClearCachesSame DEF ClearCacheByType
<1>4. QED
  BY <1>2, <1>3, RefreshDoneSame

\* Every step is one operation on the forest, or none.
LEMMA StepForest ==
    ASSUME Good, [Next]_vars
    PROVE  [Forest!Next]_(Parents(filters))
<1>1. GoodTree(filters')
  BY NextGood, StutterGood DEF Good
<1>2. CASE Attaches \/ Detaches \/ Moves \/ Replaces
  BY <1>1, <1>2, AttachStep, DetachStep, MoveStep, ReplaceStep DEF Forest!Next
<1>3. CASE filters' = filters
  BY <1>3, PrimedParents
<1>4. CASE Changes \/ OnUpdateTimer \/ \E ok \in BOOLEAN : RefreshDone(ok)
  BY <1>4, ChangesSame, SameStep
<1>5. QED
  BY <1>2, <1>3, <1>4, StepForm

\* Whatever is done to the sequence of nodes is one operation on the forest
\* that it stands for, in which no filter but the one moved gets another
\* parent: the sequence implements FilterForest, and with it has no cycle.
THEOREM SpecImplementsForest == Spec => ImplementsForest
<1>1. Init => Forest!Init
  <2>1. SUFFICES ASSUME Init PROVE Parents(filters) = [f \in {} |-> f]
    BY DEF Forest!Init
  <2>2. CellsOf(filters) = {}
    BY <2>1 DEF Init, CellsOf
  <2>3. QED
    BY <2>2 DEF Parents
<1>2. Good /\ [Next]_vars => [Forest!Next]_(Parents(filters))
  BY StepForest
<1>3. QED
  BY <1>1, <1>2, SpecGood, PTL DEF Spec, ImplementsForest, Forest!Spec

-----------------------------------------------------------------------------
(* The caches *)

\* The inductive invariant of the caches: they are fresh, but for those that a
\* dragged region has an effect on; and the regions that can be dragged belong
\* to range filters.
FreshPart == Fresh(filters, plotUpdates)
RangePart == "range" \in Handlers => (~busy => regions \subseteq RangeCells(filters))

\* New filters without caches are put in.
LEMMA AttachFresh ==
    ASSUME Good, GoodTree(filters'), FreshPart, Attaches
    PROVE  Fresh(filters', plotUpdates)
<1> SUFFICES ASSUME NEW s, Addable(filters, s), OneRoot(s), Bare(s), NEW at, NEW d, NEW p,
                    Hangs(filters, at, d, p), filters' = Insert(filters, at, s, d)
             PROVE  Fresh(filters', plotUpdates)
  BY DEF Attaches
<1>1. Plain(filters) /\ Plain(s) /\ Plain(filters') /\ CellsOf(filters) \cap CellsOf(s) = {}
  BY DEF Good, GoodTree, Addable, Plain
<1>2. (\A k \in 1..Len(s) : s[k].cache = <<>>) /\ Fresh(filters, plotUpdates)
  BY DEF Bare, FreshPart
<1>3. QED
  BY <1>1, <1>2, InsertFresh

\* A branch is erased.
LEMMA DetachFresh ==
    ASSUME Good, GoodTree(filters'), FreshPart, Detaches
    PROVE  Fresh(filters', plotUpdates)
<1>1. Plain(filters) /\ Plain(filters')
  BY DEF Good, GoodTree, Plain
<1>2. QED
  BY <1>1, EraseFresh DEF Detaches, FreshPart

\* The loop of reparentFilter clears the caches of the whole branch, for all of
\* it is deeper than its root.
LEMMA BranchCleared ==
    ASSUME Good, NEW i \in 1..Len(filters)
    PROVE  \A k \in i..LastOf(filters, i) : ClearForMove(filters, i)[k].cache = <<>>
<1> DEFINE S == {i} \cup {j \in i..Len(filters) : filters[j].depth # filters[i].depth}
<1>1. /\ filters \in Seq(Row) /\ Len(filters) \in Nat
      /\ \A k \in 1..Len(filters) : filters[k].depth \in Nat
  BY TreeBasics, RowFacts DEF Good
<1>2. /\ LastOf(filters, i) \in i..Len(filters)
      /\ \A k \in (i + 1)..LastOf(filters, i) : filters[k].depth > filters[i].depth
  BY <1>1, LastOfFacts
<1>3. ASSUME NEW k \in i..LastOf(filters, i) PROVE k \in S /\ k \in 1..Len(filters)
  <2>1. k \in i..Len(filters) /\ k \in 1..Len(filters) /\ (k = i \/ k \in (i + 1)..LastOf(filters, i))
    BY <1>1, <1>2
  <2>2. k # i => filters[k].depth > filters[i].depth /\ filters[k].depth \in Nat /\ filters[i].depth \in Nat
    BY <1>1, <1>2, <2>1
  <2>3. QED
    BY <2>1, <2>2
<1>4. ClearForMove(filters, i) = ClearCaches(filters, S)
  BY DEF ClearForMove
<1> HIDE DEF S
<1>5. QED
  BY <1>1, <1>3, <1>4, ClearedNode

\* A branch that has lost its caches is moved.
LEMMA MoveFresh ==
    ASSUME Good, FreshPart, Moves
    PROVE  Fresh(filters', plotUpdates)
<1> SUFFICES ASSUME NEW i \in 1..Len(filters), NEW p \in 1..Len(filters), NEW d, NEW t,
                    t = ClearForMove(filters, i),
                    MayMove(t, i, p, d), d # 0 \/ t[i].kind = "data",
                    filters' = Moved(t, i, LastOf(t, p), d)
             PROVE  Fresh(filters', plotUpdates)
  BY DEF Moves
<1>1. GoodTree(t) /\ i \in 1..Len(t) /\ p \in 1..Len(t) /\ LastOf(t, i) = LastOf(filters, i)
  BY MoveClears
<1>2. \A k \in i..LastOf(t, i) : t[k].cache = <<>>
  BY <1>1, BranchCleared
<1>3. Fresh(t, plotUpdates)
  <2>1. Plain(filters)
    BY DEF Good, GoodTree, Plain
  <2>2. QED
    BY <2>1, ClearFresh DEF FreshPart, ClearForMove
<1>4. QED
  BY <1>1, <1>2, <1>3, MovedFresh

\* Clones take the place of the tree.
LEMMA ReplaceFresh ==
    ASSUME Good, GoodTree(filters'), Replaces
    PROVE  Fresh(filters', plotUpdates)
<1>1. Bare(filters')
  BY ClonesBare DEF Replaces
<1>2. Plain(filters')
  BY DEF GoodTree, Plain
<1>3. QED
  BY <1>1, <1>2, NewFresh DEF Bare

\* The property of a filter changes.
LEMMA ChangesFresh ==
    ASSUME Good, FreshPart, RangePart, Changes
    PROVE  Fresh(filters', plotUpdates')
<1> SUFFICES ASSUME NEW i \in 1..Len(filters), NEW S,
                    filters' = [ClearCaches(filters, S) EXCEPT ![i].prop = 1 - @],
                    \/ Below(filters, i) \subseteq S /\ plotUpdates' = plotUpdates
                    \/ /\ "range" \in Handlers /\ ~busy /\ filters[i].cell \in regions
                       /\ plotUpdates' = TRUE
             PROVE  Fresh(filters', plotUpdates')
  BY DEF Changes
<1>1. Plain(filters) /\ IsTree(filters)
  BY DEF Good, GoodTree, Plain
<1>2. Changed(filters, filters', i, S)
  BY <1>1, ChangedIs
<1>3. Fresh(filters, plotUpdates)
  BY DEF FreshPart
<1>4. CASE Below(filters, i) \subseteq S /\ plotUpdates' = plotUpdates
  BY <1>1, <1>2, <1>3, <1>4, ChangeFresh
<1>5. CASE "range" \in Handlers /\ ~busy /\ filters[i].cell \in regions /\ plotUpdates' = TRUE
  <2>1. filters[i].cell \in RangeCells(filters)
    BY <1>5 DEF RangePart
  <2>2. filters[i].kind = "range"
    BY <1>1, <2>1, NodeOfIs DEF RangeCells
  <2>3. QED
    BY <1>1, <1>2, <1>3, <1>5, <2>2, ChangeFresh
<1>6. QED
  BY <1>4, <1>5

\* A refresh ends.
LEMMA RefreshDoneFresh ==
    ASSUME Good, FreshPart, NEW ok, RefreshDone(ok)
    PROVE  Fresh(filters', plotUpdates')
<1> DEFINE out == Outputs(filters, TRUE)
<1>1. PICK S : filters' = [i \in DOMAIN filters |->
                              IF i \in S THEN [filters[i] EXCEPT !.cache = out[i]] ELSE filters[i]]
  BY DEF RefreshDone
<1>2. plotUpdates' = plotUpdates /\ Same(filters, filters')
  BY RefreshDoneSame DEF RefreshDone
<1>3. DOMAIN filters = 1..Len(filters) /\ \A i \in 1..Len(filters) : filters[i] \in Row
  BY TreeBasics DEF Good
<1>4. Plain(filters) /\ Fresh(filters, plotUpdates)
  BY DEF Good, GoodTree, Plain, FreshPart
<1> HIDE DEF out
<1>5. ASSUME NEW i \in 1..Len(filters)
      PROVE  /\ filters'[i].prop = filters[i].prop
             /\ filters'[i].cache = IF i \in S THEN out[i] ELSE filters[i].cache
  <2>1. filters'[i] = IF i \in S THEN [filters[i] EXCEPT !.cache = out[i]] ELSE filters[i]
    BY <1>1, <1>3
  <2>2. QED
    BY <1>3, <2>1 DEF Row
<1>6. \A i \in 1..Len(filters) :
          /\ filters'[i].prop = filters[i].prop
          /\ filters'[i].cache = IF i \in S THEN Outputs(filters, TRUE)[i] ELSE filters[i].cache
  BY <1>5 DEF out
<1>7. QED
  BY <1>2, <1>4, <1>6, RefreshFresh

\* Every step leaves the caches fresh.
LEMMA StepFresh ==
    ASSUME Good, FreshPart, RangePart, [Next]_vars
    PROVE  FreshPart'
<1>1. FreshPart' <=> Fresh(filters', plotUpdates')
  BY DEF FreshPart, Fresh, FreshAt, NodeOf, OutOf, OutAt, Outputs, Output, ParentOf, IndexOf,
         CellsOf, Stale, RangeCells, Parents, Above, Forest!Branch, Forest!Closed
<1>2. GoodTree(filters')
  BY NextGood, StutterGood DEF Good
<1>3. CASE plotUpdates' = plotUpdates /\ (Attaches \/ Detaches \/ Moves \/ Replaces)
  BY <1>1, <1>2, <1>3, AttachFresh, DetachFresh, MoveFresh, ReplaceFresh
<1>4. CASE plotUpdates' = plotUpdates /\ filters' = filters
  BY <1>1, <1>4 DEF FreshPart
<1>5. CASE Changes
  BY <1>1, <1>5, ChangesFresh
<1>6. CASE OnUpdateTimer
  <2>1. filters' = ClearCacheByType(filters, "range") /\ plotUpdates' = FALSE
    BY <1>6 DEF OnUpdateTimer
  <2>2. Plain(filters) /\ Fresh(filters, plotUpdates)
    BY DEF Good, GoodTree, Plain, FreshPart
  <2>3. Fresh(ClearCacheByType(filters, "range"), FALSE)
    BY <2>2, TypeFresh
  <2>4. QED
    BY <1>1, <2>1, <2>3
<1>7. CASE \E ok \in BOOLEAN : RefreshDone(ok)
  BY <1>1, <1>7, RefreshDoneFresh
<1>8. QED
  BY <1>3, <1>4, <1>5, <1>6, <1>7, StepForm

\* A filter that stays in the tree stays of its kind.
LEMMA KindsStay ==
    ASSUME Good, [Next]_vars, NEW c \in CellsOf(filters), c \in CellsOf(filters')
    PROVE  NodeOf(filters', c).kind = NodeOf(filters, c).kind
<1>1. GoodTree(filters') /\ GoodTree(filters) /\ Plain(filters) /\ Plain(filters')
  BY NextGood, StutterGood DEF Good, GoodTree, Plain
<1>2. CASE Attaches
  <2>1. PICK s, at, d, p : /\ Addable(filters, s) /\ Hangs(filters, at, d, p)
                           /\ filters' = Insert(filters, at, s, d)
    BY <1>2 DEF Attaches
  <2>2. Plain(s) /\ at \in 0..Len(filters) /\ d \in Nat
    BY <2>1 DEF Addable, Plain, Hangs
  <2>3. QED
    BY <1>1, <2>1, <2>2, InsertNodeOf DEF Alike
<1>3. CASE Detaches
  <2>1. PICK i \in 1..Len(filters) : filters' = Erase(filters, i)
    BY <1>3 DEF Detaches
  <2>2. QED
    BY <1>1, <2>1, EraseNodeOf DEF Alike
<1>4. CASE Moves
  <2>1. PICK i, p, d, t :
            /\ i \in 1..Len(filters) /\ p \in 1..Len(filters) /\ t = ClearForMove(filters, i)
            /\ MayMove(t, i, p, d) /\ (d # 0 \/ t[i].kind = "data")
            /\ filters' = Moved(t, i, LastOf(t, p), d)
    BY <1>4 DEF Moves
  <2>2. /\ Same(filters, t) /\ GoodTree(t) /\ i \in 1..Len(t) /\ p \in 1..Len(t)
        /\ CellsOf(t) = CellsOf(filters)
    BY <2>1, MoveClears
  <2>3. NodeOf(filters', c).kind = NodeOf(t, c).kind
    BY <2>1, <2>2, MovedNodeOf DEF Alike
  <2>4. NodeOf(t, c).kind = NodeOf(filters, c).kind
    BY <1>1, <2>2, SameNodeOf
  <2>5. QED
    BY <2>3, <2>4
<1>5. CASE Replaces
  <2>1. PICK s : IsShape(s) /\ filters' = Clones(s)
    BY <1>5 DEF Replaces
  <2>2. filters \in Seq(Row) /\ Len(filters) <= MaxFilters /\ CellsOf(filters) \subseteq Cells
    BY <1>1, TreeBasics
  <2>3. CellsOf(filters') \subseteq Cells \ CellsOf(filters)
    BY <2>1, <2>2, ClonesIs
  <2>4. QED
    BY <2>3
<1>6. CASE filters' = filters
  BY <1>6 DEF NodeOf, IndexOf
<1>7. CASE Changes \/ OnUpdateTimer \/ \E ok \in BOOLEAN : RefreshDone(ok)
  BY <1>1, <1>7, ChangesSame, SameNodeOf
<1>8. QED
  BY <1>2, <1>3, <1>4, <1>5, <1>6, <1>7, StepForm

\* As long as no refresh fails, the regions belong to range filters.
LEMMA StepRange ==
    ASSUME ~({"error", "range"} \subseteq Handlers), Good, RangePart, [Next]_vars
    PROVE  RangePart'
<1>1. RangePart' <=> ("range" \in Handlers => (~busy' => regions' \subseteq RangeCells(filters')))
  BY DEF RangePart, RangeCells, NodeOf, IndexOf, CellsOf
<1>2. SUFFICES ASSUME "range" \in Handlers, ~busy' PROVE regions' \subseteq RangeCells(filters')
  BY <1>1
<1>3. CASE Kept
  <2>1. ~busy /\ regions' = regions /\ CellsOf(filters) \subseteq CellsOf(filters')
    BY <1>3 DEF Kept
  <2>2. regions \subseteq RangeCells(filters)
    BY <1>2, <2>1 DEF RangePart
  <2>3. QED
    BY <2>1, <2>2, KindsStay DEF RangeCells
<1>4. CASE \E ok \in BOOLEAN : RefreshDone(ok)
  <2>1. PICK ok \in BOOLEAN : RefreshDone(ok)
    BY <1>4
  <2>2. ok
    BY <1>2, <2>1 DEF RefreshDone
  <2>3. regions' = {filters[i].cell : i \in {j \in DOMAIN filters : filters[j].kind = "range"}}
    BY <2>1, <2>2 DEF RefreshDone
  <2>4. Plain(filters) /\ Same(filters, filters')
    BY <2>1, RefreshDoneSame DEF Good, GoodTree, Plain
  <2>5. RangeCells(filters') = RangeCells(filters)
    BY <2>4, SameNodeOf
  <2>6. ASSUME NEW i \in DOMAIN filters, filters[i].kind = "range"
        PROVE  filters[i].cell \in RangeCells(filters)
    <3>1. i \in 1..Len(filters)
      BY <2>4, PlainFacts
    <3>2. filters[i].cell \in CellsOf(filters) /\ NodeOf(filters, filters[i].cell) = filters[i]
      BY <2>4, <3>1, PlainFacts, NodeOfIs
    <3>3. QED
      BY <2>6, <3>2 DEF RangeCells
  <2>7. QED
    BY <2>3, <2>5, <2>6
<1>5. CASE UNCHANGED vars
  <2>1. filters' = filters /\ regions' = regions /\ busy' = busy
    BY <1>5 DEF vars, plotVars
  <2>2. QED
    BY <1>2, <2>1 DEF RangePart
<1>6. QED
  BY <1>2, <1>3, <1>4, <1>5, NextGood

\* A cache always holds what its filter would put out now, but for the time
\* until a dragged region is dealt with: whatever is moved, copied, undone or
\* changed, no filter puts out what was true of another place or another
\* setting.  A refresh that fails may leave a region whose filter is freed and
\* whose cell is then another filter's: dragging it changes a filter whose
\* caches clearCacheByType does not clear.
THEOREM SpecCachesAreFresh ==
    ~({"error", "range"} \subseteq Handlers) => (Spec => []CachesAreFresh)
<1>1. SUFFICES ASSUME ~({"error", "range"} \subseteq Handlers) PROVE Spec => []CachesAreFresh
  OBVIOUS
<1>2. Init => FreshPart /\ RangePart
  <2>1. SUFFICES ASSUME Init PROVE FreshPart /\ RangePart
    OBVIOUS
  <2>2. CellsOf(filters) = {} /\ regions = {}
    BY <2>1 DEF Init, CellsOf
  <2>3. QED
    BY <2>2 DEF FreshPart, Fresh, RangePart
<1>3. Good /\ FreshPart /\ RangePart /\ [Next]_vars => FreshPart' /\ RangePart'
  BY <1>1, StepFresh, StepRange
<1>4. Good /\ FreshPart => CachesAreFresh
  <2>1. SUFFICES ASSUME Good, FreshPart, ~plotUpdates, NEW i \in DOMAIN filters
                 PROVE  filters[i].cache \in {<<>>, Outputs(filters, FALSE)[i]}
    BY DEF CachesAreFresh
  <2>2. Plain(filters)
    BY <2>1 DEF Good, GoodTree, Plain
  <2>3. /\ i \in 1..Len(filters) /\ filters[i].cell \in CellsOf(filters)
        /\ IndexOf(filters, filters[i].cell) = i
    BY <2>1, <2>2, PlainFacts
  <2>4. FreshAt(filters, plotUpdates, filters[i].cell)
    BY <2>1, <2>3 DEF FreshPart, Fresh
  <2>5. QED
    BY <2>1, <2>3, <2>4 DEF FreshAt, NodeOf, OutOf, OutAt
<1>5. QED
  BY <1>2, <1>3, <1>4, SpecGood, PTL DEF Spec
=============================================================================

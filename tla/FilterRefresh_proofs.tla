------------------------ MODULE FilterRefresh_proofs ------------------------
(***************************************************************************)
(* The invariants of the refresh engine, for every tree, every kind of     *)
(* filters and any number of changes of the files.  The inductive          *)
(* invariant has four parts, each proved with the help of those before it: *)
(*   Control  in which order the filters are visited, and how many levels  *)
(*            the stack and the collector have;                            *)
(*   Owned    who frees a stream, and until when it is held;               *)
(*   Tidy     what each level of the collector is of, and where every      *)
(*            stream that is allocated is known;                           *)
(*   Exact    what the caches, the stack and the output hold is what would *)
(*            be there if every filter ran.                                *)
(***************************************************************************)
EXTENDS FilterRefresh, FiniteSetTheorems, SequenceTheorems, WellFoundedInduction, TLAPS

(* The tree *)

\* The least number of a set.
LEMMA MinFacts ==
    ASSUME NEW S, S \subseteq Nat, S # {}
    PROVE  Min(S) \in S /\ \A x \in S : Min(S) <= x
<1> DEFINE R == OpToRel(<, Nat)
<1>1. IsWellFoundedOn(R, Nat)
  BY NatLessThanWellFounded
<1>2. \A x, y \in Nat : x < y => <<x, y>> \in R
  BY DEF OpToRel
<1> HIDE DEF R
<1>3. PICK m \in S : \A y \in S : ~(<<y, m>> \in R)
  BY <1>1, WFMin
<1>4. \A y \in S : m <= y
  <2>1. SUFFICES ASSUME NEW y \in S, ~(m <= y) PROVE FALSE
    OBVIOUS
  <2>2. y < m
    BY <2>1
  <2>3. QED
    BY <1>2, <1>3, <2>2
<1>5. QED
  BY <1>4 DEF Min

\* The greatest number of a bounded set.
LEMMA MaxFacts ==
    ASSUME NEW n \in Nat, NEW S, S \subseteq 1..n, S # {}
    PROVE  Max(S) \in S /\ \A x \in S : x <= Max(S)
<1> DEFINE T == {n - x : x \in S}
<1>1. T \subseteq Nat
  OBVIOUS
<1>0. T # {}
  <2>1. PICK y \in S : TRUE
    OBVIOUS
  <2>2. n - y \in T
    OBVIOUS
  <2>3. QED
    BY <2>2
<1>2. Min(T) \in T /\ \A x \in T : Min(T) <= x
  BY <1>0, <1>1, MinFacts
<1>3. PICK m \in S : Min(T) = n - m
  BY <1>2
<1>4. ASSUME NEW y \in S PROVE m >= y
  <2>1. n - m <= n - y
    BY <1>2, <1>3
  <2>2. QED
    BY <2>1
<1>5. QED
  BY <1>4 DEF Max

-----------------------------------------------------------------------------
\* The filters above a filter come before it, are filters, and lie on one path.
LEMMA TreeFacts ==
    ASSUME above \in Shapes
    PROVE  /\ Len(above) \in Nat /\ Filters = 1..Len(above)
           /\ \A f \in Filters : above[f] \subseteq 1..(f - 1) /\ above[f] \subseteq Filters
           /\ \A f \in Filters : \A a \in above[f] : above[a] = above[f] \cap 1..(a - 1)
           /\ \A f \in Filters : f > 1 => above[f] \subseteq {f - 1} \cup above[f - 1]
<1>1. above \in Seq(SUBSET Nat) /\ IsTree(above)
  BY RefreshAssumption
<1>2. Len(above) \in Nat /\ Filters = 1..Len(above)
  BY <1>1 DEF Filters
<1>3. ASSUME NEW f \in Filters
      PROVE  above[f] \subseteq 1..(f - 1) /\ above[f] \subseteq Filters
  <2>1. above[f] \subseteq 1..(f - 1)
    BY <1>1 DEF IsTree, Filters
  <2>2. QED
    BY <1>2, <2>1
<1>4. \A f \in Filters : \A a \in above[f] : above[a] = above[f] \cap 1..(a - 1)
  BY <1>1 DEF IsTree, Filters
<1>5. \A f \in Filters : f > 1 => above[f] \subseteq {f - 1} \cup above[f - 1]
  BY <1>1 DEF IsTree, Filters
<1>6. QED
  BY <1>2, <1>3, <1>4, <1>5

\* The depth of a filter, and how it grows along a path.
LEMMA DepthFacts ==
    ASSUME above \in Shapes
    PROVE  /\ \A f \in Filters : Depth(f) \in Nat
           /\ \A f \in Filters : \A a \in above[f] : Depth(a) < Depth(f)
           /\ \A f, g \in Filters : above[g] = above[f] \cup {f} => Depth(g) = Depth(f) + 1
<1>1. ASSUME NEW f \in Filters PROVE IsFiniteSet(above[f]) /\ Depth(f) \in Nat
  <2>1. f \in Nat /\ above[f] \subseteq 1..(f - 1)
    BY TreeFacts
  <2>2. IsFiniteSet(1..(f - 1))
    BY <2>1, FS_Interval
  <2>3. IsFiniteSet(above[f])
    BY <2>1, <2>2, FS_Subset
  <2>4. QED
    BY <2>3, FS_CardinalityType DEF Depth
<1>2. ASSUME NEW f \in Filters, NEW g \in Filters, above[g] = above[f] \cup {f}
      PROVE  Depth(g) = Depth(f) + 1
  <2>1. f \notin above[f]
    BY TreeFacts
  <2>2. QED
    BY <1>1, <1>2, <2>1, FS_AddElement DEF Depth
<1>3. ASSUME NEW f \in Filters, NEW a \in above[f] PROVE Depth(a) < Depth(f)
  <2>1. a \in Filters /\ above[a] = above[f] \cap 1..(a - 1)
    BY TreeFacts
  <2>2. above[a] \subseteq above[f] /\ a \notin above[a]
    BY <2>1
  <2>3. above[a] # above[f]
    BY <2>2
  <2>4. Cardinality(above[a]) <= Cardinality(above[f]) /\ Cardinality(above[a]) # Cardinality(above[f])
    BY <1>1, <2>2, <2>3, FS_Subset
  <2>5. Cardinality(above[a]) \in Nat /\ Cardinality(above[f]) \in Nat
    BY <1>1, <2>1 DEF Depth
  <2>6. QED
    BY <2>4, <2>5 DEF Depth
<1>4. QED
  BY <1>1, <1>2, <1>3

\* The filter right above another one.
LEMMA ParentFacts ==
    ASSUME above \in Shapes, NEW f \in Filters, above[f] # {}
    PROVE  /\ Parent(f) \in above[f] /\ Parent(f) \in Filters
           /\ above[f] = above[Parent(f)] \cup {Parent(f)}
           /\ f \in Children(Parent(f))
           /\ Depth(f) = Depth(Parent(f)) + 1
<1>1. f \in Nat /\ f >= 1 /\ above[f] \subseteq 1..(f - 1) /\ above[f] \subseteq Filters
  BY TreeFacts
<1>2. f - 1 \in Nat
  BY <1>1
<1>3. Parent(f) \in above[f] /\ \A x \in above[f] : x <= Parent(f)
  BY <1>1, <1>2, MaxFacts DEF Parent
<1>4. above[Parent(f)] = above[f] \cap 1..(Parent(f) - 1)
  BY <1>3, TreeFacts
<1>5. above[f] = above[Parent(f)] \cup {Parent(f)}
  BY <1>1, <1>3, <1>4
<1>6. Parent(f) \in Filters
  BY <1>1, <1>3
<1>7. Depth(f) = Depth(Parent(f)) + 1
  BY <1>5, <1>6, DepthFacts
<1>8. QED
  BY <1>3, <1>5, <1>6, <1>7 DEF Children

\* Two filters of one path are comparable, and the same when as deep.
LEMMA PathFacts ==
    ASSUME above \in Shapes, NEW f \in Filters,
           NEW a \in above[f] \cup {f}, NEW b \in above[f] \cup {f}
    PROVE  /\ a \in Filters /\ b \in Filters
           /\ a = b \/ a \in above[b] \/ b \in above[a]
           /\ Depth(a) = Depth(b) => a = b
<1>1. a \in Filters /\ b \in Filters
  BY TreeFacts
<1>2. above[a] = above[f] \cap 1..(a - 1) /\ above[b] = above[f] \cap 1..(b - 1)
  <2>1. above[f] \subseteq 1..(f - 1)
    BY TreeFacts
  <2>2. above[f] = above[f] \cap 1..(f - 1)
    BY <2>1
  <2>3. QED
    BY <2>2, TreeFacts
<1>3. above[f] \subseteq 1..(f - 1) /\ f \in Nat /\ a \in Nat /\ b \in Nat /\ a >= 1 /\ b >= 1
  BY <1>1, TreeFacts
<1>4. CASE a = b
  BY <1>1, <1>4
<1>5. CASE a < b
  <2>1. a \in above[f] /\ a \in 1..(b - 1)
    BY <1>3, <1>5
  <2>2. a \in above[b]
    BY <1>2, <2>1
  <2>3. Depth(a) < Depth(b) /\ Depth(a) \in Nat /\ Depth(b) \in Nat
    BY <1>1, <2>2, DepthFacts
  <2>4. QED
    BY <1>1, <2>2, <2>3
<1>6. CASE b < a
  <2>1. b \in above[f] /\ b \in 1..(a - 1)
    BY <1>3, <1>6
  <2>2. b \in above[a]
    BY <1>2, <2>1
  <2>3. Depth(b) < Depth(a) /\ Depth(a) \in Nat /\ Depth(b) \in Nat
    BY <1>1, <2>2, DepthFacts
  <2>4. QED
    BY <1>1, <2>2, <2>3
<1>7. QED
  BY <1>3, <1>4, <1>5, <1>6

\* The filters, their subtrees and leaves stay what they are.
LEMMA SameTree ==
    ASSUME above' = above
    PROVE  /\ Filters' = Filters
           /\ \A f : Subtree(f)' = Subtree(f) /\ Parent(f)' = Parent(f) /\ Depth(f)' = Depth(f)
           /\ \A f : Children(f)' = Children(f) /\ IsLeaf(f)' = IsLeaf(f)
           /\ \A f, g : IsChild(f, g)' = IsChild(f, g)
  BY DEF Filters, Subtree, IsChild, Parent, Depth, Children, IsLeaf

-----------------------------------------------------------------------------
(* What leaves a filter *)

\* What leaves a filter of what comes to it, and what would come to it if every
\* filter ran.
Step(f, in) == Passes(f, in) \cup Makes(f, in) \cup Anew(f, in)
Input(f) == IF above[f] = {} THEN {} ELSE Complete[Parent(f)]

\* The filters up to each one have a function of what leaves them.
LEMMA CompleteExists ==
    ASSUME above \in Shapes, NEW n \in 0..Len(above)
    PROVE  \E c : c = [f \in 1..n |-> Step(f, IF above[f] = {} THEN {} ELSE c[Parent(f)])]
<1> DEFINE Defines(c, m) == c = [f \in 1..m |-> Step(f, IF above[f] = {} THEN {} ELSE c[Parent(f)])]
           Without == {m \in 0..Len(above) : ~\E c : Defines(c, m)}
<1>0. Len(above) \in Nat /\ Filters = 1..Len(above)
  BY TreeFacts
<1>1. SUFFICES ASSUME Without # {} PROVE FALSE
  OBVIOUS
<1>2. Min(Without) \in Without /\ \A x \in Without : Min(Without) <= x
  <2>1. Without \subseteq Nat
    BY <1>0
  <2> HIDE DEF Without
  <2>2. QED
    BY <1>1, <2>1, MinFacts
<1>3. PICK m \in 0..Len(above) : /\ ~\E c : Defines(c, m)
                                 /\ \A x \in Without : m <= x
  BY <1>2
<1>4. m # 0
  <2>1. SUFFICES ASSUME m = 0 PROVE \E c : Defines(c, m)
    BY <1>3
  <2>2. Defines([f \in 1..m |-> {}], m)
    BY <2>1
  <2>3. QED
    BY <2>2
<1>5. m - 1 \in 0..Len(above) /\ m - 1 \notin Without
  <2>1. m - 1 \in 0..Len(above) /\ ~(m <= m - 1)
    BY <1>0, <1>3, <1>4
  <2> HIDE DEF Without
  <2>2. QED
    BY <1>3, <2>1
<1>6. PICK c : Defines(c, m - 1)
  BY <1>5
<1> DEFINE d == [f \in 1..m |-> Step(f, IF above[f] = {} THEN {} ELSE c[Parent(f)])]
<1>7. ASSUME NEW f \in 1..m, above[f] # {} PROVE d[Parent(f)] = c[Parent(f)]
  <2>1. f \in Filters
    BY <1>0
  <2>2. Parent(f) \in 1..(f - 1)
    BY <1>7, <2>1, ParentFacts, TreeFacts
  <2>3. Parent(f) \in 1..(m - 1) /\ Parent(f) \in 1..m
    BY <2>2, <1>3
  <2>4. c[Parent(f)] = Step(Parent(f), IF above[Parent(f)] = {} THEN {} ELSE c[Parent(Parent(f))])
    BY <1>6, <2>3
  <2>5. d[Parent(f)] = Step(Parent(f), IF above[Parent(f)] = {} THEN {} ELSE c[Parent(Parent(f))])
    BY <2>3
  <2>6. QED
    BY <2>4, <2>5
<1>8. Defines(d, m)
  <2>1. ASSUME NEW f \in 1..m
        PROVE  (IF above[f] = {} THEN {} ELSE d[Parent(f)]) = (IF above[f] = {} THEN {} ELSE c[Parent(f)])
    BY <1>7
  <2> HIDE DEF d
  <2>2. d = [f \in 1..m |-> Step(f, IF above[f] = {} THEN {} ELSE c[Parent(f)])]
    BY DEF d
  <2>3. QED
    BY <2>1, <2>2, Zenon
<1>9. QED
  BY <1>3, <1>8

\* What leaves a filter is given by what leaves the one above it.
LEMMA CompleteDef ==
    ASSUME above \in Shapes, NEW f \in Filters
    PROVE  Complete[f] = Step(f, Input(f))
<1>1. Len(above) \in Nat /\ Filters = 1..Len(above)
  BY TreeFacts
<1>2. \E c : c = [g \in Filters |-> Step(g, IF above[g] = {} THEN {} ELSE c[Parent(g)])]
  <2>1. Len(above) \in 0..Len(above)
    BY <1>1
  <2>2. \E c : c = [g \in 1..Len(above) |-> Step(g, IF above[g] = {} THEN {} ELSE c[Parent(g)])]
    BY <2>1, CompleteExists
  <2>3. QED
    BY <1>1, <2>2
<1>3. Complete = CHOOSE c : c = [g \in Filters |-> Step(g, IF above[g] = {} THEN {} ELSE c[Parent(g)])]
  BY Zenon DEF Complete, Step
<1>4. Complete = [g \in Filters |-> Step(g, IF above[g] = {} THEN {} ELSE Complete[Parent(g)])]
  BY <1>2, <1>3
<1>5. QED
  BY <1>4 DEF Input

\* What may leave a filter: as for Complete.
LEMMA EmittedExists ==
    ASSUME above \in Shapes, NEW n \in 0..Len(above)
    PROVE  \E e : e = [f \in 1..n |-> IF above[f] = {} THEN EmitMask(f)
                                      ELSE (e[Parent(f)] \ BlockMask(f)) \cup EmitMask(f)]
<1> DEFINE Defines(e, m) == e = [f \in 1..m |-> IF above[f] = {} THEN EmitMask(f)
                                                ELSE (e[Parent(f)] \ BlockMask(f)) \cup EmitMask(f)]
           Without == {m \in 0..Len(above) : ~\E e : Defines(e, m)}
<1>0. Len(above) \in Nat /\ Filters = 1..Len(above)
  BY TreeFacts
<1>1. SUFFICES ASSUME Without # {} PROVE FALSE
  OBVIOUS
<1>2. Min(Without) \in Without /\ \A x \in Without : Min(Without) <= x
  <2>1. Without \subseteq Nat
    BY <1>0
  <2> HIDE DEF Without
  <2>2. QED
    BY <1>1, <2>1, MinFacts
<1>3. PICK m \in 0..Len(above) : /\ ~\E e : Defines(e, m)
                                 /\ \A x \in Without : m <= x
  BY <1>2
<1>4. m # 0
  <2>1. SUFFICES ASSUME m = 0 PROVE \E e : Defines(e, m)
    BY <1>3
  <2>2. Defines([f \in 1..m |-> {}], m)
    BY <2>1
  <2>3. QED
    BY <2>2
<1>5. m - 1 \in 0..Len(above) /\ m - 1 \notin Without
  <2>1. m - 1 \in 0..Len(above) /\ ~(m <= m - 1)
    BY <1>0, <1>3, <1>4
  <2> HIDE DEF Without
  <2>2. QED
    BY <1>3, <2>1
<1>6. PICK e : Defines(e, m - 1)
  BY <1>5
<1> DEFINE d == [f \in 1..m |-> IF above[f] = {} THEN EmitMask(f)
                                ELSE (e[Parent(f)] \ BlockMask(f)) \cup EmitMask(f)]
<1>7. ASSUME NEW f \in 1..m, above[f] # {} PROVE d[Parent(f)] = e[Parent(f)]
  <2>1. f \in Filters
    BY <1>0
  <2>2. Parent(f) \in 1..(f - 1)
    BY <1>7, <2>1, ParentFacts, TreeFacts
  <2>3. Parent(f) \in 1..(m - 1) /\ Parent(f) \in 1..m
    BY <2>2, <1>3
  <2> DEFINE p == Parent(f)
             there == IF above[p] = {} THEN EmitMask(p) ELSE (e[Parent(p)] \ BlockMask(p)) \cup EmitMask(p)
  <2>4. e[p] = there
    BY <1>6, <2>3
  <2>5. d[p] = there
    BY <2>3
  <2>6. QED
    BY <2>4, <2>5
<1>8. Defines(d, m)
  <2>1. ASSUME NEW f \in 1..m
        PROVE  (IF above[f] = {} THEN EmitMask(f) ELSE (d[Parent(f)] \ BlockMask(f)) \cup EmitMask(f))
                 = (IF above[f] = {} THEN EmitMask(f) ELSE (e[Parent(f)] \ BlockMask(f)) \cup EmitMask(f))
    <3> HIDE DEF d
    <3>1. QED
      BY <1>7
  <2> HIDE DEF d
  <2>2. d = [f \in 1..m |-> IF above[f] = {} THEN EmitMask(f)
                            ELSE (e[Parent(f)] \ BlockMask(f)) \cup EmitMask(f)]
    BY DEF d
  <2>3. QED
    BY <2>1, <2>2, Zenon
<1>9. QED
  BY <1>3, <1>8

\* What may leave a filter is given by what may leave the one above it.
LEMMA EmittedDef ==
    ASSUME above \in Shapes, NEW f \in Filters
    PROVE  Emitted[f] = IF above[f] = {} THEN EmitMask(f)
                        ELSE (Emitted[Parent(f)] \ BlockMask(f)) \cup EmitMask(f)
<1>1. Len(above) \in Nat /\ Filters = 1..Len(above)
  BY TreeFacts
<1>2. \E e : e = [g \in Filters |-> IF above[g] = {} THEN EmitMask(g)
                                    ELSE (e[Parent(g)] \ BlockMask(g)) \cup EmitMask(g)]
  <2>1. Len(above) \in 0..Len(above)
    BY <1>1
  <2>2. \E e : e = [g \in 1..Len(above) |-> IF above[g] = {} THEN EmitMask(g)
                                            ELSE (e[Parent(g)] \ BlockMask(g)) \cup EmitMask(g)]
    BY <2>1, EmittedExists
  <2>3. QED
    BY <1>1, <2>2
<1>3. Emitted = CHOOSE e : e = [g \in Filters |-> IF above[g] = {} THEN EmitMask(g)
                                                  ELSE (e[Parent(g)] \ BlockMask(g)) \cup EmitMask(g)]
  BY Zenon DEF Emitted
<1>4. Emitted = [g \in Filters |-> IF above[g] = {} THEN EmitMask(g)
                                   ELSE (Emitted[Parent(g)] \ BlockMask(g)) \cup EmitMask(g)]
  BY <1>2, <1>3
<1>5. QED
  BY <1>4

\* What a filter makes of its own is of the types of its mask, and its own.
LEMMA MakesFacts ==
    ASSUME NEW f, NEW in
    PROVE  /\ \A s \in Makes(f, in) : s.src = f /\ s.type \in EmitMask(f)
           /\ \A s \in Anew(f, in)  : s.src = f /\ s.type \in EmitMask(f)
  BY DEF Makes, Anew, Stream

\* What leaves a filter is of the types that may leave it.
LEMMA TypesAreEmitted ==
    ASSUME above \in Shapes, NEW f \in Filters, NEW s \in Complete[f]
    PROVE  s.type \in Emitted[f]
<1> DEFINE Bad == {g \in Filters : \E t \in Complete[g] : t.type \notin Emitted[g]}
<1>1. SUFFICES ASSUME Bad # {} PROVE FALSE
  OBVIOUS
<1>2. Filters \subseteq Nat
  BY TreeFacts
<1>3. PICK g \in Filters : /\ \E t \in Complete[g] : t.type \notin Emitted[g]
                           /\ \A h \in Bad : g <= h
  <2>1. Bad \subseteq Nat
    BY <1>2
  <2>2. Min(Bad) \in Bad /\ \A h \in Bad : Min(Bad) <= h
    <3> HIDE DEF Bad
    <3>1. QED
      BY <1>1, <2>1, MinFacts
  <2>3. QED
    BY <2>2
<1>4. PICK t \in Complete[g] : t.type \notin Emitted[g]
  BY <1>3
<1>5. t \in Passes(g, Input(g)) \/ t \in Makes(g, Input(g)) \/ t \in Anew(g, Input(g))
  BY <1>4, CompleteDef DEF Step
<1>6. EmitMask(g) \subseteq Emitted[g]
  BY EmittedDef
<1>7. t \in Input(g) /\ t.type \notin BlockMask(g)
  BY <1>4, <1>5, <1>6, MakesFacts DEF Passes
<1>8. above[g] # {} /\ t \in Complete[Parent(g)]
  BY <1>7 DEF Input
<1>9. Parent(g) \in Filters /\ Parent(g) < g
  BY <1>8, ParentFacts, TreeFacts
<1>10. Parent(g) \notin Bad
  <2>1. ~(g <= Parent(g))
    BY <1>2, <1>9
  <2> HIDE DEF Bad
  <2>2. QED
    BY <1>3, <2>1
<1>11. t.type \in Emitted[Parent(g)]
  BY <1>8, <1>9, <1>10
<1>12. Emitted[g] = (Emitted[Parent(g)] \ BlockMask(g)) \cup EmitMask(g)
  BY <1>8, EmittedDef
<1>13. QED
  BY <1>4, <1>7, <1>11, <1>12

\* CompleteDef as a formula, so that it can be primed.
LEMMA CompleteEquation ==
    above \in Shapes => \A f \in Filters : Complete[f] = Step(f, Input(f))
  BY CompleteDef

\* The same after a step.
LEMMA CompleteEquationNext ==
    (above \in Shapes)' => (\A f \in Filters : Complete[f] = Step(f, Input(f)))'
  BY CompleteEquation, PTL

\* What would leave a filter depends on what is on the path to it only.
LEMMA CompleteLocal ==
    ASSUME above \in Shapes, above' = above, kind' = kind, NEW f \in Filters,
           \A g \in above[f] \cup {f} : file'[g] = file[g] /\ (g \in drawn' <=> g \in drawn)
    PROVE  Complete'[f] = Complete[f]
<1> DEFINE Bad == {g \in above[f] \cup {f} : Complete'[g] # Complete[g]}
<1>1. SUFFICES ASSUME Bad # {} PROVE FALSE
  OBVIOUS
<1>2. Filters' = Filters /\ above' \in Shapes /\ Filters \subseteq Nat /\ above[f] \subseteq Filters
  BY TreeFacts DEF Filters
<1>3. PICK g \in above[f] \cup {f} : Complete'[g] # Complete[g] /\ \A h \in Bad : g <= h
  <2>1. Bad \subseteq Nat
    BY <1>2
  <2>2. Min(Bad) \in Bad /\ \A h \in Bad : Min(Bad) <= h
    <3> HIDE DEF Bad
    <3>1. QED
      BY <1>1, <2>1, MinFacts
  <2>3. QED
    BY <2>2
<1>4. g \in Filters
  BY <1>2
<1>5. Input(g)' = Input(g)
  <2>1. CASE above[g] = {}
    BY <2>1 DEF Input
  <2>2. CASE above[g] # {}
    <3>1. Parent(g) \in above[g] /\ Parent(g) \in Filters /\ Parent(g) < g
      BY <1>4, <2>2, ParentFacts, TreeFacts
    <3>2. Parent(g) \in above[f]
      BY <3>1, TreeFacts
    <3>3. Parent(g) \notin Bad
      <4> HIDE DEF Bad
      <4>1. QED
        BY <1>2, <1>3, <1>4, <3>1
    <3>4. Complete'[Parent(g)] = Complete[Parent(g)]
      BY <3>2, <3>3
    <3>5. Parent(g)' = Parent(g)
      BY DEF Parent
    <3>6. QED
      BY <2>2, <3>4, <3>5 DEF Input
  <2>3. QED
    BY <2>1, <2>2
<1>6. Step(g, Input(g))' = Step(g, Input(g))
  <2>1. EmitMask(g)' = EmitMask(g) /\ BlockMask(g)' = BlockMask(g) /\ UseMask(g)' = UseMask(g)
    BY <1>3 DEF EmitMask, BlockMask, UseMask
  <2>2. Passes(g, Input(g))' = Passes(g, Input(g))
    BY <1>5, <2>1 DEF Passes
  <2>3. \A t, in : Stream(g, t, in)' = Stream(g, t, in)
    BY <1>3, <2>1 DEF Stream
  <2>4. Makes(g, Input(g))' = Makes(g, Input(g))
    BY <1>5, <2>1, <2>3 DEF Makes
  <2>5. Anew(g, Input(g))' = Anew(g, Input(g))
    BY <1>5, <2>1, <2>3 DEF Anew
  <2>6. QED
    BY <2>2, <2>4, <2>5 DEF Step
<1>7. Complete[g] = Step(g, Input(g)) /\ (Complete[g])' = Step(g, Input(g))'
  BY <1>2, <1>4, CompleteDef, CompleteEquationNext
<1>8. QED
  BY <1>3, <1>6, <1>7

\* EmittedDef as a formula.
LEMMA EmittedEquation ==
    above \in Shapes => \A f \in Filters : Emitted[f] = IF above[f] = {} THEN EmitMask(f)
                                                        ELSE (Emitted[Parent(f)] \ BlockMask(f)) \cup EmitMask(f)
  BY EmittedDef

\* The same after a step.
LEMMA EmittedEquationNext ==
    (above \in Shapes)' => (\A f \in Filters : Emitted[f] = IF above[f] = {} THEN EmitMask(f)
                                                        ELSE (Emitted[Parent(f)] \ BlockMask(f)) \cup EmitMask(f))'
  BY EmittedEquation, PTL

\* What may leave a filter depends on the tree and what is drawn.
LEMMA EmittedSame ==
    ASSUME above \in Shapes, above' = above, kind' = kind, drawn' = drawn, NEW f \in Filters
    PROVE  Emitted'[f] = Emitted[f]
<1> DEFINE Bad == {g \in Filters : Emitted'[g] # Emitted[g]}
<1>1. SUFFICES ASSUME Bad # {} PROVE FALSE
  OBVIOUS
<1>2. Filters' = Filters /\ above' \in Shapes /\ Filters \subseteq Nat
  BY TreeFacts DEF Filters
<1>3. PICK g \in Filters : Emitted'[g] # Emitted[g] /\ \A h \in Bad : g <= h
  <2>1. Bad \subseteq Nat
    BY <1>2
  <2>2. Min(Bad) \in Bad /\ \A h \in Bad : Min(Bad) <= h
    <3> HIDE DEF Bad
    <3>1. QED
      BY <1>1, <2>1, MinFacts
  <2>3. QED
    BY <2>2
<1>4. EmitMask(g)' = EmitMask(g) /\ BlockMask(g)' = BlockMask(g) /\ Parent(g)' = Parent(g)
  BY DEF EmitMask, BlockMask, Parent
<1>5. Emitted[g] = IF above[g] = {} THEN EmitMask(g) ELSE (Emitted[Parent(g)] \ BlockMask(g)) \cup EmitMask(g)
  BY EmittedDef
<1>6. Emitted'[g] = IF above[g] = {} THEN EmitMask(g) ELSE (Emitted'[Parent(g)] \ BlockMask(g)) \cup EmitMask(g)
  <2>1. (Emitted[g])' = (IF above[g] = {} THEN EmitMask(g) ELSE (Emitted[Parent(g)] \ BlockMask(g)) \cup EmitMask(g))'
    BY <1>2, EmittedEquationNext
  <2>2. QED
    BY <1>4, <2>1
<1>7. ASSUME above[g] # {} PROVE Emitted'[Parent(g)] = Emitted[Parent(g)]
  <2>1. Parent(g) \in Filters /\ Parent(g) < g
    BY <1>7, ParentFacts, TreeFacts
  <2>2. Parent(g) \in Nat /\ g \in Nat
    BY <1>2, <2>1
  <2>3. ~(g <= Parent(g))
    BY <2>1, <2>2
  <2>4. Parent(g) \notin Bad
    <3> HIDE DEF Bad
    <3>1. QED
      BY <1>3, <2>3
  <2>5. QED
    BY <2>1, <2>4
<1>8. QED
  BY <1>3, <1>5, <1>6, <1>7

\* What a filter would make depends on the same.
LEMMA MakesLocal ==
    ASSUME above \in Shapes, above' = above, kind' = kind, NEW f \in Filters,
           \A g \in above[f] \cup {f} : file'[g] = file[g] /\ (g \in drawn' <=> g \in drawn)
    PROVE  Makes(f, Input(f))' = Makes(f, Input(f))
<1>1. Input(f)' = Input(f)
  <2>1. CASE above[f] = {}
    BY <2>1 DEF Input
  <2>2. CASE above[f] # {}
    <3>1. Parent(f) \in Filters /\ Parent(f) \in above[f] /\ above[f] = above[Parent(f)] \cup {Parent(f)}
      BY <2>2, ParentFacts
    <3>2. \A g \in above[Parent(f)] \cup {Parent(f)} : file'[g] = file[g] /\ (g \in drawn' <=> g \in drawn)
      BY <3>1
    <3>3. Complete'[Parent(f)] = Complete[Parent(f)]
      BY <3>1, <3>2, CompleteLocal
    <3>4. Parent(f)' = Parent(f)
      BY DEF Parent
    <3>5. QED
      BY <2>2, <3>3, <3>4 DEF Input
  <2>3. QED
    BY <2>1, <2>2
<1>2. EmitMask(f)' = EmitMask(f) /\ UseMask(f)' = UseMask(f)
  BY DEF EmitMask, UseMask
<1>3. \A t, in : Stream(f, t, in)' = Stream(f, t, in)
  BY <1>2 DEF Stream
<1>4. QED
  BY <1>1, <1>2, <1>3 DEF Makes

-----------------------------------------------------------------------------
(* The starts and the order of the visits *)

\* Subtrees neither of whose roots is below the other have no filter in common.
LEMMA SubtreesDisjoint ==
    ASSUME above \in Shapes, NEW f \in Filters, NEW g \in Filters,
           f # g, ~IsChild(f, g), ~IsChild(g, f)
    PROVE  Subtree(f) \cap Subtree(g) = {}
<1>1. SUFFICES ASSUME NEW h \in Filters, f \in above[h] \cup {h}, g \in above[h] \cup {h} PROVE FALSE
  BY DEF Subtree, IsChild
<1>2. QED
  BY <1>1, PathFacts DEF IsChild

\* The start that is taken is one of those that are left.
LEMMA FirstFacts ==
    ASSUME above \in Shapes, NEW S, S \subseteq Filters, S # {}
    PROVE  First(S) \in S
<1> DEFINE depths == {Depth(f) : f \in S}
           top    == {f \in S : \A g \in S : Depth(f) <= Depth(g)}
<1>1. Filters \subseteq Nat /\ \A f \in S : Depth(f) \in Nat
  BY TreeFacts, DepthFacts
<1>2. depths \subseteq Nat
  BY <1>1
<1>3. depths # {}
  BY DEF depths
<1>4. Min(depths) \in depths /\ \A d \in depths : Min(depths) <= d
  <2> HIDE DEF depths
  <2>1. QED
    BY <1>2, <1>3, MinFacts
<1>5. PICK f \in S : Min(depths) = Depth(f)
  BY <1>4
<1>6. ASSUME NEW g \in S PROVE Depth(f) <= Depth(g)
  <2>1. Depth(g) \in depths
    OBVIOUS
  <2>2. QED
    BY <1>4, <1>5, <2>1
<1>7. top # {} /\ top \subseteq Nat /\ top \subseteq S
  BY <1>1, <1>6
<1>8. Min(top) \in top
  <2> HIDE DEF top
  <2>1. QED
    BY <1>7, MinFacts
<1>9. QED
  BY <1>7, <1>8 DEF First

\* The filters a refresh starts at: none is above another; each leaf is below
\* one of them; and what may leave the filter above a start, the start blocks.
LEMMA StartsFacts ==
    ASSUME above \in Shapes
    PROVE  /\ Starts \subseteq Filters
           /\ \A f, g \in Starts : ~IsChild(f, g)
           /\ \A f \in Filters : IsLeaf(f) => \E a \in Starts : f \in Subtree(a)
           /\ \A b \in Starts : above[b] # {} => Emitted[Parent(b)] \subseteq Blocked(b)
<1>1. Starts \subseteq Filters /\ \A f, g \in Starts : ~IsChild(f, g)
  BY DEF Starts, IsChild
<1>2. ASSUME NEW f \in Filters, IsLeaf(f) PROVE \E a \in Starts : f \in Subtree(a)
  <2> DEFINE running == {a \in above[f] \cup {f} : MustRun(a)}
  <2>1. above[f] \subseteq Filters /\ above[f] \subseteq 1..(f - 1) /\ Filters \subseteq Nat
    BY TreeFacts
  <2>2. running \subseteq Nat
    BY <2>1
  <2>3. f \in running
    BY <1>2 DEF MustRun
  <2>4. Min(running) \in running /\ \A a \in running : Min(running) <= a
    <3> HIDE DEF running
    <3>1. QED
      BY <2>2, <2>3, MinFacts
  <2>5. PICK a \in running : \A b \in running : a <= b
    BY <2>4
  <2>6. ASSUME NEW b \in above[a] PROVE ~MustRun(b)
    <3>1. above[a] \subseteq above[f] /\ above[a] \subseteq 1..(a - 1)
      BY <2>1, TreeFacts
    <3>2. ~(a <= b)
      BY <2>1, <3>1
    <3>3. b \notin running
      <4> HIDE DEF running
      <4>1. QED
        BY <2>5, <3>2
    <3>4. QED
      BY <3>1, <3>3
  <2>7. a \in Starts
    BY <2>1, <2>6 DEF Starts
  <2>8. QED
    BY <2>7 DEF Subtree, IsChild
<1>3. ASSUME NEW b \in Starts, above[b] # {} PROVE Emitted[Parent(b)] \subseteq Blocked(b)
  <2>1. b \in Filters /\ \A a \in above[b] : ~MustRun(a)
    BY DEF Starts
  <2>2. Parent(b) \in above[b] /\ b \in Children(Parent(b))
    BY <1>3, <2>1, ParentFacts
  <2>3. QED
    BY <2>1, <2>2 DEF MustRun
<1>4. QED
  BY <1>1, <1>2, <1>3

\* The filters of a subtree from one of them on.
From(b, f) == {g \in Subtree(b) : g >= f}

\* After a filter, a refresh visits the one that follows it: pre-order.  It is
\* below it, and then right below it, or below some of those above it.
LEMMA NextFilter ==
    ASSUME above \in Shapes, NEW b \in Filters, NEW f \in Subtree(b), From(b, f) \ {f} # {}
    PROVE  /\ Min(From(b, f) \ {f}) = f + 1
           /\ f + 1 \in Subtree(b) /\ f + 1 # b
           /\ From(b, f) \ {f} = From(b, f + 1)
           /\ above[f + 1] \subseteq {f} \cup above[f]
           /\ f \in above[f + 1] => ~IsLeaf(f)
<1> DEFINE T == From(b, f)
<1>0. T = {g \in Subtree(b) : g >= f} /\ T \ {f} # {}
  BY DEF From
<1> HIDE DEF T
<1>1. Subtree(b) \subseteq Filters /\ Filters \subseteq Nat
  BY TreeFacts DEF Subtree
<1>2. Min(T \ {f}) \in T \ {f} /\ \A x \in T \ {f} : Min(T \ {f}) <= x
  BY <1>0, <1>1, MinFacts
<1>3. PICK g \in T \ {f} : g = Min(T \ {f}) /\ \A x \in T \ {f} : g <= x
  BY <1>2
<1>4. g \in Subtree(b) /\ g \in Filters /\ g \in Nat /\ f \in Nat /\ g > f /\ f \in Filters /\ f >= 1
  BY <1>0, <1>1, <1>3, TreeFacts
<1>5. f >= b /\ b \in Nat
  BY <1>1, TreeFacts DEF Subtree, IsChild
<1>6. b \in above[g]
  BY <1>4, <1>5 DEF Subtree, IsChild
<1>7. g - 1 \in Filters /\ b \in {g - 1} \cup above[g - 1] /\ above[g] \subseteq {g - 1} \cup above[g - 1]
  BY <1>4, <1>6, TreeFacts
<1>8. g - 1 \in Subtree(b)
  BY <1>7 DEF Subtree, IsChild
<1>9. g = f + 1
  <2>1. SUFFICES ASSUME g - 1 # f PROVE FALSE
    BY <1>4
  <2>2. g - 1 \in T \ {f}
    BY <1>0, <1>4, <1>8, <2>1
  <2>3. g <= g - 1
    BY <1>3, <2>2
  <2>4. QED
    BY <1>4, <2>3
<1>10. T \ {f} = From(b, f + 1)
  <2>1. ASSUME NEW x \in Subtree(b) PROVE (x >= f /\ x # f) <=> x >= f + 1
    BY <1>1, <1>4
  <2>2. QED
    BY <1>0, <2>1 DEF From
<1>11. ASSUME f \in above[f + 1] PROVE ~IsLeaf(f)
  <2>1. above[f] = above[f + 1] \cap 1..(f - 1)
    BY <1>4, <1>9, <1>11, TreeFacts
  <2>2. above[f + 1] \subseteq 1..f
    BY <1>4, <1>9, TreeFacts
  <2>3. above[f + 1] = above[f] \cup {f}
    BY <1>4, <1>11, <2>1, <2>2
  <2>4. QED
    BY <1>4, <1>9, <2>3 DEF IsLeaf, Children
<1>12. f + 1 # b
  BY <1>4, <1>5
<1>13. above[f + 1] \subseteq {f} \cup above[f]
  BY <1>4, <1>7, <1>9
<1>14. QED
  BY <1>3, <1>4, <1>9, <1>10, <1>11, <1>12, <1>13 DEF T

\* StartsFacts as a formula.
LEMMA StartsFormula ==
    above \in Shapes => /\ Starts \subseteq Filters
                        /\ \A f, g \in Starts : ~IsChild(f, g)
                        /\ \A f \in Filters : IsLeaf(f) => \E a \in Starts : f \in Subtree(a)
                        /\ \A b \in Starts : above[b] # {} => Emitted[Parent(b)] \subseteq Blocked(b)
  BY StartsFacts

\* The same after a step.
LEMMA StartsNext ==
    (above \in Shapes)' => (/\ Starts \subseteq Filters
                            /\ \A f, g \in Starts : ~IsChild(f, g)
                            /\ \A f \in Filters : IsLeaf(f) => \E a \in Starts : f \in Subtree(a)
                            /\ \A b \in Starts : above[b] # {} => Emitted[Parent(b)] \subseteq Blocked(b))'
  BY StartsFormula, PTL

-----------------------------------------------------------------------------
(* Sequences *)

\* The first entries of a sequence.
LEMMA PrefixFacts ==
    ASSUME NEW s, s \in Seq(Range(s)), NEW n \in Nat, n <= Len(s)
    PROVE  /\ SubSeq(s, 1, n) \in Seq(Range(SubSeq(s, 1, n)))
           /\ Len(SubSeq(s, 1, n)) = n
           /\ \A i \in 1..n : SubSeq(s, 1, n)[i] = s[i]
<1> DEFINE R == Range(s)
           p == SubSeq(s, 1, n)
<1>1. s \in Seq(R) /\ Len(s) \in Nat
  OBVIOUS
<1>2. \A i \in 1..n : s[i] \in R
  BY <1>1, ElementOfSeq
<1> HIDE DEF R
<1>3. p \in Seq(R) /\ Len(p) = n /\ \A i \in 1..n : p[i] = s[i]
  BY <1>1, <1>2
<1>4. p \in Seq(Range(p))
  <2> HIDE DEF p
  <2>1. QED
    BY <1>3, SeqOfRange
<1>5. QED
  BY <1>3, <1>4

\* The streams on the levels of a sequence.
LEMMA RangeFacts ==
    ASSUME NEW s, s \in Seq(Range(s)), NEW x
    PROVE  x \in UNION Range(s) <=> \E i \in 1..Len(s) : x \in s[i]
<1>1. DOMAIN s = 1..Len(s)
  OBVIOUS
<1>2. QED
  BY <1>1 DEF Range

\* One more level on a stack.
LEMMA PushFacts ==
    ASSUME NEW s, s \in Seq(Range(s)), NEW x, NEW p, p = Append(s, x)
    PROVE  /\ p \in Seq(Range(p))
           /\ Len(p) = Len(s) + 1
           /\ \A i \in 1..Len(s) : p[i] = s[i]
           /\ p[Len(s) + 1] = x
<1> DEFINE R == Range(s) \cup {x}
<1>1. s \in Seq(R) /\ x \in R
  BY SeqMonotonic
<1> HIDE DEF R
<1>2. /\ p \in Seq(R)
      /\ Len(p) = Len(s) + 1
      /\ \A i \in 1..Len(s) : p[i] = s[i]
      /\ p[Len(s) + 1] = x
  BY <1>1, AppendProperties
<1>3. QED
  BY <1>2, SeqOfRange

-----------------------------------------------------------------------------
(* The order of the visits *)

\* The filters that are left to visit, of this start and of the later ones.
Ahead == todo \cup UNION {Subtree(b) : b \in starts}
Stacked   == UNION Range(stack)
Delivered == UNION Range(out)

\* What each variable holds.  The notes of a file are not ahead of it.
TypeInv ==
    /\ above \in Shapes
    /\ kind \in [Filters -> Kinds \cup BaseKinds]
    /\ \A f \in Filters : kind[f] \in BaseKinds <=> above[f] = {}
    /\ file \in [Filters -> Int]
    /\ stamp \in [Filters -> Int]
    /\ \A f \in Filters : stamp[f] <= file[f]
    /\ cached = [f \in Filters |-> cached[f]]
    /\ out = [f \in Filters |-> out[f]]
    /\ stack \in Seq(Range(stack))
    /\ nodes \in Seq(Range(nodes))
    /\ ended \in [how : {"none", "running", "done", "shown", "failed"}, at : {0} \cup Filters]
    /\ base \in {0} \cup Filters
    /\ starts \subseteq Filters
    /\ todo \subseteq Filters

\* Without a refresh nothing is left to visit, tracked or stacked; and the
\* output is empty once the scene has taken it.
AtRest ==
    /\ ~Running => starts = {} /\ todo = {} /\ stack = <<>> /\ nodes = <<>>
    /\ Resting => \A f \in Filters : out[f] = {}

\* No start is above another, nor the one that is visited, whose filters are
\* visited in pre-order.
Walk ==
    /\ \A f, g \in starts : ~IsChild(f, g)
    /\ base \notin starts
    /\ \A g \in starts : base # 0 => ~IsChild(base, g) /\ ~IsChild(g, base)
    /\ todo # {} => /\ base # 0
                    /\ Min(todo) \in todo
                    /\ todo = From(base, Min(todo))

\* The stack and the collector have as many levels, the first one empty.
Levels ==
    Running => /\ Len(stack) >= 1 /\ stack[1] = {}
               /\ base = 0  => todo = {} /\ nodes = <<>> /\ Len(stack) = 1
               /\ base # 0 => Len(nodes) = Len(stack) /\ nodes[1] = {}

\* The first part of the inductive invariant.
Control == TypeInv /\ AtRest /\ Walk /\ Levels

\* The level of the stack that a filter takes its streams from.
Level(f) == Depth(f) - Depth(base) + 1

\* The stack and the collector as a visit finds them.
LEMMA AtVisitFacts ==
    ASSUME Control, NEW f \in todo
    PROVE  /\ Running /\ base \in Filters /\ f \in Filters /\ f \in Subtree(base)
           /\ Level(f) \in Nat /\ Level(f) >= 1
           /\ f # base => Level(f) >= 2
           /\ AtVisit(f).stack \in Seq(Range(AtVisit(f).stack))
           /\ AtVisit(f).nodes \in Seq(Range(AtVisit(f).nodes))
           /\ Len(AtVisit(f).stack) \in Nat /\ Len(stack) \in Nat /\ Len(nodes) = Len(stack)
           /\ Len(AtVisit(f).stack) >= 1 /\ Len(AtVisit(f).nodes) = Len(AtVisit(f).stack)
           /\ Len(AtVisit(f).stack) = IF Level(f) < Len(stack) THEN Level(f) ELSE Len(stack)
           /\ \A i \in 1..Len(AtVisit(f).stack) : AtVisit(f).stack[i] = stack[i]
           /\ \A i \in 1..Len(AtVisit(f).stack) : AtVisit(f).nodes[i] = nodes[i]
           /\ \A s : s \in AtVisit(f).freed <=> \E i \in (Level(f) + 2)..Len(nodes) : s \in nodes[i]
<1>1. base \in Filters /\ f \in Filters /\ f \in Subtree(base) /\ Running
  BY DEF Control, TypeInv, Walk, AtRest, From
<1>2. base = f \/ base \in above[f]
  BY <1>1 DEF Subtree, IsChild
<1>3. Depth(base) \in Nat /\ Depth(f) \in Nat /\ (base # f => Depth(base) < Depth(f))
  BY <1>1, <1>2, DepthFacts DEF Control, TypeInv
<1>4. Level(f) \in Nat /\ Level(f) >= 1 /\ (f # base => Level(f) >= 2)
  BY <1>3 DEF Level
<1>5. stack \in Seq(Range(stack)) /\ nodes \in Seq(Range(nodes))
  BY DEF Control, TypeInv
<1>6. Len(nodes) = Len(stack) /\ Len(stack) >= 1
  BY <1>1, TreeFacts DEF Control, Levels, TypeInv
<1>7. /\ AtVisit(f).stack = SubSeq(stack, 1, IF Level(f) < Len(stack) THEN Level(f) ELSE Len(stack))
      /\ AtVisit(f).nodes = SubSeq(nodes, 1, IF Level(f) < Len(nodes) THEN Level(f) ELSE Len(nodes))
      /\ AtVisit(f).freed = UNION {nodes[i] : i \in (Level(f) + 2)..Len(nodes)}
  BY DEF AtVisit, Popped, CollectToLevel, Level
<1> DEFINE st == AtVisit(f).stack
           ns == AtVisit(f).nodes
           n  == IF Level(f) < Len(stack) THEN Level(f) ELSE Len(stack)
<1>8. Len(stack) \in Nat
  BY <1>5
<1>9. n \in Nat /\ n >= 1 /\ n <= Len(stack) /\ n <= Len(nodes)
  BY <1>4, <1>6, <1>8
<1>10. st = SubSeq(stack, 1, n) /\ ns = SubSeq(nodes, 1, n)
  BY <1>6, <1>7
<1> HIDE DEF st, ns, n
<1>11. st \in Seq(Range(st)) /\ Len(st) = n
  BY <1>5, <1>9, <1>10, PrefixFacts
<1>12. \A i \in 1..n : st[i] = stack[i]
  BY <1>5, <1>9, <1>10, PrefixFacts
<1>13. ns \in Seq(Range(ns)) /\ Len(ns) = n
  BY <1>5, <1>9, <1>10, PrefixFacts
<1>14. \A i \in 1..n : ns[i] = nodes[i]
  BY <1>5, <1>9, <1>10, PrefixFacts
<1>15. \A s : s \in AtVisit(f).freed <=> \E i \in (Level(f) + 2)..Len(nodes) : s \in nodes[i]
  BY <1>7
<1>16. /\ Len(st) \in Nat /\ Len(st) >= 1 /\ Len(ns) = Len(st)
       /\ Len(st) = IF Level(f) < Len(stack) THEN Level(f) ELSE Len(stack)
       /\ \A i \in 1..Len(st) : st[i] = stack[i]
       /\ \A i \in 1..Len(st) : ns[i] = nodes[i]
  BY <1>9, <1>11, <1>12, <1>13, <1>14 DEF n
<1>17. QED
  BY <1>1, <1>4, <1>6, <1>8, <1>11, <1>13, <1>15, <1>16 DEF st, ns

\* What comes to a filter, what it makes of it, and what leaves it, in a visit.
Came(f)          == Last(AtVisit(f).stack)
Of(f, keep)      == Own(f, Came(f), keep)
Leaving(f, keep) == Passes(f, Came(f)) \cup Of(f, keep).kept \cup Of(f, keep).loose

\* What a visit does to a filter's cache and to the streams.
LEMMA VisitEffect ==
    ASSUME Control, NEW f \in Filters, NEW keep \in BOOLEAN, Visit(f, keep)
    PROVE  /\ f \in todo /\ f = Min(todo) /\ todo' = todo \ {f}
           /\ cached' = [cached EXCEPT ![f] = Of(f, keep).kept]
           /\ heap' = (heap \ AtVisit(f).freed) \cup Of(f, keep).loose
           /\ Came(f) = stack[Len(AtVisit(f).stack)]
<1>1. f \in todo
  BY DEF Visit, Control, Walk
<1>2. Len(AtVisit(f).stack) \in 1..Len(AtVisit(f).stack)
  BY <1>1, AtVisitFacts
<1>3. Came(f) = stack[Len(AtVisit(f).stack)]
  BY <1>1, <1>2, AtVisitFacts DEF Came, Last
<1>4. QED
  BY <1>1, <1>3 DEF Visit, Of, Came

\* A leaf delivers what it puts out, and the collector forgets it.
LEMMA LeafEffect ==
    ASSUME Control, NEW f \in Filters, NEW keep \in BOOLEAN, Visit(f, keep), IsLeaf(f)
    PROVE  /\ out' = [out EXCEPT ![f] = Leaving(f, keep)]
           /\ stack' = AtVisit(f).stack
           /\ nodes' \in Seq(Range(nodes'))
           /\ Len(nodes') = Len(AtVisit(f).stack)
           /\ \A i \in 1..Len(nodes') : nodes'[i] = nodes[i] \ Leaving(f, keep)
           /\ \A s : s \in forgotten' <=> \/ s \in forgotten
                                          \/ s \in Leaving(f, keep) /\ \E i \in 1..Len(nodes') : s \in nodes[i]
<1> DEFINE ns == AtVisit(f).nodes
           cur == Leaving(f, keep)
           n == Len(ns)
<1>1. f \in todo
  BY VisitEffect
<1>2. /\ out' = [out EXCEPT ![f] = cur] /\ stack' = AtVisit(f).stack
      /\ nodes' = [i \in DOMAIN ns |-> ns[i] \ cur]
      /\ forgotten' = forgotten \cup {s \in cur : s \in UNION Range(ns)}
  BY DEF Visit, Leaving, Of, Came
<1>3. ns \in Seq(Range(ns)) /\ n \in Nat /\ n = Len(AtVisit(f).stack)
  BY <1>1, AtVisitFacts
<1>4. \A i \in 1..n : ns[i] = nodes[i]
  BY <1>1, <1>3, AtVisitFacts
<1>5. DOMAIN ns = 1..n
  BY <1>3
<1>6. \A s : s \in UNION Range(ns) <=> \E i \in 1..n : s \in ns[i]
  BY <1>3, RangeFacts
<1> HIDE DEF ns, cur, n
<1>7. nodes' = [i \in 1..n |-> ns[i] \ cur]
  BY <1>2, <1>5
<1>8. nodes' \in Seq({ns[i] \ cur : i \in 1..n}) /\ Len(nodes') = n
  BY <1>3, <1>7
<1>9. nodes' \in Seq(Range(nodes'))
  BY <1>8, SeqOfRange
<1>10. \A i \in 1..n : nodes'[i] = nodes[i] \ cur
  BY <1>4, <1>7
<1>11. \A s : s \in forgotten' <=> s \in forgotten \/ (s \in cur /\ \E i \in 1..n : s \in nodes[i])
  BY <1>2, <1>4, <1>6
<1>12. QED
  BY <1>2, <1>3, <1>8, <1>9, <1>10, <1>11 DEF cur

\* An inner filter puts what leaves it on the stack; the collector tracks what
\* is new.
LEMMA InnerEffect ==
    ASSUME Control, NEW f \in Filters, NEW keep \in BOOLEAN, Visit(f, keep), ~IsLeaf(f)
    PROVE  /\ out' = out /\ forgotten' = forgotten
           /\ stack' \in Seq(Range(stack')) /\ nodes' \in Seq(Range(nodes'))
           /\ Len(stack') = Len(AtVisit(f).stack) + 1 /\ Len(nodes') = Len(AtVisit(f).stack) + 1
           /\ \A i \in 1..Len(AtVisit(f).stack) : stack'[i] = stack[i]
           /\ \A i \in 1..Len(AtVisit(f).stack) : nodes'[i] = nodes[i]
           /\ stack'[Len(AtVisit(f).stack) + 1] = Leaving(f, keep)
           /\ \A s : s \in nodes'[Len(AtVisit(f).stack) + 1]
                       <=> /\ s \in Leaving(f, keep) /\ s \in heap \cup Of(f, keep).loose
                           /\ s \notin forgotten
                           /\ \A i \in 1..Len(AtVisit(f).stack) : s \notin nodes[i]
<1> DEFINE ns == AtVisit(f).nodes
           st == AtVisit(f).stack
           cur == Leaving(f, keep)
           n == Len(st)
           new == {s \in cur \cap (heap \cup Of(f, keep).loose) : s \notin UNION Range(ns) /\ s \notin forgotten}
<1>1. f \in todo
  BY VisitEffect
<1>2. /\ out' = out /\ forgotten' = forgotten
      /\ stack' = Append(st, cur) /\ nodes' = Append(ns, new)
  BY DEF Visit, Leaving, Of, Came, TrackPointers
<1>3. ns \in Seq(Range(ns)) /\ st \in Seq(Range(st)) /\ n \in Nat /\ Len(ns) = n
  BY <1>1, AtVisitFacts
<1>4. \A i \in 1..n : ns[i] = nodes[i]
  BY <1>1, AtVisitFacts
<1>5. \A i \in 1..n : st[i] = stack[i]
  BY <1>1, AtVisitFacts
<1>6. \A s : s \in UNION Range(ns) <=> \E i \in 1..Len(ns) : s \in ns[i]
  BY <1>3, RangeFacts
<1> HIDE DEF ns, st, cur, n
<1>7. /\ stack' \in Seq(Range(stack')) /\ Len(stack') = n + 1
      /\ \A i \in 1..n : stack'[i] = st[i]
      /\ stack'[n + 1] = cur
  <2>1. stack' \in Seq(Range(stack')) /\ Len(stack') = Len(st) + 1
    BY <1>2, <1>3, PushFacts
  <2>2. (\A i \in 1..Len(st) : stack'[i] = st[i]) /\ stack'[Len(st) + 1] = cur
    BY <1>2, <1>3, PushFacts
  <2>3. QED
    BY <2>1, <2>2 DEF n
<1>8. nodes' \in Seq(Range(nodes')) /\ Len(nodes') = Len(ns) + 1
  <2> HIDE DEF new
  <2>1. QED
    BY <1>2, <1>3, PushFacts
<1>9. (\A i \in 1..Len(ns) : nodes'[i] = ns[i]) /\ nodes'[Len(ns) + 1] = new
  <2> HIDE DEF new
  <2>1. QED
    BY <1>2, <1>3, PushFacts
<1>10. \A s : s \in new <=> /\ s \in cur /\ s \in heap \cup Of(f, keep).loose
                            /\ s \notin forgotten
                            /\ \A i \in 1..n : s \notin nodes[i]
  BY <1>3, <1>4, <1>6
<1> HIDE DEF new
<1>11. \A s : s \in nodes'[n + 1] <=> /\ s \in cur /\ s \in heap \cup Of(f, keep).loose
                                      /\ s \notin forgotten
                                      /\ \A i \in 1..n : s \notin nodes[i]
  BY <1>3, <1>9, <1>10
<1>12. /\ \A i \in 1..n : stack'[i] = stack[i]
       /\ \A i \in 1..n : nodes'[i] = nodes[i]
  BY <1>3, <1>4, <1>5, <1>7, <1>9
<1>13. Len(nodes') = n + 1
  BY <1>3, <1>8
<1>14. QED
  BY <1>2, <1>7, <1>8, <1>11, <1>12, <1>13 DEF st, cur, n

\* Before the first refresh.
LEMMA ControlInit == Init => Control
<1> SUFFICES ASSUME Init PROVE Control
  OBVIOUS
<1>1. <<>> \in Seq(Range(<<>>))
  OBVIOUS
<1>2. TypeInv
  <2>1. kind \in [Filters -> Kinds \cup BaseKinds] /\ \A f \in Filters : kind[f] \in BaseKinds <=> above[f] = {}
    BY DEF Init
  <2>2. cached = [f \in Filters |-> cached[f]] /\ out = [f \in Filters |-> out[f]]
    BY DEF Init
  <2>3. /\ file \in [Filters -> Int] /\ stamp \in [Filters -> Int]
        /\ \A f \in Filters : stamp[f] <= file[f]
    BY DEF Init
  <2>4. QED
    BY <1>1, <2>1, <2>2, <2>3 DEF Init, TypeInv
<1>3. AtRest /\ Levels
  BY DEF Init, AtRest, Levels, Running, Resting
<1>4. Walk
  BY DEF Init, Walk
<1>5. QED
  BY <1>2, <1>3, <1>4 DEF Control

\* The types: one step for each action.
LEMMA TypeStep ==
    ASSUME Control, [Next]_refreshVars
    PROVE  TypeInv' /\ above' = above /\ kind' = kind
<1> USE DEF Control
<1>0. TypeInv /\ Filters \subseteq Nat /\ 0 \in {0} \cup Filters
  BY TreeFacts DEF TypeInv
<1>1. CASE Begin
  <2>1. above' = above /\ kind' = kind /\ Filters' = Filters
    BY <1>1 DEF Begin, Filters
  <2>2. starts' \subseteq Filters
    BY <1>0, <1>1, <2>1, StartsNext DEF Begin, TypeInv
  <2>3. cached' = [f \in Filters' |-> cached'[f]] /\ out' = [f \in Filters' |-> out'[f]]
    BY <1>1, <2>1 DEF Begin, ClearMonitored
  <2>4. stack' \in Seq(Range(stack')) /\ nodes' \in Seq(Range(nodes'))
    BY <1>1 DEF Begin, Range
  <2>5. QED
    BY <1>0, <1>1, <2>1, <2>2, <2>3, <2>4 DEF Begin, TypeInv
<1>2. CASE NextStart
  <2>1. above' = above /\ kind' = kind /\ Filters' = Filters /\ cached' = cached /\ out' = out
    BY <1>2 DEF NextStart, Filters
  <2>2. base' \in starts
    BY <1>0, <1>2, FirstFacts DEF NextStart, TypeInv
  <2>3. base' \in Filters /\ todo' \subseteq Filters /\ starts' \subseteq Filters
    BY <1>0, <1>2, <2>2 DEF NextStart, TypeInv, Subtree
  <2>4. stack' \in Seq(Range(stack'))
    <3> DEFINE n == IF 1 < Len(stack) THEN 1 ELSE Len(stack)
    <3>1. n \in Nat /\ n <= Len(stack) /\ stack' = SubSeq(stack, 1, n)
      BY <1>0, <1>2 DEF NextStart, TypeInv, Popped
    <3> HIDE DEF n
    <3>2. QED
      BY <1>0, <3>1, PrefixFacts DEF TypeInv
  <2>5. nodes' \in Seq(Range(nodes'))
    BY <1>2 DEF NextStart, Range
  <2>6. QED
    BY <1>0, <1>2, <2>1, <2>3, <2>4, <2>5 DEF NextStart, TypeInv
<1>3. ASSUME NEW f \in Filters, NEW keep \in BOOLEAN, Visit(f, keep)
      PROVE  TypeInv' /\ above' = above /\ kind' = kind
  <2>1. above' = above /\ kind' = kind /\ Filters' = Filters /\ file' = file /\ starts' = starts /\ base' = base /\ ended' = ended
    BY <1>3 DEF Visit, Filters
  <2>2. f \in todo /\ cached' = [cached EXCEPT ![f] = Of(f, keep).kept] /\ todo' \subseteq Filters
    BY <1>0, <1>3, VisitEffect DEF TypeInv
  <2>3. cached' = [g \in Filters' |-> cached'[g]]
    BY <1>0, <2>1, <2>2 DEF TypeInv
  <2>4. out' = [g \in Filters' |-> out'[g]] /\ stack' \in Seq(Range(stack')) /\ nodes' \in Seq(Range(nodes'))
    <3>1. CASE IsLeaf(f)
      <4>1. out' = [g \in Filters' |-> out'[g]]
        BY <1>0, <1>3, <2>1, <3>1, LeafEffect DEF TypeInv
      <4>2. QED
        BY <1>3, <2>2, <3>1, <4>1, LeafEffect, AtVisitFacts
    <3>2. CASE ~IsLeaf(f)
      BY <1>0, <1>3, <2>1, <3>2, InnerEffect DEF TypeInv
    <3>3. QED
      BY <3>1, <3>2
  <2>5. stamp' \in [Filters -> Int] /\ \A g \in Filters : stamp'[g] <= file[g]
    <3>1. stamp' = [stamp EXCEPT ![f] = IF kind[f] \in BaseKinds /\ ~UsesCache(f) THEN file[f] ELSE @]
      BY <1>3 DEF Visit
    <3>2. QED
      BY <1>0, <3>1 DEF TypeInv
  <2>6. QED
    BY <1>0, <2>1, <2>2, <2>3, <2>4, <2>5 DEF TypeInv
<1>4. ASSUME NEW f \in Filters, NEW keep \in BOOLEAN, NEW after \in BOOLEAN, Fail(f, keep, after)
      PROVE  TypeInv' /\ above' = above /\ kind' = kind
  <2>1. above' = above /\ kind' = kind /\ Filters' = Filters
    BY <1>4 DEF Fail, Filters
  <2>2. cached' = [g \in Filters' |-> cached'[g]] /\ out' = [g \in Filters' |-> out'[g]]
    BY <1>0, <1>4, <2>1 DEF Fail, TypeInv
  <2>3. stack' \in Seq(Range(stack')) /\ nodes' \in Seq(Range(nodes'))
    BY <1>4 DEF Fail
  <2>4. QED
    BY <1>0, <1>4, <2>1, <2>2, <2>3 DEF Fail, TypeInv
<1>5. CASE Finish
  <2>1. out' = [g \in Filters' |-> out'[g]] /\ Filters' = Filters
    BY <1>5 DEF Finish, Scrubbed, Filters
  <2>2. stack' \in Seq(Range(stack')) /\ nodes' \in Seq(Range(nodes'))
    BY <1>5 DEF Finish
  <2>3. QED
    BY <1>0, <1>5, <2>1, <2>2 DEF Finish, TypeInv
<1>6. CASE UpdateScene
  <2>1. out' = [g \in Filters' |-> out'[g]] /\ Filters' = Filters
    BY <1>6 DEF UpdateScene, Filters
  <2>2. QED
    BY <1>0, <1>6, <2>1 DEF UpdateScene, TypeInv
<1>7. ASSUME NEW f \in Filters, Edit(f) \/ Restyle(f) \/ FileChanges(f)
      PROVE  TypeInv' /\ above' = above /\ kind' = kind
  <2>1. Forget
    BY <1>7 DEF Edit, Restyle, FileChanges
  <2>2. above' = above /\ kind' = kind /\ Filters' = Filters
    BY <2>1 DEF Forget, Filters
  <2>3. cached' = [g \in Filters' |-> cached'[g]]
    BY <1>0, <1>7, <2>2 DEF TypeInv, Edit, Restyle, FileChanges, ClearBelow
  <2>4. stamp' = stamp /\ file' \in [Filters -> Int] /\ \A g \in Filters : stamp[g] <= file'[g]
    <3>1. CASE FileChanges(f)
      <4>1. file' = [file EXCEPT ![f] = file[f] + 1] /\ stamp' = stamp
        BY <3>1 DEF FileChanges
      <4>2. QED
        BY <1>0, <4>1 DEF TypeInv
    <3>2. CASE Edit(f) \/ Restyle(f)
      BY <1>0, <3>2 DEF TypeInv, Edit, Restyle
    <3>3. QED
      BY <1>7, <3>1, <3>2
  <2>5. QED
    BY <1>0, <2>1, <2>2, <2>3, <2>4 DEF TypeInv, Forget
<1>8. CASE UNCHANGED refreshVars
  BY <1>0, <1>8 DEF refreshVars, TypeInv, Filters
<1>9. QED
  BY <1>1, <1>2, <1>3, <1>4, <1>5, <1>6, <1>7, <1>8 DEF Next

\* The order of the visits and the levels of the stack.
LEMMA ControlStep ==
    ASSUME Control, [Next]_refreshVars
    PROVE  Control'
<1> USE DEF Control
<1>0. /\ TypeInv /\ AtRest /\ Walk /\ Levels
      /\ Filters \subseteq Nat /\ 0 \notin Filters
  BY TreeFacts DEF TypeInv
<1>00. TypeInv' /\ above' = above /\ kind' = kind
  BY TypeStep
<1>000. /\ Filters' = Filters
        /\ \A f : Subtree(f)' = Subtree(f)
        /\ \A f, g : IsChild(f, g)' = IsChild(f, g)
  BY <1>00, SameTree
<1>1. CASE Begin
  <2>1. AtRest' /\ Levels'
    BY <1>1 DEF Begin, AtRest, Levels, Running, Resting
  <2>2. starts' \subseteq Filters /\ \A f, g \in starts' : ~IsChild(f, g)
    BY <1>00, <1>000, <1>1, StartsNext DEF Begin, TypeInv
  <2>3. Walk'
    BY <1>0, <1>00, <1>000, <1>1, <2>2 DEF Begin, Walk, IsChild
  <2>4. QED
    BY <1>00, <2>1, <2>3
<1>2. CASE NextStart
  <2>1. base' \in starts /\ starts' = starts \ {base'} /\ todo' = Subtree(base') /\ Running' /\ Running
    BY <1>0, <1>2, FirstFacts DEF NextStart, TypeInv, Running
  <2>2. base' \in todo' /\ todo' \subseteq Nat
    BY <1>0, <2>1 DEF Subtree, TypeInv
  <2>3. Min(todo') \in todo' /\ \A x \in todo' : Min(todo') <= x
    BY <2>2, MinFacts
  <2>4. todo' = From(base', Min(todo'))
    BY <2>1, <2>2, <2>3 DEF From
  <2>5. Walk'
    <3>1. /\ \A f, g \in starts' : ~IsChild(f, g)'
          /\ base' \notin starts'
          /\ \A g \in starts' : base' # 0 => ~IsChild(base', g) /\ ~IsChild(g, base')
      BY <1>0, <1>000, <2>1 DEF Walk
    <3>2. base' # 0
      BY <1>0, <2>1 DEF TypeInv
    <3>3. From(base, Min(todo))' = From(base', Min(todo'))
      BY <1>00 DEF From, Subtree, IsChild, Filters, Min
    <3>4. \A g : IsChild(base, g)' = IsChild(base', g) /\ IsChild(g, base)' = IsChild(g, base')
      BY <1>00 DEF IsChild
    <3>5. Min(todo)' = Min(todo')
      BY DEF Min
    <3>6. QED
      BY <2>3, <2>4, <3>1, <3>2, <3>3, <3>4, <3>5 DEF Walk
  <2>6. Len(stack') = 1 /\ stack'[1] = {}
    <3> DEFINE n == IF 1 < Len(stack) THEN 1 ELSE Len(stack)
    <3>1. Len(stack) \in Nat /\ Len(stack) >= 1 /\ stack[1] = {}
      BY <1>0, <2>1 DEF TypeInv, Levels
    <3>2. n = 1 /\ stack' = SubSeq(stack, 1, n)
      BY <1>2, <3>1 DEF NextStart, Popped
    <3>3. n \in Nat /\ n <= Len(stack) /\ 1 \in 1..n
      BY <3>1, <3>2
    <3> HIDE DEF n
    <3>4. Len(stack') = n /\ \A i \in 1..n : stack'[i] = stack[i]
      BY <1>0, <3>2, <3>3, PrefixFacts DEF TypeInv
    <3>5. QED
      BY <3>1, <3>2, <3>3, <3>4
  <2>7. Levels'
    BY <1>0, <1>2, <2>1, <2>6 DEF Levels, NextStart, TypeInv
  <2>8. AtRest'
    BY <1>2, <2>1 DEF AtRest, Running, Resting
  <2>9. QED
    BY <1>00, <2>5, <2>7, <2>8
<1>3. ASSUME NEW f \in Filters, NEW keep \in BOOLEAN, Visit(f, keep) PROVE Control'
  <2>1. /\ f \in todo /\ f = Min(todo) /\ todo' = todo \ {f}
        /\ starts' = starts /\ base' = base /\ ended' = ended
    BY <1>3, VisitEffect DEF Visit
  <2>2. Running /\ base \in Filters /\ f \in Subtree(base)
    BY <2>1, AtVisitFacts
  <2>3. AtRest'
    BY <2>1, <2>2 DEF AtRest, Running, Resting
  <2>4. Walk'
    <3>1. todo = From(base, f)
      BY <1>0, <2>1 DEF Walk
    <3>2. todo \ {f} # {} => /\ Min(todo \ {f}) \in todo \ {f}
                             /\ todo \ {f} = From(base, Min(todo \ {f}))
      <4>1. SUFFICES ASSUME todo \ {f} # {}
                     PROVE  /\ Min(todo \ {f}) \in todo \ {f}
                            /\ todo \ {f} = From(base, Min(todo \ {f}))
        OBVIOUS
      <4>2. /\ Min(todo \ {f}) = f + 1
            /\ todo \ {f} = From(base, f + 1)
            /\ f + 1 \in Subtree(base)
        BY <1>0, <2>2, <3>1, <4>1, NextFilter DEF TypeInv
      <4>3. f + 1 \in todo \ {f}
        BY <1>0, <4>2 DEF From, TypeInv, Subtree
      <4>4. QED
        BY <4>2, <4>3
    <3>3. Min(todo)' = Min(todo \ {f}) /\ From(base, Min(todo))' = From(base, Min(todo \ {f}))
      BY <1>00, <2>1 DEF Min, From, Subtree, IsChild, Filters
    <3>4. \A g : IsChild(base, g)' = IsChild(base, g) /\ IsChild(g, base)' = IsChild(g, base)
      BY <1>00, <2>1 DEF IsChild
    <3>5. QED
      BY <1>0, <1>000, <2>1, <3>2, <3>3, <3>4 DEF Walk
  <2>5. Levels'
    <3>1. base # 0 /\ Running' /\ Len(AtVisit(f).stack) >= 1 /\ Len(AtVisit(f).stack) \in Nat
      BY <1>0, <2>1, <2>2, AtVisitFacts DEF Running
    <3>2. stack[1] = {} /\ nodes[1] = {}
      BY <1>0, <2>2, <3>1 DEF Levels
    <3>3. CASE IsLeaf(f)
      <4>1. Len(nodes') = Len(AtVisit(f).stack) /\ nodes'[1] = {}
        BY <1>3, <3>1, <3>2, <3>3, LeafEffect
      <4>2. stack'[1] = {} /\ Len(stack') = Len(AtVisit(f).stack)
        BY <1>3, <2>1, <3>1, <3>2, <3>3, LeafEffect, AtVisitFacts
      <4>3. QED
        BY <2>1, <3>1, <4>1, <4>2 DEF Levels
    <3>4. CASE ~IsLeaf(f)
      <4>1. Len(nodes') = Len(stack') /\ Len(stack') >= 1 /\ stack'[1] = {} /\ nodes'[1] = {}
        BY <1>3, <3>1, <3>2, <3>4, InnerEffect
      <4>2. QED
        BY <2>1, <3>1, <4>1 DEF Levels
    <3>5. QED
      BY <3>3, <3>4
  <2>6. QED
    BY <1>00, <2>3, <2>4, <2>5
<1>4. ASSUME NEW f \in Filters, NEW keep \in BOOLEAN, NEW after \in BOOLEAN, Fail(f, keep, after)
      PROVE  Control'
  <2>1. AtRest' /\ Levels'
    BY <1>000, <1>4 DEF Fail, AtRest, Levels, Running, Resting
  <2>2. Walk'
    BY <1>4 DEF Fail, Walk
  <2>3. QED
    BY <1>00, <2>1, <2>2
<1>5. CASE Finish
  <2>1. AtRest' /\ Levels'
    BY <1>5 DEF Finish, AtRest, Levels, Running, Resting
  <2>2. Walk'
    BY <1>5 DEF Finish, Walk
  <2>3. QED
    BY <1>00, <2>1, <2>2
<1>6. CASE UpdateScene
  <2>1. AtRest' /\ Levels'
    BY <1>0, <1>000, <1>6 DEF UpdateScene, AtRest, Levels, Running, Resting
  <2>2. Walk'
    BY <1>0, <1>6, <2>1 DEF UpdateScene, Walk, AtRest, Running
  <2>3. QED
    BY <1>00, <2>1, <2>2
<1>7. ASSUME NEW f \in Filters, Edit(f) \/ Restyle(f) \/ FileChanges(f) PROVE Control'
  <2>1. Forget /\ Resting
    BY <1>7 DEF Edit, Restyle, FileChanges
  <2>2. AtRest' /\ Levels'
    BY <1>0, <1>000, <2>1 DEF Forget, AtRest, Levels, Running, Resting
  <2>3. Walk'
    BY <1>0, <2>1 DEF Forget, Walk, AtRest, Running, Resting
  <2>4. QED
    BY <1>00, <2>2, <2>3
<1>8. CASE UNCHANGED refreshVars
  <2>1. AtRest' /\ Levels'
    BY <1>0, <1>000, <1>8 DEF refreshVars, AtRest, Levels, Running, Resting
  <2>2. Walk'
    BY <1>0, <1>00, <1>000, <1>8 DEF refreshVars, Walk, Min, From, Subtree, IsChild
  <2>3. QED
    BY <1>00, <2>1, <2>2
<1>9. QED
  BY <1>1, <1>2, <1>3, <1>4, <1>5, <1>6, <1>7, <1>8 DEF Next

-----------------------------------------------------------------------------
(* Ownership *)

\* A stream is allocated or in the cache of its filter; a stream of a filter
\* that was visited.
Held(s)  == s \in heap \/ s \in cached[s.src]
Known(s) == s.src \in Filters /\ s.src \notin Ahead

\* A cache holds streams of its filter only.
CachedBySource == \A f \in Filters : \A s \in cached[f] : s.src = f

\* No stream of a filter that is still ahead is anywhere but in its cache.
Unseen ==
    /\ \A s \in heap \cup forgotten : Known(s)
    /\ \A i \in 1..Len(stack) : \A s \in stack[i] : Known(s)
    /\ \A f \in Filters : \A s \in out[f] : Known(s)

\* What is on the stack and not cached is tracked at its level or below, unless
\* the output has it.
StackIsTracked ==
    \A i \in 1..Len(stack) : \A s \in stack[i] :
        s \in heap => s \in forgotten \/ \E j \in 1..i : s \in nodes[j]

\* OneOwner, stream by stream.
TrackedOnce ==
    \A i \in 1..Len(nodes) : \A s \in nodes[i] :
        /\ s \in heap /\ s \notin forgotten
        /\ \A f \in Filters : s \notin out[f]
        /\ \A j \in 1..Len(nodes) : s \in nodes[j] => i = j

\* NothingUsedIsFreed, stream by stream.
UsedIsHeld ==
    /\ \A i \in 1..Len(stack) : \A s \in stack[i] : Held(s)
    /\ \A f \in Filters : \A s \in out[f] : Held(s)

\* The second part.
Owned == CachedBySource /\ Unseen /\ StackIsTracked /\ TrackedOnce /\ UsedIsHeld

\* What a filter makes, and what its cache holds, is its own.
LEMMA OwnFacts ==
    ASSUME CachedBySource, NEW f \in Filters, NEW keep \in BOOLEAN
    PROVE  /\ \A s \in Of(f, keep).kept : s.src = f
           /\ \A s \in Of(f, keep).loose : s.src = f
<1>1. \A in : \A s \in Makes(f, in) \cup Anew(f, in) : s.src = f
  BY DEF Makes, Anew, Stream
<1>2. Of(f, keep).kept \in {cached[f], Makes(f, Came(f)), {}}
  BY DEF Of, Own
<1>3. Of(f, keep).loose \in {Anew(f, Came(f)), Makes(f, Came(f)) \cup Anew(f, Came(f))}
  BY DEF Of, Own
<1>4. \A s \in cached[f] : s.src = f
  BY DEF CachedBySource
<1>5. QED
  BY <1>1, <1>2, <1>3, <1>4

\* The filter that is visited is not ahead any more.
LEMMA VisitedIsBehind ==
    ASSUME Control, NEW f \in Filters, NEW keep \in BOOLEAN, Visit(f, keep)
    PROVE  f \in Ahead /\ f \notin Ahead' /\ Ahead' \subseteq Ahead
<1>1. f \in todo /\ todo' = todo \ {f} /\ starts' = starts /\ above' = above /\ base \in Filters /\ f \in Subtree(base)
  BY VisitEffect, AtVisitFacts DEF Visit
<1>2. \A b : Subtree(b)' = Subtree(b)
  BY <1>1, SameTree
<1>3. Ahead' = (todo \ {f}) \cup UNION {Subtree(b) : b \in starts}
  BY <1>1, <1>2 DEF Ahead
<1>4. ASSUME NEW b \in starts PROVE f \notin Subtree(b)
  <2>1. b \in Filters /\ b # base /\ ~IsChild(base, b) /\ ~IsChild(b, base) /\ above \in Shapes
    BY <1>1, TreeFacts DEF Control, Walk, TypeInv
  <2>2. Subtree(base) \cap Subtree(b) = {}
    BY <1>1, <2>1, SubtreesDisjoint
  <2>3. QED
    BY <1>1, <2>2
<1>5. QED
  BY <1>1, <1>3, <1>4 DEF Ahead

\* What is on the stack and what leaves the filter, before the visit.
LEMMA VisitSources ==
    ASSUME Control, Owned, NEW f \in Filters, NEW keep \in BOOLEAN, Visit(f, keep)
    PROVE  /\ \A s \in heap \cup forgotten : s.src # f
           /\ \A i \in 1..Len(AtVisit(f).stack) : \A s \in stack[i] : s.src # f
           /\ \A g \in Filters : \A s \in out[g] : s.src # f
           /\ \A s \in Of(f, keep).kept \cup Of(f, keep).loose : s.src = f
           /\ \A s \in Leaving(f, keep) : \/ s \in stack[Len(AtVisit(f).stack)]
                                          \/ s \in Of(f, keep).kept \/ s \in Of(f, keep).loose
           /\ \A s \in AtVisit(f).freed : /\ s \notin forgotten
                                          /\ \A g \in Filters : s \notin out[g]
                                          /\ \A i \in 1..Len(AtVisit(f).stack) : s \notin nodes[i] /\ s \notin stack[i]
           /\ \A s \in heap : \A i \in 1..Len(AtVisit(f).stack) :
                  s \in stack[i] => s \in forgotten \/ \E j \in 1..i : s \in nodes[j]
<1> DEFINE n == Len(AtVisit(f).stack)
<1>1. f \in Ahead /\ f \in todo
  BY VisitedIsBehind, VisitEffect
<1>2. /\ n \in Nat /\ n >= 1 /\ Len(stack) \in Nat /\ n <= Len(stack) /\ Len(nodes) = Len(stack)
      /\ Level(f) \in Nat /\ n <= Level(f)
  BY <1>1, AtVisitFacts
<1>3. \A s \in AtVisit(f).freed : \E i \in (Level(f) + 2)..Len(nodes) : s \in nodes[i]
  BY <1>1, AtVisitFacts
<1>4. Came(f) = stack[n]
  BY VisitEffect
<1> HIDE DEF n
<1>5. \A i \in 1..n : i \in 1..Len(stack) /\ i \in 1..Len(nodes)
  BY <1>2
<1>6. \A s \in heap \cup forgotten : s.src # f
  BY <1>1 DEF Owned, Unseen, Known
<1>7. \A i \in 1..n : \A s \in stack[i] : s.src # f
  BY <1>1, <1>5 DEF Owned, Unseen, Known
<1>8. \A g \in Filters : \A s \in out[g] : s.src # f
  BY <1>1 DEF Owned, Unseen, Known
<1>9. \A s \in Of(f, keep).kept \cup Of(f, keep).loose : s.src = f
  BY OwnFacts DEF Owned
<1>10. \A s \in Leaving(f, keep) : s \in stack[n] \/ s \in Of(f, keep).kept \/ s \in Of(f, keep).loose
  BY <1>4 DEF Leaving, Passes
<1>11. ASSUME NEW s \in heap, NEW i \in 1..n, s \in stack[i]
       PROVE  s \in forgotten \/ \E j \in 1..i : s \in nodes[j]
  BY <1>5, <1>11 DEF Owned, StackIsTracked
<1>12. ASSUME NEW s \in AtVisit(f).freed
       PROVE  /\ s \notin forgotten
              /\ \A g \in Filters : s \notin out[g]
              /\ \A i \in 1..n : s \notin nodes[i] /\ s \notin stack[i]
  <2>1. PICK k \in (Level(f) + 2)..Len(nodes) : s \in nodes[k]
    BY <1>3
  <2>2. k \in 1..Len(nodes) /\ \A i \in 1..n : i # k
    BY <1>2
  <2>3. s \in heap /\ s \notin forgotten /\ (\A g \in Filters : s \notin out[g]) /\ \A j \in 1..Len(nodes) : s \in nodes[j] => k = j
    BY <2>1, <2>2 DEF Owned, TrackedOnce
  <2>4. \A i \in 1..n : s \notin nodes[i]
    BY <1>5, <2>2, <2>3
  <2>5. ASSUME NEW i \in 1..n PROVE s \notin stack[i]
    <3>1. \A j \in 1..i : j \in 1..n
      BY <1>2
    <3>2. QED
      BY <1>11, <2>3, <2>4, <3>1
  <2>6. QED
    BY <2>3, <2>4, <2>5
<1>13. QED
  BY <1>6, <1>7, <1>8, <1>9, <1>10, <1>11, <1>12 DEF n

\* Ownership after a visit.
LEMMA OwnedVisit ==
    ASSUME Control, Control', Owned, NEW f \in Filters, NEW keep \in BOOLEAN, Visit(f, keep)
    PROVE  Owned'
<1> DEFINE n == Len(AtVisit(f).stack)
           kept == Of(f, keep).kept
           loose == Of(f, keep).loose
           freed == AtVisit(f).freed
           cur == Leaving(f, keep)
<1>1. /\ f \in Ahead /\ f \notin Ahead' /\ Ahead' \subseteq Ahead
      /\ Filters' = Filters
  BY VisitedIsBehind DEF Visit, Filters
<1>2. /\ \A s \in heap \cup forgotten : s.src # f
      /\ \A i \in 1..n : \A s \in stack[i] : s.src # f
      /\ \A g \in Filters : \A s \in out[g] : s.src # f
      /\ \A s \in kept \cup loose : s.src = f
      /\ \A s \in cur : s \in stack[n] \/ s \in kept \/ s \in loose
  BY VisitSources
<1>3. \A s \in freed : /\ s \notin forgotten
                       /\ \A g \in Filters : s \notin out[g]
                       /\ \A i \in 1..n : s \notin nodes[i] /\ s \notin stack[i]
  BY VisitSources
<1>4. \A s \in heap : \A i \in 1..n : s \in stack[i] => s \in forgotten \/ \E j \in 1..i : s \in nodes[j]
  BY VisitSources
<1>5. /\ f \in todo /\ cached' = [cached EXCEPT ![f] = kept]
      /\ heap' = (heap \ freed) \cup loose
  BY VisitEffect
<1>6. /\ n \in Nat /\ n >= 1 /\ Len(stack) \in Nat /\ n <= Len(stack) /\ Len(nodes) = Len(stack)
  BY <1>5, AtVisitFacts
<1>7. cached = [g \in Filters |-> cached[g]] /\ out = [g \in Filters |-> out[g]]
  BY DEF Control, TypeInv
<1>8. IsLeaf(f) => /\ out' = [out EXCEPT ![f] = cur]
                   /\ Len(nodes') = n /\ Len(stack') = n
                   /\ \A i \in 1..n : nodes'[i] = nodes[i] \ cur
                   /\ \A i \in 1..n : stack'[i] = stack[i]
                   /\ \A s : s \in forgotten' <=> s \in forgotten \/ (s \in cur /\ \E i \in 1..n : s \in nodes[i])
  <2>1. SUFFICES ASSUME IsLeaf(f) PROVE stack' = AtVisit(f).stack
    BY <1>5, LeafEffect, AtVisitFacts
  <2>2. QED
    BY <2>1, LeafEffect
<1>9. ~IsLeaf(f) => /\ out' = out /\ forgotten' = forgotten
                    /\ Len(stack') = n + 1 /\ Len(nodes') = n + 1
                    /\ \A i \in 1..n : stack'[i] = stack[i]
                    /\ \A i \in 1..n : nodes'[i] = nodes[i]
                    /\ stack'[n + 1] = cur
                    /\ \A s : s \in nodes'[n + 1] <=> /\ s \in cur /\ s \in heap \cup loose
                                                      /\ s \notin forgotten
                                                      /\ \A i \in 1..n : s \notin nodes[i]
  <2>1. SUFFICES ASSUME ~IsLeaf(f)
                 PROVE  \A s : s \in nodes'[n + 1] <=> /\ s \in cur /\ s \in heap \cup loose
                                                       /\ s \notin forgotten
                                                       /\ \A i \in 1..n : s \notin nodes[i]
    BY InnerEffect
  <2>2. QED
    BY <2>1, InnerEffect
<1> HIDE DEF n, kept, loose, freed, cur
<1>10. /\ \A i \in 1..n : i \in 1..Len(stack) /\ i \in 1..Len(nodes)
       /\ \A i \in 1..(n + 1) : i # n + 1 => i \in 1..n
  BY <1>6
<1>11. CachedBySource'
  BY <1>1, <1>2, <1>5, <1>7 DEF Owned, CachedBySource
<1>12. \A s : Known(s) => Known(s)'
  BY <1>1 DEF Known
<1>13. \A s \in cur \cup loose : Known(s)'
  BY <1>1, <1>2, <1>6, <1>10 DEF Owned, Unseen, Known
<1>14. Unseen'
  <2>1. ASSUME NEW s \in heap' \cup forgotten' PROVE Known(s)'
    <3>1. s \in heap \/ s \in forgotten \/ s \in loose \/ s \in cur
      BY <1>5, <1>8, <1>9
    <3>2. QED
      BY <1>12, <1>13, <3>1 DEF Owned, Unseen
  <2>2. ASSUME NEW i \in 1..Len(stack'), NEW s \in stack'[i] PROVE Known(s)'
    <3>1. s \in cur \/ (i \in 1..n /\ s \in stack[i])
      BY <1>6, <1>8, <1>9, <1>10
    <3>2. QED
      BY <1>10, <1>12, <1>13, <3>1 DEF Owned, Unseen
  <2>3. ASSUME NEW g \in Filters', NEW s \in out'[g] PROVE Known(s)'
    <3>1. s \in out[g] \/ s \in cur
      BY <1>1, <1>7, <1>8, <1>9
    <3>2. QED
      BY <1>1, <1>12, <1>13, <3>1 DEF Owned, Unseen
  <2>4. QED
    BY <2>1, <2>2, <2>3 DEF Unseen
<1>15. UsedIsHeld'
  <2>1. ASSUME NEW s, Held(s), s.src # f, s \notin freed PROVE Held(s)'
    BY <1>5, <1>7, <2>1 DEF Held
  <2>2. ASSUME NEW i \in 1..n, NEW s \in stack[i] PROVE Held(s)'
    <3>1. Held(s) /\ s.src # f /\ s \notin freed
      BY <1>2, <1>3, <1>10 DEF Owned, UsedIsHeld
    <3>2. QED
      BY <2>1, <3>1
  <2>3. ASSUME NEW g \in Filters, NEW s \in out[g] PROVE Held(s)'
    <3>1. Held(s) /\ s.src # f /\ s \notin freed
      BY <1>2, <1>3 DEF Owned, UsedIsHeld
    <3>2. QED
      BY <2>1, <3>1
  <2>4. ASSUME NEW s \in cur PROVE Held(s)'
    <3>1. CASE s \in kept
      BY <1>2, <1>5, <1>7, <3>1 DEF Held
    <3>2. CASE s \in loose
      BY <1>5, <3>2 DEF Held
    <3>3. CASE s \in stack[n]
      BY <1>6, <2>2, <3>3
    <3>4. QED
      BY <1>2, <3>1, <3>2, <3>3
  <2>5. ASSUME NEW i \in 1..Len(stack'), NEW s \in stack'[i] PROVE Held(s)'
    <3>1. s \in cur \/ (i \in 1..n /\ s \in stack[i])
      BY <1>6, <1>8, <1>9, <1>10
    <3>2. QED
      BY <2>2, <2>4, <3>1
  <2>6. ASSUME NEW g \in Filters', NEW s \in out'[g] PROVE Held(s)'
    <3>1. s \in out[g] \/ s \in cur
      BY <1>1, <1>7, <1>8, <1>9
    <3>2. QED
      BY <1>1, <2>3, <2>4, <3>1
  <2>7. QED
    BY <2>5, <2>6 DEF UsedIsHeld
<1>16. ASSUME NEW i \in 1..n, NEW s \in nodes[i]
       PROVE  /\ s \in heap' /\ s \notin forgotten
              /\ \A g \in Filters : s \notin out[g]
              /\ \A j \in 1..n : s \in nodes[j] => i = j
  <2>1. /\ s \in heap /\ s \notin forgotten /\ \A g \in Filters : s \notin out[g]
        /\ \A j \in 1..Len(nodes) : s \in nodes[j] => i = j
    BY <1>10 DEF Owned, TrackedOnce
  <2>2. QED
    BY <1>3, <1>5, <1>10, <2>1
<1>17. CASE IsLeaf(f)
  <2>1. StackIsTracked'
    <3>1. SUFFICES ASSUME NEW i \in 1..n, NEW s \in stack[i], s \in heap'
                   PROVE  s \in forgotten' \/ \E j \in 1..i : s \in nodes'[j]
      BY <1>8, <1>17 DEF StackIsTracked
    <3>2. s \in heap
      BY <1>2, <1>5, <3>1
    <3>3. CASE s \in forgotten
      BY <1>8, <1>17, <3>3
    <3>4. ASSUME NEW j \in 1..i, s \in nodes[j] PROVE s \in forgotten' \/ \E k \in 1..i : s \in nodes'[k]
      <4>1. j \in 1..n
        BY <1>6
      <4>2. nodes'[j] = nodes[j] \ cur
        BY <1>8, <1>17, <4>1
      <4>3. QED
        BY <1>8, <1>17, <3>4, <4>1, <4>2
    <3>5. QED
      BY <1>4, <3>1, <3>2, <3>3, <3>4
  <2>2. TrackedOnce'
    <3>1. SUFFICES ASSUME NEW i \in 1..n, NEW s \in nodes[i], s \notin cur
                   PROVE  /\ s \in heap' /\ s \notin forgotten'
                          /\ \A g \in Filters : s \notin out'[g]
                          /\ \A j \in 1..n : s \in nodes'[j] => i = j
      BY <1>1, <1>8, <1>17 DEF TrackedOnce
    <3>2. s \in heap' /\ s \notin forgotten'
      BY <1>8, <1>16, <1>17, <3>1
    <3>3. \A g \in Filters : s \notin out'[g]
      BY <1>7, <1>8, <1>16, <1>17, <3>1
    <3>4. \A j \in 1..n : s \in nodes'[j] => i = j
      BY <1>8, <1>16, <1>17
    <3>5. QED
      BY <3>2, <3>3, <3>4
  <2>3. QED
    BY <1>11, <1>14, <1>15, <2>1, <2>2 DEF Owned
<1>18. CASE ~IsLeaf(f)
  <2>1. StackIsTracked'
    <3>1. SUFFICES ASSUME NEW i \in 1..(n + 1), NEW s \in stack'[i], s \in heap'
                   PROVE  s \in forgotten \/ \E j \in 1..i : s \in nodes'[j]
      BY <1>9, <1>18 DEF StackIsTracked
    <3>2. CASE i \in 1..n
      <4>1. s \in stack[i] /\ s \in heap
        BY <1>2, <1>5, <1>9, <1>18, <3>1, <3>2
      <4>2. \A j \in 1..i : j \in 1..n
        BY <1>6, <3>2
      <4>3. QED
        BY <1>4, <1>9, <1>18, <3>2, <4>1, <4>2
    <3>3. CASE i = n + 1
      <4>1. s \in cur /\ s \in heap \cup loose
        BY <1>5, <1>9, <1>18, <3>1, <3>3
      <4>2. (\A j \in 1..n : j \in 1..i) /\ i \in 1..i
        BY <1>6, <3>3
      <4>3. QED
        BY <1>9, <1>18, <3>3, <4>1, <4>2
    <3>4. QED
      BY <1>10, <3>2, <3>3
  <2>2. \A s \in nodes'[n + 1] : s \in loose
    <3>1. ASSUME NEW s \in nodes'[n + 1], s \notin loose PROVE FALSE
      <4>1. /\ s \in heap /\ s \in stack[n] /\ s \notin forgotten
            /\ \A j \in 1..n : s \notin nodes[j]
        BY <1>2, <1>9, <1>18, <3>1
      <4>2. n \in 1..n
        BY <1>6
      <4>3. QED
        BY <1>4, <4>1, <4>2
    <3>2. QED
      BY <3>1
  <2>3. TrackedOnce'
    <3>1. SUFFICES ASSUME NEW i \in 1..(n + 1), NEW s \in nodes'[i]
                   PROVE  /\ s \in heap' /\ s \notin forgotten
                          /\ \A g \in Filters : s \notin out[g]
                          /\ \A j \in 1..(n + 1) : s \in nodes'[j] => i = j
      BY <1>1, <1>9, <1>18 DEF TrackedOnce
    <3>2. CASE i = n + 1
      <4>1. s \in loose /\ s.src = f
        BY <1>2, <2>2, <3>2
      <4>2. s \in heap' /\ s \notin forgotten /\ \A g \in Filters : s \notin out[g]
        BY <1>2, <1>5, <4>1
      <4>3. \A j \in 1..n : s \notin nodes'[j]
        BY <1>9, <1>18, <3>2
      <4>4. QED
        BY <1>10, <3>2, <4>2, <4>3
    <3>3. CASE i \in 1..n
      <4>1. s \in nodes[i]
        BY <1>9, <1>18, <3>3
      <4>2. /\ s \in heap' /\ s \notin forgotten /\ \A g \in Filters : s \notin out[g]
            /\ \A j \in 1..n : s \in nodes[j] => i = j
        BY <1>16, <3>3, <4>1
      <4>3. s \notin nodes'[n + 1]
        BY <1>9, <1>18, <3>3, <4>1
      <4>4. \A j \in 1..n : s \in nodes'[j] => i = j
        BY <1>9, <1>18, <4>2
      <4>5. QED
        BY <1>10, <4>2, <4>3, <4>4
    <3>4. QED
      BY <1>10, <3>2, <3>3
  <2>4. QED
    BY <1>11, <1>14, <1>15, <2>1, <2>3 DEF Owned
<1>19. QED
  BY <1>17, <1>18

\* Before the first refresh nothing is owned.
LEMMA OwnedInit == Init => Owned
  BY DEF Init, Owned, CachedBySource, Unseen, StackIsTracked, TrackedOnce, UsedIsHeld

\* Every step keeps what belongs to whom.
LEMMA OwnedStep ==
    ASSUME Control, Control', Owned, [Next]_refreshVars
    PROVE  Owned'
<1>0. /\ TypeInv /\ AtRest /\ Walk /\ Levels
      /\ Filters' = Filters /\ \A f : Subtree(f)' = Subtree(f)
  BY TypeStep, SameTree DEF Control
<1>00. /\ CachedBySource /\ Unseen /\ StackIsTracked /\ TrackedOnce /\ UsedIsHeld
       /\ cached = [g \in Filters |-> cached[g]]
  BY <1>0 DEF Owned, TypeInv
<1>1. CASE Begin
  <2>1. /\ cached' = [f \in Filters |-> cached'[f]]
        /\ \A f \in Filters : cached'[f] \subseteq cached[f]
        /\ starts' \subseteq Filters
        /\ stack' = <<{}>> /\ nodes' = <<>> /\ forgotten' = {} /\ heap' = {}
        /\ out' = [f \in Filters |-> {}]
    BY <1>0, <1>1 DEF Begin, ClearMonitored, Control, TypeInv
  <2>2. CachedBySource'
    BY <1>0, <1>00, <2>1 DEF CachedBySource
  <2>3. Unseen' /\ StackIsTracked' /\ TrackedOnce' /\ UsedIsHeld'
    BY <1>0, <2>1 DEF Unseen, StackIsTracked, TrackedOnce, UsedIsHeld
  <2>4. QED
    BY <2>2, <2>3 DEF Owned
<1>2. CASE NextStart
  <2>1. /\ cached' = cached /\ forgotten' = forgotten /\ out' = out
        /\ nodes' = <<{}>> /\ heap' = heap \ Tracked
        /\ base' \in starts /\ starts' = starts \ {base'} /\ todo' = Subtree(base')
    BY <1>0, <1>2, FirstFacts DEF NextStart, TypeInv
  <2>2. Len(stack') = 1 /\ stack'[1] = {} /\ Len(nodes') = 1
    <3>1. Running' /\ base' # 0 /\ Len(nodes') = 1
      BY <1>0, <1>2, <2>1, TreeFacts DEF NextStart, Running, TypeInv
    <3>2. QED
      BY <3>1 DEF Control, Levels
  <2>3. Ahead' \subseteq Ahead
    BY <1>0, <2>1 DEF Ahead
  <2>4. \A s : Known(s) => Known(s)'
    BY <1>0, <2>3 DEF Known
  <2>5. Unseen'
    BY <1>0, <1>00, <2>1, <2>2, <2>4 DEF Unseen
  <2>6. \A f \in Filters : \A s \in out[f] : s \notin Tracked
    BY <1>0, <1>00, RangeFacts DEF TypeInv, TrackedOnce, Tracked
  <2>7. UsedIsHeld'
    BY <1>0, <1>00, <2>1, <2>2, <2>6 DEF UsedIsHeld, Held
  <2>8. StackIsTracked' /\ TrackedOnce' /\ CachedBySource'
    BY <1>0, <1>00, <2>1, <2>2 DEF StackIsTracked, TrackedOnce, CachedBySource
  <2>9. QED
    BY <2>5, <2>7, <2>8 DEF Owned
<1>3. ASSUME NEW f \in Filters, NEW keep \in BOOLEAN, Visit(f, keep) PROVE Owned'
  BY <1>3, OwnedVisit
<1>4. ASSUME NEW f \in Filters, NEW keep \in BOOLEAN, NEW after \in BOOLEAN, Fail(f, keep, after)
      PROVE  Owned'
  <2>1. \A s \in Of(f, keep).kept \cup Of(f, keep).loose : s.src = f
    BY <1>00, OwnFacts
  <2>2. /\ heap' \subseteq heap \cup Of(f, keep).loose
        /\ cached' = [cached EXCEPT ![f] = IF after THEN Of(f, keep).kept ELSE {}]
        /\ starts' = {} /\ todo' = {} /\ stack' = <<>> /\ nodes' = <<>> /\ forgotten' = {}
        /\ out' = [g \in Filters |-> {}]
    BY <1>4 DEF Fail, Of, Came
  <2>3. CachedBySource'
    BY <1>0, <1>00, <2>1, <2>2 DEF CachedBySource
  <2>4. Ahead' = {}
    BY <2>2 DEF Ahead
  <2>5. Unseen'
    BY <1>0, <1>00, <2>1, <2>2, <2>4 DEF Unseen, Known
  <2>6. StackIsTracked' /\ TrackedOnce' /\ UsedIsHeld'
    BY <1>0, <2>2 DEF StackIsTracked, TrackedOnce, UsedIsHeld
  <2>7. QED
    BY <2>3, <2>5, <2>6 DEF Owned
<1>5. CASE Finish
  <2>1. /\ cached' = cached /\ forgotten' = forgotten
        /\ \A f \in Filters : out'[f] \subseteq out[f]
        /\ nodes' = <<>> /\ stack' = <<>> /\ heap' = heap \ Tracked
        /\ starts' = starts /\ todo' = todo
    BY <1>5 DEF Finish, Scrubbed
  <2>2. Ahead' = Ahead
    BY <1>0, <2>1 DEF Ahead
  <2>3. Unseen'
    BY <1>0, <1>00, <2>1, <2>2 DEF Unseen, Known
  <2>4. \A f \in Filters : \A s \in out[f] : s \notin Tracked
    BY <1>0, <1>00, RangeFacts DEF TypeInv, TrackedOnce, Tracked
  <2>5. UsedIsHeld'
    BY <1>0, <1>00, <2>1, <2>4 DEF UsedIsHeld, Held
  <2>6. StackIsTracked' /\ TrackedOnce' /\ CachedBySource'
    BY <1>0, <1>00, <2>1 DEF StackIsTracked, TrackedOnce, CachedBySource
  <2>7. QED
    BY <2>3, <2>5, <2>6 DEF Owned
<1>6. CASE UpdateScene
  <2>1. /\ cached' = cached /\ forgotten' = {} /\ heap' \subseteq heap
        /\ out' = [f \in Filters |-> {}] /\ nodes' = <<>> /\ stack' = <<>>
        /\ starts' = starts /\ todo' = todo
    BY <1>0, <1>6 DEF UpdateScene, AtRest, Running
  <2>2. Ahead' = Ahead
    BY <1>0, <2>1 DEF Ahead
  <2>3. QED
    BY <1>0, <1>00, <2>1, <2>2 DEF Owned, Unseen, Known, UsedIsHeld, StackIsTracked, TrackedOnce, CachedBySource
<1>7. ASSUME NEW f \in Filters, Edit(f) \/ Restyle(f) \/ FileChanges(f) PROVE Owned'
  <2>1. Forget /\ Resting
    BY <1>7 DEF Edit, Restyle, FileChanges
  <2>2. \A g \in Filters : cached'[g] \subseteq cached[g]
    BY <1>7, <1>00 DEF Edit, Restyle, FileChanges, ClearBelow
  <2>3. /\ forgotten' = forgotten /\ heap' = {} /\ out' = out
        /\ stack' = <<>> /\ nodes' = <<>> /\ starts' = starts /\ todo' = todo
        /\ \A g \in Filters : out[g] = {}
    BY <1>0, <2>1 DEF Forget, AtRest, Resting, Running
  <2>4. Ahead' = Ahead
    BY <1>0, <2>3 DEF Ahead
  <2>5. Unseen'
    BY <1>0, <1>00, <2>3, <2>4 DEF Unseen, Known
  <2>6. QED
    BY <1>0, <1>00, <2>2, <2>3, <2>5 DEF Owned, UsedIsHeld, StackIsTracked, TrackedOnce, CachedBySource
<1>8. CASE UNCHANGED refreshVars
  <2>1. Ahead' = Ahead
    BY <1>0, <1>8 DEF refreshVars, Ahead
  <2>2. QED
    BY <1>0, <1>00, <1>8, <2>1 DEF refreshVars, Owned, Unseen, Known, Held, UsedIsHeld, StackIsTracked, TrackedOnce, CachedBySource
<1>9. QED
  BY <1>1, <1>2, <1>3, <1>4, <1>5, <1>6, <1>7, <1>8 DEF Next

-----------------------------------------------------------------------------
(* The books *)

\* The filter right before one, and those above it: the filters the levels of
\* the stack can be of.
Before(f) == {f - 1} \cup above[f - 1]

\* Level i of the collector holds what the inner filter g made.
IsLevelOf(i, g) == /\ ~IsLeaf(g) /\ Depth(g) = Depth(base) + i - 2
                   /\ \A s \in nodes[i] : s.src = g

\* Each level of the collector is of one of those.
LevelsOfPath ==
    todo # {} => LET f == Min(todo)
                 IN  \A i \in 2..Len(nodes) : f - 1 \in Filters /\ \E g \in Before(f) : IsLevelOf(i, g)

\* The stack has the level the next filter takes its streams from.
Deep == todo # {} => Level(Min(todo)) <= Len(stack)

\* A filter that is ahead has delivered nothing.
Unsent == Running => \A f \in Filters : f \in Ahead => out[f] = {}

\* The streams the collector drops: of an inner filter with a later sibling.
Dropped(s) == ~IsLeaf(s.src) /\ \E g \in Filters : g > s.src /\ above[g] = above[s.src]

\* What is allocated is tracked, delivered or lost in one of two known ways.
Accounted == \A s \in heap : \/ \E i \in 1..Len(nodes) : s \in nodes[i]
                             \/ \E f \in Filters : s \in out[f]
                             \/ Dropped(s)
                             \/ Resting /\ s.src = ended.at

\* The third part.
Tidy == LevelsOfPath /\ Deep /\ Unsent /\ Accounted

\* Of the filters visited right before one, those nearer to the base are above
\* it.
LEMMA OnPath ==
    ASSUME above \in Shapes, NEW f \in Filters, f - 1 \in Filters, NEW g \in Before(f), Depth(g) < Depth(f)
    PROVE  g \in above[f]
<1>1. f \in Nat /\ f > 1 /\ above[f] \subseteq Before(f)
  BY TreeFacts DEF Before
<1>2. g \in Filters /\ Depth(g) \in Nat /\ Depth(f) \in Nat
  BY PathFacts, DepthFacts DEF Before
<1>3. above[f] # {}
  <2>1. Cardinality({}) = 0
    BY FS_EmptySet
  <2>2. QED
    BY <1>2, <2>1 DEF Depth
<1>4. Parent(f) \in above[f] /\ above[f] = above[Parent(f)] \cup {Parent(f)} /\ Depth(f) = Depth(Parent(f)) + 1 /\ Parent(f) \in Filters
  BY <1>3, ParentFacts
<1>5. g = Parent(f) \/ g \in above[Parent(f)] \/ Parent(f) \in above[g]
  BY <1>1, <1>4, PathFacts DEF Before
<1>6. Parent(f) \notin above[g]
  <2>1. ASSUME Parent(f) \in above[g] PROVE FALSE
    <3>1. Depth(Parent(f)) < Depth(g) /\ Depth(Parent(f)) \in Nat
      BY <1>2, <1>4, <2>1, DepthFacts
    <3>2. QED
      BY <1>2, <1>4, <3>1
  <2>2. QED
    BY <2>1
<1>7. QED
  BY <1>4, <1>5, <1>6

\* The one of them as far from the base is a sibling.
LEMMA SiblingOnPath ==
    ASSUME above \in Shapes, NEW f \in Filters, f - 1 \in Filters, NEW g \in Before(f), Depth(g) = Depth(f)
    PROVE  g \in Filters /\ g < f /\ above[g] = above[f]
<1>1. f \in Nat /\ f > 1 /\ above[f] \subseteq Before(f) /\ above[f - 1] \subseteq 1..(f - 2)
  BY TreeFacts DEF Before
<1>2. g \in Filters /\ Depth(g) \in Nat /\ Depth(f) \in Nat
  BY PathFacts, DepthFacts DEF Before
<1>3. g < f
  BY <1>1 DEF Before
<1>4. \A h \in Filters : above[h] = {} <=> Depth(h) = 0
  <2>1. ASSUME NEW h \in Filters, above[h] # {} PROVE Depth(h) # 0
    <3>1. Depth(h) = Depth(Parent(h)) + 1 /\ Parent(h) \in Filters
      BY <2>1, ParentFacts
    <3>2. QED
      BY <3>1, DepthFacts
  <2>2. Cardinality({}) = 0
    BY FS_EmptySet
  <2>3. QED
    BY <2>1, <2>2 DEF Depth
<1>5. CASE above[f] = {}
  BY <1>2, <1>3, <1>4, <1>5
<1>6. CASE above[f] # {}
  <2>1. above[g] # {}
    BY <1>2, <1>4, <1>6
  <2>2. Parent(f) \in above[f] /\ above[f] = above[Parent(f)] \cup {Parent(f)} /\ Depth(f) = Depth(Parent(f)) + 1
    BY <1>6, ParentFacts
  <2>3. Parent(g) \in above[g] /\ above[g] = above[Parent(g)] \cup {Parent(g)} /\ Depth(g) = Depth(Parent(g)) + 1
    BY <1>2, <2>1, ParentFacts
  <2>4. above[g] \subseteq Before(f)
    BY TreeFacts DEF Before
  <2>5. Parent(f) \in Filters /\ Parent(g) \in Filters
    BY <1>2, <2>2, <2>3, TreeFacts
  <2>6. Depth(Parent(f)) = Depth(Parent(g))
    BY <2>2, <2>3, <2>5, DepthFacts
  <2>7. Parent(f) = Parent(g)
    BY <1>1, <2>2, <2>3, <2>4, <2>6, PathFacts DEF Before
  <2>8. QED
    BY <1>2, <1>3, <2>2, <2>3, <2>7
<1>7. QED
  BY <1>5, <1>6

\* A visit finds the levels of the filters above, and puts its own on them.
LEMMA VisitLevel ==
    ASSUME Control, Tidy, NEW f \in Filters, NEW keep \in BOOLEAN,
           Visit(f, keep) \/ \E after \in BOOLEAN : Fail(f, keep, after)
    PROVE  Len(AtVisit(f).stack) = Level(f)
<1>1. f = Min(todo) /\ f \in todo
  BY DEF Visit, Fail, Control, Walk
<1>2. Level(f) <= Len(stack)
  BY <1>1 DEF Tidy, Deep
<1>3. QED
  BY <1>1, <1>2, AtVisitFacts

\* The collector's levels after a visit: those of the filters above the next.
LEMMA LevelsVisit ==
    ASSUME Control, Owned, Tidy, NEW f \in Filters, NEW keep \in BOOLEAN, Visit(f, keep)
    PROVE  LevelsOfPath' /\ Deep'
<1>1. SUFFICES ASSUME todo' # {} PROVE LevelsOfPath' /\ Deep'
  BY DEF LevelsOfPath, Deep
<1> DEFINE n == Len(AtVisit(f).stack)
<1>2. /\ f \in todo /\ f = Min(todo) /\ todo' = todo \ {f} /\ base' = base /\ above' = above
      /\ todo = From(base, f) /\ above \in Shapes /\ n = Level(f)
  <2>1. f \in todo /\ f = Min(todo) /\ todo' = todo \ {f}
    BY VisitEffect
  <2>2. base' = base /\ above' = above
    BY DEF Visit
  <2>3. todo = From(base, f) /\ above \in Shapes
    BY <2>1 DEF Control, Walk, TypeInv
  <2>4. n = Level(f)
    BY VisitLevel
  <2>5. QED
    BY <2>1, <2>2, <2>3, <2>4
<1>3. base \in Filters /\ f \in Subtree(base) /\ n \in Nat /\ n >= 1 /\ n <= Len(stack) /\ Len(nodes) = Len(stack) /\ Len(stack) \in Nat
  BY <1>2, AtVisitFacts
<1>4. /\ Min(todo \ {f}) = f + 1
      /\ f + 1 \in Subtree(base)
      /\ above[f + 1] \subseteq {f} \cup above[f]
      /\ f \in above[f + 1] => ~IsLeaf(f)
  <2>1. From(base, f) \ {f} # {}
    BY <1>1, <1>2
  <2>2. Min(From(base, f) \ {f}) = f + 1 /\ f + 1 \in Subtree(base)
    BY <1>2, <1>3, <2>1, NextFilter
  <2>3. above[f + 1] \subseteq {f} \cup above[f]
    BY <1>2, <1>3, <2>1, NextFilter
  <2>4. f \in above[f + 1] => ~IsLeaf(f)
    BY <1>2, <1>3, <2>1, NextFilter
  <2>5. QED
    BY <1>2, <2>2, <2>3, <2>4
<1>5. Min(todo)' = f + 1 /\ Depth(base) \in Nat /\ Depth(f) \in Nat /\ Depth(f + 1) \in Nat /\ f + 1 \in Filters /\ f \in Nat
  <2>1. Min(todo)' = f + 1
    BY <1>2, <1>4 DEF Min
  <2>2. f \in Filters /\ f + 1 \in Filters /\ Filters \subseteq Nat
    BY <1>2, <1>3, <1>4, TreeFacts DEF Subtree
  <2>3. QED
    BY <1>2, <1>3, <2>1, <2>2, DepthFacts
<1>6. (f + 1) - 1 = f /\ n = Depth(f) - Depth(base) + 1
  BY <1>2, <1>5 DEF Level
<1>7. /\ Filters' = Filters
      /\ \A g : Depth(g)' = Depth(g)
      /\ \A g : IsLeaf(g)' = IsLeaf(g)
  BY <1>2, SameTree
<1>8. IF IsLeaf(f) THEN /\ Len(nodes') = n
                        /\ \A i \in 1..n : nodes'[i] = nodes[i] \ Leaving(f, keep)
      ELSE /\ Len(nodes') = n + 1 /\ \A i \in 1..n : nodes'[i] = nodes[i]
           /\ \A s \in nodes'[n + 1] : s \in Of(f, keep).loose
  <2>1. CASE IsLeaf(f)
    BY <2>1, LeafEffect
  <2>2. CASE ~IsLeaf(f)
    <3>1. Len(nodes') = n + 1 /\ \A i \in 1..n : nodes'[i] = nodes[i]
      BY <2>2, InnerEffect
    <3>2. \A s : s \in nodes'[n + 1] => /\ s \in Leaving(f, keep) /\ s \in heap \cup Of(f, keep).loose
                                        /\ s \notin forgotten
                                        /\ \A i \in 1..n : s \notin nodes[i]
      BY <2>2, InnerEffect
    <3>3. ASSUME NEW s \in nodes'[n + 1], s \notin Of(f, keep).loose PROVE FALSE
      <4>1. s \in heap /\ s \in Leaving(f, keep) /\ s \notin forgotten /\ \A i \in 1..n : s \notin nodes[i]
        BY <3>2, <3>3
      <4>2. s.src # f /\ (s \in stack[n] => s \in forgotten \/ \E j \in 1..n : s \in nodes[j])
        BY <1>3, <4>1, VisitSources
      <4>3. s \in stack[n] \/ s.src = f
        BY <4>1, VisitSources
      <4>4. QED
        BY <4>1, <4>2, <4>3
    <3>4. QED
      BY <2>2, <3>1, <3>3
  <2>3. QED
    BY <2>1, <2>2
<1>9. \A s \in Of(f, keep).loose : s.src = f
  BY OwnFacts DEF Owned
<1>10. Len(stack') = IF IsLeaf(f) THEN n ELSE n + 1
  BY LeafEffect, InnerEffect
<1> HIDE DEF n
<1>11. Deep'
  <2>1. Level(f + 1) <= IF IsLeaf(f) THEN n ELSE n + 1
    <3>1. CASE above[f + 1] = {}
      <4>1. Depth(f + 1) = 0
        BY <3>1, FS_EmptySet DEF Depth
      <4>2. QED
        BY <1>3, <1>5, <4>1 DEF Level
    <3>2. CASE above[f + 1] # {}
      <4>1. Parent(f + 1) \in above[f + 1] /\ Depth(f + 1) = Depth(Parent(f + 1)) + 1
        BY <1>2, <1>5, <3>2, ParentFacts
      <4>2. CASE Parent(f + 1) = f
        BY <1>4, <1>5, <1>6, <4>1, <4>2 DEF Level
      <4>3. CASE Parent(f + 1) \in above[f]
        <5>1. Depth(Parent(f + 1)) < Depth(f) /\ Depth(Parent(f + 1)) \in Nat
          BY <1>2, <4>3, DepthFacts, TreeFacts
        <5>2. QED
          BY <1>3, <1>5, <1>6, <4>1, <5>1 DEF Level
      <4>4. QED
        BY <1>4, <4>1, <4>2, <4>3
    <3>3. QED
      BY <3>1, <3>2
  <2>2. Level(Min(todo))' = Level(f + 1)
    BY <1>2, <1>5, <1>7 DEF Level
  <2>3. QED
    BY <1>10, <2>1, <2>2 DEF Deep
<1>12. Before(Min(todo))' = {f} \cup above[f] /\ (Min(todo) - 1)' = f
  BY <1>2, <1>5, <1>6 DEF Before
<1>13. ASSUME NEW i \in 2..Len(nodes') PROVE \E g \in {f} \cup above[f] : IsLevelOf(i, g)'
  <2>1. CASE i \in 1..n
    <3>1. PICK g \in Before(f) : IsLevelOf(i, g) /\ f - 1 \in Filters
      BY <1>2, <1>3, <2>1 DEF Tidy, LevelsOfPath
    <3>2. g \in Filters /\ Depth(g) \in Nat /\ Depth(g) < Depth(f)
      <4>1. g \in Filters
        BY <1>2, <3>1, PathFacts DEF Before
      <4>2. QED
        <5>1. Depth(g) \in Nat /\ Depth(g) = Depth(base) + i - 2 /\ i \in Nat /\ i <= n
          BY <1>2, <1>3, <2>1, <3>1, <4>1, DepthFacts DEF IsLevelOf
        <5>2. QED
          BY <1>5, <1>6, <4>1, <5>1
    <3>3. g \in above[f]
      BY <1>2, <3>1, <3>2, OnPath
    <3>4. \A s \in nodes'[i] : s \in nodes[i]
      BY <1>8, <2>1
    <3>5. ~IsLeaf(g)' /\ Depth(g)' = (Depth(base) + i - 2)' /\ \A s \in nodes'[i] : s.src = g
      BY <1>2, <1>7, <3>1, <3>4 DEF IsLevelOf
    <3>6. QED
      BY <3>3, <3>5 DEF IsLevelOf
  <2>2. CASE i = n + 1 /\ ~IsLeaf(f)
    <3>1. \A s \in nodes'[i] : s.src = f
      BY <1>8, <1>9, <2>2
    <3>2. ~IsLeaf(f)' /\ Depth(f)' = (Depth(base) + i - 2)'
      <4>1. Depth(f) = Depth(base) + i - 2
        <5>1. Depth(f) \in Nat /\ Depth(base) \in Nat /\ i = n + 1 /\ n = Depth(f) - Depth(base) + 1
          BY <1>5, <1>6, <2>2
        <5>2. QED
          BY <5>1
      <4>2. Depth(base)' = Depth(base) /\ Depth(f)' = Depth(f) /\ IsLeaf(f)' = IsLeaf(f)
        BY <1>2, <1>7 DEF Depth
      <4>3. QED
        BY <2>2, <4>1, <4>2
    <3>3. QED
      BY <3>1, <3>2 DEF IsLevelOf
  <2>3. QED
    BY <1>3, <1>8, <2>1, <2>2
<1>14. LevelsOfPath'
  BY <1>7, <1>12, <1>13 DEF LevelsOfPath
<1>15. QED
  BY <1>11, <1>14

\* The level of the collector that a visit drops is of an earlier sibling.
LEMMA DroppedLevel ==
    ASSUME Control, Tidy, NEW f \in Filters, NEW keep \in BOOLEAN,
           Visit(f, keep) \/ \E after \in BOOLEAN : Fail(f, keep, after),
           Level(f) + 1 <= Len(nodes), NEW s \in nodes[Level(f) + 1]
    PROVE  Dropped(s)
<1>1. f = Min(todo) /\ f \in todo /\ above \in Shapes
  BY DEF Visit, Fail, Control, Walk, TypeInv
<1>2. Level(f) \in Nat /\ Level(f) >= 1 /\ base \in Filters
  BY <1>1, AtVisitFacts
<1>3. Level(f) + 1 \in 2..Len(nodes)
  BY <1>2
<1>4. f - 1 \in Filters /\ \E g \in Before(f) : IsLevelOf(Level(f) + 1, g)
  BY <1>1, <1>3 DEF Tidy, LevelsOfPath
<1>5. PICK g \in Before(f) : IsLevelOf(Level(f) + 1, g)
  BY <1>4
<1>6. Depth(g) = Depth(f)
  <2>1. Depth(base) \in Nat /\ Depth(f) \in Nat
    BY <1>1, <1>2, DepthFacts
  <2>2. Depth(g) = Depth(base) + (Level(f) + 1) - 2 /\ Level(f) = Depth(f) - Depth(base) + 1
    BY <1>5 DEF IsLevelOf, Level
  <2>3. QED
    BY <2>1, <2>2
<1>7. g \in Filters /\ g < f /\ above[g] = above[f]
  BY <1>1, <1>4, <1>6, SiblingOnPath
<1>8. s.src = g /\ ~IsLeaf(g) /\ f > g
  BY <1>1, <1>5, <1>7, TreeFacts DEF IsLevelOf
<1>9. QED
  BY <1>7, <1>8 DEF Dropped

\* What a visit leaves allocated is accounted for.
LEMMA AccountedVisit ==
    ASSUME Control, Owned, Tidy, NEW f \in Filters, NEW keep \in BOOLEAN, Visit(f, keep)
    PROVE  Unsent' /\ Accounted'
<1> DEFINE n == Len(AtVisit(f).stack)
           loose == Of(f, keep).loose
           freed == AtVisit(f).freed
           cur == Leaving(f, keep)
<1>1. /\ f \in Ahead /\ f \notin Ahead' /\ Ahead' \subseteq Ahead
      /\ Filters' = Filters /\ above' = above /\ ended' = ended
  BY VisitedIsBehind DEF Visit, Filters
<1>2. /\ f \in todo /\ f = Min(todo) /\ n = Level(f) /\ Running
      /\ heap' = (heap \ freed) \cup loose
  BY VisitEffect, AtVisitFacts, VisitLevel
<1>3. /\ n \in Nat /\ n >= 1 /\ Len(stack) \in Nat /\ n <= Len(stack) /\ Len(nodes) = Len(stack)
  BY <1>2, AtVisitFacts
<1>4. out = [g \in Filters |-> out[g]] /\ above \in Shapes
  BY DEF Control, TypeInv
<1>6. \A s : s \in freed <=> \E i \in (n + 2)..Len(nodes) : s \in nodes[i]
  BY <1>2, AtVisitFacts
<1>7. \A s \in loose : s.src = f /\ s \in cur
  BY OwnFacts DEF Owned, Leaving
<1>8. /\ \A s \in forgotten : s.src # f
      /\ \A s \in heap : s.src # f
      /\ out[f] = {}
  BY <1>1, <1>2, VisitSources DEF Tidy, Unsent
<1>9. /\ \A g \in Filters : g # f => out'[g] = out[g]
      /\ IsLeaf(f) => out'[f] = cur
      /\ ~IsLeaf(f) => out'[f] = out[f]
  <2>1. CASE IsLeaf(f)
    <3>1. out' = [out EXCEPT ![f] = cur]
      BY <2>1, LeafEffect
    <3>2. QED
      BY <1>4, <2>1, <3>1
  <2>2. CASE ~IsLeaf(f)
    BY <2>2, InnerEffect
  <2>3. QED
    BY <2>1, <2>2
<1>10. Unsent'
  <2>1. SUFFICES ASSUME NEW g \in Filters, g \in Ahead' PROVE out'[g] = {}
    BY <1>1 DEF Unsent
  <2>2. g # f /\ g \in Ahead
    BY <1>1, <2>1
  <2>3. QED
    BY <1>2, <1>9, <2>2 DEF Tidy, Unsent
<1>11. \A i \in 1..n : \A s \in nodes[i] : \/ \E j \in 1..Len(nodes') : s \in nodes'[j]
                                           \/ \E g \in Filters : s \in out'[g]
  <2>1. CASE IsLeaf(f)
    <3>1. Len(nodes') = n /\ \A i \in 1..n : nodes'[i] = nodes[i] \ cur
      BY <2>1, LeafEffect
    <3>2. QED
      BY <1>9, <2>1, <3>1
  <2>2. CASE ~IsLeaf(f)
    <3>1. Len(nodes') = n + 1 /\ \A i \in 1..n : nodes'[i] = nodes[i]
      BY <2>2, InnerEffect
    <3>2. \A i \in 1..n : i \in 1..Len(nodes')
      BY <1>3, <3>1
    <3>3. QED
      BY <3>1, <3>2
  <2>3. QED
    BY <2>1, <2>2
<1>12. \A s \in loose : \/ \E j \in 1..Len(nodes') : s \in nodes'[j]
                        \/ \E g \in Filters : s \in out'[g]
  <2>1. CASE IsLeaf(f)
    BY <1>7, <1>9, <2>1
  <2>2. CASE ~IsLeaf(f)
    <3>1. Len(nodes') = n + 1
      BY <2>2, InnerEffect
    <3>2. \A s : s \in cur /\ s \in heap \cup loose /\ s \notin forgotten /\ (\A i \in 1..n : s \notin nodes[i])
                 => s \in nodes'[n + 1]
      BY <2>2, InnerEffect
    <3>3. \A i \in 1..n : i \in 1..Len(nodes)
      BY <1>3
    <3>4. ASSUME NEW s \in loose PROVE s \in nodes'[n + 1]
      <4>1. s \notin forgotten /\ s \notin heap
        BY <1>7, <1>8
      <4>2. \A i \in 1..n : s \notin nodes[i]
        BY <3>3, <4>1 DEF Owned, TrackedOnce
      <4>3. QED
        BY <1>7, <3>2, <4>1, <4>2
    <3>5. n + 1 \in 1..Len(nodes')
      BY <1>3, <3>1
    <3>6. QED
      BY <3>4, <3>5
  <2>3. QED
    BY <2>1, <2>2
<1>13. n + 1 <= Len(nodes) => \A s \in nodes[n + 1] : Dropped(s)
  BY <1>2, DroppedLevel
<1>14. \A s : Dropped(s) => Dropped(s)'
  BY <1>1, SameTree DEF Dropped
<1>15. Accounted'
  <2> HIDE DEF n, loose, freed, cur
  <2>1. SUFFICES ASSUME NEW s \in heap'
                 PROVE  \/ \E i \in 1..Len(nodes') : s \in nodes'[i]
                        \/ \E g \in Filters : s \in out'[g]
                        \/ Dropped(s)'
    BY <1>1 DEF Accounted
  <2>2. CASE s \in loose
    BY <1>12, <2>2
  <2>3. CASE s \in heap /\ s \notin freed
    <3>1. ~Resting
      BY <1>2 DEF Running, Resting
    <3>2. CASE \E i \in 1..Len(nodes) : s \in nodes[i]
      <4>1. PICK i \in 1..Len(nodes) : s \in nodes[i]
        BY <3>2
      <4>2. i <= n + 1
        BY <1>3, <1>6, <2>3, <4>1
      <4>3. i \in 1..n \/ (i = n + 1 /\ n + 1 <= Len(nodes))
        BY <1>3, <4>2
      <4>4. QED
        BY <1>11, <1>13, <1>14, <4>1, <4>3
    <3>3. CASE \E g \in Filters : s \in out[g]
      BY <1>8, <1>9, <3>3
    <3>4. CASE Dropped(s)
      BY <1>14, <3>4
    <3>5. QED
      BY <2>3, <3>1, <3>2, <3>3, <3>4 DEF Tidy, Accounted
  <2>4. QED
    BY <1>2, <2>2, <2>3
<1>16. QED
  BY <1>10, <1>15

\* What a failed refresh leaves allocated is accounted for.
LEMMA AccountedFail ==
    ASSUME Control, Owned, Tidy, NEW f \in Filters, NEW keep \in BOOLEAN, NEW after \in BOOLEAN, Fail(f, keep, after)
    PROVE  Accounted'
<1> DEFINE n == Len(AtVisit(f).stack)
<1>1. /\ f \in todo /\ f = Min(todo) /\ above' = above
      /\ ended' = [how |-> "failed", at |-> f]
  BY DEF Fail, Control, Walk
<1>2. /\ n = Level(f) /\ Running /\ n \in Nat /\ n >= 1 /\ Len(nodes) \in Nat /\ n <= Len(nodes)
      /\ AtVisit(f).nodes \in Seq(Range(AtVisit(f).nodes)) /\ Len(AtVisit(f).nodes) = n
      /\ \A i \in 1..n : AtVisit(f).nodes[i] = nodes[i]
  BY <1>1, VisitLevel, AtVisitFacts
<1>3. \A s : s \in AtVisit(f).freed <=> \E i \in (n + 2)..Len(nodes) : s \in nodes[i]
  BY <1>1, <1>2, AtVisitFacts
<1>4. \A s \in Of(f, keep).loose : s.src = f
  BY OwnFacts DEF Owned
<1>5. /\ \A s \in heap' : s \in Of(f, keep).loose \/ (s \in heap /\ s \notin AtVisit(f).freed)
      /\ \A s \in heap' : s \notin UNION Range(out) /\ s \notin UNION Range(AtVisit(f).nodes)
  BY DEF Fail, Of, Came
<1>6. ASSUME NEW s \in heap' PROVE \A i \in 1..n : s \notin nodes[i]
  <2>1. s \in UNION Range(AtVisit(f).nodes) <=> \E i \in 1..Len(AtVisit(f).nodes) : s \in AtVisit(f).nodes[i]
    BY <1>2, RangeFacts
  <2>2. QED
    BY <1>2, <1>5, <2>1
<1>7. ASSUME NEW s \in heap', NEW g \in Filters PROVE s \notin out[g]
  <2>1. out = [h \in Filters |-> out[h]]
    BY DEF Control, TypeInv
  <2>2. out[g] \in Range(out)
    BY <2>1 DEF Range
  <2>3. QED
    BY <1>5, <2>2
<1>8. n + 1 <= Len(nodes) => \A s \in nodes[n + 1] : Dropped(s)
  BY <1>2, DroppedLevel
<1>9. \A s : Dropped(s) => Dropped(s)'
  BY <1>1, SameTree DEF Dropped
<1>10. ASSUME NEW s \in heap' PROVE Dropped(s)' \/ s.src = f
  <2> HIDE DEF n
  <2>1. CASE s \in Of(f, keep).loose
    BY <1>4, <2>1
  <2>2. CASE s \in heap /\ s \notin AtVisit(f).freed
    <3>1. ~Resting
      BY <1>2 DEF Running, Resting
    <3>2. CASE \E i \in 1..Len(nodes) : s \in nodes[i]
      <4>1. PICK i \in 1..Len(nodes) : s \in nodes[i]
        BY <3>2
      <4>2. i = n + 1 /\ n + 1 <= Len(nodes)
        BY <1>2, <1>3, <1>6, <2>2, <4>1
      <4>3. QED
        BY <1>8, <1>9, <4>1, <4>2
    <3>3. QED
      BY <1>7, <1>9, <2>2, <3>1, <3>2 DEF Tidy, Accounted
  <2>3. QED
    BY <1>5, <2>1, <2>2
<1>11. QED
  BY <1>1, <1>10 DEF Accounted, Resting

\* Streams that several leaves deliver are kept once.
LEMMA ScrubbedKeepsAll ==
    ASSUME above \in Shapes, NEW f \in Filters, NEW s \in out[f]
    PROVE  \E g \in Filters : s \in Scrubbed[g]
<1> DEFINE D == {g \in Filters : s \in out[g]}
<1>1. D \subseteq Nat /\ D # {}
  BY TreeFacts
<1>2. Min(D) \in D /\ \A g \in D : Min(D) <= g
  <2> HIDE DEF D
  <2>1. QED
    BY <1>1, MinFacts
<1>3. PICK g \in Filters : s \in out[g] /\ \A h \in Filters : s \in out[h] => g <= h
  BY <1>2
<1>4. \A h \in Filters : h < g => ~(g <= h)
  BY TreeFacts
<1>5. s \in Scrubbed[g]
  BY <1>3, <1>4 DEF Scrubbed
<1>6. QED
  BY <1>5

\* Before the first refresh the books are empty.
LEMMA TidyInit == Init => Tidy
  BY DEF Init, Tidy, LevelsOfPath, Deep, Unsent, Accounted, Running

\* Every step keeps the books.
LEMMA TidyStep ==
    ASSUME Control, Control', Owned, Tidy, [Next]_refreshVars
    PROVE  Tidy'
<1>0. /\ TypeInv /\ AtRest /\ Walk /\ Levels /\ LevelsOfPath /\ Deep /\ Unsent /\ Accounted
      /\ Filters' = Filters /\ above' = above /\ \A f : Subtree(f)' = Subtree(f)
      /\ \A s : Dropped(s)' = Dropped(s)
  BY TypeStep, SameTree DEF Control, Tidy, Dropped
<1>1. CASE Begin
  BY <1>0, <1>1 DEF Begin, Tidy, LevelsOfPath, Deep, Unsent, Accounted
<1>2. CASE NextStart
  <2>1. /\ out' = out /\ ended' = ended /\ Running
        /\ heap' = heap \ Tracked /\ nodes' = <<{}>>
        /\ base' \in starts /\ starts' = starts \ {base'} /\ todo' = Subtree(base')
    BY <1>0, <1>2, FirstFacts DEF NextStart, TypeInv
  <2>2. base' \in Filters /\ Filters \subseteq Nat /\ base' # 0 /\ todo' # {} /\ base' \in todo'
    BY <1>0, <2>1, TreeFacts DEF TypeInv, Subtree
  <2>3. Len(stack') = 1 /\ Len(nodes') = 1
    <3>1. Running' /\ Len(nodes') = 1
      BY <2>1 DEF Running
    <3>2. QED
      BY <2>2, <3>1 DEF Control, Levels
  <2>4. LevelsOfPath'
    BY <2>3 DEF LevelsOfPath
  <2>5. Min(todo') = base'
    <3>1. \A g \in todo' : g \in Nat /\ base' <= g
      BY <1>0, <2>1, <2>2, TreeFacts DEF Subtree, IsChild, TypeInv
    <3>2. todo' \subseteq Nat
      BY <3>1
    <3>3. Min(todo') \in todo' /\ \A g \in todo' : Min(todo') <= g
      BY <2>2, <3>2, MinFacts
    <3>4. Min(todo') <= base' /\ base' <= Min(todo') /\ Min(todo') \in Nat /\ base' \in Nat
      BY <2>2, <3>1, <3>3
    <3>5. QED
      BY <3>4
  <2>6. Deep'
    <3>1. Level(Min(todo))' = Depth(base') - Depth(base') + 1
      BY <1>0, <2>5 DEF Level, Min, Depth
    <3>2. Depth(base') \in Nat
      BY <1>0, <2>2, DepthFacts DEF TypeInv
    <3>3. QED
      BY <2>3, <3>1, <3>2 DEF Deep
  <2>7. Ahead' \subseteq Ahead
    BY <1>0, <2>1 DEF Ahead
  <2>8. Unsent'
    BY <1>0, <2>1, <2>7 DEF Unsent
  <2>9. \A i \in 1..Len(nodes) : \A s \in nodes[i] : s \in Tracked
    BY <1>0, RangeFacts DEF TypeInv, Tracked
  <2>10. Accounted'
    BY <1>0, <2>1, <2>9 DEF Accounted, Resting, Running
  <2>11. QED
    BY <2>4, <2>6, <2>8, <2>10 DEF Tidy
<1>3. ASSUME NEW f \in Filters, NEW keep \in BOOLEAN, Visit(f, keep) PROVE Tidy'
  BY <1>3, LevelsVisit, AccountedVisit DEF Tidy
<1>4. ASSUME NEW f \in Filters, NEW keep \in BOOLEAN, NEW after \in BOOLEAN, Fail(f, keep, after)
      PROVE  Tidy'
  <2>1. todo' = {} /\ ~Running'
    BY <1>4 DEF Fail, Running
  <2>2. QED
    BY <1>4, <2>1, AccountedFail DEF Tidy, LevelsOfPath, Deep, Unsent
<1>5. CASE Finish
  <2>1. /\ Running /\ todo' = {} /\ ~Running' /\ heap' = heap \ Tracked
        /\ out' = Scrubbed
    BY <1>5 DEF Finish, Running
  <2>2. \A i \in 1..Len(nodes) : \A s \in nodes[i] : s \in Tracked
    BY <1>0, RangeFacts DEF TypeInv, Tracked
  <2>3. \A s : \A f \in Filters : s \in out[f] => \E g \in Filters : s \in Scrubbed[g]
    BY <1>0, ScrubbedKeepsAll DEF TypeInv
  <2>4. ASSUME NEW s \in heap' PROVE (\E g \in Filters : s \in out'[g]) \/ Dropped(s)
    <3>1. s \in heap /\ \A i \in 1..Len(nodes) : s \notin nodes[i]
      BY <2>1, <2>2
    <3>2. (\E g \in Filters : s \in out[g]) \/ Dropped(s)
      BY <1>0, <2>1, <3>1 DEF Accounted, Running, Resting
    <3>3. QED
      BY <2>1, <2>3, <3>2
  <2>5. Accounted'
    BY <1>0, <2>4 DEF Accounted
  <2>6. QED
    BY <2>1, <2>5 DEF Tidy, LevelsOfPath, Deep, Unsent
<1>6. CASE UpdateScene
  <2>1. /\ ~Running /\ ~Resting /\ ~Running' /\ todo' = todo /\ heap' = heap \ (UNION Range(out))
        /\ out' = [f \in Filters |-> {}]
    BY <1>6 DEF UpdateScene, Running, Resting
  <2>2. todo = {} /\ nodes = <<>>
    BY <1>0, <2>1 DEF AtRest
  <2>3. \A f \in Filters : out[f] \in Range(out)
    BY <1>0 DEF TypeInv, Range
  <2>4. Accounted'
    BY <1>0, <2>1, <2>2, <2>3 DEF Accounted
  <2>5. QED
    BY <2>1, <2>2, <2>4 DEF Tidy, LevelsOfPath, Deep, Unsent
<1>7. ASSUME NEW f \in Filters, Edit(f) \/ Restyle(f) \/ FileChanges(f) PROVE Tidy'
  <2>1. Forget /\ Resting
    BY <1>7 DEF Edit, Restyle, FileChanges
  <2>2. todo' = {} /\ ~Running' /\ heap' = {}
    BY <1>0, <2>1 DEF Forget, AtRest, Resting, Running
  <2>3. QED
    BY <2>2 DEF Tidy, LevelsOfPath, Deep, Unsent, Accounted
<1>8. CASE UNCHANGED refreshVars
  <2>1. LevelsOfPath' /\ Deep'
    <3>1. todo' = todo /\ nodes' = nodes /\ base' = base /\ stack' = stack
      BY <1>8 DEF refreshVars
    <3>2. \A i, g : IsLevelOf(i, g)' <=> IsLevelOf(i, g)
      BY <1>0, <3>1, SameTree DEF IsLevelOf
    <3>3. Min(todo)' = Min(todo) /\ Level(Min(todo))' = Level(Min(todo)) /\ Before(Min(todo))' = Before(Min(todo))
      BY <1>0, <3>1 DEF Min, Level, Depth, Before
    <3>4. LevelsOfPath' <=> LevelsOfPath
      BY <1>0, <3>1, <3>2, <3>3 DEF LevelsOfPath
    <3>5. QED
      BY <1>0, <3>1, <3>3, <3>4 DEF Deep
  <2>2. Ahead' = Ahead /\ (Resting' <=> Resting) /\ (Running' <=> Running)
    BY <1>0, <1>8 DEF refreshVars, Ahead, Resting, Running
  <2>3. QED
    BY <1>0, <1>8, <2>1, <2>2 DEF refreshVars, Tidy, Unsent, Accounted
<1>9. QED
  BY <1>1, <1>2, <1>3, <1>4, <1>5, <1>6, <1>7, <1>8 DEF Next

-----------------------------------------------------------------------------
(* The output *)

\* A file this filter depends on has changed since it was read.
Stale(f) == \E g \in above[f] \cup {f} : NeedsRefresh(g)

\* A cache holds what its filter would make in a full run, unless a file has
\* changed since; a refresh clears those caches first.
CacheInv == \A f \in Filters : \/ cached[f] = {}
                               \/ cached[f] = Makes(f, Input(f))
                               \/ Resting /\ Stale(f)

\* Nothing would come to a start from above it but what its cache blocks.
StartInv == \A b \in starts \cup (todo \cap {base}) : above[b] # {} => Emitted[Parent(b)] \subseteq Blocked(b)

\* The levels of the stack of the filters above the next one hold what would
\* leave them in a full run.
PathInv == todo # {} => LET f == Min(todo)
                        IN  \A a \in above[f] \cap Subtree(base) : stack[Depth(a) - Depth(base) + 2] = Complete[a]

\* So does the output of the leaves that were visited.
OutInv == Running => \A f \in Filters : IsLeaf(f) /\ f \notin Ahead => out[f] = Complete[f]

\* Only leaves deliver.
OutLeaves == \A f \in Filters : ~IsLeaf(f) => out[f] = {}

\* The last part.
Exact == CacheInv /\ StartInv /\ PathInv /\ OutInv /\ OutLeaves /\ OutputIsComplete

\* What a visit leaves in the cache, and what leaves the filter, are what a
\* full run would give.
LEMMA VisitIsExact ==
    ASSUME Control, Owned, Tidy, Exact, NEW f \in Filters, NEW keep \in BOOLEAN,
           Visit(f, keep) \/ \E after \in BOOLEAN : Fail(f, keep, after)
    PROVE  /\ Of(f, keep).kept \in {{}, Makes(f, Input(f))}
           /\ Leaving(f, keep) = Complete[f]
<1> DEFINE n == Len(AtVisit(f).stack)
<1>1. f = Min(todo) /\ f \in todo /\ above \in Shapes
  BY DEF Visit, Fail, Control, Walk, TypeInv
<1>2. n = Level(f) /\ n >= 1 /\ n \in Nat /\ Running /\ base \in Filters /\ f \in Subtree(base)
  BY <1>1, VisitLevel, AtVisitFacts
<1>3. Came(f) = stack[n]
  <2>1. n \in 1..n
    BY <1>2
  <2>2. QED
    BY <1>1, <2>1, AtVisitFacts DEF Came, Last
<1>4. ~Resting
  BY <1>2 DEF Running, Resting
<1>5. cached[f] = {} \/ cached[f] = Makes(f, Input(f))
  BY <1>4 DEF Exact, CacheInv
<1>6. \/ Came(f) = Input(f)
      \/ /\ UsesCache(f)
         /\ Passes(f, Came(f)) = {} /\ Passes(f, Input(f)) = {}
  <2>1. CASE f # base
    <3>1. base \in above[f]
      BY <1>2, <2>1 DEF Subtree, IsChild
    <3>2. Parent(f) \in above[f] /\ above[f] = above[Parent(f)] \cup {Parent(f)} /\ Depth(f) = Depth(Parent(f)) + 1 /\ Parent(f) \in Filters
      BY <1>1, <3>1, ParentFacts
    <3>3. Parent(f) \in Subtree(base)
      BY <3>1, <3>2 DEF Subtree, IsChild
    <3>4. stack[Depth(Parent(f)) - Depth(base) + 2] = Complete[Parent(f)]
      BY <1>1, <3>2, <3>3 DEF Exact, PathInv
    <3>5. Depth(base) \in Nat /\ Depth(Parent(f)) \in Nat
      BY <1>1, <1>2, <3>2, DepthFacts
    <3>6. Depth(Parent(f)) - Depth(base) + 2 = n
      BY <1>2, <3>2, <3>5 DEF Level
    <3>7. QED
      BY <1>3, <3>1, <3>4, <3>6 DEF Input
  <2>2. CASE f = base
    <3>1. Depth(base) \in Nat
      BY <1>1, <1>2, DepthFacts
    <3>2. n = 1
      BY <1>2, <2>2, <3>1 DEF Level
    <3>3. stack[1] = {}
      BY <1>2 DEF Control, Levels
    <3>4. Came(f) = {}
      BY <1>3, <3>2, <3>3
    <3>5. CASE above[f] = {}
      BY <3>4, <3>5 DEF Input
    <3>6. CASE above[f] # {}
      <4>1. Emitted[Parent(f)] \subseteq Blocked(f)
        BY <1>1, <2>2, <3>6 DEF Exact, StartInv
      <4>2. Parent(f) \in Filters
        BY <1>1, <3>6, ParentFacts
      <4>3. \A s \in Input(f) : s.type \in Blocked(f)
        BY <1>1, <3>6, <4>1, <4>2, TypesAreEmitted DEF Input
      <4>4. CASE ~HaveCache(f)
        BY <3>4, <4>3, <4>4 DEF Blocked
      <4>5. CASE HaveCache(f)
        <5>1. kind[f] # "watched"
          <6>1. kind[f] \notin BaseKinds /\ kind[f] \in Kinds \cup BaseKinds
            BY <3>6 DEF Control, TypeInv
          <6>2. QED
            BY <6>1, RefreshAssumption
        <5>2. Passes(f, Input(f)) = {}
          BY <4>3, <4>5 DEF Blocked, Passes
        <5>3. Passes(f, Came(f)) = {}
          BY <3>4 DEF Passes
        <5>4. QED
          BY <4>5, <5>1, <5>2, <5>3 DEF UsesCache
      <4>6. QED
        BY <4>4, <4>5
    <3>7. QED
      BY <3>5, <3>6
  <2>3. QED
    BY <2>1, <2>2
<1>7. Anew(f, Came(f)) = Anew(f, Input(f))
  BY DEF Anew
<1>8. Complete[f] = Passes(f, Input(f)) \cup Makes(f, Input(f)) \cup Anew(f, Input(f))
  BY <1>1, CompleteDef DEF Step
<1>9. CASE UsesCache(f)
  <2>1. Of(f, keep).kept = cached[f] /\ Of(f, keep).loose = Anew(f, Came(f))
    BY <1>9 DEF Of, Own
  <2>2. cached[f] = Makes(f, Input(f))
    BY <1>5, <1>9 DEF UsesCache, HaveCache
  <2>3. Passes(f, Came(f)) = Passes(f, Input(f))
    BY <1>6
  <2>4. QED
    BY <1>7, <1>8, <2>1, <2>2, <2>3 DEF Leaving
<1>10. CASE ~UsesCache(f)
  <2>1. Came(f) = Input(f)
    BY <1>6, <1>10
  <2>2. Of(f, keep).kept \in {{}, Makes(f, Came(f))}
    BY <1>10 DEF Of, Own
  <2>3. Of(f, keep).kept \cup Of(f, keep).loose = Makes(f, Came(f)) \cup Anew(f, Came(f))
    BY <1>10 DEF Of, Own
  <2>4. QED
    BY <1>8, <2>1, <2>2, <2>3 DEF Leaving
<1>11. QED
  BY <1>9, <1>10

\* CacheInv after a step of a refresh: only the cache of one filter changes.
LEMMA CacheStep ==
    ASSUME above \in Shapes, above' = above, kind' = kind, file' = file, drawn' = drawn, CacheInv, ~Resting,
           \A f \in Filters : cached'[f] = cached[f] \/ cached'[f] \in {{}, Makes(f, Input(f))}
    PROVE  CacheInv'
<1>1. Filters' = Filters
  BY DEF Filters
<1>2. ASSUME NEW f \in Filters PROVE cached'[f] = {} \/ cached'[f] = Makes(f, Input(f))'
  <2>1. Makes(f, Input(f))' = Makes(f, Input(f))
    BY MakesLocal
  <2>2. cached[f] = {} \/ cached[f] = Makes(f, Input(f))
    BY DEF CacheInv
  <2>3. QED
    BY <2>1, <2>2
<1>3. QED
  BY <1>1, <1>2 DEF CacheInv

\* After a visit.
LEMMA ExactVisit ==
    ASSUME Control, Owned, Tidy, Exact, NEW f \in Filters, NEW keep \in BOOLEAN, Visit(f, keep)
    PROVE  Exact'
<1> DEFINE n == Len(AtVisit(f).stack)
           cur == Leaving(f, keep)
<1>1. /\ above' = above /\ kind' = kind /\ file' = file /\ drawn' = drawn /\ base' = base /\ starts' = starts /\ ended' = ended
      /\ above \in Shapes /\ Filters' = Filters
  BY DEF Visit, Control, TypeInv, Filters
<1>2. /\ f \in todo /\ f = Min(todo) /\ todo' = todo \ {f}
      /\ cached' = [cached EXCEPT ![f] = Of(f, keep).kept]
  BY VisitEffect
<1>3. n = Level(f) /\ n >= 1 /\ n \in Nat /\ Running /\ base \in Filters /\ f \in Subtree(base)
  BY <1>2, VisitLevel, AtVisitFacts
<1>4. /\ Of(f, keep).kept \in {{}, Makes(f, Input(f))}
      /\ cur = Complete[f]
  BY VisitIsExact
<1>5. cached = [g \in Filters |-> cached[g]] /\ out = [g \in Filters |-> out[g]]
  BY DEF Control, TypeInv
<1>6. ~Resting /\ ended'.how # "done"
  BY <1>1, <1>3 DEF Running, Resting
<1>7. \A g \in Filters : Complete'[g] = Complete[g]
  BY <1>1, CompleteLocal
<1>8. f \in Ahead /\ f \notin Ahead' /\ \A g : g \in Ahead => g = f \/ g \in Ahead'
  <2>1. \A b : Subtree(b)' = Subtree(b)
    BY <1>1, SameTree
  <2>2. \A g : g \in Ahead => g = f \/ g \in Ahead'
    BY <1>1, <1>2, <2>1 DEF Ahead
  <2>3. QED
    BY <2>2, VisitedIsBehind
<1> HIDE DEF n, cur
<1>9. CacheInv'
  <2>1. \A g \in Filters : cached'[g] = cached[g] \/ cached'[g] \in {{}, Makes(g, Input(g))}
    BY <1>2, <1>4, <1>5
  <2>2. QED
    BY <1>1, <1>6, <2>1, CacheStep DEF Exact
<1>10. StartInv'
  <2>1. SUFFICES ASSUME NEW b \in starts \cup ((todo \ {f}) \cap {base}), above[b] # {}
                 PROVE  (Emitted[Parent(b)])' \subseteq Blocked(b)'
    BY <1>1, <1>2 DEF StartInv
  <2>2. b # f
    <3>1. f \notin starts
      BY <1>1, <1>8 DEF Ahead, Subtree
    <3>2. QED
      BY <3>1
  <2>3. b \in Filters /\ Emitted[Parent(b)] \subseteq Blocked(b)
    <3>1. b \in starts \cup (todo \cap {base})
      OBVIOUS
    <3>2. b \in Filters
      BY <1>3, <3>1 DEF Control, TypeInv
    <3>3. QED
      BY <2>1, <3>1, <3>2 DEF Exact, StartInv
  <2>4. Blocked(b)' = Blocked(b)
    <3>1. cached'[b] = cached[b]
      BY <1>2, <1>5, <2>2, <2>3
    <3>2. BlockMask(b)' = BlockMask(b)
      BY <1>1 DEF BlockMask
    <3>3. QED
      BY <3>1, <3>2 DEF Blocked, HaveCache
  <2>5. Parent(b) \in Filters /\ Parent(b)' = Parent(b)
    BY <1>1, <2>1, <2>3, ParentFacts DEF Parent
  <2>6. Emitted'[Parent(b)] = Emitted[Parent(b)]
    BY <1>1, <2>5, EmittedSame
  <2>7. QED
    BY <2>3, <2>4, <2>5, <2>6
<1>11. PathInv'
  <2>1. SUFFICES ASSUME todo \ {f} # {} PROVE PathInv'
    BY <1>2 DEF PathInv
  <2>2. Min(todo)' = f + 1 /\ above[f + 1] \subseteq {f} \cup above[f] /\ (f \in above[f + 1] => ~IsLeaf(f))
    <3>1. todo = From(base, f)
      BY <1>2 DEF Control, Walk
    <3>2. From(base, f) \ {f} # {}
      BY <2>1, <3>1
    <3>3. Min(From(base, f) \ {f}) = f + 1
      BY <1>1, <1>3, <3>2, NextFilter
    <3>4. above[f + 1] \subseteq {f} \cup above[f]
      BY <1>1, <1>3, <3>2, NextFilter
    <3>5. f \in above[f + 1] => ~IsLeaf(f)
      BY <1>1, <1>3, <3>2, NextFilter
    <3>6. Min(todo)' = Min(todo \ {f})
      BY <1>2 DEF Min
    <3>7. QED
      BY <3>1, <3>3, <3>4, <3>5, <3>6
  <2>3. Depth(base) \in Nat /\ Depth(f) \in Nat
    BY <1>1, <1>3, DepthFacts
  <2>4. \A i \in 1..n : stack'[i] = stack[i]
    <3>1. CASE IsLeaf(f)
      <4>1. stack' = AtVisit(f).stack
        BY <3>1, LeafEffect
      <4>2. QED
        BY <1>2, <4>1, AtVisitFacts DEF n
    <3>2. CASE ~IsLeaf(f)
      BY <3>2, InnerEffect DEF n
    <3>3. QED
      BY <3>1, <3>2
  <2>5. ~IsLeaf(f) => stack'[n + 1] = Complete[f]
    BY <1>4, InnerEffect DEF n, cur
  <2>6. ASSUME NEW a \in above[f + 1] \cap Subtree(base)
        PROVE  stack'[Depth(a) - Depth(base) + 2] = Complete[a] /\ a \in Filters
    <3>1. CASE a = f
      <4>1. Depth(a) - Depth(base) + 2 = n + 1
        BY <1>3, <2>3, <3>1 DEF Level
      <4>2. QED
        BY <2>2, <2>5, <3>1, <4>1
    <3>2. CASE a \in above[f]
      <4>1. a \in Filters /\ Depth(a) < Depth(f) /\ Depth(a) \in Nat
        BY <1>1, <3>2, TreeFacts, DepthFacts
      <4>2. Depth(base) <= Depth(a)
        <5>1. a = base \/ base \in above[a]
          BY DEF Subtree, IsChild
        <5>2. QED
          BY <1>1, <2>3, <4>1, <5>1, DepthFacts
      <4>3. stack[Depth(a) - Depth(base) + 2] = Complete[a]
        BY <1>2, <3>2 DEF Exact, PathInv
      <4>4. Depth(a) - Depth(base) + 2 \in 1..n
        BY <1>3, <2>3, <4>1, <4>2 DEF Level
      <4>5. QED
        BY <2>4, <4>1, <4>3, <4>4
    <3>3. QED
      BY <2>2, <3>1, <3>2
  <2>7. ASSUME NEW a \in (above[Min(todo)] \cap Subtree(base))'
        PROVE  (stack[Depth(a) - Depth(base) + 2] = Complete[a])'
    <3>1. a \in above[f + 1] \cap Subtree(base)
      BY <1>1, <2>2 DEF Subtree, IsChild
    <3>2. stack'[Depth(a) - Depth(base) + 2] = Complete[a] /\ a \in Filters
      BY <2>6, <3>1
    <3>3. Depth(a)' = Depth(a) /\ Depth(base)' = Depth(base)
      BY <1>1 DEF Depth
    <3>4. QED
      BY <1>7, <3>2, <3>3
  <2>8. QED
    BY <2>7 DEF PathInv
<1>12. /\ \A g \in Filters : g # f => out'[g] = out[g]
       /\ IsLeaf(f) => out'[f] = Complete[f]
       /\ ~IsLeaf(f) => out'[f] = out[f]
  <2>1. CASE IsLeaf(f)
    <3>1. out' = [out EXCEPT ![f] = cur]
      BY <2>1, LeafEffect DEF cur
    <3>2. QED
      BY <1>4, <1>5, <2>1, <3>1
  <2>2. CASE ~IsLeaf(f)
    BY <2>2, InnerEffect
  <2>3. QED
    BY <2>1, <2>2
<1>13. \A g : IsLeaf(g)' = IsLeaf(g)
  BY <1>1, SameTree
<1>14. OutInv'
  <2>1. SUFFICES ASSUME NEW g \in Filters, IsLeaf(g), g \notin Ahead' PROVE out'[g] = Complete[g]
    BY <1>1, <1>7, <1>13 DEF OutInv
  <2>2. CASE g = f
    BY <1>12, <2>1, <2>2
  <2>3. CASE g # f
    BY <1>3, <1>8, <1>12, <2>1, <2>3 DEF Exact, OutInv
  <2>4. QED
    BY <2>2, <2>3
<1>15. OutLeaves'
  BY <1>1, <1>12, <1>13 DEF Exact, OutLeaves
<1>16. OutputIsComplete'
  BY <1>6 DEF OutputIsComplete
<1>17. QED
  BY <1>9, <1>10, <1>11, <1>14, <1>15, <1>16 DEF Exact

\* After an edit: the caches that are left are of filters it does not reach.
LEMMA EditKeepsCaches ==
    ASSUME Control, CacheInv, NEW f \in Filters, Edit(f) \/ Restyle(f) \/ FileChanges(f)
    PROVE  CacheInv'
<1>1. Forget /\ Resting
  BY DEF Edit, Restyle, FileChanges
<1>2. /\ above' = above /\ kind' = kind /\ Filters' = Filters /\ above \in Shapes
      /\ stamp' = stamp /\ Resting'
      /\ cached = [g \in Filters |-> cached[g]]
  BY <1>1 DEF Forget, Filters, Resting, Edit, Restyle, FileChanges, Control, TypeInv
<1>3. SUFFICES ASSUME NEW g \in Filters
               PROVE  cached'[g] = {} \/ cached'[g] = Makes(g, Input(g))' \/ Stale(g)'
  BY <1>2 DEF CacheInv
<1>4. ASSUME cached'[g] = cached[g], \A h \in above[g] \cup {g} : file'[h] = file[h] /\ (h \in drawn' <=> h \in drawn)
      PROVE  cached'[g] = {} \/ cached'[g] = Makes(g, Input(g))' \/ Stale(g)'
  <2>1. Makes(g, Input(g))' = Makes(g, Input(g))
    BY <1>2, <1>4, MakesLocal
  <2>2. Stale(g) => Stale(g)'
    BY <1>2, <1>4 DEF Stale, NeedsRefresh
  <2>3. cached[g] = {} \/ cached[g] = Makes(g, Input(g)) \/ Stale(g)
    BY DEF CacheInv
  <2>4. QED
    BY <1>4, <2>1, <2>2, <2>3
<1>5. CASE Edit(f)
  <2>1. CASE g = f \/ f \in above[g]
    BY <1>2, <1>5, <2>1 DEF Edit, ClearBelow, IsChild
  <2>2. CASE g # f /\ f \notin above[g]
    <3>1. cached'[g] = cached[g]
      BY <1>2, <1>5, <2>2 DEF Edit, ClearBelow, IsChild
    <3>2. drawn' \in {drawn, drawn \ {f}, drawn \cup {f}} /\ file' = file
      BY <1>5 DEF Edit
    <3>3. QED
      BY <1>4, <2>2, <3>1, <3>2
  <2>3. QED
    BY <2>1, <2>2
<1>6. CASE Restyle(f)
  <2>1. cached'[g] = {} \/ cached'[g] = cached[g]
    BY <1>2, <1>6 DEF Restyle, ClearBelow
  <2>2. drawn' = drawn /\ file' = file
    BY <1>6 DEF Restyle
  <2>3. QED
    BY <1>4, <2>1, <2>2
<1>7. CASE FileChanges(f)
  <2>1. file' = [file EXCEPT ![f] = file[f] + 1] /\ kind[f] = "watched" /\ drawn' = drawn /\ cached' = cached
    BY <1>7 DEF FileChanges
  <2>2. file \in [Filters -> Int] /\ stamp[f] <= file[f] /\ stamp[f] \in Int
    BY DEF Control, TypeInv
  <2>3. CASE g = f \/ f \in above[g]
    <3>1. file'[f] = file[f] + 1 /\ file[f] \in Int
      BY <2>1, <2>2
    <3>2. stamp[f] # file'[f]
      BY <2>2, <3>1
    <3>3. NeedsRefresh(f)'
      BY <1>2, <2>1, <3>2 DEF NeedsRefresh
    <3>4. Stale(g)'
      BY <1>2, <2>3, <3>3 DEF Stale
    <3>5. QED
      BY <3>4
  <2>4. CASE g # f /\ f \notin above[g]
    <3>1. \A h \in above[g] \cup {g} : file'[h] = file[h]
      <4>1. above[g] \subseteq Filters
        BY <1>2, TreeFacts
      <4>2. QED
        BY <2>1, <2>2, <2>4, <4>1
    <3>2. QED
      BY <1>4, <2>1, <3>1
  <2>5. QED
    BY <2>3, <2>4
<1>8. QED
  BY <1>5, <1>6, <1>7

\* Before the first refresh there is no cache and no output.
LEMMA ExactInit == Init => Exact
  BY DEF Init, Exact, CacheInv, StartInv, PathInv, OutInv, OutLeaves, OutputIsComplete, Running

\* Every step keeps what the caches, the stack and the output hold exact.
LEMMA ExactStep ==
    ASSUME Control, Owned, Tidy, Exact, [Next]_refreshVars
    PROVE  Exact'
<1>0. /\ TypeInv /\ AtRest /\ Walk /\ Levels /\ above \in Shapes /\ above' = above /\ kind' = kind
      /\ Filters' = Filters /\ Filters \subseteq Nat
      /\ \A f : Subtree(f)' = Subtree(f)
      /\ \A f : IsLeaf(f)' = IsLeaf(f)
      /\ cached = [f \in Filters |-> cached[f]] /\ out = [f \in Filters |-> out[f]]
  <2>1. TypeInv /\ AtRest /\ Walk /\ Levels /\ above \in Shapes
    BY DEF Control, TypeInv
  <2>2. above' = above /\ kind' = kind
    BY TypeStep
  <2>3. /\ Filters' = Filters
        /\ \A f : Subtree(f)' = Subtree(f)
        /\ \A f : IsLeaf(f)' = IsLeaf(f)
    BY <2>2, SameTree
  <2>4. cached = [f \in Filters |-> cached[f]] /\ out = [f \in Filters |-> out[f]]
    BY DEF Control, TypeInv
  <2>5. QED
    BY <2>1, <2>2, <2>3, <2>4, TreeFacts
<1>00. CacheInv /\ StartInv /\ PathInv /\ OutInv /\ OutLeaves /\ OutputIsComplete
  BY DEF Exact
<1>1. CASE Begin
  <2>1. /\ cached' = ClearMonitored(cached) /\ file' = file /\ drawn' = drawn /\ Running' /\ ~Resting' /\ Resting
        /\ starts' = Starts' /\ todo' = {} /\ out' = [f \in Filters |-> {}] /\ ended'.how # "done"
    BY <1>1 DEF Begin, Running, Resting
  <2>2. CacheInv'
    <3>1. ASSUME NEW f \in Filters PROVE cached'[f] = {} \/ cached'[f] = Makes(f, Input(f))'
      <4>1. CASE Stale(f)
        <5>1. PICK g \in above[f] \cup {f} : NeedsRefresh(g)
          BY <4>1 DEF Stale
        <5>2. g \in Filters /\ f \in Subtree(g)
          BY <1>0, TreeFacts DEF Subtree, IsChild
        <5>3. QED
          BY <2>1, <5>1, <5>2 DEF ClearMonitored
      <4>2. CASE ~Stale(f)
        <5>1. cached[f] = {} \/ cached[f] = Makes(f, Input(f))
          BY <1>00, <4>2 DEF CacheInv
        <5>2. cached'[f] = {} \/ cached'[f] = cached[f]
          BY <1>0, <2>1 DEF ClearMonitored
        <5>3. Makes(f, Input(f))' = Makes(f, Input(f))
          BY <1>0, <2>1, MakesLocal
        <5>4. QED
          BY <5>1, <5>2, <5>3
      <4>3. QED
        BY <4>1, <4>2
    <3>2. QED
      BY <1>0, <3>1 DEF CacheInv
  <2>3. (\A b \in Starts : above[b] # {} => Emitted[Parent(b)] \subseteq Blocked(b))'
    BY <1>0, StartsNext
  <2>4. StartInv'
    BY <2>1, <2>3 DEF StartInv
  <2>5. OutInv'
    <3>1. (\A f \in Filters : IsLeaf(f) => \E a \in Starts : f \in Subtree(a))'
      BY <1>0, StartsNext
    <3>2. (\A f \in Filters : IsLeaf(f) => f \in Ahead)'
      BY <2>1, <3>1 DEF Ahead
    <3>3. QED
      BY <3>2 DEF OutInv
  <2>6. OutLeaves' /\ PathInv' /\ OutputIsComplete'
    BY <1>0, <2>1 DEF OutLeaves, PathInv, OutputIsComplete
  <2>7. QED
    BY <2>2, <2>4, <2>5, <2>6 DEF Exact
<1>2. CASE NextStart
  <2>1. /\ cached' = cached /\ file' = file /\ drawn' = drawn /\ out' = out /\ ended' = ended /\ Running
        /\ base' \in starts /\ starts' = starts \ {base'} /\ todo' = Subtree(base')
    BY <1>0, <1>2, FirstFacts DEF NextStart, TypeInv
  <2>2. ~Resting /\ ended'.how # "done"
    BY <2>1 DEF Running, Resting
  <2>3. CacheInv'
    BY <1>0, <1>00, <2>1, <2>2, CacheStep
  <2>4. StartInv'
    <3>1. SUFFICES ASSUME NEW b \in starts, above[b] # {} PROVE (Emitted[Parent(b)])' \subseteq Blocked(b)'
      BY <1>0, <2>1 DEF StartInv
    <3>2. b \in Filters /\ Emitted[Parent(b)] \subseteq Blocked(b)
      BY <1>0, <1>00, <3>1 DEF StartInv, TypeInv
    <3>3. Blocked(b)' = Blocked(b) /\ Parent(b)' = Parent(b)
      BY <1>0, <2>1 DEF Blocked, HaveCache, BlockMask, Parent
    <3>4. Parent(b) \in Filters
      BY <1>0, <3>1, <3>2, ParentFacts
    <3>5. Emitted'[Parent(b)] = Emitted[Parent(b)]
      BY <1>0, <2>1, <3>4, EmittedSame
    <3>6. QED
      BY <3>2, <3>3, <3>5
  <2>5. PathInv'
    <3>1. base' \in Filters /\ base' \in todo' /\ todo' \subseteq Filters
      BY <1>0, <2>1 DEF TypeInv, Subtree
    <3>2. Min(todo') \in todo' /\ \A g \in todo' : Min(todo') <= g
      BY <1>0, <3>1, MinFacts
    <3>3. Min(todo') \in Filters /\ Min(todo') <= base'
      BY <3>1, <3>2
    <3>4. ASSUME NEW a \in above[Min(todo')] \cap Subtree(base') PROVE FALSE
      <4>1. a \in Filters /\ a < Min(todo')
        BY <1>0, <3>3, TreeFacts
      <4>2. base' <= a
        <5>1. a = base' \/ base' \in above[a]
          BY DEF Subtree, IsChild
        <5>2. QED
          BY <1>0, <3>1, <4>1, <5>1, TreeFacts
      <4>3. a \in Nat /\ base' \in Nat /\ Min(todo') \in Nat
        BY <1>0, <3>1, <3>3, <4>1
      <4>4. QED
        BY <3>3, <4>1, <4>2, <4>3
    <3>5. (above[Min(todo)] \cap Subtree(base))' = above[Min(todo')] \cap Subtree(base')
      BY <1>0 DEF Min, Subtree, IsChild, Filters
    <3>6. QED
      BY <3>4, <3>5 DEF PathInv
  <2>6. ASSUME NEW f \in Filters, f \in Ahead PROVE f \in Ahead'
    <3>1. Ahead' = Subtree(base') \cup UNION {Subtree(b) : b \in starts \ {base'}}
      BY <1>0, <2>1 DEF Ahead
    <3>2. PICK b \in starts : f \in Subtree(b)
      BY <1>2, <2>6 DEF Ahead, NextStart
    <3>3. QED
      BY <3>1, <3>2
  <2>7. \A f \in Filters : Complete'[f] = Complete[f]
    BY <1>0, <2>1, CompleteLocal
  <2>8. OutInv'
    <3>1. SUFFICES ASSUME NEW f \in Filters, IsLeaf(f), f \notin Ahead' PROVE out'[f] = Complete[f]
      BY <1>0, <2>7 DEF OutInv
    <3>2. QED
      BY <1>00, <2>1, <2>6, <3>1 DEF OutInv
  <2>9. OutLeaves' /\ OutputIsComplete'
    BY <1>0, <1>00, <2>1, <2>2 DEF OutLeaves, OutputIsComplete
  <2>10. QED
    BY <2>3, <2>4, <2>5, <2>8, <2>9 DEF Exact
<1>3. ASSUME NEW f \in Filters, NEW keep \in BOOLEAN, Visit(f, keep) PROVE Exact'
  BY <1>3, ExactVisit
<1>4. ASSUME NEW f \in Filters, NEW keep \in BOOLEAN, NEW after \in BOOLEAN, Fail(f, keep, after)
      PROVE  Exact'
  <2>1. /\ cached' = [cached EXCEPT ![f] = IF after THEN Of(f, keep).kept ELSE {}]
        /\ file' = file /\ drawn' = drawn /\ ~Running' /\ ended'.how # "done"
        /\ starts' = {} /\ todo' = {} /\ out' = [g \in Filters |-> {}]
    BY <1>4 DEF Fail, Of, Came, Running
  <2>2. ~Resting
    BY <1>0, <1>4 DEF AtRest, Fail, Running, Resting
  <2>3. Of(f, keep).kept \in {{}, Makes(f, Input(f))}
    BY <1>4, VisitIsExact
  <2>4. \A g \in Filters : cached'[g] = cached[g] \/ cached'[g] \in {{}, Makes(g, Input(g))}
    BY <1>0, <2>1, <2>3
  <2>5. CacheInv'
    BY <1>0, <1>00, <2>1, <2>2, <2>4, CacheStep
  <2>6. StartInv' /\ PathInv' /\ OutInv' /\ OutLeaves' /\ OutputIsComplete'
    BY <1>0, <2>1 DEF StartInv, PathInv, OutInv, OutLeaves, OutputIsComplete
  <2>7. QED
    BY <2>5, <2>6 DEF Exact
<1>5. CASE Finish
  <2>1. /\ cached' = cached /\ file' = file /\ drawn' = drawn /\ Running /\ ~Running' /\ todo' = {} /\ starts' = {}
        /\ todo = {} /\ starts = {} /\ out' = Scrubbed
    BY <1>5 DEF Finish, Running
  <2>2. ~Resting
    BY <2>1 DEF Running, Resting
  <2>3. CacheInv'
    BY <1>0, <1>00, <2>1, <2>2, CacheStep
  <2>4. OutLeaves'
    BY <1>0, <1>00, <2>1 DEF OutLeaves, Scrubbed
  <2>5. \A f \in Filters : IsLeaf(f) => out[f] = Complete[f]
    BY <1>00, <2>1 DEF OutInv, Ahead
  <2>6. \A f \in Filters : Complete'[f] = Complete[f]
    BY <1>0, <2>1, CompleteLocal
  <2>7. UNION Range(Scrubbed) = UNION {Complete[f] : f \in {g \in Filters : IsLeaf(g)}}
    <3>1. ASSUME NEW s \in UNION Range(Scrubbed) PROVE \E f \in Filters : IsLeaf(f) /\ s \in Complete[f]
      <4>1. PICK f \in Filters : s \in Scrubbed[f]
        BY DEF Scrubbed, Range
      <4>2. s \in out[f]
        BY <4>1 DEF Scrubbed
      <4>3. IsLeaf(f)
        BY <1>00, <4>2 DEF OutLeaves
      <4>4. QED
        BY <2>5, <4>2, <4>3
    <3>2. ASSUME NEW f \in Filters, IsLeaf(f), NEW s \in Complete[f] PROVE s \in UNION Range(Scrubbed)
      <4>1. s \in out[f]
        BY <2>5, <3>2
      <4>2. PICK g \in Filters : s \in Scrubbed[g]
        BY <1>0, <4>1, ScrubbedKeepsAll
      <4>3. Scrubbed[g] \in Range(Scrubbed)
        BY DEF Scrubbed, Range
      <4>4. QED
        BY <4>2, <4>3
    <3>3. QED
      BY <3>1, <3>2
  <2>8. OutputIsComplete'
    <3>1. {g \in Filters : IsLeaf(g)}' = {g \in Filters : IsLeaf(g)}
      BY <1>0
    <3>2. (UNION {Complete[f] : f \in {g \in Filters : IsLeaf(g)}})' = UNION {Complete[f] : f \in {g \in Filters : IsLeaf(g)}}
      BY <2>6, <3>1
    <3>3. (UNION Range(out))' = UNION Range(Scrubbed)
      BY <2>1 DEF Range
    <3>4. QED
      BY <2>7, <3>2, <3>3 DEF OutputIsComplete
  <2>9. StartInv' /\ PathInv' /\ OutInv'
    BY <2>1 DEF StartInv, PathInv, OutInv
  <2>10. QED
    BY <2>3, <2>4, <2>8, <2>9 DEF Exact
<1>6. CASE UpdateScene
  <2>1. /\ cached' = cached /\ file' = file /\ drawn' = drawn /\ ~Running' /\ todo' = todo /\ starts' = starts
        /\ ended'.how # "done" /\ out' = [f \in Filters |-> {}] /\ ~Resting /\ ~Running
    BY <1>6 DEF UpdateScene, Running, Resting
  <2>2. todo = {} /\ starts = {}
    BY <1>0, <2>1 DEF AtRest
  <2>3. CacheInv'
    BY <1>0, <1>00, <2>1, CacheStep
  <2>4. QED
    BY <1>0, <2>1, <2>2, <2>3 DEF Exact, StartInv, PathInv, OutInv, OutLeaves, OutputIsComplete
<1>7. ASSUME NEW f \in Filters, Edit(f) \/ Restyle(f) \/ FileChanges(f) PROVE Exact'
  <2>1. CacheInv'
    BY <1>00, <1>7, EditKeepsCaches
  <2>2. Forget /\ Resting
    BY <1>7 DEF Edit, Restyle, FileChanges
  <2>3. /\ todo' = {} /\ starts' = {} /\ ~Running' /\ out' = out /\ ended'.how # "done"
    BY <1>0, <2>2 DEF Forget, AtRest, Resting, Running
  <2>4. QED
    BY <1>0, <1>00, <2>1, <2>3 DEF Exact, StartInv, PathInv, OutInv, OutLeaves, OutputIsComplete
<1>8. CASE UNCHANGED refreshVars
  <2>1. /\ cached' = cached /\ file' = file /\ drawn' = drawn /\ stamp' = stamp /\ todo' = todo /\ starts' = starts /\ base' = base
        /\ out' = out /\ ended' = ended /\ stack' = stack
    BY <1>8 DEF refreshVars
  <2>2. \A f \in Filters : Complete'[f] = Complete[f]
    BY <1>0, <2>1, CompleteLocal
  <2>3. CacheInv'
    <3>1. \A f \in Filters : Makes(f, Input(f))' = Makes(f, Input(f))
      BY <1>0, <2>1, MakesLocal
    <3>2. \A f \in Filters : (Resting /\ Stale(f))' <=> (Resting /\ Stale(f))
      BY <1>0, <2>1 DEF Resting, Stale, NeedsRefresh
    <3>3. QED
      BY <1>0, <1>00, <2>1, <3>1, <3>2 DEF CacheInv
  <2>4. StartInv'
    <3>1. SUFFICES ASSUME NEW b \in starts \cup (todo \cap {base}), above[b] # {} PROVE (Emitted[Parent(b)])' \subseteq Blocked(b)'
      BY <1>0, <2>1 DEF StartInv
    <3>2. b \in Filters /\ Emitted[Parent(b)] \subseteq Blocked(b)
      BY <1>0, <1>00, <3>1 DEF StartInv, TypeInv
    <3>3. Blocked(b)' = Blocked(b) /\ Parent(b)' = Parent(b)
      BY <1>0, <2>1 DEF Blocked, HaveCache, BlockMask, Parent
    <3>4. Parent(b) \in Filters
      BY <1>0, <3>1, <3>2, ParentFacts
    <3>5. Emitted'[Parent(b)] = Emitted[Parent(b)]
      BY <1>0, <2>1, <3>4, EmittedSame
    <3>6. QED
      BY <3>2, <3>3, <3>5
  <2>5. PathInv'
    <3>1. SUFFICES ASSUME todo # {} PROVE PathInv'
      BY <2>1 DEF PathInv
    <3>2. (above[Min(todo)] \cap Subtree(base))' = above[Min(todo)] \cap Subtree(base)
      BY <1>0, <2>1 DEF Min, Subtree, IsChild, Filters
    <3>3. ASSUME NEW a \in above[Min(todo)] \cap Subtree(base) PROVE (stack[Depth(a) - Depth(base) + 2] = Complete[a])'
      <4>1. stack[Depth(a) - Depth(base) + 2] = Complete[a]
        BY <1>00, <3>1 DEF PathInv
      <4>2. a \in Filters
        BY <1>0, <3>1 DEF Walk, Subtree, TypeInv
      <4>3. Depth(a)' = Depth(a) /\ Depth(base)' = Depth(base)
        BY <1>0, <2>1 DEF Depth
      <4>4. QED
        BY <2>1, <2>2, <4>1, <4>2, <4>3
    <3>4. QED
      BY <3>2, <3>3 DEF PathInv
  <2>6. OutInv' /\ OutLeaves'
    <3>1. Ahead' = Ahead /\ (Running' <=> Running)
      BY <1>0, <2>1 DEF Ahead, Running
    <3>2. QED
      BY <1>0, <1>00, <2>1, <2>2, <3>1 DEF OutInv, OutLeaves
  <2>7. OutputIsComplete'
    <3>1. (UNION {Complete[f] : f \in {g \in Filters : IsLeaf(g)}})' = UNION {Complete[f] : f \in {g \in Filters : IsLeaf(g)}}
      <4>1. {g \in Filters : IsLeaf(g)}' = {g \in Filters : IsLeaf(g)}
        BY <1>0
      <4>2. QED
        BY <2>2, <4>1
    <3>2. QED
      BY <1>00, <2>1, <3>1 DEF OutputIsComplete, Range
  <2>8. QED
    BY <2>3, <2>4, <2>5, <2>6, <2>7 DEF Exact
<1>9. QED
  BY <1>1, <1>2, <1>3, <1>4, <1>5, <1>6, <1>7, <1>8 DEF Next

-----------------------------------------------------------------------------
(* The theorems *)

\* Each part of the inductive invariant holds in every state: a step keeps it
\* because of those before it.
LEMMA RefreshInv == Spec => [](Control /\ Owned /\ Tidy /\ Exact)
<1>1. Init => Control /\ Owned /\ Tidy /\ Exact
  BY ControlInit, OwnedInit, TidyInit, ExactInit
<1>2. Control /\ Owned /\ Tidy /\ Exact /\ [Next]_refreshVars => (Control /\ Owned /\ Tidy /\ Exact)'
  BY ControlStep, OwnedStep, TidyStep, ExactStep
<1>3. QED
  BY <1>1, <1>2, PTL DEF Spec

\* What is not cached has one owner, which frees it once
\* (FilterRefreshCollector).
THEOREM SpecOneOwner == Spec => []OneOwner
<1>1. Control /\ Owned => OneOwner
  <2>1. SUFFICES ASSUME Control, Owned PROVE OneOwner
    OBVIOUS
  <2>2. TrackedOnce /\ nodes \in Seq(Range(nodes))
    BY <2>1 DEF Control, Owned, TypeInv
  <2>3. DOMAIN nodes = 1..Len(nodes)
    BY <2>2
  <2>4. \A i, j \in DOMAIN nodes : i # j => nodes[i] \cap nodes[j] = {}
    BY <2>2, <2>3 DEF TrackedOnce
  <2>5. \A s \in Tracked : \E i \in 1..Len(nodes) : s \in nodes[i]
    BY <2>2, RangeFacts DEF Tracked
  <2>6. out = [f \in Filters |-> out[f]]
    BY <2>1 DEF Control, TypeInv
  <2>7. \A s \in UNION Range(out) : \E f \in Filters : s \in out[f]
    BY <2>6 DEF Range
  <2>8. QED
    BY <2>2, <2>4, <2>5, <2>7 DEF TrackedOnce, OneOwner
<1>2. QED
  BY <1>1, RefreshInv, PTL

\* No stream is freed as long as a later filter, the output or the scene uses
\* it (FilterRefreshCollector, popPointerStack).
THEOREM SpecNothingUsedIsFreed == Spec => []NothingUsedIsFreed
<1>1. Control /\ Owned => NothingUsedIsFreed
  <2>1. SUFFICES ASSUME Control, Owned PROVE NothingUsedIsFreed
    OBVIOUS
  <2>2. UsedIsHeld /\ stack \in Seq(Range(stack)) /\ out = [f \in Filters |-> out[f]]
    BY <2>1 DEF Control, Owned, TypeInv
  <2>3. \A s \in UNION Range(stack) : \E i \in 1..Len(stack) : s \in stack[i]
    BY <2>2, RangeFacts
  <2>4. \A s \in UNION Range(out) : \E f \in Filters : s \in out[f]
    BY <2>2 DEF Range
  <2>5. ASSUME NEW s \in (UNION Range(stack)) \cup (UNION Range(out)) PROVE Held(s)
    <3>1. CASE s \in UNION Range(stack)
      <4>1. PICK i \in 1..Len(stack) : s \in stack[i]
        BY <2>3, <3>1
      <4>2. QED
        BY <2>2, <4>1 DEF UsedIsHeld
    <3>2. CASE s \in UNION Range(out)
      <4>1. PICK f \in Filters : s \in out[f]
        BY <2>4, <3>2
      <4>2. UsedIsHeld
        BY <2>2
      <4>3. QED
        BY <4>1, <4>2 DEF UsedIsHeld
    <3>3. QED
      BY <3>1, <3>2
  <2>6. QED
    BY <2>5 DEF Held, NothingUsedIsFreed
<1>2. QED
  BY <1>1, RefreshInv, PTL

\* The starts of a refresh reach every leaf, and none is below another
\* (getFilterRefreshStarts).
THEOREM SpecStartsCoverLeaves == Spec => []StartsCoverLeaves
<1>1. Control => StartsCoverLeaves
  BY StartsFacts DEF Control, TypeInv, StartsCoverLeaves
<1>2. QED
  BY <1>1, RefreshInv, PTL

\* Between refreshes nothing is left allocated but in a cache, or what the
\* collector drops of an inner filter with a sibling after it or loses of a
\* filter that was stopped (collectToLevel, refreshFilterTree).
THEOREM SpecLeakIsBounded == Spec => []LeakIsBounded
<1>1. Control /\ Tidy => LeakIsBounded
  BY DEF Control, Tidy, Accounted, AtRest, Dropped, Resting, Running, LeakIsBounded
<1>2. QED
  BY <1>1, RefreshInv, PTL

\* What a refresh delivers is what would come out if every filter ran on the
\* present files (refreshFilterTree).
THEOREM SpecOutputIsComplete == Spec => []OutputIsComplete
<1>1. Exact => OutputIsComplete
  BY DEF Exact
<1>2. QED
  BY <1>1, RefreshInv, PTL

=============================================================================

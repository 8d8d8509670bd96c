------------------------ MODULE UndoHistory_proofs -------------------------
(***************************************************************************)
(* Proofs about the undo and redo stacks, for every set of trees and every *)
(* cap MAX_UNDO_SIZE.                                                      *)
(***************************************************************************)
EXTENDS UndoHistory, SequenceTheorems, TLAPS

USE MaxUndoAssumption

-----------------------------------------------------------------------------
(* The operations on the deques *)

\* pop_back of a non-empty deque shortens it by one and moves no entry.
LEMMA PopBackFacts ==
    ASSUME NEW S, NEW s \in Seq(S), s # <<>>
    PROVE  /\ PopBack(s) \in Seq(S)
           /\ Len(PopBack(s)) = Len(s) - 1
           /\ \A i \in 1..(Len(s) - 1) : PopBack(s)[i] = s[i]
           /\ Back(s) \in S
<1>1. Len(s) \in Nat /\ Len(s) > 0
  BY EmptySeq, LenProperties
<1>2. \A i \in 1..Len(s) : s[i] \in S
  BY ElementOfSeq
<1>3. /\ PopBack(s) \in Seq(S)
      /\ Len(PopBack(s)) = IF 1 <= Len(s) - 1 THEN (Len(s) - 1) - 1 + 1 ELSE 0
      /\ \A i \in 1..((Len(s) - 1) - 1 + 1) : PopBack(s)[i] = s[1 + i - 1]
  BY <1>1, <1>2, SubSeqProperties DEF PopBack
<1>4. Len(PopBack(s)) = Len(s) - 1
  <2> DEFINE n == Len(s)
  <2>1. n \in Nat /\ n > 0
    BY <1>1
  <2>2. Len(PopBack(s)) = IF 1 <= n - 1 THEN (n - 1) - 1 + 1 ELSE 0
    BY <1>3
  <2> HIDE DEF n
  <2>3. Len(PopBack(s)) = n - 1
    BY <2>1, <2>2
  <2>4. QED
    BY <2>3 DEF n
<1>5. ASSUME NEW i \in 1..(Len(s) - 1) PROVE PopBack(s)[i] = s[i]
  <2>1. i \in 1..((Len(s) - 1) - 1 + 1) /\ 1 + i - 1 = i
    BY <1>1
  <2>2. QED
    BY <1>3, <2>1
<1>6. Back(s) \in S
  BY <1>1, <1>2 DEF Back
<1>7. QED
  BY <1>3, <1>4, <1>5, <1>6

\* pushUndoStack leaves a non-empty deque that ends in the tree in use and
\* whose other entries are those of the old deque, the oldest one gone when
\* the deque was over the cap.
LEMMA PushedFacts ==
    ASSUME TypeOK
    PROVE  /\ Pushed \in Seq(Trees)
           /\ Pushed # <<>>
           /\ Len(Pushed) = IF Len(undo) > MaxUndo THEN Len(undo) ELSE Len(undo) + 1
           /\ Pushed[Len(Pushed)] = tree
           /\ \A i \in 1..(Len(Pushed) - 1) :
                  Pushed[i] = IF Len(undo) > MaxUndo THEN undo[i + 1] ELSE undo[i]
<1>1. Len(undo) \in Nat /\ undo \in Seq(Trees) /\ tree \in Trees
  BY DEF TypeOK
<1>2. CASE Len(undo) > MaxUndo
  <2>1. undo # <<>>
    BY <1>1, <1>2
  <2>2. /\ Tail(undo) \in Seq(Trees)
        /\ Len(Tail(undo)) = Len(undo) - 1
        /\ \A i \in 1..Len(Tail(undo)) : Tail(undo)[i] = undo[i + 1]
    BY <1>1, <2>1, HeadTailProperties
  <2>3. Pushed = Append(Tail(undo), tree)
    BY <1>2 DEF Pushed
  <2>4. QED
    BY <1>1, <1>2, <2>2, <2>3, AppendProperties
<1>3. CASE ~(Len(undo) > MaxUndo)
  <2>1. Pushed = Append(undo, tree)
    BY <1>3 DEF Pushed
  <2>2. QED
    BY <1>1, <1>3, <2>1, AppendProperties
<1>4. QED
  BY <1>2, <1>3

\* The redo push of popUndoStack ends in the tree in use and keeps the deque
\* within the cap.
LEMMA RedoPushedFacts ==
    ASSUME TypeOK, NEW r \in Seq(Trees)
    PROVE  /\ RedoPushed(r) \in Seq(Trees)
           /\ Len(RedoPushed(r)) = IF Len(r) + 1 > MaxUndo THEN Len(r) ELSE Len(r) + 1
           /\ \A i \in 1..Len(RedoPushed(r)) :
                  RedoPushed(r)[i] =
                      IF Len(r) + 1 > MaxUndo
                      THEN Append(r, tree)[i + 1] ELSE Append(r, tree)[i]
<1>1. Len(r) \in Nat /\ tree \in Trees
  BY DEF TypeOK
<1>2. /\ Append(r, tree) \in Seq(Trees)
      /\ Append(r, tree) # <<>>
      /\ Len(Append(r, tree)) = Len(r) + 1
  BY <1>1, AppendProperties
<1>3. /\ Tail(Append(r, tree)) \in Seq(Trees)
      /\ Len(Tail(Append(r, tree))) = Len(r)
      /\ \A i \in 1..Len(r) : Tail(Append(r, tree))[i] = Append(r, tree)[i + 1]
  BY <1>1, <1>2, HeadTailProperties
<1>4. QED
  BY <1>1, <1>2, <1>3 DEF RedoPushed

-----------------------------------------------------------------------------
(* The inductive invariant *)

\* The cap TypeOK puts on the undo stack is not inductive: popRedoStack pushes
\* without trimming.  It holds because every entry of the redo stack was
\* taken from the undo stack, which is what HistoryBounded records.
IInv == TypeOK /\ HistoryBounded

\* Every operation keeps both caps.
LEMMA Inductive == IInv /\ [Next]_vars => IInv'
<1> SUFFICES ASSUME TypeOK, HistoryBounded, [Next]_vars
             PROVE  TypeOK' /\ HistoryBounded'
  BY DEF IInv
<1>a. /\ tree \in Trees
      /\ undo \in Seq(Trees) /\ Len(undo) \in Nat /\ Len(undo) <= MaxUndo + 1
      /\ redo \in Seq(Trees) /\ Len(redo) \in Nat /\ Len(redo) <= MaxUndo
      /\ Len(undo) + Len(redo) <= MaxUndo + 1
  BY LenProperties DEF TypeOK, HistoryBounded
<1>b. <<>> \in Seq(Trees) /\ Len(<<>>) = 0
  BY EmptySeq
<1>1. ASSUME NEW t \in Trees, Edit(t) PROVE TypeOK' /\ HistoryBounded'
  BY <1>1, <1>a, <1>b, PushedFacts DEF Edit, PushUndoStack, TypeOK, HistoryBounded
<1>2. ASSUME NEW t \in Trees, Unrecorded(t) PROVE TypeOK' /\ HistoryBounded'
  BY <1>2, <1>a DEF Unrecorded, TypeOK, HistoryBounded
<1>3. ASSUME NEW t \in Trees, Load(t) PROVE TypeOK' /\ HistoryBounded'
  BY <1>3, <1>b DEF Load, TypeOK, HistoryBounded
<1>4. CASE RefusedCopy
  BY <1>4, <1>a, <1>b, PushedFacts DEF RefusedCopy, PushUndoStack, TypeOK, HistoryBounded
<1>5. CASE RefusedEdit
  <2>1. undo' \in Seq(Trees) /\ Len(undo') = Len(Pushed) - 1
    BY <1>5, PushedFacts, PopBackFacts DEF RefusedEdit
  <2>2. ASSUME NEW r \in Seq(Trees), Len(r) = 0
        PROVE  RedoPushed(r) \in Seq(Trees) /\ Len(RedoPushed(r)) = 1
    <3>1. Len(RedoPushed(r)) = IF Len(r) + 1 > MaxUndo THEN Len(r) ELSE Len(r) + 1
      BY RedoPushedFacts
    <3>2. ~(Len(r) + 1 > MaxUndo)
      BY <2>2
    <3>3. Len(RedoPushed(r)) = 1
      BY <2>2, <3>1, <3>2
    <3>4. QED
      BY <3>3, RedoPushedFacts
  <2>3. redo' \in Seq(Trees) /\ Len(redo') = 1
    BY <1>5, <1>b, <2>2 DEF RefusedEdit
  <2>4. Len(undo') \in Nat /\ Len(undo') <= MaxUndo
    <3>1. Len(Pushed) = IF Len(undo) > MaxUndo THEN Len(undo) ELSE Len(undo) + 1
      BY PushedFacts
    <3>2. Len(Pushed) \in Nat \ {0} /\ Len(Pushed) <= MaxUndo + 1
      BY <1>a, <3>1
    <3>3. QED
      BY <2>1, <3>2
  <2>5. Len(redo') <= MaxUndo /\ Len(undo') + Len(redo') <= MaxUndo + 1
    BY <2>3, <2>4
  <2>6. tree' \in Trees
    BY <1>5, <1>a DEF RefusedEdit
  <2>7. TypeOK'
    <3>1. Len(undo') <= MaxUndo + 1
      BY <2>4
    <3>2. QED
      BY <2>1, <2>3, <2>5, <2>6, <3>1 DEF TypeOK
  <2>8. HistoryBounded'
    BY <2>5 DEF HistoryBounded
  <2>9. QED
    BY <2>7, <2>8
<1>6. CASE Undo
  <2>1. undo' \in Seq(Trees) /\ Len(undo') = Len(undo) - 1 /\ tree' \in Trees
    BY <1>6, <1>a, PopBackFacts DEF Undo
  <2>2. /\ redo' \in Seq(Trees)
        /\ Len(redo') = IF Len(redo) + 1 > MaxUndo THEN Len(redo) ELSE Len(redo) + 1
    BY <1>6, <1>a, RedoPushedFacts DEF Undo
  <2>3. QED
    BY <1>a, <2>1, <2>2 DEF TypeOK, HistoryBounded
<1>7. CASE Redo
  <2>1. redo' \in Seq(Trees) /\ Len(redo') = Len(redo) - 1 /\ tree' \in Trees
    BY <1>7, <1>a, PopBackFacts DEF Redo
  <2>2. undo' \in Seq(Trees) /\ Len(undo') = Len(undo) + 1
    BY <1>7, <1>a, AppendProperties DEF Redo
  <2>3. Len(redo) > 0
    BY <1>7, <1>a, EmptySeq DEF Redo
  <2>4. QED
    BY <1>a, <2>1, <2>2, <2>3 DEF TypeOK, HistoryBounded
<1>8. CASE UNCHANGED vars
  BY <1>8, <1>a DEF vars, TypeOK, HistoryBounded
<1>9. QED
  BY <1>1, <1>2, <1>3, <1>4, <1>5, <1>6, <1>7, <1>8 DEF Next

\* So they hold throughout.
LEMMA Invariance == Spec => []IInv
<1>1. Init => IInv
  BY EmptySeq DEF Init, IInv, TypeOK, HistoryBounded
<1>2. QED
  BY <1>1, Inductive, PTL DEF Spec

\* The stacks only ever hold filter trees, and each stays within its cap.
THEOREM TypeCorrect == Spec => []TypeOK
<1>1. IInv => TypeOK
  BY DEF IInv
<1>2. QED
  BY <1>1, Invariance, PTL

\* However long the session, undo and redo together keep at most one tree
\* more than MAX_UNDO_SIZE alive.
THEOREM BoundedHistory == Spec => []HistoryBounded
<1>1. IInv => HistoryBounded
  BY DEF IInv
<1>2. QED
  BY <1>1, Invariance, PTL

\* The ASSERT of popRedoStack never fires: an available redo implies that
\* the undo stack is at most MAX_UNDO_SIZE deep.
THEOREM RedoAssertionHolds == Spec => []RedoHasRoom
<1>1. IInv => RedoHasRoom
  BY EmptySeq DEF IInv, TypeOK, HistoryBounded, RedoHasRoom
<1>2. QED
  BY <1>1, Invariance, PTL
-----------------------------------------------------------------------------
(* The refinement *)

\* Timeline, for any two deques and any tree between them.
Line(u, t, r) ==
    [i \in 1..(Len(u) + 1 + Len(r)) |->
        IF i <= Len(u) THEN u[i]
        ELSE IF i = Len(u) + 1 THEN t
        ELSE r[Len(u) + Len(r) + 2 - i]]

\* The lengths and the entries of such a line, by its three parts.
LEMMA LineFacts ==
    ASSUME NEW u \in Seq(Trees), NEW t \in Trees, NEW r \in Seq(Trees)
    PROVE  /\ Line(u, t, r) \in Seq(Trees)
           /\ Len(u) \in Nat /\ Len(r) \in Nat
           /\ Len(Line(u, t, r)) = Len(u) + 1 + Len(r)
           /\ \A i \in 1..Len(u) : Line(u, t, r)[i] = u[i]
           /\ Line(u, t, r)[Len(u) + 1] = t
           /\ \A i \in (Len(u) + 2)..(Len(u) + 1 + Len(r)) :
                  Line(u, t, r)[i] = r[Len(u) + Len(r) + 2 - i]
<1> DEFINE n == Len(u) + 1 + Len(r)
<1>1. Len(u) \in Nat /\ Len(r) \in Nat /\ n \in Nat
  BY LenProperties
<1>2. \A i \in 1..Len(u) : u[i] \in Trees
  BY ElementOfSeq
<1>3. \A i \in 1..Len(r) : r[i] \in Trees
  BY ElementOfSeq
<1>4. ASSUME NEW i \in 1..n PROVE Line(u, t, r)[i] \in Trees
  <2>1. CASE i <= Len(u)
    BY <1>1, <1>2, <2>1 DEF Line
  <2>2. CASE i = Len(u) + 1
    BY <1>1, <2>2 DEF Line
  <2>3. CASE i > Len(u) + 1
    <3>1. Len(u) + Len(r) + 2 - i \in 1..Len(r)
      BY <1>1, <2>3
    <3>2. Line(u, t, r)[i] = r[Len(u) + Len(r) + 2 - i]
      BY <1>1, <2>3 DEF Line
    <3>3. QED
      BY <1>3, <3>1, <3>2
  <2>4. QED
    BY <1>1, <2>1, <2>2, <2>3
<1>5. Line(u, t, r) \in [1..n -> Trees]
  BY <1>4 DEF Line
<1>6. Line(u, t, r) \in Seq(Trees) /\ Len(Line(u, t, r)) = n
  BY <1>1, <1>5
<1>7. QED
  BY <1>1, <1>6 DEF Line

\* The time line is such a line, before and after a step.
LEMMA TimelineIsLine ==
    /\ Timeline = Line(undo, tree, redo)
    /\ Timeline' = Line(undo', tree', redo')
BY DEF Timeline, Line

\* The entries before a step.
LEMMA TimelineFacts ==
    ASSUME TypeOK
    PROVE  /\ Timeline \in Seq(Trees)
           /\ Len(undo) \in Nat /\ Len(redo) \in Nat
           /\ Len(Timeline) = Len(undo) + 1 + Len(redo)
           /\ \A i \in 1..Len(undo) : Timeline[i] = undo[i]
           /\ Timeline[Len(undo) + 1] = tree
           /\ \A i \in (Len(undo) + 2)..(Len(undo) + 1 + Len(redo)) :
                  Timeline[i] = redo[Len(undo) + Len(redo) + 2 - i]
<1> DEFINE K == Line(undo, tree, redo)
<1>1. undo \in Seq(Trees) /\ redo \in Seq(Trees) /\ tree \in Trees
  BY DEF TypeOK
<1>2. K \in Seq(Trees) /\ Len(undo) \in Nat /\ Len(redo) \in Nat
  BY <1>1, LineFacts
<1>3. Len(K) = Len(undo) + 1 + Len(redo)
  BY <1>1, LineFacts
<1>4. ASSUME NEW i \in 1..Len(undo) PROVE K[i] = undo[i]
  BY <1>1, LineFacts
<1>5. K[Len(undo) + 1] = tree
  BY <1>1, LineFacts
<1>6. ASSUME NEW i \in (Len(undo) + 2)..(Len(undo) + 1 + Len(redo))
      PROVE  K[i] = redo[Len(undo) + Len(redo) + 2 - i]
  BY <1>1, LineFacts
<1>7. Timeline = K
  BY TimelineIsLine
<1> HIDE DEF K
<1>8. QED
  BY <1>2, <1>3, <1>4, <1>5, <1>6, <1>7

\* The entries after a step, for the lengths it leaves.
LEMMA NewTimelineFacts ==
    ASSUME undo' \in Seq(Trees), tree' \in Trees, redo' \in Seq(Trees),
           NEW m \in Nat, NEW k \in Nat, Len(undo') = m, Len(redo') = k
    PROVE  /\ Timeline' \in Seq(Trees)
           /\ Len(Timeline') = m + 1 + k
           /\ \A i \in 1..m : Timeline'[i] = undo'[i]
           /\ Timeline'[m + 1] = tree'
           /\ \A i \in (m + 2)..(m + 1 + k) : Timeline'[i] = redo'[m + k + 2 - i]
<1> DEFINE u == undo'
           t == tree'
           r == redo'
           K == Line(u, t, r)
<1>1. u \in Seq(Trees) /\ r \in Seq(Trees) /\ t \in Trees
  OBVIOUS
<1>2. Len(u) = m /\ Len(r) = k /\ Timeline' = K
  BY TimelineIsLine
<1> HIDE DEF u, t, r
<1>3. K \in Seq(Trees)
  BY <1>1, LineFacts
<1>4. Len(K) = Len(u) + 1 + Len(r)
  BY <1>1, LineFacts
<1>5. ASSUME NEW i \in 1..Len(u) PROVE K[i] = u[i]
  BY <1>1, LineFacts
<1>6. K[Len(u) + 1] = t
  BY <1>1, LineFacts
<1>7. ASSUME NEW i \in (Len(u) + 2)..(Len(u) + 1 + Len(r))
      PROVE  K[i] = r[Len(u) + Len(r) + 2 - i]
  BY <1>1, LineFacts
<1> HIDE DEF K
<1>8. Len(K) = m + 1 + k /\ K[m + 1] = t
  BY <1>2, <1>4, <1>6
<1>9. ASSUME NEW i \in 1..m PROVE K[i] = u[i]
  BY <1>2, <1>5
<1>10. ASSUME NEW i \in (m + 2)..(m + 1 + k) PROVE K[i] = r[m + k + 2 - i]
  BY <1>2, <1>7
<1>11. QED
  BY <1>2, <1>3, <1>8, <1>9, <1>10 DEF u, t, r

\* What a move of the user discards: the entries up to the cursor, without the
\* oldest ones.
LEMMA PastFacts ==
    ASSUME TypeOK, NEW f \in {0, 1}, f <= Len(undo)
    PROVE  /\ History!Past(f) \in Seq(Trees)
           /\ Len(History!Past(f)) = Len(undo) + 1 - f
           /\ \A i \in 1..(Len(undo) - f) : History!Past(f)[i] = undo[i + f]
           /\ History!Past(f)[Len(undo) + 1 - f] = tree
<1>1. undo \in Seq(Trees) /\ redo \in Seq(Trees) /\ tree \in Trees /\ Len(undo) \in Nat
  BY LenProperties DEF TypeOK
<1> DEFINE n == Len(undo)
           L == Timeline
<1>2. /\ L \in Seq(Trees)
      /\ Len(L) >= n + 1 /\ Len(L) \in Nat
      /\ \A i \in 1..n : L[i] = undo[i]
      /\ L[n + 1] = tree
  <2> DEFINE K == Line(undo, tree, redo)
  <2>1. /\ K \in Seq(Trees)
        /\ Len(redo) \in Nat
        /\ Len(K) = n + 1 + Len(redo)
        /\ \A i \in 1..n : K[i] = undo[i]
        /\ K[n + 1] = tree
    BY <1>1, LineFacts
  <2>2. L = K
    BY TimelineIsLine
  <2> HIDE DEF K, L
  <2>3. Len(L) >= n + 1 /\ Len(L) \in Nat
    BY <1>1, <2>1, <2>2
  <2>4. QED
    BY <2>1, <2>2, <2>3
<1>3. History!Past(f) = SubSeq(L, 1 + f, n + 1)
  BY DEF History!Past
<1>4. n \in Nat /\ f \in Int
  BY <1>1
<1> HIDE DEF L, n
<1>5. \A i \in (1 + f)..(n + 1) : L[i] \in Trees
  <2>1. \A i \in 1..Len(L) : L[i] \in Trees
    BY <1>2, ElementOfSeq
  <2>2. QED
    BY <1>2, <1>4, <2>1
<1>6. /\ SubSeq(L, 1 + f, n + 1) \in Seq(Trees)
      /\ Len(SubSeq(L, 1 + f, n + 1)) = IF 1 + f <= n + 1 THEN (n + 1) - (1 + f) + 1 ELSE 0
      /\ \A i \in 1..((n + 1) - (1 + f) + 1) : SubSeq(L, 1 + f, n + 1)[i] = L[(1 + f) + i - 1]
  <2>1. 1 + f \in Int /\ n + 1 \in Int
    BY <1>4
  <2>2. QED
    BY <1>5, <2>1, SubSeqProperties
<1>7. f <= n
  BY DEF n
<1>8. Len(SubSeq(L, 1 + f, n + 1)) = n + 1 - f
  BY <1>4, <1>6, <1>7
<1>9. ASSUME NEW i \in 1..(n + 1 - f) PROVE SubSeq(L, 1 + f, n + 1)[i] = L[i + f]
  <2>1. i \in 1..((n + 1) - (1 + f) + 1) /\ (1 + f) + i - 1 = i + f
    BY <1>4
  <2>2. QED
    BY <1>6, <2>1
<1>10. \A i \in 1..(n - f) : SubSeq(L, 1 + f, n + 1)[i] = undo[i + f]
  <2>1. ASSUME NEW i \in 1..(n - f) PROVE SubSeq(L, 1 + f, n + 1)[i] = undo[i + f]
    <3>1. i \in 1..(n + 1 - f) /\ i + f \in 1..n
      BY <1>4
    <3>2. QED
      BY <1>2, <1>9, <3>1
  <2>2. QED
    BY <2>1
<1>11. SubSeq(L, 1 + f, n + 1)[n + 1 - f] = tree
  <2>1. n + 1 - f \in 1..(n + 1 - f) /\ (n + 1 - f) + f = n + 1
    BY <1>4, <1>7
  <2>2. QED
    BY <1>2, <1>9, <2>1
<1>12. QED
  BY <1>3, <1>6, <1>8, <1>10, <1>11 DEF n
\* Two time lines of the same length and with the same entries are the same.
LEMMA SameLine ==
    ASSUME NEW K \in Seq(Trees), NEW L \in Seq(Trees), NEW m \in Nat,
           Len(K) = m, Len(L) = m, \A i \in 1..m : K[i] = L[i]
    PROVE  K = L
BY SeqEqual

\* An edit, and a copy that the tree refuses, are recorded.
LEMMA EditRecords ==
    ASSUME TypeOK, HistoryBounded, NEW t \in Trees, tree' = t, PushUndoStack
    PROVE  History!Record(t)
<1> DEFINE f == IF Len(undo) > MaxUndo THEN 1 ELSE 0
           n == Len(undo)
           P == History!Past(f)
<1>1. n \in Nat /\ undo \in Seq(Trees) /\ f \in {0, 1} /\ f <= n
  BY LenProperties DEF TypeOK
<1>2. /\ Pushed \in Seq(Trees)
      /\ Len(Pushed) = n + 1 - f
      /\ Pushed[n + 1 - f] = tree
      /\ \A i \in 1..(n - f) : Pushed[i] = undo[i + f]
  <2>1. CASE n > MaxUndo
    <3>1. f = 1 /\ Len(Pushed) = n /\ n + 1 - f = n
      BY <1>1, <2>1, PushedFacts
    <3>2. \A i \in 1..(n - 1) : Pushed[i] = undo[i + 1]
      BY <1>1, <2>1, <3>1, PushedFacts
    <3>3. QED
      BY <1>1, <3>1, <3>2, PushedFacts
  <2>2. CASE ~(n > MaxUndo)
    <3>1. f = 0 /\ Len(Pushed) = n + 1 /\ n + 1 - f = n + 1
      BY <1>1, <2>2, PushedFacts
    <3>2. \A i \in 1..n : Pushed[i] = undo[i + 0]
      BY <1>1, <2>2, <3>1, PushedFacts
    <3>3. QED
      BY <1>1, <3>1, <3>2, PushedFacts
  <2>3. QED
    BY <2>1, <2>2
<1>3. /\ P \in Seq(Trees)
      /\ Len(P) = n + 1 - f
      /\ \A i \in 1..(n - f) : P[i] = undo[i + f]
      /\ P[n + 1 - f] = tree
  BY <1>1, PastFacts
<1> HIDE DEF f, n, P
<1>4. P = Pushed
  <2>1. n + 1 - f \in Nat
    BY <1>1
  <2>2. ASSUME NEW i \in 1..(n + 1 - f) PROVE P[i] = Pushed[i]
    <3>1. i \in 1..(n - f) \/ i = n + 1 - f
      BY <1>1
    <3>2. QED
      BY <1>2, <1>3, <3>1
  <2>3. QED
    BY <1>2, <1>3, <2>1, <2>2, SameLine
<1>5. undo' = Pushed /\ redo' = <<>>
  BY DEF PushUndoStack
<1>6. Timeline' = Append(Pushed, t)
  <2> DEFINE K == Timeline'
             L == Append(Pushed, t)
             m == Len(Pushed)
  <2>1. m \in Nat /\ m + 1 \in Nat
    BY <1>1, <1>2
  <2>2. undo' \in Seq(Trees) /\ Len(undo') = m /\ redo' \in Seq(Trees) /\ Len(redo') = 0
    BY <1>2, <1>5, EmptySeq
  <2>3. /\ L \in Seq(Trees)
        /\ Len(L) = m + 1
        /\ \A i \in 1..m : L[i] = Pushed[i]
        /\ L[m + 1] = t
    BY <1>2, AppendProperties
  <2> HIDE DEF L, m
  <2>4. /\ K \in Seq(Trees)
        /\ Len(K) = m + 1 + 0
        /\ \A i \in 1..m : K[i] = undo'[i]
        /\ K[m + 1] = tree'
    <3>1. ASSUME NEW k \in Nat, Len(redo') = k
          PROVE  /\ K \in Seq(Trees)
                 /\ Len(K) = m + 1 + k
                 /\ \A i \in 1..m : K[i] = undo'[i]
                 /\ K[m + 1] = tree'
      BY <2>1, <2>2, <3>1, NewTimelineFacts
    <3>2. QED
      BY <2>2, <3>1
  <2> HIDE DEF K
  <2>5. ASSUME NEW i \in 1..(m + 1) PROVE K[i] = L[i]
    <3>1. i \in 1..m \/ i = m + 1
      BY <2>1
    <3>2. QED
      BY <1>5, <2>3, <2>4, <3>1
  <2>6. Len(K) = m + 1
    BY <2>1, <2>4
  <2>7. K = L
    BY <2>1, <2>3, <2>4, <2>5, <2>6, SameLine
  <2>8. QED
    BY <2>7 DEF K, L
<1>7. Len(undo') + 1 = (n + 1) + 1 - f
  BY <1>1, <1>2, <1>5
<1>8. Timeline' = Append(History!Past(f), t)
  BY <1>4, <1>6 DEF P
<1>9. QED
  BY <1>1, <1>7, <1>8 DEF History!Record, n
\* A refused edit replaces the future by a copy of the present.
LEMMA RefusedEditRefuses ==
    ASSUME TypeOK, HistoryBounded, RefusedEdit
    PROVE  History!Refuse
<1> DEFINE f == IF Len(undo) > MaxUndo THEN 1 ELSE 0
           n == Len(undo)
           P == History!Past(f)
<1>1. n \in Nat /\ undo \in Seq(Trees) /\ f \in {0, 1} /\ f <= n /\ tree \in Trees
  BY LenProperties DEF TypeOK
<1>2. undo' = PopBack(Pushed) /\ redo' = RedoPushed(<<>>) /\ tree' = tree
  BY DEF RefusedEdit
<1>3. /\ PopBack(Pushed) \in Seq(Trees)
      /\ Len(PopBack(Pushed)) = n - f
      /\ \A i \in 1..(n - f) : PopBack(Pushed)[i] = undo[i + f]
  <2>1. /\ PopBack(Pushed) \in Seq(Trees)
        /\ Len(PopBack(Pushed)) = Len(Pushed) - 1
        /\ \A i \in 1..(Len(Pushed) - 1) : PopBack(Pushed)[i] = Pushed[i]
    BY PushedFacts, PopBackFacts
  <2>2. CASE n > MaxUndo
    <3>1. f = 1 /\ Len(Pushed) = n
      BY <1>1, <2>2, PushedFacts
    <3>2. \A i \in 1..(n - 1) : Pushed[i] = undo[i + 1]
      BY <1>1, <2>2, <3>1, PushedFacts
    <3>3. QED
      BY <1>1, <2>1, <3>1, <3>2
  <2>3. CASE ~(n > MaxUndo)
    <3>1. f = 0 /\ Len(Pushed) = n + 1 /\ Len(Pushed) - 1 = n /\ n - f = n
      BY <1>1, <2>3, PushedFacts
    <3>2. \A i \in 1..n : Pushed[i] = undo[i + 0]
      BY <1>1, <2>3, <3>1, PushedFacts
    <3>3. QED
      BY <1>1, <2>1, <3>1, <3>2
  <2>4. QED
    BY <2>2, <2>3
<1>4. redo' \in Seq(Trees) /\ Len(redo') = 1 /\ redo'[1] = tree
  <2>1. ASSUME NEW r \in Seq(Trees), Len(r) = 0
        PROVE  RedoPushed(r) \in Seq(Trees) /\ Len(RedoPushed(r)) = 1 /\ RedoPushed(r)[1] = tree
    <3>1. ~(Len(r) + 1 > MaxUndo)
      BY <2>1
    <3>2. RedoPushed(r) = Append(r, tree)
      BY <3>1 DEF RedoPushed
    <3>3. QED
      BY <1>1, <2>1, <3>2, AppendProperties
  <2>2. QED
    BY <1>2, <2>1, EmptySeq
<1>5. /\ P \in Seq(Trees)
      /\ Len(P) = n + 1 - f
      /\ \A i \in 1..(n - f) : P[i] = undo[i + f]
      /\ P[n + 1 - f] = tree
  BY <1>1, PastFacts
<1>6. Timeline[n + 1] = tree
  BY <1>1, LineFacts, TimelineIsLine DEF TypeOK
<1> DEFINE K == Timeline'
           L == Append(P, tree)
           m == n - f
<1>7. m \in Nat
  BY <1>1
<1> HIDE DEF f, n, P
<1>8. /\ K \in Seq(Trees)
      /\ Len(K) = m + 2
      /\ \A i \in 1..m : K[i] = undo[i + f]
      /\ K[m + 1] = tree
      /\ K[m + 2] = tree
  <2>1. /\ undo' \in Seq(Trees) /\ tree' \in Trees /\ redo' \in Seq(Trees)
        /\ Len(undo') = m /\ Len(redo') = 1 /\ 1 \in Nat
    BY <1>1, <1>2, <1>3, <1>4
  <2> HIDE DEF m
  <2>2. /\ K \in Seq(Trees)
        /\ Len(K) = m + 1 + 1
        /\ \A i \in 1..m : K[i] = undo'[i]
        /\ K[m + 1] = tree'
        /\ \A i \in (m + 2)..(m + 1 + 1) : K[i] = redo'[m + 1 + 2 - i]
    BY <1>7, <2>1, NewTimelineFacts
  <2> HIDE DEF K
  <2>3. m + 2 \in (m + 2)..(m + 1 + 1) /\ m + 1 + 2 - (m + 2) = 1 /\ m + 1 + 1 = m + 2
    BY <1>7
  <2>4. \A i \in 1..m : undo'[i] = undo[i + f]
    BY <1>2, <1>3 DEF m
  <2>5. QED
    BY <1>2, <1>4, <2>2, <2>3, <2>4
<1>9. /\ L \in Seq(Trees)
      /\ Len(L) = m + 2
      /\ \A i \in 1..m : L[i] = undo[i + f]
      /\ L[m + 1] = tree
      /\ L[m + 2] = tree
  <2>1. /\ L \in Seq(Trees)
        /\ Len(L) = Len(P) + 1
        /\ \A i \in 1..Len(P) : L[i] = P[i]
        /\ L[Len(P) + 1] = tree
    BY <1>1, <1>5, AppendProperties
  <2>2. Len(P) = m + 1 /\ m + 1 = n + 1 - f
    BY <1>1, <1>5
  <2> HIDE DEF L, m
  <2>3. Len(L) = m + 2 /\ L[m + 2] = tree
    BY <1>7, <2>1, <2>2
  <2>4. L[m + 1] = P[m + 1]
    BY <1>7, <2>1, <2>2
  <2>5. ASSUME NEW i \in 1..m PROVE L[i] = undo[i + f]
    <3>1. i \in 1..Len(P)
      BY <1>7, <2>2
    <3>2. QED
      BY <1>5, <2>1, <3>1 DEF m
  <2>6. QED
    BY <1>5, <2>1, <2>2, <2>3, <2>4, <2>5
<1>10. K = L
  <2> HIDE DEF K, L, m
  <2>1. m + 2 \in Nat
    BY <1>7
  <2>2. ASSUME NEW i \in 1..(m + 2) PROVE K[i] = L[i]
    <3>1. i \in 1..m \/ i = m + 1 \/ i = m + 2
      BY <1>7
    <3>2. QED
      BY <1>8, <1>9, <3>1
  <2>3. QED
    BY <1>8, <1>9, <2>1, <2>2, SameLine
<1>11. Len(undo') + 1 = n + 1 - f /\ f < n + 1
  BY <1>1, <1>2, <1>3 DEF f
<1>12. Timeline' = Append(History!Past(f), Timeline[n + 1])
  BY <1>6, <1>10 DEF P
<1>13. QED
  BY <1>1, <1>11, <1>12 DEF History!Refuse, n
\* Undo moves back, and drops the newest entry when the redo deque is full.
LEMMA UndoMovesBack ==
    ASSUME TypeOK, HistoryBounded, Undo
    PROVE  History!Back
<1> DEFINE n == Len(undo)
           q == Len(redo)
           d == IF q + 1 > MaxUndo THEN 1 ELSE 0
           K == Timeline'
           T == Timeline
           kept == n + 1 + q - d
<1>1. /\ n \in Nat \ {0} /\ q \in Nat /\ d \in {0, 1}
      /\ undo \in Seq(Trees) /\ redo \in Seq(Trees) /\ tree \in Trees
  BY LenProperties, EmptySeq DEF TypeOK, Undo
<1>2. kept >= n + 1 /\ kept \in Nat
  BY <1>1
<1>3. /\ undo' \in Seq(Trees) /\ Len(undo') = n - 1 /\ n - 1 \in Nat
      /\ tree' = undo[n] /\ tree' \in Trees
      /\ \A i \in 1..(n - 1) : undo'[i] = undo[i]
  BY <1>1, PopBackFacts DEF Undo, Back
<1>4. /\ redo' \in Seq(Trees) /\ Len(redo') = q + 1 - d /\ q + 1 - d \in Nat
      /\ \A i \in 1..(q + 1 - d) : redo'[i] = Append(redo, tree)[i + d]
  <2>1. redo' = RedoPushed(redo)
    BY DEF Undo
  <2>2. CASE q + 1 > MaxUndo
    <3>1. d = 1 /\ Len(redo') = q
      BY <1>1, <2>1, <2>2, RedoPushedFacts
    <3>2. ASSUME NEW i \in 1..Len(redo') PROVE redo'[i] = Append(redo, tree)[i + 1]
      BY <1>1, <2>1, <2>2, RedoPushedFacts
    <3>3. redo' \in Seq(Trees)
      BY <1>1, <2>1, RedoPushedFacts
    <3> HIDE DEF d, q
    <3>4. q + 1 - d = q /\ q + 1 - d \in Nat
      BY <1>1, <3>1
    <3>5. \A i \in 1..(q + 1 - d) : redo'[i] = Append(redo, tree)[i + d]
      BY <3>1, <3>2, <3>4
    <3>6. QED
      BY <3>1, <3>3, <3>4, <3>5
  <2>3. CASE ~(q + 1 > MaxUndo)
    <3>1. d = 0 /\ Len(redo') = q + 1
      BY <1>1, <2>1, <2>3, RedoPushedFacts
    <3>2. \A i \in 1..(q + 1) : redo'[i] = Append(redo, tree)[i]
      BY <1>1, <2>1, <2>3, <3>1, RedoPushedFacts
    <3>3. redo' \in Seq(Trees)
      BY <1>1, <2>1, RedoPushedFacts
    <3>4. QED
      BY <1>1, <3>1, <3>2, <3>3
  <2>4. QED
    BY <2>2, <2>3
<1>5. /\ \A i \in 1..q : Append(redo, tree)[i] = redo[i]
      /\ Append(redo, tree)[q + 1] = tree
  BY <1>1, AppendProperties
<1>6. /\ T \in Seq(Trees)
      /\ Len(T) = n + 1 + q
      /\ \A i \in 1..n : T[i] = undo[i]
      /\ T[n + 1] = tree
      /\ \A i \in (n + 2)..(n + 1 + q) : T[i] = redo[n + q + 2 - i]
  BY TimelineFacts
<1> HIDE DEF n, q, d
<1>7. /\ K \in Seq(Trees)
      /\ Len(K) = (n - 1) + 1 + (q + 1 - d)
      /\ \A i \in 1..(n - 1) : K[i] = undo'[i]
      /\ K[(n - 1) + 1] = tree'
      /\ \A i \in ((n - 1) + 2)..((n - 1) + 1 + (q + 1 - d)) :
             K[i] = redo'[(n - 1) + (q + 1 - d) + 2 - i]
  <2> DEFINE m == n - 1
             k == q + 1 - d
  <2>1. m \in Nat /\ k \in Nat /\ Len(undo') = m /\ Len(redo') = k
    BY <1>3, <1>4
  <2> HIDE DEF m, k
  <2>2. /\ K \in Seq(Trees)
        /\ Len(K) = m + 1 + k
        /\ \A i \in 1..m : K[i] = undo'[i]
        /\ K[m + 1] = tree'
        /\ \A i \in (m + 2)..(m + 1 + k) : K[i] = redo'[m + k + 2 - i]
    BY <1>3, <1>4, <2>1, NewTimelineFacts
  <2>3. QED
    BY <2>2 DEF m, k
<1> HIDE DEF K, T, kept
<1>8. Len(K) = kept /\ kept <= Len(T)
  BY <1>1, <1>6, <1>7 DEF kept
<1>9. ASSUME NEW i \in 1..kept PROVE K[i] = T[i]
  <2>1. CASE i < n
    <3>1. i \in 1..(n - 1) /\ i \in 1..n
      BY <1>1, <2>1
    <3>2. QED
      BY <1>3, <1>6, <1>7, <3>1
  <2>2. CASE i = n
    <3>1. (n - 1) + 1 = n /\ n \in 1..n
      BY <1>1
    <3>2. QED
      BY <1>3, <1>6, <1>7, <2>2, <3>1
  <2>3. CASE i > n
    <3>1. i \in ((n - 1) + 2)..((n - 1) + 1 + (q + 1 - d))
      BY <1>1, <2>3 DEF kept
    <3>2. (n - 1) + (q + 1 - d) + 2 - i = n + q + 2 - d - i
      BY <1>1
    <3>3. n + q + 2 - d - i \in 1..(q + 1 - d) /\ (n + q + 2 - d - i) + d = n + q + 2 - i
      BY <1>1, <2>3 DEF kept
    <3>4. K[i] = Append(redo, tree)[n + q + 2 - i]
      BY <1>4, <1>7, <3>1, <3>2, <3>3
    <3>5. CASE i = n + 1
      <4>1. n + q + 2 - i = q + 1
        BY <1>1, <3>5
      <4>2. QED
        BY <1>5, <1>6, <3>4, <3>5, <4>1
    <3>6. CASE i > n + 1
      <4>1. n + q + 2 - i \in 1..q /\ i \in (n + 2)..(n + 1 + q)
        BY <1>1, <3>6 DEF kept
      <4>2. QED
        BY <1>5, <1>6, <3>4, <4>1
    <3>7. QED
      BY <1>1, <2>3, <3>5, <3>6
  <2>4. QED
    BY <1>1, <2>1, <2>2, <2>3
<1>10. K = SubSeq(T, 1, kept)
  <2>1. \A i \in 1..kept : T[i] \in Trees
    <3>1. \A i \in 1..Len(T) : T[i] \in Trees
      BY <1>6, ElementOfSeq
    <3>2. kept \in Nat /\ Len(T) \in Nat
      BY <1>2, <1>6, LenProperties DEF kept
    <3>3. QED
      BY <1>8, <3>1, <3>2
  <2>2. kept \in Int /\ 1 \in Int /\ 1 <= kept /\ kept \in Nat
    BY <1>1, <1>2 DEF kept
  <2>3. /\ SubSeq(T, 1, kept) \in Seq(Trees)
        /\ Len(SubSeq(T, 1, kept)) = IF 1 <= kept THEN kept - 1 + 1 ELSE 0
        /\ \A i \in 1..(kept - 1 + 1) : SubSeq(T, 1, kept)[i] = T[1 + i - 1]
    BY <2>1, <2>2, SubSeqProperties
  <2>4. Len(SubSeq(T, 1, kept)) = kept
    BY <2>2, <2>3
  <2>5. ASSUME NEW i \in 1..kept PROVE K[i] = SubSeq(T, 1, kept)[i]
    <3>1. i \in 1..(kept - 1 + 1) /\ 1 + i - 1 = i
      BY <2>2
    <3>2. QED
      BY <1>9, <2>3, <3>1
  <2>6. QED
    BY <1>7, <1>8, <2>2, <2>3, <2>4, <2>5, SameLine
<1>11. kept \in {Len(T), Len(T) - 1} /\ kept >= n + 1
  BY <1>1, <1>2, <1>6 DEF kept
<1>12. n + 1 > 1 /\ Len(undo') + 1 = (n + 1) - 1
  BY <1>1, <1>3
<1>13. QED
  BY <1>10, <1>11, <1>12 DEF History!Back, K, T, n
\* Redo moves forward and leaves every entry where it was.
LEMMA RedoMovesForward ==
    ASSUME TypeOK, HistoryBounded, Redo
    PROVE  History!Forward
<1> DEFINE n == Len(undo)
           q == Len(redo)
           K == Timeline'
           T == Timeline
<1>1. /\ n \in Nat /\ q \in Nat \ {0}
      /\ undo \in Seq(Trees) /\ redo \in Seq(Trees) /\ tree \in Trees
  BY LenProperties, EmptySeq DEF TypeOK, Redo
<1>2. /\ undo' \in Seq(Trees) /\ Len(undo') = n + 1
      /\ \A i \in 1..n : undo'[i] = undo[i]
      /\ undo'[n + 1] = tree
  BY <1>1, AppendProperties DEF Redo
<1>3. /\ redo' \in Seq(Trees) /\ Len(redo') = q - 1
      /\ \A i \in 1..(q - 1) : redo'[i] = redo[i]
      /\ tree' = redo[q] /\ tree' \in Trees
  BY <1>1, PopBackFacts DEF Redo, Back
<1>4. /\ T \in Seq(Trees)
      /\ Len(T) = n + 1 + q
      /\ \A i \in 1..n : T[i] = undo[i]
      /\ T[n + 1] = tree
      /\ \A i \in (n + 2)..(n + 1 + q) : T[i] = redo[n + q + 2 - i]
  BY TimelineFacts
<1> HIDE DEF n, q
<1>5. /\ K \in Seq(Trees)
      /\ Len(K) = (n + 1) + 1 + (q - 1)
      /\ \A i \in 1..(n + 1) : K[i] = undo'[i]
      /\ K[(n + 1) + 1] = tree'
      /\ \A i \in ((n + 1) + 2)..((n + 1) + 1 + (q - 1)) :
             K[i] = redo'[(n + 1) + (q - 1) + 2 - i]
  <2> DEFINE m == n + 1
             k == q - 1
  <2>1. m \in Nat /\ k \in Nat /\ Len(undo') = m /\ Len(redo') = k
    BY <1>1, <1>2, <1>3
  <2> HIDE DEF m, k
  <2>2. /\ K \in Seq(Trees)
        /\ Len(K) = m + 1 + k
        /\ \A i \in 1..m : K[i] = undo'[i]
        /\ K[m + 1] = tree'
        /\ \A i \in (m + 2)..(m + 1 + k) : K[i] = redo'[m + k + 2 - i]
    BY <1>2, <1>3, <2>1, NewTimelineFacts
  <2>3. QED
    BY <2>2 DEF m, k
<1> HIDE DEF K, T
<1>6. Len(K) = n + 1 + q /\ n + 1 + q \in Nat
  BY <1>1, <1>5
<1>7. ASSUME NEW i \in 1..(n + 1 + q) PROVE K[i] = T[i]
  <2>1. CASE i <= n
    <3>1. i \in 1..n /\ i \in 1..(n + 1)
      BY <1>1, <2>1
    <3>2. QED
      BY <1>2, <1>4, <1>5, <3>1
  <2>2. CASE i = n + 1
    <3>1. n + 1 \in 1..(n + 1)
      BY <1>1
    <3>2. QED
      BY <1>2, <1>4, <1>5, <2>2, <3>1
  <2>3. CASE i = n + 2
    <3>1. i = (n + 1) + 1 /\ i \in (n + 2)..(n + 1 + q) /\ n + q + 2 - i = q
      BY <1>1, <2>3
    <3>2. QED
      BY <1>3, <1>4, <1>5, <3>1
  <2>4. CASE i > n + 2
    <3>1. /\ i \in (n + 2)..(n + 1 + q)
          /\ i \in ((n + 1) + 2)..((n + 1) + 1 + (q - 1))
          /\ (n + 1) + (q - 1) + 2 - i = n + q + 2 - i
          /\ n + q + 2 - i \in 1..(q - 1)
      BY <1>1, <2>4
    <3>2. QED
      BY <1>3, <1>4, <1>5, <3>1
  <2>5. QED
    BY <1>1, <2>1, <2>2, <2>3, <2>4
<1>8. K = T
  BY <1>4, <1>5, <1>6, <1>7, SameLine
<1>9. n + 1 < Len(T) /\ Len(undo') + 1 = (n + 1) + 1
  BY <1>1, <1>2, <1>4
<1>10. QED
  BY <1>8, <1>9 DEF History!Forward, K, T, n

\* An edit that bypasses the history changes the entry in use.
LEMMA UnrecordedAmends ==
    ASSUME TypeOK, NEW t \in Trees, Unrecorded(t)
    PROVE  History!Amend(t)
<1> DEFINE n == Len(undo)
           q == Len(redo)
           K == Timeline'
           T == Timeline
           L == [T EXCEPT ![n + 1] = t]
<1>1. n \in Nat /\ q \in Nat /\ undo' = undo /\ redo' = redo /\ tree' = t
      /\ undo \in Seq(Trees) /\ redo \in Seq(Trees)
  BY LenProperties DEF TypeOK, Unrecorded
<1>2. /\ T \in Seq(Trees)
      /\ Len(T) = n + 1 + q
      /\ \A i \in 1..n : T[i] = undo[i]
      /\ \A i \in (n + 2)..(n + 1 + q) : T[i] = redo[n + q + 2 - i]
  BY TimelineFacts
<1>3. undo' \in Seq(Trees) /\ tree' \in Trees /\ redo' \in Seq(Trees)
      /\ Len(undo') = n /\ Len(redo') = q
  BY <1>1
<1> HIDE DEF n, q
<1>4. /\ K \in Seq(Trees)
      /\ Len(K) = n + 1 + q
      /\ \A i \in 1..n : K[i] = undo'[i]
      /\ K[n + 1] = tree'
      /\ \A i \in (n + 2)..(n + 1 + q) : K[i] = redo'[n + q + 2 - i]
  BY <1>1, <1>3, NewTimelineFacts
<1> HIDE DEF K, T
<1>5. n + 1 \in 1..Len(T) /\ n + 1 + q \in Nat
  BY <1>1, <1>2
<1>6. /\ L \in Seq(Trees)
      /\ Len(L) = Len(T)
      /\ \A j \in 1..Len(T) : L[j] = IF j = n + 1 THEN t ELSE T[j]
  BY <1>2, <1>5, ExceptSeq
<1> HIDE DEF L
<1>7. ASSUME NEW i \in 1..(n + 1 + q) PROVE K[i] = L[i]
  <2>1. i \in 1..n \/ i = n + 1 \/ i \in (n + 2)..(n + 1 + q)
    BY <1>1
  <2>2. i = n + 1 \/ L[i] = T[i]
    BY <1>2, <1>6
  <2>3. CASE i = n + 1
    BY <1>1, <1>2, <1>4, <1>6, <2>3
  <2>4. CASE i # n + 1
    BY <1>1, <1>2, <1>4, <2>1, <2>2, <2>4
  <2>5. QED
    BY <2>3, <2>4
<1>8. K = L
  BY <1>2, <1>4, <1>5, <1>6, <1>7, SameLine
<1>9. QED
  BY <1>1, <1>8 DEF History!Amend, K, L, T, n

\* A state file leaves one entry.
LEMMA LoadResets ==
    ASSUME NEW t \in Trees, Load(t)
    PROVE  History!Reset(t)
<1>1. undo' = <<>> /\ redo' = <<>> /\ tree' = t
  BY DEF Load
<1>2. Len(undo') = 0 /\ Len(redo') = 0
  BY <1>1
<1>3. Timeline' = [i \in 1..1 |-> t]
  BY <1>1, <1>2 DEF Timeline
<1>4. [i \in 1..1 |-> t] = <<t>>
  OBVIOUS
<1>5. QED
  BY <1>2, <1>3, <1>4 DEF History!Reset
\* The deques implement the linear history: undo and redo move through it and
\* never alter, reorder or skip an entry; edits, accepted, refused or outside
\* of the history, and loads change only what EditHistory lets them change.
THEOREM HistoryImplemented == Spec => ImplementsHistory
<1>1. Init => History!HInit
  <2> SUFFICES ASSUME Init PROVE History!HInit
    OBVIOUS
  <2>1. tree \in Trees /\ Len(undo) = 0 /\ Len(redo) = 0
    BY DEF Init
  <2>2. Timeline = [i \in 1..1 |-> tree]
    BY <2>1 DEF Timeline
  <2>3. [i \in 1..1 |-> tree] = <<tree>>
    OBVIOUS
  <2>4. QED
    BY <2>1, <2>2, <2>3 DEF History!HInit
<1>2. IInv /\ [Next]_vars => [History!HNext]_(History!hvars)
  <2> SUFFICES ASSUME TypeOK, HistoryBounded, [Next]_vars
               PROVE  [History!HNext]_(History!hvars)
    BY DEF IInv
  <2>1. ASSUME NEW t \in Trees, Edit(t) PROVE History!HNext
    <3>1. History!Record(t)
      BY <2>1, EditRecords DEF Edit
    <3>2. QED
      BY <3>1 DEF History!HNext
  <2>2. ASSUME NEW t \in Trees, Unrecorded(t) PROVE History!HNext
    <3>1. History!Amend(t)
      BY <2>2, UnrecordedAmends
    <3>2. QED
      BY <3>1 DEF History!HNext
  <2>3. ASSUME NEW t \in Trees, Load(t) PROVE History!HNext
    <3>1. History!Reset(t)
      BY <2>3, LoadResets
    <3>2. QED
      BY <3>1 DEF History!HNext
  <2>4. CASE RefusedCopy
    <3>1. tree \in Trees
      BY DEF TypeOK
    <3>2. History!Record(tree)
      BY <2>4, <3>1, EditRecords DEF RefusedCopy
    <3>3. QED
      BY <3>1, <3>2 DEF History!HNext
  <2>5. CASE RefusedEdit
    BY <2>5, RefusedEditRefuses DEF History!HNext
  <2>6. CASE Undo
    BY <2>6, UndoMovesBack DEF History!HNext
  <2>7. CASE Redo
    BY <2>7, RedoMovesForward DEF History!HNext
  <2>8. CASE UNCHANGED vars
    <3>1. undo' = undo /\ redo' = redo /\ tree' = tree
      BY <2>8 DEF vars
    <3>2. Timeline' = Timeline /\ Len(undo') + 1 = Len(undo) + 1
      BY <3>1 DEF Timeline
    <3>3. QED
      BY <3>2 DEF History!hvars
  <2>9. QED
    BY <2>1, <2>2, <2>3, <2>4, <2>5, <2>6, <2>7, <2>8 DEF Next
<1>3. QED
  BY <1>1, <1>2, Invariance, PTL DEF Spec, ImplementsHistory, History!HSpec
=============================================================================

---------------------------- MODULE UndoHistory ----------------------------
(***************************************************************************)
(* The undo and redo stacks of TreeState (backend/state.cpp).              *)
(*                                                                         *)
(* Both stacks are deques of clones of the whole filter tree, written here *)
(* as sequences whose last element is the back of the deque.  A tree is an *)
(* uninterpreted value: the history never looks inside one.  Editing is    *)
(* any TreeState operation that calls pushUndoStack; the tree an operation *)
(* leaves is any value, the current one included (setFilterProperty        *)
(* accepts a value the filter already has).                                *)
(***************************************************************************)
EXTENDS Naturals, Sequences

CONSTANTS
    Trees,          \* the values a filter tree can take
    MaxUndo         \* MAX_UNDO_SIZE

ASSUME MaxUndoAssumption == MaxUndo \in Nat \ {0}

VARIABLES
    tree,           \* filterTree
    undo,           \* undoFilterStack
    redo            \* redoFilterStack

vars == <<tree, undo, redo>>

\* The stacks hold trees, and each respects the cap its own push applies.
TypeOK ==
    /\ tree \in Trees
    /\ undo \in Seq(Trees) /\ Len(undo) <= MaxUndo + 1
    /\ redo \in Seq(Trees) /\ Len(redo) <= MaxUndo

Init == tree \in Trees /\ undo = <<>> /\ redo = <<>>

Back(s) == s[Len(s)]
PopBack(s) == SubSeq(s, 1, Len(s) - 1)

\* The undo stack that pushUndoStack leaves: the cap is tested before the
\* push, and with >, so the stack holds up to MaxUndo + 1 trees.
Pushed ==
    IF Len(undo) > MaxUndo THEN Append(Tail(undo), tree) ELSE Append(undo, tree)

\* Fault: the redo stack survives an edit.
Mut_PushKeepsRedo == undo' = Pushed /\ UNCHANGED redo

PushUndoStack == undo' = Pushed /\ redo' = <<>>

\* Fault: popUndoStack does not trim the redo stack.
Mut_RedoUncapped(r) == Append(r, tree)

\* The redo stack that popUndoStack leaves: the cap is tested after the push.
RedoPushed(r) ==
    IF Len(r) + 1 > MaxUndo THEN Tail(Append(r, tree)) ELSE Append(r, tree)

\* addFilter, removeFilterSubtree, setFilterProperty, reparentFilter,
\* copyFilter, addStashedToFilters and applyBindings, when they succeed.
Edit(t) == PushUndoStack /\ tree' = t

\* copyFilter refused by the tree: the push is not taken back.
RefusedCopy == PushUndoStack /\ UNCHANGED tree

\* reparentFilter and setFilterProperty refused by the tree: pushUndoStack,
\* then popUndoStack(false).
RefusedEdit ==
    /\ undo' = PopBack(Pushed)
    /\ redo' = RedoPushed(<<>>)
    /\ UNCHANGED tree

\* addFilterTree for a data file, modifyRangeFiles, setFilterString and
\* stripHazardousContents change the tree and leave both stacks alone.
Unrecorded(t) == tree' = t /\ UNCHANGED <<undo, redo>>

\* Fault: the restored tree is the one at the front of the deque.
Mut_UndoFront ==
    /\ undo # <<>>
    /\ tree' = Head(undo)
    /\ undo' = Tail(undo)
    /\ redo' = RedoPushed(redo)

\* Edit > Undo: the menu item is enabled only while the stack is not empty.
Undo ==
    /\ undo # <<>>
    /\ tree' = Back(undo)
    /\ undo' = PopBack(undo)
    /\ redo' = RedoPushed(redo)

\* Edit > Redo.
Redo ==
    /\ redo # <<>>
    /\ tree' = Back(redo)
    /\ redo' = PopBack(redo)
    /\ undo' = Append(undo, tree)

\* AnalysisState::load assigns a state whose stacks are empty; merge clears
\* them with clearUndoRedoStacks.
Load(t) == tree' = t /\ undo' = <<>> /\ redo' = <<>>

Next ==
    \/ \E t \in Trees : Edit(t) \/ Unrecorded(t) \/ Load(t)
    \/ RefusedCopy
    \/ RefusedEdit
    \/ Undo
    \/ Redo

Spec == Init /\ [][Next]_vars

-----------------------------------------------------------------------------
(* Properties *)

\* The ASSERT at the head of popRedoStack: whenever Redo is offered there is
\* room on the undo stack, although popRedoStack itself never trims it.
RedoHasRoom == redo # <<>> => Len(undo) <= MaxUndo

\* The two stacks together never hold more than one tree over the cap, so
\* the clones kept alive by a session are bounded however undo, redo, edits
\* and refused edits alternate.  RedoHasRoom follows from it.
HistoryBounded == Len(undo) + Len(redo) <= MaxUndo + 1

\* The history seen by the user: the undo stack, the tree in use, and the
\* redo stack read from its back.
Timeline ==
    [i \in 1..(Len(undo) + 1 + Len(redo)) |->
        IF i <= Len(undo) THEN undo[i]
        ELSE IF i = Len(undo) + 1 THEN tree
        ELSE redo[Len(undo) + Len(redo) + 2 - i]]

History == INSTANCE EditHistory
               WITH timeline <- Timeline, cursor <- Len(undo) + 1

\* The stacks implement a linear history: undo and redo move through it and
\* never alter, reorder or skip an entry; only an edit discards the future.
ImplementsHistory == History!HSpec
=============================================================================

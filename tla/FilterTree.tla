----------------------------- MODULE FilterTree -----------------------------
(***************************************************************************)
(* The tree of filters (FilterTree, TreeState; backend/filtertree.cpp and  *)
(* backend/state.cpp) under the handlers of the main window that edit it   *)
(* (gui/mainFrame.cpp), with the tree control and the map from its item    *)
(* identifiers to filters (wx/wxcomponents.cpp), the undo history, the     *)
(* stash, and the caches the filters keep of their output.                 *)
(*                                                                         *)
(* A handler is one step: the refresh it may end with is the step          *)
(* RefreshDone, and until then the window is locked (module SceneUpdate    *)
(* opens the refresh up).                                                  *)
(*                                                                         *)
(* The tree is its pre-order sequence of nodes.  A node's cell is the      *)
(* address of its filter: clones live in fresh cells, and a freed cell may *)
(* be used again.                                                          *)
(***************************************************************************)
EXTENDS Integers, SequencesExt

CONSTANTS
    Kinds,          \* the kinds of filter the user adds
    StateFiles,     \* the trees found in state files, without their cells
    Handlers,       \* the handlers that occur
    MaxFilters,     \* bound on the size of the tree
    MaxHistory,     \* MAX_UNDO_SIZE, scaled down
    MaxPersistent   \* bound on persistentFilters, which only grows when a
                    \* drag is refused

HandlerNames ==
    {"add", "property", "move", "copy", "delete", "history", "stash", "state",
     "merge", "range", "binding", "cache", "error"}
AllKinds == {"data", "range", "other"}

ASSUME KindsAssumption == Kinds \subseteq AllKinds
ASSUME HandlersAssumption == Handlers \subseteq HandlerNames
ASSUME BoundsAssumption ==
    /\ MaxFilters \in Nat \ {0} /\ MaxHistory \in Nat /\ MaxPersistent \in Nat

VARIABLES
    filters,        \* FilterTree::filters
    filterMap,      \* TreeState::filterMap
    selected,       \* the identifier of the selected tree item, 0: none
    persistent,     \* VisController::persistentFilters
    undo, redo,     \* TreeState::undoFilterStack, redoFilterStack
    stash,          \* AnalysisState::stashedTrees: one of them
    plotUpdates,    \* MainWindowFrame::plotUpdates
    regions,        \* the filters that own the regions of the shown plots
    busy            \* a refresh is in progress

controlVars == <<filterMap, selected, persistent>>
historyVars == <<undo, redo>>
plotVars == <<plotUpdates, regions>>
vars == <<filters, controlVars, historyVars, stash, plotVars, busy>>

\* Two trees exist while one replaces the other.
Cells == 1..(2 * MaxFilters)
Null == 0
Props == 0..1

-----------------------------------------------------------------------------
(* Trees *)

\* A tree without its filters: in pre-order, each node at most one deeper than
\* the one before it.
Shapes == [cell : {Null}, kind : AllKinds, prop : Props, depth : 0..(MaxFilters - 1),
           cache : {<<>>}]
PreOrder(t) == \A i \in DOMAIN t : t[i].depth <= (IF i = 1 THEN 0 ELSE t[i - 1].depth + 1)

ASSUME StateFilesAssumption ==
    \A s \in StateFiles : s \in Seq(Shapes) /\ Len(s) <= MaxFilters /\ PreOrder(s)

CellsOf(t) == {t[i].cell : i \in DOMAIN t}
IndexOf(t, c) == CHOOSE i \in DOMAIN t : t[i].cell = c

\* The last node of the subtree at i.
LastOf(t, i) ==
    Max({j \in i..Len(t) : \A k \in (i + 1)..j : t[k].depth > t[i].depth})

\* The nodes of the subtree at i, its root at depth 0.
Subtree(t, i) ==
    [k \in 1..(LastOf(t, i) - i + 1) |->
        [t[i + k - 1] EXCEPT !.depth = @ - t[i].depth]]

IsInSubtree(t, i, j) == i <= j /\ j <= LastOf(t, i)

\* The parent of the node at i, 0 at the base.
ParentOf(t, i) ==
    Max({0} \cup {j \in 1..(i - 1) : t[j].depth < t[i].depth
                      /\ \A k \in (j + 1)..(i - 1) : t[k].depth >= t[i].depth})

Insert(t, at, s, d) ==
    SubSeq(t, 1, at)
        \o [k \in DOMAIN s |-> [s[k] EXCEPT !.depth = @ + d]]
        \o SubSeq(t, at + 1, Len(t))

\* append_child: the last child of p.
AppendChild(t, p, s) == Insert(t, LastOf(t, p), s, t[p].depth + 1)

\* Behind the first of the roots: insert_after(begin()).
InsertAtBase(t, s) == Insert(t, IF t = <<>> THEN 0 ELSE LastOf(t, 1), s, 0)

\* Fault: the node goes, its children stay.
Mut_Erase(t, i) == SubSeq(t, 1, i - 1) \o SubSeq(t, i + 1, Len(t))

Erase(t, i) == SubSeq(t, 1, i - 1) \o SubSeq(t, LastOf(t, i) + 1, Len(t))

\* Fault: the filters themselves are kept, with their caches.
Mut_Shape(t) == t

\* What a clone keeps of a tree, and clones of it in given cells.
Shape(t) == [i \in DOMAIN t |-> [t[i] EXCEPT !.cell = Null, !.cache = <<>>]]

\* The allocator hands out the free cells in order, the lowest first.
FreeCells == Cells \ CellsOf(filters)
Allocated(k) == CHOOSE c \in FreeCells : Cardinality({d \in FreeCells : d < c}) = k - 1
Clones(s) == [i \in DOMAIN s |-> [s[i] EXCEPT !.cell = Allocated(i)]]

NewFilter(k) == <<[cell |-> Null, kind |-> k, prop |-> 0, depth |-> 0, cache |-> <<>>]>>

\* The first root with its subtree.
FirstRoot(s) == IF s = <<>> THEN <<>> ELSE Subtree(s, 1)

-----------------------------------------------------------------------------
(* Outputs and caches *)

\* What a filter puts out depends on the filters above it and on their
\* properties; a filter with a cache puts the cache out.
Output(t, i, reuse, above) ==
    IF reuse /\ t[i].cache # <<>> THEN t[i].cache ELSE Append(above, <<t[i].cell, t[i].prop>>)

Outputs(t, reuse) ==
    LET out[i \in DOMAIN t] ==
            Output(t, i, reuse, IF ParentOf(t, i) = 0 THEN <<>> ELSE out[ParentOf(t, i)])
    IN out

ClearCaches(t, S) ==
    [i \in DOMAIN t |-> IF i \in S THEN [t[i] EXCEPT !.cache = <<>>] ELSE t[i]]

Below(t, i) == i..LastOf(t, i)

\* Fault: only the moved filter itself loses its cache.
Mut_ClearForMove(t, i) == ClearCaches(t, {i})

\* The loop of FilterTree::reparentFilter runs to the end of the tree, past
\* the subtree, and skips the filters at the depth of the moved one.
ClearForMove(t, i) ==
    ClearCaches(t, {i} \cup {j \in i..Len(t) : t[j].depth # t[i].depth})

\* FilterTree::clearCacheByType.
ClearCacheByType(t, k) ==
    ClearCaches(t, UNION {Below(t, i) : i \in {j \in DOMAIN t : t[j].kind = k}})

\* Fault: the filters below are forgotten.
Mut_ClearCacheByType(t, k) == ClearCaches(t, {j \in DOMAIN t : t[j].kind = k})

-----------------------------------------------------------------------------
(* The undo history *)

Recorded(stack) ==
    IF "history" \notin Handlers THEN <<>>
    ELSE LET s == Append(stack, Shape(filters))
         IN IF Len(s) > MaxHistory THEN Tail(s) ELSE s

PushUndoStack == undo' = Recorded(undo) /\ redo' = <<>>

\* pushUndoStack, then popUndoStack(false).
RefuseEdit ==
    /\ undo' = IF Recorded(undo) = <<>> THEN <<>> ELSE Front(Recorded(undo))
    /\ redo' = Recorded(<<>>)

-----------------------------------------------------------------------------
(* The tree control *)

IdMap(t) == [id \in 1..Len(t) |-> t[id].cell]

\* A filter to keep visible that is no longer in the tree is overwritten by the
\* last of them.
PruneAt(p, i, t) ==
    IF p[i] \in CellsOf(t) THEN p
    ELSE [k \in 1..(Len(p) - 1) |-> IF k = i THEN Last(p) ELSE p[k]]

\* The loop runs from the last to the first.
Pruned(p, t) ==
    LET left[i \in 1..(Len(p) + 1)] == IF i > Len(p) THEN p ELSE PruneAt(left[i + 1], i, t)
    IN left[1]

\* Fault: the identifiers are not renewed.
Mut_UpdateWxTreeCtrl(p, visible) ==
    LET kept == Pruned(p, filters')
        target == IF visible # Null \/ kept = <<>> THEN visible ELSE kept[1]
    IN /\ filterMap' = filterMap
       /\ persistent' = <<>>
       /\ selected' = IF target = Null THEN 0 ELSE IndexOf(filters', target)

\* updateWxTreeCtrl: the items are numbered anew and the selection is
\* restored to the given filter, or to the first of those to keep visible.
UpdateWxTreeCtrl(p, visible) ==
    LET kept == Pruned(p, filters')
        target == IF visible # Null \/ kept = <<>> THEN visible ELSE kept[1]
    IN /\ filterMap' = IdMap(filters')
       /\ persistent' = <<>>
       /\ selected' = IF target = Null THEN 0 ELSE IndexOf(filters', target)

\* setWxTreeFilterViewPersistence of the selection, if there is one.
KeepSelection ==
    IF selected = 0 THEN persistent ELSE Append(persistent, filterMap[selected])

-----------------------------------------------------------------------------
Init ==
    /\ filters = <<>>
    /\ filterMap = <<>> /\ selected = 0 /\ persistent = <<>>
    /\ undo = <<>> /\ redo = <<>>
    /\ stash = <<>>
    /\ plotUpdates = FALSE /\ regions = {}
    /\ busy = FALSE

\* The window takes edits.
Input(h) == h \in Handlers /\ ~busy

Place == IndexOf(filters, filterMap[selected])

-----------------------------------------------------------------------------
(* Handlers that add filters *)

\* OnFileOpen, OnFileMerge and a dropped file, for a data file: addFilterTree
\* at the base.
LoadDataFile ==
    /\ ~busy /\ Len(filters) < MaxFilters
    /\ filters' = InsertAtBase(filters, Clones(NewFilter("data")))
    /\ UpdateWxTreeCtrl(KeepSelection, Null)
    /\ busy' = TRUE
    /\ UNCHANGED <<historyVars, stash, plotVars>>

\* OnFileOpen for a state file: the file's tree replaces the
\* session's.
LoadStateFile(s) ==
    /\ Input("state")
    /\ filters' = Clones(s)
    /\ UpdateWxTreeCtrl(KeepSelection, Null)
    /\ undo' = <<>> /\ redo' = <<>>
    /\ stash' = <<>>
    /\ busy' = TRUE
    /\ UNCHANGED plotVars

\* OnFileMerge for a state file.  AnalysisState::load merges the file into an
\* empty state, which then replaces the session's; addFilterTree takes the
\* first root of the tree it is given.
MergeStateFile(s) ==
    /\ Input("merge")
    /\ filters' = Clones(FirstRoot(s))
    /\ UpdateWxTreeCtrl(persistent, Null)
    /\ undo' = <<>> /\ redo' = <<>>
    /\ stash' = <<>>
    /\ busy' = TRUE
    /\ UNCHANGED plotVars

\* Choosing a filter in comboFilters, or dropping a range file.
AddFilter(k) ==
    /\ Input("add") /\ selected # 0 /\ Len(filters) < MaxFilters
    /\ LET f == Clones(NewFilter(k))
       IN /\ filters' = AppendChild(filters, Place, f)
          /\ UpdateWxTreeCtrl(persistent, f[1].cell)
    /\ PushUndoStack
    /\ busy' \in BOOLEAN
    /\ UNCHANGED <<stash, plotVars>>

\* Storing the selected branch as a stash: cloneSubtree.
StashFilters ==
    /\ Input("stash") /\ selected # 0
    /\ stash' = Shape(Subtree(filters, Place))
    /\ UNCHANGED <<filters, controlVars, historyVars, plotVars, busy>>

\* OnComboStash.  addStashedToFilters passes the parent's address as the flag
\* isBase.
OnComboStash ==
    /\ Input("stash") /\ selected # 0 /\ stash # <<>>
    /\ Len(filters) + Len(stash) <= MaxFilters
    /\ filters' = InsertAtBase(filters, FirstRoot(Clones(stash)))
    /\ UpdateWxTreeCtrl(persistent, filterMap[selected])
    /\ PushUndoStack
    /\ busy' \in BOOLEAN
    /\ UNCHANGED <<stash, plotVars>>

-----------------------------------------------------------------------------
(* Dragging an item of the tree: OnTreeEndDrag *)

RefuseDrag(p) ==
    /\ Len(p) <= MaxPersistent
    /\ persistent' = p
    /\ UNCHANGED <<filters, filterMap, selected, busy>>

\* Fault: the original is looked for where it was before the insertion.
Mut_Moved(t, i, at, d) == Erase(Insert(t, at, Subtree(t, i), d), i)

\* The moved subtree is inserted before the original is erased.
Moved(t, i, at, d) ==
    LET s == Subtree(t, i)
    IN Erase(Insert(t, at, s, d), IF i <= at THEN i ELSE i + Len(s))

\* Fault: the target is not tested for being below the moved filter.
Mut_MoveUnchecked(s, p) ==
    /\ Input("move") /\ {s, p} \subseteq DOMAIN filterMap /\ s # p
    /\ LET t == ClearForMove(filters, s)
       IN filters' = Moved(t, s, LastOf(t, p), t[p].depth + 1)
    /\ UpdateWxTreeCtrl(persistent \o <<filterMap[s], filterMap[p]>>, Null)
    /\ PushUndoStack
    /\ busy' \in BOOLEAN
    /\ UNCHANGED <<stash, plotVars>>

\* Onto an item: reparentFilter, refused below the dragged item.
MoveOnto(s, p) ==
    /\ Input("move") /\ {s, p} \subseteq DOMAIN filterMap /\ s # p
    /\ LET keep == persistent \o <<filterMap[s], filterMap[p]>>
           t == ClearForMove(filters, s)
       IN IF IsInSubtree(filters, s, p)
          THEN RefuseDrag(keep) /\ RefuseEdit
          ELSE /\ filters' = Moved(t, s, LastOf(t, p), t[p].depth + 1)
               /\ UpdateWxTreeCtrl(keep, Null)
               /\ PushUndoStack
               /\ busy' \in BOOLEAN
    /\ UNCHANGED <<stash, plotVars>>

\* Fault: any filter may go to the base.
Mut_MoveToBase(s) ==
    /\ Input("move") /\ s \in DOMAIN filterMap
    /\ LET t == ClearForMove(filters, s)
       IN filters' = Moved(t, s, LastOf(t, 1), 0)
    /\ UpdateWxTreeCtrl(persistent, Null)
    /\ PushUndoStack
    /\ busy' \in BOOLEAN
    /\ UNCHANGED <<stash, plotVars>>

\* Onto the empty part of the control, for data sources.
MoveToBase(s) ==
    /\ Input("move") /\ s \in DOMAIN filterMap /\ filters[s].kind = "data"
    /\ LET t == ClearForMove(filters, s)
       IN filters' = Moved(t, s, LastOf(t, 1), 0)
    /\ UpdateWxTreeCtrl(persistent, Null)
    /\ PushUndoStack
    /\ busy' \in BOOLEAN
    /\ UNCHANGED <<stash, plotVars>>

\* With the command key: copyFilter.  A refused copy keeps its undo entry.
CopyOnto(s, p) ==
    /\ Input("copy") /\ {s, p} \subseteq DOMAIN filterMap /\ s # p
    /\ LET keep == persistent \o <<filterMap[s], filterMap[p]>>
           copy == Shape(Subtree(filters, s))
       IN IF IsInSubtree(filters, s, p)
          THEN RefuseDrag(keep)
          ELSE /\ Len(filters) + Len(copy) <= MaxFilters
               /\ filters' = AppendChild(filters, p, Clones(copy))
               /\ UpdateWxTreeCtrl(keep, Null)
               /\ busy' \in BOOLEAN
    /\ PushUndoStack
    /\ UNCHANGED <<stash, plotVars>>

CopyToBase(s) ==
    /\ Input("copy") /\ s \in DOMAIN filterMap /\ filters[s].kind = "data"
    /\ LET copy == Shape(Subtree(filters, s))
       IN /\ Len(filters) + Len(copy) <= MaxFilters
          /\ filters' = InsertAtBase(filters, Clones(copy))
    /\ UpdateWxTreeCtrl(persistent, Null)
    /\ PushUndoStack
    /\ busy' \in BOOLEAN
    /\ UNCHANGED <<stash, plotVars>>

-----------------------------------------------------------------------------
(* The other handlers *)

Select(id) ==
    /\ ~busy /\ id \in DOMAIN filterMap /\ id # selected
    /\ selected' = id
    /\ UNCHANGED <<filters, filterMap, persistent, historyVars, stash, plotVars, busy>>

\* OnGridFilterPropertyChange, for a property that changes the output; a
\* value may be refused.
SetFilterProperty ==
    /\ Input("property") /\ selected # 0
    /\ \/ /\ LET t == ClearCaches(filters, Below(filters, Place))
             IN filters' = [t EXCEPT ![Place].prop = 1 - @]
          /\ PushUndoStack
          /\ busy' \in BOOLEAN
       \/ RefuseEdit /\ UNCHANGED <<filters, busy>>
    /\ UNCHANGED <<controlVars, stash, plotVars>>

\* Fault: with automatic update off, there is no refresh.
Mut_Delete ==
    /\ Input("delete") /\ selected # 0
    /\ filters' = Erase(filters, Place)
    /\ LET p == ParentOf(filters, Place)
       IN UpdateWxTreeCtrl(
              IF p = 0 THEN persistent ELSE Append(persistent, filters[p].cell), Null)
    /\ PushUndoStack
    /\ busy' \in BOOLEAN
    /\ UNCHANGED <<stash, plotVars>>

\* OnTreeKeyDown: removeFilterSubtree; the parent is kept visible.
DeleteFilter ==
    /\ Input("delete") /\ selected # 0
    /\ filters' = Erase(filters, Place)
    /\ LET p == ParentOf(filters, Place)
       IN UpdateWxTreeCtrl(
              IF p = 0 THEN persistent ELSE Append(persistent, filters[p].cell), Null)
    /\ PushUndoStack
    /\ busy' = TRUE
    /\ UNCHANGED <<stash, plotVars>>

\* OnEditUndo and OnEditRedo: the entry's filters replace those of the tree,
\* which are freed; filterMap still holds the freed ones when the selection
\* is remembered.
Restore(s) ==
    /\ filters' = Clones(s)
    /\ UpdateWxTreeCtrl(KeepSelection, Null)
    /\ busy' = TRUE
    /\ UNCHANGED <<stash, plotVars>>

OnEditUndo ==
    /\ Input("history") /\ undo # <<>>
    /\ Restore(Last(undo))
    /\ undo' = Front(undo)
    /\ redo' = Recorded(redo)

OnEditRedo ==
    /\ Input("history") /\ redo # <<>>
    /\ Restore(Last(redo))
    /\ redo' = Front(redo)
    /\ undo' = Recorded(undo)

\* applyBindingsToTree for the dragged object of one filter, from the update
\* timer.
ApplyBindings(i) ==
    /\ Input("binding") /\ i \in DOMAIN filters /\ filters[i].kind = "other"
    /\ LET t == ClearCaches(filters, Below(filters, i))
       IN filters' = [t EXCEPT ![i].prop = 1 - @]
    /\ PushUndoStack
    /\ busy' = TRUE
    /\ UNCHANGED <<controlVars, stash, plotVars>>

\* OnEditRange: modifyRangeFiles.
OnEditRange(i) ==
    /\ Input("range") /\ i \in DOMAIN filters /\ filters[i].cell \in regions
    /\ LET t == ClearCaches(filters, Below(filters, i))
       IN filters' = [t EXCEPT ![i].prop = 1 - @]
    /\ busy' = TRUE
    /\ UNCHANGED <<controlVars, historyVars, stash, plotVars>>

\* A region is dragged in the plot pane: the range filter clears its own
\* cache only.
SetPropFromRegion(i) ==
    /\ Input("range") /\ i \in DOMAIN filters /\ filters[i].cell \in regions
    /\ filters' = [ClearCaches(filters, {i}) EXCEPT ![i].prop = 1 - @]
    /\ plotUpdates' = TRUE
    /\ UNCHANGED <<controlVars, historyVars, stash, regions, busy>>

\* OnUpdateTimer after such a drag.
OnUpdateTimer ==
    /\ ~busy /\ plotUpdates
    /\ filters' = ClearCacheByType(filters, "range")
    /\ plotUpdates' = FALSE
    /\ busy' = TRUE
    /\ UNCHANGED <<controlVars, historyVars, stash, regions>>

\* A refresh ends.  It leaves caches of some of the filters; when it has
\* failed, the scene and the plots stay as they are.
RefreshDone(ok) ==
    /\ busy
    /\ ok \/ "error" \in Handlers
    /\ busy' = FALSE
    /\ \E S \in SUBSET (IF "cache" \in Handlers THEN DOMAIN filters ELSE {}) :
           LET out == Outputs(filters, TRUE)
           IN filters' = [i \in DOMAIN filters |->
                  IF i \in S THEN [filters[i] EXCEPT !.cache = out[i]] ELSE filters[i]]
    /\ regions' = IF ok THEN {filters[i].cell : i \in {j \in DOMAIN filters :
                                                           filters[j].kind = "range"}}
                  ELSE regions
    /\ UNCHANGED <<controlVars, historyVars, stash, plotUpdates>>

-----------------------------------------------------------------------------
FileStep == LoadDataFile \/ \E s \in StateFiles : LoadStateFile(s) \/ MergeStateFile(s)

AddStep == (\E k \in Kinds : AddFilter(k)) \/ StashFilters \/ OnComboStash

DragStep ==
    \/ \E s, p \in 1..MaxFilters : MoveOnto(s, p) \/ CopyOnto(s, p)
    \/ \E s \in 1..MaxFilters : MoveToBase(s) \/ CopyToBase(s)

EditStep ==
    \/ SetFilterProperty \/ DeleteFilter \/ OnEditUndo \/ OnEditRedo
    \/ \E id \in 1..MaxFilters : Select(id)

DataStep ==
    \/ \E i \in 1..MaxFilters : ApplyBindings(i) \/ OnEditRange(i) \/ SetPropFromRegion(i)
    \/ OnUpdateTimer
    \/ \E ok \in BOOLEAN : RefreshDone(ok)

Next == FileStep \/ AddStep \/ DragStep \/ EditStep \/ DataStep

Spec == Init /\ [][Next]_vars
-----------------------------------------------------------------------------
(* Properties *)

Node == [cell : Cells, kind : AllKinds, prop : Props, depth : 0..(MaxFilters - 1),
         cache : Seq(Cells \X Props)]
TypeOK ==
    /\ Len(filters) <= MaxFilters
    /\ \A i \in DOMAIN filters : filters[i] \in Node
    /\ \A s \in {stash} \cup ToSet(undo) \cup ToSet(redo) :
           Len(s) <= MaxFilters /\ \A i \in DOMAIN s : s[i] \in Shapes
    /\ \A id \in DOMAIN filterMap : filterMap[id] \in Cells
    /\ selected \in 0..MaxFilters
    /\ ToSet(persistent) \cup regions \subseteq Cells
    /\ {plotUpdates, busy} \subseteq BOOLEAN

\* However filters are inserted, moved, copied and erased, the sequence is a
\* forest in pre-order in which no filter occurs twice.
ForestIsWellFormed ==
    /\ PreOrder(filters)
    /\ IsInjective(IdMap(filters))

\* Between handlers every item of the tree control leads to the filter it
\* stands for, and every filter has an item.
ControlMatchesTree ==
    /\ filterMap = IdMap(filters)
    /\ selected <= Len(filters)

\* A cache always holds what the filter would put out now, but for the time
\* until a dragged region is dealt with.
CachesAreFresh ==
    ~plotUpdates =>
        \A i \in DOMAIN filters :
            filters[i].cache \in {<<>>, Outputs(filters, FALSE)[i]}

\* Only data sources are at the base of the tree.
BaseHoldsDataSources ==
    \A i \in DOMAIN filters : filters[i].depth = 0 => filters[i].kind = "data"

\* While the plots can be edited, their regions belong to filters that exist.
RegionsAreLive == ~busy => regions \subseteq CellsOf(filters)

\* A moved branch is not lost, wherever it is dropped: a step that loses
\* filters is no move (FilterTree::reparentFilter erases the original after it
\* has inserted the copy).
MoveKeepsFilters ==
    [][~(CellsOf(filters) \subseteq CellsOf(filters')) =>
           ~\E s, p \in 1..MaxFilters : MoveOnto(s, p) \/ MoveToBase(s)]_vars

\* The forest that the sequence stands for: the parent of every filter, a
\* filter at the base being its own.
Above(t, i) == IF ParentOf(t, i) = 0 THEN i ELSE ParentOf(t, i)
Parents(t) == [c \in CellsOf(t) |-> t[Above(t, IndexOf(t, c))].cell]

Forest == INSTANCE FilterForest WITH Filters <- Cells, parent <- Parents(filters)

\* Whatever is done to the sequence is one operation on the forest of
\* parents: no other filter changes its parent.
ImplementsForest == Forest!Spec
=============================================================================

----------------------------- MODULE Workbench -----------------------------
(***************************************************************************)
(* The panes, lists, dialogs and files around the filter tree, each a part *)
(* with a module of its own.  They share no state but the tree and the     *)
(* refresh, which each part has as much of as it needs; a behaviour is of  *)
(* one part, and a theme is what several parts have to keep.               *)
(***************************************************************************)
EXTENDS Integers, Sequences
CONSTANTS
    Parts,             \* the names of the parts to be looked at
    Trees, MaxDead,                             \* of Session
    Props, FrameProps, MaxKeys, MaxExports,     \* of Animation
    Masses, IonNames, FirstFiles, MaxPending,   \* of RangeEditor
    Whole, Inset,                               \* of Cropping
    MaxEdits                                    \* of both
VARIABLES part, now
workVars == <<part, now>>

View  == INSTANCE Cameras
File  == INSTANCE Session
Stash == INSTANCE Stashes
Anim  == INSTANCE Animation
Haz   == INSTANCE Hazardous
Plot  == INSTANCE Plots
Edit  == INSTANCE RangeEditor
Rng   == INSTANCE RangeFiles
Crop  == INSTANCE Cropping
Sel   == INSTANCE Selection
Conf  == INSTANCE ConfigFile

\* There may be nothing to save.
ASSUME TreesAssumption == 0 \in Trees
\* There is something to animate, with key frames of it.
ASSUME FramesAssumption == Props # {} /\ \A k \in FrameProps : Anim!IsFrameProp(k)
\* The range files that filters have opened are consistent, if they are to be,
\* and their ranges are of ions they have.
ASSUME RangesAssumption ==
    /\ Masses \subseteq Int /\ Edit!Unset \notin Masses
    /\ \A q \in FirstFiles : \A f \in 1..2 :
         /\ q \in [1..2 -> Edit!RangeFile]
         /\ q[f].enforce => Edit!WellApart(q[f])
         /\ \A i \in DOMAIN q[f].rs : q[f].rs[i].ion \in DOMAIN q[f].ions
\* A panel does not begin with more than all cropped.
ASSUME CropAssumption == Whole \in Nat /\ Inset \in Nat /\ Inset + Inset <= Whole

Init ==
    /\ part \in Parts
    /\ part = View!Name  => View!Init
    /\ part = File!Name  => File!Init
    /\ part = Stash!Name => Stash!Init
    /\ part = Anim!Name  => Anim!Init
    /\ part = Haz!Name   => Haz!Init
    /\ part = Plot!Name  => Plot!Init
    /\ part = Edit!Name  => Edit!Init
    /\ part = Rng!Name   => Rng!Init
    /\ part = Crop!Name  => Crop!Init
    /\ part = Sel!Name   => Sel!Init
    /\ part = Conf!Name  => Conf!Init

Next ==
    \/ part = View!Name  /\ UNCHANGED part /\ View!Next
    \/ part = File!Name  /\ UNCHANGED part /\ File!Next
    \/ part = Stash!Name /\ UNCHANGED part /\ Stash!Next
    \/ part = Anim!Name  /\ UNCHANGED part /\ Anim!Next
    \/ part = Haz!Name   /\ UNCHANGED part /\ Haz!Next
    \/ part = Plot!Name  /\ UNCHANGED part /\ Plot!Next
    \/ part = Edit!Name  /\ UNCHANGED part /\ Edit!Next
    \/ part = Rng!Name   /\ UNCHANGED part /\ Rng!Next
    \/ part = Crop!Name  /\ UNCHANGED part /\ Crop!Next
    \/ part = Sel!Name   /\ UNCHANGED part /\ Sel!Next
    \/ part = Conf!Name  /\ UNCHANGED part /\ Conf!Next

Spec == Init /\ [][Next]_workVars

-----------------------------------------------------------------------------
(* The themes *)

\* An index or a pointer that is kept with an entry, a plot, a range or a
\* handle still is of the thing it was taken for: saved cameras (state.cpp),
\* stashes and their dialog (StashDialog.cpp), plots (plot.cpp), the ions of
\* ranges (APTRanges.cpp), selection devices (select.cpp), and default filters
\* (prefDialog.cpp).
IndicesAreLive ==
    /\ part = View!Name  => View!IndicesLive
    /\ part = Stash!Name => Stash!IndicesLive
    /\ part = Plot!Name  => Plot!IndicesLive
    /\ part = Edit!Name  => Edit!IonsLive
    /\ part = Rng!Name   => Rng!FilterIsWhole
    /\ part = Sel!Name   => Sel!HandlesAreLive
    /\ part = Conf!Name  => Conf!DefaultsAreUnique

\* What a pane shows is what the state behind it holds, once the update timer
\* has looked and unless a refresh is to come: the active camera, the image
\* and the ranges of the plots, the ranges of the editor, the crop of the
\* scene, the handles of filters, and the panels, the limit and the recent
\* files as the next start will have them.
ViewsAreCurrent ==
    /\ part = View!Name => View!ViewIsStored
    /\ part = Plot!Name => Plot!ImageIsCurrent /\ Plot!RegionsAreCurrent /\ Plot!ZoomIsKept
    /\ part = Edit!Name => Edit!RegionsAreRanges
    /\ part = Crop!Name => Crop!CropIsCurrent /\ Crop!SharedAxisAgrees
    /\ part = Sel!Name  => Sel!DragsAreApplied
    /\ part = Conf!Name => Conf!PanelsAreRemembered /\ Conf!LimitIsRemembered /\ Conf!MenuIsRemembered

\* Through saves, loads, autosaves and crashes, the Save entry is there only
\* while the state has a file name, and work either counts as modified or can
\* be read back from a file (state.cpp, mainFrame.cpp).  The second is not said
\* of work of which the modification level is not told: edits of filters, failed
\* saves, package exports, autosaves of what no state file holds, restored ones.
WorkIsAccountedFor ==
    part = File!Name => File!SaveHasFile /\ File!UnsavedIsKnown
\* No work that no file holds is thrown away without the question of
\* checkAskSaveState (mainFrame.cpp): "Current state has not been saved, would
\* you like to save it now?".
NothingIsLost == part = File!Name => File!NothingIsLost

\* A range file that is written can be read again with the same ranges, and
\* each row of a table becomes a range of its ion (APTRanges.cpp); so can the
\* configuration (configFile.cpp).
FilesAreReadBack ==
    /\ part = Rng!Name  => Rng!SavedIsReadBack /\ Rng!RowsKeepTheirIon
    /\ part = Conf!Name => Conf!ConfigIsReadBack

\* The export of an animation shows at each frame what the key frames ask,
\* starts the timers again however it ends, and does not lose the tree
\* (animator.cpp, mainFrame.cpp).
ExportIsTrue ==
    part = Anim!Name => Anim!FramesAreDue /\ Anim!TimersRun /\ Anim!TreeIsKept

\* However they are dragged, typed, moved and erased, ranges that are to be
\* consistent stay apart, the range editor's OK is of consistent ranges
\* (rangeEditDialog.cpp), and no crop takes more than all (cropPanel.cpp).
DragsStayValid ==
    /\ part = Edit!Name => Edit!DragKeepsDisjoint /\ Edit!OKIsChecked
    /\ part = Crop!Name => Crop!CropsAreValid

\* How far an erasure goes.  The Remove button erases the stashes selected, and
\* so does the Delete key if one is selected; of several the key erases the
\* first and none before it (StashDialog.cpp).  stripHazardousContents
\* (filtertree.cpp) frees each hazardous filter and each that leaves the tree,
\* and spares those before the first hazardous one; what it frees and leaves in
\* the tree, or frees twice, is behind the branch of a hazardous one.
ErasuresAreBounded ==
    /\ part = Stash!Name => Stash!NamesUnique /\ Stash!ErasuresAreBounded
    /\ part = Haz!Name   => Haz!StripIsBounded

-----------------------------------------------------------------------------
(* Small values for the constants that are not plain sets or numbers. *)

\* Two filters; the last key frames contradict the first.
SmallProps == {<<1, "x">>, <<1, "y">>, <<2, "x">>}
SmallFrameProps == {
    [prop |-> <<1, "x">>, mode |-> "linear", data |-> <<[at |-> 1, val |-> 2], [at |-> 3, val |-> 4]>>],
    [prop |-> <<1, "x">>, mode |-> "step",   data |-> <<[at |-> 4, val |-> 9]>>],
    [prop |-> <<1, "y">>, mode |-> "step",   data |-> <<[at |-> 2, val |-> 5]>>],
    [prop |-> <<2, "x">>, mode |-> "list",   data |-> <<[at |-> 0, val |-> 6], [at |-> 1, val |-> 7]>>],
    [prop |-> <<1, "x">>, mode |-> "step",   data |-> <<[at |-> 2, val |-> 8]>>]}
\* Two ranges that nearly meet, and one between them.
SmallRange(lo, hi, ion) == [lo |-> lo, hi |-> hi, ion |-> ion]
SmallFirstFiles == {<<
    [rs |-> <<SmallRange(0, 1, 1), SmallRange(2, 3, 2)>>, ions |-> <<"A", "B">>, enforce |-> TRUE],
    [rs |-> <<SmallRange(1, 2, 1)>>, ions |-> <<"A">>, enforce |-> TRUE]>>}
=============================================================================

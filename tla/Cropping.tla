------------------------------ MODULE Cropping ------------------------------
(***************************************************************************)
(* The cropping of the scene: two linked panels in which the crop is drawn *)
(* (gui/cropPanel.cpp), the controls beside them and the effect they make  *)
(* for the scene (gui/mainFrame.cpp, gl/effect.cpp).                       *)
(*                                                                         *)
(* A panel crops two axes, from the left, top, right and bottom, 1 to 4 as *)
(* in the code's 0 to 3.  The second panel wins where both crop an axis.   *)
(* The anaglyph effect and the camera's frame are left out.                *)
(***************************************************************************)
EXTENDS Integers, Sequences, FiniteSets
CONSTANTS
    Whole,      \* all of an axis; the grid of the mouse                bound
    Inset,      \* what a panel begins with from each side: the 0.2
    MaxEdits    \* bound: drags, double clicks, choices of axes, files
VARIABLE now

Name     == "cropping"
Sides    == 1..4
Panels   == {1, 2}
Axes     == {"x", "y", "z"}
AxesOf   == {<<"x", "y">>, <<"x", "z">>, <<"y", "x">>, <<"y", "z">>, <<"z", "x">>, <<"z", "y">>}
FirstAxes == <<"x", "y">>               \* of the first panel                  bound
NoDrag   == [panel |-> 0, sel |-> {}, from |-> <<>>]
NoCrop   == [a \in Axes |-> <<0, 0>>]
Other(p) == 3 - p

\* edits counts; scene: what the scene is cropped by; unshown: the panels
\* were set from the effects of the scene, and these not from the panels.
Init == now = [crop |-> [p \in Panels |-> [i \in Sides |-> Inset]], axes |-> <<FirstAxes, FirstAxes>>,
               link |-> <<"both", "both">>, update |-> <<FALSE, FALSE>>, drag |-> NoDrag, edits |-> 0,
               post |-> FALSE, on |-> FALSE, scene |-> NoCrop, unshown |-> FALSE]

Becomes(r) == now' = r
Edited(r)  == now.edits < MaxEdits /\ now.drag = NoDrag /\ Becomes([r EXCEPT !.edits = @ + 1])

-----------------------------------------------------------------------------
(* The panels *)

\* validCoords.
Valid(c) == c[1] + c[3] <= Whole /\ c[2] + c[4] <= Whole /\ \A i \in Sides : c[i] >= 0
\* mouseMove: of a crop that is not valid only the sides that are out of
\* bounds stay; if that does not do, all do.
\* Mutant: it is not looked at again.
OutOfBounds(v) == v < 0 \/ v > Whole
Bounded(c, old) == [i \in Sides |-> IF OutOfBounds(c[i]) THEN old[i] ELSE c[i]]
Mut_Corrected(c, old) == IF Valid(c) THEN c ELSE Bounded(c, old)
Corrected(c, old) ==
    IF Valid(c) THEN c ELSE IF Valid(Bounded(c, old)) THEN Bounded(c, old) ELSE old
\* makeCropValuesValid.
Clamped(v) == IF v < 0 THEN 0 ELSE IF v > Whole THEN Whole ELSE v
MadeValid(c) ==
    LET q == [i \in Sides |-> Clamped(c[i])]
    IN  [i \in Sides |-> IF q[i] + q[IF i < 3 THEN i + 2 ELSE i - 2] > Whole THEN Inset ELSE q[i]]

\* updateLinked: the sides of a panel (right) that set those of the other.
Linked(mode) ==
    CASE mode = "lr"       -> {<<1, 1>>, <<3, 3>>}
      [] mode = "lrflip"   -> {<<4, 1>>, <<2, 3>>}
      [] mode = "tb"       -> {<<4, 4>>, <<2, 2>>}
      [] mode = "tbflip"   -> {<<1, 4>>, <<3, 2>>}
      [] mode = "both"     -> {<<1, 1>>, <<2, 2>>, <<3, 3>>, <<4, 4>>}
      [] mode = "bothflip" -> {<<4, 1>>, <<2, 3>>, <<1, 4>>, <<3, 2>>}
Follow(to, from, mode) ==
    [i \in Sides |-> IF \E e \in Linked(mode) : e[1] = i
                     THEN from[(CHOOSE e \in Linked(mode) : e[1] = i)[2]] ELSE to[i]]
\* Mutant: the other panel is left as it was.
Mut_Updated(s, p) == [s EXCEPT !.update[p] = TRUE]
Updated(s, p) == [s EXCEPT !.update[p] = TRUE, !.crop[Other(p)] = Follow(@, s.crop[p], s.link[p])]

\* getBestCropWidget: a side, a corner, or the centre (here: all sides).
Widgets == {{i} : i \in Sides} \cup {{i, (i % 4) + 1} : i \in Sides} \cup {Sides}
MouseDown(p, sel) ==
    /\ now.on /\ now.post
    /\ Edited([now EXCEPT !.drag = [panel |-> p, sel |-> sel, from |-> now.crop[p]]])
\* Sides follow the mouse, which may be just beyond the panel; the centre
\* takes them along by the distance from where it was taken hold of.
Dragged(sel, from, c, x, y) ==
    IF sel = Sides THEN <<from[1] + x, from[2] + y, from[3] - x, from[4] - y>>
    ELSE [i \in Sides |-> IF i \notin sel THEN c[i] ELSE <<x, y, Whole - x, Whole - y>>[i]]
MouseMove(x, y) ==
    /\ now.drag # NoDrag
    /\ LET p == now.drag.panel
       IN  Becomes(Updated([now EXCEPT !.crop[p] =
                      Corrected(Dragged(now.drag.sel, now.drag.from, @, x, y), @)], p))
MouseReleased == now.drag # NoDrag /\ Becomes([now EXCEPT !.drag = NoDrag])
\* mouseDoubleLeftClick: at the centre, or beside all, everything is reset.
MouseDoubleLeftClick(p, sel) ==
    /\ now.on /\ now.post
    /\ Edited(Updated([now EXCEPT !.crop[p] = [i \in Sides |-> IF i \in sel THEN 0 ELSE @[i]]], p))

-----------------------------------------------------------------------------
(* The effect *)

\* getCropValues, and what updatePostEffects makes of them.
CropOf(axes, c) == [a \in Axes |-> CASE a = axes[1] -> <<c[1], c[3]>> [] a = axes[2] -> <<c[2], c[4]>> [] OTHER -> <<>>]
Fractions(s) ==
    [a \in Axes |-> LET one == CropOf(s.axes[1], s.crop[1])[a]  two == CropOf(s.axes[2], s.crop[2])[a]
                    IN  IF two # <<>> THEN two ELSE IF one # <<>> THEN one ELSE <<0, 0>>]
WillDoSomething(f) == f # NoCrop
\* updatePostEffects.
Shown(s) == IF s.post /\ s.on THEN Fractions(s) ELSE NoCrop
UpdatePostEffects(s) ==
    [s EXCEPT !.scene = Shown(s), !.unshown = FALSE,
              !.update = IF WillDoSomething(Shown(s)) THEN <<FALSE, FALSE>> ELSE @]

\* OnUpdateTimer: the update of the second panel is not cleared.
\* Mutant: only the first panel is looked at.
Mut_OnUpdateTimer ==
    /\ now.update[1] \/ now.update[2]
    /\ Becomes([(IF now.update[1] THEN UpdatePostEffects(now) ELSE now) EXCEPT !.update = <<FALSE, FALSE>>])
OnUpdateTimer ==
    /\ now.update[1] \/ now.update[2]
    /\ Becomes([UpdatePostEffects(now) EXCEPT !.update[1] = FALSE])

OnCheckPostProcess == now.drag = NoDrag /\ Becomes(UpdatePostEffects([now EXCEPT !.post = ~@]))
OnFxCropCheck == now.drag = NoDrag /\ now.post /\ Becomes(UpdatePostEffects([now EXCEPT !.on = ~@]))

\* linkCropWidgets: linking copies all of a panel to the other.
LinkMode(p, a, b) ==
    IF a = b THEN "both"
    ELSE CASE a[1] = b[2] /\ a[2] = b[1]   -> "bothflip"
           [] a[1] = b[1]                  -> "lr"
           [] a[2] = b[2]                  -> "tb"
           [] a[2] = b[1] /\ a[1] # b[2]   -> IF p = 1 THEN "tbflip" ELSE "lrflip"
           [] OTHER                        -> IF p = 1 THEN "lrflip" ELSE "tbflip"
LinkCropWidgets(s) ==
    [s EXCEPT !.link = [p \in Panels |-> LinkMode(p, s.axes[1], s.axes[2])], !.crop[2] = s.crop[1]]
OnFxCropAxis(axes) ==
    /\ now.on /\ now.post
    /\ Edited(UpdatePostEffects(LinkCropWidgets([now EXCEPT !.axes = <<FirstAxes, axes>>])))

\* loadFile, updateFxUI: the panels are set from the effects of the scene,
\* as if the values were in the order of the sides, and linked again.
UpdateFxUI(s) ==
    LET f == s.scene
        one == MadeValid(<<f["x"][1], f["x"][2], f["y"][1], f["y"][2]>>)
    IN  [s EXCEPT !.crop = <<one, one>>, !.axes = <<<<"x", "y">>, <<"x", "z">>>>, !.link = <<"both", "both">>,
                  !.on = TRUE, !.post = TRUE, !.unshown = TRUE]
LoadFile == Edited(IF WillDoSomething(now.scene) THEN UpdateFxUI(now) ELSE now)

Next ==
    \/ \E p \in Panels, sel \in Widgets : MouseDown(p, sel) \/ MouseDoubleLeftClick(p, sel)
    \/ \E x, y \in -1..(Whole + 1) : MouseMove(x, y)
    \/ MouseReleased \/ OnUpdateTimer \/ OnCheckPostProcess \/ OnFxCropCheck \/ LoadFile
    \/ \E axes \in AxesOf : OnFxCropAxis(axes)

-----------------------------------------------------------------------------
(* Properties *)

\* However the panels are dragged, linked and reset, no crop takes more than
\* the whole of an axis (the ASSERTs of mouseDown and draw).
CropsAreValid == \A p \in Panels : Valid(now.crop[p])

\* The scene is cropped by what the panels and the boxes say, unless an update
\* is still to be seen by the timer, or the panels were just set by a load.
CropIsCurrent == now.scene = Shown(now) \/ now.update[1] \/ now.update[2] \/ now.unshown

\* Where both panels crop an axis, they show the same crop of it.  Left out
\* are panels of which one shows the other's axes exchanged.
SharedAxisAgrees ==
    (\A p \in Panels : now.link[p] \in {"both", "lr", "tb"}) =>
        \A a \in Axes : LET one == CropOf(now.axes[1], now.crop[1])[a]  two == CropOf(now.axes[2], now.crop[2])[a]
                        IN  one = <<>> \/ two = <<>> \/ one = two
=============================================================================

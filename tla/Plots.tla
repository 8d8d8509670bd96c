-------------------------------- MODULE Plots --------------------------------
(***************************************************************************)
(* The plots: those a refresh has made (PlotWrapper of backend/plot.cpp,   *)
(* filled by backend/viscontrol.cpp), the pane that paints them and lets   *)
(* the mouse zoom, pan and drag the regions of the ranges                  *)
(* (gui/mathglPane.cpp), and the list that selects them                    *)
(* (gui/mainFrame.cpp).  A region is moved in the range filter; the plot   *)
(* shows it when the refresh that the update timer starts is done.         *)
(*                                                                         *)
(* Two filters make plots: a spectrum below the range filter, with its     *)
(* regions, and another.  Positions count from 1.                          *)
(***************************************************************************)
EXTENDS Naturals, Sequences, FiniteSets
VARIABLE now

Name     == "plots"
Other    == 1
Spectrum == 2
Sources  == {Other, Spectrum}
Marks    == 0..1                 \* bound: where the ranges are
NoCache  == 2
NoDrag   == "none"
\* What is seen of an axis: all of it, or a half.  Bound: of y never the lower.
XExtents == {"all", "low", "high"}
YExtents == {"all", "high"}
NoZoom   == [on |-> FALSE, x |-> "all", y |-> "all"]

\* made: the filters that make a plot.  who: which copies of the filters are
\* in the tree, an undo or redo puts back others.  marks: the ranges of the
\* range filter, as they are and as the spectrum has them in its cache.
\* missed: an update by the mouse came to nothing.  want: the zoom asked for.
Init ==
    \E m \in SUBSET Sources :
      now = [made |-> m, who |-> 0, marks |-> 0, cache |-> NoCache, plots |-> <<>>,
             selected |-> {}, changed |-> TRUE, image |-> {}, refreshing |-> FALSE,
             limit |-> FALSE, updates |-> FALSE, missed |-> FALSE, drag |-> NoDrag, zoom |-> NoZoom,
             want |-> NoZoom]

Becomes(r) == now' = r

Visible(s)  == {i \in DOMAIN s.plots : s.plots[i].visible}
\* Plots of different kinds are not drawn together: the pane paints nothing.
Mixed(s)    == Cardinality(Visible(s)) > 1
Drawn(s)    == IF Mixed(s) THEN {}
               ELSE {[src |-> s.plots[i].src, marks |-> s.plots[i].marks] : i \in Visible(s)}
ReadyForInput(s) == s.plots # <<>>

-----------------------------------------------------------------------------
(* Refreshes *)

\* A change of the tree, and its refresh; the pane is locked.
Begin(m) ==
    /\ ~now.refreshing
    /\ Becomes([now EXCEPT !.made = m, !.refreshing = TRUE, !.limit = TRUE])
UndoRedo ==
    /\ ~now.refreshing
    /\ Becomes([now EXCEPT !.who = 1 - @, !.cache = NoCache, !.refreshing = TRUE, !.limit = TRUE])

\* updateScene: new plots; with more than one, those are shown that the same
\* filter showed before.
WasVisible(src, who) ==
    \E i \in Visible(now) : now.plots[i].src = src /\ now.plots[i].who = who
NewPlots(s) ==
    LET only(f) == IF f \in s.made THEN <<f>> ELSE <<>>
        srcs    == only(Other) \o only(Spectrum)
    IN  [i \in 1..Len(srcs) |->
            [src |-> srcs[i], who |-> s.who, marks |-> IF srcs[i] = Spectrum THEN s.cache ELSE 0,
             visible |-> Len(srcs) = 1 \/ WasVisible(srcs[i], s.who)]]
Refreshed(s) == IF Spectrum \in s.made /\ s.cache = NoCache THEN [s EXCEPT !.cache = s.marks] ELSE s

\* Mutant: the list keeps its selection.
Mut_UpdateScene(s) == [s EXCEPT !.plots = NewPlots(s), !.changed = TRUE]
UpdateScene(s) ==
    LET r == [s EXCEPT !.plots = NewPlots(s), !.changed = TRUE]
    IN  [r EXCEPT !.selected = Visible(r)]

Finish ==
    /\ now.refreshing
    /\ Becomes([UpdateScene(Refreshed(now)) EXCEPT !.refreshing = FALSE, !.limit = FALSE])

\* OnUpdateTimer: an update that finds a refresh under way is forgotten.
Timer ==
    /\ now.updates
    /\ Becomes(IF now.refreshing THEN [now EXCEPT !.updates = FALSE, !.missed = TRUE]
               ELSE [now EXCEPT !.updates = FALSE, !.missed = FALSE, !.cache = NoCache,
                                !.refreshing = TRUE, !.limit = TRUE])

-----------------------------------------------------------------------------
(* The list and the pane *)

OnSpectraListbox(sel) ==
    /\ ~now.refreshing
    /\ Becomes([now EXCEPT !.selected = sel, !.changed = TRUE,
                           !.plots = [i \in DOMAIN @ |-> [@[i] EXCEPT !.visible = i \in sel]]])

\* render: painted anew only if something has changed; with nothing visible
\* only a notice is shown, and the change stays to be painted.
Render ==
    /\ Visible(now) # {} /\ now.changed
    /\ Becomes([now EXCEPT !.image = Drawn(now), !.changed = FALSE])

Bounded(s, x, y) == [s EXCEPT !.zoom = [on |-> TRUE, x |-> x, y |-> y], !.changed = TRUE,
                              !.want = [on |-> TRUE, x |-> x, y |-> y]]

\* The button on a region, or beside one; with shift, to pan.
MouseDown(d) ==
    /\ ReadyForInput(now) /\ Visible(now) # {} /\ ~Mixed(now)
    /\ d = "region" => ~now.limit /\ \E i \in Visible(now) : now.plots[i].src = Spectrum
    /\ Becomes([now EXCEPT !.drag = d])

MouseMoved(buttonDown) ==
    /\ ReadyForInput(now) /\ now.drag # NoDrag
    /\ Becomes(IF ~buttonDown \/ now.limit THEN [now EXCEPT !.drag = NoDrag] ELSE now)

\* setPanCoords, while it is painted: the horizontal extent moves.
Pan(x) == now.drag = "pan" /\ Becomes(Bounded(now, x, now.zoom.y))

\* leftMouseReleased.  A region goes to where the mouse is, not to the limit
\* that was shown; a drag that outlived a refresh moves whatever now has its
\* place, here still the spectrum.
\* Mutant: nobody is told of the move.
Mut_RegionMoved(s, m) == [s EXCEPT !.marks = m]
RegionMoved(s, m) == [s EXCEPT !.marks = m, !.updates = TRUE]
MouseReleased(m, x, y) ==
    /\ ReadyForInput(now) /\ now.drag # NoDrag
    /\ LET s == [now EXCEPT !.drag = NoDrag]
       IN  CASE now.drag = "region" ->
                  Becomes(IF now.limit \/ Spectrum \notin {now.plots[i].src : i \in DOMAIN now.plots}
                          THEN s ELSE RegionMoved(s, m))
             [] now.drag = "zoom" -> Becomes(Bounded(s, x, y)) \/ Becomes(s)
             [] now.drag = "pan"  -> Becomes(s)

MouseWheel(x, y) ==
    ReadyForInput(now) /\ Visible(now) # {} /\ now.drag = NoDrag /\ Becomes(Bounded(now, x, y))

\* disableUserAxisBounds: all bounds are off once both axes start where they
\* would without, wherever they end.
\* Mutant: they are off at once.
Mut_DisableUserAxisBounds(s, axis) == [s EXCEPT !.zoom = NoZoom, !.changed = TRUE]
DisableUserAxisBounds(s, axis) ==
    LET z == [s.zoom EXCEPT ![axis] = "all"]
    IN  [s EXCEPT !.changed = TRUE,
                  !.zoom = IF z.on /\ (z.x = "high" \/ z.y = "high") THEN z ELSE NoZoom]
\* A double click beside an axis, or elsewhere.
DoubleClick(axis) ==
    /\ ReadyForInput(now) /\ Visible(now) # {}
    /\ LET s == [now EXCEPT !.drag = NoDrag]
       IN  Becomes(IF axis = "both" THEN [s EXCEPT !.zoom = NoZoom, !.want = NoZoom, !.changed = TRUE]
                   ELSE [DisableUserAxisBounds(s, axis) EXCEPT !.want = [s.want EXCEPT ![axis] = "all"]])

Next ==
    \/ \E m \in SUBSET Sources : Begin(m)
    \/ UndoRedo \/ Finish \/ Timer \/ Render
    \/ \E sel \in SUBSET (DOMAIN now.plots) : OnSpectraListbox(sel)
    \/ \E d \in {"region", "zoom", "pan"} : MouseDown(d)
    \/ \E b \in BOOLEAN : MouseMoved(b)
    \/ \E m \in Marks, x \in XExtents, y \in YExtents : MouseReleased(m, x, y)
    \/ \E x \in XExtents, y \in YExtents : MouseWheel(x, y)
    \/ \E x \in XExtents : Pan(x)
    \/ \E a \in {"x", "y", "both"} : DoubleClick(a)

-----------------------------------------------------------------------------
\* The list selects the plots that are visible; each of its entries is one.
IndicesLive ==
    /\ now.selected \subseteq DOMAIN now.plots
    /\ now.selected = Visible(now)
\* What was painted is what is to be seen, unless it is to be painted again.
ImageIsCurrent == now.changed \/ now.image = Drawn(now)
\* The spectrum shows the ranges of the filter, unless a refresh is to come or
\* an update was forgotten.
RegionsAreCurrent ==
    now.refreshing \/ now.updates \/ now.missed
      \/ \A i \in DOMAIN now.plots : now.plots[i].src = Spectrum => now.plots[i].marks = now.marks
\* Letting go of the zoom along one axis keeps that along the other, unless
\* that one starts where the axis does.
ZoomIsKept ==
    now.want.x # "low" /\ now.want.y # "low" =>
       \A a \in {"x", "y"} : now.zoom[a] = now.want[a]
=============================================================================

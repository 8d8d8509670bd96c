------------------------------- MODULE Cameras -------------------------------
(***************************************************************************)
(* The saved cameras: those of AnalysisState (backend/state.cpp), the one  *)
(* the scene looks through (gl/scene.cpp), the temporary one of a drag in  *)
(* the 3D pane (gui/glPane.cpp), and the combo box that names them         *)
(* (gui/mainFrame.cpp).  The scene's camera is a copy: what the user does  *)
(* to it reaches the state when the update timer next looks.               *)
(*                                                                         *)
(* A view stands for where a camera is and looks.  Offsets count from 1.   *)
(***************************************************************************)
EXTENDS Naturals, Sequences, FiniteSets
VARIABLE now

Name    == "cameras"
Names   == {"a", "b"}          \* bound: the names the user gives
Default == ""                  \* the camera that cannot be chosen or removed
Fit     == 0                   \* the view that shows the whole scene
Views   == {Fit, 1}            \* bound
MaxCams == 3                   \* bound
Cam     == [name : Names \cup {Default}, view : Views]
NoCam   == [name |-> "none"]

New(n, v) == [name |-> n, view |-> v]
\* State files: one without saved cameras, and one with two.
Files == {<<New(Default, 1)>>, <<New(Default, 0), New("b", 1), New("a", 0)>>}

\* astray: the scene may show a view that the state does not hold, and no
\* update is due to store it.
Init ==
    now = [cams |-> <<New(Default, Fit)>>, active |-> 1, combo |-> <<>>, text |-> Default,
           scene |-> New(Default, Fit), temp |-> NoCam, dragging |-> FALSE,
           updates |-> FALSE, refreshing |-> FALSE, ensure |-> FALSE, astray |-> FALSE, failed |-> FALSE]

Becomes(r) == now' = r

\* vector::erase at an offset.
RemoveAt(s, i) == SubSeq(s, 1, i - 1) \o SubSeq(s, i + 1, Len(s))
\* A movement, which a camera that is locked does not follow.
Moved(c, v) == [c EXCEPT !.view = v]
HaveTemp    == now.temp # NoCam
CommitTemp(s) == [s EXCEPT !.scene = s.temp, !.temp = NoCam]

\* updateCameraComboBox: the first camera is not offered; the active one is
\* selected; an ASSERT wants every other to have a name.
Rebuilt(s) ==
    [s EXCEPT !.failed = \E i \in 2..Len(s.cams) : s.cams[i].name = Default,
              !.combo = [i \in 1..(Len(s.cams) - 1) |-> [name |-> s.cams[i + 1].name, cam |-> i + 1]],
              !.text  = IF s.active > 1 THEN s.cams[s.active].name ELSE @]

\* FindString: the entry that the text of the box names.
Found(s, n)  == \E e \in 1..Len(s.combo) : s.combo[e].name = n
EntryOf(s, n) == CHOOSE e \in 1..Len(s.combo) : s.combo[e].name = n

\* VisController::setActiveCam.
Activated(s, i) ==
    [s EXCEPT !.active = i, !.scene = s.cams[i], !.temp = NoCam, !.astray = FALSE]

-----------------------------------------------------------------------------
(* The 3D pane *)

MouseDown == ~now.dragging /\ Becomes([now EXCEPT !.dragging = TRUE])

\* A movement of the mouse.  When shift is pressed or let go the movement so
\* far is made permanent and a new one begun; when the button turns out to be
\* up, the drag has ended.
MouseMoved(v, shifted, leftDown) ==
    LET s == IF shifted /\ HaveTemp THEN CommitTemp(now) ELSE now
        t == [s EXCEPT !.temp = Moved(s.scene, v), !.updates = TRUE]
    IN  /\ now.dragging
        /\ Becomes(IF leftDown THEN t ELSE [CommitTemp(t) EXCEPT !.dragging = FALSE])

\* Mutant: the pane does not say that its camera has moved.
Mut_MouseReleased ==
    Becomes([(IF HaveTemp THEN CommitTemp(now) ELSE now) EXCEPT !.dragging = FALSE, !.updates = FALSE])
MouseReleased ==
    Becomes([(IF HaveTemp THEN CommitTemp(now) ELSE now) EXCEPT !.dragging = FALSE, !.updates = TRUE])

MouseLeftWindow ==
    HaveTemp /\ Becomes([CommitTemp(now) EXCEPT !.dragging = FALSE, !.astray = TRUE])

Zoomed(s, v) == [s EXCEPT !.scene = Moved(@, v), !.temp = IF HaveTemp THEN Moved(@, v) ELSE @]
MouseWheel(v) == Becomes([Zoomed(now, v) EXCEPT !.updates = TRUE])
\* The keys + and - move the same camera and tell nobody.
KeyZoom(v)    == Becomes([Zoomed(now, v) EXCEPT !.astray = TRUE])
\* The space bar.
KeyFit        == Becomes([now EXCEPT !.scene = Moved(@, Fit), !.updates = TRUE])

-----------------------------------------------------------------------------
(* The main window *)

\* realignCameraButton: again nobody is told.
Realign(v) == Becomes([now EXCEPT !.scene = Moved(@, v), !.astray = TRUE])

TypeName(n) == Becomes([now EXCEPT !.text = n])

\* OnComboCameraEnter: a name in the list restores that camera, any other
\* saves a copy of the active one of the state, not of what is seen.
ComboEnter ==
    /\ now.text # Default
    /\ IF Found(now, now.text)
       THEN Becomes(Activated(now, now.combo[EntryOf(now, now.text)].cam))
       ELSE Len(now.cams) < MaxCams /\
            LET c == [now.cams[now.active] EXCEPT !.name = now.text]
            IN  Becomes(Rebuilt([now EXCEPT !.cams = Append(@, c), !.active = Len(now.cams) + 1,
                                            !.astray = @ \/ now.scene.view # c.view]))

ComboSelect(e) ==
    Becomes(Activated([now EXCEPT !.text = now.combo[e].name], now.combo[e].cam))

\* AnalysisState::removeCam: the active offset is kept while it is in range.
\* Mutant: it is kept whatever its range.
Mut_Removed(s, i) == [s EXCEPT !.cams = RemoveAt(@, i)]
Removed(s, i) ==
    LET cs == RemoveAt(s.cams, i)
    IN  [s EXCEPT !.cams = cs, !.active = IF @ > Len(cs) THEN 1 ELSE @]

\* OnButtonRemoveCam.  The scene goes on looking through its copy.
RemoveCam ==
    /\ Found(now, now.text)
    /\ LET e == EntryOf(now, now.text)
           s == [Removed(now, now.combo[e].cam) EXCEPT !.combo = RemoveAt(@, e), !.text = Default]
           r == IF Len(s.cams) > 1 THEN Rebuilt(s) ELSE s
       IN  Becomes([r EXCEPT !.astray = @ \/ now.combo[e].cam <= now.active])

\* OnGridCameraPropertyChange: the camera the text names is set, and shown if
\* it is the active one, whatever the scene had been turned to since.
SetCamProperty(i, c) ==
    LET s == [now EXCEPT !.cams[i] = c]
    IN  Becomes(IF i = s.active THEN [s EXCEPT !.scene = c, !.temp = NoCam, !.astray = FALSE]
                ELSE s)
GridChange ==
    /\ Found(now, now.text)
    /\ LET i == now.combo[EntryOf(now, now.text)].cam
       IN  \E v \in Views : SetCamProperty(i, [now.cams[i] EXCEPT !.view = v])

\* OnUpdateTimer, transferSceneCameraToState: a copy of the scene's camera
\* becomes the active one, its name as well.
Timer ==
    /\ ~now.refreshing /\ now.updates
    /\ Becomes([now EXCEPT !.cams[now.active] = now.scene, !.updates = FALSE, !.astray = FALSE])

\* loadFile, a state file: the scene takes the active camera only if the
\* state has saved ones; the refresh that follows shows the whole scene.
LoadState(cs) ==
    LET s == Rebuilt([now EXCEPT !.cams = cs, !.active = 1])
    IN  /\ ~now.refreshing
        /\ Becomes([(IF Len(cs) > 1 THEN Activated(s, 1)
                     ELSE [s EXCEPT !.text = "intro", !.astray = TRUE])
                    EXCEPT !.refreshing = TRUE, !.ensure = TRUE])

Refresh == ~now.refreshing /\ Becomes([now EXCEPT !.refreshing = TRUE])
\* OnFinishRefreshThread.
FinishRefresh ==
    /\ now.refreshing
    /\ LET fit == now.ensure /\ Len(now.cams) = 1
       IN  Becomes([now EXCEPT !.refreshing = FALSE, !.ensure = FALSE,
                               !.scene = IF fit THEN Moved(@, Fit) ELSE @,
                               !.astray = @ \/ fit])

NextWhile ==
    \/ MouseDown
    \/ \E v \in Views, b, c \in BOOLEAN : MouseMoved(v, b, c)
    \/ MouseReleased
    \/ MouseLeftWindow
    \/ \E v \in Views : MouseWheel(v) \/ KeyZoom(v)
    \/ KeyFit
    \/ \E v \in Views : Realign(v)
    \/ \E n \in Names : TypeName(n)
    \/ ComboEnter
    \/ \E e \in 1..Len(now.combo) : ComboSelect(e)
    \/ RemoveCam
    \/ GridChange
    \/ Timer
    \/ \E cs \in Files : LoadState(cs)
    \/ Refresh
    \/ FinishRefresh
Next == ~now.failed /\ NextWhile

-----------------------------------------------------------------------------
\* The active camera exists, so does every one the combo box offers, and a
\* temporary camera only lives while the mouse drags.
IndicesLive ==
    /\ now.active \in 1..Len(now.cams)
    /\ \A e \in 1..Len(now.combo) : now.combo[e].cam \in 2..Len(now.cams)
    /\ HaveTemp => now.dragging
\* What the scene looks through is the state's active camera, unless the
\* timer is about to store it or it strayed in one of the ways named above.
ViewIsStored ==
    now.updates \/ now.astray \/ now.scene.view = now.cams[now.active].view
=============================================================================

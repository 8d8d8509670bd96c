------------------------------ MODULE Selection ------------------------------
(***************************************************************************)
(* Objects dragged in the 3D pane (gui/glPane.cpp, gl/scene.cpp): a filter *)
(* draws a handle and makes a selection device for it (gl/select.cpp),     *)
(* which the update timer applies to the filter (backend/state.cpp).  The  *)
(* user may drag while the refresh thread replaces filters' devices, but   *)
(* the scene has the old objects until the thread has ended.               *)
(*                                                                         *)
(* Pointers are positions: of a device's filter in the tree and of its     *)
(* object in the scene, 0 when the filter was freed or the object is not   *)
(* shown.  Every filter draws one handle, and all are refreshed.           *)
(***************************************************************************)
EXTENDS Naturals, Sequences
VARIABLE now

Name       == "selection"
Values     == {0, 1}           \* bound: where a handle may be
MaxFilters == 2                \* bound
MaxUndo    == 1                \* bound

Device(own, v)  == [own |-> own, obj |-> 0, val |-> v, modified |-> FALSE]
Handle(of, v)   == [of |-> of, at |-> v]
Shown(d, k)     == [d EXCEPT !.obj = k]

\* phase: no refresh; the thread was started; it has begun.  undefined: freed
\* memory was used, or an object beyond the last one.
Init == now = [tree |-> <<0>>, undo |-> <<>>, objects |-> <<Handle(1, 0)>>, devices |-> <<Shown(Device(1, 0), 1)>>,
               lastSelected |-> 0, selectionMode |-> FALSE, lastHovered |-> 0, pending |-> FALSE,
               phase |-> "idle", abort |-> FALSE, failed |-> FALSE, undefined |-> FALSE]

Becomes(r) == now' = r

-----------------------------------------------------------------------------
(* The mouse *)

\* getBinding: the devices whose object is the one selected.
Bound(s) == {i \in DOMAIN s.devices : s.devices[i].obj = s.lastSelected}
Freed(s) == \E i \in DOMAIN s.devices : s.devices[i].own = 0
\* applyTransform: the value is kept for good only when permanent.
Transformed(d, v, permanent) == [d EXCEPT !.modified = TRUE, !.val = IF permanent THEN v ELSE @]
\* applyDevice.  Mutant: the tree is not told.
Moved(s, v, permanent) ==
    [s EXCEPT !.objects[s.lastSelected].at = v,
              !.devices = [i \in DOMAIN @ |-> IF i \in Bound(s) THEN Transformed(@[i], v, permanent) ELSE @[i]]]
Told(s) == [s EXCEPT !.pending = TRUE, !.abort = @ \/ s.phase = "running"]
Mut_ApplyDevice(s, v, permanent) ==
    IF s.lastSelected > Len(s.objects) \/ Freed(s) THEN [s EXCEPT !.undefined = TRUE]
    ELSE IF Bound(s) = {} THEN s ELSE Moved(s, v, permanent)
ApplyDevice(s, v, permanent) ==
    IF s.lastSelected > Len(s.objects) \/ Freed(s) THEN [s EXCEPT !.undefined = TRUE]
    ELSE IF Bound(s) = {} THEN s
    ELSE IF permanent THEN Told(Moved(s, v, permanent)) ELSE Moved(s, v, permanent)

\* selectionTest, glSelect: nothing hit is a drag of the camera.
MouseDown(k) ==
    /\ ~now.selectionMode
    /\ Becomes([now EXCEPT !.lastSelected = k, !.selectionMode = (k # 0)])
MouseMoved(v) == now.selectionMode /\ Becomes(ApplyDevice(now, v, FALSE))
\* mouseReleased, mouseLeftWindow.
MouseReleased(v) ==
    now.selectionMode /\ Becomes([ApplyDevice(now, v, TRUE) EXCEPT !.selectionMode = FALSE])
\* hoverTest, and the bindings drawn for what is hovered over.
HoverTest(k) ==
    /\ ~now.selectionMode
    /\ Becomes([now EXCEPT !.lastHovered = k, !.undefined = (k # 0 /\ Freed(now))])

-----------------------------------------------------------------------------
(* The tree: a handler changes it and starts the refresh thread *)

Start(s) == [s EXCEPT !.phase = "starting", !.failed = FALSE]
Pushed(s) == IF Len(s.undo) < MaxUndo THEN Append(s.undo, s.tree) ELSE <<s.tree>>

AddFilter ==
    /\ now.phase = "idle" /\ Len(now.tree) < MaxFilters
    /\ Becomes(Start([now EXCEPT !.undo = Pushed(now), !.tree = Append(@, 0)]))
SetProperty(k, v) ==
    /\ now.phase = "idle" /\ now.tree[k] # v
    /\ Becomes(Start([now EXCEPT !.undo = Pushed(now), !.tree[k] = v]))
\* The filters without one of them.
RemoveAt(s, i) == SubSeq(s, 1, i - 1) \o SubSeq(s, i + 1, Len(s))
\* A filter that is freed frees its devices (~Filter).
Without(i, k) == IF i = k THEN 0 ELSE IF i > k THEN i - 1 ELSE i
RemoveFilter(k) ==
    /\ now.phase = "idle"
    /\ Becomes(Start([now EXCEPT !.undo = Pushed(now), !.tree = RemoveAt(@, k),
            !.devices = [i \in DOMAIN @ |-> [@[i] EXCEPT !.own = Without(now.devices[i].own, k)]],
            !.objects = [i \in DOMAIN @ |-> [@[i] EXCEPT !.of = Without(now.objects[i].of, k)]]]))
\* popUndoStack: the filters of the tree are replaced by clones.
Undo ==
    /\ now.phase = "idle" /\ now.undo # <<>>
    /\ Becomes(Start([now EXCEPT !.undo = SubSeq(@, 1, Len(@) - 1), !.tree = now.undo[Len(now.undo)],
            !.devices = [i \in DOMAIN @ |-> [@[i] EXCEPT !.own = 0]],
            !.objects = [i \in DOMAIN @ |-> [@[i] EXCEPT !.of = 0]]]))

\* applyBindings, resetModifiedBindings.
Modified(s) == {i \in DOMAIN s.devices : s.devices[i].modified}
AppliedTo(s, k) ==
    IF \E i \in Modified(s) : s.devices[i].own = k
    THEN s.devices[CHOOSE i \in Modified(s) : s.devices[i].own = k].val ELSE s.tree[k]
ApplyBindingsToTree(s) ==
    [s EXCEPT !.pending = FALSE, !.undefined = Freed(s),
              !.undo = IF Modified(s) # {} THEN Pushed(s) ELSE @,
              !.tree = [k \in DOMAIN @ |-> AppliedTo(s, k)],
              !.devices = [i \in DOMAIN @ |-> [@[i] EXCEPT !.modified = FALSE]]]
OnUpdateTimer == now.phase = "idle" /\ now.pending /\ Becomes(Start(ApplyBindingsToTree(now)))
\* The timer finds that a monitored file has changed.
MonitorUpdates == now.phase = "idle" /\ ~now.pending /\ Becomes(Start(now))

-----------------------------------------------------------------------------
(* The refresh thread, and its end *)

\* TreeState::refresh.  Mutant: the devices of the last refresh stay.
Mut_Cleared(s) == [s EXCEPT !.phase = "running", !.pending = FALSE, !.abort = FALSE]
Cleared(s) == [s EXCEPT !.phase = "running", !.devices = <<>>, !.pending = FALSE, !.abort = FALSE]
Refresh == now.phase = "starting" /\ Becomes(Cleared(now))
\* refreshFilterTree: the devices of a filter are made anew.
Visit ==
    /\ now.phase = "running" /\ ~now.abort /\ Len(now.devices) < Len(now.tree)
    /\ LET k == Len(now.devices) + 1 IN Becomes([now EXCEPT !.devices = Append(@, Device(k, now.tree[k]))])
SetAbort == now.phase # "idle" /\ Becomes([now EXCEPT !.abort = TRUE])

\* VisController::updateScene, clearObjs: what was selected stays so.
\* Mutant: what was hovered over as well.
Replaced(s) ==
    [s EXCEPT !.objects = [k \in DOMAIN s.tree |-> Handle(k, s.tree[k])],
              !.devices = [k \in DOMAIN @ |-> Shown(@[k], k)], !.phase = "idle"]
Mut_UpdateScene(s) == Replaced(s)
UpdateScene(s) == [Replaced(s) EXCEPT !.lastHovered = 0]
Finish ==
    /\ now.phase = "running" /\ ~now.abort /\ Len(now.devices) = Len(now.tree)
    /\ Becomes(UpdateScene(now))
\* An error, or the abort, is noticed: the scene stays as it is.
Fail == now.phase = "running" /\ Becomes([now EXCEPT !.phase = "idle", !.failed = TRUE, !.abort = FALSE])

Next ==
    /\ ~now.undefined
    /\ \/ \E k \in 0..Len(now.objects) : MouseDown(k) \/ HoverTest(k)
       \/ \E v \in Values : MouseMoved(v) \/ MouseReleased(v)
       \/ AddFilter \/ Undo \/ OnUpdateTimer \/ MonitorUpdates
       \/ \E k \in DOMAIN now.tree : RemoveFilter(k) \/ \E v \in Values : SetProperty(k, v)
       \/ Refresh \/ Visit \/ SetAbort \/ Finish \/ Fail

-----------------------------------------------------------------------------
(* Properties *)

\* While no refresh is on, each device is that of a filter of the tree, which
\* has no other (the ASSERT(haveBind) of applyBindings), and what is hovered
\* over is in the scene.
HandlesAreLive ==
    now.phase = "idle" =>
        /\ \A i, j \in DOMAIN now.devices : now.devices[i].own \in DOMAIN now.tree
                                            /\ (now.devices[i].own = now.devices[j].own => i = j)
        /\ now.lastHovered \in 0..Len(now.objects)

\* While no refresh is on and nothing is dragged, a drag is due to be applied
\* if and only if a device has it, and the scene shows the handles where the
\* filters have them, unless one is due or the last refresh failed.
DragsAreApplied ==
    (now.phase = "idle" /\ ~now.selectionMode) =>
        /\ now.pending = (Modified(now) # {})
        /\ ~now.pending /\ ~now.failed => now.objects = [k \in DOMAIN now.tree |-> Handle(k, now.tree[k])]
=============================================================================

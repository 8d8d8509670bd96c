------------------------------ MODULE Animation ------------------------------
(***************************************************************************)
(* The export of an animation: the dialog in which properties are given    *)
(* key frames (gui/dialogs/animateFilterDialog.cpp), the animator that     *)
(* tells their values (backend/animator.cpp), and the loop that sets them  *)
(* frame by frame (gui/mainFrame.cpp).  While the dialog is up, and while  *)
(* a frame is prepared, the tree is taken out of the analysis.             *)
(*                                                                         *)
(* A property is a filter and a key; the tree is the values of those that  *)
(* can be animated.                                                        *)
(***************************************************************************)
EXTENDS Naturals, Sequences, FiniteSets, FiniteSetsExt
CONSTANTS
    Props,                  \* what can be animated: filters and keys    bound
    FrameProps,             \* what the key frame dialogs make           bound
    MaxKeys, MaxExports     \* bounds
VARIABLE now

Name       == "animation"
Orig       == [p \in Props |-> 0]
NoTree     == <<>>

\* A key frame property: a property, how its values go over, and the frames
\* with their values.
IsFrameProp(k) ==
    /\ k.prop \in Props /\ k.mode \in {"linear", "step", "list"}
    /\ k.data \in Seq([at : Nat, val : Nat]) /\ k.data # <<>>
MinFrame(k) == Min({k.data[i].at : i \in DOMAIN k.data})
MaxFrame(k) == Max({k.data[i].at : i \in DOMAIN k.data})
LastFrame(ks) == Max({0} \cup {MaxFrame(ks[i]) : i \in DOMAIN ks})

\* checkSelfConsistent: frames of the same property overlap.
Consistent(ks) ==
    \A i, j \in DOMAIN ks : i # j /\ ks[i].prop = ks[j].prop =>
        MaxFrame(ks[i]) < MinFrame(ks[j]) \/ MaxFrame(ks[j]) < MinFrame(ks[i])

\* InterpData::getInterpolatedData, within the frames of k.
Interpolated(k, f) ==
    CASE k.mode = "step"   -> k.data[1].val
      [] k.mode = "linear" ->
           LET a == k.data[1]  b == k.data[2]
           IN  (a.val * (b.at - f) + b.val * (f - a.at)) \div (b.at - a.at)
      [] k.mode = "list"   -> k.data[f - k.data[1].at + 1].val

\* getPropertiesAtFrame: what is active at a frame; and, for each filter of
\* which nothing is, the one of its properties that ended last.
Active(ks, f) == {i \in DOMAIN ks : f \in MinFrame(ks[i])..MaxFrame(ks[i])}
Held(ks, f) ==
    LET idle  == {i \in DOMAIN ks : MaxFrame(ks[i]) <= f
                     /\ \A j \in Active(ks, f) : ks[j].prop[1] # ks[i].prop[1]}
        after(i, j) == \/ MaxFrame(ks[i]) > MaxFrame(ks[j])
                       \/ MaxFrame(ks[i]) = MaxFrame(ks[j]) /\ i > j
    IN  {i \in idle : \A j \in idle \ {i} : ks[j].prop[1] = ks[i].prop[1] => after(i, j)}

\* getInterpolatedFilterData: the value of a property at a frame, or at the
\* last frame before it that had one.  Mutant: the first.
Mut_ValueAt(ks, p, f) ==
    LET own == {i \in DOMAIN ks : ks[i].prop = p}
        k   == ks[Min(own)]
    IN  Interpolated(k, IF f > MaxFrame(k) THEN MaxFrame(k) ELSE IF f < MinFrame(k) THEN MinFrame(k) ELSE f)
ValueAt(ks, p, f) ==
    LET on    == {i \in Active(ks, f) : ks[i].prop = p}
        ended == {i \in DOMAIN ks : ks[i].prop = p /\ MaxFrame(ks[i]) <= f}
        last  == CHOOSE i \in ended : \A j \in ended : MaxFrame(ks[j]) <= MaxFrame(ks[i])
    IN  IF on # {} THEN Interpolated(ks[Min(on)], f)
        ELSE Interpolated(ks[last], MaxFrame(ks[last]))

\* getModifiedTree.
ModifiedTree(t, ks, f) ==
    LET set == {ks[i].prop : i \in Active(ks, f) \cup Held(ks, f)}
    IN  [p \in Props |-> IF p \in set THEN ValueAt(ks, p, f) ELSE t[p]]

\* tree: what the analysis holds.  taken: what the exporter holds instead.
\* cut: a property was refused while the tree was taken out.
Init ==
    now = [phase |-> "idle", tree |-> Orig, taken |-> NoTree, keys |-> <<>>, exports |-> 0,
           frame |-> 0, timers |-> TRUE, updating |-> FALSE, before |-> Orig, cut |-> FALSE]

Becomes(r) == now' = r
Swapped(s) == [s EXCEPT !.tree = s.taken, !.taken = s.tree]

-----------------------------------------------------------------------------
(* The dialog *)

\* setAnimationState maps the filters of the saved key frames to those of the
\* tree before the dialog has a map of them: none is found, all are dropped.
\* An animation whose last frame is 0 is not handed over at all.
OpenDialog ==
    /\ now.phase = "idle" /\ now.tree # NoTree /\ now.exports < MaxExports
    /\ Becomes(Swapped([now EXCEPT !.phase = "dialog", !.keys = <<>>, !.before = now.tree]))

AddProp(k)    == now.phase = "dialog" /\ Len(now.keys) < MaxKeys
                 /\ Becomes([now EXCEPT !.keys = Append(@, k)])
RemoveProp(i) == now.phase = "dialog" /\ Becomes([now EXCEPT !.keys = SubSeq(@, 1, i - 1) \o SubSeq(@, i + 1, Len(@))])

\* The key frames are kept in the analysis even if the user cancels.
OnCancel == now.phase = "dialog" /\ Becomes([Swapped(now) EXCEPT !.phase = "idle"])
OnOK ==
    /\ now.phase = "dialog" /\ now.keys # <<>> /\ Consistent(now.keys)
    /\ Becomes([Swapped(now) EXCEPT !.phase = "exporting", !.frame = 0, !.exports = @ + 1,
                                    !.timers = FALSE, !.updating = TRUE])

-----------------------------------------------------------------------------
(* The frames *)

\* The export ends: the scene is updated, the timers start again.  A tree
\* that is still out is never put back.
\* Mutant: the timers are not started again.
Mut_Ended(s) == [s EXCEPT !.phase = "idle", !.taken = NoTree, !.updating = FALSE]
Ended(s) == [s EXCEPT !.phase = "idle", !.taken = NoTree, !.timers = TRUE, !.updating = FALSE]

\* The user stops the export, or all frames but the last key frame are done.
Stop == now.phase = "exporting" /\ Becomes(Ended(now))

\* One frame: its values are set, the tree is refreshed and the results are
\* written; the refresh or a write may fail.
Frame(fails) ==
    /\ now.phase = "exporting" /\ now.frame < LastFrame(now.keys)
    /\ LET s == [now EXCEPT !.tree = ModifiedTree(@, now.keys, now.frame)]
       IN  Becomes(IF fails THEN Ended(s) ELSE [s EXCEPT !.frame = @ + 1])

\* A filter refuses a value, with the tree out.
Refused ==
    /\ now.phase = "exporting" /\ now.frame < LastFrame(now.keys)
    /\ Active(now.keys, now.frame) \cup Held(now.keys, now.frame) # {}
    /\ Becomes(Ended([Swapped(now) EXCEPT !.cut = TRUE]))

Next ==
    \/ OpenDialog \/ OnCancel \/ OnOK \/ Stop \/ Refused
    \/ \E k \in FrameProps : AddProp(k)
    \/ \E i \in 1..Len(now.keys) : RemoveProp(i)
    \/ \E b \in BOOLEAN : Frame(b)

-----------------------------------------------------------------------------
\* What a property is to be at a frame: the value at that frame, or at the
\* last before it, of the key frames that began last; what it was, before all.
Due(p, f) ==
    LET begun == {i \in DOMAIN now.keys : now.keys[i].prop = p /\ MinFrame(now.keys[i]) <= f}
        i     == CHOOSE i \in begun : \A j \in begun : MinFrame(now.keys[j]) <= MinFrame(now.keys[i])
        k     == now.keys[i]
    IN  IF begun = {} THEN now.before[p]
        ELSE Interpolated(k, IF f < MaxFrame(k) THEN f ELSE MaxFrame(k))

\* Each frame written shows every property as its key frames say.
FramesAreDue ==
    now.phase = "exporting" /\ now.frame > 0 => \A p \in Props : now.tree[p] = Due(p, now.frame - 1)
\* The timers stop only while frames are written, and nothing stays locked.
TimersRun == now.phase # "exporting" => now.timers /\ ~now.updating
\* No tree is lost, unless a filter refused its value.
TreeIsKept == now.phase = "idle" => now.tree # NoTree \/ now.cut
=============================================================================

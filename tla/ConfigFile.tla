----------------------------- MODULE ConfigFile -----------------------------
(***************************************************************************)
(* What the program remembers from one start to the next: config.xml       *)
(* (backend/configFile.cpp), the preferences (gui/dialogs/prefDialog.cpp), *)
(* and what the main window takes from it and puts into it.                *)
(*                                                                         *)
(* Left out are values that are only passed through: those of the default  *)
(* filters, sashes, tips, the size of the window, the kind of camera and,  *)
(* on this platform without effect, the access to the network.             *)
(***************************************************************************)
EXTENDS Naturals, Sequences, SequencesExt, Functions
VARIABLE now

Name      == "config"
Files     == {"a", "b", "a&b"}              \* bound; the last is no XML unless escaped
MaxRecent == 2                              \* bound: MAX_RECENT is 9
Panels    == {"control", "plotlist"}        \* bound: the raw data is as these
Types     == {"clip", "info"}               \* bound
Rates     == {100, 400}                     \* bound: of the sliders, in percent
MaxChanges == 3                             \* bound: changes in the life of the file
MaxStarts == 3                              \* bound

Unset   == [p \in {} |-> TRUE]              \* startupPanelView before it is filled
Default == [recent |-> <<>>, defaults |-> <<>>, panels |-> Unset, mode |-> "remember",
            zoom |-> 100, points |-> {}]
NoFile  == [kind |-> "none"]
NoXML   == [kind |-> "no xml"]
\* Of another version: with a default for a filter that is not known here.
Newer   == [kind |-> "newer", conf |-> [Default EXCEPT !.recent = <<"a">>]]
Closed  == [open |-> FALSE]

-----------------------------------------------------------------------------
(* Panels *)

GetPanelEnabled(c, p) == (c.mode = "none" \/ c.panels = Unset) \/ c.panels[p]
Shown(c) == [p \in Panels |-> GetPanelEnabled(c, p)]

\* Mutant: the panels specified follow the view as well.
Mut_SetPanelEnabled(c, p, on, permanent) ==
    [c EXCEPT !.panels = [IF @ = Unset THEN [q \in Panels |-> TRUE] ELSE @ EXCEPT ![p] = on]]
SetPanelEnabled(c, p, on, permanent) ==
    LET filled == IF c.panels = Unset THEN [q \in Panels |-> TRUE] ELSE c.panels
    IN  [c EXCEPT !.panels = IF c.mode # "specify" \/ permanent THEN [filled EXCEPT ![p] = on]
                             ELSE filled]

-----------------------------------------------------------------------------
(* The file *)

\* Names are not escaped; the panels are written once they are filled.
\* Mutant: only those specified are written.
Mut_Written(c) ==
    IF "a&b" \in Range(c.recent) THEN NoXML
    ELSE [kind |-> "config", conf |-> [c EXCEPT !.panels = IF c.mode = "specify" THEN @ ELSE Unset]]
Written(c) == IF "a&b" \in Range(c.recent) THEN NoXML ELSE [kind |-> "config", conf |-> c]

\* The recent files replace those there are, the defaults are added.
ReadRecent(c, f)   == [c EXCEPT !.recent = f.recent]
ReadDefaults(c, f) == [c EXCEPT !.defaults = @ \o f.defaults]
\* Without the element the mode stays what it was; in mode none the panels are
\* there, and none of them is set.
ReadPanels(c, f) ==
    IF f.panels = Unset THEN c
    ELSE [c EXCEPT !.mode = f.mode,
                   !.panels = [p \in Panels |-> f.mode # "none" /\ f.panels[p]]]
\* A rate of MAX_MOUSE_PERCENT is not below it.
ReadMouse(c, f) == [c EXCEPT !.zoom = IF f.zoom < 400 THEN f.zoom ELSE @]
ReadRest(c, f)  == [c EXCEPT !.points = f.points]
ReadAll(c, f)   == ReadRest(ReadMouse(ReadPanels(ReadDefaults(ReadRecent(c, f), f), f), f), f)

\* An error in the defaults leaves what comes behind them unread.
ReadFile(c, f) ==
    CASE f.kind \in {"none", "no xml"} -> c
      [] f.kind = "newer"  -> ReadRecent(c, f.conf)
      [] f.kind = "config" -> ReadAll(c, f.conf)

-----------------------------------------------------------------------------
(* Recent files *)

\* The first place of x, or 0.
Place(q, x) == SelectInSeq(q, LAMBDA y : y = x)
Dropped(q, x) == IF Place(q, x) = 0 THEN q ELSE RemoveAt(q, Place(q, x))

\* Mutant: the oldest stays.
Mut_AddRecentFile(c, f) ==
    [c EXCEPT !.recent = IF Len(@) = MaxRecent THEN @ ELSE Append(@, f)]
AddRecentFile(c, f) ==
    [c EXCEPT !.recent = LET r == Append(@, f) IN IF Len(r) > MaxRecent THEN Tail(r) ELSE r]
\* The first of that name only.
RemoveRecentFile(c, f) == [c EXCEPT !.recent = Dropped(@, f)]

\* wxFileHistory: the newest first, each name once.
AddToHistory(menu, f) ==
    LET r == <<f>> \o Dropped(menu, f) IN IF Len(r) > MaxRecent THEN Front(r) ELSE r
\* restoreConfigDefaults: the oldest first.
History(q) ==
    LET h[i \in 0..Len(q)] == IF i = 0 THEN <<>> ELSE AddToHistory(h[i - 1], q[i]) IN h[Len(q)]

-----------------------------------------------------------------------------
Becomes(r) == now' = r
\* limit 1 stands for the limit a start has without a configuration.  ticked:
\* the panels as specified; ignored: those for which the preferences stored
\* something else than what is in view; unwanted: files dropped from the menu.
Start(s, f) ==
    LET c == ReadFile(Default, f)
        bad == f.kind = "newer"
    IN  [s EXCEPT !.running = TRUE, !.conf = c, !.visible = Shown(c), !.ticked = Shown(c),
                  !.ignored = {}, !.unwanted = {}, !.starts = @ + 1,
                  !.menu  = IF bad THEN <<>> ELSE History(c.recent),
                  !.limit = IF bad \/ c.points = {} THEN 1 ELSE CHOOSE l \in c.points : TRUE]
Init ==
    \E f \in {NoFile, Newer} :
       now = Start([running |-> TRUE, conf |-> Default, disk |-> f, menu |-> <<>>, limit |-> 1,
                    visible |-> Shown(Default), ticked |-> Shown(Default), ignored |-> {},
                    unwanted |-> {}, dialog |-> Closed, edits |-> 0, starts |-> 0], f)

Idle   == now.running /\ ~now.dialog.open
Edited == [now EXCEPT !.edits = @ + 1]
Edits  == now.edits < MaxChanges

\* OnFileOpen, OnFileSave, OnFileSaveAs.
OpenOrSave(f) ==
    Idle /\ Edits /\ Becomes([Edited EXCEPT !.conf = AddRecentFile(@, f), !.menu = AddToHistory(@, f),
                                            !.unwanted = @ \ {f}])
\* OnRecentFile: what cannot be loaded is dropped, what can stays where it is.
OnRecentFile(i) ==
    /\ Idle /\ Edits
    /\ LET f == now.menu[i]
       IN  Becomes([Edited EXCEPT !.conf = RemoveRecentFile(@, f), !.menu = RemoveAt(@, i),
                                  !.unwanted = @ \cup {f}])

\* OnViewControlPane, OnControlUnsplit and the like.
TogglePanel(p) ==
    /\ Idle /\ Edits
    /\ LET on == ~now.visible[p]
       IN  Becomes([Edited EXCEPT !.visible[p] = on, !.conf = SetPanelEnabled(@, p, on, FALSE),
                                  !.ignored = @ \ {p}])

\* OnCheckLimitOutput, and OnTextLimitOutput with the box ticked.
LimitOutput(l) ==
    Idle /\ Edits /\ Becomes([Edited EXCEPT !.limit = l, !.conf.points = {l}])

\* OnClose; a write that is cut short is no XML, and a crash writes nothing.
OnClose(whole) ==
    Idle /\ Becomes([now EXCEPT !.running = FALSE, !.disk = IF whole THEN Written(now.conf) ELSE NoXML])
Crash   == now.running /\ Becomes([now EXCEPT !.running = FALSE, !.dialog = Closed])
Restart == ~now.running /\ now.starts < MaxStarts /\ Becomes(Start(now, now.disk))

-----------------------------------------------------------------------------
(* The preferences.  cur: the place of the selected filter among the       *)
(* defaults, behind them while it is not (yet) one.                        *)

NoFilter == [type |-> "none", at |-> 0]

OnEditPreferences ==
    /\ Idle
    /\ Becomes([now EXCEPT !.dialog =
           [open |-> TRUE, defaults |-> now.conf.defaults, cur |-> NoFilter, checks |-> Shown(now.conf),
            combo |-> now.conf.mode, zoom |-> now.conf.zoom]])
\* setPanelDefaults and setStartupCheckboxEnables: to remember ticks all boxes.
Ticked(d, m) == [d EXCEPT !.combo = m, !.checks = IF m = "remember" THEN [p \in Panels |-> TRUE] ELSE @]
Opened == now.dialog.open /\ now.running
Dialog(d) == Edits /\ Becomes([Edited EXCEPT !.dialog = d])

\* Mutant: the filters that have a default already are not looked for.
Mut_OnFilterListClick(t) ==
    Opened /\ Becomes([now EXCEPT !.dialog.cur = [type |-> t, at |-> 0]])
OnFilterListClick(t) ==
    /\ Opened
    /\ Becomes([now EXCEPT !.dialog.cur =
                   [type |-> t, at |-> Place(now.dialog.defaults, t)]])
\* Whether the value is accepted or not, the filter becomes a default.
OnFilterCellChange ==
    /\ Opened /\ now.dialog.cur # NoFilter /\ now.dialog.cur.at = 0
    /\ LET d == now.dialog
       IN  Dialog([d EXCEPT !.defaults = Append(@, d.cur.type), !.cur.at = Len(d.defaults) + 1])
\* The last takes the place of the one that is reset.
OnResetFilterButton ==
    /\ Opened /\ now.dialog.cur.at # 0
    /\ LET d == now.dialog
       IN  Dialog([d EXCEPT !.defaults = Front([i \in DOMAIN @ |-> IF i = d.cur.at THEN Last(@) ELSE @[i]]),
                            !.cur.at = 0])
OnResetFilterAllButton ==
    Opened /\ now.dialog.cur # NoFilter /\ Dialog([now.dialog EXCEPT !.defaults = <<>>, !.cur.at = 0])

OnStartupPanelCombo(m) == Opened /\ Dialog(Ticked(now.dialog, m))
TickPanel(p) == Opened /\ now.dialog.combo = "specify" /\ Dialog([now.dialog EXCEPT !.checks[p] = ~@])
OnMouseZoomSlider(r) == Opened /\ Dialog([now.dialog EXCEPT !.zoom = r])

Cancel == Opened /\ Becomes([now EXCEPT !.dialog = Closed])
\* The panels are stored in any mode, and the mode is stored after them.
OK ==
    /\ Opened
    /\ LET d == now.dialog
           Set(c, p) == SetPanelEnabled(c, p, d.checks[p], TRUE)
           c == Set(Set(now.conf, "control"), "plotlist")
       IN  Becomes([now EXCEPT
               !.dialog = Closed, !.ticked = d.checks,
               !.ignored = {p \in Panels : d.checks[p] # now.visible[p]},
               !.conf = [c EXCEPT !.mode = d.combo, !.zoom = d.zoom, !.defaults = d.defaults]])

Next ==
    \/ \E f \in Files : OpenOrSave(f)
    \/ \E i \in DOMAIN now.menu : OnRecentFile(i)
    \/ \E p \in Panels : TogglePanel(p) \/ TickPanel(p)
    \/ \E l \in {0, 2} : LimitOutput(l)         \* bound
    \/ \E whole \in BOOLEAN : OnClose(whole)
    \/ Crash \/ Restart \/ OnEditPreferences \/ Cancel \/ OK
    \/ \E t \in Types : OnFilterListClick(t)
    \/ OnFilterCellChange \/ OnResetFilterButton \/ OnResetFilterAllButton
    \/ \E m \in {"none", "remember", "specify"} : OnStartupPanelCombo(m)
    \/ \E r \in Rates : OnMouseZoomSlider(r)

-----------------------------------------------------------------------------
\* What is written is what a start reads: the recent files, the defaults, the
\* panels to be shown, the rates and the limit.  Left out are a name that needs
\* escaping and the largest rate, which are lost.
ConfigIsReadBack ==
    LET c == now.conf  d == ReadFile(Default, Written(c))
    IN  Written(c) # NoXML =>
           /\ [d EXCEPT !.panels = Unset, !.zoom = 0] = [c EXCEPT !.panels = Unset, !.zoom = 0]
           /\ Shown(d) = Shown(c)
           /\ d.zoom # c.zoom => c.zoom = 400
\* "Show panels visible at last shutdown when starting program": what a start
\* would show is what is in view; "Show selected panels when starting program":
\* it is what was ticked, whatever was shown or hidden since.  Left out are the
\* panels for which the preferences, confirmed in any page, stored another.
PanelsAreRemembered ==
    now.running =>
       /\ now.conf.mode = "remember" =>
             \A p \in Panels \ now.ignored : Shown(now.conf)[p] = now.visible[p]
       /\ now.conf.mode = "specify" => Shown(now.conf) = now.ticked
\* The limit of points is the one that the next start will have.
LimitIsRemembered == now.running /\ now.conf.points # {} => now.conf.points = {now.limit}
\* The files that the next start will list are of the menu, with the newest
\* first.  Left out are those dropped from the menu: of a name that is listed
\* twice one stays.
MenuIsRemembered ==
    LET r == now.conf.recent
    IN  (now.running /\ now.disk # Newer) =>
           /\ Range(r) \subseteq Range(now.menu) \cup now.unwanted
           /\ r # <<>> /\ Last(r) \notin now.unwanted => now.menu # <<>> /\ now.menu[1] = Last(r)
\* A type of filter has one default, and the one selected is at its place.
DefaultsAreUnique ==
    /\ IsInjective(now.conf.defaults)
    /\ now.dialog.open =>
          /\ IsInjective(now.dialog.defaults)
          /\ now.dialog.cur.at # 0 => now.dialog.defaults[now.dialog.cur.at] = now.dialog.cur.type
=============================================================================

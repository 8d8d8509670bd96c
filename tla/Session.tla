------------------------------- MODULE Session -------------------------------
(***************************************************************************)
(* State files: opening, merging, saving, the automatic save and what is   *)
(* made of it when the program starts again (backend/state.cpp and the     *)
(* file menu of gui/mainFrame.cpp).  A process may crash; the next one     *)
(* finds the files.                                                        *)
(*                                                                         *)
(* Of the analysis remain what makes it worth saving (tree: its filters    *)
(* and stashes) and the post effects.  Relative paths are left out.        *)
(***************************************************************************)
EXTENDS Naturals, Sequences
CONSTANTS
    Trees,     \* what there may be worth saving, 0 is nothing           bound
    MaxDead    \* bound: autosaves left by crashes
VARIABLE now

Name    == "session"
Doc     == [tree : Trees, fx : BOOLEAN]
Empty   == [tree |-> 0, fx |-> FALSE]
Absent  == [absent |-> TRUE]
Broken  == [broken |-> TRUE]                \* cut short, or not a state file
\* "s" is what the user types for s.xml; "auto" the autosave of a process
\* that died, which is gone once it has been restored.
NoFile  == ""
Paths   == {"s", "s.xml"}
WithXml(p) == "s.xml"

\* The saves of dead sessions without that one, which is moved or unlinked.
RemoveAt(s, i) == SubSeq(s, 1, i - 1) \o SubSeq(s, i + 1, Len(s))

\* One process: what it holds, and nothing yet restored.
Fresh(s) == [s EXCEPT !.doc = Empty, !.file = NoFile, !.modified = FALSE, !.menu = FALSE,
                      !.silent = FALSE, !.starting = TRUE, !.auto = Absent]

\* silent: the analysis was changed, or its change forgotten, without the
\* modification level telling.  lost: work was thrown away unasked.
Init ==
    \E foreign \in {Absent, Broken} :
       now = [doc |-> Empty, file |-> NoFile, modified |-> FALSE, menu |-> FALSE,
              silent |-> FALSE, starting |-> TRUE, auto |-> Absent,
              disk |-> [p \in Paths |-> IF p = "s" THEN foreign ELSE Absent],
              dead |-> <<>>, lost |-> FALSE]

Becomes(r) == now' = r

HasStateData(d)    == d.tree # 0
StateIsModified(s) == HasStateData(s.doc) /\ s.modified
SaveStatus(s)      == [s EXCEPT !.menu = StateIsModified(s) /\ s.file # NoFile]
Readable(f)        == f \notin {Absent, Broken}

\* AnalysisState::save writes everything; load reads everything, but the
\* effects it has read are never put in place.
Written(d) == d
Read(f)    == [f EXCEPT !.fx = FALSE]
OnDisk(d)  == \E p \in Paths : Readable(now.disk[p]) /\ Read(now.disk[p]) = Read(d)
Loss(s)    == [s EXCEPT !.lost = @ \/ (HasStateData(now.doc) /\ ~OnDisk(now.doc))]

\* The level only rises: a load that sets it to none leaves it as it is.
SetModifyLevel(s, none) == [s EXCEPT !.modified = @ \/ ~none]

Outcomes == {"saved", "not opened", "cut short"}
Saved(s, out) == IF out = "saved" THEN [s EXCEPT !.modified = FALSE, !.silent = FALSE] ELSE s
\* A save that fails halfway has already emptied the file.
SaveTo(s, p, out) ==
    LET r == Saved(s, out)
    IN  CASE out = "saved"      -> [r EXCEPT !.disk[p] = Written(s.doc)]
          [] out = "not opened" -> r
          [] out = "cut short"  -> [r EXCEPT !.disk[p] = Broken, !.silent = TRUE]

-----------------------------------------------------------------------------
(* Work *)

\* Filters, the animation: nothing raises the level.
EditTree(t) == Becomes([now EXCEPT !.doc.tree = t, !.silent = TRUE])

\* Undo and redo.
UndoRedo(t) == Becomes(SetModifyLevel([now EXCEPT !.doc.tree = t], FALSE))

\* Stashes, cameras and effects raise it.  Mutant: the new stash does not.
Mut_EditAncillary(t, fx) == Becomes(SaveStatus([now EXCEPT !.doc = [tree |-> t, fx |-> fx]]))
EditAncillary(t, fx) ==
    Becomes(SaveStatus(SetModifyLevel([now EXCEPT !.doc = [tree |-> t, fx |-> fx]], FALSE)))

-----------------------------------------------------------------------------
(* The file menu *)

\* The file written ends in .xml, the state keeps the name without; only the
\* name that was typed is looked for before something is overwritten.
SaveAs(s, p, out) ==
    LET r == SaveTo(s, WithXml(p), out)
    IN  SaveStatus(IF out = "saved" THEN [r EXCEPT !.file = p] ELSE r)

OnFileSaveAs(p, out) == Becomes(SaveAs(now, p, out))

Save(s, p, out) ==
    IF s.file \notin Paths \/ s.disk[s.file] = Absent THEN SaveAs(s, p, out)
    ELSE SaveStatus(SaveTo(s, s.file, out))

OnFileSave(p, out) == now.menu /\ Becomes(Save(now, p, out))

\* checkAskSaveState: the user is asked if the state counts as modified, and
\* saves it or lets it go.  Without a file an ASSERT of OnFileSave fails; a
\* release goes on to ask for a name.
AskedToSave(p, out, yes) ==
    IF ~StateIsModified(now) THEN Loss(now)
    ELSE IF yes THEN Save(now, p, out) ELSE now

\* loadFile of a state file: all is read into a state of its own first.  The
\* Save entry becomes available whether or not anything was modified.
Loaded(s, f, p) ==
    [SetModifyLevel(s, TRUE) EXCEPT !.doc = Read(f), !.file = p, !.menu = TRUE,
                                    !.silent = FALSE]

\* OnFileOpen, OnRecentFile.
OnFileOpen(p, out, yes) ==
    LET s == AskedToSave("s.xml", out, yes)
    IN  /\ now.disk[p] # Absent
        /\ Becomes(IF Readable(s.disk[p]) THEN Loaded(s, s.disk[p], p)
                   ELSE [s EXCEPT !.lost = now.lost])

\* OnFileMerge: the file is merged into an empty state, without a name, and
\* that replaces the analysis.
OnFileMerge(p) ==
    /\ Readable(now.disk[p])
    /\ LET m == [Read(now.disk[p]) EXCEPT !.fx = FALSE]
       IN  Becomes(SaveStatus(SetModifyLevel(
                     [Loss(now) EXCEPT !.doc = m, !.file = NoFile, !.silent = FALSE], FALSE)))

\* OnFileExportPackage: the copy counts as having saved the state.
OnFileExportPackage(out) ==
    HasStateData(now.doc) /\ Becomes([Saved(now, out) EXCEPT !.silent = TRUE])

\* OnAutosaveTimer: so does the automatic save.  One that fails takes the
\* earlier one with it.
OnAutosaveTimer(out) ==
    /\ HasStateData(now.doc)
    /\ Becomes([Saved(now, out) EXCEPT !.auto = IF out = "saved" THEN Written(now.doc) ELSE Absent,
                                       !.silent = @ \/ ~OnDisk(now.doc)])

-----------------------------------------------------------------------------
(* The end of a process, and the start of the next *)

\* OnClose.  It asks if the state counts as modified, unless the system
\* forces the program to end or a refresh had to be given up; the autosave is
\* removed.
OnClose(forced) ==
    Becomes(Fresh(IF forced \/ StateIsModified(now) THEN now ELSE Loss(now)))

\* A crash leaves the autosave, perhaps half written.
Crash(writing) ==
    /\ Len(now.dead) < MaxDead
    /\ LET a == IF writing /\ HasStateData(now.doc) THEN Broken ELSE now.auto
       IN  Becomes([Fresh(now) EXCEPT !.dead = IF a = Absent THEN @ ELSE Append(@, a)])

\* checkReloadAutosave.  The user declines; or restores one, which is then
\* moved or erased; or has all of several removed.  The name of the file is
\* taken from the state if it was the only one.
NoRestore   == now.starting /\ Becomes([now EXCEPT !.starting = FALSE])
\* Mutant: the Save entry stays when the name of the file is taken away.
Mut_Restored(i) ==
    [Loaded([now EXCEPT !.starting = FALSE, !.dead = RemoveAt(@, i)], now.dead[i], "auto")
     EXCEPT !.file = NoFile, !.silent = TRUE]
Restored(i) ==
    LET f == now.dead[i]
        s == [now EXCEPT !.starting = FALSE, !.dead = RemoveAt(@, i)]
        r == [Loaded(s, f, "auto") EXCEPT !.silent = TRUE]
    IN  IF ~Readable(f) THEN s
        ELSE IF Len(now.dead) = 1 THEN SaveStatus([r EXCEPT !.file = NoFile]) ELSE r
Restore(i)  == now.starting /\ Becomes(Restored(i))
RemoveAll   == now.starting /\ Len(now.dead) > 1
               /\ Becomes([now EXCEPT !.starting = FALSE, !.dead = <<>>])

Working ==
    \/ \E t \in Trees : EditTree(t) \/ UndoRedo(t)
    \/ \E t \in Trees, fx \in BOOLEAN : EditAncillary(t, fx)
    \/ \E p \in Paths, o \in Outcomes : OnFileSaveAs(p, o) \/ OnFileSave(p, o)
    \/ \E p \in Paths, o \in Outcomes, y \in BOOLEAN : OnFileOpen(p, o, y)
    \/ \E p \in Paths : OnFileMerge(p)
    \/ \E o \in Outcomes : OnFileExportPackage(o) \/ OnAutosaveTimer(o)
    \/ \E f \in BOOLEAN : OnClose(f) \/ Crash(f)
Next ==
    \/ ~now.starting /\ Working
    \/ NoRestore
    \/ \E i \in 1..Len(now.dead) : Restore(i)
    \/ RemoveAll

-----------------------------------------------------------------------------
\* The Save entry is only there when the state has a file.
SaveHasFile == now.menu => now.file # NoFile
\* Work the program does not count as modified can be read back from a state
\* file, unless the level was silent about it.
UnsavedIsKnown ==
    StateIsModified(now) \/ now.silent \/ ~HasStateData(now.doc) \/ OnDisk(now.doc)
\* No work that no file holds is thrown away without a question.
NothingIsLost == ~now.lost
=============================================================================

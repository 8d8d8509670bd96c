---------------------------- MODULE SceneUpdate ----------------------------
(***************************************************************************)
(* The refresh cycle of 3Depict: MainWindowFrame (gui/mainFrame.cpp), run  *)
(* by the GUI thread's event loop, and the RefreshThread that computes the *)
(* filter tree (TreeState::refresh, backend/state.cpp).                    *)
(*                                                                         *)
(* doSceneUpdate starts the worker and locks the widgets that edit the     *)
(* tree; the worker posts RefreshCompleteEvent; the handler of that event  *)
(* moves the result to the scene, unlocks the widgets and frees the        *)
(* worker.  Every handler runs to its end before the next event, except    *)
(* that the worker runs beside it, and that a modal dialog runs an event   *)
(* loop of its own inside its handler: timers and the completion event     *)
(* are served there too.                                                   *)
(*                                                                         *)
(* An ASSERT that fails ends the behaviour (failed), as in a debug build.  *)
(***************************************************************************)
EXTENDS Integers

CONSTANTS
    Handlers,       \* the events that occur, besides those of the refresh
    FirstUpdates,   \* the values requireFirstUpdate may start with
    MaxDrop         \* bound on the files dropped in one go

HandlerNames ==
    {"edit", "abort", "drag", "plot", "monitor", "drop", "open", "range",
     "export", "video", "close"}

ASSUME HandlersAssumption == Handlers \subseteq HandlerNames
ASSUME FirstUpdatesAssumption == FirstUpdates \subseteq BOOLEAN
ASSUME MaxDropAssumption == MaxDrop \in Nat \ {0}

VARIABLES
    gui,            \* the handler the GUI thread is in the middle of; of
                    \* OnDropFiles also whether its last load succeeded
                    \* ("dropData") or a range file was added ("dropRange")
    files,          \* OnDropFiles: the files still to load
    dialog,         \* the modal dialog on the screen
    updating,       \* currentlyUpdatingScene
    haveAborted,    \* haveAborted
    locked,         \* setLockUI: the widgets that edit the tree are disabled
    ticking,        \* updateTimer is running
    firstUpdate,    \* requireFirstUpdate
    worker,         \* the life of the RefreshThread refreshThread points to
    event,          \* the RefreshCompleteEvent in the queue, its error code
    wantAbort,      \* TreeState::wantAbort
    pending,        \* TreeState::pendingUpdates, and the modified bindings
    plotUpdates,    \* plotUpdates: a range was dragged, the caches below its
                    \* filter are not yet cleared
    monitored,      \* a file a filter monitors differs from the loaded one
    devices,        \* selectionDevices holds the devices of the shown objects
    tree,           \* version of the filter tree
    aside,          \* OnFileExportFilterVideo: the tree it took away
    reading,        \* the version the worker computes, or computed last
    shown,          \* the version in the scene
    outdated,       \* the user knows the scene to be behind the tree: an edit
                    \* with automatic update off, or a refresh that failed
    raced,          \* the GUI thread wrote the tree while the worker used it
    failed          \* an ASSERT has failed

guiVars == <<gui, files, dialog>>
flagVars == <<updating, haveAborted, locked, ticking, firstUpdate>>
askVars == <<pending, plotUpdates, monitored, devices>>
treeVars == <<tree, aside, reading, shown, outdated, raced>>
workVars == <<worker, event, wantAbort>>
vars == <<guiVars, flagVars, askVars, treeVars, workVars, failed>>

\* Versions only need to be told apart from those in use.
Versions == 0..4
NewVersion == CHOOSE v \in Versions : v \notin {tree, aside, reading, shown}

Dropping == {"drop", "dropData", "dropRange"}

TypeOK ==
    /\ gui \in {"idle", "timer", "closed"} \cup Dropping
    /\ files \in 0..MaxDrop
    /\ dialog \in {"none", "open", "range", "export", "video"}
    /\ {updating, haveAborted, locked, ticking, firstUpdate, wantAbort, pending,
        plotUpdates, monitored, devices, outdated, raced, failed} \subseteq BOOLEAN
    /\ worker \in {"none", "starting", "computing", "posted", "exited"}
    /\ event \in {"none", "ok", "error", "abort"}
    /\ {tree, aside, reading, shown} \subseteq Versions

\* The state finaliseStartup leaves; SetCommandLineFiles clears
\* requireFirstUpdate when none of the files it was given could be loaded.
Init ==
    /\ gui = "idle" /\ files = 0 /\ dialog = "none"
    /\ updating = FALSE /\ haveAborted = FALSE /\ locked = FALSE
    /\ ticking = TRUE /\ firstUpdate \in FirstUpdates
    /\ worker = "none" /\ event = "none" /\ wantAbort = FALSE
    /\ pending = FALSE /\ plotUpdates = FALSE /\ monitored = FALSE
    /\ devices = FALSE
    /\ tree = 0 /\ aside = 0 /\ reading = 0 /\ shown = 0 /\ outdated = FALSE /\ raced = FALSE
    /\ failed = FALSE

\* refreshThreadActive(): refreshThread is set and the thread still runs.  A
\* thread that has posted its event and left Entry no longer runs, although
\* refreshThread, refreshControl and currentlyUpdatingScene are still set.
RefreshThreadActive == worker \in {"starting", "computing", "posted"}

\* The worker uses the filter tree.
Busy == worker \in {"starting", "computing"}

Idle == gui = "idle" /\ ~failed
\* The main window takes input: no handler is running and no dialog is modal.
Input(h) == h \in Handlers /\ Idle /\ dialog = "none"

-----------------------------------------------------------------------------
(* Pieces of handlers *)

AssertFails ==
    /\ failed' = TRUE
    /\ UNCHANGED <<updating, haveAborted, locked, ticking, worker>>

\* Fault: the update timer is not stopped.
Mut_DoSceneUpdate ==
    IF updating \/ worker # "none"
    THEN AssertFails
    ELSE /\ updating' = TRUE
         /\ haveAborted' = FALSE
         /\ locked' = TRUE
         /\ worker' = "starting"
         /\ UNCHANGED <<ticking, failed>>

\* doSceneUpdate, with its ASSERTs on currentlyUpdatingScene and on
\* refreshControl (set exactly as long as the worker exists).
DoSceneUpdate ==
    IF updating \/ worker # "none"
    THEN AssertFails
    ELSE /\ updating' = TRUE
         /\ haveAborted' = FALSE
         /\ locked' = TRUE
         /\ ticking' = FALSE
         /\ worker' = "starting"
         /\ UNCHANGED failed

NoSceneUpdate ==
    UNCHANGED <<updating, haveAborted, locked, ticking, worker, failed>>

\* The GUI thread writes the filter tree.
WriteTree(v) == tree' = v /\ raced' = (raced \/ Busy)

\* loadFile without noUpdate: asserts that no refresh runs, puts what it has
\* read in the tree and starts a refresh.  A state file that cannot be read
\* leaves the tree as it is.
LoadFile(read) ==
    IF RefreshThreadActive
    THEN AssertFails /\ UNCHANGED <<tree, raced>>
    ELSE IF read
         THEN WriteTree(NewVersion) /\ DoSceneUpdate
         ELSE NoSceneUpdate /\ UNCHANGED <<tree, raced>>

\* hasMonitorUpdates, asked of the tree in place.
HasMonitorUpdates == monitored /\ dialog # "video"

\* OnProgressAbort: the flag is raised once per refresh.
Abort ==
    /\ wantAbort' = (wantAbort \/ ~haveAborted)
    /\ haveAborted' = TRUE

-----------------------------------------------------------------------------
(* The worker: RefreshThread::Entry *)

\* The head of TreeState::refresh and of refreshFilterTree: devices, pending
\* updates and the abort flag are reset, the filters whose monitored file has
\* changed lose their caches.  Between the drag of a range and the timer, the
\* caches below the range filter are not those of the tree: what is computed
\* from them is some other version.
WorkerReset ==
    /\ worker = "starting" /\ ~failed
    /\ worker' = "computing"
    /\ devices' = FALSE
    /\ pending' = FALSE
    /\ wantAbort' = FALSE
    /\ monitored' = (monitored /\ ~HasMonitorUpdates)
    /\ reading' \in {tree} \cup (IF plotUpdates THEN {NewVersion} ELSE {})
    /\ UNCHANGED <<guiVars, flagVars, plotUpdates, tree, aside, shown,
                   outdated, raced, event, failed>>

\* Fault: an error path of Entry returns before wxPostEvent.
Mut_WorkerPost(code) ==
    /\ worker = "computing" /\ ~failed
    /\ worker' = "posted"
    /\ event' = IF code = "ok" THEN code ELSE event
    /\ UNCHANGED <<guiVars, flagVars, askVars, treeVars, wantAbort, failed>>

\* refreshFilterTree returns: an abort is noticed after a filter's refresh,
\* the last one excepted when the flag comes later.  The event is posted
\* before the thread ends.  A refresh cut short may not have read a changed
\* file.
WorkerPost(code) ==
    /\ worker = "computing" /\ ~failed
    /\ code = "abort" => wantAbort
    /\ worker' = "posted"
    /\ event' = code
    /\ monitored' \in {monitored} \cup
           (IF code # "ok" /\ "monitor" \in Handlers THEN {TRUE} ELSE {})
    /\ UNCHANGED <<guiVars, flagVars, pending, plotUpdates, devices, treeVars,
                   wantAbort, failed>>

WorkerExit ==
    /\ worker = "posted" /\ ~failed
    /\ worker' = "exited"
    /\ UNCHANGED <<guiVars, flagVars, askVars, treeVars, event, wantAbort, failed>>

-----------------------------------------------------------------------------
(* Events of the refresh cycle *)

\* Fault: updateTimer is restarted only after a refresh without error.
Mut_OnFinish ==
    /\ Idle /\ event # "none"
    /\ event' = "none"
    /\ worker' = "none"
    /\ updating' = FALSE
    /\ locked' = FALSE
    /\ ticking' = (event = "ok")
    /\ IF event = "ok"
       THEN shown' = reading /\ devices' = TRUE /\ outdated' = FALSE
       ELSE outdated' = TRUE /\ UNCHANGED <<shown, devices>>
    /\ UNCHANGED <<guiVars, haveAborted, firstUpdate, pending, plotUpdates, monitored,
                   tree, aside, reading, raced, wantAbort, failed>>

\* OnFinishRefreshThread with finishSceneUpdate: it waits for the thread to
\* end and frees it; a refresh without error replaces the scene, any other is
\* reported in the status bar.
OnFinishRefreshThread ==
    /\ Idle /\ event # "none"
    /\ event' = "none"
    /\ worker' = "none"
    /\ updating' = FALSE
    /\ locked' = FALSE
    /\ ticking' = TRUE
    /\ IF event = "ok"
       THEN shown' = reading /\ devices' = TRUE /\ outdated' = FALSE
       ELSE outdated' = TRUE /\ UNCHANGED <<shown, devices>>
    /\ UNCHANGED <<guiVars, haveAborted, firstUpdate, pending, plotUpdates, monitored,
                   tree, aside, reading, raced, wantAbort, failed>>

\* OnUpdateTimer, up to the first refresh of the session.
OnUpdateTimer ==
    /\ Idle /\ ticking
    /\ gui' = "timer"
    /\ IF firstUpdate /\ ~RefreshThreadActive
       THEN DoSceneUpdate /\ firstUpdate' = FALSE
       ELSE NoSceneUpdate /\ UNCHANGED firstUpdate
    /\ UNCHANGED <<files, dialog, askVars, treeVars, event, wantAbort>>

\* OnUpdateTimer, from the test of the update flags on.  The worker may have
\* moved on since the handler began.  applyBindingsToTree edits the tree; it
\* asserts that the filter of each binding is in the tree: none is in the
\* empty tree of a video export.  For a dragged range the caches of the range
\* filters and of all below them are cleared.  plotUpdates is reset whether
\* or not a refresh is started.
OnUpdateTimerFlags ==
    /\ gui = "timer" /\ ~failed
    /\ gui' = "idle"
    /\ plotUpdates' = FALSE
    /\ IF (pending \/ plotUpdates \/ HasMonitorUpdates) /\ ~RefreshThreadActive
       THEN /\ IF pending /\ dialog = "video" THEN AssertFails ELSE DoSceneUpdate
            /\ pending' = FALSE
            /\ WriteTree(IF pending THEN NewVersion ELSE tree)
       ELSE NoSceneUpdate /\ UNCHANGED <<pending, tree, raced>>
    /\ UNCHANGED <<files, dialog, firstUpdate, monitored, devices, aside, reading,
                   shown, outdated, event, wantAbort>>

-----------------------------------------------------------------------------
(* User input *)

\* Fault: a widget that edits the tree stays enabled during a refresh.
Mut_EditUnlocked ==
    /\ Input("edit")
    /\ WriteTree(NewVersion)
    /\ \/ DoSceneUpdate /\ UNCHANGED outdated
       \/ NoSceneUpdate /\ outdated' = TRUE
    /\ UNCHANGED <<guiVars, firstUpdate, askVars, aside, reading, shown, event, wantAbort>>

\* Undo, redo, the property grid, drag and deletion in the tree control, the
\* filter and stash boxes: all disabled by setLockUI.  Each edits the tree
\* and refreshes at once; a property edit with automatic update off does not.
Edit ==
    /\ Input("edit") /\ ~locked
    /\ WriteTree(NewVersion)
    /\ \/ DoSceneUpdate /\ UNCHANGED outdated
       \/ NoSceneUpdate /\ outdated' = TRUE
    /\ UNCHANGED <<guiVars, firstUpdate, askVars, aside, reading, shown, event, wantAbort>>

\* OnButtonRefresh (button or F5): aborts the refresh in progress, or starts
\* one.
OnButtonRefresh ==
    /\ Input("abort")
    /\ IF updating \/ RefreshThreadActive
       THEN Abort /\ UNCHANGED <<updating, locked, ticking, worker, failed>>
       ELSE DoSceneUpdate /\ UNCHANGED wantAbort
    /\ UNCHANGED <<guiVars, firstUpdate, askVars, treeVars, event>>

\* The escape key, through threeDepictApp::FilterEvent.
OnEscape ==
    /\ Input("abort") /\ updating
    /\ Abort
    /\ UNCHANGED <<guiVars, updating, locked, ticking, firstUpdate, askVars, treeVars,
                   worker, event, failed>>

\* Scene::applyDevice ends a drag in the 3D pane, which setLockUI leaves
\* enabled.  Only the devices of the last refresh know the shown objects.
Drag ==
    /\ Input("drag") /\ devices
    /\ pending' = TRUE
    /\ wantAbort' = (wantAbort \/ worker = "computing")
    /\ UNCHANGED <<guiVars, flagVars, plotUpdates, monitored, devices, treeVars,
                   worker, event, failed>>

\* Fault: the window is not told of the dragged range.
Mut_PlotDrag ==
    /\ Input("plot") /\ ~locked
    /\ WriteTree(NewVersion)
    /\ UNCHANGED <<guiVars, flagVars, askVars, aside, reading, shown, outdated, workVars,
                   failed>>

\* The mouse button is released at the end of a drag of a range in the plot
\* pane: moveRegion sets the bounds in the range filter at once, and
\* onPanelSpectraUpdate leaves the rest to the timer.  setLockUI limits the
\* pane's interaction.
PlotDrag ==
    /\ Input("plot") /\ ~locked
    /\ WriteTree(NewVersion)
    /\ plotUpdates' = TRUE
    /\ UNCHANGED <<guiVars, flagVars, pending, monitored, devices, aside, reading, shown,
                   outdated, workVars, failed>>

\* The file of a monitored DataLoad filter changes on disk.
FileChanges ==
    /\ "monitor" \in Handlers /\ ~failed
    /\ monitored' = TRUE
    /\ UNCHANGED <<guiVars, flagVars, pending, plotUpdates, devices, treeVars, workVars,
                   failed>>

\* OnDropFiles begins.
OnDropFiles ==
    /\ Input("drop") /\ ~RefreshThreadActive
    /\ gui' = "drop"
    /\ files' \in 1..MaxDrop
    /\ UNCHANGED <<dialog, flagVars, askVars, treeVars, workVars, failed>>

\* A data or state file of the drop is loaded; a failure makes the handler
\* forget that an earlier one was, unless a range file was added.
DropLoad(read) ==
    /\ LoadFile(read)
    /\ gui' = CASE gui = "dropRange" -> gui
                [] read             -> "dropData"
                [] OTHER            -> "drop"

\* A range file of the drop is hung below the selected filter: neither a test
\* for a refresh, which an earlier file may have started, nor an update.
DropRange ==
    /\ WriteTree(NewVersion)
    /\ gui' = "dropRange"
    /\ NoSceneUpdate

\* Fault: the loop over the dropped files runs past its end.
Mut_DropFile ==
    /\ gui \in Dropping /\ ~failed
    /\ files' = files - 1
    /\ DropRange \/ \E read \in BOOLEAN : DropLoad(read)
    /\ UNCHANGED <<dialog, firstUpdate, askVars, aside, reading, shown, outdated,
                   event, wantAbort>>

\* One turn of the loop of OnDropFiles.
DropFile ==
    /\ gui \in Dropping /\ ~failed /\ files > 0
    /\ files' = files - 1
    /\ DropRange \/ \E read \in BOOLEAN : DropLoad(read)
    /\ UNCHANGED <<dialog, firstUpdate, askVars, aside, reading, shown, outdated,
                   event, wantAbort>>

\* A range file is dropped while no filter is selected: the handler returns.
DropReturns ==
    /\ gui \in Dropping /\ ~failed /\ files > 0
    /\ files' = 0
    /\ gui' = "idle"
    /\ NoSceneUpdate
    /\ UNCHANGED <<dialog, firstUpdate, askVars, treeVars, event, wantAbort>>

\* The last statement of OnDropFiles refreshes, once more if a load has, when
\* something was loaded.
DropDone ==
    /\ gui \in Dropping /\ ~failed /\ files = 0
    /\ gui' = "idle"
    /\ IF gui = "drop" THEN NoSceneUpdate ELSE DoSceneUpdate
    /\ UNCHANGED <<files, dialog, firstUpdate, askVars, treeVars, event, wantAbort>>

\* OnFileOpen up to its file dialog.  The menu item is disabled by setLockUI,
\* and the ASSERT on refreshThreadActive comes before the dialog.
OnFileOpen ==
    /\ Input("open") /\ ~locked
    /\ dialog' = "open"
    /\ failed' = RefreshThreadActive
    /\ UNCHANGED <<gui, files, flagVars, askVars, treeVars, workVars>>

\* OnFileOpen from the chosen file on: the scene is emptied, then loadFile
\* reads the file or reports that it cannot.
FileChosen ==
    /\ Idle /\ dialog = "open"
    /\ dialog' = "none"
    /\ \E read \in BOOLEAN : LoadFile(read) /\ outdated' = (outdated \/ ~read)
    /\ UNCHANGED <<gui, files, firstUpdate, askVars, aside, reading, shown, event,
                   wantAbort>>

\* OnEditRange up to the range editor: setLockUI leaves its menu item
\* enabled, and nothing tests for a refresh.
OnEditRange ==
    /\ Input("range")
    /\ dialog' = "range"
    /\ UNCHANGED <<gui, files, flagVars, askVars, treeVars, workVars, failed>>

\* OnEditRange from the accepted editor on: modifyRangeFiles, which may have
\* nothing to modify, and doSceneUpdate.
RangeEdited ==
    /\ Idle /\ dialog = "range"
    /\ dialog' = "none"
    /\ \E v \in {tree, NewVersion} : WriteTree(v)
    /\ DoSceneUpdate
    /\ UNCHANGED <<gui, files, firstUpdate, askVars, aside, reading, shown, outdated,
                   event, wantAbort>>

\* OnFileOpen or OnEditRange returns: its dialog was cancelled.
DialogCancelled ==
    /\ Idle /\ dialog \in {"open", "range"}
    /\ dialog' = "none"
    /\ UNCHANGED <<gui, files, flagVars, askVars, treeVars, workVars, failed>>

\* OnFileExportIons up to its dialog: switchoutFilterTree replaces the tree
\* by a clone.  setLockUI does not disable the menu item and nothing tests
\* for a refresh.
OnFileExportIons ==
    /\ Input("export")
    /\ dialog' = "export"
    /\ WriteTree(tree)
    /\ UNCHANGED <<gui, files, flagVars, askVars, aside, reading, shown, outdated,
                   workVars, failed>>

\* OnFileExportIons from the end of its dialog on: the tree is swapped back.
ExportDone ==
    /\ Idle /\ dialog = "export"
    /\ dialog' = "none"
    /\ WriteTree(tree)
    /\ UNCHANGED <<gui, files, flagVars, askVars, aside, reading, shown, outdated,
                   workVars, failed>>

\* OnFileExportFilterVideo up to its dialog: the tree is taken away, an
\* empty one stays in its place.
OnFileExportFilterVideo ==
    /\ Input("video") /\ ~locked /\ ~RefreshThreadActive
    /\ dialog' = "video"
    /\ aside' = tree
    /\ WriteTree(NewVersion)
    /\ UNCHANGED <<gui, files, flagVars, askVars, reading, shown, outdated, workVars, failed>>

\* The animation dialog is cancelled: the tree is put back.
VideoCancelled ==
    /\ Idle /\ dialog = "video"
    /\ dialog' = "none"
    /\ WriteTree(aside)
    /\ UNCHANGED <<gui, files, flagVars, askVars, aside, reading, shown, outdated,
                   workVars, failed>>

\* OnFileExportFilterVideo from the end of its dialog on.  The frames edit the
\* tree and refresh it on the GUI thread; when a property cannot be set, the
\* empty tree stays.  currentlyUpdatingScene is cleared before doSceneUpdate,
\* and the update timer is started after it.
VideoDone ==
    /\ Idle /\ dialog = "video"
    /\ dialog' = "none"
    /\ \E v \in {aside, tree, NewVersion} : WriteTree(v)
    /\ IF worker # "none"
       THEN AssertFails
       ELSE /\ updating' = TRUE /\ haveAborted' = FALSE /\ locked' = TRUE
            /\ ticking' = TRUE
            /\ worker' = "starting"
            /\ UNCHANGED failed
    /\ \E refreshed \in BOOLEAN :
           /\ devices' = (devices /\ ~refreshed)
           /\ pending' = (pending /\ ~refreshed)
           /\ wantAbort' = (wantAbort /\ ~refreshed)
           /\ monitored' \in {monitored, monitored /\ ~refreshed}
           /\ shown' \in {shown} \cup (IF refreshed THEN {tree'} ELSE {})
    /\ UNCHANGED <<gui, files, firstUpdate, plotUpdates, aside, reading, outdated,
                   event>>

\* OnClose during a refresh: RefreshThread::abort is an ASSERT(FALSE), empty
\* in a release build, so that haveAborted is set and nothing else happens.
CloseAborts ==
    /\ Input("close")
    /\ RefreshThreadActive /\ ~haveAborted
    /\ haveAborted' = TRUE
    /\ UNCHANGED <<guiVars, updating, locked, ticking, firstUpdate, askVars, treeVars,
                   workVars, failed>>

\* OnClose otherwise: after a confirmation the window is destroyed.
CloseExits ==
    /\ Input("close")
    /\ RefreshThreadActive => haveAborted
    /\ gui' = "closed"
    /\ UNCHANGED <<files, dialog, flagVars, askVars, treeVars, workVars, failed>>

-----------------------------------------------------------------------------
WorkerStep ==
    \/ WorkerReset
    \/ \E code \in {"ok", "error", "abort"} : WorkerPost(code)
    \/ WorkerExit

UserStep ==
    \/ Edit \/ OnButtonRefresh \/ OnEscape \/ Drag \/ PlotDrag \/ FileChanges
    \/ OnDropFiles \/ OnFileOpen \/ OnEditRange \/ OnFileExportIons \/ OnFileExportFilterVideo
    \/ CloseAborts \/ CloseExits

DialogStep ==
    \/ FileChosen \/ RangeEdited \/ ExportDone \/ DialogCancelled
    \/ VideoCancelled \/ VideoDone

DropStep == DropFile \/ DropReturns \/ DropDone

TimerStep == OnUpdateTimer \/ OnUpdateTimerFlags

Next ==
    \/ WorkerStep \/ OnFinishRefreshThread
    \/ TimerStep \/ DropStep \/ DialogStep \/ UserStep

\* The event loop serves every event it has, and the threads are scheduled;
\* nobody is bound to do anything.
Fairness ==
    /\ WF_vars(WorkerStep)
    /\ WF_vars(OnFinishRefreshThread)
    /\ WF_vars(OnUpdateTimer)
    /\ WF_vars(OnUpdateTimerFlags)
    /\ WF_vars(DropStep)

Spec == Init /\ [][Next]_vars /\ Fairness
-----------------------------------------------------------------------------
(* Properties *)

\* At every event, whatever the user did: the GUI is in an update exactly as
\* long as a worker exists, the widgets that edit the tree are locked exactly
\* then, the update timer runs at least when there is no update, and the
\* completion event is in the queue exactly when the worker has finished and
\* was not yet freed.
CycleConsistent ==
    /\ updating <=> worker # "none"
    /\ locked = updating
    /\ updating \/ ticking
    /\ event # "none" <=> worker \in {"posted", "exited"}

\* doSceneUpdate suspends the update timer: it stays suspended until the
\* update is finished.
TimerIsSuspended == updating => ~ticking

\* None of the ASSERTs on the refresh state fails: no refresh is started
\* while one is in progress, and no file is loaded during a refresh.
NoAssertFails == ~failed

\* The GUI thread never writes the filter tree while the worker uses it.
TreeIsExclusive == ~raced

\* Between refreshes the scene shows the tree as it is, unless the user was
\* told otherwise or has dragged a range of a plot, which the tree holds at
\* once and the scene from the next turn of the timer on, which is then due.
SceneIsCurrent ==
    ~updating /\ gui = "idle" /\ ~outdated => shown = tree \/ (plotUpdates /\ ticking)

\* Every refresh ends, and unlocks the window.
UpdateEnds == updating ~> ~locked

\* A monitored file that changes is read again.
ChangedFileIsReread == monitored ~> (~monitored \/ failed)
=============================================================================

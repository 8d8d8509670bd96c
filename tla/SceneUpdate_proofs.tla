------------------------- MODULE SceneUpdate_proofs -------------------------
(***************************************************************************)
(* Proofs about the refresh cycle: what holds whatever handlers run, and   *)
(* what holds when only those run that respect the lock of the window.     *)
(***************************************************************************)
EXTENDS SceneUpdate, TLAPS

-----------------------------------------------------------------------------
(* All handlers *)

\* A handler that starts a refresh, or fails to, keeps the flags in step.
LEMMA StartConsistent ==
    ASSUME CycleConsistent, UNCHANGED event, DoSceneUpdate \/ NoSceneUpdate
    PROVE  CycleConsistent'
<1>1. CASE DoSceneUpdate
    BY <1>1 DEF CycleConsistent, DoSceneUpdate, AssertFails
<1>2. CASE NoSceneUpdate
    BY <1>2 DEF CycleConsistent, NoSceneUpdate
<1>3. QED
    BY <1>1, <1>2

\* Every step keeps flags, timer, worker and completion event in step.
LEMMA CycleStep == CycleConsistent /\ [Next]_vars => CycleConsistent'
<1> SUFFICES ASSUME CycleConsistent, [Next]_vars PROVE CycleConsistent'
    OBVIOUS
<1>1. CASE WorkerStep
    <2>1. CASE WorkerReset
        BY <2>1 DEF WorkerReset, CycleConsistent, flagVars
    <2>2. ASSUME NEW code \in {"ok", "error", "abort"}, WorkerPost(code)
          PROVE  CycleConsistent'
        BY <2>2 DEF WorkerPost, CycleConsistent, flagVars
    <2>3. CASE WorkerExit
        BY <2>3 DEF WorkerExit, CycleConsistent, flagVars
    <2>4. QED
        BY <1>1, <2>1, <2>2, <2>3 DEF WorkerStep
<1>2. CASE OnFinishRefreshThread
    BY <1>2 DEF OnFinishRefreshThread, CycleConsistent
<1>3. CASE TimerStep
    <2>1. CASE OnUpdateTimer
        BY <2>1, StartConsistent DEF OnUpdateTimer
    <2>2. CASE OnUpdateTimerFlags
        BY <2>2 DEF OnUpdateTimerFlags, CycleConsistent, DoSceneUpdate, NoSceneUpdate, AssertFails
    <2>3. QED
        BY <1>3, <2>1, <2>2 DEF TimerStep
<1>4. CASE DropStep
    <2>1. (DoSceneUpdate \/ NoSceneUpdate \/ AssertFails) /\ UNCHANGED event
        BY <1>4 DEF DropStep, DropFile, DropReturns, DropDone, DropRange, DropLoad, LoadFile
    <2>2. QED
        BY <2>1, StartConsistent DEF CycleConsistent, AssertFails
<1>5. CASE DialogStep
    <2>1. CASE FileChosen \/ RangeEdited
        <3>1. (DoSceneUpdate \/ NoSceneUpdate \/ AssertFails) /\ UNCHANGED event
            BY <2>1 DEF FileChosen, RangeEdited, LoadFile
        <3>2. QED
            BY <3>1, StartConsistent DEF CycleConsistent, AssertFails
    <2>2. CASE ExportDone \/ DialogCancelled \/ VideoCancelled
        BY <2>2 DEF ExportDone, DialogCancelled, VideoCancelled, CycleConsistent, flagVars, workVars
    <2>3. CASE VideoDone
        BY <2>3 DEF VideoDone, CycleConsistent, AssertFails
    <2>4. QED
        BY <1>5, <2>1, <2>2, <2>3 DEF DialogStep
<1>6. CASE UserStep
    <2>1. CASE Edit
        BY <2>1, StartConsistent DEF Edit
    <2>2. CASE OnButtonRefresh
        BY <2>2 DEF OnButtonRefresh, CycleConsistent, DoSceneUpdate, AssertFails
    <2>3. CASE OnEscape \/ CloseAborts
        BY <2>3 DEF OnEscape, CloseAborts, CycleConsistent, workVars
    <2>4. CASE \/ Drag \/ PlotDrag \/ FileChanges \/ OnDropFiles \/ OnFileOpen \/ OnEditRange
               \/ OnFileExportIons \/ OnFileExportFilterVideo \/ CloseExits
        BY <2>4 DEF Drag, PlotDrag, FileChanges, OnDropFiles, OnFileOpen, OnEditRange,
                    OnFileExportIons, OnFileExportFilterVideo, CloseExits,
                    CycleConsistent, flagVars, workVars
    <2>5. QED
        BY <1>6, <2>1, <2>2, <2>3, <2>4 DEF UserStep
<1>7. CASE UNCHANGED vars
    BY <1>7 DEF vars, flagVars, workVars, CycleConsistent
<1>8. QED
    BY <1>1, <1>2, <1>3, <1>4, <1>5, <1>6, <1>7 DEF Next

\* Whatever handlers run, in whatever order, and whatever ASSERT fails: an
\* update is open exactly as long as its worker exists, the window is locked
\* exactly then, and the update timer runs at least between updates.
THEOREM CycleStaysConsistent == Spec => []CycleConsistent
<1>1. Init => CycleConsistent
    BY DEF Init, CycleConsistent
<1>2. QED
    BY <1>1, CycleStep, PTL DEF Spec

-----------------------------------------------------------------------------
(* Types *)

\* Four versions are in use at most, so that a fifth one is new.
LEMMA NewVersionType == NewVersion \in Versions
<1>1. \E v \in Versions : v \notin {tree, aside, reading, shown}
    <2>1. {0, 1, 2, 3, 4} \subseteq Versions
        BY DEF Versions
    <2>2. QED
        BY <2>1
<1>2. QED
    BY <1>1 DEF NewVersion

\* What starting a refresh, failing to or not starting one does to the flags.
LEMMA StartType ==
    ASSUME TypeOK, DoSceneUpdate \/ NoSceneUpdate
    PROVE  /\ updating' \in BOOLEAN /\ haveAborted' \in BOOLEAN /\ locked' \in BOOLEAN
           /\ ticking' \in BOOLEAN /\ failed' \in BOOLEAN
           /\ worker' \in {"none", "starting", "computing", "posted", "exited"}
<1>1. CASE DoSceneUpdate
    BY <1>1 DEF TypeOK, DoSceneUpdate, AssertFails
<1>2. CASE NoSceneUpdate
    BY <1>2 DEF TypeOK, NoSceneUpdate
<1>3. QED
    BY <1>1, <1>2

\* A write of the tree keeps the types of the two variables it changes.
LEMMA WriteType ==
    ASSUME TypeOK, NEW v \in Versions, WriteTree(v)
    PROVE  tree' \in Versions /\ raced' \in BOOLEAN
BY DEF TypeOK, WriteTree, Busy

\* What loadFile does to the flags and to the tree.
LEMMA LoadType ==
    ASSUME TypeOK, NEW read \in BOOLEAN, LoadFile(read)
    PROVE  /\ updating' \in BOOLEAN /\ haveAborted' \in BOOLEAN /\ locked' \in BOOLEAN
           /\ ticking' \in BOOLEAN /\ failed' \in BOOLEAN
           /\ worker' \in {"none", "starting", "computing", "posted", "exited"}
           /\ tree' \in Versions /\ raced' \in BOOLEAN
<1>1. CASE RefreshThreadActive
    BY <1>1 DEF LoadFile, AssertFails, TypeOK
<1>2. CASE ~RefreshThreadActive /\ read
    BY <1>2, NewVersionType, WriteType, StartType DEF LoadFile
<1>3. CASE ~RefreshThreadActive /\ ~read
    BY <1>3, StartType DEF LoadFile, TypeOK
<1>4. QED
    BY <1>1, <1>2, <1>3

\* Every step keeps the types.
LEMMA TypeStep == TypeOK /\ [Next]_vars => TypeOK'
<1> SUFFICES ASSUME TypeOK, [Next]_vars PROVE TypeOK'
    OBVIOUS
<1> USE DEF TypeOK, Dropping, guiVars, flagVars, askVars, treeVars, workVars
<1>1. CASE WorkerStep
    <2>1. CASE WorkerReset
        BY <2>1, NewVersionType DEF WorkerReset
    <2>2. ASSUME NEW code \in {"ok", "error", "abort"}, WorkerPost(code)
          PROVE  TypeOK'
        BY <2>2 DEF WorkerPost
    <2>3. CASE WorkerExit
        BY <2>3 DEF WorkerExit
    <2>4. QED
        BY <1>1, <2>1, <2>2, <2>3 DEF WorkerStep
<1>2. CASE OnFinishRefreshThread
    BY <1>2 DEF OnFinishRefreshThread
<1>3. CASE TimerStep
    <2>1. CASE OnUpdateTimer
        <3>1. (DoSceneUpdate \/ NoSceneUpdate) /\ firstUpdate' \in BOOLEAN
            BY <2>1 DEF OnUpdateTimer
        <3>2. QED
            BY <2>1, <3>1, StartType DEF OnUpdateTimer
    <2>2. CASE OnUpdateTimerFlags
        <3>1. /\ updating' \in BOOLEAN /\ haveAborted' \in BOOLEAN /\ locked' \in BOOLEAN
              /\ ticking' \in BOOLEAN /\ failed' \in BOOLEAN
              /\ worker' \in {"none", "starting", "computing", "posted", "exited"}
            <4>1. DoSceneUpdate \/ NoSceneUpdate \/ AssertFails
                BY <2>2 DEF OnUpdateTimerFlags
            <4>2. QED
                BY <4>1, StartType DEF AssertFails
        <3>2. tree' \in Versions /\ raced' \in BOOLEAN /\ pending' \in BOOLEAN
            <4>1. tree \in Versions /\ NewVersion \in Versions
                BY NewVersionType
            <4>2. (\E v \in Versions : WriteTree(v)) \/ UNCHANGED <<tree, raced>>
                BY <2>2, <4>1 DEF OnUpdateTimerFlags
            <4>3. QED
                BY <2>2, <4>2, WriteType DEF OnUpdateTimerFlags
        <3>3. QED
            BY <2>2, <3>1, <3>2 DEF OnUpdateTimerFlags
    <2>3. QED
        BY <1>3, <2>1, <2>2 DEF TimerStep
<1>4. CASE DropStep
    <2>1. CASE DropFile
        <3>1. files' \in 0..MaxDrop
            BY <2>1, MaxDropAssumption DEF DropFile
        <3>2. CASE DropRange
            BY <2>1, <3>1, <3>2, NewVersionType, WriteType, StartType DEF DropFile, DropRange
        <3>3. ASSUME NEW read \in BOOLEAN, DropLoad(read)
              PROVE  TypeOK'
            <4>1. gui' \in Dropping
                BY <2>1, <3>3 DEF DropFile, DropLoad
            <4>2. QED
                BY <2>1, <3>1, <3>3, <4>1, LoadType DEF DropFile, DropLoad
        <3>4. QED
            BY <2>1, <3>2, <3>3 DEF DropFile
    <2>2. CASE DropReturns
        <3>1. files' \in 0..MaxDrop
            BY <2>2, MaxDropAssumption DEF DropReturns
        <3>2. QED
            BY <2>2, <3>1, StartType DEF DropReturns
    <2>3. CASE DropDone
        BY <2>3, StartType DEF DropDone
    <2>4. QED
        BY <1>4, <2>1, <2>2, <2>3 DEF DropStep
<1>5. CASE DialogStep
    <2>1. CASE FileChosen
        <3>1. PICK read \in BOOLEAN : LoadFile(read) /\ outdated' = (outdated \/ ~read)
            BY <2>1 DEF FileChosen
        <3>2. QED
            BY <2>1, <3>1, LoadType DEF FileChosen
    <2>2. CASE RangeEdited
        <3>1. tree' \in Versions /\ raced' \in BOOLEAN
            BY <2>2, NewVersionType, WriteType DEF RangeEdited
        <3>2. QED
            BY <2>2, <3>1, StartType DEF RangeEdited
    <2>3. CASE ExportDone \/ DialogCancelled \/ VideoCancelled
        BY <2>3 DEF ExportDone, DialogCancelled, VideoCancelled, WriteTree, Busy
    <2>4. CASE VideoDone
        BY <2>4, NewVersionType DEF VideoDone, WriteTree, Busy, AssertFails
    <2>5. QED
        BY <1>5, <2>1, <2>2, <2>3, <2>4 DEF DialogStep
<1>6. CASE UserStep
    <2>1. CASE Edit
        <3>1. (DoSceneUpdate \/ NoSceneUpdate) /\ outdated' \in BOOLEAN
            BY <2>1 DEF Edit
        <3>2. tree' \in Versions /\ raced' \in BOOLEAN
            BY <2>1, NewVersionType, WriteType DEF Edit
        <3>3. QED
            BY <2>1, <3>1, <3>2, StartType DEF Edit
    <2>2. CASE OnButtonRefresh \/ OnEscape
        <3>1. CASE DoSceneUpdate
            BY <2>2, <3>1, StartType DEF OnButtonRefresh, OnEscape, Abort
        <3>2. CASE Abort
            BY <2>2, <3>2 DEF OnButtonRefresh, OnEscape, Abort, DoSceneUpdate, AssertFails
        <3>3. QED
            BY <2>2, <3>1, <3>2 DEF OnButtonRefresh, OnEscape
    <2>3. CASE Drag \/ PlotDrag \/ FileChanges
        BY <2>3, NewVersionType, WriteType DEF Drag, PlotDrag, FileChanges
    <2>4. CASE OnDropFiles \/ OnFileOpen \/ OnEditRange
        <3>1. CASE OnDropFiles
            <4>1. files' \in 0..MaxDrop
                BY <3>1, MaxDropAssumption DEF OnDropFiles
            <4>2. QED
                BY <3>1, <4>1 DEF OnDropFiles
        <3>2. CASE OnFileOpen
            <4>1. failed' \in BOOLEAN
                BY <3>2 DEF OnFileOpen, RefreshThreadActive
            <4>2. QED
                BY <3>2, <4>1 DEF OnFileOpen
        <3>3. CASE OnEditRange
            BY <3>3 DEF OnEditRange
        <3>4. QED
            BY <2>4, <3>1, <3>2, <3>3
    <2>5. CASE OnFileExportIons \/ OnFileExportFilterVideo
        BY <2>5, NewVersionType DEF OnFileExportIons, OnFileExportFilterVideo, WriteTree, Busy
    <2>6. CASE CloseAborts \/ CloseExits
        BY <2>6 DEF CloseAborts, CloseExits
    <2>7. QED
        BY <1>6, <2>1, <2>2, <2>3, <2>4, <2>5, <2>6 DEF UserStep
<1>7. CASE UNCHANGED vars
    BY <1>7 DEF vars
<1>8. QED
    BY <1>1, <1>2, <1>3, <1>4, <1>5, <1>6, <1>7 DEF Next

\* Every flag and state of the refresh cycle stays in its type, for every
\* number of dropped files.
THEOREM TypeCorrect == Spec => []TypeOK
<1>1. ASSUME Init PROVE TypeOK
    <2>1. firstUpdate \in BOOLEAN
        BY <1>1, FirstUpdatesAssumption DEF Init
    <2>2. 0 \in 0..MaxDrop /\ 0 \in Versions
        BY MaxDropAssumption DEF Versions
    <2>3. {updating, haveAborted, locked, ticking, firstUpdate, wantAbort, pending,
           plotUpdates, monitored, devices, outdated, raced, failed} \subseteq BOOLEAN
        BY <1>1, <2>1 DEF Init
    <2>4. QED
        BY <1>1, <2>2, <2>3 DEF Init, TypeOK
<1>2. QED
    BY <1>1, TypeStep, PTL DEF Spec

-----------------------------------------------------------------------------
(* The handlers that respect the lock *)

LockedHandlers == {"edit", "abort", "drag", "plot", "monitor"}

\* The ASSERTs and the exclusive use of the tree depend on the flags being in
\* step and on the timer being suspended; the second half of OnUpdateTimer
\* depends on what its first half has seen still being so.
LockedInv ==
    /\ CycleConsistent /\ TimerIsSuspended /\ NoAssertFails /\ TreeIsExclusive
    /\ dialog = "none" /\ gui \in {"idle", "timer"}
    /\ ~firstUpdate
    /\ gui = "timer" => ~updating

\* While no worker exists, a handler may write the tree and start a refresh.
LEMMA StartLocked ==
    ASSUME LockedInv, ~updating, gui' = "idle", UNCHANGED <<dialog, firstUpdate, event>>,
           raced' = (raced \/ Busy) \/ UNCHANGED raced,
           DoSceneUpdate \/ NoSceneUpdate
    PROVE  LockedInv'
<1>1. worker = "none" /\ ~Busy
    BY DEF LockedInv, CycleConsistent, Busy
<1>2. ~raced'
    BY <1>1 DEF LockedInv, TreeIsExclusive
<1>3. ~failed'
    BY <1>1 DEF LockedInv, NoAssertFails, DoSceneUpdate, NoSceneUpdate
<1>4. CycleConsistent'
    BY StartConsistent DEF LockedInv
<1>5. updating' => ~ticking'
    <2>1. CASE DoSceneUpdate
        BY <1>1, <2>1 DEF DoSceneUpdate
    <2>2. CASE NoSceneUpdate
        BY <2>2 DEF NoSceneUpdate
    <2>3. QED
        BY <2>1, <2>2
<1>6. QED
    BY <1>2, <1>3, <1>4, <1>5
    DEF LockedInv, TimerIsSuspended, NoAssertFails, TreeIsExclusive

\* Every step of these handlers, and of the worker and its events, keeps it.
LEMMA LockedStep ==
    ASSUME Handlers \subseteq LockedHandlers, LockedInv, [Next]_vars
    PROVE  LockedInv'
<1>a. CycleConsistent'
    BY CycleStep DEF LockedInv
<1>b. \A h \in {"drop", "open", "range", "export", "video", "close"} : ~Input(h)
    BY DEF LockedHandlers, Input
<1>1. CASE WorkerStep
    <2>1. CASE WorkerReset
        BY <1>a, <2>1 DEF WorkerReset, LockedInv, TimerIsSuspended, NoAssertFails,
                          TreeIsExclusive, guiVars, flagVars
    <2>2. ASSUME NEW code \in {"ok", "error", "abort"}, WorkerPost(code)
          PROVE  LockedInv'
        BY <1>a, <2>2 DEF WorkerPost, LockedInv, TimerIsSuspended, NoAssertFails,
                          TreeIsExclusive, guiVars, flagVars, treeVars
    <2>3. CASE WorkerExit
        BY <1>a, <2>3 DEF WorkerExit, LockedInv, TimerIsSuspended, NoAssertFails,
                          TreeIsExclusive, guiVars, flagVars, treeVars
    <2>4. QED
        BY <1>1, <2>1, <2>2, <2>3 DEF WorkerStep
<1>2. CASE OnFinishRefreshThread
    BY <1>a, <1>2 DEF OnFinishRefreshThread, LockedInv, TimerIsSuspended, NoAssertFails,
                      TreeIsExclusive, guiVars
<1>3. CASE TimerStep
    <2>1. CASE OnUpdateTimer
        <3>1. ~updating /\ gui' = "timer" /\ NoSceneUpdate /\ UNCHANGED <<firstUpdate, dialog, raced>>
            BY <2>1 DEF OnUpdateTimer, LockedInv, TimerIsSuspended, treeVars
        <3>2. QED
            BY <1>a, <3>1 DEF LockedInv, TimerIsSuspended, NoAssertFails, TreeIsExclusive,
                              NoSceneUpdate
    <2>2. CASE OnUpdateTimerFlags
        <3>1. /\ gui = "timer" /\ gui' = "idle" /\ dialog # "video"
              /\ UNCHANGED <<dialog, firstUpdate, event>>
            BY <2>2 DEF OnUpdateTimerFlags, LockedInv
        <3>2. CASE (pending \/ plotUpdates \/ HasMonitorUpdates) /\ ~RefreshThreadActive
            <4>1. DoSceneUpdate /\ raced' = (raced \/ Busy)
                BY <2>2, <3>1, <3>2 DEF OnUpdateTimerFlags, WriteTree
            <4>2. QED
                BY <3>1, <4>1, StartLocked DEF LockedInv
        <3>3. CASE ~((pending \/ plotUpdates \/ HasMonitorUpdates) /\ ~RefreshThreadActive)
            <4>1. NoSceneUpdate /\ UNCHANGED raced
                BY <2>2, <3>3 DEF OnUpdateTimerFlags
            <4>2. QED
                BY <3>1, <4>1, StartLocked DEF LockedInv
        <3>4. QED
            BY <3>2, <3>3
    <2>3. QED
        BY <1>3, <2>1, <2>2 DEF TimerStep
<1>4. CASE DropStep
    BY <1>4 DEF DropStep, DropFile, DropReturns, DropDone, Dropping, LockedInv
<1>5. CASE DialogStep
    BY <1>5 DEF DialogStep, FileChosen, RangeEdited, ExportDone, DialogCancelled,
                VideoCancelled, VideoDone, LockedInv
<1>6. CASE UserStep
    <2>1. CASE Edit
        <3>1. ~updating /\ gui = "idle"
            BY <2>1 DEF Edit, Input, Idle, LockedInv, CycleConsistent
        <3>2. QED
            BY <2>1, <3>1, StartLocked DEF Edit, WriteTree, guiVars
    <2>2. CASE OnButtonRefresh
        <3>1. gui = "idle" /\ UNCHANGED <<gui, dialog, firstUpdate, raced, event>>
            BY <2>2 DEF OnButtonRefresh, Input, Idle, guiVars, treeVars
        <3>2. CASE updating \/ RefreshThreadActive
            BY <1>a, <2>2, <3>1, <3>2
            DEF OnButtonRefresh, LockedInv, TimerIsSuspended, NoAssertFails, TreeIsExclusive
        <3>3. CASE ~(updating \/ RefreshThreadActive)
            BY <2>2, <3>1, <3>3, StartLocked DEF OnButtonRefresh
        <3>4. QED
            BY <3>2, <3>3
    <2>3. CASE OnEscape
        BY <1>a, <2>3 DEF OnEscape, LockedInv, TimerIsSuspended, NoAssertFails,
                          TreeIsExclusive, guiVars, treeVars
    <2>4. CASE Drag \/ PlotDrag \/ FileChanges
        <3>1. ~raced'
            BY <2>4 DEF Drag, PlotDrag, FileChanges, WriteTree, Busy, LockedInv,
                        CycleConsistent, TreeIsExclusive, treeVars
        <3>2. QED
            BY <1>a, <2>4, <3>1 DEF Drag, PlotDrag, FileChanges, LockedInv, TimerIsSuspended,
                                    NoAssertFails, TreeIsExclusive, guiVars, flagVars
    <2>5. CASE \/ OnDropFiles \/ OnFileOpen \/ OnEditRange \/ OnFileExportIons
               \/ OnFileExportFilterVideo \/ CloseAborts \/ CloseExits
        BY <1>b, <2>5 DEF OnDropFiles, OnFileOpen, OnEditRange, OnFileExportIons,
                          OnFileExportFilterVideo, CloseAborts, CloseExits
    <2>6. QED
        BY <1>6, <2>1, <2>2, <2>3, <2>4, <2>5 DEF UserStep
<1>7. CASE UNCHANGED vars
    BY <1>a, <1>7 DEF vars, guiVars, flagVars, treeVars, LockedInv, TimerIsSuspended,
                      NoAssertFails, TreeIsExclusive
<1>8. QED
    BY <1>1, <1>2, <1>3, <1>4, <1>5, <1>6, <1>7 DEF Next

\* So it holds throughout.
LEMMA LockedInvariance ==
    ASSUME Handlers \subseteq LockedHandlers, FirstUpdates \subseteq {FALSE}
    PROVE  Spec => []LockedInv
<1>1. Init => LockedInv
    BY DEF Init, LockedInv, CycleConsistent, TimerIsSuspended, NoAssertFails, TreeIsExclusive
<1>2. LockedInv /\ [Next]_vars => LockedInv'
    BY LockedStep
<1>3. QED
    BY <1>1, <1>2, PTL DEF Spec

\* With the handlers that respect the lock, and no file on the command line:
\* however edits, drags, aborts, timers and changed files alternate with the
\* worker, no refresh is started while another is open.
THEOREM LockKeepsAssertions ==
    ASSUME Handlers \subseteq LockedHandlers, FirstUpdates \subseteq {FALSE}
    PROVE  Spec => []NoAssertFails
<1>1. LockedInv => NoAssertFails
    BY DEF LockedInv
<1>2. QED
    BY <1>1, LockedInvariance, PTL

\* With the same handlers, the GUI thread never writes the tree that the
\* worker uses.
THEOREM LockKeepsTreeExclusive ==
    ASSUME Handlers \subseteq LockedHandlers, FirstUpdates \subseteq {FALSE}
    PROVE  Spec => []TreeIsExclusive
<1>1. LockedInv => TreeIsExclusive
    BY DEF LockedInv
<1>2. QED
    BY <1>1, LockedInvariance, PTL

\* With the same handlers, the update timer stays suspended until the update
\* is finished.
THEOREM LockSuspendsTimer ==
    ASSUME Handlers \subseteq LockedHandlers, FirstUpdates \subseteq {FALSE}
    PROVE  Spec => []TimerIsSuspended
<1>1. LockedInv => TimerIsSuspended
    BY DEF LockedInv
<1>2. QED
    BY <1>1, LockedInvariance, PTL

-----------------------------------------------------------------------------
(* The scene *)

\* What the worker computes, and will have computed when it is freed, is the
\* tree in place: with these handlers the tree is not written meanwhile.  Not
\* so of a worker that has begun between the drag of a range and the timer;
\* the timer's refresh is then still to come.
ResultIsTree ==
    /\ worker \in {"computing", "posted", "exited"} => reading = tree \/ plotUpdates
    /\ ~updating /\ ~outdated => shown = tree \/ plotUpdates

\* A handler that starts a refresh, or one that leaves tree and scene alone.
LEMMA StartKeepsResult ==
    ASSUME LockedInv, ~updating, DoSceneUpdate
    PROVE  ResultIsTree'
<1>1. worker' = "starting" /\ updating'
    BY DEF LockedInv, CycleConsistent, NoAssertFails, DoSceneUpdate
<1>2. QED
    BY <1>1 DEF ResultIsTree

\* While an update is open, the worker goes on computing the tree in place.
LEMMA ResultStep ==
    ASSUME Handlers \subseteq LockedHandlers, LockedInv, ResultIsTree, [Next]_vars
    PROVE  ResultIsTree'
<1>b. \A h \in {"drop", "open", "range", "export", "video", "close"} : ~Input(h)
    BY DEF LockedHandlers, Input
<1>1. CASE WorkerStep
    <2>1. CASE WorkerReset
        <3>1. /\ worker' = "computing" /\ (reading' = tree \/ plotUpdates)
              /\ UNCHANGED <<tree, plotUpdates, updating>>
            BY <2>1 DEF WorkerReset, flagVars
        <3>2. updating
            BY <2>1 DEF WorkerReset, LockedInv, CycleConsistent
        <3>3. QED
            BY <3>1, <3>2 DEF ResultIsTree
    <2>2. ASSUME NEW code \in {"ok", "error", "abort"}, WorkerPost(code)
          PROVE  ResultIsTree'
        BY <2>2 DEF WorkerPost, ResultIsTree, flagVars, treeVars
    <2>3. CASE WorkerExit
        BY <2>3 DEF WorkerExit, ResultIsTree, flagVars, treeVars, askVars
    <2>4. QED
        BY <1>1, <2>1, <2>2, <2>3 DEF WorkerStep
<1>2. CASE OnFinishRefreshThread
    <2>1. /\ reading = tree \/ plotUpdates
          /\ worker' = "none" /\ UNCHANGED <<tree, plotUpdates>>
        BY <1>2 DEF OnFinishRefreshThread, LockedInv, CycleConsistent, ResultIsTree
    <2>2. (shown' = reading /\ ~outdated') \/ outdated'
        BY <1>2 DEF OnFinishRefreshThread
    <2>3. QED
        BY <2>1, <2>2 DEF ResultIsTree
<1>3. CASE TimerStep
    <2>1. CASE OnUpdateTimer
        BY <2>1 DEF OnUpdateTimer, NoSceneUpdate, LockedInv, ResultIsTree, treeVars, askVars
    <2>2. CASE OnUpdateTimerFlags
        <3>1. ~updating /\ dialog # "video" /\ UNCHANGED <<reading, shown, outdated>>
            BY <2>2 DEF OnUpdateTimerFlags, LockedInv
        <3>2. worker = "none" /\ ~RefreshThreadActive
            BY <3>1 DEF LockedInv, CycleConsistent, RefreshThreadActive
        <3>3. DoSceneUpdate \/ (~plotUpdates /\ NoSceneUpdate /\ UNCHANGED tree)
            BY <2>2, <3>1, <3>2 DEF OnUpdateTimerFlags
        <3>4. CASE DoSceneUpdate
            BY <3>1, <3>4, StartKeepsResult
        <3>5. CASE ~plotUpdates /\ NoSceneUpdate /\ UNCHANGED tree
            BY <3>1, <3>2, <3>5 DEF NoSceneUpdate, ResultIsTree
        <3>6. QED
            BY <3>3, <3>4, <3>5
    <2>3. QED
        BY <1>3, <2>1, <2>2 DEF TimerStep
<1>4. CASE DropStep
    BY <1>4 DEF DropStep, DropFile, DropReturns, DropDone, Dropping, LockedInv
<1>5. CASE DialogStep
    BY <1>5 DEF DialogStep, FileChosen, RangeEdited, ExportDone, DialogCancelled,
                VideoCancelled, VideoDone, LockedInv
<1>6. CASE UserStep
    <2>1. CASE Edit
        <3>1. ~updating /\ worker = "none"
            BY <2>1 DEF Edit, LockedInv, CycleConsistent
        <3>2. CASE DoSceneUpdate
            BY <3>1, <3>2, StartKeepsResult
        <3>3. CASE NoSceneUpdate /\ outdated' = TRUE
            BY <3>1, <3>3 DEF NoSceneUpdate, ResultIsTree
        <3>4. QED
            BY <2>1, <3>2, <3>3 DEF Edit
    <2>2. CASE OnButtonRefresh
        <3>1. CASE updating \/ RefreshThreadActive
            BY <2>2, <3>1 DEF OnButtonRefresh, ResultIsTree, treeVars, askVars
        <3>2. CASE ~(updating \/ RefreshThreadActive)
            BY <2>2, <3>2, StartKeepsResult DEF OnButtonRefresh
        <3>3. QED
            BY <3>1, <3>2
    <2>3. CASE OnEscape
        BY <2>3 DEF OnEscape, ResultIsTree, treeVars, askVars
    <2>4. CASE Drag \/ PlotDrag \/ FileChanges
        <3>1. CASE PlotDrag
            BY <3>1 DEF PlotDrag, ResultIsTree
        <3>2. CASE Drag \/ FileChanges
            BY <3>2 DEF Drag, FileChanges, ResultIsTree, flagVars, treeVars, workVars
        <3>3. QED
            BY <2>4, <3>1, <3>2
    <2>5. CASE \/ OnDropFiles \/ OnFileOpen \/ OnEditRange \/ OnFileExportIons
               \/ OnFileExportFilterVideo \/ CloseAborts \/ CloseExits
        BY <1>b, <2>5 DEF OnDropFiles, OnFileOpen, OnEditRange, OnFileExportIons,
                          OnFileExportFilterVideo, CloseAborts, CloseExits
    <2>6. QED
        BY <1>6, <2>1, <2>2, <2>3, <2>4, <2>5 DEF UserStep
<1>7. CASE UNCHANGED vars
    BY <1>7 DEF vars, flagVars, treeVars, workVars, askVars, ResultIsTree
<1>8. QED
    BY <1>1, <1>2, <1>3, <1>4, <1>5, <1>6, <1>7 DEF Next

\* With the same handlers, the scene shows the tree between refreshes, unless
\* an edit with automatic update off or a refresh that failed came last.  The
\* bounds of a dragged range, which are in the tree as soon as the mouse is
\* released, are never left at that: until a refresh has started from cleared
\* caches the flag is up and the timer runs, whatever else is edited,
\* refreshed or stopped in between.
THEOREM LockKeepsSceneCurrent ==
    ASSUME Handlers \subseteq LockedHandlers, FirstUpdates \subseteq {FALSE}
    PROVE  Spec => []SceneIsCurrent
<1>1. Init => ResultIsTree
    BY DEF Init, ResultIsTree
<1>2. LockedInv /\ ResultIsTree /\ [Next]_vars => ResultIsTree'
    BY ResultStep
<1>3. LockedInv /\ ResultIsTree => SceneIsCurrent
    BY DEF LockedInv, CycleConsistent, ResultIsTree, SceneIsCurrent
<1>4. QED
    BY <1>1, <1>2, <1>3, LockedInvariance, PTL DEF Spec
=============================================================================

--------------------------- MODULE FilterSettings ---------------------------
(***************************************************************************)
(* All the filters of src/backend/filters, each in a life of its own: the  *)
(* variable filter says which one a behaviour is about.  What must hold is *)
(* the same for all of them and stated once, in FilterLife.                *)
(***************************************************************************)
CONSTANT MaxChanged   \* bound: settings changed from those a filter starts with
VARIABLES filter, settings, input, cacheOK, outputs, shown, lapses

settingVars == <<filter, settings, input, cacheOK, outputs, shown, lapses>>

Downsample == INSTANCE IonDownsample
Colour     == INSTANCE IonColour
Clip       == INSTANCE IonClip
Bounds     == INSTANCE BoundingBox
Info       == INSTANCE IonInfo
Spectrum   == INSTANCE SpectrumPlot
Ranges     == INSTANCE RangeFileFilter
Notes      == INSTANCE Annotation
Profiles   == INSTANCE Profile
Proxi      == INSTANCE Proxigram
Moves      == INSTANCE Transform
Voxels     == INSTANCE Voxelise
Clusters   == INSTANCE ClusterAnalysis
Spatial    == INSTANCE SpatialAnalysis
Data       == INSTANCE DataLoad
Programs   == INSTANCE ExternalProgram

Init ==
    \/ Downsample!LifeInit
    \/ Colour!LifeInit
    \/ Clip!LifeInit
    \/ Bounds!LifeInit
    \/ Info!LifeInit
    \/ Spectrum!LifeInit
    \/ Ranges!LifeInit
    \/ Notes!LifeInit
    \/ Profiles!LifeInit
    \/ Proxi!LifeInit
    \/ Moves!LifeInit
    \/ Voxels!LifeInit
    \/ Clusters!LifeInit
    \/ Spatial!LifeInit
    \/ Data!LifeInit
    \/ Programs!LifeInit

Next ==
    \/ Downsample!LifeNext
    \/ Colour!LifeNext
    \/ Clip!LifeNext
    \/ Bounds!LifeNext
    \/ Info!LifeNext
    \/ Spectrum!LifeNext
    \/ Ranges!LifeNext
    \/ Notes!LifeNext
    \/ Profiles!LifeNext
    \/ Proxi!LifeNext
    \/ Moves!LifeNext
    \/ Voxels!LifeNext
    \/ Clusters!LifeNext
    \/ Spatial!LifeNext
    \/ Data!LifeNext
    \/ Programs!LifeNext

Spec == Init /\ [][Next]_settingVars

-----------------------------------------------------------------------------
\* The filters whose code leaves no way for the cache, or data beside it, to
\* come apart from the settings and the input.
Unfailing == {Colour!Name, Bounds!Name, Info!Name, Notes!Name, Profiles!Name, Proxi!Name,
              Data!Name, Programs!Name}

\* A cache that is trusted holds what a run of the filter would make now:
\* every setter that changes the result clears it, restyles it or cuts it,
\* and nothing of what came from above before is left in it.  After an abort
\* the cache may lack streams, but holds none a run would not make.  After
\* another lapse this holds again as soon as the cache is cleared.
Fresh ==
    /\ filter = Downsample!Name => Downsample!Fresh
    /\ filter = Colour!Name => Colour!Fresh
    /\ filter = Clip!Name => Clip!Fresh
    /\ filter = Bounds!Name => Bounds!Fresh
    /\ filter = Info!Name => Info!Fresh
    /\ filter = Spectrum!Name => Spectrum!Fresh
    /\ filter = Ranges!Name => Ranges!Fresh
    /\ filter = Notes!Name => Notes!Fresh
    /\ filter = Profiles!Name => Profiles!Fresh
    /\ filter = Proxi!Name => Proxi!Fresh
    /\ filter = Moves!Name => Moves!Fresh
    /\ filter = Voxels!Name => Voxels!Fresh
    /\ filter = Clusters!Name => Clusters!Fresh
    /\ filter = Spatial!Name => Spatial!Fresh
    /\ filter = Data!Name => Data!Fresh
    /\ filter = Programs!Name => Programs!Fresh

\* While the filter asks for no update, the scene shows what a run from
\* scratch would show, streams that only pass the filter included, whether
\* it was run or its cache taken.  Of a partial cache it shows no more than
\* that, and a replay that passes on other streams shows the same of its own.
Current ==
    /\ filter = Downsample!Name => Downsample!Current
    /\ filter = Colour!Name => Colour!Current
    /\ filter = Clip!Name => Clip!Current
    /\ filter = Bounds!Name => Bounds!Current
    /\ filter = Info!Name => Info!Current
    /\ filter = Spectrum!Name => Spectrum!Current
    /\ filter = Ranges!Name => Ranges!Current
    /\ filter = Notes!Name => Notes!Current
    /\ filter = Profiles!Name => Profiles!Current
    /\ filter = Proxi!Name => Proxi!Current
    /\ filter = Moves!Name => Moves!Current
    /\ filter = Voxels!Name => Voxels!Current
    /\ filter = Clusters!Name => Clusters!Current
    /\ filter = Spatial!Name => Spatial!Current
    /\ filter = Data!Name => Data!Current
    /\ filter = Programs!Name => Programs!Current

\* A filter makes only what its emit mask names and passes on nothing that
\* its block mask names, when it runs and when its cache is taken: the masks
\* decide which filters a refresh may leave out.  The spatial analysis does
\* pass on ranges that reach it without ions, which its mask blocks.
MasksHold ==
    /\ filter = Downsample!Name => Downsample!EmitsHold
    /\ filter = Colour!Name => Colour!EmitsHold
    /\ filter = Clip!Name => Clip!EmitsHold
    /\ filter = Bounds!Name => Bounds!EmitsHold
    /\ filter = Info!Name => Info!EmitsHold
    /\ filter = Spectrum!Name => Spectrum!EmitsHold
    /\ filter = Ranges!Name => Ranges!EmitsHold
    /\ filter = Notes!Name => Notes!EmitsHold
    /\ filter = Profiles!Name => Profiles!EmitsHold
    /\ filter = Proxi!Name => Proxi!EmitsHold
    /\ filter = Moves!Name => Moves!EmitsHold
    /\ filter = Voxels!Name => Voxels!EmitsHold
    /\ filter = Clusters!Name => Clusters!EmitsHold
    /\ filter = Spatial!Name => Spatial!EmitsHold
    /\ filter = Data!Name => Data!EmitsHold
    /\ filter = Programs!Name => Programs!EmitsHold
    /\ filter = Downsample!Name => Downsample!BlocksHold
    /\ filter = Colour!Name => Colour!BlocksHold
    /\ filter = Clip!Name => Clip!BlocksHold
    /\ filter = Bounds!Name => Bounds!BlocksHold
    /\ filter = Info!Name => Info!BlocksHold
    /\ filter = Spectrum!Name => Spectrum!BlocksHold
    /\ filter = Ranges!Name => Ranges!BlocksHold
    /\ filter = Notes!Name => Notes!BlocksHold
    /\ filter = Profiles!Name => Profiles!BlocksHold
    /\ filter = Proxi!Name => Proxi!BlocksHold
    /\ filter = Moves!Name => Moves!BlocksHold
    /\ filter = Voxels!Name => Voxels!BlocksHold
    /\ filter = Clusters!Name => Clusters!BlocksHold
    /\ filter = Data!Name => Data!BlocksHold
    /\ filter = Programs!Name => Programs!BlocksHold
    /\ filter = Spatial!Name /\ Spatial!IonsIn(input) # {} => Spatial!BlocksHold

\* A filter that undo, redo or a stash puts back as a clone, or that a state
\* file brings back, shows at the next refresh what it showed before,
\* whatever had been set and dragged: the clones of ten filters and the files
\* of five.  Of the others the code loses settings.
RestoredShowsSame ==
    /\ filter = Downsample!Name => Downsample!CloneShowsSame
    /\ filter = Colour!Name => Colour!CloneShowsSame
    /\ filter = Clip!Name => Clip!CloneShowsSame
    /\ filter = Info!Name => Info!CloneShowsSame
    /\ filter = Spectrum!Name => Spectrum!CloneShowsSame
    /\ filter = Notes!Name => Notes!CloneShowsSame
    /\ filter = Proxi!Name => Proxi!CloneShowsSame
    /\ filter = Moves!Name => Moves!CloneShowsSame
    /\ filter = Spatial!Name => Spatial!CloneShowsSame
    /\ filter = Programs!Name => Programs!CloneShowsSame
    /\ filter = Downsample!Name => Downsample!ReloadShowsSame
    /\ filter = Bounds!Name => Bounds!ReloadShowsSame
    /\ filter = Info!Name => Info!ReloadShowsSame
    /\ filter = Proxi!Name => Proxi!ReloadShowsSame
    /\ filter = Programs!Name => Programs!ReloadShowsSame

\* The isosurface on show while no update is asked for is that of the ions
\* that reach the voxelise filter.
SurfaceIsOfInput ==
    filter = Voxels!Name /\ shown # Voxels!Stale /\ "streams" \in DOMAIN shown =>
        \A s \in shown.streams : s.type = "grid" => s.val.grid[1] = Voxels!IonsIn(input)
=============================================================================

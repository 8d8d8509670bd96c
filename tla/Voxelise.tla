------------------------------ MODULE Voxelise ------------------------------
(***************************************************************************)
(* VoxeliseFilter: counts the ions in a grid of voxels, shown as a cloud   *)
(* of points, as a slice, or as an isosurface of a grid of its own.  Beside *)
(* its cache the filter keeps the counts and the isosurface's grid; each    *)
(* is here what it was computed from, <<>> when there is none.  A length   *)
(* is in fiftieths of the unit box.                                        *)
(***************************************************************************)
EXTENDS FilterCommon, TLC
CONSTANT MaxChanged
VARIABLES filter, settings, input, cacheOK, outputs, shown, lapses

Name     == "voxelise"
Inputs   == {{}, {"ions1", "draw"}, {"ions1", "ions2", "range"}}
Ratios   == {"conc", "ratio"}

Defaults ==
    [representation |-> "points", normaliseType |-> "none", fixedWidth |-> FALSE, nBins |-> 50,
     binWidth |-> 1, extent |-> 50, splatSize |-> 1, alpha |-> 9, colour |-> "grey",
     isoLevel |-> 1, voxelsize |-> 2, filterMode |-> "none", gaussDev |-> 1, filterRatio |-> 3,
     numerator |-> <<>>, denominator |-> <<>>, sliceAxis |-> "x", sliceOffset |-> 5,
     sliceInterpolate |-> FALSE, colourMap |-> 0, showColourBar |-> FALSE,
     autoColourMap |-> TRUE, mapStart |-> 0, mapEnd |-> 1, rsdIncoming |-> FALSE,
     counts |-> <<>>, grid |-> <<>>]

\* What the grid of the program offers in each representation.
PointsOffered == ({"splatSize"} \X {0, 4}) \cup ({"alpha"} \X {-1, 4})
IsosurfaceOffered(p) ==
    IF ~p.rsdIncoming THEN {} ELSE ({"voxelsize", "isoLevel"} \X {0, 7}) \cup ({"colour"} \X {"grey", "red"})
SliceOffered(p) ==
    ({"sliceAxis"} \X {"z"}) \cup ({"sliceOffset"} \X {1, 20}) \cup ({"alpha"} \X {4})
    \cup ({"sliceInterpolate", "showColourBar", "autoColourMap"} \X BOOLEAN) \cup ({"colourMap"} \X {0, 3})
    \cup (IF p.autoColourMap THEN {} ELSE {"mapStart", "mapEnd"} \X {0, 1, 2})
Offered(p) ==
    ({"representation"} \X {"points", "isosurface", "slice"}) \cup ({"fixedWidth"} \X BOOLEAN)
    \cup (IF p.fixedWidth THEN {"binWidth"} \X {5} ELSE {"nBins"} \X {0, 10})
    \cup ({"normaliseType"} \X ({"none", "volume"} \cup (IF p.rsdIncoming THEN Ratios ELSE {})))
    \cup (IF p.rsdIncoming THEN ({"allNumerator"} \X BOOLEAN) \cup {<<"numerator2", TRUE>>} ELSE {})
    \cup (IF p.rsdIncoming /\ p.normaliseType = "ratio"
          THEN ({"allDenominator"} \X BOOLEAN) \cup {<<"denominator2", FALSE>>} ELSE {})
    \cup ({"filterMode"} \X {"none", "gauss"})
    \cup (IF p.filterMode = "none" THEN {} ELSE {"gaussDev", "filterRatio"} \X {0, 2})
    \cup CASE p.representation = "points"     -> PointsOffered
           [] p.representation = "isosurface" -> IsosurfaceOffered(p)
           [] p.representation = "slice"      -> SliceOffered(p)

Recount(p) == [p EXCEPT !.counts = <<>>]
Regrid(p)  == [p EXCEPT !.counts = <<>>, !.grid = <<>>]

\* calculateWidthsFromNumBins, calculateNumBinsFromWidths; an infinite width is 0.
Widths(p)  == [p EXCEPT !.binWidth = IF p.nBins = 0 THEN 0 ELSE p.extent \div p.nBins]
NumBins(p) == [p EXCEPT !.nBins = IF p.binWidth = 0 THEN 0 ELSE p.extent \div p.binWidth]
Apply(p, q) == IF p = q THEN Unmoved(p) ELSE Changed(Recount(q))

\* The filter keeps its cache when the new representation is one that does,
\* whatever the cached stream was made for.
SetRepresentation(p, v, cached) ==
    IF cached /\ v # "isosurface"
    THEN Lapse(Stamped(Put(p, "representation", v), {"representation"}, TRUE),
               v # p.representation, "restyle")
    ELSE Changed(Regrid(Put(p, "representation", v)))

\* Single flags of the species; "all" sets every one.
SetFlags(p, k, i, b) == Changed(Regrid([p EXCEPT ![k] = [j \in DOMAIN @ |-> IF i \in {0, j} THEN b ELSE @[j]]]))

\* Settings of the slice alone, for which Filter::clearCache keeps the counts.
SliceKeys == {"sliceAxis", "sliceOffset", "sliceInterpolate", "showColourBar", "autoColourMap",
              "mapStart", "mapEnd"}

SetProp(p, k, v, cached) ==
    CASE k = "representation" -> SetRepresentation(p, v, cached)
      [] k = "voxelsize"      -> Require(v > 0, p, Lapse(Stamped(Put(p, k, v), {k}, TRUE),
                                                         p.grid # <<>> /\ v # p.voxelsize, "kept"))
      [] k = "fixedWidth"     -> Apply(p, Put(p, k, v))
      [] k = "nBins"          -> Apply(p, Widths(Put(p, k, v)))
      [] k = "binWidth"       -> Apply(p, NumBins(Put(p, k, v)))
      [] k = "normaliseType"  -> IF p[k] = v THEN Unmoved(p) ELSE Changed(Regrid(Put(p, k, v)))
      [] k = "allNumerator"   -> SetFlags(p, "numerator", 0, v)
      [] k = "numerator2"     -> SetFlags(p, "numerator", 2, v)
      [] k = "allDenominator" -> SetFlags(p, "denominator", 0, v)
      [] k = "denominator2"   -> SetFlags(p, "denominator", 2, v)
      [] k = "filterMode"     -> IF p[k] = v THEN Unmoved(p) ELSE Changed(Recount(Put(p, k, v)))
      [] k \in {"gaussDev", "filterRatio"} ->
             Require(v > 0, p, IF p[k] = v THEN Unmoved(p) ELSE Changed(Recount(Put(p, k, v))))
      [] k = "splatSize" -> Require(v > 0, p, Stamped(Put(p, k, v), {k}, v # p.splatSize))
      [] k = "isoLevel"  -> Require(v > 0, p, Stamped(Put(p, k, v), {k}, TRUE))
      [] k = "alpha"     -> Require(v \in 0..10, p, Stamped(Put(p, k, v), {k}, TRUE))
      [] k = "colour"    -> Stamped(Put(p, k, v), {k}, v # p.colour)
      [] k = "colourMap" -> Require(v # p.colourMap, p, Changed(Put(p, k, v)))
      [] k \in SliceKeys -> Require(/\ k = "sliceOffset" => v \in 0..10
                                    /\ k = "mapStart" => v < p.mapEnd
                                    /\ k = "mapEnd"   => v > p.mapStart,
                                    p, ApplyNow(p, k, v))

Retouchable(p) == TRUE

\* A drag moves the slice, within the box; a slice is not cached.
Bindings(p) == IF p.representation = "slice" THEN {"sliceOffset"} \X {0, 10} ELSE {}
Bound(p, b) == Unmoved(Put(p, "sliceOffset", b[2]))

\* initFilter: the species can be chosen while ranges reach the filter.
Sees(p, in) ==
    IF "range" \notin in
    THEN [p EXCEPT !.numerator = <<>>, !.denominator = <<>>, !.rsdIncoming = FALSE,
                   !.normaliseType = IF @ \in Ratios THEN "none" ELSE @]
    ELSE IF p.rsdIncoming THEN p
         ELSE [p EXCEPT !.rsdIncoming = TRUE, !.numerator = <<FALSE, FALSE>>, !.denominator = <<TRUE, TRUE>>]

\* The isosurface's grid counts all ions unless a concentration is asked for;
\* it is computed only if there is none with a voxel in it.
GridOf(p, in) ==
    IF p.grid # <<>> THEN p.grid
    ELSE IF IonsIn(in) = {} THEN <<>>
    ELSE <<IonsIn(in), p.normaliseType, p.voxelsize,
           IF p.normaliseType \in Ratios THEN p.numerator ELSE <<>>,
           IF p.normaliseType = "ratio" THEN p.denominator ELSE <<>>>>

\* The bins follow the widths or the widths the bins, once the ions' box is known.
Binned(p) == IF p.fixedWidth THEN NumBins([p EXCEPT !.extent = 100]) ELSE Widths([p EXCEPT !.extent = 100])

\* The counts, of the enabled species if there are ranges, filtered.
CountsOf(p, in) ==
    IF p.counts # <<>> THEN p.counts
    ELSE LET b == Binned(p)
         IN  <<IonsIn(in), p.normaliseType, b.nBins, b.binWidth, p.numerator,
               IF p.normaliseType = "ratio" THEN p.denominator ELSE <<>>,
               IF p.filterMode = "none" THEN <<>> ELSE <<p.gaussDev, p.filterRatio>>>>
Counted(p, in) == p.counts # <<>> \/ IonsIn(in) # {}

\* The stream of each representation: the isosurface, the points, the slice.
Isosurface(p, in) ==
    Stream("grid", [grid |-> GridOf(p, in), voxelsize |-> p.voxelsize, representation |-> "isosurface",
                    isoLevel |-> p.isoLevel, colour |-> p.colour, alpha |-> p.alpha])
Points(p, in) ==
    Stream("voxel", [counts |-> CountsOf(p, in), representation |-> "points", splatSize |-> p.splatSize,
                     isoLevel |-> p.isoLevel, colour |-> p.colour, alpha |-> p.alpha])
Slice(p, in)  ==
    Stream("draw", <<CountsOf(p, in), p.sliceAxis, p.sliceOffset, p.sliceInterpolate, p.colourMap,
                     IF p.autoColourMap THEN <<>> ELSE <<p.mapStart, p.mapEnd>>, p.showColourBar, p.alpha>>)

Blocks(p) == {"plot", "voxel"}
Emits(p)  == IF p.representation = "isosurface" THEN {"grid", "ions", "range"} ELSE {"voxel", "draw"}
Run(p, in) ==
    LET passed == Except(in, Blocks(p))
    IN  CASE p.representation = "isosurface" ->
                 IF p.grid = <<>> /\ ~p.rsdIncoming THEN Made({}, {}, passed)
                 ELSE Made({Isosurface(p, in)}, {}, passed)
          [] ~Counted(p, in)              -> Failure
          [] p.representation = "points"  -> Made({Points(p, in)}, {}, passed)
          [] OTHER                        -> Made({}, {Slice(p, in)}, passed)
Replay(p, in) == Made({}, {}, Except(in, Blocks(p)))
Cached(p, in) == {{}}

\* What a run leaves in the filter, what clearCache leaves there, and nothing.
Ran(p, in) ==
    IF p.representation = "isosurface"
    THEN [p EXCEPT !.grid = IF p.grid = <<>> /\ ~p.rsdIncoming THEN @ ELSE GridOf(p, in)]
    ELSE LET q == IF p.counts = <<>> THEN Binned(p) ELSE p IN [q EXCEPT !.counts = CountsOf(p, in)]
Cleared(p) == Recount(p)
Scratch(p) == Regrid(p)

\* cloneUncached forgets fixedWidth.
Cloned(p)  == Regrid([p EXCEPT !.fixedWidth = Defaults.fixedWidth])

\* The elements of the state file are looked for in another order than that
\* in which they are written, so that none is ever found.
WriteOrder == <<"userstring", "voxelsize", "fixedwidth", "nbins", "binwidth", "normalisetype",
                "enabledions", "representation", "isovalue", "colour", "axialslice">>
ReadOrder  == <<"voxelsize", "userstring", "fixedwidth", "nbins", "binwidth", "normalisetype",
                "enabledions", "representation", "isovalue", "colour", "axialslice">>
Position(e) == CHOOSE i \in 1..Len(WriteOrder) : WriteOrder[i] = e
Unwritten  == {"splatSize", "filterMode", "gaussDev", "filterRatio", "colourMap", "extent",
               "rsdIncoming", "counts", "grid"}
Written(p) == [k \in DOMAIN p \ Unwritten |-> p[k]]
ReadBack(w) ==
    IF /\ \A i \in 1..Len(ReadOrder) - 1 : Position(ReadOrder[i]) < Position(ReadOrder[i + 1])
       /\ w.nBins > 0 /\ w.binWidth > 0
    THEN Loaded(w @@ [k \in Unwritten |-> Defaults[k]]) ELSE LoadFails
Transient  == {"rsdIncoming", "numerator", "denominator", "extent", "binWidth", "counts", "grid"}

INSTANCE FilterLife
=============================================================================

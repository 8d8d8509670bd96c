-------------------------- MODULE SpatialAnalysis --------------------------
(***************************************************************************)
(* SpatialAnalysisFilter: seven algorithms on the neighbours of ions, each *)
(* with settings of its own.  A stream of ions holds 100 ions; the file    *)
(* to compare with matches some of them, "far" matches none.               *)
(***************************************************************************)
EXTENDS FilterCommon, TLC
CONSTANT MaxChanged
VARIABLES filter, settings, input, cacheOK, outputs, shown, lapses

\* Ranges that come without ions pass the block mask.
Name     == "spatialanalysis"
Inputs   == {{"draw"}, {"range"}, {"ions1", "draw"}, {"ions1", "ions2", "range"}}
Algorithms == {"density", "densityFilter", "rdf", "axial", "binomial", "replace", "localConc"}
PerStream  == 100

\* SpatialAnalysisFilter::SpatialAnalysisFilter
Defaults ==
    [algorithm |-> "density", stopMode |-> "neighbour", nnMax |-> 1, distMax |-> 1, numBins |-> 100,
     excludeSurface |-> FALSE, reductionDistance |-> 1, normaliseNNHist |-> TRUE,
     wantRandomNNHist |-> TRUE, rgba |-> "red", densityCutoff |-> 1, keepDensityUpper |-> TRUE,
     numIonsSegment |-> 20, extrusionDirection |-> "x", showFrequencies |-> TRUE,
     showNormalised |-> TRUE, showTheoretic |-> TRUE, showGridOverlay |-> TRUE,
     replaceFile |-> "", replaceMode |-> "subtract", replaceTolerance |-> 0, replaceMass |-> TRUE,
     vectorParams |-> <<>>, scalarParams |-> <<>>, haveRangeParent |-> FALSE,
     source |-> <<>>, target |-> <<>>, numerator |-> <<>>, denominator |-> <<>>]

ByNeighbours == {"density", "densityFilter", "rdf", "axial", "localConc"}

\* getProperties: what the grid shows for each algorithm.
OfferedRdf(p) ==
    ({"numBins"} \X {0, 7}) \cup ({"excludeSurface"} \X BOOLEAN) \cup ({"rgba"} \X {"red", "blue"})
    \cup (IF p.stopMode = "neighbour" THEN {"normaliseNNHist", "wantRandomNNHist"} \X BOOLEAN ELSE {})
    \cup (IF p.excludeSurface THEN {"reductionDistance"} \X {0, 2} ELSE {})
OfferedAxial ==
    ({"numBins"} \X {7}) \cup ({"rgba"} \X {"blue"}) \cup ({"origin"} \X {5}) \cup ({"normal", "radius"} \X {0, 8})
OfferedBinomial(p) ==
    ({"numIonsSegment"} \X {1, 1000}) \cup ({"extrusionDirection"} \X {"y"}) \cup ({"showFrequencies"} \X BOOLEAN)
    \cup (IF p.showFrequencies THEN {"showNormalised", "showTheoretic", "showGridOverlay"} \X BOOLEAN ELSE {})
OfferedReplace(p) ==
    ({"replaceFile"} \X {"near", "far"}) \cup ({"replaceTolerance"} \X {-1, 1})
    \cup ({"replaceMode"} \X {"subtract", "intersect", "union"})
    \cup (IF p.replaceMode = "subtract" THEN {} ELSE {"replaceMass"} \X BOOLEAN)

\* The denominators are shown, and set, as targets.
OfferedIons(p) ==
    {<<"sourceAll", TRUE>>, <<"targetAll", TRUE>>, <<"source", FALSE>>, <<"target", FALSE>>}
    \cup (IF p.algorithm = "localConc" THEN {<<"numeratorAll", TRUE>>, <<"numerator", FALSE>>} ELSE {})

Offered(p) ==
    ({"algorithm"} \X Algorithms)
    \cup (IF p.algorithm \notin ByNeighbours THEN {}
          ELSE ({"stopMode"} \X {"neighbour", "radius"})
               \cup (IF p.stopMode = "radius" THEN {"distMax"} \X {0, 3} ELSE {"nnMax"} \X {0, 1, 1000}))
    \cup CASE p.algorithm = "densityFilter" -> ({"densityCutoff"} \X {0, 4}) \cup ({"keepDensityUpper"} \X BOOLEAN)
           [] p.algorithm = "rdf"      -> OfferedRdf(p)
           [] p.algorithm = "axial"    -> OfferedAxial
           [] p.algorithm = "binomial" -> OfferedBinomial(p)
           [] p.algorithm = "replace"  -> OfferedReplace(p)
           [] OTHER -> {}
    \cup (IF p.haveRangeParent /\ p.algorithm \in {"rdf", "localConc"} THEN OfferedIons(p) ELSE {})

\* resetParamsAsNeeded: only an axial analysis needs a cylinder.
WithParams(p) ==
    IF p.algorithm # "axial" THEN p
    ELSE [p EXCEPT !.vectorParams = IF Len(@) = 2 THEN @ ELSE <<0, 1>>,
                   !.scalarParams = IF Len(@) = 1 THEN @ ELSE <<1>>]

SetAlgorithm(p, a) ==
    Changed(WithParams([p EXCEPT !.algorithm = a,
                                 !.nnMax = IF a = "localConc" /\ @ < 2 THEN 2 ELSE @]))

Origin(p, v) == [p EXCEPT !.vectorParams[1] = v]
Normal(p, v) == [p EXCEPT !.vectorParams[2] = v]
Radius(p, v) == [p EXCEPT !.scalarParams[1] = v]
Moved(p, q)  == IF p = q THEN Unmoved(p) ELSE Changed(q)

\* All flags are set, or cleared if all are set.
ToggleAll(p, k) == Changed([p EXCEPT ![k] = [i \in DOMAIN @ |-> \E j \in DOMAIN @ : ~@[j]]])
SetSecond(p, k, b) == Moved(p, [p EXCEPT ![k][2] = b])

SetCylinder(p, k, v) ==
    CASE k = "origin" -> Moved(p, Origin(p, v))
      [] k = "normal" -> Require(v # 0, p, Moved(p, Normal(p, v)))
      [] k = "radius" -> Require(v > 0, p, Moved(p, Radius(p, v)))
SetBinomial(p, k, v) ==
    CASE k = "numIonsSegment"     -> Require(v > 1, p, Changed(Put(p, k, v)))
      [] k = "extrusionDirection" -> Changed(Put(p, k, v))
      [] OTHER                    -> ApplyNow(p, k, v)
SetIons(p, k, v) ==
    CASE k = "sourceAll"    -> ToggleAll(p, "source")
      [] k = "targetAll"    -> ToggleAll(p, "target")
      [] k = "numeratorAll" -> ToggleAll(p, "numerator")
      [] OTHER              -> SetSecond(p, k, v)

SetProp(p, k, v, cached) ==
    CASE k = "algorithm" -> SetAlgorithm(p, v)
      [] k = "nnMax"     -> Require(v >= (IF p.algorithm = "localConc" THEN 2 ELSE 1), p, Changed(Put(p, k, v)))
      [] k \in {"distMax", "numBins", "reductionDistance"} -> Require(v > 0, p, Changed(Put(p, k, v)))
      [] k = "densityCutoff" -> Require(v > 0, p, ApplyNow(p, k, v))
      [] k = "stopMode"      -> Changed(Put(p, k, v))
      [] k = "rgba"          -> Stamped(Put(p, k, v), {k}, v # p.rgba)
      [] k \in {"origin", "normal", "radius"} -> SetCylinder(p, k, v)
      [] k \in {"numIonsSegment", "extrusionDirection", "showFrequencies", "showNormalised",
                "showTheoretic", "showGridOverlay"} -> SetBinomial(p, k, v)
      [] k \in {"sourceAll", "targetAll", "numeratorAll", "source", "target", "numerator"} -> SetIons(p, k, v)
      [] OTHER -> ApplyNow(p, k, v)

\* Only plots are restyled: those of the other algorithms have no rgba.
Retouchable(p) == TRUE
Bindings(p) == IF p.algorithm = "axial" THEN ({"origin"} \X {5}) \cup ({"normal", "radius"} \X {0, 8}) ELSE {}
Bound(p, b) ==
    CASE b[1] = "origin" -> Changed(Origin(p, b[2]))
      [] b[1] = "radius" -> Changed(Radius(p, b[2]))
      [] b[1] = "normal" -> Changed(IF b[2] = 0 THEN p ELSE Normal(p, b[2]))

\* initFilter: flags that were chosen are kept.
Flags(f)    == IF f = <<>> THEN <<TRUE, TRUE>> ELSE f
Sees(p, in) ==
    IF "range" \notin in THEN [p EXCEPT !.haveRangeParent = FALSE]
    ELSE [p EXCEPT !.haveRangeParent = TRUE, !.source = Flags(@), !.target = Flags(@),
                   !.numerator = Flags(@), !.denominator = Flags(@)]

Some(flags) == \E i \in DOMAIN flags : flags[i]
Reach(p)    == IF p.stopMode = "neighbour" THEN <<p.nnMax>> ELSE <<0, p.distMax>>
TooFew(p, in) == p.stopMode = "neighbour" /\ p.nnMax > PerStream * Cardinality(IonsIn(in))
Chosen(p)   == IF p.haveRangeParent THEN <<p.source, p.target>> ELSE <<>>
WantsRange(p) == p.algorithm \in {"densityFilter", "replace"}
Passes(p, in) == Except(in, IF WantsRange(p) THEN {"ions"} ELSE {"ions", "range"})

\* algorithmDensity and algorithmDensityFilter: one stream for each that comes in.
Densities(p, in) == {Stream("ions", <<s, IonsIn(in), Reach(p)>>) : s \in IonsIn(in)}
Filtered(p, in)  == {Stream("ions", <<s, IonsIn(in), Reach(p), p.densityCutoff, p.keepDensityUpper>>) :
                        s \in IonsIn(in)}
PerInput(p, in)  == IF p.algorithm = "density" THEN Densities(p, in) ELSE Filtered(p, in)

\* algorithmRDF: the distances between ions, but of those at the surface; a
\* histogram for each neighbour, and what is expected of random points, or
\* one histogram of distances.
Counted(p, in) == <<IonsIn(in), Chosen(p), IF p.excludeSurface THEN <<p.reductionDistance>> ELSE <<>>>>
NeighbourPlots(p, in) ==
    LET of    == <<Counted(p, in), p.nnMax, p.numBins, p.normaliseNNHist>>
        names == {"found"} \cup (IF p.wantRandomNNHist THEN {"random"} ELSE {})
    IN  {Stream("plot", [of |-> of, name |-> n, rgba |-> p.rgba]) : n \in names}
DistancePlot(p, in) == {Stream("plot", [of |-> <<Counted(p, in), p.distMax, p.numBins>>, rgba |-> p.rgba])}
Rdf(p, in) ==
    CASE TooFew(p, in)                -> Failure
      [] p.stopMode = "radius"        -> Made(DistancePlot(p, in), {}, Passes(p, in))
      [] p.stopMode = "neighbour" /\ ~TooFew(p, in) -> Made(NeighbourPlots(p, in), {}, {})

Cylinder(p) == <<p.vectorParams, p.scalarParams>>
AxialPlot(p, in) ==
    Stream("plot", [of |-> <<IonsIn(in), Cylinder(p), Reach(p), Chosen(p), p.numBins>>, rgba |-> p.rgba])

\* algorithmBinomial: without the frequencies, the grid is all there is.
Blocks3D(p, in) == IF p.showGridOverlay
                   THEN {Stream("draw", <<IonsIn(in), p.numIonsSegment, p.extrusionDirection>>)} ELSE {}
Frequencies(p, in) ==
    {Stream("plot", <<n, IonsIn(in), p.source, p.numIonsSegment, p.extrusionDirection, p.showNormalised>>) :
        n \in {"found"} \cup (IF p.showTheoretic THEN {"theory"} ELSE {})}
Binomial(p, in) ==
    IF p.showFrequencies THEN Made(Blocks3D(p, in) \cup Frequencies(p, in), {}, {})
                         ELSE Made({}, Blocks3D(p, in), {})

\* algorithmReplace: without a match nothing is left, in any mode.
Replaced(p, in) ==
    CASE p.replaceFile = ""    -> Failure
      [] p.replaceFile = "far" \/ p.replaceMode = "union" -> Made({}, {}, {})
      [] OTHER -> Made({Stream("ions", <<IonsIn(in), p.replaceFile, p.replaceMode,
                                         p.replaceTolerance * p.replaceTolerance,
                                         p.replaceMode = "intersect" /\ p.replaceMass>>)}, {}, {})

Concentration(p, in) == Stream("ions", <<IonsIn(in), Reach(p), p.source, p.numerator, p.denominator>>)

\* SpatialAnalysisFilter::refresh.  Without ions only what the block mask
\* names is passed on; without chosen ions nothing is.
Run(p, in) ==
    CASE IonsIn(in) = {} -> Made({}, {}, in \ Passes(p, in))
      [] IonsIn(in) # {} /\ p.haveRangeParent /\ ~(Some(p.source) /\ Some(p.target)) -> Made({}, {}, {})
      [] OTHER ->
         CASE p.algorithm \in {"density", "densityFilter"} -> Made(PerInput(p, in), {}, Passes(p, in))
           [] p.algorithm = "rdf"   -> Rdf(p, in)
           [] p.algorithm = "axial" ->
                Made({AxialPlot(p, in)}, {Stream("draw", Cylinder(p))}, Passes(p, in))
           [] p.algorithm = "binomial" ->
                IF ~p.haveRangeParent \/ p.numIonsSegment > PerStream THEN Failure ELSE Binomial(p, in)
           [] p.algorithm = "replace" -> Replaced(p, in)
           [] p.algorithm = "localConc" ->
                IF ~p.haveRangeParent \/ TooFew(p, in) THEN Failure
                ELSE Made({Concentration(p, in)}, {}, {})

\* A replay of the cache draws the cylinder again, and passes on what is not blocked.
Replay(p, in) == Made({}, IF p.algorithm = "axial" THEN {Stream("draw", Cylinder(p))} ELSE {}, Passes(p, in))
Cached(p, in) == IF p.algorithm \in {"density", "densityFilter"} THEN SUBSET PerInput(p, in) ELSE {{}}

Emits(p)  == CASE p.algorithm = "rdf"      -> {"ions", "plot"}
               [] p.algorithm = "binomial" -> {"plot", "draw"}
               [] p.algorithm = "axial"    -> {"ions", "plot", "draw"}
               [] OTHER                    -> {"ions"}
Blocks(p) == IF WantsRange(p) THEN {"ions"} ELSE {"ions", "range"}

Cloned(p) == [p EXCEPT !.haveRangeParent = FALSE]

\* The scalars are looked for before the vectors, which come first in the
\* file and so are never found; replaceMass and the grid are not read.
Unread      == {"vectorParams", "replaceMass", "showGridOverlay", "haveRangeParent"}
Written(p)  == [k \in DOMAIN p \ {"haveRangeParent"} |-> p[k]]
ReadBack(w) ==
    IF w.replaceTolerance < 0 THEN LoadFails
    ELSE Loaded(WithParams([k \in DOMAIN Defaults |-> IF k \in Unread THEN Defaults[k] ELSE w[k]]))
Transient     == {"haveRangeParent", "source", "target", "numerator", "denominator"}

INSTANCE FilterLife WITH Ran <- FirstOf, Cleared <- Itself, Scratch <- Itself
=============================================================================

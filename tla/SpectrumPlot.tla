---------------------------- MODULE SpectrumPlot ----------------------------
(***************************************************************************)
(* SpectrumPlotFilter: a histogram of the masses of all ions, and the      *)
(* curve of a fitted background.  Masses count bins of the default width.  *)
(***************************************************************************)
EXTENDS FilterCommon, TLC
CONSTANT MaxChanged
VARIABLES filter, settings, input, cacheOK, outputs, shown, lapses

Name     == "spectrumplot"
Inputs   == {{}, {"ions1", "draw"}, {"ions1", "ions2", "range"}}

\* SpectrumPlotFilter::SpectrumPlotFilter
Defaults == [minPlot |-> 0, maxPlot |-> 3000, autoExtrema |-> TRUE, binWidth |-> 1,
             logarithmic |-> TRUE, plotStyle |-> "lines", rgba |-> "blue",
             normaliseMode |-> "none", lowBound |-> 0, highBound |-> 2000,
             fitMode |-> FALSE, massBackStart |-> 24, massBackEnd |-> 38, showOnlyCorrected |-> FALSE]

Offered(p) ==
    ({"binWidth"} \X {0, 400, 4000}) \cup ({"minPlot"} \X {0, 2990, 3000})
    \cup ({"maxPlot"} \X {0, 10, 3000})
    \cup ({"autoExtrema", "logarithmic", "fitMode"} \X BOOLEAN)
    \cup ({"normaliseMode"} \X {"none", "bounded", "integral"})
    \cup ({"plotStyle"} \X {"lines", "steps"}) \cup ({"rgba"} \X {"blue", "red"})
    \cup (IF p.normaliseMode = "bounded"
          THEN ({"lowBound"} \X {0, 1, 2000}) \cup ({"highBound"} \X {0, 2000}) ELSE {})
    \cup (IF p.fitMode THEN ({"massBackStart"} \X {24, 30, 38}) \cup ({"massBackEnd"} \X {24, 38})
                            \cup ({"showOnlyCorrected"} \X BOOLEAN) ELSE {})

\* The bounds of the normalisation drop cacheOK a second time, changed or not.
Bounds(p, k, v, ok) == Require(ok, p, IF p[k] = v THEN Disowned(Unmoved(p)) ELSE ApplyNow(p, k, v))

SetProp(p, k, v, cached) ==
    CASE k = "binWidth" -> Require(v > 0 /\ v <= p.maxPlot - p.minPlot, p, Changed(Put(p, k, v)))
      [] k = "minPlot"  -> Require(~p.autoExtrema /\ v < p.maxPlot, p, Changed(Put(p, k, v)))
      [] k = "maxPlot"  -> Require(~p.autoExtrema /\ v > p.minPlot, p, Changed(Put(p, k, v)))
      [] k \in {"logarithmic", "rgba"} -> Stamped(Put(p, k, v), {k}, p[k] # v)
      [] k = "plotStyle"               -> Stamped(Put(p, k, v), {k}, TRUE)
      [] k \in {"fitMode", "normaliseMode"} -> Changed(Put(p, k, v))
      [] k = "massBackStart" -> Require(v < p.massBackEnd, p, ApplyNow(p, k, v))
      [] k = "massBackEnd"   -> Require(v > p.massBackStart, p, ApplyNow(p, k, v))
      [] k = "lowBound"      -> Bounds(p, k, v, v < p.highBound)
      [] k = "highBound"     -> Bounds(p, k, v, v > p.lowBound)
      [] OTHER               -> ApplyNow(p, k, v)

Retouchable(p) == ~p.fitMode
Bindings(p) == {}
Bound(p, b) == Unmoved(p)

\* A run moves the limits to one beyond the masses it meets, and narrows bins
\* that do not fit between the limits.
Extremes(in) == IF "ions2" \in in THEN <<180, 820>> ELSE <<180, 420>>
Limits(p, in) == IF p.autoExtrema
                 THEN [p EXCEPT !.minPlot = Extremes(in)[1], !.maxPlot = Extremes(in)[2]] ELSE p
Sees(p, in) ==
    IF IonsIn(in) = {} THEN p
    ELSE LET q == Limits(p, in)
             width == q.maxPlot - q.minPlot
         IN  IF q.binWidth <= width THEN q ELSE [q EXCEPT !.binWidth = width \div 10]

\* The test of the fit refuses the mixture of the two streams.
Fits(p, in) == p.fitMode /\ IonsIn(in) = {"ions1"}

Histogram(p, in) == <<IonsIn(in), "range" \in in, p.minPlot, p.maxPlot, p.binWidth>>
Subtracted(p, in) == IF Fits(p, in) /\ p.showOnlyCorrected
                     THEN <<p.massBackStart, p.massBackEnd, p.logarithmic>> ELSE <<>>
Normalised(p) == IF p.normaliseMode = "bounded" THEN <<p.lowBound, p.highBound>> ELSE <<p.normaliseMode>>

\* The curve of the background keeps the style of a new plot.
Curve(p, in) == Stream("plot", [of |-> <<Histogram(p, in), Subtracted(p, in), Normalised(p)>>,
                                logarithmic |-> p.logarithmic, plotStyle |-> p.plotStyle, rgba |-> p.rgba])
Background(p, in) ==
    IF ~Fits(p, in) \/ p.showOnlyCorrected THEN {}
    ELSE {Stream("plot", [of |-> <<Histogram(p, in), <<p.massBackStart, p.massBackEnd>>>>,
                          logarithmic |-> FALSE, plotStyle |-> "lines", rgba |-> "red"])}

Run(p, in)    == Made({Curve(p, in)} \cup Background(p, in), {}, {})
Replay(p, in) == Made({}, {}, {})
Cached(p, in) == {{}, Background(p, in)}
Emits(p)      == {"plot"}
Blocks(p)     == AllTypes

Cloned(p)     == p
Written(p)    == p
\* Limits typed since the last refresh may not hold one bin.
BinsFit(p)    == p.autoExtrema \/ p.binWidth <= p.maxPlot - p.minPlot
ReadBack(w)   == IF w.minPlot < w.maxPlot /\ w.binWidth > 0 /\ BinsFit(w) /\ w.lowBound < w.highBound
                 THEN Loaded(w) ELSE LoadFails
Transient     == {"minPlot", "maxPlot", "binWidth"}

INSTANCE FilterLife WITH Ran <- FirstOf, Cleared <- Itself, Scratch <- Itself
=============================================================================

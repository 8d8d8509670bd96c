------------------------------- MODULE Profile -------------------------------
(***************************************************************************)
(* ProfileFilter: counts the ions in slices of a cylinder or a sphere, all *)
(* together or, if ranges reach it, one curve per species.  Lengths are in *)
(* bins of the default width; a direction is a signed length.              *)
(***************************************************************************)
EXTENDS FilterCommon, TLC
CONSTANT MaxChanged
VARIABLES filter, settings, input, cacheOK, outputs, shown, lapses

Name     == "compositionprofile"
Inputs   == {{}, {"ions1", "draw"}, {"ions1", "ions2", "range"}}
Species  == 1..2

\* ProfileFilter::ProfileFilter
Defaults == [primitiveType |-> "axial", showPrimitive |-> TRUE, lockAxisMag |-> FALSE,
             vectorParams |-> <<0, 40>>, scalarParams |-> <<20>>, normalise |-> TRUE,
             fixedBins |-> FALSE, nBins |-> 1000, binWidth |-> 1, minEvents |-> 10,
             rgba |-> "blue", plotStyle |-> "lines", errMode |-> "none", movingAverageNum |-> 4,
             wantDensity |-> FALSE, haveRangeParent |-> FALSE]

\* Colours are offered where curves are not coloured by species.
Offered(p) ==
    ({"primitiveType"} \X {"axial", "radial", "sphere"})
    \cup ({"showPrimitive", "normalise"} \X BOOLEAN)
    \cup ({"origin"} \X {0, 5}) \cup ({"radius"} \X {0, 8}) \cup ({"minEvents"} \X {0, 1000})
    \cup ({"plotStyle"} \X {"lines", "steps"}) \cup ({"errMode"} \X {"none", "average"})
    \cup (IF p.errMode = "average" THEN {"movingAverageNum"} \X {1, 5} ELSE {})
    \cup (IF p.haveRangeParent THEN {"wantDensity"} \X BOOLEAN ELSE {})
    \cup (IF ~p.haveRangeParent \/ p.wantDensity THEN {"rgba"} \X {"red"} ELSE {})
    \cup (IF p.primitiveType = "sphere" THEN {}
          ELSE ({"normal"} \X {0, -30}) \cup ({"lockAxisMag"} \X BOOLEAN))
    \cup (IF p.primitiveType = "radial" THEN {} ELSE {"fixedBins"} \X BOOLEAN)
    \cup (IF p.fixedBins THEN {"nBins"} \X {0, 7} ELSE {"binWidth"} \X {0, 25})

Abs(x)  == IF x < 0 THEN -x ELSE x
Along(x, len) == IF x < 0 THEN -len ELSE len

\* A cylinder made of a sphere starts afresh; radial slices are counted.
SetPrimitive(p, t) ==
    [p EXCEPT !.primitiveType = t,
              !.vectorParams = CASE t = "sphere"  -> <<@[1]>>
                                 [] Len(@) < 2    -> Defaults.vectorParams
                                 [] OTHER         -> @,
              !.fixedBins = @ \/ t = "radial"]

Origin(p, v) == [p EXCEPT !.vectorParams[1] = v]
Normal(p, v) == [p EXCEPT !.vectorParams[2] = v]
Radius(p, v) == [p EXCEPT !.scalarParams[1] = v]
Moved(p, q)  == IF p = q THEN Unmoved(p) ELSE Changed(q)

SetProp(p, k, v, cached) ==
    CASE k = "primitiveType" -> Changed(SetPrimitive(p, v))
      [] k = "origin" -> Moved(p, Origin(p, v))
      [] k = "radius" -> Require(v > 0, p, Moved(p, Radius(p, v)))
      [] k = "normal" -> Require(v # 0, p,
                                 Moved(p, Normal(p, IF p.primitiveType = "axial" /\ p.lockAxisMag
                                                    THEN Along(v, Abs(p.vectorParams[2])) ELSE v)))
      [] k \in {"binWidth", "nBins"} -> Require(v > 0, p, Changed(Put(p, k, v)))
      [] k = "movingAverageNum"      -> Require(v > 1, p, Changed(Put(p, k, v)))
      [] k \in {"plotStyle", "rgba", "errMode"} -> Changed(Put(p, k, v))
      [] OTHER -> ApplyNow(p, k, v)

\* ProfileFilter::getBinData
Length(p)  == IF p.primitiveType = "axial" THEN Abs(p.vectorParams[2]) ELSE p.scalarParams[1]
NumBins(p) == IF p.fixedBins THEN p.nBins ELSE Length(p) \div p.binWidth

\* What may be dragged; a direction that leaves no bin is taken back.
Bindings(p) ==
    IF ~p.showPrimitive THEN {}
    ELSE ({"origin"} \X {5}) \cup ({"radius"} \X {0, 8})
         \cup (IF p.primitiveType = "sphere" THEN {} ELSE {"normal"} \X {0, -30})
Bound(p, b) ==
    CASE b[1] = "origin" -> Changed(Origin(p, b[2]))
      [] b[1] = "radius" -> Changed(Radius(p, b[2]))
      [] b[1] = "normal" -> Require(NumBins(Normal(p, b[2])) > 0, p, Changed(Normal(p, b[2])))

Retouchable(p) == TRUE
Sees(p, in) == [p EXCEPT !.haveRangeParent = ("range" \in in)]

\* The primitive is drawn anew at every refresh; only the curves are cached.
Primitive(p) == <<p.primitiveType, p.vectorParams, p.scalarParams>>
Drawn(p) == IF p.showPrimitive THEN {Stream("draw", <<Primitive(p), p.lockAxisMag>>)} ELSE {}

\* A slice with fewer than minEvents ions has no point, a curve without
\* points is dropped.
HasPoints(p, in) == NumBins(p) > 0 /\ (p.minEvents = 0 \/ (IonsIn(in) # {} /\ p.minEvents < 1000))
Errors(p) == IF p.errMode = "none" THEN <<>> ELSE <<p.movingAverageNum>>
Curve(p, in, which) ==
    Stream("plot", <<IonsIn(in), which, Primitive(p), NumBins(p), p.normalise, p.minEvents,
                     Errors(p), p.plotStyle>>)
Curves(p, in) == IF "range" \in in THEN {Curve(p, in, i) : i \in Species}
                                   ELSE {Curve(p, in, p.rgba)}

Run(p, in)    == Made(IF HasPoints(p, in) THEN Curves(p, in) ELSE {}, Drawn(p), Except(in, {"ions"}))
Replay(p, in) == Made({}, Drawn(p), Except(in, {"ions"}))
Cached(p, in) == {{}}
Emits(p)      == {"plot"} \cup (IF p.showPrimitive THEN {"draw"} ELSE {})
Blocks(p)     == {}

\* cloneUncached forgets minEvents and whether there are ranges.
Cloned(p)     == [p EXCEPT !.minEvents = Defaults.minEvents, !.haveRangeParent = FALSE]

\* minEvents is written with one element and looked for in another; the error
\* bars and wantDensity are not written.
Unwritten     == {"errMode", "movingAverageNum", "wantDensity", "haveRangeParent"}
Written(p)    == [k \in DOMAIN p \ Unwritten |-> p[k]]
ReadBack(w)   == IF Len(w.vectorParams) = (IF w.primitiveType = "sphere" THEN 1 ELSE 2)
                 THEN Loaded([w EXCEPT !.minEvents = Defaults.minEvents]
                             @@ [k \in Unwritten |-> Defaults[k]])
                 ELSE LoadFails
Transient     == {"haveRangeParent"}

INSTANCE FilterLife WITH Ran <- FirstOf, Cleared <- Itself, Scratch <- Itself
=============================================================================

----------------------------- MODULE Annotation -----------------------------
(***************************************************************************)
(* AnnotateFilter: draws a text, an arrow, an angle or a ruler, anew at    *)
(* each refresh.  Positions lie on a line; the two directions of a text    *)
(* are axes, one of the three corners of the angle stands for all.         *)
(***************************************************************************)
EXTENDS FilterCommon, TLC
CONSTANT MaxChanged
VARIABLES filter, settings, input, cacheOK, outputs, shown, lapses

Name     == "annotation"
Inputs   == {{}, {"ions1", "draw"}}
Extent   == -6..12         \* bound: where an arrow may be dragged to

\* AnnotateFilter::AnnotateFilter
Defaults == [active |-> TRUE, annotationMode |-> "text", position |-> 0, target |-> 1,
             upVec |-> "z", acrossVec |-> "y", anglePos |-> 0, annotateText |-> "",
             textSize |-> 1, annotateSize |-> 1, sphereMarkerSize |-> 2, lineSize |-> 1,
             rgba |-> "blue", showAngleText |-> TRUE, reflexAngle |-> FALSE,
             angleFormatPreDecimal |-> 0, angleFormatPostDecimal |-> 0,
             linearFixedTicks |-> TRUE, linearMeasureTicks |-> 10,
             linearMeasureSpacing |-> 10, fontSizeLinearMeasure |-> 5]

Places     == {"position", "target"} \X {0, 7}
Directions == {"upVec", "acrossVec"} \X {"x", "y", "z"}
Formats    == {<<>>, <<1>>, <<1, 2>>, <<1, 1, 1>>}    \* digits between the separators

AngleOffered(p) ==
    ({"anglePos"} \X {0, 7}) \cup ({"reflexAngle", "showAngleText"} \X BOOLEAN)
    \cup IF p.showAngleText THEN ({"format"} \X Formats) \cup ({"textSize"} \X {0, 2}) ELSE {}
RulerOffered(p) ==
    ({"linearFixedTicks"} \X BOOLEAN) \cup ({"fontSizeLinearMeasure"} \X {9})
    \cup IF p.linearFixedTicks THEN {"linearMeasureTicks"} \X {4} ELSE {"linearMeasureSpacing"} \X {2}
Offered(p) ==
    ({"active"} \X BOOLEAN)
    \cup IF ~p.active THEN {} ELSE
         ({"annotationMode"} \X {"text", "arrow", "arrowtext", "angle", "ruler"})
         \cup ({"rgba"} \X {"blue", "red"})
         \cup (IF p.annotationMode = "angle" THEN AngleOffered(p) ELSE Places)
         \cup (IF p.annotationMode = "arrow" THEN {"lineSize"} \X {-1, 2} ELSE Directions)
         \cup (IF p.annotationMode \in {"arrow", "arrowtext"} THEN {"annotateSize"} \X {-1, 2} ELSE {})
         \cup (IF p.annotationMode \in {"text", "arrowtext"}
               THEN ({"annotateText"} \X {"A"}) \cup ({"textSize"} \X {0, 2}) ELSE {})
         \cup (IF p.annotationMode \in {"angle", "ruler"} THEN {"sphereMarkerSize"} \X {-1, 3} ELSE {})
         \cup (IF p.annotationMode = "ruler" THEN RulerOffered(p) ELSE {})

\* These setters leave the cache alone: the filter never has one.
Redrawn(p, k, v) == Outcome(TRUE, Put(p, k, v), FALSE, p[k] # v)

\* One direction of a text may not lie along the other.
OtherAxis(k) == IF k = "upVec" THEN "acrossVec" ELSE "upVec"

\* Digits before the separator, and after it if there is one.
SetFormat(p, v) ==
    Require(Len(v) <= 2, p,
            Outcome(TRUE, [p EXCEPT !.angleFormatPreDecimal = IF v = <<>> THEN 0 ELSE v[1],
                                    !.angleFormatPostDecimal = CASE Len(v) = 2 -> v[2]
                                                                 [] v = <<>>   -> 0
                                                                 [] OTHER      -> @], FALSE, TRUE))

SetProp(p, k, v, cached) ==
    CASE k \in {"annotationMode", "rgba"} -> Redrawn(p, k, v)
      [] k \in {"upVec", "acrossVec"}     -> Require(v # p[OtherAxis(k)], p, Redrawn(p, k, v))
      [] k = "textSize" -> IF v > 0 THEN Redrawn(p, k, v) ELSE Unmoved(p)
      [] k = "lineSize" -> Require(v # p.lineSize /\ v >= 0, p, Redrawn(p, k, v))
      [] k = "format"   -> SetFormat(p, v)
      [] OTHER          -> ApplyNow(p, k, v)

\* What may be dragged; the radius of the ends of a ruler may, to no effect.
Bindings(p) ==
    IF ~p.active THEN {} ELSE
    CASE p.annotationMode \in {"text"} -> {"position"} \X {0, 7}
      [] p.annotationMode \in {"arrow", "arrowtext"} ->
             Places \cup {<<"origin", v>> : v \in {w \in {0, 7} : p.target + w - p.position \in Extent}}
      [] p.annotationMode = "angle" -> ({"anglePos"} \X {0, 7}) \cup ({"sphereMarkerSize"} \X {0, 3})
      [] p.annotationMode = "ruler" -> Places \cup {<<"radius", 3>>}

\* Dragging the origin of an arrow takes its target along.
Bound(p, b) ==
    CASE b[1] = "origin" -> Redrawn([p EXCEPT !.target = @ + b[2] - p.position], "position", b[2])
      [] b[1] = "radius" -> Unmoved(p)
      [] OTHER           -> Redrawn(p, b[1], b[2])

Retouchable(p) == TRUE
Sees(p, in) == p

TextDrawn(p)  == <<"text", p.annotateText, p.position, p.upVec, p.acrossVec, p.textSize>>
ArrowDrawn(p) == <<"arrow", p.position, p.target, p.annotateSize, p.lineSize>>
AngleDrawn(p) == <<"angle", p.anglePos, p.sphereMarkerSize, p.showAngleText,
                   IF ~p.showAngleText THEN <<>>
                   ELSE <<p.reflexAngle, p.angleFormatPreDecimal, p.angleFormatPostDecimal,
                          p.upVec, p.acrossVec, p.textSize>> >>
RulerDrawn(p) == <<"ruler", p.position, p.target, p.sphereMarkerSize, p.upVec, p.acrossVec,
                   p.linearFixedTicks, p.fontSizeLinearMeasure,
                   IF p.linearFixedTicks THEN p.linearMeasureTicks ELSE p.linearMeasureSpacing>>
Drawings(p) == CASE p.annotationMode = "text"      -> {TextDrawn(p)}
                 [] p.annotationMode = "arrow"     -> {ArrowDrawn(p)}
                 [] p.annotationMode = "arrowtext" -> {TextDrawn(p), ArrowDrawn(p)}
                 [] p.annotationMode = "angle"     -> {AngleDrawn(p)}
                 [] p.annotationMode = "ruler"     -> {RulerDrawn(p)}

Run(p, in)    == Made({}, IF p.active THEN {Stream("draw", <<Drawings(p), p.rgba>>)} ELSE {}, in)
Replay(p, in) == Run(p, in)
Cached(p, in) == {{}}
Emits(p)      == {"draw"}
Blocks(p)     == {}

Cloned(p)     == p

\* The ruler's own settings are not written, and the digits after the
\* separator are read from those before it.
Ruler         == {"linearFixedTicks", "linearMeasureTicks", "linearMeasureSpacing", "fontSizeLinearMeasure"}
Written(p)    == [k \in DOMAIN p \ Ruler |-> p[k]]
ReadBack(w)   == IF w.annotateSize < 0 \/ w.sphereMarkerSize < 0 \/ w.upVec = w.acrossVec THEN LoadFails
                 ELSE Loaded([w EXCEPT !.angleFormatPostDecimal = w.angleFormatPreDecimal]
                             @@ [k \in Ruler |-> Defaults[k]])
Transient     == {}

INSTANCE FilterLife WITH Ran <- FirstOf, Cleared <- Itself, Scratch <- Itself
=============================================================================

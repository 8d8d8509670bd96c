----------------------------- MODULE BoundingBox -----------------------------
(***************************************************************************)
(* BoundingBoxFilter: draws a box around the ions, anew at each refresh.   *)
(* The three axes have the same settings; one stands for them.             *)
(***************************************************************************)
EXTENDS FilterCommon, TLC
CONSTANT MaxChanged
VARIABLES filter, settings, input, cacheOK, outputs, shown, lapses

Name     == "boundingbox"
Inputs   == {{}, {"ions1", "draw"}, {"ions1", "ions2", "range"}}

Defaults == [isVisible |-> TRUE, boundStyle |-> "ticks", fixedNumTicks |-> TRUE, numTicks |-> 12,
             tickSpacing |-> 5, enableTicks |-> TRUE, fontSize |-> 5, absoluteCoords |-> FALSE,
             lineColour |-> "blue", lineWidth |-> 2]

Offered(p) ==
    ({"isVisible"} \X BOOLEAN)
    \cup (IF ~p.isVisible THEN {} ELSE
          ({"boundStyle"} \X {"box", "ticks", "dimension"})
          \cup ({"lineColour"} \X {"blue", "red"}) \cup ({"lineWidth"} \X {0, 2, 3})
          \cup (IF p.boundStyle # "ticks" THEN {} ELSE
                ({"fixedNumTicks"} \X BOOLEAN)
                \cup (IF p.fixedNumTicks THEN {"numTicks"} \X {1, 2} ELSE {"tickSpacing"} \X {0, 1}))
          \cup (IF p.boundStyle = "box" THEN {} ELSE
                ({"enableTicks", "absoluteCoords"} \X BOOLEAN) \cup ({"fontSize"} \X {5, 9})))

\* No setting but those of applyPropertyNow clears a cache: there is none.
Restyled(p, k, v) == Outcome(TRUE, Put(p, k, v), FALSE, TRUE)
SetProp(p, k, v, cached) ==
    CASE k = "numTicks" -> Require(v >= 2, p, Restyled(p, k, v))
      [] k \in {"lineWidth", "tickSpacing"} -> Require(v > 0, p, Restyled(p, k, v))
      [] k \in {"lineColour", "enableTicks"} -> Restyled(p, k, v)
      [] OTHER -> ApplyNow(p, k, v)

Retouchable(p) == TRUE
Bindings(p) == {}
Bound(p, b) == Unmoved(p)
Sees(p, in) == p

Labels(p) == <<p.enableTicks, p.absoluteCoords, p.fontSize>>
Drawing(p) ==
    CASE p.boundStyle = "box"   -> <<p.lineColour, p.lineWidth>>
      [] p.boundStyle = "ticks" -> <<p.lineColour, p.lineWidth, Labels(p), p.fixedNumTicks,
                                     IF p.fixedNumTicks THEN p.numTicks ELSE p.tickSpacing>>
      [] p.boundStyle = "dimension" -> <<p.lineColour, p.lineWidth, Labels(p)>>

Run(p, in) == Made({}, IF p.isVisible /\ IonsIn(in) # {}
                       THEN {Stream("draw", <<IonsIn(in), p.boundStyle, Drawing(p)>>)} ELSE {}, in)
Replay(p, in) == Run(p, in)
Cached(p, in) == {{}}
Emits(p)      == IF p.isVisible THEN {"draw"} ELSE {}
Blocks(p)     == {}

Cloned(p)     == [p EXCEPT !.lineColour = Defaults.lineColour]
Written(p)    == p
ReadBack(w)   == IF w.tickSpacing < 0 \/ w.lineWidth < 0 THEN LoadFails ELSE Loaded(w)
Transient     == {}

INSTANCE FilterLife WITH Ran <- FirstOf, Cleared <- Itself, Scratch <- Itself
=============================================================================

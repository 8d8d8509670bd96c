------------------------------ MODULE IonColour ------------------------------
(***************************************************************************)
(* IonColourFilter: splits the ions by the colour of their value on a map  *)
(* between two bounds.  The opacity, that of the colour bar, is in tenths. *)
(***************************************************************************)
EXTENDS FilterCommon, TLC
CONSTANT MaxChanged
VARIABLES filter, settings, input, cacheOK, outputs, shown, lapses

Name     == "ioncolour"
Inputs   == {{}, {"ions1", "draw"}, {"ions1", "ions2", "range"}}
MAX_NUM_COLOURS == 256

Defaults == [colourMap |-> 0, mapStart |-> 0, mapEnd |-> 100, reverseMap |-> FALSE,
             nColours |-> MAX_NUM_COLOURS, showColourBar |-> TRUE, alpha |-> 10]

Offered(p) ==
    ({"colourMap"} \X {0, 1}) \cup ({"reverseMap", "showColourBar"} \X BOOLEAN)
    \cup ({"mapStart", "mapEnd"} \X {0, 50, 100}) \cup ({"nColours"} \X {0, 5, 300})
    \cup ({"alpha"} \X {5})

Min2(a, b) == IF a < b THEN a ELSE b

SetProp(p, k, v, cached) ==
    CASE k = "colourMap" -> Require(v # p.colourMap, p, Changed(Put(p, k, v)))
      [] k = "mapStart"  -> Require(v < p.mapEnd, p, Changed(Put(p, k, v)))
      [] k = "mapEnd"    -> Require(v > p.mapStart, p, Changed(Put(p, k, v)))
      [] k = "nColours"  -> LET n == Min2(v, MAX_NUM_COLOURS)
                            IN  Changed(Put(p, k, IF n = 0 THEN 1 ELSE n))
      [] OTHER           -> ApplyNow(p, k, v)

Retouchable(p) == TRUE
Bindings(p) == {}
Bound(p, b) == Unmoved(p)
Sees(p, in) == p

Scale(p) == <<p.colourMap, p.mapStart, p.mapEnd, p.reverseMap, p.nColours>>

Emits(p)      == {"draw", "ions"}
Blocks(p)     == {"ions"}

Run(p, in) ==
    LET ions == IonsIn(in)
    IN  Made(IF ions = {} THEN {}
             ELSE {Stream("ions", <<ions, Scale(p)>>)}
                  \cup (IF p.showColourBar THEN {Stream("draw", <<Scale(p), p.alpha>>)} ELSE {}),
             {}, Except(in, {"ions"}))
Replay(p, in) == Made({}, {}, Except(in, Blocks(p)))
Cached(p, in) == {{}}

Cloned(p)     == p
Written(p)    == p
\* The opacity is written with the number of colours and sought with the map.
ReadBack(w)   == IF w.mapStart > w.mapEnd THEN LoadFails ELSE Loaded([w EXCEPT !.alpha = 10])
Transient     == {}

INSTANCE FilterLife WITH Ran <- FirstOf, Cleared <- Itself, Scratch <- Itself
=============================================================================

------------------------------ MODULE Transform ------------------------------
(***************************************************************************)
(* TransformFilter: moves, scales, turns, shuffles, blurs or crops the     *)
(* ions.  The parameters of a mode are kept in two lists whose lengths it   *)
(* decides.  The noise drawn at random is not told from another draw.       *)
(***************************************************************************)
EXTENDS FilterCommon, TLC
CONSTANT MaxChanged
VARIABLES filter, settings, input, cacheOK, outputs, shown, lapses

Name     == "transform"
Inputs   == {{"draw"}, {"ions1", "draw"}, {"ions1", "ions2", "range"}}
Centred  == {"scale", "scale3", "rotate"}
NaN      == -99    \* the mass centre of no ions

Defaults == [transformMode |-> "translate", originMode |-> "select", noiseType |-> "white",
             vectorParams |-> <<0>>, scalarParams |-> <<>>, showPrimitive |-> TRUE,
             showOrigin |-> FALSE]

\* The parameters every mode starts with.
Vectors(m) == CASE m \in {"translate", "scale"} -> <<0>>
                [] m \in {"scale3", "rotate"}   -> <<0, 1>>
                [] OTHER                        -> <<>>
Scalars(m) == CASE m = "scale"  -> <<1>>   [] m = "translateValue" -> <<100>>
                [] m = "rotate" -> <<0>>   [] m = "noise"          -> <<1>>
                [] m = "crop"   -> <<1, 100>>
                [] OTHER        -> <<>>
Modes      == {"translate", "translateValue", "scale", "scale3", "rotate", "shuffle", "noise", "crop"}

Offered(p) ==
    ({"transformMode"} \X Modes)
    \cup (IF p.transformMode \in Centred
          THEN ({"originMode"} \X {"select", "bound", "mass"}) \cup ({"showOrigin"} \X BOOLEAN) ELSE {})
    \cup (IF p.transformMode = "translate" \/ (p.transformMode \in Centred /\ p.originMode = "select")
          THEN {"origin"} \X {0, 5} ELSE {})
    \cup (IF p.transformMode \in {"scale", "rotate", "noise", "translateValue"} THEN {"scalar"} \X {2} ELSE {})
    \cup CASE p.transformMode = "scale3" -> {"vector"} \X {2}
           [] p.transformMode = "rotate" -> {"axis"} \X {0, 3}
           [] p.transformMode = "noise"  -> {"noiseType"} \X {"white", "gaussian"}
           [] p.transformMode = "crop"   -> {"minimum", "maximum"} \X {50}
           [] OTHER                      -> {}

Vector(p, i, v) == IF p.vectorParams[i] = v THEN Unmoved(p) ELSE Changed([p EXCEPT !.vectorParams[i] = v])
Scalar(p, i, v) == IF p.scalarParams[i] = v THEN Unmoved(p) ELSE Changed([p EXCEPT !.scalarParams[i] = v])

SetMode(p, m) ==
    Changed([p EXCEPT !.transformMode = m, !.vectorParams = Vectors(m), !.scalarParams = Scalars(m)])

SetProp(p, k, v, cached) ==
    CASE k = "transformMode"         -> SetMode(p, v)
      [] k \in {"scalar", "minimum"} -> Scalar(p, 1, v)
      [] k = "maximum"               -> Scalar(p, 2, v)
      [] k = "origin"                -> Vector(p, 1, v)
      [] k = "vector"                -> Vector(p, 2, v)
      [] k = "axis"                  -> Require(v # 0, p, Vector(p, 2, v))
      [] OTHER                       -> ApplyNow(p, k, v)

Retouchable(p) == TRUE

\* The marker can be dragged while the origin is selected by hand.
Marked(p)   == p.showOrigin /\ p.transformMode \in Centred
Bindings(p) == IF Marked(p) /\ p.originMode = "select" THEN {"origin"} \X {0, 5} ELSE {}
Bound(p, b) == Changed([p EXCEPT !.vectorParams[1] = b[2]])

Sees(p, in) == p

\* A run puts the centre in the first vector, whatever the mode; where there
\* is none the code writes beyond the list, which changes no setting.
Centre(p, in) == IF p.originMode = "bound" THEN Cardinality(IonsIn(in)) * 10
                 ELSE IF IonsIn(in) = {} THEN NaN ELSE Cardinality(IonsIn(in)) * 10 + 1
Ran(p, in)    == IF p.originMode = "select" \/ p.vectorParams = <<>> THEN p
                 ELSE [p EXCEPT !.vectorParams[1] = Centre(p, in)]

Marker(p)     == IF Marked(p) THEN {Stream("draw", <<p.vectorParams[1]>>)} ELSE {}
\* What each mode takes of the parameters.
Scaled(p)     == <<p.vectorParams[1], p.scalarParams[1]>>
Stretched(p)  == <<p.vectorParams[1], p.vectorParams[2]>>
Translated(p) == <<p.vectorParams[1]>>
Revalued(p)   == <<p.scalarParams[1]>>
Trimmed(p)    == <<p.scalarParams[1], p.scalarParams[2]>>
Turned(p)     == <<p.vectorParams[1], p.vectorParams[2], p.scalarParams[1]>>
Blurred(p)    == <<p.noiseType, p.scalarParams[1]>>
Moved(p, s)   == Stream("ions", <<s, p.transformMode,
                   CASE p.transformMode = "scale"          -> Scaled(p)
                     [] p.transformMode = "scale3"         -> Stretched(p)
                     [] p.transformMode = "translate"      -> Translated(p)
                     [] p.transformMode = "translateValue" -> Revalued(p)
                     [] p.transformMode = "crop"           -> Trimmed(p)
                     [] p.transformMode = "rotate"         -> Turned(p)
                     [] p.transformMode = "noise"          -> Blurred(p)
                     [] p.transformMode = "shuffle"        -> <<>> >>)
Run(p, in) ==
    LET q == Ran(p, in)
    IN  Made(Marker(q) \cup {Moved(q, s) : s \in IonsIn(in)}, {},
             IF q.transformMode = "crop" /\ IonsIn(in) # {} THEN {} ELSE Except(in, {"ions"}))
Replay(p, in) == Made({}, {}, Except(in, {"ions"}))

\* The marker is cached first, then one stream after the other.
Cached(p, in) == LET q == Ran(p, in)
                 IN  {Marker(q) \cup {Moved(q, s) : s \in S} : S \in SUBSET IonsIn(in)}
Emits(p)      == {"ions", "draw"}
Blocks(p)     == {"ions"}

Cloned(p)     == p

\* The type of noise and whether the origin is shown are read into the mode
\* of the origin, the last of them stays there.
Written(p)    == [p EXCEPT !.showPrimitive = TRUE]
ReadBack(w)   ==
    IF /\ \A i \in 1..Len(w.vectorParams) : w.vectorParams[i] # NaN
       /\ w.transformMode \notin {"shuffle", "noise"} =>
             Len(w.vectorParams) = Len(Vectors(w.transformMode))
             /\ Len(w.scalarParams) = Len(Scalars(w.transformMode))
    THEN Loaded([w EXCEPT !.originMode = IF w.showOrigin THEN "bound" ELSE "select",
                          !.noiseType = Defaults.noiseType, !.showOrigin = Defaults.showOrigin])
    ELSE LoadFails
Transient     == {"vectorParams", "scalarParams"}

INSTANCE FilterLife WITH Cleared <- Itself, Scratch <- Itself
=============================================================================

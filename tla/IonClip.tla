------------------------------- MODULE IonClip -------------------------------
(***************************************************************************)
(* IonClipFilter: keeps the ions inside, or outside, of a primitive.  The  *)
(* primitive's parameters are kept in two lists whose lengths it decides;  *)
(* a vector is a number that stands for its direction and length.          *)
(***************************************************************************)
EXTENDS FilterCommon, TLC
CONSTANT MaxChanged
VARIABLES filter, settings, input, cacheOK, outputs, shown, lapses

Name     == "ionclip"
Inputs   == {{}, {"ions1", "draw"}, {"ions1", "ions2", "range"}}
NaN      == -99    \* the normal of no direction
Primitives == {"sphere", "plane", "cylinder", "aab"}

Defaults == [primitiveType |-> "plane", invertedClip |-> FALSE, showPrimitive |-> TRUE,
             lockAxisMag |-> FALSE, vectorParams |-> <<0, 1>>, scalarParams |-> <<>>]

Offered(p) ==
    ({"primitiveType"} \X Primitives) \cup ({"showPrimitive", "invertedClip"} \X BOOLEAN)
    \cup ({"origin"} \X {0, 5})
    \cup CASE p.primitiveType = "sphere"   -> {"radius"} \X {10, 4}
           [] p.primitiveType = "plane"    -> {"normal"} \X {1, -2}
           [] p.primitiveType = "cylinder" -> ({"normal"} \X {1, -2}) \cup ({"radius"} \X {10, 4})
                                              \cup ({"lockAxisMag"} \X BOOLEAN)
           [] p.primitiveType = "aab"      -> {"corner"} \X {0, 1, -2}

Abs(x)  == IF x < 0 THEN -x ELSE x
Sign(x) == IF x = NaN \/ x = 0 THEN NaN ELSE IF x < 0 THEN -1 ELSE 1

\* The parameters a new primitive makes of the old ones.
Vectors(t, vs) ==
    CASE t = "sphere"   -> IF Len(vs) = 1 THEN vs ELSE <<0>>
      [] t = "plane"    -> IF Len(vs) = 2 THEN <<vs[1], Sign(vs[2])>> ELSE <<vs[1], 1>>
      [] t = "cylinder" -> IF Len(vs) = 2 THEN vs ELSE <<vs[1], 1>>
      [] t = "aab"      -> LET c == IF Len(vs) = 2 THEN vs[2] ELSE 1
                           IN  <<vs[1], IF c = 0 THEN 1 ELSE IF c = NaN THEN NaN ELSE Abs(c)>>
Scalars(t, ss) == IF t \in {"plane", "aab"} THEN <<>> ELSE IF Len(ss) = 1 THEN ss ELSE <<10>>

SetPrimitive(p, t) == [p EXCEPT !.primitiveType = t,
                                !.vectorParams = Vectors(t, @), !.scalarParams = Scalars(t, @)]

Axis(p, i, v) == IF p.vectorParams[i] = v THEN Unmoved(p) ELSE Changed([p EXCEPT !.vectorParams[i] = v])

SetProp(p, k, v, cached) ==
    CASE k = "primitiveType" -> Changed(SetPrimitive(p, v))
      [] k = "origin" -> Axis(p, 1, v)
      [] k = "corner" -> Axis(p, 2, v)
      [] k = "normal" -> Axis(p, 2, IF p.primitiveType = "cylinder" /\ p.lockAxisMag
                                    THEN Sign(v) * Abs(p.vectorParams[2]) ELSE v)
      [] k = "radius" -> IF p.scalarParams[1] = v THEN Unmoved(p)
                         ELSE Changed([p EXCEPT !.scalarParams[1] = v])
      [] OTHER        -> ApplyNow(p, k, v)

Retouchable(p) == TRUE
Bindings(p) ==
    IF ~p.showPrimitive THEN {}
    ELSE ({"origin"} \X {0, 5})
         \cup (IF p.primitiveType \in {"sphere", "cylinder"} THEN {<<"radius", 4>>} ELSE {})
         \cup (IF p.primitiveType = "sphere" THEN {} ELSE {"direction"} \X {0, 1, -2})

Bound(p, b) ==
    CASE b[1] = "radius" -> Changed([p EXCEPT !.scalarParams[1] = b[2]])
      [] b[1] = "origin" -> Changed([p EXCEPT !.vectorParams[1] = b[2]])
      [] p.primitiveType = "cylinder" -> Changed([p EXCEPT !.vectorParams[2] = b[2]])
      [] p.primitiveType = "plane"    -> Changed([p EXCEPT !.vectorParams[2] = Sign(b[2])])
      [] p.primitiveType = "aab"      -> Require(b[2] # 0, p, Changed([p EXCEPT !.vectorParams[2] = Abs(b[2])]))

Sees(p, in) == p

\* The primitive is drawn anew at every refresh; only the ions are cached.
Primitive(p) == <<p.primitiveType, p.vectorParams, p.scalarParams>>
Drawn(p) == IF p.showPrimitive THEN {Stream("draw", <<Primitive(p), p.lockAxisMag>>)} ELSE {}
Run(p, in) == Made({Stream("ions", <<s, Primitive(p), p.invertedClip>>) : s \in IonsIn(in)},
                   Drawn(p), Except(in, {"ions"}))
Replay(p, in) == Made({}, Drawn(p), Except(in, {"ions"}))
Cached(p, in) == SUBSET Run(p, in).own
\* Mutant: the drawn primitive is left out of the mask.
Mut_Emits(p)  == {"ions"}
Emits(p)      == IF p.showPrimitive THEN {"ions", "draw"} ELSE {"ions"}
Blocks(p)     == {"ions"}

\* Mutant: a setting the clone leaves behind.
Mut_Cloned(p)  == [p EXCEPT !.invertedClip = FALSE]
Cloned(p)     == p
Written(p)    == p
\* A vector without direction is written as no number, which is not read.
ReadBack(w)   ==
    LET n == <<Len(w.vectorParams), Len(w.scalarParams)>>
    IN  IF /\ \A i \in 1..n[1] : w.vectorParams[i] # NaN
           /\ CASE w.primitiveType = "sphere"          -> n = <<1, 1>>
                [] w.primitiveType \in {"plane", "aab"} -> n = <<2, 0>>
                [] w.primitiveType = "cylinder"        -> n = <<2, 1>>
        THEN Loaded(w) ELSE LoadFails
Transient     == {}

INSTANCE FilterLife WITH Ran <- FirstOf, Cleared <- Itself, Scratch <- Itself
=============================================================================

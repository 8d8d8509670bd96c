------------------------------- MODULE IonInfo -------------------------------
(***************************************************************************)
(* IonInfoFilter: counts the ions, per species if ranges reach it, and     *)
(* measures the volume they fill.  It writes to the console and passes on  *)
(* nothing; a line of the console stands for a stream of type "console".   *)
(* The fit of a background has no entry in the grid and never runs.        *)
(***************************************************************************)
EXTENDS FilterCommon, TLC
CONSTANT MaxChanged
VARIABLES filter, settings, input, cacheOK, outputs, shown, lapses

Name     == "ioninfo"
Inputs   == {{}, {"ions1", "draw"}, {"ions1", "ions2", "range"}, {"range"}}

\* IonInfoFilter::IonInfoFilter
Defaults == [wantIonCounts |-> TRUE, wantNormalise |-> FALSE, wantVolume |-> FALSE,
             volumeAlgorithm |-> "box", range |-> FALSE]

\* The normalisation is offered only for ranged counts.
Offered(p) ==
    ({"wantIonCounts", "wantVolume"} \X BOOLEAN)
    \cup (IF p.wantIonCounts /\ p.range THEN {"wantNormalise"} \X BOOLEAN ELSE {})
    \cup (IF p.wantVolume THEN {"volumeAlgorithm"} \X {"box", "convex"} ELSE {})

\* Another algorithm is accepted only if it differs; the cache is left alone.
SetProp(p, k, v, cached) ==
    IF k = "volumeAlgorithm"
    THEN Require(v # p[k], p, Outcome(TRUE, Put(p, k, v), FALSE, TRUE))
    ELSE ApplyNow(p, k, v)

Retouchable(p) == TRUE
Bindings(p) == {}
Bound(p, b) == Unmoved(p)

\* initFilter keeps a copy of the ranges that come in.
Sees(p, in) == [p EXCEPT !.range = ("range" \in in)]

Counts(p, in) ==
    IF ~p.wantIonCounts THEN {}
    ELSE {Stream("console", IF p.range THEN <<"per species", IonsIn(in), p.wantNormalise>>
                                       ELSE <<"total", IonsIn(in)>>)}
Volume(p, in) ==
    IF ~p.wantVolume THEN {} ELSE {Stream("console", <<p.volumeAlgorithm, IonsIn(in)>>)}
Density(p, in) ==
    IF p.wantIonCounts /\ p.wantVolume
    THEN {Stream("console", <<"density", p.range, p.volumeAlgorithm, IonsIn(in)>>)} ELSE {}

Run(p, in) ==
    Made({}, IF IonsIn(in) = {} THEN {Stream("console", <<"No ions">>)}
             ELSE Counts(p, in) \cup Volume(p, in) \cup Density(p, in), {})
Replay(p, in) == Run(p, in)
Cached(p, in) == {{}}
Emits(p)      == {}
Blocks(p)     == AllTypes

\* The ranges are left to the next initFilter.
Cloned(p)     == [p EXCEPT !.range = FALSE]
Written(p)    == [k \in DOMAIN p \ {"range"} |-> p[k]]
ReadBack(w)   == Loaded(w @@ [range |-> FALSE])
Transient     == {"range"}

INSTANCE FilterLife WITH Ran <- FirstOf, Cleared <- Itself, Scratch <- Itself
=============================================================================

---------------------------- MODULE IonDownsample ----------------------------
(***************************************************************************)
(* IonDownsampleFilter: samples each stream of ions, by count or by        *)
(* fraction, for all ions alike or per species of the incoming ranges.     *)
(* Fractions are in tenths; there is one species, and the unranged ions.   *)
(***************************************************************************)
EXTENDS FilterCommon, TLC
CONSTANT MaxChanged
VARIABLES filter, settings, input, cacheOK, outputs, shown, lapses

Name     == "iondownsample"
Inputs   == {{}, {"ions1"}, {"ions1", "ions2", "range"}, {"ions1", "draw"}}
Entries  == 2      \* RangeFile::getNumIons() + 1

Defaults == [fixedNumOut |-> TRUE, fraction |-> 1, maxAfterFilter |-> 5000,
             perSpecies |-> FALSE, rsdIncoming |-> FALSE, ionFractions |-> <<>>, ionLimits |-> <<>>]

Offered(p) ==
    ({"fixedNumOut"} \X BOOLEAN)
    \cup (IF p.rsdIncoming THEN {"perSpecies"} \X BOOLEAN ELSE {})
    \cup CASE p.rsdIncoming /\ p.perSpecies ->
                  {"entry"} \X ((1..Entries) \X (IF p.fixedNumOut THEN {0, 7} ELSE {-1, 7, 11}))
           [] p.fixedNumOut -> {"maxAfterFilter"} \X {0, 7}
           [] OTHER         -> {"fraction"} \X {-1, 7, 11}

IsFraction(v) == v \in 0..10

SetProp(p, k, v, cached) ==
    CASE k = "fraction" ->
           Require(IsFraction(v), p,
                   Outcome(TRUE, Put(p, k, v), ~p.fixedNumOut, ~p.fixedNumOut))
      [] k = "entry" ->
           IF p.fixedNumOut THEN Changed([p EXCEPT !.ionLimits[v[1]] = v[2]])
           ELSE Require(IsFraction(v[2]), p, Changed([p EXCEPT !.ionFractions[v[1]] = v[2]]))
      [] OTHER -> ApplyNow(p, k, v)

Retouchable(p) == TRUE
Bindings(p) == {}
Bound(p, b) == Unmoved(p)

\* vector::resize: old entries stay, new ones get the value given.
Resized(s, v) == [i \in 1..Entries |-> IF i <= Len(s) THEN s[i] ELSE v]

Sees(p, in) ==
    IF "range" \notin in
    THEN [p EXCEPT !.rsdIncoming = FALSE, !.perSpecies = FALSE]
    ELSE [p EXCEPT !.rsdIncoming = TRUE,
                   !.ionFractions = Resized(@, p.fraction),
                   !.ionLimits = Resized(@, p.maxAfterFilter)]

Rate(p) == IF p.fixedNumOut
           THEN <<"count", IF p.perSpecies THEN p.ionLimits ELSE p.maxAfterFilter>>
           ELSE <<"part", IF p.perSpecies THEN p.ionFractions ELSE p.fraction>>

Run(p, in)    == Made({Stream("ions", <<s, Rate(p)>>) : s \in IonsIn(in)}, {}, Except(in, {"ions"}))
Replay(p, in) == Made({}, {}, Except(in, {"ions"}))
Cached(p, in) == SUBSET Run(p, in).own
Emits(p)      == {"ions"}
Blocks(p)     == {"ions"}

Cloned(p)  == p
Written(p) == [fixedNumOut |-> p.fixedNumOut, fraction |-> p.fraction,
               maxAfterFilter |-> p.maxAfterFilter, perSpecies |-> p.perSpecies,
               ionFractions |-> p.ionFractions, ionLimits |-> p.ionLimits]
ReadBack(w) == IF IsFraction(w.fraction) /\ Len(w.ionLimits) = Len(w.ionFractions)
               THEN Loaded(w @@ [rsdIncoming |-> FALSE]) ELSE LoadFails
Transient  == {"rsdIncoming", "ionFractions", "ionLimits"}

INSTANCE FilterLife WITH Ran <- FirstOf, Cleared <- Itself, Scratch <- Itself
=============================================================================

--------------------------- MODULE RangeFileFilter ---------------------------
(***************************************************************************)
(* RangeFileFilter: sorts the ions by the mass ranges of a file, whose     *)
(* ranges, names and colours may be edited.  A file has two ions and two   *)
(* ranges; names, colours and bounds are edited of the first one only.     *)
(***************************************************************************)
EXTENDS FilterCommon, TLC
CONSTANT MaxChanged
VARIABLES filter, settings, input, cacheOK, outputs, shown, lapses

Name     == "rangefile"
Inputs   == {{}, {"ions1"}, {"ions1", "ions2"}, {"ions1", "range"}, {"ions1", "draw"}}
Ids      == 1..2
Other    == <<40, 50>>     \* the second range

\* What a range file holds when it has been read.
AsRead == [name |-> "file", colour |-> "file", ionOf |-> <<1, 2>>, bounds |-> <<10, 20>>]

\* RangeFileFilter::RangeFileFilter, setRangeData
Defaults == [rngName |-> "a.rng", dropUnranged |-> TRUE, showLegend |-> FALSE,
             enabledIons |-> <<TRUE, TRUE>>, enabledRanges |-> <<TRUE, TRUE>>] @@ AsRead

Offered(p) ==
    ({"rngName"} \X {"a.rng", "b.rng", "missing"})
    \cup ({"dropUnranged", "showLegend", "allIons", "allRanges"} \X BOOLEAN)
    \cup ({"enabledIons", "enabledRanges"} \X ({1} \X BOOLEAN))
    \cup ({"name"} \X {"A", "?"}) \cup ({"colour"} \X {"red"})
    \cup ({"ionOf"} \X Ids) \cup ({"lower"} \X {12, 30})

HaveEnabled(p) == (\E i \in Ids : p.enabledRanges[i]) /\ (\E i \in Ids : p.enabledIons[i])

Legend(p) == Stream("draw", <<p.rngName, p.enabledIons, p.name, p.colour>>)

\* With a cache, the legend is put in it or taken from it.
SetLegend(p, v, cached) ==
    IF ~cached THEN ApplyNow(p, "showLegend", v)
    ELSE Require(p.showLegend # v, p,
                 LET q == Put(p, "showLegend", v)
                 IN  IF v THEN Patched(q, {}, {Legend(p)}) ELSE Patched(q, {"draw"}, {}))

\* Flags: an unchanged value asks for nothing.
SetFlags(p, k, flags) == IF p[k] = flags THEN Unmoved(p) ELSE Changed(Put(p, k, flags))

\* RangeFile::moveRange of the lower bound, which may not pass the upper one;
\* RangeFile::moveBothRanges, which may not overlap the other range.
LowerMoves(p, v)    == v < p.bounds[2]
Lowered(p, v)       == Put(p, "bounds", <<v, p.bounds[2]>>)
Centred(p, v)       == LET d == (p.bounds[2] - p.bounds[1]) \div 2 IN <<v - d, v + d>>
Translated(p, v)    == IF Centred(p, v)[2] > Other[1] THEN p ELSE Put(p, "bounds", Centred(p, v))

\* Of the first ion and the first range.
SetIonOrRange(p, k, v) ==
    CASE k \in {"enabledIons", "enabledRanges"} -> SetFlags(p, k, [p[k] EXCEPT ![v[1]] = v[2]])
      [] k = "name"   -> Require(v # "?", p, Changed(Put(p, k, v)))
      [] k = "colour" -> Changed(Put(p, k, v))
      [] k = "ionOf"  -> Require(v # p.ionOf[1], p, Changed(Put(p, k, <<v, p.ionOf[2]>>)))
      [] k = "lower"  -> Require(v # p.bounds[1] /\ LowerMoves(p, v), p, Changed(Lowered(p, v)))

SetProp(p, k, v, cached) ==
    CASE k = "rngName"    -> Require(v \notin {p.rngName, "missing"}, p, Changed(AsRead @@ Put(p, k, v)))
      [] k = "showLegend" -> SetLegend(p, v, cached)
      [] k = "allIons"    -> SetFlags(p, "enabledIons", <<v, v>>)
      [] k = "allRanges"  -> SetFlags(p, "enabledRanges", <<v, v>>)
      [] k = "dropUnranged" -> ApplyNow(p, k, v)
      [] OTHER              -> SetIonOrRange(p, k, v)

\* A drag of a region in a plot below; setPropFromRegion ignores a refusal.
Bindings(p) == ({"xminus"} \X {12, 30}) \cup ({"translate"} \X {17, 38})
Bound(p, b) == Changed(CASE b[1] = "xminus"    -> IF LowerMoves(p, b[2]) THEN Lowered(p, b[2]) ELSE p
                         [] b[1] = "translate" -> Translated(p, b[2]))

Retouchable(p) == HaveEnabled(p)
Sees(p, in) == p

Ranges(p)     == <<p.rngName, p.ionOf, p.bounds>>
InRange(p, i) == {r \in Ids : p.enabledRanges[r] /\ p.ionOf[r] = i}
Ranged(p, in) ==
    {Stream("ions", <<i, Ranges(p), InRange(p, i), IF i = 1 THEN p.colour ELSE "file", IonsIn(in)>>) :
        i \in {j \in Ids : p.enabledIons[j] /\ InRange(p, j) # {}}}
Unranged(p, in) ==
    CASE p.dropUnranged -> {}
      [] HaveEnabled(p) -> {Stream("ions", <<0, Ranges(p), IonsIn(in)>>)}
      [] OTHER          -> {Stream("ions", <<0, IonsIn(in)>>)}

IonStreams(p, in) ==
    IF IonsIn(in) = {} THEN {}
    ELSE Unranged(p, in) \cup (IF HaveEnabled(p) THEN Ranged(p, in) ELSE {})
RangeStream(p) == Stream("range", <<Ranges(p), p.name, p.colour, p.enabledIons, p.enabledRanges>>)

\* A run that sorts nothing passes nothing on; a cached one does.
Run(p, in) ==
    Made(IonStreams(p, in) \cup {RangeStream(p)}
             \cup (IF HaveEnabled(p) /\ p.showLegend THEN {Legend(p)} ELSE {}),
         {}, IF HaveEnabled(p) \/ ~p.dropUnranged THEN Except(in, {"ions", "range"}) ELSE {})
Replay(p, in) == Made({}, {}, Except(in, {"ions"}))
Cached(p, in) == {{}}
Emits(p)      == {"range", "ions", "grid"} \cup (IF p.showLegend THEN {"draw"} ELSE {})
Blocks(p)     == {"ions"}

\* cloneUncached forgets the legend.
Cloned(p)     == [p EXCEPT !.showLegend = FALSE]

\* The state file names the range file and holds flags and colours; what else
\* was edited of the ranges is read again from the range file.
Edits         == {"name", "ionOf", "bounds"}
Written(p)    == [k \in DOMAIN p \ Edits |-> p[k]]
ReadBack(w)   == Loaded(w @@ AsRead)
Transient     == {}

INSTANCE FilterLife WITH Ran <- FirstOf, Cleared <- Itself, Scratch <- Itself
=============================================================================

------------------------------ MODULE Proxigram ------------------------------
(***************************************************************************)
(* ProxigramFilter: plots the concentration against the distance to the    *)
(* isosurface of a grid.  It takes for granted that ranges, ions and a     *)
(* grid reach it.  Lengths are in tenths; there are two species.           *)
(***************************************************************************)
EXTENDS FilterCommon, TLC
CONSTANT MaxChanged
VARIABLES filter, settings, input, cacheOK, outputs, shown, lapses

Name     == "proxigram"
Inputs   == {{"ions1", "range", "grid"}, {"ions1", "ions2", "range", "grid", "draw"}}
Ions     == 1..2

\* ProxigramFilter::ProxigramFilter
Defaults == [voxelsize_levelset |-> 5, shell_width |-> 7, max_distance |-> 5, weight_factor |-> TRUE,
             numeratorAll |-> TRUE, denominatorAll |-> TRUE, rsdIncoming |-> FALSE,
             numerators |-> <<>>, denominators |-> <<>>, userString |-> "proxigram"]

\* The name is typed in the tree (setUserString), the rest in the grid.
Offered(p) ==
    ({"voxelsize_levelset", "shell_width", "max_distance"} \X {0, 3}) \cup ({"weight_factor"} \X BOOLEAN)
    \cup ({"userString"} \X {"mine"})
    \cup (IF p.rsdIncoming
          THEN ({"allNumerators", "allDenominators"} \X BOOLEAN)
               \cup ({"numerators", "denominators"} \X ({1} \X BOOLEAN))
          ELSE {})

\* "All" follows a species that is switched off, never one that is switched on.
SetAll(p, list, all, b) == [p EXCEPT ![list] = [i \in DOMAIN @ |-> b], ![all] = b]
SetOne(p, list, all, v) == [p EXCEPT ![list][v[1]] = v[2], ![all] = @ /\ v[2]]

SetProp(p, k, v, cached) ==
    CASE k \in {"voxelsize_levelset", "shell_width", "max_distance"} ->
           Require(v > 0, p, Outcome(TRUE, Put(p, k, v), FALSE, TRUE))
      [] k = "allNumerators"   -> Changed(SetAll(p, "numerators", "numeratorAll", v))
      [] k = "allDenominators" -> Changed(SetAll(p, "denominators", "denominatorAll", v))
      [] k = "numerators"      -> Changed(SetOne(p, k, "numeratorAll", v))
      [] k = "denominators"    -> Changed(SetOne(p, k, "denominatorAll", v))
      [] k = "userString"      -> Outcome(TRUE, Put(p, k, v), FALSE, FALSE)
      [] OTHER                 -> Changed(Put(p, k, v))

Retouchable(p) == TRUE
Bindings(p) == {}
Bound(p, b) == Unmoved(p)

\* vector::resize: the flags there are stay, new ones get the value given.
Resized(s, v) == [i \in Ions |-> IF i <= Len(s) THEN s[i] ELSE v]
Sees(p, in) ==
    IF "range" \notin in THEN [p EXCEPT !.rsdIncoming = FALSE, !.numerators = <<>>, !.denominators = <<>>]
    ELSE IF p.rsdIncoming THEN p
    ELSE [p EXCEPT !.rsdIncoming = TRUE, !.numerators = Resized(@, FALSE), !.denominators = Resized(@, TRUE)]

\* The flags and the weight do not enter: ion number one is the numerator.
Surface(p)     == <<p.voxelsize_levelset, p.max_distance + p.shell_width \div 2>>
Counts(p, in)  == <<IonsIn(in), Surface(p)>>
Shells(p)      == <<p.shell_width, p.max_distance>>
Plotted(p, in) == Stream("plot", <<Counts(p, in), Shells(p)>>)
Run(p, in)    == Made({}, {Plotted(p, in)}, Except(in, {"plot", "voxel"}))
Replay(p, in) == Run(p, in)
Cached(p, in) == {{}}
Emits(p)      == {"grid", "ions", "range", "plot"}
Blocks(p)     == {"plot", "voxel"}

\* cloneUncached forgets the name and both "all".
Forgotten     == {"userString", "numeratorAll", "denominatorAll"}
Cloned(p)     == [k \in DOMAIN p |-> IF k \in Forgotten THEN Defaults[k] ELSE p[k]]

\* The flags are written before the lengths and looked for behind them; the
\* weight is read into another variable.
Written(p)    == [k \in DOMAIN p \ {"numeratorAll", "denominatorAll", "rsdIncoming"} |-> p[k]]
ReadBack(w)   == IF w.voxelsize_levelset <= 0 \/ w.shell_width <= 0 \/ w.max_distance <= 0 THEN LoadFails
                 ELSE Loaded([w EXCEPT !.weight_factor = FALSE, !.numerators = <<>>, !.denominators = <<>>]
                             @@ [numeratorAll |-> TRUE, denominatorAll |-> TRUE, rsdIncoming |-> FALSE])
Transient     == {"numerators", "denominators", "rsdIncoming"}

INSTANCE FilterLife WITH Ran <- FirstOf, Cleared <- Itself, Scratch <- Itself
=============================================================================

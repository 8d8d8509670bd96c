-------------------------- MODULE ClusterAnalysis --------------------------
(***************************************************************************)
(* ClusterAnalysisFilter: finds clusters of core ions, and of the bulk ions *)
(* near them, by maximum separation and erosion.  Sizes are taken to be    *)
(* the same for every cluster.                                              *)
(***************************************************************************)
EXTENDS FilterCommon, TLC
CONSTANT MaxChanged
VARIABLES filter, settings, input, cacheOK, outputs, shown, lapses

Name     == "clusteranalysis"
Inputs   == {{"draw"}, {"ions1", "draw"}, {"ions1", "ions2", "range"}}
Species  == 1..2
Largest  == 99     \* numeric_limits<size_t>::max()
Size     == 20     \* the ions of a cluster

Defaults ==
    [enableCoreClassify |-> FALSE, coreDist |-> 0, coreKNN |-> 1, linkDist |-> 2,
     enableBulkLink |-> FALSE, bulkLink |-> 1, enableErosion |-> FALSE, dErosion |-> 1,
     wantClusterID |-> FALSE, wantCropSize |-> FALSE, nMin |-> 0, nMax |-> Largest,
     wantClusterSizeDist |-> FALSE, logClusterSize |-> FALSE, wantClusterComposition |-> TRUE,
     normaliseComposition |-> TRUE, wantClusterMorphology |-> FALSE, haveRangeParent |-> FALSE,
     core |-> <<>>, bulk |-> <<>>]

StepsOffered(p) ==
    ({"enableCoreClassify", "enableBulkLink"} \X BOOLEAN) \cup ({"linkDist"} \X {0, 5})
    \cup (IF p.enableCoreClassify THEN ({"coreDist"} \X {-1, 3}) \cup ({"coreKNN"} \X {0, 4}) ELSE {})
    \cup (IF p.enableBulkLink THEN ({"bulkLink"} \X {0, 3}) \cup ({"enableErosion"} \X BOOLEAN) ELSE {})
    \cup (IF p.enableBulkLink /\ p.enableErosion THEN {"dErosion"} \X {-1, 0} ELSE {})
ResultsOffered(p) ==
    ({"wantCropSize", "wantClusterSizeDist", "wantClusterMorphology"} \X BOOLEAN)
    \cup {<<"wantClusterID", ~p.wantClusterID>>}
    \cup (IF p.wantCropSize THEN {"nMin", "nMax"} \X {0, 30} ELSE {})
    \cup (IF p.wantClusterSizeDist THEN {"logClusterSize"} \X BOOLEAN ELSE {})
    \cup (IF p.wantClusterID THEN {} ELSE {"wantClusterComposition"} \X BOOLEAN)
    \cup (IF ~p.wantClusterID /\ p.wantClusterComposition THEN {"normaliseComposition"} \X BOOLEAN ELSE {})
SpeciesOffered(p) ==
    (IF p.haveRangeParent THEN {"core1", "core2"} \X BOOLEAN ELSE {})
    \cup (IF p.haveRangeParent /\ p.enableBulkLink THEN {"bulkAll", "bulk2"} \X BOOLEAN ELSE {})

Offered(p) == StepsOffered(p) \cup ResultsOffered(p) \cup SpeciesOffered(p)

\* An ion cannot be core and bulk; a flag that is as asked for is refused.
Enable(p, of, other, i, b) ==
    Require(p[of][i] # b, p,
            Changed([p EXCEPT ![of][i] = b, ![other][i] = @ /\ ~b]))

\* All bulk flags at once: neither the cache is cleared nor an update asked for.
BulkAll(p, b) ==
    LET q == [p EXCEPT !.bulk = [i \in DOMAIN @ |-> b],
                       !.core = IF b THEN [i \in DOMAIN @ |-> FALSE] ELSE @]
    IN  Lapse(Unmoved(q), p # q, "unasked")

\* The plot of sizes is looked for by a part of its label that no label has.
SizeDist(p, v, cached) ==
    IF v = p.wantClusterSizeDist THEN Unmoved(p)
    ELSE IF v THEN Changed(Put(p, "wantClusterSizeDist", v))
    ELSE Lapse(Outcome(TRUE, Put(p, "wantClusterSizeDist", v), FALSE, TRUE), cached, "restyle")

\* The plots of compositions are taken out of the cache; the index of the
\* morphology plot stays what it was.
Composition(p, v, cached) ==
    IF v = p.wantClusterComposition THEN Unmoved(p)
    ELSE IF v THEN Changed(Put(p, "wantClusterComposition", v))
    ELSE Lapse(Patched(Put(p, "wantClusterComposition", v), {"Chemistry Distribution"}, {}),
               cached /\ p.wantClusterMorphology, "restyle")

Limit(v) == IF v = 0 THEN Largest ELSE v
SetProp(p, k, v, cached) ==
    CASE k \in {"coreDist", "bulkLink", "dErosion"} -> Require(v >= 0, p, Changed(Put(p, k, v)))
      [] k \in {"coreKNN", "linkDist"} -> Require(v > 0, p, Changed(Put(p, k, v)))
      [] k = "nMin" -> Require(v <= p.nMax, p, Changed(Put(p, k, v)))
      [] k = "nMax" -> Require(Limit(v) >= p.nMin, p, Changed(Put(p, k, Limit(v))))
      [] k = "wantClusterSizeDist"    -> SizeDist(p, v, cached)
      [] k = "logClusterSize"         -> Stamped(Put(p, k, v), {k}, v # p.logClusterSize)
      [] k = "wantClusterComposition" -> Composition(p, v, cached)
      [] k = "normaliseComposition"   ->
             LET q == [p EXCEPT !.normaliseComposition = v, !.wantClusterID = FALSE]
             IN  IF v = p[k] THEN Unmoved(q) ELSE Changed(q)
      [] k = "wantClusterID" -> Changed([p EXCEPT !.wantClusterID = v, !.wantClusterComposition = FALSE])
      [] k = "bulkAll" -> BulkAll(p, v)
      [] k = "core1"   -> Enable(p, "core", "bulk", 1, v)
      [] k = "core2"   -> Enable(p, "core", "bulk", 2, v)
      [] k = "bulk2"   -> Enable(p, "bulk", "core", 2, v)
      [] OTHER         -> ApplyNow(p, k, v)

Retouchable(p) == TRUE
Bindings(p)    == {}
Bound(p, b)    == Unmoved(p)

\* initFilter: the species are known while ranges reach the filter, and what
\* was chosen of them is kept.
Sees(p, in) ==
    IF "range" \notin in THEN [p EXCEPT !.haveRangeParent = FALSE]
    ELSE [p EXCEPT !.haveRangeParent = TRUE,
                   !.core = IF @ = <<>> THEN <<FALSE, FALSE>> ELSE @,
                   !.bulk = IF @ = <<>> THEN <<TRUE, TRUE>> ELSE @]

Some(flags) == \E i \in DOMAIN flags : flags[i]

\* refreshLinkClustering and stripClusterBySize: what decides on the clusters.
RangedIons(p, in) == <<IonsIn(in), p.core, IF p.enableBulkLink THEN p.bulk ELSE <<>>>>
Classified(p)     == IF p.enableCoreClassify THEN <<p.coreDist, p.coreKNN>> ELSE <<>>
BulkLinked(p)     == IF p.enableBulkLink THEN <<p.bulkLink>> ELSE <<>>
Eroded(p)         == IF p.enableBulkLink /\ p.enableErosion THEN <<p.dErosion>> ELSE <<>>
Clusters(p, in)   == <<RangedIons(p, in), Classified(p), p.linkDist, BulkLinked(p), Eroded(p)>>
Cropped(p) == p.wantCropSize /\ Size \notin p.nMin..p.nMax

\* What is shown of the clusters.
SizePlot(p, c) == Labelled("plot", "Size Distribution", [clusters |-> c, logClusterSize |-> p.logClusterSize])
CompositionPlot(p, c) ==
    Labelled("plot", "Chemistry Distribution", [clusters |-> c, normalised |-> p.normaliseComposition])
Ellipses(c) == Stream("draw", [clusters |-> c])
Morphology(p, c) ==
    LET index == Cardinality({k \in {"wantClusterSizeDist", "wantClusterComposition"} : p[k]})
    IN  {Stream("plot2d", [clusters |-> c, index |-> index]), Ellipses(c)}
ClusteredIons(p, c) == Stream("ions", [clusters |-> c, ids |-> p.wantClusterID])

Own(p, c) == {ClusteredIons(p, c)}
             \cup (IF p.wantClusterSizeDist THEN {SizePlot(p, c)} ELSE {})
             \cup (IF p.wantClusterComposition THEN {CompositionPlot(p, c)} ELSE {})
             \cup (IF p.wantClusterMorphology THEN Morphology(p, c) ELSE {})

Run(p, in) ==
    LET passed == Except(in, {"ions", "range"})
    IN  CASE IonsIn(in) = {} \/ ~p.haveRangeParent  -> Made({}, {}, passed)
          [] OTHER -> CASE ~Some(p.core)                      -> Failure
                        [] p.enableBulkLink /\ ~Some(p.bulk)  -> Failure
                        [] Cropped(p) -> Made({}, {}, passed)
                        [] OTHER      -> Made(Own(p, Clusters(p, in)), {}, passed)
Replay(p, in) == Made({}, {}, Except(in, {"ions", "range"}))

\* An abort while clusters are dropped for their size is not noticed: what
\* remains is cached and shown as if it were all.
Cached(p, in) == IF p.wantCropSize THEN {Own(p, <<"unfinished">>)} ELSE {{}}

Emits(p)  == {"ions"}
             \cup (IF p.wantClusterSizeDist \/ p.wantClusterComposition THEN {"plot", "draw"} ELSE {})
             \cup (IF p.wantClusterMorphology THEN {"plot2d", "draw"} ELSE {})
Blocks(p) == {"ions"}

\* cloneUncached forgets which steps are enabled.
Steps     == {"enableCoreClassify", "enableBulkLink", "enableErosion"}
Forgotten == Steps \cup {"coreKNN", "wantClusterID", "haveRangeParent"}
Cloned(p) == [k \in DOMAIN p |-> IF k \in Forgotten THEN Defaults[k] ELSE p[k]]

\* Whether a step is enabled is read and then set again as if it had not been
\* there; the cluster IDs are read from the morphology's element, and with
\* that the composition is gone.
Written(p) == [k \in DOMAIN p \ {"haveRangeParent"} |-> p[k]]
ReadBack(w) ==
    IF w.coreDist < 0 \/ w.coreKNN = 0 \/ w.linkDist <= 0 \/ w.bulkLink < 0 \/ w.dErosion < 0 THEN LoadFails
    ELSE Loaded([w EXCEPT !.enableCoreClassify = (Defaults.bulkLink # 0),
                          !.enableBulkLink = (w.bulkLink # 0), !.enableErosion = (w.dErosion # 0),
                          !.wantClusterID = w.wantClusterMorphology, !.wantClusterComposition = FALSE,
                          !.bulk = [i \in DOMAIN @ |-> @[i] /\ ~w.core[i]]]
                @@ [haveRangeParent |-> FALSE])
Transient     == {"haveRangeParent", "core", "bulk"}

INSTANCE FilterLife WITH Ran <- FirstOf, Cleared <- Itself, Scratch <- Itself
=============================================================================

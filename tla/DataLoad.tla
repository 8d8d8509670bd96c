------------------------------ MODULE DataLoad ------------------------------
(***************************************************************************)
(* DataLoadFilter: reads ions from a file of positions, of text, or in the *)
(* ATO format.  A file that holds another format cannot be loaded.  What   *)
(* monitoring the file does is the subject of FileMonitor.                 *)
(***************************************************************************)
EXTENDS FilterCommon, TLC
CONSTANT MaxChanged
VARIABLES filter, settings, input, cacheOK, outputs, shown, lapses

Name     == "posdata"
Inputs   == {{}, {"range"}, {"ions1", "draw"}}
MaxCols  == 9      \* MAX_NUM_FILE_COLS
Kind(f)  == CASE f \in {"a.pos", "b.pos", "empty.txt"} -> IF f = "empty.txt" THEN "text" ELSE "pos"
              [] f = "c.ato" -> "ato"
              [] OTHER       -> "none"

\* DataLoadFilter::DataLoadFilter, with the file it is made for.
Defaults == [ionFilename |-> "a.pos", fileType |-> "pos", doSample |-> TRUE, maxIons |-> 5,
             rgbaf |-> "red", ionSize |-> 2, numColumns |-> 4, index |-> <<0, 1, 2, 3>>,
             enabled |-> TRUE, wantMonitor |-> FALSE, valueLabel |-> "mass", endianMode |-> "auto"]

\* getProperties: sampling, colour and size are offered of an enabled filter.
Offered(p) ==
    ({"ionFilename"} \X {"b.pos", "c.ato", "empty.txt", "missing"})
    \cup ({"fileType"} \X {"pos", "text", "ato"})
    \cup ({"lastColumn"} \X {2, p.numColumns}) \cup ({"valueLabel"} \X {"mass", "density"})
    \cup ({"enabled"} \X BOOLEAN)
    \cup (IF p.fileType = "pos" THEN {"numColumns"} \X {3, 5, MaxCols} ELSE {})
    \cup (IF p.fileType = "ato" THEN {"endianMode"} \X {"auto", "big"} ELSE {})
    \cup (IF p.enabled THEN ({"wantMonitor"} \X BOOLEAN) \cup ({"rgbaf"} \X {"red", "blue"})
                            \cup ({"ionSize"} \X {-1, 0, 3})
          ELSE {})
    \cup (IF p.enabled /\ p.fileType # "ato"
          THEN ({"doSample"} \X BOOLEAN) \cup (IF p.doSample THEN {"maxIons"} \X {0, 7} ELSE {})
          ELSE {})

\* A column that the file no longer has becomes its last one.
SetColumns(p, n) ==
    [p EXCEPT !.numColumns = n, !.index = [i \in DOMAIN @ |-> IF @[i] < n THEN @[i] ELSE n - 1]]

\* The style of the cached ions is changed where it is.
SetProp(p, k, v, cached) ==
    CASE k = "ionFilename" -> Require(v # "missing", p, Changed([p EXCEPT !.ionFilename = v, !.numColumns = 4]))
      [] k \in {"fileType", "endianMode"} -> Require(v # p[k], p, Changed(Put(p, k, v)))
      [] k = "maxIons"    -> Require(v > 0, p, ApplyNow(p, k, v))
      [] k = "rgbaf"      -> Stamped(Put(p, k, v), {k}, v # p.rgbaf)
      [] k = "ionSize"    -> Require(v >= 0, p, Stamped(Put(p, k, v), {k}, TRUE))
      [] k = "valueLabel" -> Stamped(Put(p, k, v), {k}, v # p.valueLabel)
      [] k = "lastColumn" -> Require(v < p.numColumns, p, Changed([p EXCEPT !.index[4] = v]))
      [] k = "numColumns" -> Require(v < MaxCols, p, Changed(SetColumns(p, v)))
      [] OTHER            -> ApplyNow(p, k, v)

Retouchable(p) == TRUE
Bindings(p)    == {}
Bound(p, b)    == Unmoved(p)
Sees(p, in)    == p

\* What the file gives with these settings; the columns speak of binary
\* files, and the byte order that was chosen is not used.
Loads(p) ==
    LET sample == IF p.doSample THEN <<p.maxIons>> ELSE <<>>
    IN  CASE p.fileType = "pos"  -> <<p.ionFilename, sample, p.numColumns, p.index>>
          [] p.fileType = "text" -> <<p.ionFilename, sample>>
          [] p.fileType = "ato"  -> <<p.ionFilename>>
Ions(p) == Stream("ions", [from |-> Loads(p), rgbaf |-> p.rgbaf, ionSize |-> p.ionSize,
                           valueLabel |-> p.valueLabel])

\* DataLoadFilter::refresh: a file without ions stops what comes from above
\* as well.  A monitored file is read again at every refresh.
Run(p, in) ==
    CASE Kind(p.ionFilename) = "none" -> Failure
      [] Kind(p.ionFilename) # "none" /\ ~p.enabled -> Made({}, {}, in)
      [] OTHER ->
         CASE Kind(p.ionFilename) # p.fileType -> Failure
           [] p.ionFilename = "empty.txt"      -> Made({}, {}, {})
           [] OTHER -> IF p.wantMonitor THEN Made({}, {Ions(p)}, in) ELSE Made({Ions(p)}, {}, in)
Replay(p, in) == Made({}, {}, in)
Cached(p, in) == {{}}
Emits(p)      == {"ions"}
Blocks(p)     == {}

\* cloneUncached leaves the label and the byte order behind.
Cloned(p)     == [p EXCEPT !.valueLabel = Defaults.valueLabel, !.endianMode = Defaults.endianMode]

\* A filter whose ions have no size, or a column that is not there, is not read.
Written(p)    == [k \in DOMAIN p \ {"endianMode"} |-> p[k]]
ReadBack(w)   == IF w.ionSize <= 0 \/ \E i \in DOMAIN w.index : w.index[i] >= w.numColumns THEN LoadFails
                 ELSE Loaded(w @@ [endianMode |-> Defaults.endianMode])
Transient     == {}

INSTANCE FilterLife WITH Ran <- FirstOf, Cleared <- Itself, Scratch <- Itself
=============================================================================

----------------------------- MODULE RangeEditor -----------------------------
(***************************************************************************)
(* The range editor (gui/dialogs/rangeEditDialog.cpp): copies of the range *)
(* files of the plots, edited in two grids and by dragging the regions of  *)
(* a plot, which replace those of the range filters on OK; and dragging    *)
(* the regions in the main window, which moves the filter's own ranges     *)
(* (backend/APT/APTRanges.cpp, backend/filters/rangeFile.cpp).             *)
(*                                                                         *)
(* There are two plots, of one range file or of two.  A range is two       *)
(* bounds and the offset of its ion.  Offsets count from 1.                *)
(***************************************************************************)
EXTENDS Integers, Sequences, Functions
CONSTANTS
    Masses, IonNames,    \* what the user types and drags to             bound
    FirstFiles,          \* the range files of the two filters, at the start
    MaxEdits, MaxPending \* bounds
VARIABLE now

Name     == "ranges"
Plots    == 1..2
Unset    == 9                    \* a cell of a pending range not yet filled
Bounds(lo, hi, ion) == [lo |-> lo, hi |-> hi, ion |-> ion]
RangeFile == [rs : Seq([lo : Int, hi : Int, ion : Int]), ions : Seq(IonNames), enforce : BOOLEAN]

\* filter: the range files of the filters.  Of the dialog: files: its copies;
\* file: that of each plot; cur: the one edited; rows: the ranges whose rows
\* the grid shows; pending: ranges not yet complete.
\* unchecked: there were changes after which OK was not enabled or disabled
\* anew.  strayed: while a range was pending an ion was erased, or another
\* plot was selected when it was added.
Closed(s) == [s EXCEPT !.open = FALSE, !.files = <<>>, !.regions = <<>>, !.sel = 1, !.cur = 1,
                       !.rows = 0, !.pending = <<>>, !.ready = TRUE, !.unchecked = FALSE]
Init ==
    \E q \in FirstFiles, f \in {<<1, 1>>, <<1, 2>>} :
      now = [filter |-> q, file |-> f, edits |-> 0, strayed |-> FALSE, open |-> FALSE,
             files |-> <<>>, regions |-> <<>>, sel |-> 1, cur |-> 1, rows |-> 0,
             pending |-> <<>>, ready |-> TRUE, unchecked |-> FALSE]

Becomes(r) == now' = r
Edited(s)  == [s EXCEPT !.edits = @ + 1]

-----------------------------------------------------------------------------
(* Range files *)

\* isSelfConsistent: it depends on the order of the ranges.
InsideOf(x, b) == b.lo < x /\ x < b.hi
ClashOf(a, b)  == \/ InsideOf(a.lo, b) \/ InsideOf(a.hi, b)
                  \/ a.lo < b.lo /\ a.hi > b.hi
                  \/ a.lo = b.lo /\ a.hi = b.hi
SelfConsistent(f) ==
    /\ \A i \in DOMAIN f.rs : f.rs[i].lo # f.rs[i].hi
    /\ \A i, j \in DOMAIN f.rs : i < j => ~ClashOf(f.rs[i], f.rs[j])
    /\ IsInjective(f.ions)

\* moveRange, moveBothRanges: a bound may not pass a bound of another range.
Passes(a, lo, hi, b) ==
    \E m \in {b.lo, b.hi} : (a.lo < m /\ hi > m) \/ (a.hi > m /\ lo < m)
MayMove(f, i, lo, hi) == \A j \in DOMAIN f.rs \ {i} : ~Passes(f.rs[i], lo, hi, f.rs[j])
\* Mutant: only a range that lies inside is minded.
Mut_MoveRange(f, i, lo, hi) ==
    IF ~f.enforce \/ (lo < hi /\ \A j \in DOMAIN f.rs \ {i} : ~(lo < f.rs[j].lo /\ hi > f.rs[j].hi))
    THEN [f EXCEPT !.rs[i].lo = lo, !.rs[i].hi = hi] ELSE f
MoveRange(f, i, lo, hi) ==
    IF ~f.enforce \/ (lo < hi /\ MayMove(f, i, lo, hi))
    THEN [f EXCEPT !.rs[i].lo = lo, !.rs[i].hi = hi] ELSE f
MoveBothRanges(f, i, lo, hi) ==
    IF MayMove(f, i, lo, hi) THEN [f EXCEPT !.rs[i].lo = lo, !.rs[i].hi = hi] ELSE f

\* eraseRange: the last range takes its place.
SwapOut(q, i) == [k \in 1..(Len(q) - 1) |-> IF k = i THEN q[Len(q)] ELSE q[k]]
EraseRange(f, i) == [f EXCEPT !.rs = SwapOut(@, i)]
\* vector::erase at an offset.
RemoveAt(s, i) == SubSeq(s, 1, i - 1) \o SubSeq(s, i + 1, Len(s))
\* vectorMultiErase: those of other ions, in the order they were in.
MultiErase(rs, k) ==
    LET e[i \in 0..Len(rs)] ==
            IF i = 0 THEN <<>> ELSE IF rs[i].ion # k THEN Append(e[i - 1], rs[i]) ELSE e[i - 1]
    IN  e[Len(rs)]
\* eraseIon: its ranges go with it, ions behind it move up.
\* Mutant: the ranges keep the offsets they had.
Mut_EraseIon(f, k) ==
    [f EXCEPT !.ions = RemoveAt(@, k), !.rs = MultiErase(@, k)]
EraseIon(f, k) ==
    LET left == MultiErase(f.rs, k)
    IN  [f EXCEPT !.ions = RemoveAt(@, k),
                  !.rs = [i \in DOMAIN left |-> [left[i] EXCEPT !.ion = IF @ > k THEN @ - 1 ELSE @]]]

-----------------------------------------------------------------------------
(* The main window *)

\* A region is dragged: the filter's range moves.
MainDrag(f, i, method, x) ==
    /\ ~now.open
    /\ LET r == now.filter[f].rs[i]
       IN  Becomes(Edited([now EXCEPT !.filter[f] =
              CASE method = "lower" -> MoveRange(@, i, x, r.hi)
                [] method = "upper" -> MoveRange(@, i, r.lo, x)
                [] method = "both"  -> MoveBothRanges(@, i, x, x + (r.hi - r.lo))]))

\* setPlotWrapper: the copies do not enforce consistency; OK can be pressed.
RegionsOf(f) == [i \in DOMAIN f.rs |-> [lo |-> f.rs[i].lo, hi |-> f.rs[i].hi, id |-> i]]
OpenDialog ==
    /\ ~now.open
    /\ LET fs == [f \in 1..2 |-> [now.filter[f] EXCEPT !.enforce = FALSE]]
       IN  Becomes([now EXCEPT !.open = TRUE, !.files = fs, !.sel = 1, !.cur = now.file[1],
                               !.regions = [p \in Plots |-> RegionsOf(fs[now.file[p]])],
                               !.rows = Len(fs[now.file[1]].rs), !.pending = <<>>, !.ready = TRUE,
                               !.unchecked = \E p \in Plots : ~SelfConsistent(fs[now.file[p]])])

-----------------------------------------------------------------------------
(* The dialog *)

\* setRangeReady.
Ready(s) == [s EXCEPT !.ready = \A p \in Plots : SelfConsistent(s.files[s.file[p]]), !.unchecked = FALSE]
\* generatePlotRegions: of the plot that is selected.
\* Mutant: the regions are left as they were.
Mut_WithRegions(s) == s
WithRegions(s) == [s EXCEPT !.regions[s.sel] = RegionsOf(s.files[s.cur])]
\* generateRangeEntries.
WithRows(s)    == [s EXCEPT !.rows = Len(s.files[s.cur].rs)]

\* OnListPlots: another plot, its ranges; the grids stay as they are.
OnListPlots(p) == now.open /\ Becomes([now EXCEPT !.sel = p, !.cur = now.file[p]])

\* OnGridRangesCellChange.  A row the grid still shows of another file, which
\* this one does not have, is undefined and left out.
Cell(row, col, x) ==
    /\ now.open /\ row <= now.rows /\ row \in DOMAIN now.files[now.cur].rs
    /\ LET r == now.files[now.cur].rs[row]
       IN  CASE col = "lo"  -> x < r.hi
             [] col = "hi"  -> x > r.lo
             [] col = "ion" -> x \in DOMAIN now.files[now.cur].ions
    /\ Becomes(Ready(WithRegions(Edited([now EXCEPT !.files[now.cur].rs[row][col] = x]))))

AddPending == /\ now.open /\ Len(now.pending) < MaxPending
              /\ Becomes(Ready(WithRows(Edited([now EXCEPT !.pending =
                    Append(@, [file |-> now.cur, lo |-> Unset, hi |-> Unset, ion |-> Unset])]))))

\* A cell of a pending range; once complete the range is added, to the file
\* it was begun for.
Finished(q) == q.lo # Unset /\ q.hi # Unset /\ q.ion # Unset /\ q.lo < q.hi
PendingCell(d, col, x) ==
    /\ now.open
    /\ col = "ion" => x \in DOMAIN now.files[now.pending[d].file].ions
    /\ LET q == [now.pending[d] EXCEPT ![col] = x]
           s == IF Finished(q)
                THEN [now EXCEPT !.files[q.file].rs = Append(@, Bounds(q.lo, q.hi, q.ion)),
                                 !.strayed = @ \/ q.file # now.cur,
                                 !.pending = SwapOut(@, d)]
                ELSE [now EXCEPT !.pending[d] = q]
       IN  Becomes([WithRegions(WithRows(s)) EXCEPT !.unchecked = @ \/ Finished(q)])

\* A new ion, complete; OK is looked at only if its colour came last.
NewIon(n, colourLast) ==
    /\ now.open /\ n \notin Range(now.files[now.cur].ions)
    /\ LET s == Edited([now EXCEPT !.files[now.cur].ions = Append(@, n)])
       IN  Becomes(IF colourLast THEN Ready(s) ELSE s)
RenameIon(k, n) ==
    now.open /\ Becomes(Ready(Edited([now EXCEPT !.files[now.cur].ions[k] = n])))

\* OnBtnRangeIonRemove.
RemoveRange(row) ==
    /\ now.open /\ row <= now.rows /\ row \in DOMAIN now.files[now.cur].rs
    /\ Becomes(Ready(WithRegions(WithRows(Edited(
          [now EXCEPT !.files[now.cur] = EraseRange(@, row)])))))
RemovePending(d) ==
    now.open /\ Becomes(Ready(WithRegions(WithRows(
          [now EXCEPT !.pending = SwapOut(@, d)]))))
RemoveIon(k) ==
    /\ now.open
    /\ Becomes(Ready(WithRegions(WithRows(Edited(
          [now EXCEPT !.files[now.cur] = EraseIon(@, k),
                      !.strayed = @ \/ \E d \in DOMAIN now.pending : now.pending[d].ion # Unset])))))

\* updateParent, on the range file and on the region: bounds that would meet
\* are refused by the one only; bounds that cross are swapped.
Ordered(r) == IF r.lo > r.hi THEN [r EXCEPT !.lo = r.hi, !.hi = r.lo] ELSE r
Moved(r, method, x) ==
    CASE method = "lower" -> Ordered([r EXCEPT !.lo = x])
      [] method = "upper" -> Ordered([r EXCEPT !.hi = x])
      [] method = "both"  -> [r EXCEPT !.lo = x, !.hi = x + (r.hi - r.lo)]
Drag(g, method, x) ==
    LET p == now.sel  f == now.file[p]  reg == now.regions[p][g]
        rng == now.files[f].rs[reg.id]  new == Moved(rng, method, x)
    IN  /\ now.open /\ reg.lo < reg.hi /\ reg.id \in DOMAIN now.files[f].rs
        /\ Becomes(Ready(WithRows(Edited(
              [now EXCEPT !.files[f].rs[reg.id] = IF new.lo = new.hi THEN rng ELSE new,
                          !.regions[p][g] = Moved(reg, method, x)]))))

\* modifyRangeFiles: the copies replace the files, with all they hold.
OnOK == now.open /\ now.ready
        /\ Becomes(Closed([now EXCEPT !.filter =
              [f \in 1..2 |-> IF \E p \in Plots : now.file[p] = f THEN now.files[f] ELSE @[f]]]))
OnCancel == now.open /\ Becomes(Closed(now))

CurIons    == IF now.open THEN DOMAIN now.files[now.cur].ions ELSE {}
CurRegions == IF now.open THEN DOMAIN now.regions[now.sel] ELSE {}
Methods == {"lower", "upper", "both"}
Editing ==
    \/ \E f \in 1..2, m \in Methods, x \in Masses :
          \E i \in DOMAIN now.filter[f].rs : MainDrag(f, i, m, x)
    \/ \E row \in 1..now.rows, col \in {"lo", "hi", "ion"}, x \in Masses : Cell(row, col, x)
    \/ AddPending
    \/ \E d \in DOMAIN now.pending, col \in {"lo", "hi", "ion"}, x \in Masses : PendingCell(d, col, x)
    \/ \E n \in IonNames, b \in BOOLEAN : NewIon(n, b)
    \/ \E n \in IonNames : \E k \in CurIons : RenameIon(k, n)
    \/ \E row \in 1..now.rows : RemoveRange(row)
    \/ \E d \in DOMAIN now.pending : RemovePending(d)
    \/ \E k \in CurIons : RemoveIon(k)
    \/ \E m \in Methods, x \in Masses : \E g \in CurRegions : Drag(g, m, x)
Next ==
    \/ now.edits < MaxEdits /\ Editing
    \/ OpenDialog \/ OnOK \/ OnCancel
    \/ \E p \in Plots : OnListPlots(p)

-----------------------------------------------------------------------------
\* Ranges that are to be consistent do not overlap, whatever is dragged.
Apart(a, b) == a.hi <= b.lo \/ b.hi <= a.lo
KeptApart(f) == \A i, j \in DOMAIN f.rs : i # j => Apart(f.rs[i], f.rs[j])
WellApart(f) == KeptApart(f) /\ \A i \in DOMAIN f.rs : f.rs[i].lo < f.rs[i].hi
DragKeepsDisjoint == \A f \in 1..2 : now.filter[f].enforce => KeptApart(now.filter[f])
\* OK can be pressed only if every copy has been found consistent.
OKIsChecked ==
    now.open /\ now.ready /\ ~now.unchecked => \A p \in Plots : SelfConsistent(now.files[now.file[p]])
\* The plot selected shows the ranges of its file.  Left out are two plots of
\* one file, where the other plot does not follow an edit.
RegionsAreRanges ==
    now.open /\ now.file[1] # now.file[2] /\ ~now.strayed =>
       \A g \in DOMAIN now.regions[now.sel] :
          LET reg == now.regions[now.sel][g]  rs == now.files[now.file[now.sel]].rs
          IN  /\ Len(rs) = Len(now.regions[now.sel])
              /\ reg.lo < reg.hi => reg = [lo |-> rs[reg.id].lo, hi |-> rs[reg.id].hi, id |-> g]
\* Every range is one of an ion there is, unless that ion was erased while it
\* was pending.
IonsLive ==
    now.strayed \/ \A f \in DOMAIN now.files : \A i \in DOMAIN now.files[f].rs :
                     now.files[f].rs[i].ion \in DOMAIN now.files[f].ions
=============================================================================

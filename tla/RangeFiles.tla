----------------------------- MODULE RangeFiles -----------------------------
(***************************************************************************)
(* Reading and writing range files (backend/APT/APTRanges.cpp), by the     *)
(* range filter, which is given another file name, and by the export       *)
(* dialog.                                                                 *)
(*                                                                         *)
(* A file is the fields its reader takes from it; the text is left out.    *)
(* A range file in memory is its ions (short and long name, colour) and    *)
(* its ranges (two bounds and the offset of the ion, from 1).              *)
(***************************************************************************)
EXTENDS Naturals, Sequences, SequencesExt, FiniteSets, TLC
VARIABLE now

R == INSTANCE RangeEditor WITH Masses <- {}, IonNames <- {}, FirstFiles <- {}, MaxEdits <- 0, MaxPending <- 0

Name    == "rangefiles"
Formats == {"rng", "rrng", "env"}                 \* the formats of the dialog
Useless == 0                                      \* the ion of a row without one
Ion(short, long, colour) == [short |-> short, long |-> long, colour |-> colour]
Failed  == [ok |-> FALSE, ions |-> <<>>, rs |-> <<>>]
Got(ions, rs) == [ok |-> TRUE, ions |-> ions, rs |-> rs]

\* The files found on the disk.
Row(i, cols) == [lo |-> 2 * i, hi |-> 2 * i + 1, cols |-> cols]
Table(ions, rows) == [fmt |-> "rng", ions |-> ions, rows |-> rows]
IonA  == Ion("A", "Aa", "red")
IonB  == Ion("B", "Bb", "blue")
IonAB == Ion("AB", "AaBb", "green")
Rows(kinds, n) == UNION {{[i \in 1..k |-> Row(i, q[i])] : q \in [1..k -> kinds]} : k \in 0..n}
Tables ==                                                           \* bound
    {Table(<<IonA, IonB>>, q) : q \in Rows({<<0, 0>>, <<1, 0>>, <<0, 1>>, <<2, 0>>, <<1, 1>>}, 3)}
    \cup {Table(<<IonA, IonB, IonAB>>, q) : q \in Rows({<<1, 0, 0>>, <<0, 1, 0>>, <<1, 1, 0>>, <<2, 0, 0>>}, 2)}
    \cup {Table(<<IonA, IonA>>, <<Row(1, <<1, 0>>)>>),
          Table(<<IonA>>, <<[Row(1, <<1>>) EXCEPT !.lo = 9]>>)}
Doubles ==                                                          \* bound
    {[fmt |-> "dbl", first |-> Table(<<IonA, IonB>>, p), second |-> Table(<<IonAB>>, q)] :
        p \in Rows({<<1, 0>>, <<0, 1>>}, 2), q \in Rows({<<1>>}, 2)}
Line(i, fields, name, colour) ==
    [lo |-> 2 * i, hi |-> 2 * i + 1, fields |-> fields, name |-> name, colour |-> colour]
Listings ==                                                         \* bound
    {[fmt |-> "rrng", basics |-> b, number |-> n, lines |-> <<Line(1, p, "AB", c), Line(2, q, m, "blue")>>] :
        b \in {<<>>, <<"A", "B">>}, n \in {0, 2}, p \in {<<>>, <<<<"A", 1>>, <<"B", 2>>>>}, c \in {"", "red"},
        q \in {<<>>, <<<<"A", 1>>>>, <<<<"C", 1>>>>}, m \in {"", "AB"}}
Environments ==                                                     \* bound
    {[fmt |-> "env", ions |-> n, lines |-> <<[name |-> m, lo |-> 2, hi |-> 3]>>, more |-> r] :
        n \in {<<>>, <<IonA>>, <<IonA, IonA>>}, m \in {"A", "B"}, r \in BOOLEAN}

-----------------------------------------------------------------------------
(* Oak Ridge tables *)

\* decomposeIonNames: an ion's name, taken apart.
Fragments(name) ==
    CASE name = "A" -> {<<"A", 1>>} [] name = "B" -> {<<"B", 1>>} [] name = "AB" -> {<<"A", 1>>, <<"B", 1>>}

\* The columns of which a row has any.
Columns(row) == {c \in DOMAIN row.cols : row.cols[c] > 0}
Single(row)  == \E c \in DOMAIN row.cols : Columns(row) = {c} /\ row.cols[c] = 1
Entries(f, row) == {<<f.ions[c].short, row.cols[c]>> : c \in Columns(row)}

\* composeMap: the names of the columns without entries, in order of name.
Composed(f) ==
    SelectSeq(<<"A", "AB", "B">>, LAMBDA n :
        \E c \in DOMAIN f.ions : f.ions[c].short = n /\ \A i \in DOMAIN f.rows : f.rows[i].cols[c] = 0)
\* matchComposedName: the only name that is made of these, its position among
\* the composed names.
Matching(f, row) == {k \in DOMAIN Composed(f) : Fragments(Composed(f)[k]) = Entries(f, row)}
MatchComposedName(f, row) == IF Cardinality(Matching(f, row)) = 1 THEN CHOOSE k \in Matching(f, row) : TRUE ELSE Useless

\* readRNGHeader, readRNGFreqTable.
HeaderReads(f) == f.ions # <<>> /\ f.rows # <<>>
TableReads(f)  == /\ \A i \in DOMAIN f.rows : f.rows[i].lo < f.rows[i].hi
                  /\ \E i \in DOMAIN f.rows : Columns(f.rows[i]) # {}
\* A row of several ions with nothing to compose them of gets a new ion.
Unassigned(f) ==
    {i \in DOMAIN f.rows : Columns(f.rows[i]) # {} /\ ~Single(f.rows[i]) /\ Composed(f) = <<>>}
NewName(f, row) ==
    FoldLeft(LAMBDA s, c : IF row.cols[c] > 0 THEN s \o f.ions[c].short \o ToString(row.cols[c]) ELSE s,
             "", Reverse([c \in DOMAIN row.cols |-> c]))
NewNames(f) == SetToSortSeq({NewName(f, f.rows[i]) : i \in Unassigned(f)}, LAMBDA a, b : a = "A2" /\ b # "A2")
IonOfRow(f, row) ==
    IF Single(row) THEN CHOOSE c \in Columns(row) : TRUE
    ELSE IF Columns(row) = {} \/ Composed(f) = <<>> THEN Useless ELSE MatchComposedName(f, row)
MatchesAll(f) ==
    \A i \in DOMAIN f.rows : Columns(f.rows[i]) = {} \/ i \in Unassigned(f) \/ IonOfRow(f, f.rows[i]) # Useless

\* The useless rows are deleted in one pass; the last one takes the place of
\* each and is not looked at again.
DeleteUseless(q) ==
    FoldLeft(LAMBDA s, i : IF i <= Len(s) /\ s[i].ion = Useless THEN R!SwapOut(s, i) ELSE s,
             q, [i \in DOMAIN q |-> i])

\* openRNG: the new ions are given to the positions their rows had before.
Reads(f) == HeaderReads(f) /\ TableReads(f) /\ MatchesAll(f)
Kept(f)  == DeleteUseless([i \in DOMAIN f.rows |->
                R!Bounds(f.rows[i].lo, f.rows[i].hi,
                         IF i \in Unassigned(f) THEN Len(f.ions) + 1 ELSE IonOfRow(f, f.rows[i]))])
IndexIn(q, x) == CHOOSE k \in DOMAIN q : q[k] = x
Named(f, kept, new) ==
    Got(f.ions \o [k \in DOMAIN new |-> Ion(new[k], new[k], "any")],
        [i \in DOMAIN kept |->
            IF i \in Unassigned(f) THEN [kept[i] EXCEPT !.ion = Len(f.ions) + IndexIn(new, NewName(f, f.rows[i]))]
            ELSE kept[i]])
\* Mutant: all rows of several ions get the first new ion.
Mut_OpenRNG(f) == IF Reads(f) THEN [Named(f, Kept(f), NewNames(f)) EXCEPT !.rs = Kept(f)] ELSE Failed
OpenRNG(f)     == IF Reads(f) THEN Named(f, Kept(f), NewNames(f)) ELSE Failed

\* openDoubleRNG: an ion of a range that both have becomes that of the second.
SameBounds(r, q) == r.lo = q.lo /\ r.hi = q.hi
Merged(a, b) ==
    LET over(c) == {p \in (DOMAIN a.rs) \X (DOMAIN b.rs) : a.rs[p[1]].ion = c /\ SameBounds(a.rs[p[1]], b.rs[p[2]])}
        ion(c)  == IF over(c) = {} THEN a.ions[c] ELSE b.ions[b.rs[(CHOOSE p \in over(c) : TRUE)[2]].ion]
    IN  IF a.ok /\ b.ok /\ \A c \in DOMAIN a.ions : Cardinality(over(c)) <= 1
        THEN Got([c \in DOMAIN a.ions |-> ion(c)], a.rs) ELSE Failed
OpenDoubleRNG(f) == Merged(OpenRNG(f.first), OpenRNG(f.second))

-----------------------------------------------------------------------------
(* The other formats *)

\* The ion of a name, which is added when there is none.
IonNamed(ions, n) == CHOOSE k \in DOMAIN ions : ions[k].short = n
HasIon(ions, n)   == \E k \in DOMAIN ions : ions[k].short = n
AddNamed(r, n, colour, lo, hi) ==
    LET ions == IF HasIon(r.ions, n) THEN r.ions ELSE Append(r.ions, Ion(n, n, colour))
    IN  Got(ions, Append(r.rs, R!Bounds(lo, hi, IonNamed(ions, n))))

\* openRRNG.  A line without an ion and without a name is ignored.
FieldsName(l) == FoldLeft(LAMBDA s, e : s \o e[1] \o (IF e[2] = 1 THEN "" ELSE ToString(e[2])), "", l.fields)
LineName(l)   == IF l.fields # <<>> THEN FieldsName(l) ELSE l.name
LineReads(f, l) ==
    /\ Len(l.fields) + (IF l.name = "" THEN 0 ELSE 1) + (IF l.colour = "" THEN 0 ELSE 1) >= 2
    /\ \A i \in DOMAIN l.fields : \E k \in DOMAIN f.basics : f.basics[k] = l.fields[i][1]
OpenRRNG(f) ==
    LET add(r, l) == IF LineName(l) = "" THEN r
                     ELSE AddNamed(r, LineName(l), IF l.colour = "" THEN "any" ELSE l.colour, l.lo, l.hi)
        got == FoldLeft(add, Got(<<>>, <<>>), f.lines)
    IN  IF /\ f.basics # <<>> /\ f.number # 0
           /\ \A i \in DOMAIN f.lines : LineReads(f, f.lines[i])
           /\ f.number = Len(got.rs)
        THEN got ELSE Failed

\* openENV: there has to be more behind the ranges.  Ions that differ in
\* their charge only are one.
EnvIons(f) ==
    FoldLeft(LAMBDA q, a : IF HasIon(q, a.short) THEN q ELSE Append(q, Ion(a.short, a.short, a.colour)), <<>>, f.ions)
EnvLinesRead(f, ions) ==
    /\ f.lines # <<>> /\ f.more
    /\ \A i \in DOMAIN f.lines : HasIon(ions, f.lines[i].name) /\ f.lines[i].lo <= f.lines[i].hi
OpenENV(f) ==
    IF EnvIons(f) # <<>> /\ EnvLinesRead(f, EnvIons(f))
    THEN FoldLeft(LAMBDA r, l : AddNamed(r, l.name, "", l.lo, l.hi), Got(EnvIons(f), <<>>), f.lines)
    ELSE Failed

\* isSelfConsistent.
Consistent(r) ==
    /\ \A i, j \in DOMAIN r.rs : i < j => ~R!ClashOf(r.rs[i], r.rs[j])
    /\ \A i, j \in DOMAIN r.ions : i # j => r.ions[i].short # r.ions[j].short /\ r.ions[i].long # r.ions[j].long

\* open, by a reader that takes what it knows of the file: that of a table
\* takes the first of a double one.
Known(fmt) == CASE fmt = "rng" -> {"rng", "dbl"} [] OTHER -> {fmt}
Opened(f, fmt) ==
    CASE fmt = "rng"  -> OpenRNG(IF f.fmt = "dbl" THEN f.first ELSE f)
      [] fmt = "dbl"  -> OpenDoubleRNG(f)
      [] fmt = "rrng" -> OpenRRNG(f)
      [] fmt = "env"  -> OpenENV(f)
Checked(r)   == IF r.ok /\ Consistent(r) THEN r ELSE Failed
Open(f, fmt) == IF f.fmt \in Known(fmt) THEN Checked(Opened(f, fmt)) ELSE Failed

\* detectFileType: two numbers and a line of dashes, a second one; the two
\* sections; or else a file that can be read as environment.
LooksLikeTable(f)   == f.fmt \in {"rng", "dbl"}
LooksLikeListing(f) == ~LooksLikeTable(f) /\ f.fmt = "rrng"
LooksLikeEnv(f)     == ~LooksLikeTable(f) /\ ~LooksLikeListing(f) /\ OpenENV(f).ok
DetectFileType(f) == IF LooksLikeTable(f) \/ LooksLikeListing(f) \/ LooksLikeEnv(f) THEN f.fmt ELSE "unknown"
\* openGuessFormat: the format detected, or else the first that opens.
Tries(f) == <<DetectFileType(f), "rng", "env", "dbl", "rrng">>
OpenGuessFormat(f) ==
    Head(Append(SelectSeq([k \in 1..5 |-> Open(f, Tries(f)[k])], LAMBDA r : r.ok), Failed))

-----------------------------------------------------------------------------
(* Writing *)

WriteRNG(r) ==
    Table(r.ions, [i \in DOMAIN r.rs |->
        [lo |-> r.rs[i].lo, hi |-> r.rs[i].hi, cols |-> [c \in DOMAIN r.ions |-> IF c = r.rs[i].ion THEN 1 ELSE 0]]])
WriteENV(r) ==
    [fmt |-> "env", ions |-> r.ions, more |-> FALSE,
     lines |-> [i \in DOMAIN r.rs |-> [name |-> r.ions[r.rs[i].ion].short, lo |-> r.rs[i].lo, hi |-> r.rs[i].hi]]]
\* The colour written is that of the ion whose offset the range has.
WriteLine(r, i, ion) ==
    [lo |-> r.rs[i].lo, hi |-> r.rs[i].hi, fields |-> <<<<r.ions[ion].short, 1>>>>,
     name   |-> IF r.ions[ion].short \in {"A", "B"} THEN "" ELSE r.ions[ion].short,
     colour |-> IF i \in DOMAIN r.ions THEN r.ions[i].colour ELSE "any"]
Listing(r, lines) ==
    [fmt |-> "rrng", basics |-> [c \in DOMAIN r.ions |-> r.ions[c].short], number |-> Len(r.rs), lines |-> lines]
\* Mutant: the name as well.
Mut_WriteRRNG(r) == Listing(r, [i \in DOMAIN r.rs |-> WriteLine(r, i, IF i \in DOMAIN r.ions THEN i ELSE r.rs[i].ion)])
WriteRRNG(r)     == Listing(r, [i \in DOMAIN r.rs |-> WriteLine(r, i, r.rs[i].ion)])
Write(r, fmt) == CASE fmt = "rng" -> WriteRNG(r) [] fmt = "env" -> WriteENV(r) [] fmt = "rrng" -> WriteRRNG(r)

-----------------------------------------------------------------------------
(* The filter and the export dialog *)

\* rng: the filter's range file; flags: how many ranges it has flags for.
\* wrote: what was exported, and how, while the file is that one; read: the
\* filter's range file is the file's.
Own  == Got(<<IonA, IonB, IonAB>>, <<R!Bounds(2, 3, 2), R!Bounds(4, 5, 1), R!Bounds(6, 7, 2), R!Bounds(8, 9, 1)>>)
None == [fmt |-> "", rng |-> Failed]
Init == \E f \in Tables \cup Doubles \cup Listings \cup Environments :
            now = [disk |-> f, rng |-> Own, flags |-> Len(Own.rs), wrote |-> None, read |-> FALSE]

Becomes(s) == now' = s
Undefined(r) == \E i \in DOMAIN r.rs : r.rs[i].ion \notin DOMAIN r.ions

\* updateRng.
Taken(s, r) == [s EXCEPT !.rng = r, !.flags = Len(r.rs), !.read = TRUE]
\* setProperty: a file that cannot be read changes nothing.
\* Mutant: what was read of it is kept.
Mut_SetFile(s, r) == IF r.ok THEN Taken(s, r) ELSE [s EXCEPT !.rng = r]
SetFile(s, r)     == IF r.ok THEN Taken(s, r) ELSE s
SetProperty == ~now.read /\ Becomes(SetFile(now, OpenGuessFormat(now.disk)))

\* RangeFileFilter::setRangeData, from the range editor: a range is erased.
SetRangeData ==
    /\ now.rng.rs # <<>>
    /\ LET r == [now.rng EXCEPT !.rs = Front(@)]
       IN  Becomes([now EXCEPT !.rng = r, !.flags = Len(r.rs), !.read = FALSE])

\* ExportRngDialog::OnSave.  Writing a range whose ion is not there is
\* undefined and left out.
OnSave(fmt) ==
    /\ ~Undefined(now.rng)
    /\ Becomes([now EXCEPT !.disk = Write(now.rng, fmt), !.wrote = [fmt |-> fmt, rng |-> now.rng], !.read = FALSE])

Next == SetProperty \/ SetRangeData \/ \E fmt \in Formats : OnSave(fmt)

-----------------------------------------------------------------------------
(* Properties *)

NamesOf(r) == {<<r.rs[i].lo, r.rs[i].hi, r.ions[r.rs[i].ion].short>> : i \in DOMAIN r.rs}

\* A range file that was exported can be read again: as a table with all it
\* had, as a listing (RRNG) with the names of its ranges.  Left out are range
\* files without ranges, and environment files, which cannot be read.
SavedIsReadBack ==
    now.wrote.rng.rs # <<>> =>
        LET r == OpenGuessFormat(now.disk)
        IN  CASE now.wrote.fmt = "rng"  -> r = now.wrote.rng
              [] now.wrote.fmt = "rrng" -> r.ok /\ NamesOf(r) = NamesOf(now.wrote.rng)
              [] OTHER -> TRUE

\* Every row of a table that was read, unless it is useless, is a range of the
\* ion the row has; one of several ions that the file does not name gets an
\* ion that is named after them.  Left out are tables that have both useless
\* rows and rows of several ions, and rows of several ions when there are ions
\* without a row.
HasIonOf(f, row, ion) ==
    IF Single(row) THEN \E c \in Columns(row) : ion = f.ions[c] ELSE Composed(f) = <<>> => ion.short = NewName(f, row)
RowsKeepTheirIon ==
    LET f == now.disk
    IN  now.read /\ f.fmt = "rng" =>
            \/ \E i, j \in DOMAIN f.rows : Columns(f.rows[i]) = {} /\ Columns(f.rows[j]) # {} /\ ~Single(f.rows[j])
            \/ \A i \in DOMAIN f.rows : Columns(f.rows[i]) # {} =>
                  \E k \in DOMAIN now.rng.rs :
                      /\ SameBounds(now.rng.rs[k], f.rows[i])
                      /\ HasIonOf(f, f.rows[i], now.rng.ions[now.rng.rs[k].ion])

\* The filter has a flag for every range, and its ranges are of ions it has,
\* whatever files were tried.  Left out are tables with useless rows.
FilterIsWhole ==
    /\ now.rng.ok /\ now.flags = Len(now.rng.rs)
    /\ Undefined(now.rng) => now.disk.fmt = "rng" /\ \E i \in DOMAIN now.disk.rows : Columns(now.disk.rows[i]) = {}
=============================================================================

---------------------------- MODULE FilterCommon ----------------------------
(***************************************************************************)
(* What every filter of src/backend/filters shares: the streams that pass  *)
(* through the tree and the outcome of Filter::setProperty.  The settings  *)
(* of a filter are a record, named after the members of its class; a       *)
(* number stands for a value the code compares, any other value is itself. *)
(***************************************************************************)
EXTENDS Integers, Sequences, FiniteSets

\* The streams a filter may receive.  Two streams of ions may differ in what
\* they hold; the type is what the masks of the filters speak of.
StreamType(s) == IF s \in {"ions1", "ions2"} THEN "ions" ELSE s
TypesOf(S)    == {StreamType(s) : s \in S}
IonsIn(in)    == {s \in in : StreamType(s) = "ions"}
AllTypes      == {"ions", "plot", "plot2d", "draw", "range", "voxel", "grid"}

\* A stream a filter makes: its type and all that determines its contents,
\* and for some plots the label a setter looks for.
Stream(t, v)  == [type |-> t, val |-> v]
Labelled(t, l, v) == [type |-> t, label |-> l, val |-> v]
Tags(s)       == {s.type} \cup (IF "label" \in DOMAIN s THEN {s.label} ELSE {})
OwnTypes(S)   == {s.type : s \in S}

\* A cached stream whose style is overwritten; one the filter has lost count
\* of, whose contents no longer matter.
Restyle(s, keys, p) ==
    IF keys = {} THEN s ELSE [s EXCEPT !.val = [k \in DOMAIN @ |-> IF k \in keys THEN p[k] ELSE @[k]]]
Leftover(s)         == [s EXCEPT !.val = <<>>]

\* Outcomes of setProperty: refused, accepted, with the cache cleared or not
\* and with an update asked for or not.  Some setters work on the streams of a
\* cache instead of clearing it: "touch" names the settings stamped on them,
\* streams of the types or labels "drop" go and those of "add" come.  "disowned" says
\* that cacheOK goes while the streams stay; "lapse" names how, if at all, this
\* outcome leaves the filter's data apart from its settings, see FilterLife.
Outcome(ok, p, cleared, need) ==
    [ok |-> ok, now |-> p, cleared |-> cleared, need |-> need,
     touch |-> {}, drop |-> {}, add |-> {}, disowned |-> FALSE, lapse |-> {}]
\* Mutant: a restyled cache does not ask for an update.
Mut_Stamped(p, keys, need) == [Outcome(TRUE, p, FALSE, FALSE) EXCEPT !.touch = keys]
Stamped(p, keys, need)  == [Outcome(TRUE, p, FALSE, need) EXCEPT !.touch = keys]
Patched(p, drop, add)   == [Outcome(TRUE, p, FALSE, TRUE) EXCEPT !.drop = drop, !.add = add]
Retouches(out)  == out.touch # {} \/ out.drop # {} \/ out.add # {}
Lapse(out, c, name) == [out EXCEPT !.lapse = IF c THEN {name} ELSE {}]
Disowned(out)   == [out EXCEPT !.disowned = TRUE]
Refused(p)      == Outcome(FALSE, p, FALSE, FALSE)
Changed(p)      == Outcome(TRUE, p, TRUE, TRUE)
Unmoved(p)      == Outcome(TRUE, p, FALSE, FALSE)
Put(p, k, v)    == [p EXCEPT ![k] = v]
Require(c, p, out) == IF c THEN out ELSE Refused(p)

\* Mutant: the cache survives the change of a setting.
Mut_ApplyNow(p, k, v) == IF p[k] = v THEN Unmoved(p) ELSE Outcome(TRUE, Put(p, k, v), FALSE, TRUE)
\* Filter::applyPropertyNow: setting the present value does nothing.
ApplyNow(p, k, v) == IF p[k] = v THEN Unmoved(p) ELSE Changed(Put(p, k, v))

\* What a refresh makes: the streams put in the cache, those made anew at
\* every refresh, the streams passed on, and whether it succeeds.
Made(own, loose, passed) == [ok |-> TRUE, own |-> own, loose |-> loose, passed |-> passed]
Failure                  == [ok |-> FALSE, own |-> {}, loose |-> {}, passed |-> {}]
Itself(p)                == p
FirstOf(p, in)           == p
Except(in, types)        == {s \in in : StreamType(s) \notin types}

\* What readState returns.
Loaded(p)  == [ok |-> TRUE, now |-> p]
LoadFails  == [ok |-> FALSE, now |-> <<>>]
=============================================================================

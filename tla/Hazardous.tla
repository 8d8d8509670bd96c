------------------------------ MODULE Hazardous ------------------------------
(***************************************************************************)
(* What is done to a state file that would run programs: the filters that  *)
(* can be hazardous are found, the user is asked, and they are stripped    *)
(* with all below them (backend/filtertree.cpp, gui/mainFrame.cpp).        *)
(*                                                                         *)
(* A tree is the sequence of its filters in pre-order, each with its       *)
(* depth; the branch at i is i and the deeper ones right after it.         *)
(***************************************************************************)
EXTENDS Naturals, Sequences, FiniteSets
VARIABLE now

Name     == "hazardous"
Size     == 4                                                      \* bound
Depths   == {d \in [1..Size -> 0..2] :
                d[1] = 0 /\ \A i \in 2..Size : d[i] <= d[i - 1] + 1}
LoadedTrees == {[i \in 1..Size |-> [id |-> i, depth |-> d[i], haz |-> i \in h]] :
                d \in Depths, h \in SUBSET (1..Size)}

Ids(t)    == {t[i].id : i \in DOMAIN t}
Branch(t, i) ==
    {j \in i..Len(t) : \A k \in (i + 1)..j : t[k].depth > t[i].depth}

\* loaded: the filters of the file.  tree: those in place.  freed: how often
\* each was deleted.
Init ==
    \E t \in LoadedTrees :
       now = [loaded |-> t, tree |-> t, freed |-> [i \in 1..Size |-> 0], at |-> 1,
              phase |-> "ask"]

Becomes(r) == now' = r

HasHazardousContents(t) == \E i \in DOMAIN t : t[i].haz

\* A branch is a stretch of the sequence.
Erased(t, i) == SubSeq(t, 1, i - 1) \o SubSeq(t, i + Cardinality(Branch(t, i)), Len(t))

\* loadFile: without hazardous filters, or if the user keeps them, nothing is
\* stripped.
Keep  == now.phase = "ask" /\ Becomes([now EXCEPT !.phase = "kept"])
Strip == /\ now.phase = "ask" /\ HasHazardousContents(now.tree)
         /\ Becomes([now EXCEPT !.phase = "strip"])

\* What stripHazardousContents deletes: everything from the filter on.
\* Mutant: nothing below it.
Mut_Deleted(t, i) == {i}
Deleted(t, i) == i..Len(t)

\* What a filter says of itself; one that has been freed may say anything.
Answers(f) == IF now.freed[f.id] = 0 THEN {f.haz} ELSE BOOLEAN

\* One filter of the traversal.  If it is hazardous its branch leaves the tree,
\* and the traversal goes on with what has moved up.
StripBranch ==
    /\ now.phase = "strip" /\ now.at <= Len(now.tree)
    /\ TRUE \in Answers(now.tree[now.at])
    /\ LET t == now.tree  ids == {t[j].id : j \in Deleted(t, now.at)}
       IN  Becomes([now EXCEPT !.tree = Erased(t, now.at),
                               !.freed = [f \in DOMAIN @ |-> IF f \in ids THEN @[f] + 1 ELSE @[f]]])
StepOver ==
    /\ now.phase = "strip" /\ now.at <= Len(now.tree)
    /\ FALSE \in Answers(now.tree[now.at])
    /\ Becomes([now EXCEPT !.at = @ + 1])
StripEnds ==
    /\ now.phase = "strip" /\ now.at > Len(now.tree)
    /\ Becomes([now EXCEPT !.phase = "stripped"])

Next == Keep \/ Strip \/ StripBranch \/ StepOver \/ StripEnds

-----------------------------------------------------------------------------
\* The filters that are behind the branch of a hazardous one.
Behind(f) == \E h \in 1..(f - 1) : now.loaded[h].haz /\ f \notin Branch(now.loaded, h)
\* A filter that leaves the tree is freed, and so is each hazardous one; what
\* is before them stays as it is; and a filter that is freed and still in the
\* tree, or freed twice, is behind the branch of a hazardous one.
StripIsBounded ==
    \A f \in 1..Size :
       LET inTree == f \in Ids(now.tree)  freed == now.freed[f]
       IN  /\ ~inTree => freed > 0
           /\ now.phase = "stripped" /\ now.loaded[f].haz => freed > 0
           /\ (\A h \in 1..f : ~now.loaded[h].haz) => inTree /\ freed = 0
           /\ (inTree /\ freed > 0) \/ freed > 1 => Behind(f)
=============================================================================

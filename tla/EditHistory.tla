---------------------------- MODULE EditHistory ----------------------------
(***************************************************************************)
(* What the undo and redo commands of 3Depict promise: a linear history of *)
(* filter trees with a cursor on the tree the user works on.  Moving the   *)
(* cursor never rewrites an entry; only editing at the cursor discards the *)
(* entries after it.  The history is finite: it may forget its oldest      *)
(* entry when it grows, and its newest when the user walks back.           *)
(***************************************************************************)
EXTENDS Naturals, Sequences

CONSTANT Trees      \* the values a filter tree can take

VARIABLES
    timeline,       \* every tree that can still be reached, oldest first
    cursor          \* the position of the tree in use

hvars == <<timeline, cursor>>

HTypeOK ==
    /\ timeline \in Seq(Trees)
    /\ cursor \in 1..Len(timeline)

HInit == \E t \in Trees : timeline = <<t>> /\ cursor = 1

\* The entries up to the cursor, without the oldest `forgotten` of them.
Past(forgotten) == SubSeq(timeline, 1 + forgotten, cursor)

\* An accepted edit: the future is discarded, t becomes the newest entry.
Record(t) ==
    \E forgotten \in {0, 1} :
        /\ timeline' = Append(Past(forgotten), t)
        /\ cursor' = cursor + 1 - forgotten

\* The tree in use is changed in place, outside the history.
Amend(t) ==
    /\ timeline' = [timeline EXCEPT ![cursor] = t]
    /\ UNCHANGED cursor

Back ==
    /\ cursor > 1
    /\ cursor' = cursor - 1
    /\ \E kept \in {Len(timeline), Len(timeline) - 1} :
           kept >= cursor /\ timeline' = SubSeq(timeline, 1, kept)

Forward ==
    /\ cursor < Len(timeline)
    /\ cursor' = cursor + 1
    /\ UNCHANGED timeline

\* A refused edit: nothing but the tree in use is promised to survive it
\* unmoved; the future may be replaced by a copy of the present.
Refuse ==
    \E forgotten \in {0, 1} :
        /\ forgotten < cursor
        /\ timeline' = Append(Past(forgotten), timeline[cursor])
        /\ cursor' = cursor - forgotten

\* A state file replaces tree and history.
Reset(t) == timeline' = <<t>> /\ cursor' = 1

HNext ==
    \/ \E t \in Trees : Record(t) \/ Amend(t) \/ Reset(t)
    \/ Back \/ Forward \/ Refuse

HSpec == HInit /\ [][HNext]_hvars
=============================================================================

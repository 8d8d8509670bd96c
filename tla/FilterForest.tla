---------------------------- MODULE FilterForest ----------------------------
(***************************************************************************)
(* What the tree of filters promises, whatever represents it: filters with *)
(* a parent each, edited by attaching new branches, detaching a branch,    *)
(* moving a branch to a parent outside of it, and replacing everything.    *)
(***************************************************************************)
EXTENDS TLAPS

CONSTANT Filters    \* the filters there can be

VARIABLE parent     \* the parent of each filter in the tree; a filter at the
                    \* base is its own parent

Present == DOMAIN parent

\* Nobody is his own ancestor: a set of filters that holds their parents
\* holds one at the base.
Acyclic(p) == \A S \in SUBSET DOMAIN p : S # {} => \E f \in S : p[f] = f \/ p[f] \notin S

Closed(p, S) == \A f \in DOMAIN p : p[f] \in S => f \in S

\* A filter with all that is below it.
Branch(p, c) ==
    {f \in DOMAIN p : \A S \in SUBSET DOMAIN p : c \in S /\ Closed(p, S) => f \in S}

Init == parent = [f \in {} |-> f]

\* New filters, arranged in a branch, get a place at the base or below one
\* parent.
Attach ==
    /\ Present \subseteq DOMAIN parent' /\ DOMAIN parent' \subseteq Filters
    /\ parent' = [f \in DOMAIN parent' |->
                      IF f \in Present THEN parent[f] ELSE parent'[f]]
    /\ LET new == DOMAIN parent' \ Present
       IN /\ \/ \A f \in new : parent'[f] \in new
             \/ \E p \in Present : \A f \in new : parent'[f] \in new \cup {p}
          /\ Acyclic([f \in new |-> parent'[f]])

Detach ==
    \E c \in Present \ DOMAIN parent' :
        parent' = [f \in Present \ Branch(parent, c) |-> parent[f]]

Move ==
    /\ DOMAIN parent' = Present
    /\ \E c \in Present : \E p \in (Present \ Branch(parent, c)) \cup {c} :
           parent' = [parent EXCEPT ![c] = p]

\* Other filters take the place of all there are.
Replace ==
    /\ DOMAIN parent' \subseteq Filters \ Present
    /\ parent' = [f \in DOMAIN parent' |-> parent'[f]]
    /\ \A f \in DOMAIN parent' : parent'[f] \in DOMAIN parent'
    /\ Acyclic(parent')

Next == Attach \/ Detach \/ Move \/ Replace

Spec == Init /\ [][Next]_parent
-----------------------------------------------------------------------------
(* Properties *)

TypeOK ==
    /\ parent = [f \in Present |-> parent[f]]
    /\ Present \subseteq Filters
    /\ \A f \in Present : parent[f] \in Present

\* Every filter hangs from the base.
NoCycle == Acyclic(parent)
-----------------------------------------------------------------------------
(* Proofs *)

\* The branch of a filter in the tree holds the filter, and with a filter
\* everything below it.
LEMMA BranchClosed ==
    ASSUME NEW c \in Present
    PROVE  /\ c \in Branch(parent, c)
           /\ \A f \in Present : parent[f] \in Branch(parent, c) => f \in Branch(parent, c)
BY DEF Branch, Closed, Present

\* Every step keeps the parents in the tree.
LEMMA TypeStep == TypeOK /\ [Next]_parent => TypeOK'
<1> SUFFICES ASSUME TypeOK, [Next]_parent PROVE TypeOK'
    OBVIOUS
<1>1. CASE Attach
    BY <1>1 DEF Attach, TypeOK, Present
<1>2. ASSUME NEW c \in Present,
             parent' = [f \in Present \ Branch(parent, c) |-> parent[f]]
      PROVE  TypeOK'
    BY <1>2, BranchClosed DEF TypeOK, Present
<1>3. CASE Detach
    BY <1>2, <1>3 DEF Detach
<1>4. CASE Move
    <2>1. PICK c \in Present : \E p \in (Present \ Branch(parent, c)) \cup {c} :
                                  parent' = [parent EXCEPT ![c] = p]
        BY <1>4 DEF Move
    <2>2. PICK p \in (Present \ Branch(parent, c)) \cup {c} :
                   parent' = [parent EXCEPT ![c] = p]
        BY <2>1
    <2>3. p \in Present
        OBVIOUS
    <2>4. parent' = [f \in Present |-> IF f = c THEN p ELSE parent[f]]
        BY <2>2 DEF TypeOK, Present
    <2>5. Present' = Present /\ \A f \in Present : parent'[f] \in Present
        BY <2>3, <2>4 DEF TypeOK, Present
    <2>6. QED
        BY <2>4, <2>5 DEF TypeOK, Present
<1>5. CASE Replace
    BY <1>5 DEF Replace, TypeOK, Present
<1>6. CASE UNCHANGED parent
    BY <1>6 DEF TypeOK, Present
<1>7. QED
    BY <1>1, <1>3, <1>4, <1>5, <1>6 DEF Next

\* New filters below an old one close no cycle: a set that keeps its parents
\* to itself would hold an old filter, and then its old filters would be such
\* a set, or consist of new filters only.
LEMMA AttachAcyclic == TypeOK /\ NoCycle /\ Attach => NoCycle'
<1> SUFFICES ASSUME TypeOK, NoCycle, Attach,
                    NEW S \in SUBSET DOMAIN parent', S # {},
                    \A f \in S : parent'[f] # f /\ parent'[f] \in S
             PROVE  FALSE
    BY DEF NoCycle, Acyclic
<1> DEFINE new == DOMAIN parent' \ Present
<1> DEFINE added == [f \in new |-> parent'[f]]
<1>1. \A f \in Present : parent'[f] = parent[f]
    BY DEF Attach
<1>2. S \cap Present = {}
    <2>1. \A f \in S \cap Present : parent[f] # f /\ parent[f] \in S \cap Present
        BY <1>1 DEF TypeOK
    <2>2. S \cap Present \in SUBSET DOMAIN parent
        BY DEF Present
    <2>3. QED
        BY <2>1, <2>2 DEF NoCycle, Acyclic
<1>3. S \subseteq new
    BY <1>2
<1>4. \A f \in S : added[f] # f /\ added[f] \in S
    BY <1>3
<1>5. Acyclic(added)
    BY DEF Attach
<1>6. QED
    BY <1>3, <1>4, <1>5 DEF Acyclic

\* A branch moved to a parent outside of it closes no cycle: in a set that
\* keeps its parents to itself, the filters outside of the branch did so
\* before the move.
LEMMA MoveAcyclic == TypeOK /\ NoCycle /\ Move => NoCycle'
<1> SUFFICES ASSUME TypeOK, NoCycle,
                    NEW c \in Present,
                    NEW p \in (Present \ Branch(parent, c)) \cup {c},
                    parent' = [parent EXCEPT ![c] = p],
                    NEW S \in SUBSET DOMAIN parent', S # {},
                    \A f \in S : parent'[f] # f /\ parent'[f] \in S
             PROVE  FALSE
    BY DEF NoCycle, Acyclic, Move
<1>1. DOMAIN parent' = Present /\ S \subseteq Present
    BY DEF TypeOK, Present
<1>2. \A f \in Present \ {c} : parent'[f] = parent[f]
    BY DEF TypeOK, Present
<1>3. CASE c \notin S
    BY <1>1, <1>2, <1>3 DEF NoCycle, Acyclic, Present
<1>4. CASE c \in S
    <2> DEFINE T == S \ Branch(parent, c)
    <2>1. parent'[c] = p
        BY DEF TypeOK, Present
    <2>2. p \in T
        BY <1>4, <2>1
    <2>3. \A f \in T : parent[f] # f /\ parent[f] \in T
        BY <1>1, <1>2, BranchClosed
    <2>4. QED
        BY <1>1, <2>2, <2>3 DEF NoCycle, Acyclic, Present
<1>5. QED
    BY <1>3, <1>4

\* The parents form trees, whatever steps are taken.
LEMMA CycleStep == TypeOK /\ NoCycle /\ [Next]_parent => NoCycle'
<1> SUFFICES ASSUME TypeOK, NoCycle, [Next]_parent PROVE NoCycle'
    OBVIOUS
<1>1. CASE Attach
    BY <1>1, AttachAcyclic
<1>2. CASE Detach
    <2> SUFFICES ASSUME NEW c \in Present,
                        parent' = [f \in Present \ Branch(parent, c) |-> parent[f]],
                        NEW S \in SUBSET DOMAIN parent', S # {},
                        \A f \in S : parent'[f] # f /\ parent'[f] \in S
                 PROVE  FALSE
        BY <1>2 DEF Detach, NoCycle, Acyclic
    <2>1. S \in SUBSET DOMAIN parent /\ \A f \in S : parent'[f] = parent[f]
        BY DEF Present
    <2>2. QED
        BY <2>1 DEF NoCycle, Acyclic
<1>3. CASE Move
    BY <1>3, MoveAcyclic
<1>4. CASE Replace
    BY <1>4 DEF Replace, NoCycle
<1>5. CASE UNCHANGED parent
    BY <1>5 DEF NoCycle, Acyclic
<1>6. QED
    BY <1>1, <1>2, <1>3, <1>4, <1>5 DEF Next

\* The parent of every filter is in the tree.
THEOREM ForestType == Spec => []TypeOK
<1>1. Init => TypeOK
    BY DEF Init, TypeOK, Present
<1>2. QED
    BY <1>1, TypeStep, PTL DEF Spec

\* No sequence of edits makes a filter its own ancestor, so that a walk
\* towards the base ends.
THEOREM ForestHasNoCycle == Spec => []NoCycle
<1>1. Init => NoCycle
    BY DEF Init, NoCycle, Acyclic
<1>2. QED
    BY <1>1, CycleStep, ForestType, PTL DEF Spec
=============================================================================

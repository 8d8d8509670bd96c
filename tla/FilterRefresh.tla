--------------------------- MODULE FilterRefresh ---------------------------
(***************************************************************************)
(* FilterTree::refreshFilterTree: which filters a refresh starts at, the   *)
(* stack of streams that pass down the tree, the caches it uses and fills  *)
(* and the collector that frees the streams nobody keeps.  One step of a   *)
(* refresh visits one filter.  The filters are numbered in pre-order; what *)
(* a filter does is its kind: the types it emits and blocks.  A stream is  *)
(* what it was made by and from, so that one made without its input, or    *)
(* from an old file, is told from the one that belongs in the scene.       *)
(* A tree is given by the set of the filters above each of its filters.    *)
(***************************************************************************)
EXTENDS Integers, Sequences, FiniteSets, SequencesExt

CONSTANTS Shapes,       \* bound: the trees, each the sequence of the filters above its filters
          MaxFile,      \* bound: changes of each file
          Kinds,        \* the kinds of filters below a base
          BaseKinds     \* the kinds of filters at the base

\* Each filter follows those above it; above one of these are the ones before
\* it; and each comes right after the filter above it or after a filter below
\* that one, or is at the base.
IsTree(t) ==
    \A f \in DOMAIN t : /\ t[f] \subseteq 1..(f - 1)
                        /\ \A a \in t[f] : t[a] = t[f] \cap 1..(a - 1)
                        /\ f > 1 => t[f] \subseteq {f - 1} \cup t[f - 1]

ASSUME RefreshAssumption ==
    /\ \A t \in Shapes : t \in Seq(SUBSET Nat) /\ IsTree(t)
    /\ MaxFile \in Nat
    /\ BaseKinds \subseteq {"load", "watched"}
    /\ Kinds \subseteq {"clip", "range", "profile", "spectrum", "info"}

VARIABLES above,     \* the filters above each one; none for those at the base
          kind,
          drawn,     \* the filters whose primitive is shown (showPrimitive)
          file,      \* the version of the file each base filter reads
          stamp,     \* monitorTimestamp: the version last loaded
          cached,    \* filterOutputs; cacheOK means that it is not empty
          starts,    \* baseTreeNodes: the starts that are left
          base,      \* the start the refresh is at; 0 before the first
          todo,      \* the filters below it that are left to visit
          stack,     \* inDataStack
          nodes,     \* FilterRefreshCollector::nodes
          forgotten, \* FilterRefreshCollector::forgottenNodes
          out,       \* outData: the streams of each leaf
          heap,      \* the streams that are allocated and in no cache
          ended      \* how the last refresh ended, and at which filter

refreshVars == <<above, kind, drawn, file, stamp, cached, starts, base, todo, stack, nodes, forgotten, out, heap, ended>>

Filters == DOMAIN above

AllTypes == {"ions", "plot", "draw", "range"}

\* getRefreshEmitMask, getRefreshBlockMask and getRefreshUseMask of a filter.
EmitMask(f) ==
    CASE kind[f] \in {"load", "watched"} -> {"ions"}
      [] kind[f] = "clip"     -> {"ions"} \cup (IF f \in drawn THEN {"draw"} ELSE {})
      [] kind[f] = "range"    -> {"ions", "range"}
      [] kind[f] = "profile"  -> {"plot"} \cup (IF f \in drawn THEN {"draw"} ELSE {})
      [] kind[f] = "spectrum" -> {"plot"}
      [] kind[f] = "info"     -> {}
BlockMask(f) ==
    CASE kind[f] \in {"load", "watched", "profile"} -> {}
      [] kind[f] \in {"clip", "range"}    -> {"ions"}
      [] kind[f] \in {"spectrum", "info"} -> AllTypes
UseMask(f) ==
    CASE kind[f] \in {"load", "watched"} -> {}
      [] kind[f] \in {"clip", "range", "spectrum"} -> {"ions"}
      [] kind[f] \in {"profile", "info"} -> {"ions", "range"}

-----------------------------------------------------------------------------
(* The tree *)

IsChild(a, f) == a \in above[f]
Subtree(f)    == {f} \cup {g \in Filters : IsChild(f, g)}
Parent(f)     == Max(above[f])
Children(f)   == {g \in Filters : above[g] = above[f] \cup {f}}
IsLeaf(f)     == Children(f) = {}
Depth(f)      == Cardinality(above[f])

-----------------------------------------------------------------------------
(* Where a refresh starts *)

HaveCache(f) == cached[f] # {}

\* getAccumulatedPropagationMaps: what may leave a filter, and what a filter
\* with a cache keeps from passing.
Emitted == LET e[f \in Filters] == IF above[f] = {} THEN EmitMask(f)
                                   ELSE (e[Parent(f)] \ BlockMask(f)) \cup EmitMask(f)
           IN  e
Blocked(f) == IF HaveCache(f) THEN BlockMask(f) ELSE {}

\* Mutant: a filter is passed over as soon as one child blocks what it emits.
Mut_MustRun(f) == \/ IsLeaf(f)
                  \/ \A c \in Children(f) : ~(Emitted[f] \subseteq Blocked(c))
\* A filter must run if it is a leaf, or if anything that may leave it is
\* not blocked by all of its children.
MustRun(f) == \/ IsLeaf(f)
              \/ \E c \in Children(f) : ~(Emitted[f] \subseteq Blocked(c))
\* Mutant: a filter below a start may be a start as well.
Mut_Starts == {f \in Filters : MustRun(f)}
\* getFilterRefreshStarts: the highest filters that must run.
Starts == {f \in Filters : MustRun(f) /\ \A a \in above[f] : ~MustRun(a)}

-----------------------------------------------------------------------------
(* What a filter makes *)

Stream(f, t, in) == [src |-> f, type |-> t, file |-> IF kind[f] \in BaseKinds THEN file[f] ELSE 0, from |-> {s \in in : s.type \in UseMask(f)}]
TypesIn(S) == {s.type : s \in S}

\* Every filter but those at the base makes nothing without ions; a drawn
\* primitive is made anew at every refresh.
Anew(f, in) == IF "draw" \in EmitMask(f) THEN {Stream(f, "draw", {})} ELSE {}
Makes(f, in) == IF "ions" \in TypesIn(in) \/ kind[f] \in BaseKinds
                THEN {Stream(f, t, in) : t \in EmitMask(f) \ {"draw"}} ELSE {}
Passes(f, in) == {s \in in : s.type \notin BlockMask(f)}

\* What would leave each filter if all of them ran.
Complete == LET c[f \in Filters] ==
                LET in == IF above[f] = {} THEN {} ELSE c[Parent(f)]
                IN  Passes(f, in) \cup Makes(f, in) \cup Anew(f, in)
            IN  c

-----------------------------------------------------------------------------
(* The collector *)

Tracked == UNION Range(nodes)

\* Mutant: the level below the one asked for is freed as well.
Mut_CollectToLevel(level) ==
    [freed |-> UNION {nodes[i] : i \in level..Len(nodes)},
     nodes |-> SubSeq(nodes, 1, IF level < Len(nodes) THEN level ELSE Len(nodes))]
\* collectToLevel frees the levels behind the one it is asked for, and drops
\* that one.
CollectToLevel(level) ==
    [freed |-> UNION {nodes[i] : i \in (level + 2)..Len(nodes)},
     nodes |-> SubSeq(nodes, 1, IF level < Len(nodes) THEN level ELSE Len(nodes))]

\* Mutant: what passes a filter is tracked once more.
Mut_TrackPointers(ns, known, S) == Append(ns, S)
TrackPointers(ns, known, S) == Append(ns, {s \in S : s \notin UNION Range(ns) /\ s \notin known})

Popped(level) == SubSeq(stack, 1, IF level < Len(stack) THEN level ELSE Len(stack))

-----------------------------------------------------------------------------
(* A refresh *)

Running == ended.how = "running"
Resting == ended.how \in {"none", "shown", "failed"}

\* monitorNeedsRefresh.
NeedsRefresh(f) == kind[f] = "watched" /\ stamp[f] # file[f]

\* The start of refreshFilterTree: the filters whose file has changed lose
\* their caches, with all below them.
ClearMonitored(c) ==
    [f \in Filters |-> IF \E g \in Filters : NeedsRefresh(g) /\ f \in Subtree(g) THEN {} ELSE c[f]]

Begin ==
    /\ Resting
    /\ UNCHANGED <<above, kind, drawn>>
    /\ cached' = ClearMonitored(cached)
    /\ starts' = Starts' /\ base' = 0 /\ todo' = {}
    /\ stack' = <<{}>> /\ nodes' = <<>> /\ forgotten' = {}
    /\ out' = [f \in Filters |-> {}]
    /\ heap' = {} /\ ended' = [how |-> "running", at |-> 0]
    /\ UNCHANGED <<file, stamp>>

\* The starts are taken breadth-first.
First(S) == Min({f \in S : \A g \in S : Depth(f) <= Depth(g)})

\* The next start: what is still tracked of the last one is freed.
NextStart ==
    /\ Running /\ todo = {} /\ starts # {}
    /\ base' = First(starts)
    /\ starts' = starts \ {base'}
    /\ todo' = Subtree(base')
    /\ heap' = heap \ Tracked
    /\ stack' = Popped(1) /\ nodes' = <<{}>>
    /\ UNCHANGED <<above, kind, drawn, file, stamp, cached, forgotten, out, ended>>

\* The stack and the collector at the head of a visit.
AtVisit(f) ==
    LET level == Depth(f) - Depth(base) + 1
        col   == CollectToLevel(level)
    IN  [freed |-> col.freed, nodes |-> col.nodes, stack |-> Popped(level)]

\* What a visit leaves in the cache, and what it makes.  A monitored file
\* that has not changed is read again.
UsesCache(f) == HaveCache(f) /\ ~(kind[f] = "watched" /\ stamp[f] = file[f])
Own(f, in, keep) ==
    IF UsesCache(f) THEN [kept |-> cached[f], loose |-> Anew(f, in)]
    ELSE IF HaveCache(f) \/ keep THEN [kept |-> Makes(f, in), loose |-> Anew(f, in)]
    ELSE [kept |-> {}, loose |-> Makes(f, in) \cup Anew(f, in)]

\* The next filter of the tree, in pre-order, runs, or its cache is taken;
\* keep tells whether there is memory for a new cache.
Visit(f, keep) ==
    /\ todo # {} /\ f = Min(todo)
    /\ LET v   == AtVisit(f)
           in  == Last(v.stack)
           own == Own(f, in, keep)
           cur == Passes(f, in) \cup own.kept \cup own.loose
           uncached == cur \cap (heap \cup own.loose)
       IN  /\ cached' = [cached EXCEPT ![f] = own.kept]
           /\ stamp' = [stamp EXCEPT ![f] = IF kind[f] \in BaseKinds /\ ~UsesCache(f) THEN file[f] ELSE @]
           /\ IF IsLeaf(f)
              THEN /\ out' = [out EXCEPT ![f] = cur]
                   /\ nodes' = [i \in DOMAIN v.nodes |-> v.nodes[i] \ cur]
                   /\ forgotten' = forgotten \cup {s \in cur : s \in UNION Range(v.nodes)}
                   /\ stack' = v.stack
              ELSE /\ nodes' = TrackPointers(v.nodes, forgotten, uncached)
                   /\ stack' = Append(v.stack, cur)
                   /\ UNCHANGED <<out, forgotten>>
           /\ heap' = (heap \ v.freed) \cup own.loose
    /\ todo' = todo \ {f}
    /\ UNCHANGED <<above, kind, drawn, file, starts, base, ended>>

\* Streams of the output that several leaves pass on are kept once.
Scrubbed == [f \in Filters |-> {s \in out[f] : \A g \in Filters : g < f => s \notin out[g]}]

\* Mutant: the streams still tracked are left behind.
Mut_Finish ==
    /\ Running /\ todo = {} /\ starts = {}
    /\ out' = Scrubbed
    /\ stack' = <<>> /\ nodes' = <<>>
    /\ ended' = [how |-> "done", at |-> 0]
    /\ UNCHANGED <<above, kind, drawn, file, stamp, cached, starts, base, todo, forgotten, heap>>
\* All filters are visited: the rest of the tracked streams are freed.
Finish ==
    /\ Running /\ todo = {} /\ starts = {}
    /\ heap' = heap \ Tracked
    /\ out' = Scrubbed
    /\ stack' = <<>> /\ nodes' = <<>>
    /\ ended' = [how |-> "done", at |-> 0]
    /\ UNCHANGED <<above, kind, drawn, file, stamp, cached, starts, base, todo, forgotten>>

\* A filter fails, or the refresh is stopped while it runs or right after:
\* the output is freed, and the collector frees what it tracks.
Fail(f, keep, after) ==
    /\ todo # {} /\ f = Min(todo)
    /\ after \/ ~UsesCache(f)
    /\ LET v   == AtVisit(f)
           own == Own(f, Last(v.stack), keep)
       IN  /\ heap' = ((heap \ v.freed) \cup (IF after THEN own.loose ELSE {}))
                        \ ((UNION Range(out)) \cup (UNION Range(v.nodes)))
           /\ cached' = [cached EXCEPT ![f] = IF after THEN own.kept ELSE {}]
    /\ ended' = [how |-> "failed", at |-> f]
    /\ starts' = {} /\ base' = 0 /\ todo' = {} /\ stack' = <<>> /\ nodes' = <<>>
    /\ out' = [g \in Filters |-> {}]
    /\ forgotten' = {}
    /\ UNCHANGED <<above, kind, drawn, file, stamp>>

\* VisController::updateScene: the scene takes what it shows and frees the
\* streams that are in no cache.
UpdateScene ==
    /\ ended.how = "done"
    /\ heap' = heap \ UNION Range(out)
    /\ ended' = [how |-> "shown", at |-> 0]
    /\ out' = [f \in Filters |-> {}] /\ forgotten' = {}
    /\ UNCHANGED <<above, kind, drawn, file, stamp, cached, starts, base, todo, stack, nodes>>

-----------------------------------------------------------------------------
(* Between refreshes *)

\* What a refresh has lost is counted until the next change of the tree.
Forget == /\ heap' = {} /\ ended' = [how |-> "none", at |-> 0]
          /\ UNCHANGED <<above, kind, starts, base, todo, stack, nodes, forgotten, out>>

\* FilterTree::setFilterProperty: an edit clears the caches of all filters
\* below; its own a filter clears when the setting matters, as that which
\* shows its primitive does, or keeps to restyle it.
ClearBelow(f) == [g \in Filters |-> IF IsChild(f, g) THEN {} ELSE cached[g]]
Edit(f) ==
    /\ Resting
    /\ cached' = [ClearBelow(f) EXCEPT ![f] = {}]
    /\ drawn' \in IF kind[f] \in {"clip", "profile"} THEN {drawn \ {f}, drawn \cup {f}} ELSE {drawn}
    /\ Forget /\ UNCHANGED <<file, stamp>>
Restyle(f) ==
    /\ Resting
    /\ cached' = ClearBelow(f)
    /\ Forget /\ UNCHANGED <<drawn, file, stamp>>
FileChanges(f) ==
    /\ Resting /\ kind[f] = "watched" /\ file[f] < MaxFile
    /\ file' = [file EXCEPT ![f] = @ + 1]
    /\ Forget /\ UNCHANGED <<drawn, stamp, cached>>

Init ==
    /\ above \in Shapes
    /\ kind \in [Filters -> Kinds \cup BaseKinds]
    /\ \A f \in Filters : kind[f] \in BaseKinds <=> above[f] = {}
    /\ drawn = {}
    /\ file = [f \in Filters |-> 0]
    /\ stamp = [f \in Filters |-> -1]
    /\ cached = [f \in Filters |-> {}]
    /\ starts = {} /\ base = 0 /\ todo = {}
    /\ stack = <<>> /\ nodes = <<>> /\ forgotten = {}
    /\ out = [f \in Filters |-> {}]
    /\ heap = {} /\ ended = [how |-> "none", at |-> 0]

Next == \/ Begin \/ NextStart \/ Finish \/ UpdateScene
        \/ \E f \in Filters, keep \in BOOLEAN :
               \/ Visit(f, keep)
               \/ \E after \in BOOLEAN : Fail(f, keep, after)
        \/ \E f \in Filters : Edit(f) \/ Restyle(f) \/ FileChanges(f)

Spec == Init /\ [][Next]_refreshVars

-----------------------------------------------------------------------------
\* The streams a refresh delivers are those that would come out if every
\* filter of the tree ran on the present files, whatever is cached, whichever
\* filters are passed over and whatever failed before.
OutputIsComplete ==
    ended.how = "done" => UNION Range(out) = UNION {Complete[f] : f \in {g \in Filters : IsLeaf(g)}}

\* No stream that a later filter, the scene or the output still uses has been
\* freed: it is allocated or in the cache of its filter.
NothingUsedIsFreed ==
    \A s \in (UNION Range(stack)) \cup (UNION Range(out)) : s \in heap \cup cached[s.src]

\* What is not cached has one owner: a level of the collector or the output,
\* and nothing is tracked twice, or after it was given to the output.
OneOwner ==
    /\ \A i, j \in DOMAIN nodes : i # j => nodes[i] \cap nodes[j] = {}
    /\ Tracked \subseteq heap
    /\ Tracked \cap (forgotten \cup UNION Range(out)) = {}

\* The refresh starts at filters none of which is above another, and each leaf
\* is below one of them.
StartsCoverLeaves ==
    Resting => LET S == Starts
               IN  /\ \A f, g \in S : ~IsChild(f, g)
                   /\ \A f \in Filters : IsLeaf(f) => \E a \in S : f \in Subtree(a)

\* Between refreshes a stream that is in no cache is freed, but for those of
\* a filter that was stopped and of an inner filter with a sibling after it,
\* which the collector drops.
LeakIsBounded ==
    Resting => \A s \in heap : \/ s.src = ended.at
                               \/ /\ ~IsLeaf(s.src)
                                  /\ \E g \in Filters : g > s.src /\ above[g] = above[s.src]
=============================================================================

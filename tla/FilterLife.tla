----------------------------- MODULE FilterLife -----------------------------
(***************************************************************************)
(* The life of one filter of the tree: its settings are changed from the   *)
(* property grid and by drags in the 3D scene, its input changes when a    *)
(* filter above it does, a refresh runs it or takes its cache, undo puts a *)
(* clone in its place and a state file is read back.  Each filter's module *)
(* instantiates this one with its own settings and operations.             *)
(***************************************************************************)
LOCAL INSTANCE FilterCommon

CONSTANTS
    Name,          \* Filter::trueName
    Inputs,        \* the sets of streams that may reach the filter
    MaxChanged,    \* bound: settings that differ from those a filter starts with
    Defaults,      \* the settings of a new filter
    Offered(_),    \* <<key, value>>: what the grid shows and may be typed there
    SetProp(_, _, _, _),   \* setProperty, given whether there is a cache
    Retouchable(_), \* whether a setter may work on the cached streams
    Bindings(_),   \* <<id, value>>: what a drag in the scene may set
    Bound(_, _),   \* setPropFromBinding
    Sees(_, _),    \* initFilter
    Run(_, _),     \* refresh without a cache
    Replay(_, _),  \* refresh with a cache
    Ran(_, _),     \* the settings, and data kept beside the cache, after a run
    Cleared(_),    \* clearCache: what it leaves of the data kept beside the cache
    Scratch(_),    \* the settings of a filter that has kept nothing
    Cached(_, _),  \* the parts of its cache the filter holds if it is stopped
    Emits(_),      \* getRefreshEmitMask
    Blocks(_),     \* getRefreshBlockMask
    Cloned(_),     \* cloneUncached
    Written(_),    \* writeState
    ReadBack(_),   \* readState
    Transient      \* settings that depend on the input

VARIABLES
    filter,        \* the filter this life is of
    settings,
    input,         \* the streams that reach the filter
    cacheOK,
    outputs,       \* Filter::filterOutputs
    shown,         \* what the last refresh showed, while no update is asked for
    lapses         \* history: how the filter's data came apart from the run
                   \* that made them, and have not been thrown away since

lifeVars == <<filter, settings, input, cacheOK, outputs, shown, lapses>>

\* The lapses are written by the actions and read by no guard.
\*   "partial"     an abort left some streams of a run in the cache
\*   "unfinished"  an abort left streams in the cache that no run makes
\*   "restyle"     a setter worked on cached streams it was not made for
\*   "disown"      cacheOK went alone and the streams of the cache stayed
\*   "unasked"     a setting changed, the cache stayed, no update was asked for
\*   "passed"      a run was cached whose replay passes on other streams
\*   "kept"        data beside the cache are older than the input or settings

Stale == [stale |-> TRUE]

LifeInit ==
    /\ filter = Name
    /\ settings = Defaults
    /\ input \in Inputs
    /\ cacheOK = FALSE
    /\ outputs = {}
    /\ shown = Stale
    /\ lapses = {}

\* The settings a filter may have before any is changed: those of a new one,
\* as it is or read back from a file.
Starts == {Defaults} \cup LET r == ReadBack(Written(Defaults)) IN IF r.ok THEN {r.now} ELSE {}

WithinBound(p) ==
    \E s \in Starts : Cardinality({k \in DOMAIN Defaults \ Transient : p[k] # s[k]}) <= MaxChanged

\* All that a run shows, and all that it would show of a filter that has
\* kept nothing from earlier runs.
Shows(r)      == IF r.ok THEN [streams |-> r.own \cup r.loose, passed |-> r.passed]
                         ELSE [error |-> TRUE]
Result(p, in) == Shows(Run(Scratch(p), in))

\* What is left of the lapses when the cache is empty.
Beside(p) == IF Scratch(p) = p THEN {} ELSE lapses \cap {"kept"}

\* The lapses a setter adds.
LapsesOf(out) ==
    (IF cacheOK /\ Retouches(out) /\ ~Retouchable(settings) THEN {"restyle"} ELSE {})
    \cup (IF out.disowned /\ outputs # {} THEN {"disown"} ELSE {})
    \cup out.lapse

\* What a setter leaves of the cache it works on.
Retouched(out) == {Restyle(s, out.touch, out.now) : s \in {t \in outputs : Tags(t) \cap out.drop = {}}}
                  \cup out.add

Edited(out, need) ==
    /\ WithinBound(out.now)
    /\ settings' = out.now
    /\ cacheOK' = (cacheOK /\ ~out.cleared /\ ~out.disowned)
    /\ outputs' = CASE out.cleared                   -> {}
                    [] out.disowned                  -> {Leftover(s) : s \in outputs}
                    [] cacheOK /\ Retouches(out)     -> Retouched(out)
                    [] OTHER                         -> outputs
    /\ shown' = IF need THEN Stale ELSE shown
    /\ lapses' = IF out.cleared THEN Beside(out.now) ELSE lapses \cup LapsesOf(out)
    /\ UNCHANGED <<filter, input>>

\* A value typed in the property grid and accepted; one that is refused
\* changes nothing.
SetProperty == \E kv \in Offered(settings) :
                  LET out == SetProp(settings, kv[1], kv[2], cacheOK)
                  IN  out.ok /\ Edited(out, out.need)

\* A drag in the scene; TreeState::applyBindings asks for an update.
Drag == \E b \in Bindings(settings) :
           LET out == Bound(settings, b) IN Edited(out, TRUE)

\* Something above changes, which clears the caches below it.
Upstream == /\ input' \in Inputs \ {input}
            /\ settings' = Cleared(settings)
            /\ cacheOK' = FALSE /\ outputs' = {} /\ shown' = Stale
            /\ lapses' = IF settings' = Scratch(settings') THEN {} ELSE {"kept"}
            /\ UNCHANGED filter

\* The lapses after a run: those of an empty cache are over, and a cache may
\* be of a run that passes on other streams than its replay.
RunLapses(p, cached) ==
    (IF outputs = {} THEN Beside(p) ELSE lapses)
    \cup (IF cached /\ Run(p, input).passed # Replay(p, input).passed THEN {"passed"} ELSE {})

\* A refresh of the tree: initFilter, then the cache or a run.  The memory
\* that is free decides whether a run is cached.
Refresh == LET p == Sees(settings, input)
               r == Run(p, input)
               again == Replay(p, input)
           IN /\ UNCHANGED <<filter, input>>
              /\ \/ /\ cacheOK
                    /\ settings' = p
                    /\ shown' = [streams |-> outputs \cup again.loose, passed |-> again.passed]
                    /\ UNCHANGED <<cacheOK, outputs, lapses>>
                 \/ /\ ~cacheOK /\ r.ok
                    /\ settings' = Ran(p, input)
                    /\ \E cache \in BOOLEAN :
                          /\ outputs' = outputs \cup (IF cache THEN r.own ELSE {})
                          /\ cacheOK' = (cache /\ r.own # {})
                    /\ shown' = Shows(r)
                    /\ lapses' = RunLapses(p, cacheOK')
                 \/ /\ ~cacheOK /\ ~r.ok
                    /\ settings' = p
                    /\ shown' = Shows(r)
                    /\ lapses' = RunLapses(p, FALSE)
                    /\ UNCHANGED <<cacheOK, outputs>>

\* The refresh is stopped while this filter runs: nothing is shown, and what
\* the filter had cached until then stays with it, trusted.
Aborted == LET p == Sees(settings, input)
               own == Run(p, input).own
           IN /\ ~cacheOK /\ Run(p, input).ok
              /\ settings' = p
              /\ \E held \in Cached(p, input) :
                    /\ outputs' = outputs \cup held /\ cacheOK' = (held # {})
                    /\ lapses' = RunLapses(p, cacheOK')
                                 \cup CASE held \in {{}, own}    -> {}
                                        [] held \subseteq own  -> {"partial"}
                                        [] OTHER               -> {"unfinished"}
              /\ shown' = Stale
              /\ UNCHANGED <<filter, input>>

\* Undo, redo, a stash: the filter is replaced by a clone.
Undo == /\ settings' = Cloned(settings)
        /\ cacheOK' = FALSE /\ outputs' = {} /\ shown' = Stale /\ lapses' = {}
        /\ UNCHANGED <<filter, input>>

\* The session is saved and loaded again.
Reload == LET r == ReadBack(Written(settings))
          IN /\ r.ok
             /\ settings' = r.now
             /\ cacheOK' = FALSE /\ outputs' = {} /\ shown' = Stale /\ lapses' = {}
             /\ UNCHANGED <<filter, input>>

LifeNext == /\ filter = Name
            /\ \/ SetProperty \/ Drag \/ Upstream
               \/ Refresh \/ Aborted \/ Undo \/ Reload

-----------------------------------------------------------------------------
\* The cache holds what a run would make now; after an abort it may hold
\* less, and after other lapses something else.
Fresh ==
    cacheOK => LET own == Run(Scratch(Sees(settings, input)), input).own
               IN  /\ lapses \subseteq {"passed"} => outputs = own
                   /\ lapses \subseteq {"passed", "partial"} => outputs \subseteq own

\* While no update is asked for, the scene shows what a run would show, the
\* streams that pass the filter when its cache is used included.
Current ==
    shown # Stale =>
        LET now == Result(Sees(settings, input), input)
        IN  /\ lapses = {} => shown = now
            /\ lapses = {"passed"} => shown.streams = now.streams
            /\ lapses # {} /\ lapses \subseteq {"passed", "partial"} => shown.streams \subseteq now.streams

\* A run, a replay and the cache hold only types of the emit mask; the
\* console is no stream of the tree.
EmitsHold ==
    LET p == Sees(settings, input)
        r == Run(p, input)
        again == Replay(p, input)
        named == Emits(p) \cup {"console"}
    IN  /\ OwnTypes(r.own \cup r.loose \cup again.loose) \subseteq named
        /\ cacheOK /\ lapses \cap {"restyle", "unfinished"} = {} => OwnTypes(outputs) \subseteq named

\* A run and a replay pass on no type of the block mask.
BlocksHold ==
    LET p == Sees(settings, input)
    IN  (TypesOf(Run(p, input).passed) \cup TypesOf(Replay(p, input).passed)) \cap Blocks(p) = {}

\* A clone, and a filter read back from the file it was written to, show the
\* same.
CloneShowsSame  == Result(Sees(Cloned(settings), input), input) = Result(Sees(settings, input), input)
ReloadShowsSame ==
    LET r == ReadBack(Written(settings))
    IN  r.ok /\ Result(Sees(r.now, input), input) = Result(Sees(settings, input), input)
=============================================================================

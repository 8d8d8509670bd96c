--------------------------- MODULE ExternalProgram ---------------------------
(***************************************************************************)
(* ExternalProgramFilter: writes ions and plots to files, runs a command   *)
(* and reads what files it leaves in the working directory.  A command is  *)
(* named for what it makes; "fail" ends with an error, "ask" uses a file   *)
(* that is not there, and "both" makes ions and a plot.                    *)
(***************************************************************************)
EXTENDS FilterCommon, TLC
CONSTANT MaxChanged
VARIABLES filter, settings, input, cacheOK, outputs, shown, lapses

Name     == "externalprog"
Inputs   == {{}, {"draw"}, {"ions1", "draw"}, {"ions1", "plot"}}
Makes(c) == CASE c = "ions" -> {"ions"} [] c = "both" -> {"ions", "plot"} [] OTHER -> {}

\* ExternalProgramFilter::ExternalProgramFilter
Defaults == [commandLine |-> "", workingDir |-> "", alwaysCache |-> FALSE, cleanInput |-> TRUE]

Offered(p) == ({"commandLine"} \X {"", "ions", "both", "nothing", "fail", "ask"})
              \cup ({"workingDir"} \X {"", "dir", "missing"}) \cup ({"alwaysCache", "cleanInput"} \X BOOLEAN)

SetProp(p, k, v, cached) ==
    IF k = "workingDir" THEN Require(v \in {p.workingDir, "dir", ""}, p, ApplyNow(p, k, v))
    ELSE ApplyNow(p, k, v)

Retouchable(p) == TRUE
Bindings(p)    == {}
Bound(p, b)    == Unmoved(p)
Sees(p, in)    == p

\* The streams that are written to files; without one the command is not run.
Exported(in) == {s \in in : StreamType(s) \in {"ions", "plot"}}
Found(p, in) == {Stream(t, <<Exported(in), p.commandLine, p.workingDir>>) : t \in Makes(p.commandLine)}

\* ExternalProgramFilter::refresh: nothing that comes in is passed on.
Run(p, in) ==
    CASE p.commandLine = "" \/ Exported(in) = {} -> Made({}, {}, {})
      [] OTHER -> CASE p.commandLine \in {"fail", "ask"} -> Failure
                    [] p.alwaysCache -> Made(Found(p, in), {}, {})
                    [] OTHER         -> Made({}, Found(p, in), {})
Replay(p, in) == Made({}, {}, {})
Cached(p, in) == {{}}
Emits(p)      == {"ions", "plot"}
Blocks(p)     == {}

Cloned(p)     == p
Written(p)    == p
ReadBack(w)   == Loaded(w)
Transient     == {}

INSTANCE FilterLife WITH Ran <- FirstOf, Cleared <- Itself, Scratch <- Itself
=============================================================================

----------------------------- MODULE FileMonitor -----------------------------
(***************************************************************************)
(* A data file that is watched: DataLoadFilter's idea of it                *)
(* (backend/filters/dataLoad.cpp), the timer of the main window that asks  *)
(* (gui/mainFrame.cpp), and the refresh that reads it in another thread,   *)
(* while other programs write it.                                          *)
(*                                                                         *)
(* The filter knows a file by its time of change, in whole seconds, and    *)
(* its size; the model knows its contents, as a number.                    *)
(***************************************************************************)
EXTENDS Naturals, TLAPS
CONSTANTS MaxClock, MaxChanges, Sizes
ASSUME MonitorAssumption ==
    MaxClock \in Nat \ {0} /\ MaxChanges \in Nat /\ Sizes \subseteq Nat \ {0}
VARIABLES file,     \* there, at (the second it was written), size, data
          clock,    \* the second it is
          used,     \* sizes the file has had in this second
          changes,  \* how often it was written or taken away
          known,    \* what the filter remembers of it
          cache,    \* the data it keeps, or None
          phase,    \* of the refresh: idle, begun, stamped
          shown,    \* the data of the scene, or None
          blurred,  \* two contents had the same second and size
          astray    \* the last refresh failed
vars == <<file, clock, used, changes, known, cache, phase, shown, blurred, astray>>

None    == 0
Unknown == [at |-> 0, size |-> 0]

Init ==
    /\ file = [there |-> FALSE, at |-> 0, size |-> 0, data |-> None]
    /\ clock = 1 /\ used = {} /\ changes = 0
    /\ known = Unknown /\ cache = None /\ phase = "idle" /\ shown = None
    /\ blurred = FALSE /\ astray = FALSE

Seen == [at |-> file.at, size |-> file.size]

\* monitorNeedsRefresh.  Mutants: only the size is looked at; a file that has
\* gone always needs a refresh.
Mut_SizeOnly  == IF ~file.there THEN cache # None ELSE file.size # known.size
Mut_GoneNeeds == ~file.there \/ Seen # known
MonitorNeedsRefresh ==
    IF ~file.there THEN cache # None ELSE Seen # known

-----------------------------------------------------------------------------
(* Other programs *)

Tick == /\ clock < MaxClock                    \* bound
        /\ clock' = clock + 1 /\ used' = {}
        /\ UNCHANGED <<file, changes, known, cache, phase, shown, blurred, astray>>

Write(z) ==
    /\ changes < MaxChanges                         \* bound
    /\ changes' = changes + 1
    /\ file' = [there |-> TRUE, at |-> clock, size |-> z, data |-> changes + 1]
    /\ used' = used \cup {z}
    /\ blurred' = (blurred \/ z \in used)
    /\ UNCHANGED <<clock, known, cache, phase, shown, astray>>

Vanish == /\ file.there /\ changes < MaxChanges
          /\ changes' = changes + 1
          /\ file' = [file EXCEPT !.there = FALSE]
          /\ UNCHANGED <<clock, used, known, cache, phase, shown, blurred, astray>>
\* It is moved back, as it was.
Return == /\ ~file.there /\ file.data # None
          /\ file' = [file EXCEPT !.there = TRUE]
          /\ UNCHANGED <<clock, used, changes, known, cache, phase, shown, blurred, astray>>

-----------------------------------------------------------------------------
(* The program *)

\* refreshFilterTree first clears the caches of the monitored filters that
\* need it.
Begin ==
    /\ phase = "idle"
    /\ phase' = "begun"
    /\ cache' = IF MonitorNeedsRefresh THEN None ELSE cache
    /\ UNCHANGED <<file, clock, used, changes, known, shown, blurred, astray>>

\* OnUpdateTimer, and a refresh for any other reason.
Timer       == MonitorNeedsRefresh /\ Begin
UserRefresh == Begin

\* The refresh leaves the filter out if it still has its cache; else it runs.
LeaveOut ==
    /\ phase = "begun" /\ cache # None
    /\ phase' = "idle" /\ shown' = cache /\ astray' = FALSE
    /\ UNCHANGED <<file, clock, used, changes, known, cache, blurred>>

\* DataLoadFilter::refresh, up to the reading.  Of a file that has gone the
\* cache goes too; the cache of a watched file is used only if the time has
\* changed and the size has not.
CacheServes == cache # None /\ file.there /\ file.at # known.at /\ file.size = known.size
UseCache ==
    /\ phase = "begun" /\ CacheServes
    /\ phase' = "idle" /\ shown' = cache /\ astray' = FALSE
    /\ UNCHANGED <<file, clock, used, changes, known, cache, blurred>>
NotThere ==
    /\ phase = "begun" /\ ~file.there
    /\ phase' = "idle" /\ cache' = None /\ astray' = TRUE
    /\ known' = IF cache # None THEN Unknown ELSE known
    /\ UNCHANGED <<file, clock, used, changes, shown, blurred>>
\* Mutant: the earlier cache stays until the file has been read.
Mut_Stamp ==
    /\ phase = "begun" /\ file.there /\ ~CacheServes
    /\ phase' = "stamped" /\ known' = Seen
    /\ UNCHANGED <<file, clock, used, changes, cache, shown, blurred, astray>>
\* The time and the size are noted before the file is read.
Stamp ==
    /\ phase = "begun" /\ file.there /\ ~CacheServes
    /\ phase' = "stamped" /\ known' = Seen /\ cache' = None
    /\ UNCHANGED <<file, clock, used, changes, shown, blurred, astray>>

ReadFile ==
    /\ phase = "stamped"
    /\ phase' = "idle"
    /\ IF file.there THEN cache' = file.data /\ shown' = file.data /\ astray' = FALSE
       ELSE UNCHANGED <<cache, shown>> /\ astray' = TRUE
    /\ UNCHANGED <<file, clock, used, changes, known, blurred>>

Refresh == LeaveOut \/ UseCache \/ NotThere \/ Stamp \/ ReadFile
Next ==
    \/ Tick \/ Vanish \/ Return \/ Timer \/ UserRefresh \/ Refresh
    \/ \E z \in Sizes : Write(z)

\* The timer of the main window keeps firing, and a refresh thread goes on.
Fairness == WF_vars(Timer) /\ WF_vars(Refresh)
Spec == Init /\ [][Next]_vars /\ Fairness

-----------------------------------------------------------------------------
\* All variables are of the kinds the code gives them.
TypeOK ==
    /\ file \in [there : BOOLEAN, at : 0..MaxClock, size : Sizes \cup {0}, data : 0..MaxChanges]
    /\ known \in [at : 0..MaxClock, size : Sizes \cup {0}]
    /\ clock \in 1..MaxClock /\ used \subseteq Sizes /\ changes \in 0..MaxChanges
    /\ phase \in {"idle", "begun", "stamped"}
    /\ cache \in 0..MaxChanges /\ shown \in 0..MaxChanges
    /\ blurred \in BOOLEAN /\ astray \in BOOLEAN
\* A cache the filter takes for current, by time and size, is the file, unless
\* two contents had the same: the file may change at any moment of a refresh.
CacheIsCurrent == cache # None /\ known = Seen => blurred \/ cache = file.data
\* The same with what makes it inductive: times do not lie in the future, and
\* sizes known in this second are those the file had in it.
Inv ==
    /\ TypeOK
    /\ file.at <= clock /\ known.at <= clock
    /\ known.at = clock => known.size \in used
    /\ file.at = clock => file.size \in used
    /\ CacheIsCurrent
\* When the file is no longer changed, the program stops refreshing.
Settles == <>[]~MonitorNeedsRefresh
\* The scene comes to show the file, if no two of its contents had the same
\* second and size, and unless the last refresh failed because it was away.
CatchesUp == <>[](file.there => shown = file.data \/ blurred \/ astray)

-----------------------------------------------------------------------------
(* Proofs, for any number of changes and any sizes of the file: the cache  *)
(* is never taken for current when it is not, unless two contents of the   *)
(* file had the same second and size.                                      *)

\* What other programs do keeps the invariant: a new content has a time and a
\* size that the filter cannot yet know, or the contents are blurred.
LEMMA OthersKeepInv ==
    ASSUME Inv, Tick \/ Vanish \/ Return \/ \E z \in Sizes : Write(z)
    PROVE  Inv'
<1> USE MonitorAssumption DEF Inv, TypeOK
<1>1. CASE Tick
  <2>1. file.at <= clock /\ known.at <= clock /\ clock' = clock + 1 /\ clock' \in 1..MaxClock
    BY <1>1 DEF Tick
  <2>2. file' = file /\ known' = known /\ used' = {} /\ clock' # file.at /\ clock' # known.at
    BY <1>1, <2>1 DEF Tick
  <2>3. CacheIsCurrent'
    BY <1>1 DEF Tick, CacheIsCurrent, Seen
  <2> QED BY <1>1, <2>1, <2>2, <2>3 DEF Tick
<1>2. CASE Vanish
  <2>1. file' = [file EXCEPT !.there = FALSE] /\ changes' \in 0..MaxChanges
    BY <1>2 DEF Vanish
  <2>2. CacheIsCurrent'
    BY <1>2, <2>1 DEF Vanish, CacheIsCurrent, Seen
  <2> QED BY <1>2, <2>1, <2>2 DEF Vanish
<1>3. CASE Return
  <2>1. CacheIsCurrent'
    BY <1>3 DEF Return, CacheIsCurrent, Seen
  <2> QED BY <1>3, <2>1 DEF Return
<1>4. ASSUME NEW z \in Sizes, Write(z) PROVE Inv'
  <2>1. /\ file' = [there |-> TRUE, at |-> clock, size |-> z, data |-> changes + 1]
        /\ changes' = changes + 1 /\ changes' \in 0..MaxChanges
        /\ used' = used \cup {z} /\ blurred' = (blurred \/ z \in used)
        /\ UNCHANGED <<clock, known, cache, phase, shown, astray>>
    BY <1>4 DEF Write
  <2>2. CacheIsCurrent'
    <3>1. SUFFICES ASSUME known = [at |-> clock, size |-> z] PROVE blurred'
      BY <2>1 DEF CacheIsCurrent, Seen
    <3>2. known.size \in used
      BY <3>1
    <3> QED BY <2>1, <3>1, <3>2
  <2>3. TypeOK'
    BY <2>1
  <2> QED BY <2>1, <2>2, <2>3
<1> QED BY <1>1, <1>2, <1>3, <1>4

\* So does the program: whatever it notes and keeps, it notes of the file that
\* is there, and keeps what it reads after that.
LEMMA RefreshKeepsInv ==
    ASSUME Inv, Timer \/ UserRefresh \/ Refresh
    PROVE  Inv'
<1> USE MonitorAssumption DEF Inv, TypeOK, CacheIsCurrent, Seen
<1>1. CASE Begin
  BY <1>1 DEF Begin, None
<1>2. CASE LeaveOut
  BY <1>2 DEF LeaveOut
<1>3. CASE UseCache
  BY <1>3 DEF UseCache
<1>4. CASE NotThere
  <2>1. 0 \in 0..MaxClock /\ 0 \in Sizes \cup {0} /\ 0 # clock /\ 0 <= clock
    OBVIOUS
  <2>2. known' = Unknown \/ known' = known
    BY <1>4 DEF NotThere
  <2>3. known'.at <= clock /\ (known'.at = clock => known'.size \in used)
    BY <2>1, <2>2 DEF Unknown
  <2>4. known' \in [at : 0..MaxClock, size : Sizes \cup {0}]
    BY <2>1, <2>2 DEF Unknown
  <2> QED BY <1>4, <2>3, <2>4 DEF NotThere, None
<1>5. CASE Stamp
  <2>1. known' = [at |-> file.at, size |-> file.size] /\ cache' = None
    BY <1>5 DEF Stamp
  <2> QED BY <1>5, <2>1 DEF Stamp, None
<1>6. CASE ReadFile
  BY <1>6 DEF ReadFile
<1> QED BY <1>1, <1>2, <1>3, <1>4, <1>5, <1>6 DEF Timer, UserRefresh, Refresh

\* The monitor before its first refresh.
LEMMA InitHasInv == Init => Inv
<1> SUFFICES ASSUME Init PROVE Inv
  OBVIOUS
<1>1. 0 \in 0..MaxClock /\ 1 \in 1..MaxClock /\ 0 \in 0..MaxChanges /\ 0 \in Sizes \cup {0}
  BY MonitorAssumption
<1>2. /\ file = [there |-> FALSE, at |-> 0, size |-> 0, data |-> 0]
      /\ known = [at |-> 0, size |-> 0] /\ clock = 1 /\ used = {} /\ changes = 0
      /\ cache = 0 /\ phase = "idle" /\ shown = 0 /\ blurred = FALSE /\ astray = FALSE
  BY DEF Init, None, Unknown
<1>3. TypeOK
  BY <1>1, <1>2 DEF TypeOK
<1>4. file.at = 0 /\ known.at = 0 /\ file.at <= clock /\ known.at <= clock
  BY <1>2
<1>5. CacheIsCurrent
  BY <1>2 DEF CacheIsCurrent, None
<1> QED BY <1>2, <1>3, <1>4, <1>5 DEF Inv

\* Every step of the monitor, the writers and the refresh keeps the invariant.
LEMMA NextKeepsInv == Inv /\ [Next]_vars => Inv'
<1> SUFFICES ASSUME Inv, [Next]_vars PROVE Inv'
  OBVIOUS
<1>1. CASE UNCHANGED vars
  BY <1>1 DEF vars, Inv, TypeOK, CacheIsCurrent, Seen
<1>2. CASE Next
  BY <1>2, OthersKeepInv, RefreshKeepsInv DEF Next
<1> QED BY <1>1, <1>2

\* The data loading filter never takes a cache for the file when it is not,
\* but for contents that time and size do not tell apart.
THEOREM CacheCurrent == Spec => []CacheIsCurrent
<1>1. Inv => CacheIsCurrent
  BY DEF Inv
<1> QED BY <1>1, InitHasInv, NextKeepsInv, PTL DEF Spec

\* Every variable stays of its kind.
THEOREM MonitorTypes == Spec => []TypeOK
<1>1. Inv => TypeOK
  BY DEF Inv
<1> QED BY <1>1, InitHasInv, NextKeepsInv, PTL DEF Spec
=============================================================================

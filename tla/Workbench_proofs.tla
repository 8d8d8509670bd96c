-------------------------- MODULE Workbench_proofs --------------------------
(***************************************************************************)
(* Three themes of Workbench, proved for every value of its constants:     *)
(* work is accounted for, drags stay valid, an export is what was asked.   *)
(* Each part has an inductive invariant, and a step of one part leaves     *)
(* which part it is alone.                                                 *)
(***************************************************************************)
EXTENDS Workbench, FiniteSetTheorems, SequenceTheorems, WellFoundedInduction, TLAPS

\* A sequence without its element i, as RemoveAt of the parts makes it.
Without(s, i) == SubSeq(s, 1, i - 1) \o SubSeq(s, i + 1, Len(s))

\* What erasing an element by its index makes of a list.
LEMMA WithoutType ==
    ASSUME NEW S, NEW s \in Seq(S), NEW i \in 1..Len(s)
    PROVE  /\ Without(s, i) \in Seq(S)
           /\ Len(Without(s, i)) = Len(s) - 1
           /\ \A k \in 1..(Len(s) - 1) : Without(s, i)[k] = IF k < i THEN s[k] ELSE s[k + 1]
<1> DEFINE a == SubSeq(s, 1, i - 1)
           b == SubSeq(s, i + 1, Len(s))
<1>0. Len(s) \in Nat
  OBVIOUS
<1>1. a \in Seq(S) /\ Len(a) = i - 1 /\ \A k \in 1..(i - 1) : a[k] = s[k]
  <2>1. \A k \in 1..(i - 1) : s[k] \in S
    OBVIOUS
  <2> QED
    BY <1>0, <2>1, SubSeqProperties
<1>2. b \in Seq(S) /\ Len(b) = Len(s) - i /\ \A k \in 1..(Len(s) - i) : b[k] = s[i + k]
  <2>1. \A k \in (i + 1)..Len(s) : s[k] \in S
    OBVIOUS
  <2>2. i + 1 \in 1..(Len(s) + 1) /\ Len(s) \in (i + 1 - 1)..Len(s)
    BY <1>0
  <2> QED
    BY <1>0, <2>1, <2>2, SubSeqProperties
<1> HIDE DEF a, b
<1>3. /\ a \o b \in Seq(S) /\ Len(a \o b) = Len(a) + Len(b)
      /\ \A k \in 1..(Len(a) + Len(b)) : (a \o b)[k] = IF k <= Len(a) THEN a[k] ELSE b[k - Len(a)]
  BY <1>1, <1>2, ConcatProperties
<1>4. Without(s, i) = a \o b
  BY DEF Without, a, b
<1>5. Len(a \o b) = Len(s) - 1
  BY <1>0, <1>1, <1>2, <1>3
<1>6. ASSUME NEW k \in 1..(Len(s) - 1) PROVE (a \o b)[k] = IF k < i THEN s[k] ELSE s[k + 1]
  <2>0. Len(a) + Len(b) = Len(s) - 1 /\ i \in Nat /\ k \in Nat
    BY <1>0, <1>1, <1>2
  <2>1. CASE k < i
    <3>1. k <= Len(a) /\ k \in 1..(i - 1)
      BY <1>0, <1>1, <2>0, <2>1
    <3>2. (a \o b)[k] = a[k]
      BY <1>3, <2>0, <3>1
    <3> QED
      BY <1>1, <2>1, <3>1, <3>2
  <2>2. CASE ~(k < i)
    <3>1. ~(k <= Len(a)) /\ k - Len(a) \in 1..(Len(s) - i) /\ i + (k - Len(a)) = k + 1
      BY <1>0, <1>1, <2>0, <2>2
    <3>2. (a \o b)[k] = b[k - Len(a)]
      BY <1>3, <2>0, <3>1
    <3> QED
      BY <1>2, <2>2, <3>1, <3>2
  <2> QED
    BY <2>1, <2>2
<1> QED
  BY <1>3, <1>4, <1>5, <1>6

-----------------------------------------------------------------------------
(* Session *)

\* What a file may hold.
Contents == File!Doc \cup {File!Absent, File!Broken}
\* What a session holds.
SessionState ==
    [doc : File!Doc, file : File!Paths \cup {File!NoFile, "auto"}, modified : BOOLEAN,
     menu : BOOLEAN, silent : BOOLEAN, starting : BOOLEAN, auto : Contents,
     disk : [File!Paths -> Contents], dead : Seq(Contents), lost : BOOLEAN]
\* The same of a state that is about to be the next one.
OnDiskOf(s)   == \E p \in File!Paths : File!Readable(s.disk[p]) /\ File!Read(s.disk[p]) = File!Read(s.doc)
Accounted(s)  ==
    /\ s \in SessionState
    /\ s.menu => s.file # File!NoFile
    /\ File!StateIsModified(s) \/ s.silent \/ ~File!HasStateData(s.doc) \/ OnDiskOf(s)
\* The inductive invariant of Session.
SessionInv == Accounted(now)

\* A document is a file that can be read.
LEMMA DocIsReadable ==
    ASSUME NEW d \in File!Doc
    PROVE  /\ File!Readable(d)
           /\ File!Read(d) \in File!Doc
           /\ File!Read(File!Read(d)) = File!Read(d)
           /\ File!HasStateData(File!Read(d)) = File!HasStateData(d)
<1>1. d # File!Absent /\ d # File!Broken
  BY DEF File!Doc, File!Absent, File!Broken
<1> QED
  BY <1>1 DEF File!Readable, File!Read, File!Doc, File!HasStateData

\* And only a document is.
LEMMA ReadableIsDoc ==
    ASSUME NEW c \in Contents, File!Readable(c)
    PROVE  c \in File!Doc
BY DEF Contents, File!Readable

\* SaveStatus sets the Save entry by the file.
LEMMA SaveStatusKeeps ==
    ASSUME NEW s, Accounted(s)
    PROVE  Accounted(File!SaveStatus(s))
BY DEF Accounted, SessionState, OnDiskOf, File!SaveStatus, File!StateIsModified

\* Raising the modification level forgets nothing.
LEMMA ModifyKeeps ==
    ASSUME NEW s \in SessionState, NEW none \in BOOLEAN
    PROVE  /\ File!SetModifyLevel(s, none) \in SessionState
           /\ \A f \in DOMAIN s \ {"modified"} : File!SetModifyLevel(s, none)[f] = s[f]
           /\ File!SetModifyLevel(s, none).modified = (s.modified \/ ~none)
BY DEF SessionState, File!SetModifyLevel

\* The user edits the analysis, undoes or redoes.
LEMMA ModifiedKeeps ==
    ASSUME NEW s \in SessionState, s.menu => s.file # File!NoFile
    PROVE  Accounted(File!SetModifyLevel(s, FALSE))
BY DEF Accounted, SessionState, OnDiskOf, File!SetModifyLevel, File!StateIsModified

\* After a save the file holds what the state holds.
LEMMA SaveToKeeps ==
    ASSUME NEW s, Accounted(s), NEW p \in File!Paths, NEW out \in File!Outcomes
    PROVE  Accounted(File!SaveTo(s, p, out)) /\ File!SaveTo(s, p, out).file = s.file
<1>1. CASE out = "saved"
  <2>1. File!Readable(s.doc) /\ s.doc \in Contents
    BY DocIsReadable DEF Accounted, SessionState, Contents
  <2> DEFINE r == [s EXCEPT !.modified = FALSE, !.silent = FALSE, !.disk[p] = s.doc]
  <2>2. File!SaveTo(s, p, out) = r
    BY <1>1 DEF File!SaveTo, File!Saved, File!Written, Accounted, SessionState
  <2>3. r \in SessionState /\ r.menu = s.menu /\ r.file = s.file /\ r.doc = s.doc /\ r.disk[p] = s.doc
    BY <2>1 DEF Accounted, SessionState
  <2>4. OnDiskOf(r)
    BY <2>1, <2>3 DEF OnDiskOf
  <2> QED
    BY <2>2, <2>3, <2>4 DEF Accounted
<1>2. CASE out = "not opened"
  BY <1>2 DEF File!SaveTo, File!Saved
<1>3. CASE out = "cut short"
  <2> DEFINE r == [s EXCEPT !.disk[p] = File!Broken, !.silent = TRUE]
  <2>1. File!SaveTo(s, p, out) = r
    BY <1>3 DEF File!SaveTo, File!Saved
  <2>2. r \in SessionState /\ r.menu = s.menu /\ r.file = s.file /\ r.silent
    BY DEF Accounted, SessionState, Contents
  <2> QED
    BY <2>1, <2>2 DEF Accounted
<1> QED
  BY <1>1, <1>2, <1>3 DEF File!Outcomes

\* Save As, which may fail or be refused.
LEMMA SaveAsKeeps ==
    ASSUME NEW s, Accounted(s), NEW p \in File!Paths, NEW out \in File!Outcomes
    PROVE  Accounted(File!SaveAs(s, p, out))
<1>1. Accounted(File!SaveTo(s, File!WithXml(p), out))
  BY SaveToKeeps DEF File!WithXml, File!Paths
<1>2. ASSUME NEW r, Accounted(r) PROVE Accounted([r EXCEPT !.file = p])
  BY <1>2 DEF Accounted, SessionState, OnDiskOf, File!StateIsModified, File!Paths, File!NoFile
<1> QED
  BY <1>1, <1>2, SaveStatusKeeps DEF File!SaveAs

\* Save, to the file the state has.
LEMMA SaveKeeps ==
    ASSUME NEW s, Accounted(s), NEW p \in File!Paths, NEW out \in File!Outcomes
    PROVE  Accounted(File!Save(s, p, out))
BY SaveAsKeeps, SaveToKeeps, SaveStatusKeeps DEF File!Save

\* Work may be lost; what there is instead is accounted for.
LEMMA LossKeeps ==
    ASSUME Accounted(now)
    PROVE  Accounted(File!Loss(now))
BY DEF File!Loss, Accounted, SessionState, OnDiskOf, File!StateIsModified

\* So it is when the user is asked first.
LEMMA AskedKeeps ==
    ASSUME Accounted(now), NEW p \in File!Paths, NEW out \in File!Outcomes, NEW yes \in BOOLEAN
    PROVE  Accounted(File!AskedToSave(p, out, yes))
BY SaveKeeps, LossKeeps DEF File!AskedToSave

\* A file that is loaded is what the state holds.
LEMMA LoadedKeeps ==
    ASSUME NEW s \in SessionState, NEW f \in File!Doc, NEW p \in File!Paths \cup {"auto"},
           p \in File!Paths => s.disk[p] = f
    PROVE  /\ File!Loaded(s, f, p) \in SessionState
           /\ p \in File!Paths => Accounted(File!Loaded(s, f, p))
<1> DEFINE r == File!Loaded(s, f, p)
           m == File!SetModifyLevel(s, TRUE)
<1>1. m \in SessionState /\ m.disk = s.disk
  BY DEF SessionState, File!SetModifyLevel
<1>2. r = [m EXCEPT !.doc = File!Read(f), !.file = p, !.menu = TRUE, !.silent = FALSE]
  BY DEF File!Loaded
<1> HIDE DEF m
<1>0. File!Read(f) \in File!Doc
  BY DocIsReadable
<1>3. r \in SessionState /\ r.doc = File!Read(f) /\ r.file = p /\ r.disk = s.disk
  BY <1>0, <1>1, <1>2 DEF SessionState
<1>4. ASSUME p \in File!Paths PROVE OnDiskOf(r)
  BY <1>3, <1>4, DocIsReadable DEF OnDiskOf
<1>5. p # File!NoFile
  BY DEF File!Paths, File!NoFile
<1> QED
  BY <1>3, <1>4, <1>5 DEF Accounted

\* A new process holds nothing.
LEMMA FreshKeeps ==
    ASSUME NEW s \in SessionState, 0 \in Trees
    PROVE  Accounted(File!Fresh(s))
BY DEF Accounted, SessionState, OnDiskOf, File!Fresh, File!HasStateData, File!Empty, File!Doc,
       File!NoFile, Contents

\* Opening a file.
LEMMA OpenKeeps ==
    ASSUME SessionInv, NEW p \in File!Paths, NEW out \in File!Outcomes, NEW yes \in BOOLEAN,
           File!OnFileOpen(p, out, yes)
    PROVE  SessionInv'
<1> DEFINE s == File!AskedToSave("s.xml", out, yes)
<1>1. Accounted(s)
  BY AskedKeeps DEF SessionInv, File!Paths
<1> HIDE DEF s
<1>2. CASE File!Readable(s.disk[p])
  <2>1. s.disk[p] \in File!Doc
    BY <1>1, <1>2, ReadableIsDoc DEF Accounted, SessionState
  <2>2. now' = File!Loaded(s, s.disk[p], p)
    BY <1>2 DEF File!OnFileOpen, File!Becomes, s
  <2> QED
    BY <1>1, <2>1, <2>2, LoadedKeeps DEF SessionInv, Accounted
<1>3. CASE ~File!Readable(s.disk[p])
  <2>1. now' = [s EXCEPT !.lost = now.lost]
    BY <1>3 DEF File!OnFileOpen, File!Becomes, s
  <2>2. now.lost \in BOOLEAN
    BY DEF SessionInv, Accounted, SessionState
  <2> QED
    BY <1>1, <2>1, <2>2 DEF SessionInv, Accounted, SessionState, OnDiskOf, File!StateIsModified
<1> QED
  BY <1>2, <1>3

\* Merging a file makes work that no file has.
LEMMA MergeKeeps ==
    ASSUME SessionInv, NEW p \in File!Paths, File!OnFileMerge(p)
    PROVE  SessionInv'
<1> DEFINE m == [File!Read(now.disk[p]) EXCEPT !.fx = FALSE]
           s == [File!Loss(now) EXCEPT !.doc = m, !.file = File!NoFile, !.silent = FALSE]
<1>1. now' = File!SaveStatus(File!SetModifyLevel(s, FALSE))
  BY DEF File!OnFileMerge, File!Becomes
<1>2. m \in File!Doc
  <2>1. now.disk[p] \in File!Doc
    BY ReadableIsDoc DEF File!OnFileMerge, SessionInv, Accounted, SessionState
  <2>2. File!Read(now.disk[p]) \in File!Doc
    BY <2>1, DocIsReadable
  <2> QED
    BY <2>2 DEF File!Doc
<1>3. File!Loss(now) \in SessionState
  BY LossKeeps DEF SessionInv, Accounted
<1> HIDE DEF m
<1>4. s \in SessionState
  BY <1>2, <1>3 DEF SessionState
<1> HIDE DEF s
<1>5. now' \in SessionState /\ (now'.menu => now'.file # File!NoFile) /\ now'.modified /\ now'.doc = s.doc
  BY <1>1, <1>4 DEF SessionState, File!SaveStatus, File!SetModifyLevel, File!StateIsModified
<1> QED
  BY <1>5 DEF SessionInv, Accounted, File!StateIsModified

\* The autosave, a crash and the end of the program.
LEMMA AutosaveKeeps ==
    ASSUME SessionInv, NEW out \in File!Outcomes, File!OnAutosaveTimer(out)
    PROVE  SessionInv'
<1> DEFINE r == File!Saved(now, out)
<1>1. now' = [r EXCEPT !.auto = IF out = "saved" THEN File!Written(now.doc) ELSE File!Absent,
                       !.silent = @ \/ ~File!OnDisk(now.doc)]
  BY DEF File!OnAutosaveTimer, File!Becomes
<1>2. r \in SessionState /\ r.doc = now.doc /\ r.disk = now.disk /\ r.menu = now.menu /\ r.file = now.file
  BY DEF SessionInv, Accounted, SessionState, File!Saved
<1>3. (IF out = "saved" THEN File!Written(now.doc) ELSE File!Absent) \in Contents
  BY DEF SessionInv, Accounted, SessionState, Contents, File!Written
<1>4. File!OnDisk(now.doc) = OnDiskOf(now) /\ File!OnDisk(now.doc) \in BOOLEAN
  BY DEF File!OnDisk, OnDiskOf
<1> HIDE DEF r
<1>5. /\ now' \in SessionState /\ now'.doc = now.doc /\ now'.disk = now.disk /\ now'.menu = now.menu
      /\ now'.file = now.file /\ now'.silent = (r.silent \/ ~File!OnDisk(now.doc))
  BY <1>1, <1>2, <1>3, <1>4 DEF SessionState
<1>6. OnDiskOf(now') = OnDiskOf(now)
  BY <1>5 DEF OnDiskOf
<1> QED
  BY <1>4, <1>5, <1>6 DEF SessionInv, Accounted

\* The next process offers what autosaves there are.
LEMMA RestoreKeeps ==
    ASSUME SessionInv, NEW i \in 1..Len(now.dead), File!Restore(i)
    PROVE  SessionInv'
<1> DEFINE f == now.dead[i]
           s == [now EXCEPT !.starting = FALSE, !.dead = Without(@, i)]
           r == [File!Loaded(s, f, "auto") EXCEPT !.silent = TRUE]
<1>1. now \in SessionState /\ f \in Contents
  BY DEF SessionInv, Accounted, SessionState
<1>2. now' = IF ~File!Readable(f) THEN s
             ELSE IF Len(now.dead) = 1 THEN File!SaveStatus([r EXCEPT !.file = File!NoFile]) ELSE r
  BY DEF File!Restore, File!Restored, File!Becomes, File!RemoveAt, Without
<1>3. Without(now.dead, i) \in Seq(Contents)
  BY <1>1, WithoutType DEF SessionState
<1>4. s \in SessionState /\ Accounted(s)
  BY <1>1, <1>3 DEF SessionInv, Accounted, SessionState, OnDiskOf, File!StateIsModified
<1> HIDE DEF s, f
<1>5. CASE ~File!Readable(f)
  BY <1>2, <1>4, <1>5 DEF SessionInv
<1>6. CASE File!Readable(f)
  <2>1. f \in File!Doc
    BY <1>1, <1>6, ReadableIsDoc
  <2>2. File!Loaded(s, f, "auto") \in SessionState /\ File!Loaded(s, f, "auto").file = "auto"
    <3>1. "auto" \notin File!Paths
      BY DEF File!Paths
    <3>2. File!Loaded(s, f, "auto") \in SessionState
      BY <1>4, <2>1, <3>1, LoadedKeeps
    <3> QED
      BY <3>2 DEF File!Loaded, SessionState
  <2>3. r \in SessionState /\ r.silent /\ r.file = "auto"
    BY <2>2 DEF SessionState
  <2> HIDE DEF r
  <2>4. Accounted(r)
    BY <2>3 DEF Accounted, File!NoFile
  <2>5. File!SaveStatus([r EXCEPT !.file = File!NoFile]) \in SessionState
        /\ Accounted(File!SaveStatus([r EXCEPT !.file = File!NoFile]))
    BY <2>3 DEF SessionState, Accounted, File!SaveStatus
  <2> QED
    BY <1>2, <1>6, <2>4, <2>5 DEF SessionInv
<1> QED
  BY <1>5, <1>6

\* Every step of a session.
LEMMA SessionStep ==
    ASSUME SessionInv, File!Next, 0 \in Trees
    PROVE  SessionInv'
<1> USE DEF SessionInv
<1>1. ASSUME NEW t \in Trees, File!EditTree(t) PROVE SessionInv'
  BY <1>1 DEF File!EditTree, File!Becomes, Accounted, SessionState, File!Doc
<1>2. ASSUME NEW t \in Trees, File!UndoRedo(t) PROVE SessionInv'
  <2>1. [now EXCEPT !.doc.tree = t] \in SessionState /\ [now EXCEPT !.doc.tree = t].menu = now.menu
        /\ [now EXCEPT !.doc.tree = t].file = now.file
    BY DEF Accounted, SessionState, File!Doc
  <2> QED
    BY <1>2, <2>1, ModifiedKeeps DEF File!UndoRedo, File!Becomes, Accounted
<1>3. ASSUME NEW t \in Trees, NEW fx \in BOOLEAN, File!EditAncillary(t, fx) PROVE SessionInv'
  <2> DEFINE s == [now EXCEPT !.doc = [tree |-> t, fx |-> fx]]
  <2>1. s \in SessionState /\ s.menu = now.menu /\ s.file = now.file
    BY DEF Accounted, SessionState, File!Doc
  <2>2. Accounted(File!SetModifyLevel(s, FALSE))
    BY <2>1, ModifiedKeeps DEF Accounted
  <2> QED
    BY <1>3, <2>2, SaveStatusKeeps DEF File!EditAncillary, File!Becomes
<1>4. ASSUME NEW p \in File!Paths, NEW o \in File!Outcomes, File!OnFileSaveAs(p, o) PROVE SessionInv'
  BY <1>4, SaveAsKeeps DEF File!OnFileSaveAs, File!Becomes
<1>5. ASSUME NEW p \in File!Paths, NEW o \in File!Outcomes, File!OnFileSave(p, o) PROVE SessionInv'
  BY <1>5, SaveKeeps DEF File!OnFileSave, File!Becomes
<1>6. ASSUME NEW p \in File!Paths, NEW o \in File!Outcomes, NEW y \in BOOLEAN, File!OnFileOpen(p, o, y)
      PROVE  SessionInv'
  BY <1>6, OpenKeeps
<1>7. ASSUME NEW p \in File!Paths, File!OnFileMerge(p) PROVE SessionInv'
  BY <1>7, MergeKeeps
<1>8. ASSUME NEW o \in File!Outcomes, File!OnFileExportPackage(o) PROVE SessionInv'
  BY <1>8 DEF File!OnFileExportPackage, File!Saved, File!Becomes, Accounted, SessionState
<1>9. ASSUME NEW o \in File!Outcomes, File!OnAutosaveTimer(o) PROVE SessionInv'
  BY <1>9, AutosaveKeeps
<1>10. ASSUME NEW b \in BOOLEAN, File!OnClose(b) PROVE SessionInv'
  <2>1. (IF b \/ File!StateIsModified(now) THEN now ELSE File!Loss(now)) \in SessionState
    BY LossKeeps DEF Accounted
  <2> QED
    BY <1>10, <2>1, FreshKeeps DEF File!OnClose, File!Becomes
<1>11. ASSUME NEW b \in BOOLEAN, File!Crash(b) PROVE SessionInv'
  <2>1. PICK a \in Contents : now' = [File!Fresh(now) EXCEPT !.dead = IF a = File!Absent THEN @ ELSE Append(@, a)]
    <3>1. (IF b /\ File!HasStateData(now.doc) THEN File!Broken ELSE now.auto) \in Contents
      BY DEF Accounted, SessionState, Contents
    <3> QED
      BY <1>11, <3>1 DEF File!Crash, File!Becomes
  <2>2. Accounted(File!Fresh(now))
    BY FreshKeeps DEF Accounted
  <2>3. ASSUME NEW s, Accounted(s)
        PROVE  Accounted([s EXCEPT !.dead = IF a = File!Absent THEN @ ELSE Append(@, a)])
    <3> DEFINE d == IF a = File!Absent THEN s.dead ELSE Append(s.dead, a)
    <3>1. d \in Seq(Contents)
      BY <2>3 DEF Accounted, SessionState
    <3> HIDE DEF d
    <3>2. Accounted([s EXCEPT !.dead = d])
      BY <2>3, <3>1 DEF Accounted, SessionState, OnDiskOf, File!StateIsModified
    <3> QED
      BY <3>2 DEF d
  <2> QED
    BY <2>1, <2>2, <2>3
<1>12. ASSUME File!NoRestore PROVE SessionInv'
  BY <1>12 DEF File!NoRestore, File!Becomes, Accounted, SessionState, OnDiskOf, File!StateIsModified
<1>13. ASSUME NEW i \in 1..Len(now.dead), File!Restore(i) PROVE SessionInv'
  BY <1>13, RestoreKeeps
<1>14. ASSUME File!RemoveAll PROVE SessionInv'
  <2>1. <<>> \in Seq(Contents)
    OBVIOUS
  <2> QED
    BY <1>14, <2>1 DEF File!RemoveAll, File!Becomes, Accounted, SessionState, OnDiskOf,
       File!StateIsModified
<1>15. ASSUME File!Working PROVE SessionInv'
  BY <1>1, <1>2, <1>3, <1>4, <1>5, <1>6, <1>7, <1>8, <1>9, <1>10, <1>11, <1>15 DEF File!Working
<1> QED
  BY <1>12, <1>13, <1>14, <1>15 DEF File!Next

\* A process starts with nothing to save.
LEMMA SessionStart ==
    ASSUME File!Init
    PROVE  SessionInv
<1>1. PICK foreign \in {File!Absent, File!Broken} :
         now = [doc |-> File!Empty, file |-> File!NoFile, modified |-> FALSE, menu |-> FALSE,
                silent |-> FALSE, starting |-> TRUE, auto |-> File!Absent,
                disk |-> [p \in File!Paths |-> IF p = "s" THEN foreign ELSE File!Absent],
                dead |-> <<>>, lost |-> FALSE]
  BY DEF File!Init
<1>2. [p \in File!Paths |-> IF p = "s" THEN foreign ELSE File!Absent] \in [File!Paths -> Contents]
  BY DEF Contents
<1>3. File!Empty \in File!Doc /\ <<>> \in Seq(Contents) /\ ~File!HasStateData(File!Empty)
  BY TreesAssumption DEF File!Empty, File!Doc, File!HasStateData
<1>4. now \in SessionState
  BY <1>1, <1>2, <1>3 DEF SessionState, Contents
<1> QED
  BY <1>1, <1>3, <1>4 DEF SessionInv, Accounted

-----------------------------------------------------------------------------
\* The Save entry is there only when the state has a file, and work the
\* program does not count as modified can be read back (mainFrame.cpp,
\* state.cpp), unless the modification level was not told of it: an edit of
\* filters, a failed save, a package export, an autosave of what no state file
\* holds, a restored one.  Whatever there is to save and however many autosaves there are.
THEOREM WorkAccounted == Spec => []WorkIsAccountedFor
<1> DEFINE Inv == part = File!Name => SessionInv
<1>1. Init => Inv
  BY SessionStart DEF Init
<1>2. Inv /\ [Next]_workVars => Inv'
  <2>1. CASE part = File!Name /\ UNCHANGED part /\ File!Next
    BY <2>1, SessionStep, TreesAssumption
  <2>2. CASE part # File!Name /\ UNCHANGED part
    BY <2>2 DEF File!Name
  <2>3. CASE UNCHANGED workVars
    <3>1. SessionInv => SessionInv'
      BY <2>3 DEF workVars, SessionInv
    <3> QED
      BY <2>3, <3>1 DEF workVars, File!Name
  <2> QED
    BY <2>1, <2>2, <2>3 DEF Next, View!Name, File!Name, Stash!Name, Anim!Name, Haz!Name,
       Plot!Name, Edit!Name, Rng!Name, Crop!Name, Sel!Name, Conf!Name
<1>3. Inv => WorkIsAccountedFor
  <2>1. ASSUME SessionInv PROVE File!SaveHasFile /\ File!UnsavedIsKnown
    BY <2>1 DEF SessionInv, Accounted, OnDiskOf, File!SaveHasFile, File!UnsavedIsKnown, File!OnDisk
  <2> QED
    BY <2>1 DEF WorkIsAccountedFor
<1> QED
  BY <1>1, <1>2, <1>3, PTL DEF Spec

-----------------------------------------------------------------------------
(* Cropping: no crop takes more than all *)

\* What the panels deal with: crops, links, and drags.
Crops == [Crop!Sides -> Int]
Modes == {"lr", "lrflip", "tb", "tbflip", "both", "bothflip"}
Pairs == [{1, 2} -> Int]
Drags == {Crop!NoDrag} \cup [panel : Crop!Panels, sel : SUBSET Crop!Sides, from : Crops]
\* What the crop panels hold.
CropState ==
    [crop : [Crop!Panels -> Crops], axes : [Crop!Panels -> Crop!AxesOf], link : [Crop!Panels -> Modes],
     update : [Crop!Panels -> BOOLEAN], drag : Drags, edits : Int, post : BOOLEAN, on : BOOLEAN,
     scene : [Crop!Axes -> Pairs], unshown : BOOLEAN]
\* The crops of a state that may be about to be the next one.
ValidCrops(s) == s \in CropState /\ \A p \in Crop!Panels : Crop!Valid(s.crop[p])
\* The inductive invariant of Cropping, for what is valid.
CropInv == ValidCrops(now)

\* Four sides in a list are a crop.
LEMMA TupleOfSides ==
    ASSUME NEW a \in Int, NEW b \in Int, NEW c \in Int, NEW d \in Int
    PROVE  <<a, b, c, d>> \in Crops
BY DEF Crops, Crop!Sides

\* Two panels in a list.
LEMMA TupleOfPanels ==
    ASSUME NEW S, NEW a \in S, NEW b \in S
    PROVE  <<a, b>> \in [Crop!Panels -> S]
BY DEF Crop!Panels

\* What a corrected crop is: one that fits, if the one before did.
LEMMA CorrectedFits ==
    ASSUME NEW c \in Crops, NEW old \in Crops, Crop!Valid(old)
    PROVE  Crop!Corrected(c, old) \in Crops /\ Crop!Valid(Crop!Corrected(c, old))
<1>1. Crop!Bounded(c, old) \in Crops
  BY DEF Crop!Bounded, Crops
<1> QED
  BY <1>1 DEF Crop!Corrected

\* makeCropValid leaves a crop that takes no more than all.
LEMMA MadeValidFits ==
    ASSUME NEW c \in Crops
    PROVE  Crop!MadeValid(c) \in Crops /\ Crop!Valid(Crop!MadeValid(c))
<1> DEFINE q == [i \in Crop!Sides |-> Crop!Clamped(c[i])]
           v == [i \in Crop!Sides |-> IF q[i] + q[IF i < 3 THEN i + 2 ELSE i - 2] > Whole THEN Inset ELSE q[i]]
<1>1. Crop!MadeValid(c) = v
  BY DEF Crop!MadeValid
<1>2. q \in [Crop!Sides -> 0..Whole]
  BY CropAssumption DEF Crop!Clamped, Crops
<1> HIDE DEF q
<1>3. \A i \in Crop!Sides : v[i] \in 0..Whole
  BY <1>2, CropAssumption DEF Crop!Sides
<1>4. /\ v[1] = IF q[1] + q[3] > Whole THEN Inset ELSE q[1]
      /\ v[2] = IF q[2] + q[4] > Whole THEN Inset ELSE q[2]
      /\ v[3] = IF q[3] + q[1] > Whole THEN Inset ELSE q[3]
      /\ v[4] = IF q[4] + q[2] > Whole THEN Inset ELSE q[4]
  BY DEF Crop!Sides
<1>5. q[1] \in Int /\ q[2] \in Int /\ q[3] \in Int /\ q[4] \in Int
  BY <1>2, CropAssumption DEF Crop!Sides
<1>6. v[1] + v[3] <= Whole /\ v[2] + v[4] <= Whole
  BY <1>4, <1>5, CropAssumption
<1>7. v \in Crops
  BY <1>3, CropAssumption DEF Crops
<1> HIDE DEF v
<1> QED
  BY <1>1, <1>3, <1>6, <1>7, CropAssumption DEF Crop!Valid

\* Linked sides come in opposite pairs, so that a crop that follows one that
\* fits does as well.
LEMMA FollowFits ==
    ASSUME NEW to \in Crops, NEW from \in Crops, NEW mode \in Modes, Crop!Valid(to), Crop!Valid(from)
    PROVE  Crop!Follow(to, from, mode) \in Crops /\ Crop!Valid(Crop!Follow(to, from, mode))
<1> DEFINE Side(i) == IF \E e \in Crop!Linked(mode) : e[1] = i
                      THEN from[(CHOOSE e \in Crop!Linked(mode) : e[1] = i)[2]] ELSE to[i]
<1>0. Crop!Follow(to, from, mode) = [i \in Crop!Sides |-> Side(i)]
  BY DEF Crop!Follow
<1>1. ASSUME NEW i \in Crop!Sides, NEW e \in Crop!Linked(mode), e[1] = i, \A d \in Crop!Linked(mode) : d[1] = i => d = e
      PROVE  Side(i) = from[e[2]]
  <2>1. (CHOOSE d \in Crop!Linked(mode) : d[1] = i) = e
    BY <1>1
  <2> QED
    BY <1>1, <2>1
<1>2. ASSUME NEW i \in Crop!Sides, \A d \in Crop!Linked(mode) : d[1] # i PROVE Side(i) = to[i]
  BY <1>2
<1> HIDE DEF Side
<1>3. Side(1) + Side(3) <= Whole /\ Side(2) + Side(4) <= Whole
        /\ \A i \in Crop!Sides : Side(i) \in Int /\ Side(i) >= 0
  <2>0. /\ from[1] \in Int /\ from[2] \in Int /\ from[3] \in Int /\ from[4] \in Int
        /\ to[1] \in Int /\ to[2] \in Int /\ to[3] \in Int /\ to[4] \in Int
    BY DEF Crops, Crop!Sides
  <2>a. /\ from[1] >= 0 /\ from[2] >= 0 /\ from[3] >= 0 /\ from[4] >= 0
        /\ to[1] >= 0 /\ to[2] >= 0 /\ to[3] >= 0 /\ to[4] >= 0
        /\ from[1] + from[3] <= Whole /\ from[2] + from[4] <= Whole
        /\ to[1] + to[3] <= Whole /\ to[2] + to[4] <= Whole
    BY DEF Crop!Valid, Crop!Sides
  <2>b. 1 \in Crop!Sides /\ 2 \in Crop!Sides /\ 3 \in Crop!Sides /\ 4 \in Crop!Sides
    BY DEF Crop!Sides
  <2>1. CASE mode = "lr"
    <3>1. Crop!Linked(mode) = {<<1, 1>>, <<3, 3>>}
      BY <2>1 DEF Crop!Linked
    <3>2. Side(1) = from[1] /\ Side(2) = to[2] /\ Side(3) = from[3] /\ Side(4) = to[4]
      BY <1>1, <1>2, <2>b, <3>1
    <3> QED
      BY <2>0, <2>a, <3>2 DEF Crop!Sides
  <2>2. CASE mode = "lrflip"
    <3>1. Crop!Linked(mode) = {<<4, 1>>, <<2, 3>>}
      BY <2>2 DEF Crop!Linked
    <3>2. Side(1) = to[1] /\ Side(2) = from[3] /\ Side(3) = to[3] /\ Side(4) = from[1]
      BY <1>1, <1>2, <2>b, <3>1
    <3> QED
      BY <2>0, <2>a, <3>2, CropAssumption DEF Crop!Sides
  <2>3. CASE mode = "tb"
    <3>1. Crop!Linked(mode) = {<<4, 4>>, <<2, 2>>}
      BY <2>3 DEF Crop!Linked
    <3>2. Side(1) = to[1] /\ Side(2) = from[2] /\ Side(3) = to[3] /\ Side(4) = from[4]
      BY <1>1, <1>2, <2>b, <3>1
    <3> QED
      BY <2>0, <2>a, <3>2 DEF Crop!Sides
  <2>4. CASE mode = "tbflip"
    <3>1. Crop!Linked(mode) = {<<1, 4>>, <<3, 2>>}
      BY <2>4 DEF Crop!Linked
    <3>2. Side(1) = from[4] /\ Side(2) = to[2] /\ Side(3) = from[2] /\ Side(4) = to[4]
      BY <1>1, <1>2, <2>b, <3>1
    <3> QED
      BY <2>0, <2>a, <3>2, CropAssumption DEF Crop!Sides
  <2>5. CASE mode = "both"
    <3>1. Crop!Linked(mode) = {<<1, 1>>, <<2, 2>>, <<3, 3>>, <<4, 4>>}
      BY <2>5 DEF Crop!Linked
    <3>2. Side(1) = from[1] /\ Side(2) = from[2] /\ Side(3) = from[3] /\ Side(4) = from[4]
      BY <1>1, <2>b, <3>1
    <3> QED
      BY <2>0, <2>a, <3>2 DEF Crop!Sides
  <2>6. CASE mode = "bothflip"
    <3>1. Crop!Linked(mode) = {<<4, 1>>, <<2, 3>>, <<1, 4>>, <<3, 2>>}
      BY <2>6 DEF Crop!Linked
    <3>2. Side(1) = from[4] /\ Side(2) = from[3] /\ Side(3) = from[2] /\ Side(4) = from[1]
      BY <1>1, <2>b, <3>1
    <3> QED
      BY <2>0, <2>a, <3>2, CropAssumption DEF Crop!Sides
  <2> QED
    BY <2>1, <2>2, <2>3, <2>4, <2>5, <2>6 DEF Modes
<1> QED
  BY <1>0, <1>3 DEF Crops, Crop!Valid, Crop!Sides

\* A panel that follows another keeps within what there is.
LEMMA UpdatedFits ==
    ASSUME NEW s, ValidCrops(s), NEW p \in Crop!Panels
    PROVE  ValidCrops(Crop!Updated(s, p))
<1>1. Crop!Other(p) \in Crop!Panels
  BY DEF Crop!Other, Crop!Panels
<1> DEFINE f == Crop!Follow(s.crop[Crop!Other(p)], s.crop[p], s.link[p])
<1>2. f \in Crops /\ Crop!Valid(f)
  BY <1>1, FollowFits DEF ValidCrops, CropState
<1>3. Crop!Updated(s, p) = [s EXCEPT !.update[p] = TRUE, !.crop[Crop!Other(p)] = f]
  BY DEF Crop!Updated
<1> HIDE DEF f
<1> DEFINE o == Crop!Other(p)
           r == [s EXCEPT !.update[p] = TRUE, !.crop[o] = f]
<1>4. o \in Crop!Panels
  BY <1>1
<1> HIDE DEF o
<1>5. r \in CropState /\ r.crop = [s.crop EXCEPT ![o] = f]
  BY <1>2, <1>4 DEF ValidCrops, CropState
<1>6. \A q \in Crop!Panels : Crop!Valid(r.crop[q])
  BY <1>2, <1>4, <1>5 DEF ValidCrops, CropState
<1>7. Crop!Updated(s, p) = r
  BY <1>3 DEF o
<1> HIDE DEF r
<1> QED
  BY <1>5, <1>6, <1>7 DEF ValidCrops

\* The fractions of a panel are a crop.
LEMMA FractionsType ==
    ASSUME NEW s \in CropState
    PROVE  Crop!Fractions(s) \in [Crop!Axes -> Pairs] /\ Crop!NoCrop \in [Crop!Axes -> Pairs]
<1>1. ASSUME NEW a \in Int, NEW b \in Int PROVE <<a, b>> \in Pairs
  BY DEF Pairs
<1>2. ASSUME NEW axes, NEW c \in Crops, NEW a \in Crop!Axes
      PROVE  Crop!CropOf(axes, c)[a] \in Pairs \/ Crop!CropOf(axes, c)[a] = <<>>
  <2>1. <<c[1], c[3]>> \in Pairs /\ <<c[2], c[4]>> \in Pairs
    BY <1>1 DEF Crops, Crop!Sides
  <2> QED
    BY <2>1 DEF Crop!CropOf
<1>3. s.crop[1] \in Crops /\ s.crop[2] \in Crops
  BY DEF CropState, Crop!Panels
<1>4. ASSUME NEW a \in Crop!Axes PROVE Crop!Fractions(s)[a] \in Pairs
  BY <1>1, <1>2, <1>3 DEF Crop!Fractions
<1> QED
  BY <1>1, <1>4 DEF Crop!Fractions, Crop!NoCrop

\* What the scene is given comes from the panels.
LEMMA EffectsFit ==
    ASSUME NEW s, ValidCrops(s)
    PROVE  ValidCrops(Crop!UpdatePostEffects(s))
<1>1. Crop!Shown(s) \in [Crop!Axes -> Pairs]
  BY FractionsType DEF ValidCrops, Crop!Shown
<1>2. <<FALSE, FALSE>> \in [Crop!Panels -> BOOLEAN]
  BY TupleOfPanels
<1> QED
  BY <1>1, <1>2 DEF ValidCrops, CropState, Crop!UpdatePostEffects

\* Linking panels makes one follow the other.
LEMMA LinkedFit ==
    ASSUME NEW s, ValidCrops(s)
    PROVE  ValidCrops(Crop!LinkCropWidgets(s))
<1>1. [p \in Crop!Panels |-> Crop!LinkMode(p, s.axes[1], s.axes[2])] \in [Crop!Panels -> Modes]
  BY DEF Crop!LinkMode, Modes
<1> QED
  BY <1>1 DEF ValidCrops, CropState, Crop!LinkCropWidgets, Crop!Panels

\* The effects are made of valid crops.
LEMMA UpdateFxFits ==
    ASSUME NEW s, ValidCrops(s)
    PROVE  ValidCrops(Crop!UpdateFxUI(s))
<1> DEFINE f == s.scene
           one == Crop!MadeValid(<<f["x"][1], f["x"][2], f["y"][1], f["y"][2]>>)
<1>1. <<f["x"][1], f["x"][2], f["y"][1], f["y"][2]>> \in Crops
  <2>1. f["x"] \in Pairs /\ f["y"] \in Pairs
    BY DEF ValidCrops, CropState, Crop!Axes
  <2> QED
    BY <2>1, TupleOfSides DEF Pairs
<1>2. one \in Crops /\ Crop!Valid(one)
  BY <1>1, MadeValidFits
<1>3. Crop!UpdateFxUI(s) = [s EXCEPT !.crop = <<one, one>>, !.axes = <<<<"x", "y">>, <<"x", "z">>>>,
                                !.link = <<"both", "both">>, !.on = TRUE, !.post = TRUE, !.unshown = TRUE]
  BY DEF Crop!UpdateFxUI
<1> HIDE DEF one
<1>4. <<"both", "both">> \in [Crop!Panels -> Modes]
  BY TupleOfPanels DEF Modes
<1>5. <<<<"x", "y">>, <<"x", "z">>>> \in [Crop!Panels -> Crop!AxesOf]
  BY TupleOfPanels DEF Crop!AxesOf
<1>6. <<one, one>> \in [Crop!Panels -> Crops] /\ \A p \in Crop!Panels : <<one, one>>[p] = one
  BY <1>2, TupleOfPanels DEF Crop!Panels
<1> QED
  BY <1>2, <1>3, <1>4, <1>5, <1>6 DEF ValidCrops, CropState

\* So it is after an edit.
LEMMA EditedFits ==
    ASSUME NEW r, ValidCrops(r), Crop!Edited(r)
    PROVE  CropInv'
BY DEF Crop!Edited, Crop!Becomes, CropInv, ValidCrops, CropState

\* What the mouse makes of a panel, however it is moved.
LEMMA MouseMovesTo ==
    ASSUME CropInv, NEW x \in Int, NEW y \in Int, Crop!MouseMove(x, y)
    PROVE  \E p \in Crop!Panels : \E c \in Crops : Crop!Valid(c) /\ now' = Crop!Updated([now EXCEPT !.crop[p] = c], p)
<1> DEFINE p == now.drag.panel
           d == Crop!Dragged(now.drag.sel, now.drag.from, now.crop[p], x, y)
           c == Crop!Corrected(d, now.crop[p])
<1>1. now.drag \in [panel : Crop!Panels, sel : SUBSET Crop!Sides, from : Crops]
  BY DEF Crop!MouseMove, CropInv, ValidCrops, CropState, Drags
<1>2. p \in Crop!Panels /\ now.crop[p] \in Crops /\ Crop!Valid(now.crop[p])
  BY <1>1 DEF CropInv, ValidCrops, CropState
<1>3. d \in Crops
  <2>1. now.drag.from \in Crops
    BY <1>1
  <2>2. <<now.drag.from[1] + x, now.drag.from[2] + y, now.drag.from[3] - x, now.drag.from[4] - y>> \in Crops
    BY <2>1, TupleOfSides DEF Crops, Crop!Sides
  <2>3. <<x, y, Whole - x, Whole - y>> \in Crops
    BY CropAssumption, TupleOfSides
  <2> QED
    BY <1>2, <2>2, <2>3 DEF Crop!Dragged, Crops
<1>4. now' = Crop!Updated([now EXCEPT !.crop[p] = c], p)
  BY DEF Crop!MouseMove, Crop!Becomes
<1>5. c \in Crops /\ Crop!Valid(c)
  BY <1>2, <1>3, CorrectedFits
<1> HIDE DEF c, p
<1> QED
  BY <1>2, <1>4, <1>5

\* A drag of a side.
LEMMA MouseMoveFits ==
    ASSUME CropInv, NEW x \in Int, NEW y \in Int, Crop!MouseMove(x, y)
    PROVE  CropInv'
<1>1. PICK p \in Crop!Panels : \E c \in Crops : Crop!Valid(c) /\ now' = Crop!Updated([now EXCEPT !.crop[p] = c], p)
  BY MouseMovesTo
<1>2. PICK c \in Crops : Crop!Valid(c) /\ now' = Crop!Updated([now EXCEPT !.crop[p] = c], p)
  BY <1>1
<1>3. ValidCrops([now EXCEPT !.crop[p] = c])
  BY <1>2 DEF CropInv, ValidCrops, CropState
<1> QED
  BY <1>2, <1>3, UpdatedFits DEF CropInv

\* At the start both panels are inset.
LEMMA CropStart ==
    ASSUME Crop!Init
    PROVE  CropInv
<1>1. [i \in Crop!Sides |-> Inset] \in Crops /\ Crop!Valid([i \in Crop!Sides |-> Inset])
  BY CropAssumption DEF Crops, Crop!Valid, Crop!Sides
<1>2. <<Crop!FirstAxes, Crop!FirstAxes>> \in [Crop!Panels -> Crop!AxesOf]
  BY TupleOfPanels DEF Crop!FirstAxes, Crop!AxesOf
<1>3. <<"both", "both">> \in [Crop!Panels -> Modes] /\ <<FALSE, FALSE>> \in [Crop!Panels -> BOOLEAN]
  BY TupleOfPanels DEF Modes
<1>4. Crop!NoCrop \in [Crop!Axes -> Pairs]
  BY DEF Crop!NoCrop, Pairs
<1> DEFINE c == [i \in Crop!Sides |-> Inset]
<1> HIDE DEF c
<1>5. now = [crop |-> [p \in Crop!Panels |-> c], axes |-> <<Crop!FirstAxes, Crop!FirstAxes>>,
             link |-> <<"both", "both">>, update |-> <<FALSE, FALSE>>, drag |-> Crop!NoDrag, edits |-> 0,
             post |-> FALSE, on |-> FALSE, scene |-> Crop!NoCrop, unshown |-> FALSE]
  BY DEF Crop!Init, c
<1>6. c \in Crops /\ Crop!Valid(c)
  BY <1>1 DEF c
<1>7. now \in CropState
  BY <1>2, <1>3, <1>4, <1>5, <1>6 DEF CropState, Drags
<1>8. \A p \in Crop!Panels : now.crop[p] = c
  BY <1>5
<1> QED
  BY <1>6, <1>7, <1>8 DEF CropInv, ValidCrops

\* Every step of the crop panels.
LEMMA CropStep ==
    ASSUME CropInv, Crop!Next
    PROVE  CropInv'
<1> USE DEF CropInv
<1>1. ASSUME NEW p \in Crop!Panels, NEW sel \in Crop!Widgets, Crop!MouseDown(p, sel) PROVE CropInv'
  <2>1. sel \in SUBSET Crop!Sides
    BY DEF Crop!Widgets, Crop!Sides
  <2>2. ValidCrops([now EXCEPT !.drag = [panel |-> p, sel |-> sel, from |-> now.crop[p]]])
    BY <2>1 DEF ValidCrops, CropState, Drags
  <2> QED
    BY <1>1, <2>2, EditedFits DEF Crop!MouseDown
<1>2. ASSUME NEW p \in Crop!Panels, NEW sel \in Crop!Widgets, Crop!MouseDoubleLeftClick(p, sel)
      PROVE  CropInv'
  <2> DEFINE c == [i \in Crop!Sides |-> IF i \in sel THEN 0 ELSE now.crop[p][i]]
             s == [now EXCEPT !.crop[p] = c]
  <2>1. now.crop[p] \in Crops /\ Crop!Valid(now.crop[p])
    BY DEF ValidCrops, CropState
  <2>2. c \in Crops /\ Crop!Valid(c)
    BY <2>1, CropAssumption DEF Crops, Crop!Valid, Crop!Sides
  <2> HIDE DEF c
  <2>3. ValidCrops(s)
    BY <2>2 DEF ValidCrops, CropState
  <2>4. Crop!Edited(Crop!Updated(s, p))
    BY <1>2 DEF Crop!MouseDoubleLeftClick, c
  <2> QED
    BY <2>3, <2>4, EditedFits, UpdatedFits
<1>3. ASSUME NEW x \in -1..(Whole + 1), NEW y \in -1..(Whole + 1), Crop!MouseMove(x, y) PROVE CropInv'
  BY <1>3, MouseMoveFits, CropAssumption
<1>4. ASSUME Crop!MouseReleased PROVE CropInv'
  BY <1>4 DEF Crop!MouseReleased, Crop!Becomes, ValidCrops, CropState, Drags
<1>5. ASSUME Crop!OnUpdateTimer PROVE CropInv'
  <2>1. ValidCrops(Crop!UpdatePostEffects(now))
    BY EffectsFit
  <2> QED
    BY <1>5, <2>1 DEF Crop!OnUpdateTimer, Crop!Becomes, ValidCrops, CropState
<1>6. ASSUME Crop!OnCheckPostProcess PROVE CropInv'
  <2>1. ValidCrops([now EXCEPT !.post = ~@])
    BY DEF ValidCrops, CropState
  <2> QED
    BY <1>6, <2>1, EffectsFit DEF Crop!OnCheckPostProcess, Crop!Becomes
<1>7. ASSUME Crop!OnFxCropCheck PROVE CropInv'
  <2>1. ValidCrops([now EXCEPT !.on = ~@])
    BY DEF ValidCrops, CropState
  <2> QED
    BY <1>7, <2>1, EffectsFit DEF Crop!OnFxCropCheck, Crop!Becomes
<1>8. ASSUME Crop!LoadFile PROVE CropInv'
  BY <1>8, UpdateFxFits, EditedFits DEF Crop!LoadFile
<1>9. ASSUME NEW axes \in Crop!AxesOf, Crop!OnFxCropAxis(axes) PROVE CropInv'
  <2>1. <<Crop!FirstAxes, axes>> \in [Crop!Panels -> Crop!AxesOf]
    BY TupleOfPanels DEF Crop!FirstAxes, Crop!AxesOf
  <2>2. ValidCrops([now EXCEPT !.axes = <<Crop!FirstAxes, axes>>])
    BY <2>1 DEF ValidCrops, CropState
  <2> QED
    BY <1>9, <2>2, LinkedFit, EffectsFit, EditedFits DEF Crop!OnFxCropAxis
<1> QED
  BY <1>1, <1>2, <1>3, <1>4, <1>5, <1>6, <1>7, <1>8, <1>9 DEF Crop!Next

-----------------------------------------------------------------------------
(* RangeEditor: ranges stay apart *)

\* A range.
Row == [lo : Int, hi : Int, ion : Int]
\* The members of the editor's state.
EditFields == {"filter", "file", "edits", "strayed", "open", "files", "regions", "sel", "cur", "rows",
           "pending", "ready", "unchecked"}
\* A range file: of those that need not be consistent only the ions matter.
Shaped(f) == DOMAIN f = {"rs", "ions", "enforce"} /\ f.ions \in Seq(IonNames)
Sound(f)  == f.enforce => f.rs \in Seq(Row) /\ Edit!WellApart(f)
\* The filters' files, and the dialog's copies, which enforce nothing.
FilesHold(s) ==
    /\ DOMAIN s = EditFields
    /\ DOMAIN s.filter = 1..2 /\ \A f \in 1..2 : Shaped(s.filter[f]) /\ Sound(s.filter[f])
    /\ \A p \in Edit!Plots : s.file[p] \in 1..2
    /\ s.cur \in 1..2
    /\ s.open => DOMAIN s.files = 1..2 /\ \A f \in 1..2 : Shaped(s.files[f]) /\ ~s.files[f].enforce
Checked(s) == s.open /\ s.ready /\ ~s.unchecked => \A p \in Edit!Plots : Edit!SelfConsistent(s.files[s.file[p]])
\* The inductive invariant of RangeEditor, for how ranges lie.
EditInv == FilesHold(now) /\ Checked(now)

\* A range that may move passes no other, and one that does not turn over
\* stays apart from all.
LEMMA MoveStaysApart ==
    ASSUME NEW f, Shaped(f), f.rs \in Seq(Row), Edit!WellApart(f), NEW i \in DOMAIN f.rs,
           NEW lo \in Int, NEW hi \in Int, lo < hi, Edit!MayMove(f, i, lo, hi)
    PROVE  LET g == [f EXCEPT !.rs[i].lo = lo, !.rs[i].hi = hi]
           IN  Shaped(g) /\ g.rs \in Seq(Row) /\ Edit!WellApart(g) /\ g.enforce = f.enforce
<1> DEFINE r == [[f.rs[i] EXCEPT !.lo = lo] EXCEPT !.hi = hi]
           rs == [f.rs EXCEPT ![i] = r]
           g == [f EXCEPT !.rs[i].lo = lo, !.rs[i].hi = hi]
<1>0. f.rs[i] \in Row /\ i \in 1..Len(f.rs)
  OBVIOUS
<1>1. r \in Row /\ r.lo = lo /\ r.hi = hi
  BY <1>0 DEF Row
<1>2. g = [f EXCEPT !.rs = rs]
  BY <1>0 DEF Shaped
<1> HIDE DEF r
<1>3. rs \in Seq(Row) /\ DOMAIN rs = DOMAIN f.rs /\ rs[i] = r /\ \A j \in DOMAIN f.rs \ {i} : rs[j] = f.rs[j]
  BY <1>0, <1>1
<1> HIDE DEF rs
<1>4. g.rs = rs /\ g.ions = f.ions /\ g.enforce = f.enforce /\ DOMAIN g = DOMAIN f
  BY <1>2 DEF Shaped
<1> HIDE DEF g
<1>5. ASSUME NEW j \in DOMAIN f.rs \ {i} PROVE Edit!Apart(r, f.rs[j]) /\ Edit!Apart(f.rs[j], r)
  <2>1. ~Edit!Passes(f.rs[i], lo, hi, f.rs[j])
    BY DEF Edit!MayMove
  <2>2. f.rs[j] \in Row /\ f.rs[j].lo < f.rs[j].hi /\ f.rs[i].lo < f.rs[i].hi
    BY DEF Edit!WellApart
  <2>3. Edit!Apart(f.rs[i], f.rs[j])
    BY DEF Edit!WellApart, Edit!KeptApart
  <2> DEFINE al == f.rs[i].lo  ah == f.rs[i].hi  bl == f.rs[j].lo  bh == f.rs[j].hi
  <2>4. al \in Int /\ ah \in Int /\ bl \in Int /\ bh \in Int /\ al < ah /\ bl < bh
    BY <1>0, <2>2 DEF Row
  <2>5. ah <= bl \/ bh <= al
    BY <2>3 DEF Edit!Apart
  <2>6. ~(al < bl /\ hi > bl) /\ ~(al < bh /\ hi > bh) /\ ~(ah > bl /\ lo < bl) /\ ~(ah > bh /\ lo < bh)
    BY <2>1 DEF Edit!Passes
  <2> HIDE DEF al, ah, bl, bh
  <2>7. hi <= bl \/ bh <= lo
    BY <2>4, <2>5, <2>6
  <2> QED
    BY <1>1, <2>7 DEF Edit!Apart, bl, bh
<1>6. \A a, b \in DOMAIN rs : a # b => Edit!Apart(rs[a], rs[b])
  BY <1>3, <1>5 DEF Edit!WellApart, Edit!KeptApart
<1>7. \A a \in DOMAIN rs : rs[a].lo < rs[a].hi
  BY <1>1, <1>3 DEF Edit!WellApart
<1>8. Shaped(g) /\ g.rs \in Seq(Row) /\ Edit!WellApart(g) /\ g.enforce = f.enforce
  BY <1>3, <1>4, <1>6, <1>7 DEF Edit!WellApart, Edit!KeptApart, Shaped
<1> QED
  BY <1>8 DEF g

\* So it is with the two ways in which the plot moves them.
LEMMA MoveRangeFits ==
    ASSUME NEW f, Shaped(f), Sound(f), NEW i \in DOMAIN f.rs, NEW x \in Int
    PROVE  /\ LET g == Edit!MoveRange(f, i, x, f.rs[i].hi) IN Shaped(g) /\ Sound(g)
           /\ LET g == Edit!MoveRange(f, i, f.rs[i].lo, x) IN Shaped(g) /\ Sound(g)
           /\ LET g == Edit!MoveBothRanges(f, i, x, x + (f.rs[i].hi - f.rs[i].lo)) IN Shaped(g) /\ Sound(g)
<1>1. ASSUME NEW lo, NEW hi, ~f.enforce
      PROVE  LET g == [f EXCEPT !.rs[i].lo = lo, !.rs[i].hi = hi] IN Shaped(g) /\ Sound(g)
  BY <1>1 DEF Shaped, Sound
<1>2. CASE ~f.enforce
  BY <1>1, <1>2 DEF Edit!MoveRange, Edit!MoveBothRanges
<1>3. CASE f.enforce
  <2>1. f.rs \in Seq(Row) /\ Edit!WellApart(f) /\ f.rs[i].lo \in Int /\ f.rs[i].hi \in Int
    <3>1. f.rs \in Seq(Row) /\ Edit!WellApart(f)
      BY <1>3 DEF Sound
    <3>2. f.rs[i] \in Row
      BY <3>1
    <3> QED
      BY <3>1, <3>2 DEF Row
  <2>2. ASSUME NEW lo \in Int, NEW hi \in Int, lo < hi, Edit!MayMove(f, i, lo, hi)
        PROVE  LET g == [f EXCEPT !.rs[i].lo = lo, !.rs[i].hi = hi] IN Shaped(g) /\ Sound(g)
    BY <2>1, <2>2, MoveStaysApart DEF Sound
  <2>3. ASSUME NEW lo \in Int, NEW hi \in Int
        PROVE  LET g == Edit!MoveRange(f, i, lo, hi) IN Shaped(g) /\ Sound(g)
    <3>1. CASE lo < hi /\ Edit!MayMove(f, i, lo, hi)
      <4>1. Edit!MoveRange(f, i, lo, hi) = [f EXCEPT !.rs[i].lo = lo, !.rs[i].hi = hi]
        BY <3>1 DEF Edit!MoveRange
      <4> QED
        BY <2>2, <3>1, <4>1
    <3>2. CASE ~(lo < hi /\ Edit!MayMove(f, i, lo, hi))
      BY <1>3, <3>2 DEF Edit!MoveRange
    <3> QED
      BY <3>1, <3>2
  <2>4. LET g == Edit!MoveBothRanges(f, i, x, x + (f.rs[i].hi - f.rs[i].lo)) IN Shaped(g) /\ Sound(g)
    <3> DEFINE hi == x + (f.rs[i].hi - f.rs[i].lo)
    <3>1. hi \in Int /\ x < hi
      BY <2>1 DEF Edit!WellApart
    <3> HIDE DEF hi
    <3>2. CASE Edit!MayMove(f, i, x, hi)
      <4>1. Edit!MoveBothRanges(f, i, x, hi) = [f EXCEPT !.rs[i].lo = x, !.rs[i].hi = hi]
        BY <3>2 DEF Edit!MoveBothRanges
      <4> QED
        BY <2>2, <3>1, <3>2, <4>1 DEF hi
    <3>3. CASE ~Edit!MayMove(f, i, x, hi)
      BY <3>3 DEF Edit!MoveBothRanges, hi
    <3> QED
      BY <3>2, <3>3
  <2> QED
    BY <2>1, <2>3, <2>4
<1> QED
  BY <1>2, <1>3

\* What the dialog brings up to date leaves what it is about alone.
LEMMA UpdatesHold ==
    ASSUME NEW s, FilesHold(s)
    PROVE  /\ FilesHold(Edit!WithRegions(s)) /\ FilesHold(Edit!WithRows(s)) /\ FilesHold(Edit!Edited(s))
           /\ FilesHold(Edit!Ready(s)) /\ Checked(Edit!Ready(s))
<1>1. FilesHold(Edit!WithRegions(s))
  BY DEF FilesHold, Edit!WithRegions, EditFields
<1>2. FilesHold(Edit!WithRows(s))
  BY DEF FilesHold, Edit!WithRows, EditFields
<1>3. FilesHold(Edit!Edited(s))
  BY DEF FilesHold, Edit!Edited, EditFields
<1>4. FilesHold(Edit!Ready(s))
  BY DEF FilesHold, Edit!Ready, EditFields
<1>5. Checked(Edit!Ready(s))
  BY DEF FilesHold, Checked, Edit!Ready, EditFields
<1> QED
  BY <1>1, <1>2, <1>3, <1>4, <1>5

\* An edit of the ranges of a copy, whatever it makes of them.
LEMMA RangesMayBe ==
    ASSUME NEW s, FilesHold(s), s.open, NEW f, NEW rs
    PROVE  FilesHold([s EXCEPT !.files[f].rs = rs])
<1> DEFINE r == [s EXCEPT !.files[f].rs = rs]
<1>1. DOMAIN r = EditFields /\ \A x \in EditFields \ {"files"} : r[x] = s[x]
  BY DEF FilesHold, EditFields
<1>2. r.files = [s.files EXCEPT ![f] = [s.files[f] EXCEPT !.rs = rs]]
  BY DEF FilesHold, EditFields
<1>3. DOMAIN r.files = 1..2 /\ \A g \in 1..2 : Shaped(r.files[g]) /\ ~r.files[g].enforce
  BY <1>2 DEF FilesHold, Shaped
<1> HIDE DEF r
<1> QED
  BY <1>1, <1>3 DEF FilesHold, EditFields, Shaped

\* An edit of a copy as a whole.
LEMMA FileMayBe ==
    ASSUME NEW s, FilesHold(s), s.open, NEW f \in 1..2, NEW g, Shaped(g), ~g.enforce
    PROVE  FilesHold([s EXCEPT !.files[f] = g])
<1> DEFINE r == [s EXCEPT !.files[f] = g]
<1>1. DOMAIN r = EditFields /\ \A x \in EditFields \ {"files"} : r[x] = s[x]
  BY DEF FilesHold, EditFields
<1>2. r.files = [s.files EXCEPT ![f] = g]
  BY DEF FilesHold, EditFields
<1>3. DOMAIN r.files = 1..2 /\ \A h \in 1..2 : Shaped(r.files[h]) /\ ~r.files[h].enforce
  BY <1>2 DEF FilesHold
<1> HIDE DEF r
<1> QED
  BY <1>1, <1>3 DEF FilesHold, EditFields

\* Which ions there are does not matter to how ranges lie.
LEMMA IonsMayBe ==
    ASSUME NEW s, FilesHold(s), s.open, NEW f \in 1..2, NEW q \in Seq(IonNames)
    PROVE  FilesHold([s EXCEPT !.files[f].ions = q])
<1> DEFINE g == [s.files[f] EXCEPT !.ions = q]
<1>1. Shaped(g) /\ ~g.enforce
  BY DEF FilesHold, Shaped
<1> HIDE DEF g
<1>2. FilesHold([s EXCEPT !.files[f] = g])
  BY <1>1, FileMayBe
<1>3. [s EXCEPT !.files[f].ions = q] = [s EXCEPT !.files[f] = g]
  BY DEF g, FilesHold, EditFields
<1> QED
  BY <1>2, <1>3

\* What does not touch the files, nor what OK hangs on.
LEMMA OthersHold ==
    ASSUME NEW s, FilesHold(s), NEW r, DOMAIN r = EditFields,
           \A x \in {"filter", "file", "cur", "open", "files"} : r[x] = s[x]
    PROVE  /\ FilesHold(r)
           /\ Checked(s) /\ (r.ready => s.ready) /\ (s.unchecked => r.unchecked) => Checked(r)
<1>1. FilesHold(r)
  BY DEF FilesHold, EditFields
<1>2. r.files = s.files /\ r.file = s.file /\ r.open = s.open
  OBVIOUS
<1> QED
  BY <1>1, <1>2 DEF Checked

\* A drag in the main window moves the range of the filter.
LEMMA MainDragHolds ==
    ASSUME EditInv, NEW f \in 1..2, NEW m \in Edit!Methods, NEW x \in Masses,
           NEW i \in DOMAIN now.filter[f].rs, Edit!MainDrag(f, i, m, x)
    PROVE  EditInv'
<1> DEFINE g == now.filter[f]
           h == CASE m = "lower" -> Edit!MoveRange(g, i, x, g.rs[i].hi)
                  [] m = "upper" -> Edit!MoveRange(g, i, g.rs[i].lo, x)
                  [] m = "both"  -> Edit!MoveBothRanges(g, i, x, x + (g.rs[i].hi - g.rs[i].lo))
<1>1. Shaped(g) /\ Sound(g) /\ x \in Int
  BY RangesAssumption DEF EditInv, FilesHold
<1>2. Shaped(h) /\ Sound(h)
  BY <1>1, MoveRangeFits DEF Edit!Methods
<1>3. now' = Edit!Edited([now EXCEPT !.filter[f] = h])
  BY DEF Edit!MainDrag, Edit!Becomes
<1> HIDE DEF h
<1>4. FilesHold([now EXCEPT !.filter[f] = h]) /\ ~[now EXCEPT !.filter[f] = h].open
  BY <1>2 DEF EditInv, FilesHold, EditFields, Edit!MainDrag
<1>5. FilesHold(now') /\ ~now'.open
  BY <1>3, <1>4, UpdatesHold DEF Edit!Edited, FilesHold, EditFields
<1> QED
  BY <1>5 DEF EditInv, Checked

\* The dialog copies what the filters have.
LEMMA OpenHolds ==
    ASSUME EditInv, Edit!OpenDialog
    PROVE  EditInv'
<1> DEFINE fs == [f \in 1..2 |-> [now.filter[f] EXCEPT !.enforce = FALSE]]
           regions == [p \in Edit!Plots |-> Edit!RegionsOf(fs[now.file[p]])]
           rows == Len(fs[now.file[1]].rs)
           bad == \E p \in Edit!Plots : ~Edit!SelfConsistent(fs[now.file[p]])
<1>1. now' = [now EXCEPT !.open = TRUE, !.files = fs, !.sel = 1, !.cur = now.file[1],
                         !.regions = regions, !.rows = rows, !.pending = <<>>, !.ready = TRUE,
                         !.unchecked = bad]
  BY DEF Edit!OpenDialog, Edit!Becomes
<1>2. DOMAIN fs = 1..2 /\ \A f \in 1..2 : Shaped(fs[f]) /\ ~fs[f].enforce
  BY DEF EditInv, FilesHold, Shaped
<1>3. bad \in BOOLEAN /\ (~bad => \A p \in Edit!Plots : Edit!SelfConsistent(fs[now.file[p]]))
  OBVIOUS
<1> HIDE DEF fs, regions, rows, bad
<1>4. DOMAIN now' = EditFields /\ now'.filter = now.filter /\ now'.file = now.file /\ now'.cur = now.file[1]
      /\ now'.files = fs /\ now'.unchecked = bad
  BY <1>1 DEF EditInv, FilesHold, EditFields
<1> QED
  BY <1>2, <1>3, <1>4 DEF EditInv, FilesHold, Checked, Edit!Plots

\* The dialog is closed, with the filters' files as they are or as they were
\* edited.
LEMMA CloseHolds ==
    ASSUME EditInv, Edit!OnOK \/ Edit!OnCancel
    PROVE  EditInv'
<1>1. ASSUME NEW s, FilesHold(s) PROVE FilesHold(Edit!Closed(s)) /\ ~Edit!Closed(s).open
  <2> DEFINE r == Edit!Closed(s)
  <2>1. DOMAIN r = EditFields
    BY <1>1 DEF FilesHold, Edit!Closed
  <2>2. r.filter = s.filter /\ r.file = s.file
    BY <1>1 DEF FilesHold, Edit!Closed, EditFields
  <2>3. ~r.open /\ r.cur = 1
    BY <1>1 DEF FilesHold, Edit!Closed, EditFields
  <2> HIDE DEF r
  <2>4. FilesHold(r) /\ ~r.open
    BY <1>1, <2>1, <2>2, <2>3 DEF FilesHold
  <2> QED
    BY <2>4 DEF r
<1>2. CASE Edit!OnCancel
  BY <1>1, <1>2 DEF Edit!OnCancel, Edit!Becomes, EditInv, Checked
<1>3. CASE Edit!OnOK
  <2> DEFINE q == [f \in 1..2 |-> IF \E p \in Edit!Plots : now.file[p] = f THEN now.files[f] ELSE now.filter[f]]
  <2>1. now' = Edit!Closed([now EXCEPT !.filter = q])
    BY <1>3 DEF Edit!OnOK, Edit!Becomes
  <2>2. DOMAIN q = 1..2 /\ \A f \in 1..2 : Shaped(q[f]) /\ Sound(q[f])
    BY <1>3 DEF Edit!OnOK, EditInv, FilesHold, Sound
  <2> HIDE DEF q
  <2>3. FilesHold([now EXCEPT !.filter = q])
    BY <2>2 DEF EditInv, FilesHold, EditFields
  <2> QED
    BY <1>1, <2>1, <2>3 DEF EditInv, Checked
<1> QED
  BY <1>2, <1>3

\* A cell of a pending range, which may complete it.
LEMMA PendingHolds ==
    ASSUME EditInv, NEW d, NEW col, NEW x, Edit!PendingCell(d, col, x)
    PROVE  EditInv'
<1> DEFINE q == [now.pending[d] EXCEPT ![col] = x]
           rs == Append(now.files[q.file].rs, Edit!Bounds(q.lo, q.hi, q.ion))
           out == Edit!SwapOut(now.pending, d)
           added == [now EXCEPT !.files[q.file].rs = rs, !.strayed = @ \/ q.file # now.cur, !.pending = out]
           s == IF Edit!Finished(q) THEN added ELSE [now EXCEPT !.pending[d] = q]
           w == Edit!WithRegions(Edit!WithRows(s))
<1>1. now' = [w EXCEPT !.unchecked = @ \/ Edit!Finished(q)]
  BY DEF Edit!PendingCell, Edit!Becomes
<1>2. now.open /\ Edit!Finished(q) \in BOOLEAN
  BY DEF Edit!PendingCell, Edit!Finished
<1> HIDE DEF rs, out
<1>3. CASE Edit!Finished(q)
  <2>1. FilesHold([now EXCEPT !.files[q.file].rs = rs])
    BY <1>2, RangesMayBe DEF EditInv
  <2> DEFINE f == q.file
             t == [now EXCEPT !.files[f].rs = rs]
  <2> HIDE DEF q
  <2>2. added = [t EXCEPT !.strayed = @ \/ f # now.cur, !.pending = out]
    BY DEF EditInv, FilesHold, EditFields
  <2> HIDE DEF t, added
  <2>3. FilesHold(added)
    BY <2>1, <2>2 DEF FilesHold, EditFields, t
  <2>4. FilesHold(w)
    BY <1>3, <2>3, UpdatesHold
  <2> HIDE DEF w
  <2>5. FilesHold(now') /\ now'.unchecked
    BY <1>1, <1>3, <2>4 DEF FilesHold, EditFields
  <2> QED
    BY <2>5 DEF EditInv, Checked
<1>4. CASE ~Edit!Finished(q)
  <2> HIDE DEF q
  <2>1. s = [now EXCEPT !.pending[d] = q]
    BY <1>4
  <2> HIDE DEF s
  <2>2. DOMAIN s = EditFields /\ \A y \in EditFields \ {"pending"} : s[y] = now[y]
    BY <2>1 DEF EditInv, FilesHold, EditFields
  <2>3. DOMAIN w = EditFields /\ \A y \in EditFields \ {"pending", "regions", "rows"} : w[y] = now[y]
    BY <2>2 DEF Edit!WithRegions, Edit!WithRows, EditFields
  <2> HIDE DEF w
  <2>4. /\ DOMAIN now' = EditFields
        /\ \A y \in EditFields \ {"pending", "regions", "rows", "unchecked"} : now'[y] = now[y]
        /\ now'.unchecked = (now.unchecked \/ Edit!Finished(q))
    BY <1>1, <2>3 DEF EditFields
  <2> QED
    BY <1>4, <2>4, OthersHold DEF EditInv, EditFields
<1> QED
  BY <1>3, <1>4

\* An ion of a new name leaves a consistent file consistent.
LEMMA NewIonHolds ==
    ASSUME EditInv, NEW n \in IonNames, NEW last \in BOOLEAN, Edit!NewIon(n, last)
    PROVE  EditInv'
<1> DEFINE c == now.cur
           q == Append(now.files[c].ions, n)
           t == [now EXCEPT !.files[c].ions = q]
           s == Edit!Edited(t)
<1>1. now' = IF last THEN Edit!Ready(s) ELSE s
  BY DEF Edit!NewIon, Edit!Becomes
<1>2. now.open /\ c \in 1..2 /\ now.files[c].ions \in Seq(IonNames) /\ DOMAIN now.files = 1..2
      /\ Shaped(now.files[c])
  BY DEF Edit!NewIon, EditInv, FilesHold, Shaped
<1>3. q \in Seq(IonNames) /\ Len(q) = Len(now.files[c].ions) + 1 /\ q[Len(q)] = n
      /\ \A k \in 1..Len(now.files[c].ions) : q[k] = now.files[c].ions[k]
  <2> DEFINE z == now.files[c].ions
             p == Append(z, n)
  <2>1. z \in Seq(IonNames)
    BY <1>2
  <2>2. /\ p \in Seq(IonNames) /\ Len(p) = Len(z) + 1 /\ p[Len(z) + 1] = n
        /\ \A k \in 1..Len(z) : p[k] = z[k]
    <3> HIDE DEF z
    <3> QED
      BY <2>1, AppendProperties
  <2> HIDE DEF p
  <2>3. p[Len(p)] = n
    BY <2>2
  <2>4. q = p
    BY DEF p
  <2> HIDE DEF q
  <2> QED
    BY <2>2, <2>3, <2>4
<1> HIDE DEF q
<1>4. FilesHold(t)
  BY <1>2, <1>3, IonsMayBe DEF EditInv
<1>5. FilesHold(s)
  BY <1>4, UpdatesHold
<1>6. CASE last
  BY <1>1, <1>5, <1>6, UpdatesHold DEF EditInv
<1>7. CASE ~last
  <2>1. Edit!SelfConsistent(now.files[c]) => Edit!SelfConsistent([now.files[c] EXCEPT !.ions = q])
    <3>1. ASSUME Edit!IsInjective(now.files[c].ions) PROVE Edit!IsInjective(q)
      <4>1. \A k \in 1..Len(now.files[c].ions) : now.files[c].ions[k] # n
        BY <1>2 DEF Edit!NewIon, Edit!Range
      <4>2. \A j, k \in 1..Len(now.files[c].ions) :
              now.files[c].ions[j] = now.files[c].ions[k] => j = k
        BY <1>2, <3>1 DEF Edit!IsInjective
      <4> DEFINE L == Len(now.files[c].ions)
      <4>3. L \in Nat /\ Len(q) = L + 1 /\ DOMAIN q = 1..(L + 1) /\ q[L + 1] = n
        BY <1>2, <1>3
      <4>4. ASSUME NEW j \in 1..(L + 1), NEW k \in 1..(L + 1), q[j] = q[k] PROVE j = k
        <5>1. CASE j \in 1..L /\ k \in 1..L
          BY <1>3, <4>2, <4>4, <5>1
        <5>2. CASE j = L + 1 /\ k \in 1..L
          BY <1>3, <4>1, <4>3, <4>4, <5>2
        <5>3. CASE k = L + 1 /\ j \in 1..L
          BY <1>3, <4>1, <4>3, <4>4, <5>3
        <5>4. (j \in 1..L \/ j = L + 1) /\ (k \in 1..L \/ k = L + 1)
          <6> HIDE DEF L
          <6> QED
            BY <4>3
        <5> QED
          BY <5>1, <5>2, <5>3, <5>4
      <4> QED
        BY <4>3, <4>4 DEF Edit!IsInjective
    <3> QED
      BY <1>2, <3>1 DEF Edit!SelfConsistent, Shaped
  <2>2. t.files = [now.files EXCEPT ![c] = [now.files[c] EXCEPT !.ions = q]]
    BY DEF EditInv, FilesHold, EditFields
  <2>3. /\ s.files = t.files /\ s.file = now.file /\ s.open = now.open /\ s.ready = now.ready
        /\ s.unchecked = now.unchecked
    BY DEF EditInv, FilesHold, EditFields, Edit!Edited
  <2> HIDE DEF s, t
  <2>4. Checked(s)
    BY <1>2, <2>1, <2>2, <2>3 DEF EditInv, FilesHold, Checked
  <2> QED
    BY <1>1, <1>5, <1>7, <2>4 DEF EditInv
<1> QED
  BY <1>6, <1>7

\* At the start the filters have what was opened.
LEMMA EditStart ==
    ASSUME Edit!Init
    PROVE  EditInv
<1>1. PICK q \in FirstFiles, f \in {<<1, 1>>, <<1, 2>>} :
        now = [filter |-> q, file |-> f, edits |-> 0, strayed |-> FALSE, open |-> FALSE,
               files |-> <<>>, regions |-> <<>>, sel |-> 1, cur |-> 1, rows |-> 0,
               pending |-> <<>>, ready |-> TRUE, unchecked |-> FALSE]
  BY DEF Edit!Init
<1>2. q \in [1..2 -> Edit!RangeFile] /\ \A g \in 1..2 : q[g].enforce => Edit!WellApart(q[g])
  BY RangesAssumption
<1>3. \A g \in 1..2 : Shaped(q[g]) /\ Sound(q[g])
  BY <1>2 DEF Edit!RangeFile, Shaped, Sound, Row
<1>4. \A p \in Edit!Plots : f[p] \in 1..2
  BY DEF Edit!Plots
<1>5. now.filter = q /\ now.file = f /\ ~now.open /\ now.cur = 1 /\ DOMAIN now = EditFields
  BY <1>1 DEF EditFields
<1> QED
  BY <1>2, <1>3, <1>4, <1>5 DEF EditInv, FilesHold, Checked

\* Every step of the range editor.
LEMMA EditStep ==
    ASSUME EditInv, Edit!Next
    PROVE  EditInv'
<1>0. FilesHold(now) /\ Checked(now) /\ now.cur \in 1..2
  BY DEF EditInv, FilesHold
<1>a. ASSUME NEW s, FilesHold(s)
      PROVE  FilesHold(Edit!Ready(Edit!WithRegions(Edit!WithRows(Edit!Edited(s)))))
                                       /\ Checked(Edit!Ready(Edit!WithRegions(Edit!WithRows(Edit!Edited(s)))))
  BY <1>a, UpdatesHold
<1>1. ASSUME NEW f \in 1..2, NEW m \in Edit!Methods, NEW x \in Masses,
             NEW i \in DOMAIN now.filter[f].rs, Edit!MainDrag(f, i, m, x)
      PROVE  EditInv'
  BY <1>1, MainDragHolds
<1>2. ASSUME NEW row, NEW col, NEW x, Edit!Cell(row, col, x) PROVE EditInv'
  <2> DEFINE c == now.cur
             rs == [now.files[c].rs EXCEPT ![row] = [@ EXCEPT ![col] = x]]
             t == [now EXCEPT !.files[c].rs = rs]
             u == [now EXCEPT !.files[c].rs[row][col] = x]
  <2>1. now.open /\ now' = Edit!Ready(Edit!WithRegions(Edit!Edited(u)))
    BY <1>2 DEF Edit!Cell, Edit!Becomes
  <2>2. FilesHold(t)
    BY <1>0, <2>1, RangesMayBe
  <2>3. t = u
    OBVIOUS
  <2> HIDE DEF t, u
  <2> QED
    BY <2>1, <2>2, <2>3, UpdatesHold DEF EditInv
<1>3. ASSUME Edit!AddPending PROVE EditInv'
  <2> DEFINE q == Append(now.pending, [file |-> now.cur, lo |-> Edit!Unset, hi |-> Edit!Unset, ion |-> Edit!Unset])
             t == [now EXCEPT !.pending = q]
  <2>1. now' = Edit!Ready(Edit!WithRows(Edit!Edited(t)))
    BY <1>3 DEF Edit!AddPending, Edit!Becomes
  <2> HIDE DEF q
  <2>2. FilesHold(t)
    BY <1>0, OthersHold DEF FilesHold, EditFields
  <2> HIDE DEF t
  <2> QED
    BY <2>1, <2>2, UpdatesHold DEF EditInv
<1>4. ASSUME NEW d, NEW col, NEW x, Edit!PendingCell(d, col, x) PROVE EditInv'
  BY <1>4, PendingHolds
<1>5. ASSUME NEW n \in IonNames, NEW b \in BOOLEAN, Edit!NewIon(n, b) PROVE EditInv'
  BY <1>5, NewIonHolds
<1>6. ASSUME NEW n \in IonNames, NEW k \in Edit!CurIons, Edit!RenameIon(k, n) PROVE EditInv'
  <2> DEFINE c == now.cur
             q == [now.files[c].ions EXCEPT ![k] = n]
             t == [now EXCEPT !.files[c].ions = q]
             u == [now EXCEPT !.files[c].ions[k] = n]
  <2>1. now.open /\ now' = Edit!Ready(Edit!Edited(u))
    BY <1>6 DEF Edit!RenameIon, Edit!Becomes
  <2>2. now.files[c].ions \in Seq(IonNames) /\ c \in 1..2
    BY <1>0, <2>1 DEF FilesHold, Shaped
  <2>3. q \in Seq(IonNames)
    <3>1. ASSUME NEW e \in Seq(IonNames) PROVE [e EXCEPT ![k] = n] \in Seq(IonNames)
      <4>1. e \in [1..Len(e) -> IonNames] /\ Len(e) \in Nat
        OBVIOUS
      <4> DEFINE L == Len(e)
      <4> HIDE DEF L
      <4>2. e \in [1..L -> IonNames] /\ L \in Nat
        BY <4>1 DEF L
      <4>3. [e EXCEPT ![k] = n] \in [1..L -> IonNames]
        BY <4>2
      <4> QED
        BY <4>2, <4>3
    <3> QED
      BY <2>2, <3>1
  <2>4. t = u
    OBVIOUS
  <2> HIDE DEF q
  <2>5. FilesHold(t)
    BY <1>0, <2>1, <2>2, <2>3, IonsMayBe
  <2> HIDE DEF t, u
  <2> QED
    BY <2>1, <2>4, <2>5, UpdatesHold DEF EditInv
<1>7. ASSUME NEW row, Edit!RemoveRange(row) PROVE EditInv'
  <2> DEFINE c == now.cur
             g == Edit!EraseRange(now.files[c], row)
  <2>1. now.open /\ now' = Edit!Ready(Edit!WithRegions(Edit!WithRows(Edit!Edited([now EXCEPT !.files[c] = g]))))
    BY <1>7 DEF Edit!RemoveRange, Edit!Becomes
  <2>2. Shaped(g) /\ ~g.enforce
    BY <1>0, <2>1 DEF Edit!EraseRange, FilesHold, Shaped
  <2> HIDE DEF g
  <2>3. FilesHold([now EXCEPT !.files[c] = g])
    BY <1>0, <2>1, <2>2, FileMayBe
  <2> QED
    BY <1>a, <2>1, <2>3 DEF EditInv
<1>8. ASSUME NEW d, Edit!RemovePending(d) PROVE EditInv'
  <2> DEFINE q == Edit!SwapOut(now.pending, d)
             t == [now EXCEPT !.pending = q]
  <2>1. now' = Edit!Ready(Edit!WithRegions(Edit!WithRows(t)))
    BY <1>8 DEF Edit!RemovePending, Edit!Becomes
  <2> HIDE DEF q
  <2>2. FilesHold(t)
    BY <1>0, OthersHold DEF FilesHold, EditFields
  <2> HIDE DEF t
  <2> QED
    BY <2>1, <2>2, UpdatesHold DEF EditInv
<1>9. ASSUME NEW k \in Edit!CurIons, Edit!RemoveIon(k) PROVE EditInv'
  <2> DEFINE c == now.cur
             f == now.files[c]
             left == Edit!MultiErase(f.rs, k)
             rs == [i \in DOMAIN left |-> [left[i] EXCEPT !.ion = IF @ > k THEN @ - 1 ELSE @]]
             q == Edit!RemoveAt(f.ions, k)
             g == [f EXCEPT !.ions = q, !.rs = rs]
             b == now.strayed \/ \E d \in DOMAIN now.pending : now.pending[d].ion # Edit!Unset
             t == [now EXCEPT !.files[c] = g]
  <2>1. now.open
          /\ now' = Edit!Ready(Edit!WithRegions(Edit!WithRows(Edit!Edited([now EXCEPT !.files[c] = g, !.strayed = b]))))
    BY <1>9 DEF Edit!RemoveIon, Edit!EraseIon, Edit!Becomes
  <2>2. Shaped(f) /\ ~f.enforce /\ k \in DOMAIN f.ions
    BY <1>0, <2>1 DEF FilesHold, Edit!CurIons
  <2>3. q = Without(f.ions, k)
    BY DEF Edit!RemoveAt, Without
  <2>4. q \in Seq(IonNames)
    BY <2>2, <2>3, WithoutType DEF Shaped
  <2> HIDE DEF rs, q, b, f
  <2>5. Shaped(g) /\ ~g.enforce
    BY <2>2, <2>4 DEF Shaped
  <2> HIDE DEF g
  <2>6. FilesHold(t)
    BY <1>0, <2>1, <2>5, FileMayBe
  <2>7. FilesHold([t EXCEPT !.strayed = b])
    BY <2>6, OthersHold DEF FilesHold, EditFields
  <2>8. [now EXCEPT !.files[c] = g, !.strayed = b] = [t EXCEPT !.strayed = b]
    OBVIOUS
  <2> HIDE DEF t
  <2> QED
    BY <1>a, <2>1, <2>7, <2>8 DEF EditInv
<1>10. ASSUME NEW g, NEW m, NEW x, Edit!Drag(g, m, x) PROVE EditInv'
  <2> DEFINE p == now.sel
             f == now.file[p]
             reg == now.regions[p][g]
             rng == now.files[f].rs[reg.id]
             new == Edit!Moved(rng, m, x)
             row == IF new.lo = new.hi THEN rng ELSE new
             id == reg.id
             moved == Edit!Moved(reg, m, x)
             rs == [now.files[f].rs EXCEPT ![id] = row]
             t == [now EXCEPT !.files[f].rs = rs]
             u == [now EXCEPT !.files[f].rs[id] = row, !.regions[p][g] = moved]
             v == [t EXCEPT !.regions[p][g] = moved]
  <2>1. now.open /\ now' = Edit!Ready(Edit!WithRows(Edit!Edited(u)))
    BY <1>10 DEF Edit!Drag, Edit!Becomes
  <2>2. FilesHold(t)
    BY <1>0, <2>1, RangesMayBe
  <2> HIDE DEF row, moved, id, p, f
  <2>3. u = v
    OBVIOUS
  <2> HIDE DEF t, u
  <2>4. FilesHold(v)
    BY <2>2, OthersHold DEF FilesHold, EditFields
  <2> HIDE DEF v
  <2> QED
    BY <2>1, <2>3, <2>4, UpdatesHold DEF EditInv
<1>11. CASE Edit!Editing
  <2>1. CASE \E d \in DOMAIN now.pending, col \in {"lo", "hi", "ion"}, x \in Masses : Edit!PendingCell(d, col, x)
    BY <1>4, <2>1
  <2>2. CASE \E row \in 1..now.rows, col \in {"lo", "hi", "ion"}, x \in Masses : Edit!Cell(row, col, x)
    BY <1>2, <2>2
  <2>3. CASE \E m \in Edit!Methods, x \in Masses : \E g \in Edit!CurRegions : Edit!Drag(g, m, x)
    BY <1>10, <2>3
  <2> QED
    BY <1>1, <1>3, <1>5, <1>6, <1>7, <1>8, <1>9, <1>11, <2>1, <2>2, <2>3 DEF Edit!Editing
<1>12. CASE Edit!OpenDialog
  BY <1>12, OpenHolds
<1>13. CASE Edit!OnOK \/ Edit!OnCancel
  BY <1>13, CloseHolds
<1>14. ASSUME NEW p \in Edit!Plots, Edit!OnListPlots(p) PROVE EditInv'
  <2>1. now' = [now EXCEPT !.sel = p, !.cur = now.file[p]]
    BY <1>14 DEF Edit!OnListPlots, Edit!Becomes
  <2>2. DOMAIN now' = EditFields /\ now'.cur = now.file[p] /\ \A y \in EditFields \ {"sel", "cur"} : now'[y] = now[y]
    BY <1>0, <2>1 DEF FilesHold, EditFields
  <2>3. /\ now'.filter = now.filter /\ now'.file = now.file /\ now'.open = now.open /\ now'.files = now.files
        /\ now'.ready = now.ready /\ now'.unchecked = now.unchecked
    BY <2>2 DEF EditFields
  <2> QED
    BY <1>0, <2>2, <2>3 DEF EditInv, FilesHold, Checked
<1> QED
  BY <1>11, <1>12, <1>13, <1>14 DEF Edit!Next

\* What the themes ask of the ranges.
LEMMA EditKeeps == EditInv => Edit!DragKeepsDisjoint /\ Edit!OKIsChecked
BY DEF EditInv, FilesHold, Sound, Edit!WellApart, Edit!DragKeepsDisjoint, Checked, Edit!OKIsChecked

-----------------------------------------------------------------------------
\* However they are dragged, typed, moved and erased, ranges that are to be
\* consistent stay apart, the range editor's OK is of consistent ranges
\* (rangeEditDialog.cpp), and no crop takes more than all (cropPanel.cpp):
\* for all range files, masses and pending cells, and for all lengths.
THEOREM DragsValid == Spec => []DragsStayValid
<1> DEFINE Inv == (part = Edit!Name => EditInv) /\ (part = Crop!Name => CropInv)
<1>1. Init => Inv
  BY EditStart, CropStart DEF Init
<1>2. Inv /\ [Next]_workVars => Inv'
  <2>1. CASE part = Edit!Name /\ UNCHANGED part /\ Edit!Next
    <3>1. part' # Crop!Name
      BY <2>1 DEF Edit!Name, Crop!Name
    <3> QED
      BY <2>1, <3>1, EditStep
  <2>2. CASE part = Crop!Name /\ UNCHANGED part /\ Crop!Next
    <3>1. part' # Edit!Name
      BY <2>2 DEF Edit!Name, Crop!Name
    <3> QED
      BY <2>2, <3>1, CropStep
  <2>3. CASE part # Edit!Name /\ part # Crop!Name /\ UNCHANGED part
    BY <2>3 DEF Edit!Name, Crop!Name
  <2>4. CASE UNCHANGED workVars
    <3>1. (EditInv => EditInv') /\ (CropInv => CropInv')
      BY <2>4 DEF workVars, EditInv, CropInv
    <3> QED
      BY <2>4, <3>1 DEF workVars, Edit!Name, Crop!Name
  <2> QED
    BY <2>1, <2>2, <2>3, <2>4 DEF Next, View!Name, File!Name, Stash!Name, Anim!Name, Haz!Name,
       Plot!Name, Edit!Name, Rng!Name, Crop!Name, Sel!Name, Conf!Name
<1>3. Inv => DragsStayValid
  <2>1. CropInv => Crop!CropsAreValid
    BY DEF CropInv, ValidCrops, Crop!CropsAreValid
  <2> QED
    BY <2>1, EditKeeps DEF DragsStayValid
<1> QED
  BY <1>1, <1>2, <1>3, PTL DEF Spec

-----------------------------------------------------------------------------
(* Finitely many naturals *)

\* Of naturals that there are, one is least.
LEMMA LeastNatural ==
    ASSUME NEW T \in SUBSET Nat, T # {}
    PROVE  \E n \in T : \A m \in T : n <= m
<1> DEFINE R == OpToRel(<, Nat)
<1>1. IsWellFoundedOn(R, Nat)
  BY NatLessThanWellFounded
<1>2. \A x, y \in Nat : x < y => <<x, y>> \in R
  BY DEF OpToRel
<1> HIDE DEF R
<1>3. PICK n \in T : \A m \in T : ~(<<m, n>> \in R)
  BY <1>1, WFMin
<1>4. ASSUME NEW m \in T PROVE n <= m
  <2> SUFFICES ASSUME ~(n <= m) PROVE FALSE
    OBVIOUS
  <2>1. m \in Nat /\ n \in Nat /\ m < n
    OBVIOUS
  <2> QED
    BY <1>2, <1>3, <2>1
<1> QED
  BY <1>4

\* Of finitely many places, one has the greatest value, and one the least.
LEMMA GreatestPlace ==
    ASSUME NEW L \in Nat, NEW at \in [1..L -> Nat], NEW I \in SUBSET (1..L), I # {}
    PROVE  \E i \in I : \A j \in I : at[j] <= at[i]
<1> DEFINE Bounded(n) == \E b \in Nat : \A j \in 1..n : at[j] <= b
           Bad == {n \in 0..L : ~Bounded(n)}
<1>1. Bad = {}
  <2> SUFFICES ASSUME Bad # {} PROVE FALSE
    OBVIOUS
  <2>1. PICK n \in Bad : \A m \in Bad : n <= m
    <3>1. Bad \in SUBSET Nat
      OBVIOUS
    <3> HIDE DEF Bad
    <3> QED
      BY <3>1, LeastNatural
  <2>2. n # 0
    <3>1. \A j \in 1..0 : at[j] <= 0
      OBVIOUS
    <3> QED
      BY <3>1, <2>1
  <2>3. n - 1 \in 0..L /\ n - 1 \notin Bad /\ n \in 1..L
    <3>1. n \in 0..L
      BY <2>1
    <3> HIDE DEF Bad
    <3> QED
      BY <2>1, <2>2, <3>1
  <2>4. PICK b \in Nat : \A j \in 1..(n - 1) : at[j] <= b
    BY <2>3
  <2>5. at[n] \in Nat
    BY <2>3
  <2>6. PICK c \in Nat : at[n] <= c /\ b <= c
    <3> DEFINE x == at[n]
    <3>0. x \in Nat /\ b \in Nat
      BY <2>4, <2>5
    <3> HIDE DEF x
    <3>1. x <= b \/ b <= x
      BY <3>0
    <3>2. \E c \in Nat : x <= c /\ b <= c
      <4>1. x <= x /\ b <= b
        BY <3>0
      <4> QED
        BY <3>0, <3>1, <4>1
    <3> QED
      BY <3>2 DEF x
  <2> HIDE DEF Bad
  <2>7. ASSUME NEW j \in 1..n PROVE at[j] <= c
    <3>1. CASE j = n
      BY <2>6, <3>1
    <3>2. CASE j # n
      <4>1. j \in 1..(n - 1) /\ j \in 1..L
        BY <2>3, <3>2
      <4>2. at[j] <= b /\ at[j] \in Nat
        BY <2>4, <4>1
      <4> QED
        BY <2>6, <4>2
    <3> QED
      BY <3>1, <3>2
  <2>8. Bounded(n)
    BY <2>6, <2>7
  <2> QED
    BY <2>1, <2>8 DEF Bad
<1>2. PICK b \in Nat : \A j \in 1..L : at[j] <= b
  <2>1. L \in 0..L
    OBVIOUS
  <2> QED
    BY <1>1, <2>1
<1> DEFINE T == {n \in Nat : \A j \in I : at[j] <= n}
<1>3. PICK n \in T : \A m \in T : n <= m
  <2>1. b \in T
    BY <1>2
  <2> QED
    BY <2>1, LeastNatural
<1>4. CASE n = 0
  <2>1. PICK i \in I : TRUE
    OBVIOUS
  <2>2. \A j \in I : at[j] = 0 /\ at[j] \in Nat
    BY <1>3, <1>4
  <2> QED
    BY <2>1, <2>2
<1>5. CASE n # 0
  <2>1. n \in Nat /\ n - 1 \in Nat /\ n - 1 \notin T
    BY <1>3, <1>5
  <2>2. PICK i \in I : ~(at[i] <= n - 1)
    BY <2>1
  <2>3. at[i] \in Nat /\ \A j \in I : at[j] <= n
    BY <1>3
  <2> QED
    BY <2>1, <2>2, <2>3
<1> QED
  BY <1>4, <1>5

\* And one the least.
LEMMA LeastPlace ==
    ASSUME NEW L \in Nat, NEW at \in [1..L -> Nat], NEW I \in SUBSET (1..L), I # {}
    PROVE  \E i \in I : \A j \in I : at[i] <= at[j]
<1> DEFINE T == {at[i] : i \in I}
<1>1. PICK n \in T : \A m \in T : n <= m
  <2>1. T \in SUBSET Nat /\ T # {}
    OBVIOUS
  <2> QED
    BY <2>1, LeastNatural
<1> QED
  BY <1>1

-----------------------------------------------------------------------------
(* Animation *)

\* The frames of a key frame property: there is a first and a last.
LEMMA Extent ==
    ASSUME NEW k \in FrameProps
    PROVE  Anim!MinFrame(k) \in Nat /\ Anim!MaxFrame(k) \in Nat /\ Anim!MinFrame(k) <= Anim!MaxFrame(k)
<1> DEFINE L == Len(k.data)
           at == [i \in 1..L |-> k.data[i].at]
           T == {k.data[i].at : i \in DOMAIN k.data}
<1>0. k.data \in Seq([at : Nat, val : Nat]) /\ k.data # <<>>
  BY FramesAssumption DEF Anim!IsFrameProp
<1>1. L \in Nat /\ 1..L # {} /\ DOMAIN k.data = 1..L
  <2> DEFINE q == k.data
  <2> HIDE DEF q
  <2>1. q \in Seq([at : Nat, val : Nat]) /\ q # <<>>
    BY <1>0 DEF q
  <2>2. Len(q) \in Nat /\ DOMAIN q = 1..Len(q) /\ Len(q) # 0
    BY <2>1, EmptySeq
  <2>3. L = Len(q) /\ DOMAIN k.data = DOMAIN q
    BY DEF q
  <2> HIDE DEF L
  <2>4. 1 \in 1..L
    BY <2>2, <2>3
  <2> QED
    BY <2>2, <2>3, <2>4
<1>2. at \in [1..L -> Nat]
  <2> DEFINE q == k.data
  <2>0. q \in Seq([at : Nat, val : Nat]) /\ DOMAIN q = 1..L
    BY <1>0, <1>1
  <2> HIDE DEF q, L
  <2>a. \A i \in DOMAIN q : q[i] \in [at : Nat, val : Nat]
    <3> DEFINE S == [at : Nat, val : Nat]
    <3>1. q \in Seq(S)
      BY <2>0
    <3> HIDE DEF S
    <3>2. \A i \in 1..Len(q) : q[i] \in S /\ DOMAIN q = 1..Len(q)
      BY <3>1
    <3>3. DOMAIN q = 1..Len(q)
      BY <3>1
    <3> QED
      BY <3>2, <3>3 DEF S
  <2>1. \A i \in 1..L : k.data[i] \in [at : Nat, val : Nat]
    BY <2>0, <2>a DEF q
  <2>2. \A i \in 1..L : k.data[i].at \in Nat
    BY <2>1
  <2> QED
    BY <2>2
<1>3. T = {at[i] : i \in 1..L} /\ T \subseteq Nat
  BY <1>0, <1>1, <1>2
<1> HIDE DEF L, at, T
<1>4. PICK g \in 1..L : \A j \in 1..L : at[j] <= at[g]
  BY <1>1, <1>2, GreatestPlace
<1>5. PICK h \in 1..L : \A j \in 1..L : at[h] <= at[j]
  BY <1>1, <1>2, LeastPlace
<1>6. at[g] \in T /\ \A y \in T : at[g] >= y
  BY <1>2, <1>3, <1>4
<1>7. at[h] \in T /\ \A y \in T : at[h] <= y
  BY <1>3, <1>5
<1>8. Anim!Max(T) \in T /\ \A y \in T : Anim!Max(T) >= y
  BY <1>6 DEF Anim!Max
<1>9. Anim!Min(T) \in T /\ \A y \in T : Anim!Min(T) <= y
  BY <1>7 DEF Anim!Min
<1> QED
  BY <1>3, <1>8, <1>9 DEF Anim!MinFrame, Anim!MaxFrame, T

\* The value due at a frame, of keys and a tree that may not be those of now.
DueOf(ks, b, p, f) ==
    LET begun == {i \in DOMAIN ks : ks[i].prop = p /\ Anim!MinFrame(ks[i]) <= f}
        i     == CHOOSE i \in begun : \A j \in begun : Anim!MinFrame(ks[j]) <= Anim!MinFrame(ks[i])
        k     == ks[i]
    IN  IF begun = {} THEN b[p]
        ELSE Anim!Interpolated(k, IF f < Anim!MaxFrame(k) THEN f ELSE Anim!MaxFrame(k))

\* The key frames of a property that have begun at a frame.
Begun(ks, p, f) == {i \in DOMAIN ks : ks[i].prop = p /\ Anim!MinFrame(ks[i]) <= f}

\* Key frames that do not contradict each other follow each other, so that
\* what began last also ends last.
LEMMA LastBegun ==
    ASSUME NEW ks \in Seq(FrameProps), Anim!Consistent(ks), NEW p, NEW f \in Nat, NEW i \in Begun(ks, p, f),
           \A j \in Begun(ks, p, f) : Anim!MaxFrame(ks[j]) <= Anim!MaxFrame(ks[i])
    PROVE  \A b : DueOf(ks, b, p, f)
                    = Anim!Interpolated(ks[i], IF f < Anim!MaxFrame(ks[i]) THEN f ELSE Anim!MaxFrame(ks[i]))
<1> DEFINE S == Begun(ks, p, f)
<1>1. ASSUME NEW a \in S, NEW c \in S, a # c
      PROVE  /\ Anim!MaxFrame(ks[a]) < Anim!MinFrame(ks[c]) \/ Anim!MaxFrame(ks[c]) < Anim!MinFrame(ks[a])
             /\ Anim!MinFrame(ks[a]) \in Nat /\ Anim!MaxFrame(ks[a]) \in Nat
                /\ Anim!MinFrame(ks[a]) <= Anim!MaxFrame(ks[a])
             /\ Anim!MinFrame(ks[c]) \in Nat /\ Anim!MaxFrame(ks[c]) \in Nat
                /\ Anim!MinFrame(ks[c]) <= Anim!MaxFrame(ks[c])
  <2>1. a \in DOMAIN ks /\ c \in DOMAIN ks /\ ks[a].prop = ks[c].prop
    BY DEF Begun
  <2>2. ks[a] \in FrameProps /\ ks[c] \in FrameProps
    BY <2>1
  <2> QED
    BY <1>1, <2>1, <2>2, Extent DEF Anim!Consistent
<1>2. ASSUME NEW j \in S, j # i PROVE Anim!MinFrame(ks[j]) < Anim!MinFrame(ks[i])
  BY <1>1, <1>2
<1>a. Anim!MinFrame(ks[i]) \in Nat
  <2>1. ks[i] \in FrameProps
    BY DEF Begun
  <2> QED
    BY <2>1, Extent
<1>3. \A j \in S : Anim!MinFrame(ks[j]) <= Anim!MinFrame(ks[i])
  BY <1>2, <1>a, <1>1
<1>4. ASSUME NEW c \in S, \A j \in S : Anim!MinFrame(ks[j]) <= Anim!MinFrame(ks[c]) PROVE c = i
  <2>1. ASSUME c # i PROVE FALSE
    <3>1. Anim!MinFrame(ks[c]) < Anim!MinFrame(ks[i]) /\ Anim!MinFrame(ks[i]) <= Anim!MinFrame(ks[c])
      BY <1>2, <1>4, <2>1
    <3> QED
      BY <1>1, <1>a, <2>1, <3>1
  <2> QED
    BY <2>1
<1>5. (CHOOSE c \in S : \A j \in S : Anim!MinFrame(ks[j]) <= Anim!MinFrame(ks[c])) = i
  BY <1>3, <1>4
<1>6. S = {c \in DOMAIN ks : ks[c].prop = p /\ Anim!MinFrame(ks[c]) <= f} /\ S # {}
  BY DEF Begun
<1>7. ASSUME NEW b, S # {}
      PROVE  DueOf(ks, b, p, f) = Anim!Interpolated(ks[i], IF f < Anim!MaxFrame(ks[i]) THEN f ELSE Anim!MaxFrame(ks[i]))
  <2> DEFINE c == CHOOSE c \in S : \A j \in S : Anim!MinFrame(ks[j]) <= Anim!MinFrame(ks[c])
  <2>1. DueOf(ks, b, p, f) = Anim!Interpolated(ks[c], IF f < Anim!MaxFrame(ks[c]) THEN f ELSE Anim!MaxFrame(ks[c]))
    BY <1>7 DEF DueOf, Begun
  <2>2. c = i
    BY <1>5
  <2> HIDE DEF c
  <2> QED
    BY <2>1, <2>2
<1> QED
  BY <1>6, <1>7

\* Setting a frame makes every property what is due at it, if it was what was
\* due at the frame before.
LEMMA FrameSets ==
    ASSUME NEW ks \in Seq(FrameProps), Anim!Consistent(ks), NEW f \in Nat, NEW t, NEW b, NEW p \in Props,
           t[p] = IF f = 0 THEN b[p] ELSE DueOf(ks, b, p, f - 1)
    PROVE  Anim!ModifiedTree(t, ks, f)[p] = DueOf(ks, b, p, f)
<1> DEFINE set == {ks[i].prop : i \in Anim!Active(ks, f) \cup Anim!Held(ks, f)}
           L == Len(ks)
           lo == [i \in 1..L |-> Anim!MinFrame(ks[i])]
           hi == [i \in 1..L |-> Anim!MaxFrame(ks[i])]
           S == Begun(ks, p, f)
           on == {i \in Anim!Active(ks, f) : ks[i].prop = p}
           ended == {i \in DOMAIN ks : ks[i].prop = p /\ Anim!MaxFrame(ks[i]) <= f}
<1>1. Anim!ModifiedTree(t, ks, f)[p] = IF p \in set THEN Anim!ValueAt(ks, p, f) ELSE t[p]
  BY DEF Anim!ModifiedTree
<1>2. L \in Nat /\ DOMAIN ks = 1..L /\ \A i \in 1..L : ks[i] \in FrameProps
  OBVIOUS
<1>3. lo \in [1..L -> Nat] /\ hi \in [1..L -> Nat] /\ \A i \in 1..L : lo[i] <= hi[i]
                                                         /\ lo[i] = Anim!MinFrame(ks[i])
                                                            /\ hi[i] = Anim!MaxFrame(ks[i])
  BY <1>2, Extent
<1> HIDE DEF L, lo, hi
<1>4. S = {i \in 1..L : ks[i].prop = p /\ lo[i] <= f}
  BY <1>2, <1>3 DEF Begun
<1>5. on = {i \in 1..L : ks[i].prop = p /\ lo[i] <= f /\ f <= hi[i]}
  BY <1>2, <1>3 DEF Anim!Active
<1>6. ended = {i \in 1..L : ks[i].prop = p /\ hi[i] <= f}
  BY <1>2, <1>3
<1>7. \A i, j \in 1..L : i # j /\ ks[i].prop = ks[j].prop => hi[i] < lo[j] \/ hi[j] < lo[i]
  BY <1>2, <1>3 DEF Anim!Consistent
<1>8. on \subseteq S /\ ended \subseteq S
  BY <1>3, <1>4, <1>5, <1>6
<1>9. CASE on # {}
  <2>1. PICK i \in on : TRUE
    BY <1>9
  <2>2. \A j \in on : j = i
    BY SMTT(30), <1>3, <1>5, <1>7
  <2>3. Anim!Min(on) = i
    <3>1. on = {i} /\ i \in 1..L
      BY <2>2, <1>5
    <3>2. \A y \in {i} : i <= y
      BY <3>1, <1>2
    <3> QED
      BY <3>1, <3>2 DEF Anim!Min
  <2>4. p \in set
    BY <2>1
  <2>5. Anim!ValueAt(ks, p, f) = Anim!Interpolated(ks[i], f)
    BY <1>9, <2>3 DEF Anim!ValueAt
  <2>6. \A j \in S : hi[j] <= hi[i]
    <3>1. ASSUME NEW j \in S, j # i PROVE hi[j] <= hi[i]
      <4>1. hi[i] < lo[j] \/ hi[j] < lo[i]
        BY <1>4, <1>5, <1>7, <3>1
      <4>2. /\ i \in 1..L /\ j \in 1..L /\ lo[j] <= f /\ f <= hi[i] /\ lo[i] <= hi[i]
            /\ lo[i] \in Nat /\ hi[i] \in Nat /\ lo[j] \in Nat /\ hi[j] \in Nat
        BY <1>3, <1>4, <1>5
      <4> QED
        BY <4>1, <4>2
    <3> QED
      BY <3>1, <1>3, <1>4
  <2>7. DueOf(ks, b, p, f) = Anim!Interpolated(ks[i], IF f < hi[i] THEN f ELSE hi[i])
    <3>1. i \in S /\ i \in 1..L
      BY <1>5, <1>8
    <3>2. \A j \in S : Anim!MaxFrame(ks[j]) <= Anim!MaxFrame(ks[i])
      BY <1>3, <1>4, <2>6, <3>1
    <3>3. hi[i] = Anim!MaxFrame(ks[i])
      BY <1>3, <3>1
    <3> HIDE DEF S
    <3> QED
      BY <3>1, <3>2, <3>3, LastBegun DEF S
  <2>8. (IF f < hi[i] THEN f ELSE hi[i]) = f
    BY <1>3, <1>5
  <2> QED
    BY <1>1, <2>4, <2>5, <2>7, <2>8
<1>10. CASE on = {}
  <2>1. S = {i \in 1..L : ks[i].prop = p /\ hi[i] < f} /\ S = ended
    BY <1>3, <1>4, <1>5, <1>6, <1>10
  <2>2. CASE p \in set
    <3>1. ended # {}
      BY <1>2, <1>10, <2>2 DEF Anim!Held
    <3>2. PICK g \in ended : \A j \in ended : hi[j] <= hi[g]
      <4>1. ended \in SUBSET (1..L)
        BY <1>6
      <4> QED
        BY <1>2, <1>3, <3>1, <4>1, GreatestPlace
    <3> DEFINE last == CHOOSE i \in ended : \A j \in ended : Anim!MaxFrame(ks[j]) <= Anim!MaxFrame(ks[i])
    <3>3. last \in ended /\ \A j \in ended : Anim!MaxFrame(ks[j]) <= Anim!MaxFrame(ks[last])
      <4>1. \A j \in ended : Anim!MaxFrame(ks[j]) <= Anim!MaxFrame(ks[g])
        BY <1>3, <1>6, <3>2
      <4> QED
        BY <4>1
    <3>4. Anim!ValueAt(ks, p, f) = Anim!Interpolated(ks[last], Anim!MaxFrame(ks[last]))
      BY <1>10 DEF Anim!ValueAt
    <3> HIDE DEF last
    <3>5. last \in S /\ last \in 1..L
      BY <2>1, <3>3
    <3>6. DueOf(ks, b, p, f)
            = Anim!Interpolated(ks[last], IF f < Anim!MaxFrame(ks[last]) THEN f ELSE Anim!MaxFrame(ks[last]))
      <4>1. \A j \in S : Anim!MaxFrame(ks[j]) <= Anim!MaxFrame(ks[last])
        BY <2>1, <3>3
      <4> QED
        BY <3>5, <4>1, LastBegun
    <3>7. Anim!MaxFrame(ks[last]) \in Nat /\ Anim!MaxFrame(ks[last]) <= f
      BY <1>3, <1>6, <3>3, <3>5
    <3>8. ~(f < Anim!MaxFrame(ks[last]))
      BY <3>7
    <3> QED
      BY <1>1, <2>2, <3>4, <3>6, <3>8
  <2>3. CASE p \notin set /\ S = {}
    <3>1. DueOf(ks, b, p, f) = b[p]
      BY <2>3 DEF DueOf, Begun
    <3>2. ASSUME f # 0 PROVE DueOf(ks, b, p, f - 1) = b[p]
      <4>1. {i \in DOMAIN ks : ks[i].prop = p /\ Anim!MinFrame(ks[i]) <= f - 1} = {}
        BY <1>2, <1>3, <1>4, <2>3
      <4> QED
        BY <4>1 DEF DueOf
    <3> QED
      BY <1>1, <2>3, <3>1, <3>2
  <2>4. CASE p \notin set /\ S # {}
    <3>1. PICK g \in S : \A j \in S : hi[j] <= hi[g]
      <4>1. S \in SUBSET (1..L)
        BY <1>4
      <4> QED
        BY <1>2, <1>3, <2>4, <4>1, GreatestPlace
    <3>2. g \in 1..L /\ hi[g] < f /\ hi[g] = Anim!MaxFrame(ks[g]) /\ hi[g] \in Nat /\ f # 0 /\ f - 1 \in Nat
      BY <1>3, <2>1, <3>1
    <3>3. \A j \in S : Anim!MaxFrame(ks[j]) <= Anim!MaxFrame(ks[g])
      BY <1>3, <1>4, <3>1, <3>2
    <3>4. Begun(ks, p, f - 1) = S
      <4>1. Begun(ks, p, f - 1) = {i \in 1..L : ks[i].prop = p /\ lo[i] <= f - 1}
        BY <1>2, <1>3 DEF Begun
      <4>2. \A i \in S : lo[i] <= f - 1
        BY <1>3, <2>1
      <4>3. \A i \in 1..L : lo[i] <= f - 1 => lo[i] <= f
        BY <1>3, <3>2
      <4> HIDE DEF S
      <4> QED
        BY <1>4, <4>1, <4>2, <4>3
    <3>5. DueOf(ks, b, p, f) = Anim!Interpolated(ks[g], IF f < Anim!MaxFrame(ks[g]) THEN f ELSE Anim!MaxFrame(ks[g]))
      BY <3>1, <3>3, LastBegun
    <3>6. DueOf(ks, b, p, f - 1)
            = Anim!Interpolated(ks[g], IF f - 1 < Anim!MaxFrame(ks[g]) THEN f - 1 ELSE Anim!MaxFrame(ks[g]))
      <4>1. g \in Begun(ks, p, f - 1) /\ \A j \in Begun(ks, p, f - 1) : Anim!MaxFrame(ks[j]) <= Anim!MaxFrame(ks[g])
        BY <3>1, <3>3, <3>4
      <4> QED
        BY <3>2, <4>1, LastBegun
    <3>7. ~(f < Anim!MaxFrame(ks[g])) /\ ~(f - 1 < Anim!MaxFrame(ks[g]))
      BY <3>2
    <3> QED
      BY <1>1, <2>4, <3>2, <3>5, <3>6, <3>7
  <2> QED
    BY <2>2, <2>3, <2>4
<1> QED
  BY <1>9, <1>10

-----------------------------------------------------------------------------
\* The members of the animation's state.
AnimFields == {"phase", "tree", "taken", "keys", "exports", "frame", "timers", "updating", "before", "cut"}

\* While frames are written, the keys do not contradict each other, and the
\* tree is what was due at the frame before.
FramesDue(s) ==
    /\ Anim!Consistent(s.keys) /\ DOMAIN s.tree = Props
    /\ \A p \in Props : s.tree[p] = IF s.frame = 0 THEN s.before[p]
                                    ELSE DueOf(s.keys, s.before, p, s.frame - 1)
\* The inductive invariant of Animation, of a state.
AnimInvOf(s) ==
    /\ DOMAIN s = AnimFields
    /\ s.phase \in {"idle", "dialog", "exporting"} /\ s.keys \in Seq(FrameProps) /\ s.frame \in Nat
    /\ s.phase # "exporting" => s.timers /\ ~s.updating
    /\ s.phase # "dialog" => s.taken = Anim!NoTree
    /\ s.phase = "idle" => DOMAIN s.tree = Props \/ (s.tree = Anim!NoTree /\ s.cut)
    /\ s.phase = "dialog" => DOMAIN s.taken = Props /\ s.taken = s.before /\ s.tree = Anim!NoTree
    /\ s.phase = "exporting" => FramesDue(s)
AnimInv == AnimInvOf(now)

\* At the start there is nothing to animate yet.
LEMMA AnimStart == Anim!Init => AnimInv
<1> SUFFICES ASSUME Anim!Init PROVE AnimInv
  OBVIOUS
<1>1. DOMAIN now = AnimFields /\ now.phase = "idle" /\ now.keys = <<>> /\ now.frame = 0 /\ now.timers /\ ~now.updating
      /\ now.tree = Anim!Orig /\ now.taken = Anim!NoTree
  BY DEF Anim!Init, AnimFields
<1>2. DOMAIN Anim!Orig = Props
  BY DEF Anim!Orig
<1>3. now.phase # "dialog" /\ now.phase # "exporting" /\ now.phase \in {"idle", "dialog", "exporting"}
  BY <1>1
<1>4. now.keys \in Seq(FrameProps) /\ now.frame \in Nat
  BY <1>1
<1> QED
  BY <1>1, <1>2, <1>3, <1>4 DEF AnimInv, AnimInvOf

\* The dialog is opened, cancelled, or given a key frame.
LEMMA DialogKeeps == ASSUME AnimInv, Anim!OpenDialog \/ Anim!OnCancel \/ \E k \in FrameProps : Anim!AddProp(k)
                     PROVE  AnimInv'
<1>0. /\ DOMAIN now = AnimFields /\ now.keys \in Seq(FrameProps) /\ now.frame \in Nat
      /\ now.phase # "exporting" => now.timers /\ ~now.updating
      /\ now.phase # "dialog" => now.taken = Anim!NoTree
      /\ now.phase = "idle" => DOMAIN now.tree = Props \/ (now.tree = Anim!NoTree /\ now.cut)
      /\ now.phase = "dialog" => DOMAIN now.taken = Props /\ now.taken = now.before /\ now.tree = Anim!NoTree
  BY DEF AnimInv, AnimInvOf
<1>1. CASE Anim!OpenDialog
  <2>1. /\ DOMAIN now' = AnimFields /\ now'.phase = "dialog" /\ now'.keys = <<>> /\ now'.frame = now.frame
        /\ now'.timers = now.timers /\ now'.updating = now.updating /\ now'.before = now.tree
        /\ now'.taken = now.tree /\ now'.tree = now.taken /\ now.phase = "idle" /\ now.tree # Anim!NoTree
    BY <1>0, <1>1 DEF Anim!OpenDialog, Anim!Becomes, Anim!Swapped, AnimFields
  <2>2. /\ now'.phase # "idle" /\ now'.phase # "exporting" /\ now.phase # "exporting"
        /\ now'.phase \in {"idle", "dialog", "exporting"} /\ now'.keys \in Seq(FrameProps)
    BY <2>1
  <2> QED
    BY <1>0, <2>1, <2>2 DEF AnimInv, AnimInvOf
<1>2. CASE Anim!OnCancel
  <2>1. /\ DOMAIN now' = AnimFields /\ now'.phase = "idle" /\ now'.keys = now.keys /\ now'.frame = now.frame
        /\ now'.timers = now.timers /\ now'.updating = now.updating
        /\ now'.tree = now.taken /\ now'.taken = now.tree /\ now.phase = "dialog"
    BY <1>0, <1>2 DEF Anim!OnCancel, Anim!Becomes, Anim!Swapped, AnimFields
  <2>2. /\ now'.phase # "dialog" /\ now'.phase # "exporting" /\ now.phase # "exporting"
        /\ now'.phase \in {"idle", "dialog", "exporting"}
    BY <2>1
  <2>3. now.timers /\ ~now.updating /\ DOMAIN now.taken = Props
    BY <1>0, <2>1, <2>2
  <2> QED
    BY <1>0, <2>1, <2>2, <2>3 DEF AnimInv, AnimInvOf
<1>3. ASSUME NEW k \in FrameProps, Anim!AddProp(k) PROVE AnimInv'
  <2>1. /\ DOMAIN now' = AnimFields /\ now'.phase = "dialog" /\ now'.keys = Append(now.keys, k)
        /\ now'.frame = now.frame
        /\ now'.timers = now.timers /\ now'.updating = now.updating /\ now'.before = now.before
        /\ now'.taken = now.taken /\ now'.tree = now.tree /\ now.phase = "dialog"
    BY <1>0, <1>3 DEF Anim!AddProp, Anim!Becomes, AnimFields
  <2>2. now'.keys \in Seq(FrameProps)
    BY <1>0, <2>1
  <2> QED
    BY <1>0, <2>1, <2>2 DEF AnimInv, AnimInvOf
<1> QED
  BY <1>1, <1>2, <1>3

\* A key frame is removed.
LEMMA RemoveKeeps == ASSUME AnimInv, NEW i \in 1..Len(now.keys), Anim!RemoveProp(i) PROVE AnimInv'
<1>0. /\ DOMAIN now = AnimFields /\ now.keys \in Seq(FrameProps) /\ now.frame \in Nat
      /\ now.phase # "exporting" => now.timers /\ ~now.updating
      /\ now.phase = "dialog" => DOMAIN now.taken = Props /\ now.taken = now.before /\ now.tree = Anim!NoTree
  BY DEF AnimInv, AnimInvOf
<1>1. /\ DOMAIN now' = AnimFields /\ now'.phase = "dialog" /\ now'.keys = Without(now.keys, i)
      /\ now'.frame = now.frame
      /\ now'.timers = now.timers /\ now'.updating = now.updating /\ now'.before = now.before
      /\ now'.taken = now.taken /\ now'.tree = now.tree /\ now.phase = "dialog"
  BY <1>0 DEF Anim!RemoveProp, Anim!Becomes, AnimFields, Without
<1>2. now'.keys \in Seq(FrameProps)
  <2> DEFINE ks == now.keys
  <2>1. ks \in Seq(FrameProps) /\ i \in 1..Len(ks) /\ now'.keys = Without(ks, i)
    BY <1>0, <1>1
  <2> HIDE DEF ks
  <2> QED
    BY <2>1, WithoutType
<1> QED
  BY <1>0, <1>1, <1>2 DEF AnimInv, AnimInvOf

\* The export begins, with the timers stopped.
LEMMA OKKeeps == ASSUME AnimInv, Anim!OnOK PROVE AnimInv'
<1>0. /\ DOMAIN now = AnimFields /\ now.keys \in Seq(FrameProps)
      /\ DOMAIN now.taken = Props /\ now.taken = now.before /\ now.tree = Anim!NoTree
  BY DEF AnimInv, AnimInvOf, Anim!OnOK
<1>1. /\ DOMAIN now' = AnimFields /\ now'.phase = "exporting" /\ now'.keys = now.keys
      /\ now'.frame = 0 /\ now'.before = now.before /\ Anim!Consistent(now.keys)
      /\ now'.tree = now.taken /\ now'.taken = now.tree
  BY <1>0 DEF Anim!OnOK, Anim!Becomes, Anim!Swapped, AnimFields
<1>2. FramesDue(now')
  BY <1>0, <1>1 DEF FramesDue
<1> QED
  BY <1>0, <1>1, <1>2 DEF AnimInv, AnimInvOf

\* The export ends, and the timers run again.
LEMMA StopKeeps == ASSUME AnimInv, Anim!Stop PROVE AnimInv'
<1>0. /\ DOMAIN now = AnimFields /\ now.keys \in Seq(FrameProps) /\ now.frame \in Nat /\ DOMAIN now.tree = Props
  BY DEF AnimInv, AnimInvOf, Anim!Stop, FramesDue
<1>1. /\ DOMAIN now' = AnimFields /\ now'.phase = "idle" /\ now'.keys = now.keys /\ now'.frame = now.frame
      /\ now'.timers /\ ~now'.updating /\ now'.tree = now.tree /\ now'.taken = Anim!NoTree
  BY <1>0 DEF Anim!Stop, Anim!Becomes, Anim!Ended, AnimFields
<1>2. /\ now'.phase # "dialog" /\ now'.phase # "exporting"
      /\ now'.phase \in {"idle", "dialog", "exporting"}
  BY <1>1
<1> QED
  BY <1>0, <1>1, <1>2 DEF AnimInv, AnimInvOf

\* The export is refused before a frame is made.
LEMMA RefusedKeeps == ASSUME AnimInv, Anim!Refused PROVE AnimInv'
<1>0. /\ DOMAIN now = AnimFields /\ now.keys \in Seq(FrameProps) /\ now.frame \in Nat /\ now.taken = Anim!NoTree
  BY DEF AnimInv, AnimInvOf, Anim!Refused
<1>1. /\ DOMAIN now' = AnimFields /\ now'.phase = "idle" /\ now'.keys = now.keys /\ now'.frame = now.frame
      /\ now'.timers /\ ~now'.updating /\ now'.tree = now.taken /\ now'.cut /\ now'.taken = Anim!NoTree
  BY <1>0 DEF Anim!Refused, Anim!Becomes, Anim!Swapped, Anim!Ended, AnimFields
<1> QED
  BY <1>0, <1>1 DEF AnimInv, AnimInvOf

\* A frame is made of what the key frames ask, or fails.
LEMMA FrameKeeps == ASSUME AnimInv, NEW fails \in BOOLEAN, Anim!Frame(fails) PROVE AnimInv'
<1> DEFINE t == Anim!ModifiedTree(now.tree, now.keys, now.frame)
<1>0. /\ DOMAIN now = AnimFields /\ now.keys \in Seq(FrameProps) /\ now.frame \in Nat
      /\ FramesDue(now) /\ now.taken = Anim!NoTree /\ now.phase = "exporting"
  BY DEF AnimInv, AnimInvOf, Anim!Frame
<1>1. DOMAIN t = Props
  BY DEF Anim!ModifiedTree
<1>2. \A p \in Props : t[p] = DueOf(now.keys, now.before, p, now.frame)
  <2> DEFINE ks == now.keys
             f == now.frame
             b == now.before
             u == now.tree
  <2>1. /\ ks \in Seq(FrameProps) /\ Anim!Consistent(ks) /\ f \in Nat
        /\ \A p \in Props : u[p] = IF f = 0 THEN b[p] ELSE DueOf(ks, b, p, f - 1)
    BY <1>0 DEF FramesDue
  <2>2. t = Anim!ModifiedTree(u, ks, f)
    OBVIOUS
  <2> HIDE DEF ks, f, b, u, t
  <2>3. \A p \in Props : t[p] = DueOf(ks, b, p, f)
    BY <2>1, <2>2, FrameSets
  <2> QED
    BY <2>3 DEF ks, b, f
<1> HIDE DEF t
<1>3. CASE fails
  <2>1. /\ DOMAIN now' = AnimFields /\ now'.phase = "idle" /\ now'.keys = now.keys /\ now'.frame = now.frame
        /\ now'.timers /\ ~now'.updating /\ now'.tree = t /\ now'.taken = Anim!NoTree
    BY <1>0, <1>3 DEF Anim!Frame, Anim!Becomes, Anim!Ended, AnimFields, t
  <2>2. /\ now'.phase # "dialog" /\ now'.phase # "exporting"
        /\ now'.phase \in {"idle", "dialog", "exporting"}
    BY <2>1
  <2> QED
    BY <1>0, <1>1, <2>1, <2>2 DEF AnimInv, AnimInvOf
<1>4. CASE ~fails
  <2>1. /\ DOMAIN now' = AnimFields /\ now'.phase = "exporting" /\ now'.keys = now.keys
        /\ now'.frame = now.frame + 1 /\ now'.before = now.before /\ now'.taken = now.taken /\ now'.tree = t
    BY <1>0, <1>4 DEF Anim!Frame, Anim!Becomes, AnimFields, t
  <2>2. now'.frame \in Nat /\ now'.frame # 0 /\ now'.frame - 1 = now.frame
    BY <1>0, <2>1
  <2>3. FramesDue(now')
    BY <1>0, <1>1, <1>2, <2>1, <2>2 DEF FramesDue
  <2> QED
    BY <1>0, <2>1, <2>2, <2>3 DEF AnimInv, AnimInvOf
<1> QED
  BY <1>3, <1>4

\* Every step of the animation.
LEMMA AnimStep == AnimInv /\ Anim!Next => AnimInv'
<1> SUFFICES ASSUME AnimInv, Anim!Next PROVE AnimInv'
  OBVIOUS
<1>1. CASE \E b \in BOOLEAN : Anim!Frame(b)
  BY <1>1, FrameKeeps
<1>2. CASE \E i \in 1..Len(now.keys) : Anim!RemoveProp(i)
  BY <1>2, RemoveKeeps
<1> QED
  BY <1>1, <1>2, DialogKeeps, OKKeeps, StopKeeps, RefusedKeeps DEF Anim!Next

\* What the theme asks of the export.
LEMMA AnimKeeps == AnimInv => Anim!FramesAreDue /\ Anim!TimersRun /\ Anim!TreeIsKept
<1> SUFFICES ASSUME AnimInv PROVE Anim!FramesAreDue /\ Anim!TimersRun /\ Anim!TreeIsKept
  OBVIOUS
<1>1. Anim!TimersRun
  BY DEF AnimInv, AnimInvOf, Anim!TimersRun
<1>2. Anim!TreeIsKept
  <2>1. Props # {} /\ DOMAIN Anim!NoTree = {}
    BY FramesAssumption DEF Anim!NoTree
  <2> QED
    BY <2>1 DEF AnimInv, AnimInvOf, Anim!TreeIsKept
<1>3. ASSUME now.phase = "exporting", now.frame > 0, NEW p \in Props
      PROVE  now.tree[p] = Anim!Due(p, now.frame - 1)
  <2>1. now.frame # 0 /\ now.tree[p] = DueOf(now.keys, now.before, p, now.frame - 1)
    BY <1>3 DEF AnimInv, AnimInvOf, FramesDue
  <2> QED
    BY <2>1 DEF Anim!Due, DueOf
<1> QED
  BY <1>1, <1>2, <1>3 DEF Anim!FramesAreDue

-----------------------------------------------------------------------------
\* The export of an animation shows at each frame what the key frames ask,
\* starts the timers again however it ends, and does not lose the tree
\* (animator.cpp, mainFrame.cpp), with any key frames and however many.
THEOREM ExportTrue == Spec => []ExportIsTrue
<1> DEFINE Inv == part = Anim!Name => AnimInv
<1>1. Init => Inv
  BY AnimStart DEF Init
<1>2. Inv /\ [Next]_workVars => Inv'
  <2>1. CASE part = Anim!Name /\ UNCHANGED part /\ Anim!Next
    BY <2>1, AnimStep
  <2>2. CASE part # Anim!Name /\ UNCHANGED part
    BY <2>2 DEF Anim!Name
  <2>3. CASE UNCHANGED workVars
    <3>1. AnimInv => AnimInv'
      BY <2>3 DEF workVars, AnimInv
    <3> QED
      BY <2>3, <3>1 DEF workVars, Anim!Name
  <2> QED
    BY <2>1, <2>2, <2>3 DEF Next, View!Name, File!Name, Stash!Name, Anim!Name, Haz!Name,
       Plot!Name, Edit!Name, Rng!Name, Crop!Name, Sel!Name, Conf!Name
<1>3. Inv => ExportIsTrue
  BY AnimKeeps DEF ExportIsTrue
<1> QED
  BY <1>1, <1>2, <1>3, PTL DEF Spec

-----------------------------------------------------------------------------
(* ConfigFile *)

\* std::find gives the place of the first, or one past the last.
LEMMA PlaceFits ==
    ASSUME NEW S, NEW q \in Seq(S), NEW x
    PROVE  /\ Conf!Place(q, x) \in 0..Len(q)
           /\ Conf!Place(q, x) = 0 => \A i \in 1..Len(q) : q[i] # x
           /\ Conf!Place(q, x) # 0 => q[Conf!Place(q, x)] = x
<1> DEFINE I == {i \in 1..Len(q) : q[i] = x}
<1>1. Conf!Place(q, x) = IF I # {} THEN Conf!Min(I) ELSE 0
  BY DEF Conf!Place, Conf!SelectInSeq
<1>2. ASSUME I # {} PROVE Conf!Min(I) \in I
  <2>1. I \in SUBSET Nat
    OBVIOUS
  <2> HIDE DEF I
  <2> QED
    BY <1>2, <2>1, LeastNatural DEF Conf!Min
<1>3. ASSUME NEW i \in I PROVE i \in 1..Len(q) /\ i # 0 /\ q[i] = x
  OBVIOUS
<1>4. I = {} => \A i \in 1..Len(q) : q[i] # x
  OBVIOUS
<1> HIDE DEF I
<1>5. 0 \in 0..Len(q) /\ \A i \in 1..Len(q) : i \in 0..Len(q)
  OBVIOUS
<1> QED
  BY <1>1, <1>2, <1>3, <1>4, <1>5

\* What is dropped from a list of at most two.
LEMMA DroppedFits ==
    ASSUME NEW S, NEW q \in Seq(S), Len(q) <= 2, NEW x
    PROVE  LET d == Conf!Dropped(q, x)
           IN  /\ d \in Seq(S) /\ Len(d) <= Len(q)
               /\ \A i \in 1..Len(d) : \E j \in 1..Len(q) : d[i] = q[j]
               /\ \A j \in 1..Len(q) : q[j] # x => \E i \in 1..Len(d) : d[i] = q[j]
               /\ Len(q) > 0 /\ q[1] # x => Len(d) > 0 /\ d[1] = q[1]
               /\ Len(q) > 0 /\ q[Len(q)] # x => Len(d) > 0 /\ d[Len(d)] = q[Len(q)]
               /\ Conf!IsInjective(q) => Conf!IsInjective(d) /\ \A i \in 1..Len(d) : d[i] # x
<1> DEFINE d == Conf!Dropped(q, x)
           p == Conf!Place(q, x)
           n == Len(q)
<1>a. n \in Nat
  OBVIOUS
<1>0. n \in 0..2
  <2>1. n <= 2
    OBVIOUS
  <2> HIDE DEF n
  <2> QED
    BY <1>a, <2>1
<1>1. p \in 0..n /\ (p = 0 => \A i \in 1..n : q[i] # x) /\ (p # 0 => q[p] = x)
  BY PlaceFits
<1>2. d = IF p = 0 THEN q ELSE Without(q, p)
  BY DEF Conf!Dropped, Conf!RemoveAt, Without
<1>3. p # 0 => /\ d \in Seq(S) /\ Len(d) = n - 1
               /\ \A k \in 1..(n - 1) : d[k] = IF k < p THEN q[k] ELSE q[k + 1]
  BY <1>1, <1>2, WithoutType
<1>4. Conf!IsInjective(q) <=> \A i, j \in 1..n : q[i] = q[j] => i = j
  BY DEF Conf!IsInjective
<1>5. d \in Seq(S) => (Conf!IsInjective(d) <=> \A i, j \in 1..Len(d) : d[i] = d[j] => i = j)
  BY DEF Conf!IsInjective
<1>6. CASE p = 0
  BY <1>0, <1>1, <1>2, <1>6
<1>7. CASE p # 0
  <2> HIDE DEF d, p
  <2>1. (n = 1 /\ p = 1) \/ (n = 2 /\ p = 1) \/ (n = 2 /\ p = 2)
    BY <1>0, <1>1, <1>7
  <2>2. n = 1 => Len(d) = 0 /\ q[1] = x
    BY <1>1, <1>3, <1>7, <2>1
  <2>3. n = 2 /\ p = 1 => Len(d) = 1 /\ d[1] = q[2] /\ q[1] = x
    BY <1>1, <1>3, <1>7, <2>1
  <2>4. n = 2 /\ p = 2 => Len(d) = 1 /\ d[1] = q[1] /\ q[2] = x
    BY <1>1, <1>3, <1>7, <2>1
  <2>5. d \in Seq(S)
    BY <1>3, <1>7
  <2> HIDE DEF n
  <2> DEFINE k == Len(d)
  <2> HIDE DEF k
  <2>a. \/ n = 1 /\ k = 0 /\ q[1] = x
        \/ n = 2 /\ k = 1 /\ ((d[1] = q[2] /\ q[1] = x) \/ (d[1] = q[1] /\ q[2] = x))
    BY <2>1, <2>2, <2>3, <2>4 DEF k
  <2>b. k <= n
    BY <2>a
  <2>c. \A i \in 1..k : \E j \in 1..n : d[i] = q[j]
    BY <2>a
  <2>d. \A j \in 1..n : q[j] # x => \E i \in 1..k : d[i] = q[j]
    BY <2>a
  <2>e. (n > 0 /\ q[1] # x => k > 0 /\ d[1] = q[1]) /\ (n > 0 /\ q[n] # x => k > 0 /\ d[k] = q[n])
    BY <2>a
  <2>f. ASSUME Conf!IsInjective(q) PROVE Conf!IsInjective(d) /\ \A i \in 1..k : d[i] # x
    <3>1. \A i, j \in 1..k : d[i] = d[j] => i = j
      BY <2>a
    <3>2. n = 2 => q[1] # q[2]
      BY <1>4, <2>f
    <3>3. \A i \in 1..k : d[i] # x
      BY <2>a, <3>2
    <3> QED
      BY <1>5, <2>5, <3>1, <3>3 DEF k
  <2> QED
    BY <2>5, <2>b, <2>c, <2>d, <2>e, <2>f DEF d, n, k
<1> QED
  BY <1>6, <1>7

\* What the menu becomes: the name comes first, and once.
Menus == {m \in Seq(Conf!Files) : Len(m) <= 2 /\ Conf!IsInjective(m)}

\* What is added to the recent files comes first, and comes once.
LEMMA AddedFits ==
    ASSUME NEW m \in Menus, NEW f \in Conf!Files
    PROVE  LET r == Conf!AddToHistory(m, f)
           IN  /\ r \in Menus /\ Len(r) > 0 /\ r[1] = f
               /\ \A i \in 1..Len(r) : r[i] = f \/ \E j \in 1..Len(m) : r[i] = m[j]
               /\ Len(m) > 0 /\ m[1] # f => Len(r) = 2 /\ r[2] = m[1]
<1> DEFINE d == Conf!Dropped(m, f)
           one == <<f>>
           s == one \o d
           r == IF Len(s) > 2 THEN Conf!Front(s) ELSE s
<1>1. m \in Seq(Conf!Files) /\ Len(m) <= 2 /\ Conf!IsInjective(m)
  BY DEF Menus
<1>2. /\ d \in Seq(Conf!Files) /\ Len(d) <= Len(m) /\ Conf!IsInjective(d)
      /\ \A i \in 1..Len(d) : d[i] # f /\ \E j \in 1..Len(m) : d[i] = m[j]
      /\ Len(m) > 0 /\ m[1] # f => Len(d) > 0 /\ d[1] = m[1]
  BY <1>1, DroppedFits
<1>3. Conf!AddToHistory(m, f) = r
  BY DEF Conf!AddToHistory, Conf!MaxRecent
<1> HIDE DEF d
<1>4. one \in Seq(Conf!Files) /\ Len(one) = 1 /\ one[1] = f
  OBVIOUS
<1> HIDE DEF one
<1>a. Len(m) \in Nat /\ Len(d) \in Nat
  BY <1>1, <1>2
<1> DEFINE k == Len(d)
<1>b. k \in 0..2
  <2>1. Len(d) <= Len(m) /\ Len(m) <= 2
    BY <1>1, <1>2
  <2> DEFINE l == Len(m)
  <2>2. k \in Nat /\ l \in Nat /\ k <= l /\ l <= 2
    BY <1>a, <2>1
  <2> HIDE DEF k, l
  <2> QED
    BY <2>2
<1>5. /\ s \in Seq(Conf!Files) /\ Len(s) = 1 + Len(d)
      /\ \A i \in 1..(1 + Len(d)) : s[i] = IF i <= 1 THEN one[i] ELSE d[i - 1]
  <2>0. d \in Seq(Conf!Files) /\ one \in Seq(Conf!Files)
    BY <1>2, <1>4
  <2>1. s \in Seq(Conf!Files) /\ Len(s) = Len(one) + Len(d)
        /\ \A i \in 1..(Len(one) + Len(d)) : s[i] = IF i <= Len(one) THEN one[i] ELSE d[i - Len(one)]
    BY <2>0, ConcatProperties
  <2> HIDE DEF s
  <2> QED
    BY <1>4, <2>1
<1>6. s[1] = f /\ \A i \in 1..Len(d) : s[i + 1] = d[i]
  <2>1. Len(d) \in Nat
    BY <1>2
  <2>2. 1 \in 1..(1 + Len(d))
    BY <2>1
  <2>3. ASSUME NEW i \in 1..Len(d) PROVE s[i + 1] = d[i]
    <3>1. i + 1 \in 1..(1 + Len(d)) /\ ~(i + 1 <= 1) /\ (i + 1) - 1 = i
      BY <2>1
    <3> QED
      BY <1>5, <3>1
  <2> QED
    BY <1>4, <1>5, <2>2, <2>3
<1> HIDE DEF s
<1>7. Len(s) > 2 => Conf!Front(s) \in Seq(Conf!Files) /\ Len(Conf!Front(s)) = Len(s) - 1 /\ \A i \in 1..(Len(s) - 1) : Conf!Front(s)[i] = s[i]
  <2> SUFFICES ASSUME Len(s) > 2 PROVE Conf!Front(s) \in Seq(Conf!Files) /\ Len(Conf!Front(s)) = Len(s) - 1
                                       /\ \A i \in 1..(Len(s) - 1) : Conf!Front(s)[i] = s[i]
    OBVIOUS
  <2>0. Len(s) \in Nat
    BY <1>5
  <2>1. \A i \in 1..(Len(s) - 1) : s[i] \in Conf!Files
    BY <1>5
  <2>2. 1 \in 1..(Len(s) + 1) /\ Len(s) - 1 \in (1 - 1)..Len(s)
    BY <2>0
  <2> QED
    BY <1>5, <2>0, <2>1, <2>2, SubSeqProperties DEF Conf!Front
<1> DEFINE l == Len(r)
<1>8. r \in Seq(Conf!Files) /\ (l = 1 + k \/ (k = 2 /\ l = 2)) /\ l <= 2 /\ \A i \in 1..l : r[i] = s[i]
  <2>1. Len(s) = 1 + k
    BY <1>5
  <2>2. CASE Len(s) > 2
    <3>1. r = Conf!Front(s)
      BY <2>2
    <3>2. k = 2
      <4> HIDE DEF k
      <4> QED
        BY <1>b, <2>1, <2>2
    <3>3. Len(Conf!Front(s)) = 2 /\ \A i \in 1..2 : Conf!Front(s)[i] = s[i]
      BY <1>7, <2>1, <2>2, <3>2
    <3> HIDE DEF r
    <3> QED
      BY <1>7, <2>2, <3>1, <3>2, <3>3
  <2>3. CASE ~(Len(s) > 2)
    <3>1. r = s
      BY <2>3
    <3>2. 1 + k <= 2
      <4> HIDE DEF k
      <4> QED
        BY <1>b, <2>1, <2>3
    <3> HIDE DEF r
    <3> QED
      BY <1>5, <2>1, <3>1, <3>2
  <2> QED
    BY <2>2, <2>3
<1> HIDE DEF r, l, k
<1>9. l = 1 \/ (l = 2 /\ (k = 1 \/ k = 2))
  BY <1>b, <1>8
<1>10. r[1] = f /\ (l = 2 => r[2] = d[1])
  <2>1. r[1] = f
    BY <1>6, <1>8, <1>9
  <2>2. ASSUME l = 2 PROVE r[2] = d[1]
    <3>1. 1 \in 1..k
      BY <1>9, <2>2
    <3>2. s[1 + 1] = d[1]
      BY <1>6, <3>1 DEF k
    <3> QED
      BY <1>8, <2>2, <3>2
  <2> QED
    BY <2>1, <2>2
<1>c. l = 2 => d[1] # f /\ \E j \in 1..Len(m) : d[1] = m[j]
  <2>1. l = 2 => 1 \in 1..k
    BY <1>9
  <2> QED
    BY <1>2, <2>1 DEF k
<1>11. Conf!IsInjective(r)
  <2> SUFFICES ASSUME NEW i \in 1..l, NEW j \in 1..l, r[i] = r[j] PROVE i = j
    BY <1>8 DEF Conf!IsInjective, l
  <2>1. l = 2 => r[1] # r[2]
    BY <1>10, <1>c
  <2> QED
    BY <1>9, <2>1
<1>12. r \in Menus
  BY <1>8, <1>11 DEF Menus, l
<1>13. \A i \in 1..l : r[i] = f \/ \E j \in 1..Len(m) : r[i] = m[j]
  <2> TAKE i \in 1..l
  <2>1. CASE i = 1
    BY <1>10, <2>1
  <2>2. CASE i = 2
    BY <1>9, <1>10, <1>c, <2>2
  <2> QED
    BY <1>9, <2>1, <2>2
<1>14. Len(m) > 0 /\ m[1] # f => l = 2 /\ r[2] = m[1]
  <2>1. Len(m) > 0 /\ m[1] # f => k > 0 /\ d[1] = m[1]
    BY <1>2 DEF k
  <2>2. k > 0 => l = 2
    BY <1>b, <1>8
  <2> QED
    BY <1>10, <2>1, <2>2
<1>15. l > 0
  BY <1>9
<1> QED
  BY <1>3, <1>10, <1>12, <1>13, <1>14, <1>15 DEF l

\* The menu that is made of the recent files has them, the newest first.
Recents == {q \in Seq(Conf!Files) : Len(q) <= 2}
\* A menu lists recent files when it has them all, the last first.
Lists(m, q) ==
    /\ \A i \in 1..Len(q) : \E j \in 1..Len(m) : m[j] = q[i]
    /\ Len(q) > 0 => Len(m) > 0 /\ m[1] = q[Len(q)]

\* The menu that is made of the file: the last is first.
LEMMA HistoryFits ==
    ASSUME NEW q \in Recents
    PROVE  Conf!History(q) \in Menus /\ Lists(Conf!History(q), q)
<1> DEFINE n == Len(q)
           Turn(h, i) == IF i = 0 THEN <<>> ELSE Conf!AddToHistory(h[i - 1], q[i])
           a == Conf!AddToHistory(<<>>, q[1])
           b == Conf!AddToHistory(a, q[2])
           g == [i \in 0..n |-> IF i = 0 THEN <<>> ELSE IF i = 1 THEN a ELSE b]
           h == CHOOSE h : h = [i \in 0..n |-> Turn(h, i)]
<1>1. q \in Seq(Conf!Files) /\ n \in 0..2
  <2>1. q \in Seq(Conf!Files) /\ n <= 2
    BY DEF Recents
  <2>2. n \in Nat
    BY <2>1
  <2> HIDE DEF n
  <2> QED
    BY <2>1, <2>2
<1>2. Conf!History(q) = h[n]
  BY DEF Conf!History
<1>3. g = [i \in 0..n |-> Turn(g, i)]
  <2> SUFFICES ASSUME NEW i \in 0..n PROVE g[i] = Turn(g, i)
    OBVIOUS
  <2> HIDE DEF a, b
  <2>1. CASE i = 0
    BY <2>1
  <2>2. CASE i = 1
    <3>1. g[0] = <<>> /\ g[1] = a
      BY <1>1, <2>2
    <3> QED
      BY <2>2, <3>1 DEF a
  <2>3. CASE i = 2
    <3>1. g[1] = a /\ g[2] = b
      BY <1>1, <2>3
    <3> QED
      BY <2>3, <3>1 DEF b
  <2> QED
    BY <1>1, <2>1, <2>2, <2>3
<1> HIDE DEF g
<1>4. h = [i \in 0..n |-> Turn(h, i)]
  BY <1>3
<1> HIDE DEF h
<1>5. n \in 0..n /\ 0 \in 0..n
  BY <1>1
<1>6. h[0] = <<>> /\ (n > 0 => h[1] = Conf!AddToHistory(<<>>, q[1])) /\ (n = 2 => h[2] = Conf!AddToHistory(h[1], q[2]))
  <2>1. \A i \in 0..n : h[i] = Turn(h, i)
    BY <1>4
  <2>2. h[0] = <<>>
    BY <1>5, <2>1
  <2>3. n > 0 => h[1] = Conf!AddToHistory(h[0], q[1])
    BY <1>1, <2>1
  <2>4. n = 2 => h[2] = Conf!AddToHistory(h[1], q[2])
    BY <1>1, <2>1
  <2> QED
    BY <2>2, <2>3, <2>4
<1>7. <<>> \in Menus
  BY DEF Menus, Conf!IsInjective
<1>8. CASE n = 0
  BY <1>1, <1>2, <1>6, <1>7, <1>8 DEF Lists
<1>9. n > 0 => h[1] \in Menus /\ Len(h[1]) > 0 /\ h[1][1] = q[1]
  <2>1. n > 0 => q[1] \in Conf!Files
    BY <1>1
  <2> QED
    BY <1>6, <1>7, <2>1, AddedFits
<1>10. CASE n = 1
  <2>1. Conf!History(q) = h[1]
    BY <1>2, <1>10
  <2>2. Len(h[1]) \in Nat
    BY <1>9, <1>10 DEF Menus
  <2>3. 1 \in 1..Len(h[1])
    BY <1>9, <1>10, <2>2
  <2> QED
    BY <1>9, <1>10, <2>1, <2>3 DEF Lists
<1>11. CASE n = 2
  <2>0. q[2] \in Conf!Files /\ h[1] \in Menus
    <3>1. q[2] \in Conf!Files
      BY <1>1, <1>11
    <3>2. h[1] \in Menus
      BY <1>9, <1>11
    <3> QED
      BY <3>1, <3>2
  <2> DEFINE r == h[2]
  <2>1. /\ r \in Menus /\ Len(r) > 0 /\ r[1] = q[2]
        /\ h[1][1] # q[2] => Len(r) = 2 /\ r[2] = h[1][1]
    BY <1>6, <1>9, <1>11, <2>0, AddedFits
  <2> HIDE DEF r
  <2>2. Len(r) \in Nat
    BY <2>1 DEF Menus
  <2>3. \E j \in 1..Len(r) : r[j] = q[1]
    <3>1. CASE q[1] = q[2]
      <4>1. 1 \in 1..Len(r)
        BY <2>1, <2>2
      <4> QED
        BY <2>1, <3>1, <4>1
    <3>2. CASE q[1] # q[2]
      BY <1>9, <1>11, <2>1, <3>2
    <3> QED
      BY <3>1, <3>2
  <2>4. \E j \in 1..Len(r) : r[j] = q[2]
    <3>1. 1 \in 1..Len(r)
      BY <2>1, <2>2
    <3> QED
      BY <2>1, <3>1
  <2>5. Conf!History(q) = r
    BY <1>2, <1>11 DEF r
  <2> QED
    BY <1>1, <1>11, <2>1, <2>3, <2>4, <2>5 DEF Lists
<1> QED
  BY <1>1, <1>8, <1>10, <1>11
\* What is remembered, wherever it is: each type has one default, there is one
\* limit or none, and as long as no panel was ever set, all are to be remembered.
ConfModes   == {"none", "remember", "specify"}
Limits  == {0, 1, 2}
Views   == [Conf!Panels -> BOOLEAN]
ConfTypes == [recent : Recents, defaults : Seq(Conf!Types), panels : {Conf!Unset} \cup Views, mode : ConfModes,
              zoom : Conf!Rates, points : SUBSET Limits]
\* What a configuration is to keep to.
ConfSound(c) ==
    /\ Conf!IsInjective(c.defaults)
    /\ c.points = {} \/ \E l \in Limits : c.points = {l}
    /\ c.panels = Conf!Unset => c.mode = "remember"
Confs == {c \in ConfTypes : ConfSound(c)}
\* What may be on the disk.
Disks == {Conf!NoFile, Conf!NoXML, Conf!Newer} \cup [kind : {"config"}, conf : Confs]

Curs    == [type : Conf!Types \cup {"none"}, at : Nat]
Dialogs == [open : {TRUE}, defaults : Seq(Conf!Types), cur : Curs, checks : Views, combo : ConfModes, zoom : Conf!Rates]
\* The filter selected is at its place, or has no default.
Selected(d) ==
    /\ Conf!IsInjective(d.defaults)
    /\ d.cur.at # 0 => d.cur.at \in 1..Len(d.defaults) /\ d.defaults[d.cur.at] = d.cur.type
    /\ d.cur.at = 0 => \A i \in 1..Len(d.defaults) : d.defaults[i] # d.cur.type
    /\ d.cur.type = "none" => d.cur.at = 0

\* What the program holds of its configuration.
ConfState ==
    [running : BOOLEAN, conf : Confs, disk : Disks, menu : Menus, limit : Limits, visible : Views,
     ticked : Views, ignored : SUBSET Conf!Panels, unwanted : SUBSET Conf!Files,
     dialog : {Conf!Closed} \cup Dialogs, edits : Nat, starts : Nat]

\* The panels in view and those ticked are as they are stored.
PanelsStored(s) ==
    /\ s.conf.mode = "remember" => \A p \in Conf!Panels \ s.ignored : Conf!Shown(s.conf)[p] = s.visible[p]
    /\ s.conf.mode = "specify" => Conf!Shown(s.conf) = s.ticked
\* What was dropped from the menu is not in it, and all others are.
MenuStored(s) ==
    LET r == s.conf.recent
    IN  s.disk # Conf!Newer =>
          /\ \A i \in 1..Len(r) : r[i] \in s.unwanted \/ \E j \in 1..Len(s.menu) : s.menu[j] = r[i]
          /\ Len(r) > 0 /\ r[Len(r)] \notin s.unwanted => Len(s.menu) > 0 /\ s.menu[1] = r[Len(r)]
MenuWanted(s) == \A j \in 1..Len(s.menu) : s.menu[j] \notin s.unwanted

\* All that a step of ConfigFile keeps.
Good(s) ==
    /\ s \in ConfState
    /\ s.dialog.open => Selected(s.dialog)
    /\ MenuWanted(s)
    /\ ~s.running => s.dialog = Conf!Closed
    /\ s.running =>
          PanelsStored(s) /\ MenuStored(s) /\ (s.conf.points # {} => s.conf.points = {s.limit})
\* The inductive invariant of ConfigFile.
ConfInv == Good(now)

\* The configuration without a file is sound.
LEMMA DefaultFits == Conf!Default \in Confs /\ Conf!Shown(Conf!Default) \in Views /\ Conf!Unset \notin Views
<1>1. <<>> \in Recents /\ <<>> \in Seq(Conf!Types) /\ Conf!IsInjective(<<>>)
  BY DEF Recents, Conf!IsInjective
<1>2. Conf!Default \in ConfTypes
  BY <1>1 DEF Conf!Default, ConfTypes, ConfModes, Conf!Rates
<1>3. ConfSound(Conf!Default)
  BY <1>1 DEF Conf!Default, ConfSound
<1>4. Conf!Unset \notin Views
  <2>1. DOMAIN Conf!Unset = {} /\ "control" \in Conf!Panels
    BY DEF Conf!Unset, Conf!Panels
  <2> QED
    BY <2>1 DEF Views
<1>5. Conf!Shown(Conf!Default) \in Views
  BY DEF Conf!Shown, Conf!GetPanelEnabled, Conf!Default, Views
<1> QED
  BY <1>2, <1>3, <1>4, <1>5 DEF Confs

\* What a configuration shows is said of every panel.
LEMMA ShownFits ==
    ASSUME NEW c \in Confs
    PROVE  Conf!Shown(c) \in Views
<1>1. c.panels = Conf!Unset \/ c.panels \in Views
  BY DEF Confs, ConfTypes
<1>2. ASSUME NEW p \in Conf!Panels PROVE Conf!GetPanelEnabled(c, p) \in BOOLEAN
  <2>1. CASE c.panels = Conf!Unset
    BY <2>1 DEF Conf!GetPanelEnabled
  <2>2. CASE c.panels \in Views
    <3>1. c.panels[p] \in BOOLEAN
      BY <2>2 DEF Views
    <3> QED
      BY <3>1 DEF Conf!GetPanelEnabled
  <2> QED
    BY <1>1, <2>1, <2>2
<1> QED
  BY <1>2 DEF Conf!Shown, Views

\* What is read of a file is sound, and shows what was stored.
LEMMA ReadBack ==
    ASSUME NEW c \in Confs
    PROVE  LET d == Conf!ReadAll(Conf!Default, c)
           IN  /\ d \in Confs /\ d.recent = c.recent /\ d.defaults = c.defaults /\ d.mode = c.mode
               /\ d.points = c.points /\ Conf!Shown(d) = Conf!Shown(c)
               /\ d.zoom # c.zoom => c.zoom = 400
<1> DEFINE a == [Conf!Default EXCEPT !.recent = c.recent, !.defaults = c.defaults]
           b == Conf!ReadPanels(a, c)
           d == [b EXCEPT !.zoom = IF c.zoom < 400 THEN c.zoom ELSE @, !.points = c.points]
<1>0. c \in ConfTypes /\ ConfSound(c) /\ Conf!Default \in ConfTypes
  BY DefaultFits DEF Confs
<1>1. Conf!ReadDefaults(Conf!ReadRecent(Conf!Default, c), c) = a
  <2>1. c.defaults \in Seq(Conf!Types)
    BY <1>0 DEF ConfTypes
  <2>2. <<>> \o c.defaults = c.defaults
    BY <2>1, ConcatEmptySeq
  <2>3. Conf!ReadRecent(Conf!Default, c).defaults = <<>>
    BY DEF Conf!Default, Conf!ReadRecent
  <2> QED
    BY <1>0, <2>2, <2>3 DEF Conf!ReadDefaults, Conf!ReadRecent, ConfTypes
<1>2. Conf!ReadAll(Conf!Default, c) = Conf!ReadRest(Conf!ReadMouse(b, c), c)
  BY <1>1 DEF Conf!ReadAll
<1>3. a \in ConfTypes /\ a.recent = c.recent /\ a.defaults = c.defaults /\ a.panels = Conf!Unset
        /\ a.mode = "remember" /\ a.zoom = 100
  BY <1>0 DEF ConfTypes, Conf!Default
<1> HIDE DEF a
<1> DEFINE v == [p \in Conf!Panels |-> c.mode # "none" /\ c.panels[p]]
<1>a. v \in Views \/ c.panels = Conf!Unset
  <2>1. ASSUME c.panels \in Views, NEW p \in Conf!Panels
        PROVE  (c.mode # "none" /\ c.panels[p]) \in BOOLEAN
    OBVIOUS
  <2>2. c.panels \in Views \/ c.panels = Conf!Unset
    BY <1>0 DEF ConfTypes
  <2> QED
    BY <2>1, <2>2 DEF Views
<1>4. /\ b \in ConfTypes /\ b.recent = c.recent /\ b.defaults = c.defaults /\ b.mode = c.mode /\ b.zoom = 100
      /\ b.panels = IF c.panels = Conf!Unset THEN Conf!Unset ELSE v
  <2>1. CASE c.panels = Conf!Unset
    <3>1. b = a
      BY <2>1 DEF Conf!ReadPanels
    <3>2. c.mode = "remember"
      BY <1>0, <2>1 DEF ConfSound
    <3> QED
      BY <1>3, <2>1, <3>1, <3>2
  <2>2. CASE c.panels # Conf!Unset
    <3>1. b = [a EXCEPT !.mode = c.mode, !.panels = v]
      BY <2>2 DEF Conf!ReadPanels
    <3>2. v \in Views /\ c.mode \in ConfModes
      BY <1>0, <1>a, <2>2 DEF ConfTypes
    <3> HIDE DEF b, v
    <3> QED
      BY <1>3, <2>2, <3>1, <3>2 DEF ConfTypes
  <2> QED
    BY <2>1, <2>2
<1> HIDE DEF b, v
<1>5. Conf!ReadRest(Conf!ReadMouse(b, c), c) = d
  BY <1>4 DEF Conf!ReadRest, Conf!ReadMouse, ConfTypes
<1>6. c.zoom \in Conf!Rates /\ (c.zoom < 400 => c.zoom = 100) /\ (~(c.zoom < 400) => c.zoom = 400) /\ 100 \in Conf!Rates
  BY <1>0 DEF ConfTypes, Conf!Rates
<1>7. /\ d \in ConfTypes /\ d.recent = c.recent /\ d.defaults = c.defaults /\ d.mode = c.mode
      /\ d.points = c.points /\ d.panels = b.panels /\ d.zoom = 100
  <2>1. d = [b EXCEPT !.zoom = 100, !.points = c.points]
    BY <1>4, <1>6
  <2>2. c.points \in SUBSET Limits
    BY <1>0 DEF ConfTypes
  <2> HIDE DEF d
  <2> QED
    BY <1>4, <1>6, <2>1, <2>2 DEF ConfTypes
<1> HIDE DEF d
<1>8. ConfSound(d)
  <2>1. d.panels = Conf!Unset => c.mode = "remember"
    <3>1. c.panels # Conf!Unset => v # Conf!Unset
      BY <1>a, DefaultFits
    <3> QED
      BY <1>0, <1>4, <1>7, <3>1 DEF ConfSound
  <2> QED
    BY <1>0, <1>7, <2>1 DEF ConfSound
<1>9. Conf!Shown(d) = Conf!Shown(c)
  <2> SUFFICES ASSUME NEW p \in Conf!Panels PROVE Conf!GetPanelEnabled(d, p) = Conf!GetPanelEnabled(c, p)
    BY DEF Conf!Shown
  <2>1. CASE c.panels = Conf!Unset
    BY <1>4, <1>7, <2>1 DEF Conf!GetPanelEnabled
  <2>2. CASE c.panels # Conf!Unset /\ c.mode = "none"
    BY <1>7, <2>2 DEF Conf!GetPanelEnabled
  <2>3. CASE c.panels # Conf!Unset /\ c.mode # "none"
    <3>1. d.panels = v /\ v # Conf!Unset
      BY <1>4, <1>7, <1>a, <2>3, DefaultFits
    <3>2. v[p] = c.panels[p]
      <4>1. c.panels[p] \in BOOLEAN
        BY <1>0, <2>3 DEF ConfTypes, Views
      <4> QED
        BY <2>3, <4>1 DEF v
    <3> QED
      BY <1>7, <2>3, <3>1, <3>2 DEF Conf!GetPanelEnabled
  <2> QED
    BY <2>1, <2>2, <2>3
<1>10. d.zoom # c.zoom => c.zoom = 400
  BY <1>6, <1>7
<1>11. d \in Confs
  BY <1>7, <1>8 DEF Confs
<1> QED
  BY <1>2, <1>5, <1>7, <1>9, <1>10, <1>11
\* The files that a start can meet.
LEMMA KindsDiffer ==
    /\ Conf!NoFile.kind = "none" /\ Conf!NoXML.kind = "no xml" /\ Conf!Newer.kind = "newer"
       /\ Conf!Newer.conf.recent = <<"a">>
    /\ Conf!Newer \notin {Conf!NoFile, Conf!NoXML} /\ Conf!Newer \notin [kind : {"config"}, conf : Confs]
    /\ ~Conf!Closed.open
<1>1. Conf!Newer.kind = "newer" /\ Conf!Newer.conf = [Conf!Default EXCEPT !.recent = <<"a">>]
  BY DEF Conf!Newer
<1>2. Conf!Newer.conf.recent = <<"a">>
  BY <1>1 DEF Conf!Default
<1>3. Conf!NoFile.kind = "none" /\ Conf!NoXML.kind = "no xml" /\ ~Conf!Closed.open
  BY DEF Conf!NoFile, Conf!NoXML, Conf!Closed
<1> QED
  BY <1>1, <1>2, <1>3

\* A start has what was stored.
LEMMA StartFits ==
    ASSUME NEW s \in ConfState, NEW f \in Disks, s.disk = f, s.dialog = Conf!Closed
    PROVE  Good(Conf!Start(s, f))
<1> DEFINE c == Conf!ReadFile(Conf!Default, f)
           bad == f.kind = "newer"
           m == IF bad THEN <<>> ELSE Conf!History(c.recent)
           l == IF bad \/ c.points = {} THEN 1 ELSE CHOOSE x \in c.points : TRUE
           r == Conf!Start(s, f)
<1>1. c \in Confs /\ (f = Conf!Newer => c.points = {})
  <2>1. CASE f = Conf!NoFile \/ f = Conf!NoXML
    <3>1. f.kind \in {"none", "no xml"} /\ f # Conf!Newer
      BY <2>1, KindsDiffer
    <3> QED
      BY <3>1, DefaultFits DEF Conf!ReadFile
  <2>2. CASE f = Conf!Newer
    <3>1. c = [Conf!Default EXCEPT !.recent = <<"a">>]
      <4>1. f.kind = "newer" /\ f.conf.recent = <<"a">>
        BY <2>2, KindsDiffer
      <4>2. c = Conf!ReadRecent(Conf!Default, f.conf)
        BY <4>1 DEF Conf!ReadFile
      <4> QED
        BY <4>1, <4>2 DEF Conf!ReadRecent
    <3>2. <<"a">> \in Recents
      <4>1. <<"a">> \in Seq(Conf!Files) /\ Len(<<"a">>) = 1
        BY DEF Conf!Files
      <4> QED
        BY <4>1 DEF Recents
    <3>3. Conf!Default \in ConfTypes /\ ConfSound(Conf!Default)
      BY DefaultFits DEF Confs
    <3> HIDE DEF c
    <3>4. c \in ConfTypes /\ c.defaults = Conf!Default.defaults /\ c.panels = Conf!Default.panels
            /\ c.points = Conf!Default.points /\ c.mode = Conf!Default.mode
      BY <3>1, <3>2, <3>3 DEF ConfTypes
    <3>5. c.points = {}
      BY <3>4 DEF Conf!Default
    <3> QED
      BY <3>3, <3>4, <3>5 DEF Confs, ConfSound
  <2>3. CASE f \in [kind : {"config"}, conf : Confs]
    <3>1. f.kind = "config" /\ f # Conf!Newer
      BY <2>3, KindsDiffer
    <3>2. c = Conf!ReadAll(Conf!Default, f.conf)
      BY <3>1 DEF Conf!ReadFile
    <3> QED
      BY <2>3, <3>1, <3>2, ReadBack
  <2> QED
    BY <2>1, <2>2, <2>3 DEF Disks
<1>2. bad <=> f = Conf!Newer
  BY KindsDiffer DEF Disks
<1>3. r = [s EXCEPT !.running = TRUE, !.conf = c, !.visible = Conf!Shown(c), !.ticked = Conf!Shown(c),
                    !.ignored = {}, !.unwanted = {}, !.starts = @ + 1, !.menu = m, !.limit = l]
  BY DEF Conf!Start
<1> HIDE DEF c
<1>4. c \in ConfTypes /\ ConfSound(c)
  BY <1>1 DEF Confs
<1>5. m \in Menus /\ (f # Conf!Newer => Lists(m, c.recent))
  <2>1. <<>> \in Menus
    BY DEF Menus, Conf!IsInjective
  <2>2. c.recent \in Recents
    BY <1>4 DEF ConfTypes
  <2> QED
    BY <1>2, <2>1, <2>2, HistoryFits
<1>6. l \in Limits /\ (c.points # {} => c.points = {l})
  <2>1. c.points = {} \/ \E x \in Limits : c.points = {x}
    BY <1>4 DEF ConfSound
  <2>2. 1 \in Limits
    BY DEF Limits
  <2> QED
    BY <1>1, <1>2, <2>1, <2>2
<1>7. Conf!Shown(c) \in Views
  BY <1>1, ShownFits
<1> DEFINE v == Conf!Shown(c)
<1> HIDE DEF m, l, bad, v, r
<1>b. r = [s EXCEPT !.running = TRUE, !.conf = c, !.visible = v, !.ticked = v, !.ignored = {}, !.unwanted = {},
                    !.starts = @ + 1, !.menu = m, !.limit = l]
  BY <1>3 DEF v
<1>c. v \in Views
  BY <1>7 DEF v
<1>8. /\ r \in ConfState /\ r.running = TRUE /\ r.conf = c /\ r.visible = v /\ r.ticked = v /\ r.unwanted = {}
      /\ r.menu = m /\ r.limit = l /\ r.disk = f /\ r.dialog = Conf!Closed
  <2>1. s.starts + 1 \in Nat
    BY DEF ConfState
  <2>2. r \in ConfState
    BY <1>1, <1>b, <1>c, <1>5, <1>6, <2>1 DEF ConfState
  <2>3. r.running = TRUE /\ r.conf = c /\ r.visible = v /\ r.ticked = v /\ r.unwanted = {}
          /\ r.menu = m /\ r.limit = l
    BY <1>b DEF ConfState
  <2>4. r.disk = f /\ r.dialog = Conf!Closed
    BY <1>b DEF ConfState
  <2> QED
    BY <2>2, <2>3, <2>4
<1>9. MenuWanted(r) /\ PanelsStored(r)
  BY <1>8 DEF MenuWanted, PanelsStored, v
<1>10. MenuStored(r)
  BY <1>5, <1>8 DEF MenuStored, Lists
<1>11. r.dialog.open => Selected(r.dialog)
  BY <1>8 DEF Conf!Closed
<1> QED
  BY <1>6, <1>8, <1>9, <1>10, <1>11 DEF Good, r

\* The program starts, whatever file there is.
LEMMA ConfStart == Conf!Init => ConfInv
<1> SUFFICES ASSUME Conf!Init PROVE ConfInv
  OBVIOUS
<1>1. PICK f \in {Conf!NoFile, Conf!Newer} :
         now = Conf!Start([running |-> TRUE, conf |-> Conf!Default, disk |-> f, menu |-> <<>>, limit |-> 1,
                      visible |-> Conf!Shown(Conf!Default), ticked |-> Conf!Shown(Conf!Default), ignored |-> {},
                      unwanted |-> {}, dialog |-> Conf!Closed, edits |-> 0, starts |-> 0], f)
  BY DEF Conf!Init
<1> DEFINE s == [running |-> TRUE, conf |-> Conf!Default, disk |-> f, menu |-> <<>>, limit |-> 1,
                 visible |-> Conf!Shown(Conf!Default), ticked |-> Conf!Shown(Conf!Default), ignored |-> {},
                 unwanted |-> {}, dialog |-> Conf!Closed, edits |-> 0, starts |-> 0]
<1>2. s \in ConfState /\ s.disk = f /\ s.dialog = Conf!Closed
  <2>1. f \in Disks /\ <<>> \in Menus /\ 1 \in Limits
    BY DEF Disks, Menus, Conf!IsInjective, Limits
  <2> DEFINE c == Conf!Default
             v == Conf!Shown(c)
  <2>2. c \in Confs /\ v \in Views
    BY DefaultFits
  <2> HIDE DEF c, v
  <2>3. s = [running |-> TRUE, conf |-> c, disk |-> f, menu |-> <<>>, limit |-> 1, visible |-> v, ticked |-> v,
             ignored |-> {}, unwanted |-> {}, dialog |-> Conf!Closed, edits |-> 0, starts |-> 0]
    BY DEF c, v
  <2> HIDE DEF s
  <2> QED
    BY <2>1, <2>2, <2>3 DEF ConfState
<1>3. f \in Disks /\ now = Conf!Start(s, f)
  BY <1>1 DEF Disks
<1> HIDE DEF s
<1> QED
  BY <1>2, <1>3, StartFits DEF ConfInv

\* A change of anything else leaves the panels, or the menu, as they were.
LEMMA PanelsKept ==
    ASSUME NEW s, NEW r, PanelsStored(s), r.conf.mode = s.conf.mode, r.conf.panels = s.conf.panels,
           r.visible = s.visible, r.ticked = s.ticked, s.ignored \subseteq r.ignored
    PROVE  PanelsStored(r)
<1>1. Conf!Shown(r.conf) = Conf!Shown(s.conf)
  BY DEF Conf!Shown, Conf!GetPanelEnabled
<1> QED
  BY <1>1 DEF PanelsStored

\* A file is opened and becomes the most recent.
LEMMA ConfOpenKeeps ==
    ASSUME ConfInv, NEW f \in Conf!Files, Conf!OpenOrSave(f)
    PROVE  ConfInv'
<1> DEFINE c == Conf!AddRecentFile(now.conf, f)
           q == now.conf.recent
           q2 == c.recent
           m == now.menu
           m2 == Conf!AddToHistory(m, f)
           n == Len(q)
<1>0. now \in ConfState /\ Good(now) /\ now.running /\ ~now.dialog.open
  BY DEF ConfInv, Good, Conf!OpenOrSave, Conf!Idle
<1>1. now.conf \in ConfTypes /\ ConfSound(now.conf) /\ m \in Menus
  BY <1>0 DEF ConfState, Confs
<1>2. now' = [now EXCEPT !.edits = @ + 1, !.conf = c, !.menu = m2, !.unwanted = @ \ {f}]
  BY <1>0 DEF Conf!OpenOrSave, Conf!Becomes, Conf!Edited, ConfState
<1>3. q \in Seq(Conf!Files) /\ n \in 0..2
  <2>1. q \in Seq(Conf!Files) /\ n <= 2
    BY <1>1 DEF ConfTypes, Recents
  <2>2. n \in Nat
    BY <2>1
  <2> HIDE DEF n
  <2> QED
    BY <2>1, <2>2
<1> DEFINE a == Append(q, f)
           z == IF Len(a) > Conf!MaxRecent THEN Tail(a) ELSE a
<1>4. c = [now.conf EXCEPT !.recent = z]
  BY DEF Conf!AddRecentFile
<1>5. a \in Seq(Conf!Files) /\ Len(a) = n + 1 /\ a[n + 1] = f /\ \A i \in 1..n : a[i] = q[i]
  BY <1>3
<1>6. /\ z \in Seq(Conf!Files) /\ (Len(z) = 1 \/ Len(z) = 2) /\ z[Len(z)] = f
      /\ (Len(z) = 2 => n > 0 /\ z[1] = q[n])
  <2>1. CASE n = 2
    <3>1. z = Tail(a)
      BY <1>5, <2>1 DEF Conf!MaxRecent
    <3>2. Tail(a) \in Seq(Conf!Files) /\ Len(Tail(a)) = 2 /\ Tail(a)[1] = a[2] /\ Tail(a)[2] = a[3]
      <4> HIDE DEF a
      <4>1. a # <<>> /\ Len(a) = 3
        <5> DEFINE k == Len(a)
        <5>1. k = n + 1
          BY <1>5
        <5> HIDE DEF k, n
        <5>2. k = 3
          BY <2>1, <5>1
        <5> QED
          BY <5>2 DEF k
      <4>2. Tail(a) \in Seq(Conf!Files) /\ Len(Tail(a)) = Len(a) - 1
              /\ \A i \in 1..Len(Tail(a)) : Tail(a)[i] = a[i + 1]
        BY <1>5, <4>1, HeadTailProperties
      <4>3. Len(Tail(a)) = 2 /\ 1 \in 1..2 /\ 2 \in 1..2
        BY <4>1, <4>2
      <4>4. Tail(a)[1] = a[1 + 1] /\ Tail(a)[2] = a[2 + 1] /\ 1 + 1 = 2 /\ 2 + 1 = 3
        BY <4>2, <4>3
      <4> QED
        BY <4>2, <4>3, <4>4
    <3> HIDE DEF z
    <3>3. a[2] = q[2] /\ a[3] = f
      <4> HIDE DEF a, n
      <4>1. 2 \in 1..n /\ n + 1 = 3
        BY <2>1
      <4> QED
        BY <1>5, <4>1
    <3> HIDE DEF n
    <3> QED
      BY SMTT(30), <2>1, <3>1, <3>2, <3>3
  <2>2. CASE n = 0 \/ n = 1
    <3>1. z = a
      BY <1>5, <2>2 DEF Conf!MaxRecent
    <3> HIDE DEF z, a, n
    <3>2. n = 0 => Len(z) = 1 /\ z[1] = f
      BY <1>5, <3>1
    <3>3. n = 1 => Len(z) = 2 /\ z[2] = f /\ z[1] = q[1]
      BY <1>5, <3>1
    <3> QED
      BY <1>5, <2>2, <3>1, <3>2, <3>3
  <2> HIDE DEF n, z
  <2> QED
    BY <1>3, <2>1, <2>2
<1> HIDE DEF a, z
<1>7. z \in Recents
  BY <1>6 DEF Recents
<1> HIDE DEF c, m2
<1>8. c \in Confs /\ q2 = z /\ c.mode = now.conf.mode /\ c.panels = now.conf.panels /\ c.points = now.conf.points
  <2>1. /\ c \in ConfTypes /\ q2 = z /\ c.mode = now.conf.mode /\ c.panels = now.conf.panels
           /\ c.points = now.conf.points
        /\ c.defaults = now.conf.defaults
    BY <1>1, <1>4, <1>7 DEF ConfTypes
  <2> QED
    BY <1>1, <2>1 DEF Confs, ConfSound
<1>9. /\ m2 \in Menus /\ Len(m2) > 0 /\ m2[1] = f
      /\ \A i \in 1..Len(m2) : m2[i] = f \/ \E j \in 1..Len(m) : m2[i] = m[j]
      /\ Len(m) > 0 /\ m[1] # f => Len(m2) = 2 /\ m2[2] = m[1]
  BY <1>1, AddedFits DEF m2
<1>10. /\ now' \in ConfState /\ now'.conf = c /\ now'.menu = m2 /\ now'.unwanted = now.unwanted \ {f}
       /\ now'.dialog = now.dialog /\ now'.visible = now.visible /\ now'.ticked = now.ticked
       /\ now'.ignored = now.ignored /\ now'.limit = now.limit /\ now'.disk = now.disk /\ now'.running = now.running
  <2>1. now.edits + 1 \in Nat /\ now.unwanted \ {f} \in SUBSET Conf!Files
    BY <1>0 DEF ConfState
  <2>2. now' \in ConfState
    BY <1>0, <1>2, <1>8, <1>9, <2>1 DEF ConfState
  <2> QED
    BY <1>0, <1>2, <2>2 DEF ConfState
<1>11. MenuWanted(now')
  <2>1. \A j \in 1..Len(m) : m[j] \notin now.unwanted
    BY <1>0 DEF Good, MenuWanted
  <2> QED
    BY <1>9, <1>10, <2>1 DEF MenuWanted
<1>12. PanelsStored(now')
  <2>1. PanelsStored(now)
    BY <1>0 DEF Good
  <2> QED
    BY <1>8, <1>10, <2>1, PanelsKept
<1>13. MenuStored(now')
  <2> SUFFICES ASSUME now.disk # Conf!Newer
               PROVE  /\ \A i \in 1..Len(z) : z[i] \in now.unwanted \ {f} \/ \E j \in 1..Len(m2) : m2[j] = z[i]
                      /\ Len(m2) > 0 /\ m2[1] = z[Len(z)]
    BY <1>8, <1>10 DEF MenuStored
  <2>0. Len(m2) \in Nat
    BY <1>9 DEF Menus
  <2>1. \E j \in 1..Len(m2) : m2[j] = f
    <3>1. 1 \in 1..Len(m2)
      BY <1>9, <2>0
    <3> QED
      BY <1>9, <3>1
  <2>2. ASSUME Len(z) = 2 PROVE z[1] \in now.unwanted \ {f} \/ \E j \in 1..Len(m2) : m2[j] = z[1]
    <3>1. n > 0 /\ z[1] = q[n]
      BY <1>6, <2>2
    <3>2. q[n] \in now.unwanted \/ (Len(m) > 0 /\ m[1] = q[n])
      BY <1>0, <3>1 DEF Good, MenuStored
    <3>3. CASE q[n] = f
      BY <2>1, <3>1, <3>3
    <3>4. CASE q[n] # f /\ q[n] \in now.unwanted
      BY <3>1, <3>4
    <3>5. CASE q[n] # f /\ Len(m) > 0 /\ m[1] = q[n]
      <4>1. Len(m2) = 2 /\ m2[2] = q[n] /\ 2 \in 1..2
        BY <1>9, <3>5
      <4> QED
        BY <3>1, <4>1
    <3> QED
      BY <3>2, <3>3, <3>4, <3>5
  <2>3. \A i \in 1..Len(z) : i = Len(z) \/ (Len(z) = 2 /\ i = 1)
    BY <1>6
  <2> QED
    BY <1>6, <1>9, <2>1, <2>2, <2>3
<1>14. now.conf.points # {} => now.conf.points = {now.limit}
  BY <1>0 DEF Good
<1> QED
  BY <1>0, <1>8, <1>10, <1>11, <1>12, <1>13, <1>14 DEF Good, ConfInv

\* A recent file is chosen, and dropped when it is gone.
LEMMA RecentKeeps ==
    ASSUME ConfInv, NEW i \in DOMAIN now.menu, Conf!OnRecentFile(i)
    PROVE  ConfInv'
<1> DEFINE m == now.menu
           f == m[i]
           q == now.conf.recent
           d == Conf!Dropped(q, f)
           c == [now.conf EXCEPT !.recent = d]
           m2 == Without(m, i)
           u == now.unwanted
           n == Len(q)
           l == Len(m)
<1>0. now \in ConfState /\ Good(now) /\ now.running
  BY DEF ConfInv, Good, Conf!OnRecentFile, Conf!Idle
<1>1. now.conf \in ConfTypes /\ ConfSound(now.conf) /\ m \in Menus /\ u \in SUBSET Conf!Files
  BY <1>0 DEF ConfState, Confs
<1>2. m \in Seq(Conf!Files) /\ l \in 0..2 /\ Conf!IsInjective(m) /\ i \in 1..l /\ f \in Conf!Files
  <2>1. m \in Seq(Conf!Files) /\ l <= 2 /\ Conf!IsInjective(m)
    BY <1>1 DEF Menus
  <2>2. l \in Nat /\ i \in 1..l
    BY <2>1
  <2>3. f \in Conf!Files
    BY <2>1, <2>2
  <2> HIDE DEF l
  <2> QED
    BY <2>1, <2>2, <2>3
<1>3. q \in Seq(Conf!Files) /\ n \in 0..2
  <2>1. q \in Seq(Conf!Files) /\ n <= 2
    BY <1>1 DEF ConfTypes, Recents
  <2>2. n \in Nat
    BY <2>1
  <2> HIDE DEF n
  <2> QED
    BY <2>1, <2>2
<1>4. now' = [now EXCEPT !.edits = @ + 1, !.conf = c, !.menu = m2, !.unwanted = @ \cup {f}]
  <2>1. Conf!RemoveAt(m, i) = m2
    BY DEF Conf!RemoveAt, Without
  <2> QED
    BY <1>0, <2>1 DEF Conf!OnRecentFile, Conf!Becomes, Conf!Edited, ConfState, Conf!RemoveRecentFile
<1>5. /\ d \in Seq(Conf!Files) /\ Len(d) <= n
      /\ \A a \in 1..Len(d) : \E b \in 1..n : d[a] = q[b]
      /\ n > 0 /\ q[n] # f => Len(d) > 0 /\ d[Len(d)] = q[n]
  <2>1. Len(q) <= 2
    <3> HIDE DEF q
    <3>1. n \in 0..2 => n <= 2
      <4> HIDE DEF n
      <4> QED
        OBVIOUS
    <3> QED
      BY <1>3, <3>1
  <2>2. q \in Seq(Conf!Files) /\ f \in Conf!Files
    BY <1>2, <1>3
  <2> HIDE DEF q, f
  <2> QED
    BY <2>1, <2>2, DroppedFits
<1>6. /\ m2 \in Seq(Conf!Files) /\ Len(m2) = l - 1
      /\ \A k \in 1..(l - 1) : m2[k] = IF k < i THEN m[k] ELSE m[k + 1]
  BY <1>2, WithoutType
<1> HIDE DEF d, m2
<1>7. d \in Recents
  <2> DEFINE k == Len(d)
  <2>1. k \in Nat /\ k <= n
    BY <1>5
  <2>2. k <= 2
    <3> HIDE DEF k, n
    <3> QED
      BY <1>3, <2>1
  <2> QED
    BY <1>5, <2>2 DEF Recents
<1> HIDE DEF c
<1>8. c \in Confs /\ c.recent = d /\ c.mode = now.conf.mode /\ c.panels = now.conf.panels
        /\ c.points = now.conf.points
  <2>1. /\ c \in ConfTypes /\ c.recent = d /\ c.mode = now.conf.mode /\ c.panels = now.conf.panels
           /\ c.points = now.conf.points
        /\ c.defaults = now.conf.defaults
    BY <1>1, <1>7 DEF ConfTypes, c
  <2> QED
    BY <1>1, <2>1 DEF Confs, ConfSound
<1>9. \A a, b \in 1..l : m[a] = m[b] => a = b
  BY <1>2 DEF Conf!IsInjective
<1>10. (l = 1 /\ i = 1 /\ Len(m2) = 0) \/ (l = 2 /\ Len(m2) = 1 /\ ((i = 1 /\ m2[1] = m[2]) \/ (i = 2 /\ m2[1] = m[1])))
  <2> HIDE DEF l
  <2>1. (l = 1 /\ i = 1) \/ (l = 2 /\ i = 1) \/ (l = 2 /\ i = 2)
    BY <1>2
  <2> QED
    BY <1>6, <2>1
<1>11. m2 \in Menus /\ \A k \in 1..Len(m2) : m2[k] # f /\ \E j \in 1..l : m2[k] = m[j]
  <2> DEFINE k2 == Len(m2)
  <2>1. k2 = 0 \/ k2 = 1
    BY <1>10
  <2>2. \A a, b \in 1..k2 : a = b
    <3> HIDE DEF k2
    <3> QED
      BY <2>1
  <2>3. Conf!IsInjective(m2)
    BY <1>6, <2>2 DEF Conf!IsInjective
  <2>4. k2 <= 2
    <3> HIDE DEF k2
    <3> QED
      BY <2>1
  <2>5. l = 2 => m[1] # m[2]
    <3> HIDE DEF l
    <3> QED
      BY <1>9
  <2>6. k2 = 1 => m2[1] # f /\ \E j \in 1..l : m2[1] = m[j]
    <3> HIDE DEF l
    <3> QED
      BY <1>10, <2>5 DEF k2
  <2>7. \A k \in 1..k2 : m2[k] # f /\ \E j \in 1..l : m2[k] = m[j]
    <3> HIDE DEF k2, l
    <3> QED
      BY <2>1, <2>6
  <2> QED
    BY <1>6, <2>3, <2>4, <2>7 DEF Menus
<1>12. /\ now' \in ConfState /\ now'.conf = c /\ now'.menu = m2 /\ now'.unwanted = u \cup {f}
       /\ now'.dialog = now.dialog /\ now'.visible = now.visible /\ now'.ticked = now.ticked
       /\ now'.ignored = now.ignored /\ now'.limit = now.limit /\ now'.disk = now.disk /\ now'.running = now.running
  <2>1. now.edits + 1 \in Nat /\ now.unwanted \cup {f} \in SUBSET Conf!Files
    BY <1>0, <1>1, <1>2 DEF ConfState
  <2> HIDE DEF f
  <2>2. now' \in ConfState
    BY <1>0, <1>4, <1>8, <1>11, <2>1 DEF ConfState
  <2> QED
    BY <1>0, <1>4, <2>2 DEF ConfState
<1>13. MenuWanted(now)
  BY <1>0 DEF Good
<1>14. MenuWanted(now')
  BY <1>11, <1>12, <1>13 DEF MenuWanted
<1>15. PanelsStored(now')
  <2>1. PanelsStored(now)
    BY <1>0 DEF Good
  <2> QED
    BY <1>8, <1>12, <2>1, PanelsKept
<1>16. f \notin u
  BY <1>2, <1>13 DEF MenuWanted
<1>17. ASSUME NEW g, \E j \in 1..l : m[j] = g PROVE g = f \/ \E k \in 1..Len(m2) : m2[k] = g
  <2> HIDE DEF l
  <2>1. l = 1 \/ l = 2
    BY <1>2
  <2>2. CASE l = 1
    BY <1>10, <1>17, <2>2
  <2>3. CASE l = 2
    <3>1. g = m[1] \/ g = m[2]
      BY <1>17, <2>3
    <3>2. CASE i = 1 /\ m2[1] = m[2] /\ Len(m2) = 1
      BY <3>1, <3>2
    <3>3. CASE i = 2 /\ m2[1] = m[1] /\ Len(m2) = 1
      BY <3>1, <3>3
    <3> QED
      BY <1>10, <2>3, <3>2, <3>3
  <2> QED
    BY <2>1, <2>2, <2>3
<1>18. MenuStored(now')
  <2> SUFFICES ASSUME now.disk # Conf!Newer
               PROVE  /\ \A a \in 1..Len(d) : d[a] \in u \cup {f} \/ \E k \in 1..Len(m2) : m2[k] = d[a]
                      /\ Len(d) > 0 /\ d[Len(d)] \notin u \cup {f} => Len(m2) > 0 /\ m2[1] = d[Len(d)]
    BY <1>8, <1>12 DEF MenuStored
  <2>0. /\ \A b \in 1..n : q[b] \in u \/ \E j \in 1..l : m[j] = q[b]
        /\ n > 0 /\ q[n] \notin u => l > 0 /\ m[1] = q[n]
    BY <1>0 DEF Good, MenuStored
  <2>1. ASSUME NEW a \in 1..Len(d) PROVE d[a] \in u \cup {f} \/ \E k \in 1..Len(m2) : m2[k] = d[a]
    <3>1. PICK b \in 1..n : d[a] = q[b]
      BY <1>5
    <3> QED
      BY <1>17, <2>0, <3>1
  <2>2. ASSUME Len(d) > 0, d[Len(d)] \notin u \cup {f} PROVE Len(m2) > 0 /\ m2[1] = d[Len(d)]
    <3>0. Len(d) \in Nat
      BY <1>5
    <3>1. Len(d) \in 1..Len(d)
      BY <2>2, <3>0
    <3>2. n > 0 /\ \E k \in 1..Len(m2) : m2[k] = d[Len(d)]
      <4>1. PICK b \in 1..n : d[Len(d)] = q[b]
        BY <1>5, <3>1
      <4>2. n > 0
        <5> HIDE DEF n
        <5> QED
          BY <1>3
      <4> QED
        BY <2>1, <2>2, <3>1, <4>2
    <3>3. Len(m2) = 1
      <4>1. Len(m2) = 0 \/ Len(m2) = 1
        BY <1>10
      <4> QED
        BY <3>2, <4>1
    <3>4. 1..1 = {1}
      OBVIOUS
    <3> QED
      BY <3>2, <3>3, <3>4
  <2> QED
    BY <2>1, <2>2
<1>19. now.conf.points # {} => now.conf.points = {now.limit}
  BY <1>0 DEF Good
<1>20. now.dialog.open => Selected(now.dialog)
  BY <1>0 DEF Good
<1> QED
  BY <1>0, <1>8, <1>12, <1>14, <1>15, <1>18, <1>19, <1>20 DEF Good, ConfInv

\* The panels that are stored, once they are.
Filled(c) == IF c.panels = Conf!Unset THEN [p \in Conf!Panels |-> TRUE] ELSE c.panels

\* Panels not yet stored are those shown.
LEMMA FilledShown ==
    ASSUME NEW c \in Confs
    PROVE  Filled(c) \in Views /\ (c.mode # "none" => Conf!Shown(c) = Filled(c))
<1>1. c.panels = Conf!Unset \/ c.panels \in Views
  BY DEF Confs, ConfTypes
<1>2. Filled(c) \in Views
  BY <1>1 DEF Filled, Views
<1>3. ASSUME c.mode # "none" PROVE Conf!Shown(c) = Filled(c)
  <2>1. ASSUME NEW p \in Conf!Panels PROVE Conf!GetPanelEnabled(c, p) = Filled(c)[p]
    <3>1. CASE c.panels = Conf!Unset
      BY <3>1 DEF Conf!GetPanelEnabled, Filled
    <3>2. CASE c.panels # Conf!Unset
      <4>1. c.panels[p] \in BOOLEAN
        BY <1>1, <3>2 DEF Views
      <4> QED
        BY <1>3, <3>2, <4>1 DEF Conf!GetPanelEnabled, Filled
    <3> QED
      BY <3>1, <3>2
  <2>2. Filled(c) = [p \in Conf!Panels |-> Filled(c)[p]]
    BY <1>2 DEF Views
  <2>3. [p \in Conf!Panels |-> Conf!GetPanelEnabled(c, p)] = [p \in Conf!Panels |-> Filled(c)[p]]
    BY <2>1
  <2> QED
    BY <2>2, <2>3 DEF Conf!Shown
<1> QED
  BY <1>2, <1>3

\* One panel is stored.
LEMMA SetFits ==
    ASSUME NEW c \in Confs, NEW p \in Conf!Panels, NEW on \in BOOLEAN, NEW permanent \in BOOLEAN
    PROVE  LET r == Conf!SetPanelEnabled(c, p, on, permanent)
           IN  /\ r \in Confs /\ r.mode = c.mode /\ r.recent = c.recent /\ r.defaults = c.defaults
               /\ r.points = c.points /\ r.panels \in Views
               /\ r.panels = IF c.mode # "specify" \/ permanent THEN [Filled(c) EXCEPT ![p] = on] ELSE Filled(c)
<1> DEFINE v == IF c.mode # "specify" \/ permanent THEN [Filled(c) EXCEPT ![p] = on] ELSE Filled(c)
           r == [c EXCEPT !.panels = v]
<1>1. v \in Views
  <2>1. Filled(c) \in Views
    BY FilledShown
  <2>2. [Filled(c) EXCEPT ![p] = on] \in Views
    BY <2>1 DEF Views
  <2> QED
    BY <2>1, <2>2
<1>2. Conf!SetPanelEnabled(c, p, on, permanent) = r
  BY DEF Conf!SetPanelEnabled, Filled
<1> HIDE DEF v
<1>3. c \in ConfTypes /\ ConfSound(c)
  BY DEF Confs
<1>4. /\ r \in ConfTypes /\ r.mode = c.mode /\ r.recent = c.recent /\ r.defaults = c.defaults
      /\ r.points = c.points /\ r.panels = v
  BY <1>1, <1>3 DEF ConfTypes
<1> HIDE DEF r
<1>5. ConfSound(r)
  BY <1>1, <1>3, <1>4, DefaultFits DEF ConfSound
<1>6. r \in Confs
  BY <1>4, <1>5 DEF Confs
<1> QED
  BY <1>1, <1>2, <1>4, <1>6 DEF v
\* A step that leaves the stored files and their menu alone.
LEMMA MenuKept ==
    ASSUME NEW s, NEW r, MenuStored(s), r.conf.recent = s.conf.recent, r.menu = s.menu, r.unwanted = s.unwanted,
           r.disk = s.disk
    PROVE  MenuStored(r)
BY DEF MenuStored

\* A step of the dialog only.
LEMMA ConfDialogKeeps ==
    ASSUME ConfInv, now.running, NEW d \in {Conf!Closed} \cup Dialogs, d.open => Selected(d), NEW e \in Nat,
           now' = [now EXCEPT !.dialog = d, !.edits = e]
    PROVE  ConfInv'
<1>1. Good(now) /\ now \in ConfState
  BY DEF ConfInv, Good
<1>2. now' \in ConfState
        /\ \A k \in {"running", "conf", "disk", "menu", "limit", "visible", "ticked", "ignored", "unwanted"} :
                               now'[k] = now[k]
  BY <1>1 DEF ConfState
<1>3. now'.dialog = d
  BY <1>1 DEF ConfState
<1>4. MenuWanted(now') /\ MenuStored(now') /\ PanelsStored(now')
  BY <1>1, <1>2 DEF Good, MenuWanted, MenuStored, PanelsStored
<1>5. now.conf.points # {} => now.conf.points = {now.limit}
  BY <1>1 DEF Good
<1> QED
  BY <1>2, <1>3, <1>4, <1>5 DEF Good, ConfInv

\* What a step of the dialog leaves alone.
LEMMA DialogStepKeeps ==
    ASSUME ConfInv, Conf!Opened, NEW d \in Dialogs, Selected(d), Conf!Dialog(d)
    PROVE  ConfInv'
<1>1. now \in ConfState /\ now.running
  BY DEF ConfInv, Good, Conf!Opened
<1>2. now.edits + 1 \in Nat
  BY <1>1 DEF ConfState
<1>3. now' = [now EXCEPT !.dialog = d, !.edits = now.edits + 1]
  BY <1>1 DEF Conf!Dialog, Conf!Becomes, Conf!Edited, ConfState
<1> QED
  BY <1>1, <1>2, <1>3, ConfDialogKeeps

\* The dialog, when it is open.
LEMMA DialogState ==
    ASSUME ConfInv, Conf!Opened
    PROVE  now.dialog \in Dialogs /\ Selected(now.dialog) /\ now \in ConfState /\ now.running /\ now.dialog.open
<1>1. now \in ConfState /\ now.running /\ now.dialog.open /\ Selected(now.dialog)
  BY DEF ConfInv, Good, Conf!Opened
<1>2. now.dialog # Conf!Closed
  BY <1>1, KindsDiffer
<1> QED
  BY <1>1, <1>2 DEF ConfState

\* The dialog is opened with what is stored.
LEMMA EditPreferencesKeeps ==
    ASSUME ConfInv, Conf!OnEditPreferences
    PROVE  ConfInv'
<1> DEFINE d == [open |-> TRUE, defaults |-> now.conf.defaults, cur |-> Conf!NoFilter, checks |-> Conf!Shown(now.conf),
                 combo |-> now.conf.mode, zoom |-> now.conf.zoom]
<1>1. now \in ConfState /\ now.running /\ now.conf \in Confs
  BY DEF ConfInv, Good, Conf!OnEditPreferences, Conf!Idle, ConfState
<1>2. now.conf \in ConfTypes /\ ConfSound(now.conf) /\ Conf!Shown(now.conf) \in Views
  BY <1>1, ShownFits DEF Confs
<1>3. now' = [now EXCEPT !.dialog = d, !.edits = now.edits]
  BY <1>1 DEF Conf!OnEditPreferences, Conf!Becomes, ConfState
<1>4. Conf!NoFilter \in Curs /\ Conf!NoFilter.at = 0 /\ Conf!NoFilter.type = "none"
  BY DEF Conf!NoFilter, Curs
<1>5. d \in Dialogs /\ d.defaults = now.conf.defaults /\ d.cur = Conf!NoFilter
  BY <1>2, <1>4 DEF Dialogs, ConfTypes
<1> HIDE DEF d
<1>6. Selected(d)
  <2>1. \A i \in 1..Len(d.defaults) : d.defaults[i] # "none"
    <3>1. d.defaults \in Seq(Conf!Types) /\ "none" \notin Conf!Types
      BY <1>2, <1>5 DEF ConfTypes, Conf!Types
    <3> QED
      BY <3>1
  <2> QED
    BY <1>2, <1>4, <1>5, <2>1 DEF Selected, ConfSound
<1>7. now.edits \in Nat
  BY <1>1 DEF ConfState
<1> QED
  BY <1>1, <1>3, <1>5, <1>6, <1>7, ConfDialogKeeps

\* And closed without a change.
LEMMA CancelKeeps ==
    ASSUME ConfInv, Conf!Cancel
    PROVE  ConfInv'
<1>1. now \in ConfState /\ now.running
  BY DEF ConfInv, Good, Conf!Cancel, Conf!Opened
<1>2. now' = [now EXCEPT !.dialog = Conf!Closed, !.edits = now.edits] /\ now.edits \in Nat
  BY <1>1 DEF Conf!Cancel, Conf!Becomes, ConfState
<1> QED
  BY <1>1, <1>2, ConfDialogKeeps, KindsDiffer

\* A filter is chosen in the list: its defaults, or the program's.
LEMMA ListClickKeeps ==
    ASSUME ConfInv, NEW t \in Conf!Types, Conf!OnFilterListClick(t)
    PROVE  ConfInv'
<1> DEFINE p == Conf!Place(now.dialog.defaults, t)
           d == [now.dialog EXCEPT !.cur = [type |-> t, at |-> p]]
           q == now.dialog.defaults
<1>1. now.dialog \in Dialogs /\ Selected(now.dialog) /\ now \in ConfState /\ now.running
  BY DialogState DEF Conf!OnFilterListClick
<1>2. q \in Seq(Conf!Types)
  BY <1>1 DEF Dialogs
<1>3. p \in 0..Len(q) /\ (p = 0 => \A i \in 1..Len(q) : q[i] # t) /\ (p # 0 => q[p] = t)
  BY <1>2, PlaceFits
<1>4. now' = [now EXCEPT !.dialog = d, !.edits = now.edits] /\ now.edits \in Nat
  BY <1>1 DEF Conf!OnFilterListClick, Conf!Becomes, ConfState
<1>5. Len(q) \in Nat
  BY <1>2
<1> HIDE DEF p
<1>6. p \in Nat /\ (p # 0 => p \in 1..Len(q))
  BY <1>3, <1>5
<1> DEFINE cur == [type |-> t, at |-> p]
<1>7. cur \in Curs /\ cur.type = t /\ cur.at = p /\ t # "none"
  BY <1>6 DEF Curs, Conf!Types
<1> HIDE DEF cur
<1>8. d \in Dialogs /\ d.defaults = q /\ d.cur = cur
  BY <1>1, <1>7 DEF Dialogs, cur
<1> HIDE DEF d
<1>9. Selected(d)
  BY <1>1, <1>3, <1>6, <1>7, <1>8 DEF Selected
<1> QED
  BY <1>1, <1>4, <1>8, <1>9, ConfDialogKeeps

\* A default is typed, and becomes one of the user's.
LEMMA CellChangeKeeps ==
    ASSUME ConfInv, Conf!OnFilterCellChange
    PROVE  ConfInv'
<1> DEFINE q == now.dialog.defaults
           t == now.dialog.cur.type
           q2 == Append(q, t)
           d == [now.dialog EXCEPT !.defaults = q2, !.cur.at = Len(q) + 1]
<1>1. now.dialog \in Dialogs /\ Selected(now.dialog) /\ Conf!Opened /\ now.dialog.cur.at = 0
        /\ now.dialog.cur # Conf!NoFilter
  BY DialogState DEF Conf!OnFilterCellChange
<1>2. q \in Seq(Conf!Types) /\ now.dialog.cur \in Curs
  BY <1>1 DEF Dialogs
<1>3. t \in Conf!Types
  <2>1. t # "none"
    BY <1>1, <1>2 DEF Curs, Conf!NoFilter
  <2> QED
    BY <1>2, <2>1 DEF Curs
<1>4. Len(q) \in Nat /\ q2 \in Seq(Conf!Types) /\ Len(q2) = Len(q) + 1 /\ q2[Len(q) + 1] = t
        /\ \A i \in 1..Len(q) : q2[i] = q[i]
  BY <1>2, <1>3
<1>5. Conf!Dialog(d)
  BY <1>1 DEF Conf!OnFilterCellChange, Dialogs
<1> HIDE DEF q2
<1> DEFINE cur == [now.dialog.cur EXCEPT !.at = Len(q) + 1]
<1>6. cur \in Curs /\ cur.type = t /\ cur.at = Len(q) + 1
  BY <1>2, <1>4 DEF Curs
<1> HIDE DEF cur
<1>7. d = [now.dialog EXCEPT !.defaults = q2, !.cur = cur]
  BY <1>1 DEF Dialogs, cur
<1> HIDE DEF d
<1>8. d \in Dialogs /\ d.defaults = q2 /\ d.cur = cur
  BY <1>1, <1>4, <1>6, <1>7 DEF Dialogs
<1>9. Conf!IsInjective(q2)
  <2> DEFINE n == Len(q)
  <2>1. \A i, j \in 1..n : q[i] = q[j] => i = j
    BY <1>1, <1>2 DEF Selected, Conf!IsInjective
  <2>2. \A i \in 1..n : q[i] # t
    BY <1>1 DEF Selected
  <2> SUFFICES ASSUME NEW i \in 1..(n + 1), NEW j \in 1..(n + 1), q2[i] = q2[j] PROVE i = j
    BY <1>4 DEF Conf!IsInjective
  <2>3. \A a \in 1..(n + 1) : a \in 1..n \/ a = n + 1
    <3> HIDE DEF n
    <3>1. n \in Nat
      BY <1>4 DEF n
    <3> QED
      BY <3>1
  <2> HIDE DEF n
  <2>4. \A a \in 1..n : q2[a] = q[a]
    BY <1>4 DEF n
  <2>5. q2[n + 1] = t
    BY <1>4 DEF n
  <2> QED
    BY <2>1, <2>2, <2>3, <2>4, <2>5
<1>10. Selected(d)
  <2>1. Len(q) + 1 # 0 /\ Len(q) + 1 \in 1..(Len(q) + 1)
    BY <1>4
  <2>2. t # "none"
    BY <1>3 DEF Conf!Types
  <2> QED
    BY <1>4, <1>6, <1>8, <1>9, <2>1, <2>2 DEF Selected
<1> QED
  BY <1>1, <1>5, <1>8, <1>10, DialogStepKeeps

\* The last default takes the place of the one that is reset.
LEMMA ResetKeeps ==
    ASSUME ConfInv, Conf!OnResetFilterButton
    PROVE  ConfInv'
<1> DEFINE q == now.dialog.defaults
           n == Len(q)
           p == now.dialog.cur.at
           w == [i \in DOMAIN q |-> IF i = p THEN Conf!Last(q) ELSE q[i]]
           q2 == Conf!Front(w)
           d == [now.dialog EXCEPT !.defaults = q2, !.cur.at = 0]
<1>1. now.dialog \in Dialogs /\ Selected(now.dialog) /\ Conf!Opened /\ p # 0
  BY DialogState DEF Conf!OnResetFilterButton
<1>2. q \in Seq(Conf!Types) /\ now.dialog.cur \in Curs /\ n \in Nat /\ p \in 1..n /\ q[p] = now.dialog.cur.type
  <2>1. q \in Seq(Conf!Types) /\ now.dialog.cur \in Curs
    BY <1>1 DEF Dialogs
  <2> QED
    BY <1>1, <2>1 DEF Selected
<1>3. Conf!Last(q) = q[n] /\ n \in 1..n
  <2>1. n \in 1..n
    <3> HIDE DEF n, p
    <3> QED
      BY <1>2
  <2> QED
    BY <2>1 DEF Conf!Last
<1>4. w \in Seq(Conf!Types) /\ Len(w) = n /\ \A i \in 1..n : w[i] = IF i = p THEN q[n] ELSE q[i]
  <2>1. DOMAIN q = 1..n /\ \A i \in 1..n : q[i] \in Conf!Types
    BY <1>2
  <2>2. w = [i \in 1..n |-> IF i = p THEN q[n] ELSE q[i]]
    BY <1>3, <2>1
  <2>3. w \in [1..n -> Conf!Types]
    BY <1>3, <2>1, <2>2
  <2> HIDE DEF w, n
  <2>4. w \in Seq(Conf!Types) /\ Len(w) = n
    BY <1>2, <2>3
  <2> QED
    BY <2>2, <2>4
<1> HIDE DEF w
<1>5. q2 \in Seq(Conf!Types) /\ Len(q2) = n - 1 /\ \A i \in 1..(n - 1) : q2[i] = w[i]
  <2>1. \A i \in 1..(n - 1) : w[i] \in Conf!Types
    BY <1>2, <1>4
  <2>2. 1 \in 1..(n + 1) /\ n - 1 \in (1 - 1)..n /\ n - 1 \in Int
    <3> HIDE DEF n, p
    <3> QED
      BY <1>2
  <2>3. Conf!Front(w) = SubSeq(w, 1, n - 1)
    BY <1>4 DEF Conf!Front
  <2> HIDE DEF n
  <2> QED
    BY <1>2, <1>4, <2>1, <2>2, <2>3, SubSeqProperties
<1>6. Conf!Dialog(d)
  BY <1>1 DEF Conf!OnResetFilterButton, Dialogs, w
<1> HIDE DEF q2
<1> DEFINE cur == [now.dialog.cur EXCEPT !.at = 0]
<1>7. cur \in Curs /\ cur.type = now.dialog.cur.type /\ cur.at = 0
  BY <1>2 DEF Curs
<1> HIDE DEF cur
<1>8. d = [now.dialog EXCEPT !.defaults = q2, !.cur = cur]
  BY <1>1 DEF Dialogs, cur
<1> HIDE DEF d
<1>9. d \in Dialogs /\ d.defaults = q2 /\ d.cur = cur
  BY <1>1, <1>5, <1>7, <1>8 DEF Dialogs
<1>10. \A i, j \in 1..n : q[i] = q[j] => i = j
  BY <1>1, <1>2 DEF Selected, Conf!IsInjective
<1> HIDE DEF n, p
<1>11. \A i \in 1..(n - 1) : i \in 1..n /\ i # n /\ q2[i] = IF i = p THEN q[n] ELSE q[i]
  BY <1>2, <1>4, <1>5
<1>12. \A i \in 1..(n - 1) : q2[i] # q[p]
  BY <1>2, <1>3, <1>10, <1>11
<1>13. Conf!IsInjective(q2)
  <2> SUFFICES ASSUME NEW i \in 1..(n - 1), NEW j \in 1..(n - 1), q2[i] = q2[j] PROVE i = j
    BY <1>5 DEF Conf!IsInjective
  <2> QED
    BY <1>3, <1>10, <1>11
<1>14. Selected(d)
  <2>1. q[p] = now.dialog.cur.type
    BY <1>2 DEF p
  <2> QED
    BY <1>5, <1>7, <1>9, <1>12, <1>13, <2>1 DEF Selected
<1> QED
  BY <1>1, <1>6, <1>9, <1>14, DialogStepKeeps

\* All defaults are reset.
LEMMA ResetAllKeeps ==
    ASSUME ConfInv, Conf!OnResetFilterAllButton
    PROVE  ConfInv'
<1> DEFINE d == [now.dialog EXCEPT !.defaults = <<>>, !.cur.at = 0]
           cur == [now.dialog.cur EXCEPT !.at = 0]
<1>1. now.dialog \in Dialogs /\ Conf!Opened /\ Conf!Dialog(d)
  BY DialogState DEF Conf!OnResetFilterAllButton
<1>2. cur \in Curs /\ cur.at = 0
  BY <1>1 DEF Curs, Dialogs
<1>3. d = [now.dialog EXCEPT !.defaults = <<>>, !.cur = cur]
  BY <1>1 DEF Dialogs
<1>4. <<>> \in Seq(Conf!Types) /\ Conf!IsInjective(<<>>) /\ Len(<<>>) = 0
  BY DEF Conf!IsInjective
<1> HIDE DEF d, cur
<1>5. d \in Dialogs /\ d.defaults = <<>> /\ d.cur = cur
  BY <1>1, <1>2, <1>3, <1>4 DEF Dialogs
<1>6. Selected(d)
  BY <1>2, <1>4, <1>5 DEF Selected
<1> QED
  BY <1>1, <1>5, <1>6, DialogStepKeeps

\* The rest of the dialog leaves the default filters alone.
LEMMA RestKeeps ==
    ASSUME ConfInv,
           \/ \E m \in {"none", "remember", "specify"} : Conf!OnStartupPanelCombo(m)
           \/ \E p \in Conf!Panels : Conf!TickPanel(p)
           \/ \E r \in Conf!Rates : Conf!OnMouseZoomSlider(r)
    PROVE  ConfInv'
<1>0. Conf!Opened
  BY DEF Conf!OnStartupPanelCombo, Conf!TickPanel, Conf!OnMouseZoomSlider
<1>1. now.dialog \in Dialogs /\ Selected(now.dialog) /\ now \in ConfState /\ now.running
  BY <1>0, DialogState
<1>2. \E d \in Dialogs : Conf!Dialog(d) /\ d.defaults = now.dialog.defaults /\ d.cur = now.dialog.cur
  <2>1. ASSUME NEW m \in {"none", "remember", "specify"}, Conf!OnStartupPanelCombo(m)
        PROVE  \E d \in Dialogs : Conf!Dialog(d) /\ d.defaults = now.dialog.defaults /\ d.cur = now.dialog.cur
    <3> DEFINE v == IF m = "remember" THEN [p \in Conf!Panels |-> TRUE] ELSE now.dialog.checks
               d == [now.dialog EXCEPT !.combo = m, !.checks = v]
    <3>1. v \in Views /\ m \in ConfModes
      BY <1>1 DEF Dialogs, Views, ConfModes
    <3>2. Conf!Ticked(now.dialog, m) = d
      BY <1>1 DEF Conf!Ticked, Dialogs
    <3>3. Conf!Dialog(d)
      BY <2>1, <3>2 DEF Conf!OnStartupPanelCombo
    <3> HIDE DEF v
    <3>4. d \in Dialogs /\ d.defaults = now.dialog.defaults /\ d.cur = now.dialog.cur
      BY <1>1, <3>1 DEF Dialogs
    <3> HIDE DEF d
    <3> QED
      BY <3>3, <3>4
  <2>2. ASSUME NEW p \in Conf!Panels, Conf!TickPanel(p)
        PROVE  \E d \in Dialogs : Conf!Dialog(d) /\ d.defaults = now.dialog.defaults /\ d.cur = now.dialog.cur
    <3> DEFINE v == [now.dialog.checks EXCEPT ![p] = ~@]
               d == [now.dialog EXCEPT !.checks = v]
    <3>1. v \in Views
      <4>1. now.dialog.checks \in Views
        BY <1>1 DEF Dialogs
      <4> QED
        BY <4>1 DEF Views
    <3>2. Conf!Dialog(d)
      <4>1. [now.dialog EXCEPT !.checks[p] = ~@] = d
        BY <1>1 DEF Dialogs
      <4> QED
        BY <2>2, <4>1 DEF Conf!TickPanel
    <3> HIDE DEF v
    <3>3. d \in Dialogs /\ d.defaults = now.dialog.defaults /\ d.cur = now.dialog.cur
      BY <1>1, <3>1 DEF Dialogs
    <3> HIDE DEF d
    <3> QED
      BY <3>2, <3>3
  <2>3. ASSUME NEW r \in Conf!Rates, Conf!OnMouseZoomSlider(r)
        PROVE  \E d \in Dialogs : Conf!Dialog(d) /\ d.defaults = now.dialog.defaults /\ d.cur = now.dialog.cur
    <3> DEFINE d == [now.dialog EXCEPT !.zoom = r]
    <3>1. Conf!Dialog(d)
      BY <2>3 DEF Conf!OnMouseZoomSlider
    <3>2. d \in Dialogs /\ d.defaults = now.dialog.defaults /\ d.cur = now.dialog.cur
      BY <1>1 DEF Dialogs
    <3> HIDE DEF d
    <3> QED
      BY <3>1, <3>2
  <2> QED
    BY <2>1, <2>2, <2>3
<1>3. PICK d \in Dialogs : Conf!Dialog(d) /\ d.defaults = now.dialog.defaults /\ d.cur = now.dialog.cur
  BY <1>2
<1>4. Selected(d)
  BY <1>1, <1>3 DEF Selected
<1> QED
  BY <1>0, <1>3, <1>4, DialogStepKeeps

\* A panel is shown or hidden by its menu entry.
LEMMA ToggleKeeps ==
    ASSUME ConfInv, NEW p \in Conf!Panels, Conf!TogglePanel(p)
    PROVE  ConfInv'
<1> DEFINE on == ~now.visible[p]
           c == Conf!SetPanelEnabled(now.conf, p, on, FALSE)
           v == [now.visible EXCEPT ![p] = on]
           r == now.conf
<1>0. now \in ConfState /\ Good(now) /\ now.running /\ ~now.dialog.open
  BY DEF ConfInv, Good, Conf!TogglePanel, Conf!Idle
<1>1. r \in Confs /\ now.visible \in Views /\ on \in BOOLEAN
  <2>1. r \in Confs /\ now.visible \in Views
    BY <1>0 DEF ConfState
  <2> QED
    BY <2>1
<1> HIDE DEF on
<1>2. now' = [now EXCEPT !.edits = @ + 1, !.visible = v, !.conf = c, !.ignored = @ \ {p}]
  BY <1>0 DEF Conf!TogglePanel, Conf!Becomes, Conf!Edited, ConfState, on
<1>3. v \in Views /\ v[p] = on /\ \A q \in Conf!Panels : q # p => v[q] = now.visible[q]
  BY <1>1 DEF Views
<1>4. /\ c \in Confs /\ c.mode = r.mode /\ c.recent = r.recent /\ c.points = r.points /\ c.panels \in Views
      /\ c.panels = IF r.mode # "specify" THEN [Filled(r) EXCEPT ![p] = on] ELSE Filled(r)
  <2>1. /\ c \in Confs /\ c.mode = r.mode /\ c.recent = r.recent /\ c.defaults = r.defaults
        /\ c.points = r.points /\ c.panels \in Views
        /\ c.panels = IF r.mode # "specify" \/ FALSE THEN [Filled(r) EXCEPT ![p] = on] ELSE Filled(r)
    BY <1>1, SetFits, ZenonT(60)
  <2> QED
    BY <2>1
<1> HIDE DEF c, v
<1>5. Filled(c) = c.panels
  BY <1>4, DefaultFits DEF Filled
<1>6. /\ now' \in ConfState /\ now'.conf = c /\ now'.visible = v /\ now'.ticked = now.ticked /\ now'.menu = now.menu
      /\ now'.unwanted = now.unwanted /\ now'.dialog = now.dialog /\ now'.ignored = now.ignored \ {p}
      /\ now'.limit = now.limit /\ now'.disk = now.disk /\ now'.running = now.running
  <2>1. now.edits + 1 \in Nat /\ now.ignored \ {p} \in SUBSET Conf!Panels
    BY <1>0 DEF ConfState
  <2>2. now' \in ConfState
    BY <1>0, <1>2, <1>3, <1>4, <2>1 DEF ConfState
  <2> QED
    BY <1>0, <1>2, <2>2 DEF ConfState
<1>7. PanelsStored(now')
  <2>1. PanelsStored(now)
    BY <1>0 DEF Good
  <2>2. Filled(r) \in Views /\ (r.mode # "none" => Conf!Shown(r) = Filled(r) /\ Conf!Shown(c) = c.panels)
    BY <1>1, <1>4, <1>5, FilledShown
  <2>3. CASE r.mode = "remember"
    <3>1. c.panels = [Filled(r) EXCEPT ![p] = on]
      BY <1>4, <2>3
    <3>2. c.panels[p] = on /\ \A q \in Conf!Panels : q # p => c.panels[q] = Filled(r)[q]
      BY <2>2, <3>1 DEF Views
    <3>3. Conf!Shown(r) = Filled(r) /\ Conf!Shown(c) = c.panels /\ c.mode = "remember"
      BY <1>4, <2>2, <2>3
    <3>4. ASSUME NEW q \in Conf!Panels \ (now.ignored \ {p}) PROVE Conf!Shown(c)[q] = v[q]
      <4>1. CASE q = p
        BY <1>3, <3>2, <3>3, <4>1
      <4>2. CASE q # p
        <5>1. Conf!Shown(r)[q] = now.visible[q]
          BY <2>1, <2>3, <3>4, <4>2 DEF PanelsStored
        <5> QED
          BY <1>3, <3>2, <3>3, <4>2, <5>1
      <4> QED
        BY <4>1, <4>2
    <3> QED
      BY <1>6, <3>3, <3>4 DEF PanelsStored
  <2>4. CASE r.mode = "specify"
    BY <1>4, <1>6, <2>1, <2>2, <2>4 DEF PanelsStored
  <2>5. CASE r.mode \notin {"remember", "specify"}
    BY <1>4, <1>6, <2>5 DEF PanelsStored
  <2> QED
    BY <2>3, <2>4, <2>5
<1>8. MenuStored(now') /\ MenuWanted(now')
  BY <1>0, <1>4, <1>6, MenuKept DEF Good, MenuWanted
<1>9. now.conf.points # {} => now.conf.points = {now.limit}
  BY <1>0 DEF Good
<1> QED
  BY <1>0, <1>4, <1>6, <1>7, <1>8, <1>9 DEF Good, ConfInv

\* The limit of points is set, and stored.
LEMMA LimitKeeps ==
    ASSUME ConfInv, NEW l \in {0, 2}, Conf!LimitOutput(l)
    PROVE  ConfInv'
<1> DEFINE c == [now.conf EXCEPT !.points = {l}]
<1>0. now \in ConfState /\ Good(now) /\ now.running /\ ~now.dialog.open
  BY DEF ConfInv, Good, Conf!LimitOutput, Conf!Idle
<1>1. now.conf \in ConfTypes /\ ConfSound(now.conf) /\ l \in Limits
  BY <1>0 DEF ConfState, Confs, Limits
<1>2. now' = [now EXCEPT !.edits = @ + 1, !.limit = l, !.conf = c]
  BY <1>0 DEF Conf!LimitOutput, Conf!Becomes, Conf!Edited, ConfState
<1>3. /\ c \in ConfTypes /\ c.mode = now.conf.mode /\ c.panels = now.conf.panels /\ c.recent = now.conf.recent
      /\ c.points = {l} /\ c.defaults = now.conf.defaults
  BY <1>1 DEF ConfTypes
<1> HIDE DEF c
<1>4. c \in Confs
  BY <1>1, <1>3 DEF Confs, ConfSound
<1>5. /\ now' \in ConfState /\ now'.conf = c /\ now'.visible = now.visible
         /\ now'.ticked = now.ticked /\ now'.menu = now.menu
      /\ now'.unwanted = now.unwanted /\ now'.dialog = now.dialog /\ now'.ignored = now.ignored
      /\ now'.limit = l /\ now'.disk = now.disk /\ now'.running = now.running
  <2>1. now.edits + 1 \in Nat
    BY <1>0 DEF ConfState
  <2>2. now' \in ConfState
    BY <1>0, <1>1, <1>2, <1>4, <2>1 DEF ConfState
  <2> QED
    BY <1>0, <1>2, <2>2 DEF ConfState
<1>6. MenuStored(now') /\ MenuWanted(now')
  BY <1>0, <1>3, <1>5, MenuKept DEF Good, MenuWanted
<1>7. PanelsStored(now')
  BY <1>0, <1>3, <1>5, PanelsKept DEF Good
<1> QED
  BY <1>0, <1>3, <1>5, <1>6, <1>7 DEF Good, ConfInv

\* What ends the program leaves nothing to be compared but the file.
LEMMA EndKeeps ==
    ASSUME ConfInv, NEW f \in Disks, now' = [now EXCEPT !.running = FALSE, !.disk = f, !.dialog = Conf!Closed]
    PROVE  ConfInv'
<1>1. now \in ConfState /\ MenuWanted(now)
  BY DEF ConfInv, Good
<1>2. now' \in ConfState
  BY <1>1 DEF ConfState
<1>3. now'.running = FALSE /\ now'.dialog = Conf!Closed /\ now'.menu = now.menu /\ now'.unwanted = now.unwanted
  BY <1>1 DEF ConfState
<1>4. MenuWanted(now')
  BY <1>1, <1>3 DEF MenuWanted
<1> QED
  BY <1>2, <1>3, <1>4, KindsDiffer DEF ConfInv, Good

\* The program ends and writes the configuration.
LEMMA CloseKeeps ==
    ASSUME ConfInv, NEW whole \in BOOLEAN, Conf!OnClose(whole)
    PROVE  ConfInv'
<1> DEFINE f == IF whole THEN Conf!Written(now.conf) ELSE Conf!NoXML
<1>1. now \in ConfState /\ now.conf \in Confs /\ now.dialog = Conf!Closed
  <2>1. now \in ConfState /\ ~now.dialog.open
    BY DEF ConfInv, Good, Conf!OnClose, Conf!Idle
  <2>2. \A d \in Dialogs : d.open
    BY DEF Dialogs
  <2> QED
    BY <2>1, <2>2 DEF ConfState
<1>2. f \in Disks
  BY <1>1 DEF Disks, Conf!Written
<1> HIDE DEF f
<1>3. now' = [now EXCEPT !.running = FALSE, !.disk = f]
  BY DEF Conf!OnClose, Conf!Becomes, f
<1>4. now' = [now EXCEPT !.running = FALSE, !.disk = f, !.dialog = Conf!Closed]
  BY <1>1, <1>3 DEF ConfState
<1> QED
  BY <1>2, <1>4, EndKeeps

\* Or crashes, and does not.
LEMMA CrashKeeps ==
    ASSUME ConfInv, Conf!Crash
    PROVE  ConfInv'
<1>1. now \in ConfState
  BY DEF ConfInv, Good
<1>2. now.disk \in Disks /\ now' = [now EXCEPT !.running = FALSE, !.disk = now.disk, !.dialog = Conf!Closed]
  BY <1>1 DEF ConfState, Conf!Crash, Conf!Becomes
<1> QED
  BY <1>2, EndKeeps

\* It starts again with what is on the disk.
LEMMA RestartKeeps ==
    ASSUME ConfInv, Conf!Restart
    PROVE  ConfInv'
<1>1. now \in ConfState /\ now.dialog = Conf!Closed /\ now.disk \in Disks
  BY DEF ConfInv, Good, Conf!Restart, ConfState
<1>2. now' = Conf!Start(now, now.disk)
  BY DEF Conf!Restart, Conf!Becomes
<1> QED
  BY <1>1, <1>2, StartFits DEF ConfInv

\* What is ticked is stored.
LEMMA ConfOKKeeps ==
    ASSUME ConfInv, Conf!OK
    PROVE  ConfInv'
<1> DEFINE d == now.dialog
           v == d.checks
           a == Conf!SetPanelEnabled(now.conf, "control", v["control"], TRUE)
           b == Conf!SetPanelEnabled(a, "plotlist", v["plotlist"], TRUE)
           c == [b EXCEPT !.mode = d.combo, !.zoom = d.zoom, !.defaults = d.defaults]
           g == {p \in Conf!Panels : v[p] # now.visible[p]}
<1>0. d \in Dialogs /\ Selected(d) /\ now \in ConfState /\ now.running
  BY DialogState DEF Conf!OK
<1>1. v \in Views /\ now.conf \in Confs /\ "control" \in Conf!Panels /\ "plotlist" \in Conf!Panels
  BY <1>0 DEF Dialogs, ConfState, Conf!Panels
<1>2. v["control"] \in BOOLEAN /\ v["plotlist"] \in BOOLEAN
  BY <1>1 DEF Views
<1>3. /\ a \in Confs /\ a.recent = now.conf.recent /\ a.points = now.conf.points /\ a.panels \in Views
      /\ a.panels = [Filled(now.conf) EXCEPT !["control"] = v["control"]]
  <2>1. /\ a \in Confs /\ a.mode = now.conf.mode /\ a.recent = now.conf.recent /\ a.defaults = now.conf.defaults
        /\ a.points = now.conf.points /\ a.panels \in Views
        /\ a.panels = IF now.conf.mode # "specify" \/ TRUE THEN [Filled(now.conf) EXCEPT !["control"] = v["control"]]
                      ELSE Filled(now.conf)
    BY <1>1, <1>2, SetFits, Zenon
  <2> QED
    BY <2>1
<1>a. now' = [now EXCEPT !.dialog = Conf!Closed, !.ticked = v, !.ignored = g, !.conf = c]
  BY DEF Conf!OK, Conf!Becomes
<1> HIDE DEF a
<1>4. /\ b \in Confs /\ b.recent = a.recent /\ b.points = a.points /\ b.panels \in Views
      /\ b.panels = [Filled(a) EXCEPT !["plotlist"] = v["plotlist"]]
  <2>0. a \in Confs
    BY <1>3
  <2>1. /\ b \in Confs /\ b.mode = a.mode /\ b.recent = a.recent /\ b.defaults = a.defaults
        /\ b.points = a.points /\ b.panels \in Views
        /\ b.panels = IF a.mode # "specify" \/ TRUE THEN [Filled(a) EXCEPT !["plotlist"] = v["plotlist"]]
                      ELSE Filled(a)
    BY <1>1, <1>2, <2>0, SetFits, ZenonT(60)
  <2> QED
    BY <2>1
<1> HIDE DEF b
<1>5. b.panels = v
  <2>1. Filled(a) = a.panels
    BY <1>3, DefaultFits DEF Filled
  <2>2. a.panels["control"] = v["control"]
    BY <1>1, <1>3, FilledShown DEF Views
  <2>3. b.panels["plotlist"] = v["plotlist"] /\ b.panels["control"] = v["control"]
    BY <1>1, <1>3, <1>4, <2>1, <2>2 DEF Views
  <2>4. \A p \in Conf!Panels : b.panels[p] = v[p]
    BY <2>3 DEF Conf!Panels
  <2> QED
    BY <1>1, <1>4, <2>4 DEF Views
<1>6. /\ c \in ConfTypes /\ c.mode = d.combo /\ c.panels = v /\ c.recent = now.conf.recent
      /\ c.points = now.conf.points /\ c.defaults = d.defaults
  <2>1. b \in ConfTypes /\ d.combo \in ConfModes /\ d.zoom \in Conf!Rates /\ d.defaults \in Seq(Conf!Types)
    BY <1>0, <1>4 DEF Confs, Dialogs
  <2> HIDE DEF v, d
  <2> QED
    BY <1>3, <1>4, <1>5, <2>1 DEF ConfTypes
<1> HIDE DEF c, g
<1>7. c \in Confs
  <2>1. ConfSound(now.conf) /\ c.panels # Conf!Unset /\ Conf!IsInjective(d.defaults)
    BY <1>0, <1>1, <1>6, DefaultFits DEF Confs, Selected
  <2> QED
    BY <1>6, <2>1 DEF Confs, ConfSound
<1>8. g \in SUBSET Conf!Panels
  BY DEF g
<1> HIDE DEF v, d
<1>9. /\ now' \in ConfState /\ now'.conf = c /\ now'.visible = now.visible /\ now'.ticked = v /\ now'.menu = now.menu
      /\ now'.unwanted = now.unwanted /\ now'.dialog = Conf!Closed /\ now'.ignored = g
      /\ now'.limit = now.limit /\ now'.disk = now.disk /\ now'.running = now.running
  <2>1. now' \in ConfState
    BY <1>0, <1>a, <1>1, <1>7, <1>8 DEF ConfState
  <2> QED
    BY <1>0, <1>a, <2>1 DEF ConfState
<1>10. PanelsStored(now')
  <2>1. Filled(c) = v
    BY <1>1, <1>6, DefaultFits DEF Filled
  <2>2. c.mode # "none" => Conf!Shown(c) = v
    BY <1>7, <2>1, FilledShown
  <2>3. \A p \in Conf!Panels \ g : v[p] = now.visible[p]
    BY DEF g
  <2> QED
    BY <1>9, <2>2, <2>3 DEF PanelsStored
<1>11. MenuStored(now) /\ MenuWanted(now) /\ (now.conf.points # {} => now.conf.points = {now.limit})
  BY <1>0 DEF ConfInv, Good
<1>12. MenuStored(now') /\ MenuWanted(now')
  BY <1>6, <1>9, <1>11, MenuKept DEF MenuWanted
<1> QED
  BY <1>6, <1>9, <1>10, <1>11, <1>12, KindsDiffer DEF ConfInv, Good

\* Every step of the configuration.
LEMMA ConfStep ==
    ASSUME ConfInv, Conf!Next
    PROVE  ConfInv'
BY ConfOpenKeeps, RecentKeeps, ToggleKeeps, LimitKeeps, CloseKeeps, CrashKeeps, RestartKeeps,
   EditPreferencesKeeps,
   CancelKeeps, ConfOKKeeps, ListClickKeeps, CellChangeKeeps, ResetKeeps, ResetAllKeeps,
      RestKeeps DEF Conf!Next

\* What the themes ask of the configuration.
LEMMA ConfKeeps ==
    ASSUME ConfInv
    PROVE  Conf!ConfigIsReadBack /\ Conf!PanelsAreRemembered /\ Conf!LimitIsRemembered
             /\ Conf!MenuIsRemembered /\ Conf!DefaultsAreUnique
<1> DEFINE c == now.conf
           q == c.recent
           m == now.menu
<1>0. now \in ConfState /\ Good(now) /\ c \in Confs
  BY DEF ConfInv, Good, ConfState
<1>1. c \in ConfTypes /\ ConfSound(c)
  BY <1>0 DEF Confs
<1>2. Conf!DefaultsAreUnique
  BY <1>0, <1>1 DEF Conf!DefaultsAreUnique, ConfSound, Good, Selected
<1>3. Conf!PanelsAreRemembered /\ Conf!LimitIsRemembered
  BY <1>0 DEF Good, PanelsStored, Conf!PanelsAreRemembered, Conf!LimitIsRemembered
<1>4. Conf!MenuIsRemembered
  <2> SUFFICES ASSUME now.running, now.disk # Conf!Newer
               PROVE  /\ Conf!Range(q) \subseteq Conf!Range(m) \cup now.unwanted
                      /\ q # <<>> /\ Conf!Last(q) \notin now.unwanted => m # <<>> /\ m[1] = Conf!Last(q)
    BY DEF Conf!MenuIsRemembered
  <2>1. /\ \A i \in 1..Len(q) : q[i] \in now.unwanted \/ \E j \in 1..Len(m) : m[j] = q[i]
        /\ Len(q) > 0 /\ q[Len(q)] \notin now.unwanted => Len(m) > 0 /\ m[1] = q[Len(q)]
    BY <1>0 DEF Good, MenuStored
  <2>2. q \in Seq(Conf!Files) /\ m \in Seq(Conf!Files)
    BY <1>0, <1>1 DEF ConfTypes, Recents, ConfState, Menus
  <2>3. DOMAIN q = 1..Len(q) /\ DOMAIN m = 1..Len(m) /\ (q # <<>> => Len(q) > 0) /\ (Len(m) > 0 => m # <<>>)
    BY <2>2
  <2> QED
    BY <2>1, <2>3 DEF Conf!Range, Conf!Last
<1>5. Conf!ConfigIsReadBack
  <2> DEFINE f == Conf!Written(c)
             d == Conf!ReadFile(Conf!Default, f)
             e == Conf!ReadAll(Conf!Default, c)
  <2> SUFFICES ASSUME f # Conf!NoXML
               PROVE  /\ [d EXCEPT !.panels = Conf!Unset, !.zoom = 0] = [c EXCEPT !.panels = Conf!Unset, !.zoom = 0]
                      /\ Conf!Shown(d) = Conf!Shown(c) /\ (d.zoom # c.zoom => c.zoom = 400)
    BY DEF Conf!ConfigIsReadBack
  <2>1. f.kind = "config" /\ f.conf = c
    BY DEF Conf!Written
  <2>2. d = e
    BY <2>1 DEF Conf!ReadFile
  <2>3. /\ e \in Confs /\ e.recent = c.recent /\ e.defaults = c.defaults /\ e.mode = c.mode
        /\ e.points = c.points /\ Conf!Shown(e) = Conf!Shown(c) /\ (e.zoom # c.zoom => c.zoom = 400)
    BY <1>0, ReadBack
  <2> HIDE DEF d, e
  <2>4. e \in ConfTypes
    BY <2>3 DEF Confs
  <2> HIDE DEF c
  <2>5. [e EXCEPT !.panels = Conf!Unset, !.zoom = 0] = [c EXCEPT !.panels = Conf!Unset, !.zoom = 0]
    BY <1>1, <2>3, <2>4 DEF ConfTypes
  <2> QED
    BY <2>2, <2>3, <2>5
<1> QED
  BY <1>2, <1>3, <1>4, <1>5
=============================================================================

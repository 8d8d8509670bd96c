----------------------- MODULE WorkbenchViews_proofs -----------------------
(***************************************************************************)
(* The other themes of Workbench, proved for every value of its constants: *)
(* that indices are live, that views are current, how far erasures go, and *)
(* that the configuration is read back.                                    *)
(***************************************************************************)
EXTENDS Workbench_proofs

-----------------------------------------------------------------------------
(* Loops *)

\* Induction over the naturals up to n, as a fact of sets.
LEMMA InductionTo ==
    ASSUME NEW n \in Nat, NEW A \in SUBSET (0..n), 0 \in A, \A k \in 1..n : k - 1 \in A => k \in A
    PROVE  A = 0..n
<1> DEFINE Bad == (0..n) \ A
<1> SUFFICES ASSUME Bad # {} PROVE FALSE
  OBVIOUS
<1>1. PICK k \in Bad : \A m \in Bad : k <= m
  <2>1. Bad \in SUBSET Nat
    OBVIOUS
  <2> HIDE DEF Bad
  <2> QED
    BY <2>1, LeastNatural
<1>2. k \in 1..n
  OBVIOUS
<1>3. k - 1 \in 0..n /\ ~(k <= k - 1)
  BY <1>2
<1> QED
  BY <1>1, <1>2, <1>3

\* The states f of a loop of n turns from s, a turn being G.
IsRun(f, s, n, G) == f[0] = s /\ \A k \in 1..n : f[k] = G[<<f[k - 1], k>>]

\* A loop has its states, one after the other.
LEMMA LoopRuns ==
    ASSUME NEW T, NEW n \in Nat, NEW G, NEW s \in T, \A t \in T : \A k \in 1..n : G[<<t, k>>] \in T
    PROVE  \E f \in [0..n -> T] : IsRun(f, s, n, G)
<1> DEFINE Runs(m) == \E f \in [0..m -> T] : f[0] = s /\ \A k \in 1..m : f[k] = G[<<f[k - 1], k>>]
           A == {m \in 0..n : Runs(m)}
<1>1. 0 \in A
  <2> DEFINE g == [k \in 0..0 |-> s]
  <2>1. g \in [0..0 -> T] /\ g[0] = s /\ \A k \in 1..0 : g[k] = G[<<g[k - 1], k>>]
    OBVIOUS
  <2> HIDE DEF g
  <2>2. Runs(0)
    BY <2>1
  <2> HIDE DEF Runs
  <2> QED
    BY <2>2
<1>2. ASSUME NEW m \in 1..n, m - 1 \in A PROVE m \in A
  <2>1. PICK f \in [0..(m - 1) -> T] : f[0] = s /\ \A k \in 1..(m - 1) : f[k] = G[<<f[k - 1], k>>]
    BY <1>2
  <2> DEFINE g == [k \in 0..m |-> IF k = m THEN G[<<f[m - 1], m>>] ELSE f[k]]
  <2>2. m - 1 \in 0..(m - 1) /\ m # 0 /\ 0 \in 0..m
    OBVIOUS
  <2>3. G[<<f[m - 1], m>>] \in T
    BY <2>1, <2>2
  <2>4. g \in [0..m -> T]
    BY <2>1, <2>3
  <2>5. g[0] = s
    BY <2>1, <2>2
  <2>6. ASSUME NEW k \in 1..m PROVE g[k] = G[<<g[k - 1], k>>]
    <3>1. k \in 0..m /\ k - 1 \in 0..m /\ k - 1 # m
      OBVIOUS
    <3>2. g[k - 1] = f[k - 1]
      BY <3>1
    <3>3. CASE k = m
      BY <3>1, <3>2, <3>3
    <3>4. CASE k # m
      <4>1. k \in 1..(m - 1)
        BY <3>4
      <4> QED
        BY <2>1, <3>1, <3>2, <3>4, <4>1
    <3> QED
      BY <3>3, <3>4
  <2> HIDE DEF g
  <2> QED
    BY <2>4, <2>5, <2>6
<1> HIDE DEF Runs
<1>3. A = 0..n
  <2>1. A \in SUBSET (0..n)
    OBVIOUS
  <2> HIDE DEF A
  <2> QED
    BY <1>1, <1>2, <2>1, InductionTo
<1>4. n \in A
  BY <1>3
<1> QED
  BY <1>4 DEF Runs, IsRun

-----------------------------------------------------------------------------
(* Cameras *)

\* The members of the cameras' state.
CamFields == {"cams", "active", "combo", "text", "scene", "temp", "dragging", "updates", "refreshing",
              "ensure", "astray", "failed"}
Texts == View!Names \cup {View!Default, "intro"}
AnyCam == [name : Texts, view : View!Views]
\* The saved cameras, of which one is active, and their entries in the list.
CamsListed(s) ==
    /\ s.cams \in Seq(AnyCam) /\ s.active \in 1..Len(s.cams) /\ s.text \in Texts
    /\ s.combo \in Seq([name : Texts, cam : Nat]) /\ Len(s.combo) = Len(s.cams) - 1
    /\ \A e \in 1..Len(s.combo) : s.combo[e].cam = e + 1
\* The cameras of the pane, and what is yet to be stored of them.
CamsSeen(s) ==
    /\ s.scene \in AnyCam /\ s.temp \in AnyCam \cup {View!NoCam}
    /\ s.temp # View!NoCam => s.dragging
    /\ s.updates \/ s.astray \/ s.scene.view = s.cams[s.active].view
\* The inductive invariant of Cameras.
CamInv == DOMAIN now = CamFields /\ CamsListed(now) /\ CamsSeen(now)

\* Views are changed of a camera, and it stays one.
LEMMA CamMovedType == \A c \in AnyCam, v \in View!Views : View!Moved(c, v) \in AnyCam
BY DEF AnyCam, View!Moved

\* The list is rebuilt from cameras of which one is active.
LEMMA RebuiltListed ==
    ASSUME NEW s, DOMAIN s = CamFields, s.cams \in Seq(AnyCam), s.active \in 1..Len(s.cams), s.text \in Texts
    PROVE  /\ DOMAIN View!Rebuilt(s) = CamFields /\ CamsListed(View!Rebuilt(s))
           /\ \A f \in CamFields \ {"failed", "combo", "text"} : View!Rebuilt(s)[f] = s[f]
<1> DEFINE t == View!Rebuilt(s)
           L == Len(s.cams)
           q == [i \in 1..(L - 1) |-> [name |-> s.cams[i + 1].name, cam |-> i + 1]]
           x == IF s.active > 1 THEN s.cams[s.active].name ELSE s.text
<1>1. DOMAIN t = CamFields /\ t.combo = q /\ t.text = x
        /\ \A f \in CamFields \ {"failed", "combo", "text"} : t[f] = s[f]
  BY DEF View!Rebuilt, CamFields
<1>2. L \in Nat /\ L >= 1 /\ L - 1 \in Nat /\ \A i \in 1..L : s.cams[i] \in AnyCam
  OBVIOUS
<1>3. x \in Texts
  BY <1>2 DEF AnyCam
<1>4. q \in Seq([name : Texts, cam : Nat]) /\ Len(q) = L - 1 /\ \A e \in 1..Len(q) : q[e].cam = e + 1
  <2>1. \A i \in 1..(L - 1) : i + 1 \in 1..L /\ s.cams[i + 1].name \in Texts
    BY <1>2 DEF AnyCam
  <2> HIDE DEF L
  <2>2. \A i \in 1..(L - 1) : [name |-> s.cams[i + 1].name, cam |-> i + 1] \in [name : Texts, cam : Nat]
    BY <1>2, <2>1
  <2>3. q \in [1..(L - 1) -> [name : Texts, cam : Nat]]
    BY <2>2
  <2> QED
    BY <1>2, <2>3
<1>5. t.cams = s.cams /\ t.active = s.active
  BY <1>1 DEF CamFields
<1> HIDE DEF t, q, x
<1> QED
  BY <1>1, <1>3, <1>4, <1>5 DEF CamsListed, t

\* What the mouse and the keys do leaves the saved cameras alone.
LEMMA ListedStays ==
    ASSUME CamInv, NEW s, \A f \in {"cams", "active", "combo"} : s[f] = now[f], s.text \in Texts
    PROVE  CamsListed(s)
BY DEF CamInv, CamsListed

\* At the start there is the camera without a name.
LEMMA CamStart == View!Init => CamInv
<1> SUFFICES ASSUME View!Init PROVE CamInv
  OBVIOUS
<1> DEFINE c == View!New(View!Default, View!Fit)
<1>1. /\ DOMAIN now = CamFields /\ now.cams = <<c>> /\ now.active = 1 /\ now.combo = <<>> /\ now.text = View!Default
      /\ now.scene = c /\ now.temp = View!NoCam
  BY DEF View!Init, CamFields
<1>2. c \in AnyCam /\ View!Default \in Texts
  BY DEF View!New, View!Fit, AnyCam, View!Views, Texts
<1> HIDE DEF c
<1>3. <<c>> \in Seq(AnyCam) /\ Len(<<c>>) = 1 /\ <<c>>[1] = c
  BY <1>2
<1> QED
  BY <1>1, <1>2, <1>3 DEF CamInv, CamsListed, CamsSeen

\* A drag in the pane moves the temporary camera, which the end of it keeps.
LEMMA MouseKeeps ==
    ASSUME CamInv, NEW v \in View!Views, NEW b \in BOOLEAN, NEW d \in BOOLEAN,
           View!MouseDown \/ View!MouseMoved(v, b, d) \/ View!MouseReleased \/ View!MouseLeftWindow
    PROVE  CamInv'
<1>0. DOMAIN now = CamFields /\ CamsListed(now) /\ CamsSeen(now) /\ now.text \in Texts
  BY DEF CamInv, CamsListed
<1>1. CASE View!MouseDown
  <2>1. /\ DOMAIN now' = CamFields /\ \A f \in CamFields \ {"dragging"} : now'[f] = now[f] /\ now'.dragging
    BY <1>0, <1>1 DEF View!MouseDown, View!Becomes, CamFields
  <2> QED
    BY <1>0, <2>1, ListedStays DEF CamInv, CamsSeen, CamFields
<1>2. CASE View!MouseMoved(v, b, d)
  <2> DEFINE s == IF b /\ View!HaveTemp THEN View!CommitTemp(now) ELSE now
  <2>1. DOMAIN s = CamFields /\ s.scene \in AnyCam /\ \A f \in CamFields \ {"scene", "temp"} : s[f] = now[f]
    BY <1>0 DEF CamsSeen, View!HaveTemp, View!CommitTemp, CamFields
  <2> HIDE DEF s
  <2> DEFINE t == [s EXCEPT !.temp = View!Moved(s.scene, v), !.updates = TRUE]
  <2>2. /\ DOMAIN t = CamFields /\ t.temp \in AnyCam /\ t.scene \in AnyCam /\ t.updates
        /\ \A f \in CamFields \ {"scene", "temp", "updates"} : t[f] = now[f]
    BY <2>1, CamMovedType DEF CamFields
  <2>3. now.dragging /\ now' = IF d THEN t ELSE [View!CommitTemp(t) EXCEPT !.dragging = FALSE]
    BY <1>2 DEF View!MouseMoved, View!Becomes, s
  <2> HIDE DEF t
  <2>4. /\ DOMAIN now' = CamFields /\ now'.scene \in AnyCam /\ now'.updates
        /\ (d /\ now'.temp \in AnyCam /\ now'.dragging) \/ now'.temp = View!NoCam
        /\ \A f \in CamFields \ {"scene", "temp", "updates", "dragging"} : now'[f] = now[f]
    <3>1. CASE d
      BY <2>2, <2>3, <3>1 DEF CamFields
    <3>2. CASE ~d
      BY <2>2, <2>3, <3>2 DEF View!CommitTemp, CamFields
    <3> QED
      BY <3>1, <3>2
  <2> QED
    BY <1>0, <2>4, ListedStays DEF CamInv, CamsSeen, CamFields
<1>3. CASE View!MouseReleased
  <2>1. /\ DOMAIN now' = CamFields /\ now'.temp = View!NoCam /\ now'.scene \in AnyCam /\ now'.updates
        /\ \A f \in CamFields \ {"dragging", "temp", "scene", "updates"} : now'[f] = now[f]
    BY <1>0, <1>3 DEF View!MouseReleased, View!Becomes, CamFields, CamsSeen, View!HaveTemp,
       View!CommitTemp
  <2> QED
    BY <1>0, <2>1, ListedStays DEF CamInv, CamsSeen, CamFields
<1>4. CASE View!MouseLeftWindow
  <2>1. /\ DOMAIN now' = CamFields /\ now'.temp = View!NoCam /\ now'.scene \in AnyCam /\ now'.astray
        /\ \A f \in CamFields \ {"dragging", "temp", "scene", "astray"} : now'[f] = now[f]
    BY <1>0, <1>4 DEF View!MouseLeftWindow, View!Becomes, CamFields, CamsSeen, View!HaveTemp,
       View!CommitTemp
  <2> QED
    BY <1>0, <2>1, ListedStays DEF CamInv, CamsSeen, CamFields
<1> QED
  BY <1>1, <1>2, <1>3, <1>4

\* Keys and the wheel move the camera of the scene.
LEMMA KeysKeep ==
    ASSUME CamInv, NEW v \in View!Views, NEW n \in View!Names,
           View!MouseWheel(v) \/ View!KeyZoom(v) \/ View!KeyFit \/ View!Realign(v) \/ View!TypeName(n) \/ View!Refresh
    PROVE  CamInv'
<1>0. DOMAIN now = CamFields /\ CamsListed(now) /\ CamsSeen(now) /\ now.text \in Texts /\ now.scene \in AnyCam
  BY DEF CamInv, CamsListed, CamsSeen
<1>1. CASE View!MouseWheel(v) \/ View!KeyZoom(v) \/ View!KeyFit \/ View!Realign(v)
  <2>1. View!Fit \in View!Views
    BY DEF View!Fit, View!Views
  <2>2. /\ DOMAIN now' = CamFields /\ now'.scene \in AnyCam /\ (now'.updates \/ now'.astray)
        /\ now'.temp = View!NoCam \/ (now'.temp \in AnyCam /\ now.temp # View!NoCam)
        /\ \A f \in CamFields \ {"scene", "temp", "updates", "astray"} : now'[f] = now[f]
    <3>1. CASE View!MouseWheel(v)
      BY <1>0, <3>1, CamMovedType DEF View!MouseWheel, View!Zoomed, View!HaveTemp, CamsSeen,
         View!Becomes, CamFields
    <3>2. CASE View!KeyZoom(v)
      BY <1>0, <3>2, CamMovedType DEF View!KeyZoom, View!Zoomed, View!HaveTemp, CamsSeen,
         View!Becomes, CamFields
    <3>3. CASE View!KeyFit
      BY <1>0, <2>1, <3>3, CamMovedType DEF View!KeyFit, CamsSeen, View!Becomes, CamFields
    <3>4. CASE View!Realign(v)
      BY <1>0, <3>4, CamMovedType DEF View!Realign, CamsSeen, View!Becomes, CamFields
    <3> QED
      BY <1>1, <3>1, <3>2, <3>3, <3>4
  <2> QED
    BY <1>0, <2>2, ListedStays DEF CamInv, CamsSeen, CamFields
<1>2. CASE View!TypeName(n) \/ View!Refresh
  <2>1. n \in Texts
    BY DEF Texts
  <2>2. /\ DOMAIN now' = CamFields /\ now'.text \in Texts
        /\ \A f \in CamFields \ {"text", "refreshing"} : now'[f] = now[f]
    BY <1>0, <1>2, <2>1 DEF View!TypeName, View!Refresh, View!Becomes, CamFields
  <2> QED
    BY <1>0, <2>2, ListedStays DEF CamInv, CamsSeen, CamFields
<1> QED
  BY <1>1, <1>2

\* An entry of the list leads to a camera that is there.
LEMMA EntryLeads ==
    ASSUME CamInv, NEW n, View!Found(now, n)
    PROVE  /\ View!EntryOf(now, n) \in 1..Len(now.combo)
              /\ now.combo[View!EntryOf(now, n)].cam = View!EntryOf(now, n) + 1
           /\ View!EntryOf(now, n) + 1 \in 2..Len(now.cams)
<1> DEFINE e == View!EntryOf(now, n)
<1>1. e \in 1..Len(now.combo)
  BY DEF View!Found, View!EntryOf
<1>2. /\ Len(now.combo) = Len(now.cams) - 1 /\ Len(now.combo) \in Nat /\ Len(now.cams) \in Nat
      /\ \A k \in 1..Len(now.combo) : now.combo[k].cam = k + 1
  BY DEF CamInv, CamsListed
<1> HIDE DEF e
<1> QED
  BY <1>1, <1>2 DEF e

\* The saved cameras, as a step finds them.
LEMMA CamsAre ==
    ASSUME CamInv, NEW i \in 1..Len(now.cams)
    PROVE  now.cams[i] \in AnyCam /\ (\A n \in Texts : [now.cams[i] EXCEPT !.name = n] \in AnyCam)
           /\ \A v \in View!Views : [now.cams[i] EXCEPT !.view = v] \in AnyCam
<1>1. now.cams \in Seq(AnyCam)
  BY DEF CamInv, CamsListed
<1>2. now.cams[i] \in AnyCam
  BY <1>1
<1>3. \A c \in AnyCam : (\A n \in Texts : [c EXCEPT !.name = n] \in AnyCam)
                      /\ \A v \in View!Views : [c EXCEPT !.view = v] \in AnyCam
  BY DEF AnyCam
<1> QED
  BY <1>2, <1>3

\* A camera of the state becomes what the scene looks through.
LEMMA ActivatedHolds ==
    ASSUME NEW s, DOMAIN s = CamFields, CamsListed(s), NEW i \in 1..Len(s.cams)
    PROVE  DOMAIN View!Activated(s, i) = CamFields /\ CamsListed(View!Activated(s, i))
             /\ CamsSeen(View!Activated(s, i))
<1> DEFINE t == View!Activated(s, i)
<1>1. /\ DOMAIN t = CamFields /\ t.active = i /\ t.scene = s.cams[i] /\ t.temp = View!NoCam
      /\ \A f \in CamFields \ {"active", "scene", "temp", "astray"} : t[f] = s[f]
  BY DEF View!Activated, CamFields
<1>2. s.cams \in Seq(AnyCam) /\ s.cams[i] \in AnyCam
  BY DEF CamsListed
<1> HIDE DEF t
<1>3. t.cams = s.cams /\ t.combo = s.combo /\ t.text = s.text
  BY <1>1 DEF CamFields
<1>4. CamsListed(t)
  BY <1>1, <1>3 DEF CamsListed
<1>5. CamsSeen(t)
  BY <1>1, <1>2, <1>3 DEF CamsSeen
<1> QED
  BY <1>1, <1>4, <1>5 DEF t

\* A camera is named, and so made, or chosen.
LEMMA ComboKeeps ==
    ASSUME CamInv, View!ComboEnter \/ \E e \in 1..Len(now.combo) : View!ComboSelect(e)
    PROVE  CamInv'
<1>0. /\ DOMAIN now = CamFields /\ CamsListed(now) /\ CamsSeen(now) /\ now.text \in Texts
      /\ now.cams \in Seq(AnyCam) /\ now.active \in 1..Len(now.cams) /\ Len(now.combo) = Len(now.cams) - 1
      /\ now.combo \in Seq([name : Texts, cam : Nat]) /\ \A e \in 1..Len(now.combo) : now.combo[e].cam = e + 1
  BY DEF CamInv, CamsListed
<1>1. CASE View!ComboEnter /\ View!Found(now, now.text)
  <2> DEFINE i == now.combo[View!EntryOf(now, now.text)].cam
  <2>1. i \in 1..Len(now.cams)
    BY <1>1, EntryLeads
  <2>2. now' = View!Activated(now, i)
    BY <1>1 DEF View!ComboEnter, View!Becomes
  <2> HIDE DEF i
  <2> QED
    BY <1>0, <2>1, <2>2, ActivatedHolds DEF CamInv
<1>2. CASE View!ComboEnter /\ ~View!Found(now, now.text)
  <2> DEFINE c == [now.cams[now.active] EXCEPT !.name = now.text]
             q == Append(now.cams, c)
             s == [now EXCEPT !.cams = q, !.active = Len(now.cams) + 1,
                              !.astray = @ \/ now.scene.view # c.view]
  <2>1. now' = View!Rebuilt(s)
    BY <1>2 DEF View!ComboEnter, View!Becomes
  <2>2. c \in AnyCam
    BY <1>0, CamsAre
  <2> HIDE DEF c
  <2>3. q \in Seq(AnyCam) /\ Len(q) = Len(now.cams) + 1 /\ q[Len(now.cams) + 1] = c
    BY <1>0, <2>2
  <2> HIDE DEF q
  <2>4. /\ DOMAIN s = CamFields /\ s.cams = q /\ s.active = Len(now.cams) + 1
        /\ s.astray = (now.astray \/ now.scene.view # c.view)
        /\ \A f \in CamFields \ {"cams", "active", "astray"} : s[f] = now[f]
    BY <1>0 DEF CamFields
  <2> HIDE DEF s
  <2>5. s.active \in 1..Len(s.cams) /\ s.cams \in Seq(AnyCam) /\ s.text = now.text
    BY <1>0, <2>3, <2>4 DEF CamFields
  <2>6. /\ DOMAIN now' = CamFields /\ CamsListed(now')
        /\ \A f \in CamFields \ {"failed", "combo", "text"} : now'[f] = s[f]
    BY <1>0, <2>1, <2>4, <2>5, RebuiltListed
  <2>7. /\ now'.scene = now.scene /\ now'.temp = now.temp /\ now'.dragging = now.dragging /\ now'.cams = q
        /\ now'.active = Len(now.cams) + 1 /\ now'.astray = (now.astray \/ now.scene.view # c.view)
    BY <2>4, <2>6 DEF CamFields
  <2>8. now'.scene.view = now'.cams[now'.active].view \/ now'.astray
    BY <2>3, <2>7
  <2> QED
    BY <1>0, <2>6, <2>7, <2>8 DEF CamInv, CamsSeen
<1>3. ASSUME NEW e \in 1..Len(now.combo), View!ComboSelect(e) PROVE CamInv'
  <2> DEFINE s == [now EXCEPT !.text = now.combo[e].name]
  <2>1. now' = View!Activated(s, now.combo[e].cam)
    BY <1>3 DEF View!ComboSelect, View!Becomes
  <2>a. now.combo[e].name \in Texts
    <3> DEFINE S == [name : Texts, cam : Nat]
    <3>1. now.combo \in Seq(S)
      BY <1>0
    <3> HIDE DEF S
    <3>2. now.combo[e] \in S
      BY <3>1
    <3> QED
      BY <3>2 DEF S
  <2>2. DOMAIN s = CamFields /\ s.text \in Texts /\ \A f \in CamFields \ {"text"} : s[f] = now[f]
    BY <1>0, <2>a DEF CamFields
  <2> HIDE DEF s
  <2>3. s.cams = now.cams /\ now.combo[e].cam \in 1..Len(now.cams)
    BY <1>0, <2>2 DEF CamFields
  <2>4. CamsListed(s)
    BY <2>2, ListedStays DEF CamFields
  <2> QED
    BY <2>1, <2>2, <2>3, <2>4, ActivatedHolds DEF CamInv
<1> QED
  BY <1>1, <1>2, <1>3

\* A camera is removed; the entries behind it move up.
LEMMA RemoveCamKeeps == ASSUME CamInv, View!RemoveCam PROVE CamInv'
<1>0. /\ DOMAIN now = CamFields /\ CamsListed(now) /\ CamsSeen(now) /\ now.text \in Texts
      /\ now.cams \in Seq(AnyCam) /\ now.active \in 1..Len(now.cams) /\ Len(now.combo) = Len(now.cams) - 1
      /\ now.combo \in Seq([name : Texts, cam : Nat]) /\ \A e \in 1..Len(now.combo) : now.combo[e].cam = e + 1
  BY DEF CamInv, CamsListed
<1> DEFINE e == View!EntryOf(now, now.text)
           i == now.combo[e].cam
           cs == View!RemoveAt(now.cams, i)
           es == View!RemoveAt(now.combo, e)
           a == IF now.active > Len(cs) THEN 1 ELSE now.active
           s == [View!Removed(now, i) EXCEPT !.combo = View!RemoveAt(@, e), !.text = View!Default]
           r == IF Len(s.cams) > 1 THEN View!Rebuilt(s) ELSE s
<1>1. e \in 1..Len(now.combo) /\ i = e + 1 /\ i \in 2..Len(now.cams)
  BY EntryLeads DEF View!RemoveCam
<1>2. now' = [r EXCEPT !.astray = @ \/ i <= now.active]
  BY Zenon DEF View!RemoveCam, View!Becomes
<1>3. /\ DOMAIN s = CamFields /\ s.cams = cs /\ s.active = a /\ s.combo = es /\ s.text = View!Default
      /\ \A f \in CamFields \ {"cams", "active", "combo", "text"} : s[f] = now[f]
  BY <1>0 DEF View!Removed, CamFields
<1>4. cs = Without(now.cams, i) /\ es = Without(now.combo, e)
  BY DEF View!RemoveAt, Without
<1> HIDE DEF s, cs, es, i, e
<1>5. /\ cs \in Seq(AnyCam) /\ Len(cs) = Len(now.cams) - 1
      /\ \A k \in 1..(Len(now.cams) - 1) : cs[k] = IF k < i THEN now.cams[k] ELSE now.cams[k + 1]
  <2> DEFINE q == now.cams
  <2>1. q \in Seq(AnyCam) /\ i \in 1..Len(q)
    BY <1>0, <1>1
  <2>2. cs = Without(q, i)
    BY <1>4
  <2> HIDE DEF q
  <2>3. /\ cs \in Seq(AnyCam) /\ Len(cs) = Len(q) - 1
        /\ \A k \in 1..(Len(q) - 1) : cs[k] = IF k < i THEN q[k] ELSE q[k + 1]
    BY <2>1, <2>2, WithoutType
  <2> QED
    BY <2>3 DEF q
<1>6. es \in Seq([name : Texts, cam : Nat]) /\ Len(es) = Len(now.combo) - 1
  <2> DEFINE S == [name : Texts, cam : Nat]
  <2>1. now.combo \in Seq(S)
    BY <1>0
  <2> HIDE DEF S
  <2>2. es \in Seq(S) /\ Len(es) = Len(now.combo) - 1
    BY <1>1, <1>4, <2>1, WithoutType
  <2> QED
    BY <2>2 DEF S
<1>a. /\ Len(now.cams) \in Nat /\ Len(now.cams) >= 2 /\ Len(cs) = Len(now.cams) - 1
      /\ now.active \in 1..Len(now.cams) /\ i \in 2..Len(now.cams)
  BY <1>0, <1>1, <1>5
<1>7. a \in 1..Len(cs) /\ (now.active < i => a = now.active /\ cs[a] = now.cams[now.active])
  <2> DEFINE n == Len(now.cams)
             m == now.active
  <2>1. n \in Nat /\ n >= 2 /\ Len(cs) = n - 1 /\ m \in 1..n /\ i \in 2..n
    BY <1>a
  <2>2. a = IF m > n - 1 THEN 1 ELSE m
    BY <2>1
  <2>3. \A k \in 1..(n - 1) : cs[k] = IF k < i THEN now.cams[k] ELSE now.cams[k + 1]
    BY <1>5
  <2> HIDE DEF n, m, a
  <2>4. a \in 1..(n - 1) /\ (m < i => a = m)
    BY <2>1, <2>2
  <2>5. m < i => cs[m] = now.cams[m]
    <3>1. m < i => m \in 1..(n - 1)
      BY <2>1
    <3> QED
      BY <2>3, <3>1
  <2> QED
    BY <2>1, <2>4, <2>5 DEF m
<1>8. View!Default \in Texts
  BY DEF Texts
<1> HIDE DEF a
<1>9. /\ DOMAIN r = CamFields /\ CamsListed(r)
      /\ \A f \in CamFields \ {"failed", "combo", "text"} : r[f] = s[f]
  <2>1. CASE Len(s.cams) > 1
    BY <1>3, <1>5, <1>7, <1>8, <2>1, RebuiltListed
  <2>2. CASE ~(Len(s.cams) > 1)
    <3>1. Len(cs) = 1 /\ Len(es) = 0
      <4>1. ~(Len(cs) > 1)
        BY <1>3, <2>2
      <4>2. Len(now.combo) = Len(now.cams) - 1
        BY <1>0
      <4>3. Len(es) = Len(now.combo) - 1
        BY <1>6
      <4> DEFINE n == Len(now.cams)
      <4>4. n \in Nat /\ n >= 2 /\ Len(cs) = n - 1 /\ Len(now.combo) = n - 1
        BY <1>a, <4>2
      <4> HIDE DEF n
      <4>5. n = 2
        BY <4>1, <4>4
      <4> QED
        BY <4>3, <4>4, <4>5
    <3>2. r = s
      BY <2>2
    <3> QED
      <4>1. /\ s.cams \in Seq(AnyCam) /\ s.active \in 1..Len(s.cams) /\ s.text \in Texts
            /\ s.combo = es /\ Len(s.cams) = 1
        BY <1>3, <1>5, <1>7, <1>8, <3>1
      <4>2. \A k \in 1..Len(s.combo) : s.combo[k].cam = k + 1
        BY <3>1, <4>1
      <4>3. s.combo \in Seq([name : Texts, cam : Nat]) /\ Len(s.combo) = Len(s.cams) - 1
        BY <1>6, <3>1, <4>1
      <4> QED
        BY <1>3, <3>2, <4>1, <4>2, <4>3 DEF CamsListed
  <2> QED
    BY <2>1, <2>2
<1> HIDE DEF r
<1>10. /\ DOMAIN now' = CamFields /\ now'.cams = cs /\ now'.active = a /\ now'.combo = r.combo /\ now'.text = r.text
       /\ now'.scene = now.scene /\ now'.temp = now.temp /\ now'.dragging = now.dragging
       /\ now'.updates = now.updates /\ now'.astray = (now.astray \/ i <= now.active)
  BY <1>2, <1>3, <1>9 DEF CamFields
<1>11. r.cams = cs /\ r.active = a
  BY <1>3, <1>9 DEF CamFields
<1>12. CamsListed(now')
  BY <1>9, <1>10, <1>11 DEF CamsListed
<1>13. now'.updates \/ now'.astray \/ now'.scene.view = now'.cams[now'.active].view
  <2>1. i <= now.active \/ now.active < i
    BY <1>0, <1>1
  <2> QED
    BY <1>0, <1>7, <1>10, <2>1 DEF CamsSeen
<1> QED
  BY <1>0, <1>10, <1>12, <1>13 DEF CamInv, CamsSeen

\* A camera of the state is overwritten.
LEMMA OverwrittenListed ==
    ASSUME CamInv, NEW i \in 1..Len(now.cams), NEW c \in AnyCam, NEW s, s.cams = [now.cams EXCEPT ![i] = c],
           \A f \in {"active", "combo", "text"} : s[f] = now[f]
    PROVE  CamsListed(s) /\ s.cams[i] = c /\ \A k \in 1..Len(now.cams) \ {i} : s.cams[k] = now.cams[k]
<1> DEFINE q == now.cams
           t == [q EXCEPT ![i] = c]
<1>1. q \in Seq(AnyCam) /\ i \in 1..Len(q)
  BY DEF CamInv, CamsListed
<1> HIDE DEF q
<1>2. t \in Seq(AnyCam) /\ Len(t) = Len(q) /\ t[i] = c /\ \A k \in 1..Len(q) \ {i} : t[k] = q[k]
  BY <1>1
<1>3. s.cams = t /\ now.cams = q
  BY DEF q
<1> HIDE DEF t
<1> QED
  BY <1>2, <1>3 DEF CamInv, CamsListed

\* A view is typed; the timer stores the view of the scene.
LEMMA GridAndTimerKeep == ASSUME CamInv, View!GridChange \/ View!Timer PROVE CamInv'
<1>0. /\ DOMAIN now = CamFields /\ CamsListed(now) /\ CamsSeen(now) /\ now.cams \in Seq(AnyCam)
      /\ now.active \in 1..Len(now.cams) /\ now.scene \in AnyCam
  BY DEF CamInv, CamsListed, CamsSeen
<1>1. CASE View!Timer
  <2>1. /\ DOMAIN now' = CamFields /\ now'.cams = [now.cams EXCEPT ![now.active] = now.scene]
        /\ \A f \in CamFields \ {"cams", "updates", "astray"} : now'[f] = now[f]
    BY <1>0, <1>1 DEF View!Timer, View!Becomes, CamFields
  <2>2. CamsListed(now') /\ now'.cams[now.active] = now.scene
    BY <1>0, <2>1, OverwrittenListed DEF CamFields
  <2> QED
    BY <1>0, <2>1, <2>2 DEF CamInv, CamsSeen, CamFields
<1>2. CASE View!GridChange
  <2> DEFINE i == now.combo[View!EntryOf(now, now.text)].cam
  <2>a. View!Found(now, now.text)
    BY <1>2 DEF View!GridChange
  <2>1. i \in 1..Len(now.cams)
    BY <2>a, EntryLeads
  <2>2. PICK v \in View!Views : View!SetCamProperty(i, [now.cams[i] EXCEPT !.view = v])
    BY <1>2 DEF View!GridChange
  <2> HIDE DEF i
  <2> DEFINE c == [now.cams[i] EXCEPT !.view = v]
             s == [now EXCEPT !.cams[i] = c]
  <2>3. c \in AnyCam
    BY <2>1, CamsAre
  <2> HIDE DEF c
  <2>4. now' = IF i = s.active THEN [s EXCEPT !.scene = c, !.temp = View!NoCam, !.astray = FALSE] ELSE s
    BY <2>2 DEF View!SetCamProperty, View!Becomes, c
  <2>5. /\ DOMAIN s = CamFields /\ s.cams = [now.cams EXCEPT ![i] = c]
        /\ \A f \in CamFields \ {"cams"} : s[f] = now[f]
    BY <1>0 DEF CamFields
  <2> HIDE DEF s
  <2>6. CASE i = now.active
    <3>1. /\ DOMAIN now' = CamFields /\ now'.cams = [now.cams EXCEPT ![i] = c] /\ now'.scene = c
             /\ now'.temp = View!NoCam
          /\ now'.active = now.active
          /\ \A f \in {"active", "combo", "text"} : now'[f] = now[f]
      BY <2>4, <2>5, <2>6 DEF CamFields
    <3>2. CamsListed(now') /\ now'.cams[i] = c
      BY <2>1, <2>3, <3>1, OverwrittenListed
    <3> QED
      BY <2>3, <2>6, <3>1, <3>2 DEF CamInv, CamsSeen
  <2>7. CASE i # now.active
    <3>1. now' = s
      BY <2>4, <2>5, <2>7 DEF CamFields
    <3>2. CamsListed(now') /\ now'.cams[now.active] = now.cams[now.active]
      BY <1>0, <2>1, <2>3, <2>5, <2>7, <3>1, OverwrittenListed DEF CamFields
    <3> QED
      BY <1>0, <2>5, <3>1, <3>2 DEF CamInv, CamsSeen, CamFields
  <2> QED
    BY <2>6, <2>7
<1> QED
  BY <1>1, <1>2

\* A state file replaces the cameras, and a refresh ends.
LEMMA LoadKeeps ==
    ASSUME CamInv, (\E cs \in View!Files : View!LoadState(cs)) \/ View!FinishRefresh
    PROVE  CamInv'
<1>0. DOMAIN now = CamFields /\ CamsListed(now) /\ CamsSeen(now) /\ now.text \in Texts
  BY DEF CamInv, CamsListed
<1>1. ASSUME NEW cs \in View!Files, View!LoadState(cs) PROVE CamInv'
  <2> DEFINE o == [now EXCEPT !.cams = cs, !.active = 1]
             s == View!Rebuilt(o)
             u == IF Len(cs) > 1 THEN View!Activated(s, 1) ELSE [s EXCEPT !.text = "intro", !.astray = TRUE]
  <2>1. now' = [u EXCEPT !.refreshing = TRUE, !.ensure = TRUE]
    BY <1>1 DEF View!LoadState, View!Becomes
  <2>2. cs \in Seq(AnyCam) /\ 1 \in 1..Len(cs)
    <3>1. View!New(View!Default, 1) \in AnyCam /\ View!New(View!Default, 0) \in AnyCam
            /\ View!New("b", 1) \in AnyCam /\ View!New("a", 0) \in AnyCam
      BY DEF View!New, AnyCam, Texts, View!Names, View!Views, View!Fit
    <3>2. CASE cs = <<View!New(View!Default, 1)>>
      BY <3>1, <3>2
    <3>3. CASE cs = <<View!New(View!Default, 0), View!New("b", 1), View!New("a", 0)>>
      <4>1. Len(cs) = 3
        BY <3>3
      <4> QED
        BY <3>1, <3>3, <4>1
    <3> QED
      BY <3>2, <3>3 DEF View!Files
  <2>3. DOMAIN o = CamFields /\ o.cams = cs /\ o.active = 1 /\ \A f \in CamFields \ {"cams", "active"} : o[f] = now[f]
    BY <1>0 DEF CamFields
  <2> HIDE DEF o
  <2>4. o.text = now.text
    BY <2>3 DEF CamFields
  <2>5. /\ DOMAIN s = CamFields /\ CamsListed(s) /\ \A f \in CamFields \ {"failed", "combo", "text"} : s[f] = o[f]
    BY <1>0, <2>2, <2>3, <2>4, RebuiltListed
  <2> HIDE DEF s
  <2>6. s.cams = cs /\ s.scene = now.scene /\ s.temp = now.temp /\ s.dragging = now.dragging
    BY <2>3, <2>5 DEF CamFields
  <2>7. DOMAIN u = CamFields /\ CamsListed(u) /\ CamsSeen(u)
    <3>1. CASE Len(cs) > 1
      BY <2>2, <2>5, <2>6, <3>1, ActivatedHolds
    <3>2. CASE ~(Len(cs) > 1)
      <4> DEFINE w == [s EXCEPT !.text = "intro", !.astray = TRUE]
      <4>1. DOMAIN w = CamFields /\ w.text \in Texts /\ w.astray
              /\ \A f \in CamFields \ {"text", "astray"} : w[f] = s[f]
        BY <2>5 DEF CamFields, Texts
      <4>2. u = w
        BY <3>2
      <4> HIDE DEF u, w
      <4> QED
        BY <1>0, <2>5, <2>6, <4>1, <4>2 DEF CamsListed, CamsSeen, CamFields
    <3> QED
      BY <3>1, <3>2
  <2> HIDE DEF u
  <2>8. DOMAIN now' = CamFields /\ \A f \in CamFields \ {"refreshing", "ensure"} : now'[f] = u[f]
    BY <2>1, <2>7 DEF CamFields
  <2> QED
    BY <2>7, <2>8 DEF CamInv, CamsListed, CamsSeen, CamFields
<1>2. CASE View!FinishRefresh
  <2> DEFINE fit == now.ensure /\ Len(now.cams) = 1
  <2>1. View!Fit \in View!Views /\ now.scene \in AnyCam
    BY <1>0 DEF View!Fit, View!Views, CamsSeen
  <2>2. /\ DOMAIN now' = CamFields /\ now'.scene = (IF fit THEN View!Moved(now.scene, View!Fit) ELSE now.scene)
        /\ now'.astray = (now.astray \/ fit)
        /\ \A f \in CamFields \ {"refreshing", "ensure", "scene", "astray"} : now'[f] = now[f]
    BY <1>0, <1>2 DEF View!FinishRefresh, View!Becomes, CamFields
  <2>3. now'.scene \in AnyCam
    BY <2>1, <2>2, CamMovedType
  <2> HIDE DEF fit
  <2>4. now'.updates \/ now'.astray \/ now'.scene.view = now'.cams[now'.active].view
    BY <1>0, <2>2 DEF CamsSeen, CamFields
  <2> QED
    BY <1>0, <2>2, <2>3, <2>4, ListedStays DEF CamInv, CamsSeen, CamFields
<1> QED
  BY <1>1, <1>2

\* Every step of the cameras.
LEMMA CamStep == CamInv /\ View!Next => CamInv'
<1> SUFFICES ASSUME CamInv, View!NextWhile PROVE CamInv'
  BY DEF View!Next
<1>1. ASSUME NEW v \in View!Views, NEW b \in BOOLEAN, NEW c \in BOOLEAN, View!MouseMoved(v, b, c)
      PROVE  CamInv'
  BY <1>1, MouseKeeps
<1>2. CASE View!MouseDown \/ View!MouseReleased \/ View!MouseLeftWindow
  <2>1. 1 \in View!Views
    BY DEF View!Views
  <2> QED
    BY <1>2, <2>1, MouseKeeps
<1>3. CASE View!KeyFit \/ View!Refresh \/ (\E v \in View!Views : View!MouseWheel(v) \/ View!KeyZoom(v) \/ View!Realign(v)) \/ \E n \in View!Names : View!TypeName(n)
  <2>1. 1 \in View!Views /\ "a" \in View!Names
    BY DEF View!Views, View!Names
  <2> QED
    BY <1>3, <2>1, KeysKeep
<1> QED
  BY <1>1, <1>2, <1>3, ComboKeeps, RemoveCamKeeps, GridAndTimerKeep, LoadKeeps DEF View!NextWhile

\* What the themes ask of the cameras.
LEMMA CamKeeps == CamInv => View!IndicesLive /\ View!ViewIsStored
<1> SUFFICES ASSUME CamInv PROVE View!IndicesLive /\ View!ViewIsStored
  OBVIOUS
<1>1. /\ Len(now.combo) = Len(now.cams) - 1 /\ Len(now.combo) \in Nat /\ Len(now.cams) \in Nat
      /\ now.active \in 1..Len(now.cams) /\ \A k \in 1..Len(now.combo) : now.combo[k].cam = k + 1
  BY DEF CamInv, CamsListed
<1> QED
  BY <1>1 DEF CamInv, CamsSeen, View!IndicesLive, View!ViewIsStored, View!HaveTemp

-----------------------------------------------------------------------------
(* Stashes *)

\* Erasing an element of a list in which each occurs once takes it out.
LEMMA WithoutRange ==
    ASSUME NEW S, NEW s \in Seq(S), NEW i \in 1..Len(s), Stash!IsInjective(s)
    PROVE  Stash!IsInjective(Without(s, i)) /\ Stash!Range(Without(s, i)) = Stash!Range(s) \ {s[i]}
<1> DEFINE t == Without(s, i)
<1> HIDE DEF t
<1>1. /\ t \in Seq(S) /\ Len(t) = Len(s) - 1
      /\ \A k \in 1..(Len(s) - 1) : t[k] = IF k < i THEN s[k] ELSE s[k + 1]
  BY WithoutType DEF t
<1>2. DOMAIN t = 1..(Len(s) - 1) /\ DOMAIN s = 1..Len(s) /\ Len(s) \in Nat
  BY <1>1
<1> DEFINE at(k) == IF k < i THEN k ELSE k + 1
<1>3. \A k \in 1..(Len(s) - 1) : at(k) \in 1..Len(s) /\ at(k) # i /\ t[k] = s[at(k)]
  BY <1>1, <1>2
<1>4. \A k, l \in 1..(Len(s) - 1) : at(k) = at(l) => k = l
  BY <1>2
<1>5. \A j \in 1..Len(s) : j # i => \E k \in 1..(Len(s) - 1) : at(k) = j
  <2> SUFFICES ASSUME NEW j \in 1..Len(s), j # i PROVE \E k \in 1..(Len(s) - 1) : at(k) = j
    OBVIOUS
  <2>1. CASE j < i
    <3>1. j \in 1..(Len(s) - 1) /\ at(j) = j
      BY <1>2, <2>1
    <3> QED
      BY <3>1
  <2>2. CASE ~(j < i)
    <3>1. j - 1 \in 1..(Len(s) - 1) /\ at(j - 1) = j
      BY <1>2, <2>2
    <3> QED
      BY <3>1
  <2> QED
    BY <2>1, <2>2
<1> HIDE DEF at
<1>6. \A j, k \in 1..Len(s) : s[j] = s[k] => j = k
  BY <1>2 DEF Stash!IsInjective
<1>7. Stash!IsInjective(t)
  BY <1>2, <1>3, <1>4, <1>6 DEF Stash!IsInjective
<1>8. Stash!Range(t) = Stash!Range(s) \ {s[i]}
  <2>1. ASSUME NEW x \in Stash!Range(t) PROVE x \in Stash!Range(s) \ {s[i]}
    <3>1. PICK k \in 1..(Len(s) - 1) : x = t[k]
      BY <1>2, <2>1 DEF Stash!Range
    <3> QED
      BY <1>2, <1>3, <1>6, <3>1 DEF Stash!Range
  <2>2. ASSUME NEW x \in Stash!Range(s) \ {s[i]} PROVE x \in Stash!Range(t)
    <3>1. PICK j \in 1..Len(s) : x = s[j] /\ j # i
      BY <1>2, <2>2 DEF Stash!Range
    <3>2. PICK k \in 1..(Len(s) - 1) : at(k) = j
      BY <1>5, <3>1
    <3> QED
      BY <1>2, <1>3, <3>1, <3>2 DEF Stash!Range
  <2> QED
    BY <2>1, <2>2
<1> QED
  BY <1>7, <1>8 DEF t

\* What is left of the stashes s when those from the last to k are looked at.
LeftFrom(s, is, t, k) ==
    /\ t \in Seq(Stash!Names) /\ Len(t) \in Nat /\ k - 1 <= Len(t) /\ Stash!IsInjective(t)
    /\ \A j \in 1..(k - 1) : t[j] = s[j]
    /\ Stash!Range(t) = {s[i] : i \in {j \in 1..Len(s) : j < k \/ j \notin is}}

\* One turn from the last to the first: the place is still that of the stash
\* meant, and those before it stay.
LEMMA EraseTurn ==
    ASSUME NEW s \in Seq(Stash!Names), Stash!IsInjective(s), NEW is \in SUBSET (1..Len(s)), NEW k \in 1..Len(s),
           NEW t, LeftFrom(s, is, t, k + 1)
    PROVE  LeftFrom(s, is, IF k \in is THEN Stash!RemoveAt(t, k) ELSE t, k)
<1>0. /\ t \in Seq(Stash!Names) /\ Len(t) \in Nat /\ k <= Len(t) /\ Stash!IsInjective(t)
      /\ \A j \in 1..k : t[j] = s[j]
      /\ Stash!Range(t) = {s[i] : i \in {j \in 1..Len(s) : j < k + 1 \/ j \notin is}}
  <2>1. (k + 1) - 1 = k
    OBVIOUS
  <2> QED
    BY <2>1 DEF LeftFrom
<1>1. CASE k \in is
  <2> DEFINE u == Without(t, k)
  <2>1. k \in 1..Len(t)
    BY <1>0
  <2>2. u \in Seq(Stash!Names) /\ Len(u) = Len(t) - 1
          /\ \A j \in 1..(Len(t) - 1) : u[j] = IF j < k THEN t[j] ELSE t[j + 1]
    BY <1>0, <2>1, WithoutType
  <2>3. Stash!IsInjective(u) /\ Stash!Range(u) = Stash!Range(t) \ {t[k]}
    BY <1>0, <2>1, WithoutRange
  <2> HIDE DEF u
  <2>4. \A j \in 1..(k - 1) : u[j] = s[j]
    BY <1>0, <2>2
  <2>5. t[k] = s[k] /\ \A j \in 1..Len(s) : s[j] = s[k] => j = k
    <3>1. DOMAIN s = 1..Len(s)
      OBVIOUS
    <3> QED
      BY <1>0, <3>1 DEF Stash!IsInjective
  <2>6. Stash!Range(u) = {s[i] : i \in {j \in 1..Len(s) : j < k \/ j \notin is}}
    <3>1. \A j \in 1..Len(s) : ((j < k + 1 \/ j \notin is) /\ j # k) <=> (j < k \/ j \notin is)
      BY <1>1
    <3> QED
      BY <1>0, <2>3, <2>5, <3>1
  <2>7. Len(u) \in Nat /\ k - 1 <= Len(u)
    BY <1>0, <2>2
  <2>8. LeftFrom(s, is, u, k)
    BY <2>2, <2>3, <2>4, <2>6, <2>7 DEF LeftFrom
  <2> QED
    BY <1>1, <2>8 DEF Stash!RemoveAt, Without, u
<1>2. CASE k \notin is
  <2>1. \A j \in 1..Len(s) : (j < k + 1 \/ j \notin is) <=> (j < k \/ j \notin is)
    BY <1>2
  <2>2. k - 1 <= Len(t)
    BY <1>0
  <2>3. LeftFrom(s, is, t, k)
    BY <1>0, <2>1, <2>2 DEF LeftFrom
  <2> QED
    BY <1>2, <2>3
<1> QED
  BY <1>1, <1>2

\* eraseStashes erases those meant, whatever the others are.
LEMMA EraseAllErases ==
    ASSUME NEW s \in Seq(Stash!Names), Stash!IsInjective(s), NEW is \in SUBSET (1..Len(s))
    PROVE  /\ Stash!EraseAll(s, is) \in Seq(Stash!Names) /\ Stash!IsInjective(Stash!EraseAll(s, is))
           /\ Stash!Range(Stash!EraseAll(s, is)) = {s[i] : i \in (1..Len(s)) \ is}
<1> DEFINE n == Len(s)
           Turn(e, k) == IF k = 0 THEN s
                         ELSE LET i == n - k + 1 IN IF i \in is THEN Stash!RemoveAt(e[k - 1], i) ELSE e[k - 1]
           Runs(e) == e = [k \in 0..n |-> Turn(e, k)]
<1>0. n \in Nat
  OBVIOUS
<1>1. ASSUME NEW e, e[0] = s,
             \A k \in 1..n : LeftFrom(s, is, e[k - 1], (n - k + 1) + 1) => e[k] = Turn(e, k)
      PROVE  \A k \in 0..n : LeftFrom(s, is, e[k], n - k + 1)
  <2> DEFINE A == {k \in 0..n : LeftFrom(s, is, e[k], n - k + 1)}
  <2>1. 0 \in A
    <3>1. Stash!Range(s) = {s[i] : i \in {j \in 1..n : j < n + 1 \/ j \notin is}}
      <4>1. DOMAIN s = 1..n /\ \A j \in 1..n : j < n + 1
        BY <1>0
      <4> QED
        BY <4>1 DEF Stash!Range
    <3>2. (n + 1) - 1 = n /\ n - 0 + 1 = n + 1 /\ 0 \in 0..n
      BY <1>0
    <3>3. LeftFrom(s, is, s, n + 1)
      BY <1>0, <3>1, <3>2 DEF LeftFrom
    <3> QED
      BY <1>1, <3>2, <3>3
  <2>2. ASSUME NEW k \in 1..n, k - 1 \in A PROVE k \in A
    <3> DEFINE i == n - k + 1
    <3>1. i \in 1..n /\ k # 0 /\ k \in 0..n /\ n - (k - 1) + 1 = i + 1
      BY <1>0
    <3>2. LeftFrom(s, is, e[k - 1], i + 1)
      BY <2>2, <3>1
    <3>3. e[k] = IF i \in is THEN Stash!RemoveAt(e[k - 1], i) ELSE e[k - 1]
      BY <1>1, <3>1, <3>2
    <3> HIDE DEF i
    <3>4. LeftFrom(s, is, e[k], i)
      BY <3>1, <3>2, <3>3, EraseTurn
    <3> QED
      BY <3>1, <3>4 DEF i
  <2>3. A = 0..n
    <3>1. A \in SUBSET (0..n)
      OBVIOUS
    <3> HIDE DEF A
    <3> QED
      BY <1>0, <2>1, <2>2, <3>1, InductionTo
  <2> QED
    BY <2>3
<1>2. \E e : Runs(e)
  <2> DEFINE T == Seq(Stash!Names)
             G == [x \in T \X (1..n) |->
                     IF n - x[2] + 1 \in is
                       /\ n - x[2] + 1 <= Len(x[1]) THEN Stash!RemoveAt(x[1], n - x[2] + 1) ELSE x[1]]
  <2>1. ASSUME NEW t \in T, NEW k \in 1..n
        PROVE  /\ G[<<t, k>>] = IF n - k + 1 \in is /\ n - k + 1 <= Len(t) THEN Stash!RemoveAt(t, n - k + 1) ELSE t
               /\ G[<<t, k>>] \in T
    <3> DEFINE i == n - k + 1
    <3>1. i \in 1..n
      BY <1>0
    <3>2. G[<<t, k>>] = IF i \in is /\ i <= Len(t) THEN Stash!RemoveAt(t, i) ELSE t
      OBVIOUS
    <3> HIDE DEF i, G
    <3>3. i <= Len(t) => Stash!RemoveAt(t, i) \in T
      <4>1. i <= Len(t) => i \in 1..Len(t)
        BY <3>1
      <4> QED
        BY <4>1, WithoutType DEF Without, Stash!RemoveAt
    <3> QED
      BY <3>2, <3>3 DEF i
  <2> HIDE DEF G
  <2>r. PICK f \in [0..n -> T] : IsRun(f, s, n, G)
    <3>1. s \in T /\ \A t \in T : \A k \in 1..n : G[<<t, k>>] \in T
      BY <2>1
    <3> HIDE DEF T, n
    <3> QED
      BY <1>0, <3>1, LoopRuns
  <2>2. f[0] = s /\ \A k \in 1..n : f[k] = G[<<f[k - 1], k>>]
    BY <2>r DEF IsRun
  <2>3. ASSUME NEW k \in 1..n, LeftFrom(s, is, f[k - 1], (n - k + 1) + 1) PROVE f[k] = Turn(f, k)
    <3> DEFINE i == n - k + 1
    <3>1. i \in 1..n /\ k - 1 \in 0..n /\ k # 0 /\ (i + 1) - 1 = i
      BY <1>0
    <3>2. f[k - 1] \in T
      BY <2>r, <3>1
    <3>3. i <= Len(f[k - 1])
      BY <2>3, <3>1 DEF LeftFrom
    <3>4. f[k] = IF i \in is /\ i <= Len(f[k - 1]) THEN Stash!RemoveAt(f[k - 1], i) ELSE f[k - 1]
      BY <2>1, <2>2, <3>2
    <3> QED
      BY <3>1, <3>3, <3>4
  <2> HIDE DEF Turn
  <2>4. \A k \in 0..n : LeftFrom(s, is, f[k], n - k + 1)
    BY <1>1, <2>2, <2>3
  <2>5. \A k \in 1..n : f[k] = Turn(f, k)
    <3> SUFFICES ASSUME NEW k \in 1..n PROVE f[k] = Turn(f, k)
      OBVIOUS
    <3>1. k - 1 \in 0..n /\ n - (k - 1) + 1 = (n - k + 1) + 1
      BY <1>0
    <3> QED
      BY <2>3, <2>4, <3>1
  <2>6. f[0] = Turn(f, 0)
    BY <2>2 DEF Turn
  <2>7. \A k \in 0..n : f[k] = Turn(f, k)
    <3>1. \A k \in 0..n : k = 0 \/ k \in 1..n
      BY <1>0
    <3> QED
      BY <2>5, <2>6, <3>1
  <2>8. Runs(f)
    BY <2>r, <2>7
  <2> QED
    BY <2>8
<1> DEFINE e == CHOOSE g : Runs(g)
<1>3. Stash!EraseAll(s, is) = e[n]
  BY DEF Stash!EraseAll
<1>4. Runs(e)
  <2> HIDE DEF Runs
  <2> QED
    BY <1>2
<1> HIDE DEF e
<1>5. \A k \in 0..n : e[k] = Turn(e, k)
  <2> HIDE DEF Turn
  <2> QED
    BY <1>4
<1>6. e[0] = s /\ \A k \in 1..n : e[k] = Turn(e, k)
  <2>1. 0 \in 0..n /\ Turn(e, 0) = s /\ \A k \in 1..n : k \in 0..n
    BY <1>0
  <2> HIDE DEF Turn
  <2> QED
    BY <1>5, <2>1
<1>7. LeftFrom(s, is, e[n], 1)
  <2>1. n \in 0..n /\ n - n + 1 = 1
    BY <1>0
  <2> HIDE DEF Turn
  <2> QED
    BY <1>1, <1>6, <2>1
<1>8. {j \in 1..Len(s) : j < 1 \/ j \notin is} = (1..Len(s)) \ is
  OBVIOUS
<1> QED
  BY <1>3, <1>7, <1>8 DEF LeftFrom
\* The members of the stashes' state.
StashFields == {"stashes", "combo", "open", "list", "selected", "tree", "asked", "added", "stay", "gone"}
\* The lists of both widgets are made from the stashes there are, that of the
\* combo box when the dialog is closed.
StashInv ==
    /\ DOMAIN now = StashFields
    /\ now.added = now.asked /\ now.tree \subseteq now.selected
    /\ ~now.open => now.combo = Stash!Labels(now.stashes)
    /\ now.list = IF now.open THEN Stash!Labels(now.stashes) ELSE <<>>

\* What a list shows is where it points.
LEMMA LabelsLead ==
    ASSUME NEW s
    PROVE  DOMAIN Stash!Labels(s) = 1..Len(s)
             /\ \A i \in 1..Len(s) : s[Stash!Labels(s)[i].stash] = Stash!Labels(s)[i].name
BY DEF Stash!Labels

\* A list of nothing is empty.
LEMMA StashStart == Stash!Init => StashInv
<1> SUFFICES ASSUME Stash!Init PROVE StashInv
  OBVIOUS
<1>1. /\ DOMAIN now = StashFields /\ now.added = now.asked /\ now.tree \subseteq now.selected
      /\ ~now.open /\ now.combo = <<>> /\ now.stashes = <<>> /\ now.list = <<>>
  BY DEF Stash!Init, StashFields
<1>2. Stash!Labels(<<>>) = <<>>
  BY DEF Stash!Labels
<1> QED
  BY <1>1, <1>2 DEF StashInv

\* The combo box stores and restores, and a file is read, while the dialog is
\* closed.
LEMMA ComboHolds ==
    ASSUME StashInv, (\E n \in Stash!Names : Stash!ComboEnter(n)) \/ (\E e \in 1..Len(now.combo) : Stash!ComboSelect(e))
                     \/ \E f \in Stash!Files : Stash!Load(f)
    PROVE  StashInv'
<1>1. (~now.open) /\ now.combo = Stash!Labels(now.stashes) /\ now.list = <<>> /\ DOMAIN now = StashFields
      /\ now.added = now.asked /\ now.tree \subseteq now.selected
  BY DEF StashInv, Stash!ComboEnter, Stash!ComboSelect, Stash!Load
<1>2. ASSUME NEW e \in DOMAIN now.combo, now' = Stash!Restored(e) PROVE StashInv'
  <2>1. now.stashes[now.combo[e].stash] = now.combo[e].name
    <3>1. DOMAIN now.combo = 1..Len(now.stashes)
      BY <1>1, LabelsLead
    <3>2. e \in 1..Len(now.stashes)
      BY <3>1
    <3> QED
      BY <1>1, <3>2, LabelsLead
  <2>2. /\ DOMAIN now' = StashFields /\ now'.added = now'.asked
        /\ \A f \in StashFields \ {"asked", "added"} : now'[f] = now[f]
    BY <1>1, <1>2, <2>1 DEF Stash!Restored, StashFields
  <2> QED
    BY <1>1, <2>2 DEF StashInv, StashFields
<1>3. ASSUME NEW s, now' = Stash!UpdateCombo(s), DOMAIN s = StashFields,
             \A f \in StashFields \ {"stashes", "stay", "gone"} : s[f] = now[f]
      PROVE  StashInv'
  <2>1. /\ DOMAIN now' = StashFields /\ now'.combo = Stash!Labels(now'.stashes)
        /\ \A f \in StashFields \ {"stashes", "stay", "gone", "combo"} : now'[f] = now[f]
    BY <1>3 DEF Stash!UpdateCombo, StashFields
  <2> QED
    BY <1>1, <2>1 DEF StashInv, StashFields
<1>4. DOMAIN now.combo = 1..Len(now.combo)
  <2>1. DOMAIN now.combo = 1..Len(now.stashes)
    BY <1>1, LabelsLead
  <2>2. Len(now.stashes) \in Nat => Len(now.combo) = Len(now.stashes)
    BY <1>1 DEF Stash!Labels
  <2> QED
    BY <2>1, <2>2
<1>5. ASSUME NEW n \in Stash!Names, Stash!ComboEnter(n) PROVE StashInv'
  <2>1. CASE n \in Stash!Range(now.stashes)
    BY <1>2, <1>4, <1>5, <2>1 DEF Stash!ComboEnter, Stash!Becomes
  <2>2. CASE n \notin Stash!Range(now.stashes)
    <3> DEFINE s == [now EXCEPT !.stashes = Append(@, n), !.stay = @ \cup {n}, !.gone = @ \ {n}]
    <3>1. now' = Stash!UpdateCombo(s)
      BY <1>5, <2>2 DEF Stash!ComboEnter, Stash!Becomes
    <3>2. DOMAIN s = StashFields /\ \A f \in StashFields \ {"stashes", "stay", "gone"} : s[f] = now[f]
      BY <1>1 DEF StashFields
    <3> HIDE DEF s
    <3> QED
      BY <1>3, <3>1, <3>2
  <2> QED
    BY <2>1, <2>2
<1>6. ASSUME NEW f \in Stash!Files, Stash!Load(f) PROVE StashInv'
  <2> DEFINE s == [now EXCEPT !.stashes = f, !.stay = Stash!Range(f), !.gone = Stash!Names \ Stash!Range(f)]
  <2>1. now' = Stash!UpdateCombo(s)
    BY <1>6 DEF Stash!Load, Stash!Becomes
  <2>2. DOMAIN s = StashFields /\ \A g \in StashFields \ {"stashes", "stay", "gone"} : s[g] = now[g]
    BY <1>1 DEF StashFields
  <2> HIDE DEF s
  <2> QED
    BY <1>3, <2>1, <2>2
<1> QED
  BY <1>2, <1>4, <1>5, <1>6 DEF Stash!ComboSelect, Stash!Becomes

\* The dialog makes its list anew after each of its steps.
LEMMA DialogHolds ==
    ASSUME StashInv, Stash!OpenDialog \/ (\E is \in SUBSET (1..Len(now.list)) : Stash!Select(is)) \/ Stash!OnBtnRemove
                     \/ Stash!OnListKeyDown \/ Stash!CloseDialog
    PROVE  StashInv'
<1>0. DOMAIN now = StashFields /\ now.added = now.asked
  BY DEF StashInv
<1>1. ASSUME NEW s, now' = Stash!UpdateDialog(s), DOMAIN s = StashFields, s.open,
             s.added = now.added, s.asked = now.asked
      PROVE  StashInv'
  <2>1. /\ DOMAIN now' = StashFields /\ now'.list = Stash!Labels(now'.stashes) /\ now'.tree = {}
        /\ now'.open /\ now'.added = now.added /\ now'.asked = now.asked
    BY <1>1 DEF Stash!UpdateDialog, StashFields
  <2> QED
    BY <1>0, <2>1 DEF StashInv
<1>2. CASE Stash!OpenDialog
  <2> DEFINE s == [now EXCEPT !.open = TRUE]
  <2>1. now' = Stash!UpdateDialog(s) /\ DOMAIN s = StashFields /\ s.open /\ s.added = now.added /\ s.asked = now.asked
    BY <1>0, <1>2 DEF Stash!OpenDialog, Stash!Becomes, StashFields
  <2> HIDE DEF s
  <2> QED
    BY <1>1, <2>1
<1>3. CASE Stash!OnBtnRemove
  <2> DEFINE s == [now EXCEPT !.stashes = Stash!EraseAll(@, now.selected),
                              !.stay = Stash!Left(now.selected), !.gone = Stash!Shown(now.selected)]
  <2>1. now' = Stash!UpdateDialog(s) /\ now.open
    BY <1>3 DEF Stash!OnBtnRemove, Stash!Becomes
  <2>2. DOMAIN s = StashFields /\ s.open = now.open /\ s.added = now.added /\ s.asked = now.asked
    BY <1>0 DEF StashFields
  <2> HIDE DEF s
  <2> QED
    BY <1>1, <2>1, <2>2
<1>4. CASE Stash!OnListKeyDown
  <2> DEFINE s == [now EXCEPT !.stashes = Stash!EraseEach(@, now.selected), !.stay = Stash!Spared(now.selected),
                              !.gone = Stash!Shown(Stash!First(now.selected))]
  <2>1. now' = Stash!UpdateDialog(s) /\ now.open
    BY <1>4 DEF Stash!OnListKeyDown, Stash!Becomes
  <2>2. DOMAIN s = StashFields /\ s.open = now.open /\ s.added = now.added /\ s.asked = now.asked
    BY <1>0 DEF StashFields
  <2> HIDE DEF s
  <2> QED
    BY <1>1, <2>1, <2>2
<1>5. CASE Stash!CloseDialog
  <2> DEFINE s == [now EXCEPT !.open = FALSE, !.list = <<>>, !.selected = {}, !.tree = {}]
  <2>1. now' = Stash!UpdateCombo(s)
    BY <1>5 DEF Stash!CloseDialog, Stash!Becomes
  <2>2. /\ DOMAIN s = StashFields /\ ~s.open /\ s.list = <<>> /\ s.tree = {}
        /\ s.added = now.added /\ s.asked = now.asked
    BY <1>0 DEF StashFields
  <2> HIDE DEF s
  <2>3. /\ DOMAIN now' = StashFields /\ now'.combo = Stash!Labels(now'.stashes) /\ ~now'.open /\ now'.list = <<>>
        /\ now'.tree = {} /\ now'.added = now.added /\ now'.asked = now.asked
    BY <2>1, <2>2 DEF Stash!UpdateCombo, StashFields
  <2> QED
    BY <1>0, <2>3 DEF StashInv
<1>6. ASSUME NEW is \in SUBSET (1..Len(now.list)), Stash!Select(is) PROVE StashInv'
  <2>1. /\ DOMAIN now' = StashFields /\ now'.selected = is /\ now'.tree \subseteq is
        /\ \A f \in StashFields \ {"selected", "tree"} : now'[f] = now[f]
    BY <1>0, <1>6 DEF Stash!Select, Stash!Becomes, StashFields
  <2> QED
    BY <1>0, <2>1 DEF StashInv, StashFields
<1> QED
  BY <1>2, <1>3, <1>4, <1>5, <1>6

\* Every step of the stashes leaves the lists as they are to be.
LEMMA StashStep == StashInv /\ Stash!Next => StashInv'
BY ComboHolds, DialogHolds DEF Stash!Next

\* So what is chosen in a list is what it shows.
LEMMA StashKeeps == StashInv => Stash!IndicesLive
<1> SUFFICES ASSUME StashInv PROVE Stash!IndicesLive
  OBVIOUS
<1>1. ASSUME NEW q, q = Stash!Labels(now.stashes), NEW i \in DOMAIN q
      PROVE  now.stashes[q[i].stash] = q[i].name
  BY <1>1, LabelsLead
<1>2. (~now.open => now.combo = Stash!Labels(now.stashes)) /\ (now.open => now.list = Stash!Labels(now.stashes))
  BY DEF StashInv
<1>3. ~now.open => DOMAIN now.list = {}
  BY DEF StashInv
<1> QED
  BY <1>1, <1>2, <1>3 DEF StashInv, Stash!IndicesLive

\* What the Delete key has left of the stashes s when those up to i are looked
\* at and m is the first selected: nothing changes before m, m goes and those
\* before it stay, and if m alone is selected all others do.
LeftTo(s, is, m, t, i) ==
    /\ t \in Seq(Stash!Names) /\ Stash!IsInjective(t)
    /\ i < m => t = s
    /\ i >= m => /\ m - 1 <= Len(t) /\ \A j \in 1..(m - 1) : t[j] = s[j]
                 /\ s[m] \notin Stash!Range(t)
                 /\ is = {m} => Stash!Range(t) = Stash!Range(s) \ {s[m]}

\* One turn of the Delete key.
LEMMA EraseEachTurn ==
    ASSUME NEW s \in Seq(Stash!Names), Stash!IsInjective(s), NEW is \in SUBSET (1..Len(s)), NEW m \in Nat \ {0},
           \A k \in is : m <= k, m \in is \/ m > Len(s), NEW i \in 1..Len(s), NEW t, LeftTo(s, is, m, t, i - 1)
    PROVE  LeftTo(s, is, m, IF i \in is /\ i <= Len(t) THEN Stash!RemoveAt(t, i) ELSE t, i)
<1>0. t \in Seq(Stash!Names) /\ Stash!IsInjective(t) /\ Len(t) \in Nat /\ Len(s) \in Nat /\ DOMAIN s = 1..Len(s)
      /\ DOMAIN t = 1..Len(t)
  BY DEF LeftTo
<1>1. CASE i < m
  <2>1. t = s /\ i \notin is
    BY SMTT(30), <1>1 DEF LeftTo
  <2> QED
    BY <1>0, <1>1, <2>1 DEF LeftTo
<1> DEFINE u == Without(t, i)
<1>2. ASSUME i \in is, i <= Len(t)
      PROVE  /\ u \in Seq(Stash!Names) /\ Stash!IsInjective(u) /\ Stash!Range(u) = Stash!Range(t) \ {t[i]}
             /\ Len(u) = Len(t) - 1 /\ \A k \in 1..(Len(t) - 1) : k < i => u[k] = t[k]
  <2>1. i \in 1..Len(t)
    BY <1>0, <1>2
  <2> QED
    BY <1>0, <2>1, WithoutType, WithoutRange
<1>3. Stash!RemoveAt(t, i) = u
  BY DEF Stash!RemoveAt, Without
<1> HIDE DEF u
<1>4. CASE i = m
  <2>1. t = s /\ i \in is /\ i <= Len(t)
    <3>1. i - 1 < m
      BY <1>4
    <3> QED
      BY <1>0, <1>4, <3>1 DEF LeftTo
  <2>2. /\ m - 1 <= Len(u) /\ \A j \in 1..(m - 1) : u[j] = s[j]
    BY <1>0, <1>2, <1>4, <2>1
  <2>3. s[m] \notin Stash!Range(u) /\ Stash!Range(u) = Stash!Range(s) \ {s[m]}
    BY <1>2, <1>4, <2>1
  <2>4. LeftTo(s, is, m, u, i)
    BY <1>2, <1>4, <2>1, <2>2, <2>3 DEF LeftTo
  <2> QED
    BY <1>3, <2>1, <2>4
<1>5. CASE i > m
  <2>1. /\ m - 1 <= Len(t) /\ \A j \in 1..(m - 1) : t[j] = s[j]
        /\ s[m] \notin Stash!Range(t)
        /\ is = {m} => Stash!Range(t) = Stash!Range(s) \ {s[m]}
    <3>1. i - 1 >= m
      BY <1>5
    <3> QED
      BY <3>1 DEF LeftTo
  <2>2. CASE i \in is /\ i <= Len(t)
    <3>1. is # {m}
      BY <1>5, <2>2
    <3>2. m - 1 <= Len(u) /\ \A j \in 1..(m - 1) : u[j] = s[j]
      BY <1>0, <1>2, <1>5, <2>1, <2>2
    <3>3. LeftTo(s, is, m, u, i)
      BY <1>2, <1>5, <2>1, <2>2, <3>1, <3>2 DEF LeftTo
    <3> QED
      BY <1>3, <2>2, <3>3
  <2>3. CASE ~(i \in is /\ i <= Len(t))
    <3>1. LeftTo(s, is, m, t, i)
      BY <1>0, <1>5, <2>1 DEF LeftTo
    <3> QED
      BY <2>3, <3>1
  <2> QED
    BY <2>2, <2>3
<1> QED
  BY <1>1, <1>4, <1>5

\* The Delete key erases the first selected, and none before it; no name comes
\* twice by it.
LEMMA EraseEachErases ==
    ASSUME NEW s \in Seq(Stash!Names), Stash!IsInjective(s), NEW is \in SUBSET (1..Len(s)), NEW m \in Nat \ {0},
           \A k \in is : m <= k, m \in is \/ m > Len(s)
    PROVE  LeftTo(s, is, m, Stash!EraseEach(s, is), Len(s))
<1> DEFINE n == Len(s)
           T == Seq(Stash!Names)
           Step(t, i) == IF i \in is /\ i <= Len(t) THEN Stash!RemoveAt(t, i) ELSE t
           Turn(e, i) == IF i = 0 THEN s ELSE Step(e[i - 1], i)
           Runs(e) == e = [i \in 0..n |-> Turn(e, i)]
           G == [x \in T \X (1..n) |-> Step(x[1], x[2])]
<1>0. n \in Nat /\ s \in T
  OBVIOUS
<1>1. ASSUME NEW t \in T, NEW i \in 1..n PROVE Step(t, i) \in T
  <2>1. i <= Len(t) => i \in 1..Len(t)
    OBVIOUS
  <2>2. i <= Len(t) => Stash!RemoveAt(t, i) \in T
    BY <2>1, WithoutType DEF Stash!RemoveAt, Without
  <2> QED
    BY <2>2
<1>2. ASSUME NEW t \in T, NEW i \in 1..n PROVE G[<<t, i>>] = Step(t, i)
  <2> HIDE DEF Step, T
  <2> QED
    OBVIOUS
<1>t. ASSUME NEW t, NEW i \in 1..n, LeftTo(s, is, m, t, i - 1) PROVE LeftTo(s, is, m, Step(t, i), i)
  BY <1>t, EraseEachTurn
<1>b. LeftTo(s, is, m, s, 0)
  BY DEF LeftTo
<1> HIDE DEF Step, T, G
<1>3. PICK f \in [0..n -> T] : IsRun(f, s, n, G)
  <2>1. \A t \in T : \A k \in 1..n : G[<<t, k>>] \in T
    BY <1>1, <1>2
  <2> HIDE DEF n
  <2> QED
    BY <1>0, <2>1, LoopRuns
<1>4. Runs(f)
  <2>1. \A i \in 1..n : f[i] = Step(f[i - 1], i)
    <3> SUFFICES ASSUME NEW i \in 1..n PROVE f[i] = Step(f[i - 1], i)
      OBVIOUS
    <3>1. f[i] = G[<<f[i - 1], i>>]
      BY <1>3 DEF IsRun
    <3>2. i - 1 \in 0..n
      BY <1>0
    <3>3. f[i - 1] \in T
      BY <1>3, <3>2
    <3> QED
      BY <1>2, <3>1, <3>3
  <2>2. f[0] = s
    BY <1>3 DEF IsRun
  <2>3. \A i \in 0..n : i = 0 \/ i \in 1..n
    BY <1>0
  <2>4. \A i \in 0..n : f[i] = Turn(f, i)
    BY <2>1, <2>2, <2>3
  <2> HIDE DEF Turn
  <2> QED
    BY <1>3, <2>4
<1> DEFINE e == CHOOSE g : Runs(g)
<1>5. Stash!EraseEach(s, is) = e[n]
  BY DEF Stash!EraseEach, Step
<1>6. Runs(e)
  <2> HIDE DEF Runs
  <2> QED
    BY <1>4
<1> HIDE DEF e
<1>7. \A i \in 0..n : e[i] = Turn(e, i)
  <2> HIDE DEF Turn
  <2> QED
    BY <1>6
<1> DEFINE A == {i \in 0..n : LeftTo(s, is, m, e[i], i)}
<1>8. 0 \in A
  <2>1. 0 \in 0..n
    BY <1>0
  <2> QED
    BY <1>b, <1>7, <2>1
<1>9. ASSUME NEW i \in 1..n, i - 1 \in A PROVE i \in A
  <2>1. i \in 0..n /\ i # 0 /\ LeftTo(s, is, m, e[i - 1], i - 1)
    BY <1>9
  <2> QED
    BY <1>t, <1>7, <2>1
<1>10. A = 0..n
  <2>1. A \in SUBSET (0..n)
    OBVIOUS
  <2> HIDE DEF A, n
  <2> QED
    BY <1>0, <1>8, <1>9, <2>1, InductionTo
<1>11. LeftTo(s, is, m, e[n], n)
  <2>1. n \in A
    BY <1>0, <1>10
  <2> QED
    BY <2>1
<1> QED
  BY <1>5, <1>11

\* Each stash has a name of its own; those that were to stay are there, and
\* those that were erased are not.
ErasedInv ==
    /\ now.stashes \in Seq(Stash!Names) /\ Stash!IsInjective(now.stashes)
    /\ now.selected \subseteq DOMAIN now.list
    /\ now.stay \subseteq Stash!Range(now.stashes)
    /\ now.gone \cap Stash!Range(now.stashes) = {}

\* At the start there is no stash.
LEMMA ErasedStart == Stash!Init => ErasedInv
<1> SUFFICES ASSUME Stash!Init PROVE ErasedInv
  OBVIOUS
<1>1. /\ now.stashes = <<>> /\ now.selected = {} /\ now.stay = {} /\ now.gone = {}
  BY DEF Stash!Init
<1>2. <<>> \in Seq(Stash!Names) /\ DOMAIN <<>> = {} /\ Stash!IsInjective(<<>>)
  BY DEF Stash!IsInjective
<1> QED
  BY <1>1, <1>2 DEF ErasedInv

\* The list of the dialog shows the names of the stashes.
LEMMA ShownAreNames ==
    ASSUME StashInv, now.open, now.stashes \in Seq(Stash!Names), NEW is \in SUBSET (1..Len(now.stashes))
    PROVE  Stash!Shown(is) = {now.stashes[i] : i \in is} /\ DOMAIN now.list = 1..Len(now.stashes)
<1>1. now.list = Stash!Labels(now.stashes)
  BY DEF StashInv
<1>2. DOMAIN now.list = 1..Len(now.stashes) /\ \A i \in 1..Len(now.stashes) : now.list[i].name = now.stashes[i]
  BY <1>1 DEF Stash!Labels
<1> QED
  BY <1>2 DEF Stash!Shown

\* What is left of the list are the names that were not selected.
LEMMA LeftIsRange ==
    ASSUME StashInv, now.open, now.stashes \in Seq(Stash!Names), NEW is
    PROVE  Stash!Left(is) = {now.stashes[i] : i \in (1..Len(now.stashes)) \ is}
<1>1. (1..Len(now.stashes)) \ is \in SUBSET (1..Len(now.stashes)) /\ {} \in SUBSET (1..Len(now.stashes))
  OBVIOUS
<1> QED
  BY <1>1, ShownAreNames DEF Stash!Left

\* What the Delete key was to spare it spares, and what it was to erase is gone.
LEMMA KeyErases ==
    ASSUME StashInv, now.open, now.stashes \in Seq(Stash!Names), Stash!IsInjective(now.stashes),
           NEW is \in SUBSET (1..Len(now.stashes))
    PROVE  LET q == Stash!EraseEach(now.stashes, is)
           IN  /\ q \in Seq(Stash!Names) /\ Stash!IsInjective(q) /\ Stash!Spared(is) \subseteq Stash!Range(q)
               /\ Stash!Shown(Stash!First(is)) \cap Stash!Range(q) = {}
<1> DEFINE s == now.stashes
           n == Len(s)
           q == Stash!EraseEach(s, is)
<1>0. n \in Nat /\ DOMAIN s = 1..n
  OBVIOUS
<1>1. DOMAIN now.list = 1..n /\ \A js \in SUBSET (1..n) : Stash!Shown(js) = {s[i] : i \in js}
  BY ShownAreNames
<1>2. Stash!Left(is) = {s[i] : i \in (1..n) \ is}
  BY LeftIsRange
<1>3. CASE is = {}
  <2>1. LeftTo(s, is, n + 1, q, n)
    <3>1. n + 1 \in Nat \ {0} /\ n + 1 > n
      BY <1>0
    <3> QED
      BY <1>3, <3>1, EraseEachErases
  <2>2. q = s
    <3>1. n < n + 1
      BY <1>0
    <3> QED
      BY <2>1, <3>1 DEF LeftTo
  <2>3. Stash!First(is) = {} /\ Stash!Spared(is) = Stash!Left(is)
    BY <1>3 DEF Stash!First, Stash!Spared
  <2>4. Stash!Left(is) \subseteq Stash!Range(s)
    BY <1>0, <1>2 DEF Stash!Range
  <2>5. Stash!Shown({}) = {}
    BY DEF Stash!Shown
  <2> QED
    BY <2>2, <2>3, <2>4, <2>5
<1>4. CASE is # {}
  <2>1. PICK m \in is : \A k \in is : m <= k
    <3>1. is \in SUBSET Nat
      OBVIOUS
    <3> QED
      BY <1>4, <3>1, LeastNatural
  <2>2. m \in 1..n /\ m \in Nat \ {0}
    OBVIOUS
  <2>3. LeftTo(s, is, m, q, n)
    BY <2>1, <2>2, EraseEachErases
  <2> HIDE DEF q
  <2>4. /\ q \in Seq(Stash!Names) /\ Stash!IsInjective(q) /\ m - 1 <= Len(q) /\ \A j \in 1..(m - 1) : q[j] = s[j]
        /\ s[m] \notin Stash!Range(q)
        /\ is = {m} => Stash!Range(q) = Stash!Range(s) \ {s[m]}
    <3>1. n >= m
      BY <1>0, <2>2
    <3> QED
      BY <2>3, <3>1 DEF LeftTo
  <2>5. Stash!First(is) = {m}
    <3>1. m \in Stash!First(is)
      BY <2>1 DEF Stash!First
    <3>2. ASSUME NEW j \in Stash!First(is) PROVE j = m
      <4>1. j \in is /\ j <= m /\ m <= j
        BY <2>1 DEF Stash!First
      <4>2. j \in Nat /\ m \in Nat
        BY <4>1
      <4> QED
        BY <4>1, <4>2
    <3> QED
      BY <3>1, <3>2
  <2>6. Stash!Shown({m}) = {s[m]}
    BY <1>1, <2>2
  <2>7. Stash!Spared(is) \subseteq Stash!Range(q)
    <3>1. CASE is = {m}
      <4>1. Stash!Spared(is) = Stash!Left(is)
        BY <2>5, <3>1 DEF Stash!Spared
      <4>2. ASSUME NEW i \in (1..n) \ is PROVE s[i] \in Stash!Range(s) \ {s[m]}
        BY <1>0, <2>2, <3>1 DEF Stash!Range, Stash!IsInjective
      <4>3. Stash!Range(q) = Stash!Range(s) \ {s[m]}
        BY <2>4, <3>1
      <4>4. Stash!Spared(is) = {s[i] : i \in (1..n) \ is}
        BY <1>2, <4>1
      <4> HIDE DEF n, s
      <4> QED
        BY <4>2, <4>3, <4>4
    <3>2. CASE is # {m}
      <4>1. Stash!Spared(is) = Stash!Shown(Stash!Before(is))
        BY <2>5, <3>2 DEF Stash!Spared
      <4>2. Stash!Before(is) \in SUBSET (1..n) /\ \A j \in Stash!Before(is) : j < m
        BY <1>1 DEF Stash!Before
      <4>3. Stash!Shown(Stash!Before(is)) = {s[j] : j \in Stash!Before(is)}
        BY <1>1, <4>2
      <4>4. ASSUME NEW j \in Stash!Before(is) PROVE s[j] \in Stash!Range(q)
        <5>1. Len(q) \in Nat /\ DOMAIN q = 1..Len(q)
          BY <2>4
        <5>2. j \in 1..(m - 1) /\ j \in 1..Len(q)
          BY <1>0, <2>2, <2>4, <4>2, <5>1
        <5> QED
          BY <2>4, <5>1, <5>2 DEF Stash!Range
      <4> QED
        BY <4>1, <4>3, <4>4
    <3> QED
      BY <3>1, <3>2
  <2> QED
    BY <2>4, <2>5, <2>6, <2>7 DEF q
<1> QED
  BY <1>3, <1>4

\* A state file has each stash once.
LEMMA FilesAreInjective == \A f \in Stash!Files : f \in Seq(Stash!Names) /\ Stash!IsInjective(f)
<1>1. <<>> \in Seq(Stash!Names) /\ Stash!IsInjective(<<>>)
  BY DEF Stash!IsInjective
<1> DEFINE t == <<"c", "a", "b">>
<1>2. t \in Seq({"a", "b", "c"}) /\ DOMAIN t = 1..3 /\ t[1] = "c" /\ t[2] = "a" /\ t[3] = "b"
  OBVIOUS
<1> HIDE DEF t
<1>3. Stash!IsInjective(t)
  <2>1. \A i \in 1..3 : i = 1 \/ i = 2 \/ i = 3
    OBVIOUS
  <2> QED
    BY <1>2, <2>1 DEF Stash!IsInjective
<1> QED
  BY <1>1, <1>2, <1>3 DEF Stash!Files, Stash!Names, t

\* A new name is put behind the others.
LEMMA StoreHolds ==
    ASSUME ErasedInv, NEW n \in Stash!Names, n \notin Stash!Range(now.stashes)
    PROVE  LET q == Append(now.stashes, n)
           IN  q \in Seq(Stash!Names) /\ Stash!IsInjective(q) /\ Stash!Range(q) = Stash!Range(now.stashes) \cup {n}
<1> DEFINE s == now.stashes
           q == Append(s, n)
<1>1. s \in Seq(Stash!Names) /\ Stash!IsInjective(s)
  BY DEF ErasedInv
<1> HIDE DEF s
<1>2. /\ Len(s) \in Nat /\ DOMAIN s = 1..Len(s) /\ q \in Seq(Stash!Names) /\ DOMAIN q = 1..(Len(s) + 1)
      /\ q[Len(s) + 1] = n /\ \A k \in 1..Len(s) : q[k] = s[k]
  BY <1>1
<1> HIDE DEF q
<1>3. \A k \in 1..(Len(s) + 1) : k \in 1..Len(s) \/ k = Len(s) + 1
  BY <1>2
<1>4. Len(s) + 1 \in 1..(Len(s) + 1) /\ \A k \in 1..Len(s) : k \in 1..(Len(s) + 1)
  BY <1>2
<1>5. \A k \in 1..Len(s) : s[k] # n
  BY <1>2 DEF s, Stash!Range
<1>6. Stash!IsInjective(q)
  BY <1>1, <1>2, <1>3, <1>5 DEF Stash!IsInjective
<1>7. Stash!Range(q) = Stash!Range(s) \cup {n}
  BY <1>2, <1>3, <1>4 DEF Stash!Range
<1> QED
  BY <1>2, <1>6, <1>7 DEF q, s

\* Every step of the stashes leaves those that were to stay.
LEMMA ErasedStep == StashInv /\ ErasedInv /\ Stash!Next => ErasedInv'
<1> SUFFICES ASSUME StashInv, ErasedInv, Stash!Next PROVE ErasedInv'
  OBVIOUS
<1>0. DOMAIN now = StashFields /\ (~now.open => now.list = <<>>) /\ (now.open => now.list = Stash!Labels(now.stashes))
  BY DEF StashInv
<1>e. /\ now.stashes \in Seq(Stash!Names) /\ Stash!IsInjective(now.stashes) /\ now.selected \subseteq DOMAIN now.list
      /\ now.stay \subseteq Stash!Range(now.stashes) /\ now.gone \cap Stash!Range(now.stashes) = {}
  BY DEF ErasedInv
<1>u. ASSUME \A f \in {"stashes", "selected", "list", "stay", "gone"} : now'[f] = now[f]
      PROVE  ErasedInv'
  BY <1>e, <1>u DEF ErasedInv
<1>c. ASSUME NEW s, now' = Stash!UpdateCombo(s), DOMAIN s = StashFields, s.selected = {},
             s.stashes \in Seq(Stash!Names), Stash!IsInjective(s.stashes),
             s.stay \subseteq Stash!Range(s.stashes), s.gone \cap Stash!Range(s.stashes) = {}
      PROVE  ErasedInv'
  <2>1. \A f \in StashFields \ {"combo"} : now'[f] = s[f]
    BY <1>c DEF Stash!UpdateCombo, StashFields
  <2> QED
    BY <1>c, <2>1 DEF ErasedInv, StashFields
<1>d. ASSUME NEW s, now' = Stash!UpdateDialog(s), DOMAIN s = StashFields,
             s.stashes \in Seq(Stash!Names), Stash!IsInjective(s.stashes),
             s.stay \subseteq Stash!Range(s.stashes), s.gone \cap Stash!Range(s.stashes) = {}
      PROVE  ErasedInv'
  <2>1. now'.selected = {} /\ \A f \in StashFields \ {"list", "selected", "tree"} : now'[f] = s[f]
    BY <1>d DEF Stash!UpdateDialog, StashFields
  <2> QED
    BY <1>d, <2>1 DEF ErasedInv, StashFields
<1>1. ASSUME NEW n \in Stash!Names, Stash!ComboEnter(n) PROVE ErasedInv'
  <2>1. ~now.open /\ now.selected = {}
    <3>1. ~now.open
      BY <1>1 DEF Stash!ComboEnter
    <3>2. DOMAIN now.list = {}
      BY <1>0, <3>1
    <3> QED
      BY <1>e, <3>1, <3>2
  <2>2. CASE n \in Stash!Range(now.stashes)
    <3>1. \E e \in 1..Len(now.combo) : now' = Stash!Restored(e)
      BY <1>1, <2>2 DEF Stash!ComboEnter, Stash!Becomes
    <3>2. \A f \in {"stashes", "selected", "list", "stay", "gone"} : now'[f] = now[f]
      BY <1>0, <3>1 DEF Stash!Restored, StashFields
    <3> QED
      BY <1>u, <3>2
  <2>3. CASE n \notin Stash!Range(now.stashes)
    <3> DEFINE q == Append(now.stashes, n)
               s == [now EXCEPT !.stashes = q, !.stay = @ \cup {n}, !.gone = @ \ {n}]
    <3>1. now' = Stash!UpdateCombo(s)
      BY <1>1, <2>3 DEF Stash!ComboEnter, Stash!Becomes
    <3>2. q \in Seq(Stash!Names) /\ Stash!IsInjective(q) /\ Stash!Range(q) = Stash!Range(now.stashes) \cup {n}
      BY <2>3, StoreHolds
    <3> HIDE DEF q
    <3>3. /\ DOMAIN s = StashFields /\ s.stashes = q /\ s.stay = now.stay \cup {n}
          /\ s.gone = now.gone \ {n} /\ s.selected = now.selected
      BY <1>0 DEF StashFields
    <3> HIDE DEF s
    <3>4. s.stay \subseteq Stash!Range(q) /\ s.gone \cap Stash!Range(q) = {}
      BY <1>e, <3>2, <3>3
    <3> QED
      BY <1>c, <2>1, <3>1, <3>2, <3>3, <3>4
  <2> QED
    BY <2>2, <2>3
<1>2. ASSUME NEW e \in 1..Len(now.combo), Stash!ComboSelect(e) PROVE ErasedInv'
  <2>1. \A f \in {"stashes", "selected", "list", "stay", "gone"} : now'[f] = now[f]
    BY <1>0, <1>2 DEF Stash!ComboSelect, Stash!Becomes, Stash!Restored, StashFields
  <2> QED
    BY <1>u, <2>1
<1>3. ASSUME NEW f \in Stash!Files, Stash!Load(f) PROVE ErasedInv'
  <2> DEFINE s == [now EXCEPT !.stashes = f, !.stay = Stash!Range(f), !.gone = Stash!Names \ Stash!Range(f)]
  <2>1. now' = Stash!UpdateCombo(s) /\ ~now.open
    BY <1>3 DEF Stash!Load, Stash!Becomes
  <2>2. DOMAIN now.list = {}
    BY <1>0, <2>1
  <2>3. /\ DOMAIN s = StashFields /\ s.stashes = f /\ s.stay = Stash!Range(f)
        /\ s.gone = Stash!Names \ Stash!Range(f) /\ s.selected = now.selected
    BY <1>0 DEF StashFields
  <2> HIDE DEF s
  <2>4. f \in Seq(Stash!Names) /\ Stash!IsInjective(f)
    BY FilesAreInjective
  <2> QED
    BY <1>c, <1>e, <2>1, <2>2, <2>3, <2>4
<1>4. CASE Stash!OpenDialog
  <2> DEFINE s == [now EXCEPT !.open = TRUE]
  <2>1. now' = Stash!UpdateDialog(s)
    BY <1>4 DEF Stash!OpenDialog, Stash!Becomes
  <2>2. /\ DOMAIN s = StashFields /\ s.stashes = now.stashes /\ s.stay = now.stay /\ s.gone = now.gone
    BY <1>0 DEF StashFields
  <2> HIDE DEF s
  <2> QED
    BY <1>d, <1>e, <2>1, <2>2
<1>5. ASSUME NEW is \in SUBSET (1..Len(now.list)), Stash!Select(is) PROVE ErasedInv'
  <2>1. /\ now'.selected = is /\ now.open /\ now'.list = now.list
        /\ \A f \in {"stashes", "stay", "gone"} : now'[f] = now[f]
    BY <1>0, <1>5 DEF Stash!Select, Stash!Becomes, StashFields
  <2>2. DOMAIN now.list = 1..Len(now.list)
    <3>1. now.list = Stash!Labels(now.stashes) /\ Len(now.stashes) \in Nat
      BY <1>0, <1>e, <2>1
    <3> QED
      BY <3>1 DEF Stash!Labels
  <2> QED
    BY <1>e, <2>1, <2>2 DEF ErasedInv
<1>s. now.open => now.selected \in SUBSET (1..Len(now.stashes))
  BY <1>0, <1>e DEF Stash!Labels
<1>6. CASE Stash!OnBtnRemove
  <2> DEFINE q == Stash!EraseAll(now.stashes, now.selected)
             s == [now EXCEPT !.stashes = q, !.stay = Stash!Left(now.selected), !.gone = Stash!Shown(now.selected)]
  <2>1. now' = Stash!UpdateDialog(s) /\ now.open
    BY <1>6 DEF Stash!OnBtnRemove, Stash!Becomes
  <2>2. q \in Seq(Stash!Names) /\ Stash!IsInjective(q)
          /\ Stash!Range(q) = {now.stashes[i] : i \in (1..Len(now.stashes)) \ now.selected}
    BY <1>e, <1>s, <2>1, EraseAllErases
  <2>3. /\ Stash!Left(now.selected) = Stash!Range(q)
        /\ Stash!Shown(now.selected) = {now.stashes[i] : i \in now.selected}
    BY <1>e, <1>s, <2>1, <2>2, LeftIsRange, ShownAreNames
  <2> HIDE DEF q
  <2>4. /\ DOMAIN s = StashFields /\ s.stashes = q /\ s.stay = Stash!Left(now.selected)
        /\ s.gone = Stash!Shown(now.selected)
    BY <1>0 DEF StashFields
  <2> HIDE DEF s
  <2>5. \A i \in now.selected : now.stashes[i] \notin Stash!Range(q)
    <3>1. DOMAIN now.stashes = 1..Len(now.stashes)
      BY <1>e
    <3> QED
      BY <1>e, <1>s, <2>1, <2>2, <3>1 DEF Stash!IsInjective
  <2>6. s.stay \subseteq Stash!Range(q) /\ s.gone \cap Stash!Range(q) = {}
    BY <2>3, <2>4, <2>5
  <2> QED
    BY <1>d, <2>1, <2>2, <2>4, <2>6
<1>7. CASE Stash!OnListKeyDown
  <2> DEFINE c == now.stashes
             is == now.selected
             q == Stash!EraseEach(c, is)
             s == [now EXCEPT !.stashes = q, !.stay = Stash!Spared(is), !.gone = Stash!Shown(Stash!First(is))]
  <2>1. now' = Stash!UpdateDialog(s) /\ now.open
    BY <1>7 DEF Stash!OnListKeyDown, Stash!Becomes
  <2>2. /\ DOMAIN s = StashFields /\ s.stashes = q /\ s.stay = Stash!Spared(is)
        /\ s.gone = Stash!Shown(Stash!First(is))
    BY <1>0 DEF StashFields
  <2>3. /\ q \in Seq(Stash!Names) /\ Stash!IsInjective(q)
        /\ Stash!Spared(is) \subseteq Stash!Range(q) /\ Stash!Shown(Stash!First(is)) \cap Stash!Range(q) = {}
    BY <1>e, <1>s, <2>1, KeyErases
  <2> HIDE DEF s, q
  <2> QED
    BY <1>d, <2>1, <2>2, <2>3
<1>8. CASE Stash!CloseDialog
  <2> DEFINE s == [now EXCEPT !.open = FALSE, !.list = <<>>, !.selected = {}, !.tree = {}]
  <2>1. now' = Stash!UpdateCombo(s)
    BY <1>8 DEF Stash!CloseDialog, Stash!Becomes
  <2>2. /\ DOMAIN s = StashFields /\ s.stashes = now.stashes /\ s.stay = now.stay /\ s.gone = now.gone
        /\ s.selected = {}
    BY <1>0 DEF StashFields
  <2> HIDE DEF s
  <2> QED
    BY <1>c, <1>e, <2>1, <2>2
<1> QED
  BY <1>1, <1>2, <1>3, <1>4, <1>5, <1>6, <1>7, <1>8 DEF Stash!Next

\* What the theme asks of what was erased.
LEMMA ErasedKeeps == ErasedInv => Stash!NamesUnique /\ Stash!ErasuresAreBounded
BY DEF ErasedInv, Stash!NamesUnique, Stash!ErasuresAreBounded

-----------------------------------------------------------------------------
(* Hazardous *)

\* A filter of the tree.
Filters == [id : Nat, depth : Nat, haz : BOOLEAN]
\* The members of the state of the question.
HazFields == {"loaded", "tree", "freed", "at", "phase"}

\* What is still to be looked at is the end of the file; what has been looked
\* at is of the file before that, and hazardous only if it was freed.
TreeIsOfFile(s) ==
    LET off == Haz!Size - Len(s.tree)
    IN  /\ \A k \in s.at..Len(s.tree) : s.tree[k] = s.loaded[k + off]
        /\ \A k \in 1..Len(s.tree) :
             k < s.at => /\ s.tree[k].id \in 1..(s.at + off - 1) /\ s.tree[k].id \in 1..Haz!Size
                         /\ s.tree[k] = s.loaded[s.tree[k].id]
                         /\ s.tree[k].haz => s.freed[s.tree[k].id] > 0
\* Which filters are freed.
FreedAsTold(s) ==
    \A f \in 1..Haz!Size :
       /\ (\A h \in 1..f : ~s.loaded[h].haz) => f \in Haz!Ids(s.tree) /\ s.freed[f] = 0
       /\ f \notin Haz!Ids(s.tree) => s.freed[f] > 0
       /\ (f \in Haz!Ids(s.tree) /\ s.freed[f] > 0) \/ s.freed[f] > 1 =>
             \E h \in 1..(f - 1) : s.loaded[h].haz /\ f \notin Haz!Branch(s.loaded, h)
HazType(s) ==
    /\ DOMAIN s = HazFields
    /\ s.loaded \in Seq(Filters) /\ Len(s.loaded) = Haz!Size /\ \A i \in 1..Haz!Size : s.loaded[i].id = i
    /\ s.tree \in Seq(Filters) /\ Len(s.tree) \in 0..Haz!Size
    /\ s.at \in 1..(Len(s.tree) + 1)
    /\ s.freed \in [1..Haz!Size -> Nat]
\* The inductive invariant of Hazardous.
HazInv ==
    /\ HazType(now) /\ TreeIsOfFile(now) /\ FreedAsTold(now)
    /\ now.phase = "stripped" => now.at > Len(now.tree)

\* At the start the tree is that of the file.
LEMMA HazStart == Haz!Init => HazInv
<1> SUFFICES ASSUME Haz!Init PROVE HazInv
  OBVIOUS
<1>1. PICK t \in Haz!LoadedTrees : now = [loaded |-> t, tree |-> t, freed |-> [i \in 1..Haz!Size |-> 0], at |-> 1,
                                phase |-> "ask"]
  BY DEF Haz!Init
<1>2. PICK d \in Haz!Depths, h \in SUBSET (1..Haz!Size) : t = [i \in 1..Haz!Size |-> [id |-> i, depth |-> d[i], haz |-> i \in h]]
  BY DEF Haz!LoadedTrees
<1>3. Haz!Size \in Nat /\ d \in [1..Haz!Size -> 0..2]
  BY DEF Haz!Size, Haz!Depths
<1> HIDE DEF Haz!Size
<1>4. \A i \in 1..Haz!Size : t[i] \in Filters /\ t[i].id = i
  BY <1>2, <1>3 DEF Filters
<1>5. DOMAIN t = 1..Haz!Size
  BY <1>2
<1>6. t \in Seq(Filters) /\ Len(t) = Haz!Size
  <2>1. t \in [1..Haz!Size -> Filters]
    BY <1>2, <1>4
  <2> QED
    BY <1>3, <2>1
<1>7. /\ DOMAIN now = HazFields /\ now.loaded = t /\ now.tree = t /\ now.freed = [i \in 1..Haz!Size |-> 0] /\ now.at = 1
      /\ now.phase = "ask"
  BY <1>1 DEF HazFields
<1>8. HazType(now)
  BY <1>3, <1>4, <1>6, <1>7 DEF HazType
<1>9. TreeIsOfFile(now)
  BY <1>3, <1>6, <1>7 DEF TreeIsOfFile
<1>10. FreedAsTold(now)
  <2>1. \A f \in 1..Haz!Size : f \in Haz!Ids(t)
    BY <1>4, <1>5 DEF Haz!Ids
  <2> QED
    BY <1>7, <2>1 DEF FreedAsTold
<1> QED
  BY <1>7, <1>8, <1>9, <1>10 DEF HazInv

\* The module of finite sets is the same wherever it is extended.
LEMMA SameCardinality == \A T : Haz!Cardinality(T) = Cardinality(T)
BY DEF Haz!Cardinality, Cardinality

\* A part of an interval that begins where it does, and has no gaps, is itself
\* an interval.
LEMMA Stretch ==
    ASSUME NEW i \in Nat, NEW n \in Nat, i <= n, NEW B \in SUBSET (i..n), i \in B,
           \A j \in B : \A k \in i..j : k \in B
    PROVE  /\ Cardinality(B) \in 1..(n - i + 1)
           /\ B = i..(i + Cardinality(B) - 1)
<1> DEFINE Out == {q \in i..(n + 1) : q \notin B}
<1>1. Out \in SUBSET Nat /\ n + 1 \in Out
  OBVIOUS
<1>2. PICK q \in Out : \A r \in Out : q <= r
  <2> HIDE DEF Out
  <2> QED
    BY <1>1, LeastNatural
<1>3. q \in Nat /\ q > i /\ q <= n + 1 /\ q \notin B
  BY <1>2
<1>4. B = i..(q - 1)
  <2>1. ASSUME NEW j \in B PROVE j \in i..(q - 1)
    <3>1. j \in i..n /\ (q <= j => q \in i..j)
      BY <1>3
    <3> QED
      BY <1>3, <3>1
  <2>2. ASSUME NEW j \in i..(q - 1) PROVE j \in B
    <3>1. j \in i..(n + 1) /\ ~(q <= j)
      BY <1>3
    <3> QED
      BY <1>2, <3>1
  <2> QED
    BY <2>1, <2>2
<1>5. Cardinality(B) = q - i
  <2>1. Cardinality(i..(q - 1)) = IF i > q - 1 THEN 0 ELSE (q - 1) - i + 1
    <3>1. i \in Int /\ q - 1 \in Int
      BY <1>3
    <3> QED
      BY <3>1, FS_Interval
  <2> QED
    BY <1>3, <1>4, <2>1
<1> HIDE DEF Out
<1> QED
  BY <1>3, <1>4, <1>5

\* A branch is a stretch of the tree from its filter on.
LEMMA BranchIsStretch ==
    ASSUME NEW S, NEW t \in Seq(S), NEW i \in 1..Len(t)
    PROVE  LET c == Cardinality(Haz!Branch(t, i))
           IN  c \in 1..(Len(t) - i + 1) /\ Haz!Branch(t, i) = i..(i + c - 1)
<1> DEFINE B == Haz!Branch(t, i)
<1>1. i \in Nat /\ Len(t) \in Nat /\ i <= Len(t)
  OBVIOUS
<1>2. B \in SUBSET (i..Len(t)) /\ i \in B
  BY <1>1 DEF Haz!Branch
<1>3. \A j \in B : \A k \in i..j : k \in B
  BY <1>1 DEF Haz!Branch
<1> HIDE DEF B
<1>4. Cardinality(B) \in 1..(Len(t) - i + 1) /\ B = i..(i + Cardinality(B) - 1)
  BY <1>1, <1>2, <1>3, Stretch
<1> QED
  BY <1>4 DEF B

\* What is erased is a branch: what is behind it moves up.
LEMMA ErasedShift ==
    ASSUME NEW S, NEW t \in Seq(S), NEW i \in 1..Len(t), NEW c \in 1..(Len(t) - i + 1),
           c = Cardinality(Haz!Branch(t, i))
    PROVE  /\ Haz!Erased(t, i) \in Seq(S) /\ Len(Haz!Erased(t, i)) = Len(t) - c
           /\ \A k \in 1..(Len(t) - c) : Haz!Erased(t, i)[k] = IF k < i THEN t[k] ELSE t[k + c]
<1> DEFINE n == Len(t)
           a == SubSeq(t, 1, i - 1)
           b == SubSeq(t, i + c, n)
<1>0. n \in Nat /\ i \in Nat /\ i >= 1 /\ i <= n /\ c \in Nat /\ c >= 1 /\ i + c <= n + 1
  OBVIOUS
<1>2. Haz!Erased(t, i) = a \o b
  BY SameCardinality DEF Haz!Erased
<1>3. a \in Seq(S) /\ Len(a) = i - 1 /\ \A k \in 1..(i - 1) : a[k] = t[k]
  <2>1. \A k \in 1..(i - 1) : t[k] \in S
    OBVIOUS
  <2> QED
    BY <1>0, <2>1, SubSeqProperties
<1>4. b \in Seq(S) /\ Len(b) = n - (i + c) + 1 /\ \A k \in 1..(n - (i + c) + 1) : b[k] = t[(i + c) + k - 1]
  <2> DEFINE m == i + c
  <2>1. \A k \in m..n : t[k] \in S
    BY <1>0
  <2>2. m \in Int /\ n \in Int
    BY <1>0
  <2>3. /\ SubSeq(t, m, n) \in Seq(S) /\ Len(SubSeq(t, m, n)) = IF m <= n THEN n - m + 1 ELSE 0
        /\ \A k \in 1..(n - m + 1) : SubSeq(t, m, n)[k] = t[m + k - 1]
    <3> HIDE DEF m, n
    <3> QED
      BY <2>1, <2>2, SubSeqProperties
  <2>4. b = SubSeq(t, m, n) /\ m = i + c /\ n - m + 1 \in Nat
    BY <1>0
  <2> HIDE DEF b, m, n
  <2>5. Len(b) = n - m + 1
    <3>1. m \in Int /\ n \in Int /\ n - m + 1 >= 0
      BY <2>2, <2>4
    <3>2. ~(m <= n) => n - m + 1 = 0
      BY <3>1
    <3> QED
      BY <2>3, <2>4, <3>2
  <2>6. b \in Seq(S) /\ \A k \in 1..(n - m + 1) : b[k] = t[m + k - 1]
    BY <2>3, <2>4
  <2> QED
    BY <2>4, <2>5, <2>6
<1> HIDE DEF a, b, n
<1>5. /\ a \o b \in Seq(S) /\ Len(a \o b) = Len(a) + Len(b)
      /\ \A k \in 1..(Len(a) + Len(b)) : (a \o b)[k] = IF k <= Len(a) THEN a[k] ELSE b[k - Len(a)]
  <2>1. a \in Seq(S) /\ b \in Seq(S)
    BY <1>3, <1>4
  <2> QED
    BY <2>1, ConcatProperties
<1>6. Len(a) + Len(b) = n - c
  <2>1. Len(a) = i - 1
    BY <1>3
  <2>2. Len(b) = n - (i + c) + 1
    BY <1>4
  <2>3. (i - 1) + (n - (i + c) + 1) = n - c
    BY <1>0
  <2> QED
    BY <2>1, <2>2, <2>3
<1>7. ASSUME NEW k \in 1..(n - c) PROVE (a \o b)[k] = IF k < i THEN t[k] ELSE t[k + c]
  <2>1. CASE k < i
    <3>1. k <= Len(a) /\ k \in 1..(i - 1)
      BY <1>0, <1>3, <2>1
    <3> QED
      BY <1>3, <1>5, <1>6, <2>1, <3>1
  <2>2. CASE ~(k < i)
    <3>1. Len(a) = i - 1 /\ k \in Nat /\ k >= i /\ k <= n - c
      BY <1>0, <1>3, <2>2
    <3>2. ~(k <= i - 1)
      BY <1>0, <3>1
    <3>3. k - (i - 1) \in 1..(n - (i + c) + 1)
      <4>1. i \in Int /\ c \in Int /\ n \in Int /\ k \in Int
        BY <1>0, <3>1
      <4>2. k - (i - 1) \in Int /\ n - (i + c) + 1 \in Int
        BY <4>1
      <4>3. 1 <= k - (i - 1)
        BY <3>1, <4>1
      <4>4. k - (i - 1) <= n - (i + c) + 1
        BY SMTT(30), <3>1, <4>1
      <4> DEFINE x == k - (i - 1)
                 y == n - (i + c) + 1
      <4> HIDE DEF x, y
      <4>5. x \in 1..y
        <5>1. x \in Int /\ y \in Int /\ 1 <= x /\ x <= y
          BY <4>2, <4>3, <4>4 DEF x, y
        <5> QED
          BY <5>1
      <4> QED
        BY <4>5 DEF x, y
    <3>4. (i + c) + (k - (i - 1)) - 1 = k + c
      BY <1>0, <3>1
    <3>5. /\ ~(k <= Len(a)) /\ k - Len(a) \in 1..(n - (i + c) + 1)
          /\ (i + c) + (k - Len(a)) - 1 = k + c
      BY <3>1, <3>2, <3>3, <3>4
    <3> QED
      BY <1>4, <1>5, <1>6, <2>2, <3>5
  <2> QED
    BY <2>1, <2>2
<1> QED
  BY <1>2, <1>5, <1>6, <1>7 DEF n

\* Both facts of a branch that is erased.
LEMMA BranchErased ==
    ASSUME NEW S, NEW t \in Seq(S), NEW i \in 1..Len(t)
    PROVE  LET c == Cardinality(Haz!Branch(t, i))
               u == Haz!Erased(t, i)
           IN  /\ c \in 1..(Len(t) - i + 1) /\ Haz!Branch(t, i) = i..(i + c - 1)
               /\ u \in Seq(S) /\ Len(u) = Len(t) - c
               /\ \A k \in 1..(Len(t) - c) : u[k] = IF k < i THEN t[k] ELSE t[k + c]
<1> DEFINE c == Cardinality(Haz!Branch(t, i))
<1>1. c \in 1..(Len(t) - i + 1) /\ Haz!Branch(t, i) = i..(i + c - 1)
  BY BranchIsStretch
<1>2. c = Cardinality(Haz!Branch(t, i))
  OBVIOUS
<1> HIDE DEF c
<1>3. /\ Haz!Erased(t, i) \in Seq(S) /\ Len(Haz!Erased(t, i)) = Len(t) - c
      /\ \A k \in 1..(Len(t) - c) : Haz!Erased(t, i)[k] = IF k < i THEN t[k] ELSE t[k + c]
  BY <1>1, <1>2, ErasedShift
<1> QED
  BY <1>1, <1>3 DEF c

\* Behind a branch of what is still to be looked at there is no filter of the
\* same branch of the file.
LEMMA BranchOfFile ==
    ASSUME NEW t \in Seq(Filters), NEW l, NEW off \in Nat, NEW i \in 1..Len(t),
           \A k \in i..Len(t) : t[k] = l[k + off],
           NEW j \in i..Len(t), j \notin Haz!Branch(t, i)
    PROVE  j + off \notin Haz!Branch(l, i + off)
<1> SUFFICES ASSUME j + off \in Haz!Branch(l, i + off) PROVE FALSE
  OBVIOUS
<1>0. i \in Nat /\ Len(t) \in Nat /\ j \in Nat
  OBVIOUS
<1>1. \A k \in ((i + off) + 1)..(j + off) : l[k].depth > l[i + off].depth
  BY DEF Haz!Branch
<1>2. ASSUME NEW k \in (i + 1)..j PROVE t[k].depth > t[i].depth
  <2>1. k + off \in ((i + off) + 1)..(j + off) /\ k \in i..Len(t) /\ i \in i..Len(t)
    BY <1>0
  <2> QED
    BY <1>1, <2>1
<1> QED
  BY <1>2 DEF Haz!Branch

\* What is behind the branch of a filter is behind that of another before it.
LEMMA BehindStays ==
    ASSUME NEW l, NEW h \in Nat, NEW g \in Nat, NEW f \in Nat, h < g, g < f, f <= Len(l), Len(l) \in Nat,
           g \notin Haz!Branch(l, h)
    PROVE  f \notin Haz!Branch(l, h)
BY DEF Haz!Branch

\* A hazardous filter, or one that has been freed and is taken for one, leaves
\* the tree with its branch.
LEMMA StripBranchHolds ==
    ASSUME HazInv, Haz!StripBranch
    PROVE  HazInv'
<1> DEFINE N == Haz!Size
           t == now.tree
           l == now.loaded
           i == now.at
           n == Len(t)
           off == N - n
           g == i + off
           c == Cardinality(Haz!Branch(t, i))
           u == Haz!Erased(t, i)
           ids == {t[j].id : j \in Haz!Deleted(t, i)}
           freed == [f \in DOMAIN now.freed |-> IF f \in ids THEN now.freed[f] + 1 ELSE now.freed[f]]
           r == [now EXCEPT !.tree = u, !.freed = freed]
<1>0. N \in Nat
  BY DEF Haz!Size
<1>1. /\ now.phase = "strip" /\ i <= n /\ TRUE \in Haz!Answers(t[i]) /\ now' = r
  BY DEF Haz!StripBranch, Haz!Becomes
<1>2. /\ DOMAIN now = HazFields /\ l \in Seq(Filters) /\ Len(l) = N /\ \A k \in 1..N : l[k].id = k
      /\ t \in Seq(Filters) /\ n \in 0..N /\ i \in 1..(n + 1) /\ now.freed \in [1..N -> Nat]
  BY DEF HazInv, HazType
<1>3. /\ \A k \in i..n : t[k] = l[k + off]
      /\ \A k \in 1..n :
           k < i => /\ t[k].id \in 1..(i + off - 1) /\ t[k].id \in 1..N
                    /\ t[k] = l[t[k].id]
                    /\ t[k].haz => now.freed[t[k].id] > 0
  BY DEF HazInv, TreeIsOfFile
<1>4. \A f \in 1..N :
        /\ (\A h \in 1..f : ~l[h].haz) => f \in Haz!Ids(t) /\ now.freed[f] = 0
        /\ f \notin Haz!Ids(t) => now.freed[f] > 0
        /\ (f \in Haz!Ids(t) /\ now.freed[f] > 0) \/ now.freed[f] > 1 =>
             \E h \in 1..(f - 1) : l[h].haz /\ f \notin Haz!Branch(l, h)
  BY DEF HazInv, FreedAsTold
<1> HIDE DEF N, t, l, i
<1>5. /\ i \in 1..n /\ n \in Nat /\ i \in Nat /\ off \in Nat /\ g \in Nat /\ g \in 1..N /\ n + off = N
  BY <1>0, <1>1, <1>2
<1> HIDE DEF n, off, g
<1>6. \A k \in i..n : k + off \in g..N /\ t[k].id = k + off
  <2> SUFFICES ASSUME NEW k \in i..n PROVE k + off \in g..N /\ t[k].id = k + off
    OBVIOUS
  <2>1. k + off \in g..N /\ k + off \in 1..N
    BY <1>0, <1>5 DEF g
  <2> QED
    BY <1>2, <1>3, <2>1
<1>7. ids = g..N
  <2>1. Haz!Deleted(t, i) = i..n
    BY DEF Haz!Deleted, n
  <2>2. \A f \in g..N : f - off \in i..n /\ (f - off) + off = f
    BY <1>0, <1>5 DEF g
  <2>3. ASSUME NEW f \in g..N PROVE f \in ids
    <3>1. f - off \in i..n /\ t[f - off].id = f
      BY <1>6, <2>2
    <3> QED
      BY <2>1, <3>1
  <2>4. ASSUME NEW f \in ids PROVE f \in g..N
    BY <1>6, <2>1
  <2> QED
    BY <2>3, <2>4
<1>8. /\ c \in 1..(n - i + 1) /\ Haz!Branch(t, i) = i..(i + c - 1)
      /\ u \in Seq(Filters) /\ Len(u) = n - c
      /\ \A k \in 1..(n - c) : u[k] = IF k < i THEN t[k] ELSE t[k + c]
  <2>1. i \in 1..Len(t)
    BY <1>5 DEF n
  <2> HIDE DEF c, u
  <2>2. /\ c \in 1..(Len(t) - i + 1) /\ Haz!Branch(t, i) = i..(i + c - 1)
        /\ u \in Seq(Filters) /\ Len(u) = Len(t) - c
        /\ \A k \in 1..(Len(t) - c) : u[k] = IF k < i THEN t[k] ELSE t[k + c]
    BY <1>2, <2>1, BranchErased DEF c, u
  <2> QED
    BY <2>2 DEF n
<1> HIDE DEF ids, c, u
<1>9. /\ freed \in [1..N -> Nat] /\ \A f \in 1..N : freed[f] = IF f \in g..N THEN now.freed[f] + 1 ELSE now.freed[f]
  <2>1. \A f \in 1..N : now.freed[f] \in Nat /\ now.freed[f] + 1 \in Nat
    BY <1>2
  <2> QED
    BY <1>2, <1>7, <2>1
<1> HIDE DEF freed
<1>10. /\ DOMAIN now' = HazFields /\ now'.loaded = l /\ now'.tree = u /\ now'.freed = freed /\ now'.at = i
       /\ now'.phase = "strip"
  BY <1>1, <1>2 DEF HazFields, l, i
<1> HIDE DEF r
\* Where a filter is in the tree.
<1>11. /\ DOMAIN t = 1..n /\ DOMAIN u = 1..(n - c)
       /\ \A f \in 1..N : f \in Haz!Ids(t) <=> \E k \in 1..n : t[k].id = f
       /\ \A f \in 1..N : f \in Haz!Ids(u) <=> \E k \in 1..(n - c) : u[k].id = f
  <2>1. DOMAIN t = 1..n /\ DOMAIN u = 1..(n - c)
    BY <1>2, <1>5, <1>8 DEF n
  <2> QED
    BY <2>1 DEF Haz!Ids
<1>12. \A k \in 1..(n - c) : /\ k < i => u[k] = t[k] /\ k \in 1..n
                             /\ ~(k < i) => u[k] = t[k + c] /\ k + c \in i..n /\ k + c \in 1..n
  BY <1>5, <1>8
\* The tree is that of the file as before.
<1>13. HazType(now')
  <2>1. Len(u) \in 0..N /\ i \in 1..(Len(u) + 1)
    BY <1>0, <1>2, <1>5, <1>8
  <2> QED
    BY <1>2, <1>8, <1>9, <1>10, <2>1 DEF HazType, N
<1>14. TreeIsOfFile(now')
  <2> DEFINE off2 == N - Len(u)
  <2>0. off2 = off + c
    BY <1>0, <1>5, <1>8
  <2>1. ASSUME NEW k \in i..Len(u) PROVE u[k] = l[k + off2]
    <3>1. k \in 1..(n - c) /\ ~(k < i) /\ (k + c) + off = k + off2
      BY <1>5, <1>8, <2>0
    <3> QED
      BY <1>3, <1>12, <3>1 DEF off, n
  <2>2. ASSUME NEW k \in 1..Len(u), k < i
        PROVE  /\ u[k].id \in 1..(i + off2 - 1) /\ u[k].id \in 1..N
               /\ u[k] = l[u[k].id] /\ (u[k].haz => freed[u[k].id] > 0)
    <3>1. u[k] = t[k] /\ k \in 1..n
      BY <1>8, <1>12, <2>2
    <3>2. /\ t[k].id \in 1..(i + off - 1) /\ t[k].id \in 1..N
          /\ t[k] = l[t[k].id] /\ (t[k].haz => now.freed[t[k].id] > 0)
      BY <1>3, <2>2, <3>1 DEF n, off
    <3>3. t[k].id \in 1..(i + off2 - 1)
      BY <1>5, <1>8, <2>0, <3>2
    <3>4. t[k].haz => freed[t[k].id] > 0
      <4> DEFINE f == t[k].id
      <4>1. f \in 1..N /\ now.freed[f] \in Nat /\ freed[f] = IF f \in g..N THEN now.freed[f] + 1 ELSE now.freed[f]
        BY <1>2, <1>9, <3>2
      <4>2. t[k].haz => now.freed[f] > 0
        BY <3>2
      <4> HIDE DEF f
      <4>3. now.freed[f] > 0 => freed[f] > 0
        BY <4>1
      <4> QED
        BY <4>2, <4>3 DEF f
    <3> QED
      BY <3>1, <3>2, <3>3, <3>4
  <2> QED
    BY <1>10, <2>1, <2>2 DEF TreeIsOfFile, N
\* Why the filter went: it is hazardous, or behind the branch of one that is.
<1>15. l[g].haz \/ \E h \in 1..(g - 1) : l[h].haz /\ g \notin Haz!Branch(l, h)
  <2>1. t[i].id = g /\ t[i] = l[g]
    BY <1>3, <1>5, <1>6 DEF g
  <2>2. CASE now.freed[g] = 0
    <3>1. Haz!Answers(t[i]) = {t[i].haz}
      BY <2>1, <2>2 DEF Haz!Answers
    <3> QED
      BY <1>1, <2>1, <3>1
  <2>3. CASE now.freed[g] # 0
    <3>1. now.freed[g] > 0
      <4>1. now.freed[g] \in Nat
        BY <1>2, <1>5
      <4> QED
        BY <2>3, <4>1
    <3>2. g \in Haz!Ids(t)
      BY <1>5, <1>11, <2>1
    <3> QED
      BY <1>4, <1>5, <3>1, <3>2
  <2> QED
    BY <2>2, <2>3
<1>16. ASSUME NEW f \in 1..N, \A h \in 1..f : ~l[h].haz PROVE f \in Haz!Ids(u) /\ freed[f] = 0
  <2>1. f \in Haz!Ids(t) /\ now.freed[f] = 0
    BY <1>4, <1>16
  <2>2. f < g
    <3> SUFFICES ASSUME ~(f < g) PROVE FALSE
      OBVIOUS
    <3>1. g \in 1..f /\ \A h \in 1..(g - 1) : h \in 1..f
      BY <1>5
    <3> QED
      BY <1>15, <1>16, <3>1
  <2>3. PICK k \in 1..n : t[k].id = f
    BY <1>11, <2>1
  <2>4. k < i
    <3> SUFFICES ASSUME ~(k < i) PROVE FALSE
      OBVIOUS
    <3>1. k \in i..n
      BY <1>5
    <3>2. f \in g..N
      BY <1>6, <2>3, <3>1
    <3> QED
      BY <1>5, <2>2, <3>2
  <2>5. k \in 1..(n - c) /\ u[k] = t[k]
    BY <1>5, <1>8, <2>4
  <2>6. f \in Haz!Ids(u)
    BY <1>11, <2>3, <2>5
  <2>7. f \notin g..N
    BY <1>5, <2>2
  <2> QED
    BY <1>9, <2>1, <2>6, <2>7
<1>17. ASSUME NEW f \in 1..N, f \notin Haz!Ids(u) PROVE freed[f] > 0
  <2>1. now.freed[f] \in Nat
    BY <1>2
  <2>2. CASE f \in g..N
    BY <1>9, <2>1, <2>2
  <2>3. CASE f \notin g..N
    <3>1. f \notin Haz!Ids(t)
      <4> SUFFICES ASSUME f \in Haz!Ids(t) PROVE FALSE
        OBVIOUS
      <4>1. PICK k \in 1..n : t[k].id = f
        BY <1>11
      <4>2. k < i
        <5> SUFFICES ASSUME ~(k < i) PROVE FALSE
          OBVIOUS
        <5>1. k \in i..n
          BY <1>5
        <5> QED
          BY <1>6, <2>3, <4>1, <5>1
      <4>3. k \in 1..(n - c) /\ u[k] = t[k]
        BY <1>5, <1>8, <4>2
      <4> QED
        BY <1>11, <1>17, <4>1, <4>3
    <3> QED
      BY <1>4, <1>9, <2>3, <3>1
  <2> QED
    BY <2>2, <2>3
<1>18. \A f \in Haz!Ids(u) : f \in Haz!Ids(t)
  BY <1>11, <1>12 DEF Haz!Ids
<1>19. ASSUME NEW f \in 1..N, (f \in Haz!Ids(u) /\ freed[f] > 0) \/ freed[f] > 1
       PROVE  \E h \in 1..(f - 1) : l[h].haz /\ f \notin Haz!Branch(l, h)
  <2>1. now.freed[f] \in Nat
    BY <1>2
  <2>2. CASE f \notin g..N
    <3>1. freed[f] = now.freed[f]
      BY <1>9, <2>2
    <3> QED
      BY <1>4, <1>18, <1>19, <3>1
  <2>3. CASE f \in g..N /\ now.freed[f] > 0
    <3>1. f - off \in i..n /\ (f - off) + off = f /\ f - off \in 1..n
      BY <1>0, <1>5, <2>3 DEF g
    <3>2. f \in Haz!Ids(t)
      BY <1>6, <1>11, <3>1
    <3> QED
      BY <1>4, <2>3, <3>2
  <2>4. CASE f \in g..N /\ now.freed[f] = 0
    <3>1. freed[f] = 1
      BY <1>9, <2>4
    <3>2. PICK k \in 1..(n - c) : u[k].id = f
      BY <1>11, <1>19, <3>1
    <3>3. ~(k < i)
      <4> SUFFICES ASSUME k < i PROVE FALSE
        OBVIOUS
      <4>1. t[k].id = f /\ k \in 1..n
        BY <1>12, <3>2
      <4>2. f \in 1..(i + off - 1)
        BY <1>3, <4>1 DEF n, off
      <4> QED
        BY <1>5, <2>4, <4>2 DEF g
    <3>4. k + c \in i..n /\ t[k + c].id = f
      BY <1>12, <3>2, <3>3
    <3>5. f = (k + c) + off
      BY <1>6, <3>4
    <3>6. k + c \notin Haz!Branch(t, i)
      BY <1>5, <1>8, <3>3
    <3>7. f \notin Haz!Branch(l, g)
      <4>1. /\ i \in 1..Len(t) /\ k + c \in i..Len(t) /\ off \in Nat
            /\ \A m \in i..Len(t) : t[m] = l[m + off]
        BY <1>3, <1>5, <3>4 DEF n, off
      <4>2. (k + c) + off \notin Haz!Branch(l, i + off)
        BY <1>2, <3>6, <4>1, BranchOfFile
      <4> QED
        BY <3>5, <4>2 DEF g
    <3>8. g < f /\ f <= N
      BY <1>5, <1>8, <3>3, <3>5 DEF g
    <3>9. CASE l[g].haz
      <4>1. g \in 1..(f - 1)
        BY <1>5, <3>8
      <4> QED
        BY <3>7, <3>9, <4>1
    <3>10. CASE \E h \in 1..(g - 1) : l[h].haz /\ g \notin Haz!Branch(l, h)
      <4>1. PICK h \in 1..(g - 1) : l[h].haz /\ g \notin Haz!Branch(l, h)
        BY <3>10
      <4>2. h \in Nat /\ h < g /\ h \in 1..(f - 1) /\ f \in Nat
        BY <1>5, <3>8
      <4>3. f \notin Haz!Branch(l, h)
        BY <1>0, <1>2, <1>5, <3>8, <4>1, <4>2, BehindStays
      <4> QED
        BY <4>1, <4>2, <4>3
    <3> QED
      BY <1>15, <3>9, <3>10
  <2> QED
    BY <2>1, <2>2, <2>3, <2>4
<1>20. FreedAsTold(now')
  BY <1>10, <1>16, <1>17, <1>19 DEF FreedAsTold, N
<1> QED
  BY <1>10, <1>13, <1>14, <1>20 DEF HazInv

\* A filter that is not taken for hazardous is passed over.
LEMMA StepOverHolds ==
    ASSUME HazInv, Haz!StepOver
    PROVE  HazInv'
<1> DEFINE N == Haz!Size
           t == now.tree
           l == now.loaded
           i == now.at
           n == Len(t)
           off == N - n
<1>0. N \in Nat
  BY DEF Haz!Size
<1>1. now.phase = "strip" /\ i <= n /\ FALSE \in Haz!Answers(t[i]) /\ now' = [now EXCEPT !.at = @ + 1]
  BY DEF Haz!StepOver, Haz!Becomes
<1>2. /\ DOMAIN now = HazFields /\ l \in Seq(Filters) /\ Len(l) = N /\ \A k \in 1..N : l[k].id = k
      /\ t \in Seq(Filters) /\ n \in 0..N /\ i \in 1..(n + 1) /\ now.freed \in [1..N -> Nat]
  BY DEF HazInv, HazType
<1>3. /\ \A k \in i..n : t[k] = l[k + off]
      /\ \A k \in 1..n :
           k < i => /\ t[k].id \in 1..(i + off - 1) /\ t[k].id \in 1..N
                    /\ t[k] = l[t[k].id]
                    /\ t[k].haz => now.freed[t[k].id] > 0
  BY DEF HazInv, TreeIsOfFile
<1>4. FreedAsTold(now)
  BY DEF HazInv
<1>5. /\ DOMAIN now' = HazFields /\ now'.loaded = l /\ now'.tree = t /\ now'.freed = now.freed /\ now'.at = i + 1
      /\ now'.phase = "strip"
  BY <1>1, <1>2 DEF HazFields
<1> HIDE DEF N, t, l, i
<1>6. /\ i \in 1..n /\ n \in Nat /\ i \in Nat /\ off \in Nat /\ i + off \in 1..N
  BY <1>0, <1>1, <1>2
<1> HIDE DEF n, off
<1>7. HazType(now')
  <2>1. i + 1 \in 1..(n + 1)
    BY <1>6
  <2> QED
    BY <1>2, <1>5, <2>1 DEF HazType, N, n
<1>8. t[i] = l[i + off] /\ t[i].id = i + off
  BY <1>2, <1>3, <1>6
<1>9. t[i].haz => now.freed[i + off] > 0
  <2>1. now.freed[i + off] \in Nat
    BY <1>2, <1>6
  <2>2. now.freed[i + off] = 0 => Haz!Answers(t[i]) = {t[i].haz}
    BY <1>8 DEF Haz!Answers
  <2>3. now.freed[i + off] = 0 => ~t[i].haz
    BY <1>1, <2>2
  <2>4. now.freed[i + off] # 0 => now.freed[i + off] > 0
    BY <2>1
  <2> QED
    BY <2>3, <2>4
<1>10. ASSUME NEW k \in (i + 1)..n PROVE t[k] = l[k + off]
  <2>1. k \in i..n
    BY <1>6
  <2> QED
    BY <1>3, <2>1
<1>11. ASSUME NEW k \in 1..n, k < i + 1
       PROVE  /\ t[k].id \in 1..(i + 1 + off - 1) /\ t[k].id \in 1..N
              /\ t[k] = l[t[k].id] /\ (t[k].haz => now.freed[t[k].id] > 0)
  <2>1. CASE k = i
    <3>1. i + off \in 1..(i + 1 + off - 1)
      BY <1>6
    <3> QED
      BY <1>6, <1>8, <1>9, <2>1, <3>1
  <2>2. CASE k < i
    <3>1. /\ t[k].id \in 1..(i + off - 1) /\ t[k].id \in 1..N
          /\ t[k] = l[t[k].id] /\ (t[k].haz => now.freed[t[k].id] > 0)
      BY <1>3, <2>2
    <3>2. t[k].id \in 1..(i + 1 + off - 1)
      BY <1>6, <3>1
    <3> QED
      BY <3>1, <3>2
  <2> QED
    BY <1>6, <1>11, <2>1, <2>2
<1>12. TreeIsOfFile(now')
  BY <1>5, <1>10, <1>11 DEF TreeIsOfFile, N, n, off
<1>13. FreedAsTold(now')
  BY <1>4, <1>5 DEF FreedAsTold, t, l
<1> QED
  BY <1>5, <1>7, <1>12, <1>13 DEF HazInv

\* Every step of the question and the strip.
LEMMA HazStep == HazInv /\ Haz!Next => HazInv'
<1> SUFFICES ASSUME HazInv, Haz!Next PROVE HazInv'
  OBVIOUS
<1>1. ASSUME NEW p, now' = [now EXCEPT !.phase = p], p = "stripped" => now.at > Len(now.tree)
      PROVE  HazInv'
  <2>1. DOMAIN now = HazFields /\ HazType(now) /\ TreeIsOfFile(now) /\ FreedAsTold(now)
    BY DEF HazInv, HazType
  <2>2. /\ DOMAIN now' = HazFields /\ now'.phase = p
        /\ now'.loaded = now.loaded /\ now'.tree = now.tree /\ now'.freed = now.freed /\ now'.at = now.at
    BY <1>1, <2>1 DEF HazFields
  <2>3. HazType(now')
    BY <2>1, <2>2 DEF HazType
  <2>4. TreeIsOfFile(now')
    BY <2>1, <2>2 DEF TreeIsOfFile
  <2>5. FreedAsTold(now')
    BY <2>1, <2>2 DEF FreedAsTold
  <2> QED
    BY <1>1, <2>2, <2>3, <2>4, <2>5 DEF HazInv
<1>2. CASE Haz!Keep
  BY <1>1, <1>2 DEF Haz!Keep, Haz!Becomes
<1>3. CASE Haz!Strip
  BY <1>1, <1>3 DEF Haz!Strip, Haz!Becomes
<1>4. CASE Haz!StripEnds
  BY <1>1, <1>4 DEF Haz!StripEnds, Haz!Becomes
<1> QED
  BY <1>2, <1>3, <1>4, StripBranchHolds, StepOverHolds DEF Haz!Next

\* What the theme asks of what was stripped.
LEMMA HazKeeps == HazInv => Haz!StripIsBounded
<1> SUFFICES ASSUME HazInv, NEW f \in 1..Haz!Size
             PROVE  LET inTree == f \in Haz!Ids(now.tree)  freed == now.freed[f]
                    IN  /\ ~inTree => freed > 0
                        /\ now.phase = "stripped" /\ now.loaded[f].haz => freed > 0
                        /\ (\A h \in 1..f : ~now.loaded[h].haz) => inTree /\ freed = 0
                        /\ (inTree /\ freed > 0) \/ freed > 1 => Haz!Behind(f)
  BY DEF Haz!StripIsBounded
<1>1. /\ (\A h \in 1..f : ~now.loaded[h].haz) => f \in Haz!Ids(now.tree) /\ now.freed[f] = 0
      /\ f \notin Haz!Ids(now.tree) => now.freed[f] > 0
      /\ (f \in Haz!Ids(now.tree) /\ now.freed[f] > 0) \/ now.freed[f] > 1 => Haz!Behind(f)
  BY DEF HazInv, FreedAsTold, Haz!Behind
<1>2. ASSUME now.phase = "stripped", now.loaded[f].haz, f \in Haz!Ids(now.tree) PROVE now.freed[f] > 0
  <2>1. PICK k \in 1..Len(now.tree) : now.tree[k].id = f
    BY <1>2 DEF HazInv, HazType, Haz!Ids
  <2>2. k < now.at
    BY <1>2 DEF HazInv, HazType
  <2> QED
    BY <1>2, <2>1, <2>2 DEF HazInv, TreeIsOfFile
<1> QED
  BY <1>1, <1>2

-----------------------------------------------------------------------------
(* Plots *)

\* The members of the plots' state.
PlotFields == {"made", "who", "marks", "cache", "plots", "selected", "changed", "image", "refreshing",
               "limit", "updates", "missed", "drag", "zoom", "want"}
PlotShape == {"src", "who", "marks", "visible"}
\* What the list selects and the pane has painted.
PlotsShown(s) ==
    /\ s.selected = Plot!Visible(s)
    /\ \A i \in DOMAIN s.plots : DOMAIN s.plots[i] = PlotShape
    /\ s.changed \/ s.image = Plot!Drawn(s)
\* The ranges, as the spectrum has them in its cache and in its plot.
RangesFollow(s) ==
    s.updates \/ s.missed \/
        /\ s.cache \in {Plot!NoCache, s.marks}
        /\ s.refreshing \/ \A i \in DOMAIN s.plots : s.plots[i].src = Plot!Spectrum => s.plots[i].marks = s.marks
\* The zoom: of the vertical axis it is always what was asked for, of the
\* horizontal one unless that was the lower half.
ZoomFollows(s) ==
    /\ s.zoom \in [on : BOOLEAN, x : Plot!XExtents, y : Plot!YExtents]
    /\ s.want \in [on : BOOLEAN, x : Plot!XExtents, y : Plot!YExtents]
    /\ s.zoom.y = s.want.y
    /\ s.want.x # "low" => s.zoom.x = s.want.x
    /\ ~s.zoom.on => s.zoom.x = "all" /\ s.zoom.y = "all"
\* The inductive invariant of Plots.
PlotInv ==
    /\ DOMAIN now = PlotFields /\ now.drag \in {Plot!NoDrag, "region", "zoom", "pan"}
    /\ PlotsShown(now) /\ RangesFollow(now) /\ ZoomFollows(now)

\* What is visible, and drawn, is a matter of the plots alone.
LEMMA SamePlots ==
    ASSUME NEW s, NEW t, s.plots = t.plots
    PROVE  Plot!Visible(s) = Plot!Visible(t) /\ Plot!Drawn(s) = Plot!Drawn(t)
<1>1. Plot!Visible(s) = Plot!Visible(t)
  BY DEF Plot!Visible
<1> QED
  BY <1>1 DEF Plot!Drawn, Plot!Mixed

\* At the start there are the plots of the first refresh.
LEMMA PlotStart == Plot!Init => PlotInv
<1> SUFFICES ASSUME Plot!Init PROVE PlotInv
  OBVIOUS
<1>1. /\ DOMAIN now = PlotFields /\ now.drag = Plot!NoDrag /\ now.plots = <<>> /\ now.selected = {} /\ now.changed
      /\ now.cache = Plot!NoCache /\ now.zoom = Plot!NoZoom /\ now.want = Plot!NoZoom
  BY DEF Plot!Init, PlotFields
<1>2. DOMAIN now.plots = {}
  BY <1>1
<1>3. PlotsShown(now)
  BY <1>1, <1>2 DEF PlotsShown, Plot!Visible
<1>4. RangesFollow(now)
  BY <1>1, <1>2 DEF RangesFollow
<1>5. ZoomFollows(now)
  BY <1>1 DEF ZoomFollows, Plot!NoZoom, Plot!XExtents, Plot!YExtents
<1> QED
  BY <1>1, <1>3, <1>4, <1>5 DEF PlotInv

\* The plots are made anew, the list with them, and so is the cache.
LEMMA PlotFinishHolds == ASSUME PlotInv, Plot!Finish PROVE PlotInv'
<1> DEFINE s == Plot!Refreshed(now)
           only(f) == IF f \in s.made THEN <<f>> ELSE <<>>
           q == only(Plot!Other) \o only(Plot!Spectrum)
           r == [s EXCEPT !.plots = Plot!NewPlots(s), !.changed = TRUE]
           new == [i \in 1..Len(q) |->
                     [src |-> q[i], who |-> s.who, marks |-> IF q[i] = Plot!Spectrum THEN s.cache ELSE 0,
                      visible |-> Len(q) = 1 \/ Plot!WasVisible(q[i], s.who)]]
<1>1. /\ DOMAIN s = PlotFields /\ \A f \in PlotFields \ {"cache"} : s[f] = now[f]
      /\ s.cache = IF Plot!Spectrum \in now.made /\ now.cache = Plot!NoCache THEN now.marks ELSE now.cache
  BY DEF PlotInv, Plot!Refreshed, PlotFields
<1>2. Plot!NewPlots(s) = new
  BY DEF Plot!NewPlots
<1>3. now' = [[r EXCEPT !.selected = Plot!Visible(r)] EXCEPT !.refreshing = FALSE, !.limit = FALSE]
  BY DEF Plot!Finish, Plot!UpdateScene, Plot!Becomes
<1> HIDE DEF s
<1>4. \A i \in 1..Len(q) : q[i] = Plot!Spectrum => Plot!Spectrum \in s.made
  <2>1. CASE Plot!Spectrum \in s.made
    BY <2>1
  <2>2. CASE Plot!Spectrum \notin s.made /\ Plot!Other \in s.made
    <3>1. q = <<Plot!Other>>
      BY <2>2
    <3> QED
      BY <3>1 DEF Plot!Other, Plot!Spectrum
  <2>3. CASE Plot!Spectrum \notin s.made /\ Plot!Other \notin s.made
    <3>1. q = <<>>
      BY <2>3
    <3> QED
      BY <3>1
  <2> QED
    BY <2>1, <2>2, <2>3
<1> HIDE DEF q
<1>5. DOMAIN r = PlotFields /\ r.plots = new /\ \A f \in PlotFields \ {"plots", "changed"} : r[f] = s[f]
  BY <1>1, <1>2 DEF PlotFields
<1> HIDE DEF r
<1>6. /\ DOMAIN now' = PlotFields /\ now'.plots = new /\ now'.selected = Plot!Visible(r) /\ now'.cache = s.cache
      /\ \A f \in PlotFields \ {"plots", "changed", "selected", "refreshing", "limit", "cache"} : now'[f] = now[f]
  BY <1>1, <1>3, <1>5 DEF PlotFields
<1>a. now'.changed
  BY <1>1, <1>2, <1>3 DEF PlotFields, r
<1>7. \A i \in DOMAIN new : DOMAIN new[i] = PlotShape /\ new[i].src = q[i] /\ (q[i] = Plot!Spectrum => new[i].marks = s.cache)
  BY DEF PlotShape
<1>8. DOMAIN new = 1..Len(q)
  OBVIOUS
<1> HIDE DEF new
<1>9. PlotsShown(now')
  BY <1>5, <1>6, <1>7, <1>a, SamePlots DEF PlotsShown
<1>10. RangesFollow(now')
  <2>1. CASE now.updates \/ now.missed
    BY <1>6, <2>1 DEF RangesFollow, PlotFields
  <2>2. CASE ~(now.updates \/ now.missed)
    <3>1. now.cache \in {Plot!NoCache, now.marks}
      BY <2>2 DEF PlotInv, RangesFollow
    <3>2. s.cache \in {Plot!NoCache, now.marks} /\ (Plot!Spectrum \in s.made => s.cache = now.marks)
      BY <1>1, <3>1 DEF PlotFields
    <3>3. \A i \in DOMAIN new : new[i].src = Plot!Spectrum => new[i].marks = now.marks
      BY <1>4, <1>7, <1>8, <3>2
    <3> QED
      BY <1>6, <3>2, <3>3 DEF RangesFollow, PlotFields
  <2> QED
    BY <2>1, <2>2
<1>11. now'.zoom = now.zoom /\ now'.want = now.want /\ now'.drag = now.drag
  BY <1>6 DEF PlotFields
<1> QED
  BY <1>6, <1>9, <1>10, <1>11 DEF PlotInv, ZoomFollows

\* Refreshes begin; the list is used; the image is painted.
LEMMA PlotOthersHold ==
    ASSUME PlotInv, (\E m \in SUBSET Plot!Sources : Plot!Begin(m)) \/ Plot!UndoRedo \/ Plot!Timer \/ Plot!Render
                    \/ \E sel \in SUBSET (DOMAIN now.plots) : Plot!OnSpectraListbox(sel)
    PROVE  PlotInv'
<1>0. /\ DOMAIN now = PlotFields /\ now.drag \in {Plot!NoDrag, "region", "zoom", "pan"}
      /\ PlotsShown(now) /\ RangesFollow(now) /\ ZoomFollows(now)
  BY DEF PlotInv
<1>1. CASE (\E m \in SUBSET Plot!Sources : Plot!Begin(m)) \/ Plot!UndoRedo \/ Plot!Timer
  <2>1. /\ DOMAIN now' = PlotFields /\ now'.cache \in {now.cache, Plot!NoCache}
        /\ (now'.refreshing \/ now'.missed) /\ (now.missed => now'.missed \/ now'.cache = Plot!NoCache)
        /\ (now.updates => now'.updates \/ now'.missed \/ now'.cache = Plot!NoCache)
        /\ \A f \in PlotFields \ {"made", "refreshing", "limit", "who", "cache", "updates", "missed"} : now'[f] = now[f]
    BY <1>0, <1>1 DEF Plot!Begin, Plot!UndoRedo, Plot!Timer, Plot!Becomes, PlotFields
  <2>2. /\ now'.plots = now.plots /\ now'.selected = now.selected /\ now'.changed = now.changed
        /\ now'.image = now.image /\ now'.marks = now.marks /\ now'.zoom = now.zoom /\ now'.want = now.want
        /\ now'.drag = now.drag
    BY <2>1 DEF PlotFields
  <2>3. PlotsShown(now')
    BY <1>0, <2>2, SamePlots DEF PlotsShown
  <2>4. RangesFollow(now')
    BY <1>0, <2>1, <2>2 DEF RangesFollow
  <2> QED
    BY <1>0, <2>1, <2>2, <2>3, <2>4 DEF PlotInv, ZoomFollows
<1>2. CASE Plot!Render
  <2>1. /\ DOMAIN now' = PlotFields /\ now'.image = Plot!Drawn(now)
        /\ \A f \in PlotFields \ {"image", "changed"} : now'[f] = now[f]
    BY <1>0, <1>2 DEF Plot!Render, Plot!Becomes, PlotFields
  <2>2. now'.plots = now.plots
    BY <2>1 DEF PlotFields
  <2>3. PlotsShown(now')
    BY <1>0, <2>1, <2>2, SamePlots DEF PlotsShown, PlotFields
  <2> QED
    BY <1>0, <2>1, <2>3 DEF PlotInv, RangesFollow, ZoomFollows, PlotFields
<1>3. ASSUME NEW sel \in SUBSET (DOMAIN now.plots), Plot!OnSpectraListbox(sel) PROVE PlotInv'
  <2> DEFINE q == now.plots
             w == [i \in DOMAIN q |-> [q[i] EXCEPT !.visible = i \in sel]]
  <2>1. /\ DOMAIN now' = PlotFields /\ now'.plots = w /\ now'.selected = sel /\ now'.changed
        /\ \A f \in PlotFields \ {"plots", "selected", "changed"} : now'[f] = now[f]
    BY <1>0, <1>3 DEF Plot!OnSpectraListbox, Plot!Becomes, PlotFields
  <2>2. \A i \in DOMAIN q : DOMAIN q[i] = PlotShape
    BY <1>0 DEF PlotsShown
  <2> HIDE DEF q
  <2>3. /\ DOMAIN w = DOMAIN q /\ sel \subseteq DOMAIN q
        /\ \A i \in DOMAIN q : /\ DOMAIN w[i] = PlotShape /\ (w[i].visible = (i \in sel))
                               /\ w[i].src = q[i].src /\ w[i].marks = q[i].marks
    BY <2>2 DEF PlotShape, q
  <2> HIDE DEF w
  <2>4. PlotsShown(now')
    BY <2>1, <2>3 DEF PlotsShown, Plot!Visible
  <2>5. RangesFollow(now')
    BY <1>0, <2>1, <2>3 DEF RangesFollow, PlotFields, q
  <2> QED
    BY <1>0, <2>1, <2>4, <2>5 DEF PlotInv, ZoomFollows, PlotFields
<1> QED
  BY <1>1, <1>2, <1>3

\* The mouse leaves the plots alone; where it zooms, they are painted again.
LEMMA MouseHolds ==
    ASSUME PlotInv, NEW x \in Plot!XExtents, NEW y \in Plot!YExtents, NEW m \in Plot!Marks, NEW b \in BOOLEAN,
           (\E d \in {"region", "zoom", "pan"} : Plot!MouseDown(d)) \/ Plot!MouseMoved(b) \/ Plot!MouseReleased(m, x, y)
           \/ Plot!MouseWheel(x, y) \/ Plot!Pan(x)
    PROVE  PlotInv'
<1>0. /\ DOMAIN now = PlotFields /\ now.drag \in {Plot!NoDrag, "region", "zoom", "pan"}
      /\ PlotsShown(now) /\ RangesFollow(now) /\ ZoomFollows(now)
  BY DEF PlotInv
<1>1. ASSUME now' = now \/ \E d \in {Plot!NoDrag, "region", "zoom", "pan"} : now' = [now EXCEPT !.drag = d]
      PROVE  PlotInv'
  <2>1. /\ DOMAIN now' = PlotFields /\ now'.drag \in {Plot!NoDrag, "region", "zoom", "pan"}
        /\ \A f \in PlotFields \ {"drag"} : now'[f] = now[f]
    BY <1>0, <1>1 DEF PlotFields
  <2>2. PlotsShown(now')
    BY <1>0, <2>1, SamePlots DEF PlotsShown, PlotFields
  <2> QED
    BY <1>0, <2>1, <2>2 DEF PlotInv, RangesFollow, ZoomFollows, PlotFields
<1>2. ASSUME NEW s, NEW u \in Plot!XExtents, NEW v \in Plot!YExtents, now' = Plot!Bounded(s, u, v), DOMAIN s = PlotFields,
             s.drag \in {Plot!NoDrag, "pan"}, \A f \in PlotFields \ {"drag"} : s[f] = now[f]
      PROVE  PlotInv'
  <2> DEFINE z == [on |-> TRUE, x |-> u, y |-> v]
  <2>1. /\ DOMAIN now' = PlotFields /\ now'.drag \in {Plot!NoDrag, "pan"} /\ now'.zoom = z
           /\ now'.want = z /\ now'.changed
        /\ \A f \in PlotFields \ {"drag", "zoom", "want", "changed"} : now'[f] = now[f]
    BY <1>2 DEF Plot!Bounded, PlotFields
  <2>2. ZoomFollows(now')
    BY <2>1 DEF ZoomFollows
  <2>3. PlotsShown(now')
    BY <1>0, <2>1, SamePlots DEF PlotsShown, PlotFields
  <2> QED
    BY <1>0, <2>1, <2>2, <2>3 DEF PlotInv, RangesFollow, PlotFields
<1>3. CASE \E d \in {"region", "zoom", "pan"} : Plot!MouseDown(d)
  BY <1>1, <1>3 DEF Plot!MouseDown, Plot!Becomes
<1>4. CASE Plot!MouseMoved(b)
  BY <1>1, <1>4 DEF Plot!MouseMoved, Plot!Becomes
<1>5. CASE Plot!MouseWheel(x, y)
  BY <1>0, <1>2, <1>5 DEF Plot!MouseWheel, Plot!Becomes
<1>6. CASE Plot!Pan(x)
  <2>1. now.zoom.y \in Plot!YExtents
    BY <1>0 DEF ZoomFollows
  <2> QED
    BY <1>0, <1>2, <1>6, <2>1 DEF Plot!Pan, Plot!Becomes
<1>7. CASE Plot!MouseReleased(m, x, y)
  <2> DEFINE s == [now EXCEPT !.drag = Plot!NoDrag]
  <2>1. DOMAIN s = PlotFields /\ s.drag = Plot!NoDrag /\ \A f \in PlotFields \ {"drag"} : s[f] = now[f]
    BY <1>0 DEF PlotFields
  <2>2. now.drag # Plot!NoDrag
    BY <1>7 DEF Plot!MouseReleased
  <2>3. CASE now.drag = "region"
    <3>1. now' = s \/ now' = Plot!RegionMoved(s, m)
      BY <1>7, <2>3 DEF Plot!MouseReleased, Plot!Becomes
    <3>2. CASE now' = Plot!RegionMoved(s, m)
      <4>1. /\ DOMAIN now' = PlotFields /\ now'.drag = Plot!NoDrag /\ now'.updates
            /\ \A f \in PlotFields \ {"drag", "updates", "marks"} : now'[f] = now[f]
        BY <2>1, <3>2 DEF Plot!RegionMoved, PlotFields
      <4>2. PlotsShown(now')
        BY <1>0, <4>1, SamePlots DEF PlotsShown, PlotFields
      <4> QED
        BY <1>0, <4>1, <4>2 DEF PlotInv, RangesFollow, ZoomFollows, PlotFields
    <3> QED
      BY <1>1, <3>1, <3>2
  <2>4. CASE now.drag = "zoom"
    <3>1. now' = s \/ now' = Plot!Bounded(s, x, y)
      BY <1>7, <2>4 DEF Plot!MouseReleased, Plot!Becomes
    <3>2. CASE now' = s
      BY <1>1, <3>2
    <3>3. CASE now' = Plot!Bounded(s, x, y)
      <4> HIDE DEF s
      <4> QED
        BY <1>2, <2>1, <3>3
    <3> QED
      BY <3>1, <3>2, <3>3
  <2>5. CASE now.drag = "pan"
    <3>1. now' = s
      BY <1>7, <2>5 DEF Plot!MouseReleased, Plot!Becomes
    <3> QED
      BY <1>1, <3>1
  <2> QED
    BY <1>0, <2>2, <2>3, <2>4, <2>5
<1> QED
  BY <1>3, <1>4, <1>5, <1>6, <1>7

\* A zoom is let go, along one axis or both.
LEMMA DoubleClickHolds ==
    ASSUME PlotInv, NEW a \in {"x", "y", "both"}, Plot!DoubleClick(a)
    PROVE  PlotInv'
<1>0. /\ DOMAIN now = PlotFields /\ PlotsShown(now) /\ RangesFollow(now) /\ ZoomFollows(now)
  BY DEF PlotInv
<1> DEFINE s == [now EXCEPT !.drag = Plot!NoDrag]
           z == [now.zoom EXCEPT ![a] = "all"]
           keep == z.on /\ (z.x = "high" \/ z.y = "high")
<1>1. CASE a = "both"
  <2>1. /\ DOMAIN now' = PlotFields /\ now'.drag = Plot!NoDrag /\ now'.zoom = Plot!NoZoom
           /\ now'.want = Plot!NoZoom /\ now'.changed
        /\ \A f \in PlotFields \ {"drag", "zoom", "want", "changed"} : now'[f] = now[f]
    BY <1>0, <1>1 DEF Plot!DoubleClick, Plot!Becomes, PlotFields
  <2>2. ZoomFollows(now')
    BY <2>1 DEF ZoomFollows, Plot!NoZoom, Plot!XExtents, Plot!YExtents
  <2>3. PlotsShown(now')
    BY <1>0, <2>1, SamePlots DEF PlotsShown, PlotFields
  <2> QED
    BY <1>0, <2>1, <2>2, <2>3 DEF PlotInv, RangesFollow, PlotFields
<1>2. CASE a \in {"x", "y"}
  <2>1. now' = [Plot!DisableUserAxisBounds(s, a) EXCEPT !.want = [s.want EXCEPT ![a] = "all"]]
    BY <1>2 DEF Plot!DoubleClick, Plot!Becomes
  <2>2. DOMAIN s = PlotFields /\ s.drag = Plot!NoDrag /\ \A f \in PlotFields \ {"drag"} : s[f] = now[f]
    BY <1>0 DEF PlotFields
  <2> HIDE DEF s
  <2>3. /\ DOMAIN now' = PlotFields /\ now'.drag = Plot!NoDrag
           /\ now'.zoom = (IF keep THEN z ELSE Plot!NoZoom) /\ now'.changed
        /\ now'.want = [now.want EXCEPT ![a] = "all"]
        /\ \A f \in PlotFields \ {"drag", "zoom", "want", "changed"} : now'[f] = now[f]
    BY <2>1, <2>2 DEF Plot!DisableUserAxisBounds, PlotFields
  <2> DEFINE zoom == now.zoom
             want == now.want
  <2>4. /\ zoom \in [on : BOOLEAN, x : Plot!XExtents, y : Plot!YExtents]
           /\ want \in [on : BOOLEAN, x : Plot!XExtents, y : Plot!YExtents]
        /\ zoom.y = want.y /\ (want.x # "low" => zoom.x = want.x)
        /\ (~zoom.on => zoom.x = "all" /\ zoom.y = "all")
        /\ z = [zoom EXCEPT ![a] = "all"]
        /\ now'.zoom = (IF z.on /\ (z.x = "high" \/ z.y = "high") THEN z ELSE Plot!NoZoom)
        /\ now'.want = [want EXCEPT ![a] = "all"]
    BY <1>0, <2>3 DEF ZoomFollows
  <2> HIDE DEF zoom, want, z, keep
  <2>e. /\ zoom.on \in BOOLEAN /\ zoom.x \in Plot!XExtents /\ zoom.y \in Plot!YExtents
        /\ want.on \in BOOLEAN /\ want.x \in Plot!XExtents /\ want.y \in Plot!YExtents
        /\ zoom = [on |-> zoom.on, x |-> zoom.x, y |-> zoom.y] /\ want = [on |-> want.on, x |-> want.x, y |-> want.y]
    BY <2>4
  <2>5. ASSUME a = "x" PROVE ZoomFollows(now')
    <3> DEFINE p == now'.zoom
               w == now'.want
    <3>1. z.on = zoom.on /\ z.x = "all" /\ z.y = zoom.y /\ w = [on |-> want.on, x |-> "all", y |-> want.y]
      BY <2>4, <2>5, <2>e
    <3>2. z = [on |-> zoom.on, x |-> "all", y |-> zoom.y]
      BY <2>4, <2>5, <2>e
    <3>3. /\ p \in [on : BOOLEAN, x : Plot!XExtents, y : Plot!YExtents]
          /\ p.x = "all" /\ p.y = zoom.y /\ (~p.on => p.y = "all")
      <4>1. CASE keep
        <5>1. p = z /\ z.on
          BY <2>3, <4>1 DEF keep
        <5> QED
          BY <2>e, <3>1, <3>2, <5>1 DEF Plot!XExtents
      <4>2. CASE ~keep
        <5>1. p = Plot!NoZoom /\ ~(z.on /\ (z.x = "high" \/ z.y = "high"))
          BY <2>3, <4>2 DEF keep
        <5>2. zoom.y = "all"
          BY <2>4, <2>e, <3>1, <5>1 DEF Plot!YExtents
        <5> QED
          BY <5>1, <5>2 DEF Plot!NoZoom, Plot!XExtents, Plot!YExtents
      <4> QED
        BY <4>1, <4>2
    <3>4. w \in [on : BOOLEAN, x : Plot!XExtents, y : Plot!YExtents] /\ w.x = "all" /\ w.y = want.y
      BY <2>e, <3>1 DEF Plot!XExtents
    <3> QED
      BY <2>4, <3>3, <3>4 DEF ZoomFollows
  <2>6. ASSUME a = "y" PROVE ZoomFollows(now')
    <3> DEFINE p == now'.zoom
               w == now'.want
    <3>1. z.on = zoom.on /\ z.x = zoom.x /\ z.y = "all" /\ w = [on |-> want.on, x |-> want.x, y |-> "all"]
      BY <2>4, <2>6, <2>e
    <3>2. z = [on |-> zoom.on, x |-> zoom.x, y |-> "all"]
      BY <2>4, <2>6, <2>e
    <3>3. /\ p \in [on : BOOLEAN, x : Plot!XExtents, y : Plot!YExtents]
          /\ p.y = "all" /\ (want.x # "low" => p.x = want.x) /\ (~p.on => p.x = "all")
      <4>1. CASE keep
        <5>1. p = z /\ z.on
          BY <2>3, <4>1 DEF keep
        <5> QED
          BY <2>4, <2>e, <3>1, <3>2, <5>1 DEF Plot!YExtents
      <4>2. CASE ~keep
        <5>1. p = Plot!NoZoom /\ ~(z.on /\ (z.x = "high" \/ z.y = "high"))
          BY <2>3, <4>2 DEF keep
        <5>2. want.x # "low" => want.x = "all"
          BY <2>4, <2>e, <3>1, <5>1 DEF Plot!XExtents
        <5> QED
          BY <5>1, <5>2 DEF Plot!NoZoom, Plot!XExtents, Plot!YExtents
      <4> QED
        BY <4>1, <4>2
    <3>4. w \in [on : BOOLEAN, x : Plot!XExtents, y : Plot!YExtents] /\ w.x = want.x /\ w.y = "all"
      BY <2>e, <3>1 DEF Plot!YExtents
    <3> QED
      BY <3>3, <3>4 DEF ZoomFollows
  <2>7. ZoomFollows(now')
    BY <1>2, <2>5, <2>6
  <2>8. PlotsShown(now')
    BY <1>0, <2>3, SamePlots DEF PlotsShown, PlotFields
  <2> QED
    BY <1>0, <2>3, <2>7, <2>8 DEF PlotInv, RangesFollow, PlotFields
<1> QED
  BY <1>1, <1>2

\* Every step of the plots.
LEMMA PlotStep == PlotInv /\ Plot!Next => PlotInv'
<1> SUFFICES ASSUME PlotInv, Plot!Next PROVE PlotInv'
  OBVIOUS
<1>1. "all" \in Plot!XExtents /\ "all" \in Plot!YExtents /\ 0 \in Plot!Marks
  BY DEF Plot!XExtents, Plot!YExtents, Plot!Marks
<1>2. CASE (\E d \in {"region", "zoom", "pan"} : Plot!MouseDown(d)) \/ (\E b \in BOOLEAN : Plot!MouseMoved(b))
           \/ \E x \in Plot!XExtents : Plot!Pan(x)
  BY <1>1, <1>2, MouseHolds
<1>3. CASE (\E m \in Plot!Marks, x \in Plot!XExtents, y \in Plot!YExtents : Plot!MouseReleased(m, x, y))
           \/ \E x \in Plot!XExtents, y \in Plot!YExtents : Plot!MouseWheel(x, y)
  BY <1>1, <1>3, MouseHolds
<1> QED
  BY <1>2, <1>3, PlotFinishHolds, PlotOthersHold, DoubleClickHolds DEF Plot!Next

\* What the themes ask of the plots.
LEMMA PlotKeeps == PlotInv => Plot!IndicesLive /\ Plot!ImageIsCurrent /\ Plot!RegionsAreCurrent /\ Plot!ZoomIsKept
<1> SUFFICES ASSUME PlotInv PROVE Plot!IndicesLive /\ Plot!ImageIsCurrent /\ Plot!RegionsAreCurrent /\ Plot!ZoomIsKept
  OBVIOUS
<1>1. Plot!IndicesLive /\ Plot!ImageIsCurrent
  BY DEF PlotInv, PlotsShown, Plot!IndicesLive, Plot!ImageIsCurrent, Plot!Visible
<1>2. Plot!RegionsAreCurrent
  BY DEF PlotInv, RangesFollow, Plot!RegionsAreCurrent
<1>3. Plot!ZoomIsKept
  BY DEF PlotInv, ZoomFollows, Plot!ZoomIsKept
<1> QED
  BY <1>1, <1>2, <1>3

-----------------------------------------------------------------------------
(* RangeEditor: ranges have their ions, and regions are ranges *)

\* A region of a plot, and a range not yet complete.
Region == [lo : Int, hi : Int, id : Int]
Pending == [file : 1..2, lo : Int, hi : Int, ion : Int]
\* A range file all of whose ranges are of its ions.
LiveFile(g) == g.rs \in Seq(Row) /\ \A i \in DOMAIN g.rs : g.rs[i].ion \in DOMAIN g.ions
\* Pending ranges have an ion of the file they were begun for, or none yet.
LivePending(q, files) ==
    q \in Seq(Pending) /\ \A d \in DOMAIN q : q[d].ion # Edit!Unset => q[d].ion \in DOMAIN files[q[d].file].ions
\* The regions of a plot: each is that of its place, and one that can be
\* dragged has the bounds of the range there.
Facing(regs, rs) ==
    /\ DOMAIN regs = DOMAIN rs
    /\ \A i \in DOMAIN rs :
         /\ regs[i] \in Region /\ regs[i].id = i
         /\ regs[i].lo < regs[i].hi => regs[i].lo = rs[i].lo /\ regs[i].hi = rs[i].hi
Faced(s) == \A p \in Edit!Plots : Facing(s.regions[p], s.files[s.file[p]].rs)
\* The dialog, unless it has strayed.
LiveDialog(s) ==
    /\ \A f \in 1..2 : LiveFile(s.files[f])
    /\ LivePending(s.pending, s.files)
    /\ s.sel \in Edit!Plots /\ s.cur = s.file[s.sel] /\ DOMAIN s.regions = Edit!Plots
    /\ s.file[1] # s.file[2] => Faced(s)
\* The inductive invariant of RangeEditor, for ions and regions.
LiveInv ==
    /\ now.strayed \in BOOLEAN
    /\ ~now.open => now.files = <<>>
    /\ ~now.strayed => /\ \A f \in 1..2 : LiveFile(now.filter[f])
                       /\ now.open => LiveDialog(now)

\* At the start the ranges of the filters have their ions.
LEMMA LiveStart ==
    ASSUME Edit!Init
    PROVE  LiveInv
<1>1. PICK q \in FirstFiles, f \in {<<1, 1>>, <<1, 2>>} :
        now = [filter |-> q, file |-> f, edits |-> 0, strayed |-> FALSE, open |-> FALSE,
               files |-> <<>>, regions |-> <<>>, sel |-> 1, cur |-> 1, rows |-> 0,
               pending |-> <<>>, ready |-> TRUE, unchecked |-> FALSE]
  BY DEF Edit!Init
<1>2. \A g \in 1..2 : LiveFile(q[g])
  BY RangesAssumption DEF LiveFile, Edit!RangeFile, Row
<1>3. now.filter = q /\ ~now.open /\ now.files = <<>> /\ now.strayed = FALSE
  BY <1>1
<1> QED
  BY <1>2, <1>3 DEF LiveInv

\* New regions face the ranges they are made of.
LEMMA RegionsFace ==
    ASSUME NEW g, g.rs \in Seq(Row)
    PROVE  Facing(Edit!RegionsOf(g), g.rs)
<1>1. \A i \in DOMAIN g.rs : g.rs[i].lo \in Int /\ g.rs[i].hi \in Int
  <2>1. \A i \in DOMAIN g.rs : g.rs[i] \in Row
    OBVIOUS
  <2> QED
    BY <2>1 DEF Row
<1> QED
  <2>1. DOMAIN g.rs = 1..Len(g.rs)
    OBVIOUS
  <2> QED
    BY <1>1, <2>1 DEF Edit!RegionsOf, Facing, Region

\* A pending range that is added or dropped gives its place to the last.
LEMMA SwapOutType ==
    ASSUME NEW S, NEW q \in Seq(S), NEW d \in DOMAIN q
    PROVE  /\ Edit!SwapOut(q, d) \in Seq(S) /\ DOMAIN Edit!SwapOut(q, d) = 1..(Len(q) - 1)
           /\ \A k \in 1..(Len(q) - 1) : \E j \in DOMAIN q : Edit!SwapOut(q, d)[k] = q[j]
<1> DEFINE n == Len(q)
           w == Edit!SwapOut(q, d)
<1>1. n \in Nat /\ d \in 1..n /\ DOMAIN q = 1..n /\ \A k \in 1..n : q[k] \in S
  OBVIOUS
<1>2. w = [k \in 1..(n - 1) |-> IF k = d THEN q[n] ELSE q[k]]
  BY DEF Edit!SwapOut
<1> HIDE DEF n, w
<1>3. n - 1 \in Nat /\ n \in 1..n /\ \A k \in 1..(n - 1) : k \in 1..n
  BY <1>1
<1>4. \A k \in 1..(n - 1) : \E j \in 1..n : w[k] = q[j]
  BY <1>2, <1>3
<1>5. DOMAIN w = 1..(n - 1) /\ w \in [1..(n - 1) -> S]
  BY <1>1, <1>2, <1>3
<1>6. w \in Seq(S)
  BY <1>3, <1>5
<1> QED
  BY <1>1, <1>4, <1>5, <1>6 DEF n, w

\* An edit of the file of the plot that is selected.
LEMMA LiveAfter ==
    ASSUME EditInv, LiveInv, now.open, ~now.strayed, NEW g, LiveFile(g),
           \A f \in {"filter", "file", "sel", "cur", "open", "strayed"} : now'[f] = now[f],
           \A f \in 1..2 : now'.files[f] = IF f = now.cur THEN g ELSE now.files[f],
           LivePending(now'.pending, now'.files),
           DOMAIN now'.regions = Edit!Plots, \A p \in Edit!Plots \ {now.sel} : now'.regions[p] = now.regions[p],
           now.file[1] # now.file[2] => Facing(now'.regions[now.sel], g.rs)
    PROVE  LiveInv'
<1>1. /\ \A f \in 1..2 : LiveFile(now.filter[f]) /\ LiveFile(now.files[f])
      /\ now.sel \in Edit!Plots /\ now.cur = now.file[now.sel] /\ (now.file[1] # now.file[2] => Faced(now))
  BY DEF LiveInv, LiveDialog
<1>2. now.cur \in 1..2 /\ DOMAIN now.files = 1..2 /\ \A p \in Edit!Plots : now.file[p] \in 1..2
  BY DEF EditInv, FilesHold
<1>3. \A f \in 1..2 : LiveFile(now'.files[f])
  BY <1>1, <1>2
<1>4. ASSUME now.file[1] # now.file[2], NEW p \in Edit!Plots
      PROVE  Facing(now'.regions[p], now'.files[now.file[p]].rs)
  <2>1. CASE p = now.sel
    BY <1>1, <1>2, <1>4, <2>1
  <2>2. CASE p # now.sel
    <3>1. now.file[p] # now.cur
      BY <1>1, <1>4, <2>2 DEF Edit!Plots
    <3> QED
      BY <1>1, <1>2, <1>4, <2>2, <3>1 DEF Faced
  <2> QED
    BY <2>1, <2>2
<1>5. LiveDialog(now')
  BY <1>1, <1>3, <1>4 DEF LiveDialog, Faced
<1> QED
  BY <1>1, <1>5 DEF LiveInv

\* Files whose ions are as many as before, or more, keep what is pending live.
LEMMA PendingStays ==
    ASSUME EditInv, NEW q, LivePending(q, now.files), NEW g, DOMAIN now.files[now.cur].ions \subseteq DOMAIN g.ions
    PROVE  LivePending(q, [now.files EXCEPT ![now.cur] = g])
BY DEF LivePending

\* The files, the regions and the pending ranges of what the dialog brings up
\* to date.
LEMMA UpdatesLeave ==
    ASSUME NEW s, DOMAIN s = EditFields
    PROVE  /\ DOMAIN Edit!Ready(s) = EditFields
              /\ \A f \in EditFields \ {"ready", "unchecked"} : Edit!Ready(s)[f] = s[f]
           /\ DOMAIN Edit!WithRows(s) = EditFields /\ \A f \in EditFields \ {"rows"} : Edit!WithRows(s)[f] = s[f]
           /\ DOMAIN Edit!Edited(s) = EditFields /\ \A f \in EditFields \ {"edits"} : Edit!Edited(s)[f] = s[f]
           /\ DOMAIN Edit!WithRegions(s) = EditFields
              /\ \A f \in EditFields \ {"regions"} : Edit!WithRegions(s)[f] = s[f]
           /\ Edit!WithRegions(s).regions = [s.regions EXCEPT ![s.sel] = Edit!RegionsOf(s.files[s.cur])]
<1>1. DOMAIN Edit!Ready(s) = EditFields /\ \A f \in EditFields \ {"ready", "unchecked"} : Edit!Ready(s)[f] = s[f]
  BY DEF Edit!Ready, EditFields
<1>2. DOMAIN Edit!WithRows(s) = EditFields /\ \A f \in EditFields \ {"rows"} : Edit!WithRows(s)[f] = s[f]
  BY DEF Edit!WithRows, EditFields
<1>3. DOMAIN Edit!Edited(s) = EditFields /\ \A f \in EditFields \ {"edits"} : Edit!Edited(s)[f] = s[f]
  BY DEF Edit!Edited, EditFields
<1>4. /\ DOMAIN Edit!WithRegions(s) = EditFields /\ \A f \in EditFields \ {"regions"} : Edit!WithRegions(s)[f] = s[f]
      /\ Edit!WithRegions(s).regions = [s.regions EXCEPT ![s.sel] = Edit!RegionsOf(s.files[s.cur])]
  BY DEF Edit!WithRegions, EditFields
<1> QED
  BY <1>1, <1>2, <1>3, <1>4

\* The test for OK leaves all but its own result.
LEMMA ReadyLeaves ==
    ASSUME NEW s, DOMAIN s = EditFields
    PROVE  \A f \in EditFields \ {"ready", "unchecked"} : Edit!Ready(s)[f] = s[f]
  BY UpdatesLeave

\* An edit after which the regions are made anew: only what it makes of the
\* file and of the pending ranges matters.
LEMMA LiveRemade ==
    ASSUME EditInv, LiveInv, now.open, ~now.strayed, NEW g, LiveFile(g), NEW s, DOMAIN s = EditFields,
           \A f \in {"filter", "file", "sel", "cur", "open", "strayed", "regions"} : s[f] = now[f],
           \A f \in 1..2 : s.files[f] = IF f = now.cur THEN g ELSE now.files[f], LivePending(s.pending, s.files),
           now'.regions = [s.regions EXCEPT ![s.sel] = Edit!RegionsOf(s.files[s.cur])],
           \A f \in {"filter", "file", "sel", "cur", "open", "strayed", "files", "pending"} : now'[f] = s[f]
    PROVE  LiveInv'
<1>1. now.cur \in 1..2 /\ DOMAIN now.files = 1..2 /\ now.sel \in Edit!Plots /\ DOMAIN now.regions = Edit!Plots
  BY DEF EditInv, FilesHold, LiveInv, LiveDialog
<1>2. s.files[s.cur] = g
  BY <1>1
<1>3. /\ DOMAIN now'.regions = Edit!Plots /\ now'.regions[now.sel] = Edit!RegionsOf(g)
      /\ \A p \in Edit!Plots \ {now.sel} : now'.regions[p] = now.regions[p]
  BY <1>1, <1>2
<1>4. Facing(Edit!RegionsOf(g), g.rs)
  BY RegionsFace DEF LiveFile
<1>5. \A f \in {"filter", "file", "sel", "cur", "open", "strayed"} : now'[f] = now[f]
  OBVIOUS
<1>6. (\A f \in 1..2 : now'.files[f] = IF f = now.cur THEN g ELSE now.files[f])
      /\ LivePending(now'.pending, now'.files)
  OBVIOUS
<1> QED
  BY <1>3, <1>4, <1>5, <1>6, LiveAfter
\* What vectorMultiErase leaves are ranges of other ions.
LEMMA MultiEraseType ==
    ASSUME NEW rs \in Seq(Row), NEW k
    PROVE  LET K == {r \in Row : r.ion # k /\ \E i \in DOMAIN rs : r = rs[i]} IN Edit!MultiErase(rs, k) \in Seq(K)
<1> DEFINE n == Len(rs)
           K == {r \in Row : r.ion # k /\ \E i \in DOMAIN rs : r = rs[i]}
           T == Seq(K)
           Step(t, i) == IF rs[i].ion # k THEN Append(t, rs[i]) ELSE t
           Turn(e, i) == IF i = 0 THEN <<>> ELSE Step(e[i - 1], i)
           Runs(e) == e = [i \in 0..n |-> Turn(e, i)]
           G == [x \in T \X (1..n) |-> Step(x[1], x[2])]
<1>0. n \in Nat /\ <<>> \in T
  OBVIOUS
<1>1. ASSUME NEW t \in T, NEW i \in 1..n PROVE Step(t, i) \in T
  <2>1. rs[i] \in Row /\ i \in DOMAIN rs
    OBVIOUS
  <2>2. rs[i].ion # k => rs[i] \in K
    BY <2>1
  <2> HIDE DEF K
  <2>3. rs[i].ion # k => Append(t, rs[i]) \in T
    BY <2>2
  <2> QED
    BY <2>3
<1>2. ASSUME NEW t \in T, NEW i \in 1..n PROVE G[<<t, i>>] = Step(t, i)
  <2> HIDE DEF Step, T
  <2> QED
    OBVIOUS
<1> HIDE DEF Step, T, G
<1>3. PICK f \in [0..n -> T] : IsRun(f, <<>>, n, G)
  <2>1. \A t \in T : \A j \in 1..n : G[<<t, j>>] \in T
    BY <1>1, <1>2
  <2> HIDE DEF n
  <2> QED
    BY <1>0, <2>1, LoopRuns
<1>4. Runs(f)
  <2>1. \A i \in 1..n : f[i] = Step(f[i - 1], i)
    <3> SUFFICES ASSUME NEW i \in 1..n PROVE f[i] = Step(f[i - 1], i)
      OBVIOUS
    <3>1. f[i] = G[<<f[i - 1], i>>]
      BY <1>3 DEF IsRun
    <3>2. i - 1 \in 0..n
      BY <1>0
    <3>3. f[i - 1] \in T
      BY <1>3, <3>2
    <3> QED
      BY <1>2, <3>1, <3>3
  <2>2. f[0] = <<>>
    BY <1>3 DEF IsRun
  <2>3. \A i \in 0..n : i = 0 \/ i \in 1..n
    BY <1>0
  <2>4. \A i \in 0..n : f[i] = Turn(f, i)
    BY <2>1, <2>2, <2>3
  <2> HIDE DEF Turn
  <2> QED
    BY <1>3, <2>4
<1> DEFINE e == CHOOSE g : Runs(g)
<1>5. Edit!MultiErase(rs, k) = e[n]
  BY DEF Edit!MultiErase, Step
<1>6. Runs(e)
  <2> HIDE DEF Runs
  <2> QED
    BY <1>4
<1> HIDE DEF e
<1>7. \A i \in 0..n : e[i] = Turn(e, i)
  <2> HIDE DEF Turn
  <2> QED
    BY <1>6
<1> DEFINE A == {i \in 0..n : e[i] \in T}
<1>8. 0 \in A
  <2>1. 0 \in 0..n
    BY <1>0
  <2> QED
    BY <1>0, <1>7, <2>1
<1>9. ASSUME NEW i \in 1..n, i - 1 \in A PROVE i \in A
  <2>1. i \in 0..n /\ i # 0 /\ e[i - 1] \in T
    BY <1>9
  <2> QED
    BY <1>1, <1>7, <2>1
<1>10. A = 0..n
  <2>1. A \in SUBSET (0..n)
    OBVIOUS
  <2> HIDE DEF A, n
  <2> QED
    BY <1>0, <1>8, <1>9, <2>1, InductionTo
<1>11. e[n] \in T
  <2>1. n \in A
    BY <1>0, <1>10
  <2> QED
    BY <2>1
<1> QED
  BY <1>5, <1>11 DEF T

\* With an ion that is erased go its ranges; those of ions behind it follow.
LEMMA EraseIonLives ==
    ASSUME NEW g, Shaped(g), LiveFile(g), NEW k \in DOMAIN g.ions
    PROVE  LiveFile(Edit!EraseIon(g, k))
<1> DEFINE rs == g.rs
           n == Len(g.ions)
           K == {r \in Row : r.ion # k /\ \E i \in DOMAIN rs : r = rs[i]}
           left == Edit!MultiErase(rs, k)
           moved == [i \in DOMAIN left |-> [left[i] EXCEPT !.ion = IF @ > k THEN @ - 1 ELSE @]]
           q == Without(g.ions, k)
           h == Edit!EraseIon(g, k)
<1>1. g.ions \in Seq(IonNames) /\ n \in Nat /\ DOMAIN g.ions = 1..n /\ k \in 1..n
  BY DEF Shaped
<1>2. DOMAIN q = 1..(n - 1)
  <2>1. q \in Seq(IonNames) /\ Len(q) = n - 1
    BY <1>1, WithoutType
  <2> HIDE DEF q
  <2> QED
    BY <2>1
<1>3. left \in Seq(K)
  <2>1. rs \in Seq(Row)
    BY DEF LiveFile
  <2> QED
    BY <2>1, MultiEraseType
<1>4. h = [g EXCEPT !.ions = q, !.rs = moved]
  BY DEF Edit!EraseIon, Edit!RemoveAt, Without
<1> HIDE DEF q, left
<1>5. h.rs = moved /\ h.ions = q
  <2> HIDE DEF moved
  <2> QED
    BY <1>4 DEF Shaped
<1>6. ASSUME NEW i \in DOMAIN left PROVE moved[i] \in Row /\ moved[i].ion \in 1..(n - 1)
  <2>1. left[i] \in K
    BY <1>3
  <2> DEFINE r == left[i]
  <2>2. r \in Row /\ r.ion # k /\ r.ion \in 1..n
    BY <1>1, <2>1 DEF LiveFile
  <2>3. moved[i] = [r EXCEPT !.ion = IF r.ion > k THEN r.ion - 1 ELSE r.ion]
    OBVIOUS
  <2> HIDE DEF r, moved
  <2> DEFINE j == IF r.ion > k THEN r.ion - 1 ELSE r.ion
  <2>4. j \in 1..(n - 1)
    BY <1>1, <2>2
  <2> HIDE DEF j
  <2>5. moved[i] = [r EXCEPT !.ion = j]
    BY <2>3 DEF j
  <2> QED
    BY <2>2, <2>4, <2>5 DEF Row
<1>7. moved \in Seq(Row) /\ DOMAIN moved = DOMAIN left
  <2>1. Len(left) \in Nat /\ DOMAIN left = 1..Len(left)
    BY <1>3
  <2>2. DOMAIN moved = DOMAIN left
    OBVIOUS
  <2>3. moved = [i \in 1..Len(left) |-> moved[i]]
    BY <2>1
  <2> HIDE DEF moved
  <2>4. moved \in [1..Len(left) -> Row]
    BY <1>6, <2>1, <2>3
  <2> QED
    BY <2>1, <2>2, <2>4
<1> HIDE DEF moved, h
<1> QED
  BY <1>2, <1>5, <1>6, <1>7 DEF LiveFile, h

\* A range that is changed in one place keeps the others.
LEMMA ChangedLives ==
    ASSUME NEW g, Shaped(g), LiveFile(g), NEW i \in DOMAIN g.rs, NEW r \in Row, r.ion \in DOMAIN g.ions
    PROVE  LET h == [g EXCEPT !.rs = [g.rs EXCEPT ![i] = r]] IN LiveFile(h) /\ h.ions = g.ions
             /\ h.rs = [g.rs EXCEPT ![i] = r]
<1> DEFINE rs == g.rs
           w == [rs EXCEPT ![i] = r]
           h == [g EXCEPT !.rs = w]
<1>1. rs \in Seq(Row) /\ \A j \in DOMAIN rs : rs[j].ion \in DOMAIN g.ions
  BY DEF LiveFile
<1>2. i \in DOMAIN rs
  OBVIOUS
<1> HIDE DEF rs
<1>3. w \in Seq(Row) /\ DOMAIN w = DOMAIN rs /\ \A j \in DOMAIN rs : w[j] = IF j = i THEN r ELSE rs[j]
  BY <1>1, <1>2
<1> HIDE DEF w
<1>4. h.rs = w /\ h.ions = g.ions
  BY DEF Shaped
<1> HIDE DEF h
<1>5. LiveFile(h) /\ h.ions = g.ions /\ h.rs = w
  BY <1>1, <1>3, <1>4 DEF LiveFile
<1> QED
  BY <1>5 DEF h, w, rs

\* A range is put behind the others.
LEMMA AddedLives ==
    ASSUME NEW g, Shaped(g), LiveFile(g), NEW r \in Row, r.ion \in DOMAIN g.ions
    PROVE  LiveFile([g EXCEPT !.rs = Append(g.rs, r)])
<1> DEFINE rs == g.rs
           w == Append(rs, r)
           h == [g EXCEPT !.rs = w]
<1>1. rs \in Seq(Row) /\ \A j \in DOMAIN rs : rs[j].ion \in DOMAIN g.ions
  BY DEF LiveFile
<1> HIDE DEF rs
<1>3. w \in Seq(Row) /\ DOMAIN w = 1..(Len(rs) + 1) /\ DOMAIN rs = 1..Len(rs) /\ Len(rs) \in Nat
      /\ \A j \in 1..(Len(rs) + 1) : w[j] = IF j = Len(rs) + 1 THEN r ELSE rs[j]
  BY <1>1
<1>4. \A j \in 1..(Len(rs) + 1) : j = Len(rs) + 1 \/ j \in 1..Len(rs)
  BY <1>3
<1> HIDE DEF w
<1>5. h.rs = w /\ h.ions = g.ions
  BY DEF Shaped
<1> HIDE DEF h
<1>6. LiveFile(h)
  BY <1>1, <1>3, <1>4, <1>5 DEF LiveFile
<1> QED
  BY <1>6 DEF h, w, rs

\* The last range takes the place of one that is erased.
LEMMA ErasedLives ==
    ASSUME NEW g, Shaped(g), LiveFile(g), NEW i \in DOMAIN g.rs
    PROVE  LiveFile(Edit!EraseRange(g, i)) /\ Edit!EraseRange(g, i).ions = g.ions
<1> DEFINE w == Edit!SwapOut(g.rs, i)
           h == Edit!EraseRange(g, i)
<1>1. g.rs \in Seq(Row) /\ \A j \in DOMAIN g.rs : g.rs[j].ion \in DOMAIN g.ions
  BY DEF LiveFile
<1>2. w \in Seq(Row) /\ DOMAIN w = 1..(Len(g.rs) - 1)
        /\ \A k \in 1..(Len(g.rs) - 1) : \E j \in DOMAIN g.rs : w[k] = g.rs[j]
  BY <1>1, SwapOutType
<1>3. h = [g EXCEPT !.rs = w]
  BY DEF Edit!EraseRange
<1> HIDE DEF w
<1>4. h.rs = w /\ h.ions = g.ions
  BY <1>3 DEF Shaped
<1> HIDE DEF h
<1>5. LiveFile(h) /\ h.ions = g.ions
  BY <1>1, <1>2, <1>4 DEF LiveFile
<1> QED
  BY <1>5 DEF h

\* Once it has strayed, the dialog only has to be open or empty.
LEMMA StrayedLives ==
    ASSUME now'.strayed = TRUE, now'.open \/ now'.files = <<>>
    PROVE  LiveInv'
BY DEF LiveInv

\* A drag in the main window is of a bound, not of an ion.
LEMMA MainDragLives ==
    ASSUME EditInv, LiveInv, NEW f \in 1..2, NEW m \in Edit!Methods, NEW x \in Masses,
           NEW i \in DOMAIN now.filter[f].rs, Edit!MainDrag(f, i, m, x)
    PROVE  LiveInv'
<1> DEFINE g == now.filter[f]
           h == CASE m = "lower" -> Edit!MoveRange(g, i, x, g.rs[i].hi)
                  [] m = "upper" -> Edit!MoveRange(g, i, g.rs[i].lo, x)
                  [] m = "both"  -> Edit!MoveBothRanges(g, i, x, x + (g.rs[i].hi - g.rs[i].lo))
           t == [now EXCEPT !.filter[f] = h]
<1>1. Shaped(g) /\ x \in Int /\ DOMAIN now = EditFields /\ DOMAIN now.filter = 1..2
  BY RangesAssumption DEF EditInv, FilesHold
<1>2. ~now.open /\ now' = Edit!Edited(t)
  BY DEF Edit!MainDrag, Edit!Becomes
<1> HIDE DEF h
<1>3. /\ now'.strayed = now.strayed /\ now'.open = now.open /\ now'.files = now.files
      /\ now'.filter = [now.filter EXCEPT ![f] = h]
  <2>1. DOMAIN t = EditFields /\ t.strayed = now.strayed /\ t.open = now.open /\ t.files = now.files
        /\ t.filter = [now.filter EXCEPT ![f] = h]
    BY <1>1 DEF EditFields
  <2> HIDE DEF t
  <2> QED
    BY <1>2, <2>1 DEF Edit!Edited, EditFields
<1>4. ASSUME ~now.strayed PROVE LiveFile(h)
  <2>1. LiveFile(g)
    BY <1>4 DEF LiveInv
  <2>2. g.rs \in Seq(Row)
    BY <2>1 DEF LiveFile
  <2>3. g.rs[i] \in Row /\ g.rs[i].ion \in DOMAIN g.ions
    BY <2>1, <2>2 DEF LiveFile
  <2>4. ASSUME NEW lo \in Int, NEW hi \in Int PROVE LiveFile([g EXCEPT !.rs[i].lo = lo, !.rs[i].hi = hi])
    <3> DEFINE r == [[g.rs[i] EXCEPT !.lo = lo] EXCEPT !.hi = hi]
               w == [g.rs EXCEPT ![i] = r]
    <3>1. r \in Row /\ r.ion = g.rs[i].ion
      BY <2>3 DEF Row
    <3>2. [g EXCEPT !.rs[i].lo = lo, !.rs[i].hi = hi] = [g EXCEPT !.rs = w]
      BY <1>1, <2>3 DEF Shaped
    <3> HIDE DEF r
    <3>3. LiveFile([g EXCEPT !.rs = [g.rs EXCEPT ![i] = r]])
      BY <1>1, <2>1, <2>3, <3>1, ChangedLives
    <3> QED
      BY <3>2, <3>3
  <2> HIDE DEF g
  <2>5. \A lo \in Int, hi \in Int : LiveFile(Edit!MoveRange(g, i, lo, hi)) /\ LiveFile(Edit!MoveBothRanges(g, i, lo, hi))
    BY <2>1, <2>4 DEF Edit!MoveRange, Edit!MoveBothRanges
  <2>6. g.rs[i].lo \in Int /\ g.rs[i].hi \in Int /\ x + (g.rs[i].hi - g.rs[i].lo) \in Int
    BY <1>1, <2>3 DEF Row
  <2> QED
    BY <1>1, <2>5, <2>6 DEF h, Edit!Methods
<1> QED
  BY <1>1, <1>2, <1>3, <1>4 DEF LiveInv

\* The dialog makes the regions of the ranges it copies.
LEMMA OpenLives ==
    ASSUME EditInv, LiveInv, Edit!OpenDialog
    PROVE  LiveInv'
<1> DEFINE fs == [f \in 1..2 |-> [now.filter[f] EXCEPT !.enforce = FALSE]]
           regions == [p \in Edit!Plots |-> Edit!RegionsOf(fs[now.file[p]])]
           rows == Len(fs[now.file[1]].rs)
           bad == \E p \in Edit!Plots : ~Edit!SelfConsistent(fs[now.file[p]])
<1>0. DOMAIN now = EditFields /\ \A p \in Edit!Plots : now.file[p] \in 1..2
  BY DEF EditInv, FilesHold
<1>1. now' = [now EXCEPT !.open = TRUE, !.files = fs, !.sel = 1, !.cur = now.file[1],
                         !.regions = regions, !.rows = rows, !.pending = <<>>, !.ready = TRUE,
                         !.unchecked = bad]
  BY DEF Edit!OpenDialog, Edit!Becomes
<1>2. ASSUME ~now.strayed, NEW f \in 1..2 PROVE LiveFile(fs[f])
  <2>1. LiveFile(now.filter[f]) /\ Shaped(now.filter[f])
    BY <1>2 DEF LiveInv, EditInv, FilesHold
  <2>2. fs[f].rs = now.filter[f].rs /\ fs[f].ions = now.filter[f].ions
    BY <2>1 DEF Shaped
  <2> QED
    BY <2>1, <2>2 DEF LiveFile
<1>3. ASSUME ~now.strayed, NEW p \in Edit!Plots PROVE Facing(regions[p], fs[now.file[p]].rs)
  <2>1. fs[now.file[p]].rs \in Seq(Row) /\ regions[p] = Edit!RegionsOf(fs[now.file[p]])
    BY <1>0, <1>2, <1>3 DEF LiveFile
  <2> HIDE DEF fs, regions
  <2> QED
    BY <2>1, RegionsFace
<1>4. DOMAIN regions = Edit!Plots
  OBVIOUS
<1> HIDE DEF fs, regions, rows, bad
<1>5. /\ now'.filter = now.filter /\ now'.file = now.file /\ now'.cur = now.file[1] /\ now'.sel = 1
      /\ now'.files = fs /\ now'.regions = regions /\ now'.pending = <<>> /\ now'.open = TRUE
      /\ now'.strayed = now.strayed
  BY <1>0, <1>1 DEF EditFields
<1>6. ASSUME ~now.strayed PROVE LiveDialog(now')
  <2>1. LivePending(<<>>, fs)
    BY DEF LivePending
  <2>2. now.file[1] # now.file[2] => Faced(now')
    BY <1>3, <1>5, <1>6 DEF Faced
  <2>3. now'.sel \in Edit!Plots /\ now'.cur = now'.file[now'.sel] /\ DOMAIN now'.regions = Edit!Plots
    BY <1>4, <1>5 DEF Edit!Plots
  <2> QED
    BY <1>2, <1>5, <1>6, <2>1, <2>2, <2>3 DEF LiveDialog
<1> QED
  BY <1>5, <1>6 DEF LiveInv

\* OK gives the filters what has been edited, Cancel nothing.
LEMMA CloseLives ==
    ASSUME EditInv, LiveInv, Edit!OnOK \/ Edit!OnCancel
    PROVE  LiveInv'
<1> DEFINE q == [f \in 1..2 |-> IF \E p \in Edit!Plots : now.file[p] = f THEN now.files[f] ELSE now.filter[f]]
           u == [now EXCEPT !.filter = q]
<1>0. DOMAIN now = EditFields
  BY DEF EditInv, FilesHold
<1>1. ASSUME NEW s, DOMAIN s = EditFields
      PROVE  LET r == Edit!Closed(s) IN ~r.open /\ r.files = <<>> /\ r.strayed = s.strayed /\ r.filter = s.filter
  BY <1>1 DEF Edit!Closed, EditFields
<1>2. CASE Edit!OnCancel
  <2>1. now' = Edit!Closed(now)
    BY <1>2 DEF Edit!OnCancel, Edit!Becomes
  <2>2. ~now'.open /\ now'.files = <<>> /\ now'.strayed = now.strayed /\ now'.filter = now.filter
    BY <1>0, <1>1, <2>1
  <2> QED
    BY <2>2 DEF LiveInv
<1>3. CASE Edit!OnOK
  <2>1. now' = Edit!Closed(u) /\ now.open
    BY <1>3 DEF Edit!OnOK, Edit!Becomes
  <2>2. ~now.strayed => \A f \in 1..2 : LiveFile(q[f])
    BY <2>1 DEF LiveInv, LiveDialog
  <2> HIDE DEF q
  <2>3. DOMAIN u = EditFields /\ u.strayed = now.strayed /\ u.filter = q
    BY <1>0 DEF EditFields
  <2> HIDE DEF u
  <2>4. ~now'.open /\ now'.files = <<>> /\ now'.strayed = now.strayed /\ now'.filter = q
    BY <1>1, <2>1, <2>3
  <2> QED
    BY <2>2, <2>4 DEF LiveInv
<1> QED
  BY <1>2, <1>3

\* Another plot is selected.
LEMMA ListLives ==
    ASSUME EditInv, LiveInv, NEW p \in Edit!Plots, Edit!OnListPlots(p)
    PROVE  LiveInv'
<1>1. now.open /\ now' = [now EXCEPT !.sel = p, !.cur = now.file[p]] /\ DOMAIN now = EditFields
  BY DEF Edit!OnListPlots, Edit!Becomes, EditInv, FilesHold
<1>2. /\ now'.sel = p /\ now'.cur = now.file[p]
      /\ \A y \in {"filter", "file", "strayed", "open", "files", "regions", "pending"} : now'[y] = now[y]
  BY <1>1 DEF EditFields
<1>3. ASSUME ~now.strayed PROVE LiveDialog(now')
  <2>1. LiveDialog(now)
    BY <1>1, <1>3 DEF LiveInv
  <2>2. Faced(now) => Faced(now')
    BY <1>2 DEF Faced
  <2> QED
    BY <1>2, <2>1, <2>2 DEF LiveDialog
<1> QED
  BY <1>1, <1>2, <1>3 DEF LiveInv

\* A cell of a range: the grid lets in only an ion of the file.
LEMMA CellLives ==
    ASSUME EditInv, LiveInv, NEW row, NEW col \in {"lo", "hi", "ion"}, NEW x \in Masses, Edit!Cell(row, col, x)
    PROVE  LiveInv'
<1> DEFINE c == now.cur
           f == now.files[c]
           r == [f.rs[row] EXCEPT ![col] = x]
           g == [f EXCEPT !.rs = [f.rs EXCEPT ![row] = r]]
           t == [now EXCEPT !.files[c] = g]
           u == [now EXCEPT !.files[c].rs[row][col] = x]
           v == Edit!Edited(t)
           w == Edit!WithRegions(v)
<1>1. /\ now.open /\ now' = Edit!Ready(Edit!WithRegions(Edit!Edited(u))) /\ row \in DOMAIN f.rs
      /\ col = "ion" => x \in DOMAIN f.ions
  BY DEF Edit!Cell, Edit!Becomes
<1>2. DOMAIN now = EditFields /\ c \in 1..2 /\ DOMAIN now.files = 1..2 /\ Shaped(f) /\ x \in Int
  BY <1>1, RangesAssumption DEF EditInv, FilesHold
<1>3. t = u
  BY <1>2 DEF Shaped, EditFields
<1>4. DOMAIN t = EditFields /\ t.files = [now.files EXCEPT ![c] = g]
        /\ \A y \in EditFields \ {"files"} : t[y] = now[y]
  <2> HIDE DEF g
  <2> QED
    BY <1>2 DEF EditFields
<1> HIDE DEF t, u
<1>5. DOMAIN v = EditFields /\ \A y \in EditFields \ {"edits"} : v[y] = t[y]
  BY <1>4, UpdatesLeave
<1> HIDE DEF v
<1>6. DOMAIN w = EditFields /\ (\A y \in EditFields \ {"regions"} : w[y] = v[y])
      /\ w.regions = [v.regions EXCEPT ![v.sel] = Edit!RegionsOf(v.files[v.cur])]
  BY <1>5, UpdatesLeave
<1> HIDE DEF w
<1>7. now' = Edit!Ready(w)
  BY <1>1, <1>3 DEF v, w
<1>8. \A y \in EditFields \ {"ready", "unchecked"} : now'[y] = w[y]
  <2>1. \A y \in EditFields \ {"ready", "unchecked"} : Edit!Ready(w)[y] = w[y]
    BY <1>6, ReadyLeaves
  <2> QED
    BY <1>7, <2>1
<1>9. CASE now.strayed
  <2>1. now'.strayed = now.strayed /\ now'.open = now.open
    BY <1>4, <1>5, <1>6, <1>8 DEF EditFields
  <2> QED
    BY <1>1, <1>9, <2>1, StrayedLives DEF LiveInv
<1>10. CASE ~now.strayed
  <2>1. LiveFile(f) /\ LivePending(now.pending, now.files)
    BY <1>1, <1>2, <1>10 DEF LiveInv, LiveDialog
  <2>2. f.rs[row] \in Row /\ f.rs[row].ion \in DOMAIN f.ions
    BY <1>1, <2>1 DEF LiveFile
  <2>3. r \in Row /\ r.ion \in DOMAIN f.ions
    BY <1>1, <1>2, <2>2 DEF Row
  <2> HIDE DEF r, f
  <2>4. LiveFile(g) /\ g.ions = f.ions
    BY <1>1, <1>2, <2>1, <2>3, ChangedLives
  <2> HIDE DEF g
  <2>5. LivePending(now.pending, [now.files EXCEPT ![c] = g])
    BY <2>1, <2>4, PendingStays DEF f
  <2>6. LivePending(v.pending, v.files)
    BY <1>4, <1>5, <2>5 DEF EditFields
  <2>7. \A y \in {"filter", "file", "sel", "cur", "open", "strayed", "regions"} : v[y] = now[y]
    BY <1>4, <1>5 DEF EditFields
  <2>8. \A y \in {"filter", "file", "sel", "cur", "open", "strayed", "files", "pending"} : now'[y] = v[y]
    BY <1>6, <1>8 DEF EditFields
  <2>9. now'.regions = [v.regions EXCEPT ![v.sel] = Edit!RegionsOf(v.files[v.cur])]
    BY <1>6, <1>8 DEF EditFields
  <2>10. \A y \in 1..2 : v.files[y] = IF y = c THEN g ELSE now.files[y]
    <3>1. v.files = [now.files EXCEPT ![c] = g]
      BY <1>4, <1>5 DEF EditFields
    <3> QED
      BY <1>2, <3>1
  <2> QED
    BY <1>1, <1>5, <1>10, <2>4, <2>6, <2>7, <2>8, <2>9, <2>10, LiveRemade
<1> QED
  BY <1>9, <1>10

\* A range is begun: it has no ion yet.
LEMMA AddLives ==
    ASSUME EditInv, LiveInv, Edit!AddPending
    PROVE  LiveInv'
<1> DEFINE p == [file |-> now.cur, lo |-> Edit!Unset, hi |-> Edit!Unset, ion |-> Edit!Unset]
           q == Append(now.pending, p)
           t == [now EXCEPT !.pending = q]
           v == Edit!Edited(t)
           w == Edit!WithRows(v)
<1>1. now.open /\ now' = Edit!Ready(w)
  BY DEF Edit!AddPending, Edit!Becomes
<1>2. DOMAIN now = EditFields /\ now.cur \in 1..2
  BY DEF EditInv, FilesHold
<1> HIDE DEF p, q
<1>3. DOMAIN t = EditFields /\ t.pending = q /\ \A y \in EditFields \ {"pending"} : t[y] = now[y]
  BY <1>2 DEF EditFields
<1> HIDE DEF t
<1>4. DOMAIN v = EditFields /\ \A y \in EditFields \ {"edits"} : v[y] = t[y]
  BY <1>3, UpdatesLeave
<1> HIDE DEF v
<1>5. DOMAIN w = EditFields /\ \A y \in EditFields \ {"rows"} : w[y] = v[y]
  BY <1>4, UpdatesLeave
<1> HIDE DEF w
<1>6. \A y \in EditFields \ {"ready", "unchecked"} : now'[y] = w[y]
  <2>1. DOMAIN w = EditFields
    BY <1>5
  <2>2. \A y \in EditFields \ {"ready", "unchecked"} : Edit!Ready(w)[y] = w[y]
    BY <2>1, ReadyLeaves
  <2> QED
    BY <1>1, <2>2
<1>7. now'.pending = q
        /\ \A y \in {"filter", "file", "sel", "cur", "open", "strayed", "files", "regions"} : now'[y] = now[y]
  BY <1>3, <1>4, <1>5, <1>6 DEF EditFields
<1>8. ASSUME ~now.strayed PROVE LiveDialog(now')
  <2>1. LiveDialog(now)
    BY <1>1, <1>8 DEF LiveInv
  <2>2. LivePending(q, now.files)
    <3>1. now.pending \in Seq(Pending) /\ p \in Pending /\ p.ion = Edit!Unset
      BY <1>2, <2>1 DEF LiveDialog, LivePending, Pending, p, Edit!Unset
    <3> DEFINE n == Len(now.pending)
    <3>2. n \in Nat /\ DOMAIN now.pending = 1..n
      BY <3>1
    <3>3. q \in Seq(Pending) /\ DOMAIN q = 1..(n + 1)
            /\ \A d \in 1..(n + 1) : q[d] = IF d = n + 1 THEN p ELSE now.pending[d]
      BY <3>1 DEF q
    <3> HIDE DEF n
    <3>4. \A d \in 1..(n + 1) : d = n + 1 \/ d \in 1..n
      BY <3>2
    <3> QED
      BY <2>1, <3>1, <3>2, <3>3, <3>4 DEF LiveDialog, LivePending
  <2>3. Faced(now) => Faced(now')
    BY <1>7 DEF Faced
  <2> QED
    BY <1>7, <2>1, <2>2, <2>3 DEF LiveDialog
<1> QED
  BY <1>1, <1>7, <1>8 DEF LiveInv

\* A pending range goes: into the file, or away.
LEMMA SwapOutLives ==
    ASSUME NEW q, NEW files, LivePending(q, files), NEW d \in DOMAIN q
    PROVE  LivePending(Edit!SwapOut(q, d), files)
<1> DEFINE w == Edit!SwapOut(q, d)
<1>1. q \in Seq(Pending)
  BY DEF LivePending
<1>2. w \in Seq(Pending) /\ DOMAIN w = 1..(Len(q) - 1) /\ \A k \in 1..(Len(q) - 1) : \E j \in DOMAIN q : w[k] = q[j]
  BY <1>1, SwapOutType
<1> HIDE DEF w
<1>3. LivePending(w, files)
  BY <1>2 DEF LivePending
<1> QED
  BY <1>3 DEF w

\* A cell of a pending range, which may complete it.
LEMMA PendingLives ==
    ASSUME EditInv, LiveInv, NEW d \in DOMAIN now.pending, NEW col \in {"lo", "hi", "ion"}, NEW x \in Masses,
           Edit!PendingCell(d, col, x)
    PROVE  LiveInv'
<1> DEFINE q == [now.pending[d] EXCEPT ![col] = x]
           c == q.file
           g == [now.files[c] EXCEPT !.rs = Append(now.files[c].rs, Edit!Bounds(q.lo, q.hi, q.ion))]
           out == Edit!SwapOut(now.pending, d)
           strays == now.strayed \/ c # now.cur
           put == [now.pending EXCEPT ![d] = q]
           added == [now EXCEPT !.files[c] = g, !.strayed = strays, !.pending = out]
           left == [now EXCEPT !.pending = put]
           s == IF Edit!Finished(q)
                THEN [now EXCEPT !.files[c].rs = Append(@, Edit!Bounds(q.lo, q.hi, q.ion)),
                                 !.strayed = @ \/ c # now.cur, !.pending = out]
                ELSE [now EXCEPT !.pending[d] = q]
           t == Edit!WithRows(s)
           w == Edit!WithRegions(t)
<1>1. /\ now.open /\ now' = [w EXCEPT !.unchecked = @ \/ Edit!Finished(q)]
      /\ col = "ion" => x \in DOMAIN now.files[now.pending[d].file].ions
  BY DEF Edit!PendingCell, Edit!Becomes
<1>2. DOMAIN now = EditFields /\ now.cur \in 1..2 /\ DOMAIN now.files = 1..2 /\ \A f \in 1..2 : Shaped(now.files[f])
  BY <1>1 DEF EditInv, FilesHold
<1>3. now.strayed \in BOOLEAN
  BY DEF LiveInv
<1>4. s = IF Edit!Finished(q) THEN added ELSE left
  <2>1. [now EXCEPT !.files[c].rs = Append(@, Edit!Bounds(q.lo, q.hi, q.ion)),
                    !.strayed = @ \/ c # now.cur, !.pending = out] = added
    <3> HIDE DEF q, out
    <3> QED
      BY <1>2 DEF EditFields
  <2>2. [now EXCEPT !.pending[d] = q] = left
    <3> HIDE DEF q
    <3> QED
      BY <1>2 DEF EditFields
  <2> HIDE DEF added, left, out, q
  <2> QED
    BY <2>1, <2>2
<1> HIDE DEF s
<1>5. DOMAIN s = EditFields /\ \A y \in EditFields \ {"files", "strayed", "pending"} : s[y] = now[y]
  <2> HIDE DEF q, g, out, strays, put
  <2>1. DOMAIN added = EditFields /\ \A y \in EditFields \ {"files", "strayed", "pending"} : added[y] = now[y]
    BY <1>2 DEF EditFields
  <2>2. DOMAIN left = EditFields /\ \A y \in EditFields \ {"files", "strayed", "pending"} : left[y] = now[y]
    BY <1>2 DEF EditFields
  <2> HIDE DEF added, left
  <2> QED
    BY <1>4, <2>1, <2>2
<1>6. Edit!Finished(q) => s.files = [now.files EXCEPT ![c] = g] /\ s.strayed = strays /\ s.pending = out
  <2> HIDE DEF q, g, out, strays, left
  <2> QED
    BY <1>2, <1>4 DEF EditFields
<1>7. ~Edit!Finished(q) => s.files = now.files /\ s.strayed = now.strayed /\ s.pending = put
  <2> HIDE DEF q, g, put, added
  <2> QED
    BY <1>2, <1>4 DEF EditFields
<1>8. DOMAIN t = EditFields /\ \A y \in EditFields \ {"rows"} : t[y] = s[y]
  BY <1>5, UpdatesLeave
<1> HIDE DEF t
<1>9. DOMAIN w = EditFields /\ (\A y \in EditFields \ {"regions"} : w[y] = t[y])
      /\ w.regions = [t.regions EXCEPT ![t.sel] = Edit!RegionsOf(t.files[t.cur])]
  BY <1>8, UpdatesLeave
<1> HIDE DEF w
<1>10. \A y \in EditFields \ {"unchecked"} : now'[y] = w[y]
  <2> DEFINE b == w.unchecked \/ Edit!Finished(q)
  <2>1. now' = [w EXCEPT !.unchecked = b]
    BY <1>1
  <2> HIDE DEF b
  <2> QED
    BY <1>9, <2>1 DEF EditFields
<1>11. now'.strayed = s.strayed /\ now'.open = now.open
  BY <1>5, <1>8, <1>9, <1>10 DEF EditFields
<1>12. CASE s.strayed
  <2>1. s.strayed \in BOOLEAN
    BY <1>3, <1>6, <1>7
  <2> QED
    BY <1>1, <1>11, <1>12, <2>1, StrayedLives
<1>13. CASE ~s.strayed
  <2>0. ~now.strayed /\ s.strayed = now.strayed
    BY <1>3, <1>6, <1>7, <1>13
  <2>1. LivePending(now.pending, now.files) /\ \A f \in 1..2 : LiveFile(now.files[f])
    BY <1>1, <2>0 DEF LiveInv, LiveDialog
  <2> DEFINE p == now.pending[d]
  <2>2. p \in Pending /\ (p.ion # Edit!Unset => p.ion \in DOMAIN now.files[p.file].ions)
    BY <2>1 DEF LivePending
  <2>3. x \in Int
    BY RangesAssumption
  <2>4. q \in Pending /\ q.file = p.file /\ (q.ion # Edit!Unset => q.ion \in DOMAIN now.files[p.file].ions)
    <3>1. q = [p EXCEPT ![col] = x] /\ (col = "ion" => x \in DOMAIN now.files[p.file].ions)
      BY <1>1
    <3> HIDE DEF p, q
    <3>2. CASE col = "lo"
      BY <2>2, <2>3, <3>1, <3>2 DEF Pending
    <3>3. CASE col = "hi"
      BY <2>2, <2>3, <3>1, <3>3 DEF Pending
    <3>4. CASE col = "ion"
      BY <2>2, <2>3, <3>1, <3>4 DEF Pending
    <3> QED
      BY <3>2, <3>3, <3>4
  <2>5. \A y \in {"filter", "file", "sel", "cur", "open", "strayed", "regions"} : t[y] = now[y]
    BY <1>5, <1>8, <2>0 DEF EditFields
  <2>6. \A y \in {"filter", "file", "sel", "cur", "open", "strayed", "files", "pending"} : now'[y] = t[y]
    BY <1>9, <1>10 DEF EditFields
  <2>7. now'.regions = [t.regions EXCEPT ![t.sel] = Edit!RegionsOf(t.files[t.cur])]
    BY <1>9, <1>10 DEF EditFields
  <2>8. t.files = s.files /\ t.pending = s.pending
    BY <1>8 DEF EditFields
  <2>9. CASE Edit!Finished(q)
    <3>1. c = now.cur /\ c \in 1..2
      BY <1>2, <1>6, <1>13, <2>9
    <3>2. LET b == Edit!Bounds(q.lo, q.hi, q.ion) IN b \in Row /\ b.ion = q.ion
      BY <2>4 DEF Edit!Bounds, Row, Pending
    <3>3. q.ion \in DOMAIN now.files[c].ions
      BY <2>4, <2>9 DEF Edit!Finished
    <3> HIDE DEF q, c, p
    <3>4. LiveFile(g)
      BY <1>2, <2>1, <3>1, <3>2, <3>3, AddedLives
    <3>5. DOMAIN now.files[c].ions \subseteq DOMAIN g.ions
      BY <1>2, <3>1 DEF Shaped
    <3> HIDE DEF g
    <3>6. LivePending(out, now.files)
      BY <2>1, SwapOutLives
    <3>7. LivePending(out, [now.files EXCEPT ![c] = g])
      BY <3>1, <3>5, <3>6, PendingStays
    <3> HIDE DEF out
    <3>8. t.files = [now.files EXCEPT ![now.cur] = g] /\ LivePending(t.pending, t.files)
      BY <1>6, <2>8, <2>9, <3>1, <3>7
    <3>9. \A y \in 1..2 : t.files[y] = IF y = now.cur THEN g ELSE now.files[y]
      BY <1>2, <3>8
    <3> QED
      BY <1>1, <1>8, <2>0, <2>5, <2>6, <2>7, <3>4, <3>8, <3>9, LiveRemade
  <2>10. CASE ~Edit!Finished(q)
    <3> DEFINE h == now.files[now.cur]
    <3>1. LiveFile(h) /\ \A y \in 1..2 : now.files[y] = IF y = now.cur THEN h ELSE now.files[y]
      BY <1>2, <2>1
    <3>2. LivePending(put, now.files)
      <4> HIDE DEF q
      <4> DEFINE n == Len(now.pending)
      <4>1. now.pending \in Seq(Pending) /\ n \in Nat /\ DOMAIN now.pending = 1..n /\ d \in 1..n
        BY <2>1 DEF LivePending
      <4> HIDE DEF n
      <4>2. put \in Seq(Pending) /\ DOMAIN put = 1..n /\ \A e \in 1..n : put[e] = IF e = d THEN q ELSE now.pending[e]
        BY <2>4, <4>1
      <4> HIDE DEF put
      <4> QED
        BY <2>1, <2>4, <4>1, <4>2 DEF LivePending
    <3> HIDE DEF put, q, h
    <3>3. (\A y \in 1..2 : t.files[y] = IF y = now.cur THEN h ELSE now.files[y]) /\ LivePending(t.pending, t.files)
      BY <1>7, <2>8, <2>10, <3>1, <3>2
    <3> QED
      BY <1>1, <1>8, <2>0, <2>5, <2>6, <2>7, <3>1, <3>3, LiveRemade
  <2> QED
    BY <2>9, <2>10
<1> QED
  BY <1>12, <1>13

\* The ions of the file that is edited may change their names, and be more.
LEMMA IonsMayGrow ==
    ASSUME EditInv, LiveInv, now.open, NEW q, DOMAIN now.files[now.cur].ions \subseteq DOMAIN q,
           \A y \in EditFields \ {"edits", "ready", "unchecked"} : now'[y] = [now EXCEPT !.files[now.cur].ions = q][y]
    PROVE  LiveInv'
<1> DEFINE c == now.cur
           f == now.files[c]
           g == [f EXCEPT !.ions = q]
           t == [now EXCEPT !.files[c].ions = q]
<1>1. DOMAIN now = EditFields /\ c \in 1..2 /\ DOMAIN now.files = 1..2 /\ Shaped(f)
  BY DEF EditInv, FilesHold
<1>2. /\ \A y \in EditFields \ {"files"} : t[y] = now[y]
      /\ \A y \in 1..2 : t.files[y] = IF y = c THEN g ELSE now.files[y]
  BY <1>1 DEF EditFields
<1>3. g.ions = q /\ g.rs = f.rs
  BY <1>1 DEF Shaped
<1> HIDE DEF t, g
<1>4. /\ \A y \in {"filter", "file", "sel", "cur", "open", "strayed", "pending", "regions"} : now'[y] = now[y]
      /\ now'.files = t.files
  BY <1>2 DEF EditFields, t
<1>5. CASE now.strayed
  BY <1>4, <1>5, StrayedLives DEF LiveInv
<1>6. CASE ~now.strayed
  <2>1. LiveDialog(now)
    BY <1>6 DEF LiveInv
  <2>2. LiveFile(f)
    BY <1>1, <2>1 DEF LiveDialog
  <2> HIDE DEF f
  <2>3. LiveFile(g)
    BY <1>3, <2>2 DEF LiveFile, f
  <2>4. LivePending(now.pending, now'.files)
    <3>1. LivePending(now.pending, now.files)
      BY <2>1 DEF LiveDialog
    <3>2. ASSUME NEW d \in DOMAIN now.pending, now.pending[d].ion # Edit!Unset
          PROVE  now.pending[d].ion \in DOMAIN now'.files[now.pending[d].file].ions
      <4> DEFINE p == now.pending[d]
      <4>1. now.pending \in Seq(Pending) /\ (p.ion # Edit!Unset => p.ion \in DOMAIN now.files[p.file].ions)
        BY <3>1 DEF LivePending
      <4>2. p \in Pending /\ p.ion # Edit!Unset
        BY <3>2, <4>1
      <4>3. p.file \in 1..2 /\ p.ion \in DOMAIN now.files[p.file].ions
        BY <4>1, <4>2 DEF Pending
      <4> HIDE DEF p
      <4>4. p.ion \in DOMAIN now'.files[p.file].ions
        BY <1>2, <1>3, <1>4, <4>3 DEF f
      <4> QED
        BY <4>4 DEF p
    <3> QED
      BY <3>1, <3>2 DEF LivePending
  <2>5. now.file[1] # now.file[2] => Facing(now'.regions[now.sel], g.rs)
    <3>1. now.sel \in Edit!Plots /\ c = now.file[now.sel]
      BY <2>1 DEF LiveDialog
    <3> QED
      BY <1>3, <1>4, <2>1, <3>1 DEF LiveDialog, Faced, f
  <2>6. DOMAIN now'.regions = Edit!Plots /\ \A p \in Edit!Plots \ {now.sel} : now'.regions[p] = now.regions[p]
    BY <1>4, <2>1 DEF LiveDialog
  <2>7. LivePending(now'.pending, now'.files) /\ \A y \in 1..2 : now'.files[y] = IF y = c THEN g ELSE now.files[y]
    BY <1>2, <1>4, <2>4
  <2> QED
    BY <1>4, <1>6, <2>3, <2>5, <2>6, <2>7, LiveAfter
<1> QED
  BY <1>5, <1>6

\* A new ion goes behind the others, and a renamed one keeps its place.
LEMMA IonsLives ==
    ASSUME EditInv, LiveInv, NEW n \in IonNames,
           (\E last \in BOOLEAN : Edit!NewIon(n, last)) \/ (\E k \in Edit!CurIons : Edit!RenameIon(k, n))
    PROVE  LiveInv'
<1> DEFINE c == now.cur
           f == now.files[c]
<1>1. DOMAIN now = EditFields /\ c \in 1..2 /\ (now.open => Shaped(f))
  BY DEF EditInv, FilesHold
<1>2. ASSUME NEW s, DOMAIN s = EditFields
      PROVE  /\ \A y \in EditFields \ {"edits", "ready", "unchecked"} : Edit!Edited(s)[y] = s[y]
             /\ \A y \in EditFields \ {"edits", "ready", "unchecked"} : Edit!Ready(Edit!Edited(s))[y] = s[y]
  <2> DEFINE e == Edit!Edited(s)
  <2>1. DOMAIN e = EditFields /\ \A y \in EditFields \ {"edits"} : e[y] = s[y]
    BY <1>2, UpdatesLeave
  <2> HIDE DEF e
  <2>2. \A y \in EditFields \ {"ready", "unchecked"} : Edit!Ready(e)[y] = e[y]
    BY <2>1, UpdatesLeave
  <2>3. \A y \in EditFields \ {"edits", "ready", "unchecked"} : Edit!Ready(e)[y] = s[y]
    BY <2>1, <2>2
  <2> QED
    BY <2>1, <2>3 DEF e
<1>3. ASSUME NEW last \in BOOLEAN, Edit!NewIon(n, last) PROVE LiveInv'
  <2> DEFINE q == Append(f.ions, n)
             t == [now EXCEPT !.files[c].ions = q]
  <2>1. now.open /\ now' = IF last THEN Edit!Ready(Edit!Edited(t)) ELSE Edit!Edited(t)
    BY <1>3 DEF Edit!NewIon, Edit!Becomes
  <2>2. DOMAIN f.ions \subseteq DOMAIN q
    <3>1. f.ions \in Seq(IonNames)
      BY <1>1, <2>1 DEF Shaped
    <3> QED
      BY <3>1
  <2> HIDE DEF q
  <2>3. DOMAIN t = EditFields
    BY <1>1
  <2> HIDE DEF t
  <2>4. \A y \in EditFields \ {"edits", "ready", "unchecked"} : now'[y] = t[y]
    BY <1>2, <2>1, <2>3
  <2> QED
    BY <2>1, <2>2, <2>4, IonsMayGrow DEF t
<1>4. ASSUME NEW k \in Edit!CurIons, Edit!RenameIon(k, n) PROVE LiveInv'
  <2> DEFINE q == [f.ions EXCEPT ![k] = n]
             t == [now EXCEPT !.files[c].ions = q]
             u == [now EXCEPT !.files[c].ions[k] = n]
  <2>1. now.open /\ now' = Edit!Ready(Edit!Edited(u))
    BY <1>4 DEF Edit!RenameIon, Edit!Becomes
  <2>2. DOMAIN f.ions \subseteq DOMAIN q
    OBVIOUS
  <2>3. t = u
    OBVIOUS
  <2> HIDE DEF q, u
  <2>4. DOMAIN t = EditFields
    BY <1>1
  <2> HIDE DEF t
  <2>5. \A y \in EditFields \ {"edits", "ready", "unchecked"} : now'[y] = t[y]
    BY <1>2, <2>1, <2>3, <2>4
  <2> QED
    BY <2>1, <2>2, <2>5, IonsMayGrow DEF t
<1> QED
  BY <1>3, <1>4

\* A range that is erased goes from the plot as well.
LEMMA RemoveRangeLives ==
    ASSUME EditInv, LiveInv, NEW row, Edit!RemoveRange(row)
    PROVE  LiveInv'
<1> DEFINE c == now.cur
           f == now.files[c]
           g == Edit!EraseRange(f, row)
           t == [now EXCEPT !.files[c] = g]
           u == Edit!Edited(t)
           v == Edit!WithRows(u)
           w == Edit!WithRegions(v)
<1>1. now.open /\ now' = Edit!Ready(w) /\ row \in DOMAIN f.rs
  BY DEF Edit!RemoveRange, Edit!Becomes
<1>2. DOMAIN now = EditFields /\ c \in 1..2 /\ DOMAIN now.files = 1..2 /\ Shaped(f)
  BY <1>1 DEF EditInv, FilesHold
<1> HIDE DEF g
<1>3. /\ DOMAIN t = EditFields /\ \A y \in EditFields \ {"files"} : t[y] = now[y]
      /\ \A y \in 1..2 : t.files[y] = IF y = c THEN g ELSE now.files[y]
      /\ t.files = [now.files EXCEPT ![c] = g]
  BY <1>2 DEF EditFields
<1> HIDE DEF t
<1>4. DOMAIN u = EditFields /\ \A y \in EditFields \ {"edits"} : u[y] = t[y]
  BY <1>3, UpdatesLeave
<1> HIDE DEF u
<1>5. DOMAIN v = EditFields /\ \A y \in EditFields \ {"rows"} : v[y] = u[y]
  BY <1>4, UpdatesLeave
<1> HIDE DEF v
<1>6. DOMAIN w = EditFields /\ (\A y \in EditFields \ {"regions"} : w[y] = v[y])
      /\ w.regions = [v.regions EXCEPT ![v.sel] = Edit!RegionsOf(v.files[v.cur])]
  BY <1>5, UpdatesLeave
<1> HIDE DEF w
<1>7. \A y \in EditFields \ {"ready", "unchecked"} : now'[y] = w[y]
  <2>1. \A y \in EditFields \ {"ready", "unchecked"} : Edit!Ready(w)[y] = w[y]
    BY <1>6, UpdatesLeave
  <2> QED
    BY <1>1, <2>1
<1>8. /\ \A y \in {"filter", "file", "sel", "cur", "open", "strayed", "pending", "regions"} : v[y] = now[y]
      /\ v.files = t.files
      /\ now'.regions = [v.regions EXCEPT ![v.sel] = Edit!RegionsOf(v.files[v.cur])]
      /\ \A y \in {"filter", "file", "sel", "cur", "open", "strayed", "files", "pending"} : now'[y] = v[y]
  BY <1>3, <1>4, <1>5, <1>6, <1>7 DEF EditFields
<1>9. CASE now.strayed
  BY <1>1, <1>8, <1>9, StrayedLives DEF LiveInv
<1>10. CASE ~now.strayed
  <2>1. LiveFile(f) /\ LivePending(now.pending, now.files)
    BY <1>1, <1>2, <1>10 DEF LiveInv, LiveDialog
  <2> HIDE DEF f
  <2>2. LiveFile(g) /\ g.ions = f.ions
    BY <1>1, <1>2, <2>1, ErasedLives DEF g
  <2>3. LivePending(v.pending, v.files)
    BY <1>3, <1>8, <2>1, <2>2, PendingStays DEF f
  <2>4. \A y \in 1..2 : v.files[y] = IF y = c THEN g ELSE now.files[y]
    BY <1>3, <1>8
  <2>5. \A y \in {"filter", "file", "sel", "cur", "open", "strayed", "regions"} : v[y] = now[y]
    BY <1>8
  <2> QED
    BY <1>1, <1>5, <1>8, <1>10, <2>2, <2>3, <2>4, <2>5, LiveRemade
<1> QED
  BY <1>9, <1>10

\* A pending range is dropped.
LEMMA RemovePendingLives ==
    ASSUME EditInv, LiveInv, NEW d \in DOMAIN now.pending, Edit!RemovePending(d)
    PROVE  LiveInv'
<1> DEFINE c == now.cur
           g == now.files[c]
           q == Edit!SwapOut(now.pending, d)
           t == [now EXCEPT !.pending = q]
           v == Edit!WithRows(t)
           w == Edit!WithRegions(v)
<1>1. now.open /\ now' = Edit!Ready(w)
  BY DEF Edit!RemovePending, Edit!Becomes
<1>2. DOMAIN now = EditFields /\ c \in 1..2
  BY DEF EditInv, FilesHold
<1> HIDE DEF q
<1>3. DOMAIN t = EditFields /\ t.pending = q /\ \A y \in EditFields \ {"pending"} : t[y] = now[y]
  BY <1>2 DEF EditFields
<1> HIDE DEF t
<1>4. DOMAIN v = EditFields /\ \A y \in EditFields \ {"rows"} : v[y] = t[y]
  BY <1>3, UpdatesLeave
<1> HIDE DEF v
<1>5. DOMAIN w = EditFields /\ (\A y \in EditFields \ {"regions"} : w[y] = v[y])
      /\ w.regions = [v.regions EXCEPT ![v.sel] = Edit!RegionsOf(v.files[v.cur])]
  BY <1>4, UpdatesLeave
<1> HIDE DEF w
<1>6. \A y \in EditFields \ {"ready", "unchecked"} : now'[y] = w[y]
  <2>1. DOMAIN w = EditFields
    BY <1>5
  <2>2. \A y \in EditFields \ {"ready", "unchecked"} : Edit!Ready(w)[y] = w[y]
    BY <2>1, ReadyLeaves
  <2> QED
    BY <1>1, <2>2
<1>7. /\ \A y \in {"filter", "file", "sel", "cur", "open", "strayed", "regions"} : v[y] = now[y]
      /\ v.files = now.files /\ v.pending = q
      /\ now'.regions = [v.regions EXCEPT ![v.sel] = Edit!RegionsOf(v.files[v.cur])]
      /\ \A y \in {"filter", "file", "sel", "cur", "open", "strayed", "files", "pending"} : now'[y] = v[y]
  BY <1>3, <1>4, <1>5, <1>6 DEF EditFields
<1>8. CASE now.strayed
  BY <1>1, <1>7, <1>8, StrayedLives DEF LiveInv
<1>9. CASE ~now.strayed
  <2>1. LiveFile(g) /\ LivePending(now.pending, now.files)
    BY <1>1, <1>2, <1>9 DEF LiveInv, LiveDialog
  <2>2. LivePending(v.pending, v.files)
    BY <1>7, <2>1, SwapOutLives DEF q
  <2>3. \A y \in 1..2 : v.files[y] = IF y = c THEN g ELSE now.files[y]
    BY <1>7
  <2>4. \A y \in {"filter", "file", "sel", "cur", "open", "strayed", "regions"} : v[y] = now[y]
    BY <1>7
  <2> QED
    BY <1>1, <1>4, <1>7, <1>9, <2>1, <2>2, <2>3, <2>4, LiveRemade
<1> QED
  BY <1>8, <1>9

\* An ion goes while nothing is pending with an ion.
LEMMA RemoveIonLives ==
    ASSUME EditInv, LiveInv, NEW k \in Edit!CurIons, Edit!RemoveIon(k)
    PROVE  LiveInv'
<1> DEFINE c == now.cur
           f == now.files[c]
           g == Edit!EraseIon(f, k)
           b == now.strayed \/ \E d \in DOMAIN now.pending : now.pending[d].ion # Edit!Unset
           t == [now EXCEPT !.files[c] = g, !.strayed = b]
           u == Edit!Edited(t)
           v == Edit!WithRows(u)
           w == Edit!WithRegions(v)
<1>1. now.open /\ now' = Edit!Ready(w)
  BY DEF Edit!RemoveIon, Edit!Becomes
<1>2. DOMAIN now = EditFields /\ c \in 1..2 /\ DOMAIN now.files = 1..2 /\ Shaped(f) /\ k \in DOMAIN f.ions
  BY <1>1 DEF EditInv, FilesHold, Edit!CurIons
<1>b. b \in BOOLEAN
  BY DEF LiveInv
<1> HIDE DEF g, b
<1>3. /\ DOMAIN t = EditFields /\ (\A y \in EditFields \ {"files", "strayed"} : t[y] = now[y]) /\ t.strayed = b
      /\ \A y \in 1..2 : t.files[y] = IF y = c THEN g ELSE now.files[y]
  BY <1>2 DEF EditFields
<1> HIDE DEF t
<1>4. DOMAIN u = EditFields /\ \A y \in EditFields \ {"edits"} : u[y] = t[y]
  BY <1>3, UpdatesLeave
<1> HIDE DEF u
<1>5. DOMAIN v = EditFields /\ \A y \in EditFields \ {"rows"} : v[y] = u[y]
  BY <1>4, UpdatesLeave
<1> HIDE DEF v
<1>6. DOMAIN w = EditFields /\ (\A y \in EditFields \ {"regions"} : w[y] = v[y])
      /\ w.regions = [v.regions EXCEPT ![v.sel] = Edit!RegionsOf(v.files[v.cur])]
  BY <1>5, UpdatesLeave
<1> HIDE DEF w
<1>7. \A y \in EditFields \ {"ready", "unchecked"} : now'[y] = w[y]
  <2>1. \A y \in EditFields \ {"ready", "unchecked"} : Edit!Ready(w)[y] = w[y]
    BY <1>6, UpdatesLeave
  <2> QED
    BY <1>1, <2>1
<1>8. /\ \A y \in {"filter", "file", "sel", "cur", "open", "pending", "regions"} : v[y] = now[y]
      /\ v.files = t.files /\ v.strayed = b
      /\ now'.regions = [v.regions EXCEPT ![v.sel] = Edit!RegionsOf(v.files[v.cur])]
      /\ \A y \in {"filter", "file", "sel", "cur", "open", "strayed", "files", "pending"} : now'[y] = v[y]
  BY <1>3, <1>4, <1>5, <1>6, <1>7 DEF EditFields
<1>9. CASE b
  BY <1>b, <1>1, <1>8, <1>9, StrayedLives
<1>10. CASE ~b
  <2>0. ~now.strayed /\ now.strayed = b /\ \A d \in DOMAIN now.pending : now.pending[d].ion = Edit!Unset
    BY <1>b, <1>10 DEF b, LiveInv
  <2>1. LiveFile(f) /\ LivePending(now.pending, now.files)
    BY <1>1, <1>2, <2>0 DEF LiveInv, LiveDialog
  <2> HIDE DEF f
  <2>2. LiveFile(g)
    BY <1>2, <2>1, EraseIonLives DEF g
  <2>3. LivePending(v.pending, v.files)
    BY <1>8, <2>0, <2>1 DEF LivePending
  <2>4. \A y \in 1..2 : v.files[y] = IF y = c THEN g ELSE now.files[y]
    BY <1>3, <1>8
  <2>5. \A y \in {"filter", "file", "sel", "cur", "open", "strayed", "regions"} : v[y] = now[y]
    BY <1>8, <2>0
  <2> QED
    BY <1>1, <1>5, <1>8, <2>0, <2>2, <2>3, <2>4, <2>5, LiveRemade
<1> QED
  BY <1>9, <1>10

\* A drag moves a range and its region alike, as long as the region has a
\* width.
LEMMA MovedAlike ==
    ASSUME NEW r \in Row, NEW reg \in Region, reg.lo = r.lo, reg.hi = r.hi,
           r.lo < r.hi, NEW m \in Edit!Methods, NEW x \in Int
    PROVE  LET new == Edit!Moved(r, m, x)  mov == Edit!Moved(reg, m, x)
           IN  mov \in Region /\ mov.id = reg.id /\ mov.lo = new.lo /\ mov.hi = new.hi
<1>1. r.lo \in Int /\ r.hi \in Int /\ DOMAIN r = {"lo", "hi", "ion"}
  BY DEF Row
<1>2. CASE m = "lower"
  BY <1>1, <1>2 DEF Edit!Moved, Edit!Ordered, Region
<1>3. CASE m = "upper"
  BY <1>1, <1>3 DEF Edit!Moved, Edit!Ordered, Region
<1>4. CASE m = "both"
  <2> DEFINE h == x + (r.hi - r.lo)
  <2>1. h \in Int /\ Edit!Moved(r, m, x) = [r EXCEPT !.lo = x, !.hi = h]
          /\ Edit!Moved(reg, m, x) = [reg EXCEPT !.lo = x, !.hi = h]
    BY <1>1, <1>4 DEF Edit!Moved
  <2> HIDE DEF h
  <2> QED
    BY <1>1, <2>1 DEF Region
<1> QED
  BY <1>2, <1>3, <1>4 DEF Edit!Methods

\* A region that is dragged stays one.
LEMMA EditMovedType ==
    ASSUME NEW r \in Row, NEW m \in Edit!Methods, NEW x \in Int
    PROVE  Edit!Moved(r, m, x) \in Row /\ Edit!Moved(r, m, x).ion = r.ion
<1>1. CASE m = "lower"
  BY <1>1 DEF Edit!Moved, Edit!Ordered, Row
<1>2. CASE m = "upper"
  BY <1>2 DEF Edit!Moved, Edit!Ordered, Row
<1>3. CASE m = "both"
  <2> DEFINE h == x + (r.hi - r.lo)
  <2>1. h \in Int /\ Edit!Moved(r, m, x) = [r EXCEPT !.lo = x, !.hi = h]
    BY <1>3 DEF Edit!Moved, Row
  <2> HIDE DEF h
  <2> QED
    BY <2>1 DEF Row
<1> QED
  BY <1>1, <1>2, <1>3 DEF Edit!Methods

\* A drag of a region changes its range with it.
LEMMA DragLives ==
    ASSUME EditInv, LiveInv, NEW m \in Edit!Methods, NEW x \in Masses, NEW i \in Edit!CurRegions, Edit!Drag(i, m, x)
    PROVE  LiveInv'
<1> DEFINE p == now.sel
           c == now.file[p]
           f == now.files[c]
           reg == now.regions[p][i]
           id == reg.id
           rng == f.rs[id]
           new == Edit!Moved(rng, m, x)
           row == IF new.lo = new.hi THEN rng ELSE new
           mov == Edit!Moved(reg, m, x)
           regs == [now.regions[p] EXCEPT ![i] = mov]
           g == [f EXCEPT !.rs = [f.rs EXCEPT ![id] = row]]
           t == [now EXCEPT !.files[c] = g, !.regions[p] = regs]
           u == Edit!Edited(t)
           w == Edit!WithRows(u)
           old == [now EXCEPT !.files[c].rs[id] = row, !.regions[p][i] = mov]
<1>1. now.open /\ now' = Edit!Ready(Edit!WithRows(Edit!Edited(old))) /\ reg.lo < reg.hi /\ id \in DOMAIN f.rs
  BY ZenonT(60) DEF Edit!Drag, Edit!Becomes
<1>2. DOMAIN now = EditFields /\ DOMAIN now.files = 1..2 /\ x \in Int
  BY <1>1, RangesAssumption DEF EditInv, FilesHold
<1>3. t = old
  <2> HIDE DEF row, mov, p, id
  <2> QED
    BY <1>2 DEF EditFields
<1> HIDE DEF old, g, regs
<1>4. /\ DOMAIN t = EditFields /\ \A y \in EditFields \ {"files", "regions"} : t[y] = now[y]
      /\ t.files = [now.files EXCEPT ![c] = g] /\ t.regions = [now.regions EXCEPT ![p] = regs]
  BY <1>2 DEF EditFields
<1> HIDE DEF t
<1>5. DOMAIN u = EditFields /\ \A y \in EditFields \ {"edits"} : u[y] = t[y]
  BY <1>4, UpdatesLeave
<1> HIDE DEF u
<1>6. DOMAIN w = EditFields /\ \A y \in EditFields \ {"rows"} : w[y] = u[y]
  BY <1>5, UpdatesLeave
<1>7. now' = Edit!Ready(w)
  BY <1>1, <1>3 DEF w, u
<1> HIDE DEF w
<1>8. \A y \in EditFields \ {"ready", "unchecked"} : now'[y] = w[y]
  <2>1. \A y \in EditFields \ {"ready", "unchecked"} : Edit!Ready(w)[y] = w[y]
    BY <1>6, ReadyLeaves
  <2> QED
    BY <1>7, <2>1
<1>9. /\ \A y \in {"filter", "file", "sel", "cur", "open", "strayed", "pending"} : now'[y] = now[y]
      /\ now'.files = t.files /\ now'.regions = t.regions
  BY <1>4, <1>5, <1>6, <1>8 DEF EditFields
<1>10. CASE now.strayed
  BY <1>1, <1>9, <1>10, StrayedLives DEF LiveInv
<1>11. CASE ~now.strayed
  <2>1. LiveDialog(now) /\ p \in Edit!Plots /\ c = now.cur /\ DOMAIN now.regions = Edit!Plots
    BY <1>1, <1>11 DEF LiveInv, LiveDialog
  <2>2. c \in 1..2 /\ Shaped(f) /\ LiveFile(f)
    BY <1>1, <2>1 DEF EditInv, FilesHold, LiveDialog
  <2>3. rng \in Row /\ rng.ion \in DOMAIN f.ions
    <3> DEFINE rs == f.rs
    <3>1. rs \in Seq(Row) /\ id \in DOMAIN rs /\ \A y \in DOMAIN rs : rs[y].ion \in DOMAIN f.ions
      BY <1>1, <2>2 DEF LiveFile
    <3> HIDE DEF id, rs
    <3>2. rs[id] \in Row /\ rs[id].ion \in DOMAIN f.ions
      BY <3>1
    <3> QED
      BY <3>2 DEF rs
  <2>4. row \in Row /\ row.ion = rng.ion
    <3> HIDE DEF rng
    <3>1. new \in Row /\ new.ion = rng.ion
      BY <1>2, <2>3, EditMovedType
    <3> HIDE DEF new
    <3> QED
      BY <2>3, <3>1
  <2>5. LiveFile(g) /\ g.ions = f.ions /\ g.rs = [f.rs EXCEPT ![id] = row]
    <3> HIDE DEF row, f, id, rng
    <3>1. row.ion \in DOMAIN f.ions /\ id \in DOMAIN f.rs
      BY <1>1, <2>3, <2>4 DEF id
    <3> QED
      BY <2>2, <2>4, <3>1, ChangedLives DEF g
  <2>6. ASSUME now.file[1] # now.file[2] PROVE Facing(regs, g.rs)
    <3> DEFINE rs == f.rs
               rgs == now.regions[p]
               nrs == [rs EXCEPT ![i] = row]
    <3>1. Facing(rgs, rs)
      BY <2>1, <2>6 DEF LiveDialog, Faced
    <3>2. i \in DOMAIN rs
      BY <1>1, <2>1, <3>1 DEF Edit!CurRegions, Facing
    <3>3. id = i /\ reg \in Region /\ reg.lo = rng.lo /\ reg.hi = rng.hi
      BY <1>1, <3>1, <3>2 DEF Facing
    <3> HIDE DEF id, reg, rng
    <3>4. rng.lo < rng.hi
      BY <1>1, <3>3
    <3>5. mov \in Region /\ mov.id = i /\ mov.lo = new.lo /\ mov.hi = new.hi
      BY <1>2, <2>3, <3>3, <3>4, MovedAlike DEF id
    <3>6. new.lo \in Int /\ new.hi \in Int
      BY <1>2, <2>3, EditMovedType DEF Row
    <3> HIDE DEF mov, new
    <3>7. mov.lo < mov.hi => mov.lo = row.lo /\ mov.hi = row.hi
      BY <3>5, <3>6
    <3>8. regs = [rgs EXCEPT ![i] = mov] /\ g.rs = nrs
      BY <2>5, <3>3 DEF regs
    <3> HIDE DEF row, rs, rgs
    <3>9. Facing([rgs EXCEPT ![i] = mov], nrs)
      BY <3>1, <3>2, <3>5, <3>6, <3>7 DEF Facing
    <3> QED
      BY <3>8, <3>9
  <2> HIDE DEF f, regs
  <2>7. \A y \in 1..2 : now'.files[y] = IF y = c THEN g ELSE now.files[y]
    BY <1>2, <1>4, <1>9
  <2>8. LivePending(now'.pending, now'.files)
    <3>1. LivePending(now.pending, now.files)
      BY <2>1 DEF LiveDialog
    <3>2. LivePending(now.pending, [now.files EXCEPT ![now.cur] = g])
      BY <2>1, <2>5, <3>1, PendingStays DEF f
    <3> QED
      BY <1>4, <1>9, <2>1, <3>2
  <2>9. DOMAIN now'.regions = Edit!Plots /\ now'.regions[p] = regs
        /\ \A y \in Edit!Plots \ {p} : now'.regions[y] = now.regions[y]
    BY <1>4, <1>9, <2>1
  <2>10. \A y \in {"filter", "file", "sel", "cur", "open", "strayed"} : now'[y] = now[y]
    BY <1>9
  <2>11. /\ \A y \in 1..2 : now'.files[y] = IF y = now.cur THEN g ELSE now.files[y]
         /\ \A y \in Edit!Plots \ {now.sel} : now'.regions[y] = now.regions[y]
         /\ now.file[1] # now.file[2] => Facing(now'.regions[now.sel], g.rs)
    <3> HIDE DEF c
    <3> QED
      BY <2>1, <2>6, <2>7, <2>9
  <2> HIDE DEF p, c
  <2> QED
    BY <1>1, <1>11, <2>5, <2>8, <2>9, <2>10, <2>11, LiveAfter
<1> QED
  BY <1>10, <1>11

\* Every step of the range editor.
LEMMA LiveStep ==
    ASSUME EditInv, LiveInv, Edit!Next
    PROVE  LiveInv'
<1>1. CASE Edit!OpenDialog \/ Edit!OnOK \/ Edit!OnCancel \/ \E p \in Edit!Plots : Edit!OnListPlots(p)
  BY <1>1, OpenLives, CloseLives, ListLives
<1>2. CASE Edit!Editing
  <2>1. CASE \E f \in 1..2, m \in Edit!Methods, x \in Masses : \E i \in DOMAIN now.filter[f].rs : Edit!MainDrag(f, i, m, x)
    BY <2>1, MainDragLives
  <2>2. CASE \E row \in 1..now.rows, col \in {"lo", "hi", "ion"}, x \in Masses : Edit!Cell(row, col, x)
    BY <2>2, CellLives
  <2>3. CASE Edit!AddPending
    BY <2>3, AddLives
  <2>4. CASE \E d \in DOMAIN now.pending, col \in {"lo", "hi", "ion"}, x \in Masses : Edit!PendingCell(d, col, x)
    BY <2>4, PendingLives
  <2>5. CASE (\E n \in IonNames, b \in BOOLEAN : Edit!NewIon(n, b)) \/ \E n \in IonNames : \E k \in Edit!CurIons : Edit!RenameIon(k, n)
    BY <2>5, IonsLives
  <2>6. CASE \E row \in 1..now.rows : Edit!RemoveRange(row)
    BY <2>6, RemoveRangeLives
  <2>7. CASE \E d \in DOMAIN now.pending : Edit!RemovePending(d)
    BY <2>7, RemovePendingLives
  <2>8. CASE \E k \in Edit!CurIons : Edit!RemoveIon(k)
    BY <2>8, RemoveIonLives
  <2>9. CASE \E m \in Edit!Methods, x \in Masses : \E g \in Edit!CurRegions : Edit!Drag(g, m, x)
    BY <2>9, DragLives
  <2> QED
    BY <1>2, <2>1, <2>2, <2>3, <2>4, <2>5, <2>6, <2>7, <2>8, <2>9 DEF Edit!Editing
<1> QED
  BY <1>1, <1>2 DEF Edit!Next

\* What the themes ask of the editor.
LEMMA LiveKeeps ==
    ASSUME EditInv, LiveInv
    PROVE  Edit!IonsLive /\ Edit!RegionsAreRanges
<1>1. Edit!IonsLive
  <2>1. CASE now.open
    BY <2>1 DEF Edit!IonsLive, LiveInv, LiveDialog, LiveFile, EditInv, FilesHold
  <2>2. CASE ~now.open
    BY <2>2 DEF Edit!IonsLive, LiveInv
  <2> QED
    BY <2>1, <2>2
<1>2. Edit!RegionsAreRanges
  <2> DEFINE regs == now.regions[now.sel]
             rs == now.files[now.file[now.sel]].rs
  <2> SUFFICES ASSUME now.open, now.file[1] # now.file[2], ~now.strayed, NEW g \in DOMAIN regs
               PROVE  /\ Len(rs) = Len(regs)
                      /\ regs[g].lo < regs[g].hi => regs[g] = [lo |-> rs[regs[g].id].lo, hi |-> rs[regs[g].id].hi, id |-> g]
    BY DEF Edit!RegionsAreRanges
  <2>1. now.sel \in Edit!Plots /\ Facing(regs, rs) /\ rs \in Seq(Row)
    BY DEF LiveInv, LiveDialog, Faced, LiveFile, EditInv, FilesHold
  <2> HIDE DEF regs, rs
  <2>2. DOMAIN regs = DOMAIN rs /\ Len(rs) = Len(regs)
    BY <2>1 DEF Facing
  <2>3. regs[g] \in Region /\ regs[g].id = g /\ (regs[g].lo < regs[g].hi => regs[g].lo = rs[g].lo /\ regs[g].hi = rs[g].hi)
    BY <2>1, <2>2 DEF Facing
  <2> DEFINE e == regs[g]
  <2> HIDE DEF e
  <2>4. e \in Region => e = [lo |-> e.lo, hi |-> e.hi, id |-> e.id]
    BY DEF Region
  <2> QED
    BY <2>2, <2>3, <2>4 DEF e
<1> QED
  BY <1>1, <1>2

-----------------------------------------------------------------------------
(* Cropping: the panels agree, and the scene with them *)

\* How the panels are linked is by the axes they have, or as a load left them.
LinkedAs(s) ==
    \/ /\ \A p \in Crop!Panels : s.link[p] = "both"
       /\ s.axes[1] = s.axes[2] \/ (s.axes[1] = <<"x", "y">> /\ s.axes[2] = <<"x", "z">>)
    \/ (\A p \in Crop!Panels : s.link[p] = "lr") /\ s.axes[1][1] = s.axes[2][1] /\ s.axes[1][2] # s.axes[2][2]
    \/ (\A p \in Crop!Panels : s.link[p] = "tb") /\ s.axes[1][2] = s.axes[2][2] /\ s.axes[1][1] # s.axes[2][1]
    \/ \A p \in Crop!Panels : s.link[p] \notin {"both", "lr", "tb"}
\* The sides that are linked agree.
SidesOf(mode) == CASE mode = "both" -> Crop!Sides [] mode = "lr" -> {1, 3} [] mode = "tb" -> {2, 4} [] OTHER -> {}
Agree(s) == \A i \in SidesOf(s.link[1]) : s.crop[1][i] = s.crop[2][i]
\* The inductive invariant of Cropping, for what is linked and shown.
LinkInv == LinkedAs(now) /\ Agree(now) /\ Crop!CropIsCurrent

\* What follows is as what it follows.
LEMMA FollowSides ==
    ASSUME NEW to, NEW from, NEW mode \in {"both", "lr", "tb"}
    PROVE  \A i \in SidesOf(mode) : Crop!Follow(to, from, mode)[i] = from[i]
<1>1. ASSUME NEW i \in Crop!Sides, <<i, i>> \in Crop!Linked(mode), \A e \in Crop!Linked(mode) : e[1] = e[2]
      PROVE  Crop!Follow(to, from, mode)[i] = from[i]
  <2> DEFINE e == CHOOSE d \in Crop!Linked(mode) : d[1] = i
  <2>1. \E d \in Crop!Linked(mode) : d[1] = i
    BY <1>1
  <2>2. e \in Crop!Linked(mode) /\ e[1] = i
    BY <2>1
  <2>3. Crop!Follow(to, from, mode)[i] = from[e[2]]
    BY <2>1 DEF Crop!Follow
  <2> HIDE DEF e
  <2> QED
    BY <1>1, <2>2, <2>3
<1>2. CASE mode = "both"
  BY <1>1, <1>2 DEF Crop!Linked, SidesOf, Crop!Sides
<1>3. CASE mode = "lr"
  BY <1>1, <1>3 DEF Crop!Linked, SidesOf, Crop!Sides
<1>4. CASE mode = "tb"
  BY <1>1, <1>4 DEF Crop!Linked, SidesOf, Crop!Sides
<1> QED
  BY <1>2, <1>3, <1>4

\* A panel that follows another agrees with it.
LEMMA UpdatedAgrees ==
    ASSUME NEW s \in CropState, LinkedAs(s), NEW p \in Crop!Panels
    PROVE  LinkedAs(Crop!Updated(s, p)) /\ Agree(Crop!Updated(s, p)) /\ Crop!Updated(s, p).update[p] = TRUE
<1> DEFINE o == Crop!Other(p)
           f == Crop!Follow(s.crop[o], s.crop[p], s.link[p])
           r == [s EXCEPT !.update[p] = TRUE, !.crop[o] = f]
           m == s.link[1]
<1>1. Crop!Updated(s, p) = r
  BY DEF Crop!Updated
<1>2. o \in Crop!Panels /\ o # p
  BY DEF Crop!Other, Crop!Panels
<1>3. \A q \in Crop!Panels : q = p \/ q = o
  BY DEF Crop!Other, Crop!Panels
<1>4. m \in {"both", "lr", "tb"} => \A q \in Crop!Panels : s.link[q] = m
  BY DEF LinkedAs, Crop!Panels
<1>5. m \in {"both", "lr", "tb"} => \A i \in SidesOf(m) : f[i] = s.crop[p][i]
  BY <1>4, FollowSides
<1>6. m \notin {"both", "lr", "tb"} => SidesOf(m) = {}
  BY DEF SidesOf
<1> HIDE DEF o, f
<1>7. /\ r.link = s.link /\ r.axes = s.axes /\ r.update[p] = TRUE /\ r.crop[p] = s.crop[p] /\ r.crop[o] = f
  BY <1>2 DEF CropState
<1> HIDE DEF r
<1>8. LinkedAs(r)
  BY <1>7 DEF LinkedAs
<1>9. Agree(r)
  <2> SUFFICES ASSUME NEW i \in SidesOf(m) PROVE r.crop[1][i] = r.crop[2][i]
    BY <1>7 DEF Agree
  <2>1. f[i] = s.crop[p][i]
    BY <1>5, <1>6
  <2>2. (p = 1 /\ o = 2) \/ (p = 2 /\ o = 1)
    BY <1>2 DEF Crop!Panels
  <2> QED
    BY <1>7, <2>1, <2>2
<1> QED
  BY <1>1, <1>7, <1>8, <1>9

\* The panels are linked by their axes, and made alike.
LEMMA LinkedAgree ==
    ASSUME NEW s \in CropState
    PROVE  LinkedAs(Crop!LinkCropWidgets(s)) /\ Agree(Crop!LinkCropWidgets(s))
<1> DEFINE r == Crop!LinkCropWidgets(s)
           a == s.axes[1]
           b == s.axes[2]
           link == [p \in Crop!Panels |-> Crop!LinkMode(p, a, b)]
<1>1. r = [s EXCEPT !.link = link, !.crop[2] = s.crop[1]]
  BY DEF Crop!LinkCropWidgets
<1>2. link[1] = Crop!LinkMode(1, a, b) /\ link[2] = Crop!LinkMode(2, a, b) /\ \A p \in Crop!Panels : p = 1 \/ p = 2
  BY DEF Crop!Panels
<1> HIDE DEF link
<1>3. r.link = link /\ r.axes[1] = a /\ r.axes[2] = b /\ r.crop[1] = r.crop[2]
  BY <1>1 DEF CropState, Crop!Panels
<1> HIDE DEF r, a, b
<1>4. LinkedAs(r)
  <2>1. CASE a = b
    <3>1. Crop!LinkMode(1, a, b) = "both" /\ Crop!LinkMode(2, a, b) = "both"
      BY <2>1 DEF Crop!LinkMode
    <3>2. \A p \in Crop!Panels : r.link[p] = "both"
      BY <1>2, <1>3, <3>1 DEF Crop!Panels
    <3> QED
      BY <1>3, <2>1, <3>2 DEF LinkedAs
  <2>2. CASE a # b /\ a[1] = b[2] /\ a[2] = b[1]
    <3>1. a \in Crop!AxesOf /\ b \in Crop!AxesOf
      BY DEF a, b, CropState, Crop!Panels
    <3>2. a[1] # b[1] /\ a[2] # b[2]
      BY <2>2, <3>1 DEF Crop!AxesOf
    <3>3. Crop!LinkMode(1, a, b) = "bothflip" /\ Crop!LinkMode(2, a, b) = "bothflip"
      BY <2>2, <3>2 DEF Crop!LinkMode
    <3> QED
      BY <1>2, <1>3, <3>3 DEF LinkedAs
  <2>3. CASE a # b /\ a[1] = b[1] /\ ~(a[1] = b[2] /\ a[2] = b[1])
    <3>1. a \in Crop!AxesOf /\ b \in Crop!AxesOf
      BY DEF a, b, CropState, Crop!Panels
    <3>2. a[2] # b[2]
      BY <2>3, <3>1 DEF Crop!AxesOf
    <3> QED
      BY <1>2, <1>3, <2>3, <3>2 DEF Crop!LinkMode, LinkedAs
  <2>4. CASE a # b /\ a[1] # b[1] /\ a[2] = b[2] /\ ~(a[1] = b[2] /\ a[2] = b[1])
    BY <1>2, <1>3, <2>4 DEF Crop!LinkMode, LinkedAs
  <2>5. CASE a # b /\ a[1] # b[1] /\ a[2] # b[2] /\ ~(a[1] = b[2] /\ a[2] = b[1])
    BY <1>2, <1>3, <2>5 DEF Crop!LinkMode, LinkedAs
  <2> QED
    BY <2>1, <2>2, <2>3, <2>4, <2>5
<1>5. Agree(r)
  BY <1>3 DEF Agree
<1> QED
  BY <1>4, <1>5 DEF r

\* The effect is brought up to date: what the scene is to show stays the same.
LEMMA EffectsAgree ==
    ASSUME NEW s \in CropState
    PROVE  LET r == Crop!UpdatePostEffects(s)
           IN  /\ r.scene = Crop!Shown(r) /\ r.axes = s.axes /\ r.link = s.link /\ r.crop = s.crop
               /\ DOMAIN r.update = Crop!Panels
<1> DEFINE f == Crop!Shown(s)
           u == IF Crop!WillDoSomething(f) THEN <<FALSE, FALSE>> ELSE s.update
           r == [s EXCEPT !.scene = f, !.unshown = FALSE, !.update = u]
<1>1. Crop!UpdatePostEffects(s) = r
  BY DEF Crop!UpdatePostEffects
<1>2. DOMAIN u = Crop!Panels
  BY DEF CropState, Crop!Panels
<1> HIDE DEF f, u
<1>3. r.scene = f /\ r.axes = s.axes /\ r.link = s.link /\ r.crop = s.crop /\ r.post = s.post
        /\ r.on = s.on /\ r.update = u
  BY DEF CropState
<1> HIDE DEF r
<1>4. Crop!Fractions(r) = Crop!Fractions(s)
  BY <1>3 DEF Crop!Fractions
<1>5. Crop!Shown(r) = f
  BY <1>3, <1>4 DEF Crop!Shown, f
<1> QED
  BY <1>1, <1>2, <1>3, <1>5

\* An edit counts, and changes nothing else.
LEMMA EditedAgrees ==
    ASSUME NEW r \in CropState, Crop!Edited(r), LinkedAs(r), Agree(r),
           r.scene = Crop!Shown(r) \/ r.update[1] \/ r.update[2] \/ r.unshown
    PROVE  LinkInv'
<1>1. now' = [r EXCEPT !.edits = @ + 1]
  BY DEF Crop!Edited, Crop!Becomes
<1>2. \A y \in {"crop", "axes", "link", "update", "post", "on", "scene", "unshown"} : now'[y] = r[y]
  BY <1>1 DEF CropState
<1>3. Crop!Fractions(now') = Crop!Fractions(r)
  BY <1>2 DEF Crop!Fractions
<1>4. Crop!Shown(now') = Crop!Shown(r)
  BY <1>2, <1>3 DEF Crop!Shown
<1> QED
  BY <1>2, <1>4 DEF LinkInv, LinkedAs, Agree, Crop!CropIsCurrent

\* At the start the panels are linked and alike.
LEMMA LinkStart ==
    ASSUME Crop!Init
    PROVE  LinkInv
<1> DEFINE c == [i \in Crop!Sides |-> Inset]
<1> HIDE DEF c
<1>1. now = [crop |-> [p \in Crop!Panels |-> c], axes |-> <<Crop!FirstAxes, Crop!FirstAxes>>,
             link |-> <<"both", "both">>, update |-> <<FALSE, FALSE>>, drag |-> Crop!NoDrag, edits |-> 0,
             post |-> FALSE, on |-> FALSE, scene |-> Crop!NoCrop, unshown |-> FALSE]
  BY DEF Crop!Init, c
<1>2. now.crop[1] = now.crop[2] /\ now.axes[1] = now.axes[2] /\ (\A p \in Crop!Panels : now.link[p] = "both")
      /\ now.scene = Crop!NoCrop /\ ~now.post
  BY <1>1 DEF Crop!Panels
<1> QED
  BY <1>2 DEF LinkInv, LinkedAs, Agree, Crop!CropIsCurrent, Crop!Shown

\* Every step of the crop panels.
LEMMA LinkStep ==
    ASSUME CropInv, LinkInv, Crop!Next
    PROVE  LinkInv'
<1> USE DEF CropInv
<1>0. now \in CropState /\ LinkedAs(now) /\ Agree(now) /\ Crop!CropIsCurrent
  BY DEF LinkInv, ValidCrops
<1>a. ASSUME NEW r \in CropState, r.scene = Crop!Shown(r), LinkedAs(r), Agree(r), Crop!Becomes(r)
      PROVE  LinkInv'
  BY <1>a DEF Crop!Becomes, LinkInv, Crop!CropIsCurrent
<1>1. ASSUME NEW p \in Crop!Panels, NEW sel \in Crop!Widgets, Crop!MouseDown(p, sel) PROVE LinkInv'
  <2> DEFINE d == [panel |-> p, sel |-> sel, from |-> now.crop[p]]
             r == [now EXCEPT !.drag = d]
  <2>1. sel \in SUBSET Crop!Sides
    BY DEF Crop!Widgets, Crop!Sides
  <2>2. d \in Drags
    BY <2>1, <1>0 DEF CropState, Drags
  <2>3. Crop!Edited(r)
    BY <1>1 DEF Crop!MouseDown
  <2> HIDE DEF d
  <2>4. r \in CropState
          /\ \A y \in {"crop", "axes", "link", "update", "post", "on", "scene", "unshown"} : r[y] = now[y]
    BY <1>0, <2>2 DEF CropState
  <2> HIDE DEF r
  <2>5. Crop!Fractions(r) = Crop!Fractions(now)
    BY <2>4 DEF Crop!Fractions
  <2>6. LinkedAs(r) /\ Agree(r) /\ (r.scene = Crop!Shown(r) \/ r.update[1] \/ r.update[2] \/ r.unshown)
    BY <1>0, <2>4, <2>5 DEF LinkedAs, Agree, Crop!CropIsCurrent, Crop!Shown
  <2> QED
    BY <2>3, <2>4, <2>6, EditedAgrees
<1>2. ASSUME NEW p \in Crop!Panels, NEW sel \in Crop!Widgets, Crop!MouseDoubleLeftClick(p, sel)
      PROVE  LinkInv'
  <2> DEFINE c == [i \in Crop!Sides |-> IF i \in sel THEN 0 ELSE now.crop[p][i]]
             s == [now EXCEPT !.crop[p] = c]
             r == Crop!Updated(s, p)
  <2>1. now.crop[p] \in Crops /\ Crop!Valid(now.crop[p])
    BY DEF ValidCrops, CropState
  <2>2. c \in Crops /\ Crop!Valid(c)
    BY <2>1, CropAssumption DEF Crops, Crop!Valid, Crop!Sides
  <2>3. Crop!Edited(r)
    BY <1>2 DEF Crop!MouseDoubleLeftClick
  <2> HIDE DEF c
  <2>4. ValidCrops(s) /\ s.axes = now.axes /\ s.link = now.link
    BY <2>2 DEF ValidCrops, CropState
  <2>5. LinkedAs(s)
    BY <1>0, <2>4 DEF LinkedAs
  <2> HIDE DEF s
  <2>6. r \in CropState /\ LinkedAs(r) /\ Agree(r) /\ r.update[p] = TRUE
    BY <2>4, <2>5, UpdatedFits, UpdatedAgrees DEF ValidCrops
  <2> HIDE DEF r
  <2>7. r.update[1] \/ r.update[2]
    BY <2>6 DEF Crop!Panels
  <2> QED
    BY <2>3, <2>6, <2>7, EditedAgrees
<1>3. ASSUME NEW x \in -1..(Whole + 1), NEW y \in -1..(Whole + 1), Crop!MouseMove(x, y) PROVE LinkInv'
  <2>1. x \in Int /\ y \in Int
    BY CropAssumption
  <2>2. PICK p \in Crop!Panels : \E c \in Crops : Crop!Valid(c) /\ now' = Crop!Updated([now EXCEPT !.crop[p] = c], p)
    BY <1>3, <2>1, MouseMovesTo
  <2>3. PICK c \in Crops : Crop!Valid(c) /\ now' = Crop!Updated([now EXCEPT !.crop[p] = c], p)
    BY <2>2
  <2> DEFINE s == [now EXCEPT !.crop[p] = c]
  <2>4. s \in CropState /\ s.axes = now.axes /\ s.link = now.link
    BY <1>0 DEF CropState
  <2>5. LinkedAs(s)
    BY <1>0, <2>4 DEF LinkedAs
  <2>6. now' = Crop!Updated(s, p)
    BY <2>3
  <2> HIDE DEF s
  <2>7. LinkedAs(now') /\ Agree(now') /\ now'.update[p] = TRUE
    BY <2>4, <2>5, <2>6, UpdatedAgrees
  <2>8. now'.update[1] \/ now'.update[2]
    BY <2>7 DEF Crop!Panels
  <2> QED
    BY <2>7, <2>8 DEF LinkInv, Crop!CropIsCurrent
<1>4. ASSUME Crop!MouseReleased PROVE LinkInv'
  <2>1. now' = [now EXCEPT !.drag = Crop!NoDrag]
    BY <1>4 DEF Crop!MouseReleased, Crop!Becomes
  <2>2. \A y \in {"crop", "axes", "link", "update", "post", "on", "scene", "unshown"} : now'[y] = now[y]
    BY <1>0, <2>1 DEF CropState
  <2>3. Crop!Fractions(now') = Crop!Fractions(now)
    BY <2>2 DEF Crop!Fractions
  <2> QED
    BY <1>0, <2>2, <2>3 DEF LinkInv, LinkedAs, Agree, Crop!CropIsCurrent, Crop!Shown
<1>b. ASSUME NEW s \in CropState, LinkedAs(s), Agree(s)
      PROVE  LET r == Crop!UpdatePostEffects(s) IN LinkedAs(r) /\ Agree(r) /\ r.scene = Crop!Shown(r)
  <2> DEFINE r == Crop!UpdatePostEffects(s)
  <2>1. r.scene = Crop!Shown(r) /\ r.axes = s.axes /\ r.link = s.link /\ r.crop = s.crop
    BY <1>b, EffectsAgree
  <2> HIDE DEF r
  <2>2. LinkedAs(r) /\ Agree(r)
    BY <1>b, <2>1 DEF LinkedAs, Agree
  <2> QED
    BY <2>1, <2>2 DEF r
<1>5. ASSUME Crop!OnUpdateTimer PROVE LinkInv'
  <2> DEFINE r == Crop!UpdatePostEffects(now)
  <2>1. now' = [r EXCEPT !.update[1] = FALSE]
    BY <1>5 DEF Crop!OnUpdateTimer, Crop!Becomes
  <2>2. LinkedAs(r) /\ Agree(r) /\ r.scene = Crop!Shown(r) /\ r \in CropState
    BY <1>0, <1>b, EffectsFit DEF ValidCrops
  <2> HIDE DEF r
  <2>3. \A y \in {"crop", "axes", "link", "post", "on", "scene", "unshown"} : now'[y] = r[y]
    BY <2>1, <2>2 DEF CropState
  <2>4. Crop!Fractions(now') = Crop!Fractions(r)
    BY <2>3 DEF Crop!Fractions
  <2> QED
    BY <2>2, <2>3, <2>4 DEF LinkInv, LinkedAs, Agree, Crop!CropIsCurrent, Crop!Shown
<1>6. ASSUME Crop!OnCheckPostProcess \/ Crop!OnFxCropCheck PROVE LinkInv'
  <2>1. PICK post \in BOOLEAN, on \in BOOLEAN : now' = Crop!UpdatePostEffects([now EXCEPT !.post = post, !.on = on])
    <3>1. now.post \in BOOLEAN /\ now.on \in BOOLEAN /\ (~now.post) \in BOOLEAN /\ (~now.on) \in BOOLEAN
      BY <1>0 DEF CropState
    <3>2. [now EXCEPT !.post = ~@] = [now EXCEPT !.post = ~now.post, !.on = now.on]
      BY <1>0 DEF CropState
    <3>3. [now EXCEPT !.on = ~@] = [now EXCEPT !.post = now.post, !.on = ~now.on]
      BY <1>0 DEF CropState
    <3>4. CASE Crop!OnCheckPostProcess
      <4>1. now' = Crop!UpdatePostEffects([now EXCEPT !.post = ~@])
        BY <3>4 DEF Crop!OnCheckPostProcess, Crop!Becomes
      <4> QED
        BY <3>1, <3>2, <4>1
    <3>5. CASE Crop!OnFxCropCheck
      <4>1. now' = Crop!UpdatePostEffects([now EXCEPT !.on = ~@])
        BY <3>5 DEF Crop!OnFxCropCheck, Crop!Becomes
      <4> QED
        BY <3>1, <3>3, <4>1
    <3> QED
      BY <1>6, <3>4, <3>5
  <2> DEFINE s == [now EXCEPT !.post = post, !.on = on]
  <2>2. s \in CropState /\ s.link = now.link /\ s.axes = now.axes /\ s.crop = now.crop
          /\ now' = Crop!UpdatePostEffects(s)
    BY <1>0, <2>1 DEF CropState
  <2> HIDE DEF s
  <2>3. LinkedAs(s) /\ Agree(s)
    BY <1>0, <2>2 DEF LinkedAs, Agree
  <2> QED
    BY <1>b, <2>2, <2>3 DEF LinkInv, Crop!CropIsCurrent
<1>7. ASSUME Crop!LoadFile PROVE LinkInv'
  <2>1. CASE Crop!WillDoSomething(now.scene)
    <3> DEFINE f == now.scene
               one == Crop!MadeValid(<<f["x"][1], f["x"][2], f["y"][1], f["y"][2]>>)
               r == Crop!UpdateFxUI(now)
    <3>1. r = [now EXCEPT !.crop = <<one, one>>, !.axes = <<<<"x", "y">>, <<"x", "z">>>>,
                          !.link = <<"both", "both">>, !.on = TRUE, !.post = TRUE, !.unshown = TRUE]
      BY DEF Crop!UpdateFxUI
    <3> HIDE DEF one
    <3>2. r \in CropState /\ Crop!Edited(r)
      BY <1>7, <2>1, UpdateFxFits DEF ValidCrops, Crop!LoadFile
    <3> HIDE DEF r
    <3>3. r.crop = <<one, one>> /\ r.axes = <<<<"x", "y">>, <<"x", "z">>>>
            /\ r.link = <<"both", "both">> /\ r.unshown = TRUE
      BY <1>0, <3>1 DEF CropState
    <3>4. LinkedAs(r) /\ Agree(r)
      BY <3>3 DEF LinkedAs, Agree, Crop!Panels
    <3> QED
      BY <3>2, <3>3, <3>4, EditedAgrees
  <2>2. CASE ~Crop!WillDoSomething(now.scene)
    BY <1>0, <1>7, <2>2, EditedAgrees DEF Crop!LoadFile, Crop!CropIsCurrent
  <2> QED
    BY <2>1, <2>2
<1>8. ASSUME NEW axes \in Crop!AxesOf, Crop!OnFxCropAxis(axes) PROVE LinkInv'
  <2> DEFINE t == [now EXCEPT !.axes = <<Crop!FirstAxes, axes>>]
             s == Crop!LinkCropWidgets(t)
             r == Crop!UpdatePostEffects(s)
  <2>1. <<Crop!FirstAxes, axes>> \in [Crop!Panels -> Crop!AxesOf]
    BY TupleOfPanels DEF Crop!FirstAxes, Crop!AxesOf
  <2>2. ValidCrops(t)
    BY <2>1 DEF ValidCrops, CropState
  <2>3. Crop!Edited(r)
    BY <1>8 DEF Crop!OnFxCropAxis
  <2> HIDE DEF t
  <2>4. s \in CropState /\ LinkedAs(s) /\ Agree(s) /\ ValidCrops(s)
    BY <2>2, LinkedFit, LinkedAgree DEF ValidCrops
  <2> HIDE DEF s
  <2>5. r \in CropState /\ LinkedAs(r) /\ Agree(r) /\ r.scene = Crop!Shown(r)
    BY <1>b, <2>4, EffectsFit DEF ValidCrops
  <2> HIDE DEF r
  <2> QED
    BY <2>3, <2>5, EditedAgrees
<1> QED
  BY <1>1, <1>2, <1>3, <1>4, <1>5, <1>6, <1>7, <1>8 DEF Crop!Next

\* What the theme asks of the crops.
LEMMA LinkKeeps ==
    ASSUME CropInv, LinkInv
    PROVE  Crop!CropIsCurrent /\ Crop!SharedAxisAgrees
<1>0. now \in CropState /\ LinkedAs(now) /\ Agree(now)
  BY DEF LinkInv, CropInv, ValidCrops
<1> DEFINE a1 == now.axes[1]  a2 == now.axes[2]  c1 == now.crop[1]  c2 == now.crop[2]
<1>1. a1 \in Crop!AxesOf /\ a2 \in Crop!AxesOf /\ c1 \in Crops /\ c2 \in Crops
  BY <1>0 DEF CropState, Crop!Panels
<1>2. ASSUME NEW b \in Crop!AxesOf PROVE b[1] # b[2]
  BY DEF Crop!AxesOf
<1>3. ASSUME NEW b \in Crop!AxesOf, NEW c, NEW a \in Crop!Axes
      PROVE  Crop!CropOf(b, c)[a] = IF a = b[1] THEN <<c[1], c[3]>> ELSE IF a = b[2] THEN <<c[2], c[4]>> ELSE <<>>
  BY <1>2 DEF Crop!CropOf
<1>4. ASSUME \A p \in Crop!Panels : now.link[p] \in {"both", "lr", "tb"}, NEW a \in Crop!Axes
      PROVE  Crop!CropOf(a1, c1)[a] = <<>> \/ Crop!CropOf(a2, c2)[a] = <<>>
               \/ Crop!CropOf(a1, c1)[a] = Crop!CropOf(a2, c2)[a]
  <2>0. 1 \in Crop!Panels
    BY DEF Crop!Panels
  <2> HIDE DEF a1, a2, c1, c2
  <2> DEFINE e1 == Crop!CropOf(a1, c1)[a]
             e2 == Crop!CropOf(a2, c2)[a]
  <2>a. /\ (a = a1[1] => e1 = <<c1[1], c1[3]>>)
        /\ (a # a1[1] /\ a = a1[2] => e1 = <<c1[2], c1[4]>>)
        /\ (a # a1[1] /\ a # a1[2] => e1 = <<>>)
    BY <1>1, <1>3
  <2>b. /\ (a = a2[1] => e2 = <<c2[1], c2[3]>>)
        /\ (a # a2[1] /\ a = a2[2] => e2 = <<c2[2], c2[4]>>)
        /\ (a # a2[1] /\ a # a2[2] => e2 = <<>>)
    BY <1>1, <1>3
  <2>c. a1[1] # a1[2] /\ a2[1] # a2[2]
    BY <1>1, <1>2
  <2> HIDE DEF e1, e2
  <2>1. CASE (\A p \in Crop!Panels : now.link[p] = "both") /\ (a1 = a2 \/ (a1 = <<"x", "y">> /\ a2 = <<"x", "z">>))
    <3>1. \A i \in Crop!Sides : c1[i] = c2[i]
      BY <1>0, <2>0, <2>1 DEF Agree, SidesOf, c1, c2
    <3>2. c1[1] = c2[1] /\ c1[2] = c2[2] /\ c1[3] = c2[3] /\ c1[4] = c2[4]
      BY <3>1 DEF Crop!Sides
    <3>3. a1[1] = a2[1]
      BY <2>1
    <3>4. CASE a = a1[1]
      BY <2>a, <2>b, <3>2, <3>3, <3>4 DEF e1, e2
    <3>5. CASE a # a1[1] /\ a = a1[2] /\ a = a2[2]
      BY <2>a, <2>b, <3>2, <3>3, <3>5 DEF e1, e2
    <3>6. CASE a # a1[1] /\ (a # a1[2] \/ a # a2[2])
      BY <2>a, <2>b, <3>3, <3>6 DEF e1, e2
    <3> QED
      BY <3>4, <3>5, <3>6
  <2>2. CASE (\A p \in Crop!Panels : now.link[p] = "lr") /\ a1[1] = a2[1] /\ a1[2] # a2[2]
    <3>1. c1[1] = c2[1] /\ c1[3] = c2[3]
      BY <1>0, <2>0, <2>2 DEF Agree, SidesOf, c1, c2
    <3>2. CASE a = a1[1]
      BY <2>a, <2>b, <2>2, <3>1, <3>2 DEF e1, e2
    <3>3. CASE a # a1[1]
      BY <2>a, <2>b, <2>2, <3>3 DEF e1, e2
    <3> QED
      BY <3>2, <3>3
  <2>3. CASE (\A p \in Crop!Panels : now.link[p] = "tb") /\ a1[2] = a2[2] /\ a1[1] # a2[1]
    <3>1. c1[2] = c2[2] /\ c1[4] = c2[4]
      BY <1>0, <2>0, <2>3 DEF Agree, SidesOf, c1, c2
    <3>2. CASE a = a1[2]
      BY <2>a, <2>b, <2>c, <2>3, <3>1, <3>2 DEF e1, e2
    <3>3. CASE a # a1[2]
      BY <2>a, <2>b, <2>3, <3>3 DEF e1, e2
    <3> QED
      BY <3>2, <3>3
  <2> QED
    BY <1>0, <1>4, <2>0, <2>1, <2>2, <2>3 DEF LinkedAs, a1, a2
<1> QED
  BY <1>4 DEF Crop!SharedAxisAgrees, LinkInv

-----------------------------------------------------------------------------
(* Selection *)

\* A selection device, and a handle.
Devices == [own : Nat, obj : Nat, val : Sel!Values, modified : BOOLEAN]
Handles == [of : Nat, at : Sel!Values]
\* What the selection holds.
SelState ==
    [tree : Seq(Sel!Values), undo : Seq(Seq(Sel!Values)), objects : Seq(Handles), devices : Seq(Devices),
     lastSelected : Nat, selectionMode : BOOLEAN, lastHovered : Nat, pending : BOOLEAN,
     phase : {"idle", "starting", "running"}, abort : BOOLEAN, failed : BOOLEAN, undefined : BOOLEAN]
IsModified(s) == \E i \in DOMAIN s.devices : s.devices[i].modified
\* While the thread is on, the devices are those of the filters it has visited,
\* nobody has them in hand, and nothing is due.
Visited(s) ==
    /\ ~s.pending /\ Len(s.devices) <= Len(s.tree)
    /\ \A i \in DOMAIN s.devices : s.devices[i].own = i /\ s.devices[i].obj = 0 /\ ~s.devices[i].modified
\* Otherwise: each device is of a filter, and of an object or none.
Settled(s) ==
    \A i \in DOMAIN s.devices :
       /\ s.devices[i].own \in DOMAIN s.tree /\ s.devices[i].obj <= Len(s.objects)
       /\ \A j \in DOMAIN s.devices : s.devices[i].own = s.devices[j].own => i = j
\* What is modified is due, or still in hand.
DueOrHeld(s) ==
    IF s.pending THEN IsModified(s)
    ELSE \A i \in DOMAIN s.devices :
            s.devices[i].modified => s.selectionMode /\ s.devices[i].obj = s.lastSelected
\* The objects are where the filters have them, but for one that is in hand.
Placed(s) ==
    ~s.pending /\ ~s.failed =>
       /\ Len(s.objects) = Len(s.tree)
       /\ \A k \in DOMAIN s.tree : \/ s.objects[k] = Sel!Handle(k, s.tree[k])
                                   \/ s.selectionMode /\ k = s.lastSelected /\ IsModified(s)
\* What holds when no thread is on.
AtRest(s) == Settled(s) /\ DueOrHeld(s) /\ Placed(s)
\* All that a step of Selection keeps.
SelHolds(s) ==
    /\ s \in SelState
    /\ s.lastHovered <= Len(s.objects)
    /\ s.selectionMode => s.lastSelected # 0
    /\ s.phase = "running" => Visited(s)
    /\ s.phase = "idle" => AtRest(s)
\* The inductive invariant of Selection.
SelInv == SelHolds(now)

\* At the start one filter has its handle and its device.
LEMMA SelStart ==
    ASSUME Sel!Init
    PROVE  SelInv
<1> DEFINE d == Sel!Shown(Sel!Device(1, 0), 1)
           h == [of |-> 1, at |-> 0]
<1>0. 0 \in Sel!Values
  BY DEF Sel!Values
<1>1. <<>> \in Seq(Seq(Sel!Values)) /\ <<0>> \in Seq(Sel!Values) /\ Len(<<0>>) = 1
        /\ DOMAIN <<0>> = 1..1 /\ <<0>>[1] = 0
  BY <1>0
<1>2. d \in Devices /\ d.own = 1 /\ d.obj = 1 /\ ~d.modified
  BY <1>0 DEF Devices, Sel!Shown, Sel!Device
<1>3. h \in Handles /\ Sel!Handle(1, 0) = h
  BY <1>0 DEF Handles, Sel!Handle
<1> DEFINE ds == <<d>>  hs == <<h>>
<1> HIDE DEF d, h
<1>4. ds \in Seq(Devices) /\ DOMAIN ds = 1..1 /\ ds[1] = d /\ hs \in Seq(Handles) /\ Len(hs) = 1 /\ hs[1] = h
  BY <1>2, <1>3
<1> HIDE DEF ds, hs
<1>5. now = [tree |-> <<0>>, undo |-> <<>>, objects |-> hs, devices |-> ds,
             lastSelected |-> 0, selectionMode |-> FALSE, lastHovered |-> 0, pending |-> FALSE,
             phase |-> "idle", abort |-> FALSE, failed |-> FALSE, undefined |-> FALSE]
  BY <1>3 DEF Sel!Init, ds, hs, d
<1>6. now \in SelState
  BY <1>1, <1>4, <1>5 DEF SelState
<1>7. now.tree = <<0>> /\ now.objects = hs /\ now.devices = ds /\ now.lastHovered = 0 /\ ~now.selectionMode
      /\ now.phase = "idle" /\ ~now.pending /\ ~now.failed
  BY <1>5
<1>11. \A k \in 1..1 : k = 1
  OBVIOUS
<1>9. Settled(now)
  <2>1. 1 \in 1..1 /\ 1 <= 1
    OBVIOUS
  <2> QED
    BY <1>4, <1>7, <1>2, <1>1, <1>11, <2>1 DEF Settled
<1>10. DueOrHeld(now)
  BY <1>4, <1>7, <1>2 DEF DueOrHeld
<1>12. Placed(now)
  BY <1>1, <1>3, <1>4, <1>7, <1>11 DEF Placed
<1> QED
  BY <1>6, <1>7, <1>9, <1>10, <1>12 DEF SelInv, SelHolds, AtRest

\* What ends in the start of the refresh thread has only to be of its type.
LEMMA StartHolds ==
    ASSUME NEW s \in SelState, s.lastHovered <= Len(s.objects), s.selectionMode => s.lastSelected # 0,
           now' = Sel!Start(s)
    PROVE  SelInv'
<1>1. now' \in SelState /\ now'.phase = "starting"
  BY DEF Sel!Start, SelState
<1>2. now'.lastHovered = s.lastHovered /\ now'.objects = s.objects
      /\ now'.selectionMode = s.selectionMode /\ now'.lastSelected = s.lastSelected
  BY DEF Sel!Start, SelState
<1> QED
  BY <1>1, <1>2 DEF SelInv, SelHolds

\* The undo stack holds trees.
LEMMA PushedType ==
    ASSUME NEW s \in SelState
    PROVE  Sel!Pushed(s) \in Seq(Seq(Sel!Values))
<1>1. s.undo \in Seq(Seq(Sel!Values)) /\ s.tree \in Seq(Sel!Values)
  BY DEF SelState
<1> QED
  BY <1>1 DEF Sel!Pushed

\* The handlers that change the tree.
LEMMA AddFilterHolds ==
    ASSUME SelInv, Sel!AddFilter
    PROVE  SelInv'
<1> DEFINE u == Sel!Pushed(now)
           t == Append(now.tree, 0)
           s == [now EXCEPT !.undo = u, !.tree = t]
<1>1. now \in SelState /\ now.lastHovered <= Len(now.objects) /\ (now.selectionMode => now.lastSelected # 0)
  BY DEF SelInv, SelHolds
<1>2. u \in Seq(Seq(Sel!Values)) /\ t \in Seq(Sel!Values)
  BY <1>1, PushedType DEF SelState, Sel!Values
<1>3. now' = Sel!Start(s)
  BY DEF Sel!AddFilter, Sel!Becomes
<1> HIDE DEF u, t
<1>4. s \in SelState /\ s.lastHovered <= Len(s.objects) /\ (s.selectionMode => s.lastSelected # 0)
  BY <1>1, <1>2 DEF SelState
<1> HIDE DEF s
<1> QED
  BY <1>3, <1>4, StartHolds

\* A property is set by the grid.
LEMMA SetPropertyHolds ==
    ASSUME SelInv, NEW k \in DOMAIN now.tree, NEW v \in Sel!Values, Sel!SetProperty(k, v)
    PROVE  SelInv'
<1> DEFINE u == Sel!Pushed(now)
           t == [now.tree EXCEPT ![k] = v]
           s == [now EXCEPT !.undo = u, !.tree = t]
<1>1. now \in SelState /\ now.lastHovered <= Len(now.objects) /\ (now.selectionMode => now.lastSelected # 0)
  BY DEF SelInv, SelHolds
<1>2. u \in Seq(Seq(Sel!Values)) /\ t \in Seq(Sel!Values)
  <2>1. now.tree \in Seq(Sel!Values)
    BY <1>1 DEF SelState
  <2> QED
    BY <1>1, <2>1, PushedType
<1>3. now' = Sel!Start(s)
  BY DEF Sel!SetProperty, Sel!Becomes
<1> HIDE DEF u, t
<1>4. s \in SelState /\ s.lastHovered <= Len(s.objects) /\ (s.selectionMode => s.lastSelected # 0)
  BY <1>1, <1>2 DEF SelState
<1> HIDE DEF s
<1> QED
  BY <1>3, <1>4, StartHolds

\* The devices and the handles once a filter has gone: what pointed to it
\* points nowhere, what pointed behind it follows.
LEMMA Repointed ==
    ASSUME NEW s \in SelState, NEW G \in [Nat -> Nat]
    PROVE  /\ [i \in DOMAIN s.devices |-> [s.devices[i] EXCEPT !.own = G[@]]] \in Seq(Devices)
           /\ [i \in DOMAIN s.objects |-> [s.objects[i] EXCEPT !.of = G[@]]] \in Seq(Handles)
           /\ Len([i \in DOMAIN s.objects |-> [s.objects[i] EXCEPT !.of = G[@]]]) = Len(s.objects)
<1>1. ASSUME NEW q \in Seq(Devices)
      PROVE  [i \in DOMAIN q |-> [q[i] EXCEPT !.own = G[@]]] \in Seq(Devices)
  <2>1. \A d \in Devices : [d EXCEPT !.own = G[@]] \in Devices
    BY DEF Devices
  <2>2. Len(q) \in Nat /\ DOMAIN q = 1..Len(q) /\ \A i \in 1..Len(q) : q[i] \in Devices
    OBVIOUS
  <2> QED
    BY <2>1, <2>2
<1>2. ASSUME NEW q \in Seq(Handles)
      PROVE  /\ [i \in DOMAIN q |-> [q[i] EXCEPT !.of = G[@]]] \in Seq(Handles)
             /\ Len([i \in DOMAIN q |-> [q[i] EXCEPT !.of = G[@]]]) = Len(q)
  <2>1. \A d \in Handles : [d EXCEPT !.of = G[@]] \in Handles
    BY DEF Handles
  <2>2. Len(q) \in Nat /\ DOMAIN q = 1..Len(q) /\ \A i \in 1..Len(q) : q[i] \in Handles
    OBVIOUS
  <2> QED
    BY <2>1, <2>2
<1> QED
  BY <1>1, <1>2 DEF SelState

\* A filter is removed, and its devices with it.
LEMMA RemoveFilterHolds ==
    ASSUME SelInv, NEW k \in DOMAIN now.tree, Sel!RemoveFilter(k)
    PROVE  SelInv'
<1> DEFINE G == [n \in Nat |-> Sel!Without(n, k)]
           u == Sel!Pushed(now)
           t == Sel!RemoveAt(now.tree, k)
           ds == [i \in DOMAIN now.devices |-> [now.devices[i] EXCEPT !.own = G[@]]]
           hs == [i \in DOMAIN now.objects |-> [now.objects[i] EXCEPT !.of = G[@]]]
           s == [now EXCEPT !.undo = u, !.tree = t, !.devices = ds, !.objects = hs]
           old == [now EXCEPT !.undo = u, !.tree = t,
                     !.devices = [i \in DOMAIN @ |-> [@[i] EXCEPT !.own = Sel!Without(now.devices[i].own, k)]],
                     !.objects = [i \in DOMAIN @ |-> [@[i] EXCEPT !.of = Sel!Without(now.objects[i].of, k)]]]
<1>1. now \in SelState /\ now.lastHovered <= Len(now.objects) /\ (now.selectionMode => now.lastSelected # 0)
  BY DEF SelInv, SelHolds
<1>2. k \in 1..Len(now.tree) /\ now.tree \in Seq(Sel!Values)
  BY <1>1 DEF SelState
<1>3. G \in [Nat -> Nat]
  BY <1>2 DEF Sel!Without
<1>4. u \in Seq(Seq(Sel!Values)) /\ t \in Seq(Sel!Values)
  <2>1. t = Without(now.tree, k)
    BY DEF Sel!RemoveAt, Without
  <2> QED
    BY <1>1, <1>2, <2>1, PushedType, WithoutType
<1>5. ds \in Seq(Devices) /\ hs \in Seq(Handles) /\ Len(hs) = Len(now.objects)
  BY <1>1, <1>3, Repointed
<1>6. now' = Sel!Start(s)
  <2>1. now' = Sel!Start(old)
    BY DEF Sel!RemoveFilter, Sel!Becomes
  <2>2. now.devices \in Seq(Devices) /\ now.objects \in Seq(Handles)
    BY <1>1 DEF SelState
  <2>3. ASSUME NEW i \in DOMAIN now.devices
        PROVE  [now.devices[i] EXCEPT !.own = Sel!Without(now.devices[i].own, k)] = [now.devices[i] EXCEPT !.own = G[@]]
    BY <2>2 DEF Devices
  <2>4. ASSUME NEW i \in DOMAIN now.objects
        PROVE  [now.objects[i] EXCEPT !.of = Sel!Without(now.objects[i].of, k)] = [now.objects[i] EXCEPT !.of = G[@]]
    BY <2>2 DEF Handles
  <2>5. /\ ds = [i \in DOMAIN now.devices |-> [now.devices[i] EXCEPT !.own = Sel!Without(now.devices[i].own, k)]]
        /\ hs = [i \in DOMAIN now.objects |-> [now.objects[i] EXCEPT !.of = Sel!Without(now.objects[i].of, k)]]
    <3> HIDE DEF G
    <3> QED
      BY <2>3, <2>4
  <2>6. old = s
    <3> HIDE DEF u, t, ds, hs
    <3> DEFINE d2 == [i \in DOMAIN now.devices |-> [now.devices[i] EXCEPT !.own = Sel!Without(now.devices[i].own, k)]]
               h2 == [i \in DOMAIN now.objects |-> [now.objects[i] EXCEPT !.of = Sel!Without(now.objects[i].of, k)]]
    <3>1. old = [now EXCEPT !.undo = u, !.tree = t, !.devices = d2, !.objects = h2]
      OBVIOUS
    <3>2. ds = d2 /\ hs = h2
      BY <2>5
    <3> HIDE DEF d2, h2
    <3> QED
      BY <3>1, <3>2
  <2> QED
    BY <2>1, <2>6
<1> HIDE DEF u, t, ds, hs
<1>7. s \in SelState /\ s.lastHovered <= Len(s.objects) /\ (s.selectionMode => s.lastSelected # 0)
  BY <1>1, <1>4, <1>5 DEF SelState
<1> HIDE DEF s
<1> QED
  BY <1>6, <1>7, StartHolds

\* The tree is replaced by clones of an older one.
LEMMA UndoHolds ==
    ASSUME SelInv, Sel!Undo
    PROVE  SelInv'
<1> DEFINE G == [n \in Nat |-> 0]
           u == SubSeq(now.undo, 1, Len(now.undo) - 1)
           t == now.undo[Len(now.undo)]
           ds == [i \in DOMAIN now.devices |-> [now.devices[i] EXCEPT !.own = G[@]]]
           hs == [i \in DOMAIN now.objects |-> [now.objects[i] EXCEPT !.of = G[@]]]
           s == [now EXCEPT !.undo = u, !.tree = t, !.devices = ds, !.objects = hs]
           old == [now EXCEPT !.undo = u, !.tree = t,
                     !.devices = [i \in DOMAIN @ |-> [@[i] EXCEPT !.own = 0]],
                     !.objects = [i \in DOMAIN @ |-> [@[i] EXCEPT !.of = 0]]]
<1>1. now \in SelState /\ now.lastHovered <= Len(now.objects) /\ (now.selectionMode => now.lastSelected # 0)
  BY DEF SelInv, SelHolds
<1>2. now.undo \in Seq(Seq(Sel!Values)) /\ now.undo # <<>>
  BY <1>1 DEF SelState, Sel!Undo
<1>3. G \in [Nat -> Nat]
  OBVIOUS
<1>4. u \in Seq(Seq(Sel!Values)) /\ t \in Seq(Sel!Values)
  BY <1>2
<1>5. ds \in Seq(Devices) /\ hs \in Seq(Handles) /\ Len(hs) = Len(now.objects)
  BY <1>1, <1>3, Repointed
<1>6. now' = Sel!Start(s)
  <2>1. now' = Sel!Start(old)
    BY DEF Sel!Undo, Sel!Becomes
  <2>2. now.devices \in Seq(Devices) /\ now.objects \in Seq(Handles)
    BY <1>1 DEF SelState
  <2>3. ASSUME NEW i \in DOMAIN now.devices
        PROVE  [now.devices[i] EXCEPT !.own = 0] = [now.devices[i] EXCEPT !.own = G[@]]
    BY <2>2 DEF Devices
  <2>4. ASSUME NEW i \in DOMAIN now.objects
        PROVE  [now.objects[i] EXCEPT !.of = 0] = [now.objects[i] EXCEPT !.of = G[@]]
    BY <2>2 DEF Handles
  <2>5. /\ ds = [i \in DOMAIN now.devices |-> [now.devices[i] EXCEPT !.own = 0]]
        /\ hs = [i \in DOMAIN now.objects |-> [now.objects[i] EXCEPT !.of = 0]]
    <3> HIDE DEF G
    <3> QED
      BY <2>3, <2>4
  <2>6. old = s
    <3> HIDE DEF u, t, ds, hs
    <3> QED
      BY <2>5
  <2> QED
    BY <2>1, <2>6
<1> HIDE DEF u, t, ds, hs
<1>7. s \in SelState /\ s.lastHovered <= Len(s.objects) /\ (s.selectionMode => s.lastSelected # 0)
  BY <1>1, <1>4, <1>5 DEF SelState
<1> HIDE DEF s
<1> QED
  BY <1>6, <1>7, StartHolds

\* The timer: what is modified goes to the filters, or nothing does.
LEMMA TimerHolds ==
    ASSUME SelInv, Sel!OnUpdateTimer \/ Sel!MonitorUpdates
    PROVE  SelInv'
<1>1. now \in SelState /\ now.lastHovered <= Len(now.objects) /\ (now.selectionMode => now.lastSelected # 0)
  BY DEF SelInv, SelHolds
<1>2. CASE Sel!MonitorUpdates
  BY <1>1, <1>2, StartHolds DEF Sel!MonitorUpdates, Sel!Becomes
<1>3. CASE Sel!OnUpdateTimer
  <2> DEFINE f == Sel!Freed(now)
             u == IF Sel!Modified(now) # {} THEN Sel!Pushed(now) ELSE now.undo
             t == [k \in DOMAIN now.tree |-> Sel!AppliedTo(now, k)]
             ds == [i \in DOMAIN now.devices |-> [now.devices[i] EXCEPT !.modified = FALSE]]
             s == [now EXCEPT !.pending = FALSE, !.undefined = f, !.undo = u, !.tree = t, !.devices = ds]
  <2>1. now' = Sel!Start(s)
    BY <1>3 DEF Sel!OnUpdateTimer, Sel!ApplyBindingsToTree, Sel!Becomes
  <2>2. now.tree \in Seq(Sel!Values) /\ now.devices \in Seq(Devices) /\ now.undo \in Seq(Seq(Sel!Values))
    BY <1>1 DEF SelState
  <2>3. f \in BOOLEAN /\ u \in Seq(Seq(Sel!Values))
    BY <1>1, <2>2, PushedType DEF Sel!Freed
  <2>4. t \in Seq(Sel!Values)
    <3>1. ASSUME NEW k \in DOMAIN now.tree PROVE Sel!AppliedTo(now, k) \in Sel!Values
      <4>1. CASE \E i \in Sel!Modified(now) : now.devices[i].own = k
        <5> DEFINE i == CHOOSE j \in Sel!Modified(now) : now.devices[j].own = k
        <5>1. i \in DOMAIN now.devices
          BY <4>1 DEF Sel!Modified
        <5>2. Sel!AppliedTo(now, k) = now.devices[i].val
          BY <4>1 DEF Sel!AppliedTo
        <5> HIDE DEF i
        <5>3. now.devices[i] \in Devices
          BY <2>2, <5>1
        <5> QED
          BY <5>2, <5>3 DEF Devices
      <4>2. CASE ~\E i \in Sel!Modified(now) : now.devices[i].own = k
        <5>1. now.tree[k] \in Sel!Values
          BY <2>2
        <5> QED
          BY <4>2, <5>1 DEF Sel!AppliedTo
      <4> QED
        BY <4>1, <4>2
    <3>2. Len(now.tree) \in Nat /\ DOMAIN now.tree = 1..Len(now.tree)
      BY <2>2
    <3> QED
      BY <3>1, <3>2
  <2>5. ds \in Seq(Devices)
    <3>1. \A d \in Devices : [d EXCEPT !.modified = FALSE] \in Devices
      BY DEF Devices
    <3>2. Len(now.devices) \in Nat /\ DOMAIN now.devices = 1..Len(now.devices)
          /\ \A i \in 1..Len(now.devices) : now.devices[i] \in Devices
      BY <2>2
    <3> QED
      BY <3>1, <3>2
  <2> HIDE DEF f, u, t, ds
  <2>6. s \in SelState /\ s.lastHovered <= Len(s.objects) /\ (s.selectionMode => s.lastSelected # 0)
    BY <1>1, <2>3, <2>4, <2>5 DEF SelState
  <2> HIDE DEF s
  <2> QED
    BY <2>1, <2>6, StartHolds
<1> QED
  BY <1>2, <1>3

\* What taking the bound devices and the object along does.
LEMMA SelMovedType ==
    ASSUME SelInv, now.lastSelected # 0, now.lastSelected <= Len(now.objects), Sel!Bound(now) # {},
           NEW v \in Sel!Values, NEW permanent \in BOOLEAN
    PROVE  LET m == Sel!Moved(now, v, permanent)
           IN  /\ m \in SelState
               /\ \A y \in {"tree", "undo", "lastSelected", "selectionMode", "lastHovered", "pending", "phase",
                            "abort", "failed", "undefined"} : m[y] = now[y]
               /\ Len(m.objects) = Len(now.objects)
               /\ \A k \in 1..Len(now.objects) : k # now.lastSelected => m.objects[k] = now.objects[k]
               /\ DOMAIN m.devices = DOMAIN now.devices /\ IsModified(m)
               /\ \A i \in DOMAIN m.devices :
                    /\ m.devices[i].own = now.devices[i].own /\ m.devices[i].obj = now.devices[i].obj
                    /\ m.devices[i].modified =>
                         now.devices[i].modified \/ now.devices[i].obj = now.lastSelected
<1> DEFINE k == now.lastSelected
           hs == [now.objects EXCEPT ![k].at = v]
           B == Sel!Bound(now)
           ds == [i \in DOMAIN now.devices |->
                    IF i \in B THEN Sel!Transformed(now.devices[i], v, permanent) ELSE now.devices[i]]
           m == [now EXCEPT !.objects = hs, !.devices = ds]
<1>1. Sel!Moved(now, v, permanent) = m
  BY DEF Sel!Moved
<1>2. now \in SelState /\ now.objects \in Seq(Handles) /\ now.devices \in Seq(Devices) /\ k \in Nat
  BY DEF SelInv, SelHolds, SelState
<1>3. k \in 1..Len(now.objects)
  BY <1>2
<1>4. hs \in Seq(Handles) /\ Len(hs) = Len(now.objects)
        /\ \A j \in 1..Len(now.objects) : j # k => hs[j] = now.objects[j]
  <2>1. now.objects[k] \in Handles
    BY <1>2, <1>3
  <2> DEFINE h == [now.objects[k] EXCEPT !.at = v]
  <2>2. h \in Handles
    BY <2>1 DEF Handles
  <2>3. hs = [now.objects EXCEPT ![k] = h]
    OBVIOUS
  <2> HIDE DEF h, hs
  <2> QED
    BY <1>2, <1>3, <2>2, <2>3
<1>5. B \subseteq DOMAIN now.devices /\ \A i \in DOMAIN now.devices : i \in B => now.devices[i].obj = k
  BY DEF Sel!Bound
<1>6. ASSUME NEW i \in DOMAIN now.devices
      PROVE  LET d == Sel!Transformed(now.devices[i], v, permanent)
             IN  d \in Devices /\ d.own = now.devices[i].own /\ d.obj = now.devices[i].obj /\ d.modified
  <2>1. now.devices[i] \in Devices
    BY <1>2
  <2> QED
    BY <2>1 DEF Sel!Transformed, Devices
<1> HIDE DEF B
<1>7. ds \in Seq(Devices) /\ DOMAIN ds = DOMAIN now.devices
  <2>1. Len(now.devices) \in Nat /\ DOMAIN now.devices = 1..Len(now.devices)
        /\ \A i \in 1..Len(now.devices) : now.devices[i] \in Devices
    BY <1>2
  <2>2. \A i \in 1..Len(now.devices) : ds[i] \in Devices
    BY <1>6, <2>1
  <2>3. DOMAIN ds = DOMAIN now.devices /\ ds = [i \in 1..Len(now.devices) |-> ds[i]]
    BY <2>1
  <2> HIDE DEF ds
  <2>4. ds \in [1..Len(now.devices) -> Devices]
    BY <2>2, <2>3
  <2> QED
    BY <2>1, <2>3, <2>4
<1>8. \A i \in DOMAIN now.devices : /\ ds[i].own = now.devices[i].own /\ ds[i].obj = now.devices[i].obj
                                    /\ ds[i].modified => now.devices[i].modified \/ now.devices[i].obj = k
                                    /\ i \in B => ds[i].modified
  BY <1>5, <1>6
<1> HIDE DEF hs, ds
<1>9. m \in SelState /\ m.objects = hs /\ m.devices = ds
      /\ \A y \in {"tree", "undo", "lastSelected", "selectionMode", "lastHovered", "pending", "phase",
                   "abort", "failed", "undefined"} : m[y] = now[y]
  BY <1>2, <1>4, <1>7 DEF SelState
<1> HIDE DEF m
<1>10. IsModified(m)
  BY <1>5, <1>7, <1>8, <1>9 DEF IsModified, B
<1> HIDE DEF k
<1>11. /\ Len(m.objects) = Len(now.objects)
       /\ \A j \in 1..Len(now.objects) : j # k => m.objects[j] = now.objects[j]
       /\ DOMAIN m.devices = DOMAIN now.devices
       /\ \A i \in DOMAIN m.devices :
            /\ m.devices[i].own = now.devices[i].own /\ m.devices[i].obj = now.devices[i].obj
            /\ m.devices[i].modified => now.devices[i].modified \/ now.devices[i].obj = k
  BY <1>4, <1>7, <1>8, <1>9
<1> QED
  BY <1>1, <1>9, <1>10, <1>11 DEF k

\* Where nothing is bound or something is freed, nothing is in hand.
LEMMA NoneInHand ==
    ASSUME SelInv, now.phase = "idle", now.lastSelected > Len(now.objects) \/ Sel!Freed(now) \/ Sel!Bound(now) = {}
    PROVE  ~Sel!Freed(now) /\ Sel!Bound(now) = {} /\ (~now.pending => ~IsModified(now))
<1>1. now \in SelState /\ AtRest(now)
  BY DEF SelInv, SelHolds
<1>2. ~Sel!Freed(now)
  <2>1. 0 \notin DOMAIN now.tree
    <3>1. now.tree \in Seq(Sel!Values)
      BY <1>1 DEF SelState
    <3> QED
      BY <3>1
  <2> QED
    BY <1>1, <2>1 DEF AtRest, Settled, Sel!Freed
<1>3. Sel!Bound(now) = {}
  <2> SUFFICES ASSUME now.lastSelected > Len(now.objects), NEW i \in Sel!Bound(now) PROVE FALSE
    BY <1>2
  <2>1. i \in DOMAIN now.devices /\ now.devices[i].obj = now.lastSelected
    BY DEF Sel!Bound
  <2>2. now.lastSelected <= Len(now.objects)
    BY <1>1, <2>1 DEF AtRest, Settled
  <2>3. now.lastSelected \in Nat /\ Len(now.objects) \in Nat
    BY <1>1 DEF SelState
  <2> QED
    BY <2>2, <2>3
<1>4. ~now.pending => ~IsModified(now)
  BY <1>1, <1>3 DEF AtRest, DueOrHeld, IsModified, Sel!Bound
<1> QED
  BY <1>2, <1>3, <1>4

\* The thread has given nobody the devices it makes.
LEMMA NoneWhileRunning ==
    ASSUME SelInv, now.phase = "running", now.lastSelected # 0
    PROVE  Sel!Bound(now) = {}
BY DEF SelInv, SelHolds, Visited, Sel!Bound

\* A handle is taken.
LEMMA MouseDownHolds ==
    ASSUME SelInv, NEW k \in 0..Len(now.objects), Sel!MouseDown(k) \/ Sel!HoverTest(k)
    PROVE  SelInv'
<1>1. now \in SelState /\ now.lastHovered <= Len(now.objects) /\ Len(now.objects) \in Nat
      /\ (now.phase = "running" => Visited(now)) /\ (now.phase = "idle" => AtRest(now))
  BY DEF SelInv, SelHolds, SelState
<1>2. ~now.selectionMode
  BY DEF Sel!MouseDown, Sel!HoverTest
<1>3. /\ now' \in SelState
      /\ \A y \in {"tree", "undo", "objects", "devices", "pending", "phase", "failed"} : now'[y] = now[y]
      /\ now'.lastHovered <= Len(now.objects) /\ (now'.selectionMode => now'.lastSelected # 0)
  <2>1. CASE Sel!MouseDown(k)
    <3> DEFINE b == k # 0
    <3>1. now' = [now EXCEPT !.lastSelected = k, !.selectionMode = b] /\ b \in BOOLEAN /\ k \in Nat
      BY <1>1, <2>1 DEF Sel!MouseDown, Sel!Becomes
    <3>2. b => k # 0
      OBVIOUS
    <3> HIDE DEF b
    <3> QED
      BY <1>1, <3>1, <3>2 DEF SelState
  <2>2. CASE Sel!HoverTest(k)
    <3> DEFINE b == k # 0 /\ Sel!Freed(now)
    <3>1. now' = [now EXCEPT !.lastHovered = k, !.undefined = b] /\ b \in BOOLEAN /\ k \in Nat
            /\ k <= Len(now.objects)
      BY <1>1, <2>2 DEF Sel!HoverTest, Sel!Becomes
    <3> HIDE DEF b
    <3> QED
      BY <1>1, <1>2, <3>1 DEF SelState
  <2> QED
    BY <2>1, <2>2
<1>4. Visited(now) => Visited(now')
  BY <1>3 DEF Visited
<1>5. AtRest(now) => AtRest(now')
  <2>1. Settled(now) => Settled(now')
    BY <1>3 DEF Settled
  <2>2. (now.pending => now'.pending) /\ DueOrHeld(now) => DueOrHeld(now')
    BY <1>2, <1>3 DEF DueOrHeld, IsModified
  <2>3. Placed(now) => Placed(now')
    BY <1>2, <1>3 DEF Placed, IsModified
  <2> QED
    BY <1>3, <2>1, <2>2, <2>3 DEF AtRest
<1> QED
  BY <1>1, <1>3, <1>4, <1>5 DEF SelInv, SelHolds

\* A handle is dragged, and its device told where.
LEMMA MouseMovedHolds ==
    ASSUME SelInv, NEW v \in Sel!Values, Sel!MouseMoved(v)
    PROVE  SelInv'
<1>0. now \in SelState /\ now.selectionMode /\ now.lastSelected # 0 /\ now.lastSelected \in Nat
        /\ Len(now.objects) \in Nat
      /\ now.lastHovered <= Len(now.objects) /\ (now.phase = "running" => Visited(now)) /\ (now.phase = "idle" => AtRest(now))
  BY DEF SelInv, SelHolds, SelState, Sel!MouseMoved
<1>1. now' = Sel!ApplyDevice(now, v, FALSE)
  BY DEF Sel!MouseMoved, Sel!Becomes
<1>2. CASE now.lastSelected > Len(now.objects) \/ Sel!Freed(now)
  <2>1. now' = [now EXCEPT !.undefined = TRUE]
    BY <1>1, <1>2 DEF Sel!ApplyDevice
  <2>2. now' \in SelState /\ \A y \in {"tree", "undo", "objects", "devices", "lastSelected", "selectionMode",
                                       "lastHovered", "pending", "phase", "failed"} : now'[y] = now[y]
    BY <1>0, <2>1 DEF SelState
  <2>3. (Visited(now) => Visited(now')) /\ (AtRest(now) => AtRest(now'))
    BY <2>2 DEF Visited, AtRest, Settled, DueOrHeld, Placed, IsModified
  <2> QED
    BY <1>0, <2>2, <2>3 DEF SelInv, SelHolds
<1>3. CASE ~(now.lastSelected > Len(now.objects) \/ Sel!Freed(now)) /\ Sel!Bound(now) = {}
  BY <1>1, <1>3 DEF Sel!ApplyDevice, SelInv
<1>4. CASE ~(now.lastSelected > Len(now.objects) \/ Sel!Freed(now)) /\ Sel!Bound(now) # {}
  <2>0. Sel!ApplyDevice(now, v, FALSE) = Sel!Moved(now, v, FALSE)
    BY <1>4 DEF Sel!ApplyDevice
  <2>a. now' = Sel!Moved(now, v, FALSE)
    BY <1>1, <2>0, Zenon
  <2>b. now.lastSelected <= Len(now.objects)
    BY <1>0, <1>4
  <2>1. now' = Sel!Moved(now, v, FALSE) /\ now.lastSelected <= Len(now.objects)
    BY <2>a, <2>b, Zenon
  <2>2. /\ now' \in SelState
        /\ \A y \in {"tree", "undo", "lastSelected", "selectionMode", "lastHovered", "pending", "phase",
                     "abort", "failed", "undefined"} : now'[y] = now[y]
        /\ Len(now'.objects) = Len(now.objects)
        /\ \A k \in 1..Len(now.objects) : k # now.lastSelected => now'.objects[k] = now.objects[k]
        /\ DOMAIN now'.devices = DOMAIN now.devices /\ IsModified(now')
        /\ \A i \in DOMAIN now'.devices :
             /\ now'.devices[i].own = now.devices[i].own /\ now'.devices[i].obj = now.devices[i].obj
             /\ now'.devices[i].modified => now.devices[i].modified \/ now.devices[i].obj = now.lastSelected
    BY <1>0, <1>4, <2>1, SelMovedType
  <2>3. now.phase # "running"
    BY <1>0, <1>4, NoneWhileRunning
  <2>4. ASSUME now.phase = "idle" PROVE AtRest(now')
    <3>0. Settled(now) /\ DueOrHeld(now) /\ Placed(now)
      BY <1>0, <2>4 DEF AtRest
    <3>1. Settled(now')
      BY <2>2, <3>0 DEF Settled
    <3>2. DueOrHeld(now')
      BY <1>0, <2>2, <3>0 DEF DueOrHeld
    <3>3. Placed(now')
      <4> SUFFICES ASSUME ~now.pending, ~now.failed
                   PROVE  /\ Len(now.objects) = Len(now.tree)
                          /\ \A k \in DOMAIN now.tree : \/ now'.objects[k] = Sel!Handle(k, now.tree[k])
                                                        \/ k = now.lastSelected
        BY <1>0, <2>2 DEF Placed
      <4>1. DOMAIN now.tree = 1..Len(now.tree)
        BY <1>0 DEF SelState
      <4> QED
        BY <2>2, <3>0, <4>1 DEF Placed
    <3> QED
      BY <3>1, <3>2, <3>3 DEF AtRest
  <2> QED
    BY <1>0, <2>2, <2>3, <2>4 DEF SelInv, SelHolds
<1> QED
  BY <1>2, <1>3, <1>4

\* A handle is let go.
LEMMA MouseReleasedHolds ==
    ASSUME SelInv, NEW v \in Sel!Values, Sel!MouseReleased(v)
    PROVE  SelInv'
<1>0. now \in SelState /\ now.selectionMode /\ now.lastSelected # 0 /\ now.lastSelected \in Nat
        /\ Len(now.objects) \in Nat
      /\ now.lastHovered <= Len(now.objects) /\ (now.phase = "running" => Visited(now)) /\ (now.phase = "idle" => AtRest(now))
  BY DEF SelInv, SelHolds, SelState, Sel!MouseReleased
<1> DEFINE s == Sel!ApplyDevice(now, v, TRUE)
<1>1. now' = [s EXCEPT !.selectionMode = FALSE]
  BY DEF Sel!MouseReleased, Sel!Becomes
<1>2. CASE now.lastSelected > Len(now.objects) \/ Sel!Freed(now) \/ Sel!Bound(now) = {}
  <2>1. s = [now EXCEPT !.undefined = TRUE] \/ s = now
    BY <1>2 DEF Sel!ApplyDevice
  <2> HIDE DEF s
  <2>2. now' \in SelState /\ (\A y \in {"tree", "undo", "objects", "devices", "lastSelected",
                                        "lastHovered", "pending", "phase", "failed"} : now'[y] = now[y])
        /\ ~now'.selectionMode
    BY <1>0, <1>1, <2>1 DEF SelState
  <2>3. Visited(now) => Visited(now')
    BY <2>2 DEF Visited
  <2>4. ASSUME now.phase = "idle" PROVE AtRest(now')
    <3>1. ~now.pending => ~IsModified(now)
      BY <1>2, <2>4, NoneInHand
    <3>2. Settled(now) /\ DueOrHeld(now) /\ Placed(now)
      BY <1>0, <2>4 DEF AtRest
    <3>3. Settled(now')
      BY <2>2, <3>2 DEF Settled
    <3>4. DueOrHeld(now')
      BY <2>2, <3>1, <3>2 DEF DueOrHeld, IsModified
    <3>5. Placed(now')
      BY <2>2, <3>1, <3>2 DEF Placed
    <3> QED
      BY <3>3, <3>4, <3>5 DEF AtRest
  <2> QED
    BY <1>0, <2>2, <2>3, <2>4 DEF SelInv, SelHolds
<1>3. CASE ~(now.lastSelected > Len(now.objects) \/ Sel!Freed(now) \/ Sel!Bound(now) = {})
  <2> DEFINE m == Sel!Moved(now, v, TRUE)
             b == m.abort \/ m.phase = "running"
  <2>1. s = [m EXCEPT !.pending = TRUE, !.abort = b] /\ now.lastSelected <= Len(now.objects)
    BY <1>0, <1>3 DEF Sel!ApplyDevice, Sel!Told
  <2>2. /\ m \in SelState
        /\ \A y \in {"tree", "undo", "lastSelected", "selectionMode", "lastHovered", "pending", "phase",
                     "abort", "failed", "undefined"} : m[y] = now[y]
        /\ Len(m.objects) = Len(now.objects)
        /\ DOMAIN m.devices = DOMAIN now.devices /\ IsModified(m)
        /\ \A i \in DOMAIN m.devices : m.devices[i].own = now.devices[i].own /\ m.devices[i].obj = now.devices[i].obj
    BY <1>0, <1>3, <2>1, SelMovedType
  <2> HIDE DEF m
  <2>3. b \in BOOLEAN
    BY <2>2 DEF SelState
  <2> HIDE DEF b, s
  <2>4. /\ now' \in SelState /\ now'.pending /\ ~now'.selectionMode
        /\ \A y \in {"tree", "objects", "devices", "lastHovered", "phase"} : now'[y] = m[y]
    BY <1>1, <2>1, <2>2, <2>3 DEF SelState
  <2>5. now.phase # "running"
    BY <1>0, <1>3, NoneWhileRunning
  <2>6. ASSUME now.phase = "idle" PROVE AtRest(now')
    <3>0. Settled(now)
      BY <1>0, <2>6 DEF AtRest
    <3>1. Settled(now')
      BY <2>2, <2>4, <3>0 DEF Settled
    <3>2. DueOrHeld(now')
      BY <2>2, <2>4 DEF DueOrHeld, IsModified
    <3> QED
      BY <2>4, <3>1, <3>2 DEF AtRest, Placed
  <2> QED
    BY <1>0, <2>2, <2>4, <2>5, <2>6 DEF SelInv, SelHolds
<1> QED
  BY <1>2, <1>3

\* The thread begins, and visits the filters one after the other.
LEMMA RefreshHolds ==
    ASSUME SelInv, Sel!Refresh
    PROVE  SelInv'
<1>1. now \in SelState /\ now.lastHovered <= Len(now.objects) /\ (now.selectionMode => now.lastSelected # 0)
  BY DEF SelInv, SelHolds
<1>2. now' = [now EXCEPT !.phase = "running", !.devices = <<>>, !.pending = FALSE, !.abort = FALSE]
  BY DEF Sel!Refresh, Sel!Cleared, Sel!Becomes
<1>3. <<>> \in Seq(Devices) /\ Len(<<>>) = 0 /\ DOMAIN <<>> = {}
  OBVIOUS
<1>4. /\ now' \in SelState /\ now'.phase = "running" /\ now'.devices = <<>> /\ ~now'.pending
      /\ \A y \in {"tree", "objects", "lastHovered", "lastSelected", "selectionMode"} : now'[y] = now[y]
  BY <1>1, <1>2, <1>3 DEF SelState
<1>5. Visited(now')
  <2>1. Len(now.tree) \in Nat
    BY <1>1 DEF SelState
  <2> QED
    BY <1>3, <1>4, <2>1 DEF Visited
<1> QED
  BY <1>1, <1>4, <1>5 DEF SelInv, SelHolds

\* The thread refreshes a filter, and makes its device anew.
LEMMA VisitHolds ==
    ASSUME SelInv, Sel!Visit
    PROVE  SelInv'
<1> DEFINE n == Len(now.devices)
           d == Sel!Device(n + 1, now.tree[n + 1])
           ds == Append(now.devices, d)
<1>1. now \in SelState /\ now.lastHovered <= Len(now.objects) /\ (now.selectionMode => now.lastSelected # 0)
      /\ Visited(now) /\ now.devices \in Seq(Devices) /\ now.tree \in Seq(Sel!Values)
  BY DEF SelInv, SelHolds, Sel!Visit, SelState
<1>2. now' = [now EXCEPT !.devices = ds] /\ n < Len(now.tree) /\ now.phase = "running"
  BY DEF Sel!Visit, Sel!Becomes
<1>3. n \in Nat /\ DOMAIN now.devices = 1..n /\ n + 1 \in 1..Len(now.tree) /\ n + 1 <= Len(now.tree)
  BY <1>1, <1>2
<1>4. d \in Devices /\ d.own = n + 1 /\ d.obj = 0 /\ ~d.modified
  <2>1. now.tree[n + 1] \in Sel!Values
    BY <1>1, <1>3
  <2> QED
    BY <1>3, <2>1 DEF Sel!Device, Devices
<1> HIDE DEF d
<1>5. ds \in Seq(Devices) /\ Len(ds) = n + 1 /\ DOMAIN ds = 1..(n + 1)
      /\ \A i \in 1..(n + 1) : ds[i] = IF i = n + 1 THEN d ELSE now.devices[i]
  BY <1>1, <1>3, <1>4
<1> HIDE DEF ds
<1>6. /\ now' \in SelState /\ now'.devices = ds
      /\ \A y \in {"tree", "objects", "lastHovered", "lastSelected", "selectionMode", "pending", "phase"} : now'[y] = now[y]
  BY <1>1, <1>2, <1>5 DEF SelState
<1>7. Visited(now')
  <2>1. \A i \in 1..(n + 1) : i = n + 1 \/ i \in 1..n
    BY <1>3
  <2>2. \A i \in 1..(n + 1) : ds[i].own = i /\ ds[i].obj = 0 /\ ~ds[i].modified
    BY <1>1, <1>3, <1>4, <1>5, <2>1 DEF Visited
  <2> QED
    BY <1>1, <1>3, <1>5, <1>6, <2>2 DEF Visited
<1> QED
  BY <1>1, <1>2, <1>6, <1>7 DEF SelInv, SelHolds

\* It is asked to stop; it ends with an error, or because it was asked to.
LEMMA StopHolds ==
    ASSUME SelInv, Sel!SetAbort \/ Sel!Fail
    PROVE  SelInv'
<1>1. now \in SelState /\ now.lastHovered <= Len(now.objects) /\ (now.selectionMode => now.lastSelected # 0)
      /\ (now.phase = "running" => Visited(now))
  BY DEF SelInv, SelHolds
<1>2. CASE Sel!SetAbort
  <2>1. now' = [now EXCEPT !.abort = TRUE] /\ now.phase # "idle"
    BY <1>2 DEF Sel!SetAbort, Sel!Becomes
  <2>2. /\ now' \in SelState
        /\ \A y \in {"tree", "objects", "devices", "lastHovered", "lastSelected", "selectionMode", "pending", "phase"} :
             now'[y] = now[y]
    BY <1>1, <2>1 DEF SelState
  <2>3. Visited(now) => Visited(now')
    BY <2>2 DEF Visited
  <2> QED
    BY <1>1, <2>1, <2>2, <2>3 DEF SelInv, SelHolds
<1>3. CASE Sel!Fail
  <2>1. now' = [now EXCEPT !.phase = "idle", !.failed = TRUE, !.abort = FALSE] /\ Visited(now)
    BY <1>1, <1>3 DEF Sel!Fail, Sel!Becomes
  <2>2. /\ now' \in SelState /\ now'.failed /\ now'.phase = "idle"
        /\ \A y \in {"tree", "objects", "devices", "lastHovered", "lastSelected", "selectionMode", "pending"} :
             now'[y] = now[y]
    BY <1>1, <2>1 DEF SelState
  <2>3. Settled(now')
    <3>1. now.devices \in Seq(Devices) /\ now.tree \in Seq(Sel!Values) /\ Len(now.objects) \in Nat
      BY <1>1 DEF SelState
    <3>2. Len(now.devices) <= Len(now.tree) /\ DOMAIN now.devices = 1..Len(now.devices)
            /\ DOMAIN now.tree = 1..Len(now.tree)
          /\ Len(now.devices) \in Nat /\ Len(now.tree) \in Nat
      BY <2>1, <3>1 DEF Visited
    <3>3. \A i \in DOMAIN now.devices : i \in DOMAIN now.tree
      BY <3>2
    <3> QED
      BY <2>1, <2>2, <3>1, <3>3 DEF Settled, Visited
  <2>4. AtRest(now')
    BY <2>1, <2>2, <2>3 DEF AtRest, DueOrHeld, Placed, Visited
  <2> QED
    BY <1>1, <2>2, <2>4 DEF SelInv, SelHolds
<1> QED
  BY <1>2, <1>3

\* It ends well: the scene is that of the filters.
LEMMA SelFinishHolds ==
    ASSUME SelInv, Sel!Finish
    PROVE  SelInv'
<1> DEFINE n == Len(now.tree)
           hs == [k \in DOMAIN now.tree |-> Sel!Handle(k, now.tree[k])]
           ds == [k \in DOMAIN now.devices |-> Sel!Shown(now.devices[k], k)]
<1>1. now \in SelState /\ (now.selectionMode => now.lastSelected # 0) /\ Visited(now)
      /\ now.devices \in Seq(Devices) /\ now.tree \in Seq(Sel!Values) /\ Len(now.devices) = n
  BY DEF SelInv, SelHolds, Sel!Finish, SelState
<1>2. now' = [[now EXCEPT !.objects = hs, !.devices = ds, !.phase = "idle"] EXCEPT !.lastHovered = 0]
  BY DEF Sel!Finish, Sel!UpdateScene, Sel!Replaced, Sel!Becomes
<1>3. n \in Nat /\ DOMAIN now.tree = 1..n /\ DOMAIN now.devices = 1..n
  BY <1>1
<1> HIDE DEF n
<1>4. hs \in Seq(Handles) /\ Len(hs) = n
  <2>1. ASSUME NEW k \in 1..n PROVE Sel!Handle(k, now.tree[k]) \in Handles
    <3>1. now.tree[k] \in Sel!Values
      BY <1>1, <1>3
    <3> QED
      BY <3>1 DEF Sel!Handle, Handles
  <2> QED
    BY <1>3, <2>1
<1>5. ASSUME NEW k \in 1..n PROVE ds[k] \in Devices /\ ds[k].own = k /\ ds[k].obj = k /\ ~ds[k].modified
  <2> DEFINE d == now.devices[k]
  <2>1. d \in Devices /\ d.own = k /\ ~d.modified
    BY <1>1, <1>3 DEF Visited
  <2>2. ds[k] = [d EXCEPT !.obj = k]
    BY <1>3 DEF Sel!Shown
  <2> HIDE DEF d, ds
  <2> QED
    BY <2>1, <2>2 DEF Devices
<1>6. ds \in Seq(Devices) /\ DOMAIN ds = 1..n
  BY <1>3, <1>5
<1>7. \A k \in 1..n : hs[k] = Sel!Handle(k, now.tree[k])
  BY <1>3
<1> HIDE DEF hs, ds
<1>8. /\ now' \in SelState /\ now'.objects = hs /\ now'.devices = ds /\ now'.phase = "idle" /\ now'.lastHovered = 0
      /\ \A y \in {"tree", "lastSelected", "selectionMode", "pending", "failed"} : now'[y] = now[y]
  BY <1>1, <1>2, <1>4, <1>6 DEF SelState
<1>9. Settled(now')
  BY <1>3, <1>4, <1>5, <1>6, <1>8 DEF Settled
<1>10. DueOrHeld(now') /\ Placed(now')
  BY <1>1, <1>3, <1>4, <1>5, <1>6, <1>7, <1>8 DEF DueOrHeld, Placed, Visited, n
<1> QED
  BY <1>1, <1>3, <1>4, <1>8, <1>9, <1>10 DEF SelInv, SelHolds, AtRest

\* Every step of the selection.
LEMMA SelStep ==
    ASSUME SelInv, Sel!Next
    PROVE  SelInv'
BY MouseDownHolds, MouseMovedHolds, MouseReleasedHolds, AddFilterHolds, UndoHolds, TimerHolds,
   RemoveFilterHolds, SetPropertyHolds, RefreshHolds, VisitHolds, StopHolds, SelFinishHolds DEF Sel!Next

\* What the themes ask of handles.
LEMMA SelKeeps ==
    ASSUME SelInv
    PROVE  Sel!HandlesAreLive /\ Sel!DragsAreApplied
<1>0. now \in SelState /\ now.lastHovered <= Len(now.objects) /\ (now.phase = "idle" => AtRest(now))
  BY DEF SelInv, SelHolds
<1>1. Sel!HandlesAreLive
  <2>1. now.lastHovered \in Nat /\ Len(now.objects) \in Nat
    BY <1>0 DEF SelState
  <2> QED
    BY <1>0, <2>1 DEF Sel!HandlesAreLive, AtRest, Settled
<1>2. Sel!DragsAreApplied
  <2> SUFFICES ASSUME now.phase = "idle", ~now.selectionMode
               PROVE  /\ now.pending = (Sel!Modified(now) # {})
                      /\ ~now.pending
                         /\ ~now.failed => now.objects = [k \in DOMAIN now.tree |-> Sel!Handle(k, now.tree[k])]
    BY DEF Sel!DragsAreApplied
  <2>1. DueOrHeld(now) /\ Placed(now) /\ now.pending \in BOOLEAN
    BY <1>0 DEF AtRest, SelState
  <2>2. now.pending = (Sel!Modified(now) # {})
    <3>1. IsModified(now) <=> Sel!Modified(now) # {}
      BY DEF IsModified, Sel!Modified
    <3> QED
      BY <2>1, <3>1 DEF DueOrHeld, IsModified
  <2>3. ASSUME ~now.pending, ~now.failed
        PROVE  now.objects = [k \in DOMAIN now.tree |-> Sel!Handle(k, now.tree[k])]
    <3>1. now.objects \in Seq(Handles) /\ now.tree \in Seq(Sel!Values)
      BY <1>0 DEF SelState
    <3>2. DOMAIN now.objects = DOMAIN now.tree
            /\ \A k \in DOMAIN now.tree : now.objects[k] = Sel!Handle(k, now.tree[k])
      BY <2>1, <2>3, <3>1 DEF Placed
    <3> QED
      BY <3>1, <3>2
  <2> QED
    BY <2>2, <2>3
<1> QED
  BY <1>1, <1>2

-----------------------------------------------------------------------------
\* What each part keeps, while it is the part looked at.
PartsInv ==
    /\ part = View!Name  => CamInv
    /\ part = Stash!Name => StashInv /\ ErasedInv
    /\ part = Haz!Name   => HazInv
    /\ part = Plot!Name  => PlotInv
    /\ part = Edit!Name  => EditInv /\ LiveInv
    /\ part = Crop!Name  => CropInv /\ LinkInv
    /\ part = Sel!Name   => SelInv
    /\ part = Conf!Name  => ConfInv

\* No step of a part, whichever it is, breaks what that part keeps.
THEOREM PartsHold == Spec => []PartsInv
<1>1. Init => PartsInv
  BY CamStart, StashStart, ErasedStart, HazStart, PlotStart, EditStart, LiveStart, CropStart,
     LinkStart, SelStart, ConfStart DEF Init, PartsInv
<1>2. PartsInv /\ [Next]_workVars => PartsInv'
  <2> SUFFICES ASSUME PartsInv, [Next]_workVars PROVE PartsInv'
    OBVIOUS
  <2>1. CASE part = View!Name /\ UNCHANGED part /\ View!Next
    <3>1. CamInv'
      BY <2>1, CamStep DEF PartsInv
    <3> QED
      BY <2>1, <3>1 DEF PartsInv, View!Name, Stash!Name, Haz!Name, Plot!Name, Edit!Name, Crop!Name,
         Sel!Name, Conf!Name
  <2>2. CASE part = Stash!Name /\ UNCHANGED part /\ Stash!Next
    <3>1. (StashInv /\ ErasedInv)'
      BY <2>2, StashStep, ErasedStep DEF PartsInv
    <3> QED
      BY <2>2, <3>1 DEF PartsInv, View!Name, Stash!Name, Haz!Name, Plot!Name, Edit!Name, Crop!Name,
         Sel!Name, Conf!Name
  <2>3. CASE part = Haz!Name /\ UNCHANGED part /\ Haz!Next
    <3>1. HazInv'
      BY <2>3, HazStep DEF PartsInv
    <3> QED
      BY <2>3, <3>1 DEF PartsInv, View!Name, Stash!Name, Haz!Name, Plot!Name, Edit!Name, Crop!Name,
         Sel!Name, Conf!Name
  <2>4. CASE part = Plot!Name /\ UNCHANGED part /\ Plot!Next
    <3>1. PlotInv'
      BY <2>4, PlotStep DEF PartsInv
    <3> QED
      BY <2>4, <3>1 DEF PartsInv, View!Name, Stash!Name, Haz!Name, Plot!Name, Edit!Name, Crop!Name,
         Sel!Name, Conf!Name
  <2>5. CASE part = Edit!Name /\ UNCHANGED part /\ Edit!Next
    <3>1. (EditInv /\ LiveInv)'
      BY <2>5, EditStep, LiveStep DEF PartsInv
    <3> QED
      BY <2>5, <3>1 DEF PartsInv, View!Name, Stash!Name, Haz!Name, Plot!Name, Edit!Name, Crop!Name,
         Sel!Name, Conf!Name
  <2>6. CASE part = Crop!Name /\ UNCHANGED part /\ Crop!Next
    <3>1. (CropInv /\ LinkInv)'
      BY <2>6, CropStep, LinkStep DEF PartsInv
    <3> QED
      BY <2>6, <3>1 DEF PartsInv, View!Name, Stash!Name, Haz!Name, Plot!Name, Edit!Name, Crop!Name,
         Sel!Name, Conf!Name
  <2>7. CASE part = Sel!Name /\ UNCHANGED part /\ Sel!Next
    <3>1. SelInv'
      BY <2>7, SelStep DEF PartsInv
    <3> QED
      BY <2>7, <3>1 DEF PartsInv, View!Name, Stash!Name, Haz!Name, Plot!Name, Edit!Name, Crop!Name,
         Sel!Name, Conf!Name
  <2>8. CASE part = Conf!Name /\ UNCHANGED part /\ Conf!Next
    <3>1. ConfInv'
      BY <2>8, ConfStep DEF PartsInv
    <3> QED
      BY <2>8, <3>1 DEF PartsInv, View!Name, Stash!Name, Haz!Name, Plot!Name, Edit!Name, Crop!Name,
         Sel!Name, Conf!Name
  <2>9. CASE UNCHANGED part
               /\ part \notin {View!Name, Stash!Name, Haz!Name, Plot!Name, Edit!Name, Crop!Name, Sel!Name, Conf!Name}
    BY <2>9 DEF PartsInv
  <2>10. CASE UNCHANGED workVars
    <3>0. UNCHANGED part /\ UNCHANGED now
      BY <2>10 DEF workVars
    <3>1. CamInv => CamInv'
      BY <3>0 DEF CamInv
    <3>2. StashInv => StashInv'
      BY <3>0 DEF StashInv
    <3>3. ErasedInv => ErasedInv'
      BY <3>0 DEF ErasedInv
    <3>4. HazInv => HazInv'
      BY <3>0 DEF HazInv
    <3>5. PlotInv => PlotInv'
      BY <3>0 DEF PlotInv
    <3>6. EditInv => EditInv'
      BY <3>0 DEF EditInv
    <3>7. LiveInv => LiveInv'
      BY <3>0 DEF LiveInv
    <3>8. CropInv => CropInv'
      BY <3>0 DEF CropInv
    <3>9. LinkInv => LinkInv'
      BY <3>0 DEF LinkInv, Crop!CropIsCurrent
    <3>10. SelInv => SelInv'
      BY <3>0 DEF SelInv
    <3>11. ConfInv => ConfInv'
      BY <3>0 DEF ConfInv
    <3> QED
      BY <3>0, <3>1, <3>2, <3>3, <3>4, <3>5, <3>6, <3>7, <3>8, <3>9, <3>10, <3>11 DEF PartsInv,
         View!Name, Stash!Name, Haz!Name, Plot!Name, Edit!Name, Crop!Name, Sel!Name, Conf!Name
  <2> QED
    BY <2>1, <2>2, <2>3, <2>4, <2>5, <2>6, <2>7, <2>8, <2>9, <2>10 DEF Next, View!Name, File!Name,
       Stash!Name, Anim!Name, Haz!Name,
       Plot!Name, Edit!Name, Rng!Name, Crop!Name, Sel!Name, Conf!Name
<1> QED
  BY <1>1, <1>2, PTL DEF Spec

\* How far an erasure goes, after any steps.  The Remove button erases the
\* stashes selected, and so does the Delete key if one is selected; of several
\* the key erases the first and none before it (StashDialog.cpp).
\* stripHazardousContents (filtertree.cpp) frees each hazardous filter and each
\* that leaves the tree, and spares those before the first hazardous one; what
\* it frees and leaves in the tree, or frees twice, is behind the branch of a
\* hazardous one.
THEOREM ErasuresBounded == Spec => []ErasuresAreBounded
<1>1. PartsInv => ErasuresAreBounded
  BY ErasedKeeps, HazKeeps DEF PartsInv, ErasuresAreBounded
<1> QED
  BY <1>1, PartsHold, PTL

\* An index or a pointer kept with an entry of a list, a stash, a plot, a range,
\* a handle or a default filter still is of the thing it was taken for (state.cpp,
\* StashDialog.cpp, plot.cpp, APTRanges.cpp, select.cpp, prefDialog.cpp).  The
\* part of the range files on disk is not in the theorem.
THEOREM IndicesLive == Spec => [](part # Rng!Name => IndicesAreLive)
<1>1. PartsInv => (part # Rng!Name => IndicesAreLive)
  BY CamKeeps, StashKeeps, PlotKeeps, LiveKeeps, SelKeeps, ConfKeeps DEF PartsInv, IndicesAreLive
<1> QED
  BY <1>1, PartsHold, PTL

\* What a pane shows is what the state behind it holds: the active camera, the
\* image, ranges and zoom of the plots, the regions of the range editor, the
\* crop of the scene, the handles of filters, and what the next start remembers.
THEOREM ViewsCurrent == Spec => []ViewsAreCurrent
<1>1. PartsInv => ViewsAreCurrent
  BY CamKeeps, PlotKeeps, LiveKeeps, LinkKeeps, SelKeeps, ConfKeeps DEF PartsInv, ViewsAreCurrent
<1> QED
  BY <1>1, PartsHold, PTL

\* The configuration that is written is read again as it was (configFile.cpp),
\* whatever was opened, preferred, saved and read before, and wherever it
\* crashed.  The part of the range files on disk is not in the theorem.
THEOREM FilesReadBack == Spec => [](part # Rng!Name => FilesAreReadBack)
<1>1. PartsInv => (part # Rng!Name => FilesAreReadBack)
  BY ConfKeeps DEF PartsInv, FilesAreReadBack
<1> QED
  BY <1>1, PartsHold, PTL
=============================================================================

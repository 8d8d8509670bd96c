------------------------------- MODULE Stashes -------------------------------
(***************************************************************************)
(* The filter stashes: those of AnalysisState (backend/state.cpp), the     *)
(* combo box that stores and restores them (gui/mainFrame.cpp) and the     *)
(* dialog that shows and erases them (gui/dialogs/StashDialog.cpp).  Both  *)
(* widgets keep offsets into the vector of stashes, here from 1.           *)
(***************************************************************************)
EXTENDS Naturals, Sequences, FiniteSets, Functions
VARIABLE now

Name  == "stashes"
Names == {"a", "b", "c"}                                           \* bound
\* The stashes of a state file.
Files == {<<>>, <<"c", "a", "b">>}

Labels(s) == [i \in 1..Len(s) |-> [name |-> s[i], stash |-> i]]

\* added: the stash last put back, and the one that was asked for.
\* stay, gone: the names that must be among the stashes, and those that must not.
Init ==
    now = [stashes |-> <<>>, combo |-> <<>>, open |-> FALSE, list |-> <<>>,
           selected |-> {}, tree |-> {}, asked |-> "", added |-> "",
           stay |-> {}, gone |-> {}]

Becomes(r) == now' = r

\* vector::erase at an offset.
RemoveAt(s, i) == SubSeq(s, 1, i - 1) \o SubSeq(s, i + 1, Len(s))
UpdateCombo(s) == [s EXCEPT !.combo = Labels(s.stashes)]
\* updateList, updateTree and updateGrid: nothing is selected any more.
UpdateDialog(s) == [s EXCEPT !.list = Labels(s.stashes), !.selected = {}, !.tree = {}]

-----------------------------------------------------------------------------
(* The combo box *)

\* OnComboStash: the stash at the offset kept with the entry.
Restored(e) ==
    [now EXCEPT !.asked = now.combo[e].name, !.added = now.stashes[now.combo[e].stash]]

\* OnComboStashEnter: a known name restores that stash, a new one stores the
\* filters below the selected one.
ComboEnter(n) ==
    /\ ~now.open
    /\ IF n \in Range(now.stashes)
       THEN \E e \in 1..Len(now.combo) : now.combo[e].name = n /\ Becomes(Restored(e))
       ELSE Becomes(UpdateCombo([now EXCEPT !.stashes = Append(@, n),
                                               !.stay = @ \cup {n}, !.gone = @ \ {n}]))

ComboSelect(e) == ~now.open /\ Becomes(Restored(e))

\* loadFile, a state file.
Load(f) ==
    ~now.open /\ Becomes(UpdateCombo([now EXCEPT !.stashes = f, !.stay = Range(f), !.gone = Names \ Range(f)]))

-----------------------------------------------------------------------------
(* The dialog *)

OpenDialog == /\ ~now.open /\ now.stashes # <<>>
              /\ Becomes(UpdateDialog([now EXCEPT !.open = TRUE]))

\* The tree is that of the stash that alone is selected.
Select(is) ==
    now.open /\ Becomes([now EXCEPT !.selected = is, !.tree = IF Cardinality(is) = 1 THEN is ELSE {}])

Shown(is) == {now.list[i].name : i \in is}
Left(is)  == Shown(DOMAIN now.list \ is)

\* One after the other from the first, while those behind move up; the last may
\* by then be out of range (an ASSERT), and is passed over here.
EraseEach(s, is) ==
    LET e[i \in 0..Len(s)] ==
            IF i = 0 THEN s
            ELSE IF i \in is /\ i <= Len(e[i - 1]) THEN RemoveAt(e[i - 1], i) ELSE e[i - 1]
    IN  e[Len(s)]
\* eraseStashes, from the last to the first.
EraseAll(s, is) ==
    LET e[k \in 0..Len(s)] ==
            IF k = 0 THEN s
            ELSE LET i == Len(s) - k + 1 IN IF i \in is THEN RemoveAt(e[k - 1], i) ELSE e[k - 1]
    IN  e[Len(s)]
OnBtnRemove ==
    /\ now.open
    /\ Becomes(UpdateDialog([now EXCEPT !.stashes = EraseAll(@, now.selected),
                                        !.stay = Left(now.selected), !.gone = Shown(now.selected)]))

\* OnListKeyDown: of several, only what becomes of the first and of those
\* before it is certain.
Before(is)  == {j \in DOMAIN now.list : \A k \in is : j < k}
First(is)   == {j \in is : \A k \in is : j <= k}
Spared(is)  == IF is = First(is) THEN Left(is) ELSE Shown(Before(is))
OnListKeyDown ==
    /\ now.open
    /\ Becomes(UpdateDialog([now EXCEPT !.stashes = EraseEach(@, now.selected),
                                        !.stay = Spared(now.selected), !.gone = Shown(First(now.selected))]))

CloseDialog == now.open /\ Becomes(UpdateCombo([now EXCEPT !.open = FALSE, !.list = <<>>,
                                                           !.selected = {}, !.tree = {}]))

Next ==
    \/ \E n \in Names : ComboEnter(n)
    \/ \E e \in 1..Len(now.combo) : ComboSelect(e)
    \/ \E f \in Files : Load(f)
    \/ OpenDialog
    \/ \E is \in SUBSET (1..Len(now.list)) : Select(is)
    \/ OnBtnRemove
    \/ OnListKeyDown
    \/ CloseDialog

-----------------------------------------------------------------------------
\* What is restored is what was asked for: offsets kept with an entry still
\* name the stash it shows, and the tree of the dialog is of a stash shown.
IndicesLive ==
    /\ now.added = now.asked
    /\ ~now.open => \A i \in DOMAIN now.combo : now.stashes[now.combo[i].stash] = now.combo[i].name
    /\ \A i \in DOMAIN now.list : now.stashes[now.list[i].stash] = now.list[i].name
    /\ now.tree \subseteq now.selected
\* No two stashes have the same name.
NamesUnique == IsInjective(now.stashes)
\* The button erases the stashes selected and no other, and so does the Delete
\* key if one is selected; of several it erases the first and none before it.
ErasuresAreBounded == now.stay \subseteq Range(now.stashes) /\ now.gone \cap Range(now.stashes) = {}
=============================================================================

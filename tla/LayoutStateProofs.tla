------------------------ MODULE LayoutStateProofs ------------------------
(***************************************************************************)
(* Proofs about LayoutState, for every value of its constants: the type    *)
(* invariant and the ownership of sessions and tabs.                       *)
(*                                                                         *)
(* The argument.  TypeOK /\ OwnershipOK is inductive.  The methods of Tab, *)
(* and those that only pass the size or the activity on, keep the type and *)
(* leave the sessions and their lists of tabs alone (SameTree).  In the    *)
(* middle of a removal or an addition one session of the list may have no  *)
(* tab, and the active session may be moving (SessionsBut); the methods of *)
(* Session and LayoutState lead from SessionsOK to SessionsBut and back.   *)
(* Every action applies one such method to a session and a tab it takes    *)
(* from the lists, or from an event it checks or the model checks for it.  *)
(***************************************************************************)
EXTENDS LayoutState, TLAPS

-----------------------------------------------------------------------------
(* Vectors of pointers *)

\* IndexOf returns a position at which the element stands.
LEMMA IndexOfType ==
    ASSUME NEW S, NEW seq \in Seq(S), NEW x \in Elems(seq)
    PROVE  IndexOf(seq, x) \in 1 .. Len(seq) /\ seq[IndexOf(seq, x)] = x
BY DEF Elems, IndexOf

\* The elements of a sequence over S are in S.
LEMMA ElemsSubset ==
    ASSUME NEW S, NEW seq \in Seq(S)
    PROVE  Elems(seq) \subseteq S
BY DEF Elems

\* di::erase keeps the element type and removes one element, if any.
LEMMA WithoutType ==
    ASSUME NEW S, NEW seq \in Seq(S), NEW x
    PROVE  /\ Without(seq, x) \in Seq(S)
           /\ x \in Elems(seq) => Len(Without(seq, x)) = Len(seq) - 1
<1>1. CASE x \notin Elems(seq)
  BY <1>1 DEF Without
<1>2. CASE x \in Elems(seq)
  <2>1. IndexOf(seq, x) \in 1 .. Len(seq)
    BY <1>2, IndexOfType
  <2> QED
    BY <1>2, <2>1 DEF Without
<1> QED
  BY <1>1, <1>2

\* The right part of a concatenation.
LEMMA ConcatRight ==
    ASSUME NEW S, NEW a \in Seq(S), NEW b \in Seq(S),
           NEW i \in Len(a) + 1 .. Len(a) + Len(b)
    PROVE  (a \o b)[i] = b[i - Len(a)]
OBVIOUS

\* Where the elements of Without(seq, x) come from.
LEMMA WithoutAt ==
    ASSUME NEW S, NEW seq \in Seq(S), NEW x \in Elems(seq),
           NEW i \in 1 .. Len(Without(seq, x))
    PROVE  Without(seq, x)[i] = seq[IF i < IndexOf(seq, x) THEN i ELSE i + 1]
<1>1. IndexOf(seq, x) \in 1 .. Len(seq)
  BY IndexOfType
<1>2. Len(Without(seq, x)) = Len(seq) - 1
  BY WithoutType
<1> DEFINE k == IndexOf(seq, x)
           l == SubSeq(seq, 1, k - 1)
           r == SubSeq(seq, k + 1, Len(seq))
<1>3. Without(seq, x) = l \o r
  BY DEF Without
<1>4. Len(l) = k - 1 /\ Len(r) = Len(seq) - k /\ l \in Seq(S) /\ r \in Seq(S)
  BY <1>1
<1>5. CASE i < k
  <2>1. (l \o r)[i] = l[i]
    BY <1>4, <1>5, <1>1, <1>2
  <2>2. l[i] = seq[i]
    BY <1>1, <1>5
  <2> QED
    BY <1>3, <1>5, <2>1, <2>2
<1>6. CASE i >= k
  <2>0. i \in Len(l) + 1 .. Len(l) + Len(r) /\ i - Len(l) = i - k + 1
    BY <1>1, <1>2, <1>4, <1>6, SMTT(30)
  <2>1. (l \o r)[i] = r[i - k + 1]
    <3>1. l \in Seq(S) /\ r \in Seq(S) /\ i \in Len(l) + 1 .. Len(l) + Len(r)
      BY <1>4, <2>0
    <3> HIDE DEF l, r, k
    <3>2. (l \o r)[i] = r[i - Len(l)]
      BY <3>1, ConcatRight
    <3> QED
      BY <2>0, <3>2
  <2>2. r[i - k + 1] = seq[i + 1]
    BY <1>1, <1>2, <1>6
  <2>3. (IF i < k THEN i ELSE i + 1) = i + 1
    BY <1>1, <1>6
  <2> HIDE DEF l, r
  <2> QED
    BY <1>3, <2>1, <2>2, <2>3
<1> QED
  BY <1>1, <1>5, <1>6

\* di::erase on a list without duplicates removes exactly the element, and adds no duplicate.
LEMMA WithoutElems ==
    ASSUME NEW S, NEW seq \in Seq(S), Injective(seq), NEW x
    PROVE  /\ Elems(Without(seq, x)) = Elems(seq) \ {x}
           /\ Injective(Without(seq, x))
<1>1. CASE x \notin Elems(seq)
  BY <1>1 DEF Without
<1>2. CASE x \in Elems(seq)
  <2> DEFINE k == IndexOf(seq, x)
             w == Without(seq, x)
             At(i) == IF i < k THEN i ELSE i + 1
  <2>1. k \in 1 .. Len(seq) /\ seq[k] = x
    BY <1>2, IndexOfType
  <2>2. Len(w) = Len(seq) - 1 /\ w \in Seq(S)
    BY <1>2, WithoutType
  <2>3. \A i \in 1 .. Len(w) : w[i] = seq[At(i)]
    BY <1>2, WithoutAt
  <2>4. \A i \in 1 .. Len(w) : At(i) \in 1 .. Len(seq) /\ At(i) # k
    BY <2>1, <2>2
  <2> HIDE DEF w, k
  <2>5. Injective(w)
    <3> SUFFICES ASSUME NEW i \in 1 .. Len(w), NEW j \in 1 .. Len(w), w[i] = w[j]
                 PROVE  i = j
      BY DEF Injective
    <3>1. seq[At(i)] = seq[At(j)]
      BY <2>3
    <3>2. At(i) = At(j)
      BY <2>4, <3>1 DEF Injective
    <3> QED
      BY <2>1, <2>2, <3>2
  <2>6. Elems(w) \subseteq Elems(seq) \ {x}
    BY <2>1, <2>2, <2>3, <2>4 DEF Elems, Injective
  <2>7. ASSUME NEW j \in 1 .. Len(seq), seq[j] # x
        PROVE  seq[j] \in Elems(w)
    <3>1. CASE j < k
      <4>1. j \in 1 .. Len(w) /\ w[j] = seq[j]
        BY <2>1, <2>2, <2>3, <3>1
      <4> QED
        BY <4>1 DEF Elems
    <3>2. CASE j > k
      <4>1. j - 1 \in 1 .. Len(w) /\ w[j - 1] = seq[j]
        BY <2>1, <2>2, <2>3, <3>2
      <4> QED
        BY <4>1 DEF Elems
    <3> QED
      BY <2>1, <2>7, <3>1, <3>2
  <2>8. Elems(seq) \ {x} \subseteq Elems(w)
    BY <2>7 DEF Elems
  <2> QED
    BY <2>5, <2>6, <2>8 DEF w
<1> QED
  BY <1>1, <1>2

\* push_back adds exactly the element, and no duplicate when it was not there.
LEMMA AppendElems ==
    ASSUME NEW S, NEW seq \in Seq(S), NEW x \in S
    PROVE  /\ Append(seq, x) \in Seq(S)
           /\ Elems(Append(seq, x)) = Elems(seq) \cup {x}
           /\ Injective(seq) /\ x \notin Elems(seq) => Injective(Append(seq, x))
<1>1. Append(seq, x) \in Seq(S) /\ Len(Append(seq, x)) = Len(seq) + 1
  OBVIOUS
<1>2. \A i \in 1 .. Len(seq) + 1 : Append(seq, x)[i] = IF i <= Len(seq) THEN seq[i] ELSE x
  OBVIOUS
<1>3. Len(seq) \in Nat
  OBVIOUS
<1> QED
  BY <1>1, <1>2, <1>3 DEF Elems, Injective

\* The element that becomes active when x is removed is one of those that stay, if any stays
\* (session.cpp:46-60 and layout_state.cpp:105-119).
LEMMA NeighbourElem ==
    ASSUME NEW S, NEW seq \in Seq(S), Injective(seq), NEW x \in Elems(seq)
    PROVE  IF Without(seq, x) = <<>> THEN Neighbour(seq, x) = None
           ELSE Neighbour(seq, x) \in Elems(Without(seq, x))
<1>1. IndexOf(seq, x) \in 1 .. Len(seq) /\ seq[IndexOf(seq, x)] = x
  BY IndexOfType
<1>2. Len(Without(seq, x)) = Len(seq) - 1 /\ Without(seq, x) \in Seq(S)
  BY WithoutType
<1>3. Elems(Without(seq, x)) = Elems(seq) \ {x}
  BY WithoutElems
<1>4. CASE Len(seq) = 1
  BY <1>2, <1>4 DEF Neighbour
<1>5. CASE Len(seq) # 1
  <2>1. PICK j \in 1 .. Len(seq) : j # IndexOf(seq, x) /\ Neighbour(seq, x) = seq[j]
    <3>1. CASE IndexOf(seq, x) = Len(seq)
      BY <1>1, <1>5, <3>1 DEF Neighbour
    <3>2. CASE IndexOf(seq, x) # Len(seq)
      BY <1>1, <1>5, <3>2 DEF Neighbour
    <3> QED
      BY <3>1, <3>2
  <2>2. Without(seq, x) # <<>>
    BY <1>1, <1>2, <1>5
  <2>3. seq[j] # x
    BY <1>1, <2>1 DEF Injective
  <2> QED
    BY <1>3, <2>1, <2>2, <2>3 DEF Elems
<1> QED
  BY <1>4, <1>5

\* The neighbour is an element or null.
LEMMA NeighbourType ==
    ASSUME NEW S, NEW seq \in Seq(S), NEW x
    PROVE  Neighbour(seq, x) \in S \cup {None}
<1>1. CASE x \in Elems(seq)
  <2>1. IndexOf(seq, x) \in 1 .. Len(seq)
    BY <1>1, IndexOfType
  <2>2. CASE Len(seq) = 1
    BY <1>1, <2>2 DEF Neighbour
  <2>3. CASE Len(seq) # 1
    <3>1. CASE IndexOf(seq, x) = Len(seq)
      <4>1. IndexOf(seq, x) - 1 \in 1 .. Len(seq)
        BY <2>1, <2>3, <3>1
      <4> QED
        BY <1>1, <2>3, <3>1, <4>1 DEF Neighbour
    <3>2. CASE IndexOf(seq, x) # Len(seq)
      <4>1. IndexOf(seq, x) + 1 \in 1 .. Len(seq)
        BY <2>1, <3>2
      <4> QED
        BY <1>1, <2>3, <3>2, <4>1 DEF Neighbour
    <3> QED
      BY <3>1, <3>2
  <2> QED
    BY <2>2, <2>3
<1>2. CASE x \notin Elems(seq)
  BY <1>2 DEF Neighbour, Front1
<1> QED
  BY <1>1, <1>2

-----------------------------------------------------------------------------
(* Methods of Tab: they keep the type and leave sessions and lists of tabs alone *)

SameTree(st, r) ==
    /\ r.sessions = st.sessions
    /\ r.activeSession = st.activeSession
    /\ r.tabs = st.tabs
    /\ r.activeTab = st.activeTab

\* Tab::layout.
LEMMA TabLayoutType ==
    ASSUME NEW st \in LayoutType, NEW t \in Tab, NEW size \in Sizes \cup {None}
    PROVE  TabLayout(st, t, size) \in LayoutType /\ SameTree(st, TabLayout(st, t, size))
BY ZenonT(60) DEF TabLayout, LayoutType, SameTree

\* The recency list after Tab::set_active.
LEMMA PushFrontType ==
    ASSUME NEW S, NEW seq \in Seq(S), NEW x \in S
    PROVE  <<x>> \o Without(seq, x) \in Seq(S)
BY WithoutType

\* Tab::set_active.
LEMMA TabSetActiveType ==
    ASSUME NEW st \in LayoutType, NEW t \in Tab, NEW p \in Pane \cup {None}
    PROVE  TabSetActive(st, t, p) \in LayoutType /\ SameTree(st, TabSetActive(st, t, p))
<1> DEFINE windowed == [st EXCEPT !.fullScreen[t] = None]
           cleared == IF st.fullScreen[t] \in {None, p} THEN st
                      ELSE TabLayout(windowed, t, st.tabSize[t])
           active2 == [cleared.active EXCEPT ![t] = p]
           list == IF p = None THEN cleared.recency[t]
                   ELSE <<p>> \o Without(cleared.recency[t], p)
           recency2 == [cleared.recency EXCEPT ![t] = list]
           focused2 == IF st.tabIsActive[t] THEN (cleared.focused \ {st.active[t]}) \cup NonNull(p)
                       ELSE cleared.focused
<1>1. windowed \in LayoutType /\ SameTree(st, windowed) /\ SameTree(st, st)
  BY DEF LayoutType, SameTree
<1>2. st.tabSize[t] \in Sizes \cup {None}
  BY DEF LayoutType
<1>3. TabSetActive(st, t, p) =
        IF st.active[t] = p THEN st
        ELSE [cleared EXCEPT !.active = active2, !.recency = recency2, !.focused = focused2]
  BY DEF TabSetActive
<1> HIDE DEF windowed
<1>4. cleared \in LayoutType /\ SameTree(st, cleared)
  BY <1>1, <1>2, TabLayoutType DEF SameTree
<1> HIDE DEF cleared
<1>5. list \in Seq(Pane)
  BY <1>4, PushFrontType DEF LayoutType
<1> HIDE DEF list
<1>6. /\ active2 \in [Tab -> Pane \cup {None}]
      /\ recency2 \in [Tab -> Seq(Pane)]
      /\ focused2 \in SUBSET Pane
  BY <1>4, <1>5 DEF LayoutType, NonNull
<1> HIDE DEF active2, recency2, focused2
<1>7. CASE st.active[t] = p
  BY <1>1, <1>3, <1>7
<1>8. CASE st.active[t] # p
  <2> DEFINE result == [cleared EXCEPT !.active = active2, !.recency = recency2,
                                       !.focused = focused2]
  <2>1. result \in LayoutType
    BY <1>4, <1>6 DEF LayoutType
  <2>2. SameTree(st, result)
    BY <1>4 DEF SameTree, LayoutType
  <2> QED
    BY <1>3, <1>8, <2>1, <2>2
<1> QED
  BY <1>7, <1>8

\* Tab::set_is_active.
LEMMA TabSetIsActiveType ==
    ASSUME NEW st \in LayoutType, NEW t \in Tab, NEW b \in BOOLEAN
    PROVE  TabSetIsActive(st, t, b) \in LayoutType /\ SameTree(st, TabSetIsActive(st, t, b))
BY DEF TabSetIsActive, LayoutType, SameTree, NonNull

\* Tab::set_full_screen_pane.
LEMMA TabSetFullScreenType ==
    ASSUME NEW st \in LayoutType, NEW t \in Tab, NEW p \in Pane \cup {None}
    PROVE  TabSetFullScreen(st, t, p) \in LayoutType /\ SameTree(st, TabSetFullScreen(st, t, p))
<1> DEFINE full == [st EXCEPT !.fullScreen[t] = p]
<1>1. full \in LayoutType /\ SameTree(st, full)
  BY DEF LayoutType, SameTree
<1>2. st.tabSize[t] \in Sizes \cup {None}
  BY DEF LayoutType
<1>4. TabSetFullScreen(st, t, p) =
        IF st.fullScreen[t] = p THEN st
        ELSE IF p = None THEN TabLayout(full, t, st.tabSize[t])
        ELSE TabLayout(TabSetActive(full, t, p), t, st.tabSize[t])
  BY DEF TabSetFullScreen
<1> HIDE DEF full
<1>3. TabSetActive(full, t, p) \in LayoutType /\ SameTree(full, TabSetActive(full, t, p))
  BY <1>1, TabSetActiveType
<1> QED
  BY <1>1, <1>2, <1>3, <1>4, TabLayoutType DEF SameTree

\* The front of a list, or null.
LEMMA Front1Type ==
    ASSUME NEW S, NEW seq \in Seq(S)
    PROVE  Front1(seq) \in S \cup {None}
BY DEF Front1

\* Tab::remove_pane.
LEMMA TabRemovePaneType ==
    ASSUME NEW st \in LayoutType, NEW t \in Tab, NEW p \in Pane
    PROVE  TabRemovePane(st, t, p) \in LayoutType /\ SameTree(st, TabRemovePane(st, t, p))
<1> DEFINE unlisted == [st EXCEPT !.fullScreen[t] = IF @ = p THEN None ELSE @,
                                  !.recency[t] = Without(@, p)]
           refocused == IF st.active[t] = p
                        THEN TabSetActive(unlisted, t, Front1(unlisted.recency[t]))
                        ELSE unlisted
<1>1. Without(st.recency[t], p) \in Seq(Pane)
  BY WithoutType DEF LayoutType
<1>2. unlisted \in LayoutType /\ SameTree(st, unlisted)
  BY <1>1 DEF LayoutType, SameTree
<1>5. TabRemovePane(st, t, p) = [refocused EXCEPT !.panes[t] = @ \ {p}]
  BY DEF TabRemovePane
<1> HIDE DEF unlisted
<1>3. Front1(unlisted.recency[t]) \in Pane \cup {None}
  BY <1>2, Front1Type DEF LayoutType
<1>4. refocused \in LayoutType /\ SameTree(st, refocused)
  BY <1>2, <1>3, TabSetActiveType DEF SameTree
<1> HIDE DEF refocused
<1> DEFINE panes2 == [refocused.panes EXCEPT ![t] = @ \ {p}]
<1>8. panes2 \in [Tab -> SUBSET Pane]
  BY <1>4 DEF LayoutType
<1>9. TabRemovePane(st, t, p) = [refocused EXCEPT !.panes = panes2]
  BY <1>5
<1> HIDE DEF panes2
<1>6. TabRemovePane(st, t, p) \in LayoutType
  BY <1>4, <1>8, <1>9 DEF LayoutType
<1>7. SameTree(refocused, TabRemovePane(st, t, p))
  BY <1>4, <1>5 DEF LayoutType, SameTree
<1> QED
  BY <1>4, <1>6, <1>7 DEF SameTree

\* Tab::add_pane.
LEMMA TabAddPaneType ==
    ASSUME NEW st \in LayoutType, NEW t \in Tab, NEW p \in Pane
    PROVE  TabAddPane(st, t, p) \in LayoutType /\ SameTree(st, TabAddPane(st, t, p))
<1> DEFINE split == [st EXCEPT !.panes[t] = @ \cup {p}, !.tree[t] = st.panes[t] \cup {p}]
<1>1. split \in LayoutType /\ SameTree(st, split)
  BY DEF LayoutType, SameTree
<1>2. TabAddPane(st, t, p) = TabSetActive(split, t, p)
  BY DEF TabAddPane
<1> HIDE DEF split
<1> QED
  BY <1>1, <1>2, TabSetActiveType DEF SameTree

\* Tab::replace_pane.
LEMMA TabReplacePaneType ==
    ASSUME NEW st \in LayoutType, NEW t \in Tab, NEW old \in Pane, NEW new \in Pane
    PROVE  /\ TabReplacePane(st, t, old, new) \in LayoutType
           /\ SameTree(st, TabReplacePane(st, t, old, new))
<1> DEFINE recency2 == [st.recency EXCEPT ![t] = Replaced(@, old, new)]
           active2 == [st.active EXCEPT ![t] = IF @ = old THEN new ELSE @]
           focused2 == IF st.active[t] = old THEN st.focused \cup {new} ELSE st.focused
           fullScreen2 == [st.fullScreen EXCEPT ![t] = IF @ = old THEN new ELSE @]
           tree2 == [st.tree EXCEPT ![t] = (@ \ {old}) \cup {new}]
           panes2 == [st.panes EXCEPT ![t] = (@ \ {old}) \cup {new}]
<1>1. st.recency[t] \in Seq(Pane)
  BY DEF LayoutType
<1>2. Replaced(st.recency[t], old, new) \in Seq(Pane)
  BY <1>1 DEF Replaced
<1>3. /\ recency2 \in [Tab -> Seq(Pane)]
      /\ active2 \in [Tab -> Pane \cup {None}]
      /\ focused2 \in SUBSET Pane
      /\ fullScreen2 \in [Tab -> Pane \cup {None}]
      /\ tree2 \in [Tab -> SUBSET Pane]
      /\ panes2 \in [Tab -> SUBSET Pane]
  BY <1>2 DEF LayoutType
<1>4. TabReplacePane(st, t, old, new) =
        [st EXCEPT !.recency = recency2, !.active = active2, !.focused = focused2,
                   !.fullScreen = fullScreen2, !.tree = tree2, !.panes = panes2]
  BY DEF TabReplacePane
<1> HIDE DEF recency2, active2, focused2, fullScreen2, tree2, panes2
<1>5. TabReplacePane(st, t, old, new) \in LayoutType
  BY <1>3, <1>4, ZenonT(60) DEF LayoutType
<1>6. SameTree(st, TabReplacePane(st, t, old, new))
  BY <1>4 DEF LayoutType, SameTree
<1> QED
  BY <1>5, <1>6

\* The destructor of Tab.
LEMMA TabDestroyType ==
    ASSUME NEW st \in LayoutType, NEW t \in Tab
    PROVE  TabDestroy(st, t) \in LayoutType /\ SameTree(st, TabDestroy(st, t))
<1> DEFINE panes2 == [st.panes EXCEPT ![t] = {}]
           recency2 == [st.recency EXCEPT ![t] = <<>>]
           active2 == [st.active EXCEPT ![t] = None]
           fullScreen2 == [st.fullScreen EXCEPT ![t] = None]
           tabIsActive2 == [st.tabIsActive EXCEPT ![t] = FALSE]
           tabSize2 == [st.tabSize EXCEPT ![t] = None]
           tree2 == [st.tree EXCEPT ![t] = {}]
<1>1. /\ panes2 \in [Tab -> SUBSET Pane]
      /\ recency2 \in [Tab -> Seq(Pane)]
      /\ active2 \in [Tab -> Pane \cup {None}]
      /\ fullScreen2 \in [Tab -> Pane \cup {None}]
      /\ tabIsActive2 \in [Tab -> BOOLEAN]
      /\ tabSize2 \in [Tab -> Sizes \cup {None}]
      /\ tree2 \in [Tab -> SUBSET Pane]
  BY DEF LayoutType
<1>2. TabDestroy(st, t) =
        [st EXCEPT !.panes = panes2, !.recency = recency2, !.active = active2,
                   !.fullScreen = fullScreen2, !.tabIsActive = tabIsActive2,
                   !.tabSize = tabSize2, !.tree = tree2]
  BY DEF TabDestroy
<1> HIDE DEF panes2, recency2, active2, fullScreen2, tabIsActive2, tabSize2, tree2
<1>3. TabDestroy(st, t) \in LayoutType
  BY <1>1, <1>2, ZenonT(60) DEF LayoutType
<1>4. SameTree(st, TabDestroy(st, t))
  BY <1>2 DEF LayoutType, SameTree
<1> QED
  BY <1>3, <1>4

-----------------------------------------------------------------------------
(* Methods of Session *)

\* Session::layout.
LEMMA SessionLayoutType ==
    ASSUME NEW st \in LayoutType, NEW s \in Session, NEW size \in Sizes \cup {None}
    PROVE  SessionLayout(st, s, size) \in LayoutType /\ SameTree(st, SessionLayout(st, s, size))
<1> DEFINE sized == [st EXCEPT !.sessionSize[s] = size]
<1>1. sized \in LayoutType /\ SameTree(st, sized) /\ st.activeTab[s] \in Tab \cup {None}
  BY DEF LayoutType, SameTree
<1>2. SessionLayout(st, s, size) =
        IF st.activeTab[s] = None THEN sized ELSE TabLayout(sized, st.activeTab[s], size)
  BY DEF SessionLayout
<1> HIDE DEF sized
<1> QED
  BY <1>1, <1>2, TabLayoutType DEF SameTree

\* Session::set_is_active.
LEMMA SessionSetIsActiveType ==
    ASSUME NEW st \in LayoutType, NEW s \in Session, NEW b \in BOOLEAN
    PROVE  SessionSetIsActive(st, s, b) \in LayoutType /\ SameTree(st, SessionSetIsActive(st, s, b))
<1> DEFINE set == [st EXCEPT !.sessionIsActive[s] = b]
<1>1. set \in LayoutType /\ SameTree(st, set) /\ st.activeTab[s] \in Tab \cup {None}
  BY DEF LayoutType, SameTree
<1>2. SessionSetIsActive(st, s, b) =
        IF st.sessionIsActive[s] = b THEN st
        ELSE IF st.activeTab[s] = None THEN set ELSE TabSetIsActive(set, st.activeTab[s], b)
  BY DEF SessionSetIsActive
<1>3. SameTree(st, st)
  BY DEF SameTree
<1> HIDE DEF set
<1> QED
  BY <1>1, <1>2, <1>3, TabSetIsActiveType DEF SameTree

\* Session::set_active_tab changes the active tab of that session, and nothing else of the tree.
LEMMA SessionSetActiveTabType ==
    ASSUME NEW st \in LayoutType, NEW s \in Session, NEW t \in Tab \cup {None}
    PROVE  /\ SessionSetActiveTab(st, s, t) \in LayoutType
           /\ SameTree([st EXCEPT !.activeTab[s] = t], SessionSetActiveTab(st, s, t))
<1> DEFINE left == IF st.sessionIsActive[s] /\ st.activeTab[s] # None
                   THEN TabSetIsActive(st, st.activeTab[s], FALSE) ELSE st
           moved == [left EXCEPT !.activeTab[s] = t]
           entered == IF st.sessionIsActive[s] /\ t # None
                      THEN TabSetIsActive(moved, t, TRUE) ELSE moved
<1>1. st.activeTab[s] \in Tab \cup {None} /\ st.sessionSize[s] \in Sizes \cup {None}
  BY DEF LayoutType
<1>2. left \in LayoutType /\ SameTree(st, left)
  BY <1>1, TabSetIsActiveType DEF SameTree
<1>5. SessionSetActiveTab(st, s, t) =
        IF st.activeTab[s] = t THEN st ELSE SessionLayout(entered, s, st.sessionSize[s])
  BY DEF SessionSetActiveTab
<1> HIDE DEF left
<1>3. moved \in LayoutType /\ SameTree([st EXCEPT !.activeTab[s] = t], moved)
  BY <1>2 DEF LayoutType, SameTree
<1> HIDE DEF moved
<1>4. entered \in LayoutType /\ SameTree([st EXCEPT !.activeTab[s] = t], entered)
  BY <1>3, TabSetIsActiveType DEF SameTree
<1> HIDE DEF entered
<1>6. CASE st.activeTab[s] = t
  <2>1. SameTree([st EXCEPT !.activeTab[s] = t], st)
    BY <1>6 DEF SameTree, LayoutType
  <2> QED
    BY <1>5, <1>6, <2>1
<1>7. CASE st.activeTab[s] # t
  <2>1. /\ SessionLayout(entered, s, st.sessionSize[s]) \in LayoutType
        /\ SameTree(entered, SessionLayout(entered, s, st.sessionSize[s]))
    BY <1>1, <1>4, SessionLayoutType
  <2> QED
    BY <1>4, <1>5, <1>7, <2>1 DEF SameTree
<1> QED
  BY <1>6, <1>7

-----------------------------------------------------------------------------
(* Methods that change the sessions and their tabs *)

\* SessionsOK speaks of the sessions and their lists of tabs only.
LEMMA SessionsOKSame ==
    ASSUME NEW st \in LayoutType, SessionsOK(st), NEW r \in LayoutType, SameTree(st, r)
    PROVE  SessionsOK(r)
BY DEF SessionsOK, SameTree

\* LayoutState::layout.
LEMMA LayoutStructure ==
    ASSUME NEW st \in LayoutType, NEW size \in Sizes
    PROVE  Layout(st, size) \in LayoutType /\ SameTree(st, Layout(st, size))
<1> DEFINE sized == [st EXCEPT !.size = size]
<1>1. sized \in LayoutType /\ SameTree(st, sized)
  BY DEF LayoutType, SameTree
<1>2. st.activeSession \in Session \cup {None} /\ size \in Sizes \cup {None}
  BY DEF LayoutType
<1>3. Layout(st, size) =
        IF st.activeSession = None THEN sized ELSE SessionLayout(sized, st.activeSession, size)
  BY DEF Layout
<1> HIDE DEF sized
<1> QED
  BY <1>1, <1>2, <1>3, SessionLayoutType DEF SameTree

\* LayoutState::set_active_session changes the active session, and nothing else of the tree.
LEMMA SetActiveSessionType ==
    ASSUME NEW st \in LayoutType, NEW s \in Session \cup {None}, NEW focus \in BOOLEAN
    PROVE  /\ SetActiveSession(st, s, focus) \in LayoutType
           /\ SameTree([st EXCEPT !.activeSession = s], SetActiveSession(st, s, focus))
<1> DEFINE left == IF st.activeSession # None
                   THEN SessionSetIsActive(st, st.activeSession, FALSE) ELSE st
           moved == [left EXCEPT !.activeSession = s]
           entered == IF focus /\ s # None THEN SessionSetIsActive(moved, s, TRUE) ELSE moved
<1>1. st.activeSession \in Session \cup {None}
  BY DEF LayoutType
<1>2. left \in LayoutType /\ SameTree(st, left)
  BY <1>1, SessionSetIsActiveType DEF SameTree
<1>3. SetActiveSession(st, s, focus) =
        IF st.activeSession = s THEN st ELSE Layout(entered, entered.size)
  BY DEF SetActiveSession
<1> HIDE DEF left
<1>4. moved \in LayoutType /\ SameTree([st EXCEPT !.activeSession = s], moved)
  BY <1>2 DEF LayoutType, SameTree
<1> HIDE DEF moved
<1>5. entered \in LayoutType /\ SameTree([st EXCEPT !.activeSession = s], entered)
  BY <1>4, SessionSetIsActiveType DEF SameTree
<1>6. entered.size \in Sizes
  BY <1>5 DEF LayoutType
<1> HIDE DEF entered
<1>7. CASE st.activeSession = s
  <2>1. SameTree([st EXCEPT !.activeSession = s], st)
    BY <1>7 DEF SameTree, LayoutType
  <2> QED
    BY <1>3, <1>7, <2>1
<1>8. CASE st.activeSession # s
  <2>1. /\ Layout(entered, entered.size) \in LayoutType
        /\ SameTree(entered, Layout(entered, entered.size))
    BY <1>5, <1>6, LayoutStructure
  <2> QED
    BY <1>3, <1>5, <1>8, <2>1 DEF SameTree
<1> QED
  BY <1>7, <1>8

\* set_active_session with a session of the list.
LEMMA SetActiveSessionOK ==
    ASSUME NEW st \in LayoutType, SessionsOK(st), NEW s \in Elems(st.sessions),
           NEW focus \in BOOLEAN
    PROVE  /\ SetActiveSession(st, s, focus) \in LayoutType
           /\ SessionsOK(SetActiveSession(st, s, focus))
<1> DEFINE r == SetActiveSession(st, s, focus)
<1>1. s \in Session
  BY ElemsSubset DEF LayoutType
<1>2. r \in LayoutType /\ SameTree([st EXCEPT !.activeSession = s], r)
  BY <1>1, SetActiveSessionType
<1>3. /\ r.sessions = st.sessions /\ r.activeSession = s
      /\ r.tabs = st.tabs /\ r.activeTab = st.activeTab
  BY <1>2 DEF SameTree, LayoutType
<1>4. st.sessions # <<>>
  BY DEF Elems
<1> HIDE DEF r
<1>5. SessionsOK(r)
  BY <1>3, <1>4 DEF SessionsOK
<1> QED
  BY <1>2, <1>5 DEF r

\* set_active_tab with a tab of a session of the list.
LEMMA SetActiveTabOK ==
    ASSUME NEW st \in LayoutType, SessionsOK(st), NEW s \in Elems(st.sessions),
           NEW t \in Elems(st.tabs[s]), NEW focus \in BOOLEAN
    PROVE  /\ SetActiveTab(st, s, t, focus) \in LayoutType
           /\ SessionsOK(SetActiveTab(st, s, t, focus))
<1> DEFINE chosen == IF focus THEN SetActiveSession(st, s, TRUE) ELSE st
           r == SessionSetActiveTab(chosen, s, t)
<1>1. s \in Session
  BY ElemsSubset DEF LayoutType
<1>2. t \in Tab
  BY <1>1, ElemsSubset DEF LayoutType
<1>3. SetActiveTab(st, s, t, focus) = r
  BY DEF SetActiveTab
<1>4. chosen \in LayoutType /\ SessionsOK(chosen)
  BY SetActiveSessionOK
<1>5. chosen.sessions = st.sessions /\ chosen.tabs = st.tabs
  BY <1>1, SetActiveSessionType, ZenonT(60) DEF SameTree, LayoutType
<1> HIDE DEF chosen
<1>6. r \in LayoutType /\ SameTree([chosen EXCEPT !.activeTab[s] = t], r)
  BY <1>1, <1>2, <1>4, SessionSetActiveTabType
<1>7. /\ r.sessions = chosen.sessions /\ r.activeSession = chosen.activeSession
      /\ r.tabs = chosen.tabs /\ r.activeTab = [chosen.activeTab EXCEPT ![s] = t]
  BY <1>6 DEF SameTree, LayoutType
<1>8. chosen.activeTab \in [Session -> Tab \cup {None}]
  BY <1>4 DEF LayoutType
<1> HIDE DEF r
<1>9. SessionsOK(r)
  BY <1>1, <1>4, <1>5, <1>7, <1>8 DEF SessionsOK
<1> QED
  BY <1>3, <1>6, <1>9

\* SessionsOK, except that session s of the list may be without a tab and that the active
\* session is not constrained: what holds in the middle of removals and additions.
SessionsBut(st, s) ==
    /\ Injective(st.sessions)
    /\ s \in Elems(st.sessions)
    /\ \A r \in Session :
          /\ Injective(st.tabs[r])
          /\ IF r \in Elems(st.sessions) /\ (r # s \/ st.tabs[r] # <<>>)
             THEN st.activeTab[r] \in Elems(st.tabs[r])
             ELSE st.tabs[r] = <<>> /\ st.activeTab[r] = None
          /\ \A q \in Session \ {r} : Elems(st.tabs[r]) \cap Elems(st.tabs[q]) = {}

\* The empty list has no element.
LEMMA EmptyElems == Elems(<<>>) = {} /\ Injective(<<>>)
BY DEF Elems, Injective

\* Before a removal: a consistent tree is consistent but for any session of the list.
LEMMA OKIsBut ==
    ASSUME NEW st \in LayoutType, SessionsOK(st), NEW s \in Elems(st.sessions)
    PROVE  SessionsBut(st, s) /\ st.activeSession \in Elems(st.sessions)
<1>1. st.sessions # <<>>
  BY EmptyElems
<1>2. \A r \in Session : r \in Elems(st.sessions) => st.tabs[r] # <<>>
  BY EmptyElems DEF SessionsOK
<1> QED
  BY <1>1, <1>2 DEF SessionsOK, SessionsBut

\* After a removal or an addition: the session that was the exception has a tab.
LEMMA ButIsOK ==
    ASSUME NEW st \in LayoutType, NEW s, SessionsBut(st, s), st.tabs[s] # <<>>,
           st.activeSession \in Elems(st.sessions)
    PROVE  SessionsOK(st)
<1>1. st.sessions # <<>>
  BY EmptyElems
<1> QED
  BY <1>1 DEF SessionsOK, SessionsBut

\* Session::remove_tab leaves a consistent tree, but for its session having no tab left.
LEMMA SessionRemoveTabOK ==
    ASSUME NEW st \in LayoutType, SessionsOK(st), NEW s \in Elems(st.sessions), NEW t \in Tab
    PROVE  /\ SessionRemoveTab(st, s, t) \in LayoutType
           /\ SessionsBut(SessionRemoveTab(st, s, t), s)
           /\ SessionRemoveTab(st, s, t).activeSession = st.activeSession
           /\ SessionRemoveTab(st, s, t).sessions = st.sessions
<1> DEFINE next == Neighbour(st.tabs[s], t)
           moved == IF st.activeTab[s] = t THEN SessionSetActiveTab(st, s, next) ELSE st
           unlisted == [moved EXCEPT !.tabs[s] = Without(@, t)]
<1>1. s \in Session
  BY ElemsSubset DEF LayoutType
<1>2. st.tabs[s] \in Seq(Tab) /\ Injective(st.tabs[s])
  BY <1>1 DEF LayoutType, SessionsOK
<1>3. next \in Tab \cup {None}
  BY <1>2, NeighbourType
<1>4. SessionRemoveTab(st, s, t) =
        IF t \in Elems(st.tabs[s]) THEN TabDestroy(unlisted, t) ELSE moved
  BY DEF SessionRemoveTab
<1>5. CASE t \notin Elems(st.tabs[s])
  <2>1. st.activeTab[s] # t
    BY <1>1, <1>5 DEF SessionsOK
  <2> QED
    BY <1>4, <1>5, <2>1, OKIsBut
<1>6. CASE t \in Elems(st.tabs[s])
  <2>1. moved \in LayoutType
    BY <1>1, <1>3, SessionSetActiveTabType
  <2>2. /\ moved.sessions = st.sessions /\ moved.activeSession = st.activeSession
        /\ moved.tabs = st.tabs
        /\ moved.activeTab = [st.activeTab EXCEPT ![s] = IF @ = t THEN next ELSE @]
    <3> HIDE DEF next
    <3>1. CASE st.activeTab[s] = t
      <4>1. SameTree([st EXCEPT !.activeTab[s] = next], SessionSetActiveTab(st, s, next))
        BY <1>1, <1>3, SessionSetActiveTabType
      <4> QED
        BY <3>1, <4>1 DEF SameTree, LayoutType
    <3>2. CASE st.activeTab[s] # t
      BY <1>1, <3>2 DEF LayoutType
    <3> QED
      BY <3>1, <3>2
  <2> HIDE DEF moved
  <2>3. Without(st.tabs[s], t) \in Seq(Tab)
    BY <1>2, WithoutType
  <2>4. unlisted \in LayoutType
    BY <1>1, <2>1, <2>2, <2>3 DEF LayoutType
  <2>5. /\ unlisted.sessions = st.sessions /\ unlisted.activeSession = st.activeSession
        /\ unlisted.tabs = [st.tabs EXCEPT ![s] = Without(@, t)]
        /\ unlisted.activeTab = [st.activeTab EXCEPT ![s] = IF @ = t THEN next ELSE @]
    BY <2>1, <2>2 DEF LayoutType
  <2> HIDE DEF unlisted
  <2>6. TabDestroy(unlisted, t) \in LayoutType /\ SameTree(unlisted, TabDestroy(unlisted, t))
    BY <2>4, TabDestroyType
  <2> DEFINE r == TabDestroy(unlisted, t)
  <2>7. /\ r.sessions = st.sessions /\ r.activeSession = st.activeSession
        /\ r.tabs = [st.tabs EXCEPT ![s] = Without(@, t)]
        /\ r.activeTab = [st.activeTab EXCEPT ![s] = IF @ = t THEN next ELSE @]
    BY <2>5, <2>6 DEF SameTree
  <2> HIDE DEF r
  <2>8. /\ Elems(Without(st.tabs[s], t)) = Elems(st.tabs[s]) \ {t}
        /\ Injective(Without(st.tabs[s], t))
    BY <1>2, WithoutElems
  <2>9. IF Without(st.tabs[s], t) = <<>> THEN next = None
        ELSE next \in Elems(Without(st.tabs[s], t))
    BY <1>2, <1>6, NeighbourElem
  <2>10. /\ st.tabs \in [Session -> Seq(Tab)] /\ st.activeTab \in [Session -> Tab \cup {None}]
    BY DEF LayoutType
  <2> HIDE DEF next
  <2>11. /\ r.tabs[s] = Without(st.tabs[s], t)
         /\ r.activeTab[s] = IF st.activeTab[s] = t THEN next ELSE st.activeTab[s]
         /\ \A q \in Session \ {s} : r.tabs[q] = st.tabs[q] /\ r.activeTab[q] = st.activeTab[q]
    BY <1>1, <2>7, <2>10
  <2>12. st.activeTab[s] \in Elems(st.tabs[s])
    BY <1>1 DEF SessionsOK
  <2>13. IF r.tabs[s] = <<>> THEN r.activeTab[s] = None ELSE r.activeTab[s] \in Elems(r.tabs[s])
    BY <2>8, <2>9, <2>11, <2>12, EmptyElems
  <2>14. SessionsBut(r, s)
    <3>1. Injective(r.sessions) /\ s \in Elems(r.sessions)
      BY <2>7 DEF SessionsOK
    <3>2. \A q \in Session \ {s} : q \in Elems(st.sessions) => st.tabs[q] # <<>>
      BY EmptyElems DEF SessionsOK
    <3>3. \A q \in Session : Elems(r.tabs[q]) \subseteq Elems(st.tabs[q]) /\ Injective(r.tabs[q])
      BY <2>8, <2>11 DEF SessionsOK
    <3>4. \A q \in Session : \A q2 \in Session \ {q} : Elems(r.tabs[q]) \cap Elems(r.tabs[q2]) = {}
      BY <3>3 DEF SessionsOK
    <3>5. ASSUME NEW q \in Session
          PROVE  IF q \in Elems(r.sessions) /\ (q # s \/ r.tabs[q] # <<>>)
                 THEN r.activeTab[q] \in Elems(r.tabs[q])
                 ELSE r.tabs[q] = <<>> /\ r.activeTab[q] = None
      BY <2>7, <2>11, <2>13 DEF SessionsOK
    <3> QED
      BY <3>1, <3>3, <3>4, <3>5 DEF SessionsBut
  <2> QED
    BY <1>4, <1>6, <2>6, <2>7, <2>14 DEF r
<1> QED
  BY <1>5, <1>6

\* Session::remove_pane, with the removal of the tab it empties.
LEMMA SessionRemovePaneOK ==
    ASSUME NEW st \in LayoutType, SessionsOK(st), NEW s \in Elems(st.sessions),
           NEW t \in Tab, NEW p \in Pane
    PROVE  /\ SessionRemovePane(st, s, t, p) \in LayoutType
           /\ SessionsBut(SessionRemovePane(st, s, t, p), s)
           /\ SessionRemovePane(st, s, t, p).activeSession \in Elems(st.sessions)
           /\ SessionRemovePane(st, s, t, p).sessions = st.sessions
<1> DEFINE removed == TabRemovePane(st, t, p)
<1>1. s \in Session
  BY ElemsSubset DEF LayoutType
<1>2. removed \in LayoutType /\ SameTree(st, removed)
  BY TabRemovePaneType
<1>3. SessionRemovePane(st, s, t, p) =
        IF removed.panes[t] = {} THEN SessionRemoveTab(removed, s, t)
        ELSE IF p \in st.panes[t] /\ st.activeTab[s] = t
        THEN SessionLayout(removed, s, removed.sessionSize[s])
        ELSE removed
  BY DEF SessionRemovePane
<1> HIDE DEF removed
<1>4. removed.sessionSize[s] \in Sizes \cup {None}
  BY <1>1, <1>2 DEF LayoutType
<1>5. SessionsOK(removed) /\ removed.sessions = st.sessions
  BY <1>2, SessionsOKSame DEF SameTree
<1>6. removed.activeSession \in Elems(st.sessions)
  BY <1>2, <1>5, OKIsBut
<1>7. CASE removed.panes[t] = {}
  BY <1>2, <1>3, <1>5, <1>6, <1>7, SessionRemoveTabOK
<1>8. ASSUME NEW r \in LayoutType, SameTree(removed, r)
      PROVE  /\ SessionsBut(r, s)
             /\ r.activeSession \in Elems(st.sessions)
             /\ r.sessions = st.sessions
  <2>1. SessionsOK(r) /\ r.sessions = st.sessions /\ r.activeSession = removed.activeSession
    BY <1>2, <1>5, <1>8, SessionsOKSame DEF SameTree
  <2> QED
    BY <1>6, <2>1, OKIsBut
<1>9. /\ SessionLayout(removed, s, removed.sessionSize[s]) \in LayoutType
      /\ SameTree(removed, SessionLayout(removed, s, removed.sessionSize[s]))
      /\ SameTree(removed, removed)
  BY <1>1, <1>2, <1>4, SessionLayoutType DEF SameTree
<1> QED
  BY <1>2, <1>3, <1>7, <1>8, <1>9

\* LayoutState::remove_session of a session without tabs restores a consistent tree.
LEMMA RemoveSessionOK ==
    ASSUME NEW st \in LayoutType, NEW s \in Session, SessionsBut(st, s), st.tabs[s] = <<>>,
           st.activeSession \in Elems(st.sessions)
    PROVE  RemoveSession(st, s) \in LayoutType /\ SessionsOK(RemoveSession(st, s))
<1> DEFINE next == Neighbour(st.sessions, s)
           moved == IF st.activeSession = s THEN SetActiveSession(st, next, TRUE) ELSE st
           unlisted == [moved EXCEPT !.sessions = Without(@, s)]
           r == SessionDestroy(unlisted, s)
<1>1. st.sessions \in Seq(Session) /\ Injective(st.sessions) /\ s \in Elems(st.sessions)
  BY DEF LayoutType, SessionsBut
<1>2. next \in Session \cup {None}
  BY <1>1, NeighbourType
<1>3. moved \in LayoutType
  BY <1>2, SetActiveSessionType
<1>4. /\ moved.sessions = st.sessions /\ moved.tabs = st.tabs /\ moved.activeTab = st.activeTab
      /\ moved.activeSession = IF st.activeSession = s THEN next ELSE st.activeSession
  <2> HIDE DEF next
  <2>1. CASE st.activeSession = s
    <3>1. SameTree([st EXCEPT !.activeSession = next], SetActiveSession(st, next, TRUE))
      BY <1>2, SetActiveSessionType
    <3> QED
      BY <2>1, <3>1 DEF SameTree, LayoutType
  <2>2. CASE st.activeSession # s
    BY <2>2
  <2> QED
    BY <2>1, <2>2
<1>5. RemoveSession(st, s) = r
  BY DEF RemoveSession
<1> HIDE DEF moved
<1>6. Without(st.sessions, s) \in Seq(Session)
  BY <1>1, WithoutType
<1>7. unlisted \in LayoutType
  BY <1>3, <1>4, <1>6 DEF LayoutType
<1>8. /\ unlisted.sessions = Without(st.sessions, s) /\ unlisted.tabs = st.tabs
      /\ unlisted.activeTab = st.activeTab /\ unlisted.activeSession = moved.activeSession
  BY <1>3, <1>4 DEF LayoutType
<1> HIDE DEF unlisted
<1>9. r \in LayoutType
  BY <1>7 DEF SessionDestroy, LayoutType
<1>10. /\ r.sessions = Without(st.sessions, s) /\ r.tabs = st.tabs
       /\ r.activeTab = [st.activeTab EXCEPT ![s] = None]
       /\ r.activeSession = IF st.activeSession = s THEN next ELSE st.activeSession
  BY <1>4, <1>7, <1>8 DEF SessionDestroy, LayoutType
<1> HIDE DEF r
<1>11. /\ Elems(Without(st.sessions, s)) = Elems(st.sessions) \ {s}
       /\ Injective(Without(st.sessions, s))
  BY <1>1, WithoutElems
<1>12. IF Without(st.sessions, s) = <<>> THEN next = None
       ELSE next \in Elems(Without(st.sessions, s))
  BY <1>1, NeighbourElem
<1> HIDE DEF next
<1>13. IF r.sessions = <<>> THEN r.activeSession = None ELSE r.activeSession \in Elems(r.sessions)
  BY <1>10, <1>11, <1>12, EmptyElems
<1>14. st.activeTab \in [Session -> Tab \cup {None}]
  BY DEF LayoutType
<1>15. r.activeTab[s] = None /\ \A q \in Session \ {s} : r.activeTab[q] = st.activeTab[q]
  BY <1>10, <1>14
<1>16. SessionsOK(r)
  BY <1>10, <1>11, <1>13, <1>15 DEF SessionsOK, SessionsBut
<1> QED
  BY <1>5, <1>9, <1>16

\* The PaneExited handler, whatever session of the list, tab and pane the event names.
LEMMA RemovePaneOK ==
    ASSUME NEW st \in LayoutType, SessionsOK(st), NEW s \in Elems(st.sessions),
           NEW t \in Tab, NEW p \in Pane
    PROVE  RemovePane(st, s, t, p) \in LayoutType /\ SessionsOK(RemovePane(st, s, t, p))
<1> DEFINE removed == SessionRemovePane(st, s, t, p)
<1>1. /\ removed \in LayoutType /\ SessionsBut(removed, s)
      /\ removed.activeSession \in Elems(removed.sessions)
  BY SessionRemovePaneOK
<1>2. s \in Session
  BY ElemsSubset DEF LayoutType
<1>3. RemovePane(st, s, t, p) = IF removed.tabs[s] = <<>> THEN RemoveSession(removed, s) ELSE removed
  BY DEF RemovePane
<1> HIDE DEF removed
<1> QED
  BY <1>1, <1>2, <1>3, RemoveSessionOK, ButIsOK

\* LayoutState::add_tab with a free tab, in a session that may not have one yet.
LEMMA AddTabMadeOK ==
    ASSUME NEW st \in LayoutType, NEW s \in Session, SessionsBut(st, s),
           NEW t \in Tab, \A q \in Session : t \notin Elems(st.tabs[q]), NEW p \in Pane
    PROVE  AddTab(st, s, t, p, TRUE) \in LayoutType /\ SessionsOK(AddTab(st, s, t, p, TRUE))
<1> DEFINE chosen == SetActiveSession(st, s, TRUE)
           filled == TabAddPane(chosen, t, p)
           moved == SessionSetActiveTab(filled, s, t)
           r == [moved EXCEPT !.tabs[s] = Append(@, t)]
<1>1. AddTab(st, s, t, p, TRUE) = r
  BY DEF AddTab, SessionAddTab
<1>2. chosen \in LayoutType /\ SameTree([st EXCEPT !.activeSession = s], chosen)
  BY SetActiveSessionType
<1> HIDE DEF chosen
<1>3. filled \in LayoutType /\ SameTree(chosen, filled)
  BY <1>2, TabAddPaneType
<1> HIDE DEF filled
<1>4. moved \in LayoutType /\ SameTree([filled EXCEPT !.activeTab[s] = t], moved)
  BY <1>3, SessionSetActiveTabType
<1> HIDE DEF moved
<1>5. /\ moved.sessions = st.sessions /\ moved.activeSession = s /\ moved.tabs = st.tabs
      /\ moved.activeTab = [st.activeTab EXCEPT ![s] = t]
  BY <1>2, <1>3, <1>4 DEF SameTree, LayoutType
<1>6. st.tabs[s] \in Seq(Tab) /\ st.tabs \in [Session -> Seq(Tab)]
      /\ st.activeTab \in [Session -> Tab \cup {None}]
  BY DEF LayoutType
<1>7. /\ Append(st.tabs[s], t) \in Seq(Tab)
      /\ Elems(Append(st.tabs[s], t)) = Elems(st.tabs[s]) \cup {t}
      /\ Injective(Append(st.tabs[s], t))
  BY <1>6, AppendElems DEF SessionsBut
<1>8. r \in LayoutType
  BY <1>4, <1>5, <1>7 DEF LayoutType
<1>9. /\ r.sessions = st.sessions /\ r.activeSession = s
      /\ r.tabs = [st.tabs EXCEPT ![s] = Append(@, t)]
      /\ r.activeTab = [st.activeTab EXCEPT ![s] = t]
  BY <1>4, <1>5 DEF LayoutType
<1> HIDE DEF r
<1>10. /\ r.tabs[s] = Append(st.tabs[s], t) /\ r.activeTab[s] = t
       /\ \A q \in Session \ {s} : r.tabs[q] = st.tabs[q] /\ r.activeTab[q] = st.activeTab[q]
  BY <1>6, <1>9
<1>11. r.sessions # <<>> /\ s \in Elems(r.sessions) /\ Injective(r.sessions)
  BY <1>9, EmptyElems DEF SessionsBut
<1>12. \A q \in Session : /\ Injective(r.tabs[q])
                          /\ \A u \in Session \ {q} : Elems(r.tabs[q]) \cap Elems(r.tabs[u]) = {}
  <2> SUFFICES ASSUME NEW q \in Session, NEW u \in Session \ {q}
               PROVE  Injective(r.tabs[q]) /\ Elems(r.tabs[q]) \cap Elems(r.tabs[u]) = {}
    <3>1. Injective(r.tabs[s])
      BY <1>7, <1>10
    <3>2. \A q \in Session \ {s} : Injective(r.tabs[q])
      BY <1>10 DEF SessionsBut
    <3> QED
      BY <3>1, <3>2
  <2>1. Injective(r.tabs[q])
    BY <1>7, <1>10 DEF SessionsBut
  <2>2. Elems(st.tabs[q]) \cap Elems(st.tabs[u]) = {}
    BY DEF SessionsBut
  <2>3. CASE q = s
    <3>1. Elems(r.tabs[q]) = Elems(st.tabs[q]) \cup {t} /\ r.tabs[u] = st.tabs[u]
      BY <1>7, <1>10, <2>3
    <3> QED
      BY <2>1, <2>2, <3>1
  <2>4. CASE u = s
    <3>1. Elems(r.tabs[u]) = Elems(st.tabs[u]) \cup {t} /\ r.tabs[q] = st.tabs[q]
      BY <1>7, <1>10, <2>4
    <3> QED
      BY <2>1, <2>2, <3>1
  <2>5. CASE q # s /\ u # s
    BY <1>10, <2>1, <2>2, <2>5
  <2> QED
    BY <2>3, <2>4, <2>5
<1>13. \A q \in Session : IF q \in Elems(r.sessions) THEN r.activeTab[q] \in Elems(r.tabs[q])
                          ELSE r.tabs[q] = <<>> /\ r.activeTab[q] = None
  BY <1>7, <1>9, <1>10, <1>11 DEF SessionsBut
<1>14. SessionsOK(r)
  BY <1>9, <1>11, <1>12, <1>13 DEF SessionsOK
<1> QED
  BY <1>1, <1>8, <1>14

\* LayoutState::add_session, whether the child is spawned or the session is removed again.
LEMMA AddSessionOK ==
    ASSUME NEW st \in LayoutType, SessionsOK(st), NEW s \in Session \ Elems(st.sessions),
           NEW t \in Tab, \A q \in Session : t \notin Elems(st.tabs[q]), NEW p \in Pane,
           NEW made \in BOOLEAN
    PROVE  AddSession(st, s, t, p, made) \in LayoutType /\ SessionsOK(AddSession(st, s, t, p, made))
<1> DEFINE listed == [st EXCEPT !.sessions = Append(@, s)]
<1>1. /\ Append(st.sessions, s) \in Seq(Session)
      /\ Elems(Append(st.sessions, s)) = Elems(st.sessions) \cup {s}
      /\ Injective(Append(st.sessions, s))
  BY AppendElems DEF LayoutType, SessionsOK
<1>2. listed \in LayoutType
  BY <1>1 DEF LayoutType
<1>3. /\ listed.sessions = Append(st.sessions, s) /\ listed.tabs = st.tabs
      /\ listed.activeTab = st.activeTab
  BY DEF LayoutType
<1>4. AddSession(st, s, t, p, made) =
        IF made THEN AddTab(listed, s, t, p, made)
        ELSE RemoveSession(AddTab(listed, s, t, p, made), s)
  BY DEF AddSession
<1> HIDE DEF listed
<1>5. \A r \in Session : r \in Elems(st.sessions) => st.tabs[r] # <<>>
  BY EmptyElems DEF SessionsOK
<1>6. SessionsBut(listed, s) /\ listed.tabs[s] = <<>>
  BY <1>1, <1>3, <1>5 DEF SessionsBut, SessionsOK
<1>7. CASE made
  <2>1. \A q \in Session : t \notin Elems(listed.tabs[q])
    BY <1>3
  <2> QED
    BY <1>2, <1>4, <1>6, <1>7, <2>1, AddTabMadeOK
<1>8. CASE ~made
  <2> DEFINE chosen == SetActiveSession(listed, s, TRUE)
  <2>1. AddTab(listed, s, t, p, made) = chosen
    BY <1>8 DEF AddTab
  <2>2. chosen \in LayoutType /\ SameTree([listed EXCEPT !.activeSession = s], chosen)
    BY <1>2, SetActiveSessionType
  <2> HIDE DEF chosen
  <2>3. /\ chosen.sessions = listed.sessions /\ chosen.activeSession = s
        /\ chosen.tabs = listed.tabs /\ chosen.activeTab = listed.activeTab
    BY <1>2, <2>2 DEF SameTree, LayoutType
  <2>4. /\ SessionsBut(chosen, s) /\ chosen.tabs[s] = <<>>
        /\ chosen.activeSession \in Elems(chosen.sessions)
    BY <1>1, <1>3, <1>6, <2>3 DEF SessionsBut
  <2> QED
    BY <1>4, <1>8, <2>1, <2>2, <2>4, RemoveSessionOK
<1> QED
  BY <1>7, <1>8

-----------------------------------------------------------------------------
(* What the handlers rely on *)

\* The LayoutState object as constructed.
LEMMA InitialLayoutOK ==
    ASSUME NEW size \in Sizes
    PROVE  EmptyLayout(size) \in LayoutType /\ SessionsOK(EmptyLayout(size))
<1>1. EmptyLayout(size) \in LayoutType
  BY DEF EmptyLayout, LayoutType
<1>2. SessionsOK(EmptyLayout(size))
  BY EmptyElems DEF EmptyLayout, SessionsOK
<1> QED
  BY <1>1, <1>2

\* While there is a session, the active session and its active tab are objects of the list.
LEMMA ActiveOK ==
    ASSUME TypeOK, OwnershipOK, layout.sessions # <<>>
    PROVE  /\ layout.activeSession \in Elems(layout.sessions)
           /\ layout.activeSession \in Session
           /\ ActiveTab \in Elems(layout.tabs[layout.activeSession])
           /\ ActiveTab \in Tab
<1>1. layout \in LayoutType /\ SessionsOK(layout)
  BY DEF TypeOK, OwnershipOK
<1>2. layout.activeSession \in Elems(layout.sessions)
  BY <1>1 DEF SessionsOK
<1>3. layout.activeSession \in Session
  BY <1>1, <1>2, ElemsSubset DEF LayoutType
<1>4. ActiveTab = layout.activeTab[layout.activeSession]
  BY <1>3, ConstantsAssumption DEF ActiveTab
<1>5. ActiveTab \in Elems(layout.tabs[layout.activeSession])
  BY <1>1, <1>2, <1>3, <1>4 DEF SessionsOK
<1>6. ActiveTab \in Tab
  BY <1>1, <1>3, <1>5, ElemsSubset DEF LayoutType
<1> QED
  BY <1>2, <1>3, <1>5, <1>6

\* A free tab is in no list.
LEMMA FreeTabUnlisted ==
    ASSUME OwnershipOK, NEW t \in FreeTabs, NEW q \in Session
    PROVE  t \in Tab /\ t \notin Elems(layout.tabs[q])
BY EmptyElems DEF OwnershipOK, SessionsOK, FreeTabs, LiveTabs

\* Pane::create.
LEMMA SpawnType ==
    ASSUME TypeOK, NEW p \in Pane, NEW s, NEW t,
           [session |-> s, tab |-> t] \in Home, Spawn(p, s, t)
    PROVE  proc' \in [Pane -> {"free", "running", "exited"}] /\ home' \in [Pane -> Home]
BY DEF TypeOK, Spawn

\* The event of a did_exit hook is well formed.
LEMMA ExitEventType ==
    ASSUME TypeOK, NEW p \in Pane
    PROVE  ExitEvent(p) \in Event
<1>1. home[p] \in Home
  BY DEF TypeOK
<1>2. CASE home[p] = NoHome
  BY <1>2 DEF ExitEvent, NoHome, Event, RemovePopupEvent
<1>3. CASE home[p] \in [session : Session, tab : Tab]
  BY <1>3, ConstantsAssumption DEF ExitEvent, Event, PaneExitedEvent
<1> QED
  BY <1>1, <1>2, <1>3 DEF Home

\* The end of ~Pane.
LEMMA DestroyType ==
    ASSUME TypeOK, NEW p \in Pane, Destroy(p)
    PROVE  /\ proc' \in [Pane -> {"free", "running", "exited"}]
           /\ home' \in [Pane -> Home]
           /\ events' \in Seq(Event)
BY DEF TypeOK, Destroy, Home

\* An action that only touches one tab, or the focus, keeps the sessions and their tabs.
LEMMA SameTreeStep ==
    ASSUME TypeOK, OwnershipOK, layout' \in LayoutType, SameTree(layout, layout')
    PROVE  OwnershipOK'
BY SessionsOKSame DEF TypeOK, OwnershipOK

\* Changing only which pane has the focus.
LEMMA FocusedType ==
    ASSUME NEW st \in LayoutType, NEW f \in SUBSET Pane
    PROVE  /\ [st EXCEPT !.focused = f] \in LayoutType
           /\ SameTree(st, [st EXCEPT !.focused = f])
BY DEF LayoutType, SameTree

\* popup_pane and remove_popup.
LEMMA PopupType ==
    ASSUME NEW st \in LayoutType, NEW p \in Pane \cup {None}, NEW b \in BOOLEAN,
           NEW r, r = IF st.activeSession = None THEN [st EXCEPT !.popup = p]
                      ELSE SessionSetIsActive([st EXCEPT !.popup = p], st.activeSession, b)
    PROVE  r \in LayoutType /\ SameTree(st, r)
<1> DEFINE shown == [st EXCEPT !.popup = p]
<1>1. shown \in LayoutType /\ SameTree(st, shown) /\ st.activeSession \in Session \cup {None}
  BY DEF LayoutType, SameTree
<1> HIDE DEF shown
<1>2. r = IF st.activeSession = None THEN shown ELSE SessionSetIsActive(shown, st.activeSession, b)
  BY DEF shown
<1> QED
  BY <1>1, <1>2, SessionSetIsActiveType DEF SameTree

-----------------------------------------------------------------------------
(* Every step keeps the type and the ownership *)

IInv == TypeOK /\ OwnershipOK

\* The initial states satisfy the inductive invariant.
LEMMA InitIInv == Init => IInv
<1> SUFFICES ASSUME Init PROVE IInv
  OBVIOUS
<1>1. PICK s \in Session, t \in Tab, p \in Pane, size \in Sizes :
         /\ layout = AddSession(EmptyLayout(size), s, t, p, TRUE)
         /\ proc = [q \in Pane |-> IF q = p THEN "running" ELSE "free"]
         /\ home = [q \in Pane |-> IF q = p THEN [session |-> s, tab |-> t] ELSE NoHome]
  BY DEF Init
<1>2. /\ s \in Session \ Elems(EmptyLayout(size).sessions)
      /\ \A q \in Session : t \notin Elems(EmptyLayout(size).tabs[q])
  BY EmptyElems DEF EmptyLayout
<1>3. layout \in LayoutType /\ SessionsOK(layout)
  BY <1>1, <1>2, InitialLayoutOK, AddSessionOK
<1>4. /\ proc \in [Pane -> {"free", "running", "exited"}]
      /\ home \in [Pane -> Home]
  BY <1>1 DEF Home
<1>5. /\ events \in Seq(Event) /\ replacing \in Pane \cup {None} /\ leaving \in Pane \cup {None}
      /\ hook \in Hook /\ fault \in Faults
  BY DEF Init, NoHook, Hook, Faults
<1> QED
  BY <1>3, <1>4, <1>5 DEF IInv, TypeOK, OwnershipOK

\* create_tab preserves the inductive invariant.
LEMMA CreateTabStep == IInv /\ CreateTab => IInv'
<1> SUFFICES ASSUME IInv, CreateTab PROVE IInv'
  OBVIOUS
<1> USE DEF IInv
<1> DEFINE s == layout.activeSession
<1>1. /\ s \in Elems(layout.sessions) /\ s \in Session
      /\ layout \in LayoutType /\ SessionsOK(layout)
  BY ActiveOK DEF CreateTab, KeyAction, LockFree, TypeOK, OwnershipOK
<1>2. PICK t \in FreeTabs, p \in FreePanes :
         layout' = AddTab(layout, s, t, p, TRUE) /\ Spawn(p, s, t)
  BY DEF CreateTab
<1>3. t \in Tab /\ p \in Pane /\ \A q \in Session : t \notin Elems(layout.tabs[q])
  BY <1>1, FreeTabUnlisted DEF FreePanes
<1>4. SessionsBut(layout, s)
  BY <1>1, OKIsBut
<1>5. layout' \in LayoutType /\ SessionsOK(layout')
  BY <1>1, <1>2, <1>3, <1>4, AddTabMadeOK
<1>6. proc' \in [Pane -> {"free", "running", "exited"}] /\ home' \in [Pane -> Home]
  BY <1>1, <1>2, <1>3, SpawnType DEF Home
<1> QED
  BY <1>5, <1>6 DEF TypeOK, OwnershipOK, CreateTab

\* create_session preserves it, when it succeeds and when it fails.
LEMMA CreateSessionStep == IInv /\ (CreateSession \/ CreateSessionFails) => IInv'
<1> SUFFICES ASSUME IInv, CreateSession \/ CreateSessionFails PROVE IInv'
  OBVIOUS
<1> USE DEF IInv
<1>1. layout \in LayoutType /\ SessionsOK(layout)
  BY DEF TypeOK, OwnershipOK
<1>2. ASSUME NEW s \in FreeSessions, NEW t \in FreeTabs, NEW p \in FreePanes, NEW made \in BOOLEAN,
             layout' = AddSession(layout, s, t, p, made)
      PROVE  s \in Session /\ t \in Tab /\ p \in Pane /\ layout' \in LayoutType /\ SessionsOK(layout')
  <2>1. s \in Session \ Elems(layout.sessions) /\ p \in Pane
    BY DEF FreeSessions, FreePanes
  <2>2. t \in Tab /\ \A q \in Session : t \notin Elems(layout.tabs[q])
    BY <2>1, FreeTabUnlisted
  <2> QED
    BY <1>1, <1>2, <2>1, <2>2, AddSessionOK
<1>3. CASE CreateSession
  <2>1. PICK s \in FreeSessions, t \in FreeTabs, p \in FreePanes :
           layout' = AddSession(layout, s, t, p, TRUE) /\ Spawn(p, s, t)
    BY <1>3 DEF CreateSession
  <2>2. s \in Session /\ t \in Tab /\ p \in Pane /\ layout' \in LayoutType /\ SessionsOK(layout')
    BY <1>2, <2>1
  <2>3. proc' \in [Pane -> {"free", "running", "exited"}] /\ home' \in [Pane -> Home]
    BY <2>1, <2>2, SpawnType DEF Home
  <2> QED
    BY <1>3, <2>2, <2>3 DEF TypeOK, OwnershipOK, CreateSession
<1>4. CASE CreateSessionFails
  <2>1. layout' \in LayoutType /\ SessionsOK(layout')
    BY <1>2, <1>4 DEF CreateSessionFails
  <2> QED
    BY <1>4, <2>1 DEF TypeOK, OwnershipOK, CreateSessionFails
<1> QED
  BY <1>3, <1>4

\* add_pane preserves it.
LEMMA AddPaneStep == IInv /\ AddPaneAction => IInv'
<1> SUFFICES ASSUME IInv, AddPaneAction PROVE IInv'
  OBVIOUS
<1> USE DEF IInv
<1> DEFINE s == layout.activeSession
           chosen == SetActiveSession(layout, s, TRUE)
<1>1. /\ s \in Elems(layout.sessions) /\ s \in Session /\ ActiveTab \in Tab
      /\ layout \in LayoutType /\ SessionsOK(layout)
  BY ActiveOK DEF AddPaneAction, KeyAction, LockFree, TypeOK, OwnershipOK
<1>2. PICK p \in FreePanes : layout' = AddPane(layout, s, ActiveTab, p) /\ Spawn(p, s, ActiveTab)
  BY DEF AddPaneAction
<1>3. p \in Pane
  BY DEF FreePanes
<1>4. chosen \in LayoutType /\ SessionsOK(chosen)
  BY <1>1, SetActiveSessionOK
<1>5. layout' = TabAddPane(chosen, ActiveTab, p)
  BY <1>2 DEF AddPane
<1> HIDE DEF chosen
<1>6. layout' \in LayoutType /\ SessionsOK(layout')
  BY <1>1, <1>3, <1>4, <1>5, TabAddPaneType, SessionsOKSame
<1>7. proc' \in [Pane -> {"free", "running", "exited"}] /\ home' \in [Pane -> Home]
  BY <1>1, <1>2, <1>3, SpawnType DEF Home
<1> QED
  BY <1>6, <1>7 DEF TypeOK, OwnershipOK, AddPaneAction

\* switch_tab, switch_next_tab and switch_prev_tab preserve it.
LEMMA SwitchTabStep == IInv /\ SwitchTab => IInv'
<1> SUFFICES ASSUME IInv, SwitchTab PROVE IInv'
  OBVIOUS
<1> USE DEF IInv
<1>1. /\ layout.activeSession \in Elems(layout.sessions)
      /\ layout \in LayoutType /\ SessionsOK(layout)
  BY ActiveOK DEF SwitchTab, KeyAction, LockFree, TypeOK, OwnershipOK
<1>2. PICK t \in Elems(layout.tabs[layout.activeSession]) :
         layout' = SetActiveTab(layout, layout.activeSession, t, TRUE)
  BY DEF SwitchTab
<1>3. layout' \in LayoutType /\ SessionsOK(layout')
  BY <1>1, <1>2, SetActiveTabOK
<1> QED
  BY <1>3 DEF TypeOK, OwnershipOK, SwitchTab

\* switch_next_session and switch_prev_session preserve it: the index stays on the ring.
LEMMA SwitchSessionStep == IInv /\ SwitchSession => IInv'
<1> SUFFICES ASSUME IInv, SwitchSession PROVE IInv'
  OBVIOUS
<1> USE DEF IInv
<1> DEFINE n == Len(layout.sessions)
           Step(d) == ((IndexOf(layout.sessions, layout.activeSession) - 1 + d) % n) + 1
<1>1. /\ layout.activeSession \in Elems(layout.sessions)
      /\ layout \in LayoutType /\ SessionsOK(layout) /\ layout.sessions # <<>>
  BY ActiveOK DEF SwitchSession, KeyAction, LockFree, TypeOK, OwnershipOK
<1>2. layout.sessions \in Seq(Session)
  BY <1>1 DEF LayoutType
<1>3. n \in Nat \ {0}
  BY <1>1, <1>2
<1>4. IndexOf(layout.sessions, layout.activeSession) \in 1 .. n
  BY <1>1, <1>2, IndexOfType
<1>5. PICK d \in {1, -1} : layout' = SetActiveSession(layout, layout.sessions[Step(d)], TRUE)
  BY DEF SwitchSession
<1>6. Step(d) \in 1 .. n
  <2> HIDE DEF n
  <2>1. IndexOf(layout.sessions, layout.activeSession) - 1 + d \in Int
    BY <1>3, <1>4
  <2>2. \A k \in Int : k % n \in 0 .. n - 1
    BY <1>3
  <2> QED
    BY <1>3, SMTT(30), <2>1, <2>2
<1> HIDE DEF Step
<1>7. layout.sessions[Step(d)] \in Elems(layout.sessions)
  BY <1>6 DEF Elems
<1>8. layout' \in LayoutType /\ SessionsOK(layout')
  BY <1>1, <1>5, <1>7, SetActiveSessionOK
<1> QED
  BY <1>8 DEF TypeOK, OwnershipOK, SwitchSession

\* The actions that make a pane of the active tab its active pane.
LEMMA ActivatePaneStep == IInv /\ (Navigate \/ MousePress \/ PopupPress) => IInv'
<1> SUFFICES ASSUME IInv, Navigate \/ MousePress \/ PopupPress PROVE IInv'
  OBVIOUS
<1> USE DEF IInv
<1>1. ActiveTab \in Tab /\ layout \in LayoutType
  BY ActiveOK DEF Navigate, MousePress, PopupPress, LockFree, TypeOK
<1>2. layout.tree[ActiveTab] \subseteq Pane /\ layout.popup \in Pane \cup {None}
  BY <1>1 DEF LayoutType
<1>3. PICK p \in Pane \cup {None} : layout' = TabSetActive(layout, ActiveTab, p)
  BY <1>2 DEF Navigate, MousePress, PopupPress
<1>4. layout' \in LayoutType /\ SameTree(layout, layout')
  BY <1>1, <1>3, TabSetActiveType
<1>5. OwnershipOK'
  BY <1>4, SameTreeStep
<1> QED
  BY <1>4, <1>5 DEF TypeOK, Navigate, MousePress, PopupPress

\* toggle_full_screen_pane preserves it.
LEMMA ToggleFullScreenStep == IInv /\ ToggleFullScreen => IInv'
<1> SUFFICES ASSUME IInv, ToggleFullScreen PROVE IInv'
  OBVIOUS
<1> USE DEF IInv
<1>1. ActiveTab \in Tab /\ layout \in LayoutType
  BY ActiveOK DEF ToggleFullScreen, KeyAction, LockFree, TypeOK
<1>2. PICK p \in Pane \cup {None} : layout' = TabSetFullScreen(layout, ActiveTab, p)
  BY <1>1 DEF ToggleFullScreen, LayoutType
<1>3. layout' \in LayoutType /\ SameTree(layout, layout')
  BY <1>1, <1>2, TabSetFullScreenType
<1>4. OwnershipOK'
  BY <1>3, SameTreeStep
<1> QED
  BY <1>3, <1>4 DEF TypeOK, ToggleFullScreen

\* hard_reset preserves it.
LEMMA HardResetStep == IInv /\ HardReset => IInv'
<1> SUFFICES ASSUME IInv, HardReset PROVE IInv'
  OBVIOUS
<1> USE DEF IInv
<1> DEFINE old == layout.active[ActiveTab]
<1>1. ActiveTab \in Tab /\ layout.activeSession \in Session /\ layout \in LayoutType
  BY ActiveOK DEF HardReset, KeyAction, LockFree, TypeOK
<1>2. old \in Pane
  BY <1>1 DEF HardReset, LayoutType
<1>3. PICK new \in FreePanes : /\ layout' = TabReplacePane(layout, ActiveTab, old, new)
                               /\ Spawn(new, layout.activeSession, ActiveTab)
  BY DEF HardReset
<1>4. new \in Pane
  BY DEF FreePanes
<1>5. layout' \in LayoutType /\ SameTree(layout, layout')
  BY <1>1, <1>2, <1>3, <1>4, TabReplacePaneType
<1>6. OwnershipOK'
  BY <1>5, SameTreeStep
<1>7. proc' \in [Pane -> {"free", "running", "exited"}] /\ home' \in [Pane -> Home]
  BY <1>1, <1>3, <1>4, SpawnType DEF Home
<1>8. replacing' \in Pane \cup {None} /\ fault' \in Faults
  BY <1>2 DEF HardReset, TypeOK, Faults
<1> QED
  BY <1>5, <1>6, <1>7, <1>8 DEF TypeOK, HardReset

\* The end of replace_pane preserves it.
LEMMA HardResetEndStep == IInv /\ HardResetEnd => IInv'
<1> SUFFICES ASSUME IInv, HardResetEnd PROVE IInv'
  OBVIOUS
<1> USE DEF IInv
<1>1. replacing \in Pane /\ layout \in LayoutType /\ events \in Seq(Event)
  BY DEF HardResetEnd, TypeOK
<1> DEFINE f == layout.focused \ {replacing}
<1>2. layout' = [layout EXCEPT !.focused = f] /\ f \in SUBSET Pane
  BY <1>1 DEF HardResetEnd, LayoutType
<1> HIDE DEF f
<1>3. layout' \in LayoutType /\ SameTree(layout, layout')
  BY <1>1, <1>2, FocusedType
<1>4. OwnershipOK'
  BY <1>3, SameTreeStep
<1>5. /\ proc' \in [Pane -> {"free", "running", "exited"}]
      /\ home' \in [Pane -> Home] /\ events' \in Seq(Event)
  BY <1>1, DestroyType DEF HardResetEnd
<1> QED
  BY <1>3, <1>4, <1>5 DEF TypeOK, HardResetEnd

\* Opening a popup preserves it.
LEMMA OpenPopupStep == IInv /\ OpenPopup => IInv'
<1> SUFFICES ASSUME IInv, OpenPopup PROVE IInv'
  OBVIOUS
<1> USE DEF IInv
<1> DEFINE s == layout.activeSession
           index(kind) == CASE kind = "find_tab" -> IndexOf(layout.tabs[s], ActiveTab)
                            [] kind = "find_session" -> IndexOf(layout.sessions, s)
                            [] OTHER -> 0
<1>1. /\ s \in Elems(layout.sessions) /\ s \in Session
      /\ ActiveTab \in Elems(layout.tabs[s]) /\ ActiveTab \in Tab /\ layout \in LayoutType
  BY ActiveOK DEF OpenPopup, KeyAction, LockFree, TypeOK
<1>2. PICK kind \in PopupKinds, p \in FreePanes :
         /\ layout' = PopupPane(layout, p)
         /\ Spawn(p, None, None)
         /\ hook' = [kind |-> kind, session |-> s, tab |-> ActiveTab,
                     index |-> index(kind), done |-> FALSE]
  BY DEF OpenPopup
<1>3. p \in Pane /\ kind \in AllPopupKinds
  BY ConstantsAssumption DEF FreePanes
<1>4. layout' \in LayoutType /\ SameTree(layout, layout')
  BY <1>1, <1>2, <1>3, PopupType DEF PopupPane
<1>5. OwnershipOK'
  BY <1>4, SameTreeStep
<1>6. layout.tabs[s] \in Seq(Tab) /\ layout.sessions \in Seq(Session)
  BY <1>1 DEF LayoutType
<1>7. /\ IndexOf(layout.tabs[s], ActiveTab) \in Nat
      /\ IndexOf(layout.sessions, s) \in Nat
  BY <1>1, <1>6, IndexOfType
<1>8. index(kind) \in Nat
  BY <1>7
<1> HIDE DEF index
<1>9. hook' \in Hook
  BY <1>1, <1>2, <1>3, <1>8 DEF Hook
<1>10. proc' \in [Pane -> {"free", "running", "exited"}] /\ home' \in [Pane -> Home]
  BY <1>2, <1>3, SpawnType DEF Home, NoHome
<1> QED
  BY <1>4, <1>5, <1>9, <1>10 DEF TypeOK, OpenPopup

\* Pushing an event preserves it: a press on the status bar, a child that exits.
LEMMA EventStep == IInv /\ (StatusBarPress \/ \E p \in Pane : ProcessExit(p)) => IInv'
<1> SUFFICES ASSUME IInv, StatusBarPress \/ \E p \in Pane : ProcessExit(p) PROVE IInv'
  OBVIOUS
<1> USE DEF IInv
<1>1. events \in Seq(Event)
  BY DEF TypeOK
<1>2. CASE StatusBarPress
  <2>1. PICK i \in 1 .. Cardinality(Tab) : events' = Append(events, [type |-> "TabClick", index |-> i])
    BY <1>2 DEF StatusBarPress
  <2>2. i \in Nat
    BY <2>1
  <2>3. [type |-> "TabClick", index |-> i] \in Event
    BY <2>2 DEF Event, TabClickEvent
  <2>4. events' \in Seq(Event)
    BY <1>1, <2>1, <2>3
  <2> QED
    BY <1>2, <2>4 DEF TypeOK, OwnershipOK, StatusBarPress
<1>3. ASSUME NEW p \in Pane, ProcessExit(p)
      PROVE  IInv'
  <2>1. events' \in Seq(Event)
    BY <1>1, <1>3, ExitEventType DEF ProcessExit
  <2> QED
    BY <1>3, <2>1 DEF TypeOK, OwnershipOK, ProcessExit
<1> QED
  BY <1>2, <1>3

\* What a popup selects is a tab or session of the lists, so selecting it is harmless.
LEMMA HookSelectOK ==
    ASSUME TypeOK, OwnershipOK, NEW s \in Elems(layout.sessions), NEW i, NEW focus \in BOOLEAN
    PROVE  HookSelect(s, i, focus) \in LayoutType /\ SessionsOK(HookSelect(s, i, focus))
<1>1. layout \in LayoutType /\ SessionsOK(layout)
  BY DEF TypeOK, OwnershipOK
<1>2. CASE hook.kind = "find_tab" /\ i \in 1 .. Len(layout.tabs[s])
  <2>1. layout.tabs[s][i] \in Elems(layout.tabs[s])
    BY <1>2 DEF Elems
  <2>2. HookSelect(s, i, focus) = SetActiveTab(layout, s, layout.tabs[s][i], focus)
    BY <1>2 DEF HookSelect
  <2> QED
    BY <1>1, <1>2, <2>1, <2>2, SetActiveTabOK
<1>3. CASE hook.kind = "find_session" /\ i \in 1 .. Len(layout.sessions)
  <2>1. layout.sessions[i] \in Elems(layout.sessions)
    BY <1>3 DEF Elems
  <2>2. HookSelect(s, i, focus) = SetActiveSession(layout, layout.sessions[i], focus)
    BY <1>3 DEF HookSelect
  <2> QED
    BY <1>1, <2>1, <2>2, SetActiveSessionOK
<1>4. CASE /\ ~(hook.kind = "find_tab" /\ i \in 1 .. Len(layout.tabs[s]))
           /\ ~(hook.kind = "find_session" /\ i \in 1 .. Len(layout.sessions))
  <2>1. HookSelect(s, i, focus) = layout
    BY <1>4 DEF HookSelect
  <2> QED
    BY <1>1, <2>1
<1> QED
  BY <1>2, <1>3, <1>4

\* What an output hook of the popup does: it faults, or selects.
LEMMA HookDoes ==
    ASSUME HookExtraOutput \/ HookFinishOutput
    PROVE  \E i : \E s \in Elems(layout.sessions), focus \in BOOLEAN, outcome \in HookFaults :
              /\ fault' = outcome
              /\ layout' = IF outcome = "none" THEN HookSelect(s, i, focus) ELSE layout
<1>1. CASE HookExtraOutput
  <2>1. PICK s \in Elems(layout.sessions), i \in 1 .. Cardinality(Session) + Cardinality(Tab) :
           \E outcome \in HookFaults :
              /\ fault' = outcome
              /\ layout' = IF outcome = "none" THEN HookSelect(s, i, FALSE) ELSE layout
    BY <1>1 DEF HookExtraOutput
  <2> QED
    BY <2>1
<1>2. CASE HookFinishOutput
  <2>1. PICK s \in Elems(layout.sessions) :
           \E i \in 1 .. Cardinality(Session) + Cardinality(Tab) \cup {hook.index} :
           \E outcome \in HookFaults :
              /\ fault' = outcome
              /\ layout' = IF outcome = "none" THEN HookSelect(s, i, TRUE) ELSE layout
    BY <1>2 DEF HookFinishOutput
  <2>2. PICK i : \E outcome \in HookFaults :
              /\ fault' = outcome
              /\ layout' = IF outcome = "none" THEN HookSelect(s, i, TRUE) ELSE layout
    BY <2>1
  <2> QED
    BY <2>1, <2>2
<1> QED
  BY <1>1, <1>2

\* The output hooks of the popup preserve the inductive invariant.
LEMMA HookStep == IInv /\ (HookExtraOutput \/ HookFinishOutput) => IInv'
<1> SUFFICES ASSUME IInv, HookExtraOutput \/ HookFinishOutput PROVE IInv'
  OBVIOUS
<1> USE DEF IInv
<1> DEFINE Does(i, s, focus, outcome) ==
             /\ fault' = outcome
             /\ layout' = IF outcome = "none" THEN HookSelect(s, i, focus) ELSE layout
<1>0. PICK i : \E s \in Elems(layout.sessions), focus \in BOOLEAN, outcome \in HookFaults :
                 Does(i, s, focus, outcome)
  BY HookDoes
<1>1. PICK s \in Elems(layout.sessions), focus \in BOOLEAN, outcome \in HookFaults :
         Does(i, s, focus, outcome)
  BY <1>0
<1>2. outcome \in Faults
  BY DEF HookFaults, Faults
<1>3. layout' \in LayoutType /\ SessionsOK(layout')
  <2>1. CASE outcome = "none"
    BY <1>1, <2>1, HookSelectOK
  <2>2. CASE outcome # "none"
    BY <1>1, <2>2 DEF TypeOK, OwnershipOK
  <2> QED
    BY <2>1, <2>2
<1>4. CASE HookExtraOutput
  BY <1>1, <1>2, <1>3, <1>4 DEF TypeOK, OwnershipOK, HookExtraOutput
<1>5. CASE HookFinishOutput
  <2>1. hook' \in Hook
    BY <1>5 DEF HookFinishOutput, TypeOK, Hook
  <2> QED
    BY <1>1, <1>2, <1>3, <1>5, <2>1 DEF TypeOK, OwnershipOK, HookFinishOutput
<1> QED
  BY <1>4, <1>5

\* The event the render thread takes, and those it leaves, are well formed.
LEMMA HeadEvent ==
    ASSUME TypeOK, events # <<>>
    PROVE  Head(events) \in Event /\ Tail(events) \in Seq(Event)
BY DEF TypeOK

\* PaneExited preserves the inductive invariant, whatever the pointers of the event refer to.
LEMMA RenderPaneExitedStep == IInv /\ RenderPaneExited => IInv'
<1> SUFFICES ASSUME IInv, RenderPaneExited PROVE IInv'
  OBVIOUS
<1> USE DEF IInv
<1> DEFINE ev == Head(events)
           removed == ev.pane \in layout.panes[ev.tab]
           unlisted == RemovePane(layout, ev.session, ev.tab, ev.pane)
           f == IF removed THEN unlisted.focused \ {ev.pane} ELSE unlisted.focused
<1>1. ev \in Event /\ events' \in Seq(Event) /\ ev.type = "PaneExited"
  BY HeadEvent DEF RenderPaneExited
<1>2. ev.session \in Session /\ ev.tab \in Tab /\ ev.pane \in Pane
  BY <1>1 DEF Event, PaneExitedEvent, RemovePopupEvent, TabClickEvent
<1>3. layout \in LayoutType /\ SessionsOK(layout)
  BY DEF TypeOK, OwnershipOK
<1>4. CASE ev.session \notin Elems(layout.sessions) \/ ev.tab \notin LiveTabs
  <2>1. fault' = "dead_tab" /\ UNCHANGED <<layout, leaving, proc, home, replacing, hook>>
    BY <1>4 DEF RenderPaneExited
  <2> QED
    BY <1>1, <2>1 DEF TypeOK, OwnershipOK, Faults
<1>5. CASE ev.session \in Elems(layout.sessions) /\ ev.tab \in LiveTabs
  <2>1. /\ layout' = [unlisted EXCEPT !.focused = f]
        /\ leaving' = IF removed THEN ev.pane ELSE None
        /\ UNCHANGED <<proc, home, replacing, hook, fault>>
    BY <1>5 DEF RenderPaneExited
  <2>2. unlisted \in LayoutType /\ SessionsOK(unlisted)
    BY <1>2, <1>3, <1>5, RemovePaneOK
  <2> HIDE DEF unlisted
  <2>3. f \in SUBSET Pane
    BY <2>2 DEF LayoutType
  <2> HIDE DEF f, ev
  <2>4. layout' \in LayoutType /\ SameTree(unlisted, layout')
    BY <2>1, <2>2, <2>3, FocusedType
  <2>5. SessionsOK(layout')
    BY <2>2, <2>4, SessionsOKSame
  <2>6. leaving' \in Pane \cup {None}
    BY <1>2, <2>1
  <2> QED
    BY <1>1, <2>1, <2>4, <2>5, <2>6 DEF TypeOK, OwnershipOK
<1> QED
  BY <1>4, <1>5

\* RemovePopup preserves it.
LEMMA RenderRemovePopupStep == IInv /\ RenderRemovePopup => IInv'
<1> SUFFICES ASSUME IInv, RenderRemovePopup PROVE IInv'
  OBVIOUS
<1> USE DEF IInv
<1> DEFINE hidden == RemovePopup(layout)
           f == hidden.focused \ {layout.popup}
<1>1. layout \in LayoutType /\ layout.popup \in Pane \cup {None} /\ events' \in Seq(Event)
  BY HeadEvent DEF RenderRemovePopup, TypeOK, LayoutType
<1>2. hidden \in LayoutType /\ SameTree(layout, hidden)
  BY <1>1, PopupType DEF RemovePopup
<1>3. CASE layout.popup = None
  BY <1>1, <1>3 DEF RenderRemovePopup, TypeOK, OwnershipOK
<1>4. CASE layout.popup # None
  <2>1. layout' = [hidden EXCEPT !.focused = f] /\ leaving' = layout.popup
    BY <1>4 DEF RenderRemovePopup
  <2> HIDE DEF hidden
  <2>2. f \in SUBSET Pane
    BY <1>2 DEF LayoutType
  <2> HIDE DEF f
  <2>3. layout' \in LayoutType /\ SameTree(hidden, layout')
    BY <1>2, <2>1, <2>2, FocusedType
  <2>4. SameTree(layout, layout')
    BY <1>2, <2>3 DEF SameTree
  <2>5. OwnershipOK'
    BY <2>3, <2>4, SameTreeStep
  <2> QED
    BY <1>1, <2>1, <2>3, <2>5 DEF TypeOK, RenderRemovePopup
<1> QED
  BY <1>3, <1>4

\* The end of a destructor on the render thread preserves it.
LEMMA RenderFreedStep == IInv /\ (RenderPaneFreed \/ RenderPopupFreed) => IInv'
<1> SUFFICES ASSUME IInv, RenderPaneFreed \/ RenderPopupFreed PROVE IInv'
  OBVIOUS
<1> USE DEF IInv
<1>1. leaving \in Pane
  BY DEF RenderPaneFreed, RenderPopupFreed, PopupLeaving, TypeOK
<1>2. /\ proc' \in [Pane -> {"free", "running", "exited"}]
      /\ home' \in [Pane -> Home] /\ events' \in Seq(Event)
  BY <1>1, DestroyType DEF RenderPaneFreed, RenderPopupFreed
<1>3. NoHook \in Hook
  BY DEF NoHook, Hook, AllPopupKinds
<1>4. hook' \in Hook
  BY <1>3 DEF RenderPaneFreed, RenderPopupFreed, TypeOK
<1>5. fault' \in Faults
  BY DEF RenderPaneFreed, RenderPopupFreed, Faults, TypeOK, RenderPopupFreed, NoHook, Hook, Faults, TypeOK
<1> QED
  BY <1>2, <1>4, <1>5 DEF TypeOK, OwnershipOK, RenderPaneFreed, RenderPopupFreed

\* A tab click preserves it, also when its index is out of date.
LEMMA RenderTabClickStep == IInv /\ RenderTabClick => IInv'
<1> SUFFICES ASSUME IInv, RenderTabClick PROVE IInv'
  OBVIOUS
<1> USE DEF IInv
<1> DEFINE s == layout.activeSession
           i == Head(events).index
<1>1. /\ s \in Elems(layout.sessions) /\ layout \in LayoutType /\ SessionsOK(layout)
      /\ Tail(events) \in Seq(Event)
  BY ActiveOK, HeadEvent DEF RenderTabClick, RenderTurn, LockFree, TypeOK, OwnershipOK
<1>2. layout' = IF i \in 1 .. Len(layout.tabs[s])
                THEN SetActiveTab(layout, s, layout.tabs[s][i], TRUE) ELSE layout
  BY DEF RenderTabClick
<1>3. layout' \in LayoutType /\ SessionsOK(layout')
  <2>1. CASE i \in 1 .. Len(layout.tabs[s])
    <3>1. layout.tabs[s][i] \in Elems(layout.tabs[s])
      BY <2>1 DEF Elems
    <3> QED
      BY <1>1, <1>2, <2>1, <3>1, SetActiveTabOK
  <2>2. CASE i \notin 1 .. Len(layout.tabs[s])
    BY <1>1, <1>2, <2>2
  <2> QED
    BY <2>1, <2>2
<1> QED
  BY <1>1, <1>3 DEF TypeOK, OwnershipOK, RenderTabClick

\* A resize preserves it.
LEMMA RenderResizeStep == IInv /\ RenderResize => IInv'
<1> SUFFICES ASSUME IInv, RenderResize PROVE IInv'
  OBVIOUS
<1> USE DEF IInv
<1>1. PICK size \in Sizes : layout' = Layout(layout, size)
  BY DEF RenderResize
<1>2. layout' \in LayoutType /\ SameTree(layout, layout')
  BY <1>1, LayoutStructure DEF TypeOK
<1>3. OwnershipOK'
  BY <1>2, SameTreeStep
<1> QED
  BY <1>2, <1>3 DEF TypeOK, RenderResize

\* The inductive step.
LEMMA NextIInv == IInv /\ [Next]_vars => IInv'
<1> SUFFICES ASSUME IInv, [Next]_vars PROVE IInv'
  OBVIOUS
<1>1. CASE KeyActions
  BY <1>1, CreateTabStep, CreateSessionStep, AddPaneStep, SwitchTabStep, SwitchSessionStep,
     ActivatePaneStep, ToggleFullScreenStep, HardResetStep, HardResetEndStep, OpenPopupStep
  DEF KeyActions
<1>2. CASE MouseActions
  BY <1>2, ActivatePaneStep, EventStep DEF MouseActions
<1>3. CASE HookActions
  BY <1>3, HookStep DEF HookActions
<1>4. CASE RenderActions
  BY <1>4, RenderPaneExitedStep, RenderRemovePopupStep, RenderFreedStep, RenderTabClickStep,
     RenderResizeStep
  DEF RenderActions
<1>5. CASE \E p \in Pane : ProcessExit(p)
  BY <1>5, EventStep
<1>6. CASE UNCHANGED vars
  BY <1>6 DEF vars, IInv, TypeOK, OwnershipOK
<1> QED
  BY <1>1, <1>2, <1>3, <1>4, <1>5, <1>6 DEF Next

-----------------------------------------------------------------------------

\* Every field of the LayoutState object, the queue, the hooks and the process table keep
\* their type, for any number of sessions, tabs and panes and any bound on the queue.
THEOREM TypeCorrect == Spec => []TypeOK
<1>1. IInv => TypeOK
  BY DEF IInv
<1> QED
  BY <1>1, InitIInv, NextIInv, PTL DEF Spec

\* Sessions are listed once and own a tab, tabs are in one list, and no active pointer dangles,
\* in every interleaving of the threads, hard resets, stale PaneExited events and failed
\* creations included (layout_state.cpp:71-158, session.cpp:22-100).
THEOREM Ownership == Spec => []OwnershipOK
<1>1. IInv => OwnershipOK
  BY DEF IInv
<1> QED
  BY <1>1, InitIInv, NextIInv, PTL DEF Spec
=============================================================================

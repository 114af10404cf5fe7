------------------------- MODULE LayoutPanesProofs -------------------------
(***************************************************************************)
(* Proofs about LayoutState, for any number of sessions, tabs and panes,   *)
(* as long as hard_reset is not bound to a key, in three parts: who owns   *)
(* a pane and what waiting events point to; the lists of recency and what  *)
(* is on the screen; and who has the focus.  The last two suppose that     *)
(* popups are not clicked.                                                 *)
(***************************************************************************)
EXTENDS LayoutStateProofs

-----------------------------------------------------------------------------
(***************************************************************************)
(* 1. Every pane has an owner, and the events of the render thread name    *)
(* what is alive.                                                          *)
(*                                                                         *)
(* The argument.  A pane remembers where it was created (home): the        *)
(* session and tab its did_exit hook has captured, or nothing for the      *)
(* popup.  As long as its address is in use it is still there, because     *)
(* nothing moves a pane and a tab is freed only with its last pane.  An    *)
(* exit event is therefore that of one pane, which is alive until the      *)
(* event is handled, and then until the render thread leaves ~Pane         *)
(* (Places, Exits).                                                        *)
(***************************************************************************)

(* The inductive invariant *)

\* Every address in use is that of the popup, of the pane that the render thread destroys, or of a
\* pane of the tab it was created in.
Places ==
    /\ \A t \in Tab : \A p \in layout.panes[t] : p # leaving /\ proc[p] # "free" /\ home[p].tab = t
    /\ layout.popup # None => proc[layout.popup] # "free" /\ home[layout.popup] = NoHome
    /\ leaving # None => proc[leaving] = "exited"
    /\ PopupLeaving => layout.popup = None
    /\ \A p \in Pane : proc[p] # "free" =>
          \/ p \in {layout.popup, leaving}
          \/ /\ home[p] # NoHome
             /\ home[p].tab \in Elems(layout.tabs[home[p].session])
             /\ p \in layout.panes[home[p].tab]
    /\ \A s \in Session : \A t \in Elems(layout.tabs[s]) : layout.panes[t] # {}
    /\ replacing = None

IsExit(e) == e.type # "TabClick"

\* Every exit event that waits is that of a pane whose child has exited, and there is one for it.
ExitsIn(queue) ==
    /\ \A k \in 1 .. Len(queue) : IsExit(queue[k]) =>
          \E p \in Pane : proc[p] = "exited" /\ p # leaving /\ queue[k] = ExitEvent(p)
    /\ \A j, k \in 1 .. Len(queue) : IsExit(queue[k]) /\ queue[j] = queue[k] => j = k

Exits == ExitsIn(events)

PInv == IInv /\ Places /\ Exits

-----------------------------------------------------------------------------
(* Which panes the methods leave where *)

SameOwners(st, r) == r.panes = st.panes /\ r.popup = st.popup

\* Tab::layout.
LEMMA TabLayoutOwners ==
    ASSUME NEW st \in LayoutType, NEW t \in Tab, NEW size
    PROVE  SameOwners(st, TabLayout(st, t, size))
BY DEF TabLayout, LayoutType, SameOwners

\* Tab::set_active.
LEMMA TabSetActiveOwners ==
    ASSUME NEW st \in LayoutType, NEW t \in Tab, NEW p \in Pane \cup {None}
    PROVE  SameOwners(st, TabSetActive(st, t, p))
<1> DEFINE windowed == [st EXCEPT !.fullScreen[t] = None]
           cleared == IF st.fullScreen[t] \in {None, p} THEN st
                      ELSE TabLayout(windowed, t, st.tabSize[t])
           active2 == [cleared.active EXCEPT ![t] = p]
           recency2 == [cleared.recency EXCEPT ![t] = IF p = None THEN @ ELSE <<p>> \o Without(@, p)]
           focused2 == IF st.tabIsActive[t] THEN (cleared.focused \ {st.active[t]}) \cup NonNull(p)
                       ELSE cleared.focused
<1>1. windowed \in LayoutType /\ SameOwners(st, windowed) /\ SameOwners(st, st)
  BY DEF LayoutType, SameOwners
<1>2. st.tabSize[t] \in Sizes \cup {None}
  BY DEF LayoutType
<1>3. TabSetActive(st, t, p) =
        IF st.active[t] = p THEN st
        ELSE [cleared EXCEPT !.active = active2, !.recency = recency2, !.focused = focused2]
  BY DEF TabSetActive
<1> HIDE DEF windowed
<1>4. cleared \in LayoutType /\ SameOwners(st, cleared)
  BY <1>1, <1>2, TabLayoutType, TabLayoutOwners DEF SameOwners
<1> HIDE DEF cleared, active2, recency2, focused2
<1>5. SameOwners(cleared, [cleared EXCEPT !.active = active2, !.recency = recency2, !.focused = focused2])
  BY <1>4 DEF LayoutType, SameOwners
<1> QED
  BY <1>1, <1>3, <1>4, <1>5 DEF SameOwners

\* Tab::set_is_active.
LEMMA TabSetIsActiveOwners ==
    ASSUME NEW st \in LayoutType, NEW t \in Tab, NEW b \in BOOLEAN
    PROVE  SameOwners(st, TabSetIsActive(st, t, b))
BY DEF TabSetIsActive, LayoutType, SameOwners, NonNull

\* Tab::set_full_screen_pane.
LEMMA TabSetFullScreenOwners ==
    ASSUME NEW st \in LayoutType, NEW t \in Tab, NEW p \in Pane \cup {None}
    PROVE  SameOwners(st, TabSetFullScreen(st, t, p))
<1> DEFINE full == [st EXCEPT !.fullScreen[t] = p]
<1>1. full \in LayoutType /\ SameOwners(st, full) /\ SameOwners(st, st)
  BY DEF LayoutType, SameOwners
<1>2. TabSetFullScreen(st, t, p) =
        IF st.fullScreen[t] = p THEN st
        ELSE IF p = None THEN TabLayout(full, t, st.tabSize[t])
        ELSE TabLayout(TabSetActive(full, t, p), t, st.tabSize[t])
  BY DEF TabSetFullScreen
<1> HIDE DEF full
<1>3. TabSetActive(full, t, p) \in LayoutType /\ SameOwners(full, TabSetActive(full, t, p))
  BY <1>1, TabSetActiveType, TabSetActiveOwners
<1> QED
  BY <1>1, <1>2, <1>3, TabLayoutOwners DEF SameOwners

\* Tab::remove_pane.
LEMMA TabRemovePaneOwners ==
    ASSUME NEW st \in LayoutType, NEW t \in Tab, NEW p \in Pane
    PROVE  /\ TabRemovePane(st, t, p).panes = [st.panes EXCEPT ![t] = @ \ {p}]
           /\ TabRemovePane(st, t, p).popup = st.popup
<1> DEFINE unlisted == [st EXCEPT !.fullScreen[t] = IF @ = p THEN None ELSE @,
                                  !.recency[t] = Without(@, p)]
           refocused == IF st.active[t] = p
                        THEN TabSetActive(unlisted, t, Front1(unlisted.recency[t]))
                        ELSE unlisted
<1>1. Without(st.recency[t], p) \in Seq(Pane)
  BY WithoutType DEF LayoutType
<1>2. unlisted \in LayoutType /\ SameOwners(st, unlisted)
  BY <1>1 DEF LayoutType, SameOwners
<1>3. TabRemovePane(st, t, p) = [refocused EXCEPT !.panes[t] = @ \ {p}]
  BY DEF TabRemovePane
<1> HIDE DEF unlisted
<1>4. Front1(unlisted.recency[t]) \in Pane \cup {None}
  BY <1>2, Front1Type DEF LayoutType
<1>5. refocused \in LayoutType /\ SameOwners(st, refocused)
  BY <1>2, <1>4, TabSetActiveType, TabSetActiveOwners DEF SameOwners
<1> HIDE DEF refocused
<1> QED
  BY <1>3, <1>5 DEF SameOwners, LayoutType

\* Tab::add_pane.
LEMMA TabAddPaneOwners ==
    ASSUME NEW st \in LayoutType, NEW t \in Tab, NEW p \in Pane
    PROVE  /\ TabAddPane(st, t, p).panes = [st.panes EXCEPT ![t] = @ \cup {p}]
           /\ TabAddPane(st, t, p).popup = st.popup
<1> DEFINE split == [st EXCEPT !.panes[t] = @ \cup {p}, !.tree[t] = st.panes[t] \cup {p}]
<1>1. /\ split \in LayoutType /\ split.panes = [st.panes EXCEPT ![t] = @ \cup {p}]
      /\ split.popup = st.popup
  BY DEF LayoutType
<1>2. TabAddPane(st, t, p) = TabSetActive(split, t, p)
  BY DEF TabAddPane
<1> HIDE DEF split
<1> QED
  BY <1>1, <1>2, TabSetActiveOwners DEF SameOwners

\* The destructor of Tab.
LEMMA TabDestroyOwners ==
    ASSUME NEW st \in LayoutType, NEW t \in Tab
    PROVE  /\ TabDestroy(st, t).panes = [st.panes EXCEPT ![t] = {}]
           /\ TabDestroy(st, t).popup = st.popup
BY DEF TabDestroy, LayoutType

\* Session::layout.
LEMMA SessionLayoutOwners ==
    ASSUME NEW st \in LayoutType, NEW s \in Session, NEW size \in Sizes \cup {None}
    PROVE  SameOwners(st, SessionLayout(st, s, size))
<1> DEFINE sized == [st EXCEPT !.sessionSize[s] = size]
<1>1. sized \in LayoutType /\ SameOwners(st, sized) /\ st.activeTab[s] \in Tab \cup {None}
  BY DEF LayoutType, SameOwners
<1>2. SessionLayout(st, s, size) =
        IF st.activeTab[s] = None THEN sized ELSE TabLayout(sized, st.activeTab[s], size)
  BY DEF SessionLayout
<1> HIDE DEF sized
<1> QED
  BY <1>1, <1>2, TabLayoutOwners DEF SameOwners

\* Session::set_is_active.
LEMMA SessionSetIsActiveOwners ==
    ASSUME NEW st \in LayoutType, NEW s \in Session, NEW b \in BOOLEAN
    PROVE  SameOwners(st, SessionSetIsActive(st, s, b))
<1> DEFINE set == [st EXCEPT !.sessionIsActive[s] = b]
<1>1. set \in LayoutType /\ SameOwners(st, set) /\ SameOwners(st, st)
      /\ st.activeTab[s] \in Tab \cup {None}
  BY DEF LayoutType, SameOwners
<1>2. SessionSetIsActive(st, s, b) =
        IF st.sessionIsActive[s] = b THEN st
        ELSE IF st.activeTab[s] = None THEN set ELSE TabSetIsActive(set, st.activeTab[s], b)
  BY DEF SessionSetIsActive
<1> HIDE DEF set
<1> QED
  BY <1>1, <1>2, TabSetIsActiveOwners DEF SameOwners

\* Session::set_active_tab.
LEMMA SessionSetActiveTabOwners ==
    ASSUME NEW st \in LayoutType, NEW s \in Session, NEW t \in Tab \cup {None}
    PROVE  SameOwners(st, SessionSetActiveTab(st, s, t))
<1> DEFINE left == IF st.sessionIsActive[s] /\ st.activeTab[s] # None
                   THEN TabSetIsActive(st, st.activeTab[s], FALSE) ELSE st
           moved == [left EXCEPT !.activeTab[s] = t]
           entered == IF st.sessionIsActive[s] /\ t # None
                      THEN TabSetIsActive(moved, t, TRUE) ELSE moved
<1>1. /\ st.activeTab[s] \in Tab \cup {None} /\ st.sessionSize[s] \in Sizes \cup {None}
      /\ SameOwners(st, st)
  BY DEF LayoutType, SameOwners
<1>2. left \in LayoutType /\ SameOwners(st, left)
  BY <1>1, TabSetIsActiveType, TabSetIsActiveOwners
<1>3. SessionSetActiveTab(st, s, t) =
        IF st.activeTab[s] = t THEN st ELSE SessionLayout(entered, s, st.sessionSize[s])
  BY DEF SessionSetActiveTab
<1> HIDE DEF left
<1>4. moved \in LayoutType /\ SameOwners(st, moved)
  BY <1>2 DEF LayoutType, SameOwners
<1> HIDE DEF moved
<1>5. entered \in LayoutType /\ SameOwners(st, entered)
  BY <1>4, TabSetIsActiveType, TabSetIsActiveOwners DEF SameOwners
<1> HIDE DEF entered
<1> QED
  BY <1>1, <1>3, <1>5, SessionLayoutOwners DEF SameOwners

\* LayoutState::layout.
LEMMA LayoutOwners ==
    ASSUME NEW st \in LayoutType, NEW size \in Sizes
    PROVE  SameOwners(st, Layout(st, size))
<1> DEFINE sized == [st EXCEPT !.size = size]
<1>1. /\ sized \in LayoutType /\ SameOwners(st, sized)
      /\ st.activeSession \in Session \cup {None} /\ size \in Sizes \cup {None}
  BY DEF LayoutType, SameOwners
<1>2. Layout(st, size) =
        IF st.activeSession = None THEN sized ELSE SessionLayout(sized, st.activeSession, size)
  BY DEF Layout
<1> HIDE DEF sized
<1> QED
  BY <1>1, <1>2, SessionLayoutOwners DEF SameOwners

\* LayoutState::set_active_session.
LEMMA SetActiveSessionOwners ==
    ASSUME NEW st \in LayoutType, NEW s \in Session \cup {None}, NEW focus \in BOOLEAN
    PROVE  /\ SameOwners(st, SetActiveSession(st, s, focus))
           /\ SetActiveSession(st, s, focus).tabs = st.tabs
<1> DEFINE left == IF st.activeSession # None
                   THEN SessionSetIsActive(st, st.activeSession, FALSE) ELSE st
           moved == [left EXCEPT !.activeSession = s]
           entered == IF focus /\ s # None THEN SessionSetIsActive(moved, s, TRUE) ELSE moved
<1>1. st.activeSession \in Session \cup {None} /\ SameOwners(st, st)
  BY DEF LayoutType, SameOwners
<1>2. left \in LayoutType /\ SameOwners(st, left)
  BY <1>1, SessionSetIsActiveType, SessionSetIsActiveOwners
<1>3. SetActiveSession(st, s, focus) =
        IF st.activeSession = s THEN st ELSE Layout(entered, entered.size)
  BY DEF SetActiveSession
<1> HIDE DEF left
<1>4. moved \in LayoutType /\ SameOwners(st, moved)
  BY <1>2 DEF LayoutType, SameOwners
<1> HIDE DEF moved
<1>5. entered \in LayoutType /\ SameOwners(st, entered)
  BY <1>4, SessionSetIsActiveType, SessionSetIsActiveOwners DEF SameOwners
<1>6. entered.size \in Sizes
  BY <1>5 DEF LayoutType
<1> HIDE DEF entered
<1>7. SetActiveSession(st, s, focus).tabs = st.tabs
  <2>1. SameTree([st EXCEPT !.activeSession = s], SetActiveSession(st, s, focus))
    BY SetActiveSessionType
  <2> QED
    BY <2>1 DEF SameTree, LayoutType
<1> QED
  BY <1>1, <1>3, <1>5, <1>6, <1>7, LayoutOwners DEF SameOwners

\* LayoutState::set_active_tab.
LEMMA SetActiveTabOwners ==
    ASSUME NEW st \in LayoutType, NEW s \in Session, NEW t \in Tab, NEW focus \in BOOLEAN
    PROVE  /\ SameOwners(st, SetActiveTab(st, s, t, focus))
           /\ SetActiveTab(st, s, t, focus).tabs = st.tabs
<1> DEFINE chosen == IF focus THEN SetActiveSession(st, s, TRUE) ELSE st
<1>1. SetActiveTab(st, s, t, focus) = SessionSetActiveTab(chosen, s, t)
  BY DEF SetActiveTab
<1>2. chosen \in LayoutType /\ SameOwners(st, chosen) /\ chosen.tabs = st.tabs
  BY SetActiveSessionType, SetActiveSessionOwners DEF SameOwners
<1> HIDE DEF chosen
<1>3. SameOwners(chosen, SessionSetActiveTab(chosen, s, t))
  BY <1>2, SessionSetActiveTabOwners
<1>4. SessionSetActiveTab(chosen, s, t).tabs = chosen.tabs
  <2>1. SameTree([chosen EXCEPT !.activeTab[s] = t], SessionSetActiveTab(chosen, s, t))
    BY <1>2, SessionSetActiveTabType
  <2> QED
    BY <1>2, <2>1 DEF SameTree, LayoutType
<1> QED
  BY <1>1, <1>2, <1>3, <1>4 DEF SameOwners

\* Session::remove_tab of a tab without panes.
LEMMA SessionRemoveTabOwners ==
    ASSUME NEW st \in LayoutType, NEW s \in Session, NEW t \in Elems(st.tabs[s]), st.panes[t] = {}
    PROVE  /\ SameOwners(st, SessionRemoveTab(st, s, t))
           /\ SessionRemoveTab(st, s, t).tabs = [st.tabs EXCEPT ![s] = Without(@, t)]
<1> DEFINE next == Neighbour(st.tabs[s], t)
           moved == IF st.activeTab[s] = t THEN SessionSetActiveTab(st, s, next) ELSE st
           unlisted == [moved EXCEPT !.tabs[s] = Without(@, t)]
<1>1. st.tabs[s] \in Seq(Tab) /\ t \in Tab /\ SameOwners(st, st)
  <2>1. st.tabs[s] \in Seq(Tab)
    BY DEF LayoutType
  <2> QED
    BY <2>1, ElemsSubset DEF SameOwners
<1>2. next \in Tab \cup {None}
  BY <1>1, NeighbourType
<1>3. SessionRemoveTab(st, s, t) = TabDestroy(unlisted, t)
  BY DEF SessionRemoveTab
<1> HIDE DEF next
<1>4. moved \in LayoutType /\ SameOwners(st, moved) /\ moved.tabs = st.tabs
  <2>1. CASE st.activeTab[s] = t
    <3>1. SameTree([st EXCEPT !.activeTab[s] = next], SessionSetActiveTab(st, s, next))
          /\ SessionSetActiveTab(st, s, next) \in LayoutType
      BY <1>2, SessionSetActiveTabType
    <3>2. SameOwners(st, SessionSetActiveTab(st, s, next))
      BY <1>2, SessionSetActiveTabOwners
    <3>3. SessionSetActiveTab(st, s, next).tabs = st.tabs
      BY <3>1 DEF SameTree, LayoutType
    <3> QED
      BY <2>1, <3>1, <3>2, <3>3
  <2>2. CASE st.activeTab[s] # t
    BY <1>1, <2>2
  <2> QED
    BY <2>1, <2>2
<1> HIDE DEF moved
<1>5. Without(st.tabs[s], t) \in Seq(Tab)
  BY <1>1, WithoutType
<1>6. unlisted \in LayoutType
  BY <1>4, <1>5 DEF LayoutType
<1>7. SameOwners(st, unlisted) /\ unlisted.tabs = [st.tabs EXCEPT ![s] = Without(@, t)]
  BY <1>4 DEF LayoutType, SameOwners
<1> HIDE DEF unlisted
<1>8. /\ TabDestroy(unlisted, t).panes = [unlisted.panes EXCEPT ![t] = {}]
      /\ TabDestroy(unlisted, t).popup = unlisted.popup
      /\ TabDestroy(unlisted, t).tabs = unlisted.tabs
  BY <1>1, <1>6, TabDestroyOwners, TabDestroyType DEF SameTree
<1>9. [unlisted.panes EXCEPT ![t] = {}] = st.panes
  BY <1>1, <1>7 DEF SameOwners, LayoutType
<1> QED
  BY <1>3, <1>7, <1>8, <1>9 DEF SameOwners

\* r is st without pane p of tab t of session s: the tab goes with its last pane.
Removed(st, r, s, t, p) ==
    /\ r.panes = [st.panes EXCEPT ![t] = @ \ {p}]
    /\ r.popup = st.popup
    /\ st.panes[t] \ {p} = {} => r.tabs = [st.tabs EXCEPT ![s] = Without(@, t)]
    /\ st.panes[t] \ {p} # {} => r.tabs = st.tabs

\* Session::remove_pane of a pane of one of its tabs.
LEMMA SessionRemovePaneOwners ==
    ASSUME NEW st \in LayoutType, NEW s \in Session, NEW t \in Elems(st.tabs[s]), NEW p \in Pane
    PROVE  Removed(st, SessionRemovePane(st, s, t, p), s, t, p)
<1> DEFINE removed == TabRemovePane(st, t, p)
<1>1. t \in Tab /\ st.panes[t] \in SUBSET Pane
  <2>1. st.tabs[s] \in Seq(Tab)
    BY DEF LayoutType
  <2>2. t \in Tab
    BY <2>1, ElemsSubset
  <2> QED
    BY <2>2 DEF LayoutType
<1>2. SessionRemovePane(st, s, t, p) =
        IF removed.panes[t] = {} THEN SessionRemoveTab(removed, s, t)
        ELSE IF p \in st.panes[t] /\ st.activeTab[s] = t
        THEN SessionLayout(removed, s, removed.sessionSize[s])
        ELSE removed
  BY DEF SessionRemovePane
<1>3. /\ removed \in LayoutType /\ removed.tabs = st.tabs
      /\ removed.panes = [st.panes EXCEPT ![t] = @ \ {p}] /\ removed.popup = st.popup
  BY <1>1, TabRemovePaneType, TabRemovePaneOwners DEF SameTree
<1> HIDE DEF removed
<1>4. removed.panes[t] = st.panes[t] \ {p}
  BY <1>1, <1>3 DEF LayoutType
<1>5. removed.sessionSize[s] \in Sizes \cup {None}
  BY <1>3 DEF LayoutType
<1>6. /\ SameOwners(removed, SessionLayout(removed, s, removed.sessionSize[s]))
      /\ SessionLayout(removed, s, removed.sessionSize[s]).tabs = removed.tabs
  BY <1>3, <1>5, SessionLayoutOwners, SessionLayoutType DEF SameTree
<1>7. removed.panes[t] = {} =>
        /\ SameOwners(removed, SessionRemoveTab(removed, s, t))
        /\ SessionRemoveTab(removed, s, t).tabs = [removed.tabs EXCEPT ![s] = Without(@, t)]
  <2>1. t \in Elems(removed.tabs[s])
    BY <1>3
  <2>2. QED
    BY <1>3, <2>1, SessionRemoveTabOwners
<1> QED
  BY <1>2, <1>3, <1>4, <1>6, <1>7 DEF SameOwners, Removed

\* LayoutState::remove_session.
LEMMA RemoveSessionOwners ==
    ASSUME NEW st \in LayoutType, NEW s \in Session
    PROVE  /\ SameOwners(st, RemoveSession(st, s))
           /\ RemoveSession(st, s).tabs = st.tabs
<1> DEFINE next == Neighbour(st.sessions, s)
           moved == IF st.activeSession = s THEN SetActiveSession(st, next, TRUE) ELSE st
           unlisted == [moved EXCEPT !.sessions = Without(@, s)]
<1>1. RemoveSession(st, s) = SessionDestroy(unlisted, s)
  BY DEF RemoveSession
<1>2. next \in Session \cup {None}
  BY NeighbourType DEF LayoutType
<1> HIDE DEF next
<1>3. moved \in LayoutType /\ SameOwners(st, moved) /\ moved.tabs = st.tabs
  BY <1>2, SetActiveSessionType, SetActiveSessionOwners DEF SameOwners
<1> HIDE DEF moved
<1>4. moved.sessions \in Seq(Session)
  BY <1>3 DEF LayoutType
<1>5. Without(moved.sessions, s) \in Seq(Session)
  BY <1>4, WithoutType
<1>6. unlisted \in LayoutType /\ SameOwners(st, unlisted) /\ unlisted.tabs = st.tabs
  BY <1>3, <1>5 DEF LayoutType, SameOwners
<1> HIDE DEF unlisted
<1>7. SameOwners(unlisted, SessionDestroy(unlisted, s)) /\ SessionDestroy(unlisted, s).tabs = unlisted.tabs
  BY <1>6 DEF SessionDestroy, LayoutType, SameOwners
<1> QED
  BY <1>1, <1>6, <1>7 DEF SameOwners

\* LayoutState::remove_pane.
LEMMA RemovePaneOwners ==
    ASSUME NEW st \in LayoutType, SessionsOK(st), NEW s \in Elems(st.sessions),
           NEW t \in Elems(st.tabs[s]), NEW p \in Pane
    PROVE  Removed(st, RemovePane(st, s, t, p), s, t, p)
<1> DEFINE removed == SessionRemovePane(st, s, t, p)
<1>1. s \in Session
  BY ElemsSubset DEF LayoutType
<1>2. t \in Tab
  <2>1. st.tabs[s] \in Seq(Tab)
    BY <1>1 DEF LayoutType
  <2> QED
    BY <2>1, ElemsSubset
<1>3. RemovePane(st, s, t, p) = IF removed.tabs[s] = <<>> THEN RemoveSession(removed, s) ELSE removed
  BY DEF RemovePane
<1>4. removed \in LayoutType
  BY <1>2, SessionRemovePaneOK
<1>5. Removed(st, removed, s, t, p)
  BY <1>1, SessionRemovePaneOwners
<1> HIDE DEF removed
<1> QED
  BY <1>1, <1>3, <1>4, <1>5, RemoveSessionOwners DEF SameOwners, Removed

\* r is st with a new tab t of session s, which owns p.
Added(st, r, s, t, p) ==
    /\ r.panes = [st.panes EXCEPT ![t] = @ \cup {p}]
    /\ r.popup = st.popup
    /\ r.tabs = [st.tabs EXCEPT ![s] = Append(@, t)]

\* LayoutState::add_tab.
LEMMA AddTabOwners ==
    ASSUME NEW st \in LayoutType, NEW s \in Session, NEW t \in Tab, NEW p \in Pane
    PROVE  Added(st, AddTab(st, s, t, p, TRUE), s, t, p)
<1> DEFINE chosen == SetActiveSession(st, s, TRUE)
           filled == TabAddPane(chosen, t, p)
           moved == SessionSetActiveTab(filled, s, t)
<1>1. AddTab(st, s, t, p, TRUE) = [moved EXCEPT !.tabs[s] = Append(@, t)]
  BY DEF AddTab, SessionAddTab
<1>2. chosen \in LayoutType /\ SameOwners(st, chosen) /\ chosen.tabs = st.tabs
  BY SetActiveSessionType, SetActiveSessionOwners
<1> HIDE DEF chosen
<1>3. /\ filled \in LayoutType /\ filled.tabs = chosen.tabs
      /\ filled.panes = [chosen.panes EXCEPT ![t] = @ \cup {p}] /\ filled.popup = chosen.popup
  BY <1>2, TabAddPaneType, TabAddPaneOwners DEF SameTree
<1> HIDE DEF filled
<1>4. moved \in LayoutType /\ SameOwners(filled, moved)
  BY <1>3, SessionSetActiveTabType, SessionSetActiveTabOwners
<1>5. moved.tabs = filled.tabs
  <2>1. SameTree([filled EXCEPT !.activeTab[s] = t], moved)
    BY <1>3, SessionSetActiveTabType
  <2> HIDE DEF moved
  <2> QED
    BY <1>3, <2>1 DEF SameTree, LayoutType
<1> DEFINE r == [moved EXCEPT !.tabs[s] = Append(@, t)]
<1> HIDE DEF moved
<1>6. r.panes = moved.panes /\ r.popup = moved.popup /\ r.tabs = [moved.tabs EXCEPT ![s] = Append(@, t)]
  BY <1>4 DEF LayoutType
<1> HIDE DEF r
<1>7. AddTab(st, s, t, p, TRUE) = r
  BY <1>1 DEF r
<1>8. Added(st, r, s, t, p)
  BY <1>2, <1>3, <1>4, <1>5, <1>6 DEF SameOwners, Added
<1> QED
  BY <1>7, <1>8, Zenon

\* LayoutState::add_session.
LEMMA AddSessionOwners ==
    ASSUME NEW st \in LayoutType, NEW s \in Session, NEW t \in Tab, NEW p \in Pane
    PROVE  /\ Added(st, AddSession(st, s, t, p, TRUE), s, t, p)
           /\ SameOwners(st, AddSession(st, s, t, p, FALSE))
           /\ AddSession(st, s, t, p, FALSE).tabs = st.tabs
<1> DEFINE listed == [st EXCEPT !.sessions = Append(@, s)]
           chosen == SetActiveSession(listed, s, TRUE)
<1>1. /\ AddSession(st, s, t, p, TRUE) = AddTab(listed, s, t, p, TRUE)
      /\ AddSession(st, s, t, p, FALSE) = RemoveSession(chosen, s)
  BY DEF AddSession, AddTab
<1>2. listed \in LayoutType /\ SameOwners(st, listed) /\ listed.tabs = st.tabs
  <2>1. st.sessions \in Seq(Session)
    BY DEF LayoutType
  <2>2. Append(st.sessions, s) \in Seq(Session)
    BY <2>1
  <2> QED
    BY <2>2 DEF LayoutType, SameOwners
<1> HIDE DEF listed
<1>3. chosen \in LayoutType /\ SameOwners(listed, chosen) /\ chosen.tabs = listed.tabs
  BY <1>2, SetActiveSessionType, SetActiveSessionOwners
<1> HIDE DEF chosen
<1>4. SameOwners(chosen, RemoveSession(chosen, s)) /\ RemoveSession(chosen, s).tabs = chosen.tabs
  BY <1>3, RemoveSessionOwners
<1>5. Added(listed, AddTab(listed, s, t, p, TRUE), s, t, p)
  BY <1>2, AddTabOwners, Zenon
<1> DEFINE r == AddTab(listed, s, t, p, TRUE)
<1> HIDE DEF r
<1>6. Added(st, r, s, t, p)
  <2>1. Added(listed, r, s, t, p)
    BY <1>5 DEF r
  <2> QED
    BY <1>2, <2>1 DEF Added, SameOwners
<1>7. Added(st, AddSession(st, s, t, p, TRUE), s, t, p)
  BY <1>1, <1>6, Zenon DEF r
<1> DEFINE f == RemoveSession(chosen, s)
<1> HIDE DEF f
<1>8. SameOwners(st, f) /\ f.tabs = st.tabs
  BY <1>2, <1>3, <1>4 DEF SameOwners, f
<1> QED
  BY <1>1, <1>7, <1>8, Zenon DEF f

-----------------------------------------------------------------------------
(* The exit events *)

\* Where a pane was created, if its address is in use.
LEMMA HomeFacts ==
    ASSUME TypeOK, NEW p \in Pane
    PROVE  /\ home[p] = NoHome => home[p].tab = None /\ home[p].session = None
           /\ home[p] # NoHome => /\ home[p].tab \in Tab /\ home[p].tab # None
                                  /\ home[p].session \in Session
<1>1. home[p] \in Home
  BY DEF TypeOK
<1>2. NoHome.tab = None /\ NoHome.session = None
  BY DEF NoHome
<1>3. \A h \in [session : Session, tab : Tab] : h.tab \in Tab /\ h.session \in Session
  OBVIOUS
<1> QED
  BY <1>1, <1>2, <1>3, ConstantsAssumption DEF Home

\* The event of a pane is an exit event, of the type that its home asks for.
LEMMA ExitEventFacts ==
    ASSUME TypeOK, NEW p \in Pane
    PROVE  /\ IsExit(ExitEvent(p))
           /\ ExitEvent(p).type = "RemovePopup" => home[p] = NoHome
           /\ ExitEvent(p).type = "PaneExited" =>
                 /\ home[p] # NoHome /\ ExitEvent(p).pane = p
                 /\ ExitEvent(p).session = home[p].session /\ ExitEvent(p).tab = home[p].tab
<1>1. CASE home[p] = NoHome
  BY <1>1, HomeFacts DEF ExitEvent, IsExit
<1>2. CASE home[p] # NoHome
  BY <1>2, HomeFacts DEF ExitEvent, IsExit
<1> QED
  BY <1>1, <1>2

\* Two panes never have the same event.
LEMMA ExitOfOne ==
    ASSUME TypeOK, Places, NEW p \in Pane, NEW q \in Pane, proc[p] # "free", proc[q] # "free",
           p # leaving, q # leaving, ExitEvent(p) = ExitEvent(q)
    PROVE  p = q
<1>1. CASE home[p] = NoHome
  <2>1. ExitEvent(p) = [type |-> "RemovePopup"]
    BY <1>1, HomeFacts DEF ExitEvent
  <2>2. home[q] = NoHome
    <3>1. ExitEvent(q).type = "RemovePopup"
      BY <2>1
    <3> QED
      BY <3>1, ExitEventFacts
  <2> QED
    BY <1>1, <2>2 DEF Places
<1>2. CASE home[p] # NoHome
  <2>1. ExitEvent(p).type = "PaneExited" /\ ExitEvent(p).pane = p
    BY <1>2, HomeFacts DEF ExitEvent
  <2>2. ExitEvent(q).type = "PaneExited"
    BY <2>1
  <2>3. ExitEvent(q).pane = q
    BY <2>2, ExitEventFacts
  <2> QED
    BY <2>1, <2>3
<1> QED
  BY <1>1, <1>2

\* What is left of the queue has no event equal to the one taken.
LEMMA ExitsTail ==
    ASSUME NEW q \in Seq(Event), q # <<>>, ExitsIn(q)
    PROVE  /\ ExitsIn(Tail(q))
           /\ IsExit(Head(q)) => /\ \E p \in Pane : /\ proc[p] = "exited" /\ p # leaving
                                                   /\ Head(q) = ExitEvent(p)
                                 /\ \A k \in 1 .. Len(Tail(q)) : Tail(q)[k] # Head(q)
<1>1. /\ Head(q) = q[1] /\ Len(q) \in Nat \ {0} /\ Len(Tail(q)) = Len(q) - 1
      /\ \A k \in 1 .. Len(q) - 1 : Tail(q)[k] = q[k + 1]
  OBVIOUS
<1> DEFINE r == Tail(q)
<1> HIDE DEF r
<1>2. Len(r) = Len(q) - 1 /\ \A k \in 1 .. Len(r) : k + 1 \in 1 .. Len(q) /\ r[k] = q[k + 1]
  BY <1>1 DEF r
<1>3. 1 \in 1 .. Len(q)
  BY <1>1
<1>4. /\ \A k \in 1 .. Len(q) : IsExit(q[k]) =>
            \E p \in Pane : proc[p] = "exited" /\ p # leaving /\ q[k] = ExitEvent(p)
      /\ \A j, k \in 1 .. Len(q) : IsExit(q[k]) /\ q[j] = q[k] => j = k
  BY DEF ExitsIn
<1>5. \A k \in 1 .. Len(r) : IsExit(r[k]) =>
         \E p \in Pane : proc[p] = "exited" /\ p # leaving /\ r[k] = ExitEvent(p)
  BY <1>2, <1>4
<1>6. \A j, k \in 1 .. Len(r) : IsExit(r[k]) /\ r[j] = r[k] => j = k
  BY <1>1, <1>2, <1>4
<1>7. IsExit(Head(q)) => \A k \in 1 .. Len(r) : r[k] # Head(q)
  BY <1>1, <1>2, <1>3, <1>4
<1>8. IsExit(Head(q)) => \E p \in Pane : proc[p] = "exited" /\ p # leaving /\ Head(q) = ExitEvent(p)
  BY <1>1, <1>3, <1>4
<1>9. ExitsIn(r)
  BY <1>5, <1>6 DEF ExitsIn
<1> QED
  BY <1>7, <1>8, <1>9 DEF r

\* The events stay right as long as the panes they are of stay as they are.
LEMMA ExitsStay ==
    ASSUME NEW queue, ExitsIn(queue), events' = queue,
           \A p \in Pane : /\ proc[p] = "exited" /\ p # leaving
                           /\ \E k \in 1 .. Len(queue) : queue[k] = ExitEvent(p)
                           => proc'[p] = "exited" /\ p # leaving' /\ home'[p] = home[p]
    PROVE  Exits'
<1>1. \A k \in 1 .. Len(events') : IsExit(events'[k]) =>
         \E p \in Pane : proc'[p] = "exited" /\ p # leaving' /\ events'[k] = ExitEvent(p)'
  <2> SUFFICES ASSUME NEW k \in 1 .. Len(queue), IsExit(queue[k])
               PROVE  \E p \in Pane : proc'[p] = "exited" /\ p # leaving' /\ queue[k] = ExitEvent(p)'
    OBVIOUS
  <2>1. PICK p \in Pane : proc[p] = "exited" /\ p # leaving /\ queue[k] = ExitEvent(p)
    BY DEF ExitsIn
  <2>2. proc'[p] = "exited" /\ p # leaving' /\ home'[p] = home[p]
    BY <2>1
  <2>3. ExitEvent(p)' = ExitEvent(p)
    BY <2>2 DEF ExitEvent
  <2> QED
    BY <2>1, <2>2, <2>3
<1>2. \A j, k \in 1 .. Len(events') : IsExit(events'[k]) /\ events'[j] = events'[k] => j = k
  BY DEF ExitsIn
<1> QED
  BY <1>1, <1>2 DEF Exits, ExitsIn, IsExit

\* An event more at the end.
LEMMA ExitsAppend ==
    ASSUME TypeOK, Exits, NEW e \in Event, events' = Append(events, e), leaving' = leaving,
           \A q \in Pane : proc[q] = "exited" => proc'[q] = "exited" /\ home'[q] = home[q],
           IsExit(e) => /\ \E p \in Pane : proc'[p] = "exited" /\ p # leaving /\ e = ExitEvent(p)'
                        /\ \A k \in 1 .. Len(events) : events[k] # e
    PROVE  Exits'
<1>1. /\ events \in Seq(Event) /\ Len(events) \in Nat /\ Len(events') = Len(events) + 1
      /\ \A k \in 1 .. Len(events) : events'[k] = events[k]
      /\ events'[Len(events) + 1] = e
  BY DEF TypeOK
<1>2. \A k \in 1 .. Len(events') : k \in 1 .. Len(events) \/ k = Len(events) + 1
  BY <1>1
<1>3. ASSUME NEW k \in 1 .. Len(events'), IsExit(events'[k])
      PROVE  \E p \in Pane : proc'[p] = "exited" /\ p # leaving' /\ events'[k] = ExitEvent(p)'
  <2>1. CASE k \in 1 .. Len(events)
    <3>1. PICK p \in Pane : proc[p] = "exited" /\ p # leaving /\ events[k] = ExitEvent(p)
      BY <1>1, <1>3, <2>1 DEF Exits, ExitsIn
    <3>2. proc'[p] = "exited" /\ home'[p] = home[p]
      BY <3>1
    <3>3. ExitEvent(p)' = ExitEvent(p)
      BY <3>2 DEF ExitEvent
    <3> QED
      BY <1>1, <2>1, <3>1, <3>2, <3>3
  <2>2. CASE k = Len(events) + 1
    BY <1>1, <1>3, <2>2
  <2> QED
    BY <1>2, <2>1, <2>2
<1>4. ASSUME NEW j \in 1 .. Len(events'), NEW k \in 1 .. Len(events'),
             IsExit(events'[k]), events'[j] = events'[k]
      PROVE  j = k
  <2>1. CASE j \in 1 .. Len(events) /\ k \in 1 .. Len(events)
    BY <1>1, <1>4, <2>1 DEF Exits, ExitsIn
  <2>2. CASE j \in 1 .. Len(events) /\ k = Len(events) + 1
    BY <1>1, <1>4, <2>2
  <2>3. CASE j = Len(events) + 1 /\ k \in 1 .. Len(events)
    BY <1>1, <1>4, <2>3
  <2> QED
    BY <1>2, <2>1, <2>2, <2>3
<1> QED
  BY <1>3, <1>4 DEF Exits, ExitsIn, IsExit

-----------------------------------------------------------------------------
(* The steps *)

\* Nothing moves: Places does not depend on anything else.
LEMMA PlacesStay ==
    ASSUME Places, SameOwners(layout, layout'), layout'.tabs = layout.tabs,
           \A p \in Pane : /\ proc'[p] = "free" <=> proc[p] = "free"
                           /\ proc[p] = "exited" => proc'[p] = "exited"
                           /\ home'[p] = home[p],
           TypeOK, replacing' = replacing, leaving' = leaving
    PROVE  Places'
<1>1. layout.popup # None => layout.popup \in Pane
  BY DEF TypeOK, LayoutType
<1>2. \A u \in Tab : layout.panes[u] \subseteq Pane
  BY DEF TypeOK, LayoutType
<1>3. layout'.panes = layout.panes /\ layout'.popup = layout.popup
  BY DEF SameOwners
<1>4. \A t \in Tab : \A p \in layout'.panes[t] : p # leaving' /\ proc'[p] # "free" /\ home'[p].tab = t
  BY <1>2, <1>3 DEF Places
<1>5. layout'.popup # None => proc'[layout'.popup] # "free" /\ home'[layout'.popup] = NoHome
  BY <1>1, <1>3 DEF Places
<1>6. \A p \in Pane : proc'[p] # "free" =>
          \/ p \in {layout'.popup, leaving'}
          \/ /\ home'[p] # NoHome
             /\ home'[p].tab \in Elems(layout'.tabs[home'[p].session])
             /\ p \in layout'.panes[home'[p].tab]
  BY <1>3 DEF Places
<1>7. \A s \in Session : \A t \in Elems(layout'.tabs[s]) : layout'.panes[t] # {}
  BY <1>3 DEF Places
<1>8. (leaving' # None => proc'[leaving'] = "exited") /\ (PopupLeaving' => layout'.popup = None)
  BY <1>3 DEF Places, PopupLeaving, TypeOK, NoHome
<1> QED
  BY <1>4, <1>5, <1>6, <1>7, <1>8 DEF Places, Elems, NoHome

\* A pane is created in tab t of session s.
LEMMA PlacesAdd ==
    ASSUME TypeOK, Places, NEW s \in Session, NEW t \in Tab, NEW p \in FreePanes, Spawn(p, s, t),
           layout'.panes = [layout.panes EXCEPT ![t] = @ \cup {p}],
           layout'.popup = layout.popup, replacing' = replacing, leaving' = leaving,
           \/ layout'.tabs = layout.tabs /\ t \in Elems(layout.tabs[s])
           \/ layout'.tabs = [layout.tabs EXCEPT ![s] = Append(@, t)]
    PROVE  Places'
<1>1. /\ p \in Pane /\ proc[p] = "free"
      /\ proc' = [proc EXCEPT ![p] = "running"]
      /\ home' = [home EXCEPT ![p] = [session |-> s, tab |-> t]]
  BY DEF FreePanes, Spawn
<1>2. /\ layout.panes \in [Tab -> SUBSET Pane] /\ layout.tabs \in [Session -> Seq(Tab)]
      /\ proc \in [Pane -> {"free", "running", "exited"}] /\ home \in [Pane -> Home]
      /\ layout.popup \in Pane \cup {None}
  BY DEF TypeOK, LayoutType
<1>3. /\ proc'[p] = "running" /\ home'[p].session = s /\ home'[p].tab = t
      /\ \A q \in Pane \ {p} : proc'[q] = proc[q] /\ home'[q] = home[q]
  BY <1>1, <1>2
<1>4. home'[p] # NoHome
  <2>1. NoHome.session = None /\ s # None
    BY ConstantsAssumption DEF NoHome
  <2> QED
    BY <1>3, <2>1
<1>5. \A u \in Tab : /\ layout.panes[u] \subseteq layout'.panes[u]
                     /\ layout'.panes[u] \subseteq layout.panes[u] \cup {p}
                     /\ (u # t => layout'.panes[u] = layout.panes[u])
                     /\ (u = t => p \in layout'.panes[u])
                     /\ layout.panes[u] \subseteq Pane
  BY <1>2
<1>6. /\ \A r \in Session : /\ Elems(layout.tabs[r]) \subseteq Elems(layout'.tabs[r])
                            /\ Elems(layout'.tabs[r]) \subseteq Elems(layout.tabs[r]) \cup {t}
                            /\ Elems(layout.tabs[r]) \subseteq Tab
      /\ t \in Elems(layout'.tabs[s])
  <2>1. \A r \in Session : Elems(layout.tabs[r]) \subseteq Tab
    BY <1>2, ElemsSubset
  <2>2. Elems(Append(layout.tabs[s], t)) = Elems(layout.tabs[s]) \cup {t}
    <3>1. layout.tabs[s] \in Seq(Tab)
      BY <1>2
    <3> DEFINE q == layout.tabs[s]
               a == Append(q, t)
    <3>2. Len(a) = Len(q) + 1 /\ Len(q) \in Nat /\ a[Len(q) + 1] = t /\ \A k \in 1 .. Len(q) : a[k] = q[k]
      BY <3>1
    <3> HIDE DEF q, a
    <3>3. Elems(a) = Elems(q) \cup {t}
      BY <3>2 DEF Elems
    <3> QED
      BY <3>3 DEF q, a
  <2> QED
    BY <1>2, <2>1, <2>2
<1>11. p # leaving /\ leaving \in Pane \cup {None}
  BY <1>1, ConstantsAssumption DEF Places, TypeOK
<1>7. \A u \in Tab : \A q \in layout'.panes[u] : q # leaving' /\ proc'[q] # "free" /\ home'[q].tab = u
  <2> SUFFICES ASSUME NEW u \in Tab, NEW q \in layout'.panes[u]
               PROVE  q # leaving' /\ proc'[q] # "free" /\ home'[q].tab = u
    OBVIOUS
  <2>1. CASE q \in layout.panes[u]
    <3>1. q # leaving /\ proc[q] # "free" /\ home[q].tab = u /\ q \in Pane
      BY <1>5, <2>1 DEF Places
    <3> QED
      BY <1>1, <1>3, <3>1
  <2>2. CASE q \notin layout.panes[u]
    <3>1. q = p /\ u = t
      BY <1>5, <2>2
    <3> QED
      BY <1>3, <1>11, <3>1
  <2> QED
    BY <2>1, <2>2
<1>8. layout'.popup # None => proc'[layout'.popup] # "free" /\ home'[layout'.popup] = NoHome
  BY <1>1, <1>2, <1>3 DEF Places
<1>9. \A q \in Pane : proc'[q] # "free" =>
          \/ q \in {layout'.popup, leaving'}
          \/ /\ home'[q] # NoHome
             /\ home'[q].tab \in Elems(layout'.tabs[home'[q].session])
             /\ q \in layout'.panes[home'[q].tab]
  <2> SUFFICES ASSUME NEW q \in Pane, proc'[q] # "free", q # layout'.popup, q # leaving'
               PROVE  /\ home'[q] # NoHome
                      /\ home'[q].tab \in Elems(layout'.tabs[home'[q].session])
                      /\ q \in layout'.panes[home'[q].tab]
    OBVIOUS
  <2>1. CASE q = p
    BY <1>3, <1>4, <1>5, <1>6, <2>1
  <2>2. CASE q # p
    <3>1. home'[q] = home[q] /\ proc[q] # "free"
      BY <1>3, <2>2
    <3>2. /\ home[q] # NoHome /\ home[q].tab \in Elems(layout.tabs[home[q].session])
          /\ q \in layout.panes[home[q].tab]
      BY <3>1 DEF Places
    <3>3. home[q].session \in Session /\ home[q].tab \in Tab
      BY <3>2, HomeFacts
    <3> QED
      BY <1>5, <1>6, <3>1, <3>2, <3>3
  <2> QED
    BY <2>1, <2>2
<1>10. \A r \in Session : \A u \in Elems(layout'.tabs[r]) : layout'.panes[u] # {}
  <2> SUFFICES ASSUME NEW r \in Session, NEW u \in Elems(layout'.tabs[r]) PROVE layout'.panes[u] # {}
    OBVIOUS
  <2>1. u \in Elems(layout.tabs[r]) \cup {t} /\ u \in Tab
    BY <1>6
  <2>2. u # t => layout.panes[u] # {}
    BY <2>1 DEF Places
  <2> QED
    BY <1>5, <2>1, <2>2
<1>12. (leaving' # None => proc'[leaving'] = "exited") /\ (PopupLeaving' => layout'.popup = None)
  BY <1>3, <1>11, ConstantsAssumption DEF Places, PopupLeaving, NoHome
<1> QED
  BY <1>7, <1>8, <1>9, <1>10, <1>12 DEF Places, Elems, NoHome

\* The other panes stay when one is created: no exit event is that of a free address.
LEMMA ExitsSpawn ==
    ASSUME TypeOK, Exits, NEW p \in FreePanes, NEW s, NEW t, Spawn(p, s, t), events' = events,
           leaving' = leaving
    PROVE  Exits'
<1>1. \A q \in Pane : proc[q] = "exited" => proc'[q] = "exited" /\ home'[q] = home[q]
  BY DEF FreePanes, Spawn, TypeOK
<1> QED
  BY <1>1, ExitsStay DEF Exits

\* create_tab, create_session and add_pane.
LEMMA AddStep ==
    ASSUME PInv, CreateTab \/ CreateSession \/ AddPaneAction
    PROVE  Places' /\ Exits'
<1>1. TypeOK /\ Places /\ Exits /\ layout \in LayoutType /\ SessionsOK(layout)
  BY DEF PInv, IInv, TypeOK, OwnershipOK
<1>2. /\ layout.activeSession \in Session /\ ActiveTab \in Elems(layout.tabs[layout.activeSession])
      /\ ActiveTab \in Tab
  BY ActiveOK DEF PInv, IInv, CreateTab, CreateSession, AddPaneAction, KeyAction, LockFree
<1>3. events' = events /\ replacing' = replacing /\ leaving' = leaving
  BY DEF CreateTab, CreateSession, AddPaneAction
<1>4. CASE CreateTab
  <2>1. PICK t \in FreeTabs, p \in FreePanes :
           layout' = AddTab(layout, layout.activeSession, t, p, TRUE) /\ Spawn(p, layout.activeSession, t)
    BY <1>4 DEF CreateTab
  <2>2. t \in Tab /\ p \in Pane
    BY DEF FreeTabs, FreePanes
  <2>3. Added(layout, layout', layout.activeSession, t, p)
    BY <1>1, <1>2, <2>1, <2>2, AddTabOwners, Zenon
  <2> QED
    BY <1>1, <1>2, <1>3, <2>1, <2>2, <2>3, PlacesAdd, ExitsSpawn DEF Added
<1>5. CASE CreateSession
  <2>1. PICK s \in FreeSessions, t \in FreeTabs, p \in FreePanes :
           layout' = AddSession(layout, s, t, p, TRUE) /\ Spawn(p, s, t)
    BY <1>5 DEF CreateSession
  <2>2. s \in Session /\ t \in Tab /\ p \in Pane
    BY DEF FreeSessions, FreeTabs, FreePanes
  <2>3. Added(layout, layout', s, t, p)
    BY <1>1, <2>1, <2>2, AddSessionOwners, Zenon
  <2> QED
    BY <1>1, <1>3, <2>1, <2>2, <2>3, PlacesAdd, ExitsSpawn DEF Added
<1>6. CASE AddPaneAction
  <2> DEFINE s == layout.activeSession
             chosen == SetActiveSession(layout, s, TRUE)
  <2>1. PICK p \in FreePanes : layout' = AddPane(layout, s, ActiveTab, p) /\ Spawn(p, s, ActiveTab)
    BY <1>6 DEF AddPaneAction
  <2>2. p \in Pane
    BY DEF FreePanes
  <2>3. layout' = TabAddPane(chosen, ActiveTab, p)
    BY <2>1 DEF AddPane
  <2>4. chosen \in LayoutType /\ SameOwners(layout, chosen) /\ chosen.tabs = layout.tabs
    BY <1>1, <1>2, SetActiveSessionType, SetActiveSessionOwners
  <2> HIDE DEF chosen
  <2>5. /\ layout'.panes = [layout.panes EXCEPT ![ActiveTab] = @ \cup {p}]
        /\ layout'.popup = layout.popup /\ layout'.tabs = layout.tabs
    BY <1>2, <2>2, <2>3, <2>4, TabAddPaneOwners, TabAddPaneType DEF SameOwners, SameTree
  <2> QED
    BY <1>1, <1>2, <1>3, <2>1, <2>2, <2>5, PlacesAdd, ExitsSpawn
<1> QED
  BY <1>4, <1>5, <1>6

\* A method that moves no pane, called by a handler that touches neither panes nor events.
LEMMA QuietStep ==
    ASSUME TypeOK, Places, Exits, SameOwners(layout, layout'), layout'.tabs = layout.tabs,
           UNCHANGED <<events, proc, home, replacing, leaving>>
    PROVE  Places' /\ Exits'
BY PlacesStay, ExitsStay DEF Exits

\* Switching, focusing, resizing and failing to create a session move no pane.
LEMMA QuietActions ==
    ASSUME PInv, \/ CreateSessionFails \/ SwitchTab \/ SwitchSession \/ Navigate
                 \/ ToggleFullScreen \/ MousePress \/ PopupPress \/ RenderResize
    PROVE  Places' /\ Exits'
<1>1. TypeOK /\ Places /\ Exits /\ layout \in LayoutType /\ SessionsOK(layout)
  BY DEF PInv, IInv, TypeOK, OwnershipOK
<1>2. UNCHANGED <<events, proc, home, replacing, leaving>>
  BY DEF CreateSessionFails, SwitchTab, SwitchSession, Navigate, ToggleFullScreen, MousePress,
         PopupPress, RenderResize
<1>3. /\ layout.activeSession \in Session /\ ActiveTab \in Elems(layout.tabs[layout.activeSession])
      /\ ActiveTab \in Tab /\ layout.activeSession \in Elems(layout.sessions)
      /\ layout.sessions # <<>>
  BY ActiveOK DEF PInv, IInv, CreateSessionFails, SwitchTab, SwitchSession, Navigate,
     ToggleFullScreen, MousePress, PopupPress, RenderResize, RenderTurn, KeyAction, LockFree
<1>4. CASE CreateSessionFails
  <2>1. PICK s \in FreeSessions, t \in FreeTabs, p \in FreePanes :
           layout' = AddSession(layout, s, t, p, FALSE)
    BY <1>4 DEF CreateSessionFails
  <2>2. s \in Session /\ t \in Tab /\ p \in Pane
    BY DEF FreeSessions, FreeTabs, FreePanes
  <2>3. SameOwners(layout, layout') /\ layout'.tabs = layout.tabs
    BY <1>1, <2>1, <2>2, AddSessionOwners, Zenon
  <2> QED
    BY <1>1, <1>2, <2>3, QuietStep
<1>5. CASE SwitchTab
  <2>1. PICK t \in Elems(layout.tabs[layout.activeSession]) :
           layout' = SetActiveTab(layout, layout.activeSession, t, TRUE)
    BY <1>5 DEF SwitchTab
  <2>2. t \in Tab
    BY <1>1, <1>3, ElemsSubset DEF LayoutType
  <2> QED
    BY <1>1, <1>2, <1>3, <2>1, <2>2, SetActiveTabOwners, QuietStep
<1>6. CASE SwitchSession
  <2> DEFINE n == Len(layout.sessions)
             Step(d) == ((IndexOf(layout.sessions, layout.activeSession) - 1 + d) % n) + 1
  <2>1. PICK d \in {1, -1} : layout' = SetActiveSession(layout, layout.sessions[Step(d)], TRUE)
    BY <1>6 DEF SwitchSession
  <2>2. layout.sessions \in Seq(Session)
    BY <1>1 DEF LayoutType
  <2>3. n \in Nat \ {0} /\ IndexOf(layout.sessions, layout.activeSession) \in 1 .. n
    BY <1>3, <2>2, IndexOfType
  <2>4. Step(d) \in 1 .. n
    <3> HIDE DEF n
    <3>1. IndexOf(layout.sessions, layout.activeSession) - 1 + d \in Int
      BY <2>3
    <3>2. \A k \in Int : k % n \in 0 .. n - 1
      BY <2>3
    <3> QED
      BY <2>3, <3>1, <3>2, SMTT(30)
  <2> HIDE DEF Step
  <2>5. layout.sessions[Step(d)] \in Session
    BY <2>2, <2>4
  <2> QED
    BY <1>1, <1>2, <2>1, <2>5, SetActiveSessionOwners, QuietStep
<1>7. CASE Navigate \/ MousePress \/ PopupPress
  <2>1. layout.tree[ActiveTab] \subseteq Pane /\ layout.popup \in Pane \cup {None}
    BY <1>1, <1>3 DEF LayoutType
  <2>2. PICK p \in Pane \cup {None} : layout' = TabSetActive(layout, ActiveTab, p)
    BY <1>7, <2>1 DEF Navigate, MousePress, PopupPress
  <2>3. SameOwners(layout, layout') /\ SameTree(layout, layout')
    BY <1>1, <1>3, <2>2, TabSetActiveOwners, TabSetActiveType
  <2> QED
    BY <1>1, <1>2, <2>3, QuietStep DEF SameTree
<1>8. CASE ToggleFullScreen
  <2>1. PICK p \in Pane \cup {None} : layout' = TabSetFullScreen(layout, ActiveTab, p)
    BY <1>1, <1>3, <1>8 DEF ToggleFullScreen, LayoutType
  <2>2. SameOwners(layout, layout') /\ SameTree(layout, layout')
    BY <1>1, <1>3, <2>1, TabSetFullScreenOwners, TabSetFullScreenType
  <2> QED
    BY <1>1, <1>2, <2>2, QuietStep DEF SameTree
<1>9. CASE RenderResize
  <2>1. PICK size \in Sizes : layout' = Layout(layout, size)
    BY <1>9 DEF RenderResize
  <2>2. SameOwners(layout, layout') /\ SameTree(layout, layout')
    BY <1>1, <2>1, LayoutOwners, LayoutStructure
  <2> QED
    BY <1>1, <1>2, <2>2, QuietStep DEF SameTree
<1> QED
  BY <1>4, <1>5, <1>6, <1>7, <1>8, <1>9

\* The hooks of the popup only select.
LEMMA HookActionStep ==
    ASSUME PInv, HookExtraOutput \/ HookFinishOutput
    PROVE  Places' /\ Exits'
<1>1. TypeOK /\ Places /\ Exits /\ layout \in LayoutType /\ SessionsOK(layout)
  BY DEF PInv, IInv, TypeOK, OwnershipOK
<1>2. UNCHANGED <<events, proc, home, replacing, leaving>>
  BY DEF HookExtraOutput, HookFinishOutput
<1>3. ASSUME NEW s \in Elems(layout.sessions), NEW i, NEW focus \in BOOLEAN
      PROVE  /\ SameOwners(layout, HookSelect(s, i, focus))
             /\ HookSelect(s, i, focus).tabs = layout.tabs
  <2>1. CASE hook.kind = "find_tab" /\ i \in 1 .. Len(layout.tabs[s])
    <3>1. s \in Session
      BY <1>1, <1>3, ElemsSubset DEF LayoutType
    <3>2. layout.tabs[s][i] \in Tab
      BY <1>1, <2>1, <3>1 DEF LayoutType
    <3>3. HookSelect(s, i, focus) = SetActiveTab(layout, s, layout.tabs[s][i], focus)
      BY <2>1 DEF HookSelect
    <3> QED
      BY <1>1, <3>1, <3>2, <3>3, SetActiveTabOwners
  <2>2. CASE hook.kind = "find_session" /\ i \in 1 .. Len(layout.sessions)
    <3>1. layout.sessions[i] \in Session
      BY <1>1, <2>2 DEF LayoutType
    <3>2. HookSelect(s, i, focus) = SetActiveSession(layout, layout.sessions[i], focus)
      BY <2>2 DEF HookSelect
    <3> QED
      BY <1>1, <3>1, <3>2, SetActiveSessionOwners
  <2>3. CASE /\ ~(hook.kind = "find_tab" /\ i \in 1 .. Len(layout.tabs[s]))
             /\ ~(hook.kind = "find_session" /\ i \in 1 .. Len(layout.sessions))
    BY <2>3 DEF HookSelect, SameOwners
  <2> QED
    BY <2>1, <2>2, <2>3
<1>4. PICK i : \E s \in Elems(layout.sessions), focus \in BOOLEAN, outcome \in HookFaults :
         /\ fault' = outcome
         /\ layout' = IF outcome = "none" THEN HookSelect(s, i, focus) ELSE layout
  BY HookDoes
<1>5. SameOwners(layout, layout') /\ layout'.tabs = layout.tabs
  <2>1. PICK s \in Elems(layout.sessions), focus \in BOOLEAN, outcome \in HookFaults :
           layout' = IF outcome = "none" THEN HookSelect(s, i, focus) ELSE layout
    BY <1>4
  <2>2. CASE outcome = "none"
    BY <1>3, <2>1, <2>2
  <2>3. CASE outcome # "none"
    BY <2>1, <2>3 DEF SameOwners
  <2> QED
    BY <2>2, <2>3
<1> QED
  BY <1>1, <1>2, <1>5, QuietStep

\* r is st with the popup p, or none.
Shows(st, r, p) == r.panes = st.panes /\ r.popup = p /\ r.tabs = st.tabs

\* LayoutState::popup_pane and remove_popup.
LEMMA PopupOwners ==
    ASSUME NEW st \in LayoutType, NEW p \in Pane \cup {None}, NEW b \in BOOLEAN,
           NEW r, r = IF st.activeSession = None THEN [st EXCEPT !.popup = p]
                      ELSE SessionSetIsActive([st EXCEPT !.popup = p], st.activeSession, b)
    PROVE  Shows(st, r, p)
<1> DEFINE shown == [st EXCEPT !.popup = p]
<1>1. /\ shown \in LayoutType /\ st.activeSession \in Session \cup {None}
      /\ shown.panes = st.panes /\ shown.popup = p
  BY DEF LayoutType
<1>2. r.tabs = st.tabs
  BY PopupType DEF SameTree
<1> HIDE DEF shown
<1>3. r = IF st.activeSession = None THEN shown ELSE SessionSetIsActive(shown, st.activeSession, b)
  BY DEF shown
<1> QED
  BY <1>1, <1>2, <1>3, SessionSetIsActiveOwners DEF SameOwners, Shows

\* A popup opens in a free address: its home is nowhere.
LEMMA OpenPopupPlaces ==
    ASSUME PInv, OpenPopup
    PROVE  Places' /\ Exits'
<1>1. TypeOK /\ Places /\ Exits /\ layout \in LayoutType /\ layout.popup = None /\ ~PopupLeaving
  BY DEF PInv, IInv, TypeOK, OpenPopup, KeyAction, LockFree
<1>2. PICK p \in FreePanes : layout' = PopupPane(layout, p) /\ Spawn(p, None, None)
  BY DEF OpenPopup
<1>3. p \in Pane /\ proc[p] = "free" /\ p # None /\ None \notin Pane
  BY ConstantsAssumption DEF FreePanes
<1>4. layout'.panes = layout.panes /\ layout'.popup = p /\ layout'.tabs = layout.tabs
  <2>1. Shows(layout, PopupPane(layout, p), p)
    BY <1>1, <1>3, PopupOwners DEF PopupPane
  <2> QED
    BY <1>2, <2>1 DEF Shows
<1>5. /\ proc'[p] = "running" /\ home'[p] = NoHome
      /\ \A q \in Pane \ {p} : proc'[q] = proc[q] /\ home'[q] = home[q]
  BY <1>1, <1>2, <1>3 DEF Spawn, TypeOK, NoHome
<1>6. \A u \in Tab : layout.panes[u] \subseteq Pane
  BY <1>1 DEF LayoutType
<1>7. events' = events /\ replacing' = replacing /\ leaving' = leaving
  BY DEF OpenPopup
<1>13. p # leaving /\ leaving \in Pane \cup {None}
  BY <1>1, <1>3 DEF Places, TypeOK
<1>14. (leaving' # None => proc'[leaving'] = "exited") /\ ~PopupLeaving'
  BY <1>1, <1>5, <1>7, <1>13 DEF Places, PopupLeaving, NoHome
<1>8. \A u \in Tab : \A q \in layout'.panes[u] : q # leaving' /\ proc'[q] # "free" /\ home'[q].tab = u
  BY <1>1, <1>3, <1>4, <1>5, <1>6, <1>7 DEF Places
<1>9. layout'.popup # None => proc'[layout'.popup] # "free" /\ home'[layout'.popup] = NoHome
  BY <1>4, <1>5
<1>10. \A q \in Pane : proc'[q] # "free" =>
          \/ q \in {layout'.popup, leaving'}
          \/ /\ home'[q] # NoHome
             /\ home'[q].tab \in Elems(layout'.tabs[home'[q].session])
             /\ q \in layout'.panes[home'[q].tab]
  <2> SUFFICES ASSUME NEW q \in Pane, proc'[q] # "free", q # p, q # leaving'
               PROVE  /\ home'[q] # NoHome
                      /\ home'[q].tab \in Elems(layout'.tabs[home'[q].session])
                      /\ q \in layout'.panes[home'[q].tab]
    BY <1>4
  <2>1. proc[q] # "free" /\ home'[q] = home[q] /\ q # layout.popup
    BY <1>1, <1>3, <1>5
  <2> QED
    BY <1>1, <1>4, <1>7, <2>1 DEF Places
<1>11. \A s \in Session : \A t \in Elems(layout'.tabs[s]) : layout'.panes[t] # {}
  BY <1>1, <1>4 DEF Places
<1>12. Places'
  BY <1>1, <1>7, <1>8, <1>9, <1>10, <1>11, <1>14 DEF Places, Elems, NoHome
<1> QED
  BY <1>1, <1>2, <1>7, <1>12, ExitsSpawn

\* A press on the status bar is not an exit; a child exits once, with the event of its pane.
LEMMA EventPlaces ==
    ASSUME PInv, StatusBarPress \/ \E p \in Pane : ProcessExit(p)
    PROVE  Places' /\ Exits'
<1>1. TypeOK /\ Places /\ Exits
  BY DEF PInv, IInv
<1>2. layout' = layout /\ home' = home /\ replacing' = replacing /\ leaving' = leaving
  BY DEF StatusBarPress, ProcessExit
<1>3. SameOwners(layout, layout') /\ layout'.tabs = layout.tabs
  BY <1>2 DEF SameOwners
<1>4. CASE StatusBarPress
  <2>1. PICK i \in 1 .. Cardinality(Tab) : events' = Append(events, [type |-> "TabClick", index |-> i])
    BY <1>4 DEF StatusBarPress
  <2> DEFINE e == [type |-> "TabClick", index |-> i]
  <2>2. e \in Event /\ ~IsExit(e)
    <3>1. i \in Nat
      BY <2>1
    <3> QED
      BY <3>1 DEF Event, TabClickEvent, IsExit
  <2>3. proc' = proc
    BY <1>4 DEF StatusBarPress
  <2> HIDE DEF e
  <2>4. events' = Append(events, e)
    BY <2>1 DEF e
  <2>5. Exits'
    BY <1>1, <1>2, <2>2, <2>3, <2>4, ExitsAppend
  <2> QED
    BY <1>1, <1>2, <1>3, <2>3, <2>5, PlacesStay
<1>5. ASSUME NEW p \in Pane, ProcessExit(p)
      PROVE  Places' /\ Exits'
  <2> DEFINE e == ExitEvent(p)
  <2>1. /\ proc[p] = "running" /\ proc'[p] = "exited" /\ events' = Append(events, e)
        /\ \A q \in Pane \ {p} : proc'[q] = proc[q]
    BY <1>1, <1>5 DEF ProcessExit, TypeOK
  <2>7. p # leaving
    BY <1>1, <2>1, ConstantsAssumption DEF Places
  <2>2. e \in Event /\ IsExit(e)
    BY <1>1, ExitEventType, ExitEventFacts
  <2>3. e = ExitEvent(p)'
    BY <1>2 DEF ExitEvent
  <2>4. ASSUME NEW k \in 1 .. Len(events), events[k] = e
        PROVE  FALSE
    <3>1. IsExit(events[k])
      BY <2>2, <2>4
    <3>2. PICK q \in Pane : proc[q] = "exited" /\ q # leaving /\ events[k] = ExitEvent(q)
      BY <1>1, <3>1 DEF Exits, ExitsIn
    <3>3. q = p
      BY <1>1, <2>1, <2>7, <2>4, <3>2, ExitOfOne
    <3> QED
      BY <2>1, <3>2, <3>3
  <2>5. /\ \A q \in Pane : proc[q] = "exited" => proc'[q] = "exited" /\ home'[q] = home[q]
        /\ \A q \in Pane : (proc'[q] = "free" <=> proc[q] = "free") /\ home'[q] = home[q]
    BY <1>2, <2>1
  <2> HIDE DEF e
  <2>6. Exits'
    <3>1. \E q \in Pane : proc'[q] = "exited" /\ q # leaving /\ e = ExitEvent(q)'
      BY <2>1, <2>3, <2>7
    <3> QED
      BY <1>1, <1>2, <2>1, <2>2, <2>4, <2>5, <3>1, ExitsAppend
  <2> QED
    BY <1>1, <1>2, <1>3, <2>5, <2>6, PlacesStay
<1> QED
  BY <1>4, <1>5

\* The exit event at the head of the queue: its pane is where it was created, and no other
\* event is that pane's.
LEMMA HeadExit ==
    ASSUME PInv, events # <<>>, Head(events).type # "TabClick"
    PROVE  \E p \in Pane :
              /\ proc[p] = "exited" /\ p # leaving /\ Head(events) = ExitEvent(p)
              /\ ExitsIn(Tail(events))
              /\ \A k \in 1 .. Len(Tail(events)) : Tail(events)[k] # ExitEvent(p)
<1>1. TypeOK /\ Exits /\ events \in Seq(Event) /\ IsExit(Head(events))
  BY DEF PInv, IInv, TypeOK, IsExit
<1> QED
  BY <1>1, ExitsTail DEF Exits

\* The event of a pane is taken, and the pane leaves: the other exit events are still right.
LEMMA LeaveExits ==
    ASSUME NEW p \in Pane, events' = Tail(events), leaving' = p, UNCHANGED <<proc, home>>,
           ExitsIn(Tail(events)), \A k \in 1 .. Len(Tail(events)) : Tail(events)[k] # ExitEvent(p)
    PROVE  Exits'
<1>1. \A q \in Pane : (\E k \in 1 .. Len(Tail(events)) : Tail(events)[k] = ExitEvent(q)) => q # p
  OBVIOUS
<1> QED
  BY <1>1, ExitsStay

\* RemovePopup is that of the popup on the screen, whose pane leaves.
LEMMA RemovePopupPlaces ==
    ASSUME PInv, RenderRemovePopup
    PROVE  Places' /\ Exits'
<1>1. /\ TypeOK /\ Places /\ Exits /\ layout \in LayoutType
      /\ events # <<>> /\ Head(events).type = "RemovePopup" /\ leaving = None
  BY DEF PInv, IInv, TypeOK, RenderRemovePopup, RenderTurn
<1>2. PICK p \in Pane :
         /\ proc[p] = "exited" /\ p # leaving /\ Head(events) = ExitEvent(p) /\ ExitsIn(Tail(events))
         /\ \A k \in 1 .. Len(Tail(events)) : Tail(events)[k] # ExitEvent(p)
  BY <1>1, HeadExit
<1>3. p = layout.popup /\ home[p] = NoHome /\ p # None
  BY <1>1, <1>2, ExitEventFacts, ConstantsAssumption DEF Places
<1>4. leaving' = p /\ events' = Tail(events) /\ UNCHANGED <<proc, home, replacing>>
  BY <1>3 DEF RenderRemovePopup
<1>5. Exits'
  BY <1>2, <1>4, LeaveExits
<1> DEFINE hidden == RemovePopup(layout)
           f == hidden.focused \ {layout.popup}
<1>6. layout' = [hidden EXCEPT !.focused = f]
  BY <1>3 DEF RenderRemovePopup
<1>7. hidden \in LayoutType /\ hidden.panes = layout.panes /\ hidden.popup = None /\ hidden.tabs = layout.tabs
  <2>1. Shows(layout, RemovePopup(layout), None) /\ RemovePopup(layout) \in LayoutType
    BY <1>1, PopupOwners, PopupType DEF RemovePopup
  <2> QED
    BY <2>1 DEF Shows
<1> HIDE DEF hidden, f
<1>8. layout'.panes = layout.panes /\ layout'.popup = None /\ layout'.tabs = layout.tabs
  BY <1>6, <1>7 DEF LayoutType
<1>9. \A u \in Tab : \A q \in layout'.panes[u] : q # leaving' /\ proc'[q] # "free" /\ home'[q].tab = u
  <2> SUFFICES ASSUME NEW u \in Tab, NEW q \in layout.panes[u]
               PROVE  q # p /\ proc[q] # "free" /\ home[q].tab = u
    BY <1>4, <1>8
  <2>1. q \in Pane /\ proc[q] # "free" /\ home[q].tab = u
    BY <1>1 DEF Places, LayoutType
  <2>2. q # p
    BY <1>1, <1>3, <2>1, HomeFacts, ConstantsAssumption
  <2> QED
    BY <2>1, <2>2
<1>10. \A q \in Pane : proc'[q] # "free" =>
          \/ q \in {layout'.popup, leaving'}
          \/ /\ home'[q] # NoHome
             /\ home'[q].tab \in Elems(layout'.tabs[home'[q].session])
             /\ q \in layout'.panes[home'[q].tab]
  BY <1>1, <1>3, <1>4, <1>8, ConstantsAssumption DEF Places
<1>11. \A s \in Session : \A t \in Elems(layout'.tabs[s]) : layout'.panes[t] # {}
  BY <1>1, <1>8 DEF Places
<1>12. (leaving' # None => proc'[leaving'] = "exited") /\ (PopupLeaving' => layout'.popup = None)
  BY <1>2, <1>4, <1>8
<1>13. Places'
  BY <1>1, <1>4, <1>8, <1>9, <1>10, <1>11, <1>12 DEF Places, Elems, NoHome
<1> QED
  BY <1>5, <1>13

\* The render thread leaves ~Pane: the pane is freed, and nobody else is.
LEMMA FreedPlaces ==
    ASSUME PInv, RenderPaneFreed \/ RenderPopupFreed
    PROVE  Places' /\ Exits'
<1>1. TypeOK /\ Places /\ Exits /\ layout \in LayoutType /\ leaving \in Pane
  BY DEF PInv, IInv, TypeOK, RenderPaneFreed, RenderPopupFreed, PopupLeaving
<1>2. /\ leaving' = None /\ events' = events /\ UNCHANGED <<layout, replacing>>
      /\ proc'[leaving] = "free" /\ home'[leaving] = NoHome
      /\ \A q \in Pane \ {leaving} : proc'[q] = proc[q] /\ home'[q] = home[q]
  BY <1>1 DEF RenderPaneFreed, RenderPopupFreed, Destroy, TypeOK
<1>3. Exits'
  BY <1>1, <1>2, ExitsStay, ConstantsAssumption DEF Exits
<1>4. layout.popup # leaving
  BY <1>1, ConstantsAssumption DEF Places, PopupLeaving
<1>5. \A u \in Tab : \A q \in layout'.panes[u] : q # leaving' /\ proc'[q] # "free" /\ home'[q].tab = u
  <2> SUFFICES ASSUME NEW u \in Tab, NEW q \in layout.panes[u]
               PROVE  q # None /\ proc'[q] # "free" /\ home'[q].tab = u
    BY <1>2
  <2>1. q \in Pane /\ q # leaving /\ proc[q] # "free" /\ home[q].tab = u
    BY <1>1 DEF Places, LayoutType
  <2> QED
    BY <1>2, <2>1, ConstantsAssumption
<1>6. layout'.popup # None => proc'[layout'.popup] # "free" /\ home'[layout'.popup] = NoHome
  BY <1>1, <1>2, <1>4 DEF Places, LayoutType
<1>7. \A q \in Pane : proc'[q] # "free" =>
          \/ q \in {layout'.popup, leaving'}
          \/ /\ home'[q] # NoHome
             /\ home'[q].tab \in Elems(layout'.tabs[home'[q].session])
             /\ q \in layout'.panes[home'[q].tab]
  <2> SUFFICES ASSUME NEW q \in Pane, proc'[q] # "free", q # layout.popup
               PROVE  /\ home'[q] # NoHome
                      /\ home'[q].tab \in Elems(layout.tabs[home'[q].session])
                      /\ q \in layout.panes[home'[q].tab]
    BY <1>2
  <2>1. q # leaving
    BY <1>2
  <2>2. proc[q] # "free" /\ home'[q] = home[q]
    BY <1>2, <2>1
  <2> QED
    BY <1>1, <2>1, <2>2 DEF Places
<1> QED
  BY <1>1, <1>2, <1>3, <1>5, <1>6, <1>7 DEF Places, PopupLeaving, Elems, NoHome

\* A click only selects, and leaves the exits that wait behind it.
LEMMA TabClickPlaces ==
    ASSUME PInv, RenderTabClick
    PROVE  Places' /\ Exits'
<1> DEFINE s == layout.activeSession
           i == Head(events).index
<1>1. /\ TypeOK /\ Places /\ Exits /\ layout \in LayoutType
      /\ events \in Seq(Event) /\ events # <<>> /\ s \in Session
  BY ActiveOK DEF PInv, IInv, TypeOK, RenderTabClick, RenderTurn, LockFree
<1>2. UNCHANGED <<proc, home, replacing, leaving>> /\ events' = Tail(events)
  BY DEF RenderTabClick
<1>3. layout' = IF i \in 1 .. Len(layout.tabs[s])
                THEN SetActiveTab(layout, s, layout.tabs[s][i], TRUE) ELSE layout
  BY DEF RenderTabClick
<1>4. SameOwners(layout, layout') /\ layout'.tabs = layout.tabs
  <2>1. CASE i \in 1 .. Len(layout.tabs[s])
    <3>1. layout.tabs[s][i] \in Tab
      BY <1>1, <2>1 DEF LayoutType
    <3> QED
      BY <1>1, <1>3, <2>1, <3>1, SetActiveTabOwners
  <2>2. CASE i \notin 1 .. Len(layout.tabs[s])
    BY <1>3, <2>2 DEF SameOwners
  <2> QED
    BY <2>1, <2>2
<1>5. ExitsIn(Tail(events))
  BY <1>1, ExitsTail DEF Exits
<1> QED
  BY <1>1, <1>2, <1>4, <1>5, PlacesStay, ExitsStay

\* PaneExited is that of a pane of a tab of a session that is listed.  The pane leaves, and its tab
\* is freed when it was the last one.
LEMMA PaneExitedPlaces ==
    ASSUME PInv, RenderPaneExited
    PROVE  Places' /\ Exits'
<1> DEFINE ev == Head(events)
           unlisted == RemovePane(layout, ev.session, ev.tab, ev.pane)
<1>1. /\ TypeOK /\ Places /\ Exits /\ layout \in LayoutType /\ SessionsOK(layout)
      /\ events # <<>> /\ ev.type = "PaneExited" /\ leaving = None
  BY DEF PInv, IInv, TypeOK, OwnershipOK, RenderPaneExited, RenderTurn
<1>2. PICK p \in Pane :
         /\ proc[p] = "exited" /\ p # leaving /\ ev = ExitEvent(p) /\ ExitsIn(Tail(events))
         /\ \A k \in 1 .. Len(Tail(events)) : Tail(events)[k] # ExitEvent(p)
  BY <1>1, HeadExit
<1> DEFINE s == home[p].session
           t == home[p].tab
<1>3. /\ home[p] # NoHome /\ ev.pane = p /\ ev.session = s /\ ev.tab = t
      /\ s \in Session /\ t \in Tab
  BY <1>1, <1>2, ExitEventFacts, HomeFacts
<1>4. p # layout.popup
  BY <1>1, <1>3, ConstantsAssumption DEF Places
<1>5. t \in Elems(layout.tabs[s]) /\ p \in layout.panes[t]
  BY <1>1, <1>2, <1>4 DEF Places
<1>6. s \in Elems(layout.sessions)
  BY <1>1, <1>3, <1>5, EmptyElems DEF SessionsOK
<1>7. t \in LiveTabs
  BY <1>5, <1>6 DEF LiveTabs
<1>8. /\ layout' = [unlisted EXCEPT !.focused = IF ev.pane \in layout.panes[ev.tab] THEN @ \ {ev.pane} ELSE @]
      /\ leaving' = p /\ events' = Tail(events) /\ UNCHANGED <<proc, home, replacing>>
  BY <1>3, <1>5, <1>6, <1>7 DEF RenderPaneExited
<1>9. unlisted = RemovePane(layout, s, t, p)
  BY <1>3
<1> HIDE DEF ev
<1>10. Exits'
  BY <1>2, <1>8, LeaveExits
<1>11. unlisted \in LayoutType
  BY <1>1, <1>3, <1>6, <1>9, RemovePaneOK
<1> HIDE DEF unlisted, s, t
<1>12. Removed(layout, unlisted, s, t, p)
  BY <1>1, <1>5, <1>6, <1>9, RemovePaneOwners
<1>13. /\ layout'.panes = [layout.panes EXCEPT ![t] = @ \ {p}]
       /\ layout'.popup = layout.popup /\ layout'.tabs = unlisted.tabs
  BY <1>8, <1>11, <1>12 DEF LayoutType, Removed
<1>14. /\ layout.panes \in [Tab -> SUBSET Pane] /\ layout.tabs \in [Session -> Seq(Tab)]
       /\ layout.popup \in Pane \cup {None}
  BY <1>1 DEF LayoutType
<1>15. /\ layout'.panes[t] = layout.panes[t] \ {p}
       /\ \A u \in Tab \ {t} : layout'.panes[u] = layout.panes[u]
  BY <1>3, <1>13, <1>14
<1>16. \A r \in Session : Elems(layout.tabs[r]) \subseteq Tab
  BY <1>14, ElemsSubset
\* The lists lose the tab if it was left without a pane, and nothing else.
<1>17. /\ \A r \in Session : Elems(layout'.tabs[r]) \subseteq Elems(layout.tabs[r])
       /\ \A r \in Session : Elems(layout.tabs[r]) \ {t} \subseteq Elems(layout'.tabs[r])
       /\ layout.panes[t] \ {p} # {} => layout'.tabs = layout.tabs
       /\ layout.panes[t] \ {p} = {} => \A r \in Session : t \notin Elems(layout'.tabs[r])
  <2>1. CASE layout.panes[t] \ {p} = {}
    <3>1. layout'.tabs = [layout.tabs EXCEPT ![s] = Without(@, t)]
      BY <1>12, <1>13, <2>1 DEF Removed
    <3>2. layout.tabs[s] \in Seq(Tab) /\ Injective(layout.tabs[s])
      BY <1>1, <1>3, <1>14 DEF SessionsOK
    <3>3. Elems(Without(layout.tabs[s], t)) = Elems(layout.tabs[s]) \ {t}
      BY <3>2, WithoutElems
    <3>4. Elems(layout'.tabs[s]) = Elems(layout.tabs[s]) \ {t}
      BY <1>3, <1>14, <3>1, <3>3
    <3>5. \A r \in Session \ {s} : layout'.tabs[r] = layout.tabs[r]
      BY <1>3, <1>14, <3>1
    <3>6. \A r \in Session \ {s} : t \notin Elems(layout.tabs[r])
      BY <1>1, <1>3, <1>5 DEF SessionsOK
    <3> QED
      BY <2>1, <3>4, <3>5, <3>6
  <2>2. CASE layout.panes[t] \ {p} # {}
    BY <1>12, <1>13, <2>2 DEF Removed
  <2> QED
    BY <2>1, <2>2
<1>18. \A u \in Tab : \A q \in layout'.panes[u] : q # leaving' /\ proc'[q] # "free" /\ home'[q].tab = u
  <2> SUFFICES ASSUME NEW u \in Tab, NEW q \in layout'.panes[u]
               PROVE  q # p /\ proc[q] # "free" /\ home[q].tab = u
    BY <1>8
  <2>1. q \in layout.panes[u] /\ (u = t => q # p)
    BY <1>15
  <2>2. q \in Pane /\ proc[q] # "free" /\ home[q].tab = u
    BY <1>1, <1>14, <2>1 DEF Places
  <2>3. q # p
    BY <2>1, <2>2 DEF t
  <2> QED
    BY <2>2, <2>3
<1>19. layout'.popup # None => proc'[layout'.popup] # "free" /\ home'[layout'.popup] = NoHome
  BY <1>1, <1>8, <1>13, <1>14 DEF Places
<1>20. \A q \in Pane : proc'[q] # "free" =>
          \/ q \in {layout'.popup, leaving'}
          \/ /\ home'[q] # NoHome
             /\ home'[q].tab \in Elems(layout'.tabs[home'[q].session])
             /\ q \in layout'.panes[home'[q].tab]
  <2> SUFFICES ASSUME NEW q \in Pane, proc'[q] # "free", q # layout'.popup, q # leaving'
               PROVE  /\ home'[q] # NoHome
                      /\ home'[q].tab \in Elems(layout'.tabs[home'[q].session])
                      /\ q \in layout'.panes[home'[q].tab]
    OBVIOUS
  <2>1. q # p /\ home'[q] = home[q] /\ proc[q] # "free" /\ q # layout.popup /\ q # leaving
    BY <1>1, <1>8, <1>13, ConstantsAssumption
  <2>2. /\ home[q] # NoHome /\ home[q].tab \in Elems(layout.tabs[home[q].session])
        /\ q \in layout.panes[home[q].tab]
    BY <1>1, <2>1 DEF Places
  <2>3. home[q].session \in Session /\ home[q].tab \in Tab
    BY <1>1, <2>2, HomeFacts
  <2>4. q \in layout'.panes[home[q].tab]
    BY <1>15, <2>1, <2>2, <2>3
  <2>5. home[q].tab \in Elems(layout'.tabs[home[q].session])
    BY <1>17, <2>1, <2>2, <2>3
  <2> QED
    BY <2>1, <2>2, <2>4, <2>5
<1>21. \A r \in Session : \A u \in Elems(layout'.tabs[r]) : layout'.panes[u] # {}
  <2> SUFFICES ASSUME NEW r \in Session, NEW u \in Elems(layout'.tabs[r]) PROVE layout'.panes[u] # {}
    OBVIOUS
  <2>1. u \in Elems(layout.tabs[r]) /\ u \in Tab
    BY <1>16, <1>17
  <2>2. layout.panes[u] # {}
    BY <1>1, <2>1 DEF Places
  <2> QED
    BY <1>15, <1>17, <2>1, <2>2
<1>23. (leaving' # None => proc'[leaving'] = "exited") /\ ~PopupLeaving'
  BY <1>2, <1>3, <1>8 DEF PopupLeaving, NoHome
<1>22. Places'
  BY <1>1, <1>8, <1>23, <1>18, <1>19, <1>20, <1>21 DEF Places, Elems, NoHome
<1> QED
  BY <1>10, <1>22

\* The first pane is in the first tab of the first session.
LEMMA InitPInv == Init => PInv
<1> SUFFICES ASSUME Init PROVE PInv
  OBVIOUS
<1>1. IInv
  BY InitIInv
<1>2. PICK s \in Session, t \in Tab, p \in Pane, size \in Sizes :
         /\ layout = AddSession(EmptyLayout(size), s, t, p, TRUE)
         /\ proc = [q \in Pane |-> IF q = p THEN "running" ELSE "free"]
         /\ home = [q \in Pane |-> IF q = p THEN [session |-> s, tab |-> t] ELSE NoHome]
  BY DEF Init
<1> DEFINE st == EmptyLayout(size)
<1>3. /\ st \in LayoutType /\ st.panes = [u \in Tab |-> {}] /\ st.popup = None
      /\ st.tabs = [r \in Session |-> <<>>]
  BY InitialLayoutOK DEF EmptyLayout
<1> HIDE DEF st
<1>4. Added(st, layout, s, t, p)
  <2>1. layout = AddSession(st, s, t, p, TRUE)
    BY <1>2 DEF st
  <2> QED
    BY <1>3, <2>1, AddSessionOwners, Zenon
<1>5. /\ layout.panes[t] = {p} /\ layout.popup = None
      /\ \A u \in Tab \ {t} : layout.panes[u] = {}
  BY <1>3, <1>4 DEF Added
<1>6. /\ Elems(layout.tabs[s]) = {t}
      /\ \A r \in Session \ {s} : Elems(layout.tabs[r]) = {}
  <2>1. layout.tabs[s] = Append(<<>>, t) /\ \A r \in Session \ {s} : layout.tabs[r] = <<>>
    BY <1>3, <1>4 DEF Added
  <2>2. Elems(Append(<<>>, t)) = {t}
    BY DEF Elems
  <2> QED
    BY <2>1, <2>2, EmptyElems
<1>7. /\ proc[p] = "running" /\ home[p].session = s /\ home[p].tab = t
      /\ \A q \in Pane \ {p} : proc[q] = "free"
  BY <1>2
<1>8. home[p] # NoHome
  BY <1>1, <1>7, HomeFacts, ConstantsAssumption DEF IInv
<1>9. replacing = None /\ leaving = None /\ events = <<>>
  BY DEF Init
<1>10. Places
  BY <1>5, <1>6, <1>7, <1>8, <1>9, ConstantsAssumption DEF Places, PopupLeaving
<1>11. Exits
  BY <1>9 DEF Exits, ExitsIn
<1> QED
  BY <1>1, <1>10, <1>11 DEF PInv

\* The inductive step.  hard_reset is left out: it frees a pane whose exit event still waits.
LEMMA NextPInv ==
    ASSUME HardResetBound = FALSE
    PROVE  PInv /\ [Next]_vars => PInv'
<1> SUFFICES ASSUME PInv, [Next]_vars PROVE PInv'
  OBVIOUS
<1>1. IInv'
  BY NextIInv DEF PInv
<1>2. CASE KeyActions
  <2>1. ~HardReset
    BY DEF HardReset
  <2>2. ~HardResetEnd
    BY DEF HardResetEnd, PInv, Places
  <2> QED
    BY <1>1, <1>2, <2>1, <2>2, AddStep, QuietActions, OpenPopupPlaces DEF KeyActions, PInv
<1>3. CASE MouseActions
  BY <1>1, <1>3, QuietActions, EventPlaces DEF MouseActions, PInv
<1>4. CASE HookActions
  BY <1>1, <1>4, HookActionStep DEF HookActions, PInv
<1>5. CASE RenderActions
  BY <1>1, <1>5, PaneExitedPlaces, RemovePopupPlaces, FreedPlaces, TabClickPlaces, QuietActions
  DEF RenderActions, PInv
<1>6. CASE \E p \in Pane : ProcessExit(p)
  BY <1>1, <1>6, EventPlaces DEF PInv
<1>7. CASE UNCHANGED vars
  BY <1>1, <1>7 DEF vars, PInv, Places, PopupLeaving, Exits, ExitsIn, IsExit, ExitEvent, Elems, NoHome
<1> QED
  BY <1>2, <1>3, <1>4, <1>5, <1>6, <1>7 DEF Next

-----------------------------------------------------------------------------
(* What follows *)

\* Where the panes are.
LEMMA PlacesGivesOwned == PInv => PanesOwned
<1> SUFFICES ASSUME PInv PROVE PanesOwned
  OBVIOUS
<1>1. /\ TypeOK /\ Places /\ layout \in LayoutType /\ SessionsOK(layout)
  BY DEF PInv, IInv, TypeOK, OwnershipOK
<1>2. \A s \in Elems(layout.sessions) : s \in Session
  BY <1>1, ElemsSubset DEF LayoutType
<1>3. \A t \in LiveTabs : t \in Tab /\ layout.panes[t] # {}
  <2> SUFFICES ASSUME NEW s \in Elems(layout.sessions), NEW t \in Elems(layout.tabs[s])
               PROVE  t \in Tab /\ layout.panes[t] # {}
    BY DEF LiveTabs
  <2>1. layout.tabs[s] \in Seq(Tab)
    BY <1>1, <1>2 DEF LayoutType
  <2> QED
    BY <1>1, <1>2, <2>1, ElemsSubset DEF Places
<1>4. \A t, u \in Tab : t # u => layout.panes[t] \cap layout.panes[u] = {}
  BY <1>1 DEF Places
<1>5. ASSUME NEW p \in Pane, proc[p] # "free", p # layout.popup, p # leaving
      PROVE  \E t \in LiveTabs : p \in layout.panes[t]
  <2>1. home[p] # NoHome /\ home[p].tab \in Elems(layout.tabs[home[p].session]) /\ p \in layout.panes[home[p].tab]
    BY <1>1, <1>5 DEF Places
  <2>2. home[p].session \in Session
    BY <1>1, <2>1, HomeFacts
  <2>3. home[p].session \in Elems(layout.sessions)
    BY <1>1, <2>1, <2>2, EmptyElems DEF SessionsOK
  <2> QED
    BY <2>1, <2>3 DEF LiveTabs
<1>6. ASSUME NEW p \in Pane, p \in {layout.popup, replacing, leaving} \cup UNION {layout.panes[t] : t \in LiveTabs}
      PROVE  proc[p] # "free"
  BY <1>1, <1>3, <1>6, ConstantsAssumption DEF Places
<1> QED
  BY <1>3, <1>4, <1>5, <1>6 DEF PanesOwned

\* What PaneExited events point to.
LEMMA ExitsGivesLive == PInv => EventsLive
<1> SUFFICES ASSUME PInv PROVE EventsLive
  OBVIOUS
<1>1. TypeOK /\ Places /\ Exits /\ layout \in LayoutType /\ SessionsOK(layout)
  BY DEF PInv, IInv, TypeOK, OwnershipOK
<1>2. ASSUME NEW k \in 1 .. Len(events), events[k].type = "PaneExited"
      PROVE  /\ events[k].session \in LiveSessions
             /\ events[k].tab \in Elems(layout.tabs[events[k].session])
             /\ events[k].pane \in layout.panes[events[k].tab]
             /\ proc[events[k].pane] = "exited"
  <2>1. PICK p \in Pane : proc[p] = "exited" /\ p # leaving /\ events[k] = ExitEvent(p)
    BY <1>1, <1>2 DEF Exits, ExitsIn, IsExit
  <2>2. /\ home[p] # NoHome /\ events[k].pane = p
        /\ events[k].session = home[p].session /\ events[k].tab = home[p].tab
    BY <1>1, <1>2, <2>1, ExitEventFacts
  <2>3. home[p].session \in Session /\ home[p].tab \in Tab
    BY <1>1, <2>2, HomeFacts
  <2>4. p # layout.popup
    BY <1>1, <2>2, ConstantsAssumption DEF Places
  <2>5. home[p].tab \in Elems(layout.tabs[home[p].session]) /\ p \in layout.panes[home[p].tab]
    BY <1>1, <2>1, <2>4 DEF Places
  <2>6. home[p].session \in Elems(layout.sessions)
    BY <1>1, <2>3, <2>5, EmptyElems DEF SessionsOK
  <2> QED
    BY <2>1, <2>2, <2>5, <2>6 DEF LiveSessions
<1>3. \A j, k \in 1 .. Len(events) : events[j].type = "PaneExited" /\ events[j] = events[k] => j = k
  BY <1>1 DEF Exits, ExitsIn, IsExit
<1> QED
  BY <1>2, <1>3 DEF EventsLive

\* RemovePopup has no pointer to compare: there is one at most, and the popup is there.
LEMMA ExitsGivesPopup == PInv => PopupOK
<1> SUFFICES ASSUME PInv PROVE PopupOK
  OBVIOUS
<1>1. TypeOK /\ Places /\ Exits /\ layout \in LayoutType
  BY DEF PInv, IInv, TypeOK
<1>2. ASSUME NEW k \in 1 .. Len(events), events[k].type = "RemovePopup"
      PROVE  /\ layout.popup # None /\ proc[layout.popup] = "exited"
             /\ events[k] = [type |-> "RemovePopup"]
  <2>1. PICK p \in Pane : proc[p] = "exited" /\ p # leaving /\ events[k] = ExitEvent(p)
    BY <1>1, <1>2 DEF Exits, ExitsIn, IsExit
  <2>2. home[p] = NoHome
    BY <1>1, <1>2, <2>1, ExitEventFacts
  <2>3. events[k] = [type |-> "RemovePopup"]
    BY <1>1, <2>1, <2>2, HomeFacts DEF ExitEvent
  <2>4. p = layout.popup
    BY <1>1, <2>1, <2>2 DEF Places
  <2> QED
    BY <2>1, <2>3, <2>4, ConstantsAssumption
<1>3. ASSUME NEW j \in 1 .. Len(events), NEW k \in 1 .. Len(events),
             events[j].type = "RemovePopup", events[k].type = "RemovePopup"
      PROVE  j = k
  <2>1. events[j] = events[k] /\ IsExit(events[k])
    BY <1>2, <1>3 DEF IsExit
  <2> QED
    BY <1>1, <2>1 DEF Exits, ExitsIn
<1>4. layout.popup # None => proc[layout.popup] # "free"
  BY <1>1 DEF Places
<1>5. ASSUME layout.popup # None, NEW t \in Tab, layout.popup \in layout.panes[t]
      PROVE  FALSE
  <2>1. home[layout.popup].tab = t /\ home[layout.popup] = NoHome
    BY <1>1, <1>5 DEF Places
  <2> QED
    BY <2>1, ConstantsAssumption DEF NoHome
<1> QED
  BY <1>2, <1>3, <1>4, <1>5 DEF PopupOK

\* Every pane whose address is in use is the popup or in exactly one tab, no tab is left without
\* a pane, and nothing that is owned has been freed, whoever creates, closes and selects panes
\* meanwhile (layout_state.cpp:71-158, session.cpp:22-100, tab.cpp:40-83).  During a hard reset
\* one pane more is in use, and PaneExited of the old one outlives it: TLC checks that case.
THEOREM Owned == HardResetBound = FALSE => (Spec => []PanesOwned)
<1> SUFFICES ASSUME HardResetBound = FALSE PROVE Spec => []PanesOwned
  OBVIOUS
<1>1. PInv /\ [Next]_vars => PInv'
  BY NextPInv
<1> QED
  BY <1>1, InitPInv, PlacesGivesOwned, PTL DEF Spec

\* The render thread uses the pointers of a PaneExited event unchecked (render.cpp:96-104): what
\* they point to is alive, and no exit waits twice.  A hard reset breaks this (tab.cpp:111), so
\* the theorem is about a configuration without it.
THEOREM ExitsOfTheLiving == HardResetBound = FALSE => (Spec => []EventsLive)
<1> SUFFICES ASSUME HardResetBound = FALSE PROVE Spec => []EventsLive
  OBVIOUS
<1>1. PInv /\ [Next]_vars => PInv'
  BY NextPInv
<1> QED
  BY <1>1, InitPInv, ExitsGivesLive, PTL DEF Spec

\* RemovePopup removes whichever popup there is (render.cpp:105-108): it is the one whose child
\* has exited, because the exit of an earlier popup never waits when a popup is opened.  Proved for a
\* configuration without hard_reset, as the argument goes by where panes were created (Places).
THEOREM PopupsOwnExit == HardResetBound = FALSE => (Spec => []PopupOK)
<1> SUFFICES ASSUME HardResetBound = FALSE PROVE Spec => []PopupOK
  OBVIOUS
<1>1. PInv /\ [Next]_vars => PInv'
  BY NextPInv
<1> QED
  BY <1>1, InitPInv, ExitsGivesPopup, PTL DEF Spec

-----------------------------------------------------------------------------
(***************************************************************************)
(* 2. In every tab the list of recency is that of its panes, and the tab   *)
(* on the screen is laid out with its panes at the current size.           *)
(*                                                                         *)
(* The argument.  A tab that is not on the screen may be out of date in    *)
(* any way, because every method that brings one there lays it out again.  *)
(* The pane that the mouse or navigation selects is taken from the layout  *)
(* tree, so that the list of recency depends on what is drawn.             *)
(***************************************************************************)

(* The inductive invariant *)

Listed(st) == \A t \in Tab : TabRecencyOK(st, t)

Visible(st, t) == IF st.fullScreen[t] = None THEN st.panes[t] ELSE {st.fullScreen[t]}

\* Tab t has been laid out, at a size, since its panes changed.
TabDrawn(st, t, size) == st.tabSize[t] = size /\ st.tree[t] = Visible(st, t)

SessionDrawn(st, s) == st.activeTab[s] # None => TabDrawn(st, st.activeTab[s], st.sessionSize[s])

Drawn(st) ==
    st.activeSession # None => /\ st.sessionSize[st.activeSession] = st.size
                               /\ SessionDrawn(st, st.activeSession)

SInv == PInv /\ Listed(layout) /\ Drawn(layout)

-----------------------------------------------------------------------------
(* What the methods that focus and lay out leave alone *)

SameLists(st, r) ==
    r.panes = st.panes /\ r.recency = st.recency /\ r.active = st.active /\ r.fullScreen = st.fullScreen

SameScreen(st, r) ==
    r.size = st.size /\ r.sessionSize = st.sessionSize /\ r.tabSize = st.tabSize /\ r.tree = st.tree

\* r is st with session s laid out at a size.
LaidOut(st, r, s, size) ==
    /\ r.size = st.size
    /\ r.sessionSize = [st.sessionSize EXCEPT ![s] = size]
    /\ \A u \in Tab : IF u = st.activeTab[s] THEN TabDrawn(r, u, size)
                      ELSE r.tabSize[u] = st.tabSize[u] /\ r.tree[u] = st.tree[u]

\* The lists and the screen depend on nothing else.
LEMMA SameListed ==
    ASSUME NEW st, NEW r, SameLists(st, r), Listed(st)
    PROVE  Listed(r)
BY DEF SameLists, Listed, TabRecencyOK

LEMMA SameDrawn ==
    ASSUME NEW st, NEW r, SameLists(st, r), SameScreen(st, r), SameTree(st, r), Drawn(st)
    PROVE  Drawn(r)
BY DEF SameLists, SameScreen, SameTree, Drawn, SessionDrawn, TabDrawn, Visible

\* Tab::layout.
LEMMA TabLayoutScreen ==
    ASSUME NEW st \in LayoutType, NEW t \in Tab, NEW size
    PROVE  /\ SameLists(st, TabLayout(st, t, size))
           /\ TabLayout(st, t, size).size = st.size
           /\ TabLayout(st, t, size).sessionSize = st.sessionSize
           /\ TabLayout(st, t, size).tabSize = [st.tabSize EXCEPT ![t] = size]
           /\ TabLayout(st, t, size).tree = [st.tree EXCEPT ![t] = Visible(st, t)]
BY DEF TabLayout, LayoutType, SameLists, Visible

\* Tab::set_is_active.
LEMMA TabSetIsActiveScreen ==
    ASSUME NEW st \in LayoutType, NEW t \in Tab, NEW b \in BOOLEAN
    PROVE  SameLists(st, TabSetIsActive(st, t, b)) /\ SameScreen(st, TabSetIsActive(st, t, b))
BY DEF TabSetIsActive, LayoutType, SameLists, SameScreen, NonNull

\* Session::layout.
LEMMA SessionLayoutScreen ==
    ASSUME NEW st \in LayoutType, NEW s \in Session, NEW size \in Sizes \cup {None}
    PROVE  /\ SameLists(st, SessionLayout(st, s, size))
           /\ LaidOut(st, SessionLayout(st, s, size), s, size)
<1> DEFINE sized == [st EXCEPT !.sessionSize[s] = size]
           t == st.activeTab[s]
           r == TabLayout(sized, t, size)
<1>1. /\ sized \in LayoutType /\ SameLists(st, sized) /\ t \in Tab \cup {None}
      /\ sized.size = st.size /\ sized.sessionSize = [st.sessionSize EXCEPT ![s] = size]
      /\ sized.tabSize = st.tabSize /\ sized.tree = st.tree
  BY DEF LayoutType, SameLists
<1>2. SessionLayout(st, s, size) = IF t = None THEN sized ELSE r
  BY DEF SessionLayout
<1> HIDE DEF sized, t
<1>3. CASE t = None
  <2>1. LaidOut(st, sized, s, size)
    BY <1>1, <1>3, ConstantsAssumption DEF LaidOut, t
  <2> QED
    BY <1>1, <1>2, <1>3, <2>1
<1>4. CASE t # None
  <2>1. t \in Tab
    BY <1>1, <1>4
  <2>2. /\ SameLists(sized, r) /\ r.size = st.size
        /\ r.sessionSize = [st.sessionSize EXCEPT ![s] = size]
        /\ r.tabSize = [st.tabSize EXCEPT ![t] = size]
        /\ r.tree = [st.tree EXCEPT ![t] = Visible(sized, t)]
    BY <1>1, <2>1, TabLayoutScreen
  <2> HIDE DEF r
  <2>3. SameLists(st, r)
    BY <1>1, <2>2 DEF SameLists
  <2>4. Visible(sized, t) = Visible(r, t)
    BY <2>2 DEF SameLists, Visible
  <2>5. st.tabSize \in [Tab -> Sizes \cup {None}] /\ st.tree \in [Tab -> SUBSET Pane]
    BY DEF LayoutType
  <2>6. \A u \in Tab : IF u = t THEN TabDrawn(r, u, size)
                       ELSE r.tabSize[u] = st.tabSize[u] /\ r.tree[u] = st.tree[u]
    BY <2>2, <2>4, <2>5 DEF TabDrawn
  <2>7. LaidOut(st, r, s, size)
    BY <2>2, <2>6 DEF LaidOut, t
  <2> QED
    BY <1>2, <1>4, <2>3, <2>7
<1> QED
  BY <1>3, <1>4

\* Session::set_is_active.
LEMMA SessionSetIsActiveScreen ==
    ASSUME NEW st \in LayoutType, NEW s \in Session, NEW b \in BOOLEAN
    PROVE  /\ SameLists(st, SessionSetIsActive(st, s, b))
           /\ SameScreen(st, SessionSetIsActive(st, s, b))
<1> DEFINE set == [st EXCEPT !.sessionIsActive[s] = b]
<1>1. /\ set \in LayoutType /\ SameLists(st, set) /\ SameScreen(st, set)
      /\ SameLists(st, st) /\ SameScreen(st, st) /\ st.activeTab[s] \in Tab \cup {None}
  BY DEF LayoutType, SameLists, SameScreen
<1>2. SessionSetIsActive(st, s, b) =
        IF st.sessionIsActive[s] = b THEN st
        ELSE IF st.activeTab[s] = None THEN set ELSE TabSetIsActive(set, st.activeTab[s], b)
  BY DEF SessionSetIsActive
<1> HIDE DEF set
<1> QED
  BY <1>1, <1>2, TabSetIsActiveScreen DEF SameLists, SameScreen

\* Session::set_active_tab lays out the tab it brings to the front.
LEMMA SessionSetActiveTabScreen ==
    ASSUME NEW st \in LayoutType, NEW s \in Session, NEW t \in Tab \cup {None}
    PROVE  /\ SameLists(st, SessionSetActiveTab(st, s, t))
           /\ st.activeTab[s] = t => SessionSetActiveTab(st, s, t) = st
           /\ st.activeTab[s] # t => LaidOut([st EXCEPT !.activeTab[s] = t],
                                             SessionSetActiveTab(st, s, t), s, st.sessionSize[s])
<1> DEFINE left == IF st.sessionIsActive[s] /\ st.activeTab[s] # None
                   THEN TabSetIsActive(st, st.activeTab[s], FALSE) ELSE st
           moved == [left EXCEPT !.activeTab[s] = t]
           entered == IF st.sessionIsActive[s] /\ t # None
                      THEN TabSetIsActive(moved, t, TRUE) ELSE moved
           target == [st EXCEPT !.activeTab[s] = t]
           size == st.sessionSize[s]
           r == SessionLayout(entered, s, size)
<1>1. /\ st.activeTab[s] \in Tab \cup {None} /\ size \in Sizes \cup {None}
      /\ SameLists(st, st) /\ SameScreen(st, st) /\ SameTree(st, st)
  BY DEF LayoutType, SameLists, SameScreen, SameTree
<1>2. left \in LayoutType /\ SameLists(st, left) /\ SameScreen(st, left) /\ SameTree(st, left)
  BY <1>1, TabSetIsActiveType, TabSetIsActiveScreen
<1>3. SessionSetActiveTab(st, s, t) = IF st.activeTab[s] = t THEN st ELSE r
  BY DEF SessionSetActiveTab
<1> HIDE DEF left
<1>4. /\ moved \in LayoutType /\ SameLists(left, moved) /\ SameScreen(left, moved)
      /\ moved.activeTab = [left.activeTab EXCEPT ![s] = t]
  BY <1>2 DEF LayoutType, SameLists, SameScreen
<1> HIDE DEF moved
<1>5. /\ entered \in LayoutType /\ SameLists(moved, entered) /\ SameScreen(moved, entered)
      /\ SameTree(moved, entered)
  <2>1. SameLists(moved, moved) /\ SameScreen(moved, moved) /\ SameTree(moved, moved)
    BY DEF SameLists, SameScreen, SameTree
  <2> QED
    BY <1>4, <2>1, TabSetIsActiveType, TabSetIsActiveScreen
<1> HIDE DEF entered, size
<1>6. SameLists(entered, r) /\ LaidOut(entered, r, s, size)
  BY <1>1, <1>5, SessionLayoutScreen
<1>7. target.activeTab = [st.activeTab EXCEPT ![s] = t] /\ SameScreen(st, target)
  BY DEF LayoutType, SameScreen
<1> HIDE DEF r, target
<1>8. SameLists(st, r)
  BY <1>2, <1>4, <1>5, <1>6 DEF SameLists
<1>9. LaidOut(target, r, s, size)
  <2>1. SameScreen(target, entered) /\ target.activeTab = entered.activeTab
    BY <1>2, <1>4, <1>5, <1>7 DEF SameScreen, SameTree
  <2> QED
    BY <1>6, <2>1 DEF LaidOut, SameScreen
<1> QED
  BY <1>1, <1>3, <1>8, <1>9 DEF target, size

\* What is laid out is drawn, when it is the active session at the current size.
LEMMA LaidOutDrawn ==
    ASSUME NEW st \in LayoutType, NEW r \in LayoutType, NEW s \in Session,
           LaidOut(st, r, s, st.size), SameTree(st, r), st.activeSession = s
    PROVE  Drawn(r)
<1>1. r.sessionSize[s] = st.size /\ r.size = st.size
  BY DEF LaidOut, LayoutType
<1>2. r.activeSession = s /\ r.activeTab[s] = st.activeTab[s] /\ r.activeTab[s] \in Tab \cup {None}
  BY DEF SameTree, LayoutType
<1>3. r.activeTab[s] # None => TabDrawn(r, r.activeTab[s], st.size)
  BY <1>2 DEF LaidOut
<1> QED
  BY <1>1, <1>2, <1>3 DEF Drawn, SessionDrawn

\* LayoutState::layout.
LEMMA LayoutScreen ==
    ASSUME NEW st \in LayoutType, NEW size \in Sizes
    PROVE  /\ SameLists(st, Layout(st, size))
           /\ Drawn(Layout(st, size))
<1> DEFINE sized == [st EXCEPT !.size = size]
           s == st.activeSession
           r == SessionLayout(sized, s, size)
<1>1. /\ sized \in LayoutType /\ SameLists(st, sized) /\ sized.size = size
      /\ sized.activeSession = s /\ s \in Session \cup {None} /\ size \in Sizes \cup {None}
  BY DEF LayoutType, SameLists
<1>2. Layout(st, size) = IF s = None THEN sized ELSE r
  BY DEF Layout
<1> HIDE DEF sized, s
<1>3. CASE s = None
  BY <1>1, <1>2, <1>3 DEF Drawn
<1>4. CASE s # None
  <2>1. s \in Session
    BY <1>1, <1>4
  <2>2. r \in LayoutType /\ SameTree(sized, r) /\ SameLists(sized, r) /\ LaidOut(sized, r, s, size)
    BY <1>1, <2>1, SessionLayoutType, SessionLayoutScreen
  <2> HIDE DEF r
  <2>3. Drawn(r)
    BY <1>1, <2>1, <2>2, LaidOutDrawn
  <2>4. SameLists(st, r)
    BY <1>1, <2>2 DEF SameLists
  <2> QED
    BY <1>2, <1>4, <2>3, <2>4
<1> QED
  BY <1>3, <1>4

\* LayoutState::set_active_session lays out the session it brings to the front.
LEMMA SetActiveSessionScreen ==
    ASSUME NEW st \in LayoutType, NEW s \in Session \cup {None}, NEW focus \in BOOLEAN
    PROVE  /\ SameLists(st, SetActiveSession(st, s, focus))
           /\ Drawn(st) => Drawn(SetActiveSession(st, s, focus))
<1> DEFINE left == IF st.activeSession # None
                   THEN SessionSetIsActive(st, st.activeSession, FALSE) ELSE st
           moved == [left EXCEPT !.activeSession = s]
           entered == IF focus /\ s # None THEN SessionSetIsActive(moved, s, TRUE) ELSE moved
           r == Layout(entered, entered.size)
<1>1. st.activeSession \in Session \cup {None} /\ SameLists(st, st)
  BY DEF LayoutType, SameLists
<1>2. left \in LayoutType /\ SameLists(st, left)
  BY <1>1, SessionSetIsActiveType, SessionSetIsActiveScreen
<1>3. SetActiveSession(st, s, focus) = IF st.activeSession = s THEN st ELSE r
  BY DEF SetActiveSession
<1> HIDE DEF left
<1>4. moved \in LayoutType /\ SameLists(left, moved)
  BY <1>2 DEF LayoutType, SameLists
<1> HIDE DEF moved
<1>5. entered \in LayoutType /\ SameLists(moved, entered)
  <2>1. SameLists(moved, moved)
    BY DEF SameLists
  <2> QED
    BY <1>4, <2>1, SessionSetIsActiveType, SessionSetIsActiveScreen
<1>6. entered.size \in Sizes
  BY <1>5 DEF LayoutType
<1> HIDE DEF entered
<1>7. SameLists(entered, r) /\ Drawn(r)
  BY <1>5, <1>6, LayoutScreen
<1> HIDE DEF r
<1>8. SameLists(st, r)
  BY <1>2, <1>4, <1>5, <1>7 DEF SameLists
<1> QED
  BY <1>1, <1>3, <1>7, <1>8

-----------------------------------------------------------------------------
(* One tab changes *)

\* Only tab t differs between st and r.
OtherTabs(st, r, t) ==
    /\ r.size = st.size /\ r.sessionSize = st.sessionSize
    /\ \A u \in Tab \ {t} :
          /\ r.panes[u] = st.panes[u] /\ r.recency[u] = st.recency[u]
          /\ r.active[u] = st.active[u] /\ r.fullScreen[u] = st.fullScreen[u]
          /\ r.tabSize[u] = st.tabSize[u] /\ r.tree[u] = st.tree[u]

\* r is st with pane p made the active one of tab t.
Activated(st, r, t, p) ==
    /\ r.panes = st.panes
    /\ r.recency[t] = IF p = None THEN st.recency[t] ELSE <<p>> \o Without(st.recency[t], p)
    /\ r.active[t] = p
    /\ r.fullScreen[t] = IF st.fullScreen[t] \in {None, p} THEN st.fullScreen[t] ELSE None
    /\ r.tabSize = st.tabSize
    /\ r.tree[t] = IF st.fullScreen[t] \in {None, p} THEN st.tree[t] ELSE st.panes[t]

\* Nothing but a tab changes.
LEMMA OneTabListed ==
    ASSUME NEW st, NEW r, NEW t \in Tab, OtherTabs(st, r, t), Listed(st), TabRecencyOK(r, t)
    PROVE  Listed(r)
BY DEF OtherTabs, Listed, TabRecencyOK

\* The list of recency with a pane moved to its front.
LEMMA ToFront ==
    ASSUME NEW S, NEW seq \in Seq(S), Injective(seq), NEW x \in S
    PROVE  /\ <<x>> \o Without(seq, x) \in Seq(S)
           /\ Elems(<<x>> \o Without(seq, x)) = Elems(seq) \cup {x}
           /\ Injective(<<x>> \o Without(seq, x))
           /\ Front1(<<x>> \o Without(seq, x)) = x
<1> DEFINE w == Without(seq, x)
           q == <<x>> \o w
<1>1. /\ w \in Seq(S) /\ Elems(w) = Elems(seq) \ {x} /\ Injective(w) /\ <<x>> \in Seq(S)
  BY WithoutType, WithoutElems
<1> HIDE DEF w
<1>2. q \in Seq(S) /\ Len(q) = Len(w) + 1 /\ Len(w) \in Nat
  BY <1>1
<1>3. q[1] = x
  BY <1>1
<1>4. \A i \in 2 .. Len(w) + 1 : q[i] = w[i - 1]
  BY <1>1
<1> HIDE DEF q
<1>5. Elems(q) = Elems(w) \cup {x}
  <2>1. \A i \in 1 .. Len(q) : q[i] \in Elems(w) \cup {x}
    <3> TAKE i \in 1 .. Len(q)
    <3>1. CASE i = 1
      BY <1>3, <3>1
    <3>2. CASE i # 1
      <4>1. i \in 2 .. Len(w) + 1 /\ i - 1 \in 1 .. Len(w)
        BY <1>2, <3>2
      <4> QED
        BY <1>4, <4>1 DEF Elems
    <3> QED
      BY <3>1, <3>2
  <2>2. \A j \in 1 .. Len(w) : w[j] \in Elems(q)
    <3> TAKE j \in 1 .. Len(w)
    <3>1. j + 1 \in 2 .. Len(w) + 1 /\ j + 1 \in 1 .. Len(q) /\ (j + 1) - 1 = j
      BY <1>2
    <3>2. q[j + 1] = w[j]
      BY <1>4, <3>1
    <3> QED
      BY <3>1, <3>2 DEF Elems
  <2>3. x \in Elems(q)
    BY <1>2, <1>3 DEF Elems
  <2> QED
    BY <2>1, <2>2, <2>3 DEF Elems
<1>6. Injective(q)
  <2> SUFFICES ASSUME NEW i \in 1 .. Len(q), NEW j \in 1 .. Len(q), q[i] = q[j], i < j
               PROVE  FALSE
    BY <1>2 DEF Injective
  <2>1. j \in 2 .. Len(w) + 1 /\ j - 1 \in 1 .. Len(w)
    BY <1>2
  <2>2. q[j] = w[j - 1] /\ w[j - 1] # x
    BY <1>1, <1>4, <2>1 DEF Elems
  <2>3. CASE i = 1
    BY <1>3, <2>2, <2>3
  <2>4. CASE i # 1
    <3>1. i \in 2 .. Len(w) + 1 /\ i - 1 \in 1 .. Len(w)
      BY <1>2, <2>4
    <3>2. w[i - 1] = w[j - 1]
      BY <1>4, <2>2, <3>1
    <3> QED
      BY <1>1, <2>1, <3>1, <3>2 DEF Injective
  <2> QED
    BY <2>3, <2>4
<1>7. Front1(q) = x
  BY <1>2, <1>3 DEF Front1
<1> QED
  BY <1>1, <1>2, <1>5, <1>6, <1>7 DEF q, w

\* The front of the list of recency stays there when another pane goes.
LEMMA FrontStays ==
    ASSUME NEW S, NEW seq \in Seq(S), Injective(seq), NEW x \in Elems(seq), Front1(seq) # x
    PROVE  Front1(Without(seq, x)) = Front1(seq)
<1> DEFINE w == Without(seq, x)
<1>1. IndexOf(seq, x) \in 1 .. Len(seq) /\ seq[IndexOf(seq, x)] = x
  BY IndexOfType
<1>2. seq # <<>> /\ Front1(seq) = seq[1] /\ 1 < IndexOf(seq, x)
  BY <1>1 DEF Front1
<1>3. w \in Seq(S) /\ Len(w) = Len(seq) - 1 /\ Len(w) \in Nat
  BY WithoutType
<1>4. 1 \in 1 .. Len(w) /\ w # <<>>
  BY <1>1, <1>2, <1>3
<1>5. w[1] = seq[1]
  BY <1>2, <1>4, WithoutAt
<1> QED
  BY <1>2, <1>4, <1>5 DEF Front1

\* Tab::set_active.
LEMMA TabSetActiveScreen ==
    ASSUME NEW st \in LayoutType, NEW t \in Tab, NEW p \in Pane \cup {None}
    PROVE  /\ OtherTabs(st, TabSetActive(st, t, p), t)
           /\ st.active[t] = p => TabSetActive(st, t, p) = st
           /\ st.active[t] # p => Activated(st, TabSetActive(st, t, p), t, p)
<1> DEFINE windowed == [st EXCEPT !.fullScreen[t] = None]
           cleared == IF st.fullScreen[t] \in {None, p} THEN st
                      ELSE TabLayout(windowed, t, st.tabSize[t])
           active2 == [cleared.active EXCEPT ![t] = p]
           recency2 == [cleared.recency EXCEPT ![t] = IF p = None THEN @ ELSE <<p>> \o Without(@, p)]
           focused2 == IF st.tabIsActive[t] THEN (cleared.focused \ {st.active[t]}) \cup NonNull(p)
                       ELSE cleared.focused
           r == [cleared EXCEPT !.active = active2, !.recency = recency2, !.focused = focused2]
<1>1. /\ windowed \in LayoutType /\ windowed.panes = st.panes /\ windowed.recency = st.recency
      /\ windowed.active = st.active /\ windowed.size = st.size
      /\ windowed.sessionSize = st.sessionSize /\ windowed.tabSize = st.tabSize
      /\ windowed.tree = st.tree /\ windowed.fullScreen = [st.fullScreen EXCEPT ![t] = None]
      /\ st.tabSize[t] \in Sizes \cup {None} /\ st.tabSize \in [Tab -> Sizes \cup {None}]
      /\ st.fullScreen \in [Tab -> Pane \cup {None}] /\ st.tree \in [Tab -> SUBSET Pane]
  BY DEF LayoutType
<1>2. TabSetActive(st, t, p) = IF st.active[t] = p THEN st ELSE r
  BY DEF TabSetActive, LayoutType
<1> HIDE DEF windowed
<1>3. Visible(windowed, t) = st.panes[t]
  BY <1>1 DEF Visible
<1>4. /\ cleared \in LayoutType /\ cleared.panes = st.panes /\ cleared.recency = st.recency
      /\ cleared.active = st.active /\ cleared.size = st.size
      /\ cleared.sessionSize = st.sessionSize /\ cleared.tabSize = st.tabSize
      /\ cleared.fullScreen = [st.fullScreen EXCEPT ![t] = IF @ \in {None, p} THEN @ ELSE None]
      /\ cleared.tree = [st.tree EXCEPT ![t] = IF st.fullScreen[t] \in {None, p} THEN @ ELSE st.panes[t]]
  <2>1. CASE st.fullScreen[t] \in {None, p}
    BY <1>1, <2>1
  <2>2. CASE st.fullScreen[t] \notin {None, p}
    <3>1. cleared = TabLayout(windowed, t, st.tabSize[t])
      BY <2>2
    <3> HIDE DEF cleared
    <3>2. cleared \in LayoutType
      BY <1>1, <3>1, TabLayoutType
    <3>3. /\ SameLists(windowed, cleared) /\ cleared.size = windowed.size
          /\ cleared.sessionSize = windowed.sessionSize
          /\ cleared.tabSize = [windowed.tabSize EXCEPT ![t] = st.tabSize[t]]
          /\ cleared.tree = [windowed.tree EXCEPT ![t] = Visible(windowed, t)]
      BY <1>1, <3>1, TabLayoutScreen
    <3> QED
      BY <1>1, <1>3, <2>2, <3>2, <3>3 DEF SameLists
  <2> QED
    BY <2>1, <2>2
<1> HIDE DEF cleared
<1>5. /\ cleared.active \in [Tab -> Pane \cup {None}] /\ cleared.recency \in [Tab -> Seq(Pane)]
  BY <1>4 DEF LayoutType
<1>6. /\ active2[t] = p /\ \A u \in Tab \ {t} : active2[u] = st.active[u]
  BY <1>4, <1>5
<1>7. /\ recency2[t] = IF p = None THEN st.recency[t] ELSE <<p>> \o Without(st.recency[t], p)
      /\ \A u \in Tab \ {t} : recency2[u] = st.recency[u]
  BY <1>4, <1>5
<1> HIDE DEF active2, recency2, focused2
<1>8. /\ r.panes = st.panes /\ r.recency = recency2 /\ r.active = active2
      /\ r.fullScreen = cleared.fullScreen /\ r.size = st.size
      /\ r.sessionSize = st.sessionSize /\ r.tabSize = st.tabSize /\ r.tree = cleared.tree
  BY <1>4 DEF LayoutType
<1> HIDE DEF r
<1>9. OtherTabs(st, r, t) /\ Activated(st, r, t, p)
  <2>1. OtherTabs(st, r, t)
    BY <1>1, <1>4, <1>6, <1>7, <1>8 DEF OtherTabs
  <2>2. Activated(st, r, t, p)
    BY <1>1, <1>4, <1>6, <1>7, <1>8 DEF Activated
  <2> QED
    BY <2>1, <2>2
<1> QED
  BY <1>2, <1>9 DEF OtherTabs

\* Tab::set_active of a pane of the tab keeps its list of recency.
LEMMA ActivatedListed ==
    ASSUME NEW st \in LayoutType, NEW r, NEW t \in Tab, NEW p \in Pane,
           Activated(st, r, t, p), TabRecencyOK(st, t), p \in st.panes[t]
    PROVE  TabRecencyOK(r, t)
<1>1. st.recency[t] \in Seq(Pane) /\ p # None
  BY ConstantsAssumption DEF LayoutType
<1>2. /\ Injective(st.recency[t]) /\ Elems(st.recency[t]) = st.panes[t]
      /\ st.fullScreen[t] \in {None, st.active[t]}
  BY DEF TabRecencyOK
<1>3. /\ Elems(<<p>> \o Without(st.recency[t], p)) = st.panes[t] \cup {p}
      /\ Injective(<<p>> \o Without(st.recency[t], p))
      /\ Front1(<<p>> \o Without(st.recency[t], p)) = p
  BY <1>1, <1>2, ToFront
<1>4. /\ r.recency[t] = <<p>> \o Without(st.recency[t], p) /\ r.active[t] = p
      /\ r.panes[t] = st.panes[t] /\ r.fullScreen[t] \in {None, p}
  BY <1>1 DEF Activated
<1>5. Elems(r.recency[t]) = r.panes[t]
  BY <1>3, <1>4
<1> QED
  BY <1>3, <1>4, <1>5 DEF TabRecencyOK

\* A tab that was drawn is drawn again.
LEMMA ActivatedDrawn ==
    ASSUME NEW st, NEW r, NEW t, NEW p, NEW size,
           Activated(st, r, t, p), TabDrawn(st, t, size)
    PROVE  TabDrawn(r, t, size)
BY DEF Activated, TabDrawn, Visible

\* Tab::set_active, as the handlers use it: the pane is one of the tab's.
LEMMA TabSetActiveGood ==
    ASSUME NEW st \in LayoutType, NEW t \in Tab, NEW p \in Pane, p \in st.panes[t],
           TabRecencyOK(st, t)
    PROVE  /\ OtherTabs(st, TabSetActive(st, t, p), t)
           /\ TabRecencyOK(TabSetActive(st, t, p), t)
           /\ \A size : TabDrawn(st, t, size) => TabDrawn(TabSetActive(st, t, p), t, size)
<1>1. CASE st.active[t] = p
  BY <1>1, TabSetActiveScreen
<1>2. CASE st.active[t] # p
  <2>1. OtherTabs(st, TabSetActive(st, t, p), t) /\ Activated(st, TabSetActive(st, t, p), t, p)
    BY <1>2, TabSetActiveScreen
  <2> QED
    BY <2>1, ActivatedListed, ActivatedDrawn
<1> QED
  BY <1>1, <1>2

\* Tab::add_pane: a new pane is the first of the list, and drawn.
LEMMA TabAddPaneScreen ==
    ASSUME NEW st \in LayoutType, NEW t \in Tab, NEW p \in Pane, p \notin st.panes[t],
           TabRecencyOK(st, t)
    PROVE  /\ OtherTabs(st, TabAddPane(st, t, p), t)
           /\ TabRecencyOK(TabAddPane(st, t, p), t)
           /\ TabAddPane(st, t, p).tabSize = st.tabSize
           /\ TabAddPane(st, t, p).tree[t] = Visible(TabAddPane(st, t, p), t)
<1> DEFINE split == [st EXCEPT !.panes[t] = @ \cup {p}, !.tree[t] = st.panes[t] \cup {p}]
           r == TabSetActive(split, t, p)
<1>1. /\ split \in LayoutType /\ split.panes = [st.panes EXCEPT ![t] = @ \cup {p}]
      /\ split.tree = [st.tree EXCEPT ![t] = st.panes[t] \cup {p}]
      /\ split.recency = st.recency /\ split.active = st.active
      /\ split.fullScreen = st.fullScreen /\ split.size = st.size
      /\ split.sessionSize = st.sessionSize /\ split.tabSize = st.tabSize
      /\ st.panes \in [Tab -> SUBSET Pane] /\ st.tree \in [Tab -> SUBSET Pane]
  BY DEF LayoutType
<1>2. TabAddPane(st, t, p) = r
  BY DEF TabAddPane
<1> HIDE DEF split
<1>3. /\ Injective(st.recency[t]) /\ Elems(st.recency[t]) = st.panes[t]
      /\ st.active[t] = Front1(st.recency[t]) /\ st.fullScreen[t] \in {None, st.active[t]}
      /\ st.recency[t] \in Seq(Pane) /\ p # None
  BY ConstantsAssumption DEF TabRecencyOK, LayoutType
<1>4. st.active[t] # p
  BY <1>3 DEF Front1, Elems
<1>5. OtherTabs(split, r, t) /\ Activated(split, r, t, p)
  BY <1>1, <1>4, TabSetActiveScreen
<1> HIDE DEF r
<1>6. OtherTabs(st, r, t)
  BY <1>1, <1>5 DEF OtherTabs
<1>7. /\ Elems(<<p>> \o Without(st.recency[t], p)) = st.panes[t] \cup {p}
      /\ Injective(<<p>> \o Without(st.recency[t], p))
      /\ Front1(<<p>> \o Without(st.recency[t], p)) = p
  BY <1>3, ToFront
<1>8. /\ r.recency[t] = <<p>> \o Without(st.recency[t], p) /\ r.active[t] = p
      /\ r.panes[t] = st.panes[t] \cup {p} /\ r.fullScreen[t] = None
      /\ r.tree[t] = st.panes[t] \cup {p} /\ r.tabSize = st.tabSize
  BY <1>1, <1>3, <1>4, <1>5 DEF Activated
<1>9. TabRecencyOK(r, t)
  BY <1>7, <1>8 DEF TabRecencyOK
<1>10. r.tree[t] = Visible(r, t)
  BY <1>8 DEF Visible
<1> QED
  BY <1>2, <1>6, <1>8, <1>9, <1>10

\* Tab::remove_pane: the next pane of the list becomes the active one.
LEMMA TabRemovePaneScreen ==
    ASSUME NEW st \in LayoutType, NEW t \in Tab, NEW p \in Pane, p \in st.panes[t],
           TabRecencyOK(st, t)
    PROVE  /\ OtherTabs(st, TabRemovePane(st, t, p), t)
           /\ TabRecencyOK(TabRemovePane(st, t, p), t)
<1> DEFINE w == Without(st.recency[t], p)
           unlisted == [st EXCEPT !.fullScreen[t] = IF @ = p THEN None ELSE @,
                                  !.recency[t] = w]
           f == Front1(unlisted.recency[t])
           refocused == IF st.active[t] = p THEN TabSetActive(unlisted, t, f) ELSE unlisted
           r == [refocused EXCEPT !.panes[t] = @ \ {p}]
<1>1. /\ Injective(st.recency[t]) /\ Elems(st.recency[t]) = st.panes[t]
      /\ st.active[t] = Front1(st.recency[t]) /\ st.fullScreen[t] \in {None, st.active[t]}
      /\ st.recency[t] \in Seq(Pane) /\ p # None
      /\ st.fullScreen \in [Tab -> Pane \cup {None}] /\ st.recency \in [Tab -> Seq(Pane)]
      /\ st.panes \in [Tab -> SUBSET Pane]
  BY ConstantsAssumption DEF TabRecencyOK, LayoutType
<1>2. w \in Seq(Pane) /\ Elems(w) = st.panes[t] \ {p} /\ Injective(w)
  BY <1>1, WithoutType, WithoutElems
<1>3. TabRemovePane(st, t, p) = r
  BY DEF TabRemovePane, LayoutType
<1> HIDE DEF w
<1>4. /\ unlisted \in LayoutType /\ unlisted.panes = st.panes /\ unlisted.active = st.active
      /\ unlisted.recency = [st.recency EXCEPT ![t] = w]
      /\ unlisted.fullScreen = [st.fullScreen EXCEPT ![t] = IF @ = p THEN None ELSE @]
      /\ unlisted.size = st.size /\ unlisted.sessionSize = st.sessionSize
      /\ unlisted.tabSize = st.tabSize /\ unlisted.tree = st.tree
  BY <1>2 DEF LayoutType
<1> HIDE DEF unlisted
<1>5. OtherTabs(st, unlisted, t)
  BY <1>1, <1>4 DEF OtherTabs
<1>6. /\ refocused \in LayoutType /\ OtherTabs(unlisted, refocused, t)
      /\ refocused.panes = st.panes
      /\ Injective(refocused.recency[t]) /\ Elems(refocused.recency[t]) = st.panes[t] \ {p}
      /\ refocused.active[t] = Front1(refocused.recency[t])
      /\ refocused.fullScreen[t] \in {None, refocused.active[t]}
  <2>1. CASE st.active[t] = p
    <3>1. unlisted.recency[t] = w /\ f = Front1(w) /\ f \in Pane \cup {None}
      BY <1>1, <1>2, <1>4, Front1Type
    <3>2. f # p
      BY <1>1, <1>2, <3>1 DEF Front1, Elems
    <3>3. unlisted.active[t] # f
      BY <1>4, <2>1, <3>2
    <3>4. unlisted.fullScreen[t] = None
      BY <1>1, <1>4, <2>1
    <3> HIDE DEF f
    <3>5. refocused = TabSetActive(unlisted, t, f)
      BY <2>1
    <3> HIDE DEF refocused
    <3>6. refocused \in LayoutType
      BY <1>4, <3>1, <3>5, TabSetActiveType
    <3>7. OtherTabs(unlisted, refocused, t) /\ Activated(unlisted, refocused, t, f)
      BY <1>4, <3>1, <3>3, <3>5, TabSetActiveScreen
    <3>8. /\ refocused.panes = st.panes /\ refocused.active[t] = f /\ refocused.fullScreen[t] = None
          /\ refocused.recency[t] = IF f = None THEN w ELSE <<f>> \o Without(w, f)
      BY <1>4, <3>1, <3>4, <3>7 DEF Activated
    <3>9. CASE f = None
      BY <1>2, <3>1, <3>6, <3>7, <3>8, <3>9
    <3>10. CASE f # None
      <4>1. f \in Pane /\ f \in Elems(w)
        <5>1. w # <<>> /\ f = w[1]
          BY <3>1, <3>10 DEF Front1
        <5>2. 1 \in 1 .. Len(w)
          BY <1>2, <5>1
        <5> QED
          BY <3>1, <3>10, <5>1, <5>2 DEF Elems
      <4>2. /\ Elems(<<f>> \o Without(w, f)) = Elems(w) \cup {f}
            /\ Injective(<<f>> \o Without(w, f))
            /\ Front1(<<f>> \o Without(w, f)) = f
        BY <1>2, <4>1, ToFront
      <4>3. refocused.recency[t] = <<f>> \o Without(w, f)
        BY <3>8, <3>10
      <4> QED
        BY <1>2, <3>6, <3>7, <3>8, <4>1, <4>2, <4>3
    <3> QED
      BY <3>9, <3>10
  <2>2. CASE st.active[t] # p
    <3>1. refocused = unlisted
      BY <2>2
    <3>2. p \in Elems(st.recency[t]) /\ Front1(st.recency[t]) # p
      BY <1>1, <2>2
    <3>3. Front1(w) = st.active[t]
      BY <1>1, <3>2, FrontStays DEF w
    <3>4. unlisted.recency[t] = w /\ unlisted.fullScreen[t] \in {None, st.active[t]}
      BY <1>1, <1>4
    <3>5. OtherTabs(unlisted, unlisted, t)
      BY DEF OtherTabs
    <3> QED
      BY <1>2, <1>4, <3>1, <3>3, <3>4, <3>5
  <2> QED
    BY <2>1, <2>2
<1> HIDE DEF refocused
<1>7. /\ r.panes = [st.panes EXCEPT ![t] = @ \ {p}] /\ r.recency = refocused.recency
      /\ r.active = refocused.active /\ r.fullScreen = refocused.fullScreen
      /\ r.size = refocused.size /\ r.sessionSize = refocused.sessionSize
      /\ r.tabSize = refocused.tabSize /\ r.tree = refocused.tree
  BY <1>6 DEF LayoutType
<1> HIDE DEF r
<1>8. TabRecencyOK(r, t)
  BY <1>1, <1>6, <1>7 DEF TabRecencyOK
<1>9. OtherTabs(st, r, t)
  BY <1>1, <1>5, <1>6, <1>7 DEF OtherTabs
<1> QED
  BY <1>3, <1>8, <1>9

\* ~Tab leaves nothing in the lists.
LEMMA TabDestroyScreen ==
    ASSUME NEW st \in LayoutType, NEW t \in Tab
    PROVE  OtherTabs(st, TabDestroy(st, t), t) /\ TabRecencyOK(TabDestroy(st, t), t)
<1> DEFINE r == TabDestroy(st, t)
<1>1. /\ r.panes[t] = {} /\ r.recency[t] = <<>> /\ r.active[t] = None /\ r.fullScreen[t] = None
  BY DEF TabDestroy, LayoutType
<1>2. OtherTabs(st, r, t)
  BY DEF TabDestroy, LayoutType, OtherTabs
<1> HIDE DEF r
<1>3. TabRecencyOK(r, t)
  BY <1>1, EmptyElems DEF TabRecencyOK, Front1
<1> QED
  BY <1>2, <1>3 DEF r

\* Tab::set_full_screen_pane, of the active pane or of none.
LEMMA TabSetFullScreenScreen ==
    ASSUME NEW st \in LayoutType, NEW t \in Tab, NEW p \in Pane \cup {None},
           p \in {None, st.active[t]}, TabRecencyOK(st, t)
    PROVE  /\ OtherTabs(st, TabSetFullScreen(st, t, p), t)
           /\ TabRecencyOK(TabSetFullScreen(st, t, p), t)
           /\ \A size : TabDrawn(st, t, size) => TabDrawn(TabSetFullScreen(st, t, p), t, size)
<1> DEFINE full == [st EXCEPT !.fullScreen[t] = p]
           r == TabLayout(full, t, st.tabSize[t])
<1>1. /\ full \in LayoutType /\ full.panes = st.panes /\ full.recency = st.recency
      /\ full.active = st.active /\ full.fullScreen = [st.fullScreen EXCEPT ![t] = p]
      /\ full.size = st.size /\ full.sessionSize = st.sessionSize
      /\ full.tabSize = st.tabSize /\ full.tree = st.tree
      /\ st.tabSize \in [Tab -> Sizes \cup {None}] /\ st.tree \in [Tab -> SUBSET Pane]
      /\ st.fullScreen \in [Tab -> Pane \cup {None}]
  BY DEF LayoutType
<1>2. TabSetFullScreen(st, t, p) =
        IF st.fullScreen[t] = p THEN st
        ELSE IF p = None THEN r ELSE TabLayout(TabSetActive(full, t, p), t, st.tabSize[t])
  BY DEF TabSetFullScreen
<1> HIDE DEF full
<1>3. p # None => TabSetActive(full, t, p) = full
  BY <1>1 DEF TabSetActive
<1>4. TabSetFullScreen(st, t, p) = IF st.fullScreen[t] = p THEN st ELSE r
  BY <1>2, <1>3
<1>5. /\ SameLists(full, r) /\ r.size = full.size /\ r.sessionSize = full.sessionSize
      /\ r.tabSize = [full.tabSize EXCEPT ![t] = st.tabSize[t]]
      /\ r.tree = [full.tree EXCEPT ![t] = Visible(full, t)]
  BY <1>1, TabLayoutScreen
<1> HIDE DEF r
<1>6. OtherTabs(st, r, t)
  BY <1>1, <1>5 DEF OtherTabs, SameLists
<1>7. TabRecencyOK(r, t)
  BY <1>1, <1>5 DEF TabRecencyOK, SameLists
<1>8. r.tabSize[t] = st.tabSize[t] /\ r.tree[t] = Visible(r, t)
  BY <1>1, <1>5 DEF SameLists, Visible
<1>9. \A size : TabDrawn(st, t, size) => TabDrawn(r, t, size)
  BY <1>8 DEF TabDrawn
<1>10. OtherTabs(st, st, t)
  BY DEF OtherTabs
<1> QED
  BY <1>4, <1>6, <1>7, <1>9, <1>10

-----------------------------------------------------------------------------
(* The screen as a whole *)

\* The active session is at the current size, and drawn unless its tab is x.
DrawnBut(st, x) ==
    st.activeSession # None =>
        /\ st.sessionSize[st.activeSession] = st.size
        /\ st.activeTab[st.activeSession] # x => SessionDrawn(st, st.activeSession)

\* Tab t is not the one on the screen of a session other than s.
NotElsewhere(st, s, t) ==
    st.activeSession \notin {None, s} => t = None \/ st.activeTab[st.activeSession] # t

LEMMA DrawnIsBut ==
    ASSUME NEW st, NEW x
    PROVE  /\ Drawn(st) => DrawnBut(st, x)
           /\ DrawnBut(st, None) => Drawn(st)
           /\ DrawnBut(st, x) /\ st.activeSession # None
                => (st.activeTab[st.activeSession] # x => Drawn(st))
           /\ st.activeSession = None => Drawn(st)
BY DEF Drawn, DrawnBut, SessionDrawn

\* One tab changes: what is drawn stays drawn, but for that tab.
LEMMA OneTabDrawn ==
    ASSUME NEW st \in LayoutType, NEW r, NEW t \in Tab, OtherTabs(st, r, t), Drawn(st),
           r.activeSession = st.activeSession, r.activeTab = st.activeTab
    PROVE  /\ DrawnBut(r, t)
           /\ (\A size : TabDrawn(st, t, size) => TabDrawn(r, t, size)) => Drawn(r)
<1> DEFINE a == st.activeSession
           u == st.activeTab[a]
<1>1. CASE a = None
  BY <1>1 DEF Drawn, DrawnBut
<1>2. CASE a # None
  <2>1. a \in Session /\ u \in Tab \cup {None}
    BY <1>2 DEF LayoutType
  <2>2. r.sessionSize[a] = r.size /\ st.sessionSize[a] = st.size /\ r.sessionSize[a] = st.sessionSize[a]
    BY <1>2 DEF Drawn, OtherTabs
  <2>3. u # None => TabDrawn(st, u, st.sessionSize[a])
    BY <1>2 DEF Drawn, SessionDrawn
  <2>4. u # None /\ u # t => TabDrawn(r, u, r.sessionSize[a])
    <3> SUFFICES ASSUME u # None, u # t PROVE TabDrawn(r, u, r.sessionSize[a])
      OBVIOUS
    <3>1. u \in Tab \ {t}
      BY <2>1
    <3> HIDE DEF u
    <3> QED
      BY <2>2, <2>3, <3>1 DEF TabDrawn, Visible, OtherTabs
  <2>5. (\A size : TabDrawn(st, t, size) => TabDrawn(r, t, size))
           => (u # None => TabDrawn(r, u, r.sessionSize[a]))
    BY <2>2, <2>3, <2>4
  <2> QED
    BY <2>2, <2>4, <2>5 DEF Drawn, DrawnBut, SessionDrawn
<1> QED
  BY <1>1, <1>2

\* A session is laid out at its own size: if it is the active one it is now drawn, else the
\* active one is what it was.
LEMMA LaidOutKeeps ==
    ASSUME NEW st \in LayoutType, NEW r \in LayoutType, NEW s \in Session, NEW x,
           LaidOut(st, r, s, st.sessionSize[s]), SameTree(st, r), SameLists(st, r),
           DrawnBut(st, x), NotElsewhere(st, s, st.activeTab[s]), NotElsewhere(st, s, x)
    PROVE  Drawn(r)
<1> DEFINE a == st.activeSession
           u == st.activeTab[a]
<1>1. CASE a = None
  BY <1>1 DEF SameTree, Drawn
<1>2. CASE a = s
  <2>1. st.sessionSize[s] = st.size
    BY <1>2, ConstantsAssumption DEF DrawnBut
  <2> QED
    BY <1>2, <2>1, LaidOutDrawn
<1>3. CASE a \notin {None, s}
  <2>1. a \in Session /\ u \in Tab \cup {None} /\ st.sessionSize \in [Session -> Sizes \cup {None}]
    BY <1>3 DEF LayoutType
  <2>2. st.sessionSize[a] = st.size /\ (u # x => SessionDrawn(st, a))
    BY <1>3 DEF DrawnBut
  <2>3. r.sessionSize[a] = r.size /\ r.sessionSize[a] = st.sessionSize[a]
    BY <1>3, <2>1, <2>2 DEF LaidOut
  <2>4. r.activeSession = a /\ r.activeTab[a] = u
    BY DEF SameTree
  <2>5. u # None => TabDrawn(r, u, r.sessionSize[a])
    <3> SUFFICES ASSUME u # None PROVE TabDrawn(r, u, r.sessionSize[a])
      OBVIOUS
    <3>1. u # x
      BY <1>3 DEF NotElsewhere
    <3>2. TabDrawn(st, u, st.sessionSize[a])
      BY <2>2, <3>1 DEF SessionDrawn
    <3>3. u # st.activeTab[s]
      BY <1>3 DEF NotElsewhere
    <3>4. u \in Tab
      BY <2>1
    <3> HIDE DEF u, a
    <3>5. r.tabSize[u] = st.tabSize[u] /\ r.tree[u] = st.tree[u]
      BY <3>3, <3>4 DEF LaidOut
    <3> QED
      BY <2>3, <3>2, <3>5 DEF TabDrawn, Visible, SameLists
  <2> QED
    BY <2>3, <2>4, <2>5 DEF Drawn, SessionDrawn
<1> QED
  BY <1>1, <1>2, <1>3

\* Session::set_active_tab, when the tab it leaves need not be drawn.
LEMMA SelectDrawn ==
    ASSUME NEW st \in LayoutType, NEW s \in Session, NEW t \in Tab \cup {None}, NEW x,
           DrawnBut(st, x), st.activeTab[s] # t, NotElsewhere(st, s, t), NotElsewhere(st, s, x),
           t # x \/ x = None
    PROVE  Drawn(SessionSetActiveTab(st, s, t))
<1> DEFINE target == [st EXCEPT !.activeTab[s] = t]
           r == SessionSetActiveTab(st, s, t)
<1>1. /\ target \in LayoutType /\ SameLists(st, target) /\ SameScreen(st, target)
      /\ target.activeSession = st.activeSession
      /\ target.activeTab = [st.activeTab EXCEPT ![s] = t]
      /\ st.activeTab \in [Session -> Tab \cup {None}] /\ st.activeSession \in Session \cup {None}
  BY DEF LayoutType, SameLists, SameScreen
<1>2. r \in LayoutType /\ SameTree(target, r)
  BY SessionSetActiveTabType
<1>3. SameLists(st, r) /\ LaidOut(target, r, s, st.sessionSize[s])
  BY SessionSetActiveTabScreen
<1> HIDE DEF target, r
<1>4. LaidOut(target, r, s, target.sessionSize[s]) /\ SameLists(target, r)
  BY <1>1, <1>3 DEF SameScreen, SameLists
<1>5. target.activeTab[s] = t
  BY <1>1
<1>6. NotElsewhere(target, s, t) /\ NotElsewhere(target, s, x)
  BY <1>1 DEF NotElsewhere
<1>7. CASE st.activeSession = s
  <2>1. st.sessionSize[s] = st.size
    BY <1>7, ConstantsAssumption DEF DrawnBut
  <2>2. LaidOut(target, r, s, target.size) /\ target.activeSession = s
    BY <1>1, <1>3, <1>7, <2>1 DEF SameScreen
  <2> QED
    BY <1>1, <1>2, <2>2, LaidOutDrawn DEF r
<1>8. CASE st.activeSession # s
  <2>1. DrawnBut(target, x)
    <3>1. st.activeSession # None =>
            target.activeTab[st.activeSession] = st.activeTab[st.activeSession]
      BY <1>1, <1>8
    <3> QED
      BY <1>1, <3>1 DEF DrawnBut, SessionDrawn, TabDrawn, Visible, SameLists, SameScreen
  <2>2. Drawn(r)
    BY <1>1, <1>2, <1>4, <1>5, <1>6, <2>1, LaidOutKeeps
  <2> QED
    BY <2>2 DEF r
<1> QED
  BY <1>7, <1>8

-----------------------------------------------------------------------------
(* The methods of Session and LayoutState *)

Good(st) == Listed(st) /\ Drawn(st)

\* A tab is on the screen of its own session only.
LEMMA OwnSession ==
    ASSUME NEW st \in LayoutType, SessionsOK(st), NEW s \in Session, NEW t \in Elems(st.tabs[s])
    PROVE  NotElsewhere(st, s, t) /\ NotElsewhere(st, s, None)
<1> SUFFICES ASSUME st.activeSession \notin {None, s}
             PROVE  st.activeTab[st.activeSession] # t
  BY DEF NotElsewhere
<1>1. st.activeSession \in Session \ {s}
  BY DEF LayoutType
<1>2. st.activeSession \in Elems(st.sessions)
  BY EmptyElems DEF SessionsOK
<1>3. st.activeTab[st.activeSession] \in Elems(st.tabs[st.activeSession])
  BY <1>1, <1>2 DEF SessionsOK
<1>4. Elems(st.tabs[s]) \cap Elems(st.tabs[st.activeSession]) = {}
  BY <1>1 DEF SessionsOK
<1> QED
  BY <1>3, <1>4

\* LayoutState::set_active_session.
LEMMA SetActiveSessionGood ==
    ASSUME NEW st \in LayoutType, Good(st), NEW s \in Session \cup {None}, NEW focus \in BOOLEAN
    PROVE  Good(SetActiveSession(st, s, focus))
BY SetActiveSessionScreen, SameListed DEF Good

\* LayoutState::set_active_tab.
LEMMA SetActiveTabGood ==
    ASSUME NEW st \in LayoutType, SessionsOK(st), Good(st), NEW s \in Elems(st.sessions),
           NEW t \in Elems(st.tabs[s]), NEW focus \in BOOLEAN
    PROVE  Good(SetActiveTab(st, s, t, focus))
<1> DEFINE chosen == IF focus THEN SetActiveSession(st, s, TRUE) ELSE st
           r == SessionSetActiveTab(chosen, s, t)
<1>1. s \in Session
  BY ElemsSubset DEF LayoutType
<1>2. t \in Tab
  BY <1>1, ElemsSubset DEF LayoutType
<1>3. SetActiveTab(st, s, t, focus) = r
  BY DEF SetActiveTab
<1>4. chosen \in LayoutType /\ SessionsOK(chosen) /\ Good(chosen) /\ chosen.tabs = st.tabs
  <2>1. CASE focus = TRUE
    <3>1. chosen = SetActiveSession(st, s, TRUE)
      BY <2>1
    <3> HIDE DEF chosen
    <3>2. chosen \in LayoutType /\ SessionsOK(chosen)
      BY <3>1, SetActiveSessionOK
    <3>3. Good(chosen)
      BY <1>1, <3>1, SetActiveSessionGood
    <3>4. chosen.tabs = st.tabs
      BY <1>1, <3>1, SetActiveSessionOwners
    <3> QED
      BY <3>2, <3>3, <3>4
  <2>2. CASE focus = FALSE
    BY <2>2
  <2> QED
    BY <2>1, <2>2
<1> HIDE DEF chosen
<1>5. SameLists(chosen, r)
  BY <1>1, <1>2, <1>4, SessionSetActiveTabScreen
<1>6. Listed(r)
  BY <1>4, <1>5, SameListed DEF Good
<1>7. NotElsewhere(chosen, s, t) /\ NotElsewhere(chosen, s, None)
  BY <1>1, <1>4, OwnSession
<1>8. Drawn(chosen) /\ DrawnBut(chosen, None)
  BY <1>4, DrawnIsBut DEF Good
<1>9. Drawn(r)
  <2>1. CASE chosen.activeTab[s] = t
    BY <1>1, <1>2, <1>4, <1>8, <2>1, SessionSetActiveTabScreen
  <2>2. CASE chosen.activeTab[s] # t
    BY <1>1, <1>2, <1>4, <1>7, <1>8, <2>2, SelectDrawn
  <2> QED
    BY <2>1, <2>2
<1> QED
  BY <1>3, <1>6, <1>9 DEF Good

\* Session::remove_tab of a tab that need not be drawn.
LEMMA SessionRemoveTabGood ==
    ASSUME NEW st \in LayoutType, SessionsOK(st), NEW s \in Session, NEW t \in Elems(st.tabs[s]),
           Listed(st), DrawnBut(st, t)
    PROVE  Good(SessionRemoveTab(st, s, t))
<1> DEFINE next == Neighbour(st.tabs[s], t)
           moved == IF st.activeTab[s] = t THEN SessionSetActiveTab(st, s, next) ELSE st
           unlisted == [moved EXCEPT !.tabs[s] = Without(@, t)]
           r == TabDestroy(unlisted, t)
<1>1. /\ st.tabs[s] \in Seq(Tab) /\ Injective(st.tabs[s]) /\ t \in Tab /\ t # None
      /\ st.activeTab \in [Session -> Tab \cup {None}]
  <2>1. st.tabs[s] \in Seq(Tab) /\ st.activeTab \in [Session -> Tab \cup {None}]
    BY DEF LayoutType
  <2> QED
    BY <2>1, ElemsSubset, ConstantsAssumption DEF SessionsOK
<1>2. SessionRemoveTab(st, s, t) = r
  BY DEF SessionRemoveTab
<1>3. next \in Tab \cup {None} /\ next # t
  <2>1. next \in Tab \cup {None}
    BY <1>1, NeighbourType
  <2>2. next = None \/ next \in Elems(Without(st.tabs[s], t))
    BY <1>1, NeighbourElem
  <2>3. t \notin Elems(Without(st.tabs[s], t))
    BY <1>1, WithoutElems
  <2> QED
    BY <1>1, <2>1, <2>2, <2>3
<1>4. NotElsewhere(st, s, t) /\ NotElsewhere(st, s, None)
  BY OwnSession
<1>5. NotElsewhere(st, s, next)
  <2>1. CASE next = None
    BY <1>4, <2>1
  <2>2. CASE next # None
    <3>1. next \in Elems(st.tabs[s])
      BY <1>1, <2>2, NeighbourElem, WithoutElems
    <3> HIDE DEF next
    <3> QED
      BY <3>1, OwnSession
  <2> QED
    BY <2>1, <2>2
<1> HIDE DEF next
<1>6. /\ moved \in LayoutType /\ SameLists(st, moved) /\ moved.activeSession = st.activeSession
      /\ Drawn(moved)
      /\ moved.activeTab[s] # t
      /\ \A q \in Session \ {s} : moved.activeTab[q] = st.activeTab[q]
  <2>1. CASE st.activeTab[s] = t
    <3>1. moved = SessionSetActiveTab(st, s, next)
      BY <2>1
    <3> HIDE DEF moved
    <3>2. moved \in LayoutType /\ SameTree([st EXCEPT !.activeTab[s] = next], moved)
      BY <1>3, <3>1, SessionSetActiveTabType
    <3>3. SameLists(st, moved)
      BY <1>3, <3>1, SessionSetActiveTabScreen
    <3>4. Drawn(moved)
      BY <1>3, <1>4, <1>5, <2>1, <3>1, SelectDrawn
    <3>5. /\ moved.activeSession = st.activeSession
          /\ moved.activeTab = [st.activeTab EXCEPT ![s] = next]
      BY <3>2 DEF SameTree, LayoutType
    <3> QED
      BY <1>1, <1>3, <3>2, <3>3, <3>4, <3>5
  <2>2. CASE st.activeTab[s] # t
    <3>1. moved = st /\ SameLists(st, st)
      BY <2>2 DEF SameLists
    <3>2. st.activeSession # None => st.activeTab[st.activeSession] # t
      BY <1>1, <1>4, <2>2 DEF NotElsewhere
    <3>3. Drawn(st)
      BY <3>2, DrawnIsBut
    <3> HIDE DEF moved
    <3> QED
      BY <2>2, <3>1, <3>3
  <2> QED
    BY <2>1, <2>2
<1> HIDE DEF moved
<1>7. /\ unlisted \in LayoutType /\ SameLists(st, unlisted) /\ SameLists(moved, unlisted)
      /\ SameScreen(moved, unlisted)
      /\ unlisted.activeSession = moved.activeSession /\ unlisted.activeTab = moved.activeTab
  <2>1. Without(moved.tabs[s], t) \in Seq(Tab)
    BY <1>6, WithoutType DEF LayoutType
  <2> QED
    BY <1>6, <2>1 DEF LayoutType, SameLists, SameScreen
<1> HIDE DEF unlisted
<1>8. Listed(unlisted) /\ Drawn(unlisted)
  <2>1. Drawn(unlisted)
    BY <1>6, <1>7 DEF Drawn, SessionDrawn, TabDrawn, Visible, SameLists, SameScreen
  <2> QED
    BY <1>7, <2>1, SameListed
<1>9. OtherTabs(unlisted, r, t) /\ TabRecencyOK(r, t) /\ SameTree(unlisted, r) /\ r \in LayoutType
  BY <1>1, <1>7, TabDestroyScreen, TabDestroyType
<1> HIDE DEF r
<1>10. Listed(r)
  BY <1>1, <1>8, <1>9, OneTabListed
<1>11. DrawnBut(r, t)
  BY <1>1, <1>7, <1>8, <1>9, OneTabDrawn DEF SameTree
<1>12. r.activeSession # None => r.activeTab[r.activeSession] # t
  <2>1. r.activeSession = st.activeSession /\ r.activeTab = moved.activeTab
    BY <1>6, <1>7, <1>9 DEF SameTree
  <2>2. st.activeSession \in Session \cup {None}
    BY DEF LayoutType
  <2> QED
    BY <1>1, <1>4, <1>6, <2>1, <2>2 DEF NotElsewhere
<1>13. Drawn(r)
  BY <1>11, <1>12, DrawnIsBut
<1> QED
  BY <1>2, <1>10, <1>13 DEF Good

\* Session::remove_pane.
LEMMA SessionRemovePaneGood ==
    ASSUME NEW st \in LayoutType, SessionsOK(st), NEW s \in Session, NEW t \in Elems(st.tabs[s]),
           NEW p \in Pane, p \in st.panes[t], Good(st)
    PROVE  Good(SessionRemovePane(st, s, t, p))
<1> DEFINE removed == TabRemovePane(st, t, p)
           laid == SessionLayout(removed, s, removed.sessionSize[s])
<1>1. t \in Tab /\ TabRecencyOK(st, t) /\ Listed(st) /\ Drawn(st)
  BY ElemsSubset DEF LayoutType, Good, Listed
<1>2. removed \in LayoutType /\ SameTree(st, removed)
  BY <1>1, TabRemovePaneType
<1>3. OtherTabs(st, removed, t) /\ TabRecencyOK(removed, t)
  BY <1>1, TabRemovePaneScreen
<1>4. SessionRemovePane(st, s, t, p) =
        IF removed.panes[t] = {} THEN SessionRemoveTab(removed, s, t)
        ELSE IF p \in st.panes[t] /\ st.activeTab[s] = t THEN laid ELSE removed
  BY DEF SessionRemovePane
<1> HIDE DEF removed
<1>5. Listed(removed)
  BY <1>1, <1>3, OneTabListed
<1>6. DrawnBut(removed, t)
  BY <1>1, <1>2, <1>3, OneTabDrawn DEF SameTree
<1>7. SessionsOK(removed) /\ t \in Elems(removed.tabs[s])
  BY <1>2, SessionsOKSame DEF SameTree
<1>8. NotElsewhere(removed, s, t)
  BY <1>2, <1>7, OwnSession
<1>9. CASE removed.panes[t] = {}
  BY <1>2, <1>4, <1>5, <1>6, <1>7, <1>9, SessionRemoveTabGood
<1>10. CASE removed.panes[t] # {} /\ st.activeTab[s] = t
  <2>1. removed.sessionSize[s] \in Sizes \cup {None}
    BY <1>2 DEF LayoutType
  <2>2. laid \in LayoutType /\ SameTree(removed, laid)
    BY <1>2, <2>1, SessionLayoutType
  <2>3. SameLists(removed, laid) /\ LaidOut(removed, laid, s, removed.sessionSize[s])
    BY <1>2, <2>1, SessionLayoutScreen
  <2>4. removed.activeTab[s] = t
    BY <1>2, <1>10 DEF SameTree
  <2> HIDE DEF laid
  <2>5. Drawn(laid)
    BY <1>2, <1>6, <1>8, <2>2, <2>3, <2>4, LaidOutKeeps
  <2>6. Listed(laid)
    BY <1>5, <2>3, SameListed
  <2> QED
    BY <1>4, <1>10, <2>5, <2>6 DEF Good
<1>11. CASE removed.panes[t] # {} /\ st.activeTab[s] # t
  <2>1. removed.activeSession \in Session \cup {None} /\ removed.activeTab[s] # t /\ t # None
    BY <1>1, <1>2, <1>11, ConstantsAssumption DEF LayoutType, SameTree
  <2>2. removed.activeSession # None => removed.activeTab[removed.activeSession] # t
    BY <1>8, <2>1 DEF NotElsewhere
  <2>3. Drawn(removed)
    BY <1>6, <2>2, DrawnIsBut
  <2> QED
    BY <1>4, <1>5, <1>11, <2>3 DEF Good
<1> QED
  BY <1>9, <1>10, <1>11

\* LayoutState::remove_session.
LEMMA RemoveSessionGood ==
    ASSUME NEW st \in LayoutType, NEW s \in Session, Good(st), SessionsOK(RemoveSession(st, s))
    PROVE  Good(RemoveSession(st, s))
<1> DEFINE next == Neighbour(st.sessions, s)
           moved == IF st.activeSession = s THEN SetActiveSession(st, next, TRUE) ELSE st
           unlisted == [moved EXCEPT !.sessions = Without(@, s)]
           r == SessionDestroy(unlisted, s)
<1>1. RemoveSession(st, s) = r
  BY DEF RemoveSession
<1>2. next \in Session \cup {None}
  BY NeighbourType DEF LayoutType
<1> HIDE DEF next
<1>3. moved \in LayoutType /\ Good(moved)
  <2>1. CASE st.activeSession = s
    <3>1. moved = SetActiveSession(st, next, TRUE)
      BY <2>1
    <3> HIDE DEF moved
    <3>2. moved \in LayoutType
      BY <1>2, <3>1, SetActiveSessionType
    <3>3. Good(moved)
      BY <1>2, <3>1, SetActiveSessionGood
    <3> QED
      BY <3>2, <3>3
  <2>2. CASE st.activeSession # s
    BY <2>2
  <2> QED
    BY <2>1, <2>2
<1> HIDE DEF moved
<1>4. /\ SameLists(moved, r) /\ r.size = moved.size /\ r.activeSession = moved.activeSession
      /\ r.tabSize = moved.tabSize /\ r.tree = moved.tree
      /\ r.activeTab = [moved.activeTab EXCEPT ![s] = None]
      /\ r.sessionSize = [moved.sessionSize EXCEPT ![s] = None]
      /\ moved.activeTab \in [Session -> Tab \cup {None}]
      /\ moved.sessionSize \in [Session -> Sizes \cup {None}]
      /\ moved.activeSession \in Session \cup {None}
  BY <1>3 DEF SessionDestroy, LayoutType, SameLists
<1>5. SessionsOK(r)
  BY <1>1
<1> HIDE DEF r
<1>6. r.activeSession # s
  <2> SUFFICES ASSUME r.activeSession = s PROVE FALSE
    OBVIOUS
  <2>1. s \in Elems(r.sessions) /\ s # None
    BY <1>5, ConstantsAssumption DEF SessionsOK
  <2>2. r.activeTab[s] \in Elems(r.tabs[s]) /\ r.activeTab[s] = None
    BY <1>4, <1>5, <2>1 DEF SessionsOK
  <2>3. s \notin Elems(r.sessions) \/ None \in Elems(r.tabs[s])
    BY <2>2
  <2>4. r.tabs[s] \in Seq(Tab)
    <3>1. r.tabs = moved.tabs
      BY <1>3 DEF r, SessionDestroy, LayoutType
    <3> QED
      BY <1>3, <3>1 DEF LayoutType
  <2>5. None \notin Elems(r.tabs[s])
    BY <2>4, ElemsSubset, ConstantsAssumption
  <2> QED
    BY <2>1, <2>3, <2>5
<1>7. Listed(r)
  BY <1>3, <1>4, SameListed DEF Good
<1>8. Drawn(r)
  <2> SUFFICES ASSUME r.activeSession # None
               PROVE  r.sessionSize[r.activeSession] = r.size /\ SessionDrawn(r, r.activeSession)
    BY DEF Drawn
  <2>1. /\ r.sessionSize[r.activeSession] = moved.sessionSize[r.activeSession]
        /\ r.activeTab[r.activeSession] = moved.activeTab[r.activeSession]
    BY <1>4, <1>6
  <2> QED
    BY <1>3, <1>4, <2>1 DEF Good, Drawn, SessionDrawn, TabDrawn, Visible, SameLists
<1> QED
  BY <1>1, <1>7, <1>8 DEF Good

\* LayoutState::remove_pane.
LEMMA RemovePaneGood ==
    ASSUME NEW st \in LayoutType, SessionsOK(st), NEW s \in Elems(st.sessions),
           NEW t \in Elems(st.tabs[s]), NEW p \in Pane, p \in st.panes[t], Good(st)
    PROVE  Good(RemovePane(st, s, t, p))
<1> DEFINE removed == SessionRemovePane(st, s, t, p)
<1>1. s \in Session
  BY ElemsSubset DEF LayoutType
<1>2. t \in Tab
  BY <1>1, ElemsSubset DEF LayoutType
<1>3. removed \in LayoutType
  BY <1>2, SessionRemovePaneOK
<1>4. Good(removed)
  BY <1>1, SessionRemovePaneGood
<1>5. RemovePane(st, s, t, p) = IF removed.tabs[s] = <<>> THEN RemoveSession(removed, s) ELSE removed
  BY DEF RemovePane
<1>6. SessionsOK(RemovePane(st, s, t, p))
  BY <1>2, RemovePaneOK
<1> HIDE DEF removed
<1>7. CASE removed.tabs[s] = <<>>
  <2>1. RemovePane(st, s, t, p) = RemoveSession(removed, s)
    BY <1>5, <1>7
  <2>2. SessionsOK(RemoveSession(removed, s))
    BY <1>6, <2>1
  <2>3. Good(RemoveSession(removed, s))
    BY <1>1, <1>3, <1>4, <2>2, RemoveSessionGood
  <2> QED
    BY <2>1, <2>3
<1>8. CASE removed.tabs[s] # <<>>
  BY <1>4, <1>5, <1>8
<1> QED
  BY <1>7, <1>8

\* LayoutState::add_tab of a tab that no session points to.
LEMMA AddTabGood ==
    ASSUME NEW st \in LayoutType, NEW s \in Session, NEW t \in Tab, NEW p \in Pane, Good(st),
           \A q \in Session : st.activeTab[q] # t, p \notin st.panes[t]
    PROVE  Good(AddTab(st, s, t, p, TRUE))
<1> DEFINE chosen == SetActiveSession(st, s, TRUE)
           filled == TabAddPane(chosen, t, p)
           moved == SessionSetActiveTab(filled, s, t)
           r == [moved EXCEPT !.tabs[s] = Append(@, t)]
<1>1. AddTab(st, s, t, p, TRUE) = r
  BY DEF AddTab, SessionAddTab
<1>2. /\ chosen \in LayoutType /\ Good(chosen) /\ chosen.activeTab = st.activeTab
      /\ chosen.panes = st.panes
  <2>1. chosen \in LayoutType /\ SameTree([st EXCEPT !.activeSession = s], chosen)
    BY SetActiveSessionType
  <2>2. Good(chosen)
    BY SetActiveSessionGood
  <2>3. chosen.panes = st.panes
    BY SetActiveSessionOwners DEF SameOwners
  <2> HIDE DEF chosen
  <2>4. chosen.activeTab = st.activeTab
    BY <2>1 DEF SameTree, LayoutType
  <2> QED
    BY <2>1, <2>2, <2>3, <2>4
<1> HIDE DEF chosen
<1>3. TabRecencyOK(chosen, t) /\ p \notin chosen.panes[t] /\ Listed(chosen) /\ Drawn(chosen)
  BY <1>2 DEF Good, Listed
<1>4. filled \in LayoutType /\ SameTree(chosen, filled)
  BY <1>2, TabAddPaneType
<1>5. OtherTabs(chosen, filled, t) /\ TabRecencyOK(filled, t)
  BY <1>2, <1>3, TabAddPaneScreen
<1> HIDE DEF filled
<1>6. Listed(filled)
  BY <1>3, <1>5, OneTabListed
<1>7. \A q \in Session : filled.activeTab[q] # t
  BY <1>2, <1>4 DEF SameTree
<1>8. filled.activeSession \in Session \cup {None}
  BY <1>4 DEF LayoutType
<1>9. Drawn(filled)
  <2>1. DrawnBut(filled, t)
    BY <1>2, <1>3, <1>4, <1>5, OneTabDrawn DEF SameTree
  <2> QED
    BY <1>7, <1>8, <2>1, DrawnIsBut
<1>10. NotElsewhere(filled, s, t) /\ NotElsewhere(filled, s, None) /\ DrawnBut(filled, None)
  BY <1>7, <1>8, <1>9, DrawnIsBut DEF NotElsewhere
<1>11. moved \in LayoutType /\ SameLists(filled, moved)
  BY <1>4, SessionSetActiveTabType, SessionSetActiveTabScreen
<1>12. Drawn(moved)
  BY <1>4, <1>7, <1>10, SelectDrawn
<1> HIDE DEF moved
<1>13. Listed(moved)
  BY <1>6, <1>11, SameListed
<1>14. Good(r)
  <2>1. SameLists(moved, r) /\ SameScreen(moved, r) /\ r.activeSession = moved.activeSession
        /\ r.activeTab = moved.activeTab
    BY <1>11 DEF SameLists, SameScreen, LayoutType
  <2> HIDE DEF r
  <2>2. Drawn(r)
    BY <1>12, <2>1 DEF Drawn, SessionDrawn, TabDrawn, Visible, SameLists, SameScreen
  <2> QED
    BY <1>13, <2>1, <2>2, SameListed DEF Good
<1> HIDE DEF r
<1> QED
  BY <1>1, <1>14, Zenon

\* LayoutState::add_session, whether the pane of its first tab is made or not.
LEMMA AddSessionGood ==
    ASSUME NEW st \in LayoutType, SessionsOK(st), NEW s \in Session \ Elems(st.sessions),
           NEW t \in Tab, NEW p \in Pane, Good(st),
           \A q \in Session : t \notin Elems(st.tabs[q]), p \notin st.panes[t]
    PROVE  Good(AddSession(st, s, t, p, TRUE)) /\ Good(AddSession(st, s, t, p, FALSE))
<1> DEFINE listed == [st EXCEPT !.sessions = Append(@, s)]
           chosen == SetActiveSession(listed, s, TRUE)
           failed == RemoveSession(chosen, s)
<1>1. /\ AddSession(st, s, t, p, TRUE) = AddTab(listed, s, t, p, TRUE)
      /\ AddSession(st, s, t, p, FALSE) = failed
  BY DEF AddSession, AddTab
<1>2. /\ listed \in LayoutType /\ SameLists(st, listed) /\ SameScreen(st, listed)
      /\ listed.activeSession = st.activeSession /\ listed.activeTab = st.activeTab
  <2>1. Append(st.sessions, s) \in Seq(Session)
    <3>1. st.sessions \in Seq(Session)
      BY DEF LayoutType
    <3> QED
      BY <3>1
  <2> QED
    BY <2>1 DEF LayoutType, SameLists, SameScreen
<1>3. \A q \in Session : st.activeTab[q] # t
  BY ConstantsAssumption DEF SessionsOK
<1>4. SessionsOK(failed)
  <2>1. SessionsOK(AddSession(st, s, t, p, FALSE))
    BY AddSessionOK, Zenon
  <2> QED
    BY <1>1, <2>1, Zenon
<1> HIDE DEF listed
<1>5. Good(listed)
  <2>1. Drawn(listed)
    BY <1>2 DEF Good, Drawn, SessionDrawn, TabDrawn, Visible, SameLists, SameScreen
  <2> QED
    BY <1>2, <2>1, SameListed DEF Good
<1>6. Good(AddTab(listed, s, t, p, TRUE))
  <2>1. /\ \A q \in Session : listed.activeTab[q] # t
        /\ p \notin listed.panes[t]
    BY <1>2, <1>3 DEF SameLists
  <2> QED
    BY <1>2, <1>5, <2>1, AddTabGood, Zenon
<1>7. chosen \in LayoutType /\ Good(chosen)
  BY <1>2, <1>5, SetActiveSessionType, SetActiveSessionGood
<1> HIDE DEF chosen
<1>8. Good(failed)
  BY <1>4, <1>7, RemoveSessionGood
<1> HIDE DEF failed
<1> QED
  BY <1>1, <1>6, <1>8, Zenon

\* A handler that changes one tab, the way it is drawn included.
LEMMA OneTabGood ==
    ASSUME NEW st \in LayoutType, NEW r, NEW t \in Tab, Good(st), OtherTabs(st, r, t),
           TabRecencyOK(r, t), SameTree(st, r),
           \A size : TabDrawn(st, t, size) => TabDrawn(r, t, size)
    PROVE  Good(r)
BY OneTabListed, OneTabDrawn DEF Good, SameTree

\* Only the focus, the popup or whether the session is active changes.
LEMMA FrameGood ==
    ASSUME NEW st, NEW r, Good(st), SameLists(st, r), SameScreen(st, r), SameTree(st, r)
    PROVE  Good(r)
BY SameListed, SameDrawn DEF Good

-----------------------------------------------------------------------------
(* The inductive step *)

LEMMA SInvFacts ==
    ASSUME SInv
    PROVE  /\ TypeOK /\ Places /\ layout \in LayoutType /\ SessionsOK(layout) /\ Good(layout)
           /\ \A p \in FreePanes : p \in Pane /\ \A t \in Tab : p \notin layout.panes[t]
           /\ \A t \in FreeTabs :
                 /\ t \in Tab
                 /\ \A q \in Session : t \notin Elems(layout.tabs[q])
                 /\ \A q \in Session : layout.activeTab[q] # t
<1>1. TypeOK /\ Places /\ layout \in LayoutType /\ SessionsOK(layout) /\ Good(layout) /\ OwnershipOK
  BY DEF SInv, PInv, IInv, TypeOK, OwnershipOK, Good
<1>2. \A p \in FreePanes : p \in Pane /\ \A t \in Tab : p \notin layout.panes[t]
  BY <1>1 DEF FreePanes, Places
<1>3. ASSUME NEW t \in FreeTabs
      PROVE  /\ t \in Tab
             /\ \A q \in Session : t \notin Elems(layout.tabs[q])
             /\ \A q \in Session : layout.activeTab[q] # t
  <2>1. t \in Tab /\ \A q \in Session : t \notin Elems(layout.tabs[q])
    BY <1>1, FreeTabUnlisted DEF FreeTabs
  <2> QED
    BY <1>1, <2>1, ConstantsAssumption DEF SessionsOK
<1> QED
  BY <1>1, <1>2, <1>3

\* create_tab, create_session (also when it fails) and add_pane.
LEMMA AddGood ==
    ASSUME SInv, CreateTab \/ CreateSession \/ CreateSessionFails \/ AddPaneAction
    PROVE  Good(layout')
<1>1. /\ TypeOK /\ layout \in LayoutType /\ SessionsOK(layout) /\ Good(layout)
  BY SInvFacts
<1>2. CASE CreateTab
  <2>1. PICK t \in FreeTabs, p \in FreePanes : layout' = AddTab(layout, layout.activeSession, t, p, TRUE)
    BY <1>2 DEF CreateTab
  <2>2. /\ t \in Tab /\ p \in Pane /\ p \notin layout.panes[t]
        /\ \A q \in Session : layout.activeTab[q] # t
    BY SInvFacts
  <2>3. layout.activeSession \in Session
    BY <1>2, ActiveOK DEF SInv, PInv, IInv, CreateTab, KeyAction, LockFree
  <2> QED
    BY <1>1, <2>1, <2>2, <2>3, AddTabGood, Zenon
<1>3. CASE CreateSession \/ CreateSessionFails
  <2>1. PICK s \in FreeSessions, t \in FreeTabs, p \in FreePanes :
           \/ layout' = AddSession(layout, s, t, p, TRUE)
           \/ layout' = AddSession(layout, s, t, p, FALSE)
    BY <1>3, Zenon DEF CreateSession, CreateSessionFails
  <2>2. /\ t \in Tab /\ p \in Pane /\ p \notin layout.panes[t]
        /\ \A q \in Session : t \notin Elems(layout.tabs[q])
    BY SInvFacts
  <2>3. s \in Session \ Elems(layout.sessions)
    BY DEF FreeSessions
  <2> QED
    BY <1>1, <2>1, <2>2, <2>3, AddSessionGood, Zenon
<1>4. CASE AddPaneAction
  <2> DEFINE s == layout.activeSession
             t == ActiveTab
             chosen == SetActiveSession(layout, s, TRUE)
  <2>1. PICK p \in FreePanes : layout' = AddPane(layout, s, t, p)
    BY <1>4 DEF AddPaneAction
  <2>2. s \in Session /\ t \in Tab
    BY <1>4, ActiveOK DEF SInv, PInv, IInv, AddPaneAction, KeyAction, LockFree
  <2>3. p \in Pane /\ p \notin layout.panes[t]
    BY <2>2, SInvFacts
  <2>4. layout' = TabAddPane(layout, t, p)
    BY <2>1 DEF AddPane, SetActiveSession
  <2>5. TabRecencyOK(layout, t)
    BY <1>1, <2>2 DEF Good, Listed
  <2> HIDE DEF t, s
  <2>6. /\ OtherTabs(layout, layout', t) /\ TabRecencyOK(layout', t)
        /\ layout'.tabSize = layout.tabSize /\ layout'.tree[t] = Visible(layout', t)
    BY <1>1, <2>2, <2>3, <2>4, <2>5, TabAddPaneScreen
  <2>7. SameTree(layout, layout')
    BY <1>1, <2>2, <2>3, <2>4, TabAddPaneType
  <2>8. \A size : TabDrawn(layout, t, size) => TabDrawn(layout', t, size)
    BY <2>6 DEF TabDrawn
  <2> QED
    BY <1>1, <2>2, <2>6, <2>7, <2>8, OneTabGood
<1> QED
  BY <1>2, <1>3, <1>4

\* Switching, selecting a pane that is drawn, full screen and resizing.
LEMMA SelectGood ==
    ASSUME SInv, SwitchTab \/ SwitchSession \/ Navigate \/ MousePress \/ ToggleFullScreen \/ RenderResize
    PROVE  Good(layout')
<1>1. /\ TypeOK /\ layout \in LayoutType /\ SessionsOK(layout) /\ Good(layout)
  BY SInvFacts
<1>2. /\ layout.activeSession \in Session /\ ActiveTab \in Elems(layout.tabs[layout.activeSession])
      /\ ActiveTab \in Tab /\ layout.activeSession \in Elems(layout.sessions)
      /\ layout.sessions # <<>>
  BY ActiveOK DEF SInv, PInv, IInv, SwitchTab, SwitchSession, Navigate, ToggleFullScreen, MousePress,
     RenderResize, RenderTurn, KeyAction, LockFree
<1>3. CASE SwitchTab
  BY <1>1, <1>2, <1>3, SetActiveTabGood DEF SwitchTab
<1>4. CASE SwitchSession
  <2>1. PICK s : s \in Session /\ layout' = SetActiveSession(layout, s, TRUE)
    <3> DEFINE n == Len(layout.sessions)
               Step(d) == ((IndexOf(layout.sessions, layout.activeSession) - 1 + d) % n) + 1
    <3>1. PICK d \in {1, -1} : layout' = SetActiveSession(layout, layout.sessions[Step(d)], TRUE)
      BY <1>4 DEF SwitchSession
    <3>2. layout.sessions \in Seq(Session)
      BY <1>1 DEF LayoutType
    <3>3. n \in Nat \ {0} /\ IndexOf(layout.sessions, layout.activeSession) \in 1 .. n
      BY <1>2, <3>2, IndexOfType
    <3>4. Step(d) \in 1 .. n
      <4> HIDE DEF n
      <4>1. IndexOf(layout.sessions, layout.activeSession) - 1 + d \in Int
        BY <3>3
      <4>2. \A k \in Int : k % n \in 0 .. n - 1
        BY <3>3
      <4> QED
        BY <3>3, <4>1, <4>2, SMTT(30)
    <3> HIDE DEF Step
    <3>5. layout.sessions[Step(d)] \in Session
      BY <3>2, <3>4
    <3> QED
      BY <3>1, <3>5
  <2> QED
    BY <1>1, <2>1, SetActiveSessionGood
<1>5. CASE Navigate \/ MousePress
  <2>1. PICK p \in layout.tree[ActiveTab] : layout' = TabSetActive(layout, ActiveTab, p)
    BY <1>5 DEF Navigate, MousePress
  <2>2. layout.activeSession # None /\ ActiveTab = layout.activeTab[layout.activeSession] /\ ActiveTab # None
    BY <1>2, ConstantsAssumption DEF ActiveTab
  <2>3. TabRecencyOK(layout, ActiveTab) /\ layout.tree[ActiveTab] = Visible(layout, ActiveTab)
    BY <1>1, <1>2, <2>2 DEF Good, Listed, Drawn, SessionDrawn, TabDrawn
  <2>4. p \in Pane /\ layout.recency[ActiveTab] \in Seq(Pane)
    BY <1>1, <1>2, <2>1 DEF LayoutType
  <2>5. p \in layout.panes[ActiveTab]
    <3>1. CASE layout.fullScreen[ActiveTab] = None
      BY <2>1, <2>3, <3>1 DEF Visible
    <3>2. CASE layout.fullScreen[ActiveTab] # None
      <4>1. p = layout.active[ActiveTab] /\ p # None /\ p = Front1(layout.recency[ActiveTab])
        BY <2>1, <2>3, <3>2 DEF Visible, TabRecencyOK
      <4>2. layout.recency[ActiveTab] # <<>> /\ p = layout.recency[ActiveTab][1]
        BY <4>1 DEF Front1
      <4>3. 1 \in 1 .. Len(layout.recency[ActiveTab])
        BY <2>4, <4>2
      <4>4. p \in Elems(layout.recency[ActiveTab])
        BY <4>2, <4>3 DEF Elems
      <4> QED
        BY <2>3, <4>4 DEF TabRecencyOK
    <3> QED
      BY <3>1, <3>2
  <2>6. SameTree(layout, layout')
    BY <1>1, <1>2, <2>1, <2>4, TabSetActiveType
  <2> DEFINE t == ActiveTab
  <2>7. t \in Tab
    BY <1>2
  <2>8. /\ OtherTabs(layout, layout', t) /\ TabRecencyOK(layout', t)
        /\ \A size : TabDrawn(layout, t, size) => TabDrawn(layout', t, size)
    BY <1>1, <1>2, <2>1, <2>3, <2>4, <2>5, TabSetActiveGood
  <2> HIDE DEF t
  <2> QED
    BY <1>1, <2>6, <2>7, <2>8, OneTabGood
<1>6. CASE ToggleFullScreen
  <2> DEFINE t == ActiveTab
  <2>1. PICK p \in Pane \cup {None} : p \in {None, layout.active[t]} /\ layout' = TabSetFullScreen(layout, t, p)
    <3>1. layout.active[t] \in Pane \cup {None}
      BY <1>1, <1>2 DEF LayoutType
    <3> QED
      BY <1>6, <3>1 DEF ToggleFullScreen
  <2>2. t \in Tab /\ TabRecencyOK(layout, t)
    BY <1>1, <1>2 DEF Good, Listed
  <2> HIDE DEF t
  <2>3. SameTree(layout, layout')
    BY <1>1, <2>1, <2>2, TabSetFullScreenType
  <2>4. /\ OtherTabs(layout, layout', t) /\ TabRecencyOK(layout', t)
        /\ \A size : TabDrawn(layout, t, size) => TabDrawn(layout', t, size)
    BY <1>1, <2>1, <2>2, TabSetFullScreenScreen
  <2> QED
    BY <1>1, <2>2, <2>3, <2>4, OneTabGood
<1>7. CASE RenderResize
  <2>1. PICK size \in Sizes : layout' = Layout(layout, size)
    BY <1>7 DEF RenderResize
  <2>2. SameLists(layout, layout') /\ Drawn(layout')
    BY <1>1, <2>1, LayoutScreen
  <2> QED
    BY <1>1, <2>2, SameListed DEF Good
<1> QED
  BY <1>3, <1>4, <1>5, <1>6, <1>7

\* The popup opens and closes, and its hooks select; a tab is clicked.
LEMMA PopupGood ==
    ASSUME SInv, OpenPopup \/ RenderRemovePopup \/ HookExtraOutput \/ HookFinishOutput \/ RenderTabClick
    PROVE  Good(layout')
<1>1. /\ TypeOK /\ layout \in LayoutType /\ SessionsOK(layout) /\ Good(layout) /\ OwnershipOK
      /\ layout.activeSession \in Session \cup {None} /\ layout.popup \in Pane \cup {None}
      /\ SameLists(layout, layout) /\ SameScreen(layout, layout) /\ SameTree(layout, layout)
  BY SInvFacts DEF LayoutType, OwnershipOK, SameLists, SameScreen, SameTree
<1>2. ASSUME NEW p \in Pane \cup {None}, NEW b \in BOOLEAN, NEW r,
             r = IF layout.activeSession = None THEN [layout EXCEPT !.popup = p]
                 ELSE SessionSetIsActive([layout EXCEPT !.popup = p], layout.activeSession, b)
      PROVE  r \in LayoutType /\ Good(r)
  <2> DEFINE shown == [layout EXCEPT !.popup = p]
  <2>1. shown \in LayoutType /\ SameLists(layout, shown) /\ SameScreen(layout, shown)
    BY <1>1 DEF LayoutType, SameLists, SameScreen
  <2>2. r \in LayoutType /\ SameTree(layout, r)
    BY <1>1, <1>2, PopupType
  <2> HIDE DEF shown
  <2>3. r = IF layout.activeSession = None THEN shown
            ELSE SessionSetIsActive(shown, layout.activeSession, b)
    BY <1>2 DEF shown
  <2>4. SameLists(shown, r) /\ SameScreen(shown, r)
    <3>1. CASE layout.activeSession = None
      BY <2>3, <3>1 DEF SameLists, SameScreen
    <3>2. CASE layout.activeSession # None
      BY <1>1, <2>1, <2>3, <3>2, SessionSetIsActiveScreen
    <3> QED
      BY <3>1, <3>2
  <2>5. SameLists(layout, r) /\ SameScreen(layout, r)
    BY <2>1, <2>4 DEF SameLists, SameScreen
  <2> QED
    BY <1>1, <2>2, <2>5, FrameGood
<1>3. CASE OpenPopup
  <2>1. PICK p \in FreePanes : layout' = PopupPane(layout, p)
    BY <1>3 DEF OpenPopup
  <2>2. p \in Pane
    BY DEF FreePanes
  <2> QED
    BY <1>2, <2>1, <2>2 DEF PopupPane
<1>4. CASE RenderRemovePopup
  <2> DEFINE hidden == RemovePopup(layout)
             f == hidden.focused \ {layout.popup}
  <2>1. layout' = layout \/ layout' = [hidden EXCEPT !.focused = f]
    BY <1>4 DEF RenderRemovePopup
  <2>2. hidden \in LayoutType /\ Good(hidden)
    BY <1>2 DEF RemovePopup
  <2> HIDE DEF hidden, f
  <2>3. CASE layout' = [hidden EXCEPT !.focused = f]
    <3>1. SameLists(hidden, layout') /\ SameScreen(hidden, layout') /\ SameTree(hidden, layout')
      BY <2>2, <2>3 DEF LayoutType, SameLists, SameScreen, SameTree
    <3> QED
      BY <2>2, <3>1, FrameGood
  <2> QED
    BY <1>1, <2>1, <2>3
<1>5. CASE HookExtraOutput \/ HookFinishOutput
  <2>1. ASSUME NEW s \in Elems(layout.sessions), NEW i, NEW focus \in BOOLEAN
        PROVE  Good(HookSelect(s, i, focus))
    <3>1. CASE hook.kind = "find_tab" /\ i \in 1 .. Len(layout.tabs[s])
      <4>1. layout.tabs[s][i] \in Elems(layout.tabs[s])
        BY <3>1 DEF Elems
      <4>2. HookSelect(s, i, focus) = SetActiveTab(layout, s, layout.tabs[s][i], focus)
        BY <3>1 DEF HookSelect
      <4> QED
        BY <1>1, <2>1, <4>1, <4>2, SetActiveTabGood
    <3>2. CASE hook.kind = "find_session" /\ i \in 1 .. Len(layout.sessions)
      <4>1. layout.sessions[i] \in Session
        BY <1>1, <3>2 DEF LayoutType
      <4>2. HookSelect(s, i, focus) = SetActiveSession(layout, layout.sessions[i], focus)
        BY <3>2 DEF HookSelect
      <4> QED
        BY <1>1, <4>1, <4>2, SetActiveSessionGood
    <3>3. CASE /\ ~(hook.kind = "find_tab" /\ i \in 1 .. Len(layout.tabs[s]))
               /\ ~(hook.kind = "find_session" /\ i \in 1 .. Len(layout.sessions))
      BY <1>1, <3>3 DEF HookSelect
    <3> QED
      BY <3>1, <3>2, <3>3
  <2>2. PICK i : \E s \in Elems(layout.sessions), focus \in BOOLEAN, outcome \in HookFaults :
           /\ fault' = outcome
           /\ layout' = IF outcome = "none" THEN HookSelect(s, i, focus) ELSE layout
    BY <1>1, <1>5, SInvFacts, HookDoes
  <2>3. PICK s \in Elems(layout.sessions), focus \in BOOLEAN, outcome \in HookFaults :
           layout' = IF outcome = "none" THEN HookSelect(s, i, focus) ELSE layout
    BY <2>2
  <2>4. CASE outcome = "none"
    BY <2>1, <2>3, <2>4
  <2>5. CASE outcome # "none"
    BY <1>1, <2>3, <2>5
  <2> QED
    BY <2>4, <2>5
<1>6. CASE RenderTabClick
  <2> DEFINE s == layout.activeSession
             i == Head(events).index
  <2>1. s \in Elems(layout.sessions)
    BY <1>6, ActiveOK DEF SInv, PInv, IInv, RenderTabClick, RenderTurn, LockFree
  <2>2. layout' = IF i \in 1 .. Len(layout.tabs[s])
                  THEN SetActiveTab(layout, s, layout.tabs[s][i], TRUE) ELSE layout
    BY <1>6 DEF RenderTabClick
  <2>3. i \in 1 .. Len(layout.tabs[s]) => layout.tabs[s][i] \in Elems(layout.tabs[s])
    BY DEF Elems
  <2> HIDE DEF s, i
  <2>4. CASE i \in 1 .. Len(layout.tabs[s])
    BY <1>1, <2>1, <2>2, <2>3, <2>4, SetActiveTabGood
  <2>5. CASE i \notin 1 .. Len(layout.tabs[s])
    BY <1>1, <2>2, <2>5
  <2> QED
    BY <2>4, <2>5
<1> QED
  BY <1>3, <1>4, <1>5, <1>6

\* A pane exits: the session, tab and pane of the event are listed, so that all of them can go.
LEMMA PaneExitedGood ==
    ASSUME SInv, RenderPaneExited
    PROVE  Good(layout')
<1> DEFINE ev == Head(events)
           unlisted == RemovePane(layout, ev.session, ev.tab, ev.pane)
<1>1. /\ TypeOK /\ Places /\ layout \in LayoutType /\ SessionsOK(layout) /\ Good(layout)
      /\ PInv /\ events # <<>> /\ ev.type = "PaneExited"
  BY SInvFacts DEF SInv, RenderPaneExited
<1>2. PICK p \in Pane : proc[p] = "exited" /\ p # leaving /\ ev = ExitEvent(p)
  BY <1>1, HeadExit
<1> DEFINE s == home[p].session
           t == home[p].tab
<1>3. /\ home[p] # NoHome /\ ev.pane = p /\ ev.session = s /\ ev.tab = t
      /\ s \in Session /\ t \in Tab
  BY <1>1, <1>2, ExitEventFacts, HomeFacts
<1>4. p # layout.popup
  BY <1>1, <1>3, ConstantsAssumption DEF Places
<1>5. t \in Elems(layout.tabs[s]) /\ p \in layout.panes[t]
  BY <1>1, <1>2, <1>4 DEF Places
<1>6. s \in Elems(layout.sessions)
  BY <1>1, <1>3, <1>5, EmptyElems DEF SessionsOK
<1>7. t \in LiveTabs
  BY <1>5, <1>6 DEF LiveTabs
<1>8. layout' = [unlisted EXCEPT !.focused = IF ev.pane \in layout.panes[ev.tab] THEN @ \ {ev.pane} ELSE @]
  BY <1>3, <1>5, <1>6, <1>7 DEF RenderPaneExited
<1>9. unlisted = RemovePane(layout, s, t, p)
  BY <1>3
<1> HIDE DEF ev, unlisted, s, t
<1>10. unlisted \in LayoutType
  BY <1>1, <1>3, <1>6, <1>9, RemovePaneOK
<1>11. Good(unlisted)
  BY <1>1, <1>5, <1>6, <1>9, RemovePaneGood
<1>12. SameLists(unlisted, layout') /\ SameScreen(unlisted, layout') /\ SameTree(unlisted, layout')
  BY <1>8, <1>10 DEF LayoutType, SameLists, SameScreen, SameTree
<1> QED
  BY <1>11, <1>12, FrameGood

\* The first tab is laid out as it is added.
LEMMA InitSInv == Init => SInv
<1> SUFFICES ASSUME Init PROVE SInv
  OBVIOUS
<1>1. PInv
  BY InitPInv
<1>2. PICK s \in Session, t \in Tab, p \in Pane, size \in Sizes :
         layout = AddSession(EmptyLayout(size), s, t, p, TRUE)
  BY DEF Init
<1> DEFINE st == EmptyLayout(size)
<1>3. st \in LayoutType /\ SessionsOK(st)
  BY InitialLayoutOK
<1>4. /\ st.sessions = <<>> /\ st.activeSession = None /\ st.tabs = [q \in Session |-> <<>>]
      /\ st.panes = [u \in Tab |-> {}] /\ st.recency = [u \in Tab |-> <<>>]
      /\ st.active = [u \in Tab |-> None] /\ st.fullScreen = [u \in Tab |-> None]
  BY DEF EmptyLayout
<1> HIDE DEF st
<1>5. Good(st)
  <2>1. Listed(st)
    BY <1>4, EmptyElems DEF Listed, TabRecencyOK, Front1
  <2> QED
    BY <1>4, <2>1 DEF Good, Drawn
<1>6. /\ s \in Session \ Elems(st.sessions) /\ p \notin st.panes[t]
      /\ \A q \in Session : t \notin Elems(st.tabs[q])
  BY <1>4, EmptyElems
<1>7. Good(AddSession(st, s, t, p, TRUE))
  BY <1>3, <1>5, <1>6, AddSessionGood, Zenon
<1>8. Good(layout)
  BY <1>2, <1>7, Zenon DEF st
<1> QED
  BY <1>1, <1>8 DEF SInv, Good

\* A press inside a popup is left out as well: it makes a pane active that the tab does not list.
LEMMA NextSInv ==
    ASSUME HardResetBound = FALSE, PopupClicks = FALSE
    PROVE  SInv /\ [Next]_vars => SInv'
<1> SUFFICES ASSUME SInv, [Next]_vars PROVE SInv'
  OBVIOUS
<1>1. PInv'
  BY NextPInv DEF SInv
<1>2. layout' = layout => Good(layout')
  BY SInvFacts
<1>3. Good(layout')
  <2>1. CASE KeyActions
    <3>1. ~HardReset
      BY DEF HardReset
    <3>2. ~HardResetEnd
      BY DEF HardResetEnd, SInv, PInv, Places
    <3> QED
      BY <2>1, <3>1, <3>2, AddGood, SelectGood, PopupGood DEF KeyActions
  <2>2. CASE MouseActions
    BY <1>2, <2>2, SelectGood DEF MouseActions, PopupPress, StatusBarPress
  <2>3. CASE HookActions
    BY <2>3, PopupGood DEF HookActions
  <2>4. CASE RenderActions
    BY <1>2, <2>4, PaneExitedGood, PopupGood, SelectGood
    DEF RenderActions, RenderPaneFreed, RenderPopupFreed
  <2>5. CASE \E p \in Pane : ProcessExit(p)
    BY <1>2, <2>5 DEF ProcessExit
  <2>6. CASE UNCHANGED vars
    BY <1>2, <2>6 DEF vars
  <2> QED
    BY <2>1, <2>2, <2>3, <2>4, <2>5, <2>6 DEF Next
<1> QED
  BY <1>1, <1>3 DEF SInv, Good, Listed, Drawn, SessionDrawn, TabDrawn, Visible, TabRecencyOK,
     Injective, Elems, Front1

LEMMA DrawnGivesScreen == SInv => RecencyOK /\ OnScreenOK
<1> SUFFICES ASSUME SInv PROVE RecencyOK /\ OnScreenOK
  OBVIOUS
<1>1. RecencyOK
  BY DEF SInv, Listed, RecencyOK
<1>2. ASSUME layout.sessions # <<>>
      PROVE  layout.tabSize[ActiveTab] = layout.size /\ layout.tree[ActiveTab] = Visible(layout, ActiveTab)
  <2>1. layout.activeSession \in Session /\ ActiveTab \in Tab
    BY <1>2, ActiveOK DEF SInv, PInv, IInv
  <2>2. layout.activeSession # None /\ ActiveTab = layout.activeTab[layout.activeSession] /\ ActiveTab # None
    BY <2>1, ConstantsAssumption DEF ActiveTab
  <2> QED
    BY <2>2 DEF SInv, Drawn, SessionDrawn, TabDrawn
<1> QED
  BY <1>1, <1>2 DEF OnScreenOK, Visible

-----------------------------------------------------------------------------
(* Theorems *)

\* Tab::remove_pane takes the next active pane from the list of recency, and the handlers take the
\* active pane for one of the tab's (tab.cpp:40-59 and 281-307, input.cpp:453): the list is that of the panes
\* of the layout, each once and the active one first, and every pane has one owner.
THEOREM Listing == HardResetBound = FALSE /\ PopupClicks = FALSE => (Spec => []PanesOK)
<1> SUFFICES ASSUME HardResetBound = FALSE, PopupClicks = FALSE PROVE Spec => []PanesOK
  OBVIOUS
<1>1. SInv /\ [Next]_vars => SInv'
  BY NextSInv
<1>2. SInv => PanesOK
  BY DrawnGivesScreen, PlacesGivesOwned DEF SInv, PanesOK
<1> QED
  BY <1>1, <1>2, InitSInv, PTL DEF Spec

\* The render thread draws the layout tree of the active tab as it finds it (render.cpp:479-518):
\* it is laid out at the current size, with the panes the tab has, whichever session, tab or pane
\* was removed, resized or changed while it was hidden.
THEOREM UpToDate == HardResetBound = FALSE /\ PopupClicks = FALSE => (Spec => []OnScreenOK)
<1> SUFFICES ASSUME HardResetBound = FALSE, PopupClicks = FALSE PROVE Spec => []OnScreenOK
  OBVIOUS
<1>1. SInv /\ [Next]_vars => SInv'
  BY NextSInv
<1>2. SInv => OnScreenOK
  BY DrawnGivesScreen
<1> QED
  BY <1>1, <1>2, InitSInv, PTL DEF Spec

-----------------------------------------------------------------------------
(***************************************************************************)
(* 3. One pane believes it has the focus, the active one on the screen,    *)
(* and the exit of another pane leaves it alone.                           *)
(*                                                                         *)
(* The argument.  Either no session is active, which only a popup or a     *)
(* preview in one may cause, or the session on the screen is; its active   *)
(* tab and nothing else is active then, and that tab's active pane is the  *)
(* one that was told.  set_is_active and set_active of the three classes   *)
(* leave before they enter, so that this holds between the two as well.    *)
(***************************************************************************)

(* Who has the focus *)

\* Tab t, or none, is active, and its active pane has been told.
FocusIn(st, t) ==
    /\ \A u \in Tab : st.tabIsActive[u] <=> u = t
    /\ \A p \in Pane : p \in st.focused <=> t # None /\ p = st.active[t]

SessionIn(st, s) == \A q \in Session : st.sessionIsActive[q] <=> q = s

TabOf(st, s) == IF s = None THEN None ELSE st.activeTab[s]

FocusAt(st, s) == SessionIn(st, s) /\ FocusIn(st, TabOf(st, s))

\* The active session has the focus.
Awake(st) == FocusAt(st, st.activeSession)

\* Only the popup takes it away from the active session.
Focus(st) == (FocusAt(st, None) \/ Awake(st)) /\ (st.popup = None => Awake(st))

FInv == SInv /\ Focus(layout)

\* What a method does to the focus: it stays where it is, or goes where the active session goes.
Moved(st, r) ==
    (FocusAt(st, None) \/ Awake(st) => FocusAt(r, None) \/ Awake(r)) /\ (Awake(st) => Awake(r))

\* The fields that say who has it.
SameFocus(st, r) ==
    r.tabIsActive = st.tabIsActive /\ r.focused = st.focused /\ r.active = st.active
      /\ r.sessionIsActive = st.sessionIsActive

LEMMA SameFocusAt ==
    ASSUME NEW st, NEW r, SameFocus(st, r), NEW x, FocusIn(st, x)
    PROVE  FocusIn(r, x)
BY DEF SameFocus, FocusIn

\* Tab::layout.
LEMMA TabLayoutFocus ==
    ASSUME NEW st \in LayoutType, NEW t \in Tab, NEW size
    PROVE  SameFocus(st, TabLayout(st, t, size))
BY DEF TabLayout, LayoutType, SameFocus

\* Session::layout.
LEMMA SessionLayoutFocus ==
    ASSUME NEW st \in LayoutType, NEW s \in Session, NEW size \in Sizes \cup {None}
    PROVE  SameFocus(st, SessionLayout(st, s, size))
<1> DEFINE sized == [st EXCEPT !.sessionSize[s] = size]
<1>1. sized \in LayoutType /\ SameFocus(st, sized) /\ st.activeTab[s] \in Tab \cup {None}
  BY DEF LayoutType, SameFocus
<1>2. SessionLayout(st, s, size) =
        IF st.activeTab[s] = None THEN sized ELSE TabLayout(sized, st.activeTab[s], size)
  BY DEF SessionLayout
<1> HIDE DEF sized
<1> QED
  BY <1>1, <1>2, TabLayoutFocus DEF SameFocus

\* LayoutState::layout.
LEMMA LayoutFocus ==
    ASSUME NEW st \in LayoutType, NEW size \in Sizes
    PROVE  SameFocus(st, Layout(st, size))
<1> DEFINE sized == [st EXCEPT !.size = size]
<1>1. /\ sized \in LayoutType /\ SameFocus(st, sized)
      /\ st.activeSession \in Session \cup {None} /\ size \in Sizes \cup {None}
  BY DEF LayoutType, SameFocus
<1>2. Layout(st, size) =
        IF st.activeSession = None THEN sized ELSE SessionLayout(sized, st.activeSession, size)
  BY DEF Layout
<1> HIDE DEF sized
<1> QED
  BY <1>1, <1>2, SessionLayoutFocus DEF SameFocus

\* Tab::set_active moves the focus with the active pane, when the tab has it.
LEMMA TabSetActiveFocus ==
    ASSUME NEW st \in LayoutType, NEW t \in Tab, NEW p \in Pane \cup {None}, NEW x \in Tab \cup {None},
           FocusIn(st, x)
    PROVE  /\ FocusIn(TabSetActive(st, t, p), x)
           /\ TabSetActive(st, t, p).sessionIsActive = st.sessionIsActive
<1> DEFINE windowed == [st EXCEPT !.fullScreen[t] = None]
           cleared == IF st.fullScreen[t] \in {None, p} THEN st
                      ELSE TabLayout(windowed, t, st.tabSize[t])
           active2 == [cleared.active EXCEPT ![t] = p]
           recency2 == [cleared.recency EXCEPT ![t] = IF p = None THEN @ ELSE <<p>> \o Without(@, p)]
           focused2 == IF st.tabIsActive[t] THEN (cleared.focused \ {st.active[t]}) \cup NonNull(p)
                       ELSE cleared.focused
           r == [cleared EXCEPT !.active = active2, !.recency = recency2, !.focused = focused2]
<1>1. windowed \in LayoutType /\ SameFocus(st, windowed) /\ st.tabSize[t] \in Sizes \cup {None}
  BY DEF LayoutType, SameFocus
<1>2. TabSetActive(st, t, p) = IF st.active[t] = p THEN st ELSE r
  BY DEF TabSetActive, LayoutType
<1> HIDE DEF windowed
<1>3. cleared \in LayoutType /\ SameFocus(st, cleared)
  <2>1. CASE st.fullScreen[t] \in {None, p}
    BY <2>1 DEF SameFocus
  <2>2. CASE st.fullScreen[t] \notin {None, p}
    <3>1. cleared = TabLayout(windowed, t, st.tabSize[t])
      BY <2>2
    <3> HIDE DEF cleared
    <3> QED
      BY <1>1, <3>1, TabLayoutType, TabLayoutFocus DEF SameFocus
  <2> QED
    BY <2>1, <2>2
<1> HIDE DEF cleared
<1>4. st.active \in [Tab -> Pane \cup {None}] /\ st.focused \subseteq Pane
  BY DEF LayoutType
<1>5. active2 = [st.active EXCEPT ![t] = p]
  BY <1>3 DEF SameFocus
<1>6. \A q \in Pane : q \in focused2 <=> x # None /\ q = active2[x]
  <2>1. CASE t = x
    <3>1. st.tabIsActive[t]
      BY <2>1 DEF FocusIn
    <3>2. focused2 = (st.focused \ {st.active[t]}) \cup NonNull(p)
      BY <1>3, <3>1 DEF SameFocus
    <3>3. active2[x] = p /\ x # None
      BY <1>4, <1>5, <2>1, ConstantsAssumption
    <3>4. \A q \in Pane : q \in st.focused <=> q = st.active[t]
      BY <2>1, <3>3 DEF FocusIn
    <3> HIDE DEF focused2, active2
    <3> QED
      BY <3>2, <3>3, <3>4, ConstantsAssumption DEF NonNull
  <2>2. CASE t # x
    <3>1. ~st.tabIsActive[t]
      BY <2>2 DEF FocusIn
    <3>2. focused2 = st.focused
      BY <1>3, <3>1 DEF SameFocus
    <3>3. x # None => active2[x] = st.active[x]
      BY <1>4, <1>5, <2>2
    <3> HIDE DEF focused2, active2
    <3> QED
      BY <3>2, <3>3 DEF FocusIn
  <2> QED
    BY <2>1, <2>2
<1> HIDE DEF active2, recency2, focused2
<1>7. /\ r.tabIsActive = st.tabIsActive /\ r.sessionIsActive = st.sessionIsActive
      /\ r.active = active2 /\ r.focused = focused2
  BY <1>3 DEF LayoutType, SameFocus
<1> HIDE DEF r
<1>8. FocusIn(r, x)
  BY <1>6, <1>7 DEF FocusIn
<1> QED
  BY <1>2, <1>7, <1>8

\* Tab::set_is_active.
LEMMA TabEnterFocus ==
    ASSUME NEW st \in LayoutType, NEW t \in Tab, FocusIn(st, None)
    PROVE  /\ FocusIn(TabSetIsActive(st, t, TRUE), t)
           /\ TabSetIsActive(st, t, TRUE).sessionIsActive = st.sessionIsActive
<1> DEFINE tabIsActive2 == [st.tabIsActive EXCEPT ![t] = TRUE]
           focused2 == (st.focused \ {st.active[t]}) \cup NonNull(st.active[t])
           r == [st EXCEPT !.tabIsActive = tabIsActive2, !.focused = focused2]
<1>1. ~st.tabIsActive[t] /\ t # None
  BY ConstantsAssumption DEF FocusIn
<1>2. TabSetIsActive(st, t, TRUE) = r
  BY <1>1 DEF TabSetIsActive, LayoutType
<1>3. \A u \in Tab : tabIsActive2[u] <=> u = t
  <2>1. st.tabIsActive \in [Tab -> BOOLEAN]
    BY DEF LayoutType
  <2>2. \A u \in Tab : ~st.tabIsActive[u]
    BY ConstantsAssumption DEF FocusIn
  <2> QED
    BY <2>1, <2>2
<1>4. st.active[t] \in Pane \cup {None} /\ \A q \in Pane : q \notin st.focused
  BY DEF FocusIn, LayoutType
<1>5. \A q \in Pane : q \in focused2 <=> q = st.active[t]
  BY <1>4, ConstantsAssumption DEF NonNull
<1> HIDE DEF tabIsActive2, focused2
<1>6. /\ r.tabIsActive = tabIsActive2 /\ r.focused = focused2 /\ r.active = st.active
      /\ r.sessionIsActive = st.sessionIsActive
  BY DEF LayoutType
<1> HIDE DEF r
<1>7. FocusIn(r, t)
  BY <1>1, <1>3, <1>5, <1>6 DEF FocusIn
<1> QED
  BY <1>2, <1>6, <1>7, Zenon

LEMMA TabLeaveFocus ==
    ASSUME NEW st \in LayoutType, NEW t \in Tab, FocusIn(st, t)
    PROVE  /\ FocusIn(TabSetIsActive(st, t, FALSE), None)
           /\ TabSetIsActive(st, t, FALSE).sessionIsActive = st.sessionIsActive
<1> DEFINE tabIsActive2 == [st.tabIsActive EXCEPT ![t] = FALSE]
           focused2 == (st.focused \ {st.active[t]}) \cup {}
           r == [st EXCEPT !.tabIsActive = tabIsActive2, !.focused = focused2]
<1>1. st.tabIsActive[t] /\ t # None
  BY ConstantsAssumption DEF FocusIn
<1>2. TabSetIsActive(st, t, FALSE) = r
  BY <1>1 DEF TabSetIsActive, LayoutType
<1>3. \A u \in Tab : tabIsActive2[u] <=> u = None
  <2>1. st.tabIsActive \in [Tab -> BOOLEAN]
    BY DEF LayoutType
  <2>2. \A u \in Tab : st.tabIsActive[u] <=> u = t
    BY DEF FocusIn
  <2> QED
    BY <2>1, <2>2, ConstantsAssumption
<1>4. \A q \in Pane : q \notin focused2
  BY <1>1 DEF FocusIn
<1> HIDE DEF tabIsActive2, focused2
<1>6. /\ r.tabIsActive = tabIsActive2 /\ r.focused = focused2 /\ r.active = st.active
      /\ r.sessionIsActive = st.sessionIsActive
  BY DEF LayoutType
<1> HIDE DEF r
<1>7. FocusIn(r, None)
  BY <1>3, <1>4, <1>6 DEF FocusIn
<1> QED
  BY <1>2, <1>6, <1>7, Zenon

\* Session::set_is_active.
LEMMA SessionEnterFocus ==
    ASSUME NEW st \in LayoutType, NEW s \in Session, FocusAt(st, None)
    PROVE  FocusAt(SessionSetIsActive(st, s, TRUE), s)
<1> DEFINE sessionIsActive2 == [st.sessionIsActive EXCEPT ![s] = TRUE]
           set == [st EXCEPT !.sessionIsActive = sessionIsActive2]
           t == st.activeTab[s]
           r == SessionSetIsActive(st, s, TRUE)
<1>1. ~st.sessionIsActive[s] /\ s # None /\ FocusIn(st, None)
  BY ConstantsAssumption DEF FocusAt, SessionIn, TabOf
<1>2. r = IF t = None THEN set ELSE TabSetIsActive(set, t, TRUE)
  BY <1>1 DEF SessionSetIsActive, LayoutType
<1>3. \A q \in Session : sessionIsActive2[q] <=> q = s
  <2>1. st.sessionIsActive \in [Session -> BOOLEAN]
    BY DEF LayoutType
  <2>2. \A q \in Session : ~st.sessionIsActive[q]
    BY ConstantsAssumption DEF FocusAt, SessionIn
  <2> QED
    BY <2>1, <2>2
<1>4. sessionIsActive2 \in [Session -> BOOLEAN] /\ t \in Tab \cup {None}
  BY DEF LayoutType
<1> HIDE DEF sessionIsActive2, t
<1>5. /\ set \in LayoutType /\ set.sessionIsActive = sessionIsActive2
      /\ set.tabIsActive = st.tabIsActive /\ set.focused = st.focused /\ set.active = st.active
      /\ set.activeTab = st.activeTab
  BY <1>4 DEF LayoutType
<1> HIDE DEF set
<1>6. FocusIn(set, None)
  BY <1>1, <1>5 DEF FocusIn
<1>7. r.activeTab = st.activeTab
  <2>1. SameTree(st, r)
    BY SessionSetIsActiveType
  <2> QED
    BY <2>1 DEF SameTree
<1> HIDE DEF r
<1>8. r.sessionIsActive = sessionIsActive2 /\ FocusIn(r, t)
  <2>1. CASE t = None
    BY <1>2, <1>5, <1>6, <2>1
  <2>2. CASE t # None
    <3>1. t \in Tab
      BY <1>4, <2>2
    <3>2. r = TabSetIsActive(set, t, TRUE)
      BY <1>2, <2>2, Zenon
    <3>3. FocusIn(r, t) /\ r.sessionIsActive = set.sessionIsActive
      BY <1>5, <1>6, <3>1, <3>2, TabEnterFocus, Zenon
    <3> QED
      BY <1>5, <3>3
  <2> QED
    BY <2>1, <2>2
<1>9. SessionIn(r, s)
  BY <1>3, <1>8 DEF SessionIn
<1>10. FocusAt(r, s)
  BY <1>1, <1>7, <1>8, <1>9 DEF FocusAt, TabOf, t
<1> QED
  BY <1>10 DEF r

LEMMA SessionLeaveFocus ==
    ASSUME NEW st \in LayoutType, NEW s \in Session, FocusAt(st, s)
    PROVE  FocusAt(SessionSetIsActive(st, s, FALSE), None)
<1> DEFINE sessionIsActive2 == [st.sessionIsActive EXCEPT ![s] = FALSE]
           set == [st EXCEPT !.sessionIsActive = sessionIsActive2]
           t == st.activeTab[s]
           r == SessionSetIsActive(st, s, FALSE)
<1>1. st.sessionIsActive[s] /\ s # None /\ FocusIn(st, t)
  BY ConstantsAssumption DEF FocusAt, SessionIn, TabOf
<1>2. r = IF t = None THEN set ELSE TabSetIsActive(set, t, FALSE)
  BY <1>1 DEF SessionSetIsActive, LayoutType
<1>3. \A q \in Session : sessionIsActive2[q] <=> q = None
  <2>1. st.sessionIsActive \in [Session -> BOOLEAN]
    BY DEF LayoutType
  <2>2. \A q \in Session : st.sessionIsActive[q] <=> q = s
    BY DEF FocusAt, SessionIn
  <2> QED
    BY <2>1, <2>2, ConstantsAssumption
<1>4. sessionIsActive2 \in [Session -> BOOLEAN] /\ t \in Tab \cup {None}
  BY DEF LayoutType
<1> HIDE DEF sessionIsActive2, t
<1>5. /\ set \in LayoutType /\ set.sessionIsActive = sessionIsActive2
      /\ set.tabIsActive = st.tabIsActive /\ set.focused = st.focused /\ set.active = st.active
      /\ set.activeTab = st.activeTab
  BY <1>4 DEF LayoutType
<1> HIDE DEF set
<1>6. FocusIn(set, t)
  BY <1>1, <1>5 DEF FocusIn
<1> HIDE DEF r
<1>8. r.sessionIsActive = sessionIsActive2 /\ FocusIn(r, None)
  <2>1. CASE t = None
    BY <1>2, <1>5, <1>6, <2>1
  <2>2. CASE t # None
    <3>1. t \in Tab
      BY <1>4, <2>2
    <3>2. r = TabSetIsActive(set, t, FALSE)
      BY <1>2, <2>2, Zenon
    <3>3. FocusIn(r, None) /\ r.sessionIsActive = set.sessionIsActive
      BY <1>5, <1>6, <3>1, <3>2, TabLeaveFocus, Zenon
    <3> QED
      BY <1>5, <3>3
  <2> QED
    BY <2>1, <2>2
<1>9. SessionIn(r, None)
  BY <1>3, <1>8 DEF SessionIn
<1>10. FocusAt(r, None)
  BY <1>8, <1>9 DEF FocusAt, TabOf
<1> QED
  BY <1>10 DEF r

\* Setting what is set already does nothing.
LEMMA SessionStaysFocus ==
    ASSUME NEW st \in LayoutType, NEW s \in Session
    PROVE  /\ FocusAt(st, s) => SessionSetIsActive(st, s, TRUE) = st
           /\ FocusAt(st, None) => SessionSetIsActive(st, s, FALSE) = st
<1>1. st.sessionIsActive[s] \in BOOLEAN /\ s # None
  BY ConstantsAssumption DEF LayoutType
<1>2. FocusAt(st, s) => st.sessionIsActive[s]
  BY DEF FocusAt, SessionIn
<1>3. FocusAt(st, None) => ~st.sessionIsActive[s]
  BY <1>1 DEF FocusAt, SessionIn
<1> QED
  BY <1>1, <1>2, <1>3 DEF SessionSetIsActive

\* Session::set_active_tab moves the focus with the active tab, when the session has it.
LEMMA SessionSetActiveTabFocus ==
    ASSUME NEW st \in LayoutType, NEW s \in Session, NEW t \in Tab \cup {None},
           NEW x \in Session \cup {None}, FocusAt(st, x)
    PROVE  FocusAt(SessionSetActiveTab(st, s, t), x)
<1> DEFINE old == st.activeTab[s]
           left == IF st.sessionIsActive[s] /\ old # None THEN TabSetIsActive(st, old, FALSE) ELSE st
           moved == [left EXCEPT !.activeTab[s] = t]
           entered == IF st.sessionIsActive[s] /\ t # None
                      THEN TabSetIsActive(moved, t, TRUE) ELSE moved
           size == st.sessionSize[s]
           r == SessionLayout(entered, s, size)
<1>1. SessionSetActiveTab(st, s, t) = IF old = t THEN st ELSE r
  BY DEF SessionSetActiveTab
<1>2. old \in Tab \cup {None} /\ size \in Sizes \cup {None} /\ (st.sessionIsActive[s] <=> x = s)
      /\ s # None /\ st.activeTab \in [Session -> Tab \cup {None}]
  BY ConstantsAssumption DEF LayoutType, FocusAt, SessionIn
<1>3. FocusIn(st, TabOf(st, x)) /\ SessionIn(st, x) /\ (x = s => TabOf(st, x) = old)
  BY <1>2 DEF FocusAt, TabOf
<1>4. SameTree([st EXCEPT !.activeTab[s] = t], SessionSetActiveTab(st, s, t))
  BY SessionSetActiveTabType
<1>5. st.activeTab[s] # t => r.activeTab = [st.activeTab EXCEPT ![s] = t]
  BY <1>1, <1>4 DEF SameTree, LayoutType
<1> HIDE DEF old, size
<1>6. CASE x = s
  <2>1. left \in LayoutType /\ FocusIn(left, None) /\ left.sessionIsActive = st.sessionIsActive
    <3>1. CASE old = None
      BY <1>2, <1>3, <1>6, <3>1
    <3>2. CASE old # None
      <4>1. old \in Tab /\ left = TabSetIsActive(st, old, FALSE)
        BY <1>2, <1>6, <3>2
      <4>2. FocusIn(st, old)
        BY <1>3, <1>6
      <4> HIDE DEF left
      <4>3. left \in LayoutType
        BY <4>1, TabSetIsActiveType
      <4> QED
        BY <4>1, <4>2, <4>3, TabLeaveFocus, Zenon
    <3> QED
      BY <3>1, <3>2
  <2> HIDE DEF left
  <2>2. moved \in LayoutType /\ SameFocus(left, moved)
    BY <2>1 DEF LayoutType, SameFocus
  <2> HIDE DEF moved
  <2>3. FocusIn(moved, None) /\ moved.sessionIsActive = st.sessionIsActive
    BY <2>1, <2>2, SameFocusAt DEF SameFocus
  <2>4. entered \in LayoutType /\ FocusIn(entered, t) /\ entered.sessionIsActive = st.sessionIsActive
    <3>1. CASE t = None
      BY <2>2, <2>3, <3>1
    <3>2. CASE t # None
      <4>1. t \in Tab /\ entered = TabSetIsActive(moved, t, TRUE)
        BY <1>2, <1>6, <3>2
      <4> HIDE DEF entered
      <4>2. entered \in LayoutType
        BY <2>2, <4>1, TabSetIsActiveType
      <4>3. FocusIn(entered, t) /\ entered.sessionIsActive = moved.sessionIsActive
        BY <2>2, <2>3, <4>1, TabEnterFocus, Zenon
      <4> QED
        BY <2>3, <4>2, <4>3
    <3> QED
      BY <3>1, <3>2
  <2> HIDE DEF entered
  <2>5. SameFocus(entered, r)
    BY <1>2, <2>4, SessionLayoutFocus
  <2> HIDE DEF r
  <2>6. CASE old = t
    BY <1>1, <2>6
  <2>7. CASE old # t
    <3>1. FocusIn(r, t) /\ r.sessionIsActive = st.sessionIsActive
      BY <2>4, <2>5, SameFocusAt DEF SameFocus
    <3>2. TabOf(r, x) = t
      BY <1>2, <1>5, <1>6, <2>7 DEF TabOf, old
    <3>3. FocusAt(r, x)
      BY <1>3, <3>1, <3>2 DEF FocusAt, SessionIn
    <3> QED
      BY <1>1, <2>7, <3>3
  <2> QED
    BY <2>6, <2>7
<1>7. CASE x # s
  <2>1. left = st
    BY <1>2, <1>7
  <2>2. entered = moved /\ moved = [st EXCEPT !.activeTab[s] = t]
    BY <1>2, <1>7, <2>1
  <2> HIDE DEF entered, moved, left
  <2>3. moved \in LayoutType /\ SameFocus(st, moved)
    BY <2>2 DEF LayoutType, SameFocus
  <2>4. SameFocus(moved, r)
    BY <1>2, <2>2, <2>3, SessionLayoutFocus
  <2> HIDE DEF r
  <2>5. CASE old = t
    BY <1>1, <2>5
  <2>6. CASE old # t
    <3>1. FocusIn(r, TabOf(st, x)) /\ r.sessionIsActive = st.sessionIsActive
      BY <1>3, <2>3, <2>4, SameFocusAt DEF SameFocus
    <3>2. TabOf(r, x) = TabOf(st, x)
      BY <1>2, <1>5, <1>7, <2>6 DEF TabOf, old
    <3>3. FocusAt(r, x)
      BY <1>3, <3>1, <3>2 DEF FocusAt, SessionIn
    <3> QED
      BY <1>1, <2>6, <3>3
  <2> QED
    BY <2>5, <2>6
<1> QED
  BY <1>6, <1>7

\* LayoutState::set_active_session moves the focus to the session, or takes it away (a preview).
LEMMA SetActiveSessionFocus ==
    ASSUME NEW st \in LayoutType, NEW s \in Session \cup {None}, NEW focus \in BOOLEAN,
           FocusAt(st, None) \/ Awake(st)
    PROVE  /\ st.activeSession # s =>
                 FocusAt(SetActiveSession(st, s, focus), IF focus THEN s ELSE None)
           /\ st.activeSession = s => SetActiveSession(st, s, focus) = st
<1> DEFINE a == st.activeSession
           left == IF a # None THEN SessionSetIsActive(st, a, FALSE) ELSE st
           moved == [left EXCEPT !.activeSession = s]
           entered == IF focus /\ s # None THEN SessionSetIsActive(moved, s, TRUE) ELSE moved
           x == IF focus THEN s ELSE None
           r == Layout(entered, entered.size)
<1>1. SetActiveSession(st, s, focus) = IF a = s THEN st ELSE r
  BY DEF SetActiveSession
<1>2. a \in Session \cup {None} /\ (FocusAt(st, None) \/ FocusAt(st, a))
  BY DEF LayoutType, Awake
<1> HIDE DEF a
<1>3. left \in LayoutType /\ FocusAt(left, None)
  <2>1. CASE a = None
    BY <1>2, <2>1
  <2>2. CASE a # None
    <3>1. a \in Session /\ left = SessionSetIsActive(st, a, FALSE)
      BY <1>2, <2>2
    <3> HIDE DEF left
    <3>2. left \in LayoutType
      BY <3>1, SessionSetIsActiveType
    <3>3. CASE FocusAt(st, None)
      BY <3>1, <3>2, <3>3, SessionStaysFocus, Zenon
    <3>4. CASE FocusAt(st, a)
      BY <3>1, <3>2, <3>4, SessionLeaveFocus, Zenon
    <3> QED
      BY <1>2, <3>3, <3>4
  <2> QED
    BY <2>1, <2>2
<1> HIDE DEF left
<1>4. moved \in LayoutType /\ SameFocus(left, moved)
  BY <1>3 DEF LayoutType, SameFocus
<1> HIDE DEF moved
<1>5. FocusAt(moved, None)
  BY <1>3, <1>4, SameFocusAt DEF FocusAt, SessionIn, TabOf, SameFocus
<1>6. entered \in LayoutType /\ FocusAt(entered, x) /\ entered.size \in Sizes
  <2>1. CASE focus /\ s # None
    <3>1. s \in Session /\ entered = SessionSetIsActive(moved, s, TRUE) /\ x = s
      BY <2>1
    <3> HIDE DEF entered, x
    <3>2. entered \in LayoutType
      BY <1>4, <3>1, SessionSetIsActiveType
    <3>3. FocusAt(entered, x)
      BY <1>4, <1>5, <3>1, SessionEnterFocus, Zenon
    <3> QED
      BY <3>2, <3>3 DEF LayoutType
  <2>2. CASE ~(focus /\ s # None)
    <3>1. entered = moved /\ x = None
      BY <2>2
    <3> HIDE DEF entered, x
    <3> QED
      BY <1>4, <1>5, <3>1 DEF LayoutType
  <2> QED
    BY <2>1, <2>2
<1> HIDE DEF entered, x
<1>7. SameFocus(entered, r) /\ SameTree(entered, r)
  BY <1>6, LayoutFocus, LayoutStructure
<1> HIDE DEF r
<1>8. FocusAt(r, x)
  <2>1. FocusIn(r, TabOf(entered, x)) /\ TabOf(entered, x) = TabOf(r, x)
    BY <1>6, <1>7, SameFocusAt DEF FocusAt, TabOf, SameTree
  <2> QED
    BY <1>6, <1>7, <2>1 DEF FocusAt, SessionIn, SameFocus
<1> QED
  BY <1>1, <1>8 DEF a, x

\* The same, for a caller that gives the session the focus.
LEMMA SetActiveSessionMoved ==
    ASSUME NEW st \in LayoutType, NEW s \in Session \cup {None}
    PROVE  Moved(st, SetActiveSession(st, s, TRUE))
<1> SUFFICES ASSUME FocusAt(st, None) \/ Awake(st)
             PROVE  Moved(st, SetActiveSession(st, s, TRUE))
  BY DEF Moved
<1> DEFINE r == SetActiveSession(st, s, TRUE)
<1>1. st.activeSession = s => r = st
  BY SetActiveSessionFocus
<1>2. st.activeSession # s => FocusAt(r, s)
  BY SetActiveSessionFocus
<1>3. SameTree([st EXCEPT !.activeSession = s], r)
  BY SetActiveSessionType
<1> HIDE DEF r
<1>4. r.activeSession = s
  BY <1>3 DEF SameTree, LayoutType
<1>5. Moved(st, r)
  BY <1>1, <1>2, <1>4 DEF Moved, Awake
<1> QED
  BY <1>5 DEF r

\* LayoutState::set_active_tab.
LEMMA SetActiveTabFocus ==
    ASSUME NEW st \in LayoutType, NEW s \in Session, NEW t \in Tab, NEW focus \in BOOLEAN
    PROVE  /\ Moved(st, SetActiveTab(st, s, t, focus))
           /\ SetActiveTab(st, s, t, focus).popup = st.popup
<1> DEFINE chosen == IF focus THEN SetActiveSession(st, s, TRUE) ELSE st
           r == SessionSetActiveTab(chosen, s, t)
<1>1. SetActiveTab(st, s, t, focus) = r
  BY DEF SetActiveTab
<1>2. chosen \in LayoutType /\ Moved(st, chosen) /\ chosen.popup = st.popup
  <2>1. CASE focus = TRUE
    <3>1. chosen = SetActiveSession(st, s, TRUE)
      BY <2>1
    <3> HIDE DEF chosen
    <3> QED
      BY <3>1, SetActiveSessionType, SetActiveSessionMoved, SetActiveSessionOwners DEF SameOwners
  <2>2. CASE focus = FALSE
    BY <2>2 DEF Moved
  <2> QED
    BY <2>1, <2>2
<1> HIDE DEF chosen
<1>3. \A x \in Session \cup {None} : FocusAt(chosen, x) => FocusAt(r, x)
  BY <1>2, SessionSetActiveTabFocus
<1>4. SameTree([chosen EXCEPT !.activeTab[s] = t], r) /\ SameOwners(chosen, r)
  BY <1>2, SessionSetActiveTabType, SessionSetActiveTabOwners
<1> HIDE DEF r
<1>5. r.activeSession = chosen.activeSession /\ chosen.activeSession \in Session \cup {None}
  BY <1>2, <1>4 DEF SameTree, LayoutType
<1>6. Moved(st, r)
  BY <1>2, <1>3, <1>5 DEF Moved, Awake
<1> QED
  BY <1>1, <1>2, <1>4, <1>6 DEF SameOwners

\* A method of Tab that keeps the focus keeps it in its session.
LEMMA OneTabFocus ==
    ASSUME NEW st \in LayoutType, NEW r, SameTree(st, r), r.sessionIsActive = st.sessionIsActive,
           \A x \in Tab \cup {None} : FocusIn(st, x) => FocusIn(r, x)
    PROVE  /\ \A x \in Session \cup {None} : FocusAt(st, x) => FocusAt(r, x)
           /\ Moved(st, r)
<1>1. st.activeSession \in Session \cup {None} /\ \A x \in Session \cup {None} : TabOf(st, x) \in Tab \cup {None}
  BY DEF LayoutType, TabOf
<1>2. \A x \in Session \cup {None} : TabOf(r, x) = TabOf(st, x)
  BY DEF SameTree, TabOf
<1>3. \A x \in Session \cup {None} : FocusAt(st, x) => FocusAt(r, x)
  BY <1>1, <1>2 DEF FocusAt, SessionIn
<1> QED
  BY <1>1, <1>3 DEF Moved, Awake, SameTree

\* Tab::remove_pane.
LEMMA TabRemovePaneFocus ==
    ASSUME NEW st \in LayoutType, NEW t \in Tab, NEW p \in Pane
    PROVE  \A x \in Session \cup {None} : FocusAt(st, x) => FocusAt(TabRemovePane(st, t, p), x)
<1> DEFINE unlisted == [st EXCEPT !.fullScreen[t] = IF @ = p THEN None ELSE @,
                                  !.recency[t] = Without(@, p)]
           f == Front1(unlisted.recency[t])
           refocused == IF st.active[t] = p THEN TabSetActive(unlisted, t, f) ELSE unlisted
           r == [refocused EXCEPT !.panes[t] = @ \ {p}]
<1>1. unlisted \in LayoutType /\ SameFocus(st, unlisted)
  BY WithoutType DEF LayoutType, SameFocus
<1>2. TabRemovePane(st, t, p) = r /\ SameTree(st, r)
  BY TabRemovePaneType DEF TabRemovePane, LayoutType
<1> HIDE DEF unlisted
<1>3. f \in Pane \cup {None}
  BY <1>1, Front1Type DEF LayoutType
<1> HIDE DEF f
<1>4. ASSUME NEW x \in Tab \cup {None}, FocusIn(st, x)
      PROVE  FocusIn(r, x) /\ r.sessionIsActive = st.sessionIsActive
  <2>1. FocusIn(unlisted, x)
    BY <1>1, <1>4, SameFocusAt
  <2>2. refocused \in LayoutType /\ FocusIn(refocused, x) /\ refocused.sessionIsActive = st.sessionIsActive
    <3>1. CASE st.active[t] = p
      <4>1. refocused = TabSetActive(unlisted, t, f)
        BY <3>1
      <4> HIDE DEF refocused
      <4>2. refocused \in LayoutType
        BY <1>1, <1>3, <4>1, TabSetActiveType
      <4> QED
        BY <1>1, <1>3, <2>1, <4>1, <4>2, TabSetActiveFocus DEF SameFocus
    <3>2. CASE st.active[t] # p
      BY <1>1, <2>1, <3>2 DEF SameFocus
    <3> QED
      BY <3>1, <3>2
  <2> HIDE DEF refocused
  <2>3. SameFocus(refocused, r)
    BY <2>2 DEF LayoutType, SameFocus
  <2> HIDE DEF r
  <2> QED
    BY <2>2, <2>3, SameFocusAt DEF SameFocus
<1>5. ASSUME NEW x \in Session \cup {None}, FocusAt(st, x)
      PROVE  FocusAt(r, x)
  <2>1. TabOf(st, x) \in Tab \cup {None} /\ FocusIn(st, TabOf(st, x)) /\ SessionIn(st, x)
    BY <1>5 DEF FocusAt, TabOf, LayoutType
  <2>2. TabOf(r, x) = TabOf(st, x)
    BY <1>2 DEF SameTree, TabOf
  <2> QED
    BY <1>4, <2>1, <2>2 DEF FocusAt, SessionIn
<1> HIDE DEF r
<1> QED
  BY <1>2, <1>5

\* ~Tab of a tab that does not have it.
LEMMA TabDestroyFocus ==
    ASSUME NEW st \in LayoutType, NEW t \in Tab, NEW x \in Session \cup {None},
           FocusAt(st, x), TabOf(st, x) # t
    PROVE  FocusAt(TabDestroy(st, t), x)
<1> DEFINE r == TabDestroy(st, t)
           u == TabOf(st, x)
<1>1. SameTree(st, r)
  BY TabDestroyType
<1>2. /\ r.tabIsActive = [st.tabIsActive EXCEPT ![t] = FALSE]
      /\ r.active = [st.active EXCEPT ![t] = None]
      /\ r.focused = st.focused /\ r.sessionIsActive = st.sessionIsActive
  BY DEF TabDestroy, LayoutType
<1> HIDE DEF r
<1>3. u \in Tab \cup {None} /\ u # t /\ FocusIn(st, u) /\ SessionIn(st, x) /\ TabOf(r, x) = u
  BY <1>1 DEF FocusAt, TabOf, LayoutType, SameTree
<1> HIDE DEF u
<1>4. \A v \in Tab : r.tabIsActive[v] <=> v = u
  <2>1. st.tabIsActive \in [Tab -> BOOLEAN]
    BY DEF LayoutType
  <2>2. \A v \in Tab : st.tabIsActive[v] <=> v = u
    BY <1>3 DEF FocusIn
  <2> QED
    BY <1>2, <1>3, <2>1, <2>2
<1>5. u # None => r.active[u] = st.active[u]
  BY <1>2, <1>3 DEF LayoutType
<1>6. FocusIn(r, u)
  BY <1>2, <1>3, <1>4, <1>5 DEF FocusIn
<1>7. FocusAt(r, x)
  BY <1>2, <1>3, <1>6 DEF FocusAt, SessionIn
<1> QED
  BY <1>7 DEF r

\* Session::remove_tab.
LEMMA SessionRemoveTabFocus ==
    ASSUME NEW st \in LayoutType, SessionsOK(st), NEW s \in Session, NEW t \in Elems(st.tabs[s]),
           NEW x \in {None, st.activeSession}, FocusAt(st, x)
    PROVE  FocusAt(SessionRemoveTab(st, s, t), x)
<1> DEFINE next == Neighbour(st.tabs[s], t)
           moved == IF st.activeTab[s] = t THEN SessionSetActiveTab(st, s, next) ELSE st
           unlisted == [moved EXCEPT !.tabs[s] = Without(@, t)]
           r == TabDestroy(unlisted, t)
<1>1. /\ st.tabs[s] \in Seq(Tab) /\ Injective(st.tabs[s]) /\ t \in Tab /\ t # None
      /\ st.activeTab \in [Session -> Tab \cup {None}] /\ x \in Session \cup {None}
  <2>1. /\ st.tabs[s] \in Seq(Tab) /\ st.activeTab \in [Session -> Tab \cup {None}]
        /\ x \in Session \cup {None}
    BY DEF LayoutType
  <2> QED
    BY <2>1, ElemsSubset, ConstantsAssumption DEF SessionsOK
<1>2. SessionRemoveTab(st, s, t) = r
  BY DEF SessionRemoveTab
<1>3. next \in Tab \cup {None} /\ next # t
  <2>1. next \in Tab \cup {None}
    BY <1>1, NeighbourType
  <2>2. next = None \/ next \in Elems(Without(st.tabs[s], t))
    BY <1>1, NeighbourElem
  <2>3. t \notin Elems(Without(st.tabs[s], t))
    BY <1>1, WithoutElems
  <2> QED
    BY <1>1, <2>1, <2>2, <2>3
<1> HIDE DEF next
<1>4. x \notin {None, s} => st.activeTab[x] # t
  BY <1>1, OwnSession DEF NotElsewhere
<1>5. moved \in LayoutType /\ FocusAt(moved, x) /\ TabOf(moved, x) # t
  <2>1. CASE st.activeTab[s] = t
    <3>1. moved = SessionSetActiveTab(st, s, next)
      BY <2>1
    <3> HIDE DEF moved
    <3>2. moved \in LayoutType /\ SameTree([st EXCEPT !.activeTab[s] = next], moved)
      BY <1>3, <3>1, SessionSetActiveTabType
    <3>3. FocusAt(moved, x)
      BY <1>1, <1>3, <3>1, SessionSetActiveTabFocus
    <3>4. moved.activeTab = [st.activeTab EXCEPT ![s] = next]
      BY <3>2 DEF SameTree, LayoutType
    <3>5. TabOf(moved, x) # t
      BY <1>1, <1>3, <1>4, <3>4 DEF TabOf
    <3> QED
      BY <3>2, <3>3, <3>5
  <2>2. CASE st.activeTab[s] # t
    BY <1>1, <1>4, <2>2 DEF TabOf
  <2> QED
    BY <2>1, <2>2
<1> HIDE DEF moved
<1>6. unlisted \in LayoutType /\ SameFocus(moved, unlisted) /\ unlisted.activeTab = moved.activeTab
  <2>1. Without(moved.tabs[s], t) \in Seq(Tab)
    BY <1>5, WithoutType DEF LayoutType
  <2> QED
    BY <1>5, <2>1 DEF LayoutType, SameFocus
<1> HIDE DEF unlisted
<1>7. FocusAt(unlisted, x) /\ TabOf(unlisted, x) # t
  BY <1>5, <1>6, SameFocusAt DEF FocusAt, SessionIn, TabOf, SameFocus
<1>8. FocusAt(r, x)
  BY <1>1, <1>6, <1>7, TabDestroyFocus
<1> QED
  BY <1>2, <1>8

\* Session::remove_pane.
LEMMA SessionRemovePaneFocus ==
    ASSUME NEW st \in LayoutType, SessionsOK(st), NEW s \in Session, NEW t \in Elems(st.tabs[s]),
           NEW p \in Pane, NEW x \in {None, st.activeSession}, FocusAt(st, x)
    PROVE  FocusAt(SessionRemovePane(st, s, t, p), x)
<1> DEFINE removed == TabRemovePane(st, t, p)
           laid == SessionLayout(removed, s, removed.sessionSize[s])
<1>1. t \in Tab /\ x \in Session \cup {None}
  BY ElemsSubset DEF LayoutType
<1>2. removed \in LayoutType /\ SameTree(st, removed)
  BY <1>1, TabRemovePaneType
<1>3. FocusAt(removed, x)
  BY <1>1, TabRemovePaneFocus
<1>4. SessionRemovePane(st, s, t, p) =
        IF removed.panes[t] = {} THEN SessionRemoveTab(removed, s, t)
        ELSE IF p \in st.panes[t] /\ st.activeTab[s] = t THEN laid ELSE removed
  BY DEF SessionRemovePane
<1> HIDE DEF removed
<1>5. SessionsOK(removed) /\ t \in Elems(removed.tabs[s]) /\ x \in {None, removed.activeSession}
  BY <1>2, SessionsOKSame DEF SameTree
<1>6. FocusAt(SessionRemoveTab(removed, s, t), x)
  BY <1>2, <1>3, <1>5, SessionRemoveTabFocus
<1>7. FocusAt(laid, x)
  <2>1. removed.sessionSize[s] \in Sizes \cup {None}
    BY <1>2 DEF LayoutType
  <2>2. SameTree(removed, laid) /\ SameFocus(removed, laid)
    BY <1>2, <2>1, SessionLayoutType, SessionLayoutFocus
  <2> HIDE DEF laid
  <2> QED
    BY <1>3, <2>2, SameFocusAt DEF FocusAt, SessionIn, TabOf, SameFocus, SameTree
<1> QED
  BY <1>3, <1>4, <1>6, <1>7

\* Tab::add_pane.
LEMMA TabAddPaneFocus ==
    ASSUME NEW st \in LayoutType, NEW t \in Tab, NEW p \in Pane
    PROVE  Moved(st, TabAddPane(st, t, p))
<1> DEFINE split == [st EXCEPT !.panes[t] = @ \cup {p}, !.tree[t] = st.panes[t] \cup {p}]
           r == TabAddPane(st, t, p)
<1>1. split \in LayoutType /\ SameFocus(st, split)
  BY DEF LayoutType, SameFocus
<1>2. r = TabSetActive(split, t, p) /\ SameTree(st, r)
  BY TabAddPaneType DEF TabAddPane
<1> HIDE DEF split, r
<1>3. \A x \in Tab \cup {None} : FocusIn(st, x) =>
        FocusIn(r, x) /\ r.sessionIsActive = st.sessionIsActive
  BY <1>1, <1>2, SameFocusAt, TabSetActiveFocus DEF SameFocus
<1>4. Moved(st, r)
  <2>1. CASE \E x \in Tab \cup {None} : FocusIn(st, x)
    BY <1>2, <1>3, <2>1, OneTabFocus
  <2>2. CASE ~\E x \in Tab \cup {None} : FocusIn(st, x)
    <3>1. \A x \in Session \cup {None} : TabOf(st, x) \in Tab \cup {None}
      BY DEF TabOf, LayoutType
    <3>2. st.activeSession \in Session \cup {None}
      BY DEF LayoutType
    <3> QED
      BY <2>2, <3>1, <3>2 DEF Moved, Awake, FocusAt
  <2> QED
    BY <2>1, <2>2
<1> QED
  BY <1>4 DEF r

\* Tab::set_full_screen_pane.
LEMMA TabSetFullScreenFocus ==
    ASSUME NEW st \in LayoutType, NEW t \in Tab, NEW p \in Pane \cup {None}, p \in {None, st.active[t]}
    PROVE  SameFocus(st, TabSetFullScreen(st, t, p))
<1> DEFINE full == [st EXCEPT !.fullScreen[t] = p]
           r == TabLayout(full, t, st.tabSize[t])
<1>1. full \in LayoutType /\ SameFocus(st, full)
  BY DEF LayoutType, SameFocus
<1>2. TabSetFullScreen(st, t, p) =
        IF st.fullScreen[t] = p THEN st
        ELSE IF p = None THEN r ELSE TabLayout(TabSetActive(full, t, p), t, st.tabSize[t])
  BY DEF TabSetFullScreen
<1> HIDE DEF full
<1>3. p # None => TabSetActive(full, t, p) = full
  BY <1>1 DEF TabSetActive, SameFocus
<1>4. SameFocus(st, r) /\ SameFocus(st, st)
  BY <1>1, TabLayoutFocus DEF SameFocus
<1> HIDE DEF r
<1>5. TabSetFullScreen(st, t, p) = IF st.fullScreen[t] = p THEN st ELSE r
  BY <1>2, <1>3 DEF r
<1> QED
  BY <1>4, <1>5

\* Removing a pane never leaves the session.
LEMMA SessionRemovePaneActive ==
    ASSUME NEW st \in LayoutType, SessionsOK(st), NEW s \in Elems(st.sessions), NEW t \in Tab, NEW p \in Pane
    PROVE  SessionRemovePane(st, s, t, p).activeSession = st.activeSession
<1> DEFINE removed == TabRemovePane(st, t, p)
           laid == SessionLayout(removed, s, removed.sessionSize[s])
<1>1. s \in Session
  BY ElemsSubset DEF LayoutType
<1>2. removed \in LayoutType /\ SameTree(st, removed)
  BY TabRemovePaneType
<1>3. SessionRemovePane(st, s, t, p) =
        IF removed.panes[t] = {} THEN SessionRemoveTab(removed, s, t)
        ELSE IF p \in st.panes[t] /\ st.activeTab[s] = t THEN laid ELSE removed
  BY DEF SessionRemovePane
<1> HIDE DEF removed
<1>4. SessionsOK(removed) /\ s \in Elems(removed.sessions)
  BY <1>2, SessionsOKSame DEF SameTree
<1>5. SessionRemoveTab(removed, s, t).activeSession = removed.activeSession
  BY <1>2, <1>4, SessionRemoveTabOK
<1>6. laid.activeSession = removed.activeSession
  <2>1. removed.sessionSize[s] \in Sizes \cup {None}
    BY <1>1, <1>2 DEF LayoutType
  <2>2. SameTree(removed, laid)
    BY <1>1, <1>2, <2>1, SessionLayoutType
  <2> QED
    BY <2>2 DEF SameTree
<1> QED
  BY <1>2, <1>3, <1>5, <1>6 DEF SameTree

\* ~Session: what is removed is not the session on the screen.
LEMMA RemoveSessionElsewhere ==
    ASSUME NEW st \in LayoutType, NEW s \in Session, SessionsOK(RemoveSession(st, s))
    PROVE  RemoveSession(st, s).activeSession # s
<1> DEFINE next == Neighbour(st.sessions, s)
           moved == IF st.activeSession = s THEN SetActiveSession(st, next, TRUE) ELSE st
           unlisted == [moved EXCEPT !.sessions = Without(@, s)]
           r == SessionDestroy(unlisted, s)
<1>1. RemoveSession(st, s) = r
  BY DEF RemoveSession
<1>2. next \in Session \cup {None}
  BY NeighbourType DEF LayoutType
<1> HIDE DEF next
<1>3. moved \in LayoutType
  BY <1>2, SetActiveSessionType
<1> HIDE DEF moved
<1>4. r.activeTab[s] = None /\ r.tabs = moved.tabs
  BY <1>3 DEF SessionDestroy, LayoutType
<1> HIDE DEF r
<1>5. r.tabs[s] \in Seq(Tab)
  BY <1>3, <1>4 DEF LayoutType
<1>6. None \notin Elems(r.tabs[s])
  BY <1>5, ElemsSubset, ConstantsAssumption
<1>7. r.activeSession = s => r.activeTab[s] \in Elems(r.tabs[s])
  BY <1>1, ConstantsAssumption DEF SessionsOK
<1> QED
  BY <1>1, <1>4, <1>6, <1>7

\* LayoutState::remove_session.
LEMMA RemoveSessionFocus ==
    ASSUME NEW st \in LayoutType, NEW s \in Session, SessionsOK(RemoveSession(st, s))
    PROVE  /\ Moved(st, RemoveSession(st, s))
           /\ st.activeSession # s =>
                 /\ RemoveSession(st, s).activeSession = st.activeSession
                 /\ \A q \in Session \ {s} : RemoveSession(st, s).activeTab[q] = st.activeTab[q]
                 /\ RemoveSession(st, s).active = st.active
                 /\ \A x \in (Session \cup {None}) \ {s} :
                       FocusAt(st, x) => FocusAt(RemoveSession(st, s), x)
<1> DEFINE next == Neighbour(st.sessions, s)
           moved == IF st.activeSession = s THEN SetActiveSession(st, next, TRUE) ELSE st
           unlisted == [moved EXCEPT !.sessions = Without(@, s)]
           r == SessionDestroy(unlisted, s)
<1>1. RemoveSession(st, s) = r
  BY DEF RemoveSession
<1>2. next \in Session \cup {None}
  BY NeighbourType DEF LayoutType
<1>3. r.activeSession # s
  BY <1>1, RemoveSessionElsewhere
<1> HIDE DEF next
<1>4. moved \in LayoutType /\ Moved(st, moved) /\ (st.activeSession # s => moved = st)
  <2>1. CASE st.activeSession = s
    <3>1. moved = SetActiveSession(st, next, TRUE)
      BY <2>1
    <3> HIDE DEF moved
    <3> QED
      BY <1>2, <2>1, <3>1, SetActiveSessionType, SetActiveSessionMoved
  <2>2. CASE st.activeSession # s
    BY <2>2 DEF Moved
  <2> QED
    BY <2>1, <2>2
<1> HIDE DEF moved
<1>5. /\ r.tabIsActive = moved.tabIsActive /\ r.focused = moved.focused /\ r.active = moved.active
      /\ r.sessionIsActive = [moved.sessionIsActive EXCEPT ![s] = FALSE]
      /\ r.activeTab = [moved.activeTab EXCEPT ![s] = None]
      /\ r.activeSession = moved.activeSession
      /\ moved.activeSession \in Session \cup {None}
      /\ moved.sessionIsActive \in [Session -> BOOLEAN]
      /\ moved.activeTab \in [Session -> Tab \cup {None}]
  BY <1>4 DEF SessionDestroy, LayoutType
<1> HIDE DEF r
<1>6. ASSUME NEW x \in (Session \cup {None}) \ {s}, FocusAt(moved, x)
      PROVE  FocusAt(r, x)
  <2>1. TabOf(r, x) = TabOf(moved, x)
    BY <1>5 DEF TabOf
  <2>2. SessionIn(r, x)
    <3>1. \A q \in Session : moved.sessionIsActive[q] <=> q = x
      BY <1>6 DEF FocusAt, SessionIn
    <3>2. \A q \in Session : r.sessionIsActive[q] <=> q = x
      BY <1>5, <3>1
    <3> QED
      BY <3>2 DEF SessionIn
  <2>3. FocusIn(r, TabOf(moved, x))
    BY <1>5, <1>6 DEF FocusAt, FocusIn
  <2> QED
    BY <2>1, <2>2, <2>3 DEF FocusAt
<1>7. Moved(st, r)
  <2>1. None # s
    BY ConstantsAssumption
  <2> QED
    BY <1>3, <1>4, <1>5, <1>6, <2>1 DEF Moved, Awake
<1>8. st.activeSession # s =>
        /\ r.activeSession = st.activeSession
        /\ \A q \in Session \ {s} : r.activeTab[q] = st.activeTab[q]
        /\ r.active = st.active
  BY <1>4, <1>5
<1>9. st.activeSession # s =>
        \A x \in (Session \cup {None}) \ {s} : FocusAt(st, x) => FocusAt(r, x)
  BY <1>4, <1>6
<1> QED
  BY <1>1, <1>7, <1>8, <1>9

\* LayoutState::remove_pane.
LEMMA RemovePaneFocus ==
    ASSUME NEW st \in LayoutType, SessionsOK(st), NEW s \in Elems(st.sessions),
           NEW t \in Elems(st.tabs[s]), NEW p \in Pane
    PROVE  Moved(st, RemovePane(st, s, t, p))
<1> DEFINE removed == SessionRemovePane(st, s, t, p)
<1>1. s \in Session
  BY ElemsSubset DEF LayoutType
<1>2. t \in Tab
  BY <1>1, ElemsSubset DEF LayoutType
<1>3. removed \in LayoutType
  BY <1>2, SessionRemovePaneOK
<1>4. removed.activeSession = st.activeSession
  BY <1>1, <1>2, SessionRemovePaneActive
<1>5. Moved(st, removed)
  BY <1>1, <1>4, SessionRemovePaneFocus DEF Moved, Awake
<1>6. RemovePane(st, s, t, p) = IF removed.tabs[s] = <<>> THEN RemoveSession(removed, s) ELSE removed
  BY DEF RemovePane
<1>7. SessionsOK(RemovePane(st, s, t, p))
  BY <1>2, RemovePaneOK
<1> HIDE DEF removed
<1>8. CASE removed.tabs[s] = <<>>
  <2>1. RemovePane(st, s, t, p) = RemoveSession(removed, s)
    BY <1>6, <1>8
  <2>2. SessionsOK(RemoveSession(removed, s))
    BY <1>7, <2>1
  <2>3. Moved(removed, RemoveSession(removed, s))
    BY <1>1, <1>3, <2>2, RemoveSessionFocus
  <2> QED
    BY <1>5, <2>1, <2>3 DEF Moved
<1>9. CASE removed.tabs[s] # <<>>
  BY <1>5, <1>6, <1>9
<1> QED
  BY <1>8, <1>9

\* LayoutState::add_tab, with the pane made or (add_session) not.
LEMMA AddTabFocus ==
    ASSUME NEW st \in LayoutType, NEW s \in Session, NEW t \in Tab, NEW p \in Pane
    PROVE  Moved(st, AddTab(st, s, t, p, TRUE))
<1> DEFINE chosen == SetActiveSession(st, s, TRUE)
           filled == TabAddPane(chosen, t, p)
           moved == SessionSetActiveTab(filled, s, t)
           r == [moved EXCEPT !.tabs[s] = Append(@, t)]
<1>1. AddTab(st, s, t, p, TRUE) = r
  BY DEF AddTab, SessionAddTab
<1>2. chosen \in LayoutType /\ Moved(st, chosen)
  BY SetActiveSessionType, SetActiveSessionMoved
<1> HIDE DEF chosen
<1>3. filled \in LayoutType /\ SameTree(chosen, filled) /\ Moved(chosen, filled)
  BY <1>2, TabAddPaneType, TabAddPaneFocus
<1> HIDE DEF filled
<1>4. moved \in LayoutType /\ SameTree([filled EXCEPT !.activeTab[s] = t], moved)
  BY <1>3, SessionSetActiveTabType
<1>5. \A x \in Session \cup {None} : FocusAt(filled, x) => FocusAt(moved, x)
  BY <1>3, SessionSetActiveTabFocus
<1> HIDE DEF moved
<1>6. filled.activeSession \in Session \cup {None} /\ moved.activeSession = filled.activeSession
  BY <1>3, <1>4 DEF SameTree, LayoutType
<1>7. SameFocus(moved, r) /\ r.activeSession = moved.activeSession /\ r.activeTab = moved.activeTab
  BY <1>4 DEF LayoutType, SameFocus
<1> HIDE DEF r
<1>8. \A x \in Session \cup {None} : FocusAt(moved, x) => FocusAt(r, x)
  BY <1>7, SameFocusAt DEF FocusAt, SessionIn, TabOf, SameFocus
<1>9. Moved(st, r)
  BY <1>2, <1>3, <1>5, <1>6, <1>7, <1>8 DEF Moved, Awake
<1> QED
  BY <1>1, <1>9, Zenon

\* LayoutState::add_session.
LEMMA AddSessionFocus ==
    ASSUME NEW st \in LayoutType, SessionsOK(st), NEW s \in Session \ Elems(st.sessions),
           NEW t \in Tab, NEW p \in Pane, \A q \in Session : t \notin Elems(st.tabs[q])
    PROVE  Moved(st, AddSession(st, s, t, p, TRUE)) /\ Moved(st, AddSession(st, s, t, p, FALSE))
<1> DEFINE listed == [st EXCEPT !.sessions = Append(@, s)]
           chosen == SetActiveSession(listed, s, TRUE)
           failed == RemoveSession(chosen, s)
           made == AddTab(listed, s, t, p, TRUE)
<1>1. AddSession(st, s, t, p, TRUE) = made /\ AddSession(st, s, t, p, FALSE) = failed
  BY DEF AddSession, AddTab
<1>2. /\ listed \in LayoutType /\ SameFocus(st, listed)
      /\ listed.activeSession = st.activeSession /\ listed.activeTab = st.activeTab
  <2>1. Append(st.sessions, s) \in Seq(Session)
    <3>1. st.sessions \in Seq(Session)
      BY DEF LayoutType
    <3> QED
      BY <3>1
  <2> QED
    BY <2>1 DEF LayoutType, SameFocus
<1>3. SessionsOK(failed)
  <2>1. SessionsOK(AddSession(st, s, t, p, FALSE))
    BY AddSessionOK, Zenon
  <2> QED
    BY <1>1, <2>1, Zenon
<1> HIDE DEF listed
<1>4. \A x \in Session \cup {None} : FocusAt(st, x) => FocusAt(listed, x)
  BY <1>2, SameFocusAt DEF FocusAt, SessionIn, TabOf, SameFocus
<1>5. Moved(st, listed)
  BY <1>2, <1>4 DEF Moved, Awake, LayoutType
<1>6. Moved(listed, made)
  BY <1>2, AddTabFocus, Zenon
<1> HIDE DEF made
<1>7. chosen \in LayoutType /\ Moved(listed, chosen)
  BY <1>2, SetActiveSessionType, SetActiveSessionMoved
<1> HIDE DEF chosen
<1>8. Moved(chosen, failed)
  BY <1>3, <1>7, RemoveSessionFocus
<1> HIDE DEF failed
<1>9. Moved(st, made) /\ Moved(st, failed)
  BY <1>5, <1>6, <1>7, <1>8 DEF Moved
<1> QED
  BY <1>1, <1>9, Zenon

\* A pane that is in no tab is told nothing: taking it out of those that were told changes nothing.
LEMMA GoneUnfocused ==
    ASSUME NEW st \in LayoutType, Listed(st), NEW p \in Pane, \A u \in Tab : p \notin st.panes[u],
           NEW r, r = [st EXCEPT !.focused = st.focused \ {p}], NEW x \in Session \cup {None}, FocusAt(st, x)
    PROVE  FocusAt(r, x)
<1>1. /\ SameTree(st, r) /\ r.tabIsActive = st.tabIsActive /\ r.active = st.active
      /\ r.sessionIsActive = st.sessionIsActive /\ r.focused = st.focused \ {p}
      /\ TabOf(st, x) \in Tab \cup {None}
  BY DEF LayoutType, SameTree, TabOf
<1>2. ASSUME NEW u \in Tab
      PROVE  st.active[u] # p
  <2>1. st.recency[u] \in Seq(Pane) /\ p # None
    BY ConstantsAssumption DEF LayoutType
  <2>2. st.active[u] = Front1(st.recency[u]) /\ p \notin Elems(st.recency[u])
    BY DEF Listed, TabRecencyOK
  <2> QED
    BY <2>1, <2>2 DEF Front1, Elems
<1>3. TabOf(r, x) = TabOf(st, x)
  BY <1>1 DEF SameTree, TabOf
<1>4. FocusIn(r, TabOf(st, x))
  BY <1>1, <1>2 DEF FocusAt, FocusIn
<1> QED
  BY <1>1, <1>3, <1>4 DEF FocusAt, SessionIn

\* What a removal leaves alone on the screen.
Kept(st, r) ==
    /\ r.activeSession = st.activeSession
    /\ r.activeTab[st.activeSession] = st.activeTab[st.activeSession]
    /\ r.active[st.activeTab[st.activeSession]] = st.active[st.activeTab[st.activeSession]]

\* Session::remove_tab of a tab that is not on the screen.
LEMMA SessionRemoveTabKeeps ==
    ASSUME NEW st \in LayoutType, SessionsOK(st), st.activeSession # None,
           NEW s \in Elems(st.sessions), NEW t \in Elems(st.tabs[s]), st.activeTab[st.activeSession] # t
    PROVE  Kept(st, SessionRemoveTab(st, s, t))
<1> DEFINE next == Neighbour(st.tabs[s], t)
           moved == IF st.activeTab[s] = t THEN SessionSetActiveTab(st, s, next) ELSE st
           unlisted == [moved EXCEPT !.tabs[s] = Without(@, t)]
           r == TabDestroy(unlisted, t)
           a == st.activeSession
           u == st.activeTab[a]
<1>1. s \in Session /\ a \in Session /\ st.tabs[s] \in Seq(Tab) /\ st.activeTab \in [Session -> Tab \cup {None}]
  BY ElemsSubset DEF LayoutType
<1>2. t \in Tab /\ u \in Tab
  <2>1. a \in Elems(st.sessions)
    BY EmptyElems DEF SessionsOK
  <2>2. u \in Elems(st.tabs[a]) /\ st.tabs[a] \in Seq(Tab)
    BY <1>1, <2>1 DEF SessionsOK, LayoutType
  <2> QED
    BY <1>1, <2>2, ElemsSubset
<1>3. SessionRemoveTab(st, s, t) = r
  BY DEF SessionRemoveTab
<1>4. next \in Tab \cup {None}
  BY <1>1, NeighbourType
<1> HIDE DEF next, a, u
<1>5. /\ moved \in LayoutType /\ moved.activeSession = a /\ moved.activeTab[a] = u
      /\ moved.active = st.active
  <2>1. CASE st.activeTab[s] = t
    <3>1. moved = SessionSetActiveTab(st, s, next) /\ s # a
      BY <2>1 DEF a
    <3> HIDE DEF moved
    <3>2. moved \in LayoutType /\ SameTree([st EXCEPT !.activeTab[s] = next], moved)
      BY <1>1, <1>4, <3>1, SessionSetActiveTabType
    <3>3. SameLists(st, moved)
      BY <1>1, <1>4, <3>1, SessionSetActiveTabScreen
    <3>4. moved.activeSession = a /\ moved.activeTab = [st.activeTab EXCEPT ![s] = next]
      BY <3>2 DEF SameTree, LayoutType, a
    <3> QED
      BY <1>1, <3>1, <3>2, <3>3, <3>4 DEF SameLists, u
  <2>2. CASE st.activeTab[s] # t
    BY <2>2 DEF a, u
  <2> QED
    BY <2>1, <2>2
<1> HIDE DEF moved
<1>6. /\ unlisted \in LayoutType /\ unlisted.activeSession = a /\ unlisted.activeTab[a] = u
      /\ unlisted.active = st.active
  <2>1. Without(moved.tabs[s], t) \in Seq(Tab)
    BY <1>1, <1>5, WithoutType DEF LayoutType
  <2> QED
    BY <1>5, <2>1 DEF LayoutType
<1> HIDE DEF unlisted
<1>7. SameTree(unlisted, r) /\ OtherTabs(unlisted, r, t)
  BY <1>2, <1>6, TabDestroyType, TabDestroyScreen
<1> HIDE DEF r
<1>8. r.activeSession = a /\ r.activeTab[a] = u /\ r.active[u] = st.active[u]
  <2>1. u \in Tab \ {t}
    BY <1>2 DEF u, a
  <2> QED
    BY <1>6, <1>7, <2>1 DEF SameTree, OtherTabs
<1> QED
  BY <1>3, <1>8 DEF Kept, a, u

\* The active pane is one of the tab's.
LEMMA ActivePane ==
    ASSUME NEW st \in LayoutType, NEW u \in Tab, TabRecencyOK(st, u), st.panes[u] # {}
    PROVE  st.active[u] \in st.panes[u] /\ st.active[u] \in Pane
<1>1. st.recency[u] \in Seq(Pane) /\ st.panes[u] \subseteq Pane
  BY DEF LayoutType
<1>2. Elems(st.recency[u]) = st.panes[u] /\ st.active[u] = Front1(st.recency[u])
  BY DEF TabRecencyOK
<1>3. st.recency[u] # <<>>
  BY <1>2, EmptyElems
<1>4. 1 \in 1 .. Len(st.recency[u]) /\ st.active[u] = st.recency[u][1]
  BY <1>1, <1>2, <1>3 DEF Front1
<1>5. st.active[u] \in Elems(st.recency[u])
  BY <1>4 DEF Elems
<1> QED
  BY <1>1, <1>2, <1>5

\* LayoutState::remove_pane of a pane that is not the active one on the screen.
LEMMA RemovePaneKeeps ==
    ASSUME NEW st \in LayoutType, SessionsOK(st), Listed(st), st.activeSession # None,
           NEW s \in Elems(st.sessions), NEW t \in Elems(st.tabs[s]),
           NEW p \in Pane, p \in st.panes[t], p # st.active[st.activeTab[st.activeSession]]
    PROVE  /\ Kept(st, RemovePane(st, s, t, p))
           /\ \A x \in {None, st.activeSession} : FocusAt(st, x) => FocusAt(RemovePane(st, s, t, p), x)
<1> DEFINE a == st.activeSession
           u == st.activeTab[a]
           less == TabRemovePane(st, t, p)
           laid == SessionLayout(less, s, less.sessionSize[s])
           removed == SessionRemovePane(st, s, t, p)
<1>1. s \in Session /\ a \in Session /\ st.tabs[s] \in Seq(Tab) /\ st.activeTab \in [Session -> Tab \cup {None}]
  BY ElemsSubset DEF LayoutType
<1>2. t \in Tab /\ u \in Tab /\ u # None
  <2>1. a \in Elems(st.sessions)
    BY EmptyElems DEF SessionsOK
  <2>2. u \in Elems(st.tabs[a]) /\ st.tabs[a] \in Seq(Tab)
    BY <1>1, <2>1 DEF SessionsOK, LayoutType
  <2> QED
    BY <1>1, <2>2, ElemsSubset, ConstantsAssumption
<1>3. TabRecencyOK(st, t)
  BY <1>2 DEF Listed
<1>4. less \in LayoutType /\ SameTree(st, less)
  BY <1>2, TabRemovePaneType
<1>5. less.panes = [st.panes EXCEPT ![t] = @ \ {p}] /\ OtherTabs(st, less, t)
  BY <1>2, <1>3, TabRemovePaneOwners, TabRemovePaneScreen
<1>6. st.active[t] # p => less.active = st.active
  BY WithoutType DEF TabRemovePane, LayoutType
<1>7. removed =
        IF less.panes[t] = {} THEN SessionRemoveTab(less, s, t)
        ELSE IF p \in st.panes[t] /\ st.activeTab[s] = t THEN laid ELSE less
  BY DEF SessionRemovePane
<1> HIDE DEF less
<1>8. Kept(st, less)
  <2>1. less.active[u] = st.active[u]
    <3>1. CASE u = t
      BY <1>6, <3>1
    <3>2. CASE u # t
      BY <1>2, <1>5, <3>2 DEF OtherTabs
    <3> QED
      BY <3>1, <3>2
  <2> QED
    BY <1>4, <2>1 DEF Kept, SameTree
<1>9. Kept(st, removed)
  <2>1. CASE less.panes[t] = {}
    <3>1. u # t
      <4> SUFFICES ASSUME u = t PROVE FALSE
        OBVIOUS
      <4>1. st.active[t] \in st.panes[t] /\ st.panes \in [Tab -> SUBSET Pane]
        BY <1>2, <1>3, ActivePane DEF LayoutType
      <4>2. st.panes[t] \ {p} = {}
        BY <1>2, <1>5, <2>1, <4>1
      <4> QED
        BY <4>1, <4>2
    <3>2. /\ SessionsOK(less) /\ s \in Elems(less.sessions) /\ t \in Elems(less.tabs[s])
          /\ less.activeSession # None /\ less.activeTab[less.activeSession] # t
      BY <1>4, <3>1, SessionsOKSame DEF SameTree
    <3>3. Kept(less, SessionRemoveTab(less, s, t))
      BY <1>4, <3>2, SessionRemoveTabKeeps
    <3> QED
      BY <1>7, <1>8, <2>1, <3>3 DEF Kept
  <2>2. CASE less.panes[t] # {}
    <3>1. less.sessionSize[s] \in Sizes \cup {None}
      BY <1>1, <1>4 DEF LayoutType
    <3>2. SameTree(less, laid) /\ SameFocus(less, laid)
      BY <1>1, <1>4, <3>1, SessionLayoutType, SessionLayoutFocus
    <3> HIDE DEF laid
    <3>3. Kept(st, laid)
      BY <1>8, <3>2 DEF Kept, SameTree, SameFocus
    <3> QED
      BY <1>7, <1>8, <2>2, <3>3
  <2> QED
    BY <2>1, <2>2
<1>10. removed \in LayoutType /\ SessionsBut(removed, s)
  BY <1>2, SessionRemovePaneOK
<1>11. \A x \in {None, a} : FocusAt(st, x) => FocusAt(removed, x)
  BY <1>1, SessionRemovePaneFocus
<1>12. RemovePane(st, s, t, p) = IF removed.tabs[s] = <<>> THEN RemoveSession(removed, s) ELSE removed
  BY DEF RemovePane
<1>13. SessionsOK(RemovePane(st, s, t, p))
  BY <1>2, RemovePaneOK
<1> HIDE DEF removed
<1>14. CASE removed.tabs[s] = <<>>
  <2>1. RemovePane(st, s, t, p) = RemoveSession(removed, s)
    BY <1>12, <1>14
  <2>2. s # a
    <3>1. removed.activeTab[s] = None
      BY <1>1, <1>10, <1>14 DEF SessionsBut
    <3> QED
      BY <1>2, <1>9, <3>1 DEF Kept
  <2>3. removed.activeSession = a
    BY <1>9 DEF Kept
  <2> DEFINE r == RemoveSession(removed, s)
  <2>4. /\ r.activeSession = a /\ r.activeTab[a] = removed.activeTab[a] /\ r.active = removed.active
        /\ \A x \in {None, a} : FocusAt(removed, x) => FocusAt(r, x)
    <3>1. SessionsOK(r)
      BY <1>13, <2>1
    <3>2. None # s
      BY <1>1, ConstantsAssumption
    <3> QED
      BY <1>1, <1>10, <2>2, <2>3, <3>1, <3>2, RemoveSessionFocus
  <2> HIDE DEF r
  <2>5. Kept(st, r)
    BY <1>9, <2>4 DEF Kept
  <2> QED
    BY <1>11, <2>1, <2>4, <2>5 DEF r
<1>15. CASE removed.tabs[s] # <<>>
  BY <1>9, <1>11, <1>12, <1>15
<1> QED
  BY <1>14, <1>15

-----------------------------------------------------------------------------
(* The inductive step *)

\* A handler that moves the focus along keeps it where it should be: keys are handled without a
\* popup, and the other handlers leave the popup alone.
LEMMA MovedFocus ==
    ASSUME NEW st, NEW r, Focus(st), Moved(st, r), st.popup = None \/ r.popup = st.popup
    PROVE  Focus(r)
BY DEF Focus, Moved

\* Only what is drawn changes.
LEMMA SameFocusMoved ==
    ASSUME NEW st \in LayoutType, NEW r, SameFocus(st, r), SameTree(st, r)
    PROVE  Moved(st, r)
BY SameFocusAt, OneTabFocus DEF SameFocus

\* Navigate and a press of the mouse.
LEMMA ActivateFocus ==
    ASSUME NEW st \in LayoutType, NEW t \in Tab, NEW p \in Pane \cup {None}
    PROVE  Moved(st, TabSetActive(st, t, p))
<1> DEFINE r == TabSetActive(st, t, p)
<1>1. SameTree(st, r)
  BY TabSetActiveType
<1>2. \A x \in Tab \cup {None} : FocusIn(st, x) => FocusIn(r, x)
  BY TabSetActiveFocus
<1>3. CASE \E x \in Tab \cup {None} : FocusIn(st, x)
  <2>1. r.sessionIsActive = st.sessionIsActive
    BY <1>3, TabSetActiveFocus
  <2> HIDE DEF r
  <2>2. Moved(st, r)
    BY <1>1, <1>2, <2>1, OneTabFocus
  <2> QED
    BY <2>2 DEF r
<1>4. CASE ~\E x \in Tab \cup {None} : FocusIn(st, x)
  <2>1. st.activeSession \in Session \cup {None}
        /\ \A x \in Session \cup {None} : TabOf(st, x) \in Tab \cup {None}
    BY DEF LayoutType, TabOf
  <2>2. ~FocusAt(st, None) /\ ~Awake(st)
    BY <1>4, <2>1 DEF Awake, FocusAt
  <2> QED
    BY <2>2 DEF Moved
<1> QED
  BY <1>3, <1>4

\* Keys that add.
LEMMA AddMoves ==
    ASSUME SInv, CreateTab \/ CreateSession \/ CreateSessionFails \/ AddPaneAction
    PROVE  Moved(layout, layout') /\ layout'.popup = layout.popup
<1>1. layout \in LayoutType /\ SessionsOK(layout)
  BY SInvFacts
<1>2. CASE CreateTab
  <2>1. PICK t \in FreeTabs, p \in FreePanes : layout' = AddTab(layout, layout.activeSession, t, p, TRUE)
    BY <1>2 DEF CreateTab
  <2>2. t \in Tab /\ p \in Pane
    BY SInvFacts
  <2>3. layout.activeSession \in Session
    BY <1>2, ActiveOK DEF SInv, PInv, IInv, CreateTab, KeyAction, LockFree
  <2>4. layout'.popup = layout.popup
    <3>1. Added(layout, layout', layout.activeSession, t, p)
      BY <1>1, <2>1, <2>2, <2>3, AddTabOwners, Zenon
    <3> QED
      BY <3>1 DEF Added
  <2> QED
    BY <1>1, <2>1, <2>2, <2>3, <2>4, AddTabFocus, Zenon
<1>3. CASE CreateSession \/ CreateSessionFails
  <2>1. PICK s \in FreeSessions, t \in FreeTabs, p \in FreePanes :
           \/ layout' = AddSession(layout, s, t, p, TRUE)
           \/ layout' = AddSession(layout, s, t, p, FALSE)
    BY <1>3, Zenon DEF CreateSession, CreateSessionFails
  <2>2. t \in Tab /\ p \in Pane /\ \A q \in Session : t \notin Elems(layout.tabs[q])
    BY SInvFacts
  <2>3. s \in Session \ Elems(layout.sessions)
    BY DEF FreeSessions
  <2>4. layout'.popup = layout.popup
    <3>1. Added(layout, layout', s, t, p) \/ SameOwners(layout, layout')
      BY <1>1, <2>1, <2>2, <2>3, AddSessionOwners, Zenon
    <3> QED
      BY <3>1 DEF Added, SameOwners
  <2> QED
    BY <1>1, <2>1, <2>2, <2>3, <2>4, AddSessionFocus, Zenon
<1>4. CASE AddPaneAction
  <2>1. PICK p \in FreePanes : layout' = AddPane(layout, layout.activeSession, ActiveTab, p)
    BY <1>4 DEF AddPaneAction
  <2>2. ActiveTab \in Tab
    BY <1>4, ActiveOK DEF SInv, PInv, IInv, AddPaneAction, KeyAction, LockFree
  <2>3. p \in Pane
    BY SInvFacts
  <2>4. layout' = TabAddPane(layout, ActiveTab, p)
    BY <2>1 DEF AddPane, SetActiveSession
  <2>5. layout'.popup = layout.popup
    BY <1>1, <2>2, <2>3, <2>4, TabAddPaneOwners
  <2> QED
    BY <1>1, <2>2, <2>3, <2>4, <2>5, TabAddPaneFocus, Zenon
<1> QED
  BY <1>2, <1>3, <1>4

\* Keys, clicks and resizes that select.
LEMMA SelectMoves ==
    ASSUME SInv, SwitchTab \/ SwitchSession \/ Navigate \/ MousePress \/ ToggleFullScreen \/ RenderResize
    PROVE  Moved(layout, layout') /\ layout'.popup = layout.popup
<1>1. layout \in LayoutType /\ SessionsOK(layout)
  BY SInvFacts
<1>2. /\ layout.activeSession \in Session /\ ActiveTab \in Tab
      /\ layout.activeSession \in Elems(layout.sessions)
  BY ActiveOK DEF SInv, PInv, IInv, SwitchTab, SwitchSession, Navigate, ToggleFullScreen, MousePress,
     RenderResize, RenderTurn, KeyAction, LockFree
<1>3. CASE SwitchTab
  <2>1. PICK t \in Elems(layout.tabs[layout.activeSession]) :
           layout' = SetActiveTab(layout, layout.activeSession, t, TRUE)
    BY <1>3 DEF SwitchTab
  <2>2. t \in Tab
    BY <1>1, <1>2, ElemsSubset DEF LayoutType
  <2> QED
    BY <1>1, <1>2, <2>1, <2>2, SetActiveTabFocus
<1>4. CASE SwitchSession
  <2> DEFINE n == Len(layout.sessions)
             Step(d) == ((IndexOf(layout.sessions, layout.activeSession) - 1 + d) % n) + 1
  <2>1. PICK d \in {1, -1} : layout' = SetActiveSession(layout, layout.sessions[Step(d)], TRUE)
    BY <1>4 DEF SwitchSession
  <2>2. layout.sessions \in Seq(Session)
    BY <1>1 DEF LayoutType
  <2>3. n \in Nat \ {0} /\ IndexOf(layout.sessions, layout.activeSession) \in 1 .. n
    BY <1>2, <2>2, IndexOfType
  <2>4. Step(d) \in 1 .. n
    <3> HIDE DEF n
    <3>1. IndexOf(layout.sessions, layout.activeSession) - 1 + d \in Int
      BY <2>3
    <3>2. \A k \in Int : k % n \in 0 .. n - 1
      BY <2>3
    <3> QED
      BY <2>3, <3>1, <3>2, SMTT(30)
  <2> HIDE DEF Step
  <2>5. layout.sessions[Step(d)] \in Session
    BY <2>2, <2>4
  <2>6. layout'.popup = layout.popup
    BY <1>1, <2>1, <2>5, SetActiveSessionOwners DEF SameOwners
  <2> QED
    BY <1>1, <2>1, <2>5, <2>6, SetActiveSessionMoved
<1>5. CASE Navigate \/ MousePress
  <2>1. PICK p \in layout.tree[ActiveTab] : layout' = TabSetActive(layout, ActiveTab, p)
    BY <1>5 DEF Navigate, MousePress
  <2>2. p \in Pane
    BY <1>1, <1>2, <2>1 DEF LayoutType
  <2>3. SameOwners(layout, layout')
    BY <1>1, <1>2, <2>1, <2>2, TabSetActiveOwners
  <2>4. Moved(layout, layout')
    BY <1>1, <1>2, <2>1, <2>2, ActivateFocus
  <2> QED
    BY <2>3, <2>4 DEF SameOwners
<1>6. CASE ToggleFullScreen
  <2> DEFINE t == ActiveTab
  <2>1. PICK p \in Pane \cup {None} : p \in {None, layout.active[t]} /\ layout' = TabSetFullScreen(layout, t, p)
    <3>1. layout.active[t] \in Pane \cup {None}
      BY <1>1, <1>2 DEF LayoutType
    <3> QED
      BY <1>6, <3>1 DEF ToggleFullScreen
  <2>2. t \in Tab
    BY <1>2
  <2> HIDE DEF t
  <2>3. SameTree(layout, layout') /\ SameFocus(layout, layout')
    BY <1>1, <2>1, <2>2, TabSetFullScreenType, TabSetFullScreenFocus
  <2>4. layout'.popup = layout.popup
    BY <1>1, <2>1, <2>2, TabSetFullScreenOwners DEF SameOwners
  <2> QED
    BY <1>1, <2>3, <2>4, SameFocusMoved
<1>7. CASE RenderResize
  <2>1. PICK size \in Sizes : layout' = Layout(layout, size)
    BY <1>7 DEF RenderResize
  <2>2. SameTree(layout, layout') /\ SameFocus(layout, layout') /\ SameOwners(layout, layout')
    BY <1>1, <2>1, LayoutStructure, LayoutFocus, LayoutOwners
  <2> QED
    BY <1>1, <2>2, SameFocusMoved DEF SameOwners
<1> QED
  BY <1>3, <1>4, <1>5, <1>6, <1>7

\* The hooks of the popup select, with the focus or without.
LEMMA HookFocus ==
    ASSUME FInv, HookExtraOutput \/ HookFinishOutput
    PROVE  Focus(layout')
<1>1. /\ layout \in LayoutType /\ SessionsOK(layout) /\ Focus(layout)
      /\ layout.activeSession \in Session \cup {None}
      /\ hook.kind # "other" => layout.popup # None
  BY SInvFacts DEF FInv, HookExtraOutput, HookFinishOutput, LayoutType
<1>2. ASSUME NEW s \in Elems(layout.sessions), NEW i, NEW focus \in BOOLEAN
      PROVE  Focus(HookSelect(s, i, focus))
  <2>1. CASE hook.kind = "find_tab" /\ i \in 1 .. Len(layout.tabs[s])
    <3> DEFINE t == layout.tabs[s][i]
               r == SetActiveTab(layout, s, t, focus)
    <3>1. s \in Session
      BY <1>1, <1>2, ElemsSubset DEF LayoutType
    <3>2. t \in Tab
      BY <1>1, <2>1, <3>1 DEF LayoutType
    <3>3. HookSelect(s, i, focus) = r
      BY <2>1 DEF HookSelect
    <3> HIDE DEF t
    <3>4. Moved(layout, r) /\ r.popup = layout.popup
      BY <1>1, <3>1, <3>2, SetActiveTabFocus
    <3> HIDE DEF r
    <3>5. Focus(r)
      BY <1>1, <3>4, MovedFocus
    <3> QED
      BY <3>3, <3>5
  <2>2. CASE hook.kind = "find_session" /\ i \in 1 .. Len(layout.sessions)
    <3> DEFINE x == layout.sessions[i]
               r == SetActiveSession(layout, x, focus)
    <3>1. x \in Session /\ layout.popup # None
      BY <1>1, <2>2 DEF LayoutType
    <3>2. HookSelect(s, i, focus) = r
      BY <2>2 DEF HookSelect
    <3> HIDE DEF x
    <3>3. r.popup = layout.popup
      BY <1>1, <3>1, SetActiveSessionOwners DEF SameOwners
    <3>4. /\ layout.activeSession # x => FocusAt(r, IF focus THEN x ELSE None)
          /\ layout.activeSession = x => r = layout
      BY <1>1, <3>1, SetActiveSessionFocus DEF Focus
    <3>5. Moved(layout, SetActiveSession(layout, x, TRUE))
      BY <1>1, <3>1, SetActiveSessionMoved
    <3>6. CASE focus = TRUE
      <4>1. Moved(layout, r)
        BY <3>5, <3>6
      <4> HIDE DEF r
      <4>2. Focus(r)
        BY <1>1, <3>3, <4>1, MovedFocus
      <4> QED
        BY <3>2, <4>2
    <3>7. CASE focus = FALSE
      <4> HIDE DEF r
      <4>1. layout.activeSession # x => FocusAt(r, None)
        BY <3>4, <3>7
      <4>2. Focus(r)
        BY <1>1, <3>1, <3>3, <3>4, <4>1 DEF Focus
      <4> QED
        BY <3>2, <4>2
    <3> QED
      BY <3>6, <3>7
  <2>3. CASE /\ ~(hook.kind = "find_tab" /\ i \in 1 .. Len(layout.tabs[s]))
             /\ ~(hook.kind = "find_session" /\ i \in 1 .. Len(layout.sessions))
    BY <1>1, <2>3 DEF HookSelect
  <2> QED
    BY <2>1, <2>2, <2>3
<1>3. PICK i : \E s \in Elems(layout.sessions), focus \in BOOLEAN, outcome \in HookFaults :
         /\ fault' = outcome
         /\ layout' = IF outcome = "none" THEN HookSelect(s, i, focus) ELSE layout
  BY SInvFacts, HookDoes DEF FInv
<1>4. PICK s \in Elems(layout.sessions), focus \in BOOLEAN, outcome \in HookFaults :
         layout' = IF outcome = "none" THEN HookSelect(s, i, focus) ELSE layout
  BY <1>3
<1>5. CASE outcome = "none"
  BY <1>2, <1>4, <1>5
<1>6. CASE outcome # "none"
  BY <1>1, <1>4, <1>6
<1> QED
  BY <1>5, <1>6

\* A press on the status bar.
LEMMA TabClickFocus ==
    ASSUME FInv, RenderTabClick
    PROVE  Focus(layout')
<1> DEFINE s == layout.activeSession
           i == Head(events).index
           t == layout.tabs[s][i]
           r == SetActiveTab(layout, s, t, TRUE)
<1>1. layout \in LayoutType /\ Focus(layout) /\ s \in Session
  BY SInvFacts, ActiveOK DEF FInv, SInv, PInv, IInv, RenderTabClick, RenderTurn, LockFree
<1>2. layout' = IF i \in 1 .. Len(layout.tabs[s]) THEN r ELSE layout
  BY DEF RenderTabClick
<1>3. i \in 1 .. Len(layout.tabs[s]) => t \in Tab
  BY <1>1 DEF LayoutType
<1> HIDE DEF s, i, t
<1>4. t \in Tab => Moved(layout, r) /\ r.popup = layout.popup
  BY <1>1, SetActiveTabFocus
<1> HIDE DEF r
<1>5. t \in Tab => Focus(r)
  BY <1>1, <1>4, MovedFocus
<1> QED
  BY <1>1, <1>2, <1>3, <1>5

\* LayoutState::popup_pane takes the focus from the session, and remove_popup gives it back.
LEMMA PopupFocus ==
    ASSUME NEW st \in LayoutType, Focus(st), NEW p \in Pane \cup {None}
    PROVE  /\ FocusAt(PopupPane(st, p), None)
           /\ Awake(RemovePopup(st))
<1> DEFINE a == st.activeSession
           shown == [st EXCEPT !.popup = p]
           hidden == [st EXCEPT !.popup = None]
           r == RemovePopup(st)
<1>1. /\ shown \in LayoutType /\ SameFocus(st, shown) /\ SameTree(st, shown)
      /\ hidden \in LayoutType /\ SameFocus(st, hidden) /\ SameTree(st, hidden)
      /\ a \in Session \cup {None}
  BY DEF LayoutType, SameFocus, SameTree
<1>2. /\ PopupPane(st, p) = IF a = None THEN shown ELSE SessionSetIsActive(shown, a, FALSE)
      /\ r = IF a = None THEN hidden ELSE SessionSetIsActive(hidden, a, TRUE)
  BY DEF PopupPane, RemovePopup
<1>3. r.activeSession = a
  <2>1. SameTree(st, RemovePopup(st))
    BY PopupType DEF RemovePopup
  <2> QED
    BY <2>1 DEF SameTree
<1> HIDE DEF shown, hidden, r
<1>4. FocusAt(st, None) \/ FocusAt(st, a)
  BY DEF Focus, Awake
<1> HIDE DEF a
<1>5. \A x \in Session \cup {None} : FocusAt(st, x) => FocusAt(shown, x) /\ FocusAt(hidden, x)
  BY <1>1, SameFocusAt, OneTabFocus DEF SameFocus
<1>6. (FocusAt(shown, None) \/ FocusAt(shown, a)) /\ (FocusAt(hidden, None) \/ FocusAt(hidden, a))
  BY <1>1, <1>4, <1>5
<1>7. FocusAt(PopupPane(st, p), None)
  <2>1. CASE a = None
    BY <1>2, <1>6, <2>1
  <2>2. CASE a # None
    <3>1. a \in Session
      BY <1>1, <2>2
    <3>2. FocusAt(shown, None) => SessionSetIsActive(shown, a, FALSE) = shown
      BY <1>1, <3>1, SessionStaysFocus, Zenon
    <3>3. FocusAt(shown, a) => FocusAt(SessionSetIsActive(shown, a, FALSE), None)
      BY <1>1, <3>1, SessionLeaveFocus, Zenon
    <3>4. FocusAt(SessionSetIsActive(shown, a, FALSE), None)
      BY <1>6, <3>2, <3>3, Zenon
    <3> QED
      BY <1>2, <2>2, <3>4, Zenon
  <2> QED
    BY <2>1, <2>2
<1>8. FocusAt(r, a)
  <2>1. CASE a = None
    BY <1>2, <1>6, <2>1
  <2>2. CASE a # None
    <3>1. a \in Session
      BY <1>1, <2>2
    <3>2. FocusAt(hidden, a) => SessionSetIsActive(hidden, a, TRUE) = hidden
      BY <1>1, <3>1, SessionStaysFocus, Zenon
    <3>3. FocusAt(hidden, None) => FocusAt(SessionSetIsActive(hidden, a, TRUE), a)
      BY <1>1, <3>1, SessionEnterFocus, Zenon
    <3>4. FocusAt(SessionSetIsActive(hidden, a, TRUE), a)
      BY <1>6, <3>2, <3>3, Zenon
    <3> QED
      BY <1>2, <2>2, <3>4, Zenon
  <2> QED
    BY <2>1, <2>2
<1> QED
  BY <1>3, <1>7, <1>8 DEF Awake, r

\* The popup opens, and closes.
LEMMA OpenFocus ==
    ASSUME FInv, OpenPopup
    PROVE  Focus(layout')
<1>1. layout \in LayoutType /\ Focus(layout)
  BY SInvFacts DEF FInv
<1>2. PICK p \in FreePanes : layout' = PopupPane(layout, p)
  BY DEF OpenPopup
<1>3. p \in Pane /\ p # None
  BY ConstantsAssumption DEF FreePanes
<1>4. FocusAt(layout', None)
  BY <1>1, <1>2, <1>3, PopupFocus
<1>5. Shows(layout, PopupPane(layout, p), p)
  BY <1>1, <1>3, PopupOwners DEF PopupPane
<1> QED
  BY <1>2, <1>3, <1>4, <1>5 DEF Focus, Shows

LEMMA CloseFocus ==
    ASSUME FInv, RenderRemovePopup, layout.popup # None
    PROVE  Focus(layout')
<1> DEFINE hidden == RemovePopup(layout)
           p == layout.popup
<1>1. layout \in LayoutType /\ Focus(layout) /\ TypeOK /\ Places /\ p \in Pane
  BY SInvFacts DEF FInv, LayoutType, RenderRemovePopup
<1>2. Good(hidden) /\ hidden \in LayoutType /\ SameTree(layout, hidden) /\ SameOwners([layout EXCEPT !.popup = None], hidden)
  <2> DEFINE off == [layout EXCEPT !.popup = None]
  <2>1. hidden \in LayoutType /\ SameTree(layout, hidden)
    BY <1>1, PopupType DEF RemovePopup
  <2>2. /\ off \in LayoutType /\ SameLists(layout, off) /\ SameScreen(layout, off)
        /\ layout.activeSession \in Session \cup {None}
    BY <1>1 DEF LayoutType, SameLists, SameScreen
  <2>3. hidden = IF layout.activeSession = None THEN off ELSE SessionSetIsActive(off, layout.activeSession, TRUE)
    BY DEF RemovePopup
  <2> HIDE DEF hidden, off
  <2>4. SameLists(layout, hidden) /\ SameScreen(layout, hidden) /\ SameOwners(off, hidden)
    <3>1. CASE layout.activeSession = None
      BY <2>2, <2>3, <3>1 DEF SameOwners
    <3>2. CASE layout.activeSession # None
      <4> DEFINE a == layout.activeSession
      <4>1. a \in Session
        BY <2>2, <3>2
      <4>2. hidden = SessionSetIsActive(off, a, TRUE)
        BY <2>3, <3>2
      <4> HIDE DEF a
      <4>3. SameLists(off, hidden) /\ SameScreen(off, hidden) /\ SameOwners(off, hidden)
        BY <2>2, <4>1, <4>2, SessionSetIsActiveScreen, SessionSetIsActiveOwners
      <4> QED
        BY <2>2, <4>3 DEF SameLists, SameScreen
    <3> QED
      BY <3>1, <3>2
  <2>5. Good(layout)
    BY SInvFacts DEF FInv
  <2> QED
    BY <2>1, <2>4, <2>5, FrameGood DEF off
<1>3. hidden.panes = layout.panes
  BY <1>1, <1>2 DEF SameOwners, LayoutType
<1>4. \A u \in Tab : p \notin layout.panes[u]
  BY <1>1, HomeFacts, ConstantsAssumption DEF Places
<1>5. Awake(hidden)
  BY <1>1, PopupFocus
<1>6. layout' = [hidden EXCEPT !.focused = hidden.focused \ {p}]
  BY DEF RenderRemovePopup
<1> HIDE DEF hidden, p
<1>7. hidden.activeSession \in Session \cup {None} /\ layout'.activeSession = hidden.activeSession
  BY <1>2, <1>6 DEF LayoutType
<1>8. FocusAt(layout', hidden.activeSession)
  BY <1>1, <1>2, <1>3, <1>4, <1>5, <1>6, <1>7, GoneUnfocused DEF Good, Awake
<1> QED
  BY <1>7, <1>8 DEF Focus, Awake

\* A pane exits: the focus goes where the active pane goes.
LEMMA ExitMoves ==
    ASSUME FInv, RenderPaneExited
    PROVE  /\ Focus(layout')
           /\ Head(events).pane # layout.active[ActiveTab] =>
                 /\ Kept(layout, layout')
                 /\ \A x \in {None, layout.activeSession} : FocusAt(layout, x) => FocusAt(layout', x)
<1> DEFINE ev == Head(events)
           unlisted == RemovePane(layout, ev.session, ev.tab, ev.pane)
<1>1. /\ TypeOK /\ Places /\ layout \in LayoutType /\ SessionsOK(layout) /\ Good(layout)
      /\ Focus(layout) /\ PInv /\ events # <<>> /\ ev.type = "PaneExited"
  BY SInvFacts DEF FInv, SInv, RenderPaneExited
<1>2. PICK p \in Pane : proc[p] = "exited" /\ p # leaving /\ ev = ExitEvent(p)
  BY <1>1, HeadExit
<1> DEFINE s == home[p].session
           t == home[p].tab
<1>3. /\ home[p] # NoHome /\ ev.pane = p /\ ev.session = s /\ ev.tab = t
      /\ s \in Session /\ t \in Tab
  BY <1>1, <1>2, ExitEventFacts, HomeFacts
<1>4. p # layout.popup
  BY <1>1, <1>3, ConstantsAssumption DEF Places
<1>5. t \in Elems(layout.tabs[s]) /\ p \in layout.panes[t]
  BY <1>1, <1>2, <1>4 DEF Places
<1>6. s \in Elems(layout.sessions) /\ layout.sessions # <<>>
  BY <1>1, <1>3, <1>5, EmptyElems DEF SessionsOK
<1>7. t \in LiveTabs
  BY <1>5, <1>6 DEF LiveTabs
<1>8. layout' = [unlisted EXCEPT !.focused = IF ev.pane \in layout.panes[ev.tab] THEN @ \ {ev.pane} ELSE @]
  BY <1>3, <1>5, <1>6, <1>7 DEF RenderPaneExited
<1>9. unlisted = RemovePane(layout, s, t, p) /\ layout' = [unlisted EXCEPT !.focused = unlisted.focused \ {p}]
  BY <1>3, <1>5, <1>8
<1>10. \A u \in Tab \ {t} : p \notin layout.panes[u]
  BY <1>1 DEF Places
<1>11. layout.activeSession # None /\ ActiveTab = layout.activeTab[layout.activeSession]
  BY <1>1, <1>6, ActiveOK, ConstantsAssumption DEF PInv, IInv, ActiveTab
<1> HIDE DEF unlisted, s, t
<1>12. unlisted \in LayoutType
  BY <1>1, <1>3, <1>6, <1>9, RemovePaneOK
<1>13. Good(unlisted) /\ Moved(layout, unlisted)
  BY <1>1, <1>5, <1>6, <1>9, RemovePaneGood, RemovePaneFocus
<1>14. unlisted.popup = layout.popup /\ unlisted.panes = [layout.panes EXCEPT ![t] = @ \ {p}]
  <2>1. Removed(layout, RemovePane(layout, s, t, p), s, t, p)
    BY <1>1, <1>5, <1>6, RemovePaneOwners
  <2> QED
    BY <1>9, <2>1 DEF Removed
<1>15. \A u \in Tab : p \notin unlisted.panes[u]
  BY <1>1, <1>10, <1>14 DEF LayoutType
<1>16. \A x \in Session \cup {None} : FocusAt(unlisted, x) => FocusAt(layout', x)
  BY <1>9, <1>12, <1>13, <1>15, GoneUnfocused DEF Good
<1>17. /\ layout'.activeSession = unlisted.activeSession /\ layout'.popup = unlisted.popup
       /\ layout'.activeTab = unlisted.activeTab /\ layout'.active = unlisted.active
       /\ unlisted.activeSession \in Session \cup {None}
  BY <1>9, <1>12 DEF LayoutType
<1>18. Focus(layout')
  <2>1. Moved(unlisted, layout')
    BY <1>16, <1>17 DEF Moved, Awake
  <2>2. Moved(layout, layout')
    BY <1>13, <2>1 DEF Moved
  <2> QED
    BY <1>1, <1>14, <1>17, <2>2, MovedFocus
<1>19. ASSUME p # layout.active[ActiveTab]
       PROVE  /\ Kept(layout, layout')
              /\ \A x \in {None, layout.activeSession} : FocusAt(layout, x) => FocusAt(layout', x)
  <2>1. /\ Kept(layout, unlisted)
        /\ \A x \in {None, layout.activeSession} : FocusAt(layout, x) => FocusAt(unlisted, x)
    BY <1>1, <1>5, <1>6, <1>9, <1>11, <1>19, RemovePaneKeeps DEF Good
  <2>2. layout.activeSession \in Session \cup {None}
    BY <1>1 DEF LayoutType
  <2>3. Kept(layout, layout')
    BY <1>17, <2>1 DEF Kept
  <2> QED
    BY <1>16, <2>1, <2>2, <2>3
<1> QED
  BY <1>3, <1>18, <1>19

\* The first session gets the focus as it is added.
LEMMA InitFInv == Init => FInv
<1> SUFFICES ASSUME Init PROVE FInv
  OBVIOUS
<1>1. SInv
  BY InitSInv
<1>2. PICK s \in Session, t \in Tab, p \in Pane, size \in Sizes :
         layout = AddSession(EmptyLayout(size), s, t, p, TRUE)
  BY DEF Init
<1> DEFINE st == EmptyLayout(size)
<1>3. st \in LayoutType /\ SessionsOK(st)
  BY InitialLayoutOK
<1>4. /\ st.sessions = <<>> /\ st.activeSession = None /\ st.tabs = [q \in Session |-> <<>>]
      /\ st.tabIsActive = [u \in Tab |-> FALSE] /\ st.focused = {} /\ st.popup = None
  BY DEF EmptyLayout
<1>5. st.sessionIsActive = [q \in Session |-> FALSE]
  BY DEF EmptyLayout
<1> HIDE DEF st
<1>6. SessionIn(st, None)
  BY <1>5, ConstantsAssumption DEF SessionIn
<1>7. FocusIn(st, None)
  BY <1>4, ConstantsAssumption DEF FocusIn
<1>8. Focus(st)
  BY <1>4, <1>6, <1>7 DEF Focus, Awake, FocusAt, TabOf
<1>9. s \in Session \ Elems(st.sessions) /\ \A q \in Session : t \notin Elems(st.tabs[q])
  BY <1>4, EmptyElems
<1>10. Moved(st, AddSession(st, s, t, p, TRUE))
  BY <1>3, <1>9, AddSessionFocus, Zenon
<1>11. Moved(st, layout)
  BY <1>2, <1>10, Zenon DEF st
<1> QED
  BY <1>1, <1>4, <1>8, <1>11, MovedFocus DEF FInv

LEMMA NextFInv ==
    ASSUME HardResetBound = FALSE, PopupClicks = FALSE
    PROVE  FInv /\ [Next]_vars => FInv'
<1> SUFFICES ASSUME FInv, [Next]_vars PROVE FInv'
  OBVIOUS
<1>1. SInv'
  BY NextSInv DEF FInv
<1>2. layout' = layout => Focus(layout')
  BY DEF FInv
<1>3. Focus(layout')
  <2>1. CASE KeyActions
    <3>1. ~HardReset
      BY DEF HardReset
    <3>2. ~HardResetEnd
      BY DEF HardResetEnd, FInv, SInv, PInv, Places
    <3>3. CASE OpenPopup
      BY <3>3, OpenFocus
    <3>4. CASE CreateTab \/ CreateSession \/ CreateSessionFails \/ AddPaneAction
      BY <3>4, AddMoves, MovedFocus DEF FInv
    <3>5. CASE SwitchTab \/ SwitchSession \/ Navigate \/ ToggleFullScreen
      BY <3>5, SelectMoves, MovedFocus DEF FInv
    <3> QED
      BY <2>1, <3>1, <3>2, <3>3, <3>4, <3>5 DEF KeyActions
  <2>2. CASE MouseActions
    BY <1>2, <2>2, SelectMoves, MovedFocus DEF MouseActions, PopupPress, StatusBarPress, FInv
  <2>3. CASE HookActions
    BY <2>3, HookFocus DEF HookActions
  <2>4. CASE RenderActions
    <3>1. CASE RenderResize
      BY <3>1, SelectMoves, MovedFocus DEF FInv
    <3> QED
      BY <1>2, <2>4, <3>1, ExitMoves, CloseFocus, TabClickFocus
      DEF RenderActions, RenderRemovePopup, RenderPaneFreed, RenderPopupFreed
  <2>5. CASE \E p \in Pane : ProcessExit(p)
    BY <1>2, <2>5 DEF ProcessExit
  <2>6. CASE UNCHANGED vars
    BY <1>2, <2>6 DEF vars
  <2> QED
    BY <2>1, <2>2, <2>3, <2>4, <2>5, <2>6 DEF Next
<1> QED
  BY <1>1, <1>3 DEF FInv, Focus, Awake, FocusAt, SessionIn, FocusIn, TabOf

LEMMA FocusGivesOne == FInv => FocusOK
<1> SUFFICES ASSUME FInv, layout.sessions # <<>>
             PROVE  /\ layout.focused \subseteq {layout.active[ActiveTab]}
                    /\ layout.popup = None => layout.focused # {}
  BY DEF FocusOK
<1>1. layout \in LayoutType /\ Focus(layout) /\ Places /\ Good(layout)
  BY SInvFacts DEF FInv
<1> DEFINE a == layout.activeSession
           u == ActiveTab
<1>2. a \in Session /\ u \in Elems(layout.tabs[a]) /\ u \in Tab
  BY ActiveOK DEF FInv, SInv, PInv, IInv
<1>3. TabOf(layout, a) = u /\ TabOf(layout, None) = None /\ u # None
  BY <1>2, ConstantsAssumption DEF TabOf, ActiveTab
<1>4. FocusIn(layout, None) \/ FocusIn(layout, u)
  BY <1>1, <1>3 DEF Focus, Awake, FocusAt
<1>5. layout.focused \subseteq Pane
  BY <1>1 DEF LayoutType
<1>6. layout.active[u] \in Pane
  BY <1>1, <1>2, ActivePane DEF Good, Listed, Places
<1>7. layout.popup = None => FocusIn(layout, u)
  BY <1>1, <1>3 DEF Focus, Awake, FocusAt
<1> HIDE DEF u
<1>8. layout.focused \subseteq {layout.active[u]}
  BY <1>4, <1>5 DEF FocusIn
<1>9. layout.popup = None => layout.active[u] \in layout.focused
  BY <1>3, <1>6, <1>7 DEF FocusIn
<1> QED
  BY <1>8, <1>9 DEF u

-----------------------------------------------------------------------------
(* Theorems *)

\* The classes tell a pane that it has or has lost the focus in many places (tab.cpp:281-323,
\* session.cpp:22-66 and 123-137, layout_state.cpp:36-60, 81-129 and 160-197): whatever is switched, added, removed or covered by
\* a popup, in any order, one pane at most has been told that it has it, the active one on the
\* screen, and without a popup that one has.
THEOREM Focused == HardResetBound = FALSE /\ PopupClicks = FALSE => (Spec => []FocusOK)
<1> SUFFICES ASSUME HardResetBound = FALSE, PopupClicks = FALSE PROVE Spec => []FocusOK
  OBVIOUS
<1>1. FInv /\ [Next]_vars => FInv'
  BY NextFInv
<1> QED
  BY <1>1, InitFInv, FocusGivesOne, PTL DEF Spec

\* LayoutState::remove_pane of a pane that is not the active one on the screen (render.cpp:96-104)
\* leaves what the user looks at where it is, though it may take the tab and the session with it.
THEOREM ExitsDisturbNobody == HardResetBound = FALSE /\ PopupClicks = FALSE => (Spec => ExitKeepsFocus)
<1> SUFFICES ASSUME HardResetBound = FALSE, PopupClicks = FALSE PROVE Spec => ExitKeepsFocus
  OBVIOUS
<1> DEFINE Undisturbed ==
             RenderPaneExited /\ Head(events).pane # layout.active[ActiveTab] =>
                /\ layout'.activeSession = layout.activeSession
                /\ ActiveTab' = ActiveTab
                /\ layout'.active[ActiveTab] = layout.active[ActiveTab]
                /\ layout'.focused = layout.focused
<1>1. FInv /\ [Next]_vars => FInv'
  BY NextFInv
<1>2. FInv /\ [Next]_vars => [Undisturbed]_vars
  <2> SUFFICES ASSUME FInv, RenderPaneExited, Head(events).pane # layout.active[ActiveTab],
                      FInv'
               PROVE  /\ layout'.activeSession = layout.activeSession
                      /\ ActiveTab' = ActiveTab
                      /\ layout'.active[ActiveTab] = layout.active[ActiveTab]
                      /\ layout'.focused = layout.focused
    BY <1>1
  <2>1. layout \in LayoutType /\ layout' \in LayoutType /\ Focus(layout)
    BY SInvFacts DEF FInv, SInv, PInv, IInv, TypeOK
  <2>2. layout.activeSession \in Session /\ ActiveTab \in Tab /\ layout.activeSession # None
    BY ActiveOK, ConstantsAssumption DEF FInv, SInv, PInv, IInv, RenderPaneExited, RenderTurn, LockFree
  <2>3. /\ Kept(layout, layout')
        /\ \A x \in {None, layout.activeSession} : FocusAt(layout, x) => FocusAt(layout', x)
    BY ExitMoves
  <2>4. /\ layout'.activeSession = layout.activeSession /\ ActiveTab' = ActiveTab
        /\ layout'.active[ActiveTab] = layout.active[ActiveTab]
    BY <2>2, <2>3 DEF Kept, ActiveTab
  <2>5. PICK x \in {None, layout.activeSession} : FocusAt(layout, x) /\ FocusAt(layout', x)
    BY <2>1, <2>3 DEF Focus, Awake
  <2>6. PICK u \in {None, ActiveTab} : FocusIn(layout, u) /\ FocusIn(layout', u)
    BY <2>2, <2>4, <2>5 DEF FocusAt, TabOf, ActiveTab
  <2>7. \A p \in Pane : p \in layout'.focused <=> p \in layout.focused
    BY <2>4, <2>6 DEF FocusIn
  <2>8. layout.focused \subseteq Pane /\ layout'.focused \subseteq Pane
    BY <2>1 DEF LayoutType
  <2> QED
    BY <2>4, <2>7, <2>8
<1> QED
  BY <1>1, <1>2, InitFInv, PTL DEF Spec, ExitKeepsFocus
=============================================================================

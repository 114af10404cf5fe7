---------------------------- MODULE LayoutState ----------------------------
(***************************************************************************)
(* The session / tab / pane tree of ttx (src/src/layout_state.cpp,         *)
(* session.cpp, tab.cpp) and the threads that change it: the input thread  *)
(* (key actions, mouse), the render thread (PaneExited, RemovePopup, tab   *)
(* clicks, resizes), the reader threads of the popup pane (its output      *)
(* hooks) and the process thread of every pane (did_exit).                 *)
(*                                                                         *)
(* `layout` is the LayoutState object.  Its methods call each other while  *)
(* the layout lock is held, so each is an operator from an object value to *)
(* an object value, and an action applies the one its handler calls.       *)
(*                                                                         *)
(* Sessions, tabs and panes are ADDRESSES: what is freed may be allocated  *)
(* again, and an event or a hook that captured a pointer keeps it.         *)
(***************************************************************************)
EXTENDS Integers, Sequences, FiniteSets

CONSTANTS
    Session, Tab, Pane,  \* addresses of the objects, reused once freed
    None,                \* the null pointer
    Sizes,               \* sizes the layout may be given (LayoutState::available_size)
    PopupKinds,          \* the popups bound to keys
    HardResetBound,      \* hard_reset() is bound to a key
    PopupClicks,         \* the mouse may be pressed inside a popup
    LateKeys,            \* a reader thread handles keys besides the input thread: a key that
                         \* found no popup may be acted on after the other has opened one
    MaxEvents            \* bound: events waiting for the render thread

AllPopupKinds == {"rename_tab", "rename_session", "find_tab", "find_session", "other"}

ASSUME ConstantsAssumption ==
    /\ None \notin Session \cup Tab \cup Pane
    /\ PopupKinds \subseteq AllPopupKinds
    /\ HardResetBound \in BOOLEAN
    /\ PopupClicks \in BOOLEAN
    /\ LateKeys \in BOOLEAN
    /\ MaxEvents \in Nat

VARIABLES
    layout,     \* the LayoutState object: see LayoutType
    events,     \* the render thread's queue, oldest first
    proc,       \* proc[p]: the pane's child process, "free" when no pane is at p
    home,       \* home[p]: the session and tab captured by the pane's did_exit hook
    replacing,  \* the pane ~Pane waits for inside replace_pane, which holds the lock
    leaving,    \* the pane whose ~Pane the render thread is in, or None
    hook,       \* what the output hooks of the popup pane captured
    fault       \* the undefined behaviour the program ran into, or "none"

vars == <<layout, events, proc, home, replacing, leaving, hook, fault>>

-----------------------------------------------------------------------------
(* Types *)

LayoutType ==
    [sessions        : Seq(Session),               \* m_sessions
     activeSession   : Session \cup {None},        \* m_active_session
     size            : Sizes,                      \* m_size, less the status bar
     popup           : Pane \cup {None},           \* m_popup and m_popup_layout
     tabs            : [Session -> Seq(Tab)],      \* Session::m_tabs
     activeTab       : [Session -> Tab \cup {None}],
     sessionIsActive : [Session -> BOOLEAN],       \* Session::m_is_active
     sessionSize     : [Session -> Sizes \cup {None}],
     panes           : [Tab -> SUBSET Pane],       \* panes owned by Tab::m_layout_root
     recency         : [Tab -> Seq(Pane)],         \* m_panes_ordered_by_recency
     active          : [Tab -> Pane \cup {None}],  \* Tab::m_active
     fullScreen      : [Tab -> Pane \cup {None}],  \* Tab::m_full_screen_pane
     tabIsActive     : [Tab -> BOOLEAN],           \* Tab::m_is_active
     tabSize         : [Tab -> Sizes \cup {None}], \* Tab::m_size
     tree            : [Tab -> SUBSET Pane],       \* panes shown by Tab::m_layout_tree
     focused         : SUBSET Pane]                \* last told FocusEvent::focus_in by a tab

PaneExitedEvent == [type : {"PaneExited"}, session : Session, tab : Tab, pane : Pane]
RemovePopupEvent == [type : {"RemovePopup"}]
TabClickEvent == [type : {"TabClick"}, index : Nat]
Event == PaneExitedEvent \cup RemovePopupEvent \cup TabClickEvent

NoHome == [session |-> None, tab |-> None]
Home == [session : Session, tab : Tab] \cup {NoHome}  \* NoHome: free, or the popup's pane

Hook == [kind    : AllPopupKinds \cup {"none"},
         session : Session \cup {None},
         tab     : Tab \cup {None},
         index   : Nat,
         done    : BOOLEAN]
NoHook == [kind |-> "none", session |-> None, tab |-> None, index |-> 0, done |-> TRUE]

Faults == {"none", "dead_tab", "dangling_session", "dangling_pane", "null_ref"}

TypeOK ==
    /\ layout \in LayoutType
    /\ events \in Seq(Event)
    /\ proc \in [Pane -> {"free", "running", "exited"}]
    /\ home \in [Pane -> Home]
    /\ replacing \in Pane \cup {None}
    /\ leaving \in Pane \cup {None}
    /\ hook \in Hook
    /\ fault \in Faults

-----------------------------------------------------------------------------
(* Vectors of pointers *)

Elems(seq) == {seq[i] : i \in 1 .. Len(seq)}

IndexOf(seq, x) == CHOOSE i \in 1 .. Len(seq) : seq[i] = x

\* di::erase and di::erase_if, on a vector that holds x at most once.
Without(seq, x) ==
    IF x \in Elems(seq)
    THEN SubSeq(seq, 1, IndexOf(seq, x) - 1) \o SubSeq(seq, IndexOf(seq, x) + 1, Len(seq))
    ELSE seq

\* di::replace.
Replaced(seq, x, y) == [i \in 1 .. Len(seq) |-> IF seq[i] = x THEN y ELSE seq[i]]

Front1(seq) == IF seq = <<>> THEN None ELSE seq[1]

\* The session or tab that becomes active when x, the active one, is removed.
Neighbour(seq, x) ==
    IF x \notin Elems(seq) THEN Front1(seq)
    ELSE IF Len(seq) = 1 THEN None
    ELSE IF IndexOf(seq, x) = Len(seq) THEN seq[IndexOf(seq, x) - 1]
    ELSE seq[IndexOf(seq, x) + 1]

NonNull(p) == {p} \ {None}

-----------------------------------------------------------------------------
(* Tab *)

TabLayout(st, t, size) ==
    [st EXCEPT !.tabSize[t] = size,
               !.tree[t] = IF st.fullScreen[t] # None THEN {st.fullScreen[t]} ELSE st.panes[t]]

TabSetActive(st, t, p) ==
    IF st.active[t] = p THEN st
    ELSE LET cleared == IF st.fullScreen[t] \in {None, p} THEN st
                        ELSE TabLayout([st EXCEPT !.fullScreen[t] = None], t, st.tabSize[t])
         IN  [cleared EXCEPT
                !.active[t] = p,
                !.recency[t] = IF p = None THEN @ ELSE <<p>> \o Without(@, p),
                !.focused = IF st.tabIsActive[t] THEN (@ \ {st.active[t]}) \cup NonNull(p) ELSE @]

TabSetIsActive(st, t, b) ==
    IF st.tabIsActive[t] = b THEN st
    ELSE [st EXCEPT !.tabIsActive[t] = b,
                    !.focused = (@ \ {st.active[t]}) \cup (IF b THEN NonNull(st.active[t]) ELSE {})]

TabSetFullScreen(st, t, p) ==
    IF st.fullScreen[t] = p THEN st
    ELSE IF p = None THEN TabLayout([st EXCEPT !.fullScreen[t] = None], t, st.tabSize[t])
    ELSE TabLayout(TabSetActive([st EXCEPT !.fullScreen[t] = p], t, p), t, st.tabSize[t])

TabRemovePane(st, t, p) ==
    LET unlisted == [st EXCEPT !.fullScreen[t] = IF @ = p THEN None ELSE @,
                               !.recency[t] = Without(@, p)]
        refocused == IF st.active[t] = p THEN TabSetActive(unlisted, t, Front1(unlisted.recency[t]))
                     ELSE unlisted
    IN  [refocused EXCEPT !.panes[t] = @ \ {p}]

TabAddPane(st, t, p) ==
    TabSetActive([st EXCEPT !.panes[t] = @ \cup {p}, !.tree[t] = st.panes[t] \cup {p}], t, p)

\* Tab::replace_pane up to the point where the old pane is destroyed.
TabReplacePane(st, t, old, new) ==
    [st EXCEPT !.recency[t] = Replaced(@, old, new),
               !.active[t] = IF @ = old THEN new ELSE @,
               !.focused = IF st.active[t] = old THEN @ \cup {new} ELSE @,
               !.fullScreen[t] = IF @ = old THEN new ELSE @,
               !.tree[t] = (@ \ {old}) \cup {new},
               !.panes[t] = (@ \ {old}) \cup {new}]

\* The destructor of Tab: the address t is free again.
TabDestroy(st, t) ==
    [st EXCEPT !.panes[t] = {}, !.recency[t] = <<>>, !.active[t] = None, !.fullScreen[t] = None,
               !.tabIsActive[t] = FALSE, !.tabSize[t] = None, !.tree[t] = {}]

-----------------------------------------------------------------------------
(* Session *)

SessionLayout(st, s, size) ==
    LET sized == [st EXCEPT !.sessionSize[s] = size]
    IN  IF st.activeTab[s] = None THEN sized ELSE TabLayout(sized, st.activeTab[s], size)

SessionSetActiveTab(st, s, t) ==
    IF st.activeTab[s] = t THEN st
    ELSE LET left == IF st.sessionIsActive[s] /\ st.activeTab[s] # None
                     THEN TabSetIsActive(st, st.activeTab[s], FALSE) ELSE st
             moved == [left EXCEPT !.activeTab[s] = t]
             entered == IF st.sessionIsActive[s] /\ t # None
                        THEN TabSetIsActive(moved, t, TRUE) ELSE moved
         IN  SessionLayout(entered, s, st.sessionSize[s])

SessionSetIsActive(st, s, b) ==
    IF st.sessionIsActive[s] = b THEN st
    ELSE LET set == [st EXCEPT !.sessionIsActive[s] = b]
         IN  IF st.activeTab[s] = None THEN set ELSE TabSetIsActive(set, st.activeTab[s], b)

\* Mutants of SessionRemoveTab: the active tab is left dangling; it is moved whichever tab goes.
SessionRemoveTab_Dangling(st, s, t) ==
    TabDestroy([st EXCEPT !.tabs[s] = Without(@, t)], t)

SessionRemoveTab_AlwaysMove(st, s, t) ==
    LET moved == SessionSetActiveTab(st, s, Neighbour(st.tabs[s], t))
    IN  TabDestroy([moved EXCEPT !.tabs[s] = Without(@, t)], t)

SessionRemoveTab(st, s, t) ==
    LET moved == IF st.activeTab[s] = t
                 THEN SessionSetActiveTab(st, s, Neighbour(st.tabs[s], t)) ELSE st
    IN  IF t \in Elems(st.tabs[s])
        THEN TabDestroy([moved EXCEPT !.tabs[s] = Without(@, t)], t) ELSE moved

\* Mutant: the active tab is not laid out again.
SessionRemovePane_NoLayout(st, s, t, p) ==
    LET removed == TabRemovePane(st, t, p)
    IN  IF removed.panes[t] = {} THEN SessionRemoveTab(removed, s, t) ELSE removed

SessionRemovePane(st, s, t, p) ==
    LET removed == TabRemovePane(st, t, p)
    IN  IF removed.panes[t] = {} THEN SessionRemoveTab(removed, s, t)
        ELSE IF p \in st.panes[t] /\ st.activeTab[s] = t
        THEN SessionLayout(removed, s, removed.sessionSize[s])
        ELSE removed

SessionAddTab(st, s, t, p) ==
    LET moved == SessionSetActiveTab(TabAddPane(st, t, p), s, t)
    IN  [moved EXCEPT !.tabs[s] = Append(@, t)]

\* The destructor of Session: the address s is free again.
SessionDestroy(st, s) ==
    [st EXCEPT !.activeTab[s] = None, !.sessionIsActive[s] = FALSE, !.sessionSize[s] = None]

-----------------------------------------------------------------------------
(* LayoutState *)

Layout(st, size) ==
    LET sized == [st EXCEPT !.size = size]
    IN  IF st.activeSession = None THEN sized ELSE SessionLayout(sized, st.activeSession, size)

SetActiveSession(st, s, focus) ==
    IF st.activeSession = s THEN st
    ELSE LET left == IF st.activeSession # None
                     THEN SessionSetIsActive(st, st.activeSession, FALSE) ELSE st
             moved == [left EXCEPT !.activeSession = s]
             entered == IF focus /\ s # None THEN SessionSetIsActive(moved, s, TRUE) ELSE moved
         IN  Layout(entered, entered.size)

SetActiveTab(st, s, t, focus) ==
    SessionSetActiveTab(IF focus THEN SetActiveSession(st, s, TRUE) ELSE st, s, t)

RemoveSession(st, s) ==
    LET moved == IF st.activeSession = s
                 THEN SetActiveSession(st, Neighbour(st.sessions, s), TRUE) ELSE st
    IN  SessionDestroy([moved EXCEPT !.sessions = Without(@, s)], s)

RemovePane(st, s, t, p) ==
    LET removed == SessionRemovePane(st, s, t, p)
    IN  IF removed.tabs[s] = <<>> THEN RemoveSession(removed, s) ELSE removed

AddPane(st, s, t, p) == TabAddPane(SetActiveSession(st, s, TRUE), t, p)

\* made: the terminal is large enough and the child was spawned.
AddTab(st, s, t, p, made) ==
    LET chosen == SetActiveSession(st, s, TRUE)
    IN  IF made THEN SessionAddTab(chosen, s, t, p) ELSE chosen

AddSession(st, s, t, p, made) ==
    LET added == AddTab([st EXCEPT !.sessions = Append(@, s)], s, t, p, made)
    IN  IF made THEN added ELSE RemoveSession(added, s)

PopupPane(st, p) ==
    LET shown == [st EXCEPT !.popup = p]
    IN  IF st.activeSession = None THEN shown ELSE SessionSetIsActive(shown, st.activeSession, FALSE)

\* Mutants of RemovePopup: the session does not get the focus back; m_popup is not reset.
RemovePopup_NoFocus(st) == [st EXCEPT !.popup = None]

RemovePopup_Kept(st) ==
    IF st.activeSession = None THEN st ELSE SessionSetIsActive(st, st.activeSession, TRUE)

RemovePopup(st) ==
    LET hidden == [st EXCEPT !.popup = None]
    IN  IF st.activeSession = None THEN hidden ELSE SessionSetIsActive(hidden, st.activeSession, TRUE)

EmptyLayout(size) ==
    [sessions |-> <<>>, activeSession |-> None, size |-> size, popup |-> None,
     tabs |-> [s \in Session |-> <<>>], activeTab |-> [s \in Session |-> None],
     sessionIsActive |-> [s \in Session |-> FALSE], sessionSize |-> [s \in Session |-> None],
     panes |-> [t \in Tab |-> {}], recency |-> [t \in Tab |-> <<>>],
     active |-> [t \in Tab |-> None], fullScreen |-> [t \in Tab |-> None],
     tabIsActive |-> [t \in Tab |-> FALSE], tabSize |-> [t \in Tab |-> None],
     tree |-> [t \in Tab |-> {}], focused |-> {}]

-----------------------------------------------------------------------------
(* What the handlers read *)

LiveTabs == UNION {Elems(layout.tabs[s]) : s \in Elems(layout.sessions)}

ActiveTab == IF layout.activeSession = None THEN None ELSE layout.activeTab[layout.activeSession]

\* ~Pane of the popup's pane runs with the layout lock held (RenderRemovePopup).
PopupLeaving == leaving # None /\ home[leaving] = NoHome

\* A handler that takes the layout lock runs: no destructor is waited for with the lock held, and
\* the last session has not gone (the render thread then returns and ttx shuts down).
LockFree == fault = "none" /\ replacing = None /\ ~PopupLeaving /\ layout.sessions # <<>>

\* InputThread::handle_event(KeyEvent): a popup swallows the keys, so no action runs.  The lock is
\* given up between this test and the action; only another key can open a popup in between.
KeyAction == LockFree /\ (layout.popup = None \/ LateKeys)

\* The render thread is at its queue, not in a destructor.
RenderTurn == LockFree /\ leaving = None

FreeSessions == Session \ Elems(layout.sessions)
FreeTabs == Tab \ LiveTabs
FreePanes == {p \in Pane : proc[p] = "free"}

\* Pane::create: the child runs, the did_exit hook has captured session and tab.
Spawn(p, s, t) ==
    /\ proc' = [proc EXCEPT ![p] = "running"]
    /\ home' = [home EXCEPT ![p] = [session |-> s, tab |-> t]]

\* What the did_exit hook pushes to the render thread.
ExitEvent(p) ==
    IF home[p].tab = None THEN [type |-> "RemovePopup"]
    ELSE [type |-> "PaneExited", session |-> home[p].session, tab |-> home[p].tab, pane |-> p]

\* The end of ~Pane: every thread is joined, the process thread after its did_exit hook, so the
\* child has exited and its event has been pushed.  It may never come to that: ~Pane waits for a
\* child that ignores SIGHUP, or as long as PaneThreads says.
Destroy(p) ==
    /\ fault = "none"
    /\ proc[p] = "exited"
    /\ proc' = [proc EXCEPT ![p] = "free"]
    /\ home' = [home EXCEPT ![p] = NoHome]
    /\ UNCHANGED events

-----------------------------------------------------------------------------
(* Input thread: key actions *)

CreateTab ==
    /\ KeyAction
    /\ \E t \in FreeTabs, p \in FreePanes :
          /\ layout' = AddTab(layout, layout.activeSession, t, p, TRUE)
          /\ Spawn(p, layout.activeSession, t)
    /\ UNCHANGED <<events, replacing, leaving, hook, fault>>

CreateSession ==
    /\ KeyAction
    /\ \E s \in FreeSessions, t \in FreeTabs, p \in FreePanes :
          /\ layout' = AddSession(layout, s, t, p, TRUE)
          /\ Spawn(p, s, t)
    /\ UNCHANGED <<events, replacing, leaving, hook, fault>>

\* The child cannot be spawned: the new session is removed again.
CreateSessionFails ==
    /\ KeyAction
    /\ \E s \in FreeSessions, t \in FreeTabs, p \in FreePanes :
          layout' = AddSession(layout, s, t, p, FALSE)
    /\ UNCHANGED <<events, proc, home, replacing, leaving, hook, fault>>

AddPaneAction ==
    /\ KeyAction
    /\ \E p \in FreePanes :
          /\ layout' = AddPane(layout, layout.activeSession, ActiveTab, p)
          /\ Spawn(p, layout.activeSession, ActiveTab)
    /\ UNCHANGED <<events, replacing, leaving, hook, fault>>

\* switch_tab(index), switch_next_tab and switch_prev_tab.
SwitchTab ==
    /\ KeyAction
    /\ \E t \in Elems(layout.tabs[layout.activeSession]) :
          layout' = SetActiveTab(layout, layout.activeSession, t, TRUE)
    /\ UNCHANGED <<events, proc, home, replacing, leaving, hook, fault>>

\* switch_next_session and switch_prev_session: one step round the ring.
SwitchSession ==
    /\ KeyAction
    /\ \E d \in {1, -1} :
          LET n == Len(layout.sessions)
              i == ((IndexOf(layout.sessions, layout.activeSession) - 1 + d) % n) + 1
          IN  layout' = SetActiveSession(layout, layout.sessions[i], TRUE)
    /\ UNCHANGED <<events, proc, home, replacing, leaving, hook, fault>>

\* Tab::navigate, to any pane of the tree: which one is LayoutTree's business.
Navigate ==
    /\ LockFree
    /\ layout.active[ActiveTab] \in layout.tree[ActiveTab]
    /\ \E p \in layout.tree[ActiveTab] : layout' = TabSetActive(layout, ActiveTab, p)
    /\ UNCHANGED <<events, proc, home, replacing, leaving, hook, fault>>

ToggleFullScreen ==
    /\ KeyAction
    /\ LET p == layout.active[ActiveTab]
       IN  layout' = TabSetFullScreen(layout, ActiveTab,
                                      IF p = layout.fullScreen[ActiveTab] THEN None ELSE p)
    /\ UNCHANGED <<events, proc, home, replacing, leaving, hook, fault>>

\* replace_pane: the tab points to the new pane, then ~Pane of the old one waits, with the
\* lock held, for the child to die.  In full screen mode the layout entry has no LayoutPane.
HardReset ==
    /\ KeyAction
    /\ HardResetBound
    /\ LET old == layout.active[ActiveTab]
       IN  /\ old \in layout.tree[ActiveTab]
           /\ \E new \in FreePanes :
                 /\ layout' = TabReplacePane(layout, ActiveTab, old, new)
                 /\ Spawn(new, layout.activeSession, ActiveTab)
           /\ replacing' = old
           /\ fault' = IF layout.fullScreen[ActiveTab] = old THEN "null_ref" ELSE fault
    /\ UNCHANGED <<events, leaving, hook>>

\* The old pane is freed, and replace_pane gives up the lock.
HardResetEnd ==
    /\ replacing # None
    /\ Destroy(replacing)
    /\ replacing' = None
    /\ layout' = [layout EXCEPT !.focused = @ \ {replacing}]
    /\ UNCHANGED <<leaving, hook, fault>>

\* rename_tab, rename_session, find_tab, find_session; save_layout and switch_theme are
\* "other": their hooks leave sessions, tabs and panes alone.
OpenPopup ==
    /\ KeyAction
    /\ layout.popup = None
    /\ \E kind \in PopupKinds, p \in FreePanes :
          /\ layout' = PopupPane(layout, p)
          /\ Spawn(p, None, None)
          /\ hook' = [kind |-> kind,
                      session |-> layout.activeSession,
                      tab |-> ActiveTab,
                      index |-> CASE kind = "find_tab" ->
                                       IndexOf(layout.tabs[layout.activeSession], ActiveTab)
                                  [] kind = "find_session" ->
                                       IndexOf(layout.sessions, layout.activeSession)
                                  [] OTHER -> 0,
                      done |-> FALSE]
    /\ UNCHANGED <<events, replacing, leaving, fault>>

-----------------------------------------------------------------------------
(* Input thread: mouse *)

\* A press on a pane of the tree (a popup is then told to exit).
MousePress ==
    /\ LockFree
    /\ \E p \in layout.tree[ActiveTab] : layout' = TabSetActive(layout, ActiveTab, p)
    /\ UNCHANGED <<events, proc, home, replacing, leaving, hook, fault>>

\* A press inside the popup: the handler makes the popup pane the tab's active pane.
PopupPress ==
    /\ LockFree
    /\ PopupClicks
    /\ layout.popup # None
    /\ layout' = TabSetActive(layout, ActiveTab, layout.popup)
    /\ UNCHANGED <<events, proc, home, replacing, leaving, hook, fault>>

\* A press on the status bar goes to the render thread; the index is that of the entry in
\* the status bar it last drew.
StatusBarPress ==
    /\ LockFree
    /\ Len(events) < MaxEvents
    /\ \E i \in 1 .. Cardinality(Tab) : events' = Append(events, [type |-> "TabClick", index |-> i])
    /\ UNCHANGED <<layout, proc, home, replacing, leaving, hook, fault>>

-----------------------------------------------------------------------------
(* Process threads of the panes *)

\* Mutant: the did_exit hook is missing.
ProcessExit_Silent(p) ==
    /\ fault = "none"
    /\ proc[p] = "running"
    /\ proc' = [proc EXCEPT ![p] = "exited"]
    /\ UNCHANGED <<layout, events, home, replacing, leaving, hook, fault>>

\* The child exits; did_exit pushes PaneExited or RemovePopup.  It takes no layout lock.
ProcessExit(p) ==
    /\ fault = "none"
    /\ layout.sessions # <<>>
    /\ Len(events) < MaxEvents
    /\ proc[p] = "running"
    /\ proc' = [proc EXCEPT ![p] = "exited"]
    /\ events' = Append(events, ExitEvent(p))
    /\ UNCHANGED <<layout, home, replacing, leaving, hook, fault>>

-----------------------------------------------------------------------------
(* Reader threads of the popup pane: its output hooks *)

\* rename_* write through the captured tab or session.  find_tab captured, by reference, a local
\* Optional of the handler that has returned: what is read there may be anything.
HookFaults ==
    CASE hook.kind = "rename_tab" -> {IF hook.tab \in LiveTabs THEN "none" ELSE "dead_tab"}
      [] hook.kind = "rename_session" ->
            {IF hook.session \in Elems(layout.sessions) THEN "none" ELSE "dead_tab"}
      [] hook.kind = "find_tab" -> {"none", "dangling_session"}
      [] OTHER -> {"none"}

\* The tab (of session s, which the Optional reads as) or session with index i of the list,
\* previewed (without focus) or chosen.
HookSelect(s, i, focus) ==
    CASE hook.kind = "find_tab" /\ i \in 1 .. Len(layout.tabs[s]) ->
            SetActiveTab(layout, s, layout.tabs[s][i], focus)
      [] hook.kind = "find_session" /\ i \in 1 .. Len(layout.sessions) ->
            SetActiveSession(layout, layout.sessions[i], focus)
      [] OTHER -> layout

\* did_get_extra_output: the user moves in the list, or types.  It has a thread of its own
\* and may still run when the child has exited and did_finish_output has run.
HookExtraOutput ==
    /\ LockFree
    /\ layout.popup # None
    /\ \E s \in Elems(layout.sessions), i \in 1 .. Cardinality(Session) + Cardinality(Tab) :
       \E outcome \in HookFaults :
          /\ fault' = outcome
          /\ layout' = IF outcome = "none" THEN HookSelect(s, i, FALSE) ELSE layout
    /\ UNCHANGED <<events, proc, home, replacing, leaving, hook>>

\* did_finish_output, at the end of the child's output or once it has exited: what was chosen, or
\* the original index.  Those of kind "other" do not want the layout lock.
HookFinishOutput ==
    /\ IF hook.kind = "other" THEN fault = "none" ELSE LockFree /\ layout.popup # None
    /\ ~hook.done
    /\ \E s \in Elems(layout.sessions) :
       \E i \in 1 .. Cardinality(Session) + Cardinality(Tab) \cup {hook.index} :
       \E outcome \in HookFaults :
          /\ fault' = outcome
          /\ layout' = IF outcome = "none" THEN HookSelect(s, i, TRUE) ELSE layout
    /\ hook' = [hook EXCEPT !.done = TRUE]
    /\ UNCHANGED <<events, proc, home, replacing, leaving>>

-----------------------------------------------------------------------------
(* Render thread *)

\* Mutant: the event stays in the queue once it is handled.
RenderPaneExited_Peek ==
    /\ RenderTurn
    /\ events # <<>>
    /\ Head(events).type = "PaneExited"
    /\ LET ev == Head(events)
       IN  /\ layout' = RemovePane(layout, ev.session, ev.tab, ev.pane)
           /\ leaving' = ev.pane
    /\ UNCHANGED <<events, proc, home, replacing, hook, fault>>

\* The pointers of the event are used as they are; the pane is destroyed after the unlock.
RenderPaneExited ==
    /\ RenderTurn
    /\ events # <<>>
    /\ Head(events).type = "PaneExited"
    /\ events' = Tail(events)
    /\ LET ev == Head(events)
           removed == ev.pane \in layout.panes[ev.tab]
       IN  IF ev.session \notin Elems(layout.sessions) \/ ev.tab \notin LiveTabs
           THEN fault' = "dead_tab" /\ UNCHANGED <<layout, leaving>>
           ELSE /\ layout' = [RemovePane(layout, ev.session, ev.tab, ev.pane) EXCEPT
                                !.focused = IF removed THEN @ \ {ev.pane} ELSE @]
                /\ leaving' = IF removed THEN ev.pane ELSE None
                /\ UNCHANGED fault
    /\ UNCHANGED <<proc, home, replacing, hook>>

\* The popup pane is destroyed with the lock held; nothing happens if there is none.
RenderRemovePopup ==
    /\ RenderTurn
    /\ events # <<>>
    /\ Head(events).type = "RemovePopup"
    /\ events' = Tail(events)
    /\ IF layout.popup = None THEN UNCHANGED <<layout, leaving>>
       ELSE /\ layout' = [RemovePopup(layout) EXCEPT !.focused = @ \ {layout.popup}]
            /\ leaving' = layout.popup
    /\ UNCHANGED <<proc, home, replacing, hook, fault>>

\* ~Pane of a pane that has exited, without the lock.
RenderPaneFreed ==
    /\ leaving # None
    /\ ~PopupLeaving
    /\ Destroy(leaving)
    /\ leaving' = None
    /\ UNCHANGED <<layout, replacing, hook, fault>>

\* ~Pane of the popup's pane joins the thread of did_finish_output first.  A tab that lists the
\* pane (PopupPress) is left with a pointer to freed memory.
RenderPopupFreed ==
    /\ PopupLeaving
    /\ hook.done
    /\ Destroy(leaving)
    /\ leaving' = None
    /\ fault' = IF \E t \in Tab : leaving \in Elems(layout.recency[t]) THEN "dangling_pane" ELSE fault
    /\ hook' = NoHook
    /\ UNCHANGED <<layout, replacing>>

RenderTabClick ==
    /\ RenderTurn
    /\ events # <<>>
    /\ Head(events).type = "TabClick"
    /\ LET tabs == layout.tabs[layout.activeSession]
           i == Head(events).index
       IN  layout' = IF i \in 1 .. Len(tabs)
                     THEN SetActiveTab(layout, layout.activeSession, tabs[i], TRUE) ELSE layout
    /\ events' = Tail(events)
    /\ UNCHANGED <<proc, home, replacing, leaving, hook, fault>>

\* SIGWINCH, or a new configuration that shows or hides the status bar.
RenderResize ==
    /\ RenderTurn
    /\ \E size \in Sizes : layout' = Layout(layout, size)
    /\ UNCHANGED <<events, proc, home, replacing, leaving, hook, fault>>

-----------------------------------------------------------------------------
(* Safety properties *)

LiveSessions == Elems(layout.sessions)

Injective(seq) == \A i, j \in 1 .. Len(seq) : seq[i] = seq[j] => i = j

\* Every session is listed once and has a tab, every tab is in one session, and the active
\* pointers point into what is listed: none dangles after the removals of layout_state.cpp
\* and session.cpp, whichever session and tab the event that causes them names.
SessionsOK(st) ==
    /\ Injective(st.sessions)
    /\ IF st.sessions = <<>> THEN st.activeSession = None
       ELSE st.activeSession \in Elems(st.sessions)
    /\ \A s \in Session :
          /\ Injective(st.tabs[s])
          /\ IF s \in Elems(st.sessions) THEN st.activeTab[s] \in Elems(st.tabs[s])
             ELSE st.tabs[s] = <<>> /\ st.activeTab[s] = None
          /\ \A r \in Session \ {s} : Elems(st.tabs[s]) \cap Elems(st.tabs[r]) = {}

OwnershipOK == SessionsOK(layout)

\* Every tab owns a pane, every pane is owned by one tab or is the popup, and every pane whose
\* address is in use is one of these (or waits to be freed in ~Pane).
PanesOwned ==
    /\ \A t \in LiveTabs : layout.panes[t] # {}
    /\ \A t, u \in Tab : t # u => layout.panes[t] \cap layout.panes[u] = {}
    /\ \A p \in Pane : proc[p] # "free" <=>
          p \in {layout.popup, replacing, leaving} \cup UNION {layout.panes[t] : t \in LiveTabs}

\* In every tab the recency list holds each pane of the layout once, the active pane first,
\* and only the active pane can be full screen (tab.cpp:399, "Full screen pane should
\* always be active").
TabRecencyOK(st, t) ==
    /\ Injective(st.recency[t])
    /\ Elems(st.recency[t]) = st.panes[t]
    /\ st.active[t] = Front1(st.recency[t])
    /\ st.fullScreen[t] \in {None, st.active[t]}

RecencyOK == \A t \in Tab : TabRecencyOK(layout, t)

\* The panes are where Tab and LayoutState look for them: with an owner, and in the list from
\* which the next active pane is taken (Tab::remove_pane).
PanesOK == PanesOwned /\ RecencyOK

\* At most one pane believes it has the focus, and it is the active pane of the active tab of
\* the active session; without a popup that pane does have it.
FocusOK ==
    layout.sessions # <<>> =>
        /\ layout.focused \subseteq {layout.active[ActiveTab]}
        /\ layout.popup = None => layout.focused # {}

\* What the render thread draws is up to date: the layout tree of the tab on the screen shows
\* the panes of that tab (or the full screen one) at the current size, whatever was removed,
\* resized or left behind while the tab was hidden.
OnScreenOK ==
    layout.sessions # <<>> =>
        /\ layout.tabSize[ActiveTab] = layout.size
        /\ layout.tree[ActiveTab] = IF layout.fullScreen[ActiveTab] = None
                                    THEN layout.panes[ActiveTab]
                                    ELSE {layout.fullScreen[ActiveTab]}

\* No exit is reported twice, or for something that is gone: the session, tab and pane that a
\* waiting PaneExited points to are alive.  The render thread uses the pointers unchecked.
EventsLive ==
    fault = "none" =>
        /\ \A i \in 1 .. Len(events) : events[i].type = "PaneExited" =>
              /\ events[i].session \in LiveSessions
              /\ events[i].tab \in Elems(layout.tabs[events[i].session])
              /\ events[i].pane \in layout.panes[events[i].tab]
              /\ proc[events[i].pane] = "exited"
        /\ \A i, j \in 1 .. Len(events) :
              events[i].type = "PaneExited" /\ events[i] = events[j] => i = j

\* RemovePopup carries no pointer: one is waiting only for the popup that is shown, at most one,
\* and the popup's pane is neither freed nor owned by a tab as long as it is shown.
PopupOK ==
    /\ \A i \in 1 .. Len(events) : events[i].type = "RemovePopup" =>
          /\ layout.popup # None
          /\ proc[layout.popup] = "exited"
          /\ \A j \in 1 .. Len(events) : events[j].type = "RemovePopup" => i = j
    /\ layout.popup # None =>
          /\ proc[layout.popup] # "free"
          /\ layout.popup \notin UNION {layout.panes[t] : t \in Tab}

-----------------------------------------------------------------------------
(* Action properties *)

\* A pane that exits in the background disturbs nobody: unless it was the active pane on the
\* screen, the session, tab and pane the user looks at, and the focus, stay where they are.
ExitKeepsFocus ==
    [][RenderPaneExited /\ Head(events).pane # layout.active[ActiveTab] =>
          /\ layout'.activeSession = layout.activeSession
          /\ ActiveTab' = ActiveTab
          /\ layout'.active[ActiveTab] = layout.active[ActiveTab]
          /\ layout'.focused = layout.focused]_vars

-----------------------------------------------------------------------------
(* What comments and assertions of the source say, and the code does not do *)

\* input.cpp:453, ASSERT(entry): the active pane has an entry in the layout tree.
ActiveInTree ==
    layout.sessions # <<>> => layout.active[ActiveTab] \in layout.tree[ActiveTab]

\* actions.cpp:123 and 335: the tab (session) being renamed is alive until the popup is gone.
RenameTargetAlive ==
    /\ hook.kind = "rename_tab" => hook.tab \in LiveTabs
    /\ hook.kind = "rename_session" => hook.session \in LiveSessions

\* tab.cpp:108, "SAFETY": the layout entry of the pane being replaced refers to its LayoutPane.
ReplaceHasLayoutPane == fault # "null_ref"

\* layout_state.cpp:102 and session.cpp:41: panes are not destroyed while the lock is held, so
\* that ~Pane never joins a thread that waits for the lock.
PopupJoinFree == ~(PopupLeaving /\ ~hook.done /\ hook.kind # "other")

-----------------------------------------------------------------------------

\* ttx.cpp: main adds the first session, with the lock held, once the threads have started.
Init ==
    /\ \E s \in Session, t \in Tab, p \in Pane, size \in Sizes :
          /\ layout = AddSession(EmptyLayout(size), s, t, p, TRUE)
          /\ proc = [q \in Pane |-> IF q = p THEN "running" ELSE "free"]
          /\ home = [q \in Pane |-> IF q = p THEN [session |-> s, tab |-> t] ELSE NoHome]
    /\ events = <<>>
    /\ replacing = None
    /\ leaving = None
    /\ hook = NoHook
    /\ fault = "none"

KeyActions ==
    \/ CreateTab \/ CreateSession \/ CreateSessionFails \/ AddPaneAction
    \/ SwitchTab \/ SwitchSession \/ Navigate \/ ToggleFullScreen
    \/ HardReset \/ HardResetEnd \/ OpenPopup

MouseActions == MousePress \/ PopupPress \/ StatusBarPress

HookActions == HookExtraOutput \/ HookFinishOutput

RenderActions ==
    \/ RenderPaneExited \/ RenderRemovePopup \/ RenderPaneFreed \/ RenderPopupFreed
    \/ RenderTabClick \/ RenderResize

Next ==
    \/ KeyActions \/ MouseActions \/ HookActions \/ RenderActions
    \/ \E p \in Pane : ProcessExit(p)

Spec == Init /\ [][Next]_vars

\* The render thread works on its queue as long as it is not in a destructor (render.cpp:71-88),
\* and the popup's pipe reader gets to its hook once the child is dead (pane.cpp:286-303).  Nothing
\* is assumed of the children, of the user and of ~Pane.
Fairness ==
    /\ WF_vars(RenderPaneExited \/ RenderRemovePopup \/ RenderTabClick)
    /\ WF_vars(layout.popup # None /\ proc[layout.popup] = "exited" /\ HookFinishOutput)

FairSpec == Spec /\ Fairness

\* No ~Pane waits for ever, on the render thread or in replace_pane: that depends on the child, on
\* whoever keeps its terminal open, and on the threads of the pane (pane.cpp:350-359, PaneThreads).
DestructorsReturn == []<>(leaving = None) /\ []<>(replacing = None)

\* A pane whose child has exited is freed, unless a destructor does not return, or the program
\* has run into undefined behaviour or lost its last session (and shuts down).  No event is lost,
\* and what is in the queue before it does not keep it there.
ExitedPaneIsRemoved(p) ==
    DestructorsReturn =>
        (proc[p] = "exited" ~> proc[p] # "exited" \/ fault # "none" \/ layout.sessions = <<>>)
=============================================================================

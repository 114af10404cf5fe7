---------------------------- MODULE SaveLayout ----------------------------
(***************************************************************************)
(* Saving and restoring layouts (src/src/save_layout.cpp, the as_json and  *)
(* from_json of sessions, tabs and panes, and the start and end of ttx in  *)
(* src/src/ttx.cpp).  Operations on the layout, made under its lock, push  *)
(* a request to the save thread; a pane that changes its directory does so *)
(* without the lock.  The thread takes all requests at once, and writes    *)
(* the layout as it is then.  ttx may be quit, end with its last pane or   *)
(* be killed at any time, and is then started again.  At the end main      *)
(* destroys the panes with the lock of the layout in its hands.            *)
(*                                                                         *)
(* The panes of a tab are in the order of the layout tree; splits, sizes,  *)
(* names and the popup are left out.  The requests of one operation are    *)
(* one: they are pushed under the lock, which the thread needs to go on.   *)
(***************************************************************************)
EXTENDS Integers, SequencesExt, FiniteSetsExt

CONSTANTS
    Configs,      \* session configurations: [save, restore: BOOLEAN, name]
    SaveNames,    \* names of layout files
    Asked,        \* those a user may ask for
    Earlier,      \* layouts the first file may hold from an earlier ttx
    Directories,  \* working directories of panes
    Home,         \* the one a new session starts in
    MaxChanges,   \* bound: operations on the layout, the configuration and by name
    MaxStarts,    \* bound: starts of ttx
    Failures      \* whether writing a file, or making a pane again, may fail

ASSUME SaveLayoutAssumption ==
    /\ Configs \subseteq [save: BOOLEAN, restore: BOOLEAN, name: SaveNames]
    /\ Asked \subseteq SaveNames
    /\ Home \in Directories
    /\ MaxChanges \in Nat /\ MaxStarts \in Nat
    /\ Failures \in BOOLEAN

VARIABLES
    ttx,       \* "off", "running", the steps of ending, or "killed"
    layout,    \* m_sessions and m_active_session: [sessions, active]
    next,      \* m_next_session_id, m_next_tab_id, m_next_pane_id
    hooked,    \* m_layout_did_update is set
    hooks,     \* ids of panes that changed their directory and have to call the hook
    blocked,   \* what main may have to wait for when it joins the threads of the panes: "lock",
               \* one that waits for the lock main holds, and "child", a child that does not end
    queue,     \* m_events of the save thread
    thread,    \* where it is: [at, events, last, name, json]
    config,    \* its m_config
    settings,  \* the configuration files
    files,     \* the files of the save directory
    broken,    \* history: files whose last write failed
    left,      \* history: the layout when the user quit
    toggled,   \* history: full screen was toggled since the thread last took the layout
    changes, starts

vars == <<ttx, layout, next, hooked, hooks, blocked, queue, thread, config, settings, files, broken,
          left, toggled, changes, starts>>
saver == <<queue, thread, config, files, broken>>
process == <<ttx, hooked, blocked, left, starts>>

\* No sessions yet
Nobody == [sessions |-> <<>>, active |-> 0]
Asleep == [at |-> "sleep", events |-> <<>>, last |-> FALSE, name |-> "", json |-> Nobody]
NoFile == [kind |-> "none"]
Torn == [kind |-> "torn"]

Ids(seq) == [i \in DOMAIN seq |-> seq[i].id]
Position(seq, id) == CHOOSE i \in DOMAIN seq : seq[i].id = id
Find(seq, id) == seq[Position(seq, id)]
Put(seq, item) == [i \in DOMAIN seq |-> IF seq[i].id = item.id THEN item ELSE seq[i]]
\* di::erase, on items of distinct ids that have this one, and on a list of ids
Drop(seq, id) == RemoveAt(seq, Position(seq, id))
Erase(ids, id) ==
    IF id \in Range(ids) THEN RemoveAt(ids, CHOOSE i \in DOMAIN ids : ids[i] = id) ELSE ids

-----------------------------------------------------------------------------
(* Layouts the program can have *)

Pane == [id : Nat, cwd : Directories]
Tab == [id : Nat, panes : Seq(Pane), recency : Seq(Nat), active : Nat, full : Nat]
Session == [id : Nat, tabs : Seq(Tab), active : Nat]

PaneIds(tab) == Range(Ids(tab.panes))
SessionPaneIds(session) == UNION {PaneIds(tab) : tab \in Range(session.tabs)}

\* The active pane is one of its panes, which the recency lists once each; only the active one can
\* be on full screen.
SoundTab(tab) ==
    /\ tab \in Tab
    /\ IsInjective(Ids(tab.panes)) /\ IsInjective(tab.recency)
    /\ Range(tab.recency) = PaneIds(tab)
    /\ tab.active \in PaneIds(tab) /\ tab.full \in {0, tab.active}

SoundSession(session) ==
    /\ session \in Session
    /\ IsInjective(Ids(session.tabs))
    /\ \A tab \in Range(session.tabs) :
        /\ SoundTab(tab)
        /\ \A other \in Range(session.tabs) :
            tab.id # other.id => PaneIds(tab) \cap PaneIds(other) = {}
    /\ session.active \in Range(Ids(session.tabs))

\* One that failed to start may have sessions and none that is active.
Sound(state) ==
    /\ state \in [sessions : Seq(Session), active : Nat]
    /\ IsInjective(Ids(state.sessions))
    /\ \A session \in Range(state.sessions) :
        /\ SoundSession(session)
        /\ \A other \in Range(state.sessions) :
            session.id # other.id => SessionPaneIds(session) \cap SessionPaneIds(other) = {}
    /\ state.active \in Range(Ids(state.sessions)) \cup {0}

\* The ttx that wrote the first file ended with such a layout.
ASSUME EarlierAssumption == \A state \in Earlier : Sound(state)

-----------------------------------------------------------------------------
(* Files: as_json_v1 and from_json_v1 *)

\* The panes of the tree, in its order
PanesToJson(panes) ==
    [i \in DOMAIN panes |-> [id |-> panes[i].id, current_working_directory |-> panes[i].cwd]]

\* An optional id that is missing is 0.
TabToJson(tab) ==
    [id |-> tab.id, full_screen_pane_id |-> tab.full, active_pane_id |-> tab.active,
     pane_ids_by_recency |-> tab.recency, pane_layout |-> PanesToJson(tab.panes)]

SessionToJson(session) ==
    [id |-> session.id, active_tab_id |-> session.active,
     tabs |-> [i \in DOMAIN session.tabs |-> TabToJson(session.tabs[i])]]

AsJson(state) ==
    [kind |-> "layout", active_session_id |-> state.active,
     sessions |-> [i \in DOMAIN state.sessions |-> SessionToJson(state.sessions[i])]]

\* The one asked for if it is there, the first otherwise.
Found(ids, wanted) == IF \E i \in DOMAIN ids : ids[i] = wanted THEN wanted ELSE ids[1]

\* A new pane with the id and the directory of each
PanesFromJson(json) ==
    [i \in DOMAIN json |-> [id |-> json[i].id, cwd |-> json[i].current_working_directory]]

\* Mutant: the active pane is looked for before the one on full screen.
TabFromJson_ActiveFirst(json) ==
    LET ids == Ids(json.pane_layout)
        active == Found(ids, json.active_pane_id)
    IN  [id |-> json.id, panes |-> PanesFromJson(json.pane_layout), active |-> active,
         recency |-> <<active>> \o Erase(ids, active), full |-> 0]

\* The recency is read from the new tab, which has none, and not from the file.
TabFromJson(json) ==
    LET ids == Ids(json.pane_layout)
        full == json.full_screen_pane_id
        active == Found(ids, IF full # 0 THEN full ELSE json.active_pane_id)
    IN  [id |-> json.id, panes |-> PanesFromJson(json.pane_layout), active |-> active,
         recency |-> <<active>> \o Erase(ids, active),
         full |-> IF active = full THEN full ELSE 0]

SessionFromJson(json) ==
    [id |-> json.id, tabs |-> [i \in DOMAIN json.tabs |-> TabFromJson(json.tabs[i])],
     active |-> Found(Ids(json.tabs), json.active_tab_id)]

FromJson(json) ==
    IF json.sessions = <<>> THEN Nobody
    ELSE [sessions |-> [i \in DOMAIN json.sessions |-> SessionFromJson(json.sessions[i])],
          active |-> Found(Ids(json.sessions), json.active_session_id)]

TabsOf(state) == UNION {Range(session.tabs) : session \in Range(state.sessions)}
PanesOf(state) == UNION {Range(tab.panes) : tab \in TabsOf(state)}
IdSet(items) == {item.id : item \in items}

NextIds(state) ==
    [session |-> Max(IdSet(Range(state.sessions))) + 1, tab |-> Max(IdSet(TabsOf(state))) + 1,
     pane |-> Max(IdSet(PanesOf(state))) + 1]

-----------------------------------------------------------------------------
(* The layout *)

NewTab(tab, pane, cwd) ==
    [id |-> tab, panes |-> <<[id |-> pane, cwd |-> cwd]>>, recency |-> <<pane>>, active |-> pane,
     full |-> 0]

WithSession(state) ==
    [sessions |-> Append(state.sessions,
                         [id |-> next.session, tabs |-> <<NewTab(next.tab, next.pane, Home)>>,
                          active |-> next.tab]),
     active |-> next.session]

ActiveSession == Find(layout.sessions, layout.active)
ActiveTab == Find(ActiveSession.tabs, ActiveSession.active)
ActivePane == Find(ActiveTab.panes, ActiveTab.active)

SetSession(session) == [layout EXCEPT !.sessions = Put(@, session)]
SetTab(tab) == SetSession([ActiveSession EXCEPT !.tabs = Put(@, tab)])

\* Mutant: nothing is pushed while a save is being made.
Request_Coalesce ==
    IF hooked /\ thread.at = "sleep" THEN Append(queue, [type |-> "save", name |-> ""]) ELSE queue

\* LayoutState::layout_did_update
Request == IF hooked THEN Append(queue, [type |-> "save", name |-> ""]) ELSE queue

\* Tab::set_active
SetActive(tab, pane) ==
    [tab EXCEPT !.active = pane, !.recency = <<pane>> \o Erase(@, pane),
                !.full = IF @ = pane THEN @ ELSE 0]

\* The one that becomes active when an item that is active is removed: the one after it, or the
\* one before when it is the last.
Successor(items, id) ==
    LET i == Position(items, id)
    IN  IF Len(items) = 1 THEN 0 ELSE IF i = Len(items) THEN items[i - 1].id ELSE items[i + 1].id

Without(record, items, id) ==
    IF record.active = id THEN Successor(items, id) ELSE record.active

RemoveFromTab(tab, pane) ==
    LET rest == Erase(tab.recency, pane)
        smaller == [tab EXCEPT !.panes = Drop(@, pane), !.recency = rest,
                               !.full = IF @ = pane THEN 0 ELSE @]
    IN  IF tab.active # pane THEN smaller
        ELSE IF rest = <<>> THEN [smaller EXCEPT !.active = 0] ELSE SetActive(smaller, rest[1])

\* LayoutState::remove_pane, with the tab and the session that it leaves empty
RemovePaneFrom(state, session, tab, pane) ==
    LET smaller == RemoveFromTab(tab, pane)
        tabs == IF smaller.panes = <<>> THEN Drop(session.tabs, tab.id)
                ELSE Put(session.tabs, smaller)
        active == IF smaller.panes = <<>> THEN Without(session, session.tabs, tab.id)
                  ELSE session.active
    IN  IF tabs # <<>>
        THEN [state EXCEPT !.sessions = Put(@, [session EXCEPT !.tabs = tabs, !.active = active])]
        ELSE [sessions |-> Drop(state.sessions, session.id),
              active |-> Without(state, state.sessions, session.id)]

Change == changes < MaxChanges /\ changes' = changes + 1

\* The input and the render thread go on while ttx is ending, until main takes the lock to remove
\* the panes.  A layout that is empty, or that a failed start left without an active session, has
\* nothing for them to change (a new session begun in it, and the panes of a failed start, are left
\* out).
Live == ttx \in {"running", "ending", "unhooked"}
Operation == Live /\ layout.active # 0 /\ Change /\ UNCHANGED <<process, hooks, settings>>
Requested == queue' = Request /\ UNCHANGED <<thread, config, files, broken>>

AddPane ==
    /\ Operation /\ Requested /\ UNCHANGED toggled
    /\ LET at == Position(ActiveTab.panes, ActiveTab.active) + 1
           new == [id |-> next.pane, cwd |-> ActivePane.cwd]
       IN  layout' = SetTab(SetActive([ActiveTab EXCEPT !.panes = InsertAt(@, at, new)], next.pane))
    /\ next' = [next EXCEPT !.pane = @ + 1]

AddTab ==
    /\ Operation /\ Requested /\ UNCHANGED toggled
    /\ layout' = SetSession([ActiveSession EXCEPT
           !.tabs = Append(@, NewTab(next.tab, next.pane, ActivePane.cwd)), !.active = next.tab])
    /\ next' = [next EXCEPT !.tab = @ + 1, !.pane = @ + 1]

AddSession ==
    /\ Operation /\ Requested /\ UNCHANGED toggled
    /\ layout' = WithSession(layout)
    /\ next' = [session |-> next.session + 1, tab |-> next.tab + 1, pane |-> next.pane + 1]

SelectPane ==
    /\ Operation /\ Requested /\ UNCHANGED toggled
    /\ \E pane \in Range(Ids(ActiveTab.panes)) \ {ActiveTab.active} :
           layout' = SetTab(SetActive(ActiveTab, pane))
    /\ UNCHANGED next

SelectTab ==
    /\ Operation /\ Requested /\ UNCHANGED toggled
    /\ \E session \in Range(layout.sessions) : \E tab \in Range(Ids(session.tabs)) :
           /\ <<session.id, tab>> # <<layout.active, ActiveSession.active>>
           /\ layout' = [sessions |-> Put(layout.sessions, [session EXCEPT !.active = tab]),
                         active |-> session.id]
    /\ UNCHANGED next

\* For the pane that is active already, so that set_active changes nothing and requests no save;
\* nor does anything else.
ToggleFullScreen ==
    /\ Operation
    /\ layout' = SetTab([ActiveTab EXCEPT !.full = IF @ = ActiveTab.active THEN 0
                                                    ELSE ActiveTab.active])
    /\ toggled' = TRUE
    /\ UNCHANGED <<next, saver>>

\* PaneExited on the render thread, which ends with the last pane.
RemovePane ==
    /\ Live /\ layout.active # 0 /\ Change /\ Requested
    /\ \E session \in Range(layout.sessions) : \E tab \in Range(session.tabs) :
         \E pane \in Range(Ids(tab.panes)) :
           layout' = RemovePaneFrom(layout, session, tab, pane)
    /\ ttx' = IF ttx = "running" /\ layout'.sessions = <<>> THEN "ending" ELSE ttx
    /\ left' = IF ttx = "running" THEN NoFile ELSE left
    /\ UNCHANGED <<next, hooked, hooks, blocked, settings, toggled, starts>>

\* Pane::update_cwd, first half: the directory changes under a lock of its own, on the reader
\* thread of the pane, which calls the hook before it changes the directory again.
UpdateCwd ==
    /\ Live /\ layout.active # 0 /\ Change
    /\ \E session \in Range(layout.sessions) : \E tab \in Range(session.tabs) :
         \E pane \in Range(tab.panes) : \E cwd \in Directories \ {pane.cwd} :
        /\ pane.id \notin hooks /\ hooks' = hooks \cup {pane.id}
        /\ layout' = [layout EXCEPT !.sessions = Put(@, [session EXCEPT !.tabs =
                         Put(@, [tab EXCEPT !.panes = Put(@, [pane EXCEPT !.cwd = cwd])])])]
    /\ UNCHANGED <<process, next, settings, saver, toggled>>

\* The second half, without the lock of the layout
CallHook ==
    /\ \E pane \in hooks : hooks' = hooks \ {pane}
    /\ Requested
    /\ UNCHANGED <<process, layout, next, settings, toggled, changes>>

\* save_layout: the user enters a name in a popup.
SaveAs ==
    /\ Operation
    /\ \E name \in Asked : queue' = Append(queue, [type |-> "save", name |-> name])
    /\ UNCHANGED <<layout, next, thread, config, files, broken, toggled>>

\* reload_config, after the files have been edited
ReloadConfig ==
    /\ Live /\ Change
    /\ \E new \in Configs \ {settings} :
           /\ settings' = new
           /\ queue' = Append(queue, [type |-> "config", config |-> new])
    /\ UNCHANGED <<process, layout, next, hooks, thread, config, files, broken, toggled>>

-----------------------------------------------------------------------------
(* The save thread *)

Unchanged == UNCHANGED <<process, layout, next, hooks, settings, changes>>

\* Every event of the queue, once the second since the last save is over
Fetch ==
    /\ thread.at = "sleep" /\ queue # <<>>
    /\ thread' = [thread EXCEPT !.at = "handle", !.events = queue, !.last = FALSE]
    /\ queue' = <<>>
    /\ Unchanged /\ UNCHANGED <<config, files, broken, toggled>>

\* save_layout, first half: the layout as it is now, under its lock, unless main holds that
Snapshot(name, events, last) ==
    /\ ttx # "removing"
    /\ thread' = [at |-> "open", events |-> events, last |-> last, name |-> name,
                  json |-> AsJson(layout)]

\* Mutant: the request to exit does not end the loop.
HandleEvent_NoReturn ==
    /\ thread.at = "handle" /\ thread.events # <<>>
    /\ LET event == Head(thread.events)
           rest == Tail(thread.events)
       IN  \/ /\ event.type = "save" /\ event.name # ""
              /\ Snapshot(event.name, rest, FALSE)
              /\ UNCHANGED config
           \/ /\ event.type = "save" /\ event.name = ""
              /\ thread' = [thread EXCEPT !.events = rest]
              /\ UNCHANGED config
           \/ /\ event.type = "config"
              /\ thread' = [thread EXCEPT !.events = rest]
              /\ config' = event.config
           \/ /\ event.type = "exit"
              /\ thread' = [thread EXCEPT !.events = rest]
              /\ UNCHANGED config
    /\ Unchanged /\ UNCHANGED <<queue, files, broken, toggled>>

HandleEvent ==
    /\ thread.at = "handle" /\ thread.events # <<>>
    /\ LET event == Head(thread.events)
           rest == Tail(thread.events)
       IN  \/ /\ event.type = "save" /\ event.name # ""
              /\ Snapshot(event.name, rest, FALSE)
              /\ UNCHANGED config
           \/ /\ event.type = "save" /\ event.name = ""
              /\ thread' = [thread EXCEPT !.events = rest]
              /\ UNCHANGED config
           \/ /\ event.type = "config"
              /\ thread' = [thread EXCEPT !.events = rest]
              /\ config' = event.config
           \/ /\ event.type = "exit"
              /\ thread' = [Asleep EXCEPT !.at = "done"]
              /\ UNCHANGED config
    /\ Unchanged /\ UNCHANGED <<queue, files, broken, toggled>>

AutomaticSave ==
    /\ thread.at = "handle" /\ thread.events = <<>>
    /\ \/ /\ config.save
          /\ Snapshot(config.name, <<>>, TRUE)
          /\ toggled' = FALSE
       \/ /\ ~config.save
          /\ thread' = Asleep
          /\ UNCHANGED toggled
    /\ Unchanged /\ UNCHANGED <<queue, config, files, broken>>

AfterSave ==
    IF thread.last THEN Asleep
    ELSE [thread EXCEPT !.at = "handle", !.name = "", !.json = Nobody]

\* save_layout, second half: the file is emptied, and then written.
OpenFile ==
    /\ thread.at = "open"
    /\ \/ /\ thread' = [thread EXCEPT !.at = "write"]
          /\ files' = [files EXCEPT ![thread.name] = Torn]
          /\ UNCHANGED broken
       \/ /\ Failures
          /\ thread' = AfterSave
          /\ broken' = broken \cup {thread.name}
          /\ UNCHANGED files
    /\ Unchanged /\ UNCHANGED <<queue, config, toggled>>

WriteFile ==
    /\ thread.at = "write"
    /\ thread' = AfterSave
    /\ \/ /\ files' = [files EXCEPT ![thread.name] = thread.json]
          /\ broken' = broken \ {thread.name}
       \/ /\ Failures
          /\ broken' = broken \cup {thread.name}
          /\ UNCHANGED files
    /\ Unchanged /\ UNCHANGED <<queue, config, toggled>>

-----------------------------------------------------------------------------
(* The process *)

\* A layout to be restored is there, as a file of that name is.
Restores == settings.restore /\ files[settings.name].kind = "layout"

\* What main does up to its loop, which ends ttx at once when it fails: a file that is not a
\* layout, or a pane that cannot be made in a session of it, of which those before it stay.
Starting ==
    /\ ttx \in {"off", "killed"} /\ starts < MaxStarts
    /\ starts' = starts + 1
    /\ hooked' = TRUE
    /\ thread' = Asleep /\ config' = settings
    /\ toggled' = FALSE
    /\ UNCHANGED <<hooks, blocked, settings, files, broken, left, changes>>

StartEmpty ==
    /\ Starting
    /\ \/ ~settings.restore
       \/ files[settings.name].kind = "none"
       \/ Restores /\ files[settings.name].sessions = <<>>
    /\ layout' = WithSession(Nobody)
    /\ next' = [session |-> 2, tab |-> 2, pane |-> 2]
    /\ queue' = <<[type |-> "save", name |-> ""]>>
    /\ ttx' = "running"

StartRestored ==
    /\ Starting
    /\ Restores /\ files[settings.name].sessions # <<>>
    /\ layout' = FromJson(files[settings.name])
    /\ next' = NextIds(layout')
    /\ queue' = <<[type |-> "save", name |-> ""]>>
    /\ ttx' = "running"

StartFails ==
    /\ Starting
    /\ \/ /\ settings.restore /\ files[settings.name].kind = "torn"
          /\ UNCHANGED layout
          /\ queue' = <<>>
       \/ /\ Failures /\ Restores
          /\ \E n \in 0 .. Len(files[settings.name].sessions) - 1 :
                 layout' = [sessions |-> SubSeq(FromJson(files[settings.name]).sessions, 1, n),
                            active |-> 0]
          /\ queue' = <<[type |-> "save", name |-> ""]>>
    /\ ttx' = "ending"
    /\ UNCHANGED next

\* The user quits.
Quit ==
    /\ ttx = "running"
    /\ ttx' = "ending"
    /\ left' = AsJson(layout)
    /\ UNCHANGED <<layout, next, hooked, hooks, blocked, settings, saver, toggled, changes, starts>>

\* What main does when it is over: first nothing requests saves any more, ...
Unhook ==
    /\ ttx = "ending" /\ ttx' = "unhooked"
    /\ hooked' = FALSE
    /\ UNCHANGED <<layout, next, hooks, blocked, settings, saver, left, toggled, changes, starts>>

\* ... then the lock is taken and every pane removed and destroyed, which joins its threads.  One of
\* their children may not end when it is told to, ...
LockLayout ==
    /\ ttx = "unhooked" /\ ttx' = "removing"
    /\ blocked' \in {{}, {"child"}}
    /\ UNCHANGED <<layout, next, hooked, hooks, settings, saver, left, toggled, changes, starts>>

\* ... or does after all, ...
ChildEnds ==
    /\ "child" \in blocked /\ blocked' = blocked \ {"child"}
    /\ UNCHANGED <<ttx, layout, next, hooked, hooks, settings, saver, left, toggled, changes, starts>>

\* ... and a hook may come to the lock: that of a popup whose output is complete, or of a pane whose
\* program answers a navigation.  Those that came to it before main did have had it.
HookWaits ==
    /\ ttx = "removing" /\ blocked' = blocked \cup {"lock"}
    /\ UNCHANGED <<ttx, layout, next, hooked, hooks, settings, saver, left, toggled, changes, starts>>

\* Nobody sees the layout before the last one is destroyed, and the lock given up.
DestroyPanes ==
    /\ ttx = "removing" /\ blocked = {} /\ hooks = {} /\ ttx' = "empty"
    /\ layout' = Nobody
    /\ next' = [session |-> 1, tab |-> 1, pane |-> 1]
    /\ UNCHANGED <<hooked, hooks, blocked, settings, saver, left, toggled, changes, starts>>

\* The input and the render thread are joined, the save thread is told to end, ...
RequestExit ==
    /\ ttx = "empty" /\ ttx' = "joining"
    /\ queue' = Append(queue, [type |-> "exit"])
    /\ UNCHANGED <<layout, next, hooked, hooks, blocked, settings, thread, config, files, broken, left,
                   toggled, changes, starts>>

\* ... and joined.
Join ==
    /\ ttx = "joining" /\ thread.at = "done"
    /\ ttx' = "off"
    /\ queue' = <<>>
    /\ UNCHANGED <<layout, next, hooked, hooks, blocked, settings, thread, config, files, broken, left,
                   toggled, changes, starts>>

\* ttx is killed, or the machine stops: only the files stay.
Kill ==
    /\ ttx \notin {"off", "killed"}
    /\ ttx' = "killed"
    /\ layout' = Nobody /\ next' = [session |-> 1, tab |-> 1, pane |-> 1]
    /\ hooked' = FALSE /\ hooks' = {} /\ blocked' = {}
    /\ queue' = <<>> /\ thread' = Asleep
    /\ left' = NoFile /\ toggled' = FALSE
    /\ UNCHANGED <<config, settings, files, broken, changes, starts>>

Init ==
    /\ ttx = "off" /\ starts = 0 /\ changes = 0
    /\ layout = Nobody /\ next = [session |-> 1, tab |-> 1, pane |-> 1]
    /\ hooked = FALSE /\ hooks = {} /\ blocked = {}
    /\ queue = <<>> /\ thread = Asleep
    /\ settings \in Configs /\ config = settings
    /\ files \in [SaveNames -> {NoFile} \cup {AsJson(state) : state \in Earlier}]
    /\ \A name \in SaveNames \ {settings.name} : files[name] = NoFile
    /\ broken = {} /\ left = NoFile /\ toggled = FALSE

User == AddPane \/ AddTab \/ AddSession \/ SelectPane \/ SelectTab \/ ToggleFullScreen \/ SaveAs
           \/ ReloadConfig \/ Quit
Saver == Fetch \/ HandleEvent \/ AutomaticSave \/ OpenFile \/ WriteFile
End == Unhook \/ LockLayout \/ DestroyPanes \/ RequestExit \/ Join
Main == StartEmpty \/ StartRestored \/ StartFails \/ End
Others == RemovePane \/ UpdateCwd \/ CallHook \/ ChildEnds \/ HookWaits \/ Kill
Next == User \/ Others \/ Saver \/ Main

\* The threads run: the save thread, the one of a pane that has a hook to call, and main once it
\* is over.  What the user and the programs do is up to them, and whether a child ends.
Spec ==
    /\ Init /\ [][Next]_vars
    /\ WF_vars(Saver) /\ WF_vars(CallHook)
    /\ WF_vars(End)

-----------------------------------------------------------------------------
(* Properties *)

\* All of a file but the full screen panes
Followed(json) ==
    [kind |-> json.kind, active |-> json.active_session_id,
     sessions |-> [i \in DOMAIN json.sessions |->
        [json.sessions[i] EXCEPT !.tabs =
            [j \in DOMAIN @ |-> [@[j] EXCEPT !.full_screen_pane_id = 0]]]]]

\* The save thread has nothing to do, no directory has just changed and the last write did not fail.
UpToDate ==
    /\ ttx = "running" /\ thread.at = "sleep" /\ queue = <<>> /\ hooks = {}
    /\ config.save /\ config.name \notin broken

\* No change is missed by the requests that are taken together: an idle save thread has left the
\* layout in the file, whatever changed while it was writing, but for the pane on full screen where
\* that has been toggled since (SaveLayoutThread::save_layout_thread).
Saved ==
    UpToDate =>
        LET file == files[config.name]
        IN  /\ file.kind = "layout" /\ Followed(file) = Followed(AsJson(layout))
            /\ ~toggled => file = AsJson(layout)

\* "Automaticaly save the current layout to a file whenever updates occur"
\* (docs/pages/configuration.md:210): the file has the pane on full screen as well, and a start
\* restores it, but toggling it requests no save (toggle_full_screen_pane).
FullScreenSaved == UpToDate => files[config.name] = AsJson(layout)

\* What comes back of the sessions: all but the order of recency.
Remembered(json) ==
    [i \in DOMAIN json.sessions |-> [json.sessions[i] EXCEPT !.tabs =
        [j \in DOMAIN @ |-> [@[j] EXCEPT !.pane_ids_by_recency = <<>>]]]]

\* The ids of sessions, tabs and panes are distinct, and those to come are new, in a restored
\* layout as well: pane_by_id finds the right one (LayoutState::restore_json_v1).
IdsFresh ==
    ttx = "running" =>
        /\ Sound(layout)
        /\ \A session \in Range(layout.sessions) : session.id < next.session
        /\ \A tab \in TabsOf(layout) : tab.id < next.tab
        /\ \A pane \in PanesOf(layout) : pane.id < next.pane

\* A start from a file brings back its sessions, tabs and panes, with what was active in each and
\* on full screen, and the active session if the file names one, as it does unless it is of a ttx
\* that failed to start; and new panes get new ids (LayoutState::restore_json_v1).
Restored ==
    [][StartRestored =>
        LET file == files[settings.name]
        IN  /\ IdsFresh'
            /\ Remembered(AsJson(layout')) = Remembered(file)
            /\ file.active_session_id \in {0, layout'.active}]_vars

\* Main joins threads with the lock of the layout in its hands, and one of them may not end.
HeldUp == ttx = "removing" /\ blocked # {}

\* A ttx that is over ends: changes made meanwhile, hooks that are still to be called and whatever
\* waits in the queue before the request to exit keep neither main nor the save thread from it; only
\* a thread of a pane can, for ever (the ScopeExits of do_new).
Ends == ttx = "ending" ~> (ttx \in {"off", "killed"} \/ []HeldUp)

\* Panes are not destroyed with the lock held by which their threads would be kept from ending
\* ("we'd need to make sure not to destroy the panes while we hold the lock",
\* layout_state.cpp:102-103), but at the end they are (ttx.cpp:550-569).
EndJoinFree == ~(ttx = "removing" /\ "lock" \in blocked)

\* The layout the user quit with is found by the next start.
QuitKeepsLayout ==
    (ttx = "off" /\ left.kind = "layout" /\ config.save /\ config.name \notin broken)
    => files[config.name] # AsJson(Nobody)
=============================================================================

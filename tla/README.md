# A TLA+ model of ttx

ttx is a terminal multiplexer: one process that owns the outer terminal, runs programs in
panes, and arranges the panes in tabs and the tabs in sessions. It is small for what it does and
heavily threaded: every pane brings up to six threads, which call back into the layout through
hooks that captured pointers when the pane was made; one thread reads input, one draws, one saves.
This directory holds TLA+ models of its core logic, the TLC configurations that check them, and
TLAPS proofs about them. Paths below are relative to the root of the repository.

    tlc -workers 2 -config MCLayoutState.cfg MCLayoutState.tla
    tlapm LayoutStateProofs.tla

## 1. Inventory

### Processes and threads

| thread | code | what it does to shared state |
|---|---|---|
| input thread | `src/input.cpp` | decodes the outer terminal's input, runs key actions (`src/actions.cpp`), handles mouse events, works on `m_pending_events` |
| render thread | `src/render.cpp` | takes events from a queue (PaneExited, RemovePopup, clipboard, resize, mouse on the status bar), changes the layout, draws |
| save thread | `src/save_layout.cpp` | coalesces requests and writes the layout to disk |
| process thread, one per pane | `lib/src/pane.cpp:187` | waits for the child, sets `m_done`, runs the `did_exit` hook, which pushes PaneExited |
| reader thread, one per pane | `lib/src/pane.cpp:197` | reads the pseudo terminal, feeds the emulator, runs hooks (OSC 52, OSC 8671, cwd, bell) |
| output thread, one per pane | `lib/src/pane.cpp:234` | writes queued input to the pseudo terminal |
| pipe threads, popups only | `lib/src/pane.cpp:263-330` | write the child's stdin, read its stdout, run `did_finish_output` and `did_get_extra_output` |
| main thread | `src/ttx.cpp` | start up, signals, shutdown |

One lock, `LayoutState`'s, protects the tree of sessions, tabs and panes; each pane has a lock of
its own for its terminal; `m_pending_events`, the render queue and the output queue of a pane have
theirs.

### Components

**Layout state** (`src/layout_state.cpp`, `session.cpp`, `tab.cpp`). *State*: the vector of
sessions and the active one, each session's vector of tabs and its active tab, each tab's panes,
their order by recency, its active pane, its full screen pane, its size and the layout last
computed, the popup. *Operations*: add, remove, activate at every level, popup and its removal,
full screen, replacement of a pane (hard reset), layout at a new size. *Callers*: input thread,
render thread, hooks of the popup's pane. *Hard*: the exit of a pane is an event that names a
session, a tab and a pane by pointers captured when the pane was made; several of them may wait
while the objects go away and their addresses are used again. *Correct when*: the tree is a tree;
no active pointer dangles; recency list, active pane and pane set of a tab agree; exactly the pane
that has the focus has been told so; what is shown fits the size; a pane that has exited goes away
and takes nothing else with it.

**Pane** (`lib/src/pane.cpp`). *State*: the child, the pseudo terminal, the terminal emulator,
`m_done`, the output queue. *Operations*: input, resize, selection, exit; the destructor, which
joins its threads. *Hard*: the threads end for different reasons and the destructor waits for each;
the wake-up of the output thread. *Correct when*: input is written once and in order; the exit is
always reported; no thread outlives the pane; the destructor returns.

**Input queue and seamless navigation** (`src/input.cpp`, `lib/src/terminal/escapes/osc_8671.cpp`).
*State*: the queue of pending events, the id of the next request. *Operations*: handle an event,
ask the program in the active pane whether it handles a navigation itself, its answer, the timeout.
*Hard*: two threads work on the queue, and put back what has to wait. *Correct when*: every event is
handled once, whether programs answer, answer late, or never; keys stay in order.

**Clipboard** (`lib/src/clipboard.cpp`, events of `src/render.cpp:136-167`, `224-235`). *State*: per
selection the contents, the requests that wait for the outer terminal, whether it is believed to
answer; the replies that are ready. *Operations*: set, request, response, collect replies, expire,
change of mode. *Hard*: late, missing and unasked answers; several selections and panes. *Correct
when*: each query is answered once, in time, with what ttx holds.

**Layout tree** (`lib/src/layout.cpp`). *State*: a tree of groups with directions and relative
sizes. *Operations*: split, remove, resize, lay out, hit test, find. *Hard*: integer sizes that must
add up; groups that collapse. *Correct when*: a pane is in the tree once, no group has a single
child or a child of its own direction, sizes add up.

**Save and restore** (`src/save_layout.cpp`, `layout_state.cpp:306-354`, `session.cpp:143-190`,
`tab.cpp:360-430`). *State*: the queue of requests, the settings the thread knows, the files.
*Operations*: request, save by name, change of settings, write; restore at each level. *Hard*: changes
during a write or just before the end; directories that change without the lock; kills; ids in a
saved layout that name what has to be made again. *Correct when*: an idle save thread leaves the
current layout in the file, with what was on full screen; a start brings it back; quitting keeps it.

**Terminal screen** (`lib/src/terminal/screen.cpp`, `row_group.cpp`, `id_map.h`). *State*: rows of
cells with the text of a row in one string, reference counted attributes, cursor with a cached text offset
and a pending wrap, margins, marks of what has been drawn. *Operations*: the editing operations of
a terminal, resize. *Hard*: wide cells cut in half, offsets, counts, marks. *Correct when*: text
belongs to its cell, cells are whole, counts are right, and what changes is drawn.

**Scroll back and selection** (`scroll_back.cpp`, `reflow_result.cpp`, the rest of `screen.cpp`,
mouse events of `pane.cpp`), with **semantic prompts** (`semantic_prompt.cpp`). *State*: groups of
rows, the row scrolled to, the selection, commands whose marks are absolute positions.
*Operations*: scroll out, take back, reflow at a new width (lazily, when rows are seen), drop the oldest group,
select, scroll by commands. *Correct when*: nothing is lost or repeated by a resize, and every position stays
on the text it named, or goes when that goes.

**Emulator** (`lib/src/terminal.cpp`, `mode.cpp`). *State*: two screens, modes, saved cursors, key
reporting flags with a stack, the sizes reported. *Operations*: several hundred sequences; its
whole state as escape sequences. *Correct when*: the primary screen comes back as it was; the
program knows its size; what is saved leads to the same state.

**Parser and decoder** (`escape_sequence_parser.cpp`, `utf8_stream_decoder.cpp`). *State*: a state, what is collected,
and the bytes of a code point that has begun. *Hard*: input cut anywhere, sequences that
break each other off, keys that look like the beginning of a sequence. *Correct when*: nothing leaks from one sequence into the next.

**Renderer** (`lib/src/renderer.cpp`). *State*: the screen that is desired and the one that is
believed to be shown. *Hard*: terminals that take a text to have another width. *Correct when*: after a
frame what is shown is what is desired.

**Start up and shutdown** (`src/ttx.cpp`): threads are told to end and joined in an order. **Feature detection**
(`lib/src/features.cpp`). **Popup placement, fzf command lines, configuration, encoders,
attributes, colors, command line**: conversions without state.

### How they interact

The reader thread of a pane calls the hooks of `PaneHooks`: clipboard requests become events of the
render thread; OSC 8671 answers go to `InputThread::notify_osc_8671`, on the reader's own thread.
The process thread calls `did_exit`, which pushes PaneExited or, for a popup, RemovePopup. The input
and render threads change the layout state under its lock and push render requests. Whoever drops
the last owner of a pane runs `~Pane`, which sends SIGHUP to the child and joins all its threads:
the comments of `layout_state.cpp:102-103` and `session.cpp:41-42` explain that removed panes are
returned to the caller so that this happens without the lock, because those threads may want it.

## 2. The modules

| module | models | state and actions |
|---|---|---|
| `LayoutState` | the tree of sessions, tabs and panes and everyone who changes it | `layout` is the object; its methods are operators from object to object (`TabSetActive`, `SessionRemoveTab`, `RemovePane` ...), named as in the code with the class in front; an action is one handler under the lock |
| `LayoutStateProofs` | | type correctness and ownership, for all constants |
| `LayoutPanesProofs` | | who owns which pane and what waiting events point to; recency lists and what is on the screen; who has the focus, exits in the background |
| `PaneThreads` | the threads of one pane and its destructor | a program counter per thread; the child is the environment |
| `PaneThreadsProofs` | | order of the input, no missed push, no thread left |
| `ClipboardRequests` | the promise of the clipboard: queries are owed an answer until they get one | abstract |
| `Clipboard` | the clipboard and the render thread's calls of it | one action per method; implements `ClipboardRequests` |
| `ClipboardProofs` | | the refinement, timeouts, values |
| `SeamlessNavigation` | the queue of input events, navigation and OSC 8671 | one action per stretch of `process_pending_events` without the queue's lock, for both threads |
| `SeamlessNavigationProofs` | | every event once, keys in order, programs asked first |
| `LayoutTree` | how a tab divides its area: groups, shares, rectangles, resizing, navigation by geometry | the tree is a recursive record; one action per handler; only TLC uses it (recursive operators) |
| `Screen` | the cells under the sequences that edit them, ids, text offsets, damage | `screen` is the object of the source as a record; methods are operators on it; one action per sequence |
| `Reflow` | `RowGroup::reflow` and the map of positions it gives | functions on rows, used by `History` |
| `Commands` | `Commands` of `semantic_prompt.cpp` | operators on the list of commands, used by `History` |
| `History` | scroll back, reflow, selection, scrolling, prompts | composes `Reflow` and `Commands`; one action per output, mark, resize, frame, mouse event |
| `Terminal` | modes, margins, both screens, saved cursors, key flags, sizes | `Handle(t, op)` is the set of states a sequence can lead to |
| `TerminalProofs` | | sizes that are told, the primary screen kept |
| `SavedState` | `state_as_escape_sequences`, replayed with `Terminal`'s own handlers | a sequence of `op`s |
| `Utf8Decoder` | the stream decoder | operators |
| `EscapeParser` | the parser, on the decoder | one action: a byte arrives, at the end of a read or not |
| `EscapeParserProofs` | | sequences read as if they were the first, strings that arrive whole |
| `SaveLayout` | the save thread, the files, start, restore and end of ttx | the thread's program counter; the layout with ids in place of pointers |
| `SaveLayoutProofs` | | ids that are new, layouts that come back, no change left unsaved |
| `Renderer` | frames, and the outer terminal they are written to | `current`, `desired`, and `outer`, what is really shown |
| `MC*` | instances | model values and symmetry |

Conventions. *Addresses.* Sessions, tabs and panes are model values that stand for addresses, so
that a pointer held too long may come to point at another object. *Locks.* What a handler does
under one lock is one action; where it unlocks, or calls something that takes another lock, it is
split (`process_pending_events` in `SeamlessNavigation`, the condition variable in `PaneThreads`,
`~Pane` on the render thread and inside `replace_pane` in `LayoutState`). *Undefined behaviour.* When a handler would follow
a dangling pointer or write through null, `LayoutState` records the fact in `fault` and takes no
further step; properties are about the behaviour before. *Waiting.* A destructor is a state of its own in every
module that calls one, which is left when the threads it joins have ended; whether that comes about is up to
the child and to the other threads, and a thread that waits for the layout lock keeps it there. *Mutants.* An operator `X_Something` in front of `X` is a plausible mistake in
`X`; a property that would not notice any such mistake would be worthless. They are in no
next-state relation.

### LayoutState

A method of `LayoutState`, `Session` or `Tab` becomes an operator on the whole object value because
the methods call each other (removing a pane may remove its tab, its session, and move the active
pointers of three levels). `proc[p]` is the life of the process of pane p, whose inside is
`PaneThreads`; `home[p]` is what its `did_exit` captured; `events` the queue of the render thread;
`hook` what the hooks of the popup captured, by value or by a reference to an optional that has gone out of
scope (`actions.cpp:254`: `HookSelect` may then read any index of any session that lives, or fault).
`leaving` is the pane whose `~Pane` the render thread is in: a pane that has exited is taken out of the tree under
the lock and freed by `RenderPaneFreed` without it, but the popup's is freed by `RenderPopupFreed` with the lock
held, and only once its `did_finish_output` has run; meanwhile nobody takes the lock (`LockFree`) and the render thread
takes no event (`RenderTurn`). The lock is given up between the test for a popup in `handle_event` and the action
a key is bound to; with `LateKeys` keys act under a popup that another has opened in between. Creation may fail
(`CreateSessionFails`). Names, saving and restoring are left out, and relative sizes: a tab shows a set
of panes at a size (`tree`, `tabSize`).

### PaneThreads

`OutputCheck` and `OutputSleep` are the two halves of the wait on the condition variable: the
predicate is tested under the lock, then the lock is given up and the thread goes to sleep in one
step *for those who take the lock*. `write_pty_string` takes it, so a push cannot fall between;
`m_done = true; notify_one()` of the process thread does not, and can. The child may leave a process behind
that keeps the terminal and the pipes open (`held`), may ignore SIGHUP (`ObeysHangup`), and reads or not. A popup's
pane has three threads more: the writer of its input and the readers of its output and its extra output. `Join` takes
them in the order of `~Pane` (`pane.cpp:354-358`). Of the lock of the layout the module has whether the destroyer
holds it (`holds`, as in RemovePopup, in `replace_pane` and at the end of ttx): a hook of the reader (an answer to a navigation) and,
if `LockingHooks`, those of the pipes then do not come back. `did_exit` takes no lock: it pushes an event on
the render thread's queue (`tab.cpp:327-331`, `layout_state.cpp:172-176`), so its hook always returns.

### Clipboard

Time is a counter. `expire()` takes from each queue the requests at the top that are overdue (`Due`
counts them), and stops at the first that is not; that these are all, is proved. Replies are kept per selection where the source has
one vector: the order between selections shows nowhere. `sent` is what `get_replies` returned in this step. The histories `asked` and
`answered` serve the refinement: `Requests!Spec` with `owed` mapped to the queries in the queues
plus the replies that are ready.

### SeamlessNavigation

The tab is a `Row` of panes. `Participants` are those whose programs take part in the protocol, each with a reader
thread that works on the queue when an answer comes. Each thread holds at most one event between taking it and
finishing it or putting it back. `old` says that more than 200 ms have passed since `receptionTime`; a navigation that is
`old` is carried out from the pane that is active *then*, which need not be the one that was asked. An
"enter" from the outer terminal does nothing, as in the code: with `force_wrap` the search meets the active pane first and
returns (`tab.cpp:228-232`). Not modelled: exit while events wait, the answer ttx itself owes an outer terminal of the
protocol, `Tab::navigate`'s choice by ranges of cells (in `LayoutTree`).

### LayoutTree

`tree` is `m_layout_root`, `shown` the `LayoutNode` of the last layout, `told` what `Pane::resize` last said to
each pane. `SplitIn`, `RemoveIn`, `LayoutOf`, `Redistribute` are the methods of `LayoutGroup`. The code
carries what rounding leaves over from child to child; with halves rounded up (which the unit
tests show) the parts are the differences of the rounded prefix sums, and `Spread` says it so.
How `di::Rational`, which is not in the repository, rounds negative halves or treats a denominator
0 is not known: a child with share 0 after a half that was rounded up would get share -1 if halves
went away from zero. A pane's path in `shown` serves as the pointer from a `LayoutNode` to its group.
`fault` stops the model where the code divides by zero: "exact_fit" (section 5) and "zero_share" (a nested group
that was resized to nothing is dissolved into its parent: `redistribute_space` with no
space to give). Left out: pixels, border intersections, JSON. What is odd but contradicts nothing
in the repository: navigation to the right or down never finds a pane one cell wide at the edge
(`LastCell`); the ranges of the hit tests include the line, so a pane that touches only at the
corner may be chosen; a border may move one cell farther than asked, and a drag then loses it;
after a failed split the panes have been told sizes they do not have on the screen (`stale`).

### Screen

A cell holds the text put into it, of which the source keeps only the size; a row's `text` is the string the source
keeps. `TextOK` says that the second is made of the first. Renditions are ids with counts
(`IdMap`), `multi` counts the cells of each width above two. The dirty bits of cell, row and screen
are one bit per cell. `fault` stops the model where the source's loop or index would leave the row or the screen.
`Terminal`'s handlers that only call one method of the screen are the actions. Left out: DECALN,
REP, variation selector 15, explicit sizes with fractions, running out of ids for widths, hyperlinks, tabs, DECSC.

### History

A row is its cells and whether it goes on in the next; a group of scroll back is its rows and the
width they were last laid out for. `Letters` of the history are what `TextKept` compares before
and after. The states a program can have made are reached by `Printed`: what has been printed
before the run starts, fed through the same operators (`Feed`), so that three more steps find scroll back,
prompts and wide characters already there. `AddRows` leaves out one read: after its last row is counted the code
looks at the row after it (`scroll_back.cpp:27`), which a screen of one row does not have; the value decides nothing, since
the loop is over.

### Terminal and SavedState

How a new width moves the cursor of the primary screen depends on text, so `Resized` leaves its
position open. `screens[2]` is there while the alternate screen is. `SavedState` translates
`state_as_escape_sequences`, and `Replay` runs it through `Handle` in a new terminal of every size. The comment
above its declaration promises the identical state, which the code does not give (section 5); `Costs` has, for
each situation in which it does not, the fields that come back otherwise, and `Restored` that every other field of both
screens comes back in every situation.
Left out: palette, titles' text, reports other than sizes, mouse pointer shapes.

### EscapeParser and Utf8Decoder

Characters are one or two of each class. `parser` is the parser of the source, `fresh` one that is
made anew at each ESC that starts a sequence; what both emit must agree. `string` is a history: the text that has
arrived since the string that is being read began, to compare with what is handed on. `flush` is the end of a
read of the input thread. The constants allow the kitty keyboard protocol as a third mode, in
which a flush is not done; it adds no transition and the run leaves it out.

### SaveLayout

Requests made under one lock are one request. A write is `OpenFile`, which truncates, and
`WriteFile`; either may fail, and a kill between them leaves a torn file, with which a start
fails as in the code. `hooks` has the panes whose directory has changed and whose hook, which runs without the lock,
has still to push the request: each has a reader of its own, so that any number may be there at once. In a restored layout
sessions, tabs and panes keep the ids they have in the file, and the counters go on beyond the largest
(`restore_json_v1`). Toggling the full screen pane changes what `as_json_v1` gives but requests no save, as in the code:
`toggled` says that it was toggled since the save thread last took the layout. The end is `Unhook`, `LockLayout`, `DestroyPanes`,
`RequestExit`, `Join`: until `LockLayout` the input, render and reader threads still change the layout; from there to
`DestroyPanes` the lock is held, and `blocked` says who keeps `~Pane` from returning: a child that has not ended, or a hook that
waits for the lock. Not in the model: the data race of the hook itself, splits, sizes, names.

### Renderer

`outer` gives the glyphs of a text the width that it would really have with the features of the
terminal; `current` is what ttx believes. Moves are relative when the code makes them so, from the
believed position, and move the real cursor. A rendition is written when it is not the one in force. A resize leaves what
is shown unknown (`"?"`). `PutText` puts a label character by character until one ends beyond the bound.
`dropped` is a history: a title was taken over in a frame that then wrote nothing.

### Situations left out

Where the code goes wrong in a way that would only show the same thing in every behaviour after it,
the constant `Avoid` names the situation and the guards keep programs out of it; each is described
where it is defined (`Awkward` in `Screen` and `EscapeParser`, and comments in `History` and `Terminal`), and with its name taken out of
`Avoid` the run finds a counterexample. For `full`, `empty` and `groups` of `History` it takes more
steps than the run explores: TLC finds one when it simulates random behaviours with `MaxSteps = 8`
(`MaxOutput = 5`, `MaxMarks = 3`, `MaxResizes = 4`, `MaxMouse = 2`). With every name in `Avoid`,
simulations that far beyond the bounds of the runs of `History`, `Terminal` and `EscapeParser`, of millions of states each, find nothing.
The properties hold short of these:

| module | situations |
|---|---|
| `Screen` | `below`: wrapping on the last row when the margins end above it reads a row that is not there (`screen.cpp:1060-1074`); `edge`: widening a character by a variation selector at the right edge; `region`: a screen that gets lower than the top margin keeps the margin; `split`: inserting into a cell of three columns leaves a column without its start; `cut`: a narrower alternate screen cuts wide cells in half (`screen.cpp:97-116`). Backgrounds other than the default are left out too: an erased cell with one, that was empty, keeps its mark of being drawn (`row_group.cpp:177`) |
| `History` | `erased`: ED 3 clamps neither selection nor commands (`screen.cpp:1385`); `full`: a lower screen drops the oldest group while the view is in it; `gap`: positions behind the text of a wrapped row; `empty`: blank rows that go on get no range (`row_group.cpp:74`); `groups`: two groups reflowed for one frame are merged wrongly (`reflow_result.cpp:43-51`); `outer`: a prompt or input ends after its command has, which lets the depth wrap around, or a prompt after its input, or an input in a row above its prompt's end: only the end of the output is compared with the last row when rows are deleted (`semantic_prompt.cpp:26-31`); `row`: a command whose output starts in the row in which its prompt ends is reflowed, after which its output, taken to start at the row's first column, is in a row above that end; `silent`: a command ends whose output was never marked; `cut`: a command that ended in the last row stays when that row is deleted (`semantic_prompt.cpp:26-31`) |
| `Terminal` | `pixels`: a size that differs in pixels only is ignored (`screen.cpp:34`); `region`: as for `Screen`; `reset`: a soft reset keeps 80 and 132 column mode and the rendition |
| `SavedState` | not left out, but each costs the fields that `Costs` lists: `margins`: the bottom margin is written as two more than it is, which is refused or moved (`screen.cpp:1842`); `line`: a region of one row; `keys`: the parameters that set the first key flags are swapped (`terminal.cpp:1447`); `decsc`: the saved cursor is not saved; `tabs`, `allow`, `hide`, `pending`, `outside`, `stale`: see `SavedState.tla` |
| `EscapeParser` | `intermediate`: ESC or CAN right after an intermediate character leaves it behind (`escape_sequence_parser.cpp:70-73`); `dcs`: a terminator in the head of a DCS does not end it; `cancel`, `cut`: CAN, or the end of a read, hands on a string that is not complete |

## 3. What the runs check

| run | bounds | states | shows |
|---|---|---|---|
| `layout_state` | 2 sessions, 3 tabs, 3 panes, 2 sizes, 2 events, late keys, symmetric addresses | 501 thousand | the invariants of the tree |
| `layout_exit` | 1 session, 1 tab, 3 panes, hard resets and popup clicks, fair | 22 thousand | exits lead to removal |
| `clipboard` | 2 selections, one of them the system's, 2 panes, 3 queries, timeout 2, clock up to 3 | 193 thousand | refinement, timeouts, values |
| `pane_threads` | 2 strings, 1 piece of output on each of terminal and pipes, hooks that want the lock, fair | 1.25 million | order, wake-ups, joins |
| `seamless` | 2 panes whose programs both take part; 3 events out of clicks, keys bound to navigations to the right and down, keys for the pane; fair | 865 thousand | the event queue, who is asked |
| `layout_tree` | 4 panes, 2 sizes, 4 splits or resizes, shares of 1/100, symmetric panes | 147 thousand | the layout tree |
| `screen` | 1x4, 3x1 and 2x2, 3 characters printed out of 3 kinds, a width of 3, one rendition and one id | 154 thousand | cells, ids, damage |
| `history` | 1x3 and 2x2, groups of 3 cells, at most 2, 3 steps after what was printed | 254 thousand | scroll back, positions |
| `terminal` | 4 sizes, 10 modes, parameters 0 to 2, stack of 2, 4 steps | 516 thousand | sizes, saved state |
| `parser` | 22 bytes, parts of sequences up to 2 characters, both modes | 95 thousand | parsing |
| `save_layout` | 2 changes, 2 starts, 2 files, failing writes, kills; fair | 1.34 million | saving, restoring, ending |
| `renderer` | 1x4 and 3x2, 6 cells of all widths and labels, 3 puts, 3 sets of features | 1.02 million | frames |

Type invariants: `Tiled`, `AccountedOnce`, `TextOK`, `InBounds`, `SizeTold` and `Resynchronised` have the module's
`TypeOK` as their first conjunct; those of `LayoutState` and `PaneThreads` are proved (section 4).

**`layout_state`.** `OwnershipOK`: sessions and tabs are in one list each, every
session has a tab, no active pointer dangles. `PanesOK`: a pane has one owner, and a process while
it is owned; a tab's recency list holds exactly its panes, its head is the active
one, and the full screen pane is one of them. `FocusOK`: the panes that were told they have the
focus are exactly the one that should. `OnScreenOK`: what the active tab shows is at the current
size and shows its current panes. `EventsLive`: an event that waits names a session and tab that
are still there, as long as nobody resets panes. `ExitKeepsFocus`: the exit of a pane in the
background leaves the active pane alone. **`layout_exit`.** `PopupOK`: at most one RemovePopup waits, and for
the popup that is there. `ExitedPaneRemoved` (liveness): an exited pane is gone in the end *if* every destructor that is called returns
(`DestructorsReturn`). That is a condition, not fairness: `~Pane` on the render thread may wait for a child that ignores
SIGHUP, for a wake-up that was lost or for a thread that waits for the lock, and then no event is handled any more; what keeps
it is the subject of `pane_threads`. What the property says is that nothing else keeps a pane: no event is lost, and none blocks
the queue.

**`clipboard`.** `AnsweredOnce`: `ClipboardRequests!Spec`. `NoneOverdue`: no call leaves a query that has
expired, or one that waits for an outer terminal that owes nothing. `RepliesCurrent`: replies carry what is
held. **`pane_threads`.** `WrittenInOrder`, `SleepsOnlyIdle`, `FreedSafely`: see section 4. `DestructorReturns`
(liveness): once SIGHUP has killed the child `~Pane` comes back, but for three things that it names: a process left behind
that holds the terminal (`held`), the lost wake-up (`LostWakeup`) and a hook that waits for the lock the destroyer holds
(`LockedOut`). The last two are faults of the code, reached by the configurations of section 5; the property is
that they are all there is.
**`seamless`.** `AccountedOnce`: every event is in one place, or done with once, and those that do not wait are
taken in order. `OfferedFirst`: the focus leaves a pane whose program takes part only by a click or by a navigation that was
offered to the program of some pane that takes part. That it was *this* one's is what the protocol wants and the code
does not give: `OfferedToIt`, refuted in section 5. `Drained` (liveness): every event is done with, whether programs answer or not.

**`layout_tree`.** `Tiled`: the tree has each pane once, no needless nesting, and shares that add up;
the rectangles fill the area with one line between; a pane knows the size it is
shown with. `NavigateReaches`: navigation finds a pane beside the active one and prefers the most recent. `OrderKept`:
splits put the new pane beside the active one, and nothing else changes the order of panes; a failed split leaves
no trace in the groups. `ResizeMoves`: one border moves, at least as far as asked.

**`screen`.** `TextOK`, `WideOK`, `RefsOK`: the text of a row is that of its cells and the cursor's
offset points at its cell; wide cells are whole; counts of ids are the numbers of their users.
`DamageOK`: a column that shows something else is marked, and stays so until drawn.
**`history`.** `InBounds`: the view and the selection are on rows and cells that are there. `CommandsOK`: commands are in
order, none begins in rows that are gone, and of each that has ended the rows are there that copying it reads, since any may
come to be the last. `TextKept`: a resize or
a frame keeps the text, once and in order, but for what it erases below the cursor and the oldest
rows. `PositionsFollow`: selection and prompts are on the same characters after it.

**`terminal`.** `SizeTold`: the program has been told the size of its screen. `PrimaryKept`: the
alternate screen leaves the primary one's flags, saved cursor, margins and rendition alone.
`Restored`: the saved state, replayed in a terminal of any size, gives this state in every field of both screens and of the
terminal but those that a situation of section 2 costs. The comment in `terminal.h` excepts nothing: `StateIdentical`, refuted in
section 5.
**`parser`.** `Resynchronised`: a sequence is understood as by a new parser, and a code point as by a new decoder.
`StringsWhole`: a string is handed on at its terminator only, which ends it, with all of the text that has come since it began and nothing else.

**`save_layout`.** `Saved`: when the save thread is idle and the last write has not failed, the file holds the layout as it is,
unless a full screen pane was toggled since; then all but the full screen panes (`FullScreenSaved`, without the exception, is
refuted in section 5).
`Restored`: a start brings back sessions, tabs and panes with their ids, what was active and on full screen, and the ids
of what is made later are new. `Ends` (liveness): a ttx that is to end does, unless for ever a child that has not
ended or a hook that waits for the lock keeps main in `DestroyPanes` (`HeldUp`), which both can happen (`EndJoinFree`, section 5).
**`renderer`.** `Shown`: after a frame each text is shown in its columns with its rendition; one of uncertain width may be cut
off, but nothing else is in its place. `CursorShown`: the cursor is where it belongs, shown or hidden, and the title is that of the frame unless it was lost:
a frame that changes the title alone notes it and writes nothing, and a later one with the same title does not write it either (`dropped`; `NoUpdatesDropped` in section 5).

**Why these bounds are enough.** *Layout*: the methods look at one session, one tab, one pane and
its neighbours; two sessions and three tabs let the active one be first, last, or elsewhere, give a
session with two tabs next to one with one, and let an address be used again while an event for its former owner
waits; three panes are two tabs' worth, or two panes of a tab and a popup. Two waiting events are the least for events to
be out of order. *Exit*: liveness rules out symmetry, so one tab; its cascade (last pane, last
tab, last session) ends the program. *Clipboard*: a timeout of 2 separates "not yet", "just" and "long past";
three queries give two in one queue and one in another; a clock up to 3 lets the first expire while the second
waits. *Threads*: two strings show reordering and loss. *Navigation*: three
events let a key come before, between and after a navigation that is put back, or a click make another pane active between a
navigation and its timeout; with the events of the outer terminal as well the run does not end in time, and they are handled
like those of keys, but for the wrapping: `OfferedFirst` and `AccountedOnce` are proved for any events. *Tree*: four panes are the
least for a group to be dissolved into its parent's parent; eight rows by eleven columns leave room for
them and refuse a fifth level of splits, three by six refuse most. Shares of 1/100 instead of 1/100000 make
rounding coarser, not finer: a split in three does not come out even.

*Screen*: one row for wide cells that meet, one column for the margins, two by two for wrapping into the next row; the one id is
given up and taken again. *History*: a group is closed after one row or two, so that the third drops the
first; three steps are a resize, an output and the resize back, or a selection between. *Terminal*: a mode set, left and come back to takes three.
*Parser*: two characters are the least for an intermediate or a separator to be left over; a sequence of any length is cut at any of its places.
*SaveLayout*: two changes let the second fall into the write of the first; two starts, one of them from what the other left. *Renderer*: three cells let one
be put across the boundary of two others; each frame begins where any earlier one ended.

**Fairness.** *LayoutState*: the render thread works through its queue as long as it is not in a destructor (it loops without
other waits) and `did_finish_output` comes once the child is dead (the pipe of the popup closes). Destructors are under no obligation,
nor are key actions, exits and clicks. *PaneThreads*: each thread runs; a write to the terminal is
only sure to return when the terminal is closed, since a program that does not read blocks it; the
child dies of SIGHUP only if `ObeysHangup`; a hook that wants the lock goes on when it gets it. *SeamlessNavigation*: all threads run; the input thread reads
something now and then (without that a timeout is never noticed: the read has none); time passes (strong
fairness, since an event held by a thread cannot age in the model). Programs need not answer.

*SaveLayout*: the save thread, the hook of a pane that has begun, and main once it is ending go on, the latter as far as nobody keeps `~Pane`;
the user, kills and the ends of children are free.

Deadlock is not checked where the program does stop (the last session is gone, everything is joined, ttx has ended) or
the bounds are used up; `screen`, `history` and `renderer` check it.

## 4. What is proved

All theorems are about every value of the constants that satisfies the module's assumption
(`ConstantsAssumption`, `ClipboardAssumption`, `SaveLayoutAssumption`, `TerminalAssumption` ...): any number of
sessions, tabs, panes, queries, events, strings, changes, starts and sequences, any size, timeout and bound. None
assumes fairness.

| theorem | says | when |
|---|---|---|
| `LayoutStateProofs!TypeCorrect` | `[]TypeOK` | always |
| `LayoutStateProofs!Ownership` | `[]OwnershipOK` | always |
| `LayoutPanesProofs!Owned` | `[]PanesOwned` | no hard reset |
| `LayoutPanesProofs!ExitsOfTheLiving` | `[]EventsLive` | no hard reset |
| `LayoutPanesProofs!PopupsOwnExit` | `[]PopupOK` | no hard reset |
| `LayoutPanesProofs!Listing` | `[]PanesOK` | no hard reset, no click inside a popup |
| `LayoutPanesProofs!UpToDate` | `[]OnScreenOK` | the same |
| `LayoutPanesProofs!Focused` | `[]FocusOK` | the same |
| `LayoutPanesProofs!ExitsDisturbNobody` | `ExitKeepsFocus` | the same |
| `PaneThreadsProofs!TypeCorrect`, `InOrder`, `NoMissedPush`, `NoThreadLeft` | `[]TypeOK`, `[]WrittenInOrder`, `[]SleepsOnlyIdle`, `[]FreedSafely` | always |
| `ClipboardProofs!Invariant` | `[](TypeOK /\ RequestsForwarded)` | always |
| `ClipboardProofs!NoneWaitsTooLong`, `CurrentReplies` | `NoneOverdue`, `RepliesCurrent` | always |
| `ClipboardProofs!AnsweredExactlyOnce` | `AnsweredOnce`, the refinement of `ClipboardRequests` | always |
| `SeamlessNavigationProofs!NoneLostOrDoneTwice`, `OfferedBeforeMoving` | `[]AccountedOnce`, `OfferedFirst` | always |
| `SaveLayoutProofs!FreshAlways` | `[]IdsFresh` | always |
| `SaveLayoutProofs!RestoredAlways`, `SavedAlways` | `Restored`, `[]Saved` | always |
| `EscapeParserProofs!UnderstoodAfresh` | `[]Resynchronised` | `intermediate`, `cancel` and `cut` left out |
| `EscapeParserProofs!StringsEnd` | `StringsWhole` | `dcs` left out too |
| `TerminalProofs!SizeAlwaysTold` | `[]SizeTold` | `pixels`, `region` and `reset` left out |
| `TerminalProofs!PrimaryAlwaysKept` | `PrimaryKept` | `region` left out |

**The two conditions of the layout theorems.** They are the constants `HardResetBound` and
`PopupClicks`, and stand for what the user has bound and does; the run `layout_state` has the same values.
They are not there for convenience. After a *hard reset* the PaneExited of the old pane is handled
when that pane has gone (`tab.cpp:111`), so `EventsLive` is false, and whatever has been made at its address
since is removed in its place. A *click inside a popup* makes the popup's pane the active one of
the tab under it (`input.cpp:254`, section 5), so `PanesOK`, `OnScreenOK` and `FocusOK` are false. `PopupOK` is not known
to fail: its proof goes by where panes were created, which a hard reset upsets, and TLC checks it with both
(`layout_exit`).

**The situations left out.** The theorems about the parser and the terminal have as a hypothesis which names are in
`Avoid`; the runs leave out the same ones. In each of those situations the code goes wrong as section 2 says. TLC
refutes `Resynchronised` when any one of its three is let in, `StringsWhole` with `cancel`, `cut` or `dcs`, and `SizeTold` with
each of its three. With two it finds nothing: `StringsWhole` with `intermediate`, and `PrimaryKept` with `region`.
There the hypothesis is of the proof, whose invariant has the parser understood and the screens sound, and may
not be needed. All else is free: which bytes and sequences come, how many, and where reads cut them.

**The tree.** `TypeOK /\ OwnershipOK` is inductive as it stands, but no single method preserves it: in the
middle of a removal a session may have no tab, in the middle of an addition the active session is
already the new one. The proof names these intermediate conditions: methods of Tab leave the lists of sessions
and tabs alone (`SameTree`), and the methods of Session and LayoutState lead from `SessionsOK` to
`SessionsBut` (all sessions but one have a tab) and back. Each method has a lemma, each action
cites the lemma of the method it calls; the three parts of `LayoutPanesProofs` do the same.

**Panes and events.** A pane's hook has captured where it was created. The invariant (`Places`) says
that as long as its address is in use it is *still* there, because nothing moves a pane and a tab is
freed with its last pane only; and (`Exits`) that every exit that waits is the one exit of a pane
whose child is dead and whose address is therefore not given away before the event has been handled. That an event's pointers
are alive follows; by itself it is not inductive.

**The screen.** A hidden tab may be out of date, in size and in panes. What holds in every state is
`Drawn`: the active *session* has the current size and its active tab has been laid out at the
session's size, with the panes it has, or the full screen one; and `Listed`: each tab's recency list is that of its panes.
`set_active_tab` and `set_active_session` lay out what they enter, and the lemmas on removal
show that a tab or session that is entered because its neighbour has gone is laid out too.

**The focus.** Panes are told of the focus by `set_active` and `set_is_active` of three classes. The
invariant (`Focus`) has two cases: the active session has the focus (`Awake`: it alone is
active, its active tab alone is active, that tab's active pane alone has been told), or nobody has it, which only a popup may
cause, by covering the session or by a preview of another in `find_session`. The methods leave before they
enter, so each lemma says where the focus was and is: `FocusAt(st, x)` before, `FocusAt(r, y)` after.
`ExitsDisturbNobody` needs besides that a removal which is not that of the pane on the screen never
reaches `set_active_session`, though it may remove a tab and a session (`RemovePaneKeeps`).

**The threads of a pane.** The invariant adds: while the child lives the concatenation of
written, taken and queued strings is 1, 2, ... (`Numbered`); what was written is numbered
(`WrittenNumbered`); strings are held by the thread only in its writing state (`TakenToWrite`);
**between the test of the predicate and the sleep the queue is empty** (`BlocksOnlyIdle`), which
is why a push under the lock cannot be missed; and the destructor is past a join only if that thread has ended (`Joined`).

**The clipboard.** The requests that wait are ordered by when they were received (part of
`RequestsForwarded`, with: each has a query the outer terminal still owes an answer for), so that `expire()`, which stops at the
first request that is not overdue, leaves none that is. The refinement is by steps: what a call takes from
a queue and what it adds to the replies have the same number for every selection and pane
(`Expiring`, counted by lemmas on `Cardinality`), so that `owed` changes as `ClipboardRequests` allows, or not at all.

**The queue of input events.** `OfferedFirst` rests on the same facts for any row of panes and any participants: an event that is
pending was offered to some program (`offered` has its number), and one that is not is offered before it is carried out
if the active pane's program has registered. The order of keys survives though events are put back, because what
is put back *behind* later keys is a navigation that its program was offered
(`QueueAside`, `ThreadsAside`): the keys that wait are in the order of their numbers (`QueueInOrder`) and
all later than every key taken (`TakenBefore`).

**Saving.** Two invariants. `InitialOK`: the layout is well formed in the sense of `Good` (ids distinct and below the
counters they are taken from, the active ones in their lists), and whatever is in a file, in the
thread's hands or in its queue was made by `as_json_state` from such a layout, or is torn. `Restored` follows, because a
start only ever reads what some save wrote, and `from_json_state` takes that back to what it was made from
(`LayoutBack`). `CatchesUp` is about all of the layout but the full screen panes, and about these too as long as none has been toggled since the
thread last took the layout: while ttx runs, the layout is *due* (an event is queued, a hook is still to push one,
or the thread will look again), or it is *in hand*, in the last write of a round, or it is *on disk*. `Saved` says only
what holds when the thread is idle and is not inductive: that a change made during a write is not missed
needs the event to be pushed in the step that makes the change, and the thread not to sleep before it has taken it.

**The parser.** `Resynchronised` compares the parser with one made anew when ESC starts a sequence, character by
character. The invariant (`Understood`) has three parts. `Tracks`: the decoder is where the bytes that are
pending have brought it, and where it would be had it seen nothing else. `Fine`: the state the parser was in
before says what may be left in it; text collected is there only in the states of a string (`Filled`), and
after "Escape" nothing of another sequence is, but in "EscapeIntermediate" (`Spotless`), because entering "Escape" clears
it. The one way around that is from "Escape" to "Escape", which is `intermediate`. `Twins`: the two parsers are equal, or in
"Ground" or "Escape", and differ in fields only that are cleared before anything looks at them. For `StringsWhole` there is
`Holds`: in a state that collects a string, what is collected is just the text that has arrived since the string began (an
ESC that may begin the terminator included). From it what is handed on at the terminator has that text (`HasText`, less the
ESC). Each state's handler has a lemma of its own.

**The terminal.** A screen is `Sound` when its cursor, margins, saved cursor and key flags fit its size; every operation on a
screen keeps it so and leaves the size alone (`ScreenKept`), with origin mode on or off. Each handler has a lemma `Stays(t, v)`
for each state v it may lead to: v is well formed (`Typed`), the primary screen is as `PrimaryKept` asks, and if what was told
fitted before it does after (`Fits`: the program was told the size of the active screen, which is that of the pane unless the
program chose another). Handlers that change a size tell it in the same step, and those that go from one screen to the
other size the one they enter. The *order* of the margins alone is not kept by the handlers, since a lower screen may lose
it, which is `region`; the invariant takes it from there (`Ordered`, and `OrderedFit` for the sizes).

**Only model-checked.** Liveness and what rests on fairness (`ExitedPaneRemoved`, `DestructorReturns`,
`Drained`, `Ends`): this prover has no rule for ENABLED. What recursion over data computes (`LayoutTree`, `Reflow`,
`History`, `SavedState`: their operators are RECURSIVE, which takes the prover its arithmetic, and what they return for every
input would need induction with an operator as parameter). `TextOK` of `Screen` speaks of sums
over a row's cells, which need the same induction; `WideOK`, `RefsOK` and `DamageOK` rest on it, since what is
printed depends on the text before the cursor (a variation selector widens it). `Shown` and
`CursorShown` of `Renderer` are about folds over the sorted changes of a frame. `PopupOK` with hard resets is checked by `layout_exit`.

## 5. Disagreements found

Properties that a comment, an assertion or a page of the repository states, and that TLC refutes. They are in no run of
section 3; each configuration lists those of one module, and

    tlc -workers 2 -continue -config MCSaveFaults.cfg MCSaveLayout.tla | grep violated | sort | uniq -c

names them all (without `-continue` TLC stops at the first one and prints how it comes about).

| property | configuration | what happens |
|---|---|---|
| `PopupJoinFree` | `MCLayoutFaults.cfg` of `MCLayoutState` | RemovePopup destroys the popup's pane with the layout lock held, and joins a thread whose hook waits for it, against `src/layout_state.cpp:102-103` |
| `EndJoinFree` | `MCSaveFaults.cfg` of `MCSaveLayout` | so does main at the end, with every pane (`src/ttx.cpp:550-569`) |
| `ActiveInTree` | `MCLayoutFaults.cfg` of `MCLayoutState` | a mouse press inside a popup makes the popup's pane the active pane of the tab under it (`src/input.cpp:254`), which the layout tree does not know; `src/input.cpp:453` asserts it does |
| `RenameTargetAlive` | `MCLayoutFaults.cfg` of `MCLayoutState` | the comment at `src/actions.cpp:123-125` takes the renamed tab to live as long as the popup; it may exit first |
| `ReplaceHasLayoutPane` | `MCLayoutFaults.cfg` of `MCLayoutState` | a hard reset of a full screen pane writes through an entry without a `LayoutPane`, against the SAFETY comment of `src/tab.cpp:108` |
| `InputInOrder` | `MCInputFaults.cfg` of `MCSeamlessNavigation` | a navigation that waits for its program is put behind later keys, against `docs/pages/osc_8671.md:64-68` |
| `OfferedToIt` | `MCInputFaults.cfg` of `MCSeamlessNavigation` | a navigation that was offered to one pane times out when another is active, and moves the focus off that one without asking its program (`src/input.cpp:443-466`), against `docs/pages/osc_8671.md:38-39` |
| `EnterNavigates` | `MCInputFaults.cfg` of `MCSeamlessNavigation` | an "enter" never moves the focus: the search with `force_wrap` meets the active pane first (`src/tab.cpp:228-232`), wherever that is |
| `ExactFitLaidOut` | `MCTreeFaults.cfg` of `MCLayoutTree` | a group with just the cells that the comment at `lib/src/layout.cpp:544` asks for is laid out by dividing by zero |
| `FullScreenSaved` | `MCSaveFaults.cfg` of `MCSaveLayout` | the pane on full screen is in the file and restored, but toggling it saves nothing (`src/actions.cpp:623-641`), against `docs/pages/configuration.md:210` |
| `QuitKeepsLayout` | `MCSaveFaults.cfg` of `MCSaveLayout` | quitting within a second of a change removes the panes before the save thread writes, so that the file ends up without a session (`src/ttx.cpp:547-569`), against `docs/pages/configuration.md:209` |
| `StateIdentical` | `MCStateFaults.cfg` of `MCTerminal` | the saved state does not give the identical state, as `lib/include/ttx/terminal.h:69-70` says; the table of section 2 has the ways |
| `MarginsIdentical` | `MCStateFaults.cfg` of `MCTerminal` | one of them: the last row of the margins is written as two more than it is (`lib/src/terminal/screen.cpp:1842`) |
| `KeysIdentical` | `MCStateFaults.cfg` of `MCTerminal` | another: the parameters that set the key flags are swapped (`lib/src/terminal.cpp:1447`) |
| `NoUpdatesDropped` | `MCFrameFaults.cfg` of `MCRenderer` | a frame with a new title and nothing else notes the title and returns without writing it (`lib/src/renderer.cpp:468-510`), where the comment says "No updates"; a background color is lost in the same way |
| `NoLostWakeup` | `MCThreadFaults.cfg` of `MCPaneThreads` | `m_done` is set and notified without the mutex the output thread tests it under (`lib/src/pane.cpp:190-191`), so that the wake-up can fall between test and sleep, and `~Pane` then never returns |
| `NeverLockedOut` | `MCThreadFaults.cfg` | `~Pane` waits for a hook that waits for the lock its caller holds, seen from the pane |

The last two contradict no words in the repository, only what a destructor is for.

`PROJECT.json` lists the hazards of the code line by line, with the properties that guard
them; some have none. Seen in the models besides, and contradicting nothing: with hard resets an exit may be
handled for a tab that is gone (`fault = "dead_tab"`); a popup's choice may be lost in the pipe (`pane.cpp:288`).

## 6. Not modelled, and what could follow

Not modelled: feature detection, popup placement, fzf command lines, configuration and themes, the
encodings of keys, mouse and paste, attributes, colors and the palette, the command line: conversions of data without state that
is shared or kept, which the repository's unit tests cover. Within the components that are modelled,
section 2 says what each module leaves out.

What could follow: `SeamlessNavigation` with `LayoutState`, for panes that are destroyed by the reader
thread that runs their key handlers; splits and sizes in `SaveLayout`, on top of `LayoutTree`; hyperlinks
in `Screen`. Proofs: `PopupOK` and `PanesOwned` with hard resets
(`Places` with the pane that is being replaced, and events that outlive their pane); `PrimaryKept` without `region`, should the
margins' order turn out not to matter to it.

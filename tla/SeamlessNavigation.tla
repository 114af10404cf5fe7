------------------------ MODULE SeamlessNavigation ------------------------
(***************************************************************************)
(* The input queue and seamless navigation, OSC 8671 (src/src/input.cpp,   *)
(* Tab::navigate).  Events are read by the input thread and wait in        *)
(* m_pending_events.  A navigation out of a pane whose program has         *)
(* registered is first offered to that program; until it answers, or 200   *)
(* ms have passed, the navigation waits in the queue as "pending".  The    *)
(* answer comes through the reader thread of that pane, which then works   *)
(* on the queue as well.                                                   *)
(*                                                                         *)
(* The tab is a row of panes.  The programs in some of them take part in   *)
(* the protocol.                                                           *)
(***************************************************************************)
EXTENDS Integers, Sequences

CONSTANTS
    Row,           \* the panes, from left to right
    Participants,  \* those whose programs take part
    Inputs,        \* what the outer terminal may send: [kind, dir]
    MaxEvents      \* bound: events read

Panes == {Row[i] : i \in 1 .. Len(Row)}

\* "text" is a key for the active pane, "bind" one bound to navigation, "click" a click on a pane,
\* "outer" a request to navigate and "enter" a notice from the terminal ttx itself runs in.  In
\* direction "right" lie the other panes, in direction "down" there are none.
Kind == {"text", "bind", "click", "outer", "enter"}
Input == [kind: Kind, dir: {"right", "down"}]

ASSUME SeamlessNavigationAssumption ==
    /\ Row \in Seq(Panes) /\ Row # <<>>
    /\ Participants \subseteq Panes /\ "input" \notin Participants
    /\ Inputs \subseteq Input
    /\ MaxEvents \in Nat

\* The input thread and the readers of the panes that take part.
Threads == {"input"} \cup Participants

VARIABLES
    queue,       \* m_pending_events
    thread,      \* where the threads are, and the event each has taken from the queue
    active,      \* the active pane of the tab
    registered,  \* the panes whose programs have registered
    asked,       \* <<n, p>>: the program in p was sent the request n and has to answer it
    replies,     \* the answers of each program, not read yet
    offered,     \* every <<n, p>> such that p was sent the request n
    taken,       \* keys in the order they were taken from the queue
    finished,    \* events in the order they were done with
    read         \* events read so far; they are numbered

vars == <<queue, thread, active, registered, asked, replies, offered, taken, finished, read>>
program == <<registered, asked, replies, offered>>
histories == <<taken, finished>>

\* old: more than 200 ms since receptionTime.  "nav" is the event made by request_navigate.
Event == [n: 1 .. MaxEvents, kind: Kind \cup {"nav"}, dir: {"right", "down"},
          pending: BOOLEAN, old: BOOLEAN]
Answer == [type: {"acknowledge", "navigate"}, n: 1 .. MaxEvents]
Nothing == [pc |-> "idle"]
ThreadState == [pc: {"idle", "pop"}] \cup [pc: {"handle", "expire", "put back"}, event: Event]

TypeOK ==
    /\ queue \in Seq(Event)
    /\ thread \in [Threads -> ThreadState]
    /\ active \in Panes
    /\ registered \subseteq Participants
    /\ asked \subseteq (1 .. MaxEvents) \X Participants /\ offered \subseteq (1 .. MaxEvents) \X Participants
    /\ replies \in [Participants -> Seq(Answer)]
    /\ taken \in Seq(1 .. MaxEvents) /\ finished \in Seq(1 .. MaxEvents)
    /\ read \in 0 .. MaxEvents

-----------------------------------------------------------------------------
(* Tab::navigate *)

Wraps(e) == e.kind # "outer"

\* The pane to move to, if there is one: the next one, or by wrapping around the first one.
Candidates(e) ==
    {p \in Panes \ {active} :
        /\ e.dir = "right"
        /\ \E i, j \in 1 .. Len(Row) :
              /\ Row[i] = active /\ Row[j] = p
              /\ j = i + 1 \/ (i = Len(Row) /\ j = 1 /\ Wraps(e))}

\* The program is asked and has to answer: it may not wrap around.
MustAnswer(e) == ~(Wraps(e) /\ Candidates(e) = {})

MoveTo(e) == active' = IF Candidates(e) = {} THEN active ELSE CHOOSE p \in Candidates(e) : TRUE

-----------------------------------------------------------------------------
(* process_pending_events, by any of the threads *)

At(t, pc, e) == [thread EXCEPT ![t] = [pc |-> pc, event |-> e]]
Continue(t) == [thread EXCEPT ![t] = [pc |-> "pop"]]
Return(t) == [thread EXCEPT ![t] = Nothing]

\* The first event is taken: it has timed out, it still has to wait, or it is new.
Pop(t) ==
    /\ thread[t].pc = "pop"
    /\ IF queue = <<>>
       THEN thread' = Return(t) /\ UNCHANGED <<queue, taken>>
       ELSE LET first == Head(queue)
            IN  /\ queue' = Tail(queue)
                /\ thread' = At(t, IF ~first.pending THEN "handle" ELSE IF first.old THEN "expire" ELSE "put back", first)
                /\ taken' = IF first.kind \in {"text", "bind"} THEN Append(taken, first.n) ELSE taken
    /\ UNCHANGED <<active, program, finished, read>>

PutBack(t) ==
    /\ thread[t].pc = "put back"
    /\ queue' = Append(queue, [thread[t].event EXCEPT !.pending = TRUE])
    /\ thread' = Return(t)
    /\ UNCHANGED <<active, program, histories, read>>

\* handle_event of a key that goes to the active pane, and of "enter".  The latter looks for a pane
\* on the edge from the most recent pane on, which is the active one, and gives up at that.
HandleOther(t) ==
    /\ thread[t].pc = "handle"
    /\ thread[t].event.kind \in {"text", "enter"}
    /\ thread' = Continue(t)
    /\ finished' = Append(finished, thread[t].event.n)
    /\ UNCHANGED <<queue, active, program, taken, read>>

\* handle_event of a click, which makes the pane active that it hits.
HandleClick(t) ==
    /\ thread[t].pc = "handle"
    /\ thread[t].event.kind = "click"
    /\ active' \in Panes
    /\ thread' = Continue(t)
    /\ finished' = Append(finished, thread[t].event.n)
    /\ UNCHANGED <<queue, program, taken, read>>

\* request_navigate.
HandleBind(t) ==
    /\ thread[t].pc = "handle"
    /\ thread[t].event.kind = "bind"
    /\ queue' = <<[thread[t].event EXCEPT !.kind = "nav", !.old = FALSE]>> \o queue
    /\ thread' = Continue(t)
    /\ UNCHANGED <<active, program, histories, read>>

\* The navigation is over.  (A request of the outer terminal is answered here.)
Finish(t, e) ==
    /\ thread' = Continue(t)
    /\ finished' = Append(finished, e.n)

\* Mutant: the program is not offered the navigation.
HandleNavigation_Disabled(t) ==
    /\ thread[t].pc = "handle"
    /\ thread[t].event.kind \in {"nav", "outer"}
    /\ MoveTo(thread[t].event)
    /\ Finish(t, thread[t].event)
    /\ UNCHANGED <<queue, program, taken, read>>

\* handle_event(OSC8671, false).
HandleNavigation(t) ==
    /\ thread[t].pc = "handle"
    /\ thread[t].event.kind \in {"nav", "outer"}
    /\ LET e == thread[t].event
       IN  \/ /\ active \in registered /\ MustAnswer(e)
              /\ asked' = asked \cup {<<e.n, active>>} /\ offered' = offered \cup {<<e.n, active>>}
              /\ thread' = At(t, "put back", e)
              /\ UNCHANGED <<active, finished>>
           \/ /\ active \in registered /\ ~MustAnswer(e)
              /\ offered' = offered \cup {<<e.n, active>>}
              /\ Finish(t, e)
              /\ UNCHANGED <<active, asked>>
           \/ /\ active \notin registered
              /\ MoveTo(e)
              /\ Finish(t, e)
              /\ UNCHANGED <<asked, offered>>
    /\ UNCHANGED <<queue, registered, replies, taken, read>>

\* Mutant: the program is asked again instead.
Expire_Retry(t) ==
    /\ thread[t].pc = "expire"
    /\ thread' = At(t, "put back", thread[t].event)
    /\ UNCHANGED <<queue, active, program, histories, read>>

\* handle_event(OSC8671, true): out of the pane that is active now, asked or not.
Expire(t) ==
    /\ thread[t].pc = "expire"
    /\ MoveTo(thread[t].event)
    /\ Finish(t, thread[t].event)
    /\ UNCHANGED <<queue, program, taken, read>>

Process(t) ==
    \/ Pop(t) \/ PutBack(t)
    \/ HandleOther(t) \/ HandleClick(t) \/ HandleBind(t) \/ HandleNavigation(t) \/ Expire(t)

-----------------------------------------------------------------------------
(* The input thread *)

NewEvent(n, input) ==
    [n |-> n, kind |-> input.kind, dir |-> input.dir, pending |-> FALSE, old |-> FALSE]

\* A read returns one event or two,
Read ==
    /\ thread["input"].pc = "idle"
    /\ \E new \in {<<i>> : i \in Inputs} \cup (Inputs \X Inputs) :
           /\ read + Len(new) <= MaxEvents
           /\ queue' = queue \o [k \in 1 .. Len(new) |-> NewEvent(read + k, new[k])]
           /\ read' = read + Len(new)
    /\ thread' = Continue("input")
    /\ UNCHANGED <<active, program, histories>>

\* or bytes that do not complete one, or an answer to a query, which nobody handles.
ReadOther ==
    /\ thread["input"].pc = "idle"
    /\ thread' = Continue("input")
    /\ UNCHANGED <<queue, active, program, histories, read>>

-----------------------------------------------------------------------------
(* The reader thread of a pane that takes part: notify_osc_8671 *)

\* The answer is for the first event of the queue, no other is looked at.
Matches(p) ==
    /\ p \in registered
    /\ queue # <<>>
    /\ Head(queue).kind \in {"nav", "outer"} /\ Head(queue).n = Head(replies[p]).n

\* Mutant: the acknowledged event stays.
NotifyOsc8671_Kept(p) ==
    /\ thread[p].pc = "idle"
    /\ replies[p] # <<>>
    /\ replies' = [replies EXCEPT ![p] = Tail(@)]
    /\ IF Matches(p)
       THEN /\ queue' = [queue EXCEPT ![1].old = TRUE]
            /\ finished' = IF Head(replies[p]).type = "acknowledge"
                           THEN Append(finished, Head(replies[p]).n) ELSE finished
            /\ thread' = Continue(p)
       ELSE UNCHANGED <<queue, finished, thread>>
    /\ UNCHANGED <<active, registered, asked, offered, taken, read>>

NotifyOsc8671(p) ==
    /\ thread[p].pc = "idle"
    /\ replies[p] # <<>>
    /\ replies' = [replies EXCEPT ![p] = Tail(@)]
    /\ IF Matches(p)
       THEN /\ IF Head(replies[p]).type = "acknowledge"
               THEN /\ queue' = Tail(queue)
                    /\ finished' = Append(finished, Head(replies[p]).n)
               ELSE /\ queue' = [queue EXCEPT ![1].old = TRUE]
                    /\ UNCHANGED finished
            /\ thread' = Continue(p)
       ELSE UNCHANGED <<queue, finished, thread>>
    /\ UNCHANGED <<active, registered, asked, offered, taken, read>>

-----------------------------------------------------------------------------
(* The programs, and time *)

Reply ==
    /\ \E n \in 1 .. MaxEvents, p \in Participants, type \in {"acknowledge", "navigate"} :
           /\ <<n, p>> \in asked
           /\ asked' = asked \ {<<n, p>>}
           /\ replies' = [replies EXCEPT ![p] = Append(@, [type |-> type, n |-> n])]
    /\ UNCHANGED <<queue, thread, active, registered, offered, histories, read>>

\* A program registers, or leaves.
Register ==
    /\ \E p \in Participants : registered' \in {registered \cup {p}, registered \ {p}}
    /\ UNCHANGED <<queue, thread, active, asked, replies, offered, histories, read>>

Tick ==
    /\ \E k \in 1 .. Len(queue) : queue[k].pending /\ ~queue[k].old
    /\ queue' = [k \in 1 .. Len(queue) |-> [queue[k] EXCEPT !.old = @ \/ queue[k].pending]]
    /\ UNCHANGED <<thread, active, program, histories, read>>

-----------------------------------------------------------------------------

Init ==
    /\ queue = <<>>
    /\ thread = [t \in Threads |-> Nothing]
    /\ active \in Panes
    /\ registered = Participants
    /\ asked = {} /\ replies = [p \in Participants |-> <<>>] /\ offered = {}
    /\ taken = <<>> /\ finished = <<>>
    /\ read = 0

Next ==
    \/ \E t \in Threads : Process(t)
    \/ Read \/ ReadOther
    \/ \E p \in Participants : NotifyOsc8671(p)
    \/ Reply \/ Register \/ Tick

Spec == Init /\ [][Next]_vars

\* The threads run, time passes (also while a thread holds the event), and the outer terminal
\* keeps sending something.  The programs need not answer.
Fairness ==
    /\ \A t \in Threads : WF_vars(Process(t))
    /\ WF_vars(ReadOther)
    /\ \A p \in Participants : WF_vars(NotifyOsc8671(p))
    /\ SF_vars(Tick)

FairSpec == Spec /\ Fairness

-----------------------------------------------------------------------------
(* Properties *)

Holds(t, n) == thread[t].pc \in {"handle", "expire", "put back"} /\ thread[t].event.n = n

Queued(n) == \E k \in 1 .. Len(queue) : queue[k].n = n
Finished(n) == \E k \in 1 .. Len(finished) : finished[k] = n

NoneLost == \A n \in 1 .. read : Queued(n) \/ Finished(n) \/ \E t \in Threads : Holds(t, n)

NoneTwice ==
    /\ \A j, k \in 1 .. Len(queue) : queue[j].n = queue[k].n => j = k
    /\ \A j, k \in 1 .. Len(finished) : finished[j] = finished[k] => j = k

InOnePlace ==
    \A n \in 1 .. read :
        /\ ~(Queued(n) /\ Finished(n))
        /\ \A t \in Threads : Holds(t, n) => ~Queued(n) /\ ~Finished(n)
        /\ \A s, t \in Threads : Holds(s, n) /\ Holds(t, n) => s = t

\* Several threads take events from the queue and put them back, and the readers remove some: every
\* event that was read is waiting, with one thread, or done with, and only one of these, once.
EachOnce == NoneLost /\ NoneTwice /\ InOnePlace

\* Whatever the navigations among them do, keys are taken from the queue in the order they were
\* typed.
TakenInOrder == \A i, j \in 1 .. Len(taken) : i < j => taken[i] < taken[j]

\* No event is lost, done twice or overtaken, whichever thread works on the queue
\* (process_pending_events).
AccountedOnce == TypeOK /\ EachOnce /\ TakenInOrder

\* A step of thread t moves the focus off a pane whose program has registered.
Leaves(t) == active \in registered /\ active' # active /\ thread'[t] # thread[t]

\* The focus leaves a pane whose program has registered by a click, or by a navigation that was
\* offered to a program first (the one in the pane that was active when the navigation came up,
\* which need not be this one: OfferedToIt).
OfferedFirst ==
    [][\A t \in Threads :
           Leaves(t) => LET e == thread[t].event
                        IN  e.kind = "click" \/ \E p \in Panes : <<e.n, p>> \in offered]_vars

\* As long as the outer terminal sends something now and then, every event is done with in the end,
\* whether programs answer or not.
Drained == Len(finished) < read ~> Len(finished) = read

\* Violated by the code (README, section 5).  docs/pages/osc_8671.md:64-68 wants input processed in
\* the order it came, with what follows a navigation held back until that is over.
InputInOrder == \A i, j \in 1 .. Len(finished) : i < j => finished[i] < finished[j]

\* Violated by the code.  docs/pages/osc_8671.md:38-39 and 66-68: a program that has registered is
\* told of the navigations out of its pane, and one that has timed out is completed as if the program
\* that was asked had declined it.
OfferedToIt ==
    [][\A t \in Threads :
           Leaves(t) => LET e == thread[t].event
                        IN  e.kind = "click" \/ <<e.n, active>> \in offered]_vars

\* Violated by the code.  docs/pages/osc_8671.md:75-84: what enters the application towards the right
\* enters its leftmost pane.
EnterNavigates ==
    [][\A t \in Threads :
           /\ thread'[t] # thread[t]
           /\ thread[t].pc = "handle" /\ thread[t].event.kind = "enter" /\ thread[t].event.dir = "right"
           => active' = Row[1]]_vars
=============================================================================

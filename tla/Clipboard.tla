----------------------------- MODULE Clipboard -----------------------------
(***************************************************************************)
(* The clipboard of ttx (src/lib/src/clipboard.cpp) as the render thread   *)
(* uses it (render.cpp:136-167 and 224-235): programs in panes set and     *)
(* query selections, some queries are forwarded to the outer terminal,     *)
(* whose answers come late or never, and after every batch of events the   *)
(* replies that are ready are sent to the panes.                           *)
(*                                                                         *)
(* Time is what SteadyClock::now() returns: it does not go back.  The      *)
(* replies are kept per selection: no program can tell in which order      *)
(* those to different selections are sent.                                 *)
(***************************************************************************)
EXTENDS Integers, FiniteSets, SequencesExt

CONSTANTS
    MaxSelection,  \* selections are 1 .. MaxSelection (SelectionType::Max)
    SystemSelections,  \* those the outer terminal is asked for: Selection and Clipboard
    Identifiers,   \* panes that ask, ordered as Clipboard::Identifier
    Data, Empty,   \* contents of a selection, and the empty one
    Modes,         \* the configured modes
    HasFeature,    \* the outer terminal supports OSC 52 (Feature::Clipboard)
    Timeout,       \* request_timeout
    MaxTime,       \* bound: the clock
    MaxRequests    \* bound: queries of all programs

AllModes == {"System", "SystemWriteLocalRead", "SystemWriteNoRead",
             "Local", "LocalWriteNoRead", "Disabled"}

ASSUME ClipboardAssumption ==
    /\ MaxSelection \in Nat
    /\ SystemSelections \subseteq 1 .. MaxSelection
    /\ Identifiers \subseteq Nat
    /\ Empty \in Data
    /\ Modes \subseteq AllModes
    /\ HasFeature \in BOOLEAN
    /\ Timeout \in Nat \ {0} /\ MaxTime \in Nat /\ MaxRequests \in Nat

Selections == 1 .. MaxSelection

VARIABLES
    now,            \* the steady clock
    mode,           \* m_mode
    data,           \* m_state[sel].data
    requests,       \* m_state[sel].requests, the top of the queue first
    systemWorking,  \* m_state[sel].system_working
    replies,        \* m_replies, per selection
    sent,           \* what this step has sent to the panes: the value get_replies returned
    queries,        \* queries forwarded to the outer terminal that it has not answered
    asked,          \* history: the queries of the programs, per selection and pane
    answered        \* history: the replies sent, per selection and pane

vars == <<now, mode, data, requests, systemWorking, replies, sent, queries, asked, answered>>

Request == [reception : Nat, identifier : Identifiers]
Reply == [identifier : Identifiers, data : Data]

TypeOK ==
    /\ now \in 0 .. MaxTime
    /\ mode \in AllModes
    /\ data \in [Selections -> Data]
    /\ requests \in [Selections -> Seq(Request)]
    /\ systemWorking \in [Selections -> BOOLEAN]
    /\ replies \in [Selections -> Seq(Reply)]
    /\ sent \in [Selections -> Seq(Reply)]
    /\ queries \in [Selections -> Nat]
    /\ asked \in [Selections -> [Identifiers -> Nat]]
    /\ answered \in [Selections -> [Identifiers -> Nat]]

-----------------------------------------------------------------------------
(* The queue of requests: a priority queue on (reception, identifier) *)

\* How many of the numbers 1 .. n are in S before the first that is not.
Leading(n, S) == CHOOSE k \in 0 .. n : 1 .. k \subseteq S /\ k + 1 \notin S

NotAfter(r, s) ==
    \/ r.reception < s.reception
    \/ r.reception = s.reception /\ r.identifier <= s.identifier

Push(queue, request) ==
    InsertAt(queue, 1 + Leading(Len(queue), {k \in 1 .. Len(queue) : NotAfter(queue[k], request)}), request)

Top(queue) == IF queue = <<>> THEN <<>> ELSE <<Head(queue)>>
Popped(queue) == IF queue = <<>> THEN <<>> ELSE Tail(queue)

Overdue(request) == request.reception + Timeout <= now

\* expire() takes the top request as long as it is overdue: how many it takes, what stays, what the
\* panes are told, and whether the outer terminal is still believed to answer.
Due(queue) == Leading(Len(queue), {k \in 1 .. Len(queue) : Overdue(queue[k])})

Remaining(queue) == SubSeq(queue, Due(queue) + 1, Len(queue))

Told(queue, count, d) == [k \in 1 .. count |-> [identifier |-> queue[k].identifier, data |-> d]]

Waiting(queues) == [sel \in Selections |-> Remaining(queues[sel])]

Expired(queues, held) == [sel \in Selections |-> Told(queues[sel], Due(queues[sel]), held[sel])]

StillWorking(queues, working) == [sel \in Selections |-> working[sel] /\ Due(queues[sel]) = 0]

NoReplies == [sel \in Selections |-> <<>>]

Join(some, more) == [sel \in Selections |-> some[sel] \o more[sel]]

-----------------------------------------------------------------------------
(* What is done depends on the mode, the outer terminal and the selection *)

ReadAction(sel, working) ==
    CASE mode \in {"SystemWriteNoRead", "LocalWriteNoRead", "Disabled"} -> "Ignore"
      [] mode = "System" /\ HasFeature /\ sel \in SystemSelections ->
            IF working[sel] THEN "ReadSystem" ELSE "RequestSystemReadLocal"
      [] OTHER -> "ReadLocal"

\* A write changes what ttx holds whether or not it is forwarded to the outer terminal.
WriteAction(sel) ==
    CASE mode = "Disabled" -> "Ignore"
      [] mode \in {"Local", "LocalWriteNoRead"} \/ ~HasFeature \/ sel \notin SystemSelections -> "WriteLocal"
      [] OTHER -> "WriteSystem"

-----------------------------------------------------------------------------
(* Events of the render thread *)

Count(queue, i) == Cardinality({k \in 1 .. Len(queue) : queue[k].identifier = i})

Owed(sel, i) == Count(requests[sel], i) + Count(replies[sel], i)

Asked == MapThenSumSet(LAMBDA p : asked[p[1]][p[2]], Selections \X Identifiers)

\* Mutant: what expires is answered with the contents before the write.
SetClipboard_OldData(sel, d) ==
    /\ data' = IF WriteAction(sel) = "Ignore" THEN data ELSE [data EXCEPT ![sel] = d]
    /\ requests' = Waiting(requests)
    /\ replies' = Join(replies, Expired(requests, data))
    /\ systemWorking' = StillWorking(requests, systemWorking)
    /\ sent' = NoReplies
    /\ UNCHANGED <<now, mode, queries, asked, answered>>

\* A program sets the selection; expire() runs on the way out.
SetClipboard(sel, d) ==
    /\ data' = IF WriteAction(sel) = "Ignore" THEN data ELSE [data EXCEPT ![sel] = d]
    /\ requests' = Waiting(requests)
    /\ replies' = Join(replies, Expired(requests, data'))
    /\ systemWorking' = StillWorking(requests, systemWorking)
    /\ sent' = NoReplies
    /\ UNCHANGED <<now, mode, queries, asked, answered>>

\* A program queries the selection; expire() runs first.  The query is forwarded to the outer
\* terminal if it may know better, and waits for the answer if the terminal is believed to answer.
RequestClipboard(sel, i) ==
    /\ Asked < MaxRequests
    /\ asked' = [asked EXCEPT ![sel][i] = @ + 1]
    /\ LET read == ReadAction(sel, StillWorking(requests, systemWorking))
           ready == Join(replies, Expired(requests, data))
       IN  /\ requests' = IF read # "ReadSystem" THEN Waiting(requests)
                          ELSE [Waiting(requests) EXCEPT ![sel] = Push(@, [reception |-> now, identifier |-> i])]
           /\ replies' = IF read = "ReadSystem" THEN ready
                         ELSE [ready EXCEPT ![sel] =
                                  Append(@, [identifier |-> i, data |-> IF read = "Ignore" THEN Empty ELSE data[sel]])]
           /\ queries' = [queries EXCEPT ![sel] =
                             IF read \in {"ReadSystem", "RequestSystemReadLocal"} THEN @ + 1 ELSE @]
    /\ systemWorking' = StillWorking(requests, systemWorking)
    /\ sent' = NoReplies
    /\ UNCHANGED <<now, mode, data, answered>>

\* Mutant: the request that is answered stays in the queue.
GotClipboardResponse_Peek(sel, d) ==
    /\ queries' = [queries EXCEPT ![sel] = IF @ > 0 THEN @ - 1 ELSE 0]
    /\ data' = IF d = Empty THEN data ELSE [data EXCEPT ![sel] = d]
    /\ LET top == Top(requests[sel])
           got == [replies EXCEPT ![sel] = @ \o Told(top, Len(top), data'[sel])]
       IN  /\ requests' = Waiting(requests)
           /\ replies' = Join(got, Expired(requests, data'))
           /\ systemWorking' = StillWorking(requests, [systemWorking EXCEPT ![sel] = TRUE])
    /\ sent' = NoReplies
    /\ UNCHANGED <<now, mode, asked, answered>>

\* The outer terminal answers a query, perhaps long after the request has expired, or sends an
\* answer that nobody asked for: the oldest request, if there is one, is answered, and then
\* expire() runs.  An empty answer does not replace what is known.
GotClipboardResponse(sel, d) ==
    /\ queries' = [queries EXCEPT ![sel] = IF @ > 0 THEN @ - 1 ELSE 0]
    /\ data' = IF d = Empty THEN data ELSE [data EXCEPT ![sel] = d]
    /\ LET top == Top(requests[sel])
           rest == [requests EXCEPT ![sel] = Popped(@)]
           got == [replies EXCEPT ![sel] = @ \o Told(top, Len(top), data'[sel])]
       IN  /\ requests' = Waiting(rest)
           /\ replies' = Join(got, Expired(rest, data'))
           /\ systemWorking' = StillWorking(rest, [systemWorking EXCEPT ![sel] = TRUE])
    /\ sent' = NoReplies
    /\ UNCHANGED <<now, mode, asked, answered>>

\* Mutant: get_replies does not look for what has expired.
GetReplies_NoExpire ==
    /\ sent' = replies
    /\ replies' = NoReplies
    /\ answered' = [sel \in Selections |-> [i \in Identifiers |->
                       answered[sel][i] + Count(sent'[sel], i)]]
    /\ UNCHANGED <<now, mode, data, requests, systemWorking, queries, asked>>

\* The end of a batch of events: the replies that are ready are sent to the panes.
GetReplies ==
    /\ sent' = Join(replies, Expired(requests, data))
    /\ requests' = Waiting(requests)
    /\ systemWorking' = StillWorking(requests, systemWorking)
    /\ replies' = NoReplies
    /\ answered' = [sel \in Selections |-> [i \in Identifiers |->
                       answered[sel][i] + Count(sent'[sel], i)]]
    /\ UNCHANGED <<now, mode, data, queries, asked>>

\* UpdateConfig.
SetMode ==
    /\ mode' \in Modes
    /\ UNCHANGED <<now, data, requests, systemWorking, replies, queries, asked, answered>>
    /\ sent' = NoReplies

Tick ==
    /\ now < MaxTime
    /\ now' = now + 1
    /\ UNCHANGED <<mode, data, requests, systemWorking, replies, queries, asked, answered>>
    /\ sent' = NoReplies

-----------------------------------------------------------------------------

Init ==
    /\ now = 0
    /\ mode \in Modes
    /\ data = [sel \in Selections |-> Empty]
    /\ requests = [sel \in Selections |-> <<>>]
    /\ systemWorking = [sel \in Selections |-> TRUE]
    /\ replies = NoReplies
    /\ sent = NoReplies
    /\ queries = [sel \in Selections |-> 0]
    /\ asked = [sel \in Selections |-> [i \in Identifiers |-> 0]]
    /\ answered = asked

Calls ==
    \/ \E sel \in Selections, d \in Data : SetClipboard(sel, d) \/ GotClipboardResponse(sel, d)
    \/ \E sel \in Selections, i \in Identifiers : RequestClipboard(sel, i)
    \/ GetReplies

Next == Calls \/ SetMode \/ Tick

Spec == Init /\ [][Next]_vars

-----------------------------------------------------------------------------
(* Properties *)

\* No query of a program is forgotten or answered twice, whatever answers are late, lost or
\* unasked for and whatever the mode becomes meanwhile.
Requests == INSTANCE ClipboardRequests WITH
    owed <- [sel \in Selections |-> [i \in Identifiers |-> Owed(sel, i)]]

AnsweredOnce == Requests!Spec

\* A request waits only while the outer terminal has been sent a query for it that it has not
\* answered yet, and the queue is in the order in which the answers are given out.
RequestsForwarded ==
    \A sel \in Selections :
        /\ Len(requests[sel]) <= queries[sel]
        /\ sel \notin SystemSelections => requests[sel] = <<>>
        /\ \A j, k \in 1 .. Len(requests[sel]) : j < k => NotAfter(requests[sel][j], requests[sel][k])

\* After any call of the clipboard the requests that wait are those the outer terminal has been
\* asked for, in order, and none of them has been waiting for the timeout or longer.
NoneOverdue ==
    [][Calls => /\ RequestsForwarded'
                /\ \A sel \in Selections : \A k \in 1 .. Len(requests'[sel]) :
                       requests'[sel][k].reception + Timeout > now]_vars

\* Whether it comes from ttx, from the outer terminal or from the timeout, every reply that a
\* call makes ready carries what ttx holds for the selection when the call returns; an empty one
\* is given instead only where the mode forbids to read.
Ready(sel) == IF sent'[sel] # <<>> THEN sent'[sel] ELSE replies'[sel]

RepliesCurrent ==
    [][Calls => \A sel \in Selections : \A k \in Len(replies[sel]) + 1 .. Len(Ready(sel)) :
                    \/ Ready(sel)[k].data = data'[sel]
                    \/ Ready(sel)[k].data = Empty /\ ReadAction(sel, systemWorking) = "Ignore"]_vars
=============================================================================

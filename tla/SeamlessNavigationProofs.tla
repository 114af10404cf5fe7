--------------------- MODULE SeamlessNavigationProofs ---------------------
(***************************************************************************)
(* Proofs about SeamlessNavigation, for any number of panes and of events  *)
(* of any kinds: no event is lost or done twice whichever thread works on  *)
(* the queue, keys are taken in the order they were typed, and the focus   *)
(* leaves a pane that takes part only by a click or by a navigation that   *)
(* was offered to a program first.                                         *)
(*                                                                         *)
(* The argument.  Only navigations are put back into the queue, and only   *)
(* after a program was offered them (QueueAside, ThreadsAside), so what    *)
(* is put back behind later keys is no key; the keys that wait are         *)
(* therefore in the order of their numbers, all of them later than every   *)
(* key taken (QueueInOrder, TakenBefore).                                  *)
(***************************************************************************)
EXTENDS SeamlessNavigation, TLAPS

-----------------------------------------------------------------------------
(* The inductive invariant *)

Working == {"handle", "expire", "put back"}
IsKey(e) == e.kind \in {"text", "bind"}
IsNavigation(e) == e.kind \in {"nav", "outer"}

\* Numbers are given out in order.
NumberedLists ==
    /\ \A k \in 1 .. Len(queue) : queue[k].n <= read
    /\ \A k \in 1 .. Len(finished) : finished[k] <= read
    /\ \A k \in 1 .. Len(taken) : taken[k] <= read

NumberedThreads == \A t \in Threads : thread[t].pc \in Working => thread[t].event.n <= read

IsOffered(n) == \E p \in Participants : <<n, p>> \in offered

\* What waits for a program is a navigation that was offered to one.
QueueAside ==
    \A k \in 1 .. Len(queue) : queue[k].pending => IsNavigation(queue[k]) /\ IsOffered(queue[k].n)

ThreadsAside ==
    \A t \in Threads :
        /\ thread[t].pc = "handle" => ~thread[t].event.pending
        /\ thread[t].pc \in {"expire", "put back"} =>
              IsNavigation(thread[t].event) /\ IsOffered(thread[t].event.n)

QueueInOrder ==
    \A j, k \in 1 .. Len(queue) :
        j < k /\ IsKey(queue[j]) /\ IsKey(queue[k]) => queue[j].n < queue[k].n

TakenBefore == \A i \in 1 .. Len(taken), k \in 1 .. Len(queue) : IsKey(queue[k]) => taken[i] < queue[k].n

IInv ==
    /\ TypeOK
    /\ NumberedLists /\ NumberedThreads
    /\ NoneLost /\ NoneTwice /\ InOnePlace
    /\ QueueAside /\ ThreadsAside
    /\ QueueInOrder /\ TakenBefore /\ TakenInOrder

-----------------------------------------------------------------------------
(* Sequences *)

\* What is left when the first element is taken.
LEMMA TailFacts ==
    ASSUME NEW S, NEW q \in Seq(S), q # <<>>
    PROVE  /\ Tail(q) \in Seq(S) /\ Len(Tail(q)) = Len(q) - 1 /\ Len(q) \in Nat \ {0}
           /\ \A k \in 1 .. Len(q) - 1 : Tail(q)[k] = q[k + 1]
           /\ Head(q) = q[1] /\ q[1] \in S
OBVIOUS

\* One element more at the end.
LEMMA AppendFacts ==
    ASSUME NEW S, NEW q \in Seq(S), NEW e \in S
    PROVE  /\ Append(q, e) \in Seq(S) /\ Len(Append(q, e)) = Len(q) + 1 /\ Len(q) \in Nat
           /\ \A k \in 1 .. Len(q) : Append(q, e)[k] = q[k]
           /\ Append(q, e)[Len(q) + 1] = e
OBVIOUS

\* One element more at the front.
LEMMA FrontFacts ==
    ASSUME NEW S, NEW q \in Seq(S), NEW e \in S
    PROVE  /\ <<e>> \o q \in Seq(S) /\ Len(<<e>> \o q) = Len(q) + 1 /\ Len(q) \in Nat
           /\ (<<e>> \o q)[1] = e
           /\ \A k \in 1 .. Len(q) : (<<e>> \o q)[k + 1] = q[k]
OBVIOUS

-----------------------------------------------------------------------------
(* The steps *)

\* At first there is no event anywhere.
LEMMA InitIInv == Init => IInv
<1> SUFFICES ASSUME Init PROVE IInv
  OBVIOUS
<1>1. TypeOK
  <2>1. replies \in [Participants -> Seq(Answer)]
    BY DEF Init
  <2>2. thread \in [Threads -> ThreadState]
    BY DEF Init, ThreadState, Nothing
  <2> QED
    BY <2>1, <2>2, SeamlessNavigationAssumption DEF Init, TypeOK
<1>2. /\ queue = <<>> /\ taken = <<>> /\ finished = <<>> /\ read = 0
      /\ \A t \in Threads : thread[t].pc = "idle"
  BY DEF Init, Nothing
<1> HIDE DEF Init
<1>3. NumberedLists /\ NoneLost /\ NoneTwice /\ InOnePlace
  BY <1>2 DEF NumberedLists, NoneLost, NoneTwice, InOnePlace
<1>4. NumberedThreads
  BY <1>2 DEF NumberedThreads, Working
<1>5. QueueAside /\ QueueInOrder /\ TakenBefore /\ TakenInOrder
  BY <1>2 DEF QueueAside, QueueInOrder, TakenBefore, TakenInOrder
<1>6. ThreadsAside
  BY <1>2 DEF ThreadsAside
<1> QED
  BY <1>1, <1>3, <1>4, <1>5, <1>6 DEF IInv

\* An event that a thread works on is an event.
LEMMA EventOf ==
    ASSUME TypeOK, NEW t \in Threads, thread[t].pc \in Working
    PROVE  thread[t].event \in Event
BY DEF TypeOK, ThreadState, Working

\* A thread that takes an event, goes on or returns is in one of its states.
LEMMA ThreadStates ==
    ASSUME TypeOK, NEW t \in Threads
    PROVE  /\ Continue(t) \in [Threads -> ThreadState] /\ Return(t) \in [Threads -> ThreadState]
           /\ \A pc \in Working, e \in Event : At(t, pc, e) \in [Threads -> ThreadState]
BY DEF TypeOK, ThreadState, Working, Continue, Return, At, Nothing

\* What the places of events are made of.
LEMMA TypeFacts ==
    ASSUME TypeOK
    PROVE  /\ queue \in Seq(Event) /\ taken \in Seq(1 .. MaxEvents) /\ finished \in Seq(1 .. MaxEvents)
           /\ thread \in [Threads -> ThreadState] /\ read \in 0 .. MaxEvents
           /\ asked \subseteq (1 .. MaxEvents) \X Participants
           /\ offered \subseteq (1 .. MaxEvents) \X Participants
           /\ registered \subseteq Participants /\ active \in Panes
           /\ Len(queue) \in Nat /\ Len(taken) \in Nat /\ Len(finished) \in Nat
           /\ MaxEvents \in Nat
BY SeamlessNavigationAssumption DEF TypeOK

\* A step that moves no event keeps the invariant.
LEMMA NoneMoved ==
    ASSUME IInv, TypeOK', UNCHANGED <<taken, finished, read>>,
           Len(queue') = Len(queue),
           \A k \in 1 .. Len(queue) : /\ queue'[k].n = queue[k].n /\ queue'[k].kind = queue[k].kind
                                      /\ queue'[k].pending = queue[k].pending,
           \A t \in Threads : \/ thread'[t] = thread[t]
                              \/ thread[t].pc \notin Working /\ thread'[t].pc \notin Working,
           offered \subseteq offered'
    PROVE  IInv'
<1> USE DEF IInv
<1>1. NumberedLists' /\ NoneTwice'
  BY DEF NumberedLists, NoneTwice
<1>2. NumberedThreads' /\ QueueAside'
  BY DEF NumberedThreads, QueueAside, IsNavigation, IsOffered
<1>3. QueueInOrder' /\ TakenBefore' /\ TakenInOrder'
  BY DEF QueueInOrder, TakenBefore, TakenInOrder, IsKey
<1>4. ThreadsAside'
  BY DEF ThreadsAside, Working, IsOffered
<1>5. \A n \in 1 .. read : /\ Queued(n)' <=> Queued(n)
                           /\ Finished(n)' <=> Finished(n)
                           /\ \A t \in Threads : Holds(t, n)' <=> Holds(t, n)
  BY DEF Queued, Finished, Holds, Working
<1>6. NoneLost' /\ InOnePlace'
  BY <1>5 DEF NoneLost, InOnePlace, Threads
<1> QED
  BY <1>1, <1>2, <1>3, <1>4, <1>6

\* The first event is taken, and with it a key.
LEMMA TakeIInv ==
    ASSUME IInv, NEW t \in Threads, Pop(t), queue # <<>>
    PROVE  IInv'
<1> DEFINE first == Head(queue)
           pc == IF ~first.pending THEN "handle" ELSE IF first.old THEN "expire" ELSE "put back"
<1>1. TypeOK
  BY DEF IInv
<1>2. /\ queue' = Tail(queue) /\ thread' = At(t, pc, first) /\ thread[t].pc = "pop"
      /\ taken' = IF first.kind \in {"text", "bind"} THEN Append(taken, first.n) ELSE taken
      /\ UNCHANGED <<active, registered, asked, replies, offered, finished, read>>
  BY DEF Pop, program
<1>3. /\ queue' \in Seq(Event) /\ Len(queue') = Len(queue) - 1 /\ Len(queue) \in Nat \ {0}
      /\ \A k \in 1 .. Len(queue) - 1 : queue'[k] = queue[k + 1]
      /\ first = queue[1] /\ first \in Event
  <2>1. queue \in Seq(Event)
    BY <1>1, TypeFacts
  <2> QED
    BY <1>2, <2>1, TailFacts
<1>4. /\ thread'[t].pc = pc /\ thread'[t].event = first /\ pc \in Working
      /\ \A s \in Threads \ {t} : thread'[s] = thread[s]
  BY <1>1, <1>2, TypeFacts DEF At, Working
<1>5. /\ first.pending => pc \in {"expire", "put back"}
      /\ ~first.pending => pc = "handle"
  OBVIOUS
<1> HIDE DEF first, pc
<1>6. first.n \in 1 .. MaxEvents
  BY <1>3 DEF Event
<1>7. /\ taken' \in Seq(1 .. MaxEvents)
      /\ IsKey(first) => /\ Len(taken') = Len(taken) + 1 /\ taken'[Len(taken) + 1] = first.n
                         /\ \A k \in 1 .. Len(taken) : taken'[k] = taken[k]
      /\ ~IsKey(first) => taken' = taken
  <2>1. taken \in Seq(1 .. MaxEvents)
    BY <1>1, TypeFacts
  <2>2. CASE IsKey(first)
    BY <1>2, <1>6, <2>1, <2>2, AppendFacts DEF IsKey
  <2>3. CASE ~IsKey(first)
    BY <1>2, <2>1, <2>3 DEF IsKey
  <2> QED
    BY <2>2, <2>3
<1>8. TypeOK'
  <2>1. thread' \in [Threads -> ThreadState]
    BY <1>1, <1>2, <1>3, <1>4, ThreadStates
  <2> QED
    BY <1>1, <1>2, <1>3, <1>7, <2>1 DEF TypeOK
<1>9. 1 \in 1 .. Len(queue) /\ \A k \in 1 .. Len(queue') : k + 1 \in 1 .. Len(queue) /\ queue'[k] = queue[k + 1]
  BY <1>3
<1>10. NumberedLists'
  <2>1. \A k \in 1 .. Len(queue') : queue'[k].n <= read
    BY <1>9 DEF IInv, NumberedLists
  <2>2. \A k \in 1 .. Len(taken') : taken'[k] <= read
    <3>1. first.n <= read /\ Len(taken) \in Nat
      BY <1>1, <1>3, <1>9, TypeFacts DEF IInv, NumberedLists
    <3>2. CASE IsKey(first)
      BY <1>7, <3>1, <3>2 DEF IInv, NumberedLists
    <3>3. CASE ~IsKey(first)
      BY <1>7, <3>3 DEF IInv, NumberedLists
    <3> QED
      BY <3>2, <3>3
  <2> QED
    BY <1>2, <2>1, <2>2 DEF IInv, NumberedLists
<1>11. first.n <= read /\ first.n \in 1 .. read
  BY <1>1, <1>3, <1>6, <1>9, TypeFacts DEF IInv, NumberedLists
<1>12. NumberedThreads'
  BY <1>2, <1>4, <1>11 DEF IInv, NumberedThreads
<1>13. QueueAside'
  BY <1>2, <1>9 DEF IInv, QueueAside, IsOffered
<1>14. ThreadsAside'
  <2>1. first.pending => IsNavigation(first) /\ IsOffered(first.n)
    BY <1>3, <1>9 DEF IInv, QueueAside
  <2> QED
    BY <1>2, <1>4, <1>5, <2>1 DEF IInv, ThreadsAside, IsOffered
<1>15. QueueInOrder'
  BY <1>3, <1>9 DEF IInv, QueueInOrder
<1>16. \A k \in 1 .. Len(queue') : IsKey(queue'[k]) /\ IsKey(first) => first.n < queue'[k].n
  BY <1>3, <1>9 DEF IInv, QueueInOrder
<1>17. TakenBefore'
  <2> SUFFICES ASSUME NEW i \in 1 .. Len(taken'), NEW k \in 1 .. Len(queue'), IsKey(queue'[k])
               PROVE  taken'[i] < queue'[k].n
    BY DEF TakenBefore
  <2>1. CASE i \in 1 .. Len(taken)
    <3>1. taken'[i] = taken[i]
      BY <1>7, <2>1
    <3> QED
      BY <1>9, <2>1, <3>1 DEF IInv, TakenBefore
  <2>2. CASE i \notin 1 .. Len(taken)
    <3>1. IsKey(first) /\ taken'[i] = first.n
      BY <1>1, <1>7, <2>2, TypeFacts
    <3> QED
      BY <1>16, <3>1
  <2> QED
    BY <2>1, <2>2
<1>18. TakenInOrder'
  <2>1. CASE IsKey(first)
    <3>1. \A i \in 1 .. Len(taken) : taken[i] < first.n
      BY <1>3, <1>9, <2>1 DEF IInv, TakenBefore
    <3>2. Len(taken) \in Nat
      BY <1>1, TypeFacts
    <3>3. ASSUME NEW i \in 1 .. Len(taken'), NEW j \in 1 .. Len(taken'), i < j
          PROVE  taken'[i] < taken'[j]
      <4>1. i \in 1 .. Len(taken) /\ taken'[i] = taken[i]
        BY <1>7, <2>1, <3>2, <3>3
      <4>2. CASE j \in 1 .. Len(taken)
        BY <1>7, <2>1, <3>3, <4>1, <4>2 DEF IInv, TakenInOrder
      <4>3. CASE j = Len(taken) + 1
        BY <1>7, <2>1, <3>1, <4>1, <4>3
      <4> QED
        BY <1>7, <2>1, <3>2, <4>2, <4>3
    <3> QED
      BY <3>3 DEF TakenInOrder
  <2>2. CASE ~IsKey(first)
    BY <1>7, <2>2 DEF IInv, TakenInOrder
  <2> QED
    BY <2>1, <2>2
<1>19. NoneTwice'
  BY <1>2, <1>3, <1>9 DEF IInv, NoneTwice
<1>20. \A n \in 1 .. read : Queued(n) <=> Queued(n)' \/ n = first.n
  <2> SUFFICES ASSUME NEW n \in 1 .. read PROVE Queued(n) <=> Queued(n)' \/ n = first.n
    OBVIOUS
  <2>1. ASSUME NEW k \in 1 .. Len(queue), queue[k].n = n PROVE Queued(n)' \/ n = first.n
    <3>1. CASE k = 1
      BY <1>3, <2>1, <3>1
    <3>2. CASE k # 1
      <4>1. k - 1 \in 1 .. Len(queue') /\ queue'[k - 1].n = n
        BY <1>3, <2>1, <3>2
      <4> QED
        BY <4>1 DEF Queued
    <3> QED
      BY <3>1, <3>2
  <2>2. Queued(n)' \/ n = first.n => Queued(n)
    BY <1>3, <1>9 DEF Queued
  <2> QED
    BY <2>1, <2>2 DEF Queued
<1>21. \A n \in 1 .. read : n = first.n => ~Queued(n)'
  <2> SUFFICES ASSUME NEW k \in 1 .. Len(queue'), queue'[k].n = first.n PROVE FALSE
    BY <1>2 DEF Queued
  <2> QED
    BY <1>3, <1>9 DEF IInv, NoneTwice
<1>22. \A n \in 1 .. read : /\ Holds(t, n)' <=> n = first.n
                            /\ ~Holds(t, n)
                            /\ \A s \in Threads \ {t} : Holds(s, n)' <=> Holds(s, n)
                            /\ Finished(n)' <=> Finished(n)
  BY <1>2, <1>4 DEF Holds, Working, Finished
<1>23. NoneLost'
  BY <1>2, <1>20, <1>22 DEF IInv, NoneLost
<1>24. InOnePlace'
  <2>1. ASSUME NEW n \in 1 .. read, n = first.n
        PROVE  ~Queued(n)' /\ ~Finished(n)' /\ \A s \in Threads \ {t} : ~Holds(s, n)'
    BY <1>20, <1>21, <1>22, <2>1 DEF IInv, InOnePlace
  <2>2. ASSUME NEW n \in 1 .. read, n # first.n
        PROVE  /\ Queued(n)' <=> Queued(n)
               /\ Finished(n)' <=> Finished(n)
               /\ \A s \in Threads : Holds(s, n)' <=> Holds(s, n)
    BY <1>20, <1>22, <2>2
  <2>3. \A n \in 1 .. read : /\ ~(Queued(n)' /\ Finished(n)')
                             /\ \A s \in Threads : Holds(s, n)' => ~Queued(n)' /\ ~Finished(n)'
                             /\ \A r, s \in Threads : Holds(r, n)' /\ Holds(s, n)' => r = s
    BY <1>22, <2>1, <2>2 DEF IInv, InOnePlace, Threads
  <2> QED
    BY <1>2, <2>3 DEF InOnePlace
<1> QED
  BY <1>8, <1>10, <1>12, <1>13, <1>14, <1>15, <1>17, <1>18, <1>19, <1>23, <1>24 DEF IInv

\* Nothing waits: the thread returns.
LEMMA ReturnIInv ==
    ASSUME IInv, NEW t \in Threads, Pop(t), queue = <<>>
    PROVE  IInv'
<1>1. TypeOK
  BY DEF IInv
<1>2. /\ thread' = Return(t) /\ thread[t].pc = "pop"
      /\ UNCHANGED <<queue, taken, active, registered, asked, replies, offered, finished, read>>
  BY DEF Pop, program
<1>3. thread'[t].pc = "idle" /\ \A s \in Threads \ {t} : thread'[s] = thread[s]
  BY <1>1, <1>2, TypeFacts DEF Return, Nothing
<1>4. TypeOK'
  BY <1>1, <1>2, ThreadStates DEF TypeOK
<1> QED
  BY <1>2, <1>3, <1>4, NoneMoved DEF Working

\* A thread is done with its event: it has no event any more, which is finished.
LEMMA FinishIInv ==
    ASSUME IInv, NEW t \in Threads, thread[t].pc \in Working, Finish(t, thread[t].event),
           active' \in Panes, asked' \subseteq (1 .. MaxEvents) \X Participants,
           offered \subseteq offered', offered' \subseteq (1 .. MaxEvents) \X Participants,
           UNCHANGED <<queue, registered, replies, taken, read>>
    PROVE  IInv'
<1> DEFINE e == thread[t].event
<1>1. TypeOK
  BY DEF IInv
<1>2. /\ thread' = Continue(t) /\ finished' = Append(finished, e.n)
      /\ thread'[t].pc = "pop" /\ \A s \in Threads \ {t} : thread'[s] = thread[s]
  BY <1>1, TypeFacts DEF Finish, Continue
<1>3. e.n \in 1 .. MaxEvents /\ e.n <= read /\ e.n \in 1 .. read
  <2>1. e.n \in 1 .. MaxEvents
    BY <1>1, EventOf DEF Event
  <2> QED
    BY <1>1, <2>1, TypeFacts DEF IInv, NumberedThreads
<1>4. \A n \in 1 .. read : Holds(t, n) <=> n = e.n
  BY DEF Holds, Working
<1> HIDE DEF e
<1>5. /\ finished' \in Seq(1 .. MaxEvents) /\ Len(finished') = Len(finished) + 1 /\ Len(finished) \in Nat
      /\ \A k \in 1 .. Len(finished) : finished'[k] = finished[k]
      /\ finished'[Len(finished) + 1] = e.n
  <2>1. finished \in Seq(1 .. MaxEvents)
    BY <1>1, TypeFacts
  <2> QED
    BY <1>2, <1>3, <2>1, AppendFacts
<1>6. TypeOK'
  BY <1>1, <1>2, <1>5, ThreadStates DEF TypeOK
<1>7. NumberedLists'
  BY <1>3, <1>5 DEF IInv, NumberedLists
<1>8. NumberedThreads'
  BY <1>2 DEF IInv, NumberedThreads, Working
<1>9. QueueAside' /\ QueueInOrder' /\ TakenBefore' /\ TakenInOrder'
  BY DEF IInv, QueueAside, IsOffered, QueueInOrder, TakenBefore, TakenInOrder
<1>10. ThreadsAside'
  BY <1>2 DEF IInv, ThreadsAside, IsOffered
<1>11. \A n \in 1 .. read :
          /\ Queued(n)' <=> Queued(n)
          /\ Finished(n)' <=> Finished(n) \/ n = e.n
          /\ ~Holds(t, n)'
          /\ \A s \in Threads \ {t} : Holds(s, n)' <=> Holds(s, n)
  <2>1. \A n \in 1 .. read : Finished(n)' <=> Finished(n) \/ n = e.n
    BY <1>3, <1>5 DEF Finished
  <2> QED
    BY <1>2, <2>1 DEF Queued, Holds
<1>12. ~Finished(e.n) /\ ~Queued(e.n) /\ \A s \in Threads \ {t} : ~Holds(s, e.n)
  BY <1>3, <1>4 DEF IInv, InOnePlace, Threads
<1>13. NoneLost'
  BY <1>4, <1>11 DEF IInv, NoneLost
<1>14. NoneTwice'
  <2>1. \A k \in 1 .. Len(finished) : finished[k] # e.n
    BY <1>12 DEF Finished
  <2>2. ASSUME NEW j \in 1 .. Len(finished'), NEW k \in 1 .. Len(finished'), finished'[j] = finished'[k]
        PROVE  j = k
    BY <1>5, <2>1, <2>2 DEF IInv, NoneTwice
  <2> QED
    BY <2>2 DEF IInv, NoneTwice
<1>15. InOnePlace'
  <2>1. \A n \in 1 .. read : /\ ~(Queued(n)' /\ Finished(n)')
                             /\ \A s \in Threads : Holds(s, n)' => ~Queued(n)' /\ ~Finished(n)'
                             /\ \A r, s \in Threads : Holds(r, n)' /\ Holds(s, n)' => r = s
    BY <1>11, <1>12 DEF IInv, InOnePlace, Threads
  <2> QED
    BY <2>1 DEF InOnePlace
<1> QED
  BY <1>6, <1>7, <1>8, <1>9, <1>10, <1>13, <1>14, <1>15 DEF IInv

\* A thread gives its event back to the queue, in front or at the end, as an event f that is no key.
LEMMA GiveBackIInv ==
    ASSUME IInv, NEW t \in Threads, thread[t].pc \in Working,
           NEW f \in Event, f.n = thread[t].event.n, ~IsKey(f),
           f.pending => IsNavigation(f) /\ IsOffered(f.n),
           NEW p \in 1 .. Len(queue) + 1, queue' \in Seq(Event), Len(queue') = Len(queue) + 1,
           queue'[p] = f,
           \A k \in 1 .. Len(queue) + 1 : k # p => queue'[k] = queue[IF k < p THEN k ELSE k - 1],
           thread' \in [Threads -> ThreadState], thread'[t].pc \notin Working,
           \A s \in Threads \ {t} : thread'[s] = thread[s],
           UNCHANGED <<active, registered, asked, replies, offered, taken, finished, read>>
    PROVE  IInv'
<1> DEFINE Old(k) == IF k < p THEN k ELSE k - 1
           New(k) == IF k < p THEN k ELSE k + 1
<1>1. TypeOK
  BY DEF IInv
<1>2. TypeOK'
  BY <1>1 DEF TypeOK
<1>3. f.n \in 1 .. read
  BY <1>1, TypeFacts DEF IInv, NumberedThreads, Event
<1>4. \A n \in 1 .. read : Holds(t, n) <=> n = f.n
  BY DEF Holds, Working
<1>5. /\ \A k \in 1 .. Len(queue') : k # p => Old(k) \in 1 .. Len(queue) /\ queue'[k] = queue[Old(k)]
      /\ \A k \in 1 .. Len(queue) : New(k) \in 1 .. Len(queue') /\ queue'[New(k)] = queue[k]
      /\ \A j, k \in 1 .. Len(queue') : j # p /\ k # p =>
            /\ j < k => Old(j) < Old(k)
            /\ j # k => Old(j) # Old(k)
  <2>1. Len(queue) \in Nat
    BY <1>1, TypeFacts
  <2>2. \A k \in 1 .. Len(queue') : k # p => Old(k) \in 1 .. Len(queue) /\ queue'[k] = queue[Old(k)]
    BY <2>1
  <2>3. ASSUME NEW k \in 1 .. Len(queue)
        PROVE  New(k) \in 1 .. Len(queue') /\ queue'[New(k)] = queue[k]
    <3>1. New(k) \in 1 .. Len(queue) + 1 /\ New(k) # p /\ Old(New(k)) = k
      BY <2>1
    <3> QED
      BY <3>1
  <2>4. \A j, k \in 1 .. Len(queue') : j # p /\ k # p =>
            (j < k => Old(j) < Old(k)) /\ (j # k => Old(j) # Old(k))
    BY <2>1
  <2> QED
    BY <2>2, <2>3, <2>4
<1> HIDE DEF Old, New
<1>6. ~Finished(f.n) /\ ~Queued(f.n) /\ \A s \in Threads \ {t} : ~Holds(s, f.n)
  BY <1>3, <1>4 DEF IInv, InOnePlace, Threads
<1>7. NumberedLists'
  <2>1. \A k \in 1 .. Len(queue') : queue'[k].n <= read
    <3>1. f.n <= read
      BY <1>1, <1>3, TypeFacts
    <3> QED
      BY <1>5, <3>1 DEF IInv, NumberedLists
  <2> QED
    BY <2>1 DEF IInv, NumberedLists
<1>8. NumberedThreads'
  BY DEF IInv, NumberedThreads
<1>9. QueueAside'
  BY <1>5 DEF IInv, QueueAside, IsOffered
<1>10. ThreadsAside'
  BY DEF IInv, ThreadsAside, Working, IsOffered
<1>11. QueueInOrder' /\ TakenBefore' /\ TakenInOrder'
  <2>1. \A k \in 1 .. Len(queue') : IsKey(queue'[k]) => k # p
    OBVIOUS
  <2>2. QueueInOrder'
    BY <1>5, <2>1 DEF IInv, QueueInOrder
  <2>3. TakenBefore'
    BY <1>5, <2>1 DEF IInv, TakenBefore
  <2> QED
    BY <2>2, <2>3 DEF IInv, TakenInOrder
<1>12. \A n \in 1 .. read :
          /\ Queued(n)' <=> Queued(n) \/ n = f.n
          /\ Finished(n)' <=> Finished(n)
          /\ ~Holds(t, n)'
          /\ \A s \in Threads \ {t} : Holds(s, n)' <=> Holds(s, n)
  <2>1. ASSUME NEW n \in 1 .. read PROVE Queued(n)' <=> Queued(n) \/ n = f.n
    <3>1. Queued(n)' => Queued(n) \/ n = f.n
      BY <1>5 DEF Queued
    <3>2. Queued(n) \/ n = f.n => Queued(n)'
      BY <1>5 DEF Queued
    <3> QED
      BY <3>1, <3>2
  <2> QED
    BY <2>1 DEF Finished, Holds, Working
<1>13. NoneLost'
  BY <1>4, <1>12 DEF IInv, NoneLost
<1>14. NoneTwice'
  <2>1. \A k \in 1 .. Len(queue) : queue[k].n # f.n
    BY <1>6 DEF Queued
  <2>2. ASSUME NEW j \in 1 .. Len(queue'), NEW k \in 1 .. Len(queue'), queue'[j].n = queue'[k].n
        PROVE  j = k
    BY <1>5, <2>1, <2>2 DEF IInv, NoneTwice
  <2> QED
    BY <2>2 DEF IInv, NoneTwice
<1>15. InOnePlace'
  <2>1. \A n \in 1 .. read : /\ ~(Queued(n)' /\ Finished(n)')
                             /\ \A s \in Threads : Holds(s, n)' => ~Queued(n)' /\ ~Finished(n)'
                             /\ \A r, s \in Threads : Holds(r, n)' /\ Holds(s, n)' => r = s
    <3> SUFFICES ASSUME NEW n \in 1 .. read
                 PROVE  /\ ~(Queued(n)' /\ Finished(n)')
                        /\ \A s \in Threads : Holds(s, n)' => ~Queued(n)' /\ ~Finished(n)'
                        /\ \A r, s \in Threads : Holds(r, n)' /\ Holds(s, n)' => r = s
      OBVIOUS
    <3>1. CASE n = f.n
      BY <1>6, <1>12, <3>1
    <3>2. CASE n # f.n
      BY <1>12, <3>2 DEF IInv, InOnePlace
    <3> QED
      BY <3>1, <3>2
  <2> QED
    BY <2>1 DEF InOnePlace
<1> QED
  BY <1>2, <1>7, <1>8, <1>9, <1>10, <1>11, <1>13, <1>14, <1>15 DEF IInv

\* A navigation that waits for its program goes to the end of the queue.
LEMMA PutBackIInv ==
    ASSUME IInv, NEW t \in Threads, PutBack(t)
    PROVE  IInv'
<1> DEFINE e == thread[t].event
           f == [e EXCEPT !.pending = TRUE]
<1>1. TypeOK /\ e \in Event /\ thread[t].pc \in Working
  BY EventOf DEF IInv, PutBack, Working
<1>2. IsNavigation(e) /\ IsOffered(e.n)
  BY DEF IInv, ThreadsAside, PutBack
<1>3. f \in Event /\ f.n = e.n /\ IsNavigation(f) /\ ~IsKey(f)
  BY <1>1, <1>2 DEF Event, IsNavigation, IsKey
<1>4. /\ queue' = Append(queue, f) /\ thread' = Return(t)
      /\ UNCHANGED <<active, registered, asked, replies, offered, taken, finished, read>>
  BY DEF PutBack, program, histories
<1>5. /\ thread' \in [Threads -> ThreadState] /\ thread'[t].pc = "idle"
      /\ \A s \in Threads \ {t} : thread'[s] = thread[s]
  BY <1>1, <1>4, TypeFacts, ThreadStates DEF Return, Nothing
<1> HIDE DEF f
<1>6. /\ queue' \in Seq(Event) /\ Len(queue') = Len(queue) + 1 /\ queue'[Len(queue) + 1] = f
      /\ \A k \in 1 .. Len(queue) : queue'[k] = queue[k]
      /\ Len(queue) \in Nat
  <2>1. queue \in Seq(Event)
    BY <1>1, TypeFacts
  <2> QED
    BY <1>3, <1>4, <2>1, AppendFacts
<1>7. Len(queue) + 1 \in 1 .. Len(queue) + 1
  BY <1>6
<1>8. \A k \in 1 .. Len(queue) + 1 :
         k # Len(queue) + 1 => queue'[k] = queue[IF k < Len(queue) + 1 THEN k ELSE k - 1]
  BY <1>6
<1>9. "idle" \notin Working
  BY DEF Working
<1> HIDE DEF e
<1> QED
  BY <1>1, <1>2, <1>3, <1>4, <1>5, <1>6, <1>7, <1>8, <1>9, GiveBackIInv DEF e

\* A key that navigates is turned into a navigation at the front of the queue.
LEMMA HandleBindIInv ==
    ASSUME IInv, NEW t \in Threads, HandleBind(t)
    PROVE  IInv'
<1> DEFINE e == thread[t].event
           f == [e EXCEPT !.kind = "nav", !.old = FALSE]
<1>1. TypeOK /\ e \in Event /\ thread[t].pc \in Working
  BY EventOf DEF IInv, HandleBind, Working
<1>2. ~e.pending
  BY DEF IInv, ThreadsAside, HandleBind
<1>3. f \in Event /\ f.n = e.n /\ ~f.pending /\ ~IsKey(f)
  BY <1>1, <1>2 DEF Event, IsKey
<1>4. /\ queue' = <<f>> \o queue /\ thread' = Continue(t)
      /\ UNCHANGED <<active, registered, asked, replies, offered, taken, finished, read>>
  BY DEF HandleBind, program, histories
<1>5. /\ thread' \in [Threads -> ThreadState] /\ thread'[t].pc = "pop"
      /\ \A s \in Threads \ {t} : thread'[s] = thread[s]
  BY <1>1, <1>4, TypeFacts, ThreadStates DEF Continue
<1> HIDE DEF f
<1>6. /\ queue' \in Seq(Event) /\ Len(queue') = Len(queue) + 1 /\ queue'[1] = f
      /\ \A k \in 1 .. Len(queue) : queue'[k + 1] = queue[k]
      /\ Len(queue) \in Nat
  <2>1. queue \in Seq(Event)
    BY <1>1, TypeFacts
  <2> QED
    BY <1>3, <1>4, <2>1, FrontFacts
<1>7. 1 \in 1 .. Len(queue) + 1
  BY <1>6
<1>8. \A k \in 1 .. Len(queue) + 1 : k # 1 => queue'[k] = queue[IF k < 1 THEN k ELSE k - 1]
  <2> SUFFICES ASSUME NEW k \in 2 .. Len(queue) + 1 PROVE queue'[k] = queue[k - 1]
    BY <1>6
  <2>1. k - 1 \in 1 .. Len(queue) /\ (k - 1) + 1 = k
    BY <1>6
  <2> QED
    BY <1>6, <2>1
<1>9. "pop" \notin Working
  BY DEF Working
<1> HIDE DEF e
<1> QED
  BY <1>1, <1>3, <1>4, <1>5, <1>6, <1>7, <1>8, <1>9, GiveBackIInv DEF e

\* The tab moves to one of its panes.
LEMMA MoveToPane ==
    ASSUME TypeOK, NEW e, MoveTo(e)
    PROVE  active' \in Panes
<1>1. CASE Candidates(e) = {}
  BY <1>1 DEF MoveTo, TypeOK
<1>2. CASE Candidates(e) # {}
  <2>1. (CHOOSE p \in Candidates(e) : TRUE) \in Candidates(e)
    BY <1>2
  <2> QED
    BY <1>2, <2>1 DEF MoveTo, Candidates
<1> QED
  BY <1>1, <1>2

\* A navigation the program has to answer is offered to it and put aside.
LEMMA OfferIInv ==
    ASSUME IInv, NEW t \in Threads, thread[t].pc = "handle", IsNavigation(thread[t].event),
           active \in registered,
           asked' = asked \cup {<<thread[t].event.n, active>>},
           offered' = offered \cup {<<thread[t].event.n, active>>},
           thread' = At(t, "put back", thread[t].event),
           UNCHANGED <<queue, active, registered, replies, taken, finished, read>>
    PROVE  IInv'
<1> DEFINE e == thread[t].event
<1>1. TypeOK /\ e \in Event
  BY EventOf DEF IInv, Working
<1>2. /\ thread'[t].pc = "put back" /\ thread'[t].event = e
      /\ \A s \in Threads \ {t} : thread'[s] = thread[s]
  BY <1>1, TypeFacts DEF At
<1>3. e.n \in 1 .. MaxEvents
  BY <1>1 DEF Event
<1>4. TypeOK'
  <2>1. thread' \in [Threads -> ThreadState]
    BY <1>1, ThreadStates DEF Working
  <2>2. /\ asked' \subseteq (1 .. MaxEvents) \X Participants
        /\ offered' \subseteq (1 .. MaxEvents) \X Participants
    <3>1. <<e.n, active>> \in (1 .. MaxEvents) \X Participants
      BY <1>1, <1>3, TypeFacts
    <3> HIDE DEF e
    <3>2. asked' = asked \cup {<<e.n, active>>} /\ offered' = offered \cup {<<e.n, active>>}
      BY DEF e
    <3> QED
      BY <1>1, <3>1, <3>2, TypeFacts
  <2> HIDE DEF e
  <2> QED
    BY <1>1, <2>1, <2>2 DEF TypeOK
<1>5. NumberedLists' /\ NoneTwice'
  BY DEF IInv, NumberedLists, NoneTwice
<1>6. NumberedThreads'
  BY <1>2 DEF IInv, NumberedThreads, Working
<1>7. QueueAside'
  BY DEF IInv, QueueAside, IsOffered
<1>8. ThreadsAside'
  <2>1. <<e.n, active>> \in offered' /\ active \in Participants
    BY <1>1, TypeFacts
  <2>2. \E p \in Participants : <<e.n, p>> \in offered'
    BY <2>1
  <2>3. \A n, p : <<n, p>> \in offered => <<n, p>> \in offered'
    OBVIOUS
  <2>4. ASSUME NEW s \in Threads
        PROVE  /\ thread'[s].pc = "handle" => ~thread'[s].event.pending
               /\ thread'[s].pc \in {"expire", "put back"} =>
                     /\ IsNavigation(thread'[s].event)
                     /\ \E p \in Participants : <<thread'[s].event.n, p>> \in offered'
    <3>1. CASE s = t
      BY <1>2, <2>2, <3>1
    <3>2. CASE s # t
      <4>1. thread'[s] = thread[s]
        BY <1>2, <3>2
      <4>2. /\ thread[s].pc = "handle" => ~thread[s].event.pending
            /\ thread[s].pc \in {"expire", "put back"} =>
                  /\ IsNavigation(thread[s].event)
                  /\ \E p \in Participants : <<thread[s].event.n, p>> \in offered
        BY DEF IInv, ThreadsAside, IsOffered
      <4> QED
        BY <2>3, <4>1, <4>2
    <3> QED
      BY <3>1, <3>2
  <2> QED
    BY <2>4 DEF ThreadsAside, IsOffered, IsNavigation
<1>9. QueueInOrder' /\ TakenBefore' /\ TakenInOrder'
  BY DEF IInv, QueueInOrder, TakenBefore, TakenInOrder
<1>10. \A n \in 1 .. read : /\ Queued(n)' <=> Queued(n)
                            /\ Finished(n)' <=> Finished(n)
                            /\ \A s \in Threads : Holds(s, n)' <=> Holds(s, n)
  BY <1>2 DEF Queued, Finished, Holds
<1>11. NoneLost' /\ InOnePlace'
  BY <1>10 DEF IInv, NoneLost, InOnePlace, Threads
<1> QED
  BY <1>4, <1>5, <1>6, <1>7, <1>8, <1>9, <1>11 DEF IInv

\* Whatever a thread does with an event and with the queue.
LEMMA ProcessIInv ==
    ASSUME IInv, NEW t \in Threads, Process(t)
    PROVE  IInv'
<1>1. TypeOK
  BY DEF IInv
<1>2. CASE Pop(t)
  BY <1>2, TakeIInv, ReturnIInv
<1>3. CASE PutBack(t)
  BY <1>3, PutBackIInv
<1>4. CASE HandleOther(t) \/ HandleClick(t)
  <2>1. active' \in Panes
    BY <1>1, <1>4, TypeFacts DEF HandleOther, HandleClick
  <2>2. Finish(t, thread[t].event)
    BY <1>4 DEF HandleOther, HandleClick, Finish
  <2> QED
    BY <1>1, <1>4, <2>1, <2>2, TypeFacts, FinishIInv DEF HandleOther, HandleClick, program, Working
<1>5. CASE HandleBind(t)
  BY <1>5, HandleBindIInv
<1>6. CASE HandleNavigation(t)
  <2> DEFINE e == thread[t].event
  <2>1. /\ thread[t].pc = "handle" /\ IsNavigation(e)
        /\ UNCHANGED <<queue, registered, replies, taken, read>>
    BY <1>6 DEF HandleNavigation, IsNavigation
  <2>2. e.n \in 1 .. MaxEvents
    BY <1>1, <2>1, EventOf DEF Event, Working
  <2>3. thread[t].pc \in Working
    BY <2>1 DEF Working
  <2>4. CASE /\ active \in registered
             /\ asked' = asked \cup {<<e.n, active>>} /\ offered' = offered \cup {<<e.n, active>>}
             /\ thread' = At(t, "put back", e) /\ UNCHANGED <<active, finished>>
    BY <2>1, <2>4, OfferIInv
  <2>5. CASE /\ active \in registered /\ offered' = offered \cup {<<e.n, active>>}
             /\ Finish(t, e) /\ UNCHANGED <<active, asked>>
    <3>1. /\ active' \in Panes /\ asked' \subseteq (1 .. MaxEvents) \X Participants
          /\ offered \subseteq offered' /\ offered' \subseteq (1 .. MaxEvents) \X Participants
      BY <1>1, <2>2, <2>5, TypeFacts
    <3> HIDE DEF IInv, Finish
    <3> QED
      BY <2>1, <2>3, <2>5, <3>1, FinishIInv
  <2>6. CASE MoveTo(e) /\ Finish(t, e) /\ UNCHANGED <<asked, offered>>
    <3>1. active' \in Panes
      BY <1>1, <2>6, MoveToPane
    <3> QED
      BY <1>1, <2>1, <2>3, <2>6, <3>1, TypeFacts, FinishIInv
  <2> QED
    BY <1>6, <2>4, <2>5, <2>6 DEF HandleNavigation
<1>7. CASE Expire(t)
  <2>1. active' \in Panes
    BY <1>1, <1>7, MoveToPane DEF Expire
  <2> QED
    BY <1>1, <1>7, <2>1, TypeFacts, FinishIInv DEF Expire, program, Working
<1> QED
  BY <1>2, <1>3, <1>4, <1>5, <1>6, <1>7 DEF Process

\* New events get the next numbers and go to the end of the queue.
LEMMA ReadIInv ==
    ASSUME IInv, Read
    PROVE  IInv'
<1>1. TypeOK /\ "input" \in Threads
  BY DEF IInv, Threads
<1>2. PICK new \in {<<i>> : i \in Inputs} \cup (Inputs \X Inputs) :
           /\ read + Len(new) <= MaxEvents
           /\ queue' = queue \o [k \in 1 .. Len(new) |-> NewEvent(read + k, new[k])]
           /\ read' = read + Len(new)
  BY DEF Read
<1>3. Len(new) \in {1, 2} /\ \A k \in 1 .. Len(new) : new[k] \in Input
  <2>1. CASE new \in {<<i>> : i \in Inputs}
    BY <2>1, SeamlessNavigationAssumption
  <2>2. CASE new \in Inputs \X Inputs
    <3>1. PICK i \in Inputs, j \in Inputs : new = <<i, j>>
      BY <2>2
    <3> QED
      BY <3>1, SeamlessNavigationAssumption
  <2> QED
    BY <2>1, <2>2
<1>4. /\ thread["input"].pc = "idle" /\ thread' = Continue("input") /\ thread'["input"].pc = "pop"
      /\ \A s \in Threads \ {"input"} : thread'[s] = thread[s]
      /\ UNCHANGED <<active, registered, asked, replies, offered, taken, finished>>
  BY <1>1, TypeFacts DEF Read, Continue, program, histories
<1> DEFINE E(k) == NewEvent(read + k, new[k])
           more == [k \in 1 .. Len(new) |-> E(k)]
<1>5. \A k \in 1 .. Len(new) : E(k) \in Event /\ E(k).n = read + k /\ ~E(k).pending
  <2> SUFFICES ASSUME NEW k \in 1 .. Len(new)
               PROVE  E(k) \in Event /\ E(k).n = read + k /\ ~E(k).pending
    OBVIOUS
  <2>1. read + k \in 1 .. MaxEvents
    BY <1>1, <1>2, <1>3, TypeFacts
  <2>2. new[k].kind \in Kind /\ new[k].dir \in {"right", "down"}
    BY <1>3 DEF Input
  <2> QED
    BY <2>1, <2>2 DEF NewEvent, Event
<1> HIDE DEF E
<1>6. more \in Seq(Event) /\ Len(more) = Len(new)
  BY <1>3, <1>5
<1>7. /\ queue' \in Seq(Event) /\ Len(queue') = Len(queue) + Len(new) /\ Len(queue) \in Nat
      /\ \A k \in 1 .. Len(queue) : queue'[k] = queue[k]
      /\ \A k \in 1 .. Len(new) : queue'[Len(queue) + k] = E(k)
  <2>1. queue \in Seq(Event) /\ queue' = queue \o more
    BY <1>1, <1>2, TypeFacts DEF E
  <2> QED
    BY <1>3, <1>6, <2>1
<1> HIDE DEF more
<1>8. \A k \in 1 .. Len(queue') : \/ k \in 1 .. Len(queue) /\ queue'[k] = queue[k] /\ queue[k].n <= read
                                  \/ /\ k - Len(queue) \in 1 .. Len(new)
                                     /\ queue'[k].n = read + k - Len(queue) /\ ~queue'[k].pending
  <2> SUFFICES ASSUME NEW k \in 1 .. Len(queue'), k \notin 1 .. Len(queue)
               PROVE  /\ k - Len(queue) \in 1 .. Len(new)
                      /\ queue'[k].n = read + k - Len(queue) /\ ~queue'[k].pending
    BY <1>7 DEF IInv, NumberedLists
  <2>1. k - Len(queue) \in 1 .. Len(new) /\ Len(queue) + (k - Len(queue)) = k
    BY <1>3, <1>7
  <2>2. queue'[k] = E(k - Len(queue))
    BY <1>7, <2>1
  <2>3. read + (k - Len(queue)) = read + k - Len(queue)
    BY <1>1, <1>7, TypeFacts
  <2> QED
    BY <1>5, <2>1, <2>2, <2>3
<1>9. read' \in 0 .. MaxEvents /\ read' = read + Len(new) /\ read \in Nat
  BY <1>1, <1>2, <1>3, TypeFacts
<1>numbers. \A k \in 1 .. Len(queue') : queue'[k] \in Event /\ queue'[k].n \in Nat
  <2>1. \A k \in 1 .. Len(queue') : queue'[k] \in Event
    BY <1>7
  <2> QED
    BY <2>1 DEF Event
<1>later. \A k \in 1 .. Len(queue') : k \notin 1 .. Len(queue) => k > Len(queue) /\ queue'[k].n = read + k - Len(queue)
  BY <1>7, <1>8
<1>10. TypeOK'
  <2>1. thread' \in [Threads -> ThreadState]
    BY <1>1, <1>4, ThreadStates
  <2> QED
    BY <1>1, <1>4, <1>7, <1>9, <2>1 DEF TypeOK
<1>11. NumberedLists'
  <2>1. \A k \in 1 .. Len(queue') : queue'[k].n <= read'
    <3> SUFFICES ASSUME NEW k \in 1 .. Len(queue') PROVE queue'[k].n <= read'
      OBVIOUS
    <3>1. CASE k \in 1 .. Len(queue)
      BY <1>3, <1>7, <1>9, <1>numbers, <3>1 DEF IInv, NumberedLists
    <3>2. CASE k \notin 1 .. Len(queue)
      BY <1>3, <1>7, <1>9, <1>numbers, <1>later, <3>2
    <3> QED
      BY <3>1, <3>2
  <2>2. \A k \in 1 .. Len(finished) : finished[k] <= read'
    BY <1>1, <1>3, <1>9, TypeFacts DEF IInv, NumberedLists
  <2>3. \A k \in 1 .. Len(taken) : taken[k] <= read'
    BY <1>1, <1>3, <1>9, TypeFacts DEF IInv, NumberedLists
  <2> QED
    BY <1>4, <2>1, <2>2, <2>3 DEF NumberedLists
<1>12. NumberedThreads'
  <2> SUFFICES ASSUME NEW s \in Threads, thread'[s].pc \in Working
               PROVE  thread'[s].event.n <= read'
    BY DEF NumberedThreads
  <2>1. s # "input" /\ thread'[s] = thread[s]
    BY <1>4 DEF Working
  <2>2. thread[s].event.n \in 1 .. MaxEvents
    BY <1>1, <2>1, EventOf DEF Event
  <2>3. thread[s].event.n <= read
    BY <2>1 DEF IInv, NumberedThreads
  <2> QED
    BY <1>3, <1>9, <2>1, <2>2, <2>3
<1>13. QueueAside'
  BY <1>4, <1>8 DEF IInv, QueueAside, IsOffered
<1>14. ThreadsAside'
  BY <1>4 DEF IInv, ThreadsAside, IsOffered
<1>15. QueueInOrder'
  <2> SUFFICES ASSUME NEW j \in 1 .. Len(queue'), NEW k \in 1 .. Len(queue'), j < k,
                      IsKey(queue'[j]), IsKey(queue'[k])
               PROVE  queue'[j].n < queue'[k].n
    BY DEF QueueInOrder
  <2>1. queue'[j].n \in Nat /\ queue'[k].n \in Nat
    BY <1>numbers
  <2>2. CASE k \in 1 .. Len(queue)
    <3>1. j \in 1 .. Len(queue)
      BY <1>7, <2>2
    <3> QED
      BY <1>7, <2>2, <3>1 DEF IInv, QueueInOrder
  <2>3. CASE k \notin 1 .. Len(queue)
    <3>1. queue'[k].n = read + k - Len(queue) /\ k > Len(queue)
      BY <1>later, <2>3
    <3>2. CASE j \in 1 .. Len(queue)
      <4>1. queue'[j].n <= read
        BY <1>7, <3>2 DEF IInv, NumberedLists
      <4> QED
        BY <1>7, <1>9, <2>1, <3>1, <4>1
    <3>3. CASE j \notin 1 .. Len(queue)
      <4>1. queue'[j].n = read + j - Len(queue)
        BY <1>later, <3>3
      <4> QED
        BY <1>7, <1>9, <3>1, <4>1
    <3> QED
      BY <3>2, <3>3
  <2> QED
    BY <2>2, <2>3
<1>16. TakenBefore'
  <2> SUFFICES ASSUME NEW i \in 1 .. Len(taken), NEW k \in 1 .. Len(queue'), IsKey(queue'[k])
               PROVE  taken[i] < queue'[k].n
    BY <1>4 DEF TakenBefore
  <2>1. CASE k \in 1 .. Len(queue)
    BY <1>7, <2>1 DEF IInv, TakenBefore
  <2>2. CASE k \notin 1 .. Len(queue)
    <3>1. taken[i] \in 1 .. MaxEvents /\ taken[i] <= read
      BY <1>1, TypeFacts DEF IInv, NumberedLists
    <3> QED
      BY <1>3, <1>7, <1>8, <1>9, <2>2, <3>1
  <2> QED
    BY <2>1, <2>2
<1>17. TakenInOrder'
  BY <1>4 DEF IInv, TakenInOrder
<1>18. \A s \in Threads : \A n : Holds(s, n)' <=> Holds(s, n)
  BY <1>4 DEF Holds
<1>19. \A n : Finished(n)' <=> Finished(n)
  BY <1>4 DEF Finished
<1>20. \A n \in 1 .. read : Queued(n)' <=> Queued(n)
  <2> SUFFICES ASSUME NEW n \in 1 .. read PROVE Queued(n)' <=> Queued(n)
    OBVIOUS
  <2>1. ASSUME NEW k \in 1 .. Len(queue'), queue'[k].n = n PROVE Queued(n)
    <3>1. k \in 1 .. Len(queue)
      BY <1>7, <1>9, <1>later, <2>1
    <3> QED
      BY <1>7, <2>1, <3>1 DEF Queued
  <2>2. ASSUME NEW k \in 1 .. Len(queue), queue[k].n = n PROVE Queued(n)'
    <3>1. k \in 1 .. Len(queue')
      BY <1>3, <1>7
    <3> QED
      BY <1>7, <2>2, <3>1 DEF Queued
  <2> QED
    BY <2>1, <2>2 DEF Queued
<1>21. \A n \in 1 .. read' : n \notin 1 .. read =>
          Queued(n)' /\ ~Finished(n) /\ \A s \in Threads : ~Holds(s, n)
  <2> SUFFICES ASSUME NEW n \in 1 .. read', n \notin 1 .. read
               PROVE  Queued(n)' /\ ~Finished(n) /\ \A s \in Threads : ~Holds(s, n)
    OBVIOUS
  <2>1. n > read /\ n - read \in 1 .. Len(new)
    BY <1>3, <1>9
  <2>2. Queued(n)'
    <3>1. /\ queue'[Len(queue) + (n - read)] = E(n - read) /\ E(n - read).n = read + (n - read)
          /\ Len(queue) + (n - read) \in 1 .. Len(queue') /\ read + (n - read) = n
      BY <1>3, <1>5, <1>7, <1>9, <2>1
    <3> QED
      BY <3>1 DEF Queued
  <2>3. ~Finished(n)
    BY <1>1, <1>9, <2>1, TypeFacts DEF IInv, NumberedLists, Finished
  <2>4. ASSUME NEW s \in Threads PROVE ~Holds(s, n)
    <3> SUFFICES ASSUME thread[s].pc \in Working, thread[s].event.n = n PROVE FALSE
      BY DEF Holds, Working
    <3>1. n <= read
      BY DEF IInv, NumberedThreads
    <3> QED
      BY <1>9, <2>1, <3>1
  <2> QED
    BY <2>2, <2>3, <2>4
<1>22. NoneLost'
  <2>1. \A n \in 1 .. read' : Queued(n)' \/ Finished(n)' \/ \E s \in Threads : Holds(s, n)'
    BY <1>18, <1>19, <1>20, <1>21 DEF IInv, NoneLost
  <2> QED
    BY <2>1 DEF NoneLost
<1>23. InOnePlace'
  <2>1. \A n \in 1 .. read' : /\ ~(Queued(n)' /\ Finished(n)')
                              /\ \A s \in Threads : Holds(s, n)' => ~Queued(n)' /\ ~Finished(n)'
                              /\ \A r, s \in Threads : Holds(r, n)' /\ Holds(s, n)' => r = s
    BY <1>18, <1>19, <1>20, <1>21 DEF IInv, InOnePlace, Threads
  <2> QED
    BY <2>1 DEF InOnePlace
<1>24. NoneTwice'
  <2>1. ASSUME NEW j \in 1 .. Len(queue'), NEW k \in 1 .. Len(queue'), queue'[j].n = queue'[k].n
        PROVE  j = k
    BY <1>3, <1>7, <1>8, <1>9, <2>1 DEF IInv, NoneTwice
  <2> QED
    BY <1>4, <2>1 DEF IInv, NoneTwice
<1> QED
  BY <1>10, <1>11, <1>12, <1>13, <1>14, <1>15, <1>16, <1>17, <1>22, <1>23, <1>24 DEF IInv

\* A program's answer releases the navigation at the front of the queue, or ends it.
LEMMA NotifyIInv ==
    ASSUME IInv, NEW p \in Participants, NotifyOsc8671(p)
    PROVE  IInv'
<1> DEFINE first == Head(queue)
<1>1. TypeOK /\ p \in Threads
  BY DEF IInv, Threads
<1>2. replies' \in [Participants -> Seq(Answer)]
  <2>1. replies \in [Participants -> Seq(Answer)] /\ replies[p] \in Seq(Answer) /\ replies[p] # <<>>
    BY <1>1 DEF TypeOK, NotifyOsc8671
  <2>2. Tail(replies[p]) \in Seq(Answer)
    BY <2>1, TailFacts
  <2> QED
    BY <2>1, <2>2 DEF NotifyOsc8671
<1>3. /\ thread[p].pc = "idle"
      /\ UNCHANGED <<active, registered, asked, offered, taken, read>>
  BY DEF NotifyOsc8671
<1>4. CASE ~Matches(p)
  <2>1. UNCHANGED <<queue, finished, thread>>
    BY <1>4 DEF NotifyOsc8671
  <2>2. TypeOK'
    BY <1>1, <1>2, <1>3, <2>1 DEF TypeOK
  <2> QED
    BY <1>3, <2>1, <2>2, NoneMoved
<1>5. ASSUME Matches(p) PROVE IInv'
  <2>1. /\ thread' = Continue(p) /\ thread'[p].pc = "pop"
        /\ \A s \in Threads \ {p} : thread'[s] = thread[s]
    BY <1>1, <1>5, TypeFacts DEF NotifyOsc8671, Continue
  <2>2. thread' \in [Threads -> ThreadState]
    BY <1>1, <2>1, ThreadStates
  <2>3. /\ Tail(queue) \in Seq(Event) /\ Len(Tail(queue)) = Len(queue) - 1 /\ Len(queue) \in Nat \ {0}
        /\ \A k \in 1 .. Len(queue) - 1 : Tail(queue)[k] = queue[k + 1]
        /\ first = queue[1] /\ first \in Event /\ queue # <<>>
    <3>1. queue \in Seq(Event) /\ queue # <<>>
      BY <1>1, <1>5, TypeFacts DEF Matches
    <3> QED
      BY <3>1, TailFacts
  <2>4. CASE Head(replies[p]).type # "acknowledge"
    <3>1. queue' = [queue EXCEPT ![1].old = TRUE] /\ UNCHANGED finished
      BY <1>5, <2>4 DEF NotifyOsc8671
    <3>2. [queue[1] EXCEPT !.old = TRUE] \in Event
      BY <2>3 DEF Event
    <3>3. queue \in Seq(Event)
      BY <1>1, TypeFacts
    <3>4. queue' \in Seq(Event) /\ Len(queue') = Len(queue)
      BY <2>3, <3>1, <3>2, <3>3
    <3>5. \A k \in 1 .. Len(queue) : queue'[k] = IF k = 1 THEN [queue[1] EXCEPT !.old = TRUE] ELSE queue[k]
      BY <2>3, <3>1, <3>3
    <3>6. \A k \in 1 .. Len(queue) : /\ queue'[k].n = queue[k].n /\ queue'[k].kind = queue[k].kind
                                      /\ queue'[k].pending = queue[k].pending
      BY <2>3, <3>2, <3>3, <3>5 DEF Event
    <3>7. TypeOK'
      BY <1>1, <1>2, <1>3, <2>2, <3>1, <3>4 DEF TypeOK
    <3>8. \A t \in Threads : \/ thread'[t] = thread[t]
                             \/ thread[t].pc \notin Working /\ thread'[t].pc \notin Working
      BY <1>3, <2>1 DEF Working
    <3> HIDE DEF first
    <3> QED
      BY <1>3, <3>1, <3>4, <3>6, <3>7, <3>8, NoneMoved
  <2>5. CASE Head(replies[p]).type = "acknowledge"
    <3>1. queue' = Tail(queue) /\ finished' = Append(finished, Head(replies[p]).n)
      BY <1>5, <2>5 DEF NotifyOsc8671
    <3>2. finished' = Append(finished, first.n)
      BY <1>5, <3>1 DEF Matches
    <3> HIDE DEF first
    <3>3. 1 \in 1 .. Len(queue) /\ \A k \in 1 .. Len(queue') : k + 1 \in 1 .. Len(queue) /\ queue'[k] = queue[k + 1]
      BY <2>3, <3>1
    <3>4. first.n \in 1 .. MaxEvents /\ first.n <= read /\ first.n \in 1 .. read
      <4>1. first.n \in 1 .. MaxEvents /\ first.n <= read
        BY <2>3, <3>3 DEF IInv, NumberedLists, Event
      <4> QED
        BY <1>1, <4>1, TypeFacts
    <3>5. /\ finished' \in Seq(1 .. MaxEvents) /\ Len(finished') = Len(finished) + 1 /\ Len(finished) \in Nat
          /\ \A k \in 1 .. Len(finished) : finished'[k] = finished[k]
          /\ finished'[Len(finished) + 1] = first.n
      <4>1. finished \in Seq(1 .. MaxEvents)
        BY <1>1, TypeFacts
      <4> QED
        BY <3>2, <3>4, <4>1, AppendFacts
    <3>6. TypeOK'
      BY <1>1, <1>2, <1>3, <2>2, <2>3, <3>1, <3>5 DEF TypeOK
    <3>7. NumberedLists'
      <4>1. \A k \in 1 .. Len(queue') : queue'[k].n <= read
        BY <3>3 DEF IInv, NumberedLists
      <4>2. \A k \in 1 .. Len(finished') : finished'[k] <= read
        BY <3>4, <3>5 DEF IInv, NumberedLists
      <4> QED
        BY <1>3, <4>1, <4>2 DEF IInv, NumberedLists
    <3>8. NumberedThreads'
      BY <1>3, <2>1 DEF IInv, NumberedThreads, Working
    <3>9. QueueAside'
      BY <1>3, <3>3 DEF IInv, QueueAside, IsOffered
    <3>10. ThreadsAside'
      BY <1>3, <2>1 DEF IInv, ThreadsAside, IsOffered
    <3>11. QueueInOrder'
      BY <2>3, <3>1, <3>3 DEF IInv, QueueInOrder
    <3>12. TakenBefore' /\ TakenInOrder'
      BY <1>3, <3>3 DEF IInv, TakenBefore, TakenInOrder
    <3>13. Queued(first.n)
      BY <2>3, <3>3 DEF Queued
    <3>14. \A n \in 1 .. read : n = first.n => ~Queued(n)'
      <4> SUFFICES ASSUME NEW k \in 1 .. Len(queue'), queue'[k].n = first.n PROVE FALSE
        BY <3>1 DEF Queued
      <4> QED
        BY <2>3, <3>1, <3>3 DEF IInv, NoneTwice
    <3>15. ASSUME NEW n \in 1 .. read, n # first.n PROVE Queued(n)' <=> Queued(n)
      <4>1. ASSUME NEW k \in 1 .. Len(queue), queue[k].n = n PROVE Queued(n)'
        <5>1. k # 1
          BY <2>3, <3>15, <4>1
        <5>2. k - 1 \in 1 .. Len(queue') /\ queue'[k - 1].n = n
          BY <2>3, <3>1, <4>1, <5>1
        <5> QED
          BY <5>2 DEF Queued
      <4>2. Queued(n)' => Queued(n)
        BY <3>3 DEF Queued
      <4> QED
        BY <4>1, <4>2 DEF Queued
    <3>16. \A n \in 1 .. read : Finished(n)' <=> Finished(n) \/ n = first.n
      BY <3>4, <3>5 DEF Finished
    <3>17. \A n \in 1 .. read, s \in Threads : Holds(s, n)' <=> Holds(s, n)
      BY <1>3, <2>1 DEF Holds
    <3>18. ~Finished(first.n) /\ \A s \in Threads : ~Holds(s, first.n)
      BY <3>4, <3>13 DEF IInv, InOnePlace
    <3>19. NoneLost'
      <4>1. \A n \in 1 .. read : Queued(n)' \/ Finished(n)' \/ \E s \in Threads : Holds(s, n)'
        <5> SUFFICES ASSUME NEW n \in 1 .. read
                     PROVE  Queued(n)' \/ Finished(n)' \/ \E s \in Threads : Holds(s, n)'
          OBVIOUS
        <5>1. CASE n = first.n
          BY <3>16, <5>1
        <5>2. CASE n # first.n
          BY <3>15, <3>16, <3>17, <5>2 DEF IInv, NoneLost
        <5> QED
          BY <5>1, <5>2
      <4> QED
        BY <1>3, <4>1 DEF NoneLost
    <3>20. NoneTwice'
      <4>1. \A k \in 1 .. Len(finished) : finished[k] # first.n
        BY <3>18 DEF Finished
      <4>2. ASSUME NEW j \in 1 .. Len(finished'), NEW k \in 1 .. Len(finished'), finished'[j] = finished'[k]
            PROVE  j = k
        BY <3>5, <4>1, <4>2 DEF IInv, NoneTwice
      <4>3. ASSUME NEW j \in 1 .. Len(queue'), NEW k \in 1 .. Len(queue'), queue'[j].n = queue'[k].n
            PROVE  j = k
        BY <2>3, <3>1, <3>3, <4>3 DEF IInv, NoneTwice
      <4> QED
        BY <4>2, <4>3 DEF NoneTwice
    <3>21. InOnePlace'
      <4>1. \A n \in 1 .. read : /\ ~(Queued(n)' /\ Finished(n)')
                                 /\ \A s \in Threads : Holds(s, n)' => ~Queued(n)' /\ ~Finished(n)'
                                 /\ \A r, s \in Threads : Holds(r, n)' /\ Holds(s, n)' => r = s
        <5> SUFFICES ASSUME NEW n \in 1 .. read
                     PROVE  /\ ~(Queued(n)' /\ Finished(n)')
                            /\ \A s \in Threads : Holds(s, n)' => ~Queued(n)' /\ ~Finished(n)'
                            /\ \A r, s \in Threads : Holds(r, n)' /\ Holds(s, n)' => r = s
          OBVIOUS
        <5>1. CASE n = first.n
          BY <3>14, <3>17, <3>18, <5>1 DEF Threads
        <5>2. CASE n # first.n
          BY <3>15, <3>16, <3>17, <5>2 DEF IInv, InOnePlace, Threads
        <5> QED
          BY <5>1, <5>2
      <4> QED
        BY <1>3, <4>1 DEF InOnePlace
    <3> QED
      BY <3>6, <3>7, <3>8, <3>9, <3>10, <3>11, <3>12, <3>19, <3>20, <3>21 DEF IInv
  <2> QED
    BY <2>4, <2>5
<1> QED
  BY <1>4, <1>5

\* The program and the clock move no event.
LEMMA OtherIInv ==
    ASSUME IInv, ReadOther \/ Reply \/ Register \/ Tick
    PROVE  IInv'
<1>1. TypeOK /\ "input" \in Threads
  BY DEF IInv, Threads
<1>2. CASE ReadOther
  <2>1. /\ thread["input"].pc = "idle" /\ thread' = Continue("input") /\ thread'["input"].pc = "pop"
        /\ \A s \in Threads \ {"input"} : thread'[s] = thread[s]
        /\ UNCHANGED <<queue, active, registered, asked, replies, offered, taken, finished, read>>
    BY <1>1, <1>2, TypeFacts DEF ReadOther, Continue, program, histories
  <2>2. TypeOK'
    BY <1>1, <2>1, ThreadStates DEF TypeOK
  <2> QED
    BY <2>1, <2>2, NoneMoved DEF Working
<1>3. CASE Reply
  <2>1. PICK n \in 1 .. MaxEvents, p \in Participants, type \in {"acknowledge", "navigate"} :
             /\ asked' = asked \ {<<n, p>>}
             /\ replies' = [replies EXCEPT ![p] = Append(@, [type |-> type, n |-> n])]
    BY <1>1, <1>3, TypeFacts DEF Reply
  <2>2. UNCHANGED <<queue, thread, active, registered, offered, taken, finished, read>>
    BY <1>3 DEF Reply, histories
  <2>3. TypeOK'
    <3>1. replies \in [Participants -> Seq(Answer)] /\ [type |-> type, n |-> n] \in Answer
      BY <1>1 DEF TypeOK, Answer
    <3>2. Append(replies[p], [type |-> type, n |-> n]) \in Seq(Answer)
      BY <3>1
    <3>3. replies' \in [Participants -> Seq(Answer)]
      BY <2>1, <3>1, <3>2
    <3>4. asked' \subseteq (1 .. MaxEvents) \X Participants
      BY <1>1, <2>1, TypeFacts
    <3> QED
      BY <1>1, <2>2, <3>3, <3>4 DEF TypeOK
  <2> QED
    BY <2>2, <2>3, NoneMoved
<1>4. CASE Register
  <2>1. UNCHANGED <<queue, thread, active, asked, replies, offered, taken, finished, read>>
    BY <1>4 DEF Register, histories
  <2>2. registered' \subseteq Participants
    BY <1>1, <1>4, TypeFacts DEF Register
  <2>3. TypeOK'
    BY <1>1, <2>1, <2>2 DEF TypeOK
  <2> QED
    BY <2>1, <2>3, NoneMoved
<1>5. CASE Tick
  <2>1. /\ queue' = [k \in 1 .. Len(queue) |-> [queue[k] EXCEPT !.old = @ \/ queue[k].pending]]
        /\ UNCHANGED <<thread, active, registered, asked, replies, offered, taken, finished, read>>
    BY <1>5 DEF Tick, program, histories
  <2>2. \A k \in 1 .. Len(queue) :
           LET e == [queue[k] EXCEPT !.old = @ \/ queue[k].pending]
           IN  e \in Event /\ e.n = queue[k].n /\ e.kind = queue[k].kind /\ e.pending = queue[k].pending
    <3> SUFFICES ASSUME NEW k \in 1 .. Len(queue)
                 PROVE  LET e == [queue[k] EXCEPT !.old = @ \/ queue[k].pending]
                        IN  e \in Event /\ e.n = queue[k].n /\ e.kind = queue[k].kind /\ e.pending = queue[k].pending
      OBVIOUS
    <3>1. queue[k] \in Event
      BY <1>1, TypeFacts
    <3>2. (queue[k].old \/ queue[k].pending) \in BOOLEAN
      OBVIOUS
    <3> QED
      BY <3>1, <3>2 DEF Event
  <2>3. Len(queue) \in Nat
    BY <1>1, TypeFacts
  <2>4. queue' \in Seq(Event) /\ Len(queue') = Len(queue)
    BY <2>1, <2>2, <2>3
  <2>5. TypeOK'
    BY <1>1, <2>1, <2>4 DEF TypeOK
  <2>6. \A k \in 1 .. Len(queue) : /\ queue'[k].n = queue[k].n /\ queue'[k].kind = queue[k].kind
                                   /\ queue'[k].pending = queue[k].pending
    BY <2>1, <2>2
  <2> QED
    BY <2>1, <2>4, <2>5, <2>6, NoneMoved
<1> QED
  BY <1>2, <1>3, <1>4, <1>5

\* Every step keeps the invariant.
LEMMA NextIInv ==
    ASSUME IInv, [Next]_vars
    PROVE  IInv'
<1>1. CASE UNCHANGED vars
  <2>1. UNCHANGED <<queue, thread, active, registered, asked, replies, offered, taken, finished, read>>
    BY <1>1 DEF vars
  <2>2. TypeOK'
    BY <2>1 DEF IInv, TypeOK
  <2> QED
    BY <2>1, <2>2, NoneMoved
<1>2. CASE Next
  BY <1>2, ProcessIInv, ReadIInv, NotifyIInv, OtherIInv DEF Next
<1> QED
  BY <1>1, <1>2

\* The invariant holds in every reachable state.
THEOREM Invariant == Spec => []IInv
<1>1. Init => IInv
  BY InitIInv
<1>2. IInv /\ [Next]_vars => IInv'
  BY NextIInv
<1> QED
  BY <1>1, <1>2, PTL DEF Spec

-----------------------------------------------------------------------------
(* The properties *)

\* However many events arrive and however the two threads of process_pending_events interleave,
\* every event that was read is in exactly one place, and keys are taken in the order they were
\* typed.
THEOREM NoneLostOrDoneTwice == Spec => []AccountedOnce
<1>1. IInv => AccountedOnce
  BY DEF IInv, AccountedOnce, EachOnce
<1> QED
  BY <1>1, Invariant, PTL

\* The focus leaves a pane whose program takes part only by a click, or by a navigation that a
\* program was offered and asked to answer, in vain or not, however many programs take part.
THEOREM OfferedBeforeMoving == Spec => OfferedFirst
<1> DEFINE Step == \A t \in Threads :
                       Leaves(t) => LET e == thread[t].event
                                    IN  e.kind = "click" \/ \E p \in Panes : <<e.n, p>> \in offered
<1>1. ASSUME IInv, Next PROVE Step
  <2> SUFFICES ASSUME NEW t \in Threads, Leaves(t), thread[t].event.kind # "click"
               PROVE  \E p \in Panes : <<thread[t].event.n, p>> \in offered
    OBVIOUS
  <2>1. active \in registered /\ active' # active /\ thread'[t] # thread[t]
    BY DEF Leaves
  <2>2. PICK s \in Threads : Process(s)
    BY <1>1, <2>1 DEF Next, Read, ReadOther, NotifyOsc8671, Reply, Register, Tick, program
  <2>3. ~Pop(s) /\ ~PutBack(s) /\ ~HandleOther(s) /\ ~HandleBind(s) /\ ~HandleNavigation(s)
    BY <2>1 DEF Pop, PutBack, HandleOther, HandleBind, HandleNavigation
  <2>4. CASE HandleClick(s)
    <3>1. s = t
      BY <1>1, <2>1, <2>4, TypeFacts DEF HandleClick, Continue, IInv
    <3> QED
      BY <2>4, <3>1 DEF HandleClick
  <2>5. CASE Expire(s)
    <3>1. s = t
      BY <1>1, <2>1, <2>5, TypeFacts DEF Expire, Finish, Continue, IInv
    <3>2. IsOffered(thread[t].event.n)
      BY <1>1, <2>5, <3>1 DEF Expire, IInv, ThreadsAside
    <3> QED
      BY <3>2, SeamlessNavigationAssumption DEF IsOffered
  <2> QED
    BY <2>2, <2>3, <2>4, <2>5 DEF Process
<1>2. IInv /\ [Next]_vars => [Step]_vars
  BY <1>1
<1> QED
  BY <1>2, Invariant, PTL DEF Spec, OfferedFirst
=============================================================================

------------------------ MODULE PaneThreadsProofs ------------------------
(***************************************************************************)
(* Proofs about PaneThreads, for any number of strings and of pieces of    *)
(* output: what is written, that no push is missed, and that ~Pane leaves  *)
(* no thread behind.                                                       *)
(*                                                                         *)
(* The argument.  The strings are numbered as they are queued; as long as  *)
(* the child lives, what was written, what the output thread has taken and *)
(* what is queued are consecutive runs of these numbers (Numbered), and    *)
(* nothing is taken but while it is written (TakenToWrite).  Between its   *)
(* check of the queue and its going to sleep the output thread holds the   *)
(* lock, so that the queue stays empty (BlocksOnlyIdle).  The destructor   *)
(* joins the threads one after the other, and a thread that has ended      *)
(* stays ended (Joined).                                                   *)
(***************************************************************************)
EXTENDS PaneThreads, TLAPS

-----------------------------------------------------------------------------
(* The inductive invariant *)

\* No more output waits than was written.
Chunks == ttyData <= chunks /\ pipeData <= chunks /\ extraData <= chunks

Numbered ==
    /\ Len(written) + Len(taken) + Len(queue) = pushed
    /\ \A i \in 1 .. Len(taken) : taken[i] = Len(written) + i
    /\ \A i \in 1 .. Len(queue) : queue[i] = Len(written) + Len(taken) + i

WrittenNumbered == \A i \in 1 .. Len(written) : written[i] = i

TakenToWrite == output # "write" => taken = <<>>

BlocksOnlyIdle == output \in {"block", "asleep"} => queue = <<>>

Joined ==
    /\ destroyer \in {"writer", "extra", "reader", "output", "process", "freed"} => pipe \in {"none", "end"}
    /\ destroyer \in {"extra", "reader", "output", "process", "freed"} => writer \in {"none", "end"}
    /\ destroyer \in {"reader", "output", "process", "freed"} => extra \in {"none", "end"}
    /\ destroyer \in {"output", "process", "freed"} => reader = "end"
    /\ destroyer \in {"process", "freed"} => output = "end"
    /\ destroyer = "freed" => process = "end"

IInv ==
    /\ TypeOK
    /\ Chunks
    /\ ~done => Numbered
    /\ WrittenNumbered
    /\ TakenToWrite
    /\ BlocksOnlyIdle
    /\ Joined

\* TypeOK in two parts.
Booleans == hangup \in BOOLEAN /\ held \in BOOLEAN /\ done \in BOOLEAN /\ holds \in BOOLEAN

Rest ==
    /\ child \in {"running", "dead"}
    /\ ttyData \in 0 .. MaxChunks /\ pipeData \in 0 .. MaxChunks
    /\ extraData \in 0 .. MaxChunks /\ chunks \in 0 .. MaxChunks
    /\ pushed \in 0 .. MaxPushes
    /\ queue \in Seq(1 .. MaxPushes) /\ taken \in Seq(1 .. MaxPushes) /\ written \in Seq(1 .. MaxPushes)
    /\ process \in {"wait", "notify", "hook", "end"}
    /\ reader \in {"test", "read", "hook", "end"}
    /\ output \in {"test", "lock", "check", "block", "asleep", "write", "end"}
    /\ pipe \in {"none", "test", "read", "hook", "end"}
    /\ writer \in {"none", "write", "end"}
    /\ extra \in {"none", "test", "read", "hook", "end"}
    /\ destroyer \in {"none", "pipe", "writer", "extra", "reader", "output", "process", "freed"}

\* The parts make the whole.
LEMMA TypeParts == TypeOK <=> Booleans /\ Rest
BY DEF TypeOK, Booleans, Rest

-----------------------------------------------------------------------------
(* The steps *)

\* A new pane has nothing queued and all its threads.
LEMMA InitIInv == Init => IInv
<1> SUFFICES ASSUME Init PROVE IInv
  OBVIOUS
<1>1. TypeOK
  <2>1. Booleans
    BY DEF Init, Booleans
  <2>2. Rest
    BY PaneThreadsAssumption DEF Init, Rest
  <2> QED
    BY <2>1, <2>2, TypeParts
<1>2. Numbered /\ WrittenNumbered
  BY DEF Init, Numbered, WrittenNumbered
<1>3. Chunks /\ TakenToWrite /\ BlocksOnlyIdle /\ Joined
  BY DEF Init, Chunks, TakenToWrite, BlocksOnlyIdle, Joined
<1> QED
  BY <1>1, <1>2, <1>3 DEF IInv

\* write_pty_string queues the next number, and wakes the output thread if it sleeps.
LEMMA PushIInv ==
    ASSUME IInv, Push, ~Locked, pushed < MaxPushes
    PROVE  /\ queue' \in Seq(1 .. MaxPushes) /\ pushed' \in 0 .. MaxPushes
           /\ output' \in {"test", "lock", "check", "block", "asleep", "write", "end"}
           /\ taken' = taken /\ written' = written
           /\ ~done => Numbered'
           /\ WrittenNumbered' /\ TakenToWrite' /\ BlocksOnlyIdle'
           /\ output = "end" => output' = "end"
<1> USE PaneThreadsAssumption
<1>1. /\ queue \in Seq(1 .. MaxPushes) /\ taken \in Seq(1 .. MaxPushes)
      /\ written \in Seq(1 .. MaxPushes) /\ pushed \in 0 .. MaxPushes
  BY DEF IInv, TypeOK
<1>2. queue' \in Seq(1 .. MaxPushes) /\ pushed' \in 0 .. MaxPushes
  BY <1>1 DEF Push
<1>3. ~done => Numbered'
  <2> SUFFICES ASSUME ~done PROVE Numbered'
    OBVIOUS
  <2>1. Numbered
    BY DEF IInv
  <2>2. /\ queue' = Append(queue, pushed + 1) /\ pushed' = pushed + 1
        /\ taken' = taken /\ written' = written
    BY DEF Push
  <2>3. /\ Len(queue') = Len(queue) + 1
        /\ queue'[Len(queue) + 1] = pushed + 1
        /\ \A i \in 1 .. Len(queue) : queue'[i] = queue[i]
    BY <1>1, <2>2
  <2>4. /\ Len(written) \in Nat /\ Len(taken) \in Nat /\ Len(queue) \in Nat
        /\ Len(written) + Len(taken) + Len(queue) = pushed
    BY <1>1, <2>1 DEF Numbered
  <2>5. \A i \in 1 .. Len(queue') : queue'[i] = Len(written) + Len(taken) + i
    <3> SUFFICES ASSUME NEW i \in 1 .. Len(queue) + 1
                 PROVE  queue'[i] = Len(written) + Len(taken) + i
      BY <2>3
    <3>1. CASE i = Len(queue) + 1
      BY <2>3, <2>4, <3>1
    <3>2. CASE i \in 1 .. Len(queue)
      BY <2>1, <2>3, <3>2 DEF Numbered
    <3> QED
      BY <2>4, <3>1, <3>2
  <2>6. Len(written') + Len(taken') + Len(queue') = pushed'
    BY <2>2, <2>3, <2>4
  <2>7. \A i \in 1 .. Len(taken') : taken'[i] = Len(written') + i
    BY <2>1, <2>2 DEF Numbered
  <2> QED
    BY <2>2, <2>5, <2>6, <2>7 DEF Numbered
<1>4. WrittenNumbered' /\ TakenToWrite' /\ BlocksOnlyIdle'
  BY DEF IInv, WrittenNumbered, TakenToWrite, BlocksOnlyIdle, Push, Locked
<1> QED
  BY <1>2, <1>3, <1>4 DEF IInv, TypeOK, Push

\* What the child does changes neither strings nor threads.
LEMMA ChildStep == IInv /\ Child => IInv'
<1> SUFFICES ASSUME IInv, Child PROVE IInv'
  OBVIOUS
<1> USE PaneThreadsAssumption
<1>1. TypeOK' /\ Chunks'
  <2>1. Booleans /\ Rest /\ Chunks
    BY TypeParts DEF IInv
  <2>2. Booleans'
    BY <2>1 DEF Booleans, Child, ChildWrites, ChildForks, HolderExits, ChildExits, threads
  <2>3. Rest' /\ Chunks'
    BY <2>1, SMTT(30) DEF Rest, Chunks, Child, ChildWrites, ChildForks, HolderExits, ChildExits,
                           strings, threads, pipes
  <2> QED
    BY <2>2, <2>3 DEF TypeOK, Booleans, Rest
<1>2. UNCHANGED <<done, strings, threads>>
  BY DEF Child, ChildWrites, ChildForks, HolderExits, ChildExits
<1> QED
  BY <1>1, <1>2 DEF IInv, Numbered, WrittenNumbered, TakenToWrite, BlocksOnlyIdle, Joined,
                     strings, threads, pipes

\* Keys, pastes and mouse events.
LEMMA SendInputStep == IInv /\ SendInput => IInv'
<1> SUFFICES ASSUME IInv, SendInput PROVE IInv'
  OBVIOUS
<1>1. /\ queue' \in Seq(1 .. MaxPushes) /\ pushed' \in 0 .. MaxPushes
      /\ output' \in {"test", "lock", "check", "block", "asleep", "write", "end"}
      /\ taken' = taken /\ written' = written
      /\ ~done => Numbered'
      /\ WrittenNumbered' /\ TakenToWrite' /\ BlocksOnlyIdle'
      /\ output = "end" => output' = "end"
  BY PushIInv DEF SendInput
<1> QED
  BY <1>1 DEF IInv, TypeOK, Chunks, Joined, SendInput, env, pipes

\* The process thread wakes the output thread, which then looks at the queue.
LEMMA ProcessStep == IInv /\ ProcessThread => IInv'
<1> SUFFICES ASSUME IInv, ProcessThread PROVE IInv'
  OBVIOUS
<1>1. CASE ProcessWait
  BY <1>1 DEF IInv, TypeOK, Chunks, Numbered, WrittenNumbered, TakenToWrite, BlocksOnlyIdle, Joined,
              ProcessWait, env, strings, pipes
<1>2. CASE ProcessNotify
  BY <1>2 DEF IInv, TypeOK, Chunks, Numbered, WrittenNumbered, TakenToWrite, BlocksOnlyIdle, Joined,
              ProcessNotify, env, strings, pipes
<1>3. CASE ProcessHook
  BY <1>3 DEF IInv, TypeOK, Chunks, Numbered, WrittenNumbered, TakenToWrite, BlocksOnlyIdle, Joined,
              ProcessHook, env, strings, pipes
<1> QED
  BY <1>1, <1>2, <1>3 DEF ProcessThread

\* The reader may queue an answer of the terminal, and runs its hook.
LEMMA ReaderStep == IInv /\ ReaderThread => IInv'
<1> SUFFICES ASSUME IInv, ReaderThread PROVE IInv'
  OBVIOUS
<1> USE PaneThreadsAssumption
<1>1. CASE ReaderTest \/ ReaderHook
  <2>1. UNCHANGED <<done, env, strings, process, output, pipes, destroyer, holds>> /\ reader # "end"
    BY <1>1 DEF ReaderTest, ReaderHook
  <2>2. Booleans /\ Rest /\ Chunks /\ Joined
    BY TypeParts DEF IInv
  <2>3. Booleans'
    BY <2>1, <2>2 DEF Booleans, env
  <2>4. Rest' /\ Chunks' /\ Joined'
    BY <1>1, <2>1, <2>2 DEF Rest, Chunks, Joined, ReaderTest, ReaderHook, env, strings, pipes
  <2>5. TypeOK'
    BY <2>3, <2>4 DEF TypeOK, Booleans, Rest
  <2> QED
    BY <2>1, <2>4, <2>5 DEF IInv, Numbered, WrittenNumbered, TakenToWrite, BlocksOnlyIdle, strings
<1>2. CASE ReaderRead /\ UNCHANGED <<strings, output>>
  <2>1. TypeOK' /\ Chunks' /\ Joined'
    BY <1>2 DEF IInv, TypeOK, Chunks, Joined, ReaderRead, strings, pipes
  <2> QED
    BY <1>2, <2>1 DEF IInv, Numbered, WrittenNumbered, TakenToWrite, BlocksOnlyIdle, ReaderRead, strings
<1>3. CASE ReaderRead /\ ~Locked /\ pushed < MaxPushes /\ Push
  <2>1. /\ queue' \in Seq(1 .. MaxPushes) /\ pushed' \in 0 .. MaxPushes
        /\ output' \in {"test", "lock", "check", "block", "asleep", "write", "end"}
        /\ taken' = taken /\ written' = written
        /\ ~done => Numbered'
        /\ WrittenNumbered' /\ TakenToWrite' /\ BlocksOnlyIdle'
        /\ output = "end" => output' = "end"
    BY <1>3, PushIInv
  <2>2. Chunks' /\ TypeOK' /\ Joined'
    BY <1>3, <2>1 DEF IInv, TypeOK, Chunks, Joined, ReaderRead, pipes
  <2> QED
    BY <1>3, <2>1, <2>2 DEF IInv, ReaderRead
<1> QED
  BY <1>1, <1>2, <1>3 DEF ReaderThread, ReaderRead

\* The output thread takes the whole queue, or finds it empty and sleeps.
LEMMA OutputStep == IInv /\ (OutputThread \/ SpuriousWakeup) => IInv'
<1> SUFFICES ASSUME IInv, OutputThread \/ SpuriousWakeup PROVE IInv'
  OBVIOUS
<1> USE PaneThreadsAssumption
<1>1. CASE OutputTest \/ OutputLock \/ OutputSleep \/ SpuriousWakeup
  <2>1. UNCHANGED <<queue, taken, written, pushed, done, env, process, reader, pipes, destroyer, holds>>
    BY <1>1 DEF OutputTest, OutputLock, OutputSleep, SpuriousWakeup, strings
  <2>2. TypeOK' /\ Chunks' /\ BlocksOnlyIdle' /\ Joined' /\ TakenToWrite'
    BY <1>1, <2>1 DEF IInv, TypeOK, Chunks, BlocksOnlyIdle, Joined, TakenToWrite,
                      OutputTest, OutputLock, OutputSleep, SpuriousWakeup, env, pipes
  <2> QED
    BY <2>1, <2>2 DEF IInv, Numbered, WrittenNumbered
<1>2. CASE OutputCheck
  <2>1. /\ queue \in Seq(1 .. MaxPushes) /\ taken = <<>>
        /\ written \in Seq(1 .. MaxPushes) /\ pushed \in 0 .. MaxPushes
    BY <1>2 DEF IInv, TypeOK, TakenToWrite, OutputCheck
  <2>2. TypeOK' /\ Chunks' /\ Joined'
    <3>1. Booleans /\ Rest /\ Chunks /\ Joined
      BY TypeParts DEF IInv
    <3>2. /\ output = "check" /\ output' \in {"write", "block"}
          /\ UNCHANGED <<env, done, written, pushed, process, reader, pipes, destroyer, holds>>
      BY <1>2 DEF OutputCheck
    <3>3. queue' \in Seq(1 .. MaxPushes) /\ taken' \in Seq(1 .. MaxPushes)
      <4>1. \/ queue' = <<>> /\ taken' = queue
            \/ queue' = queue /\ taken' = taken
        BY <1>2 DEF OutputCheck
      <4>2. <<>> \in Seq(1 .. MaxPushes)
        OBVIOUS
      <4> QED
        BY <2>1, <4>1, <4>2, Zenon
    <3>4. Booleans'
      BY <3>1, <3>2 DEF Booleans, env
    <3>5. Rest' /\ Chunks' /\ Joined'
      BY <3>1, <3>2, <3>3 DEF Rest, Chunks, Joined, env, pipes
    <3> QED
      BY <3>4, <3>5 DEF TypeOK, Booleans, Rest
  <2>3. ~done' => Numbered'
    <3> SUFFICES ASSUME ~done PROVE Numbered'
      BY <1>2 DEF OutputCheck
    <3>1. Numbered
      BY DEF IInv
    <3>2. CASE queue # <<>>
      <4>1. taken' = queue /\ queue' = <<>> /\ written' = written /\ pushed' = pushed
        BY <1>2, <3>2 DEF OutputCheck
      <4> QED
        BY <2>1, <3>1, <4>1 DEF Numbered
    <3>3. CASE queue = <<>>
      <4>1. UNCHANGED <<taken, queue, written, pushed>>
        BY <1>2, <3>3 DEF OutputCheck
      <4> QED
        BY <3>1, <4>1 DEF Numbered
    <3> QED
      BY <3>2, <3>3
  <2>4. WrittenNumbered' /\ TakenToWrite' /\ BlocksOnlyIdle'
    BY <1>2, <2>1 DEF IInv, WrittenNumbered, TakenToWrite, BlocksOnlyIdle, OutputCheck
  <2> QED
    BY <2>2, <2>3, <2>4 DEF IInv
<1>3. CASE OutputWrite
  <2>1. /\ queue \in Seq(1 .. MaxPushes) /\ taken \in Seq(1 .. MaxPushes)
        /\ written \in Seq(1 .. MaxPushes) /\ pushed \in 0 .. MaxPushes
    BY DEF IInv, TypeOK
  <2>2. CASE taken = <<>> \/ done
    <3>1. TypeOK' /\ Chunks' /\ Joined'
      <4>1. Booleans /\ Rest /\ Chunks /\ Joined
        BY TypeParts DEF IInv
      <4>2. Booleans'
        BY <1>3, <4>1 DEF Booleans, OutputWrite, env
      <4>3. Rest' /\ Chunks' /\ Joined'
        <5>1. /\ taken' = <<>> /\ output' = "test" /\ output = "write" /\ written' = written
              /\ UNCHANGED <<env, done, queue, pushed, process, reader, pipes, destroyer, holds>>
          BY <1>3, <2>2 DEF OutputWrite
        <5> QED
          BY <4>1, <5>1 DEF Rest, Chunks, Joined, env, pipes
      <4> QED
        BY <4>2, <4>3 DEF TypeOK, Booleans, Rest
    <3> QED
      BY <1>3, <2>1, <2>2, <3>1
         DEF IInv, Numbered, WrittenNumbered, TakenToWrite, BlocksOnlyIdle, OutputWrite
  <2>3. CASE taken # <<>> /\ ~done
    <3>1. /\ taken' = Tail(taken) /\ written' = Append(written, Head(taken))
          /\ UNCHANGED <<env, done, queue, pushed, process, reader, output, pipes, destroyer, holds>>
      BY <1>3, <2>3 DEF OutputWrite
    <3>2. taken' \in Seq(1 .. MaxPushes) /\ written' \in Seq(1 .. MaxPushes)
      BY <2>1, <2>3, <3>1
    <3>3. Numbered' /\ WrittenNumbered'
      <4>1. Numbered /\ WrittenNumbered
        BY <2>3 DEF IInv
      <4>2. Len(taken) \in Nat \ {0} /\ Head(taken) = taken[1] /\ taken[1] = Len(written) + 1
        BY <2>1, <2>3, <4>1 DEF Numbered
      <4>3. /\ Len(taken') = Len(taken) - 1
            /\ \A i \in 1 .. Len(taken) - 1 : taken'[i] = taken[i + 1]
        BY <2>1, <2>3, <3>1
      <4>4. /\ Len(written') = Len(written) + 1
            /\ written'[Len(written) + 1] = Len(written) + 1
            /\ \A i \in 1 .. Len(written) : written'[i] = written[i]
        BY <2>1, <3>1, <4>2
      <4>5. Numbered'
        <5>1. \A i \in 1 .. Len(taken') : taken'[i] = Len(written') + i
          <6> SUFFICES ASSUME NEW i \in 1 .. Len(taken) - 1
                       PROVE  taken'[i] = Len(written) + 1 + i
            BY <4>3, <4>4
          <6>1. i + 1 \in 1 .. Len(taken)
            BY <4>2
          <6> QED
            BY <2>1, <4>1, <4>3, <6>1 DEF Numbered
        <5>2. \A i \in 1 .. Len(queue') : queue'[i] = Len(written') + Len(taken') + i
          BY <2>1, <3>1, <4>1, <4>2, <4>3, <4>4 DEF Numbered
        <5>3. Len(written') + Len(taken') + Len(queue') = pushed'
          <6>1. /\ Len(written) \in Nat /\ Len(queue) \in Nat
                /\ Len(written) + Len(taken) + Len(queue) = pushed
            BY <2>1, <4>1 DEF Numbered
          <6> QED
            BY <3>1, <4>2, <4>3, <4>4, <6>1
        <5> QED
          BY <5>1, <5>2, <5>3 DEF Numbered
      <4>6. WrittenNumbered'
        <5> SUFFICES ASSUME NEW i \in 1 .. Len(written) + 1 PROVE written'[i] = i
          BY <4>4 DEF WrittenNumbered
        <5>1. CASE i = Len(written) + 1
          BY <4>4, <5>1
        <5>2. CASE i \in 1 .. Len(written)
          BY <4>1, <4>4, <5>2 DEF WrittenNumbered
        <5> QED
          BY <2>1, <5>1, <5>2
      <4> QED
        BY <4>5, <4>6
    <3> QED
      BY <1>3, <3>1, <3>2, <3>3
         DEF IInv, TypeOK, Chunks, TakenToWrite, BlocksOnlyIdle, Joined, OutputWrite, env, pipes
  <2> QED
    BY <2>2, <2>3
<1> QED
  BY <1>1, <1>2, <1>3 DEF OutputThread

\* The threads of the pipes change neither the queue nor the other threads, and do nothing more once
\* they have ended.
LEMMA PipesStep == IInv /\ (PipeThread \/ WriterEnds \/ ExtraThread) => IInv'
<1> SUFFICES ASSUME IInv, PipeThread \/ WriterEnds \/ ExtraThread PROVE IInv'
  OBVIOUS
<1> USE PaneThreadsAssumption
<1>1. UNCHANGED <<done, strings, process, reader, output, destroyer, holds>>
  BY DEF PipeThread, PipeTest, PipeRead, PipeHook, WriterEnds, ExtraThread, ExtraTest, ExtraRead, ExtraHook
<1>2. Booleans /\ Rest /\ Chunks /\ Joined
  BY TypeParts DEF IInv
<1>3. Booleans'
  BY <1>1, <1>2 DEF Booleans, PipeThread, PipeTest, PipeRead, PipeHook, WriterEnds,
                    ExtraThread, ExtraTest, ExtraRead, ExtraHook, env
<1>4. Rest' /\ Chunks' /\ Joined'
  <2>1. CASE PipeThread
    BY <1>1, <1>2, <2>1 DEF Rest, Chunks, Joined, PipeThread, PipeTest, PipeRead, PipeHook, env, strings
  <2>2. CASE WriterEnds
    BY <1>1, <1>2, <2>2 DEF Rest, Chunks, Joined, WriterEnds, env, strings
  <2>3. CASE ExtraThread
    BY <1>1, <1>2, <2>3 DEF Rest, Chunks, Joined, ExtraThread, ExtraTest, ExtraRead, ExtraHook, env, strings
  <2> QED
    BY <2>1, <2>2, <2>3
<1>5. TypeOK'
  BY <1>3, <1>4 DEF TypeOK, Booleans, Rest
<1> QED
  BY <1>1, <1>4, <1>5 DEF IInv, Numbered, WrittenNumbered, TakenToWrite, BlocksOnlyIdle, strings

\* ~Pane waits for the threads in turn.
LEMMA DestroyStep == IInv /\ (Destroy \/ Join) => IInv'
<1> SUFFICES ASSUME IInv, Destroy \/ Join PROVE IInv'
  OBVIOUS
<1>1. UNCHANGED <<done, strings, process, reader, output, pipes, ttyData, pipeData, extraData, chunks>>
  BY DEF Destroy, Join, env
<1>2. TypeOK' /\ Chunks' /\ Joined'
  <2>1. Booleans /\ Rest /\ Chunks /\ Joined
    BY TypeParts DEF IInv
  <2>2. Booleans'
    BY <2>1 DEF Booleans, Destroy, Join, env
  <2>3. Rest' /\ Chunks' /\ Joined'
    BY <1>1, <2>1 DEF Rest, Chunks, Joined, Destroy, Join, JoinPipe, JoinWriter, JoinExtra,
                      JoinReader, JoinOutput, JoinProcess, env, strings, pipes
  <2> QED
    BY <2>2, <2>3 DEF TypeOK, Booleans, Rest
<1> QED
  BY <1>1, <1>2 DEF IInv, Numbered, WrittenNumbered, TakenToWrite, BlocksOnlyIdle, strings

\* IInv is inductive.
LEMMA NextIInv == IInv /\ [Next]_vars => IInv'
<1> SUFFICES ASSUME IInv, [Next]_vars PROVE IInv'
  OBVIOUS
<1>1. CASE Next
  BY <1>1, ChildStep, SendInputStep, ProcessStep, ReaderStep, OutputStep, PipesStep, DestroyStep DEF Next
<1>2. CASE UNCHANGED vars
  BY <1>2 DEF IInv, TypeOK, Chunks, Numbered, WrittenNumbered, TakenToWrite, BlocksOnlyIdle, Joined,
              vars, env, strings, threads, pipes
<1> QED
  BY <1>1, <1>2

\* It implies the three properties of the model.
LEMMA IInvSafe == IInv => TypeOK /\ WrittenInOrder /\ SleepsOnlyIdle /\ FreedSafely
<1> SUFFICES ASSUME IInv PROVE WrittenInOrder /\ SleepsOnlyIdle /\ FreedSafely
  BY DEF IInv
<1>1. /\ queue \in Seq(1 .. MaxPushes) /\ taken \in Seq(1 .. MaxPushes)
      /\ written \in Seq(1 .. MaxPushes) /\ pushed \in 0 .. MaxPushes
  BY DEF IInv, TypeOK
<1>2. ~done => written \o taken \o queue = [i \in 1 .. pushed |-> i]
  <2> SUFFICES ASSUME ~done PROVE written \o taken \o queue = [i \in 1 .. pushed |-> i]
    OBVIOUS
  <2>1. Numbered /\ WrittenNumbered
    BY DEF IInv
  <2>2. Len(written \o taken \o queue) = pushed
    BY <1>1, <2>1 DEF Numbered
  <2> DEFINE front == written \o taken
             all == front \o queue
  <2>3. /\ front \in Seq(1 .. MaxPushes) /\ all \in Seq(1 .. MaxPushes)
        /\ Len(front) = Len(written) + Len(taken)
    BY <1>1
  <2>4. \A i \in 1 .. Len(front) : front[i] = i
    <3> SUFFICES ASSUME NEW i \in 1 .. Len(written) + Len(taken) PROVE (written \o taken)[i] = i
      BY <2>3
    <3>1. CASE i \in 1 .. Len(written)
      BY <1>1, <2>1, <3>1 DEF WrittenNumbered
    <3>2. CASE i > Len(written)
      <4>1. i - Len(written) \in 1 .. Len(taken)
        BY <1>1, <3>2
      <4>2. (written \o taken)[i] = taken[i - Len(written)]
        BY <1>1, <3>2
      <4> QED
        BY <1>1, <2>1, <4>1, <4>2 DEF Numbered
    <3> QED
      BY <1>1, <3>1, <3>2
  <2> HIDE DEF front
  <2>5. \A i \in 1 .. pushed : all[i] = i
    <3> SUFFICES ASSUME NEW i \in 1 .. pushed PROVE all[i] = i
      OBVIOUS
    <3>1. CASE i <= Len(front)
      <4>1. i \in 1 .. Len(front)
        BY <1>1, <2>3, <3>1
      <4>2. all[i] = front[i]
        BY <1>1, <2>3, <4>1
      <4> QED
        BY <2>4, <4>1, <4>2
    <3>2. CASE i > Len(front)
      <4>1. i - Len(front) \in 1 .. Len(queue)
        BY <1>1, <2>1, <2>3, <3>2 DEF Numbered
      <4>2. all[i] = queue[i - Len(front)]
        BY <1>1, <2>3, <3>2, <4>1
      <4> QED
        BY <1>1, <2>1, <2>3, <4>1, <4>2 DEF Numbered
    <3>3. Len(front) \in Nat /\ i \in Nat
      BY <1>1, <2>3
    <3>4. i <= Len(front) \/ i > Len(front)
      BY <3>3
    <3> QED
      BY <3>1, <3>2, <3>4
  <2>6. all = [i \in 1 .. pushed |-> i]
    <3>1. Len(all) = pushed
      BY <2>2 DEF front
    <3> HIDE DEF all
    <3>2. all = [i \in 1 .. Len(all) |-> all[i]]
      BY <2>3
    <3> QED
      BY <2>5, <3>1, <3>2
  <2> QED
    BY <2>6 DEF front
<1>3. WrittenInOrder
  BY <1>2 DEF IInv, WrittenNumbered, WrittenInOrder
<1>4. SleepsOnlyIdle /\ FreedSafely
  BY DEF IInv, BlocksOnlyIdle, Joined, SleepsOnlyIdle, FreedSafely
<1> QED
  BY <1>3, <1>4

-----------------------------------------------------------------------------
(* The theorems *)

\* The queue, the terminal and the threads of a pane keep their types.
THEOREM TypeCorrect == Spec => []TypeOK
<1>1. Init => IInv
  BY InitIInv
<1>2. IInv /\ [Next]_vars => IInv'
  BY NextIInv
<1>3. IInv => TypeOK
  BY IInvSafe
<1> QED
  BY <1>1, <1>2, <1>3, PTL DEF Spec

\* However many strings are queued, by whichever threads, they are written in the order they were
\* queued, each once, and none is dropped while the child lives.
THEOREM InOrder == Spec => []WrittenInOrder
<1>1. Init => IInv
  BY InitIInv
<1>2. IInv /\ [Next]_vars => IInv'
  BY NextIInv
<1>3. IInv => WrittenInOrder
  BY IInvSafe
<1> QED
  BY <1>1, <1>2, <1>3, PTL DEF Spec

\* No push is missed by the output thread.
THEOREM NoMissedPush == Spec => []SleepsOnlyIdle
<1>1. Init => IInv
  BY InitIInv
<1>2. IInv /\ [Next]_vars => IInv'
  BY NextIInv
<1>3. IInv => SleepsOnlyIdle
  BY IInvSafe
<1> QED
  BY <1>1, <1>2, <1>3, PTL DEF Spec

\* ~Pane leaves no thread of the pane behind.
THEOREM NoThreadLeft == Spec => []FreedSafely
<1>1. Init => IInv
  BY InitIInv
<1>2. IInv /\ [Next]_vars => IInv'
  BY NextIInv
<1>3. IInv => FreedSafely
  BY IInvSafe
<1> QED
  BY <1>1, <1>2, <1>3, PTL DEF Spec
=============================================================================

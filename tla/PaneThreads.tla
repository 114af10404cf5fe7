---------------------------- MODULE PaneThreads ----------------------------
(***************************************************************************)
(* The threads of one pane (src/lib/src/pane.cpp): the process thread that *)
(* waits for the child and runs did_exit, the reader of the terminal, the  *)
(* writer of the output queue with its condition variable, the three that  *)
(* serve the pipes of a popup (its input, its output and its extra output) *)
(* and whoever destroys the pane, joining them all.  LayoutState takes the *)
(* life of a pane as one state, proc[p]; this module shows what is behind  *)
(* it.                                                                     *)
(*                                                                         *)
(* The child is the environment: it writes, reads, exits or is killed, and *)
(* may leave a process behind that keeps the terminal and the pipes open.  *)
(*                                                                         *)
(* Of the lock of the layout the module keeps what the threads of a pane   *)
(* can see: whether the destroyer holds it.  Others take and release it,   *)
(* which delays a hook and nothing more.  did_exit is not among the hooks  *)
(* that take it: it pushes an event to the render thread.                  *)
(***************************************************************************)
EXTENDS Integers, Sequences

CONSTANTS
    ObeysHangup,  \* the child dies of SIGHUP
    MayHold,      \* the child may leave a process behind
    LockingHooks, \* the hooks of the pipes take the lock of the layout
    MaxPushes,    \* bound: strings queued for the child
    MaxChunks     \* bound: pieces of output of the child, on each of terminal and pipes

ASSUME PaneThreadsAssumption ==
    /\ ObeysHangup \in BOOLEAN
    /\ MayHold \in BOOLEAN
    /\ LockingHooks \in BOOLEAN
    /\ MaxPushes \in Nat
    /\ MaxChunks \in Nat

VARIABLES
    child,      \* "running" or "dead"
    hangup,     \* SIGHUP was sent to it
    held,       \* another process holds the terminal and the pipes open
    ttyData,    \* pieces of output waiting in the terminal
    pipeData,   \* pieces of output waiting in the output pipe
    extraData,  \* and in that of the extra output
    chunks,     \* pieces of output written so far
    done,       \* m_done
    queue,      \* m_output_queue; strings are numbered as they are queued
    taken,      \* what the output thread has taken from the queue and not written yet
    written,    \* what it has written to the terminal
    pushed,     \* strings queued so far
    process, reader, output,        \* where the threads are
    pipe, writer, extra,            \* those of the pipes, "none" for a pane without the pipe
    destroyer,  \* ~Pane: not called, the thread it joins, or "freed"
    holds       \* the destroyer holds the lock of the layout

env == <<child, hangup, held, ttyData, pipeData, extraData, chunks>>
strings == <<queue, taken, written, pushed>>
pipes == <<pipe, writer, extra>>
threads == <<process, reader, output, pipes, destroyer, holds>>
vars == <<env, done, strings, threads>>

TypeOK ==
    /\ child \in {"running", "dead"}
    /\ hangup \in BOOLEAN /\ held \in BOOLEAN /\ done \in BOOLEAN /\ holds \in BOOLEAN
    /\ ttyData \in 0 .. MaxChunks /\ pipeData \in 0 .. MaxChunks
    /\ extraData \in 0 .. MaxChunks /\ chunks \in 0 .. MaxChunks
    /\ pushed \in 0 .. MaxPushes
    /\ queue \in Seq(1 .. MaxPushes) /\ taken \in Seq(1 .. MaxPushes) /\ written \in Seq(1 .. MaxPushes)
    /\ process \in {"wait", "notify", "hook", "end"}
    /\ reader \in {"test", "read", "hook", "end"}
    /\ output \in {"test", "lock", "check", "block", "asleep", "write", "end"}
    /\ pipe \in {"none", "test", "read", "hook", "end"}
    /\ writer \in {"none", "write", "end"}
    /\ extra \in {"none", "test", "read", "hook", "end"}
    /\ destroyer \in {"none", "pipe", "writer", "extra", "reader", "output", "process", "freed"}

\* The other end of the terminal (and of the pipes) is closed: reads and writes fail.
Closed == child = "dead" /\ ~held

\* m_output_queue is locked by the output thread.
Locked == output \in {"check", "block"}

\* A hook of the pipes gets the lock of the layout, or does not ask for it.
HookMayRun == holds => ~LockingHooks

-----------------------------------------------------------------------------
(* The child *)

ChildWrites ==
    /\ child = "running"
    /\ chunks < MaxChunks
    /\ chunks' = chunks + 1
    /\ ttyData' = ttyData + 1
    /\ pipeData' = IF pipe = "none" THEN pipeData ELSE pipeData + 1
    /\ extraData' = IF extra = "none" THEN extraData ELSE extraData + 1
    /\ UNCHANGED <<child, hangup, held, done, strings, threads>>

ChildForks ==
    /\ MayHold
    /\ child = "running"
    /\ ~held
    /\ held' = TRUE
    /\ UNCHANGED <<child, hangup, ttyData, pipeData, extraData, chunks, done, strings, threads>>

HolderExits ==
    /\ held
    /\ held' = FALSE
    /\ UNCHANGED <<child, hangup, ttyData, pipeData, extraData, chunks, done, strings, threads>>

ChildExits ==
    /\ child = "running"
    /\ child' = "dead"
    /\ UNCHANGED <<hangup, held, ttyData, pipeData, extraData, chunks, done, strings, threads>>

-----------------------------------------------------------------------------
(* write_pty_string, by any thread: push and notify_one under the lock of the queue *)

\* Mutant: the output thread is not notified.
Push_NoNotify ==
    /\ queue' = Append(queue, pushed + 1)
    /\ pushed' = pushed + 1
    /\ UNCHANGED <<taken, written, output>>

Push ==
    /\ queue' = Append(queue, pushed + 1)
    /\ pushed' = pushed + 1
    /\ output' = IF output = "asleep" THEN "lock" ELSE output
    /\ UNCHANGED <<taken, written>>

\* A key, a paste or a mouse event; the pane is not being destroyed.
SendInput ==
    /\ destroyer = "none"
    /\ ~Locked
    /\ pushed < MaxPushes
    /\ Push
    /\ UNCHANGED <<env, done, process, reader, pipes, destroyer, holds>>

-----------------------------------------------------------------------------
(* The process thread *)

\* wait() returns and m_done is set, which does not take the lock of the queue.
ProcessWait ==
    /\ process = "wait"
    /\ child = "dead"
    /\ done' = TRUE
    /\ process' = "notify"
    /\ UNCHANGED <<env, strings, reader, output, pipes, destroyer, holds>>

ProcessNotify ==
    /\ process = "notify"
    /\ process' = "hook"
    /\ output' = IF output = "asleep" THEN "lock" ELSE output
    /\ UNCHANGED <<env, done, strings, reader, pipes, destroyer, holds>>

\* did_exit: an event for the render thread.
ProcessHook ==
    /\ process = "hook"
    /\ process' = "end"
    /\ UNCHANGED <<env, done, strings, reader, output, pipes, destroyer, holds>>

-----------------------------------------------------------------------------
(* The reader of the terminal *)

ReaderTest ==
    /\ reader = "test"
    /\ reader' = IF done THEN "end" ELSE "read"
    /\ UNCHANGED <<env, done, strings, process, output, pipes, destroyer, holds>>

\* A piece of output, which the terminal may answer and which may hold a sequence of seamless
\* navigation, or the error that ends the thread.
ReaderRead ==
    /\ reader = "read"
    /\ IF ttyData > 0
       THEN /\ ttyData' = ttyData - 1
            /\ reader' \in {"test", "hook"}
            /\ \/ UNCHANGED <<strings, output>>
               \/ ~Locked /\ pushed < MaxPushes /\ Push
       ELSE /\ Closed
            /\ reader' = "end"
            /\ UNCHANGED <<ttyData, strings, output>>
    /\ UNCHANGED <<child, hangup, held, pipeData, extraData, chunks, done, process, pipes, destroyer, holds>>

\* did_receive_seamless_navigation: the navigation is carried out by this thread, under the lock
\* of the layout.
ReaderHook ==
    /\ reader = "hook"
    /\ ~holds
    /\ reader' = "test"
    /\ UNCHANGED <<env, done, strings, process, output, pipes, destroyer, holds>>

-----------------------------------------------------------------------------
(* The output thread *)

OutputTest ==
    /\ output = "test"
    /\ output' = IF done THEN "end" ELSE "lock"
    /\ UNCHANGED <<env, done, strings, process, reader, pipes, destroyer, holds>>

OutputLock ==
    /\ output = "lock"
    /\ output' = "check"
    /\ UNCHANGED <<env, done, strings, process, reader, pipes, destroyer, holds>>

\* Mutant: the strings stay in the queue.
OutputCheck_Copy ==
    /\ output = "check"
    /\ output' = IF queue # <<>> \/ done THEN "write" ELSE "block"
    /\ taken' = IF queue # <<>> \/ done THEN queue ELSE taken
    /\ UNCHANGED <<env, done, queue, written, pushed, process, reader, pipes, destroyer, holds>>

\* The predicate of the wait: take all there is, or
OutputCheck ==
    /\ output = "check"
    /\ IF queue # <<>> \/ done
       THEN output' = "write" /\ taken' = queue /\ queue' = <<>>
       ELSE output' = "block" /\ UNCHANGED <<taken, queue>>
    /\ UNCHANGED <<env, done, written, pushed, process, reader, pipes, destroyer, holds>>

\* release the lock and go to sleep, in one step for those who take the lock.
OutputSleep ==
    /\ output = "block"
    /\ output' = "asleep"
    /\ UNCHANGED <<env, done, strings, process, reader, pipes, destroyer, holds>>

SpuriousWakeup ==
    /\ output = "asleep"
    /\ output' = "lock"
    /\ UNCHANGED <<env, done, strings, process, reader, pipes, destroyer, holds>>

\* One string is written, which takes until the child reads it or the terminal is closed; the
\* rest is dropped once the child is gone.
OutputWrite ==
    /\ output = "write"
    /\ IF taken = <<>> \/ done
       THEN taken' = <<>> /\ output' = "test" /\ UNCHANGED written
       ELSE taken' = Tail(taken) /\ written' = Append(written, Head(taken)) /\ UNCHANGED output
    /\ UNCHANGED <<env, done, queue, pushed, process, reader, pipes, destroyer, holds>>

-----------------------------------------------------------------------------
(* The threads of the pipes *)

PipeTest ==
    /\ pipe = "test"
    /\ pipe' = IF done THEN "hook" ELSE "read"
    /\ UNCHANGED <<env, done, strings, process, reader, output, writer, extra, destroyer, holds>>

\* All that is there, or end of file, which is not an error.
PipeRead ==
    /\ pipe = "read"
    /\ pipeData > 0 \/ Closed
    /\ pipeData' = 0
    /\ pipe' = "test"
    /\ UNCHANGED <<child, hangup, held, ttyData, extraData, chunks, done, strings,
                   process, reader, output, writer, extra, destroyer, holds>>

\* did_finish_output.
PipeHook ==
    /\ pipe = "hook"
    /\ HookMayRun
    /\ pipe' = "end"
    /\ UNCHANGED <<env, done, strings, process, reader, output, writer, extra, destroyer, holds>>

\* The input is written: whoever has the pipe open reads it to the end, or the write fails.
WriterEnds ==
    /\ writer = "write"
    /\ writer' = "end"
    /\ UNCHANGED <<env, done, strings, process, reader, output, pipe, extra, destroyer, holds>>

ExtraTest ==
    /\ extra = "test"
    /\ extra' = IF done THEN "end" ELSE "read"
    /\ UNCHANGED <<env, done, strings, process, reader, output, pipe, writer, destroyer, holds>>

\* All that is there, with or without a whole line in it, or end of file.
ExtraRead ==
    /\ extra = "read"
    /\ extraData > 0 \/ Closed
    /\ extraData' = 0
    /\ extra' \in IF extraData > 0 THEN {"test", "hook"} ELSE {"test"}
    /\ UNCHANGED <<child, hangup, held, ttyData, pipeData, chunks, done, strings,
                   process, reader, output, pipe, writer, destroyer, holds>>

\* did_get_extra_output.
ExtraHook ==
    /\ extra = "hook"
    /\ HookMayRun
    /\ extra' = "test"
    /\ UNCHANGED <<env, done, strings, process, reader, output, pipe, writer, destroyer, holds>>

-----------------------------------------------------------------------------
(* ~Pane *)

\* Mutant: the child is not told to go.
Destroy_NoHangup ==
    /\ destroyer = "none"
    /\ destroyer' = "pipe"
    /\ holds' \in BOOLEAN
    /\ UNCHANGED <<env, done, strings, process, reader, output, pipes>>

\* By the render thread after an exit, without the lock of the layout, or with it: by replace_pane,
\* for the popup and at the end of ttx.
Destroy ==
    /\ destroyer = "none"
    /\ hangup' = TRUE
    /\ destroyer' = "pipe"
    /\ holds' \in BOOLEAN
    /\ UNCHANGED <<child, held, ttyData, pipeData, extraData, chunks, done, strings,
                   process, reader, output, pipes>>

JoinPipe == destroyer = "pipe" /\ pipe \in {"none", "end"} /\ destroyer' = "writer"
JoinWriter == destroyer = "writer" /\ writer \in {"none", "end"} /\ destroyer' = "extra"
JoinExtra == destroyer = "extra" /\ extra \in {"none", "end"} /\ destroyer' = "reader"
JoinReader == destroyer = "reader" /\ reader = "end" /\ destroyer' = "output"
JoinOutput == destroyer = "output" /\ output = "end" /\ destroyer' = "process"
JoinProcess == destroyer = "process" /\ process = "end" /\ destroyer' = "freed"

\* Mutant: the reader of the extra output is not joined.
Join_NotExtra ==
    /\ \/ JoinPipe \/ JoinWriter
       \/ destroyer = "extra" /\ destroyer' = "reader"
       \/ JoinReader \/ JoinOutput \/ JoinProcess
    /\ UNCHANGED <<env, done, strings, process, reader, output, pipes, holds>>

Join ==
    /\ JoinPipe \/ JoinWriter \/ JoinExtra \/ JoinReader \/ JoinOutput \/ JoinProcess
    /\ UNCHANGED <<env, done, strings, process, reader, output, pipes, holds>>

-----------------------------------------------------------------------------

\* A pane has no pipes, or those of a popup that runs fzf.
Init ==
    /\ child = "running"
    /\ hangup = FALSE /\ held = FALSE /\ done = FALSE
    /\ ttyData = 0 /\ pipeData = 0 /\ extraData = 0 /\ chunks = 0
    /\ queue = <<>> /\ taken = <<>> /\ written = <<>> /\ pushed = 0
    /\ process = "wait" /\ reader = "test" /\ output = "test"
    /\ \/ pipe = "none" /\ writer = "none" /\ extra = "none"
       \/ pipe = "test" /\ writer = "write" /\ extra \in {"none", "test"}
    /\ destroyer = "none" /\ holds = FALSE

Child == ChildWrites \/ ChildForks \/ HolderExits \/ ChildExits
ProcessThread == ProcessWait \/ ProcessNotify \/ ProcessHook
ReaderThread == ReaderTest \/ ReaderRead \/ ReaderHook
OutputThread == OutputTest \/ OutputLock \/ OutputCheck \/ OutputSleep \/ OutputWrite
PipeThread == PipeTest \/ PipeRead \/ PipeHook
ExtraThread == ExtraTest \/ ExtraRead \/ ExtraHook

Next ==
    \/ Child \/ SendInput
    \/ ProcessThread \/ ReaderThread \/ OutputThread \/ SpuriousWakeup
    \/ PipeThread \/ WriterEnds \/ ExtraThread
    \/ Destroy \/ Join

Spec == Init /\ [][Next]_vars

\* The threads run; one that writes to the terminal or to the pipe is only sure to go on when
\* that fails, one that waits for the lock of the layout when it gets it.
\* Of the child nothing is assumed but that SIGHUP kills it, if it does.
Fairness ==
    /\ WF_vars(ProcessThread)
    /\ WF_vars(ReaderThread)
    /\ WF_vars(OutputTest \/ OutputLock \/ OutputCheck \/ OutputSleep)
    /\ WF_vars(OutputWrite /\ (Closed \/ taken = <<>> \/ done))
    /\ WF_vars(PipeThread)
    /\ WF_vars(WriterEnds /\ Closed)
    /\ WF_vars(ExtraThread)
    /\ WF_vars(Join)
    /\ WF_vars(ChildExits /\ hangup /\ ObeysHangup)

FairSpec == Spec /\ Fairness

-----------------------------------------------------------------------------
(* Properties *)

\* What is queued for the child is written in the order it was queued, nothing is written twice,
\* and as long as the child lives nothing is dropped, whichever threads push.
WrittenInOrder ==
    LET all == written \o taken \o queue
    IN  /\ \A i \in 1 .. Len(written) : written[i] = i
        /\ ~done => all = [i \in 1 .. pushed |-> i]

\* The output thread does not sleep while a string waits: no push is missed.
SleepsOnlyIdle == output = "asleep" => queue = <<>>

\* When ~Pane returns no thread of the pane is left to touch it, and its hooks have run.
FreedSafely ==
    destroyer = "freed" =>
        /\ process = "end" /\ reader = "end" /\ output = "end"
        /\ pipe \in {"none", "end"} /\ writer \in {"none", "end"} /\ extra \in {"none", "end"}

\* The output thread has missed the end of the child: m_done was set and notified between its
\* check of the predicate and its going to sleep.
LostWakeup == output = "asleep" /\ process \in {"hook", "end"}

\* A hook waits for the lock of the layout, which the destroyer holds while it waits for the hook.
LockedOut ==
    /\ holds
    /\ reader = "hook" \/ (LockingHooks /\ "hook" \in {pipe, extra})

\* Three things can keep whoever destroys a pane from coming back once SIGHUP has killed the child,
\* and no other: a process the child left behind holds the terminal open, a hook waits for the lock
\* the destroyer holds, or the output thread has missed the end of the child.  The last two are
\* for ever.  A child that does not obey SIGHUP is the fourth.
DestructorReturns ==
    ObeysHangup => (destroyer # "none" ~> destroyer = "freed" \/ held \/ LockedOut \/ LostWakeup)

\* Violated by the code (README, section 5): no end of the child is missed,
NoLostWakeup == ~LostWakeup

\* and no hook is waited for by the thread that holds the lock the hook waits for.
NeverLockedOut == ~LockedOut
=============================================================================

------------------------------ MODULE EventLoop ------------------------------
(***************************************************************************)
(* One event loop of py_netty (py_netty/eventloop.py): the lazily started  *)
(* loop thread, and the application threads that submit tasks to the loop, *)
(* start it, stop it and leave its group's "with" block.                   *)
(*                                                                         *)
(* Each application thread in Callers has a label pc[c] naming the next    *)
(* line of eventloop.py it executes; "loop" is the label of the loop       *)
(* thread.  A step is one access to state another thread can see at the    *)
(* same time: a flag, the barrier, the lock, the queue, the wake-up        *)
(* device, the selector or the pool.  What a task or a handler does to the *)
(* loop's channels is left open.                                           *)
(***************************************************************************)
EXTENDS EventFD, Sequences

CONSTANTS
  Callers,    \* application threads
  Tasks,      \* tasks they may submit; none runs twice
  Channels,   \* channels that may be registered with the loop
  None

ASSUME NoneAssumption == None \notin Callers /\ None \notin Tasks

VARIABLES
  stopPolling,     \* _stop_polling
  closed,          \* _closed
  startBarrier,    \* _start_barrier.is_set()
  lock,            \* the holder of _lock, or None
  taskq,           \* _taskq
  channels,        \* the values of _channels
  selectorClosed,  \* _selector.close() has run
  poolShutdown,    \* pool.shutdown() has been called
  loop,            \* label of the loop thread
  pc,              \* label of each application thread
  arg,             \* the task a thread submits (None for a bare start())
  exiting,         \* threads inside EventLoopGroup.__exit__
  done             \* tasks that have run

flags == <<stopPolling, closed, startBarrier, poolShutdown>>
threads == <<loop, pc, arg, exiting>>
vars == <<efdVars, flags, lock, taskq, channels, selectorClosed, threads, done>>

Polling == {"select", "count", "user"}
CleaningUp == {"clean", "mark", "closeSelector", "closeEfd"}
LoopLabels == {"absent", "queued", "top", "dead"} \cup Polling \cup CleaningUp
CallerLabels ==
  {"idle", "check", "ready", "lock", "locked", "spawn", "wait", "put", "wake",
   "stop", "setStop", "barrier", "stopWake", "shutdown", "join"} \cup CleaningUp

TypeOK ==
  /\ EfdTypeOK
  /\ stopPolling \in BOOLEAN /\ closed \in BOOLEAN
  /\ startBarrier \in BOOLEAN /\ poolShutdown \in BOOLEAN
  /\ lock \in Callers \cup {None}
  /\ taskq \in Seq(Tasks)
  /\ channels \subseteq Channels
  /\ selectorClosed \in BOOLEAN
  /\ loop \in LoopLabels
  /\ pc \in [Callers -> CallerLabels]
  /\ arg \in [Callers -> Tasks \cup {None}]
  /\ exiting \subseteq Callers
  /\ done \subseteq Tasks

Init ==
  /\ EfdInit
  /\ stopPolling = FALSE /\ closed = FALSE
  /\ startBarrier = FALSE /\ poolShutdown = FALSE
  /\ lock = None
  /\ taskq = <<>>
  /\ channels = {}
  /\ selectorClosed = FALSE
  /\ loop = "absent"
  /\ pc = [c \in Callers |-> "idle"]
  /\ arg = [c \in Callers |-> None]
  /\ exiting = {}
  /\ done = {}

Goto(c, label) == pc' = [pc EXCEPT ![c] = label]

-----------------------------------------------------------------------------
(* submit_task and start, called by an application thread                  *)

Fresh(t) ==
  /\ t \notin done
  /\ \A i \in DOMAIN taskq : taskq[i] # t
  /\ \A c \in Callers : arg[c] # t

CallSubmit(c, t) ==
  /\ pc[c] = "idle"
  /\ Fresh(t)
  /\ Goto(c, "check")
  /\ arg' = [arg EXCEPT ![c] = t]
  /\ UNCHANGED <<efdVars, flags, lock, taskq, channels, selectorClosed, loop, exiting, done>>

\* A start() of its own: the one register() makes before it submits.
CallStart(c) ==
  /\ pc[c] = "idle"
  /\ Goto(c, "check")
  /\ UNCHANGED <<efdVars, flags, lock, taskq, channels, selectorClosed, loop, arg, exiting, done>>

\* The call raises "event loop is stopping" (or the pool refuses the work).
Reject(c) == Goto(c, "idle") /\ arg' = [arg EXCEPT ![c] = None]

\* start() has returned: submit_task goes on to queue its task.
Started(c) == Goto(c, IF arg[c] = None THEN "idle" ELSE "put") /\ UNCHANGED arg

Check(c) ==
  /\ pc[c] = "check"
  /\ \/ (stopPolling \/ closed) /\ Reject(c)
     \/ ~stopPolling /\ ~closed /\ Goto(c, "ready") /\ UNCHANGED arg
  /\ UNCHANGED <<efdVars, flags, lock, taskq, channels, selectorClosed, loop, exiting, done>>

Ready(c) ==
  /\ pc[c] = "ready"
  /\ \/ startBarrier /\ Started(c)
     \/ ~startBarrier /\ Goto(c, "lock") /\ UNCHANGED arg
  /\ UNCHANGED <<efdVars, flags, lock, taskq, channels, selectorClosed, loop, exiting, done>>

AcquireLock(c) ==
  /\ pc[c] = "lock"
  /\ lock = None
  /\ lock' = c
  /\ Goto(c, "locked")
  /\ UNCHANGED <<efdVars, flags, taskq, channels, selectorClosed, loop, arg, exiting, done>>

\* Slip: the barrier is not looked at again under the lock.
CheckLockedOnce(c) ==
  /\ pc[c] = "locked"
  /\ \/ (stopPolling \/ closed) /\ lock' = None /\ Reject(c)
     \/ ~stopPolling /\ ~closed /\ Goto(c, "spawn") /\ UNCHANGED <<lock, arg>>
  /\ UNCHANGED <<efdVars, flags, taskq, channels, selectorClosed, loop, exiting, done>>

\* Both checks again, under the lock (only its holder can have the barrier set).
CheckLocked(c) ==
  /\ pc[c] = "locked"
  /\ \/ (stopPolling \/ closed) /\ lock' = None /\ Reject(c)
     \/ ~stopPolling /\ ~closed /\ startBarrier /\ lock' = None /\ Started(c)
     \/ ~stopPolling /\ ~closed /\ ~startBarrier /\ Goto(c, "spawn") /\ UNCHANGED <<lock, arg>>
  /\ UNCHANGED <<efdVars, flags, taskq, channels, selectorClosed, loop, exiting, done>>

\* pool.submit(_start), refused once the pool is shut down.
Spawn(c) ==
  /\ pc[c] = "spawn"
  /\ \/ poolShutdown /\ lock' = None /\ Reject(c) /\ UNCHANGED loop
     \/ ~poolShutdown /\ loop' = "queued" /\ Goto(c, "wait") /\ UNCHANGED <<lock, arg>>
  /\ UNCHANGED <<efdVars, flags, taskq, channels, selectorClosed, exiting, done>>

\* Slip: the lock is not given back.
AwaitBarrierHolding(c) ==
  /\ pc[c] = "wait"
  /\ startBarrier
  /\ Started(c)
  /\ UNCHANGED <<efdVars, flags, lock, taskq, channels, selectorClosed, loop, exiting, done>>

AwaitBarrier(c) ==
  /\ pc[c] = "wait"
  /\ startBarrier
  /\ lock' = None
  /\ Started(c)
  /\ UNCHANGED <<efdVars, flags, taskq, channels, selectorClosed, loop, exiting, done>>

\* Slip: the newest task first.
PutFirst(c) ==
  /\ pc[c] = "put"
  /\ taskq' = <<arg[c]>> \o taskq
  /\ arg' = [arg EXCEPT ![c] = None]
  /\ Goto(c, "wake")
  /\ UNCHANGED <<efdVars, flags, lock, channels, selectorClosed, loop, exiting, done>>

Put(c) ==
  /\ pc[c] = "put"
  /\ taskq' = Append(taskq, arg[c])
  /\ arg' = [arg EXCEPT ![c] = None]
  /\ Goto(c, "wake")
  /\ UNCHANGED <<efdVars, flags, lock, channels, selectorClosed, loop, exiting, done>>

Wake(c) ==
  /\ pc[c] = "wake"
  /\ UnsafeWrite
  /\ Goto(c, "idle")
  /\ UNCHANGED <<flags, lock, taskq, channels, selectorClosed, loop, arg, exiting, done>>

-----------------------------------------------------------------------------
(* stop and EventLoopGroup.__exit__, called by an application thread       *)

CallStop(c) ==
  /\ pc[c] = "idle"
  /\ Goto(c, "stop")
  /\ UNCHANGED <<efdVars, flags, lock, taskq, channels, selectorClosed, loop, arg, exiting, done>>

CallExit(c) ==
  /\ pc[c] = "idle"
  /\ Goto(c, "stop")
  /\ exiting' = exiting \cup {c}
  /\ UNCHANGED <<efdVars, flags, lock, taskq, channels, selectorClosed, loop, arg, done>>

StopReturns(c) == Goto(c, IF c \in exiting THEN "shutdown" ELSE "idle")

StopCheck(c) ==
  /\ pc[c] = "stop"
  /\ \/ (closed \/ stopPolling) /\ StopReturns(c)
     \/ ~closed /\ ~stopPolling /\ Goto(c, "setStop")
  /\ UNCHANGED <<efdVars, flags, lock, taskq, channels, selectorClosed, loop, arg, exiting, done>>

SetStop(c) ==
  /\ pc[c] = "setStop"
  /\ stopPolling' = TRUE
  /\ Goto(c, "barrier")
  /\ UNCHANGED <<efdVars, closed, startBarrier, poolShutdown, lock, taskq, channels,
                 selectorClosed, loop, arg, exiting, done>>

\* Slip: the caller cleans up whether or not the loop has started.
CheckBarrierNever(c) ==
  /\ pc[c] = "barrier"
  /\ Goto(c, "clean")
  /\ UNCHANGED <<efdVars, flags, lock, taskq, channels, selectorClosed, loop, arg, exiting, done>>

CheckBarrier(c) ==
  /\ pc[c] = "barrier"
  /\ Goto(c, IF startBarrier THEN "stopWake" ELSE "clean")
  /\ UNCHANGED <<efdVars, flags, lock, taskq, channels, selectorClosed, loop, arg, exiting, done>>

\* Slip: stop does not interrupt the loop.
StopWakeSilent(c) ==
  /\ pc[c] = "stopWake"
  /\ StopReturns(c)
  /\ UNCHANGED <<efdVars, flags, lock, taskq, channels, selectorClosed, loop, arg, exiting, done>>

StopWake(c) ==
  /\ pc[c] = "stopWake"
  /\ UnsafeWrite
  /\ StopReturns(c)
  /\ UNCHANGED <<flags, lock, taskq, channels, selectorClosed, loop, arg, exiting, done>>

Shutdown(c) ==
  /\ pc[c] = "shutdown"
  /\ poolShutdown' = TRUE
  /\ Goto(c, "join")
  /\ UNCHANGED <<efdVars, stopPolling, closed, startBarrier, lock, taskq, channels,
                 selectorClosed, loop, arg, exiting, done>>

\* shutdown(wait=True) joins the pool's threads, work already queued included.
Join(c) ==
  /\ pc[c] = "join"
  /\ loop \in {"absent", "dead"}
  /\ exiting' = exiting \ {c}
  /\ Goto(c, "idle")
  /\ UNCHANGED <<efdVars, flags, lock, taskq, channels, selectorClosed, loop, arg, done>>

-----------------------------------------------------------------------------
(* _cleanup_resources, run by a stopping caller or by the loop thread      *)

\* The loop's channels are closed with their futures resolved; callbacks that
\* they run on the way can register nothing, since start() raises.
MarkClosed ==
  /\ closed' = TRUE
  /\ channels' = {}
  /\ UNCHANGED <<efdVars, stopPolling, startBarrier, poolShutdown, selectorClosed>>

CloseSelector ==
  /\ selectorClosed' = TRUE
  /\ UNCHANGED <<efdVars, flags, channels>>

CloseDevice ==
  /\ CloseEventFD
  /\ UNCHANGED <<flags, channels, selectorClosed>>

CallerCleanup(c) ==
  /\ \/ /\ pc[c] = "clean"
        /\ \/ closed /\ StopReturns(c)
           \/ ~closed /\ Goto(c, "mark")
        /\ UNCHANGED <<efdVars, flags, channels, selectorClosed>>
     \/ pc[c] = "mark" /\ MarkClosed /\ Goto(c, "closeSelector")
     \/ pc[c] = "closeSelector" /\ CloseSelector /\ Goto(c, "closeEfd")
     \/ pc[c] = "closeEfd" /\ CloseDevice /\ StopReturns(c)
  /\ UNCHANGED <<lock, taskq, loop, arg, exiting, done>>

\* Slip: the device is left to __del__.
LoopCleanupHalf ==
  /\ \/ /\ loop = "clean"
        /\ loop' = IF closed THEN "dead" ELSE "mark"
        /\ UNCHANGED <<efdVars, flags, channels, selectorClosed>>
     \/ loop = "mark" /\ MarkClosed /\ loop' = "closeSelector"
     \/ loop = "closeSelector" /\ CloseSelector /\ loop' = "dead"
  /\ UNCHANGED <<lock, taskq, pc, arg, exiting, done>>

LoopCleanup ==
  /\ \/ /\ loop = "clean"
        /\ loop' = IF closed THEN "dead" ELSE "mark"
        /\ UNCHANGED <<efdVars, flags, channels, selectorClosed>>
     \/ loop = "mark" /\ MarkClosed /\ loop' = "closeSelector"
     \/ loop = "closeSelector" /\ CloseSelector /\ loop' = "closeEfd"
     \/ loop = "closeEfd" /\ CloseDevice /\ loop' = "dead"
  /\ UNCHANGED <<lock, taskq, pc, arg, exiting, done>>

-----------------------------------------------------------------------------
(* _start, run by the loop thread                                          *)

LoopStarts ==
  /\ loop = "queued"
  /\ startBarrier' = TRUE
  /\ loop' = "top"
  /\ UNCHANGED <<efdVars, stopPolling, closed, poolShutdown, lock, taskq, channels,
                 selectorClosed, pc, arg, exiting, done>>

LoopTop ==
  /\ loop = "top"
  /\ loop' = IF stopPolling THEN "clean" ELSE "select"
  /\ UNCHANGED <<efdVars, flags, lock, taskq, channels, selectorClosed, pc, arg, exiting, done>>

\* The selector reports the wake-up device, alone or among other events.
LoopWakes ==
  /\ loop = "select"
  /\ UnsafeReadByte
  /\ loop' = "count"
  /\ UNCHANGED <<flags, lock, taskq, channels, selectorClosed, pc, arg, exiting, done>>

LoopCounts ==
  /\ loop = "count"
  /\ UnsafeReadCount
  /\ loop' = "user"
  /\ UNCHANGED <<flags, lock, taskq, channels, selectorClosed, pc, arg, exiting, done>>

\* Channel events alone, or the connect timeout.
LoopPollsIO ==
  /\ loop = "select"
  /\ pipe = 0
  /\ loop' = "user"
  /\ UNCHANGED <<efdVars, flags, lock, taskq, channels, selectorClosed, pc, arg, exiting, done>>

\* What handlers and tasks do to _channels: register some, close some.  (A
\* register that looked at the stop flag in time may add its channel later.)
UserCode == channels' \in SUBSET Channels

RunTask ==
  /\ loop = "user"
  /\ taskq # <<>>
  /\ taskq' = Tail(taskq)
  /\ done' = done \cup {Head(taskq)}
  /\ UserCode
  /\ UNCHANGED <<efdVars, flags, lock, selectorClosed, threads>>

LoopHandles ==
  /\ loop = "user"
  /\ UserCode
  /\ UNCHANGED <<efdVars, flags, lock, taskq, selectorClosed, threads, done>>

\* A handler or a task calls submit_task on the loop thread: one step, as the
\* loop does not look at its queue or its device meanwhile.
LoopSubmits(t) ==
  /\ loop = "user"
  /\ Fresh(t)
  /\ ~stopPolling /\ ~closed
  /\ taskq' = Append(taskq, t)
  /\ UnsafeWrite
  /\ UNCHANGED <<flags, lock, channels, selectorClosed, threads, done>>

\* A handler or a task calls stop on the loop thread.
LoopStops ==
  /\ loop = "user"
  /\ ~closed /\ ~stopPolling
  /\ stopPolling' = TRUE
  /\ UnsafeWrite
  /\ UNCHANGED <<closed, startBarrier, poolShutdown, lock, taskq, channels,
                 selectorClosed, threads, done>>

\* Slip: one task per round, the rest with the next wake-up.
QueueDrainedByOne ==
  /\ loop = "user"
  /\ loop' = "top"
  /\ UNCHANGED <<efdVars, flags, lock, taskq, channels, selectorClosed, pc, arg, exiting, done>>

QueueDrained ==
  /\ loop = "user"
  /\ taskq = <<>>
  /\ loop' = "top"
  /\ UNCHANGED <<efdVars, flags, lock, taskq, channels, selectorClosed, pc, arg, exiting, done>>

-----------------------------------------------------------------------------
CallerCalls(c) ==
  \/ \E t \in Tasks : CallSubmit(c, t)
  \/ CallStart(c)
  \/ CallStop(c)
  \/ CallExit(c)

CallerStep(c) ==
  \/ Check(c)        \/ Ready(c)     \/ AcquireLock(c)  \/ CheckLocked(c)
  \/ Spawn(c)        \/ AwaitBarrier(c) \/ Put(c)       \/ Wake(c)
  \/ StopCheck(c)    \/ SetStop(c)   \/ CheckBarrier(c) \/ StopWake(c)
  \/ CallerCleanup(c) \/ Shutdown(c) \/ Join(c)

LoopStep ==
  \/ LoopStarts \/ LoopTop \/ LoopWakes \/ LoopCounts \/ RunTask \/ QueueDrained
  \/ LoopCleanup

LoopUserCalls ==
  \/ LoopPollsIO \/ LoopHandles \/ LoopStops
  \/ \E t \in Tasks : LoopSubmits(t)

Next ==
  \/ \E c \in Callers : CallerCalls(c) \/ CallerStep(c)
  \/ LoopStep
  \/ LoopUserCalls

\* Threads that have work are scheduled; nobody has to make a call, and no I/O
\* has to arrive.
Fairness ==
  /\ \A c \in Callers : WF_vars(CallerStep(c))
  /\ WF_vars(LoopStep)

Spec == Init /\ [][Next]_vars /\ Fairness

-----------------------------------------------------------------------------
(* Safety                                                                  *)

\* A thread that has work for the loop and has not yet written to the device.
WakePending ==
  \E c \in Callers :
    \/ pc[c] = "wake"
    \/ stopPolling /\ pc[c] \in {"barrier", "stopWake"}

\* No wake-up is lost: when the loop is about to block in select() with a task
\* in its queue or a stop requested, there is a byte in the pipe, or a thread
\* that will still write one.  unsafe_write drops a byte while unsafe_read has
\* taken one and not yet counted it down; that this is harmless depends on the
\* queue being drained after the count, and filled before the write.
NoLostWakeup ==
  loop = "select" /\ (taskq # <<>> \/ stopPolling) => pipe > 0 \/ WakePending

\* A loop that still polls or runs callbacks never has its selector or its
\* device closed under it: stop() cleans up on the caller's thread only if the
\* start barrier is not set, and the loop sets it before it looks at the flag.
PollingIsSafe ==
  loop \in Polling => ~closed /\ ~selectorClosed /\ ~efdClosed

\* When a stopping caller cleans up, no channel was ever registered: channels
\* are closed on the loop thread only, and the branch of _cleanup_resources
\* that closes them from another thread has nothing to do.
ForeignCleanupFindsNoChannels ==
  \A c \in Callers : pc[c] \in CleaningUp => channels = {}

\* Whichever threads raced through the check of _closed, once the loop thread
\* is gone and nobody is cleaning up, everything is released.
ResourcesReleased ==
  loop = "dead" /\ (\A c \in Callers : pc[c] \notin CleaningUp)
    => closed /\ channels = {} /\ selectorClosed /\ efdClosed

\* The double-checked start() hands the loop to the pool at most once: a thread
\* about to do so finds that nobody has.
StartedOnce ==
  \A c \in Callers : pc[c] = "spawn" => loop = "absent"

-----------------------------------------------------------------------------
(* Liveness                                                                *)

\* Every call returns: nobody waits forever for the lock, the start barrier or
\* the end of the loop thread, whatever the others do.
CallsReturn == \A c \in Callers : pc[c] # "idle" ~> pc[c] = "idle"

\* A stop takes effect: the loop is closed and lets go of its selector and its
\* device, whether or not it was ever started and wherever the stop found it.
StopTakesEffect == stopPolling ~> closed /\ selectorClosed /\ efdClosed

\* The loop implements the executor its callers see.
Executor == INSTANCE TaskExecutor WITH
  queue <- taskq,
  phase <- IF ~stopPolling THEN "open" ELSE IF ~closed THEN "stopping" ELSE "terminated"

\* Tasks run one at a time in the order they were accepted, none twice, none
\* after the loop is closed, and all of them run unless a stop is requested.
ImplementsExecutor == Executor!Spec

\* The part of it that is not about progress.
ExecutorSafety == Executor!Init /\ [][Executor!Next]_(Executor!vars)
==============================================================================

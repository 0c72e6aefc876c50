--------------------------- MODULE EventLoopProofs ---------------------------
(***************************************************************************)
(* The safety properties of EventLoop, proved for any set of application   *)
(* threads, tasks and channels, from one inductive invariant.              *)
(***************************************************************************)
EXTENDS EventLoop, SequenceTheorems, TLAPS

-----------------------------------------------------------------------------
(* The inductive invariant                                                 *)

\* The counter of the device is what is in the pipe, plus the byte the loop has
\* read and not yet counted; there is at most one.
DeviceInv ==
  ~efdClosed =>
    /\ unsafeCounts = pipe + IF loop = "count" THEN 1 ELSE 0
    /\ unsafeCounts \in {0, 1}

\* start() runs under the lock, and hands over the loop once.
StartInv ==
  /\ \A c \in Callers : pc[c] \in {"locked", "spawn", "wait"} <=> lock = c
  /\ startBarrier <=> loop \notin {"absent", "queued"}
  /\ \A c \in Callers : pc[c] = "spawn" => loop = "absent"
  /\ loop = "queued" => \E c \in Callers : pc[c] = "wait"
  /\ \A c \in Callers : pc[c] = "put" => arg[c] \in Tasks

\* Before the barrier is set there is nothing for the loop to do.
NotStartedInv ==
  ~startBarrier =>
    /\ taskq = <<>>
    /\ channels = {}
    /\ \A c \in Callers : pc[c] \notin {"put", "wake", "stopWake"}

\* How far a stop has come.
StopInv ==
  /\ closed => stopPolling /\ channels = {}
  /\ selectorClosed \/ efdClosed => closed
  /\ loop \in CleaningUp \cup {"dead"} => stopPolling
  /\ \A c \in Callers : pc[c] \in CleaningUp \cup {"barrier", "stopWake"} => stopPolling
  /\ \A c \in Callers : pc[c] \in CleaningUp => channels = {}

\* Nobody cleans up while the loop polls.
QuietInv ==
  loop \in Polling => ~closed /\ \A c \in Callers : pc[c] \notin CleaningUp

\* Who will release what is not released yet.
ReleaseInv ==
  /\ \A c \in Callers : pc[c] \in {"closeSelector", "closeEfd"} => closed
  /\ loop \in {"closeSelector", "closeEfd", "dead"} => closed
  /\ closed => \/ selectorClosed
               \/ loop = "closeSelector"
               \/ \E c \in Callers : pc[c] = "closeSelector"
  /\ closed => \/ efdClosed
               \/ loop \in {"closeSelector", "closeEfd"}
               \/ \E c \in Callers : pc[c] \in {"closeSelector", "closeEfd"}

\* A loop that is going to block has been told of its work, or will be.
TaskWakeInv ==
  (loop = "select" \/ (loop = "top" /\ ~stopPolling)) /\ taskq # <<>>
    => pipe > 0 \/ \E c \in Callers : pc[c] = "wake"

StopWakeInv ==
  loop = "select" /\ stopPolling
    => pipe > 0 \/ \E c \in Callers : pc[c] \in {"barrier", "stopWake"}

\* A task is in one place: with one submitting thread, in the queue once, or done.
FreshInv ==
  /\ \A c \in Callers : arg[c] # None =>
       /\ arg[c] \notin done
       /\ \A i \in DOMAIN taskq : taskq[i] # arg[c]
       /\ \A d \in Callers : arg[d] = arg[c] => d = c
  /\ \A i \in DOMAIN taskq : taskq[i] \notin done
  /\ \A i, j \in DOMAIN taskq : taskq[i] = taskq[j] => i = j

IInv ==
  /\ TypeOK
  /\ DeviceInv
  /\ StartInv
  /\ NotStartedInv
  /\ StopInv
  /\ QuietInv
  /\ ReleaseInv
  /\ TaskWakeInv
  /\ StopWakeInv
  /\ FreshInv

-----------------------------------------------------------------------------
(* Each part is preserved by every step                                    *)

\* Every step keeps the types; a task that is queued is one that was submitted.
LEMMA TypeStep == ASSUME IInv, [Next]_vars PROVE TypeOK'
<1> USE NoneAssumption DEF CleaningUp, Polling, CallerLabels, LoopLabels, EfdTypeOK
<1>1. TypeOK /\ StartInv
  BY DEF IInv
<1>2. ASSUME NEW c \in Callers, CallerCalls(c) PROVE TypeOK'
  BY <1>1, <1>2 DEF TypeOK, StartInv, efdVars, flags, threads, CallerCalls, CallSubmit,
     CallStart, CallStop, CallExit, Goto
<1>3. ASSUME NEW c \in Callers, Check(c) PROVE TypeOK'
  BY <1>1, <1>3 DEF TypeOK, StartInv, efdVars, flags, threads, Check, Reject, Goto
<1>4. ASSUME NEW c \in Callers, Ready(c) PROVE TypeOK'
  BY <1>1, <1>4 DEF TypeOK, StartInv, efdVars, flags, threads, Ready, Started, Goto
<1>5. ASSUME NEW c \in Callers, AcquireLock(c) PROVE TypeOK'
  BY <1>1, <1>5 DEF TypeOK, StartInv, efdVars, flags, threads, AcquireLock, Goto
<1>6. ASSUME NEW c \in Callers, CheckLocked(c) PROVE TypeOK'
  BY <1>1, <1>6 DEF TypeOK, StartInv, efdVars, flags, threads, CheckLocked, Reject, Started, Goto
<1>7. ASSUME NEW c \in Callers, Spawn(c) PROVE TypeOK'
  BY <1>1, <1>7 DEF TypeOK, StartInv, efdVars, flags, threads, Spawn, Reject, Goto
<1>8. ASSUME NEW c \in Callers, AwaitBarrier(c) PROVE TypeOK'
  BY <1>1, <1>8 DEF TypeOK, StartInv, efdVars, flags, threads, AwaitBarrier, Started, Goto
<1>9. ASSUME NEW c \in Callers, Put(c) PROVE TypeOK'
  BY <1>1, <1>9 DEF TypeOK, StartInv, efdVars, flags, threads, Put, Goto
<1>10. ASSUME NEW c \in Callers, Wake(c) PROVE TypeOK'
  BY <1>1, <1>10 DEF TypeOK, StartInv, efdVars, flags, threads, Wake, UnsafeWrite, Goto
<1>11. ASSUME NEW c \in Callers, StopCheck(c) PROVE TypeOK'
  BY <1>1, <1>11 DEF TypeOK, StartInv, efdVars, flags, threads, StopCheck, StopReturns, Goto
<1>12. ASSUME NEW c \in Callers, SetStop(c) PROVE TypeOK'
  BY <1>1, <1>12 DEF TypeOK, StartInv, efdVars, flags, threads, SetStop, Goto
<1>13. ASSUME NEW c \in Callers, CheckBarrier(c) PROVE TypeOK'
  BY <1>1, <1>13 DEF TypeOK, StartInv, efdVars, flags, threads, CheckBarrier, Goto
<1>14. ASSUME NEW c \in Callers, StopWake(c) PROVE TypeOK'
  BY <1>1, <1>14 DEF TypeOK, StartInv, efdVars, flags, threads, StopWake, UnsafeWrite,
     StopReturns, Goto
<1>15. ASSUME NEW c \in Callers, Shutdown(c) PROVE TypeOK'
  BY <1>1, <1>15 DEF TypeOK, StartInv, efdVars, flags, threads, Shutdown, Goto
<1>16. ASSUME NEW c \in Callers, Join(c) PROVE TypeOK'
  BY <1>1, <1>16 DEF TypeOK, StartInv, efdVars, flags, threads, Join, Goto
<1>17. ASSUME NEW c \in Callers, CallerCleanup(c) PROVE TypeOK'
  <2>1. CASE pc[c] = "clean"
    BY <1>1, <1>17, <2>1 DEF TypeOK, StartInv, efdVars, flags, threads, CallerCleanup,
       StopReturns, Goto
  <2>2. CASE pc[c] = "mark"
    BY <1>1, <1>17, <2>2 DEF TypeOK, StartInv, efdVars, flags, threads, CallerCleanup,
       MarkClosed, Goto
  <2>3. CASE pc[c] = "closeSelector"
    BY <1>1, <1>17, <2>3 DEF TypeOK, StartInv, efdVars, flags, threads, CallerCleanup,
       CloseSelector, Goto
  <2>4. CASE pc[c] = "closeEfd"
    BY <1>1, <1>17, <2>4 DEF TypeOK, StartInv, efdVars, flags, threads, CallerCleanup,
       CloseDevice, CloseEventFD, StopReturns, Goto
  <2> QED
    BY <1>17, <2>1, <2>2, <2>3, <2>4 DEF CallerCleanup
<1>18. CASE LoopCleanup
  <2>1. CASE loop = "clean"
    BY <1>1, <1>18, <2>1 DEF TypeOK, StartInv, efdVars, flags, threads, LoopCleanup
  <2>2. CASE loop = "mark"
    BY <1>1, <1>18, <2>2 DEF TypeOK, StartInv, efdVars, flags, threads, LoopCleanup, MarkClosed
  <2>3. CASE loop = "closeSelector"
    BY <1>1, <1>18, <2>3 DEF TypeOK, StartInv, efdVars, flags, threads, LoopCleanup, CloseSelector
  <2>4. CASE loop = "closeEfd"
    BY <1>1, <1>18, <2>4 DEF TypeOK, StartInv, efdVars, flags, threads, LoopCleanup,
       CloseDevice, CloseEventFD
  <2> QED
    BY <1>18, <2>1, <2>2, <2>3, <2>4 DEF LoopCleanup
<1>19. CASE LoopStarts
  BY <1>1, <1>19 DEF TypeOK, StartInv, efdVars, flags, threads, LoopStarts
<1>20. CASE LoopTop
  BY <1>1, <1>20 DEF TypeOK, StartInv, efdVars, flags, threads, LoopTop
<1>21. CASE QueueDrained
  BY <1>1, <1>21 DEF TypeOK, StartInv, efdVars, flags, threads, QueueDrained
<1>22. CASE LoopWakes \/ LoopCounts \/ LoopPollsIO
  BY <1>1, <1>22 DEF TypeOK, StartInv, efdVars, flags, threads, LoopWakes, LoopCounts,
     LoopPollsIO, UnsafeReadByte, UnsafeReadCount
<1>23. CASE RunTask
  BY <1>1, <1>23 DEF TypeOK, StartInv, efdVars, flags, threads, RunTask, UserCode
<1>24. CASE LoopHandles
  BY <1>1, <1>24 DEF TypeOK, StartInv, efdVars, flags, threads, LoopHandles, UserCode
<1>25. CASE \E t \in Tasks : LoopSubmits(t)
  BY <1>1, <1>25 DEF TypeOK, StartInv, efdVars, flags, threads, LoopSubmits, UnsafeWrite
<1>26. CASE LoopStops
  BY <1>1, <1>26 DEF TypeOK, StartInv, efdVars, flags, threads, LoopStops, UnsafeWrite
<1>27. CASE UNCHANGED vars
  BY <1>1, <1>27 DEF TypeOK, StartInv, vars, efdVars, flags, threads
<1> QED
  BY <1>2, <1>3, <1>4, <1>5, <1>6, <1>7, <1>8, <1>9, <1>10, <1>11, <1>12, <1>13, <1>14, <1>15,
     <1>16, <1>17, <1>18, <1>19, <1>20, <1>21, <1>22, <1>23, <1>24, <1>25, <1>26, <1>27 DEF Next,
     CallerStep, LoopStep, LoopUserCalls

\* unsafe_write and the two halves of unsafe_read keep the count of the device right.
LEMMA DeviceStep == ASSUME IInv, [Next]_vars PROVE DeviceInv'
<1> USE NoneAssumption DEF CleaningUp, Polling, CallerLabels, LoopLabels, EfdTypeOK
<1>1. TypeOK /\ DeviceInv /\ StartInv /\ StopInv /\ QuietInv
  BY DEF IInv
<1>2. ASSUME NEW c \in Callers, CallerCalls(c) PROVE DeviceInv'
  BY <1>1, <1>2 DEF TypeOK, DeviceInv, StartInv, StopInv, QuietInv, efdVars, flags, threads,
     CallerCalls, CallSubmit, CallStart, CallStop, CallExit, Goto
<1>3. ASSUME NEW c \in Callers, Check(c) \/ Ready(c) \/ AcquireLock(c) PROVE DeviceInv'
  BY <1>1, <1>3 DEF TypeOK, DeviceInv, StartInv, StopInv, QuietInv, efdVars, flags, threads,
     Check, Ready, AcquireLock, Reject, Started, Goto
<1>4. ASSUME NEW c \in Callers, CheckLocked(c) \/ Spawn(c) \/ AwaitBarrier(c) PROVE DeviceInv'
  BY <1>1, <1>4 DEF TypeOK, DeviceInv, StartInv, StopInv, QuietInv, efdVars, flags, threads,
     CheckLocked, Spawn, AwaitBarrier, Reject, Started, Goto
<1>5. ASSUME NEW c \in Callers, Put(c) PROVE DeviceInv'
  BY <1>1, <1>5 DEF TypeOK, DeviceInv, StartInv, StopInv, QuietInv, efdVars, flags, threads,
     Put, Goto
<1>6. ASSUME NEW c \in Callers, Wake(c) PROVE DeviceInv'
  BY <1>1, <1>6 DEF TypeOK, DeviceInv, StartInv, StopInv, QuietInv, efdVars, flags, threads,
     Wake, UnsafeWrite, Goto
<1>7. ASSUME NEW c \in Callers, StopCheck(c) \/ SetStop(c) \/ CheckBarrier(c) PROVE DeviceInv'
  BY <1>1, <1>7 DEF TypeOK, DeviceInv, StartInv, StopInv, QuietInv, efdVars, flags, threads,
     StopCheck, SetStop, CheckBarrier, StopReturns, Goto
<1>8. ASSUME NEW c \in Callers, StopWake(c) PROVE DeviceInv'
  BY <1>1, <1>8 DEF TypeOK, DeviceInv, StartInv, StopInv, QuietInv, efdVars, flags, threads,
     StopWake, UnsafeWrite, StopReturns, Goto
<1>9. ASSUME NEW c \in Callers, Shutdown(c) \/ Join(c) PROVE DeviceInv'
  BY <1>1, <1>9 DEF TypeOK, DeviceInv, StartInv, StopInv, QuietInv, efdVars, flags, threads,
     Shutdown, Join, Goto
<1>10. ASSUME NEW c \in Callers, CallerCleanup(c) PROVE DeviceInv'
  BY <1>1, <1>10 DEF TypeOK, DeviceInv, StartInv, StopInv, QuietInv, efdVars, flags, threads,
     CallerCleanup, MarkClosed, CloseSelector, CloseDevice, CloseEventFD, StopReturns, Goto
<1>11. CASE LoopCleanup
  BY <1>1, <1>11 DEF TypeOK, DeviceInv, StartInv, StopInv, QuietInv, efdVars, flags, threads,
     LoopCleanup, MarkClosed, CloseSelector, CloseDevice, CloseEventFD
<1>12. CASE LoopStarts \/ LoopTop \/ QueueDrained
  BY <1>1, <1>12 DEF TypeOK, DeviceInv, StartInv, StopInv, QuietInv, efdVars, flags, threads,
     LoopStarts, LoopTop, QueueDrained
<1>13. CASE LoopWakes \/ LoopCounts \/ LoopPollsIO
  BY <1>1, <1>13 DEF TypeOK, DeviceInv, StartInv, StopInv, QuietInv, efdVars, flags, threads,
     LoopWakes, LoopCounts, LoopPollsIO, UnsafeReadByte, UnsafeReadCount
<1>14. CASE RunTask \/ LoopHandles
  BY <1>1, <1>14 DEF TypeOK, DeviceInv, StartInv, StopInv, QuietInv, efdVars, flags, threads,
     RunTask, LoopHandles, UserCode
<1>15. CASE (\E t \in Tasks : LoopSubmits(t)) \/ LoopStops
  BY <1>1, <1>15 DEF TypeOK, DeviceInv, StartInv, StopInv, QuietInv, efdVars, flags, threads,
     LoopSubmits, LoopStops, UnsafeWrite
<1>16. CASE UNCHANGED vars
  BY <1>1, <1>16 DEF TypeOK, DeviceInv, StartInv, StopInv, QuietInv, vars, efdVars, flags, threads
<1> QED
  BY <1>2, <1>3, <1>4, <1>5, <1>6, <1>7, <1>8, <1>9, <1>10, <1>11, <1>12, <1>13, <1>14, <1>15,
     <1>16 DEF Next, CallerStep, LoopStep, LoopUserCalls

\* start() hands the loop over under the lock, by one thread, once.
LEMMA StartStep == ASSUME IInv, [Next]_vars PROVE StartInv'
<1> USE NoneAssumption DEF CleaningUp, Polling, CallerLabels, LoopLabels, EfdTypeOK
<1>1. TypeOK /\ StartInv
  BY DEF IInv
<1>2. ASSUME NEW c \in Callers, CallerCalls(c) PROVE StartInv'
  BY <1>1, <1>2 DEF TypeOK, StartInv, efdVars, flags, threads, CallerCalls, CallSubmit,
     CallStart, CallStop, CallExit, Goto
<1>3. ASSUME NEW c \in Callers, Check(c) \/ Ready(c) \/ AcquireLock(c) PROVE StartInv'
  BY <1>1, <1>3 DEF TypeOK, StartInv, efdVars, flags, threads, Check, Ready, AcquireLock,
     Reject, Started, Goto
<1>4. ASSUME NEW c \in Callers, CheckLocked(c) \/ Spawn(c) \/ AwaitBarrier(c) PROVE StartInv'
  BY <1>1, <1>4 DEF TypeOK, StartInv, efdVars, flags, threads, CheckLocked, Spawn, AwaitBarrier,
     Reject, Started, Goto
<1>5. ASSUME NEW c \in Callers, Put(c) PROVE StartInv'
  BY <1>1, <1>5 DEF TypeOK, StartInv, efdVars, flags, threads, Put, Goto
<1>6. ASSUME NEW c \in Callers, Wake(c) PROVE StartInv'
  BY <1>1, <1>6 DEF TypeOK, StartInv, efdVars, flags, threads, Wake, UnsafeWrite, Goto
<1>7. ASSUME NEW c \in Callers, StopCheck(c) \/ SetStop(c) \/ CheckBarrier(c) PROVE StartInv'
  BY <1>1, <1>7 DEF TypeOK, StartInv, efdVars, flags, threads, StopCheck, SetStop, CheckBarrier,
     StopReturns, Goto
<1>8. ASSUME NEW c \in Callers, StopWake(c) PROVE StartInv'
  BY <1>1, <1>8 DEF TypeOK, StartInv, efdVars, flags, threads, StopWake, UnsafeWrite,
     StopReturns, Goto
<1>9. ASSUME NEW c \in Callers, Shutdown(c) \/ Join(c) PROVE StartInv'
  BY <1>1, <1>9 DEF TypeOK, StartInv, efdVars, flags, threads, Shutdown, Join, Goto
<1>10. ASSUME NEW c \in Callers, CallerCleanup(c) PROVE StartInv'
  BY <1>1, <1>10 DEF TypeOK, StartInv, efdVars, flags, threads, CallerCleanup, MarkClosed,
     CloseSelector, CloseDevice, CloseEventFD, StopReturns, Goto
<1>11. CASE LoopCleanup
  BY <1>1, <1>11 DEF TypeOK, StartInv, efdVars, flags, threads, LoopCleanup, MarkClosed,
     CloseSelector, CloseDevice, CloseEventFD
<1>12. CASE LoopStarts \/ LoopTop \/ QueueDrained
  BY <1>1, <1>12 DEF TypeOK, StartInv, efdVars, flags, threads, LoopStarts, LoopTop, QueueDrained
<1>13. CASE LoopWakes \/ LoopCounts \/ LoopPollsIO
  BY <1>1, <1>13 DEF TypeOK, StartInv, efdVars, flags, threads, LoopWakes, LoopCounts,
     LoopPollsIO, UnsafeReadByte, UnsafeReadCount
<1>14. CASE RunTask \/ LoopHandles
  BY <1>1, <1>14 DEF TypeOK, StartInv, efdVars, flags, threads, RunTask, LoopHandles, UserCode
<1>15. CASE (\E t \in Tasks : LoopSubmits(t)) \/ LoopStops
  BY <1>1, <1>15 DEF TypeOK, StartInv, efdVars, flags, threads, LoopSubmits, LoopStops,
     UnsafeWrite
<1>16. CASE UNCHANGED vars
  BY <1>1, <1>16 DEF TypeOK, StartInv, vars, efdVars, flags, threads
<1> QED
  BY <1>2, <1>3, <1>4, <1>5, <1>6, <1>7, <1>8, <1>9, <1>10, <1>11, <1>12, <1>13, <1>14, <1>15,
     <1>16 DEF Next, CallerStep, LoopStep, LoopUserCalls

\* Nothing is queued or registered before the loop thread has set the barrier.
LEMMA NotStartedStep == ASSUME IInv, [Next]_vars PROVE NotStartedInv'
<1> USE NoneAssumption DEF CleaningUp, Polling, CallerLabels, LoopLabels, EfdTypeOK
<1>1. TypeOK /\ StartInv /\ NotStartedInv
  BY DEF IInv
<1>2. ASSUME NEW c \in Callers, CallerCalls(c) PROVE NotStartedInv'
  BY <1>1, <1>2 DEF TypeOK, StartInv, NotStartedInv, efdVars, flags, threads, CallerCalls,
     CallSubmit, CallStart, CallStop, CallExit, Goto
<1>3. ASSUME NEW c \in Callers, Check(c) \/ Ready(c) \/ AcquireLock(c) PROVE NotStartedInv'
  BY <1>1, <1>3 DEF TypeOK, StartInv, NotStartedInv, efdVars, flags, threads, Check, Ready,
     AcquireLock, Reject, Started, Goto
<1>4. ASSUME NEW c \in Callers, CheckLocked(c) \/ Spawn(c) \/ AwaitBarrier(c) PROVE NotStartedInv'
  BY <1>1, <1>4 DEF TypeOK, StartInv, NotStartedInv, efdVars, flags, threads, CheckLocked,
     Spawn, AwaitBarrier, Reject, Started, Goto
<1>5. ASSUME NEW c \in Callers, Put(c) PROVE NotStartedInv'
  BY <1>1, <1>5 DEF TypeOK, StartInv, NotStartedInv, efdVars, flags, threads, Put, Goto
<1>6. ASSUME NEW c \in Callers, Wake(c) PROVE NotStartedInv'
  BY <1>1, <1>6 DEF TypeOK, StartInv, NotStartedInv, efdVars, flags, threads, Wake, UnsafeWrite,
     Goto
<1>7. ASSUME NEW c \in Callers, StopCheck(c) \/ SetStop(c) \/ CheckBarrier(c) PROVE NotStartedInv'
  BY <1>1, <1>7 DEF TypeOK, StartInv, NotStartedInv, efdVars, flags, threads, StopCheck,
     SetStop, CheckBarrier, StopReturns, Goto
<1>8. ASSUME NEW c \in Callers, StopWake(c) PROVE NotStartedInv'
  BY <1>1, <1>8 DEF TypeOK, StartInv, NotStartedInv, efdVars, flags, threads, StopWake,
     UnsafeWrite, StopReturns, Goto
<1>9. ASSUME NEW c \in Callers, Shutdown(c) \/ Join(c) PROVE NotStartedInv'
  BY <1>1, <1>9 DEF TypeOK, StartInv, NotStartedInv, efdVars, flags, threads, Shutdown, Join, Goto
<1>10. ASSUME NEW c \in Callers, CallerCleanup(c) PROVE NotStartedInv'
  BY <1>1, <1>10 DEF TypeOK, StartInv, NotStartedInv, efdVars, flags, threads, CallerCleanup,
     MarkClosed, CloseSelector, CloseDevice, CloseEventFD, StopReturns, Goto
<1>11. CASE LoopCleanup
  BY <1>1, <1>11 DEF TypeOK, StartInv, NotStartedInv, efdVars, flags, threads, LoopCleanup,
     MarkClosed, CloseSelector, CloseDevice, CloseEventFD
<1>12. CASE LoopStarts \/ LoopTop \/ QueueDrained
  BY <1>1, <1>12 DEF TypeOK, StartInv, NotStartedInv, efdVars, flags, threads, LoopStarts,
     LoopTop, QueueDrained
<1>13. CASE LoopWakes \/ LoopCounts \/ LoopPollsIO
  BY <1>1, <1>13 DEF TypeOK, StartInv, NotStartedInv, efdVars, flags, threads, LoopWakes,
     LoopCounts, LoopPollsIO, UnsafeReadByte, UnsafeReadCount
<1>14. CASE RunTask \/ LoopHandles
  BY <1>1, <1>14 DEF TypeOK, StartInv, NotStartedInv, efdVars, flags, threads, RunTask,
     LoopHandles, UserCode
<1>15. CASE (\E t \in Tasks : LoopSubmits(t)) \/ LoopStops
  BY <1>1, <1>15 DEF TypeOK, StartInv, NotStartedInv, efdVars, flags, threads, LoopSubmits,
     LoopStops, UnsafeWrite
<1>16. CASE UNCHANGED vars
  BY <1>1, <1>16 DEF TypeOK, StartInv, NotStartedInv, vars, efdVars, flags, threads
<1> QED
  BY <1>2, <1>3, <1>4, <1>5, <1>6, <1>7, <1>8, <1>9, <1>10, <1>11, <1>12, <1>13, <1>14, <1>15,
     <1>16 DEF Next, CallerStep, LoopStep, LoopUserCalls

\* What is closed was stopped before, and a closed loop has no channels.
LEMMA StopStep == ASSUME IInv, [Next]_vars PROVE StopInv'
<1> USE NoneAssumption DEF CleaningUp, Polling, CallerLabels, LoopLabels, EfdTypeOK
<1>1. TypeOK /\ StartInv /\ NotStartedInv /\ StopInv /\ QuietInv /\ ReleaseInv
  BY DEF IInv
<1>2. ASSUME NEW c \in Callers, CallerCalls(c) PROVE StopInv'
  BY <1>1, <1>2 DEF TypeOK, StartInv, NotStartedInv, StopInv, QuietInv, ReleaseInv, efdVars,
     flags, threads, CallerCalls, CallSubmit, CallStart, CallStop, CallExit, Goto
<1>3. ASSUME NEW c \in Callers, Check(c) \/ Ready(c) \/ AcquireLock(c) PROVE StopInv'
  BY <1>1, <1>3 DEF TypeOK, StartInv, NotStartedInv, StopInv, QuietInv, ReleaseInv, efdVars,
     flags, threads, Check, Ready, AcquireLock, Reject, Started, Goto
<1>4. ASSUME NEW c \in Callers, CheckLocked(c) \/ Spawn(c) \/ AwaitBarrier(c) PROVE StopInv'
  BY <1>1, <1>4 DEF TypeOK, StartInv, NotStartedInv, StopInv, QuietInv, ReleaseInv, efdVars,
     flags, threads, CheckLocked, Spawn, AwaitBarrier, Reject, Started, Goto
<1>5. ASSUME NEW c \in Callers, Put(c) PROVE StopInv'
  BY <1>1, <1>5 DEF TypeOK, StartInv, NotStartedInv, StopInv, QuietInv, ReleaseInv, efdVars,
     flags, threads, Put, Goto
<1>6. ASSUME NEW c \in Callers, Wake(c) PROVE StopInv'
  BY <1>1, <1>6 DEF TypeOK, StartInv, NotStartedInv, StopInv, QuietInv, ReleaseInv, efdVars,
     flags, threads, Wake, UnsafeWrite, Goto
<1>7. ASSUME NEW c \in Callers, StopCheck(c) \/ SetStop(c) \/ CheckBarrier(c) PROVE StopInv'
  BY <1>1, <1>7 DEF TypeOK, StartInv, NotStartedInv, StopInv, QuietInv, ReleaseInv, efdVars,
     flags, threads, StopCheck, SetStop, CheckBarrier, StopReturns, Goto
<1>8. ASSUME NEW c \in Callers, StopWake(c) PROVE StopInv'
  BY <1>1, <1>8 DEF TypeOK, StartInv, NotStartedInv, StopInv, QuietInv, ReleaseInv, efdVars,
     flags, threads, StopWake, UnsafeWrite, StopReturns, Goto
<1>9. ASSUME NEW c \in Callers, Shutdown(c) \/ Join(c) PROVE StopInv'
  BY <1>1, <1>9 DEF TypeOK, StartInv, NotStartedInv, StopInv, QuietInv, ReleaseInv, efdVars,
     flags, threads, Shutdown, Join, Goto
<1>10. ASSUME NEW c \in Callers, CallerCleanup(c) PROVE StopInv'
  <2>1. CASE pc[c] = "clean"
    BY <1>1, <1>10, <2>1 DEF TypeOK, StartInv, NotStartedInv, StopInv, QuietInv, ReleaseInv,
       efdVars, flags, threads, CallerCleanup, StopReturns, Goto
  <2>2. CASE pc[c] = "mark"
    BY <1>1, <1>10, <2>2 DEF TypeOK, StartInv, NotStartedInv, StopInv, QuietInv, ReleaseInv,
       efdVars, flags, threads, CallerCleanup, MarkClosed, Goto
  <2>3. CASE pc[c] = "closeSelector"
    BY <1>1, <1>10, <2>3 DEF TypeOK, StartInv, NotStartedInv, StopInv, QuietInv, ReleaseInv,
       efdVars, flags, threads, CallerCleanup, CloseSelector, Goto
  <2>4. CASE pc[c] = "closeEfd"
    BY <1>1, <1>10, <2>4 DEF TypeOK, StartInv, NotStartedInv, StopInv, QuietInv, ReleaseInv,
       efdVars, flags, threads, CallerCleanup, CloseDevice, CloseEventFD, StopReturns, Goto
  <2> QED
    BY <1>10, <2>1, <2>2, <2>3, <2>4 DEF CallerCleanup
<1>11. CASE LoopCleanup
  <2>1. CASE loop = "clean"
    BY <1>1, <1>11, <2>1 DEF TypeOK, StartInv, NotStartedInv, StopInv, QuietInv, ReleaseInv,
       efdVars, flags, threads, LoopCleanup
  <2>2. CASE loop = "mark"
    BY <1>1, <1>11, <2>2 DEF TypeOK, StartInv, NotStartedInv, StopInv, QuietInv, ReleaseInv,
       efdVars, flags, threads, LoopCleanup, MarkClosed
  <2>3. CASE loop = "closeSelector"
    BY <1>1, <1>11, <2>3 DEF TypeOK, StartInv, NotStartedInv, StopInv, QuietInv, ReleaseInv,
       efdVars, flags, threads, LoopCleanup, CloseSelector
  <2>4. CASE loop = "closeEfd"
    BY <1>1, <1>11, <2>4 DEF TypeOK, StartInv, NotStartedInv, StopInv, QuietInv, ReleaseInv,
       efdVars, flags, threads, LoopCleanup, CloseDevice, CloseEventFD
  <2> QED
    BY <1>11, <2>1, <2>2, <2>3, <2>4 DEF LoopCleanup
<1>12. CASE LoopStarts \/ LoopTop \/ QueueDrained
  BY <1>1, <1>12 DEF TypeOK, StartInv, NotStartedInv, StopInv, QuietInv, ReleaseInv, efdVars,
     flags, threads, LoopStarts, LoopTop, QueueDrained
<1>13. CASE LoopWakes \/ LoopCounts \/ LoopPollsIO
  BY <1>1, <1>13 DEF TypeOK, StartInv, NotStartedInv, StopInv, QuietInv, ReleaseInv, efdVars,
     flags, threads, LoopWakes, LoopCounts, LoopPollsIO, UnsafeReadByte, UnsafeReadCount
<1>14. CASE RunTask \/ LoopHandles
  BY <1>1, <1>14 DEF TypeOK, StartInv, NotStartedInv, StopInv, QuietInv, ReleaseInv, efdVars,
     flags, threads, RunTask, LoopHandles, UserCode
<1>15. CASE (\E t \in Tasks : LoopSubmits(t)) \/ LoopStops
  BY <1>1, <1>15 DEF TypeOK, StartInv, NotStartedInv, StopInv, QuietInv, ReleaseInv, efdVars,
     flags, threads, LoopSubmits, LoopStops, UnsafeWrite
<1>16. CASE UNCHANGED vars
  BY <1>1, <1>16 DEF TypeOK, StartInv, NotStartedInv, StopInv, QuietInv, ReleaseInv, vars,
     efdVars, flags, threads
<1> QED
  BY <1>2, <1>3, <1>4, <1>5, <1>6, <1>7, <1>8, <1>9, <1>10, <1>11, <1>12, <1>13, <1>14, <1>15,
     <1>16 DEF Next, CallerStep, LoopStep, LoopUserCalls

\* stop() cleans up on the caller's thread only where the loop has not started, and
\* the loop polls only where it has not seen a stop.
LEMMA QuietStep == ASSUME IInv, [Next]_vars PROVE QuietInv'
<1> USE NoneAssumption DEF CleaningUp, Polling, CallerLabels, LoopLabels, EfdTypeOK
<1>1. StartInv /\ StopInv /\ QuietInv /\ TypeOK
  BY DEF IInv
<1>2. ASSUME NEW c \in Callers, CallerCalls(c) PROVE QuietInv'
  BY <1>1, <1>2 DEF StartInv, StopInv, QuietInv, TypeOK, efdVars, flags, threads, CallerCalls,
     CallSubmit, CallStart, CallStop, CallExit, Goto
<1>3. ASSUME NEW c \in Callers, Check(c) \/ Ready(c) \/ AcquireLock(c) PROVE QuietInv'
  BY <1>1, <1>3 DEF StartInv, StopInv, QuietInv, TypeOK, efdVars, flags, threads, Check, Ready,
     AcquireLock, Reject, Started, Goto
<1>4. ASSUME NEW c \in Callers, CheckLocked(c) \/ Spawn(c) \/ AwaitBarrier(c) PROVE QuietInv'
  BY <1>1, <1>4 DEF StartInv, StopInv, QuietInv, TypeOK, efdVars, flags, threads, CheckLocked,
     Spawn, AwaitBarrier, Reject, Started, Goto
<1>5. ASSUME NEW c \in Callers, Put(c) PROVE QuietInv'
  BY <1>1, <1>5 DEF StartInv, StopInv, QuietInv, TypeOK, efdVars, flags, threads, Put, Goto
<1>6. ASSUME NEW c \in Callers, Wake(c) PROVE QuietInv'
  BY <1>1, <1>6 DEF StartInv, StopInv, QuietInv, TypeOK, efdVars, flags, threads, Wake,
     UnsafeWrite, Goto
<1>7. ASSUME NEW c \in Callers, StopCheck(c) \/ SetStop(c) \/ CheckBarrier(c) PROVE QuietInv'
  BY <1>1, <1>7 DEF StartInv, StopInv, QuietInv, TypeOK, efdVars, flags, threads, StopCheck,
     SetStop, CheckBarrier, StopReturns, Goto
<1>8. ASSUME NEW c \in Callers, StopWake(c) PROVE QuietInv'
  BY <1>1, <1>8 DEF StartInv, StopInv, QuietInv, TypeOK, efdVars, flags, threads, StopWake,
     UnsafeWrite, StopReturns, Goto
<1>9. ASSUME NEW c \in Callers, Shutdown(c) \/ Join(c) PROVE QuietInv'
  BY <1>1, <1>9 DEF StartInv, StopInv, QuietInv, TypeOK, efdVars, flags, threads, Shutdown,
     Join, Goto
<1>10. ASSUME NEW c \in Callers, CallerCleanup(c) PROVE QuietInv'
  BY <1>1, <1>10 DEF StartInv, StopInv, QuietInv, TypeOK, efdVars, flags, threads,
     CallerCleanup, MarkClosed, CloseSelector, CloseDevice, CloseEventFD, StopReturns, Goto
<1>11. CASE LoopCleanup
  BY <1>1, <1>11 DEF StartInv, StopInv, QuietInv, TypeOK, efdVars, flags, threads, LoopCleanup,
     MarkClosed, CloseSelector, CloseDevice, CloseEventFD
<1>12. CASE LoopStarts \/ LoopTop \/ QueueDrained
  BY <1>1, <1>12 DEF StartInv, StopInv, QuietInv, TypeOK, efdVars, flags, threads, LoopStarts,
     LoopTop, QueueDrained
<1>13. CASE LoopWakes \/ LoopCounts \/ LoopPollsIO
  BY <1>1, <1>13 DEF StartInv, StopInv, QuietInv, TypeOK, efdVars, flags, threads, LoopWakes,
     LoopCounts, LoopPollsIO, UnsafeReadByte, UnsafeReadCount
<1>14. CASE RunTask \/ LoopHandles
  BY <1>1, <1>14 DEF StartInv, StopInv, QuietInv, TypeOK, efdVars, flags, threads, RunTask,
     LoopHandles, UserCode
<1>15. CASE (\E t \in Tasks : LoopSubmits(t)) \/ LoopStops
  BY <1>1, <1>15 DEF StartInv, StopInv, QuietInv, TypeOK, efdVars, flags, threads, LoopSubmits,
     LoopStops, UnsafeWrite
<1>16. CASE UNCHANGED vars
  BY <1>1, <1>16 DEF StartInv, StopInv, QuietInv, TypeOK, vars, efdVars, flags, threads
<1> QED
  BY <1>2, <1>3, <1>4, <1>5, <1>6, <1>7, <1>8, <1>9, <1>10, <1>11, <1>12, <1>13, <1>14, <1>15,
     <1>16 DEF Next, CallerStep, LoopStep, LoopUserCalls

\* As long as something is not released, a thread is on its way to release it.
LEMMA ReleaseStep == ASSUME IInv, [Next]_vars PROVE ReleaseInv'
<1> USE NoneAssumption DEF CleaningUp, Polling, CallerLabels, LoopLabels, EfdTypeOK
<1>1. TypeOK /\ StartInv /\ StopInv /\ QuietInv /\ ReleaseInv
  BY DEF IInv
<1>2. ASSUME NEW c \in Callers, CallerCalls(c) PROVE ReleaseInv'
  BY <1>1, <1>2 DEF TypeOK, StartInv, StopInv, QuietInv, ReleaseInv, efdVars, flags, threads,
     CallerCalls, CallSubmit, CallStart, CallStop, CallExit, Goto
<1>3. ASSUME NEW c \in Callers, Check(c) \/ Ready(c) \/ AcquireLock(c) PROVE ReleaseInv'
  BY <1>1, <1>3 DEF TypeOK, StartInv, StopInv, QuietInv, ReleaseInv, efdVars, flags, threads,
     Check, Ready, AcquireLock, Reject, Started, Goto
<1>4. ASSUME NEW c \in Callers, CheckLocked(c) \/ Spawn(c) \/ AwaitBarrier(c) PROVE ReleaseInv'
  BY <1>1, <1>4 DEF TypeOK, StartInv, StopInv, QuietInv, ReleaseInv, efdVars, flags, threads,
     CheckLocked, Spawn, AwaitBarrier, Reject, Started, Goto
<1>5. ASSUME NEW c \in Callers, Put(c) PROVE ReleaseInv'
  BY <1>1, <1>5 DEF TypeOK, StartInv, StopInv, QuietInv, ReleaseInv, efdVars, flags, threads,
     Put, Goto
<1>6. ASSUME NEW c \in Callers, Wake(c) PROVE ReleaseInv'
  BY <1>1, <1>6 DEF TypeOK, StartInv, StopInv, QuietInv, ReleaseInv, efdVars, flags, threads,
     Wake, UnsafeWrite, Goto
<1>7. ASSUME NEW c \in Callers, StopCheck(c) \/ SetStop(c) \/ CheckBarrier(c) PROVE ReleaseInv'
  BY <1>1, <1>7 DEF TypeOK, StartInv, StopInv, QuietInv, ReleaseInv, efdVars, flags, threads,
     StopCheck, SetStop, CheckBarrier, StopReturns, Goto
<1>8. ASSUME NEW c \in Callers, StopWake(c) PROVE ReleaseInv'
  BY <1>1, <1>8 DEF TypeOK, StartInv, StopInv, QuietInv, ReleaseInv, efdVars, flags, threads,
     StopWake, UnsafeWrite, StopReturns, Goto
<1>9. ASSUME NEW c \in Callers, Shutdown(c) \/ Join(c) PROVE ReleaseInv'
  BY <1>1, <1>9 DEF TypeOK, StartInv, StopInv, QuietInv, ReleaseInv, efdVars, flags, threads,
     Shutdown, Join, Goto
<1>10. ASSUME NEW c \in Callers, CallerCleanup(c) PROVE ReleaseInv'
  BY <1>1, <1>10 DEF TypeOK, StartInv, StopInv, QuietInv, ReleaseInv, efdVars, flags, threads,
     CallerCleanup, MarkClosed, CloseSelector, CloseDevice, CloseEventFD, StopReturns, Goto
<1>11. CASE LoopCleanup
  BY <1>1, <1>11 DEF TypeOK, StartInv, StopInv, QuietInv, ReleaseInv, efdVars, flags, threads,
     LoopCleanup, MarkClosed, CloseSelector, CloseDevice, CloseEventFD
<1>12. CASE LoopStarts \/ LoopTop \/ QueueDrained
  BY <1>1, <1>12 DEF TypeOK, StartInv, StopInv, QuietInv, ReleaseInv, efdVars, flags, threads,
     LoopStarts, LoopTop, QueueDrained
<1>13. CASE LoopWakes \/ LoopCounts \/ LoopPollsIO
  BY <1>1, <1>13 DEF TypeOK, StartInv, StopInv, QuietInv, ReleaseInv, efdVars, flags, threads,
     LoopWakes, LoopCounts, LoopPollsIO, UnsafeReadByte, UnsafeReadCount
<1>14. CASE RunTask \/ LoopHandles
  BY <1>1, <1>14 DEF TypeOK, StartInv, StopInv, QuietInv, ReleaseInv, efdVars, flags, threads,
     RunTask, LoopHandles, UserCode
<1>15. CASE (\E t \in Tasks : LoopSubmits(t)) \/ LoopStops
  BY <1>1, <1>15 DEF TypeOK, StartInv, StopInv, QuietInv, ReleaseInv, efdVars, flags, threads,
     LoopSubmits, LoopStops, UnsafeWrite
<1>16. CASE UNCHANGED vars
  BY <1>1, <1>16 DEF TypeOK, StartInv, StopInv, QuietInv, ReleaseInv, vars, efdVars, flags,
     threads
<1> QED
  BY <1>2, <1>3, <1>4, <1>5, <1>6, <1>7, <1>8, <1>9, <1>10, <1>11, <1>12, <1>13, <1>14, <1>15,
     <1>16 DEF Next, CallerStep, LoopStep, LoopUserCalls

\* A task is queued before the device is written, and the device is counted down
\* before the queue is drained.
LEMMA TaskWakeStep == ASSUME IInv, [Next]_vars PROVE TaskWakeInv'
<1> USE NoneAssumption DEF CleaningUp, Polling, CallerLabels, LoopLabels, EfdTypeOK
<1>1. TypeOK /\ DeviceInv /\ StartInv /\ NotStartedInv /\ StopInv /\ QuietInv /\ TaskWakeInv
  BY DEF IInv
<1>2. ASSUME NEW c \in Callers, CallerCalls(c) PROVE TaskWakeInv'
  BY <1>1, <1>2 DEF TypeOK, DeviceInv, StartInv, NotStartedInv, StopInv, QuietInv, TaskWakeInv,
     efdVars, flags, threads, CallerCalls, CallSubmit, CallStart, CallStop, CallExit, Goto
<1>3. ASSUME NEW c \in Callers, Check(c) \/ Ready(c) \/ AcquireLock(c) PROVE TaskWakeInv'
  BY <1>1, <1>3 DEF TypeOK, DeviceInv, StartInv, NotStartedInv, StopInv, QuietInv, TaskWakeInv,
     efdVars, flags, threads, Check, Ready, AcquireLock, Reject, Started, Goto
<1>4. ASSUME NEW c \in Callers, CheckLocked(c) \/ Spawn(c) \/ AwaitBarrier(c) PROVE TaskWakeInv'
  BY <1>1, <1>4 DEF TypeOK, DeviceInv, StartInv, NotStartedInv, StopInv, QuietInv, TaskWakeInv,
     efdVars, flags, threads, CheckLocked, Spawn, AwaitBarrier, Reject, Started, Goto
<1>5. ASSUME NEW c \in Callers, Put(c) PROVE TaskWakeInv'
  BY <1>1, <1>5 DEF TypeOK, DeviceInv, StartInv, NotStartedInv, StopInv, QuietInv, TaskWakeInv,
     efdVars, flags, threads, Put, Goto
<1>6. ASSUME NEW c \in Callers, Wake(c) PROVE TaskWakeInv'
  BY <1>1, <1>6 DEF TypeOK, DeviceInv, StartInv, NotStartedInv, StopInv, QuietInv, TaskWakeInv,
     efdVars, flags, threads, Wake, UnsafeWrite, Goto
<1>7. ASSUME NEW c \in Callers, StopCheck(c) \/ SetStop(c) \/ CheckBarrier(c) PROVE TaskWakeInv'
  BY <1>1, <1>7 DEF TypeOK, DeviceInv, StartInv, NotStartedInv, StopInv, QuietInv, TaskWakeInv,
     efdVars, flags, threads, StopCheck, SetStop, CheckBarrier, StopReturns, Goto
<1>8. ASSUME NEW c \in Callers, StopWake(c) PROVE TaskWakeInv'
  BY <1>1, <1>8 DEF TypeOK, DeviceInv, StartInv, NotStartedInv, StopInv, QuietInv, TaskWakeInv,
     efdVars, flags, threads, StopWake, UnsafeWrite, StopReturns, Goto
<1>9. ASSUME NEW c \in Callers, Shutdown(c) \/ Join(c) PROVE TaskWakeInv'
  BY <1>1, <1>9 DEF TypeOK, DeviceInv, StartInv, NotStartedInv, StopInv, QuietInv, TaskWakeInv,
     efdVars, flags, threads, Shutdown, Join, Goto
<1>10. ASSUME NEW c \in Callers, CallerCleanup(c) PROVE TaskWakeInv'
  BY <1>1, <1>10 DEF TypeOK, DeviceInv, StartInv, NotStartedInv, StopInv, QuietInv, TaskWakeInv,
     efdVars, flags, threads, CallerCleanup, MarkClosed, CloseSelector, CloseDevice, CloseEventFD,
     StopReturns, Goto
<1>11. CASE LoopCleanup
  BY <1>1, <1>11 DEF TypeOK, DeviceInv, StartInv, NotStartedInv, StopInv, QuietInv, TaskWakeInv,
     efdVars, flags, threads, LoopCleanup, MarkClosed, CloseSelector, CloseDevice, CloseEventFD
<1>12. CASE LoopStarts \/ LoopTop \/ QueueDrained
  BY <1>1, <1>12 DEF TypeOK, DeviceInv, StartInv, NotStartedInv, StopInv, QuietInv, TaskWakeInv,
     efdVars, flags, threads, LoopStarts, LoopTop, QueueDrained
<1>13. CASE LoopWakes \/ LoopCounts \/ LoopPollsIO
  BY <1>1, <1>13 DEF TypeOK, DeviceInv, StartInv, NotStartedInv, StopInv, QuietInv, TaskWakeInv,
     efdVars, flags, threads, LoopWakes, LoopCounts, LoopPollsIO, UnsafeReadByte, UnsafeReadCount
<1>14. CASE RunTask \/ LoopHandles
  BY <1>1, <1>14 DEF TypeOK, DeviceInv, StartInv, NotStartedInv, StopInv, QuietInv, TaskWakeInv,
     efdVars, flags, threads, RunTask, LoopHandles, UserCode
<1>15. CASE (\E t \in Tasks : LoopSubmits(t)) \/ LoopStops
  BY <1>1, <1>15 DEF TypeOK, DeviceInv, StartInv, NotStartedInv, StopInv, QuietInv, TaskWakeInv,
     efdVars, flags, threads, LoopSubmits, LoopStops, UnsafeWrite
<1>16. CASE UNCHANGED vars
  BY <1>1, <1>16 DEF TypeOK, DeviceInv, StartInv, NotStartedInv, StopInv, QuietInv, TaskWakeInv,
     vars, efdVars, flags, threads
<1> QED
  BY <1>2, <1>3, <1>4, <1>5, <1>6, <1>7, <1>8, <1>9, <1>10, <1>11, <1>12, <1>13, <1>14, <1>15,
     <1>16 DEF Next, CallerStep, LoopStep, LoopUserCalls

\* The flag is set before the device is written.
LEMMA StopWakeStep == ASSUME IInv, [Next]_vars PROVE StopWakeInv'
<1> USE NoneAssumption DEF CleaningUp, Polling, CallerLabels, LoopLabels, EfdTypeOK
<1>1. TypeOK /\ DeviceInv /\ StartInv /\ StopInv /\ QuietInv /\ StopWakeInv
  BY DEF IInv
<1>2. ASSUME NEW c \in Callers, CallerCalls(c) PROVE StopWakeInv'
  BY <1>1, <1>2 DEF TypeOK, DeviceInv, StartInv, StopInv, QuietInv, StopWakeInv, efdVars, flags,
     threads, CallerCalls, CallSubmit, CallStart, CallStop, CallExit, Goto
<1>3. ASSUME NEW c \in Callers, Check(c) PROVE StopWakeInv'
  BY <1>1, <1>3 DEF TypeOK, DeviceInv, StartInv, StopInv, QuietInv, StopWakeInv, efdVars, flags,
     threads, Check, Reject, Goto
<1>4. ASSUME NEW c \in Callers, Ready(c) PROVE StopWakeInv'
  BY <1>1, <1>4 DEF TypeOK, DeviceInv, StartInv, StopInv, QuietInv, StopWakeInv, efdVars, flags,
     threads, Ready, Started, Goto
<1>5. ASSUME NEW c \in Callers, AcquireLock(c) PROVE StopWakeInv'
  BY <1>1, <1>5 DEF TypeOK, DeviceInv, StartInv, StopInv, QuietInv, StopWakeInv, efdVars, flags,
     threads, AcquireLock, Goto
<1>6. ASSUME NEW c \in Callers, CheckLocked(c) PROVE StopWakeInv'
  BY <1>1, <1>6 DEF TypeOK, DeviceInv, StartInv, StopInv, QuietInv, StopWakeInv, efdVars, flags,
     threads, CheckLocked, Reject, Started, Goto
<1>7. ASSUME NEW c \in Callers, Spawn(c) PROVE StopWakeInv'
  BY <1>1, <1>7 DEF TypeOK, DeviceInv, StartInv, StopInv, QuietInv, StopWakeInv, efdVars, flags,
     threads, Spawn, Reject, Goto
<1>8. ASSUME NEW c \in Callers, AwaitBarrier(c) PROVE StopWakeInv'
  BY <1>1, <1>8 DEF TypeOK, DeviceInv, StartInv, StopInv, QuietInv, StopWakeInv, efdVars, flags,
     threads, AwaitBarrier, Started, Goto
<1>9. ASSUME NEW c \in Callers, Put(c) PROVE StopWakeInv'
  BY <1>1, <1>9 DEF TypeOK, DeviceInv, StartInv, StopInv, QuietInv, StopWakeInv, efdVars, flags,
     threads, Put, Goto
<1>10. ASSUME NEW c \in Callers, Wake(c) PROVE StopWakeInv'
  BY <1>1, <1>10 DEF TypeOK, DeviceInv, StartInv, StopInv, QuietInv, StopWakeInv, efdVars,
     flags, threads, Wake, UnsafeWrite, Goto
<1>11. ASSUME NEW c \in Callers, StopCheck(c) PROVE StopWakeInv'
  BY <1>1, <1>11 DEF TypeOK, DeviceInv, StartInv, StopInv, QuietInv, StopWakeInv, efdVars,
     flags, threads, StopCheck, StopReturns, Goto
<1>12. ASSUME NEW c \in Callers, SetStop(c) PROVE StopWakeInv'
  BY <1>1, <1>12 DEF TypeOK, DeviceInv, StartInv, StopInv, QuietInv, StopWakeInv, efdVars,
     flags, threads, SetStop, Goto
<1>13. ASSUME NEW c \in Callers, CheckBarrier(c) PROVE StopWakeInv'
  BY <1>1, <1>13 DEF TypeOK, DeviceInv, StartInv, StopInv, QuietInv, StopWakeInv, efdVars,
     flags, threads, CheckBarrier, Goto
<1>14. ASSUME NEW c \in Callers, StopWake(c) PROVE StopWakeInv'
  BY <1>1, <1>14 DEF TypeOK, DeviceInv, StartInv, StopInv, QuietInv, StopWakeInv, efdVars,
     flags, threads, StopWake, UnsafeWrite, StopReturns, Goto
<1>15. ASSUME NEW c \in Callers, Shutdown(c) PROVE StopWakeInv'
  BY <1>1, <1>15 DEF TypeOK, DeviceInv, StartInv, StopInv, QuietInv, StopWakeInv, efdVars,
     flags, threads, Shutdown, Goto
<1>16. ASSUME NEW c \in Callers, Join(c) PROVE StopWakeInv'
  BY <1>1, <1>16 DEF TypeOK, DeviceInv, StartInv, StopInv, QuietInv, StopWakeInv, efdVars,
     flags, threads, Join, Goto
<1>17. ASSUME NEW c \in Callers, CallerCleanup(c) PROVE StopWakeInv'
  BY <1>1, <1>17 DEF TypeOK, DeviceInv, StartInv, StopInv, QuietInv, StopWakeInv, efdVars,
     flags, threads, CallerCleanup, MarkClosed, CloseSelector, CloseDevice, CloseEventFD,
     StopReturns, Goto
<1>18. CASE LoopCleanup
  BY <1>1, <1>18 DEF TypeOK, DeviceInv, StartInv, StopInv, QuietInv, StopWakeInv, efdVars,
     flags, threads, LoopCleanup, MarkClosed, CloseSelector, CloseDevice, CloseEventFD
<1>19. CASE LoopStarts
  BY <1>1, <1>19 DEF TypeOK, DeviceInv, StartInv, StopInv, QuietInv, StopWakeInv, efdVars,
     flags, threads, LoopStarts
<1>20. CASE LoopTop
  BY <1>1, <1>20 DEF TypeOK, DeviceInv, StartInv, StopInv, QuietInv, StopWakeInv, efdVars,
     flags, threads, LoopTop
<1>21. CASE QueueDrained
  BY <1>1, <1>21 DEF TypeOK, DeviceInv, StartInv, StopInv, QuietInv, StopWakeInv, efdVars,
     flags, threads, QueueDrained
<1>22. CASE LoopWakes \/ LoopCounts \/ LoopPollsIO
  BY <1>1, <1>22 DEF TypeOK, DeviceInv, StartInv, StopInv, QuietInv, StopWakeInv, efdVars,
     flags, threads, LoopWakes, LoopCounts, LoopPollsIO, UnsafeReadByte, UnsafeReadCount
<1>23. CASE RunTask
  BY <1>1, <1>23 DEF TypeOK, DeviceInv, StartInv, StopInv, QuietInv, StopWakeInv, efdVars,
     flags, threads, RunTask, UserCode
<1>24. CASE LoopHandles
  BY <1>1, <1>24 DEF TypeOK, DeviceInv, StartInv, StopInv, QuietInv, StopWakeInv, efdVars,
     flags, threads, LoopHandles, UserCode
<1>25. CASE \E t \in Tasks : LoopSubmits(t)
  BY <1>1, <1>25 DEF TypeOK, DeviceInv, StartInv, StopInv, QuietInv, StopWakeInv, efdVars,
     flags, threads, LoopSubmits, UnsafeWrite
<1>26. CASE LoopStops
  BY <1>1, <1>26 DEF TypeOK, DeviceInv, StartInv, StopInv, QuietInv, StopWakeInv, efdVars,
     flags, threads, LoopStops, UnsafeWrite
<1>27. CASE UNCHANGED vars
  BY <1>1, <1>27 DEF TypeOK, DeviceInv, StartInv, StopInv, QuietInv, StopWakeInv, vars, efdVars,
     flags, threads
<1> QED
  BY <1>2, <1>3, <1>4, <1>5, <1>6, <1>7, <1>8, <1>9, <1>10, <1>11, <1>12, <1>13, <1>14, <1>15,
     <1>16, <1>17, <1>18, <1>19, <1>20, <1>21, <1>22, <1>23, <1>24, <1>25, <1>26, <1>27 DEF Next,
     CallerStep, LoopStep, LoopUserCalls

\* No task is in two places.
LEMMA FreshStep == ASSUME IInv, [Next]_vars PROVE FreshInv'
<1> USE NoneAssumption DEF FreshInv
<1>1. TypeOK /\ StartInv /\ FreshInv
  BY DEF IInv
<1>2. ASSUME NEW c \in Callers, NEW t \in Tasks, CallSubmit(c, t) PROVE FreshInv'
  BY <1>1, <1>2 DEF TypeOK, CallSubmit, Fresh, Goto
<1>3. ASSUME NEW c \in Callers, Put(c) PROVE FreshInv'
  <2>1. arg[c] \in Tasks /\ arg[c] # None
    BY <1>1, <1>3 DEF StartInv, Put
  <2>2. /\ taskq \in Seq(Tasks)
        /\ taskq' = Append(taskq, arg[c])
        /\ arg' = [arg EXCEPT ![c] = None]
        /\ done' = done
        /\ arg \in [Callers -> Tasks \cup {None}]
    BY <1>1, <1>3 DEF TypeOK, Put
  <2>3. /\ DOMAIN taskq = 1 .. Len(taskq)
        /\ Len(taskq) \in Nat
        /\ DOMAIN taskq' = 1 .. Len(taskq) + 1
        /\ taskq'[Len(taskq) + 1] = arg[c]
        /\ \A i \in 1 .. Len(taskq) : taskq'[i] = taskq[i]
    BY <2>1, <2>2
  <2> QED
    BY <1>1, <2>1, <2>2, <2>3
<1>4. CASE RunTask
  <2>1. /\ taskq \in Seq(Tasks) /\ taskq # <<>>
        /\ taskq' = Tail(taskq)
        /\ done' = done \cup {Head(taskq)}
        /\ arg' = arg
    BY <1>1, <1>4 DEF TypeOK, RunTask, threads
  <2>2. /\ Len(taskq) \in Nat \ {0}
        /\ DOMAIN taskq = 1 .. Len(taskq)
        /\ DOMAIN taskq' = 1 .. Len(taskq) - 1
        /\ Head(taskq) = taskq[1]
        /\ \A i \in 1 .. Len(taskq) - 1 : taskq'[i] = taskq[i + 1]
    BY <2>1
  <2> QED
    BY <1>1, <2>1, <2>2
<1>5. ASSUME NEW t \in Tasks, LoopSubmits(t) PROVE FreshInv'
  <2>1. /\ taskq \in Seq(Tasks)
        /\ taskq' = Append(taskq, t)
        /\ arg' = arg
        /\ done' = done
        /\ Fresh(t)
    BY <1>1, <1>5 DEF TypeOK, LoopSubmits, threads
  <2>2. /\ DOMAIN taskq = 1 .. Len(taskq)
        /\ Len(taskq) \in Nat
        /\ DOMAIN taskq' = 1 .. Len(taskq) + 1
        /\ taskq'[Len(taskq) + 1] = t
        /\ \A i \in 1 .. Len(taskq) : taskq'[i] = taskq[i]
    BY <2>1
  <2> QED
    BY <1>1, <2>1, <2>2 DEF Fresh
<1>6. ASSUME NEW c \in Callers, CallStart(c) \/ CallStop(c) \/ CallExit(c) PROVE FreshInv'
  BY <1>1, <1>6 DEF TypeOK, flags, CallStart, CallStop, CallExit, Goto
<1>7. ASSUME NEW c \in Callers, Check(c) \/ Ready(c) \/ AcquireLock(c) PROVE FreshInv'
  BY <1>1, <1>7 DEF TypeOK, flags, Check, Ready, AcquireLock, Reject, Started, Goto
<1>8. ASSUME NEW c \in Callers, CheckLocked(c) \/ Spawn(c) \/ AwaitBarrier(c) PROVE FreshInv'
  BY <1>1, <1>8 DEF TypeOK, flags, CheckLocked, Spawn, AwaitBarrier, Reject, Started, Goto
<1>9. ASSUME NEW c \in Callers, Wake(c) \/ StopWake(c) PROVE FreshInv'
  BY <1>1, <1>9 DEF TypeOK, flags, Wake, StopWake, UnsafeWrite, StopReturns, Goto
<1>10. ASSUME NEW c \in Callers, StopCheck(c) \/ SetStop(c) \/ CheckBarrier(c) PROVE FreshInv'
  BY <1>1, <1>10 DEF TypeOK, flags, StopCheck, SetStop, CheckBarrier, StopReturns, Goto
<1>11. ASSUME NEW c \in Callers, Shutdown(c) \/ Join(c) PROVE FreshInv'
  BY <1>1, <1>11 DEF TypeOK, flags, Shutdown, Join, Goto
<1>12. ASSUME NEW c \in Callers, CallerCleanup(c) PROVE FreshInv'
  BY <1>1, <1>12 DEF TypeOK, flags, CallerCleanup, MarkClosed, CloseSelector, CloseDevice,
     StopReturns, Goto
<1>13. CASE LoopStarts \/ LoopTop \/ LoopWakes \/ LoopCounts \/ LoopPollsIO \/ QueueDrained
  BY <1>1, <1>13 DEF LoopStarts, LoopTop, LoopWakes, LoopCounts, LoopPollsIO, QueueDrained
<1>14. CASE LoopCleanup \/ LoopHandles \/ LoopStops
  BY <1>1, <1>14 DEF LoopCleanup, LoopHandles, LoopStops, threads
<1>15. CASE UNCHANGED vars
  BY <1>1, <1>15 DEF vars, threads
<1> QED
  BY <1>2, <1>3, <1>4, <1>5, <1>6, <1>7, <1>8, <1>9, <1>10, <1>11, <1>12, <1>13, <1>14, <1>15
     DEF Next, CallerCalls, CallerStep, LoopStep, LoopUserCalls

-----------------------------------------------------------------------------
(* The theorems                                                            *)

\* A loop that has just been made satisfies the invariant.
LEMMA Initial == Init => IInv
<1> SUFFICES ASSUME Init PROVE IInv
  OBVIOUS
<1> USE DEF Init, EfdInit
<1>1. TypeOK
  <2>1. taskq \in Seq(Tasks)
    BY EmptySeq
  <2>2. pc \in [Callers -> CallerLabels] /\ arg \in [Callers -> Tasks \cup {None}]
    BY DEF CallerLabels
  <2>3. loop \in LoopLabels
    BY DEF LoopLabels
  <2>4. EfdTypeOK
    <3>1. pipe \in Nat
      OBVIOUS
    <3>2. unsafeCounts \in Int
      OBVIOUS
    <3>3. efdClosed \in BOOLEAN
      OBVIOUS
    <3> QED
      BY <3>1, <3>2, <3>3 DEF EfdTypeOK
  <2> QED
    BY <2>1, <2>2, <2>3, <2>4 DEF TypeOK
<1>2. DeviceInv /\ StartInv /\ NotStartedInv
  BY NoneAssumption DEF DeviceInv, StartInv, NotStartedInv
<1>3. StopInv /\ QuietInv /\ ReleaseInv
  BY DEF StopInv, QuietInv, ReleaseInv, CleaningUp, Polling
<1>4. TaskWakeInv /\ StopWakeInv /\ FreshInv
  BY DEF TaskWakeInv, StopWakeInv, FreshInv
<1> QED
  BY <1>1, <1>2, <1>3, <1>4 DEF IInv

\* The invariant all the safety properties follow from holds in every reachable
\* state of the event loop.
THEOREM Invariance == Spec => []IInv
<1>1. IInv /\ [Next]_vars => IInv'
  BY TypeStep, DeviceStep, StartStep, NotStartedStep, StopStep, QuietStep, ReleaseStep,
     TaskWakeStep, StopWakeStep, FreshStep DEF IInv
<1> QED
  BY Initial, <1>1, PTL DEF Spec

\* The flags, queue, lock and labels of eventloop.py keep their types.
THEOREM TypeCorrect == Spec => []TypeOK
<1>1. IInv => TypeOK
  BY DEF IInv
<1> QED
  BY Invariance, <1>1, PTL

\* submit_task, stop, unsafe_write and unsafe_read together lose no wake-up, for
\* any number of threads and tasks.
THEOREM WakeUpsAreNotLost == Spec => []NoLostWakeup
<1>1. IInv => NoLostWakeup
  BY DEF IInv, TaskWakeInv, StopWakeInv, NoLostWakeup, WakePending
<1> QED
  BY Invariance, <1>1, PTL

\* No thread closes the selector or the device while the loop polls or runs
\* callbacks (stop and _start agree through the flag and the barrier).
THEOREM LoopPollsSafely == Spec => []PollingIsSafe
<1>1. IInv => PollingIsSafe
  BY DEF IInv, StopInv, QuietInv, PollingIsSafe
<1> QED
  BY Invariance, <1>1, PTL

\* _cleanup_resources finds no channel to close when stop() runs it.
THEOREM CallersCloseNoChannel == Spec => []ForeignCleanupFindsNoChannels
<1>1. IInv => ForeignCleanupFindsNoChannels
  BY DEF IInv, StopInv, ForeignCleanupFindsNoChannels
<1> QED
  BY Invariance, <1>1, PTL

\* When the loop thread has ended and nobody cleans up, nothing is left open.
THEOREM EverythingIsReleased == Spec => []ResourcesReleased
<1>1. IInv => ResourcesReleased
  BY DEF IInv, StopInv, ReleaseInv, ResourcesReleased, CleaningUp
<1> QED
  BY Invariance, <1>1, PTL

\* start() submits _start to the pool only if nobody has.
THEOREM LoopStartsOnce == Spec => []StartedOnce
<1>1. IInv => StartedOnce
  BY DEF IInv, StartInv, StartedOnce
<1> QED
  BY Invariance, <1>1, PTL

\* Each step of the event loop is a step of the abstract executor, or none.
LEMMA ExecutorStep == ASSUME IInv, [Next]_vars PROVE [Executor!Next]_(Executor!vars)
<1> USE NoneAssumption DEF Executor!vars
<1>1. TypeOK /\ StartInv /\ StopInv /\ QuietInv /\ FreshInv /\ ReleaseInv
  BY DEF IInv
<1>2. ASSUME NEW c \in Callers, Put(c) PROVE Executor!Next
  <2>1. arg[c] \in Tasks /\ arg[c] # None
    BY <1>1, <1>2 DEF StartInv, Put
  <2>2. Executor!Accept(arg[c])
    BY <1>1, <1>2, <2>1 DEF Put, FreshInv, Executor!Accept, flags
  <2> QED
    BY <2>1, <2>2 DEF Executor!Next
<1>3. ASSUME NEW t \in Tasks, LoopSubmits(t) PROVE Executor!Next
  <2>1. Executor!Accept(t)
    BY <1>3 DEF LoopSubmits, Fresh, Executor!Accept, flags
  <2> QED
    BY <2>1 DEF Executor!Next
<1>4. CASE RunTask
  <2>1. Executor!Run
    BY <1>1, <1>4 DEF RunTask, QuietInv, Polling, Executor!Run, flags
  <2> QED
    BY <2>1 DEF Executor!Next
<1>5. ASSUME NEW c \in Callers, SetStop(c) PROVE Executor!Next \/ UNCHANGED Executor!vars
  BY <1>1, <1>5 DEF SetStop, StopInv, Executor!Stop, Executor!Next
<1>6. CASE LoopStops
  BY <1>1, <1>6 DEF LoopStops, StopInv, Executor!Stop, Executor!Next
<1>7. ASSUME NEW c \in Callers, CallerCleanup(c) PROVE Executor!Next \/ UNCHANGED Executor!vars
  BY <1>1, <1>7 DEF CallerCleanup, MarkClosed, CloseSelector, CloseDevice, flags, StopInv,
     CleaningUp, Executor!Terminate, Executor!Next
<1>8. CASE LoopCleanup
  BY <1>1, <1>8 DEF LoopCleanup, MarkClosed, CloseSelector, CloseDevice, flags, StopInv,
     CleaningUp, Executor!Terminate, Executor!Next
<1>9. ASSUME NEW c \in Callers,
             \/ CallerCalls(c) \/ Check(c) \/ Ready(c) \/ AcquireLock(c) \/ CheckLocked(c)
             \/ Spawn(c) \/ AwaitBarrier(c) \/ Wake(c)
      PROVE UNCHANGED Executor!vars
  BY <1>9 DEF CallerCalls, CallSubmit, CallStart, CallStop, CallExit, Check, Ready, AcquireLock,
     CheckLocked, Spawn, AwaitBarrier, Wake, flags
<1>10. ASSUME NEW c \in Callers,
             StopCheck(c) \/ CheckBarrier(c) \/ StopWake(c) \/ Shutdown(c) \/ Join(c)
      PROVE UNCHANGED Executor!vars
  BY <1>10 DEF StopCheck, CheckBarrier, StopWake, Shutdown, Join, flags
<1>11. CASE LoopStarts \/ LoopTop \/ LoopWakes \/ LoopCounts \/ LoopPollsIO \/ LoopHandles \/ QueueDrained
  BY <1>11 DEF LoopStarts, LoopTop, LoopWakes, LoopCounts, LoopPollsIO, LoopHandles,
     QueueDrained, flags
<1>12. CASE UNCHANGED vars
  BY <1>12 DEF vars, flags
<1> QED
  BY <1>2, <1>3, <1>4, <1>5, <1>6, <1>7, <1>8, <1>9, <1>10, <1>11, <1>12
     DEF Next, CallerStep, LoopStep, LoopUserCalls

\* The event loop implements the executor of TaskExecutor, progress apart: tasks
\* run in the order of acceptance, each once, and none after the loop is closed.
THEOREM LoopRefinesExecutor == Spec => ExecutorSafety
<1>1. Init => Executor!Init
  BY DEF Init, Executor!Init
<1>2. IInv /\ [Next]_vars => [Executor!Next]_(Executor!vars)
  BY ExecutorStep
<1> QED
  BY Invariance, <1>1, <1>2, PTL DEF Spec, ExecutorSafety
=============================================================================

# A TLA+ verification of py-netty

py-netty is an event-driven TCP library in the style of Netty: event loops on
threads of a pool, channels over non-blocking sockets, handlers that are told
what happens, futures that say how it ended. This directory holds TLA+ modules
for its concurrent and re-entrant core, for its servers, and for the runner that
measures it, the TLC runs that check them, and TLAPS proofs about seven of the
modules. File names without a directory are those of `src/py_netty/`.

## 1. The system

| Part | State | Operations |
|---|---|---|
| Wake-up device (`eventfd.py`) | a pipe, `_unsafe_counts`, `_closed`, a lock | `unsafe_write`, `unsafe_read`, `close` |
| Event flag (`eventfd.py`) | `_flag`, the same pipe | `set`, `clear`, `wait` |
| Event loop (`eventloop.py`) | `_taskq`, `_stop_polling`, `_closed`, `_start_barrier`, `_lock`, the selector, `_channels`, `_connect_timeout_due_millis` | `submit_task`, `start`, `stop`, `register`, `unregister`, `modify_flag`; the rounds of `_start` |
| Event loop group (`eventloop.py`) | a thread pool, its loops, a round robin | `get_eventloop`, `__exit__` |
| Client channel (`channel.py`) | socket, `_flag`, `_active`, `_ever_active`, three futures, `_pendings`, `_pending_bytes`, `_writable`, `_auto_read` | `write`, `close`, `set_auto_read`, `recvall`, `try_send` |
| Server channel (`channel.py`) | a listening socket | `acceptall`, `close` |
| Bootstraps (`bootstrap.py`) | configuration | `connect`, `bind`, the acceptor |
| Handlers, contexts, futures, chunks | none of their own | callbacks, `fire_*`, `set`, `add_listener` |
| Echo performance runner (`../integration_tests/perf_echo.py`) | one record per run (event, counters, errors), one state per client | connect, send, receive, wait with a timeout, close, report; three engines |
| Benchmark script (`../bm_echo_server.py`) | counters it displays | none that matter to others |

How they interact:

- *Application threads and the loop thread* share the task queue, the stop flag,
  the start barrier, the lock and the wake-up device. Every call on a channel
  from another thread becomes a task.
- *The loop thread* polls, handles the events of the poll one by one, runs the
  task queue until it is empty, and closes channels whose connect deadline has
  passed.
- *Library and user code* alternate on the loop thread: futures run their
  listeners and state changes run handler methods synchronously, in the middle
  of the code that caused them, and those may write, close and connect again.
- *A server* has its channel on a loop of the parent group, whose thread accepts
  connections and registers each with a loop of the child group, which may be
  stopping. The application closes the channel and leaves both groups.
- *A channel* is known by its file descriptor in the selector, in `_channels`
  and in the deadlines. The kernel gives the number of a closed socket to the
  next one.

What is hard here, and what the properties are for (`PROJECT.json` has the list,
each item at its line):

1. Threads that start, feed and stop a loop at the same moment, with checks that
   are not atomic with what they protect, and a wake-up that is coalesced.
2. Re-entrancy: a send pass or a close continues after user code that changed
   the state it works on.
3. State that is keyed by a number which is reused.
4. Deadlines that race with answers; a future that nobody resolves.
5. A flag and a pipe that are changed one after the other without a lock.
6. A connection between the acceptor, a queue and a loop's table while the groups
   are being left.
7. Reading that stops after some rounds, with bytes or an end of the stream left.
8. A run whose timeout races with what its clients record, on several threads.

## 2. The modules

| Module | Models | Composition |
|---|---|---|
| `EventFD` | the wake-up device | extended by `EventLoop` |
| `EventLoop` | one loop, its thread and its callers | on top of `EventFD` |
| `TaskExecutor` | what a loop promises its callers (abstract) | `EventLoop` implements it |
| `EventFlag` | `set`, `clear`, `wait` | alone |
| `WritePath` | writing to and closing one connected channel | alone |
| `ChannelLifecycle` | client channels from connect to unregister | alone |
| `Acceptor` | a server: bind, acceptor, hand-over, closes, both groups | several loops, each what `TaskExecutor` promises |
| `Reading` | `recvall` and the READ event, plain and TLS | alone |
| `PerfEcho` | the three engines of the echo runner | alone |
| `EventLoopProofs`, `EventFlagProofs`, `WritePathProofs`, `ChannelLifecycleProofs`, `ReadingProofs`, `AcceptorProofs`, `PerfEchoProofs` | theorems | each extends its module |
| `WriteOrderProofs` | theorems about bytes, their order and the count | extends `WritePathProofs` |
| `MC...` | constants for TLC: symmetry, who may do what | one per module above |

### EventLoop and EventFD

Each application thread has a label `pc[c]` that names the next line it
executes, the loop thread has the label `loop`. A step is one access to state
that another thread can see at the same time. `Check`, `Ready`, `AcquireLock`,
`CheckLocked`, `Spawn`, `AwaitBarrier` are the lines of `start`; `Put` and `Wake`
end `submit_task`; `StopCheck`, `SetStop`, `CheckBarrier`, `StopWake` are `stop`;
`Shutdown` and `Join` end `EventLoopGroup.__exit__`; `CallerCleanup` and
`LoopCleanup` are `_cleanup_resources` on either thread, with its four stages;
`LoopStarts` to `QueueDrained` are the rounds of `_start`. `submit_task` looks at
the flags at its own first line and again in `start`; the two looks have nothing
between them that the other threads see, and are one step. `unsafe_read` is two
steps, because it reads before it takes the lock.

A task is a model value that runs once. What tasks and handlers do to the
channels of the loop is any change of the set `channels`. The loop thread itself
may submit tasks and stop the loop; such a call is one step, because its lines
commute with those of other threads until the loop looks at its queue again. A group is one loop on a pool
of one thread; a work item that `shutdown` finds in the pool still runs.

### WritePath

One connected channel; everything runs on the loop thread, so the *call stack*
is a variable and an action is what happens until the next callback. Its top is
a label of the library ("round", "complete", "sent" for a send pass; "fail",
"socket", "inactive", "unregister" for `_close_channel_internally`) or a kind of
user code. `_pendings` is a list object that a send pass names too (`chunks`,
while `aliased`) until it replaces its name by a copy; `fail_pendings` iterates
over the object while listeners may extend it. The socket takes any number of
bytes. A write is a number in the order of the calls with a length; its bytes are
counted, not named. `Allowed` says which calls user code makes where:
`TopLevel` from tasks, reads and writability handlers; `Everywhere` from listeners and from
callbacks of a close as well. Buffers are not empty in the runs.

### ChannelLifecycle

Two or three client channels of one loop. The selector is a function from
descriptors to a channel and its events, as the standard library's epoll
selector keeps it (with its errors: a key is dropped when its socket turns out to
be closed, a second registration of a descriptor is refused). A handled event is
a stack of frames too: "writable" and "readable" run `_check_channel_active`,
"activate", "answer", "undue" are `_activate_channel`, "fail" to "forget" are
`_close_channel_internally` with `unregister` inside it. `NextEvent` is the
`continue` that drops the rest of an event. Time is abstract: any set of
deadlines may have passed at the end of a round. What a channel sends is reduced
to none, some, or some up to a close chunk; the listeners of its writes are
`WritePath`'s. `OpenSocket` gives a new socket any
free descriptor, on a thread of its own; `Allowed` again says what user code
does where, and "stale" is any call on a channel that is closed.

### EventFlag

Threads that set, clear and wait, one label per line; `MaxBytes` bounds the pipe.

### Acceptor

A server on one parent loop, and child loops that it hands connections to in
turn. A loop is reduced to what its callers see of it: whether it is open,
stopping or has ended, its queue, and what is registered with it. `HandOver` and
`Choose` are the two halves of `register` for an accepted connection: the look
at the child loop and the entry into its queue, between which the group may be
left. `AcceptAll` activates the server channel and takes all that wait;
`WrapFails` and the refusing branch of `Choose` are the exceptions that
`channel_read` catches for one connection. `wrap_socket` closes the socket it
fails on; a connection that a stopping loop refuses, in `Choose` or in `RunTask`,
is closed by nobody: its socket becomes "refused", open but held by no part of the
server, until `Collect`, the cyclic garbage collector (the channel and its futures
refer to each other). `RunTask` executes a queued task, `Terminate` is a loop's end
with what it closes. The application binds, closes
by force or gracefully or not at all, waits, and leaves the groups in either
order: `Stop` for each loop, then `LeaveGroup`, which joins.

The parent and the child group are two groups here. Clients connect at any time
and do nothing else; a served connection is not closed by its peer.

### Reading

One channel with bytes that are counted. `record = 0` is a plain socket; a TLS
socket takes one record at a time from the kernel and keeps what `recv` did not
ask for. `Receive`, `ReceiveEnd`, `WouldBlock` and `Peek` are the ways through
one round of `recvall`, `AdaptiveBufsize` its buffer, `Handle` what the READ
event does with the result. The clock (a tenth of a second for a call, or a
hundredth for one `recv`, literals at `channel.py:388`) is any choice. The peer
sends, finishes or resets at any moment, between any two of these.

### PerfEcho

The main thread has a `phase`; a client of the py-netty engine is its buffer and
its counters, fed by callbacks, a client of the others has a state of its own.
`run` is the record that all share. `send_next` is modelled line by line
(`SendCheck`, `SendWrite`, `SendLoad`, `SendStore`), as the main thread and a
loop thread may both be in it; what holds a lock is one step. A frame is `Size`
units and may arrive in any parts. A fault is a refused connection, one that
breaks, or a wrong echo. `Wait` is the timeout of py-netty, `Collect` that of the
threaded engine. An asyncio client that ends is "closing" until its connection is
closed (`WaitClosed`), which first sends what is still in the buffers; the peer need
not take it. `Gather` is the end of all clients in time, `CancelClients` the
timeout; the first client that has ended as cancelled ends the `gather` that
`wait_for` waits for, and `CancelAgain` cancels the others a second time.

## 3. What is checked

Passing runs:

| Run | Instance | States | Shows |
|---|---|---|---|
| `EventLoopSafety` | 3 callers, 2 tasks, 1 channel, symmetry | 262,534 | `NoLostWakeup`, `PollingIsSafe`, `ForeignCleanupFindsNoChannels`, `ResourcesReleased`, `StartedOnce`, `ExecutorSafety` |
| `EventLoopLiveness` | 2 callers, 2 tasks | 65,767 | `CallsReturn`, `StopTakesEffect`, `ImplementsExecutor` |
| `WritePathOrdered` | 3 writes of 1 or 2 bytes, 1 close chunk | 20,492 | `NoWriteForgotten`, `BytesAccountedFor`, `InterestWhilePending`, `NoGap`, `WritableWhenDrained`, `QueueAnswered` |
| `WritePathReentrant` | 3 writes, calls nested | 136,061 | `OkMeansSent`, `NoOvertaking`, `CloseInTurn`, `CloseGoesThrough` |
| `EventFlagPaired` | 1 setter, 1 clearer, 2 waiters | 396 | `PipeShowsFlag`, `RaisedFlagAwakens` |
| `LifecycleDisciplined` | 2 channels (1 with TLS), 2 descriptors, any outcome of `connect_ex` | 1,623,609 | `CallbackOrder`, `ViewsAgree`, `ActiveIsOpen` |
| `LifecycleAnswered` | the same, user code only closes | 81,961 | `ConnectAnswered` |
| `Acceptor` | 3 connections, 2 child loops, TLS | 21,723 | `OneHolder`, `NothingOutlivesItsGroup`, `ConnectionServed`, `ForcedCloseReturns` |
| `Reading` | 3 rounds, buffers of 1 to 4 bytes, 12 bytes, plain and TLS | 47,103 | `ClosedAfterAll`, `EndIsSeen`, `ArrivedIsRead` |
| `PerfEcho` | 2 connections, 3 frames of 2 units, 1 fault, six cases | 105,019 | `PassIsEarned`, `OnlyFaultsFailUnshared`, `ResultIsFinal`, `RunEndsOrFlushes` |

Each module's type invariant is checked as well: in `EventLoopSafety`,
`Acceptor`, `Reading` and `PerfEcho`, and for `WritePath` and `ChannelLifecycle`
in the configurations `WritePathLeak` and `LifecycleReuse` below; that of
`EventFlag` is part of its proof.

Why the bounds are enough to matter. Every check-then-act of the loop is a race of
two threads; the third caller sees what two racing ones leave behind, and two
tasks are what order and coalescing need. Three writes are the least with a
whole chunk, a split chunk and a chunk behind it; with a high water mark of a few
bytes a batch ends before, at and after a chunk. Two descriptors for three
channels force a reuse while another channel is alive; nesting is bounded to what
one callback inside another needs, as each level meets the same code. With two
child loops and three connections the turn comes round while the first loop is
stopping; a batch of three has one connection before, at and after one that
fails. In `Reading` a record is longer than the largest buffer, the buffer can
be doubled and halved, and twelve bytes do not fit into three rounds. In
`PerfEcho` three frames have a first, a middle and a last one, and two units
make partial frames; one fault is enough because each one already ends the run.

Three pairs of properties differ by what the code does not keep:

- `ActiveIsOpen` says of `channel_active` that the socket is open and its connect
  neither under way nor reported as failed, `ActiveIsConnected` that it is
  connected. A connect that fails inside `connect_ex` tells them apart.
- `RaisedFlagAwakens` is about a flag that stays up, `SetAwakensWaiters` about every
  `set()`: a `clear()` may take the byte before the waiter's `select` returns.
- `RunEnds` says that a run of the echo runner ends, `RunEndsOrFlushes` that it does
  or is an asyncio run whose cancelled clients wait for a peer that does not read.

`LifecycleDisciplined` leaves out what other runs show to go wrong: connecting from
a callback, closing by force in `channel_registered` or
`channel_handshake_complete`, and calls on a closed channel. `WritePathOrdered`
leaves out writing and closing from listeners and close callbacks, for the same
reason; `QueueAnswered` only says there that a close is reached, and `CloseInTurn`,
under calls from everywhere, that it is not before the writes queued in front of it
are sent to the last byte.

What the code does not keep (each run finds the trace, and `PROJECT.json` quotes
what is said of the code):

| Run | Property | In short |
|---|---|---|
| `WritePathCrash` | `LoopSurvives` | a listener's forced close during a send pass ends the loop thread with `InvalidStateError` |
| `LifecycleReconnect` | `ConnectAnswered` | a connect from `channel_unregistered` is never answered |

More configurations stand beside them. They are not part of the regular runs.
`LifecycleReuse` passes: it checks three channels on two descriptors
(478,034 states, symmetry). The others stop with the trace of another
disagreement with a document of the repository, which the table then names, or of
something the code does and nobody promised otherwise:

| Configuration | Property | In short |
|---|---|---|
| `EventFlagClearedEarly` | `SetAwakensWaiters` | a waiter sleeps on although `set()` was called, because `clear()` was first at the pipe (docstring, `eventfd.py:67`) |
| `EventFlagWait` | `WaitReturnsTrue` | `wait()` without a timeout returns False (docstring, `eventfd.py:86`) |
| `LifecycleOverdue` | `ConnectAnswered` | a connect from the listener of one that timed out loses its deadline with the old one (`../tests/test_eventloop.py:437`) |
| `LifecycleFalseConnect` | `ActiveIsConnected` | a connect that fails at once is reported as active (`../README.md:144`) |
| `LifecycleHandshakeClose` | `ActiveIsConnected` | `channel_active` on a channel closed in `channel_handshake_complete` (`../README.md:144`) |
| `LifecycleStaleEvent` | `ActiveIsConnected` | an event of a closed channel activates the one that was connected on its descriptor (`../README.md:144`) |
| `PerfEchoSequential` | `OnlyFaultsFail` | `send_next` on two threads sends a frame twice and fails a run without a fault (docstring, `../integration_tests/perf_echo.py:32`) |
| `PerfEchoOverrun` | `RunEnds` | a cancelled asyncio client waits for a peer that does not read, and the run does not end (docstring, `../integration_tests/perf_echo.py:32`) |
| `WritePathLeak` | `WritableWhenDrained` | a listener's write during a send pass is dropped, its bytes stay counted, the channel stays unwritable |
| `WritePathAfterClose` | `ClosedAnswersWrites` | a write after the close is never answered |
| `EventFlagTwoSetters` | `ClearedFlagBlocks` | a byte is left in the pipe with the flag down (docstring, `eventfd.py:40`) |
| `EventFlagTwoClearers` | `RaisedFlagAwakens` | a waiter sleeps although the flag is up (docstring, `eventfd.py:67`) |
| `LifecycleCloseTwice` | `CallbackOrder` | a second close unregisters the next owner of the descriptor |
| `LifecyclePaused` | `ClosedIsTold` | `channel_unregistered` is not invoked on a paused channel |
| `AcceptorGraceful` | `CloseReturns` | a graceful close of a server nobody has connected to is never done |
| `AcceptorRefused` | `NoRefusedSocket` | a connection that a stopping child loop refuses is left open |
| `AcceptorStranded` | `NoneStranded` | a connection put into the queue of a loop that has ended stays open |
| `ReadingStall` | `ArrivedIsDelivered` | bytes stay in the TLS layer until the peer sends again |
| `ReadingRounds` | `RoundsAreLimited` | the round count passes `_ROUNDS` after an `is_readable` |
| `PerfEchoBurst` | `BurstGoesOn` | a burst larger than the sockets hold stands still until the timeout |

Deadlock is not checked in the runs of the write path, the lifecycle, the server,
reading and the echo runner, which really come to an end, and in `EventFlagTwoClearers`, where
the threads really block on each other. The event loop is checked for it: while
callers are outside a call they can always make one.

### Fairness

- `EventLoop`: weak fairness of each caller's steps inside a call and of the loop
  thread's own steps, which is what the operating system's scheduler gives. No
  call has to be made, no I/O has to arrive, and user code on the loop thread may
  do what it likes as long as it returns.
- `WritePath`: callbacks return (strong fairness of `UserReturns`, as they may
  call the library in between), the library goes on, the selector reports a
  writable socket again and again, and a peer that reads makes room for at least
  a byte. `QueueAnswered` rests on the last one.
- `ChannelLifecycle`: callbacks return, the library goes on, and deadlines pass:
  every round of the loop looks at them, and `_poll_timeout` keeps it from
  sleeping past one by more than a second. The network need not answer; in
  `LifecycleOverdue` (`SilentSpec`) it never does.
- `EventFlag`: threads inside a call are scheduled.
- `Acceptor`: the loops are scheduled (weak fairness of `RunTask` and
  `Terminate` of each), the acceptor goes on, and the selector reports a
  listening socket with connections again and again (strong fairness of
  `AcceptAll`, as the loop may run a task in between). An application that has
  begun to close goes on; it need not begin, nobody has to connect, and nothing
  says when garbage is collected.
- `Reading`: the loop thread goes on; the peer need not send or end.
- `PerfEcho`: every thread goes on, timeouts pass, and a connect is answered:
  py-netty and the threaded engine give it a timeout, for asyncio the kernel gives
  up in the end. The server need not echo, and nobody has to read what a client
  sends: `WaitClosed` is only fair once nothing is left to send (`Flushed`).

## 4. What is proved

| Module | Theorem | States | Assumes |
|---|---|---|---|
| `EventLoopProofs` | see below | seven properties of `EventLoop` | `None` is neither a caller nor a task |
| `EventFlagProofs` | `PipeAgreesWithFlag`, `ClearedPipeIsEmpty` | `PipeShowsFlag`, `ClearedFlagBlocks` | one setter, one clearer |
| `WritePathProofs` | `PendingKeepsInterest` | `InterestWhilePending` | nothing about what user code calls where |
| `WriteOrderProofs` | `SuccessMeansSent`, `BytesInOrder`, `WriteTypes` | `OkMeansSent`, `NoOvertaking`, `TypeOK` | nothing about what user code calls where |
| `WriteOrderProofs` | `QueueIsCounted`, `DrainedIsWritable` | `BytesAccountedFor`, `WritableWhenDrained` | listeners make no calls (`QuietListeners`) |
| `WriteOrderProofs` | `NothingForgotten` | `NoWriteForgotten` | the same, and no empty buffers |
| `WriteOrderProofs` | `NoByteSkipped` | `NoGap` | nor do callbacks of a close (`Silent`) |
| `ChannelLifecycleProofs` | `LifecycleInvariance` | the inductive invariant | `Discipline`, see below |
| `ChannelLifecycleProofs` | `TablesAgree`, `CallbacksInOrder`, `ActiveMeansOpen` | `ViewsAgree`, `CallbackOrder`, `ActiveIsOpen` | `Discipline` |
| `ChannelLifecycleProofs` | `ActiveMeansConnected` | `ActiveIsConnected` | `Discipline`, and that no connect fails inside `connect_ex` |
| `ReadingProofs` | `ReadingTypeCorrect`, `NothingIsLeftBehind`, `EveryByteIsSomewhere` | `TypeOK`, `ClosedAfterAll`, `BytesAccountedFor` | limits of the buffer in order |
| `AcceptorProofs` | `AcceptorTypeCorrect`, `GroupsLeaveNothing`, `AcceptedOnceHeldOnce` | `TypeOK`, `NothingOutlivesItsGroup`, `OneHolder` | child loops distinct, and not the parent |
| `PerfEchoProofs` | `ResultComesLast`, `EchoTypes`, `PassesAreEarned` | `ResultIsFinal`, `TypeOK`, `PassIsEarned` | sizes and counts are positive numbers |
| `PerfEchoProofs` | `NothingElseFails` | `OnlyFaultsFailUnshared` | the same; the property itself is about runs with one sender per connection |

Constants are otherwise arbitrary. The bounds of the models (`MaxWrites`,
`MaxDepth`, `MaxBytes`, ...) are constants too, so a theorem holds for every
bound.

### The event loop

`EventLoopProofs` proves, for any sets of callers, tasks and channels, under the
one assumption that `None` is neither a caller nor a task:

- `Invariance`: `Spec => []IInv`, the inductive invariant;
- `TypeCorrect`, `WakeUpsAreNotLost`, `LoopPollsSafely`, `CallersCloseNoChannel`,
  `EverythingIsReleased`, `LoopStartsOnce`: the invariants of `EventLoopSafety`;
- `LoopRefinesExecutor`: `Spec => ExecutorSafety`, the safety part of the
  refinement of `TaskExecutor`.

None of the properties is inductive by itself. What they need:

- *the device* (`DeviceInv`): while it is open, the counter is the byte in the
  pipe plus the byte the loop has read and not counted, and at most one;
- *the start* (`StartInv`, `NotStartedInv`): a thread between the lock and the
  barrier holds the lock, the barrier is set once the loop thread runs, and
  before that there are no tasks and no channels, which is why a caller that
  cleans up has nothing to close;
- *the stop* (`StopInv`, `QuietInv`, `ReleaseInv`): each stage of a stop or of
  a cleanup implies the stages before it, nobody cleans up while the loop polls,
  and what is not released yet has a thread that will;
- *the wake-up* (`TaskWakeInv` and its companion for the stop): a loop that is
  going to block has a byte, or a thread between its change and its write. This
  is stated from the top of a round on, where `NoLostWakeup` speaks of the
  blocking `select` only.

For the refinement, `FreshInv` says that a task is in one place: with one
submitting thread, in the queue once, or done.

Each action has a step of its own for every part it can disturb, and a frame
lemma for the others.

### The event flag

`PairInv` says how many bytes the pipe holds in terms of the flag and of where
the setter and the clearer stand between their two lines; with a second thread
on either side the count no longer follows, which the two configurations show.

### The write path

`WritePathProofs` is about the call stack and about lists. `StackInv` says where
the label of a pass or of a close may stand; `Push`, `Pop` and `StaledSame` are
the lemmas about entering, leaving and marking frames. `FlagInv` extends
`InterestWhilePending` to the send pass, which may put its list back and so needs
the interest to be there although `_pendings` is empty meanwhile; it rests on
`OnePass`, that a pass never begins inside another. `ShapeInv` says that the queue
and the local list ascend, that a batch is the beginning of the local list, and
that the socket took no more of it than it holds.

`Total`, the bytes of a list, is a recursive function over the natural numbers.
What the proofs need of it (it grows with its list, it splits at an element, a
change of one chunk changes it by as much) is shown from the least counterexample,
with the library's theorem that `<` on the naturals is well founded.

`WriteOrderProofs` builds on this:

- *success* (`AccountInv`, `AwaitedInv`): of each write of a batch, what was sent
  and what is left make up its size, but for the credit of bytes the socket took
  and the pass has not distributed yet; so a chunk removed with nothing left was
  sent whole;
- *order* (`OrderInv`): nothing behind the first chunk of the list has been sent,
  and nothing is put in front of one that has;
- *the count* (`BytesInv`): while the channel is open, `_pending_bytes` is at least
  what is queued or in the list of a pass, and always exactly that if listeners
  are quiet. It is never negative,
  although a close resets it in the middle of a pass, because the socket takes
  nothing of a channel whose counter was reset;
- *nothing lost* (`QuietInv`, `DrainInv`, `KeptInv`, `GapInv`): with quiet
  listeners no frame lies above a pass but a listener, so the list a pass puts
  back is the list it took.

The hypotheses are needed. What a listener writes during a pass is dropped
(`WritePathLeak`), and a write from a callback of a close is queued for nobody
(`WritePathAfterClose`). An empty buffer that is not tried at once is neither
queued nor answered. The first four theorems ask nothing of user code.

### The client channels

`_channels` and the selector are not updated together, and user code runs between
the updates. `LifecycleInv` says what holds nevertheless, frame by frame:

- `Nesting`: which frame may lie under which; `channel_registered` has only `enter`
  under it, an activation only what is left of the event it belongs to, and so on;
- `FrameInv`: what the code of a frame relies on when it is reached again
  (`Relies`: whatever the tables hold under the descriptor of a channel that is on
  the stack is this channel; `Finds`: `unregister` finds the channel inactive,
  `activate` finds it never active);
- `Views`: the tables agree on every channel but those of the frames that still
  owe them an update;
- `Apart`: open sockets have descriptors of their own, the guarantee of the
  operating system that a closed descriptor loses and a new socket takes over;
- `Heard`: the stories a channel may have been told, with the frames that still
  have to tell an episode.

`Discipline` is what user code has to keep for it: connecting from tasks only, no
forced close in `channel_registered` or `channel_handshake_complete`, no call on a
channel that is closed. It says nothing about how a connect begins or ends.
`LifecycleReconnect`, `LifecycleStaleEvent`, `LifecycleHandshakeClose` and
`LifecycleCloseTwice` show what goes wrong without each part of it.
`LifecycleDisciplined` checks an instance that keeps it. Under it an active channel
is open, and its connect neither under way nor reported as failed
(`ActiveMeansOpen`). That it is connected, which is what the callback promises,
needs a second hypothesis, `"unconnected" \notin Outcomes` (`ActiveMeansConnected`):
the code ignores the result of `connect_ex`, and `LifecycleFalseConnect` shows what
follows. That a process has
finitely many descriptors is the assumption of the module on `Fds`.

### Reading

`BytesAccountedFor` is inductive with the types and with `EndInv`, which says
that `recvall` sees an end of the stream only with nothing before it left.

### The server

`QueueInv` gives each kind of loop its own tasks, `EndedInv` and `LeftInv` say what
a loop that has ended and a group that has been left hold. For `OneHolder`,
`HolderInv` says where every connection is and ties it to the state of its socket
(one that was refused is nowhere, and `OneHolder` does not claim it is closed);
it needs that queues and lists have no repetitions (`DistinctInv`), which for the
parent loop follows from what the application has done so far (`OnceInv`).
`TakeHead` and `AddLast` are the lemmas about sequences without repetition.

### The echo runner

`FinalInv` follows the main thread: while it closes channels one by one, those
behind it are quiet (`ClosedInv`), it is in `send_next` only while it sends
(`MainInv`), and a built result has no client left (`BuiltInv`). `EchoInv` follows
the frames:

- *the counters* (`CountInv`): `run.completed` and `run.received` are the sizes of
  the sets of clients that are complete (`Completed`) and of frames that were
  received (`Received`), so that a full count is a full set;
- *what is on its way* to a client is `Flight`, its buffer followed by its stream.
  Where one thread or task sends on a connection (`Alone`), it is no more than what
  was written and not received. Where the main thread and a callback of py-netty
  both send (`Shared`), the increment of `sent` may be lost and a frame sent twice,
  but no more than one frame is on its way, and what `sent` and both threads'
  copies of it can still come to is bounded by what was received (`Quota`). That
  keeps `sent` in its type;
- *a wrong echo is missed* (`DoomInv`): after one, unless an error is recorded,
  some client is `Doomed`: a wrong byte lies within the bytes it is still due, or
  its connection is gone with fewer than those. Neither can be made good, so the
  client is never complete;
- *failures are reported* (`ReportInv`): a failed connect is in `errors`, and a run
  that goes on to its end without a timeout was done, or has an error, by the
  rules of each engine.

`PassesAreEarned` puts these together: a pass makes every client complete, a
complete client is due nothing, so none is doomed and no echo was wrong.
`NothingElseFails` needs `CleanInv` as well: without a fault no connection breaks
while it is used (`Sound`), and `Flight` is exactly the frames written and not
received, byte for byte in order (`Exact`), so what a client takes is always the
frame it compares it with. The case of two senders is left out because it is false
there, as `PerfEchoSequential` shows.

### What is only model-checked

Liveness (everything with `~>`, `CallsReturn`, `StopTakesEffect`,
`RunEndsOrFlushes`, the fairness of the refinement), which is outside the prover's
reach; and `CloseInTurn`. Every other safety invariant and action property of a
passing run is stated by a theorem. The type invariants of
`WritePath` and of `ChannelLifecycle`, which no passing run lists, are proved under
the name `WriteTypes` and as far as the other theorems need it (`Shape`); that of
`EventFlag` for one thread that sets and one that clears. Theorems with a hypothesis
on user code say nothing beyond it; what goes wrong there is in the configurations
of the last tables of section 3.

## 5. What is not modelled

- Certificates, `ssl` contexts, address resolution, proxies: library code. The
  loop of `Bootstrap.connect` over resolved addresses is sequential code around
  them; what follows its outcome is in `ChannelLifecycle`.
- `exception_caught`: every `fire_*` catches what a handler raises and calls it;
  no state changes. Exceptions that escape to the loop thread are modelled where
  the library itself raises them (`crashed` in `WritePath`); the crash of the
  logging of a failed task (`inspect.getsource`) is not.
- Windows' `SocketEventFD`, which has the same operations over a socket pair.
- A `with` block left on the loop thread itself, which would join itself.
- Counters, logging and `_show_debug_info`, which nothing depends on.
- `bm_echo_server.py`: its handlers count what a timer displays.
- Of `perf_echo.py`, options, printing, and the echo servers it can start in its
  own process: the py-netty one is a server of `Acceptor`, and all of them are
  the environment of a client.

## 6. Plan

What is left, in this order:

1. The stop of a loop with open channels: `_cleanup_resources` over the table of
   `ChannelLifecycle`, callbacks included, and which futures are answered.
2. The rest of deadlines and events against reuse, of which `LifecycleOverdue` and
   `LifecycleStaleEvent` show two cases: that a change of interest reaches the
   channel it was meant for.
3. Server and client channels in one model, with peers that close what the
   acceptor has just handed over.
4. `Bootstrap.connect` over several addresses, with sockets closed on failure.
5. Proofs: `TypeOK` of `ChannelLifecycle` and what of `ViewsAgree` is left when
   user code does not keep to `Discipline`; `CloseInTurn`; the properties of 1
   and 2.

## 7. Running

    tlc -config EventLoopSafety.cfg MCEventLoop
    tlapm EventLoopProofs.tla     # and the other *Proofs modules

`X*.cfg` is for `MCX`: `EventLoop*.cfg` for `MCEventLoop`, and so for
`WritePath`, `EventFlag`, `Acceptor`, `Reading` and `PerfEcho`; `Lifecycle*.cfg` is
for `MCChannelLifecycle`. The configurations of the last two tables of section 3
stop with a trace.
